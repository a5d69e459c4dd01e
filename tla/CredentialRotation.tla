------------------------- MODULE CredentialRotation -------------------------
(* One linked character's EVE SSO credential: the esi_tokens row, the identity *)
(* provider that rotates refresh tokens, and everyone who writes the row.      *)
(*                                                                             *)
(* A refresh token is a grant (one consent of the pilot) and a turn (how often *)
(* it was rotated).  What the row holds, and what everyone compares, is not    *)
(* the token but its encryption, another one each time: a credential is a      *)
(* token and its seal (how often it was encrypted again).  A row that was      *)
(* revoked stays revoked, so only the newest row is kept; whoever remembers an *)
(* older ID finds it revoked.  The refreshers of one process take turns (its   *)
(* in-process lock), so a member of Callers is a process; nothing orders two   *)
(* processes, nor a Journey sampler.                                           *)
EXTENDS Naturals, FiniteSets

CONSTANTS
    Users,          \* accounts that may link the character
    Callers,        \* processes that refresh on behalf of a sync (esi_refresh.py)
    Samplers,       \* processes that refresh on behalf of Journey (journey_worker.py)
    MaxGrants,      \* bound: consents given
    MaxTurns,       \* bound: rotations of one grant
    MaxSeals        \* bound: times a token that was not rotated is encrypted again

ASSUME PartiesOK == /\ Callers \cap Samplers = {}
                    /\ MaxGrants \in Nat \ {0} /\ MaxTurns \in Nat /\ MaxSeals \in Nat

VARIABLES
    row,            \* esi_tokens: the newest row of the character
    permitted,      \* the account's role permits the scopes it consented to
    live,           \* the refresh tokens EVE SSO accepts
    flight,         \* an exchange in flight, per process
    link            \* an SSO callback between its read and its commit

credentialVars == <<row, permitted, live, flight, link>>

Tokens == [grant : 1..MaxGrants, turn : 0..MaxTurns]
Credentials == [grant : 1..MaxGrants, turn : 0..MaxTurns, seal : 0..MaxSeals]
Token(cred) == [grant |-> cred.grant, turn |-> cred.turn]

\* The first credential of a grant.
First(grant) == [grant |-> grant, turn |-> 0, seal |-> 0]

Newer(new, old) ==
    \/ new.grant > old.grant
    \/ new.grant = old.grant /\ new.turn > old.turn
    \/ new.grant = old.grant /\ new.turn = old.turn /\ new.seal > old.seal

Processes == Callers \cup Samplers

Idle == [pc |-> "idle", id |-> 1, user |-> CHOOSE u \in Users : TRUE,
         cred |-> First(1), new |-> First(1)]
NoLink == [open |-> FALSE, user |-> CHOOSE u \in Users : TRUE, target |-> 0, grant |-> 1]

Land(x) == flight' = [flight EXCEPT ![x] = Idle]
At(x, pc) == flight' = [flight EXCEPT ![x].pc = pc]

\* The row is still what the exchange started from.
SameHolder(f) == row.id = f.id /\ ~row.revoked /\ row.user = f.user

-----------------------------------------------------------------------------
(* The identity provider *)

\* A live token buys an access token; with it comes no refresh token, the same one, which
\* is encrypted again, or the next one, and the old one is dead from then on.
Sold(f) ==
    IF Token(f.cred) \notin live THEN {}
    ELSE {f.cred}
         \cup {[f.cred EXCEPT !.seal = s] : s \in {f.cred.seal + 1} \cap 0..MaxSeals}
         \cup {[f.cred EXCEPT !.turn = t, !.seal = 0] : t \in {f.cred.turn + 1} \cap 0..MaxTurns}
Accepted(f, new) == (live \ {Token(f.cred)}) \cup {Token(new)}

Answer(x) ==
    /\ flight[x].pc = "asked"
    /\ \E new \in Sold(flight[x]) :
          /\ flight' = [flight EXCEPT ![x].pc = "answered", ![x].new = new]
          /\ live' = Accepted(flight[x], new)
    /\ UNCHANGED <<row, permitted, link>>

\* The answer is lost, or it refuses the token; the token may have been rotated all the same.
Unanswered(x) ==
    /\ flight[x].pc = "asked"
    /\ \/ UNCHANGED live
       \/ \E new \in Sold(flight[x]) : live' = Accepted(flight[x], new)

-----------------------------------------------------------------------------
(* A refresher *)

\* What an exchange remembers of the row it started from.
Started(pc) == [pc |-> pc, id |-> row.id, user |-> row.user, cred |-> row.cred, new |-> row.cred]

Snapshot(x) ==
    /\ flight[x].pc = "idle" /\ ~row.revoked /\ permitted
    /\ flight' = [flight EXCEPT ![x] = Started("asked")]
    /\ UNCHANGED <<row, permitted, live, link>>

GiveUp(x) ==
    /\ Unanswered(x)
    /\ Land(x)
    /\ UNCHANGED <<row, permitted, link>>

\* Mutant: the row is not compared with the credential the exchange started from.
Persistable_AnyCredential(f) == SameHolder(f) /\ permitted

Persistable(f) == SameHolder(f) /\ row.cred = f.cred /\ permitted

\* One transaction under the row's lock; refused, the answer is dropped.
Persist(c) ==
    /\ flight[c].pc = "answered"
    /\ row' = IF Persistable(flight[c]) THEN [row EXCEPT !.cred = flight[c].new] ELSE row
    /\ Land(c)
    /\ UNCHANGED <<permitted, live, link>>

\* NOWAIT: someone else's transaction holds the row, the answer is dropped.
Busy(c) ==
    /\ flight[c].pc = "answered"
    /\ Land(c)
    /\ UNCHANGED <<row, permitted, live, link>>

Die(x) ==
    /\ flight[x].pc # "idle"
    /\ Land(x)
    /\ UNCHANGED <<row, permitted, live, link>>

\* Mutant: a sampler's rotation is not retained once the account may not use it.
Swappable_WhilePermitted(f) == SameHolder(f) /\ row.cred = f.cred /\ permitted

\* A sampler's compare-and-set UPDATE, which asks for no permission.
Swappable(f) == SameHolder(f) /\ row.cred = f.cred

Swapped(f) == IF Swappable(f) THEN [row EXCEPT !.cred = f.new] ELSE row

Swap(p) ==
    /\ flight[p].pc = "answered"
    /\ row' = Swapped(flight[p])
    /\ Land(p)
    /\ UNCHANGED <<permitted, live, link>>

-----------------------------------------------------------------------------
(* The pilot and the account *)

Unlink ==
    /\ ~row.revoked
    /\ row' = [row EXCEPT !.revoked = TRUE]
    /\ UNCHANGED <<permitted, live, flight, link>>

\* The callback exchanged a new grant and has looked for an authorization to update.
BeginLink(u) ==
    /\ ~link.open /\ permitted
    /\ \E grant \in 2..MaxGrants :
          /\ grant > row.cred.grant /\ \A token \in live : grant > token.grant
          /\ link' = [open |-> TRUE, user |-> u, target |-> IF row.revoked THEN 0 ELSE row.id,
                      grant |-> grant]
          /\ live' = live \cup {Token(First(grant))}
    /\ UNCHANGED <<row, permitted, flight>>

\* Mutant: an existing authorization changes hands and keeps its old credential.
SaveLink_AccountOnly ==
    /\ link.open
    /\ LET cred == First(link.grant) IN
       row' = IF link.target = 0
              THEN [id |-> row.id + 1, cred |-> cred, revoked |-> FALSE, user |-> link.user]
              ELSE [row EXCEPT !.user = link.user]
    /\ link' = NoLink
    /\ UNCHANGED <<permitted, live, flight>>

SaveLink ==
    /\ link.open
    /\ LET cred == First(link.grant) IN
       row' = IF link.target = 0
              THEN [id |-> row.id + 1, cred |-> cred, revoked |-> FALSE, user |-> link.user]
              ELSE [row EXCEPT !.cred = cred, !.user = link.user]
    /\ link' = NoLink
    /\ UNCHANGED <<permitted, live, flight>>

\* The account's role, or its access to the section, is taken away.
LoseRole ==
    /\ permitted /\ permitted' = FALSE
    /\ UNCHANGED <<row, live, flight, link>>

-----------------------------------------------------------------------------

CredentialInit ==
    /\ \E u \in Users :
          row = [id |-> 1, cred |-> First(1), revoked |-> FALSE, user |-> u]
    /\ permitted = TRUE
    /\ live = {Token(row.cred)}
    /\ flight = [x \in Processes |-> Idle]
    /\ link = NoLink

Exchange(x) == Snapshot(x) \/ Answer(x) \/ GiveUp(x) \/ Die(x)
Refresh(c) == Exchange(c) \/ Persist(c) \/ Busy(c)
Account == (\E u \in Users : BeginLink(u)) \/ SaveLink \/ LoseRole

CredentialNext ==
    \/ \E c \in Callers : Refresh(c)
    \/ \E p \in Samplers : Exchange(p) \/ Swap(p)
    \/ Unlink \/ Account

CredentialSpec == CredentialInit /\ [][CredentialNext]_credentialVars

-----------------------------------------------------------------------------
(* Properties *)

CredentialOK(steps) ==
    /\ row \in [id : 1..MaxGrants, cred : Credentials, revoked : BOOLEAN, user : Users]
    /\ permitted \in BOOLEAN
    /\ live \subseteq Tokens
    /\ flight \in [Processes -> [pc : steps, id : 1..MaxGrants, user : Users,
                                  cred : Credentials, new : Credentials]]
    /\ link \in [open : BOOLEAN, user : Users, target : 0..MaxGrants, grant : 1..MaxGrants]

\* Types, and that whoever exchanges the row's credential knows the row and its account.
CredentialsOK ==
    /\ CredentialOK({"idle", "asked", "answered"})
    /\ \A x \in Processes : flight[x].pc # "idle" /\ flight[x].cred = row.cred =>
          flight[x].id = row.id /\ flight[x].user = row.user

\* Two processes rotate one credential while accounts link and unlink: the row moves to a
\* later turn or another encryption of the token it holds, or to a new grant, never back.
CredentialMovesForward ==
    [][row'.cred # row.cred => /\ Newer(row'.cred, row.cred)
                               /\ SaveLink \/ row'.cred.grant = row.cred.grant]_credentialVars
=============================================================================
