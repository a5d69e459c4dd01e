----------------------- MODULE JourneyTrackingProofs -----------------------
(* Proofs about JourneyTracking: any number of samplers, of processes that     *)
(* refresh the same credential, of accounts, consents and rotations.           *)
EXTENDS JourneyTracking, TLAPS

\* What CredentialRotationProofs proves of the rotation holds of a sampler's exchanges.
R == INSTANCE CredentialRotationProofs WITH flight <- Exchanging, lost <- broken

Columns == {"enabled", "visit", "lease"}
Trackers == [enabled : BOOLEAN, due : BOOLEAN, lease : Samplers \cup {None},
             lapsed : BOOLEAN, visit : {"none", "recent", "old"}]
Flights == [pc : Steps, id : 1..MaxGrants, user : Users, cred : Credentials, new : Credentials]

Working(p) == flight[p].pc \notin {"idle", "claimed"}

\* Types, apart from those CredentialRotation gives the row, the tokens and the link.
Polls == flight \in [Processes -> Flights]
Trackings == tracker \in Trackers /\ (tracker.lapsed => tracker.lease # None) /\ kept \in BOOLEAN
Histories ==
    /\ consented \subseteq {p \in Samplers : Working(p)}
    /\ broken \in BOOLEAN /\ overtaken \in BOOLEAN

\* What a request may still write: switching on, it clears a lease and a visit that are there,
\* and nobody can take a lease or store a sighting before it is saved; switching off a
\* tracker that is off, it leaves it off.
Pending ==
    /\ settings \in Forms /\ erasure \in Forms /\ ~erasure.on
    /\ settings.open /\ settings.on /\ "enabled" \in settings.writes =>
          /\ ~tracker.enabled
          /\ "lease" \in settings.writes \/ tracker.lease = None
          /\ "visit" \in settings.writes \/ tracker.visit # "recent"
    /\ settings.open /\ ~settings.on /\ "enabled" \notin settings.writes => ~tracker.enabled

\* A sampler that could still store a sample under the authorization it read was
\* consented to, or the last withdrawal left the tracker on.
Consenting ==
    \A p \in Samplers : Working(p) =>
        /\ flight[p].id <= row.id
        /\ Owned(p) /\ ~row.revoked /\ flight[p].id = row.id => p \in consented \/ overtaken

\* A tracker that is on remembers no sighting from before an interruption.
Interruptions == broken /\ tracker.enabled => ~Continued

JInv == Polls /\ Trackings /\ Histories /\ Pending /\ Consenting /\ Interruptions
IInv == R!RInv /\ JInv

USE PartiesOK, OwnerOK

-----------------------------------------------------------------------------
(* The rotation *)

LEMMA RotationParties == R!PartiesOK
BY DEF R!PartiesOK

\* CredentialRotation read through Exchanging is the same specification from either module.
LEMMA SameInit == Rotation!CredentialInit <=> R!CredentialInit
BY DEF Rotation!CredentialInit, R!CredentialInit, Rotation!Idle, R!Idle, Rotation!NoLink, R!NoLink,
       Rotation!Processes, R!Processes, Rotation!First, R!First, Rotation!Token, R!Token

LEMMA SameExchange ==
    ASSUME NEW x
    PROVE  /\ Rotation!Snapshot(x) <=> R!Snapshot(x)
           /\ Rotation!Answer(x) <=> R!Answer(x)
           /\ Rotation!GiveUp(x) <=> R!GiveUp(x)
           /\ Rotation!Die(x) <=> R!Die(x)
           /\ Rotation!Persist(x) <=> R!Persist(x)
           /\ Rotation!Busy(x) <=> R!Busy(x)
           /\ Rotation!Swap(x) <=> R!Swap(x)
<1>1. Rotation!Idle = R!Idle
  BY DEF Rotation!Idle, R!Idle, Rotation!First, R!First
<1>2. \A f : Rotation!Sold(f) = R!Sold(f)
  BY DEF Rotation!Sold, R!Sold, Rotation!Token, R!Token
<1>3. \A f, new : Rotation!Accepted(f, new) = R!Accepted(f, new)
  BY DEF Rotation!Accepted, R!Accepted, Rotation!Token, R!Token
<1>4. \A pc : Rotation!Started(pc) = R!Started(pc)
  BY DEF Rotation!Started, R!Started
<1>5. \A f : Rotation!SameHolder(f) <=> R!SameHolder(f)
  BY DEF Rotation!SameHolder, R!SameHolder
<1>6. Rotation!Land(x) <=> R!Land(x)
  BY <1>1 DEF Rotation!Land, R!Land
<1>7. Rotation!Unanswered(x) <=> R!Unanswered(x)
  BY <1>2, <1>3 DEF Rotation!Unanswered, R!Unanswered
<1>8. \A f : Rotation!Persistable(f) <=> R!Persistable(f)
  BY <1>5 DEF Rotation!Persistable, R!Persistable
<1>9. \A f : Rotation!Swapped(f) = R!Swapped(f)
  BY <1>5 DEF Rotation!Swapped, R!Swapped, Rotation!Swappable, R!Swappable
<1>10. Rotation!Snapshot(x) <=> R!Snapshot(x)
  BY <1>4 DEF Rotation!Snapshot, R!Snapshot
<1>11. Rotation!Answer(x) <=> R!Answer(x)
  BY <1>2, <1>3 DEF Rotation!Answer, R!Answer
<1>12. (Rotation!GiveUp(x) <=> R!GiveUp(x)) /\ (Rotation!Die(x) <=> R!Die(x)) /\ (Rotation!Busy(x) <=> R!Busy(x))
  BY <1>6, <1>7 DEF Rotation!GiveUp, R!GiveUp, Rotation!Die, R!Die, Rotation!Busy, R!Busy
<1>13. Rotation!Persist(x) <=> R!Persist(x)
  BY <1>6, <1>8 DEF Rotation!Persist, R!Persist
<1>14. Rotation!Swap(x) <=> R!Swap(x)
  BY <1>6, <1>9 DEF Rotation!Swap, R!Swap
<1> QED BY <1>10, <1>11, <1>12, <1>13, <1>14

LEMMA SameAccount ==
    /\ Rotation!Unlink <=> R!Unlink
    /\ Rotation!Account <=> R!Account
<1>1. Rotation!NoLink = R!NoLink
  BY DEF Rotation!NoLink, R!NoLink
<1>2. \A u \in Users : Rotation!BeginLink(u) <=> R!BeginLink(u)
  BY DEF Rotation!BeginLink, R!BeginLink, Rotation!First, R!First, Rotation!Token, R!Token
<1>3. Rotation!SaveLink <=> R!SaveLink
  BY <1>1 DEF Rotation!SaveLink, R!SaveLink, Rotation!First, R!First
<1>4. Rotation!LoseRole <=> R!LoseRole
  BY DEF Rotation!LoseRole, R!LoseRole
<1> QED BY <1>2, <1>3, <1>4 DEF Rotation!Unlink, R!Unlink, Rotation!Account, R!Account

LEMMA SameNext == Rotation!CredentialNext <=> R!CredentialNext
BY SameExchange, SameAccount
   DEF Rotation!CredentialNext, R!CredentialNext, Rotation!Refresh, R!Refresh, Rotation!Exchange, R!Exchange

-----------------------------------------------------------------------------
(* One process moves *)

Moves(x, f) == f \in Flights /\ flight' = [flight EXCEPT ![x] = f]

\* What the rotation sees of an exchange.
Seen(f) == IF f.pc \in {"asked", "answered"} THEN f ELSE Idle

Stutters == UNCHANGED <<row, permitted, live, Exchanging, link>>

LEMMA MovesSeen ==
    ASSUME Polls, NEW x \in Processes, NEW f, Moves(x, f)
    PROVE  /\ Polls'
           /\ Exchanging' = [Exchanging EXCEPT ![x] = Seen(f)]
           /\ Exchanging[x] = Seen(flight[x])
           /\ flight'[x] = f /\ \A y \in Processes : y # x => flight'[y] = flight[y]
<1>1. Polls' /\ flight'[x] = f /\ \A y \in Processes : y # x => flight'[y] = flight[y]
  BY DEF Polls, Moves
<1>2. Exchanging' = [y \in Processes |-> Seen(flight'[y])]
  BY DEF Exchanging, Seen, Idle
<1>3. Exchanging = [y \in Processes |-> Seen(flight[y])]
  BY DEF Exchanging, Seen
<1> QED BY <1>1, <1>2, <1>3

LEMMA Unseen ==
    ASSUME Polls, NEW x \in Processes, NEW f, Moves(x, f), Seen(f) = Seen(flight[x]),
           UNCHANGED <<row, permitted, live, link>>
    PROVE  Stutters
<1>1. Exchanging' = [Exchanging EXCEPT ![x] = Exchanging[x]]
  BY MovesSeen
<1>2. Exchanging' = Exchanging
  BY <1>1 DEF Exchanging
<1> QED BY <1>2 DEF Stutters

LEMMA ToStep ==
    ASSUME Polls, NEW x \in Processes, NEW pc \in Steps, At(x, pc)
    PROVE  \E f \in Flights : /\ Moves(x, f) /\ f.pc = pc /\ f.id = flight[x].id
                              /\ f = [flight[x] EXCEPT !.pc = pc]
<1>1. PICK f \in Flights : f = [flight[x] EXCEPT !.pc = pc]
  <2>1. [flight[x] EXCEPT !.pc = pc] \in Flights
    BY DEF Polls, Flights
  <2> QED BY <2>1
<1>2. f.pc = pc /\ f.id = flight[x].id
  BY <1>1 DEF Polls, Flights
<1>3. Moves(x, f)
  BY <1>1 DEF At, Moves
<1> QED BY <1>1, <1>2, <1>3

LEMMA IdleSeen == ASSUME IInv PROVE Idle \in Flights /\ Idle.pc = "idle" /\ Seen(Idle) = Idle
<1>1. (CHOOSE u \in Users : TRUE) \in Users
  BY DEF IInv, R!RInv, R!RowOK
<1> QED BY <1>1 DEF Idle, Flights, Steps, Credentials, First, Seen

LEMMA Landing ==
    ASSUME IInv, NEW x \in Processes, Land(x)
    PROVE  \E f \in Flights : Moves(x, f) /\ f = Idle
BY IdleSeen DEF Land, Moves

LEMMA RowTypes ==
    ASSUME R!RInv
    PROVE  /\ row \in [id : 1..MaxGrants, cred : Credentials, revoked : BOOLEAN, user : Users]
           /\ live \subseteq Tokens
           /\ permitted \in BOOLEAN
           /\ link \in [open : BOOLEAN, user : Users, target : 0..MaxGrants, grant : 1..MaxGrants]
BY DEF R!RInv, R!RowOK, R!LinkOK, R!Credentials, Credentials, R!Tokens, Tokens

LEMMA FromRow ==
    ASSUME IInv, NEW x \in Processes, NEW pc \in Steps, flight' = [flight EXCEPT ![x] = Started(pc)]
    PROVE  \E f \in Flights : Moves(x, f) /\ f = Started(pc) /\ f.pc = pc /\ f.id = row.id
<1>1. PICK f \in Flights : f = Started(pc)
  <2>1. Started(pc) \in Flights
    BY RowTypes DEF IInv, Started, Flights
  <2> QED BY <2>1
<1> QED BY <1>1 DEF Moves, Started

LEMMA ToAnswer ==
    ASSUME IInv, NEW x \in Processes, Answer(x)
    PROVE  \E new \in Sold(flight[x]), f \in Flights :
              /\ Moves(x, f) /\ f.pc = "answered" /\ f.id = flight[x].id
              /\ f = [flight[x] EXCEPT !.pc = "answered", !.new = new]
              /\ live' = Accepted(flight[x], new)
<1>1. PICK new \in Sold(flight[x]) :
          /\ flight' = [flight EXCEPT ![x] = [flight[x] EXCEPT !.pc = "answered", !.new = new]]
          /\ live' = Accepted(flight[x], new)
  BY DEF Answer
<1> DEFINE c == flight[x].cred
<1>2. flight[x] \in Flights /\ c \in Credentials
  BY DEF IInv, JInv, Polls, Flights
<1>3. ASSUME NEW d \in Credentials
      PROVE  /\ \A t \in 0..MaxTurns : [d EXCEPT !.turn = t, !.seal = 0] \in Credentials
             /\ \A t \in 0..MaxSeals : [d EXCEPT !.seal = t] \in Credentials
  <2>1. 0 \in 0..MaxSeals
    OBVIOUS
  <2> QED BY <2>1 DEF Credentials
<1> HIDE DEF c
<1>4. new \in Credentials
  <2>1. \/ new = c
        \/ \E t \in 0..MaxTurns : new = [c EXCEPT !.turn = t, !.seal = 0]
        \/ \E t \in 0..MaxSeals : new = [c EXCEPT !.seal = t]
    BY DEF Sold, c
  <2> QED BY <1>2, <1>3, <2>1
<1>5. PICK f \in Flights : f = [flight[x] EXCEPT !.pc = "answered", !.new = new]
  <2>1. [flight[x] EXCEPT !.pc = "answered", !.new = new] \in Flights
    BY <1>2, <1>4 DEF Flights, Steps
  <2> QED BY <2>1
<1>6. f.pc = "answered" /\ f.id = flight[x].id
  BY <1>2, <1>5 DEF Flights
<1> QED BY <1>1, <1>5, <1>6 DEF Moves

-----------------------------------------------------------------------------
(* Every step is a step of the rotation, or none *)

Rotates == R!CredentialNext \/ Stutters

LEMMA SameSales ==
    /\ \A f : R!Sold(f) = Sold(f)
    /\ \A f, new : R!Accepted(f, new) = Accepted(f, new)
    /\ \A f : R!SameHolder(f) <=> SameHolder(f)
    /\ \A f : R!Swapped(f) = Swapped(f)
    /\ \A f : R!Persistable(f) <=> Persistable(f)
    /\ \A pc : R!Started(pc) = Started(pc)
    /\ R!Idle = Idle
    /\ R!Processes = Processes
<1>1. /\ \A f : R!Sold(f) = Sold(f)
      /\ \A f, new : R!Accepted(f, new) = Accepted(f, new)
  BY DEF R!Sold, Sold, R!Accepted, Accepted, R!Token, Token
<1>2. \A f : R!SameHolder(f) <=> SameHolder(f)
  BY DEF R!SameHolder, SameHolder
<1>3. \A f : R!Swapped(f) = Swapped(f)
  BY <1>2 DEF R!Swapped, Swapped, R!Swappable, Swappable
<1>4. \A f : R!Persistable(f) <=> Persistable(f)
  BY <1>2 DEF R!Persistable, Persistable
<1>5. (\A pc : R!Started(pc) = Started(pc)) /\ R!Idle = Idle /\ R!Processes = Processes
  BY DEF R!Started, Started, R!Idle, Idle, R!Processes, Processes, R!First, First
<1> QED BY <1>1, <1>2, <1>3, <1>4, <1>5

LEMMA ExchangeRotates ==
    ASSUME NEW x \in Processes, R!Snapshot(x) \/ R!Answer(x) \/ R!GiveUp(x) \/ R!Die(x)
    PROVE  Rotates
BY DEF Rotates, R!CredentialNext, R!Refresh, R!Exchange, Processes

LEMMA AnswerRotates == ASSUME IInv, NEW x \in Processes, Answer(x) PROVE Rotates
<1>1. PICK new \in Sold(flight[x]), f \in Flights :
          /\ Moves(x, f) /\ f.pc = "answered"
          /\ f = [flight[x] EXCEPT !.pc = "answered", !.new = new]
          /\ live' = Accepted(flight[x], new)
  BY ToAnswer
<1>2. Exchanging[x] = flight[x] /\ Exchanging' = [Exchanging EXCEPT ![x] = f]
  BY <1>1, MovesSeen DEF Answer, Seen, IInv, JInv
<1>3. Exchanging' = [Exchanging EXCEPT ![x].pc = "answered", ![x].new = new]
  BY <1>1, <1>2
<1>4. R!Answer(x)
  BY <1>1, <1>2, <1>3, SameSales DEF Answer, R!Answer
<1> QED BY <1>4, ExchangeRotates

\* Whatever it does next, a sampler whose answer is lost or refused has given the exchange up.
LEMMA UnansweredRotates ==
    ASSUME IInv, NEW x \in Processes, Unanswered(x), NEW f \in Flights, Moves(x, f), Seen(f) = Idle,
           UNCHANGED <<row, permitted, link>>
    PROVE  Rotates
<1>1. Exchanging[x] = flight[x] /\ Exchanging' = [Exchanging EXCEPT ![x] = Idle]
  BY MovesSeen DEF Unanswered, Seen, IInv, JInv
<1>2. R!GiveUp(x)
  BY <1>1, SameSales DEF Unanswered, R!Unanswered, R!GiveUp, R!Land
<1> QED BY <1>2, ExchangeRotates

LEMMA LeavingRotates ==
    ASSUME IInv, NEW x \in Processes, NEW f \in Flights, Moves(x, f), Seen(f) = Idle,
           UNCHANGED <<row, permitted, live, link>>
    PROVE  Rotates
<1>1. Exchanging[x] = Seen(flight[x]) /\ Exchanging' = [Exchanging EXCEPT ![x] = Idle]
  BY MovesSeen DEF IInv, JInv
<1>2. CASE flight[x].pc \in {"asked", "answered"}
  <2>1. R!Die(x)
    BY <1>1, <1>2, SameSales DEF Seen, R!Die, R!Land
  <2> QED BY <2>1, ExchangeRotates
<1>3. CASE flight[x].pc \notin {"asked", "answered"}
  BY <1>3, Unseen DEF Seen, Rotates, IInv, JInv
<1> QED BY <1>2, <1>3

LEMMA LandingRotates ==
    ASSUME IInv, NEW x \in Processes, Land(x), UNCHANGED <<row, permitted, live, link>>
    PROVE  Rotates
BY Landing, LeavingRotates, IdleSeen

LEMMA AskingRotates ==
    ASSUME IInv, NEW x \in Processes, flight[x].pc \in {"idle", "claimed"}, ~row.revoked, permitted,
           flight' = [flight EXCEPT ![x] = Started("asked")], UNCHANGED <<row, permitted, live, link>>
    PROVE  Rotates
<1>1. PICK f \in Flights : Moves(x, f) /\ f = Started("asked") /\ f.pc = "asked"
  BY FromRow DEF Steps
<1>2. Exchanging[x] = Idle /\ Exchanging' = [Exchanging EXCEPT ![x] = f]
  BY <1>1, MovesSeen DEF Seen, IInv, JInv
<1>3. R!Snapshot(x)
  BY <1>1, <1>2, SameSales, IdleSeen DEF R!Snapshot
<1> QED BY <1>3, ExchangeRotates

LEMMA SavingRotates ==
    ASSUME IInv, NEW p \in Samplers, flight[p].pc = "answered", row' = Swapped(flight[p]),
           NEW f \in Flights, Moves(p, f), Seen(f) = Idle, UNCHANGED <<permitted, live, link>>
    PROVE  Rotates
<1>1. p \in Processes
  BY DEF Processes
<1>2. Exchanging[p] = flight[p] /\ Exchanging' = [Exchanging EXCEPT ![p] = Idle]
  BY <1>1, MovesSeen DEF Seen, IInv, JInv
<1>3. R!Swap(p)
  BY <1>2, SameSales DEF R!Swap, R!Land
<1> QED BY <1>3 DEF Rotates, R!CredentialNext

\* A sync process does what CredentialRotation says.
LEMMA RefreshRotates == ASSUME IInv, NEW c \in Callers, Refresh(c) PROVE Rotates
<1>1. c \in Processes
  BY DEF Processes
<1>2. CASE Snapshot(c)
  BY <1>1, <1>2, AskingRotates DEF Snapshot
<1>3. CASE Answer(c)
  BY <1>1, <1>3, AnswerRotates
<1>4. CASE GiveUp(c)
  BY <1>1, <1>4, Landing, UnansweredRotates, IdleSeen DEF GiveUp
<1>5. CASE Die(c)
  BY <1>1, <1>5, LandingRotates DEF Die
<1>6. CASE Busy(c)
  BY <1>1, <1>6, LandingRotates DEF Busy
<1>7. CASE Persist(c)
  <2>1. Exchanging[c] = flight[c] /\ Exchanging' = [Exchanging EXCEPT ![c] = Idle]
    BY <1>1, <1>7, Landing, MovesSeen, IdleSeen DEF Persist, Seen, IInv, JInv
  <2>2. R!Persist(c)
    BY <1>7, <2>1, SameSales DEF Persist, R!Persist, R!Land
  <2> QED BY <2>2 DEF Rotates, R!CredentialNext, R!Refresh
<1> QED BY <1>2, <1>3, <1>4, <1>5, <1>6, <1>7 DEF Refresh, Exchange

LEMMA NobodyMoves == UNCHANGED flight => UNCHANGED Exchanging
BY DEF Exchanging, Idle

LEMMA AccountRotates == Unlink \/ Account => Rotates
<1>1. Unlink => R!Unlink
  BY NobodyMoves DEF Unlink, R!Unlink
<1>2. ASSUME NEW u \in Users, BeginLink(u) PROVE R!BeginLink(u)
  BY <1>2, NobodyMoves DEF BeginLink, R!BeginLink, R!First, First, R!Token, Token
<1>3. R!NoLink = NoLink
  BY DEF R!NoLink, NoLink
<1>4. SaveLink => R!SaveLink
  BY <1>3, NobodyMoves DEF SaveLink, R!SaveLink, R!First, First
<1>5. LoseRole => R!LoseRole
  BY NobodyMoves DEF LoseRole, R!LoseRole
<1> QED BY <1>1, <1>2, <1>4, <1>5 DEF Account, R!Account, Rotates, R!CredentialNext

-----------------------------------------------------------------------------
(* Every step keeps what is known of the tracker *)

Same == UNCHANGED <<tracker, kept, settings, erasure, broken, overtaken>>
SameRow == row'.id = row.id /\ row'.revoked = row.revoked

\* A process that is no sampler, that leaves, or that goes on with the authorization it read.
Aside(x, f) ==
    \/ x \notin Samplers /\ UNCHANGED consented
    \/ f.pc = "idle" /\ consented' = consented \ {x}
    \/ Working(x) /\ f.pc \notin {"idle", "claimed"} /\ f.id = flight[x].id /\ UNCHANGED consented

LEMMA AsideKeeps ==
    ASSUME JInv, NEW x \in Processes, NEW f, Moves(x, f), Aside(x, f), Same, SameRow
    PROVE  JInv'
<1>1. flight'[x] = f /\ (\A y \in Processes : y # x => flight'[y] = flight[y]) /\ Polls'
  BY MovesSeen DEF JInv
<1>2. Trackings' /\ Pending' /\ Interruptions'
  BY DEF Same, JInv, Trackings, Pending, Interruptions, Continued
<1>3. Histories'
  BY <1>1 DEF Same, Aside, JInv, Histories, Working, Processes
<1>4. Consenting'
  <2>1. ASSUME NEW q \in Samplers, Working(q)'
        PROVE  /\ flight'[q].id <= row'.id
               /\ Owned(q)' /\ ~row'.revoked /\ flight'[q].id = row'.id => q \in consented' \/ overtaken'
    <3>1. Owned(q)' <=> Owned(q)
      BY DEF Same, Owned
    <3>2. CASE q = x
      BY <1>1, <2>1, <3>1, <3>2 DEF Same, SameRow, Aside, JInv, Consenting, Working
    <3>3. CASE q # x
      BY <1>1, <2>1, <3>1, <3>3 DEF Same, SameRow, Aside, JInv, Consenting, Working, Processes
    <3> QED BY <3>2, <3>3
  <2> QED BY <2>1 DEF Consenting
<1> QED BY <1>1, <1>2, <1>3, <1>4 DEF JInv

\* The owner of the lease gives it back.
LEMMA OwnerKeeps ==
    ASSUME JInv, NEW p \in Samplers, Owned(p), NEW f, Moves(p, f), f.pc = "idle",
           tracker' \in Trackers, tracker'.lease = None, ~tracker'.lapsed, kept' \in BOOLEAN,
           consented' = consented \ {p}, broken' \in BOOLEAN,
           broken' => tracker'.visit # "recent",
           UNCHANGED <<row, settings, erasure, overtaken>>
    PROVE  JInv'
<1>1. /\ p \in Processes /\ flight'[p] = f /\ Polls'
      /\ \A y \in Processes : y # p => flight'[y] = flight[y]
  BY MovesSeen DEF JInv, Processes
<1>2. Trackings' /\ Interruptions'
  BY DEF Trackings, Interruptions, Continued
<1>3. Pending'
  BY DEF JInv, Pending, Owned
<1>4. Histories'
  BY <1>1 DEF JInv, Histories, Working, Processes
<1>5. Consenting'
  BY <1>1 DEF JInv, Consenting, Working, Owned, Processes
<1> QED BY <1>1, <1>2, <1>3, <1>4, <1>5 DEF JInv

LEMMA Release ==
    ASSUME NEW t \in Trackers, NEW u, u = Released(t)
    PROVE  u = [enabled |-> t.enabled, due |-> t.due, lease |-> None, lapsed |-> FALSE, visit |-> t.visit]
BY DEF Trackers, Released

\* What the three ways to give a lease back make of the tracker.
LEMMA SwitchedOff ==
    ASSUME Trackings, NEW u, u = Released([tracker EXCEPT !.enabled = FALSE, !.visit = "none"])
    PROVE  u = [enabled |-> FALSE, due |-> tracker.due, lease |-> None, lapsed |-> FALSE, visit |-> "none"]
<1>1. PICK t : t = [tracker EXCEPT !.enabled = FALSE, !.visit = "none"]
  OBVIOUS
<1>2. t = [enabled |-> FALSE, due |-> tracker.due, lease |-> tracker.lease, lapsed |-> tracker.lapsed,
           visit |-> "none"]
  BY <1>1 DEF Trackings, Trackers
<1>3. t \in Trackers
  BY <1>2 DEF Trackings, Trackers
<1> QED BY <1>1, <1>2, <1>3, Release

LEMMA Sampled ==
    ASSUME Trackings, NEW v \in {"none", "recent"}, NEW u,
           u = Released([tracker EXCEPT !.due = FALSE, !.visit = v])
    PROVE  u = [enabled |-> tracker.enabled, due |-> FALSE, lease |-> None, lapsed |-> FALSE, visit |-> v]
<1>1. PICK t : t = [tracker EXCEPT !.due = FALSE, !.visit = v]
  OBVIOUS
<1>2. t = [enabled |-> tracker.enabled, due |-> FALSE, lease |-> tracker.lease, lapsed |-> tracker.lapsed,
           visit |-> v]
  BY <1>1 DEF Trackings, Trackers
<1>3. t \in Trackers
  BY <1>2 DEF Trackings, Trackers
<1> QED BY <1>1, <1>2, <1>3, Release

LEMMA Failed ==
    ASSUME Trackings, NEW e \in BOOLEAN, NEW u, u = [Interrupted EXCEPT !.enabled = e]
    PROVE  u = [enabled |-> e, due |-> FALSE, lease |-> None, lapsed |-> FALSE, visit |-> "none"]
<1>1. PICK t : t = Interrupted
  OBVIOUS
<1>2. t = [enabled |-> tracker.enabled, due |-> FALSE, lease |-> None, lapsed |-> FALSE, visit |-> "none"]
  BY <1>1, Sampled DEF Interrupted
<1>3. u = [t EXCEPT !.enabled = e]
  BY <1>1
<1> QED BY <1>2, <1>3

LEMMA ClaimStep == ASSUME IInv, NEW p \in Samplers, Claim(p) PROVE Rotates /\ JInv'
<1>1. p \in Processes
  BY DEF Processes
<1>2. PICK f \in Flights : Moves(p, f) /\ f.pc = "claimed"
  BY <1>1, ToStep DEF Claim, Steps, IInv, JInv
<1>3. /\ flight'[p] = f /\ Polls'
      /\ \A y \in Processes : y # p => flight'[y] = flight[y]
  BY <1>1, <1>2, MovesSeen DEF IInv, JInv
<1>4. Seen(f) = Idle
  BY <1>2 DEF Seen
<1>5. Rotates
  BY <1>1, <1>2, <1>4, LeavingRotates DEF Claim
<1>6. tracker' = [enabled |-> tracker.enabled, due |-> tracker.due, lease |-> p, lapsed |-> FALSE,
                  visit |-> tracker.visit]
  BY DEF Claim, IInv, JInv, Trackings, Trackers
<1>7. Trackings' /\ Interruptions'
  BY <1>6 DEF Claim, IInv, JInv, Trackings, Trackers, Interruptions, Continued
<1>8. Pending'
  BY <1>6 DEF Claim, Claimable, requests, IInv, JInv, Pending
<1>9. Histories'
  BY <1>3 DEF Claim, IInv, JInv, Histories, Working, Processes
<1>10. Consenting'
  BY <1>2, <1>3, <1>6 DEF Claim, IInv, JInv, Consenting, Working, Owned, Processes
<1> QED BY <1>3, <1>5, <1>7, <1>8, <1>9, <1>10 DEF JInv

LEMMA LoadStep == ASSUME IInv, NEW p \in Samplers, Load(p) PROVE Rotates /\ JInv'
<1>1. p \in Processes /\ ~Working(p) /\ consented \ {p} = consented
  BY DEF Processes, Load, Working, IInv, JInv, Histories
<1>2. CASE ~Owned(p) /\ Land(p) /\ UNCHANGED <<tracker, consented, broken>>
  <2>1. PICK f \in Flights : Moves(p, f) /\ f = Idle
    BY <1>1, <1>2, Landing
  <2>2. Rotates
    BY <1>1, <1>2, LandingRotates DEF Load
  <2>3. JInv'
    BY <1>1, <1>2, <2>1, AsideKeeps, IdleSeen DEF Load, requests, Aside, Same, SameRow, IInv
  <2> QED BY <2>2, <2>3
<1>3. CASE /\ Owned(p) /\ ~Usable
           /\ tracker' = Released([tracker EXCEPT !.enabled = FALSE, !.visit = "none"])
           /\ broken' = TRUE
           /\ Land(p) /\ UNCHANGED consented
  <2>1. PICK f \in Flights : Moves(p, f) /\ f = Idle
    BY <1>1, <1>3, Landing
  <2>2. Rotates
    BY <1>1, <1>3, LandingRotates DEF Load
  <2>3. tracker' = [enabled |-> FALSE, due |-> tracker.due, lease |-> None, lapsed |-> FALSE, visit |-> "none"]
    BY <1>3, SwitchedOff DEF IInv, JInv
  <2>4. JInv'
    <3>1. /\ tracker' \in Trackers /\ tracker'.lease = None /\ ~tracker'.lapsed
          /\ kept' \in BOOLEAN /\ tracker'.visit # "recent"
      BY <2>3 DEF Load, IInv, JInv, Trackings, Trackers
    <3>2. f.pc = "idle" /\ consented' = consented \ {p}
      BY <1>1, <1>3, <2>1, IdleSeen
    <3> QED BY <1>3, <2>1, <3>1, <3>2, OwnerKeeps DEF Load, requests, IInv
  <2> QED BY <2>2, <2>4
<1>4. ASSUME NEW pc \in {"asked", "fetching"}, Owned(p), Usable, flight' = [flight EXCEPT ![p] = Started(pc)],
             consented' = consented \cup {p}, UNCHANGED <<tracker, broken>>
      PROVE  Rotates /\ JInv'
  <2>1. PICK f \in Flights : Moves(p, f) /\ f.pc = pc /\ f.id = row.id
    <3>1. pc \in Steps
      BY DEF Steps
    <3>2. flight' = [flight EXCEPT ![p] = Started(pc)]
      BY <1>4
    <3>3. \E f \in Flights : Moves(p, f) /\ f = Started(pc) /\ f.pc = pc /\ f.id = row.id
      BY <1>1, <3>1, <3>2, FromRow, Zenon
    <3> QED BY <3>3
  <2>2. /\ flight'[p] = f /\ Polls'
        /\ \A y \in Processes : y # p => flight'[y] = flight[y]
    BY <1>1, <2>1, MovesSeen DEF IInv, JInv
  <2>3. Rotates
    <3>1. CASE pc = "asked"
      BY <1>1, <1>4, <3>1, AskingRotates DEF Load, Usable
    <3>2. CASE pc = "fetching"
      BY <1>1, <2>1, <3>2, LeavingRotates DEF Load, Seen
    <3> QED BY <3>1, <3>2
  <2>4. Trackings' /\ Pending' /\ Interruptions'
    BY <1>4 DEF Load, requests, IInv, JInv, Trackings, Pending, Interruptions, Continued
  <2>5. Histories'
    BY <1>4, <2>1, <2>2 DEF Load, IInv, JInv, Histories, Working, Processes
  <2>6. row.id \in Nat
    BY RowTypes DEF IInv
  <2>7. Consenting'
    BY <1>4, <2>1, <2>2, <2>6 DEF Load, IInv, JInv, Consenting, Working, Owned, Processes
  <2> QED BY <2>2, <2>3, <2>4, <2>5, <2>7 DEF JInv
<1> QED BY <1>2, <1>3, <1>4 DEF Load

LEMMA AskedStep ==
    ASSUME IInv, NEW p \in Samplers, (Answer(p) /\ UNCHANGED journeyVars) \/ Lost(p)
    PROVE  Rotates /\ JInv'
<1>1. p \in Processes
  BY DEF Processes
<1>2. CASE Answer(p) /\ UNCHANGED journeyVars
  <2>1. PICK f \in Flights : Moves(p, f) /\ f.pc = "answered" /\ f.id = flight[p].id
    BY <1>1, <1>2, ToAnswer
  <2>2. Aside(p, f) /\ Same /\ SameRow
    BY <1>2, <2>1 DEF Answer, journeyVars, Aside, Same, SameRow, Working
  <2> QED BY <1>1, <1>2, <2>1, <2>2, AsideKeeps, AnswerRotates DEF IInv
<1>3. CASE Lost(p)
  <2>1. PICK f \in Flights : Moves(p, f) /\ f.pc = "failed" /\ f.id = flight[p].id
    BY <1>1, <1>3, ToStep DEF Lost, Steps, IInv, JInv
  <2>2. Aside(p, f) /\ Same /\ SameRow
    BY <1>3, <2>1 DEF Lost, Unanswered, journeyVars, Aside, Same, SameRow, Working
  <2>3. Seen(f) = Idle
    BY <2>1 DEF Seen
  <2> QED BY <1>1, <1>3, <2>1, <2>2, <2>3, AsideKeeps, UnansweredRotates DEF Lost, IInv
<1> QED BY <1>2, <1>3

LEMMA SwappedRow == R!RInv => /\ \A f : Swapped(f).id = row.id /\ Swapped(f).revoked = row.revoked
BY RowTypes DEF Swapped

LEMMA SaveRotationStep == ASSUME IInv, NEW p \in Samplers, SaveRotation(p) PROVE Rotates /\ JInv'
<1>1. p \in Processes /\ SameRow
  BY SwappedRow DEF Processes, SaveRotation, SameRow, IInv
<1>2. PICK f \in Flights : /\ Moves(p, f) /\ Seen(f) = Idle
                           /\ \/ f.pc = "idle" /\ consented' = consented \ {p}
                              \/ f.pc = "saved" /\ f.id = flight[p].id /\ UNCHANGED consented
  <2>1. CASE Swappable(flight[p])
    <3>1. PICK f \in Flights : Moves(p, f) /\ f.pc = "saved" /\ f.id = flight[p].id
      BY <1>1, <2>1, ToStep DEF SaveRotation, Steps, IInv, JInv
    <3> QED BY <2>1, <3>1 DEF SaveRotation, Seen
  <2>2. CASE ~Swappable(flight[p])
    BY <1>1, <2>2, Landing, IdleSeen DEF SaveRotation, Leave
  <2> QED BY <2>1, <2>2
<1>3. Rotates
  BY <1>2, SavingRotates DEF SaveRotation
<1>4. Aside(p, f) /\ Same
  BY <1>2 DEF SaveRotation, requests, Aside, Same, Working
<1> QED BY <1>1, <1>2, <1>3, <1>4, AsideKeeps DEF IInv

LEMMA RecheckStep == ASSUME IInv, NEW p \in Samplers, Recheck(p) PROVE Rotates /\ JInv'
<1>1. p \in Processes
  BY DEF Processes
<1>2. PICK f \in Flights : /\ Moves(p, f) /\ Seen(f) = Idle
                           /\ \/ f.pc = "idle" /\ consented' = consented \ {p}
                              \/ f.pc = "fetching" /\ f.id = flight[p].id /\ UNCHANGED consented
  <2>1. CASE Owned(p) /\ Usable /\ row.id = flight[p].id
    <3>1. PICK f \in Flights : Moves(p, f) /\ f.pc = "fetching" /\ f.id = flight[p].id
      BY <1>1, <2>1, ToStep DEF Recheck, Steps, IInv, JInv
    <3> QED BY <2>1, <3>1 DEF Recheck, Seen
  <2>2. CASE ~(Owned(p) /\ Usable /\ row.id = flight[p].id)
    BY <1>1, <2>2, Landing, IdleSeen DEF Recheck, Leave
  <2> QED BY <2>1, <2>2
<1>3. Rotates
  BY <1>1, <1>2, LeavingRotates DEF Recheck
<1>4. Aside(p, f) /\ Same /\ SameRow
  BY <1>2 DEF Recheck, requests, Aside, Same, SameRow, Working
<1> QED BY <1>1, <1>2, <1>3, <1>4, AsideKeeps DEF IInv

\* A poll that ends without a word: an answer that is dropped, a process that dies.
LEMMA DropStep ==
    ASSUME IInv, NEW p \in Samplers, Leave(p), Same, UNCHANGED <<row, permitted, live, link>>
    PROVE  Rotates /\ JInv'
<1>1. PICK f \in Flights : Moves(p, f) /\ f = Idle
  BY Landing DEF Leave, Processes
<1>2. Rotates
  BY LandingRotates DEF Leave, Processes
<1>3. JInv'
  BY <1>1, AsideKeeps, IdleSeen DEF Leave, Aside, SameRow, Processes, IInv
<1> QED BY <1>2, <1>3

LEMMA StoreStep ==
    ASSUME IInv, NEW p \in Samplers,
           ExtendVisit(p) \/ (\E gap \in BOOLEAN : BeginVisit(p, gap)) \/ SaveOffline(p)
    PROVE  Rotates /\ JInv'
<1>1. Owned(p) /\ Leave(p) /\ UNCHANGED <<row, permitted, live, link, settings, erasure, overtaken>>
  BY DEF ExtendVisit, BeginVisit, SaveSample, SaveOffline, Storable, requests
<1>2. kept' \in BOOLEAN
  BY DEF ExtendVisit, BeginVisit, SaveOffline, IInv, JInv, Trackings
<1>3. /\ tracker' \in Trackers /\ tracker'.lease = None /\ ~tracker'.lapsed
      /\ broken' \in BOOLEAN /\ (broken' => tracker'.visit # "recent")
  <2>1. Trackings
    BY DEF IInv, JInv
  <2>2. CASE SaveSample(p)
    <3>1. tracker' = [enabled |-> tracker.enabled, due |-> FALSE, lease |-> None, lapsed |-> FALSE, visit |-> "recent"]
      BY <2>1, <2>2, Sampled DEF SaveSample
    <3>2. broken' = FALSE
      BY <2>2 DEF SaveSample
    <3>3. tracker.enabled \in BOOLEAN
      BY <2>1 DEF Trackings, Trackers
    <3> QED BY <3>1, <3>2, <3>3 DEF Trackers
  <2>3. CASE SaveOffline(p)
    <3>1. tracker' = [enabled |-> tracker.enabled, due |-> FALSE, lease |-> None, lapsed |-> FALSE, visit |-> "none"]
      BY <2>1, <2>3, Sampled DEF SaveOffline, Interrupted
    <3> QED BY <2>1, <2>3, <3>1 DEF SaveOffline, Trackings, Trackers
  <2> QED BY <2>2, <2>3 DEF ExtendVisit, BeginVisit
<1>4. PICK f \in Flights : Moves(p, f) /\ f = Idle
  BY <1>1, Landing DEF Leave, Processes
<1>5. Rotates
  BY <1>1, LandingRotates DEF Leave, Processes
<1>6. JInv'
  BY <1>1, <1>2, <1>3, <1>4, OwnerKeeps, IdleSeen DEF Leave, IInv
<1> QED BY <1>5, <1>6

LEMMA FailStep ==
    ASSUME IInv, NEW p \in Samplers, NEW terminal \in BOOLEAN, Fail(p, terminal)
    PROVE  Rotates /\ JInv'
<1>1. CASE ~Owned(p) /\ UNCHANGED <<tracker, broken>>
  BY <1>1, DropStep DEF Fail, requests, Same
<1>2. CASE Owned(p) /\ tracker' = [Interrupted EXCEPT !.enabled = ~terminal] /\ broken' = TRUE
  <2>1. tracker' = [enabled |-> ~terminal, due |-> FALSE, lease |-> None, lapsed |-> FALSE, visit |-> "none"]
    BY <1>2, Failed DEF IInv, JInv
  <2>2. PICK f \in Flights : Moves(p, f) /\ f = Idle
    BY Landing DEF Fail, Leave, Processes
  <2>3. Rotates
    BY LandingRotates DEF Fail, Leave, Processes
  <2>4. JInv'
    <3>1. /\ tracker' \in Trackers /\ tracker'.lease = None /\ ~tracker'.lapsed
          /\ kept' \in BOOLEAN /\ tracker'.visit # "recent"
      BY <2>1 DEF Fail, IInv, JInv, Trackings, Trackers
    <3>2. f.pc = "idle" /\ consented' = consented \ {p}
      BY <2>2, IdleSeen DEF Fail, Leave
    <3> QED BY <1>2, <2>2, <3>1, <3>2, OwnerKeeps DEF Fail, requests, IInv
  <2> QED BY <2>3, <2>4
<1> QED BY <1>1, <1>2 DEF Fail

-----------------------------------------------------------------------------
(* The owner's requests and time *)

LEMMA FlushedFields ==
    ASSUME Trackings, NEW r \in Forms, NEW u, u = [Flushed(r) EXCEPT !.due = TRUE]
    PROVE  /\ u \in Trackers /\ (u.lapsed => u.lease # None)
           /\ u.enabled = IF "enabled" \in r.writes THEN r.on ELSE tracker.enabled
           /\ u.visit = IF "visit" \in r.writes THEN "none" ELSE tracker.visit
           /\ u.lease = IF "lease" \in r.writes THEN None ELSE tracker.lease
           /\ u.lapsed = IF "lease" \in r.writes THEN FALSE ELSE tracker.lapsed
<1>1. PICK t : t = Flushed(r)
  OBVIOUS
<1>2. t = [enabled |-> IF "enabled" \in r.writes THEN r.on ELSE tracker.enabled, due |-> tracker.due,
           lease |-> IF "lease" \in r.writes THEN None ELSE tracker.lease,
           lapsed |-> IF "lease" \in r.writes THEN FALSE ELSE tracker.lapsed,
           visit |-> IF "visit" \in r.writes THEN "none" ELSE tracker.visit]
  BY <1>1 DEF Flushed, Trackings, Trackers, Forms
<1>3. u = [t EXCEPT !.due = TRUE]
  BY <1>1
<1>4. u = [enabled |-> t.enabled, due |-> TRUE, lease |-> t.lease, lapsed |-> t.lapsed, visit |-> t.visit]
  BY <1>2, <1>3
<1>5. /\ t.enabled \in BOOLEAN /\ t.lapsed \in BOOLEAN /\ t.lease \in Samplers \cup {None}
      /\ t.visit \in {"none", "recent", "old"}
      /\ t.lapsed => t.lease # None
  BY <1>2 DEF Trackings, Trackers, Forms
<1>6. u \in Trackers
  <2>1. [enabled |-> t.enabled, due |-> TRUE, lease |-> t.lease, lapsed |-> t.lapsed, visit |-> t.visit]
           \in Trackers
    BY <1>5, Zenon DEF Trackers
  <2> QED BY <1>4, <2>1, Zenon
<1>7. u.enabled = t.enabled /\ u.lease = t.lease /\ u.lapsed = t.lapsed /\ u.visit = t.visit
  BY <1>4
<1>8. /\ t.enabled = IF "enabled" \in r.writes THEN r.on ELSE tracker.enabled
      /\ t.visit = IF "visit" \in r.writes THEN "none" ELSE tracker.visit
      /\ t.lease = IF "lease" \in r.writes THEN None ELSE tracker.lease
      /\ t.lapsed = IF "lease" \in r.writes THEN FALSE ELSE tracker.lapsed
  BY <1>2
<1> QED BY <1>5, <1>6, <1>7, <1>8, Zenon

LEMMA NobodyPolls ==
    ASSUME JInv, UNCHANGED flight
    PROVE  Polls'
BY DEF JInv, Polls

\* A pause, an erasure or a resumption: nobody owns the lease who did not own it before.
LEMMA RequestKeeps ==
    ASSUME JInv, UNCHANGED <<row, flight>>,
           UNCHANGED <<consented, overtaken>> \/ (consented' = {} /\ (tracker'.enabled => overtaken')),
           tracker'.enabled => tracker'.lease = None
                               \/ (tracker.enabled /\ tracker'.lease = tracker.lease /\ tracker'.lapsed = tracker.lapsed)
    PROVE  Consenting' /\ consented' \subseteq {p \in Samplers : Working(p)'}
<1>1. ASSUME NEW p \in Samplers, Owned(p)' PROVE Owned(p)
  BY <1>1 DEF Owned
<1>2. consented' \subseteq {p \in Samplers : Working(p)'}
  BY DEF JInv, Histories, Working
<1>3. ASSUME NEW p \in Samplers, Owned(p)' PROVE tracker'.enabled
  BY <1>3 DEF Owned
<1>4. Consenting'
  BY <1>1, <1>3 DEF JInv, Consenting, Working
<1> QED BY <1>2, <1>4

LEMMA BeginConfigureStep ==
    ASSUME IInv, NEW on \in BOOLEAN, BeginConfigure(on)
    PROVE  Rotates /\ JInv'
<1>1. settings' \in Forms /\ settings'.on = on /\ settings'.open
      /\ ("enabled" \in settings'.writes <=> tracker.enabled # on)
      /\ ("lease" \in settings'.writes <=> tracker.lease # None)
      /\ ("visit" \in settings'.writes <=> tracker.visit # "none" /\ tracker.enabled # on)
  BY DEF BeginConfigure, Request, Forms
<1>2. Pending'
  BY <1>1 DEF BeginConfigure, IInv, JInv, Pending, Trackings, Trackers
<1>3. Trackings' /\ Histories' /\ Consenting' /\ Interruptions' /\ Polls'
  BY DEF BeginConfigure, credentialVars, IInv, JInv, Trackings, Histories, Consenting, Working, Owned,
         Interruptions, Continued, Polls
<1>4. Rotates
  BY NobodyMoves DEF BeginConfigure, credentialVars, Rotates, Stutters
<1> QED BY <1>2, <1>3, <1>4 DEF JInv

LEMMA BeginEraseStep == ASSUME IInv, BeginErase PROVE Rotates /\ JInv'
<1>1. erasure' \in Forms /\ ~erasure'.on
  BY DEF BeginErase, Request, Forms
<1>2. Pending'
  BY <1>1 DEF BeginErase, IInv, JInv, Pending
<1>3. Trackings' /\ Histories' /\ Consenting' /\ Interruptions' /\ Polls'
  BY DEF BeginErase, credentialVars, IInv, JInv, Trackings, Histories, Consenting, Working, Owned,
         Interruptions, Continued, Polls
<1>4. Rotates
  BY NobodyMoves DEF BeginErase, credentialVars, Rotates, Stutters
<1> QED BY <1>2, <1>3, <1>4 DEF JInv

LEMMA SaveConfigureStep == ASSUME IInv, SaveConfigure PROVE Rotates /\ JInv'
<1>1. settings \in Forms /\ Trackings /\ tracker \in Trackers
  BY DEF IInv, JInv, Pending, Trackings
<1>2. /\ tracker' \in Trackers /\ (tracker'.lapsed => tracker'.lease # None)
      /\ tracker'.enabled = IF "enabled" \in settings.writes THEN settings.on ELSE tracker.enabled
      /\ tracker'.visit = IF "visit" \in settings.writes THEN "none" ELSE tracker.visit
      /\ tracker'.lease = IF "lease" \in settings.writes THEN None ELSE tracker.lease
      /\ tracker'.lapsed = IF "lease" \in settings.writes THEN FALSE ELSE tracker.lapsed
  BY <1>1, FlushedFields DEF SaveConfigure
<1>3. UNCHANGED <<row, permitted, live, flight, link, kept, erasure>> /\ settings' = NoRequest
  BY DEF SaveConfigure, credentialVars
<1>4. Rotates
  BY <1>3, NobodyMoves DEF Rotates, Stutters
<1>5. Trackings' /\ Polls'
  BY <1>2, <1>3, NobodyPolls DEF IInv, JInv, Trackings
<1>6. Pending'
  BY <1>3 DEF NoRequest, Forms, IInv, JInv, Pending
<1>7. CASE settings.on
  <2>1. UNCHANGED <<consented, broken, overtaken>>
    BY <1>7 DEF SaveConfigure
  <2>2. tracker'.enabled => tracker'.lease = None
                            \/ (tracker.enabled /\ tracker'.lease = tracker.lease /\ tracker'.lapsed = tracker.lapsed)
    BY <1>2, <1>7 DEF SaveConfigure, IInv, JInv, Pending
  <2>3. Consenting' /\ Histories'
    BY <1>3, <2>1, <2>2, RequestKeeps DEF IInv, JInv, Histories
  <2>4. Interruptions'
    <3>1. tracker'.enabled /\ tracker'.visit = "recent" => tracker.enabled /\ tracker.visit = "recent"
      <4>1. CASE "enabled" \in settings.writes
        BY <1>2, <1>7, <4>1 DEF SaveConfigure, IInv, JInv, Pending
      <4>2. CASE "enabled" \notin settings.writes
        <5>1. tracker'.enabled = tracker.enabled
          BY <1>2, <4>2
        <5>2. tracker'.visit = "recent" => tracker.visit = "recent"
          BY <1>2
        <5> QED BY <5>1, <5>2
      <4> QED BY <4>1, <4>2
    <3> QED BY <1>3, <2>1, <3>1 DEF IInv, JInv, Interruptions, Continued
  <2> QED BY <1>4, <1>5, <1>6, <2>3, <2>4 DEF JInv
<1>8. CASE ~settings.on
  <2>1. consented' = {} /\ overtaken' = FALSE /\ broken' = TRUE
    BY <1>8 DEF SaveConfigure, Withdraw
  <2>2. ~tracker'.enabled
    BY <1>2, <1>8 DEF SaveConfigure, IInv, JInv, Pending
  <2>3. Consenting' /\ Histories'
    BY <1>3, <2>1, <2>2, RequestKeeps DEF IInv, JInv, Histories
  <2>4. Interruptions'
    BY <2>2 DEF Interruptions
  <2> QED BY <1>4, <1>5, <1>6, <2>3, <2>4 DEF JInv
<1> QED BY <1>7, <1>8

LEMMA SaveEraseStep == ASSUME IInv, SaveErase PROVE Rotates /\ JInv'
<1>1. erasure \in Forms /\ ~erasure.on /\ Trackings /\ tracker \in Trackers
  BY DEF IInv, JInv, Pending, Trackings
<1>2. /\ tracker' \in Trackers /\ (tracker'.lapsed => tracker'.lease # None)
      /\ tracker'.enabled = IF "enabled" \in erasure.writes THEN FALSE ELSE tracker.enabled
      /\ tracker'.visit = IF "visit" \in erasure.writes THEN "none" ELSE tracker.visit
      /\ tracker'.lease = IF "lease" \in erasure.writes THEN None ELSE tracker.lease
      /\ tracker'.lapsed = IF "lease" \in erasure.writes THEN FALSE ELSE tracker.lapsed
  BY <1>1, FlushedFields DEF SaveErase, Forms
<1>3. /\ UNCHANGED <<row, permitted, live, flight, link, settings>> /\ erasure' = NoRequest /\ kept' = FALSE
      /\ consented' = {} /\ overtaken' = tracker'.enabled /\ broken' = TRUE
  BY DEF SaveErase, Withdraw, credentialVars
<1>4. Rotates
  BY <1>3, NobodyMoves DEF Rotates, Stutters
<1>5. Trackings' /\ Polls'
  BY <1>2, <1>3, NobodyPolls DEF IInv, JInv, Trackings
<1>6. Pending'
  BY <1>2, <1>3 DEF NoRequest, Forms, IInv, JInv, Pending
<1>7. tracker'.enabled \in BOOLEAN
  BY <1>2 DEF Trackers
<1>8. tracker'.enabled => tracker'.lease = None
                          \/ (tracker.enabled /\ tracker'.lease = tracker.lease /\ tracker'.lapsed = tracker.lapsed)
  BY <1>1, <1>2 DEF Trackers
<1>9. Consenting' /\ Histories'
  BY <1>3, <1>7, <1>8, RequestKeeps DEF IInv, Histories
<1>10. Interruptions'
  BY <1>3 DEF Interruptions, Continued
<1> QED BY <1>4, <1>5, <1>6, <1>9, <1>10 DEF JInv

LEMMA EndConsentStep == ASSUME IInv, EndConsent PROVE Rotates /\ JInv'
<1>1. Rotates
  BY AccountRotates DEF EndConsent
<1>2. row'.revoked
  BY RowTypes DEF EndConsent, Unlink, IInv
<1>3. row'.id = row.id
  BY RowTypes DEF EndConsent, Unlink, IInv
<1>4. Consenting' /\ Histories'
  BY <1>2, <1>3 DEF EndConsent, Unlink, Withdraw, IInv, JInv, Consenting, Histories, Working, Owned
<1>5. Trackings' /\ Pending' /\ Interruptions' /\ Polls'
  BY DEF EndConsent, Unlink, requests, IInv, JInv, Trackings, Pending, Interruptions, Continued, Polls
<1> QED BY <1>1, <1>4, <1>5 DEF JInv

LEMMA AccountStep == ASSUME IInv, Account, UNCHANGED journeyVars PROVE Rotates /\ JInv'
<1>1. Rotates
  BY AccountRotates
<1>2. UNCHANGED flight
  BY DEF Account, BeginLink, SaveLink, LoseRole
<1>3. UNCHANGED row \/ (row'.id = row.id /\ row'.revoked = row.revoked) \/ row'.id = row.id + 1
  <2>1. CASE SaveLink /\ link.target = 0
    BY <2>1 DEF SaveLink
  <2>2. CASE SaveLink /\ link.target # 0
    BY <2>2, RowTypes DEF SaveLink, IInv
  <2> QED BY <2>1, <2>2 DEF Account, BeginLink, LoseRole
<1>4. Consenting'
  <2>1. ASSUME NEW p \in Samplers, Working(p)
        PROVE  /\ flight[p].id <= row'.id
               /\ Owned(p) /\ ~row'.revoked /\ flight[p].id = row'.id => p \in consented \/ overtaken
    <3>1. flight[p].id \in Nat /\ row.id \in Nat /\ flight[p].id <= row.id
      BY <2>1, RowTypes DEF IInv, JInv, Polls, Flights, Consenting, Processes
    <3> QED BY <1>3, <2>1, <3>1 DEF IInv, JInv, Consenting
  <2> QED BY <1>2, <2>1 DEF journeyVars, Consenting, Working, Owned
<1>5. Trackings' /\ Pending' /\ Interruptions' /\ Polls' /\ Histories'
  BY <1>2 DEF journeyVars, IInv, JInv, Trackings, Pending, Interruptions, Continued, Polls, Histories, Working
<1> QED BY <1>1, <1>4, <1>5 DEF JInv

\* Time touches no exchange, no request and no consent.
LEMMA TimeStep == ASSUME IInv, LapseLease \/ Due \/ GrowOld PROVE Rotates /\ JInv'
<1>1. UNCHANGED <<row, permitted, live, flight, link, kept, settings, erasure, consented, overtaken>>
  BY DEF LapseLease, Due, GrowOld, credentialVars, requests
<1>2. Trackings
  BY DEF IInv, JInv
<1>3. PICK e \in BOOLEAN, lapsed \in BOOLEAN, v \in {"none", "recent", "old"} :
          /\ tracker' \in Trackers /\ tracker'.enabled = tracker.enabled /\ tracker'.lease = tracker.lease
          /\ tracker'.lapsed = lapsed /\ tracker'.visit = v
          /\ lapsed => tracker.lease # None
          /\ tracker.lapsed => lapsed
          /\ v = "recent" => tracker.visit = "recent" /\ broken' = broken
          /\ broken' \in BOOLEAN
  <2>1. CASE LapseLease
    <3>1. tracker' = [enabled |-> tracker.enabled, due |-> tracker.due, lease |-> tracker.lease, lapsed |-> TRUE,
                      visit |-> tracker.visit]
      BY <1>2, <2>1 DEF LapseLease, Trackings, Trackers
    <3> QED BY <1>2, <2>1, <3>1 DEF LapseLease, Trackings, Trackers, IInv, JInv, Histories
  <2>2. CASE Due
    <3>1. tracker' = [enabled |-> tracker.enabled, due |-> TRUE, lease |-> tracker.lease, lapsed |-> tracker.lapsed,
                      visit |-> tracker.visit]
      BY <1>2, <2>2 DEF Due, Trackings, Trackers
    <3> QED BY <1>2, <2>2, <3>1 DEF Due, Trackings, Trackers, IInv, JInv, Histories
  <2>3. CASE GrowOld
    <3>1. tracker' = [enabled |-> tracker.enabled, due |-> tracker.due, lease |-> tracker.lease,
                      lapsed |-> tracker.lapsed, visit |-> "old"]
      BY <1>2, <2>3 DEF GrowOld, Trackings, Trackers
    <3> QED BY <1>2, <2>3, <3>1 DEF GrowOld, Trackings, Trackers, IInv, JInv, Histories
  <2> QED BY <2>1, <2>2, <2>3
<1>4. Trackings' /\ Polls' /\ Histories'
  BY <1>1, <1>3 DEF IInv, JInv, Trackings, Polls, Histories, Working
<1>5. Pending' /\ Interruptions'
  BY <1>1, <1>3 DEF IInv, JInv, Pending, Interruptions, Continued
<1>6. Consenting'
  BY <1>1, <1>3 DEF IInv, JInv, Consenting, Working, Owned
<1>7. Rotates
  BY <1>1, NobodyMoves DEF Rotates, Stutters
<1> QED BY <1>4, <1>5, <1>6, <1>7 DEF JInv

-----------------------------------------------------------------------------
(* The theorems *)

LEMMA InvInit == Init => Rotation!CredentialInit /\ IInv
<1> SUFFICES ASSUME Init PROVE Rotation!CredentialInit /\ IInv
  OBVIOUS
<1>1. (CHOOSE u \in Users : TRUE) \in Users
  OBVIOUS
<1>2. Idle \in Flights /\ Idle.pc = "idle"
  BY <1>1 DEF Idle, Flights, Steps, Credentials, First
<1>3. flight = [x \in Processes |-> Idle] /\ Exchanging = flight
  BY <1>2 DEF Init, CredentialInit, Exchanging
<1>4. R!NoLink = NoLink /\ R!Idle = Idle /\ R!Processes = Processes
  BY DEF R!NoLink, NoLink, R!Idle, Idle, R!Processes, Processes, R!First, First
<1>5. R!CredentialInit
  BY <1>3, <1>4 DEF Init, CredentialInit, R!CredentialInit, R!First, First, R!Token, Token
<1>6. R!RInv
  BY <1>5, RotationParties, R!RInvInit
<1>7. Polls /\ Trackings /\ Histories
  BY <1>2, <1>3 DEF Init, Polls, Trackings, Trackers, Paused, Histories
<1>8. Pending /\ Consenting /\ Interruptions
  BY <1>2, <1>3 DEF Init, Pending, Forms, NoRequest, Consenting, Working, Processes, Interruptions, Continued
<1> QED BY <1>5, <1>6, <1>7, <1>8, SameInit DEF IInv, JInv

\* What a step of the poll or of anybody else may do to the pilot's history.
Lawful == \A p \in Samplers :
    /\ SaveSample(p) => p \in consented \/ overtaken
    /\ broken => ~ExtendVisit(p) /\ ~BeginVisit(p, FALSE)

LEMMA InvLawful == IInv => Lawful
<1> SUFFICES ASSUME IInv, NEW p \in Samplers
             PROVE  /\ SaveSample(p) => p \in consented \/ overtaken
                    /\ broken => ~ExtendVisit(p) /\ ~BeginVisit(p, FALSE)
  BY DEF Lawful
<1>1. ASSUME SaveSample(p) PROVE p \in consented \/ overtaken
  BY <1>1 DEF SaveSample, Storable, Usable, IInv, JInv, Consenting, Working
<1>2. SaveSample(p) => tracker.enabled
  BY DEF SaveSample, Storable, Owned
<1> QED BY <1>1, <1>2 DEF ExtendVisit, BeginVisit, IInv, JInv, Interruptions

LEMMA JourneyStep ==
    ASSUME IInv, [Next]_vars
    PROVE  Rotates /\ JInv'
<1>1. ASSUME NEW p \in Samplers, Poll(p) \/ Lost(p) \/ Crash(p) PROVE Rotates /\ JInv'
  <2>1. CASE Claim(p)
    BY <2>1, ClaimStep
  <2>2. CASE Load(p)
    BY <2>2, LoadStep
  <2>3. CASE (Answer(p) /\ UNCHANGED journeyVars) \/ Lost(p)
    BY <2>3, AskedStep
  <2>4. CASE SaveRotation(p)
    BY <2>4, SaveRotationStep
  <2>5. CASE Recheck(p)
    BY <2>5, RecheckStep
  <2>6. CASE ExtendVisit(p) \/ (\E gap \in BOOLEAN : BeginVisit(p, gap)) \/ SaveOffline(p)
    BY <2>6, StoreStep
  <2>7. CASE DropSample(p) \/ Crash(p)
    BY <2>7, DropStep DEF DropSample, Crash, Same, requests
  <2>8. CASE \E terminal \in BOOLEAN : Fail(p, terminal)
    BY <2>8, FailStep
  <2> QED BY <1>1, <2>1, <2>2, <2>3, <2>4, <2>5, <2>6, <2>7, <2>8 DEF Poll
<1>2. ASSUME NEW c \in Callers, Refresh(c), UNCHANGED journeyVars PROVE Rotates /\ JInv'
  <2>1. Rotates
    BY <1>2, RefreshRotates
  <2>2. c \in Processes /\ c \notin Samplers
    BY DEF Processes
  <2>3. \E f \in Flights : Moves(c, f)
    <3>1. CASE Snapshot(c)
      <4>1. flight' = [flight EXCEPT ![c] = Started("asked")] /\ "asked" \in Steps
        BY <3>1 DEF Snapshot, Steps
      <4>2. \E f \in Flights : Moves(c, f) /\ f = Started("asked") /\ f.pc = "asked" /\ f.id = row.id
        BY <2>2, <4>1, FromRow, Zenon
      <4> QED BY <4>2
    <3>2. CASE Answer(c)
      BY <2>2, <3>2, ToAnswer
    <3>3. CASE GiveUp(c) \/ Die(c) \/ Persist(c) \/ Busy(c)
      BY <2>2, <3>3, Landing DEF GiveUp, Die, Persist, Busy
    <3> QED BY <1>2, <3>1, <3>2, <3>3 DEF Refresh, Exchange
  <2>4. SameRow
    <3>1. CASE Persist(c)
      BY <3>1, RowTypes DEF Persist, SameRow, IInv
    <3> QED BY <1>2, <3>1 DEF Refresh, Exchange, Snapshot, Answer, GiveUp, Die, Busy, SameRow
  <2>5. JInv'
    BY <1>2, <2>2, <2>3, <2>4, AsideKeeps DEF Aside, Same, journeyVars, IInv
  <2> QED BY <2>1, <2>5
<1>3. CASE Requests
  BY <1>3, BeginConfigureStep, SaveConfigureStep, BeginEraseStep, SaveEraseStep, EndConsentStep, AccountStep
     DEF Requests
<1>4. CASE LapseLease \/ Due \/ GrowOld
  BY <1>4, TimeStep
<1>5. CASE UNCHANGED vars
  <2>1. Rotates
    BY <1>5, NobodyMoves DEF vars, credentialVars, Rotates, Stutters
  <2>2. JInv'
    BY <1>5 DEF vars, credentialVars, journeyVars, IInv, JInv, Polls, Trackings, Histories, Pending, Consenting,
                Interruptions, Working, Owned, Continued
  <2> QED BY <2>1, <2>2
<1> QED BY <1>1, <1>2, <1>3, <1>4, <1>5 DEF Next

LEMMA InvStep == IInv /\ [Next]_vars => IInv' /\ [Rotation!CredentialNext]_(Rotation!credentialVars)
<1> SUFFICES ASSUME IInv, [Next]_vars PROVE IInv' /\ [Rotation!CredentialNext]_(Rotation!credentialVars)
  OBVIOUS
<1>1. Rotates /\ JInv'
  BY JourneyStep
<1>2. [R!CredentialNext]_(R!credentialVars)
  BY <1>1 DEF Rotates, Stutters, R!credentialVars
<1>3. R!RInv'
  BY <1>2, RotationParties, R!RInvStep DEF IInv
<1>4. R!credentialVars = Rotation!credentialVars
  BY DEF R!credentialVars, Rotation!credentialVars
<1>5. [Rotation!CredentialNext]_(Rotation!credentialVars)
  BY <1>1, SameNext DEF Rotates, Stutters, Rotation!credentialVars
<1> QED BY <1>1, <1>3, <1>5 DEF IInv

\* TypeOK: every process's poll, the tracker, the requests in flight and the credential have
\* their types, however many samplers, accounts, consents and rotations there are.
THEOREM TypeCorrect == Spec => []TypeOK
<1>1. Init => IInv
  BY InvInit
<1>2. IInv /\ [Next]_vars => IInv'
  BY InvStep
<1>3. IInv => TypeOK
  <2> SUFFICES ASSUME IInv PROVE TypeOK
    OBVIOUS
  <2>1. CredentialOK(Steps)
    BY RowTypes DEF IInv, JInv, Polls, Flights, CredentialOK
  <2> QED BY <2>1 DEF IInv, JInv, Trackings, Trackers, Histories, Working, Pending, TypeOK
<1> QED BY <1>1, <1>2, <1>3, PTL DEF Spec

\* StoredUnderConsent: a sample asked for before a pause, an erasure or an unlink is never
\* stored after it (poll's last recheck against configure, clear_history, unlink_character).
THEOREM ConsentHolds == Spec => StoredUnderConsent
<1>1. Init => IInv
  BY InvInit
<1>2. IInv /\ [Next]_vars => IInv'
  BY InvStep
<1>3. IInv => Lawful
  BY InvLawful
<1>4. Lawful => [\A p \in Samplers : SaveSample(p) => p \in consented \/ overtaken]_vars
  BY DEF Lawful
<1> QED BY <1>1, <1>2, <1>3, <1>4, PTL DEF Spec, StoredUnderConsent

\* GapsAreMarked: observe never joins a sighting with one from before a pause, an erasure, an
\* offline sample, a failure or a long silence.
THEOREM GapsMarked == Spec => GapsAreMarked
<1>1. Init => IInv
  BY InvInit
<1>2. IInv /\ [Next]_vars => IInv'
  BY InvStep
<1>3. IInv => Lawful
  BY InvLawful
<1>4. Lawful => [broken => \A p \in Samplers : ~ExtendVisit(p) /\ ~BeginVisit(p, FALSE)]_vars
  BY DEF Lawful
<1> QED BY <1>1, <1>2, <1>3, <1>4, PTL DEF Spec, GapsAreMarked

\* ImplementsRotation: to the row, to EVE SSO and to the sync processes a sampler is one more
\* party of CredentialRotation, so what is proved of the rotation holds beside Journey too.
THEOREM SamplersRotate == Spec => ImplementsRotation
<1>1. Init => Rotation!CredentialInit /\ IInv
  BY InvInit
<1>2. IInv /\ [Next]_vars => IInv' /\ [Rotation!CredentialNext]_(Rotation!credentialVars)
  BY InvStep
<1> QED BY <1>1, <1>2, PTL DEF Spec, ImplementsRotation, Rotation!CredentialSpec
=============================================================================
