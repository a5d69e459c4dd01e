-------------------------- MODULE JourneyTracking --------------------------
(* My Journey: one pilot's tracker, sampled by API processes under a lease in  *)
(* its row, while its owner pauses, resumes and erases, the authorization is   *)
(* unlinked, linked again or rotated by a sync, and processes die.             *)
(*                                                                             *)
(* A transaction of a sampler or a request is one action.  configure and       *)
(* clear_history work on a row they read earlier and write the columns they    *)
(* changed.  Of time only the comparisons with now are kept; of the visits,    *)
(* whether the newest one is still in the table, since the tracker refers to   *)
(* no other.  Ship segments, intervals and sample counts are left out.         *)
EXTENDS CredentialRotation

CONSTANTS
    Owner,          \* the account the tracker belongs to
    None,           \* no sampler
    MaxRequests     \* bound: requests of the owner in flight at once

ASSUME OwnerOK == Owner \in Users /\ None \notin Samplers /\ MaxRequests \in 1..2

VARIABLES
    tracker,        \* journey_trackers: the row
    kept,           \* journey_visits: the newest visit is in the table
    settings,       \* a configure request between its read and its commit
    erasure,        \* a clear_history request between its first read and its lock
    consented,      \* history: samplers whose authorization was read since consent was last withdrawn
    broken,         \* history: the observation was interrupted since the newest visit grew
    overtaken       \* history: the last withdrawal is an erasure that left the tracker on

journeyVars == <<tracker, kept, settings, erasure, consented, broken, overtaken>>
vars == <<credentialVars, journeyVars>>
requests == <<settings, erasure>>

\* Of a sampler's poll, in the order it goes through them.
Steps == {"idle", "claimed", "asked", "answered", "saved", "fetching", "failed"}

Paused == [enabled |-> FALSE, due |-> TRUE, lease |-> None, lapsed |-> FALSE,
           visit |-> "none"]

\* Mutant: the account's role is not looked at.
Usable_AnyRole == ~row.revoked /\ row.user = Owner

\* character_token
Usable == ~row.revoked /\ row.user = Owner /\ permitted

Owned(p) == tracker.lease = p /\ ~tracker.lapsed /\ tracker.enabled

Released(t) == [t EXCEPT !.lease = None, !.lapsed = FALSE]

-----------------------------------------------------------------------------
(* The sampler (poll) *)

\* Mutant: a lease that lapsed is never taken over.
Claimable_NeverLapsed == tracker.enabled /\ tracker.due /\ tracker.lease = None

Claimable == tracker.enabled /\ tracker.due /\ (tracker.lease = None \/ tracker.lapsed)

Claim(p) ==
    /\ flight[p].pc = "idle" /\ Claimable
    /\ tracker' = [tracker EXCEPT !.lease = p, !.lapsed = FALSE]
    /\ At(p, "claimed")
    /\ UNCHANGED <<row, permitted, live, link, kept, requests, consented, broken, overtaken>>

\* The authorization is read under the lease; without one the tracker is switched off.  A
\* cached bearer of this very credential saves the exchange.
Load(p) ==
    /\ flight[p].pc = "claimed"
    /\ \/ /\ Owned(p) /\ Usable
          /\ \E pc \in {"asked", "fetching"} :
                flight' = [flight EXCEPT ![p] = Started(pc)]
          /\ consented' = consented \cup {p}
          /\ UNCHANGED <<tracker, broken>>
       \/ /\ Owned(p) /\ ~Usable
          /\ tracker' = Released([tracker EXCEPT !.enabled = FALSE, !.visit = "none"])
          /\ broken' = TRUE
          /\ Land(p) /\ UNCHANGED consented
       \/ ~Owned(p) /\ Land(p) /\ UNCHANGED <<tracker, consented, broken>>
    /\ UNCHANGED <<row, permitted, live, link, kept, requests, overtaken>>

\* The answer is lost; EVE SSO may have rotated the token all the same.
Lost(p) ==
    /\ Unanswered(p)
    /\ At(p, "failed")
    /\ UNCHANGED <<row, permitted, link, journeyVars>>

\* The poll ends here; its lease is left to lapse.
Leave(p) == Land(p) /\ consented' = consented \ {p}

\* The rotation is saved even for a paused tracker, by a compare-and-set UPDATE.
SaveRotation(p) ==
    /\ flight[p].pc = "answered"
    /\ row' = Swapped(flight[p])
    /\ IF Swappable(flight[p]) THEN At(p, "saved") /\ UNCHANGED consented ELSE Leave(p)
    /\ UNCHANGED <<permitted, live, link, tracker, kept, requests, broken, overtaken>>

Recheck(p) ==
    /\ flight[p].pc = "saved"
    /\ IF Owned(p) /\ Usable /\ row.id = flight[p].id
       THEN At(p, "fetching") /\ UNCHANGED consented ELSE Leave(p)
    /\ UNCHANGED <<row, permitted, live, link, tracker, kept, requests, broken, overtaken>>

Storable(p) == Owned(p) /\ Usable /\ row.id = flight[p].id /\ row.cred = flight[p].new

\* Mutant: a visit is continued however long ago it was last seen.
Continued_Always == tracker.visit # "none" /\ kept

\* observe: the visit the tracker refers to is in the table and recent
Continued == tracker.visit = "recent" /\ kept

\* The pilot is online: one more sample of the visit, or a new visit.
SaveSample(p) ==
    /\ flight[p].pc = "fetching" /\ Storable(p)
    /\ tracker' = Released([tracker EXCEPT !.due = FALSE, !.visit = "recent"])
    /\ broken' = FALSE
    /\ Leave(p)
    /\ UNCHANGED <<row, permitted, live, link, requests, overtaken>>

ExtendVisit(p) == SaveSample(p) /\ Continued /\ UNCHANGED kept
BeginVisit(p, gap) == SaveSample(p) /\ gap = ~Continued /\ kept' = TRUE

Interrupted == Released([tracker EXCEPT !.due = FALSE, !.visit = "none"])

SaveOffline(p) ==
    /\ flight[p].pc = "fetching" /\ Storable(p)
    /\ tracker' = Interrupted
    /\ broken' = TRUE
    /\ Leave(p)
    /\ UNCHANGED <<row, permitted, live, link, kept, requests, overtaken>>

\* The consent, the link or the credential changed: the answer is dropped.
DropSample(p) ==
    /\ flight[p].pc = "fetching" /\ ~Storable(p)
    /\ Leave(p)
    /\ UNCHANGED <<row, permitted, live, link, tracker, kept, requests, broken, overtaken>>

\* An error: EVE SSO refused a token that is dead, its answer was lost, or ESI failed.  An
\* authorization error switches the tracker off.
Fail(p, terminal) ==
    /\ \/ flight[p].pc = "asked" /\ Token(flight[p].cred) \notin live /\ terminal
       \/ flight[p].pc = "failed" /\ ~terminal
       \/ flight[p].pc = "fetching"
    /\ \/ /\ Owned(p)
          /\ tracker' = [Interrupted EXCEPT !.enabled = ~terminal]
          /\ broken' = TRUE
       \/ ~Owned(p) /\ UNCHANGED <<tracker, broken>>
    /\ Leave(p)
    /\ UNCHANGED <<row, permitted, live, link, kept, requests, overtaken>>

\* The process dies or is cancelled.
Crash(p) ==
    /\ flight[p].pc # "idle"
    /\ Leave(p)
    /\ UNCHANGED <<row, permitted, live, link, tracker, kept, requests, broken, overtaken>>

-----------------------------------------------------------------------------
(* The owner's requests *)

\* A request in flight, by the columns its flush will write: those it changes against
\* what it has read.  The others keep what the row holds by then.
NoRequest == [open |-> FALSE, on |-> FALSE, writes |-> {}]
Request(on, ends) ==
    [open |-> TRUE, on |-> on, writes |->
        {c \in {"enabled", "visit", "lease"} :
            \/ c = "enabled" /\ tracker.enabled # on
            \/ c = "visit" /\ tracker.visit # "none" /\ ends
            \/ c = "lease" /\ tracker.lease # None}]

\* Mutant: configure leaves the lease alone.
Flushed_KeepsLease(request) ==
    [tracker EXCEPT !.enabled = IF "enabled" \in request.writes THEN request.on ELSE @,
                    !.visit = IF "visit" \in request.writes THEN "none" ELSE @]

\* Mutant: configure clears lease_token and leaves lease_until.
Flushed_TokenOnly(request) ==
    [tracker EXCEPT !.enabled = IF "enabled" \in request.writes THEN request.on ELSE @,
                    !.visit = IF "visit" \in request.writes THEN "none" ELSE @,
                    !.lease = IF "lease" \in request.writes THEN None ELSE @]

Flushed(request) ==
    [tracker EXCEPT !.enabled = IF "enabled" \in request.writes THEN request.on ELSE @,
                    !.visit = IF "visit" \in request.writes THEN "none" ELSE @,
                    !.lease = IF "lease" \in request.writes THEN None ELSE @,
                    !.lapsed = IF "lease" \in request.writes THEN FALSE ELSE @]

\* configure serializes with itself; switching on or off ends the visit
BeginConfigure(on) ==
    /\ ~settings.open /\ row.user = Owner /\ (erasure.open => MaxRequests > 1)
    /\ on => Usable
    /\ settings' = Request(on, tracker.enabled # on)
    /\ UNCHANGED <<credentialVars, tracker, kept, erasure, consented, broken, overtaken>>

Withdraw(late) == consented' = {} /\ overtaken' = late

SaveConfigure ==
    /\ settings.open
    /\ tracker' = [Flushed(settings) EXCEPT !.due = TRUE]
    /\ settings' = NoRequest
    /\ IF settings.on THEN UNCHANGED <<consented, broken, overtaken>>
       ELSE Withdraw(FALSE) /\ broken' = TRUE
    /\ UNCHANGED <<credentialVars, kept, erasure>>

BeginErase ==
    /\ ~erasure.open /\ row.user = Owner /\ (settings.open => MaxRequests > 1)
    /\ erasure' = Request(FALSE, TRUE)
    /\ UNCHANGED <<credentialVars, tracker, kept, settings, consented, broken, overtaken>>

\* The row is locked now, but its columns are not read again.
SaveErase ==
    /\ erasure.open
    /\ tracker' = [Flushed(erasure) EXCEPT !.due = TRUE]
    /\ kept' = FALSE
    /\ erasure' = NoRequest
    /\ Withdraw(tracker'.enabled) /\ broken' = TRUE
    /\ UNCHANGED <<credentialVars, settings>>

\* Unlinking ends the consent too.
EndConsent ==
    /\ Unlink /\ Withdraw(FALSE)
    /\ UNCHANGED <<tracker, kept, requests, broken>>

-----------------------------------------------------------------------------
(* Time *)

LapseLease ==
    /\ tracker.lease # None /\ ~tracker.lapsed
    /\ tracker' = [tracker EXCEPT !.lapsed = TRUE]
    /\ UNCHANGED <<credentialVars, kept, requests, consented, broken, overtaken>>

Due ==
    /\ ~tracker.due
    /\ tracker' = [tracker EXCEPT !.due = TRUE]
    /\ UNCHANGED <<credentialVars, kept, requests, consented, broken, overtaken>>

\* Longer than three intervals since the visit was last seen.
GrowOld ==
    /\ tracker.visit = "recent"
    /\ tracker' = [tracker EXCEPT !.visit = "old"]
    /\ broken' = TRUE
    /\ UNCHANGED <<credentialVars, kept, requests, consented, overtaken>>

-----------------------------------------------------------------------------

Init ==
    /\ CredentialInit
    /\ tracker = Paused /\ kept = FALSE
    /\ settings = NoRequest /\ erasure = NoRequest
    /\ consented = {} /\ broken = TRUE /\ overtaken = FALSE

Poll(p) ==
    \/ Claim(p) \/ Load(p) \/ (Answer(p) /\ UNCHANGED journeyVars) \/ SaveRotation(p) \/ Recheck(p)
    \/ ExtendVisit(p) \/ (\E gap \in BOOLEAN : BeginVisit(p, gap)) \/ SaveOffline(p)
    \/ DropSample(p) \/ \E terminal \in BOOLEAN : Fail(p, terminal)

Requests ==
    \/ \E on \in BOOLEAN : BeginConfigure(on)
    \/ SaveConfigure \/ BeginErase \/ SaveErase \/ EndConsent
    \/ Account /\ UNCHANGED journeyVars

Next ==
    \/ \E p \in Samplers : Poll(p) \/ Lost(p) \/ Crash(p)
    \/ (\E c \in Callers : Refresh(c)) /\ UNCHANGED journeyVars
    \/ Requests
    \/ LapseLease \/ Due \/ GrowOld

Spec == Init /\ [][Next]_vars

\* Samplers poll, and a lease nobody works under lapses.
LapseOrphan == LapseLease /\ flight[tracker.lease].pc = "idle"
FairSpec == Spec /\ WF_vars(Due) /\ WF_vars(LapseOrphan) /\ \A p \in Samplers : WF_vars(Poll(p))

-----------------------------------------------------------------------------
(* Properties *)

Forms == [open : BOOLEAN, on : BOOLEAN, writes : SUBSET {"enabled", "visit", "lease"}]

\* Only a lease that is held can lapse; a sampler that counts as consented has read the
\* authorization and works on.
TypeOK ==
    /\ CredentialOK(Steps)
    /\ tracker \in [enabled : BOOLEAN, due : BOOLEAN, lease : Samplers \cup {None},
                    lapsed : BOOLEAN, visit : {"none", "recent", "old"}]
    /\ tracker.lapsed => tracker.lease # None
    /\ kept \in BOOLEAN
    /\ settings \in Forms /\ erasure \in Forms
    /\ consented \subseteq {p \in Samplers : flight[p].pc \notin {"idle", "claimed"}}
    /\ broken \in BOOLEAN /\ overtaken \in BOOLEAN

\* "Ownership, enabled state and scopes are rechecked after network waits": a sample asked
\* for before a pause, an erasure or an unlink is not stored after it, even if the
\* pilot consented again meanwhile; unless the erasure failed to pause the tracker.
StoredUnderConsent ==
    [][\A p \in Samplers : SaveSample(p) => p \in consented \/ overtaken]_vars

\* Two sightings are joined, or follow each other without a gap, only if nothing came
\* between them: no pause, erasure, offline sample, failure or long silence.
GapsAreMarked ==
    [][broken => \A p \in Samplers : ~ExtendVisit(p) /\ ~BeginVisit(p, FALSE)]_vars

\* While it samples, a process is a refresher that asks, swaps and forgets: nothing a
\* sampler does to the row or to EVE SSO's tokens goes beyond CredentialRotation.
Exchanging == [x \in Processes |->
    IF flight[x].pc \in {"asked", "answered"} THEN flight[x] ELSE Idle]
Rotation == INSTANCE CredentialRotation WITH flight <- Exchanging
ImplementsRotation == Rotation!CredentialSpec

Quiet == ~Requests /\ ~(LapseLease /\ ~LapseOrphan) /\ \A p \in Samplers : ~Lost(p) /\ ~Crash(p)

\* Once nobody disturbs it, an enabled tracker is polled again and again, or switched off.
PolledAgain == <>[][Quiet]_vars => []<>(~tracker.enabled \/ ~tracker.due)
=============================================================================
