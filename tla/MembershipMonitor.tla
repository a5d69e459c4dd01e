-------------------------- MODULE MembershipMonitor --------------------------
(* The shared daily head count of one Intel dossier: a row that names when to  *)
(* count next and who is counting, backend processes that claim it for five    *)
(* minutes, analysts who switch it on and off or ask for a count, and an       *)
(* intelligence collection that stores a census of the same dossier.           *)
(*                                                                             *)
(* claim and persist are transactions under the row's lock, one action each.   *)
(* A request reads the row without a lock and later writes the columns it      *)
(* changed.  Of time only the comparisons with now are kept; backoff, cooldown *)
(* and the day's end are therefore "not yet" and "now".                        *)
CONSTANTS
    Processes,      \* API processes with a membership worker
    Requests,       \* requests in flight
    Users,          \* Intel analysts
    None            \* nobody

ASSUME NobodyOK == None \notin Processes \cup Users

VARIABLES
    row,            \* intel_membership_monitors
    day,            \* intel_membership_snapshots: today's
    phase,          \* per process: idle, or a census in flight
    form,           \* per request: what it will write
    permitted,      \* analysts with Intel access
    withdrawn,      \* history: processes whose census a pause came after
    leaky           \* history: the last pause did not see the lease it came after

vars == <<row, day, phase, form, permitted, withdrawn, leaky>>
history == <<withdrawn, leaky>>

Statuses == {"idle", "queued", "running", "available", "incomplete", "paused"}

\* get_monitor; a row is created before anything else happens to it
Created == [enabled |-> FALSE, status |-> "idle", requester |-> None, poll |-> "none",
            lease |-> None, lapsed |-> FALSE, recent |-> FALSE, counted |-> FALSE]

Working == {p \in Processes : phase[p] # "idle"}
Freed(r) == [r EXCEPT !.lease = None, !.lapsed = FALSE]

\* allowed
Allowed == row.requester \in permitted

\* pause_unauthorized
Revoked == Freed([row EXCEPT !.enabled = FALSE, !.poll = "none", !.status = "paused"])

-----------------------------------------------------------------------------
(* The worker of a process (run_sample) *)

\* Mutant: a lease that lapsed is never taken over.
Due_NeverLapsed == row.poll = "now" /\ row.lease = None

Due == row.poll = "now" /\ (row.lease = None \/ row.lapsed)

Claim(p) ==
    /\ phase[p] = "idle" /\ Due
    /\ IF Allowed
       THEN /\ row' = [row EXCEPT !.lease = p, !.lapsed = FALSE, !.status = "running",
                                  !.recent = TRUE]
            /\ phase' = [phase EXCEPT ![p] = "counting"]
       ELSE row' = [Revoked EXCEPT !.recent = TRUE] /\ UNCHANGED phase
    /\ UNCHANGED <<day, form, permitted, history>>

\* The row of persist: the lease is this worker's, and it has not run out.
Owned(p) == row.lease = p /\ ~row.lapsed

\* Mutant: the later census of a day replaces the earlier one.
Recorded_Latest(total) == IF total THEN "complete" ELSE "partial"

\* write_census: a day keeps its last complete count
Recorded(total) == IF total THEN "complete" ELSE IF day = "none" THEN "partial" ELSE day

Forget(p) ==
    /\ phase' = [phase EXCEPT ![p] = "idle"]
    /\ withdrawn' = withdrawn \ {p}
    /\ UNCHANGED leaky

\* Mutant: one count is all a monitor gets.
NextPoll_Once == "none"

NextPoll == IF row.enabled THEN "later" ELSE "none"

\* The census is in: with every corporation's count, with some missing, or not at all.
Persist(p, answer) ==
    /\ phase[p] = "counting" /\ Owned(p) /\ Allowed
    /\ day' = IF answer = "error" THEN day ELSE Recorded(answer = "complete")
    /\ row' = Freed([row EXCEPT !.poll = NextPoll,
                 !.status = IF answer = "complete" THEN "available" ELSE "incomplete",
                 !.counted = row.counted \/ answer = "complete"])
    /\ Forget(p)
    /\ UNCHANGED <<form, permitted>>

\* The analyst lost access while ESI was asked, or the lease is gone.
Discard(p) ==
    /\ phase[p] = "counting" /\ ~(Owned(p) /\ Allowed)
    /\ row' = IF Owned(p) THEN Revoked ELSE row
    /\ Forget(p)
    /\ UNCHANGED <<day, form, permitted>>

\* The process dies, or is asked to stop: its lease is left to lapse.
Die(p) ==
    /\ phase[p] = "counting"
    /\ Forget(p)
    /\ UNCHANGED <<row, day, form, permitted>>

-----------------------------------------------------------------------------
(* An analyst's request (request_refresh) *)

\* Of the row a request has read: what tells whether it is still so when it is saved.
Seen(r) == [enabled |-> r.enabled, set |-> r.poll # "none", lease |-> r.lease]

\* A request in flight: the columns it will write, and with what.
NoForm == [open |-> FALSE, writes |-> {}, wish |-> Created, pause |-> FALSE, seen |-> Seen(Created)]

Active == row.status \in {"queued", "running"} /\ row.poll # "none"

\* Mutant: a pause leaves the lease alone.
Paused_KeepsLease == [row EXCEPT !.enabled = FALSE, !.poll = "none", !.status = "paused"]

Paused == [row EXCEPT !.enabled = FALSE, !.poll = "none", !.status = "paused", !.lease = None]

Queued(u, on) == [row EXCEPT !.enabled = on, !.requester = u, !.poll = "now", !.status = "queued",
                             !.lease = None]
Joined(u, on) == [row EXCEPT !.enabled = on, !.requester = u]

\* What a request may set.  A refresh joins a count that is under way and otherwise keeps
\* the cooldown; switching on leaves a count that is under way alone.
Wishes(u) ==
    {Paused} \cup
    IF Active THEN {Joined(u, row.enabled), Joined(u, TRUE)}
    ELSE {Queued(u, TRUE)} \cup (IF row.recent THEN {} ELSE {Queued(u, row.enabled)})

\* The columns a wish changes against the row it was made on; a new time is a change.
Writes(wish) ==
    {c \in DOMAIN row : wish[c] # row[c] \/ (c = "poll" /\ ~Active /\ wish.poll = "now")}

Written(new, old, columns) == [c \in DOMAIN old |-> IF c \in columns THEN new[c] ELSE old[c]]

Begin(r, u) ==
    /\ ~form[r].open /\ u \in permitted
    /\ \E wish \in Wishes(u) :
          form' = [form EXCEPT ![r] =
              [open |-> TRUE, writes |-> Writes(wish), wish |-> Written(wish, Created, Writes(wish)),
               pause |-> wish = Paused, seen |-> Seen(row)]]
    /\ UNCHANGED <<row, day, phase, permitted, history>>

Save(r) ==
    /\ form[r].open
    /\ row' = [Written(form[r].wish, row, form[r].writes) EXCEPT
                  !.lapsed = @ /\ "lease" \notin form[r].writes]
    /\ IF form[r].pause
       THEN withdrawn' = Working /\ leaky' = (row.lease # form[r].seen.lease)
       ELSE UNCHANGED history
    /\ form' = [form EXCEPT ![r] = NoForm]
    /\ UNCHANGED <<day, phase, permitted>>

LoseAccess(u) ==
    /\ u \in permitted
    /\ permitted' = permitted \ {u}
    /\ UNCHANGED <<row, day, phase, form, history>>

\* The membership stage of an intelligence collection (IntelCollection).
Collect(total) ==
    /\ day' = Recorded(total)
    /\ UNCHANGED <<row, phase, form, permitted, history>>

-----------------------------------------------------------------------------
(* Time *)

Elapse(new) == row' = new /\ UNCHANGED <<day, phase, form, permitted, history>>

LapseLease ==
    /\ row.lease # None /\ ~row.lapsed
    /\ Elapse([row EXCEPT !.lapsed = TRUE])

FallDue == row.poll = "later" /\ Elapse([row EXCEPT !.poll = "now"])
Cool    == row.recent /\ Elapse([row EXCEPT !.recent = FALSE])

NewDay ==
    /\ day' = "none" /\ row' = [row EXCEPT !.counted = FALSE]
    /\ UNCHANGED <<phase, form, permitted, history>>

-----------------------------------------------------------------------------

Init ==
    /\ row = Created /\ day = "none"
    /\ phase = [p \in Processes |-> "idle"]
    /\ form = [r \in Requests |-> NoForm]
    /\ permitted = Users
    /\ withdrawn = {} /\ leaky = FALSE

Answers == {"complete", "partial", "error"}
Count(p) == Claim(p) \/ (\E answer \in Answers : Persist(p, answer)) \/ Discard(p)

Next ==
    \/ \E p \in Processes : Count(p) \/ Die(p)
    \/ \E r \in Requests : (\E u \in Users : Begin(r, u)) \/ Save(r)
    \/ \E u \in Users : LoseAccess(u)
    \/ \E total \in BOOLEAN : Collect(total)
    \/ LapseLease \/ FallDue \/ Cool \/ NewDay

Spec == Init /\ [][Next]_vars

\* Workers loop, and a lease nobody works under lapses.
LapseOrphan == LapseLease /\ phase[row.lease] = "idle"
FairSpec ==
    /\ Spec /\ WF_vars(FallDue) /\ WF_vars(LapseOrphan)
    /\ \A p \in Processes : WF_vars(Count(p))

-----------------------------------------------------------------------------
(* Properties *)

\* Types; only a lease that is held can lapse; and a total counted today is still the
\* day's, whatever the collection's census left out.
TypeOK ==
    /\ row \in [enabled : BOOLEAN, status : Statuses, requester : Users \cup {None},
                poll : {"none", "later", "now"}, lease : Processes \cup {None},
                lapsed : BOOLEAN, recent : BOOLEAN, counted : BOOLEAN]
    /\ day \in {"none", "partial", "complete"}
    /\ phase \in [Processes -> {"idle", "counting"}]
    /\ \A r \in Requests : form[r].pause => form[r].open
    /\ permitted \subseteq Users /\ withdrawn \subseteq Working /\ leaky \in BOOLEAN
    /\ row.lapsed => row.lease # None
    /\ row.counted => day = "complete"

\* "Disabling invalidates an in-flight lease": a census asked for before a pause is not
\* stored after it, even if the monitor was switched on again; unless the pause was
\* decided before the lease was taken.
PausesFence ==
    [][\A p \in withdrawn : ~leaky => \A answer \in Answers : ~Persist(p, answer)]_vars

\* Once analysts and failures leave it alone, an enabled monitor that has a time to count
\* counts again and again.
Quiet ==
    /\ \A r \in Requests : ~Save(r) /\ \A u \in Users : ~Begin(r, u)
    /\ \A u \in Users : ~LoseAccess(u)
    /\ \A p \in Processes : ~Die(p)
    /\ ~(LapseLease /\ ~LapseOrphan)
CountsAgain ==
    <>[](row.poll # "none") /\ <>[][Quiet]_vars => []<>(~row.enabled \/ row.poll = "later")

\* An enabled monitor has a time for its next count; only a request that is saved over a
\* row that changed since it was read may leave it without.
Scheduled == row.enabled => row.poll # "none"
StaysScheduled ==
    [][Scheduled => Scheduled' \/ \E r \in Requests : Save(r) /\ form[r].seen # Seen(row)]_vars
=============================================================================
