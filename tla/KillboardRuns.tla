---------------------------- MODULE KillboardRuns ----------------------------
(* One durable killboard run (killboard_sync_runs) and everyone who drives it. *)
(*                                                                             *)
(* An ordinary run walks, per target, a feed of kills and one of losses, page  *)
(* by page, in a task of the API's event loop; start, ensure and resume create *)
(* tasks, and a registry is to keep them to one.  A battle collection walks    *)
(* one feed per target under a lease in the row, in any API process.           *)
(*                                                                             *)
(* A section of the event loop, from one await to the next, is one action      *)
(* where nothing outside the loop can come between; where a cancel request (a  *)
(* thread, or another API process) can, its read and its commit are two.       *)
(* Writes name the columns a section changed.  Killmails themselves, counters  *)
(* and messages are left out.                                                  *)
EXTENDS Naturals

CONSTANTS
    Battles,        \* kinds of run looked at: is it a battle collection
    Tasks,          \* tasks of the event loop that run the ordinary executor
    Strays,         \* bound: those of them a request may put to a battle collection
    Collectors,     \* API processes that run the battle executor
    None,           \* nobody
    Targets,        \* bound: targets of a run
    Pages,          \* pages of a feed that are read at most (max_pages, MAX_PAGES)
    Lengths         \* bound: how many pages with entries a feed may have

ASSUME BoundsOK == /\ Battles \subseteq BOOLEAN
                   /\ Strays \subseteq Tasks /\ None \notin Tasks \cup Collectors
                   /\ Targets \in Nat \ {0} /\ Pages \in Nat /\ Lengths \subseteq Nat

VARIABLES
    run,            \* killboard_sync_runs: the row
    task,           \* tasks of the ordinary executor
    registered,     \* ACTIVE_SYNC_TASKS: the task of this run
    cancelling,     \* a cancel request between its read and its commit: the status it read
    resuming,       \* a resume request between its read and its commit: the status it read
    collector,      \* executions of the battle executor, one per process
    permitted,      \* the creator may still use Battle Reports
    length,         \* external: pages with entries that zKillboard lists
    seen,           \* history: pages that were gone through to their last entry
    ended,          \* history: the page at which an executor took a feed to be over
    popped,         \* history: a done-callback took another task out of the registry
    crossed         \* history: a collector saved a section that had read a lease since lost

runs == <<run, length>>
ordinary == <<task, registered, cancelling, resuming>>
history == <<seen, ended, popped, crossed>>
vars == <<run, task, registered, cancelling, resuming, collector, permitted, length, history>>

Feeds == {"kills", "losses", "battle"}
Walked == IF run.battle THEN {"battle"} ELSE {"kills", "losses"}
Finished == {"complete", "complete_with_errors", "cancelled"}    \* killboard_sync.py
Terminal == {"complete", "partial", "cancelled"}                 \* battle_report_discovery.py
Statuses == Finished \cup Terminal \cup {"queued", "running", "paused", "failed"}

Absent == [pc |-> "none", target |-> 1, feed |-> "kills", page |-> 1, read |-> "queued"]
Live == {k \in Tasks : task[k].pc \notin {"none", "done"}}

\* Nothing else of the event loop runs between the two halves of such a section, nor
\* before a task that was refused a feed it does not know has failed its run.
Busy == \/ resuming # None
        \/ \E k \in Tasks : \/ task[k].pc \in {"starting", "completing", "failing"}
                            \/ run.battle /\ task[k].pc \in {"looking", "fetching"}

To(k, pc) == task' = [task EXCEPT ![k].pc = pc]
Drop(k, pc) == task' = [task EXCEPT ![k] = [Absent EXCEPT !.pc = pc]]
Wrote(r) == [r EXCEPT !.silent = FALSE]

-----------------------------------------------------------------------------
(* Requests: start and resume an ordinary run, cancel any *)

\* Mutant: a new task is created whatever is registered.
Startable_Always(k) == task[k].pc = "none"

\* start_sync_task
Startable(k) == task[k].pc = "none" /\ registered \notin Live

Started(k) ==
    IF Startable(k) THEN task' = [task EXCEPT ![k] = [Absent EXCEPT !.pc = "ready"]] /\ registered' = k
    ELSE UNCHANGED <<task, registered>>

\* start_sync looks for any active run of the account, battle collections included;
\* ensure_sync leaves those out.
StartSync(k) ==
    /\ ~Busy /\ run.status \in {"queued", "running"} /\ Startable(k)
    /\ run.battle => k \in Strays
    /\ Started(k)
    /\ UNCHANGED <<runs, cancelling, resuming, collector, permitted, history>>

\* Mutant: a cancelled run may be resumed.
Resumable_Cancelled == run.status \notin {"complete", "complete_with_errors"}

Resumable == run.status \notin Finished

BeginResume ==
    /\ ~Busy /\ ~run.battle /\ Resumable
    /\ resuming' = run.status
    /\ UNCHANGED <<runs, task, registered, cancelling, collector, permitted, history>>

SaveResume(k) ==
    /\ resuming # None
    /\ run' = IF resuming = "queued" THEN run ELSE [run EXCEPT !.status = "queued"]
    /\ Started(k)
    /\ resuming' = None
    /\ UNCHANGED <<length, cancelling, collector, permitted, history>>

\* A request to cancel reads the run here and commits in SaveCancel; what a task or an
\* executor commits in between is overwritten.
BeginCancel ==
    /\ cancelling = None
    /\ IF run.battle THEN run.status \notin Terminal ELSE run.status \in {"queued", "running", "failed"}
    /\ cancelling' = run.status
    /\ UNCHANGED <<runs, task, registered, resuming, collector, permitted, history>>

SaveCancel ==
    /\ cancelling # None
    /\ run' = Wrote([run EXCEPT !.status = "cancelled"])
    /\ cancelling' = None
    /\ UNCHANGED <<length, task, registered, resuming, collector, permitted, history>>

-----------------------------------------------------------------------------
(* A task of the ordinary executor (execute_sync_run) *)

others == <<cancelling, resuming, collector, permitted, length, popped, crossed>>

Begin(k) ==
    /\ task[k].pc = "ready" /\ ~Busy
    /\ task' = [task EXCEPT ![k] = IF run.status \in Finished THEN [Absent EXCEPT !.pc = "closing"]
                                   ELSE [Absent EXCEPT !.pc = "starting", !.read = run.status]]
    /\ UNCHANGED <<run, registered, seen, ended, others>>

SaveStart(k) ==
    /\ task[k].pc = "starting"
    /\ run' = Wrote(IF task[k].read = "running" THEN run ELSE [run EXCEPT !.status = "running"])
    /\ Drop(k, "looking")
    /\ UNCHANGED <<registered, seen, ended, others>>

Look(k) ==
    /\ task[k].pc = "looking" /\ (~Busy \/ run.battle)
    /\ task' = [task EXCEPT ![k] =
          IF run.status = "cancelled" THEN [Absent EXCEPT !.pc = "closing"]
          ELSE IF run.target > Targets THEN [Absent EXCEPT !.pc = "completing", !.read = run.status]
          ELSE [Absent EXCEPT !.pc = "fetching", !.target = run.target, !.feed = run.feed, !.page = run.page]]
    /\ UNCHANGED <<run, registered, seen, ended, others>>

SaveComplete(k) ==
    /\ task[k].pc = "completing"
    /\ run' = Wrote([run EXCEPT !.status = IF run.failed THEN "complete_with_errors" ELSE "complete"])
    /\ Drop(k, "closing")
    /\ UNCHANGED <<registered, seen, ended, others>>

\* Mutant: the page number is kept when a feed is over.
Advanced_KeepsPage(c, last) ==
    IF run.status = "cancelled" \/ run.target # c.target THEN run
    ELSE IF ~last THEN Wrote([run EXCEPT !.page = c.page + 1])
    ELSE IF c.feed = "kills" THEN Wrote([run EXCEPT !.feed = "losses"])
    ELSE Wrote([run EXCEPT !.target = @ + 1, !.feed = "kills", !.page = 1])

\* _advance_cursor, by the cursor the task started the page with
Advanced(c, last) ==
    IF run.status = "cancelled" \/ run.target # c.target THEN run
    ELSE IF ~last THEN Wrote([run EXCEPT !.page = c.page + 1])
    ELSE IF c.feed = "kills" THEN Wrote([run EXCEPT !.feed = "losses", !.page = 1])
    ELSE Wrote([run EXCEPT !.target = @ + 1, !.feed = "kills", !.page = 1])

Empty(c) == c.page > length[c.target][c.feed]

\* An empty page ends the feed.
FetchEmpty(k) ==
    /\ task[k].pc = "fetching" /\ ~Busy /\ Empty(task[k])
    /\ run' = Advanced(task[k], TRUE)
    /\ ended' = ended \cup {<<task[k].target, task[k].feed, task[k].page>>}
    /\ Drop(k, "looking")
    /\ UNCHANGED <<registered, seen, others>>

FetchEntries(k) ==
    /\ task[k].pc = "fetching" /\ ~Busy /\ ~Empty(task[k])
    /\ To(k, "entries")
    /\ UNCHANGED <<run, registered, seen, ended, others>>

\* zKillboard fails, or is asked for a feed it does not know (a battle collection's), or
\* what happens to an entry escapes its own handler.
FetchFails(k) ==
    /\ task[k].pc \in {"fetching", "entries"} /\ (~Busy \/ run.battle)
    /\ task' = [task EXCEPT ![k] = IF run.status = "cancelled" THEN [Absent EXCEPT !.pc = "closing"]
                                   ELSE [Absent EXCEPT !.pc = "failing", !.read = run.status]]
    /\ UNCHANGED <<run, registered, seen, ended, others>>

SaveFail(k) ==
    /\ task[k].pc = "failing"
    /\ run' = Wrote([run EXCEPT !.failed = TRUE, !.status = IF task[k].read = "failed" THEN @ ELSE "failed"])
    /\ Drop(k, "closing")
    /\ UNCHANGED <<registered, seen, ended, others>>

\* A killmail could not be fetched or stored; a cancelled run is left alone.
ItemFails(k) ==
    /\ task[k].pc = "entries" /\ ~Busy /\ run.status # "cancelled"
    /\ run' = Wrote([run EXCEPT !.failed = TRUE])
    /\ UNCHANGED <<task, registered, seen, ended, others>>

Abort(k) ==
    /\ task[k].pc = "entries" /\ ~Busy /\ run.status = "cancelled"
    /\ Drop(k, "closing")
    /\ UNCHANGED <<run, registered, seen, ended, others>>

\* The page was gone through.  It is the feed's last if it reaches back far enough, if all
\* of it is known, or by the page limit.
EndPage(k, last) ==
    /\ task[k].pc = "entries" /\ ~Busy
    /\ last \/ task[k].page < Pages
    /\ run' = Advanced(task[k], last)
    /\ LET page == <<task[k].target, task[k].feed, task[k].page>> IN
          /\ seen' = seen \cup {page}
          /\ ended' = IF last THEN ended \cup {page} ELSE ended
    /\ Drop(k, "looking")
    /\ UNCHANGED <<registered, others>>

\* The clients are closed and the task is done; its callback runs in a later turn.
Close(k) ==
    /\ task[k].pc = "closing" /\ ~Busy
    /\ Drop(k, "done")
    /\ UNCHANGED <<run, registered, seen, ended, others>>

\* The callback takes whatever is registered for the run out of the registry.
Callback(k) ==
    /\ task[k].pc = "done" /\ ~Busy
    /\ task' = [task EXCEPT ![k] = Absent]
    /\ registered' = None
    /\ popped' = (popped \/ registered \notin {k, None})
    /\ UNCHANGED <<run, seen, ended, cancelling, resuming, collector, permitted, length, crossed>>

\* The process with the tasks is restarted; a cancel request may be another's.
Restart ==
    /\ Live # {}
    /\ task' = [k \in Tasks |-> Absent] /\ registered' = None
    /\ cancelling' \in {None, cancelling} /\ resuming' = None
    /\ UNCHANGED <<run, collector, permitted, length, history>>

-----------------------------------------------------------------------------
(* The battle executor (battle_report_discovery.execute) *)

\* A section opens a session, checks the run, and commits what it changed: between the two
\* another process may write.  Columns it did not change keep what they hold then.
Changed(row) == [f \in {g \in DOMAIN run : row[g] # run[g]} |-> row[f]]
Over(write, row) == [f \in DOMAIN row |-> IF f \in DOMAIN write THEN write[f] ELSE row[f]]

At(pc, target, page) ==
    [pc |-> pc, target |-> target, page |-> page, read |-> None, write |-> [f \in {} |-> None], then |-> "idle"]
Idle == At("idle", 1, 1)

Section(c, row, then) ==
    collector' = [collector EXCEPT ![c] =
        [@ EXCEPT !.pc = "saving", !.then = then, !.read = run.status, !.write = Changed(row)]]

Allowed(c) == run.status \notin Terminal /\ run.lease = c /\ permitted

rest == <<task, registered, cancelling, resuming, permitted, length, popped>>

\* The creator resumes the run, or has just created it.
ResumeBattle(c) ==
    /\ run.battle /\ run.status \notin Terminal /\ collector[c].pc = "idle"
    /\ collector' = [collector EXCEPT ![c].pc = "ready"]
    /\ UNCHANGED <<run, seen, ended, crossed, rest>>

\* One conditional UPDATE; who may not take the run leaves.
ClaimJob(c) ==
    /\ collector[c].pc = "ready"
    /\ IF run.status \notin Terminal /\ permitted /\ (run.status # "running" \/ run.silent)
       THEN /\ run' = Wrote([run EXCEPT !.status = "running", !.lease = c])
            /\ collector' = [collector EXCEPT ![c].pc = "looking"]
       ELSE collector' = [collector EXCEPT ![c] = Idle] /\ UNCHANGED run
    /\ UNCHANGED <<seen, ended, crossed, rest>>

\* A run that is still this execution's and may not go on is cancelled.
Revoked(c) == run.status = "running" /\ run.lease = c /\ ~permitted
Stop(c) ==
    IF Revoked(c) THEN Section(c, [run EXCEPT !.status = "cancelled"], "leaving")
    ELSE collector' = [collector EXCEPT ![c] = At("leaving", 1, 1)]

\* The top of the loop: the run is over, out of time (or out of imports), or has a page to fetch.
LookBattle(c) ==
    /\ collector[c].pc = "looking"
    /\ \/ ~Allowed(c) /\ Stop(c)
       \/ /\ Allowed(c) /\ run.target > Targets
          /\ Section(c, [run EXCEPT !.status = IF run.failed THEN "partial" ELSE "complete"], "leaving")
       \/ /\ Allowed(c) /\ run.target <= Targets
          /\ \E status \in {"paused", "partial"} : Section(c, [run EXCEPT !.status = status], "leaving")
       \/ /\ Allowed(c) /\ run.target <= Targets
          /\ collector' = [collector EXCEPT ![c] = At("fetching", run.target, run.page)]
    /\ UNCHANGED <<run, seen, ended, crossed, rest>>

Fetched(c) ==
    /\ collector[c].pc = "fetching"
    /\ collector' = [collector EXCEPT ![c].pc =
          IF collector[c].page > length[collector[c].target]["battle"] THEN "empty" ELSE "listed"]
    /\ UNCHANGED <<run, seen, ended, crossed, rest>>

FetchBreaks(c) ==
    /\ collector[c].pc \in {"fetching", "listed"}
    /\ IF Allowed(c) THEN Section(c, [run EXCEPT !.status = "failed"], "leaving")
       ELSE collector' = [collector EXCEPT ![c] = At("leaving", 1, 1)]
    /\ UNCHANGED <<run, seen, ended, crossed, rest>>

\* One entry: imported or known (the row's time stamp moves), failed, or not worth reading;
\* or as many are imported as one collection may import.
Entry(c) ==
    /\ collector[c].pc = "listed"
    /\ \/ ~Allowed(c) /\ collector' = [collector EXCEPT ![c] = At("leaving", 1, 1)]
       \/ Allowed(c) /\ \E failed \in {run.failed, TRUE} : Section(c, [run EXCEPT !.failed = failed], "listed")
       \/ Allowed(c) /\ Section(c, [run EXCEPT !.status = "partial"], "leaving")
    /\ UNCHANGED <<run, seen, ended, crossed, rest>>

\* Mutant: pages are read without a limit.
Turned_NoLimit(c) ==
    IF collector[c].pc = "empty" THEN [run EXCEPT !.target = @ + 1, !.page = 1]
    ELSE [run EXCEPT !.page = @ + 1]

\* The page is over: after an empty one or the last one allowed comes the next target.
Turned(c) ==
    IF collector[c].pc = "empty" THEN [run EXCEPT !.target = @ + 1, !.page = 1]
    ELSE IF collector[c].page >= Pages THEN [run EXCEPT !.target = @ + 1, !.page = 1, !.failed = TRUE]
    ELSE [run EXCEPT !.page = @ + 1]

Turn(c) ==
    /\ collector[c].pc \in {"empty", "listed"}
    /\ \/ ~Allowed(c) /\ collector' = [collector EXCEPT ![c] = At("leaving", 1, 1)] /\ UNCHANGED seen
       \/ /\ Allowed(c)
          /\ Section(c, Turned(c), "looking")
          /\ seen' = seen \cup {<<collector[c].target, "battle", collector[c].page>>}
       \/ /\ Allowed(c)
          /\ Section(c, [run EXCEPT !.status = "paused"], "leaving") /\ UNCHANGED seen
    /\ UNCHANGED <<run, ended, crossed, rest>>

Save(c) ==
    /\ collector[c].pc = "saving"
    /\ run' = Wrote(Over(collector[c].write, run))
    /\ collector' = [collector EXCEPT ![c] =
          IF collector[c].then = "listed" THEN At("listed", collector[c].target, collector[c].page)
          ELSE At(collector[c].then, 1, 1)]
    /\ crossed' = (crossed \/ run.lease # c)
    /\ UNCHANGED <<seen, ended, rest>>

\* The finally block looks at the run once more.
Leave(c) ==
    /\ collector[c].pc = "leaving"
    /\ IF Revoked(c) THEN Section(c, [run EXCEPT !.status = "cancelled"], "idle")
       ELSE collector' = [collector EXCEPT ![c] = Idle]
    /\ UNCHANGED <<run, seen, ended, crossed, rest>>

Die(c) ==
    /\ collector[c].pc # "idle"
    /\ collector' = [collector EXCEPT ![c] = Idle]
    /\ UNCHANGED <<run, seen, ended, crossed, rest>>

\* Two minutes pass without a write to a running collection.
Silence ==
    /\ run.battle /\ run.status = "running" /\ ~run.silent
    /\ run' = [run EXCEPT !.silent = TRUE]
    /\ UNCHANGED <<collector, seen, ended, crossed, rest>>

LoseAccess ==
    /\ permitted /\ run.battle
    /\ permitted' = FALSE
    /\ UNCHANGED <<runs, ordinary, collector, history>>

-----------------------------------------------------------------------------

Init ==
    /\ \E battle \in Battles :
          run = [battle |-> battle, status |-> "queued", target |-> 1,
                 feed |-> IF battle THEN "battle" ELSE "kills", page |-> 1,
                 failed |-> FALSE, silent |-> FALSE, lease |-> None]
    /\ length \in [1..Targets -> [Walked -> Lengths]]
    /\ task = [k \in Tasks |-> Absent] /\ registered = None
    /\ cancelling = None /\ resuming = None
    /\ collector = [c \in Collectors |-> Idle]
    /\ permitted = TRUE
    /\ seen = {} /\ ended = {} /\ popped = FALSE /\ crossed = FALSE

TaskNext(k) ==
    \/ StartSync(k) \/ SaveResume(k)
    \/ Begin(k) \/ SaveStart(k) \/ Look(k) \/ SaveComplete(k)
    \/ FetchEmpty(k) \/ FetchEntries(k) \/ FetchFails(k) \/ SaveFail(k)
    \/ ItemFails(k) \/ Abort(k) \/ \E last \in BOOLEAN : EndPage(k, last)
    \/ Close(k) \/ Callback(k)

CollectorNext(c) ==
    \/ ResumeBattle(c) \/ ClaimJob(c) \/ LookBattle(c)
    \/ Fetched(c) \/ FetchBreaks(c) \/ Entry(c) \/ Turn(c) \/ Save(c) \/ Leave(c) \/ Die(c)

Next ==
    \/ BeginResume \/ BeginCancel \/ SaveCancel \/ Restart
    \/ \E k \in Tasks : TaskNext(k)
    \/ Silence \/ LoseAccess
    \/ \E c \in Collectors : CollectorNext(c)

Spec == Init /\ [][Next]_vars

-----------------------------------------------------------------------------

\* The cursor of run and executors stays within targets and pages until sections cross.
TypeOK ==
    /\ run \in [battle : BOOLEAN, status : Statuses, target : Nat \ {0}, feed : Feeds,
                page : Nat \ {0}, failed : BOOLEAN, silent : BOOLEAN, lease : Collectors \cup {None}]
    /\ run.feed \in Walked
    /\ ~crossed => run.target <= Targets + 1 /\ run.page <= Pages + 1
    /\ registered \in Tasks \cup {None}
    /\ cancelling \in Statuses \cup {None} /\ resuming \in Statuses \cup {None}
    /\ \A k \in Tasks : task[k].feed \in Feeds /\ task[k].read \in Statuses
    /\ \A c \in Collectors : DOMAIN collector[c].write \subseteq {"status", "target", "page", "failed"}

\* A run that says it is complete went through every page of every feed, up to the page at
\* which the feed was over; a complete battle collection through all that zKillboard lists.
\* Only a second task (after a callback emptied the registry) and a section saved across a
\* lost lease can move the cursor past a page nobody read.
Covered ==
    /\ ~run.battle /\ run.status \in {"complete", "complete_with_errors"} /\ ~popped =>
          \A t \in 1..Targets, f \in Walked : \E last \in 1..Pages + 1 :
             <<t, f, last>> \in ended /\ \A p \in 1..last - 1 : <<t, f, p>> \in seen
    /\ run.battle /\ run.status = "complete" /\ ~crossed =>
          \A t \in 1..Targets : \A p \in 1..length[t]["battle"] : <<t, "battle", p>> \in seen

\* A run has at most one task, unless a callback took a younger task out of the registry.
OneTask == popped \/ \A j, k \in Live : j = k

TaskSaves(k) == task[k].pc \in {"starting", "completing", "failing"} /\ task'[k].pc # task[k].pc

\* A status saved by somebody who had read another one.
StaleSave(was) ==
    \/ cancelling \notin {None, was} /\ cancelling' = None
    \/ resuming \notin {None, was} /\ resuming' = None
    \/ \E k \in Tasks : TaskSaves(k) /\ task[k].read # was
    \/ \E c \in Collectors : /\ collector[c].pc = "saving" /\ collector'[c].pc # "saving"
                              /\ collector[c].read # was

\* A finished run stays as it finished, unless a section saves over it that had read it before
\* it finished, or the ordinary executor was put to a battle collection, whose end it does not
\* know.
FinishedStays ==
    [][run.status \in (IF run.battle THEN Terminal ELSE Finished) /\ run'.status # run.status =>
          popped \/ StaleSave(run.status) \/ (run.battle /\ \E k \in Tasks : TaskSaves(k))]_vars
=============================================================================
