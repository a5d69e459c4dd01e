------------------------- MODULE KillboardRunsProofs -------------------------
(* Proofs about KillboardRuns: any number of tasks, of processes, of targets   *)
(* and of pages.                                                               *)
EXTENDS KillboardRuns, TLAPS

Positive == Nat \ {0}
Runs == [battle : BOOLEAN, status : Statuses, target : Positive, feed : Feeds,
         page : Positive, failed : BOOLEAN, silent : BOOLEAN, lease : Collectors \cup {None}]

TaskPlaces == {"none", "ready", "starting", "looking", "fetching", "entries", "completing",
               "failing", "closing", "done"}
TaskRows == [pc : TaskPlaces, target : Positive, feed : Feeds, page : Positive, read : Statuses]

Columns == {"status", "target", "page", "failed"}
Edits == UNION {[columns -> Statuses \cup BOOLEAN \cup Nat] : columns \in SUBSET Columns}
Places == {"idle", "ready", "looking", "fetching", "listed", "empty", "saving", "leaving"}
CollectorRows == [pc : Places, target : Positive, page : Positive, read : Statuses \cup {None},
                  write : Edits, then : Places]

EditOK(w) ==
    /\ w \in Edits
    /\ "status" \in DOMAIN w => w["status"] \in Statuses
    /\ "target" \in DOMAIN w => w["target"] \in Positive
    /\ "page" \in DOMAIN w => w["page"] \in Positive
    /\ "failed" \in DOMAIN w => w["failed"] = TRUE

-----------------------------------------------------------------------------
(* The invariant *)

RunOK ==
    /\ run \in Runs /\ run.feed \in Walked
    /\ length \in [1..Targets -> [Walked -> Lengths]]
    /\ ~crossed => run.target <= Targets + 1 /\ run.page <= Pages + 1
    /\ popped \in BOOLEAN /\ crossed \in BOOLEAN

\* Requests come between read and commit with no status they would not have acted on.
RequestsOK ==
    /\ cancelling \in Statuses \cup {None}
    /\ cancelling # None => cancelling \notin (IF run.battle THEN Terminal ELSE Finished)
    /\ resuming \in Statuses \cup {None} /\ (resuming # None => resuming \notin Finished)
    /\ run.battle => resuming = None

Complete == {"complete", "complete_with_errors"}
Walking == {"starting", "looking", "fetching", "entries", "completing", "failing"}

\* A task that is the run's only one has the run's cursor, and its run is not complete.
Fits(k) ==
    /\ task[k].pc = "starting" => task[k].read \notin Finished
    /\ task[k].pc \in {"completing", "failing"} => task[k].read # "cancelled"
    /\ task[k].pc \in {"fetching", "entries"} => task[k].target <= Targets
    /\ run.battle => task[k].pc # "entries"
    /\ ~run.battle /\ ~popped /\ task[k].pc \in Walking => run.status \notin Complete
    /\ ~run.battle /\ ~popped /\ task[k].pc \in {"fetching", "entries"} =>
          task[k].target = run.target /\ task[k].feed = run.feed /\ task[k].page = run.page
    /\ (run.battle \/ ~popped) /\ ~crossed /\ task[k].pc = "completing" => run.target > Targets

TasksOK ==
    /\ task \in [Tasks -> TaskRows] /\ registered \in Tasks \cup {None}
    /\ ~popped => \A k \in Live : registered = k
    /\ \A k \in Tasks : Fits(k)

\* What an ordinary run has behind it.
Through(t, f) ==
    \E last \in 1..Pages + 1 : <<t, f, last>> \in ended /\ \A p \in 1..last - 1 : <<t, f, p>> \in seen
Passed(r, t, f) == t < r.target \/ (t = r.target /\ f = "kills" /\ r.feed = "losses")

WalkOK ==
    ~run.battle /\ ~popped =>
       /\ \A t \in 1..Targets, f \in Walked : Passed(run, t, f) \/ run.status \in Complete => Through(t, f)
       /\ \A p \in 1..run.page - 1 : <<run.target, run.feed, p>> \in seen

\* What a battle collection has behind it, unless it has failed somewhere.
Swept(t) == \A p \in 1..length[t]["battle"] : <<t, "battle", p>> \in seen
Behind(r) ==
    /\ r.target <= Targets + 1 /\ r.page <= Pages + 1
    /\ ~r.failed => \A t \in 1..Targets : t < r.target => Swept(t)
    /\ \A p \in 1..r.page - 1 : <<r.target, "battle", p>> \in seen
AllSwept == \A t \in 1..Targets : Swept(t)

\* A collector that holds the lease has the run's cursor, and what it saves is behind it too.
Sweeps(c) ==
    LET x == collector[c] IN
    /\ run.lease = c /\ x.pc = "saving" =>
          Behind(Over(x.write, run)) /\ Over(x.write, run).target >= run.target
    /\ run.lease = c /\ (x.pc \in {"fetching", "listed", "empty"} \/ (x.pc = "saving" /\ x.then = "listed")) =>
          x.target = run.target /\ x.page = run.page /\ run.target <= Targets
    /\ x.pc = "saving" /\ x.then = "listed" => "target" \notin DOMAIN x.write /\ "page" \notin DOMAIN x.write
    /\ run.lease = c /\ x.pc = "empty" => x.page > length[x.target]["battle"]
    /\ x.pc = "saving" /\ "status" \in DOMAIN x.write /\ x.write["status"] = "complete" => AllSwept

SweepOK ==
    run.battle /\ ~crossed =>
       /\ Behind(run) /\ (run.status = "complete" => AllSwept)
       /\ \A c \in Collectors : Sweeps(c)

CollectorsOK ==
    /\ collector \in [Collectors -> CollectorRows]
    /\ \A c \in Collectors :
          /\ EditOK(collector[c].write)
          /\ collector[c].pc = "saving" =>
                /\ collector[c].read \in Statuses \ Terminal
                /\ collector[c].then \in {"leaving", "looking", "listed", "idle"}
    /\ ~run.battle => ~crossed /\ \A c \in Collectors : collector[c].pc = "idle"

IInv == RunOK /\ RequestsOK /\ TasksOK /\ WalkOK /\ SweepOK /\ CollectorsOK

USE BoundsOK

-----------------------------------------------------------------------------
(* Rows *)

SameCursor(r, s) ==
    /\ s.battle = r.battle /\ s.target = r.target /\ s.feed = r.feed
    /\ s.page = r.page /\ s.lease = r.lease

LEMMA Stamped ==
    ASSUME NEW r \in Runs, NEW w, w = Wrote(r)
    PROVE  w \in Runs /\ SameCursor(r, w) /\ w.status = r.status /\ w.failed = r.failed
BY DEF Wrote, Runs, SameCursor

LEMMA Restatus ==
    ASSUME NEW r \in Runs, NEW s \in Statuses, NEW w, w = [r EXCEPT !.status = s]
    PROVE  w \in Runs /\ SameCursor(r, w) /\ w.status = s /\ w.failed = r.failed
BY DEF Runs, SameCursor

LEMMA RestatusStamped ==
    ASSUME NEW r \in Runs, NEW s \in Statuses, NEW w, w = Wrote([r EXCEPT !.status = s])
    PROVE  w \in Runs /\ SameCursor(r, w) /\ w.status = s /\ w.failed = r.failed
<1>1. PICK v : v = [r EXCEPT !.status = s]
  OBVIOUS
<1>2. v \in Runs /\ SameCursor(r, v) /\ v.status = s /\ v.failed = r.failed
  BY <1>1, Restatus
<1>3. w = Wrote(v)
  BY <1>1
<1>4. w \in Runs /\ SameCursor(v, w) /\ w.status = v.status /\ w.failed = v.failed
  BY <1>2, <1>3, Stamped
<1> QED BY <1>2, <1>4 DEF SameCursor

LEMMA FailedStamped ==
    ASSUME NEW r \in Runs, NEW w, w = Wrote([r EXCEPT !.failed = TRUE])
    PROVE  w \in Runs /\ SameCursor(r, w) /\ w.status = r.status /\ w.failed
<1>1. PICK v : v = [r EXCEPT !.failed = TRUE]
  OBVIOUS
<1>2. v \in Runs /\ SameCursor(r, v) /\ v.status = r.status /\ v.failed
  BY <1>1 DEF Runs, SameCursor
<1>3. w = Wrote(v)
  BY <1>1
<1>4. w \in Runs /\ SameCursor(v, w) /\ w.status = v.status /\ w.failed = v.failed
  BY <1>2, <1>3, Stamped
<1> QED BY <1>2, <1>4 DEF SameCursor

\* What a page leaves of the cursor.
LEMMA AdvancedFields ==
    ASSUME run \in Runs, NEW c \in TaskRows, NEW last \in BOOLEAN, NEW r, r = Advanced(c, last)
    PROVE  /\ r \in Runs /\ r.battle = run.battle /\ r.status = run.status /\ r.failed = run.failed
           /\ \/ r.target = run.target /\ r.feed = run.feed /\ r.page = run.page
              \/ /\ run.target = c.target /\ ~last
                 /\ r.target = run.target /\ r.feed = run.feed /\ r.page = c.page + 1
              \/ /\ run.target = c.target /\ last /\ c.feed = "kills"
                 /\ r.target = run.target /\ r.feed = "losses" /\ r.page = 1
              \/ /\ run.target = c.target /\ last /\ c.feed # "kills"
                 /\ r.target = run.target + 1 /\ r.feed = "kills" /\ r.page = 1
<1>1. CASE run.status = "cancelled" \/ run.target # c.target
  BY <1>1 DEF Advanced
<1>2. CASE ~(run.status = "cancelled" \/ run.target # c.target) /\ ~last
  <2>1. PICK v : v = [run EXCEPT !.page = c.page + 1]
    OBVIOUS
  <2>2. /\ v \in Runs /\ v.battle = run.battle /\ v.status = run.status /\ v.failed = run.failed
        /\ v.target = run.target /\ v.feed = run.feed /\ v.page = c.page + 1
    BY <2>1 DEF Runs, TaskRows, Positive
  <2>3. r = Wrote(v)
    BY <1>2, <2>1 DEF Advanced
  <2> QED BY <1>2, <2>2, <2>3, Stamped DEF SameCursor
<1>3. CASE ~(run.status = "cancelled" \/ run.target # c.target) /\ last /\ c.feed = "kills"
  <2>1. PICK v : v = [run EXCEPT !.feed = "losses", !.page = 1]
    OBVIOUS
  <2> DEFINE target == run.target
  <2>2. "losses" \in Feeds /\ 1 \in Positive /\ target \in Positive
    BY DEF Feeds, Positive, Runs
  <2> HIDE DEF target
  <2>3. v = [run EXCEPT !.target = target, !.feed = "losses", !.page = 1]
    BY <2>1 DEF target, Runs
  <2>4. v \in Runs
    BY <2>2, <2>3 DEF Runs
  <2>5. /\ v.battle = run.battle /\ v.status = run.status /\ v.failed = run.failed
        /\ v.target = target /\ v.feed = "losses" /\ v.page = 1
    BY <2>3 DEF Runs
  <2>6. /\ v \in Runs /\ v.battle = run.battle /\ v.status = run.status /\ v.failed = run.failed
        /\ v.target = run.target /\ v.feed = "losses" /\ v.page = 1
    BY <2>4, <2>5 DEF target
  <2>7. r = Wrote(v)
    BY <1>3, <2>1 DEF Advanced
  <2> QED BY <1>3, <2>6, <2>7, Stamped DEF SameCursor
<1>4. CASE ~(run.status = "cancelled" \/ run.target # c.target) /\ last /\ c.feed # "kills"
  <2>1. PICK v : v = [run EXCEPT !.target = run.target + 1, !.feed = "kills", !.page = 1]
    OBVIOUS
  <2> DEFINE target == run.target + 1
  <2>2. "kills" \in Feeds /\ 1 \in Positive /\ target \in Positive
    BY DEF Feeds, Positive, Runs
  <2> HIDE DEF target
  <2>3. v = [run EXCEPT !.target = target, !.feed = "kills", !.page = 1]
    BY <2>1 DEF target, Runs
  <2>4. v \in Runs
    BY <2>2, <2>3 DEF Runs
  <2>5. /\ v.battle = run.battle /\ v.status = run.status /\ v.failed = run.failed
        /\ v.target = target /\ v.feed = "kills" /\ v.page = 1
    BY <2>3 DEF Runs
  <2>6. /\ v \in Runs /\ v.battle = run.battle /\ v.status = run.status /\ v.failed = run.failed
        /\ v.target = run.target + 1 /\ v.feed = "kills" /\ v.page = 1
    BY <2>4, <2>5 DEF target
  <2>7. r = Wrote(v)
    BY <1>4, <2>1 DEF Advanced
  <2> QED BY <1>4, <2>6, <2>7, Stamped DEF SameCursor
<1> QED BY <1>1, <1>2, <1>3, <1>4

\* A section's columns over a row that others may have changed.
LEMMA OverFields ==
    ASSUME NEW r \in Runs, NEW w, EditOK(w), NEW o, o = Over(w, r)
    PROVE  /\ o \in Runs
           /\ o.battle = r.battle /\ o.feed = r.feed /\ o.lease = r.lease
           /\ o.status = IF "status" \in DOMAIN w THEN w["status"] ELSE r.status
           /\ o.target = IF "target" \in DOMAIN w THEN w["target"] ELSE r.target
           /\ o.page = IF "page" \in DOMAIN w THEN w["page"] ELSE r.page
           /\ o.failed <=> "failed" \in DOMAIN w \/ r.failed
<1>1. DOMAIN w \subseteq Columns
  BY DEF EditOK, Edits
<1>2. DOMAIN r = {"battle", "status", "target", "feed", "page", "failed", "silent", "lease"}
  BY DEF Runs
<1>3. /\ o.battle = r.battle /\ o.feed = r.feed /\ o.lease = r.lease /\ o.silent = r.silent
      /\ o.status = IF "status" \in DOMAIN w THEN w["status"] ELSE r.status
      /\ o.target = IF "target" \in DOMAIN w THEN w["target"] ELSE r.target
      /\ o.page = IF "page" \in DOMAIN w THEN w["page"] ELSE r.page
      /\ o.failed = IF "failed" \in DOMAIN w THEN w["failed"] ELSE r.failed
  BY <1>1, <1>2 DEF Over, Columns
<1>4. /\ o.battle \in BOOLEAN /\ o.feed \in Feeds /\ o.lease \in Collectors \cup {None} /\ o.silent \in BOOLEAN
      /\ o.status \in Statuses /\ o.target \in Positive /\ o.page \in Positive
  BY <1>3 DEF Runs, EditOK
<1>5. o.failed \in BOOLEAN /\ (o.failed <=> "failed" \in DOMAIN w \/ r.failed)
  BY <1>3 DEF Runs, EditOK
<1>6. o = [f \in {"battle", "status", "target", "feed", "page", "failed", "silent", "lease"} |-> o[f]]
  BY <1>2 DEF Over
<1>7. o \in Runs
  BY <1>4, <1>5, <1>6 DEF Runs
<1> QED BY <1>3, <1>5, <1>7

\* The columns a section changed, and what they make of the row it read.
LEMMA ChangedFields ==
    ASSUME run \in Runs, NEW row \in Runs, NEW w, w = Changed(row),
           row.battle = run.battle, row.feed = run.feed, row.silent = run.silent, row.lease = run.lease,
           run.failed => row.failed
    PROVE  /\ EditOK(w)
           /\ \A f \in Columns : f \in DOMAIN w <=> row[f] # run[f]
           /\ \A f \in DOMAIN w : w[f] = row[f]
<1>1. /\ DOMAIN run = {"battle", "status", "target", "feed", "page", "failed", "silent", "lease"}
      /\ DOMAIN row = DOMAIN run
  BY DEF Runs
<1>2. DOMAIN w = {f \in DOMAIN run : row[f] # run[f]} /\ w = [f \in DOMAIN w |-> row[f]]
  BY DEF Changed
<1>3. DOMAIN w \subseteq Columns
  BY <1>1, <1>2 DEF Columns
<1>4. \A f \in Columns : f \in DOMAIN w <=> row[f] # run[f]
  BY <1>1, <1>2 DEF Columns
<1>5. \A f \in DOMAIN w : w[f] = row[f]
  BY <1>2
<1>6. /\ row["status"] \in Statuses /\ row["target"] \in Positive /\ row["page"] \in Positive
      /\ row["failed"] \in BOOLEAN /\ run["failed"] \in BOOLEAN
  BY DEF Runs
<1>7. \A f \in DOMAIN w : w[f] \in Statuses \cup BOOLEAN \cup Nat
  BY <1>3, <1>5, <1>6 DEF Columns, Positive
<1>8. w \in [DOMAIN w -> Statuses \cup BOOLEAN \cup Nat]
  BY <1>2, <1>7
<1>9. w \in Edits
  BY <1>3, <1>8 DEF Edits
<1>10. "failed" \in DOMAIN w => w["failed"] = TRUE
  BY <1>4, <1>5, <1>6 DEF Columns
<1> QED BY <1>4, <1>5, <1>6, <1>9, <1>10 DEF EditOK

-----------------------------------------------------------------------------
(* What a step leaves alone *)

LEMMA RunKept ==
    ASSUME RunOK, run' \in Runs, SameCursor(run, run'), UNCHANGED <<length, crossed>>, popped' \in BOOLEAN
    PROVE  RunOK'
BY DEF RunOK, SameCursor, Walked

LEMMA RequestsKept == ASSUME RequestsOK, UNCHANGED <<cancelling, resuming>>, run'.battle = run.battle PROVE RequestsOK'
BY DEF RequestsOK

LEMMA CollectorsKept == ASSUME CollectorsOK, UNCHANGED <<collector, crossed>>, run'.battle = run.battle PROVE CollectorsOK'
BY DEF CollectorsOK, EditOK

LEMMA WalkKept ==
    ASSUME WalkOK, SameCursor(run, run'), UNCHANGED <<seen, ended>>, popped => popped',
           ~run.battle /\ ~popped' /\ run'.status \in Complete =>
              run.status \in Complete \/ \A t \in 1..Targets, f \in Walked : Passed(run, t, f)
    PROVE  WalkOK'
BY DEF WalkOK, SameCursor, Walked, Passed, Through

LEMMA FitsKept ==
    ASSUME NEW k \in Tasks, Fits(k), task'[k] = task[k], SameCursor(run, run'), crossed => crossed',
           popped => popped', ~run.battle /\ ~popped' /\ run'.status \in Complete => run.status \in Complete
    PROVE  Fits(k)'
BY DEF Fits, SameCursor

\* A collection that nobody but its collectors moves.
LEMMA BehindKept ==
    ASSUME NEW r, NEW s, Behind(r), s.target = r.target, s.page = r.page, r.failed => s.failed,
           length' = length, seen \subseteq seen'
    PROVE  Behind(s)'
BY DEF Behind, Swept

LEMMA AllSweptKept == ASSUME AllSwept, UNCHANGED length, seen \subseteq seen' PROVE AllSwept'
BY DEF AllSwept, Swept

LEMMA SweepsKept ==
    ASSUME NEW c \in Collectors, EditOK(collector[c].write), Sweeps(c), collector'[c] = collector[c],
           run \in Runs, run' \in Runs, run'.lease = c => SameCursor(run, run'),
           run.failed => run'.failed, UNCHANGED length, seen \subseteq seen'
    PROVE  Sweeps(c)'
<1> DEFINE x == collector[c]
<1>1. x.write = (x.write)' /\ x.pc = (x.pc)' /\ x.then = (x.then)' /\ x.target = (x.target)' /\ x.page = (x.page)'
  OBVIOUS
<1>2. run'.lease = c => run.lease = c /\ run'.target = run.target /\ run'.page = run.page
  BY DEF SameCursor
<1>3. AllSwept => AllSwept'
  BY AllSweptKept
<1>4. ASSUME run'.lease = c, x.pc = "saving"
      PROVE  Behind(Over(x.write, run))' /\ Over(x.write, run') .target >= run'.target
  <2>1. PICK o : o = Over(x.write, run)
    OBVIOUS
  <2>2. PICK q : q = Over(x.write, run')
    OBVIOUS
  <2>3. Behind(o) /\ o.target >= run.target
    BY <1>2, <1>4, <2>1 DEF Sweeps
  <2>4. o.target = q.target /\ o.page = q.page /\ (o.failed => q.failed)
    BY <1>2, <1>4, <2>1, <2>2, OverFields
  <2>5. Behind(q)'
    BY <2>3, <2>4, BehindKept
  <2> QED BY <1>1, <1>2, <1>4, <2>2, <2>3, <2>4, <2>5
<1> QED BY <1>1, <1>2, <1>3, <1>4 DEF Sweeps

LEMMA SweepKept ==
    ASSUME IInv, run' \in Runs, SameCursor(run, run'), run.failed => run'.failed,
           UNCHANGED <<collector, length, crossed, seen>>,
           run.battle /\ ~crossed /\ run'.status = "complete" => AllSwept
    PROVE  SweepOK'
<1> SUFFICES ASSUME run.battle, ~crossed PROVE SweepOK'
  BY DEF SweepOK, SameCursor
<1>1. Behind(run) /\ \A c \in Collectors : Sweeps(c) /\ EditOK(collector[c].write)
  BY DEF IInv, SweepOK, CollectorsOK
<1>2. run \in Runs
  BY DEF IInv, RunOK
<1>3. Behind(run)'
  BY <1>1, BehindKept DEF SameCursor
<1>4. \A c \in Collectors : Sweeps(c)'
  BY <1>1, <1>2, SweepsKept
<1>5. (run'.status = "complete") => AllSwept'
  BY AllSweptKept
<1> QED BY <1>3, <1>4, <1>5 DEF SweepOK

-----------------------------------------------------------------------------
(* The tasks *)

\* A step of one task that is at work.
LEMMA TaskStep ==
    ASSUME IInv, NEW k \in Tasks, task[k].pc \notin {"none", "done"},
           task' \in [Tasks -> TaskRows], \A j \in Tasks \ {k} : task'[j] = task[j],
           UNCHANGED <<registered, popped, crossed, collector, length, cancelling, resuming>>,
           run' \in Runs, run'.battle = run.battle, run'.feed \in Walked,
           ~crossed => run'.target <= Targets + 1 /\ run'.page <= Pages + 1,
           Fits(k)', WalkOK',
           run.battle =>
              /\ SameCursor(run, run') /\ (run.failed => run'.failed) /\ UNCHANGED seen
              /\ ~crossed /\ run'.status = "complete" => AllSwept
    PROVE  IInv'
<1>1. RunOK'
  BY DEF IInv, RunOK, Walked
<1>2. RequestsOK' /\ CollectorsOK'
  BY RequestsKept, CollectorsKept DEF IInv
<1>3. \A j \in Live' : j = k \/ j \in Live
  BY DEF Live
<1>4. ~popped' => \A j \in Live' : registered' = j
  <2>1. k \in Live
    BY DEF Live
  <2> QED BY <1>3, <2>1 DEF IInv, TasksOK
<1>5. ASSUME NEW j \in Tasks PROVE Fits(j)'
  <2>1. CASE j = k
    BY <2>1
  <2>2. CASE j # k /\ run.battle
    BY <2>2, FitsKept DEF IInv, TasksOK
  <2>3. CASE j # k /\ ~run.battle /\ popped
    BY <2>3 DEF IInv, TasksOK, Fits
  <2>4. CASE j # k /\ ~run.battle /\ ~popped
    <3>1. j \notin Live
      BY <2>4 DEF IInv, TasksOK, Live
    <3>2. task'[j].pc \in {"none", "done"}
      BY <2>4, <3>1 DEF Live
    <3> QED BY <2>4, <3>2 DEF Fits, Walking
  <2> QED BY <2>1, <2>2, <2>3, <2>4
<1>6. TasksOK'
  BY <1>4, <1>5 DEF IInv, TasksOK
<1>7. SweepOK'
  <2>1. CASE run.battle
    BY <2>1, SweepKept
  <2>2. CASE ~run.battle
    BY <2>2 DEF SweepOK
  <2> QED BY <2>1, <2>2
<1> QED BY <1>1, <1>2, <1>6, <1>7 DEF IInv

\* Most of them move nothing but the task, or the run's status and errors.
LEMMA TaskStays ==
    ASSUME IInv, NEW k \in Tasks, task[k].pc \notin {"none", "done"},
           task' \in [Tasks -> TaskRows], \A j \in Tasks \ {k} : task'[j] = task[j],
           UNCHANGED <<registered, popped, crossed, collector, length, cancelling, resuming, seen, ended>>,
           run' \in Runs, SameCursor(run, run'), run.failed => run'.failed, Fits(k)',
           ~run.battle /\ ~popped /\ run'.status \in Complete =>
              run.status \in Complete \/ \A t \in 1..Targets, f \in Walked : Passed(run, t, f),
           run.battle /\ ~crossed /\ run'.status = "complete" => AllSwept
    PROVE  IInv'
<1>1. WalkOK'
  BY WalkKept DEF IInv
<1>2. run'.battle = run.battle /\ run'.feed \in Walked /\ (~crossed => run'.target <= Targets + 1 /\ run'.page <= Pages + 1)
  BY DEF IInv, RunOK, SameCursor
<1> QED BY <1>1, <1>2, TaskStep

LEMMA Facts ==
    ASSUME IInv
    PROVE  /\ run \in Runs /\ task \in [Tasks -> TaskRows] /\ collector \in [Collectors -> CollectorRows]
           /\ SameCursor(run, run) /\ (run.status = "complete" /\ run.battle /\ ~crossed => AllSwept)
           /\ run.status \in Statuses
BY DEF IInv, RunOK, TasksOK, CollectorsOK, SweepOK, SameCursor, Runs

LEMMA AbsentRow ==
    ASSUME NEW pc \in TaskPlaces, NEW row, row = [Absent EXCEPT !.pc = pc]
    PROVE  row \in TaskRows /\ row.pc = pc
<1>1. row = [pc |-> pc, target |-> 1, feed |-> "kills", page |-> 1, read |-> "queued"]
  BY DEF Absent
<1>2. 1 \in Positive /\ "kills" \in Feeds /\ "queued" \in Statuses
  BY DEF Positive, Feeds, Statuses
<1>3. [pc |-> pc, target |-> 1, feed |-> "kills", page |-> 1, read |-> "queued"] \in TaskRows
  BY <1>2 DEF TaskRows
<1> QED BY <1>1, <1>3, Zenon

LEMMA Dropped ==
    ASSUME task \in [Tasks -> TaskRows], NEW k \in Tasks, NEW pc \in TaskPlaces, Drop(k, pc)
    PROVE  /\ task' \in [Tasks -> TaskRows] /\ \A j \in Tasks \ {k} : task'[j] = task[j]
           /\ task'[k].pc = pc
<1>1. PICK row : row = [Absent EXCEPT !.pc = pc]
  OBVIOUS
<1>2. row \in TaskRows /\ row.pc = pc
  BY <1>1, AbsentRow
<1>3. task' = [task EXCEPT ![k] = row]
  BY <1>1 DEF Drop
<1> QED BY <1>2, <1>3

\* A task between two pages of a run that is not complete, or done with it.
LEMMA FitsIdle ==
    ASSUME NEW k \in Tasks, task[k].pc \in {"none", "ready", "closing", "done"}
    PROVE  Fits(k)
BY DEF Fits, Walking

LEMMA FitsLooking ==
    ASSUME NEW k \in Tasks, task[k].pc = "looking", ~run.battle /\ ~popped => run.status \notin Complete
    PROVE  Fits(k)
BY DEF Fits, Walking

LEMMA BeginStep == ASSUME IInv, NEW k \in Tasks, Begin(k) PROVE IInv'
<1>1. UNCHANGED run /\ run \in Runs
  BY Facts DEF Begin
<1>2. CASE run.status \in Finished
  <2>1. Drop(k, "closing")
    BY <1>2 DEF Begin, Drop
  <2>2. task' \in [Tasks -> TaskRows] /\ (\A j \in Tasks \ {k} : task'[j] = task[j]) /\ task'[k].pc = "closing"
    BY <2>1, Facts, Dropped DEF TaskPlaces
  <2>3. Fits(k)'
    BY <2>2 DEF Fits, Walking
  <2> QED BY <1>1, <2>2, <2>3, Facts, TaskStays DEF Begin, others
<1>3. CASE run.status \notin Finished
  <2>0. PICK row : row = [Absent EXCEPT !.pc = "starting", !.read = run.status]
    OBVIOUS
  <2>1. row = [pc |-> "starting", target |-> 1, feed |-> "kills", page |-> 1, read |-> run.status]
    BY <2>0 DEF Absent
  <2>2. 1 \in Positive /\ "kills" \in Feeds /\ run.status \in Statuses
    BY Facts DEF Positive, Feeds
  <2>3. row \in TaskRows
    BY <2>1, <2>2 DEF TaskRows, TaskPlaces
  <2>4. task' = [task EXCEPT ![k] = row]
    BY <1>3, <2>0 DEF Begin
  <2>5. task' \in [Tasks -> TaskRows] /\ (\A j \in Tasks \ {k} : task'[j] = task[j]) /\ task'[k] = row
    BY <2>3, <2>4, Facts
  <2>6. Fits(k)'
    BY <1>1, <1>3, <2>1, <2>5 DEF Fits, Complete, Finished
  <2> QED BY <1>1, <2>5, <2>6, Facts, TaskStays DEF Begin, others
<1> QED BY <1>2, <1>3

LEMMA SaveStartStep == ASSUME IInv, NEW k \in Tasks, SaveStart(k) PROVE IInv'
<1>1. task' \in [Tasks -> TaskRows] /\ (\A j \in Tasks \ {k} : task'[j] = task[j]) /\ task'[k].pc = "looking"
  BY Facts, Dropped DEF SaveStart, TaskPlaces
<1>2. /\ run' \in Runs /\ SameCursor(run, run') /\ run'.failed = run.failed
      /\ run'.status = run.status \/ run'.status = "running"
  <2>1. CASE task[k].read = "running"
    BY <2>1, Facts, Stamped DEF SaveStart
  <2>2. CASE task[k].read # "running"
    <3>1. run' = Wrote([run EXCEPT !.status = "running"])
      BY <2>2 DEF SaveStart
    <3> QED BY <3>1, Facts, RestatusStamped DEF Statuses
  <2> QED BY <2>1, <2>2
<1>3. ~run.battle /\ ~popped => run.status \notin Complete
  BY DEF SaveStart, IInv, TasksOK, Fits, Walking
<1>4. Fits(k)'
  BY <1>1, <1>2, <1>3 DEF SaveStart, others, Fits, Complete, SameCursor
<1> QED BY <1>1, <1>2, <1>3, <1>4, Facts, TaskStays DEF SaveStart, others, Complete

LEMMA LookStep == ASSUME IInv, NEW k \in Tasks, Look(k) PROVE IInv'
<1>1. UNCHANGED run /\ run \in Runs
  BY Facts DEF Look
<1>2. ~run.battle /\ ~popped => run.status \notin Complete
  BY DEF Look, IInv, TasksOK, Fits, Walking
<1>3. CASE run.status = "cancelled"
  <2>1. Drop(k, "closing")
    BY <1>3 DEF Look, Drop
  <2>2. task' \in [Tasks -> TaskRows] /\ (\A j \in Tasks \ {k} : task'[j] = task[j]) /\ task'[k].pc = "closing"
    BY <2>1, Facts, Dropped DEF TaskPlaces
  <2>3. Fits(k)'
    BY <2>2 DEF Fits, Walking
  <2> QED BY <1>1, <2>2, <2>3, Facts, TaskStays DEF Look, others
<1>4. CASE run.status # "cancelled" /\ run.target > Targets
  <2>0. PICK row : row = [Absent EXCEPT !.pc = "completing", !.read = run.status]
    OBVIOUS
  <2>1. row = [pc |-> "completing", target |-> 1, feed |-> "kills", page |-> 1, read |-> run.status]
    BY <2>0 DEF Absent
  <2>2. 1 \in Positive /\ "kills" \in Feeds /\ run.status \in Statuses
    BY Facts DEF Positive, Feeds
  <2>3. row \in TaskRows
    BY <2>1, <2>2 DEF TaskRows, TaskPlaces
  <2>4. task' = [task EXCEPT ![k] = row]
    BY <1>4, <2>0 DEF Look
  <2>5. task' \in [Tasks -> TaskRows] /\ (\A j \in Tasks \ {k} : task'[j] = task[j]) /\ task'[k] = row
    BY <2>3, <2>4, Facts
  <2>6. Fits(k)'
    BY <1>1, <1>2, <1>4, <2>1, <2>5 DEF Look, others, Fits
  <2> QED BY <1>1, <2>5, <2>6, Facts, TaskStays DEF Look, others
<1>5. CASE run.status # "cancelled" /\ ~(run.target > Targets)
  <2>0. PICK row : row = [Absent EXCEPT !.pc = "fetching", !.target = run.target, !.feed = run.feed, !.page = run.page]
    OBVIOUS
  <2>1. row = [pc |-> "fetching", target |-> run.target, feed |-> run.feed, page |-> run.page, read |-> "queued"]
    BY <2>0 DEF Absent
  <2>2. run.target \in Positive /\ run.feed \in Feeds /\ run.page \in Positive /\ "queued" \in Statuses
    BY Facts DEF Runs, Statuses
  <2>3. row \in TaskRows
    BY <2>1, <2>2 DEF TaskRows, TaskPlaces
  <2>4. task' = [task EXCEPT ![k] = row]
    BY <1>5, <2>0 DEF Look
  <2>5. task' \in [Tasks -> TaskRows] /\ (\A j \in Tasks \ {k} : task'[j] = task[j]) /\ task'[k] = row
    BY <2>3, <2>4, Facts
  <2>6. Fits(k)'
    BY <1>1, <1>2, <1>5, <2>1, <2>2, <2>5 DEF Look, others, Fits, Positive
  <2> QED BY <1>1, <2>5, <2>6, Facts, TaskStays DEF Look, others
<1> QED BY <1>3, <1>4, <1>5

LEMMA SaveCompleteStep == ASSUME IInv, NEW k \in Tasks, SaveComplete(k) PROVE IInv'
<1>1. task' \in [Tasks -> TaskRows] /\ (\A j \in Tasks \ {k} : task'[j] = task[j]) /\ task'[k].pc = "closing"
  BY Facts, Dropped DEF SaveComplete, TaskPlaces
<1>2. Fits(k)'
  BY <1>1 DEF Fits, Walking
<1>3. PICK status \in Complete : status = IF run.failed THEN "complete_with_errors" ELSE "complete"
  BY DEF Complete
<1>4. run' \in Runs /\ SameCursor(run, run') /\ run'.status = status /\ run'.failed = run.failed
  <2>1. run' = Wrote([run EXCEPT !.status = status])
    BY <1>3 DEF SaveComplete
  <2> QED BY <2>1, Facts, RestatusStamped DEF Complete, Statuses, Finished
<1>5. (run.battle \/ ~popped) /\ ~crossed => run.target > Targets
  BY DEF SaveComplete, IInv, TasksOK, Fits
<1>6. ~run.battle /\ ~popped => \A t \in 1..Targets, f \in Walked : Passed(run, t, f)
  BY <1>5, Facts DEF Passed, IInv, CollectorsOK, Runs, Positive
<1>7. run.battle /\ ~crossed /\ run'.status = "complete" => AllSwept
  BY <1>3, <1>4, <1>5, Facts DEF IInv, SweepOK, Behind, AllSwept, Runs, Positive
<1> QED BY <1>1, <1>2, <1>4, <1>6, <1>7, TaskStays DEF SaveComplete, others

LEMMA FetchEntriesStep == ASSUME IInv, NEW k \in Tasks, FetchEntries(k) PROVE IInv'
<1>1. UNCHANGED run /\ run \in Runs /\ ~run.battle
  BY Facts DEF FetchEntries, Busy
<1>2. PICK row : row = [task[k] EXCEPT !.pc = "entries"]
  OBVIOUS
<1>3. /\ row \in TaskRows /\ row.pc = "entries"
      /\ row.target = task[k].target /\ row.feed = task[k].feed /\ row.page = task[k].page
  BY <1>2, Facts DEF TaskRows, TaskPlaces
<1>4. task' = [task EXCEPT ![k] = row]
  BY <1>2 DEF FetchEntries, To
<1>5. task' \in [Tasks -> TaskRows] /\ (\A j \in Tasks \ {k} : task'[j] = task[j]) /\ task'[k] = row
  BY <1>3, <1>4, Facts
<1>6. Fits(k)
  BY DEF IInv, TasksOK
<1>7. Fits(k)'
  BY <1>1, <1>3, <1>5, <1>6 DEF FetchEntries, others, Fits, Walking
<1> QED BY <1>1, <1>5, <1>7, Facts, TaskStays DEF FetchEntries, others

LEMMA FetchFailsStep == ASSUME IInv, NEW k \in Tasks, FetchFails(k) PROVE IInv'
<1>1. UNCHANGED run /\ run \in Runs
  BY Facts DEF FetchFails
<1>2. CASE run.status = "cancelled"
  <2>1. Drop(k, "closing")
    BY <1>2 DEF FetchFails, Drop
  <2>2. task' \in [Tasks -> TaskRows] /\ (\A j \in Tasks \ {k} : task'[j] = task[j]) /\ task'[k].pc = "closing"
    BY <2>1, Facts, Dropped DEF TaskPlaces
  <2>3. Fits(k)'
    BY <2>2 DEF Fits, Walking
  <2> QED BY <1>1, <2>2, <2>3, Facts, TaskStays DEF FetchFails, others
<1>3. CASE run.status # "cancelled"
  <2>0. PICK row : row = [Absent EXCEPT !.pc = "failing", !.read = run.status]
    OBVIOUS
  <2>1. row = [pc |-> "failing", target |-> 1, feed |-> "kills", page |-> 1, read |-> run.status]
    BY <2>0 DEF Absent
  <2>2. 1 \in Positive /\ "kills" \in Feeds /\ run.status \in Statuses
    BY Facts DEF Positive, Feeds
  <2>3. row \in TaskRows
    BY <2>1, <2>2 DEF TaskRows, TaskPlaces
  <2>4. task' = [task EXCEPT ![k] = row]
    BY <1>3, <2>0 DEF FetchFails
  <2>5. task' \in [Tasks -> TaskRows] /\ (\A j \in Tasks \ {k} : task'[j] = task[j]) /\ task'[k] = row
    BY <2>3, <2>4, Facts
  <2>6. ~run.battle /\ ~popped => run.status \notin Complete
    BY DEF FetchFails, IInv, TasksOK, Fits, Walking
  <2>7. Fits(k)'
    BY <1>1, <1>3, <2>1, <2>5, <2>6 DEF FetchFails, others, Fits
  <2> QED BY <1>1, <2>5, <2>7, Facts, TaskStays DEF FetchFails, others
<1> QED BY <1>2, <1>3

LEMMA SaveFailStep == ASSUME IInv, NEW k \in Tasks, SaveFail(k) PROVE IInv'
<1>1. task' \in [Tasks -> TaskRows] /\ (\A j \in Tasks \ {k} : task'[j] = task[j]) /\ task'[k].pc = "closing"
  BY Facts, Dropped DEF SaveFail, TaskPlaces
<1>2. Fits(k)'
  BY <1>1 DEF Fits, Walking
<1>3. PICK status \in Statuses : status = IF task[k].read = "failed" THEN run.status ELSE "failed"
  BY Facts DEF Statuses
<1>4. /\ run' \in Runs /\ SameCursor(run, run') /\ run'.failed
      /\ run'.status = run.status \/ run'.status = "failed"
  <2>1. PICK r : r = [run EXCEPT !.failed = TRUE, !.status = status]
    OBVIOUS
  <2>2. r \in Runs /\ SameCursor(run, r) /\ r.failed /\ r.status = status
    BY <2>1, Facts DEF Runs, SameCursor
  <2>3. run' = Wrote(r)
    BY <1>3, <2>1 DEF SaveFail
  <2>4. run' \in Runs /\ SameCursor(r, run') /\ run'.status = r.status /\ run'.failed = r.failed
    BY <2>2, <2>3, Stamped
  <2> QED BY <1>3, <2>2, <2>4 DEF SameCursor
<1> QED BY <1>1, <1>2, <1>4, Facts, TaskStays DEF SaveFail, others, Complete

LEMMA ItemFailsStep == ASSUME IInv, NEW k \in Tasks, ItemFails(k) PROVE IInv'
<1>1. run' \in Runs /\ SameCursor(run, run') /\ run'.failed /\ run'.status = run.status
  BY Facts, FailedStamped DEF ItemFails
<1>2. Fits(k)'
  BY <1>1, FitsKept DEF ItemFails, others, IInv, TasksOK
<1> QED BY <1>1, <1>2, Facts, TaskStays DEF ItemFails, others

LEMMA AbortStep == ASSUME IInv, NEW k \in Tasks, Abort(k) PROVE IInv'
<1>1. task' \in [Tasks -> TaskRows] /\ (\A j \in Tasks \ {k} : task'[j] = task[j]) /\ task'[k].pc = "closing"
  BY Facts, Dropped DEF Abort, TaskPlaces
<1>2. Fits(k)'
  BY <1>1 DEF Fits, Walking
<1> QED BY <1>1, <1>2, Facts, TaskStays DEF Abort, others

\* A task that goes through a page, or finds it empty, and moves the cursor.
LEMMA PageStep ==
    ASSUME IInv, ~run.battle, NEW k \in Tasks, task[k].pc \in {"fetching", "entries"},
           NEW last \in BOOLEAN, run' = Advanced(task[k], last), Drop(k, "looking"),
           ~last => task[k].page < Pages /\ <<task[k].target, task[k].feed, task[k].page>> \in seen',
           last => <<task[k].target, task[k].feed, task[k].page>> \in ended',
           seen \subseteq seen', ended \subseteq ended', UNCHANGED <<registered, others>>
    PROVE  IInv'
<1> DEFINE c == task[k]
<1>1. task' \in [Tasks -> TaskRows] /\ (\A j \in Tasks \ {k} : task'[j] = task[j]) /\ task'[k].pc = "looking"
  BY Facts, Dropped DEF TaskPlaces
<1>2. PICK r : r = run'
  OBVIOUS
<1>3. /\ r \in Runs /\ r.battle = run.battle /\ r.status = run.status /\ r.failed = run.failed
      /\ \/ r.target = run.target /\ r.feed = run.feed /\ r.page = run.page
         \/ /\ run.target = c.target /\ ~last
            /\ r.target = run.target /\ r.feed = run.feed /\ r.page = c.page + 1
         \/ /\ run.target = c.target /\ last /\ c.feed = "kills"
            /\ r.target = run.target /\ r.feed = "losses" /\ r.page = 1
         \/ /\ run.target = c.target /\ last /\ c.feed # "kills"
            /\ r.target = run.target + 1 /\ r.feed = "kills" /\ r.page = 1
  BY <1>2, Facts, AdvancedFields
<1>4. /\ run.target \in Positive /\ run.page \in Positive /\ c.page \in Positive /\ c.target \in Positive
      /\ run.target <= Targets + 1 /\ run.page <= Pages + 1 /\ run.feed \in {"kills", "losses"} /\ Walked = {"kills", "losses"}
  BY Facts DEF IInv, RunOK, CollectorsOK, Runs, TaskRows, Walked
<1>5. c.target <= Targets /\ (~popped => run.status \notin Complete)
      /\ (~popped => c.target = run.target /\ c.feed = run.feed /\ c.page = run.page)
  BY DEF IInv, TasksOK, Fits, Walking
<1> HIDE DEF c
<1>6. r.target <= Targets + 1 /\ r.page <= Pages + 1 /\ r.feed \in {"kills", "losses"} /\ r.target \in Positive
  <2>1. ~last => c.page < Pages
    BY DEF c
  <2> QED BY <1>3, <1>4, <1>5, <2>1 DEF Positive
<1>7. Fits(k)'
  BY <1>1, <1>2, <1>3, <1>5, FitsLooking DEF Fits, others, Walking
<1>8. WalkOK'
  <2> SUFFICES ASSUME ~popped PROVE WalkOK'
    BY DEF WalkOK, others
  <2>1. /\ \A t \in 1..Targets, f \in Walked : Passed(run, t, f) => Through(t, f)
        /\ \A p \in 1..run.page - 1 : <<run.target, run.feed, p>> \in seen
    BY DEF IInv, WalkOK
  <2>2. ASSUME NEW t, NEW f, Through(t, f) PROVE Through(t, f)'
    BY <2>2 DEF Through
  <2>3. ASSUME last, NEW t, NEW f, t = run.target, f = run.feed PROVE Through(t, f)'
    <3>1. <<t, f, run.page>> \in ended' /\ run.page \in 1..Pages + 1
      BY <1>4, <1>5, <2>3 DEF c, Positive
    <3>2. \A p \in 1..run.page - 1 : <<t, f, p>> \in seen'
      BY <2>1, <2>3
    <3> QED BY <3>1, <3>2 DEF Through
  <2>4. ~last => <<run.target, run.feed, run.page>> \in seen'
    BY <1>5 DEF c
  <2>5. ASSUME NEW t \in 1..Targets, NEW f \in Walked, Passed(r, t, f) PROVE Through(t, f)'
    <3>1. Passed(run, t, f) \/ (last /\ t = run.target /\ f = run.feed)
      BY <1>3, <1>4, <1>5, <2>5 DEF Passed, Positive
    <3> QED BY <2>1, <2>2, <2>3, <3>1
  <2>6. ASSUME NEW p \in 1..r.page - 1 PROVE <<r.target, r.feed, p>> \in seen'
    <3>1. CASE r.target = run.target /\ r.feed = run.feed /\ r.page = run.page
      BY <2>1, <3>1
    <3>2. CASE ~last /\ r.target = run.target /\ r.feed = run.feed /\ r.page = c.page + 1
      <4>1. p \in 1..run.page - 1 \/ p = run.page
        BY <1>4, <1>5, <3>2 DEF Positive
      <4> QED BY <2>1, <2>4, <3>2, <4>1
    <3>3. CASE r.page = 1
      BY <3>3
    <3> QED BY <1>3, <3>1, <3>2, <3>3
  <2> QED BY <1>2, <1>3, <1>5, <2>5, <2>6 DEF WalkOK, Walked
<1> QED BY <1>1, <1>2, <1>3, <1>4, <1>6, <1>7, <1>8, TaskStep DEF others, Walked

LEMMA FetchEmptyStep == ASSUME IInv, NEW k \in Tasks, FetchEmpty(k) PROVE IInv'
<1>1. ~run.battle
  BY DEF FetchEmpty, Busy
<1> QED BY <1>1, PageStep DEF FetchEmpty

LEMMA EndPageStep == ASSUME IInv, NEW k \in Tasks, NEW last \in BOOLEAN, EndPage(k, last) PROVE IInv'
<1>1. ~run.battle
  BY DEF EndPage, IInv, TasksOK, Fits
<1> QED BY <1>1, PageStep DEF EndPage

LEMMA CloseStep == ASSUME IInv, NEW k \in Tasks, Close(k) PROVE IInv'
<1>1. task' \in [Tasks -> TaskRows] /\ (\A j \in Tasks \ {k} : task'[j] = task[j]) /\ task'[k].pc = "done"
  BY Facts, Dropped DEF Close, TaskPlaces
<1>2. Fits(k)'
  BY <1>1 DEF Fits, Walking
<1> QED BY <1>1, <1>2, Facts, TaskStays DEF Close, others

LEMMA AbsentOK == Absent \in TaskRows /\ Absent.pc = "none"
BY DEF Absent, TaskRows, TaskPlaces, Positive, Feeds, Statuses

\* The rest of a step that changes tasks and requests only.
LEMMA TasksOnly ==
    ASSUME IInv, TasksOK', RequestsOK', UNCHANGED <<run, length, collector, crossed, seen, ended>>,
           popped => popped', popped' \in BOOLEAN
    PROVE  IInv'
<1>1. RunOK' /\ CollectorsOK'
  BY RunKept, CollectorsKept, Facts DEF IInv
<1>2. SweepOK' /\ WalkOK'
  BY SweepKept, WalkKept, Facts DEF IInv
<1> QED BY <1>1, <1>2 DEF IInv

LEMMA CallbackStep == ASSUME IInv, NEW k \in Tasks, Callback(k) PROVE IInv'
<1>1. task' \in [Tasks -> TaskRows] /\ (\A j \in Tasks \ {k} : task'[j] = task[j]) /\ task'[k].pc = "none"
  BY Facts, AbsentOK DEF Callback
<1>2. popped' \in BOOLEAN /\ (popped => popped') /\ (~popped' => registered \in {k, None})
  BY DEF Callback, IInv, RunOK
<1>3. ASSUME ~popped' PROVE Live' = {}
  <2>1. ASSUME NEW j \in Live' PROVE FALSE
    <3>1. j # k /\ j \in Live
      BY <1>1, <2>1 DEF Live
    <3>2. registered = j
      BY <1>2, <1>3, <3>1 DEF IInv, TasksOK
    <3> QED BY <1>2, <1>3, <3>1, <3>2 DEF Live
  <2> QED BY <2>1
<1>4. ASSUME NEW j \in Tasks PROVE Fits(j)'
  <2>1. CASE j = k
    BY <1>1, <2>1 DEF Fits, Walking
  <2>2. CASE j # k
    BY <1>1, <1>2, <2>2, Facts, FitsKept DEF Callback, IInv, TasksOK
  <2> QED BY <2>1, <2>2
<1>5. TasksOK'
  BY <1>1, <1>3, <1>4 DEF TasksOK, Callback
<1>6. RequestsOK'
  BY RequestsKept DEF Callback, IInv
<1> QED BY <1>2, <1>5, <1>6, TasksOnly DEF Callback

-----------------------------------------------------------------------------
(* Requests *)

\* start_sync_task keeps the registry to the one task there is.
LEMMA StartedTasks ==
    ASSUME IInv, NEW k \in Tasks, Started(k), UNCHANGED <<popped, crossed>>,
           run' \in Runs, SameCursor(run, run'),
           ~run.battle /\ ~popped /\ run'.status \in Complete => run.status \in Complete
    PROVE  TasksOK'
<1>1. CASE Startable(k)
  <2>1. PICK row : row = [Absent EXCEPT !.pc = "ready"]
    OBVIOUS
  <2>2. row \in TaskRows /\ row.pc = "ready"
    BY <2>1, AbsentRow DEF TaskPlaces
  <2>3. task' = [task EXCEPT ![k] = row] /\ registered' = k
    BY <1>1, <2>1 DEF Started
  <2>4. task' \in [Tasks -> TaskRows] /\ (\A j \in Tasks \ {k} : task'[j] = task[j]) /\ task'[k].pc = "ready"
    BY <2>2, <2>3, Facts
  <2>5. ASSUME ~popped PROVE Live = {}
    BY <1>1, <2>5 DEF Startable, IInv, TasksOK
  <2>6. ~popped' => \A j \in Live' : registered' = j
    <3>1. \A j \in Live' : j = k \/ j \in Live
      BY <2>4 DEF Live
    <3> QED BY <2>3, <2>5, <3>1
  <2>7. ASSUME NEW j \in Tasks PROVE Fits(j)'
    <3>1. CASE j = k
      BY <2>4, <3>1 DEF Fits, Walking
    <3>2. CASE j # k
      BY <2>4, <3>2, FitsKept DEF IInv, TasksOK
    <3> QED BY <3>1, <3>2
  <2> QED BY <2>3, <2>4, <2>6, <2>7 DEF TasksOK
<1>2. CASE ~Startable(k)
  <2>1. UNCHANGED <<task, registered>>
    BY <1>2 DEF Started
  <2>2. ASSUME NEW j \in Tasks PROVE Fits(j)'
    BY <2>1, FitsKept DEF IInv, TasksOK
  <2>3. ~popped' => \A j \in Live' : registered' = j
    BY <2>1 DEF IInv, TasksOK, Live
  <2> QED BY <2>1, <2>2, <2>3, Facts DEF IInv, TasksOK
<1> QED BY <1>1, <1>2

LEMMA StartSyncStep == ASSUME IInv, NEW k \in Tasks, StartSync(k) PROVE IInv'
<1>1. TasksOK'
  BY Facts, StartedTasks DEF StartSync, runs, history
<1>2. RequestsOK'
  BY RequestsKept DEF StartSync, runs, IInv
<1> QED BY <1>1, <1>2, TasksOnly DEF StartSync, runs, history, IInv, RunOK

\* A step that changes neither tasks nor collectors nor the cursor.
LEMMA RowStep ==
    ASSUME IInv, TasksOK', RequestsOK', UNCHANGED <<length, collector, history>>,
           run' \in Runs, SameCursor(run, run'), run.failed => run'.failed,
           run'.status \in Complete => run.status = run'.status
    PROVE  IInv'
<1>1. RunOK' /\ CollectorsOK'
  BY RunKept, CollectorsKept DEF IInv, history, RunOK, SameCursor
<1>2. WalkOK'
  BY WalkKept DEF IInv, history
<1>3. run.battle /\ ~crossed /\ run'.status = "complete" => AllSwept
  BY Facts DEF Complete
<1>4. SweepOK'
  BY <1>3, SweepKept DEF history
<1> QED BY <1>1, <1>2, <1>4 DEF IInv

\* The same tasks under another status.
LEMMA SameTasks ==
    ASSUME IInv, UNCHANGED <<task, registered, history>>, SameCursor(run, run'),
           run'.status \in Complete => run.status = run'.status
    PROVE  TasksOK'
<1>1. ASSUME NEW j \in Tasks PROVE Fits(j)'
  BY FitsKept DEF IInv, TasksOK, history
<1>2. ~popped' => \A j \in Live' : registered' = j
  BY DEF IInv, TasksOK, Live, history
<1> QED BY <1>1, <1>2 DEF IInv, TasksOK

LEMMA RequestStep ==
    ASSUME IInv, BeginResume \/ BeginCancel \/ SaveCancel PROVE IInv'
<1>1. CASE BeginResume
  <2>1. TasksOK' /\ run' \in Runs /\ SameCursor(run, run')
    BY <1>1, SameTasks, Facts DEF BeginResume, runs, history
  <2>2. RequestsOK'
    BY <1>1, Facts DEF BeginResume, Resumable, runs, IInv, RequestsOK
  <2> QED BY <1>1, <2>1, <2>2, RowStep DEF BeginResume, runs
<1>2. CASE BeginCancel
  <2>1. TasksOK' /\ run' \in Runs /\ SameCursor(run, run')
    BY <1>2, SameTasks, Facts DEF BeginCancel, runs, history
  <2>2. RequestsOK'
    <3>1. cancelling' = run.status /\ run.status \in Statuses /\ UNCHANGED <<run, resuming>>
      BY <1>2, Facts DEF BeginCancel, runs
    <3>2. run.status \notin (IF run.battle THEN Terminal ELSE Finished)
      BY <1>2 DEF BeginCancel, Finished
    <3> QED BY <3>1, <3>2 DEF IInv, RequestsOK
  <2> QED BY <1>2, <2>1, <2>2, RowStep DEF BeginCancel, runs
<1>3. CASE SaveCancel
  <2>1. run' \in Runs /\ SameCursor(run, run') /\ run'.failed = run.failed /\ run'.status = "cancelled"
    BY <1>3, Facts, RestatusStamped DEF SaveCancel, Statuses, Finished
  <2>2. TasksOK'
    BY <1>3, <2>1, SameTasks DEF SaveCancel, Complete
  <2>3. RequestsOK'
    BY <1>3, <2>1 DEF SaveCancel, IInv, RequestsOK, SameCursor
  <2> QED BY <1>3, <2>1, <2>2, <2>3, RowStep DEF SaveCancel, Complete
<1> QED BY <1>1, <1>2, <1>3

LEMMA SaveResumeStep == ASSUME IInv, NEW k \in Tasks, SaveResume(k) PROVE IInv'
<1>1. /\ run' \in Runs /\ SameCursor(run, run') /\ run'.failed = run.failed
      /\ run'.status = run.status \/ run'.status = "queued"
  <2>1. CASE resuming = "queued"
    BY <2>1, Facts DEF SaveResume
  <2>2. CASE resuming # "queued"
    <3>1. run' = [run EXCEPT !.status = "queued"]
      BY <2>2 DEF SaveResume
    <3> QED BY <3>1, Facts, Restatus DEF Statuses
  <2> QED BY <2>1, <2>2
<1>2. TasksOK'
  BY <1>1, StartedTasks DEF SaveResume, history, Complete
<1>3. RequestsOK'
  BY <1>1 DEF SaveResume, IInv, RequestsOK, SameCursor
<1> QED BY <1>1, <1>2, <1>3, RowStep DEF SaveResume, Complete

LEMMA RestartStep == ASSUME IInv, Restart PROVE IInv'
<1>1. task' \in [Tasks -> TaskRows] /\ \A j \in Tasks : task'[j].pc = "none"
  BY AbsentOK DEF Restart
<1>2. ASSUME NEW j \in Tasks PROVE Fits(j)'
  BY <1>1 DEF Fits, Walking
<1>3. Live' = {}
  BY <1>1 DEF Live
<1>4. TasksOK'
  BY <1>1, <1>2, <1>3 DEF TasksOK, Restart
<1>5. RequestsOK'
  BY DEF Restart, IInv, RequestsOK
<1> QED BY <1>4, <1>5, TasksOnly DEF Restart, history, IInv, RunOK

-----------------------------------------------------------------------------
(* The collectors *)

alone == <<task, registered, cancelling, resuming, popped, crossed, length, ended>>

LEMMA TasksAlone == ASSUME TasksOK, UNCHANGED <<alone, run>> PROVE TasksOK'
<1>1. ASSUME NEW j \in Tasks PROVE Fits(j)'
  BY DEF TasksOK, Fits, alone
<1>2. ~popped' => \A j \in Live' : registered' = j
  BY DEF TasksOK, Live, alone
<1> QED BY <1>1, <1>2 DEF TasksOK, alone

\* A collector's step that leaves the row alone.
LEMMA CollectorStep ==
    ASSUME IInv, run.battle, NEW c \in Collectors, NEW x \in CollectorRows,
           collector' = [collector EXCEPT ![c] = x], UNCHANGED <<run, alone>>, seen \subseteq seen',
           EditOK(x.write),
           x.pc = "saving" => /\ x.read \in Statuses \ Terminal
                              /\ x.then \in {"leaving", "looking", "listed", "idle"},
           ~crossed => Sweeps(c)'
    PROVE  IInv'
<1>1. RunOK' /\ TasksOK' /\ RequestsOK'
  BY RunKept, TasksAlone, RequestsKept, Facts DEF IInv, RunOK, alone
<1>2. WalkOK'
  BY DEF WalkOK
<1>3. CollectorsOK'
  <2>1. collector' \in [Collectors -> CollectorRows]
    BY Facts
  <2>2. ASSUME NEW d \in Collectors
        PROVE  /\ EditOK(collector'[d].write)
               /\ collector'[d].pc = "saving" =>
                    /\ collector'[d].read \in Statuses \ Terminal
                    /\ collector'[d].then \in {"leaving", "looking", "listed", "idle"}
    <3>1. CASE d = c
      <4>1. collector'[d] = x
        BY <3>1, Facts
      <4> QED BY <4>1
    <3>2. CASE d # c
      <4>1. collector'[d] = collector[d]
        BY <3>2, Facts
      <4> QED BY <4>1 DEF IInv, CollectorsOK
    <3> QED BY <3>1, <3>2
  <2> QED BY <2>1, <2>2 DEF CollectorsOK, EditOK
<1>4. SweepOK'
  <2> SUFFICES ASSUME ~crossed PROVE SweepOK'
    BY DEF SweepOK, alone
  <2>1. Behind(run) /\ (run.status = "complete" => AllSwept) /\ \A d \in Collectors : Sweeps(d) /\ EditOK(collector[d].write)
    BY DEF IInv, SweepOK, CollectorsOK
  <2>2. Behind(run)' /\ (run'.status = "complete" => AllSwept')
    BY <2>1, BehindKept, AllSweptKept DEF alone
  <2>3. ASSUME NEW d \in Collectors, d # c PROVE Sweeps(d)'
    <3>1. collector'[d] = collector[d]
      BY <2>3, Facts
    <3> QED BY <2>1, <3>1, Facts, SweepsKept DEF alone
  <2> QED BY <2>2, <2>3 DEF SweepOK
<1> QED BY <1>1, <1>2, <1>3, <1>4 DEF IInv

LEMMA NoEdit == ASSUME NEW w, w = [f \in {} |-> None] PROVE EditOK(w) /\ w \in Edits
<1>1. DOMAIN w = {} /\ w \in [{} -> Statuses \cup BOOLEAN \cup Nat]
  OBVIOUS
<1>2. w \in Edits
  BY <1>1 DEF Edits
<1> QED BY <1>1, <1>2 DEF EditOK

LEMMA AtRow ==
    ASSUME NEW pc \in Places, NEW target \in Positive, NEW page \in Positive,
           NEW x, x = At(pc, target, page)
    PROVE  x \in CollectorRows /\ EditOK(x.write) /\ x.pc = pc /\ x.target = target /\ x.page = page
<1>1. PICK w : w = [f \in {} |-> None]
  OBVIOUS
<1>2. EditOK(w) /\ w \in Edits
  BY <1>1, NoEdit
<1>3. x = [pc |-> pc, target |-> target, page |-> page, read |-> None, write |-> w, then |-> "idle"]
  BY <1>1, Zenon DEF At
<1>4. [pc |-> pc, target |-> target, page |-> page, read |-> None, write |-> w, then |-> "idle"] \in CollectorRows
  BY <1>2 DEF CollectorRows, Places
<1>5. x \in CollectorRows
  BY <1>3, <1>4, Zenon
<1>6. x.pc = pc /\ x.target = target /\ x.page = page /\ x.write = w
  BY <1>3
<1> QED BY <1>2, <1>5, <1>6

\* A collector that has nothing to save and no page.
LEMMA IdleStep ==
    ASSUME IInv, run.battle, NEW c \in Collectors, NEW pc \in {"idle", "leaving", "looking"},
           collector' = [collector EXCEPT ![c] = At(pc, 1, 1)],
           UNCHANGED <<run, alone>>, seen \subseteq seen'
    PROVE  IInv'
<1>1. PICK x : x = At(pc, 1, 1)
  OBVIOUS
<1>2. x \in CollectorRows /\ EditOK(x.write) /\ x.pc = pc
  BY <1>1, AtRow DEF Places, Positive
<1>3. collector' = [collector EXCEPT ![c] = x]
  BY <1>1
<1>4. collector'[c] = x
  BY <1>3, Facts
<1>5. Sweeps(c)'
  BY <1>2, <1>4 DEF Sweeps
<1> QED BY <1>2, <1>3, <1>5, CollectorStep

\* The end of a section: what it changed is kept until it is committed.
LEMMA SectionStep ==
    ASSUME IInv, run.battle, NEW c \in Collectors, NEW row \in Runs,
           NEW then \in {"leaving", "looking", "listed", "idle"}, Section(c, row, then),
           run.status \notin Terminal, UNCHANGED <<run, alone>>, seen \subseteq seen',
           row.battle = run.battle, row.feed = run.feed, row.silent = run.silent, row.lease = run.lease,
           run.failed => row.failed,
           ~crossed /\ run.lease = c => Behind(row)' /\ row.target >= run.target,
           then = "listed" => row.target = run.target /\ row.page = run.page,
           ~crossed /\ then = "listed" /\ run.lease = c =>
              collector[c].target = run.target /\ collector[c].page = run.page /\ run.target <= Targets,
           ~crossed /\ row.status = "complete" => AllSwept'
    PROVE  IInv'
<1> DEFINE old == collector[c]
<1>1. old \in CollectorRows /\ run \in Runs /\ run.status \in Statuses
  BY Facts
<1>2. PICK w : w = Changed(row)
  OBVIOUS
<1>3. /\ EditOK(w) /\ (\A f \in Columns : f \in DOMAIN w <=> row[f] # run[f])
      /\ \A f \in DOMAIN w : w[f] = row[f]
  BY <1>1, <1>2, ChangedFields
<1>4. PICK x : x = [old EXCEPT !.pc = "saving", !.then = then, !.read = run.status, !.write = w]
  OBVIOUS
<1>5. x = [pc |-> "saving", target |-> old.target, page |-> old.page, read |-> run.status, write |-> w, then |-> then]
  BY <1>1, <1>4 DEF CollectorRows
<1>6. w \in Edits
  BY <1>3 DEF EditOK
<1>7. x \in CollectorRows
  BY <1>1, <1>5, <1>6 DEF CollectorRows, Places
<1>8. x.pc = "saving" /\ x.target = old.target /\ x.page = old.page /\ x.read = run.status /\ x.write = w /\ x.then = then
  BY <1>5
<1>9. collector' = [collector EXCEPT ![c] = x]
  BY <1>2, <1>4 DEF Section
<1>10. collector'[c] = x
  BY <1>9, Facts
<1> HIDE DEF old
<1>11. ASSUME ~crossed PROVE Sweeps(c)'
  <2>1. ASSUME run.lease = c PROVE Behind(Over(x.write, run))' /\ Over(x.write, run').target >= run'.target
    <3>1. PICK o : o = Over(w, run)
      OBVIOUS
    <3>2. /\ o.target = IF "target" \in DOMAIN w THEN w["target"] ELSE run.target
          /\ o.page = IF "page" \in DOMAIN w THEN w["page"] ELSE run.page
          /\ o.failed <=> "failed" \in DOMAIN w \/ run.failed
      BY <1>1, <1>3, <3>1, OverFields
    <3>3. o.target = row.target /\ o.page = row.page
      BY <1>3, <3>2 DEF Columns
    <3>4. row.failed => o.failed
      BY <1>1, <1>3, <3>2 DEF Columns, Runs
    <3>5. Behind(row)' /\ row.target >= run.target
      BY <1>11, <2>1
    <3>6. Behind(o)' /\ o.target >= run.target
      BY <3>3, <3>4, <3>5 DEF Behind
    <3>7. Over(x.write, run') = o
      BY <1>8, <3>1
    <3> QED BY <3>6, <3>7
  <2>2. then = "listed" => "target" \notin DOMAIN w /\ "page" \notin DOMAIN w
    BY <1>3 DEF Columns
  <2>3. "status" \in DOMAIN w /\ w["status"] = "complete" => AllSwept'
    BY <1>3, <1>11
  <2> QED BY <1>8, <1>10, <1>11, <2>1, <2>2, <2>3 DEF Sweeps, old
<1> QED BY <1>1, <1>3, <1>7, <1>8, <1>9, <1>11, CollectorStep

\* A section that sets no more than the status, and not to complete.
LEMMA StatusSection ==
    ASSUME IInv, run.battle, NEW c \in Collectors, NEW status \in {"paused", "partial", "cancelled", "failed"},
           NEW then \in {"leaving", "idle"}, Section(c, [run EXCEPT !.status = status], then),
           run.status \notin Terminal, UNCHANGED <<run, alone, seen>>
    PROVE  IInv'
<1>1. PICK row : row = [run EXCEPT !.status = status]
  OBVIOUS
<1>2. row \in Runs /\ SameCursor(run, row) /\ row.status = status /\ row.failed = run.failed /\ row.silent = run.silent
  BY <1>1, Facts DEF Runs, Statuses, Finished, Terminal, SameCursor
<1>3. Section(c, row, then)
  BY <1>1
<1>4. ~crossed => Behind(row)' /\ row.target >= run.target
  <2>1. ~crossed => Behind(run)
    BY DEF IInv, SweepOK
  <2>2. row.target \in Nat /\ row.target = run.target
    BY <1>2 DEF SameCursor, Runs, Positive
  <2> QED BY <1>2, <2>1, <2>2, BehindKept DEF SameCursor, alone
<1> QED BY <1>2, <1>3, <1>4, SectionStep DEF SameCursor

LEMMA NotTerminal == run.status = "running" => run.status \notin Terminal
BY DEF Terminal

\* Only a battle collection has collectors.
LEMMA Collecting == ASSUME IInv, NEW c \in Collectors, collector[c].pc # "idle" PROVE run.battle
BY DEF IInv, CollectorsOK

LEMMA StopStep ==
    ASSUME IInv, run.battle, NEW c \in Collectors, Stop(c), UNCHANGED <<run, alone, seen>>
    PROVE  IInv'
<1>1. CASE Revoked(c)
  BY <1>1, StatusSection, NotTerminal DEF Stop, Revoked
<1>2. CASE ~Revoked(c)
  BY <1>2, IdleStep DEF Stop
<1> QED BY <1>1, <1>2

LEMMA LookBattleStep == ASSUME IInv, NEW c \in Collectors, LookBattle(c) PROVE IInv'
<1>1. run.battle
  BY Collecting DEF LookBattle
<1>2. UNCHANGED <<run, alone, seen>>
  BY DEF LookBattle, rest, alone
<1>3. CASE ~Allowed(c) /\ Stop(c)
  BY <1>1, <1>2, <1>3, StopStep
<1>4. CASE /\ Allowed(c) /\ run.target > Targets
           /\ Section(c, [run EXCEPT !.status = IF run.failed THEN "partial" ELSE "complete"], "leaving")
  <2>1. PICK status \in {"partial", "complete"} : status = IF run.failed THEN "partial" ELSE "complete"
    OBVIOUS
  <2>2. PICK row : row = [run EXCEPT !.status = status]
    OBVIOUS
  <2>3. row \in Runs /\ SameCursor(run, row) /\ row.status = status /\ row.failed = run.failed /\ row.silent = run.silent
    BY <2>2, Facts DEF Runs, Statuses, Finished, Terminal, SameCursor
  <2>4. Section(c, row, "leaving")
    BY <1>4, <2>1, <2>2
  <2>5. ~crossed => Behind(run)
    BY <1>1 DEF IInv, SweepOK
  <2>6. row.target \in Nat /\ row.target = run.target /\ row.page = run.page
    BY <2>3 DEF SameCursor, Runs, Positive
  <2>7. ~crossed => Behind(row)' /\ row.target >= run.target
    BY <1>2, <2>3, <2>5, <2>6, BehindKept DEF alone
  <2>8. ~crossed /\ row.status = "complete" => AllSwept
    BY <1>4, <2>1, <2>3, <2>5, <2>6 DEF Behind, AllSwept
  <2>9. ~crossed /\ row.status = "complete" => AllSwept'
    BY <1>2, <2>8, AllSweptKept DEF alone
  <2> QED BY <1>1, <1>2, <1>4, <2>3, <2>4, <2>7, <2>9, SectionStep DEF SameCursor, Allowed
<1>5. CASE /\ Allowed(c) /\ run.target <= Targets
           /\ \E status \in {"paused", "partial"} : Section(c, [run EXCEPT !.status = status], "leaving")
  BY <1>1, <1>2, <1>5, StatusSection DEF Allowed
<1>6. CASE /\ Allowed(c) /\ run.target <= Targets
           /\ collector' = [collector EXCEPT ![c] = At("fetching", run.target, run.page)]
  <2>1. PICK x : x = At("fetching", run.target, run.page)
    OBVIOUS
  <2>2. x \in CollectorRows /\ EditOK(x.write) /\ x.pc = "fetching" /\ x.target = run.target /\ x.page = run.page
    BY <2>1, Facts, AtRow DEF Places, Runs
  <2>3. collector' = [collector EXCEPT ![c] = x]
    BY <1>6, <2>1
  <2>4. collector'[c] = x
    BY <2>3, Facts
  <2>5. Sweeps(c)'
    BY <1>2, <1>6, <2>2, <2>4 DEF Sweeps
  <2> QED BY <1>1, <1>2, <2>2, <2>3, <2>5, CollectorStep
<1> QED BY <1>3, <1>4, <1>5, <1>6 DEF LookBattle

\* A collector that moves on within its page.
LEMMA PlaceStep ==
    ASSUME IInv, run.battle, NEW c \in Collectors, NEW pc \in Places \ {"saving"},
           collector' = [collector EXCEPT ![c].pc = pc], UNCHANGED <<run, alone, seen>>,
           pc = "ready" \/ collector[c].pc \in {"fetching", "listed"},
           pc = "empty" => collector[c].page > length[collector[c].target]["battle"]
    PROVE  IInv'
<1>1. PICK x : x = [collector[c] EXCEPT !.pc = pc]
  OBVIOUS
<1>2. collector[c] \in CollectorRows /\ EditOK(collector[c].write)
  BY Facts DEF IInv, CollectorsOK
<1>3. x \in CollectorRows /\ x.pc = pc /\ x.target = collector[c].target /\ x.page = collector[c].page /\ x.write = collector[c].write
  BY <1>1, <1>2 DEF CollectorRows
<1>4. collector' = [collector EXCEPT ![c] = x]
  BY <1>1
<1>5. collector'[c] = x
  BY <1>4, Facts
<1>6. ASSUME ~crossed PROVE Sweeps(c)'
  <2>1. Sweeps(c)
    BY <1>6 DEF IInv, SweepOK
  <2> QED BY <1>3, <1>5, <2>1 DEF Sweeps, alone
<1> QED BY <1>2, <1>3, <1>4, <1>6, CollectorStep

LEMMA ResumeBattleStep == ASSUME IInv, NEW c \in Collectors, ResumeBattle(c) PROVE IInv'
BY PlaceStep DEF ResumeBattle, rest, alone, Places

LEMMA FetchedStep == ASSUME IInv, NEW c \in Collectors, Fetched(c) PROVE IInv'
<1>1. run.battle
  BY Collecting DEF Fetched
<1>2. PICK pc \in {"empty", "listed"} :
         pc = IF collector[c].page > length[collector[c].target]["battle"] THEN "empty" ELSE "listed"
  OBVIOUS
<1>3. collector' = [collector EXCEPT ![c].pc = pc]
  BY <1>2 DEF Fetched
<1> QED BY <1>1, <1>2, <1>3, PlaceStep DEF Fetched, rest, alone, Places

LEMMA FetchBreaksStep == ASSUME IInv, NEW c \in Collectors, FetchBreaks(c) PROVE IInv'
<1>1. run.battle
  BY Collecting DEF FetchBreaks
<1>2. UNCHANGED <<run, alone, seen>>
  BY DEF FetchBreaks, rest, alone
<1>3. CASE Allowed(c)
  BY <1>1, <1>2, <1>3, StatusSection DEF FetchBreaks, Allowed
<1>4. CASE ~Allowed(c)
  BY <1>1, <1>2, <1>4, IdleStep DEF FetchBreaks
<1> QED BY <1>3, <1>4

LEMMA EntryStep == ASSUME IInv, NEW c \in Collectors, Entry(c) PROVE IInv'
<1>1. run.battle
  BY Collecting DEF Entry
<1>2. UNCHANGED <<run, alone, seen>>
  BY DEF Entry, rest, alone
<1>3. ASSUME Allowed(c), NEW item \in {run.failed, TRUE}, Section(c, [run EXCEPT !.failed = item], "listed")
      PROVE  IInv'
  <2>1. run.failed \in BOOLEAN
    BY Facts DEF Runs
  <2>2. PICK failed \in BOOLEAN : (run.failed => failed) /\ Section(c, [run EXCEPT !.failed = failed], "listed")
    BY <1>3, <2>1
  <2>3. PICK row : row = [run EXCEPT !.failed = failed]
    OBVIOUS
  <2>4. row \in Runs /\ SameCursor(run, row) /\ row.status = run.status /\ row.silent = run.silent
    BY <2>3, Facts DEF Runs, SameCursor
  <2>5. row.failed = failed
    BY <2>3, Facts DEF Runs
  <2>6. Section(c, row, "listed")
    BY <2>2, <2>3
  <2>7. row.target \in Nat /\ row.target = run.target /\ row.page = run.page
    BY <2>4 DEF SameCursor, Runs, Positive
  <2>8. ASSUME ~crossed PROVE Behind(row)' /\ row.target >= run.target /\ (row.status = "complete" => AllSwept')
    <3>1. Behind(run) /\ (run.status = "complete" => AllSwept)
      BY <1>1, <2>8 DEF IInv, SweepOK
    <3>2. Behind(row)'
      BY <1>2, <2>2, <2>5, <2>7, <3>1, BehindKept DEF alone
    <3>3. row.status = "complete" => AllSwept'
      BY <1>2, <2>4, <3>1, AllSweptKept DEF alone
    <3> QED BY <2>7, <3>2, <3>3
  <2>9. ~crossed /\ run.lease = c =>
           collector[c].target = run.target /\ collector[c].page = run.page /\ run.target <= Targets
    BY <1>1 DEF Entry, IInv, SweepOK, Sweeps
  <2> QED BY <1>1, <1>2, <1>3, <2>2, <2>4, <2>5, <2>6, <2>7, <2>8, <2>9, SectionStep DEF SameCursor, Allowed
<1>4. ASSUME Allowed(c), Section(c, [run EXCEPT !.status = "partial"], "leaving") PROVE IInv'
  BY <1>1, <1>2, <1>4, StatusSection DEF Allowed
<1>5. ASSUME ~Allowed(c), collector' = [collector EXCEPT ![c] = At("leaving", 1, 1)] PROVE IInv'
  BY <1>1, <1>2, <1>5, IdleStep
<1> QED BY <1>3, <1>4, <1>5 DEF Entry

\* The cursor moves only past a page that has been gone through, and past a target only
\* behind its last page, or with an error noted.
LEMMA TurnedBehind ==
    ASSUME IInv, run.battle, ~crossed, NEW c \in Collectors, collector[c].pc \in {"empty", "listed"},
           run.lease = c, UNCHANGED length, seen' = seen \cup {<<collector[c].target, "battle", collector[c].page>>},
           NEW row, row = Turned(c)
    PROVE  /\ row \in Runs /\ row.battle = run.battle /\ row.feed = run.feed /\ row.silent = run.silent
           /\ row.lease = run.lease /\ (run.failed => row.failed) /\ row.status = run.status
           /\ Behind(row)' /\ row.target >= run.target
<1> DEFINE x == collector[c]
<1>1. /\ run \in Runs /\ run.target \in Positive /\ run.page \in Positive /\ x \in CollectorRows
      /\ run.failed \in BOOLEAN
  BY Facts DEF Runs
<1>2. x.target = run.target /\ x.page = run.page /\ run.target <= Targets
  BY DEF IInv, SweepOK, Sweeps
<1>3. x.pc = "empty" => run.page > length[run.target]["battle"]
  BY <1>2 DEF IInv, SweepOK, Sweeps
<1>4. length[run.target]["battle"] \in Nat
  <2>1. run.target \in 1..Targets
    BY <1>1, <1>2 DEF Positive
  <2>2. length \in [1..Targets -> [{"battle"} -> Lengths]]
    BY DEF IInv, RunOK, Walked
  <2> QED BY <2>1, <2>2
<1>5. /\ run.page <= Pages + 1 /\ (~run.failed => \A t \in 1..Targets : t < run.target => Swept(t))
      /\ \A p \in 1..run.page - 1 : <<run.target, "battle", p>> \in seen
  BY DEF IInv, SweepOK, Behind
<1>6. \A t : Swept(t) => Swept(t)'
  BY DEF Swept
<1>7. \A p \in 1..run.page : <<run.target, "battle", p>> \in seen'
  <2> SUFFICES ASSUME NEW p \in 1..run.page PROVE <<run.target, "battle", p>> \in seen'
    OBVIOUS
  <2>1. p = run.page \/ p \in 1..run.page - 1
    BY <1>1 DEF Positive
  <2> QED BY <1>2, <1>5, <2>1
<1>8. ASSUME x.pc = "empty", NEW t, t = run.target PROVE Swept(t)'
  BY <1>1, <1>3, <1>4, <1>5, <1>8 DEF Swept, Positive
<1>9. CASE x.pc = "empty"
  <2>1. row = [run EXCEPT !.target = run.target + 1, !.page = 1]
    BY <1>9 DEF Turned
  <2>2. row \in Runs
    <3>1. PICK next, first : next = run.target + 1 /\ first = 1
      OBVIOUS
    <3>2. next \in Positive /\ first \in Positive
      BY <1>1, <3>1 DEF Positive
    <3>3. row = [run EXCEPT !.target = next, !.page = first]
      BY <2>1, <3>1
    <3> QED BY <1>1, <3>2, <3>3 DEF Runs
  <2>3. /\ row.battle = run.battle /\ row.feed = run.feed /\ row.silent = run.silent
        /\ row.lease = run.lease /\ row.failed = run.failed /\ row.status = run.status
        /\ row.target = run.target + 1 /\ row.page = 1
    BY <1>1, <2>1 DEF Runs
  <2>4. ASSUME ~row.failed, NEW t \in 1..Targets, t < row.target PROVE Swept(t)'
    <3>1. t < run.target \/ t = run.target
      BY <1>1, <2>3, <2>4 DEF Positive
    <3> QED BY <1>5, <1>6, <1>8, <1>9, <2>3, <2>4, <3>1
  <2>5. Behind(row)'
    BY <1>1, <1>2, <2>3, <2>4 DEF Behind, Positive
  <2> QED BY <1>1, <2>2, <2>3, <2>5 DEF Positive
<1>10. CASE x.pc # "empty" /\ x.page >= Pages
  <2>1. row = [run EXCEPT !.target = run.target + 1, !.page = 1, !.failed = TRUE]
    BY <1>10 DEF Turned
  <2>2. row \in Runs
    <3>1. PICK next, first : next = run.target + 1 /\ first = 1
      OBVIOUS
    <3>2. next \in Positive /\ first \in Positive
      BY <1>1, <3>1 DEF Positive
    <3>3. row = [run EXCEPT !.target = next, !.page = first, !.failed = TRUE]
      BY <2>1, <3>1
    <3> QED BY <1>1, <3>2, <3>3 DEF Runs
  <2>3. /\ row.battle = run.battle /\ row.feed = run.feed /\ row.silent = run.silent
        /\ row.lease = run.lease /\ row.failed /\ row.status = run.status
        /\ row.target = run.target + 1 /\ row.page = 1
    BY <1>1, <2>1 DEF Runs
  <2>4. Behind(row)'
    BY <1>1, <1>2, <2>3 DEF Behind, Positive
  <2> QED BY <1>1, <2>2, <2>3, <2>4 DEF Positive
<1>11. CASE x.pc # "empty" /\ ~(x.page >= Pages)
  <2>1. row = [run EXCEPT !.page = run.page + 1]
    BY <1>11 DEF Turned
  <2>2. row \in Runs
    BY <1>1, <2>1 DEF Runs, Positive
  <2>3. /\ row.battle = run.battle /\ row.feed = run.feed /\ row.silent = run.silent
        /\ row.lease = run.lease /\ row.failed = run.failed /\ row.status = run.status
        /\ row.target = run.target /\ row.page = run.page + 1
    BY <1>1, <2>1 DEF Runs
  <2>4. run.page < Pages
    BY <1>1, <1>2, <1>11 DEF Positive
  <2>5. ~row.failed => \A t \in 1..Targets : t < row.target => Swept(t)'
    BY <1>5, <1>6, <2>3
  <2>6. \A p \in 1..row.page - 1 : <<row.target, "battle", p>> \in seen'
    BY <1>1, <1>7, <2>3 DEF Positive
  <2>7. Behind(row)'
    BY <1>1, <1>2, <2>3, <2>4, <2>5, <2>6 DEF Behind, Positive
  <2> QED BY <1>1, <2>2, <2>3, <2>7 DEF Positive
<1> QED BY <1>9, <1>10, <1>11

LEMMA TurnedFields ==
    ASSUME IInv, NEW c \in Collectors, NEW row, row = Turned(c)
    PROVE  /\ row \in Runs /\ row.battle = run.battle /\ row.feed = run.feed /\ row.silent = run.silent
           /\ row.lease = run.lease /\ (run.failed => row.failed) /\ row.status = run.status
<1>1. run \in Runs /\ run.target \in Positive /\ run.page \in Positive
  BY Facts DEF Runs
<1>2. PICK next, first, on : next = run.target + 1 /\ first = 1 /\ on = run.page + 1
  OBVIOUS
<1>3. next \in Positive /\ first \in Positive /\ on \in Positive
  BY <1>1, <1>2 DEF Positive
<1>4. CASE row = [run EXCEPT !.target = next, !.page = first]
  BY <1>1, <1>3, <1>4 DEF Runs
<1>5. CASE row = [run EXCEPT !.target = next, !.page = first, !.failed = TRUE]
  BY <1>1, <1>3, <1>5 DEF Runs
<1>6. CASE row = [run EXCEPT !.page = on]
  BY <1>1, <1>3, <1>6 DEF Runs
<1> QED BY <1>2, <1>4, <1>5, <1>6 DEF Turned

LEMMA TurnStep == ASSUME IInv, NEW c \in Collectors, Turn(c) PROVE IInv'
<1>1. run.battle
  BY Collecting DEF Turn
<1>2. UNCHANGED <<run, alone>> /\ collector[c].pc \in {"empty", "listed"}
  BY DEF Turn, rest, alone
<1>3. CASE ~Allowed(c) /\ collector' = [collector EXCEPT ![c] = At("leaving", 1, 1)] /\ UNCHANGED seen
  BY <1>1, <1>2, <1>3, IdleStep
<1>4. CASE /\ Allowed(c) /\ Section(c, Turned(c), "looking")
           /\ seen' = seen \cup {<<collector[c].target, "battle", collector[c].page>>}
  <2>1. PICK row : row = Turned(c)
    OBVIOUS
  <2>2. Section(c, row, "looking")
    BY <1>4, <2>1
  <2>3. run.lease = c /\ run.status \notin Terminal /\ UNCHANGED length
    BY <1>2, <1>4 DEF Allowed, alone
  <2>4. /\ row \in Runs /\ row.battle = run.battle /\ row.feed = run.feed /\ row.silent = run.silent
        /\ row.lease = run.lease /\ (run.failed => row.failed) /\ row.status = run.status
        /\ ~crossed => Behind(row)' /\ row.target >= run.target
    BY <1>1, <1>2, <1>4, <2>1, <2>3, TurnedBehind, TurnedFields
  <2>5. seen \subseteq seen'
    BY <1>4
  <2>6. row.status # "complete"
    BY <2>3, <2>4 DEF Terminal
  <2> QED BY <1>1, <1>2, <2>2, <2>3, <2>4, <2>5, <2>6, SectionStep
<1>5. CASE Allowed(c) /\ Section(c, [run EXCEPT !.status = "paused"], "leaving") /\ UNCHANGED seen
  BY <1>1, <1>2, <1>5, StatusSection DEF Allowed
<1> QED BY <1>3, <1>4, <1>5 DEF Turn

LEMMA LeaveStep == ASSUME IInv, NEW c \in Collectors, Leave(c) PROVE IInv'
<1>1. run.battle
  BY Collecting DEF Leave
<1>2. UNCHANGED <<run, alone, seen>>
  BY DEF Leave, rest, alone
<1>3. CASE Revoked(c)
  BY <1>1, <1>2, <1>3, StatusSection, NotTerminal DEF Leave, Revoked
<1>4. CASE ~Revoked(c)
  BY <1>1, <1>2, <1>4, IdleStep DEF Leave, Idle
<1> QED BY <1>3, <1>4

LEMMA DieStep == ASSUME IInv, NEW c \in Collectors, Die(c) PROVE IInv'
<1>1. run.battle
  BY Collecting DEF Die
<1> QED BY <1>1, IdleStep DEF Die, Idle, rest, alone

\* A battle collection's row moves on under the tasks that stray there.
LEMMA BattleRow ==
    ASSUME IInv, run.battle, run' \in Runs, run'.battle, run'.feed = run.feed, run'.target >= run.target,
           UNCHANGED <<task, registered, cancelling, resuming, popped, length>>,
           crossed => crossed', crossed' \in BOOLEAN,
           ~crossed' => run'.target <= Targets + 1 /\ run'.page <= Pages + 1
    PROVE  RunOK' /\ TasksOK' /\ RequestsOK' /\ WalkOK'
<1>1. RunOK'
  BY DEF IInv, RunOK, Walked
<1>2. ASSUME NEW j \in Tasks PROVE Fits(j)'
  <2>1. Fits(j) /\ run.target \in Nat /\ run'.target \in Nat
    BY Facts DEF IInv, TasksOK, Runs, Positive
  <2> QED BY <2>1 DEF Fits
<1>3. ~popped' => \A j \in Live' : registered' = j
  BY DEF IInv, TasksOK, Live
<1>4. TasksOK'
  BY <1>2, <1>3 DEF IInv, TasksOK
<1> QED BY <1>1, <1>4 DEF IInv, RequestsOK, WalkOK

\* Another row of one collector.
LEMMA CollectorsPut ==
    ASSUME CollectorsOK, NEW c \in Collectors, NEW x \in CollectorRows, EditOK(x.write), x.pc # "saving",
           collector' = [collector EXCEPT ![c] = x], run'.battle
    PROVE  CollectorsOK'
<1>1. collector' \in [Collectors -> CollectorRows]
  BY DEF CollectorsOK
<1>2. ASSUME NEW d \in Collectors
      PROVE  /\ EditOK(collector'[d].write)
             /\ collector'[d].pc = "saving" =>
                  /\ collector'[d].read \in Statuses \ Terminal
                  /\ collector'[d].then \in {"leaving", "looking", "listed", "idle"}
  <2>1. collector'[d] = IF d = c THEN x ELSE collector[d]
    BY DEF CollectorsOK
  <2>2. CASE d = c
    BY <2>1, <2>2
  <2>3. CASE d # c
    <3>1. collector'[d] = collector[d]
      BY <2>1, <2>3
    <3> QED BY <3>1 DEF CollectorsOK
  <2> QED BY <2>2, <2>3
<1> QED BY <1>1, <1>2 DEF CollectorsOK, EditOK

LEMMA SaveStep == ASSUME IInv, NEW c \in Collectors, Save(c) PROVE IInv'
<1> DEFINE old == collector[c]
<1>1. run.battle /\ run \in Runs /\ old \in CollectorRows /\ EditOK(old.write) /\ crossed \in BOOLEAN
  BY Facts, Collecting DEF Save, IInv, CollectorsOK, RunOK
<1>2. PICK o : o = Over(old.write, run)
  OBVIOUS
<1>3. /\ o \in Runs /\ o.battle = run.battle /\ o.feed = run.feed /\ o.lease = run.lease
      /\ o.status = IF "status" \in DOMAIN old.write THEN old.write["status"] ELSE run.status
      /\ "target" \notin DOMAIN old.write => o.target = run.target
      /\ "page" \notin DOMAIN old.write => o.page = run.page
  <2>1. PICK r \in Runs, w \in {old.write} : w = old.write /\ r = run
    BY <1>1
  <2>2. EditOK(w) /\ o = Over(w, r)
    BY <1>1, <1>2, <2>1
  <2> HIDE DEF old
  <2>3. /\ o \in Runs /\ o.battle = r.battle /\ o.feed = r.feed /\ o.lease = r.lease
        /\ o.status = IF "status" \in DOMAIN w THEN w["status"] ELSE r.status
        /\ o.target = IF "target" \in DOMAIN w THEN w["target"] ELSE r.target
        /\ o.page = IF "page" \in DOMAIN w THEN w["page"] ELSE r.page
    BY <2>2, OverFields
  <2> QED BY <2>1, <2>3
<1>4. run' = Wrote(o)
  BY <1>2 DEF Save
<1>5. run' \in Runs /\ SameCursor(o, run') /\ run'.status = o.status /\ run'.failed = o.failed
  BY <1>3, <1>4, Stamped
<1>6. crossed' = (crossed \/ run.lease # c) /\ UNCHANGED <<task, registered, cancelling, resuming, popped, length, seen>>
  BY DEF Save, rest
<1>7. crossed' \in BOOLEAN /\ (crossed => crossed') /\ (~crossed' => ~crossed /\ run.lease = c)
  BY <1>1, <1>6
<1>8. old.pc = "saving" /\ old.then \in {"leaving", "looking", "listed", "idle"}
  BY DEF Save, IInv, CollectorsOK
<1>9. PICK x : x = IF old.then = "listed" THEN At("listed", old.target, old.page) ELSE At(old.then, 1, 1)
  OBVIOUS
<1>10. /\ x \in CollectorRows /\ EditOK(x.write) /\ x.pc = old.then
       /\ old.then = "listed" => x.target = old.target /\ x.page = old.page
  <2>1. CASE old.then = "listed"
    BY <1>1, <1>9, <2>1, AtRow DEF CollectorRows, Places
  <2>2. CASE old.then # "listed"
    BY <1>8, <1>9, <2>2, AtRow DEF Places, Positive
  <2> QED BY <2>1, <2>2
<1>11. collector' = [collector EXCEPT ![c] = x]
  BY <1>9 DEF Save
<1>12. collector'[c] = x /\ \A d \in Collectors \ {c} : collector'[d] = collector[d]
  BY <1>11, Facts
<1>13. CollectorsOK'
  BY <1>1, <1>3, <1>5, <1>8, <1>10, <1>11, CollectorsPut DEF IInv, SameCursor
<1>14. ASSUME ~crossed
       PROVE  /\ run.lease = c => Behind(o) /\ o.target >= run.target
              /\ run.lease = c /\ old.then = "listed" =>
                    old.target = run.target /\ old.page = run.page /\ run.target <= Targets
              /\ old.then = "listed" => "target" \notin DOMAIN old.write /\ "page" \notin DOMAIN old.write
              /\ o.status = "complete" => AllSwept
  <2>1. Sweeps(c) /\ (run.status = "complete" => AllSwept)
    BY <1>1, <1>14 DEF IInv, SweepOK
  <2>2. run.lease = c => Behind(o) /\ o.target >= run.target
    BY <1>2, <1>8, <2>1 DEF Sweeps
  <2>3. run.lease = c /\ old.then = "listed" =>
           old.target = run.target /\ old.page = run.page /\ run.target <= Targets
    BY <1>8, <2>1 DEF Sweeps
  <2>4. old.then = "listed" => "target" \notin DOMAIN old.write /\ "page" \notin DOMAIN old.write
    BY <1>8, <2>1 DEF Sweeps
  <2>5. "status" \in DOMAIN old.write /\ old.write["status"] = "complete" => AllSwept
    BY <1>8, <2>1 DEF Sweeps
  <2>6. o.status = "complete" => AllSwept
    BY <1>3, <2>1, <2>5
  <2> QED BY <2>2, <2>3, <2>4, <2>6
<1> HIDE DEF old
<1>15. CASE ~crossed'
  <2>1. ~crossed /\ run.lease = c
    BY <1>7, <1>15
  <2>2. Behind(o) /\ o.target >= run.target /\ run'.target = o.target /\ run'.page = o.page /\ run'.lease = c
    BY <1>3, <1>5, <1>14, <2>1 DEF SameCursor
  <2>3. RunOK' /\ TasksOK' /\ RequestsOK' /\ WalkOK'
    BY <1>1, <1>3, <1>5, <1>6, <1>7, <2>2, BattleRow DEF SameCursor, Behind
  <2>4. Behind(run)'
    BY <1>5, <1>6, <2>2, BehindKept
  <2>5. run'.status = "complete" => AllSwept'
    BY <1>5, <1>6, <1>14, <2>1, AllSweptKept
  <2>6. Sweeps(c)'
    <3>1. CASE old.then = "listed"
      BY <1>3, <1>10, <1>12, <1>14, <2>1, <2>2, <3>1 DEF Sweeps
    <3>2. CASE old.then # "listed"
      BY <1>8, <1>10, <1>12, <3>2 DEF Sweeps
    <3> QED BY <3>1, <3>2
  <2>7. ASSUME NEW d \in Collectors \ {c} PROVE Sweeps(d)'
    <3>1. Sweeps(d)
      BY <1>1, <2>1 DEF IInv, SweepOK
    <3>2. AllSwept => AllSwept'
      BY <1>6, AllSweptKept
    <3>3. run'.lease # d /\ collector'[d] = collector[d]
      BY <1>12, <2>2
    <3> QED BY <3>1, <3>2, <3>3 DEF Sweeps
  <2> QED BY <1>13, <2>3, <2>4, <2>5, <2>6, <2>7 DEF IInv, SweepOK
<1>16. CASE crossed'
  <2>1. SweepOK'
    BY <1>16 DEF SweepOK
  <2>2. ASSUME NEW j \in Tasks PROVE Fits(j)'
    BY <1>1, <1>3, <1>5, <1>6, <1>16 DEF IInv, TasksOK, Fits, SameCursor
  <2>3. ~popped' => \A j \in Live' : registered' = j
    BY <1>6 DEF IInv, TasksOK, Live
  <2>4. TasksOK'
    BY <1>6, <2>2, <2>3 DEF IInv, TasksOK
  <2>5. RunOK'
    BY <1>3, <1>5, <1>6, <1>7, <1>16 DEF IInv, RunOK, SameCursor, Walked
  <2>6. RequestsOK' /\ WalkOK'
    BY <1>1, <1>3, <1>5, <1>6 DEF IInv, RequestsOK, WalkOK, SameCursor
  <2> QED BY <1>13, <2>1, <2>4, <2>5, <2>6 DEF IInv
<1> QED BY <1>7, <1>15, <1>16

LEMMA ClaimJobStep == ASSUME IInv, NEW c \in Collectors, ClaimJob(c) PROVE IInv'
<1>1. run.battle /\ run \in Runs
  BY Facts, Collecting DEF ClaimJob
<1>2. CASE run.status \notin Terminal /\ permitted /\ (run.status # "running" \/ run.silent)
  <2>1. PICK r : r = [run EXCEPT !.status = "running", !.lease = c]
    OBVIOUS
  <2>2. /\ r \in Runs /\ r.status = "running" /\ r.lease = c /\ r.battle = run.battle /\ r.feed = run.feed
        /\ r.target = run.target /\ r.page = run.page /\ r.failed = run.failed
    BY <1>1, <2>1 DEF Runs, Statuses
  <2>3. run' = Wrote(r)
    BY <1>2, <2>1 DEF ClaimJob
  <2>4. /\ run' \in Runs /\ run'.status = "running" /\ run'.lease = c /\ run'.battle = run.battle /\ run'.feed = run.feed
        /\ run'.target = run.target /\ run'.page = run.page /\ run'.failed = run.failed
    BY <2>2, <2>3, Stamped DEF SameCursor
  <2>5. PICK x : x = [collector[c] EXCEPT !.pc = "looking"]
    OBVIOUS
  <2>6. collector[c] \in CollectorRows /\ EditOK(collector[c].write)
    BY Facts DEF IInv, CollectorsOK
  <2>7. x \in CollectorRows /\ x.pc = "looking" /\ x.write = collector[c].write
    BY <2>5, <2>6 DEF CollectorRows, Places
  <2>8. collector' = [collector EXCEPT ![c] = x]
    BY <1>2, <2>5 DEF ClaimJob
  <2>9. collector'[c] = x /\ \A d \in Collectors \ {c} : collector'[d] = collector[d]
    BY <2>8, Facts
  <2>10. CollectorsOK'
    BY <1>1, <2>4, <2>6, <2>7, <2>8, CollectorsPut DEF IInv
  <2>11. UNCHANGED <<task, registered, cancelling, resuming, popped, length, seen, crossed>>
    BY DEF ClaimJob, rest
  <2>12. RunOK' /\ TasksOK' /\ RequestsOK' /\ WalkOK'
    <3>1. run'.target >= run.target
      BY <1>1, <2>4 DEF Runs, Positive
    <3> QED BY <1>1, <2>4, <2>11, <3>1, BattleRow DEF IInv, RunOK
  <2>13. ASSUME ~crossed PROVE Behind(run)' /\ \A d \in Collectors : Sweeps(d)'
    <3>1. Behind(run) /\ \A d \in Collectors : Sweeps(d)
      BY <1>1, <2>13 DEF IInv, SweepOK
    <3>2. Behind(run)'
      BY <2>4, <2>11, <3>1, BehindKept
    <3>3. AllSwept => AllSwept'
      BY <2>11, AllSweptKept
    <3>4. Sweeps(c)'
      BY <2>7, <2>9 DEF Sweeps
    <3>5. ASSUME NEW d \in Collectors \ {c} PROVE Sweeps(d)'
      <4>1. run'.lease # d /\ collector'[d] = collector[d]
        BY <2>4, <2>9
      <4> QED BY <3>1, <3>3, <4>1 DEF Sweeps
    <3> QED BY <3>2, <3>4, <3>5
  <2>14. SweepOK'
    BY <2>4, <2>11, <2>13 DEF SweepOK
  <2> QED BY <2>10, <2>12, <2>14 DEF IInv
<1>3. CASE ~(run.status \notin Terminal /\ permitted /\ (run.status # "running" \/ run.silent))
  BY <1>1, <1>3, IdleStep DEF ClaimJob, Idle, rest, alone
<1> QED BY <1>2, <1>3

LEMMA BattleStep == ASSUME IInv, Silence \/ LoseAccess PROVE IInv'
<1>1. run' \in Runs /\ SameCursor(run, run') /\ run'.failed = run.failed /\ run'.status = run.status
  <2>1. CASE Silence
    BY <2>1, Facts DEF Silence, Runs, SameCursor
  <2>2. CASE LoseAccess
    BY <2>2, Facts DEF LoseAccess, runs
  <2> QED BY <2>1, <2>2
<1>2. UNCHANGED <<task, registered, cancelling, resuming, length, collector, seen, ended, popped, crossed>>
  BY DEF Silence, LoseAccess, rest, runs, ordinary, history
<1>3. TasksOK'
  BY <1>1, <1>2, SameTasks DEF history, Complete
<1>4. RequestsOK'
  BY <1>1, <1>2, RequestsKept DEF IInv, SameCursor
<1> QED BY <1>1, <1>2, <1>3, <1>4, RowStep DEF history, Complete

-----------------------------------------------------------------------------
(* The invariant of every run *)

LEMMA InvInit == Init => IInv
<1> SUFFICES ASSUME Init PROVE IInv
  OBVIOUS
<1>1. PICK battle \in BOOLEAN :
          run = [battle |-> battle, status |-> "queued", target |-> 1,
                 feed |-> IF battle THEN "battle" ELSE "kills", page |-> 1,
                 failed |-> FALSE, silent |-> FALSE, lease |-> None]
  BY DEF Init
<1>2. PICK feed \in Feeds : feed = IF battle THEN "battle" ELSE "kills"
  BY DEF Feeds
<1>3. PICK first \in Positive : first = 1
  BY DEF Positive
<1>4. run = [battle |-> battle, status |-> "queued", target |-> first, feed |-> feed, page |-> first,
             failed |-> FALSE, silent |-> FALSE, lease |-> None]
  BY <1>1, <1>2, <1>3
<1>5. run \in Runs
  BY <1>4 DEF Runs, Statuses
<1>6. run.battle = battle /\ run.status = "queued" /\ run.target = 1 /\ run.page = 1 /\ run.feed = feed
  BY <1>3, <1>4
<1>7. RunOK
  <2>1. run.feed \in Walked
    BY <1>2, <1>6 DEF Walked
  <2>2. ~crossed => run.target <= Targets + 1 /\ run.page <= Pages + 1
    BY <1>6
  <2>3. length \in [1..Targets -> [Walked -> Lengths]] /\ popped \in BOOLEAN /\ crossed \in BOOLEAN
    BY DEF Init
  <2> QED BY <1>5, <2>1, <2>2, <2>3 DEF RunOK
<1>8. RequestsOK
  BY DEF Init, RequestsOK
<1>9. TasksOK
  <2>1. task \in [Tasks -> TaskRows] /\ \A k \in Tasks : task[k].pc = "none"
    BY AbsentOK DEF Init
  <2>2. \A k \in Tasks : Fits(k)
    BY <2>1 DEF Fits, Walking
  <2> QED BY <2>1, <2>2 DEF Init, TasksOK, Live
<1>10. WalkOK
  <2>1. ~run.battle => run.feed = "kills"
    BY <1>2, <1>6
  <2>2. run.status \notin Complete
    BY <1>6 DEF Complete
  <2>3. \A t \in 1..Targets : ~(t < run.target)
    BY <1>6
  <2> QED BY <1>6, <2>1, <2>2, <2>3 DEF WalkOK, Passed
<1>11. PICK x : x = At("idle", 1, 1)
  OBVIOUS
<1>12. x \in CollectorRows /\ EditOK(x.write) /\ x.pc = "idle"
  BY <1>11, AtRow DEF Places, Positive
<1>13. collector = [c \in Collectors |-> x]
  BY <1>11 DEF Init, Idle
<1>14. CollectorsOK
  <2>1. collector \in [Collectors -> CollectorRows]
    BY <1>12, <1>13
  <2>2. \A c \in Collectors : collector[c] = x
    BY <1>13
  <2> QED BY <1>12, <2>1, <2>2 DEF Init, CollectorsOK
<1>15. SweepOK
  <2>1. ASSUME NEW c \in Collectors PROVE Sweeps(c)
    <3>1. collector[c] = x
      BY <1>13
    <3> QED BY <1>12, <3>1 DEF Sweeps
  <2>2. Behind(run)
    BY <1>6 DEF Behind
  <2> QED BY <1>6, <2>1, <2>2 DEF SweepOK
<1> QED BY <1>7, <1>8, <1>9, <1>10, <1>14, <1>15 DEF IInv

LEMMA StutterStep == ASSUME IInv, UNCHANGED vars PROVE IInv'
<1>1. UNCHANGED <<run, task, registered, cancelling, resuming, collector, length, seen, ended, popped, crossed>>
  BY DEF vars, runs, ordinary, history
<1>2. TasksOK' /\ RequestsOK'
  BY <1>1, TasksAlone, RequestsKept DEF IInv, alone
<1> QED BY <1>1, <1>2, Facts, RowStep DEF history

LEMMA InvStep == IInv /\ [Next]_vars => IInv'
<1> SUFFICES ASSUME IInv, [Next]_vars PROVE IInv'
  OBVIOUS
<1>1. CASE BeginResume \/ BeginCancel \/ SaveCancel \/ Restart
  BY <1>1, RequestStep, RestartStep
<1>2. ASSUME NEW k \in Tasks, TaskNext(k) PROVE IInv'
  <2>1. CASE StartSync(k) \/ SaveResume(k)
    BY <2>1, StartSyncStep, SaveResumeStep
  <2>2. CASE Begin(k) \/ SaveStart(k) \/ Look(k) \/ SaveComplete(k)
    BY <2>2, BeginStep, SaveStartStep, LookStep, SaveCompleteStep
  <2>3. CASE FetchEmpty(k) \/ FetchEntries(k) \/ FetchFails(k) \/ SaveFail(k)
    BY <2>3, FetchEmptyStep, FetchEntriesStep, FetchFailsStep, SaveFailStep
  <2>4. CASE ItemFails(k) \/ Abort(k) \/ \E last \in BOOLEAN : EndPage(k, last)
    BY <2>4, ItemFailsStep, AbortStep, EndPageStep
  <2>5. CASE Close(k) \/ Callback(k)
    BY <2>5, CloseStep, CallbackStep
  <2> QED BY <1>2, <2>1, <2>2, <2>3, <2>4, <2>5 DEF TaskNext
<1>3. ASSUME NEW c \in Collectors, CollectorNext(c) PROVE IInv'
  <2>1. CASE ResumeBattle(c) \/ ClaimJob(c) \/ LookBattle(c)
    BY <2>1, ResumeBattleStep, ClaimJobStep, LookBattleStep
  <2>2. CASE Fetched(c) \/ FetchBreaks(c) \/ Entry(c) \/ Turn(c)
    BY <2>2, FetchedStep, FetchBreaksStep, EntryStep, TurnStep
  <2>3. CASE Save(c) \/ Leave(c) \/ Die(c)
    BY <2>3, SaveStep, LeaveStep, DieStep
  <2> QED BY <1>3, <2>1, <2>2, <2>3 DEF CollectorNext
<1>4. CASE Silence \/ LoseAccess
  BY <1>4, BattleStep
<1>5. CASE UNCHANGED vars
  BY <1>5, StutterStep
<1> QED BY <1>1, <1>2, <1>3, <1>4, <1>5 DEF Next

LEMMA Invariance == Spec => []IInv
BY InvInit, InvStep, PTL DEF Spec

\* Only a request, a task or a section that had read another status, or a task that is at a
\* battle collection, takes a run out of its final state.
LEMMA FinalStep ==
    ASSUME IInv, [Next]_vars, run.status \in (IF run.battle THEN Terminal ELSE Finished),
           run'.status # run.status, ~popped
    PROVE  StaleSave(run.status) \/ (run.battle /\ \E k \in Tasks : TaskSaves(k))
<1>1. run \in Runs /\ run.status \in Statuses
  BY Facts
<1>2. ~(UNCHANGED run)
  OBVIOUS
<1>3. CASE SaveCancel
  <2>1. cancelling \notin {None, run.status} /\ cancelling' = None
    BY <1>3 DEF SaveCancel, IInv, RequestsOK, Finished, Terminal
  <2> QED BY <2>1 DEF StaleSave
<1>4. ASSUME NEW k \in Tasks, SaveResume(k) PROVE StaleSave(run.status)
  <2>1. resuming \notin {None, run.status} /\ resuming' = None
    BY <1>4 DEF SaveResume, IInv, RequestsOK
  <2> QED BY <2>1 DEF StaleSave
<1>5. ASSUME NEW k \in Tasks, SaveStart(k) \/ SaveComplete(k) \/ SaveFail(k)
      PROVE  StaleSave(run.status) \/ (run.battle /\ \E j \in Tasks : TaskSaves(j))
  <2>1. task'[k].pc \in {"looking", "closing"} /\ task[k].pc \in {"starting", "completing", "failing"}
    BY <1>5, Facts, Dropped DEF SaveStart, SaveComplete, SaveFail, TaskPlaces
  <2>2. TaskSaves(k)
    BY <2>1 DEF TaskSaves
  <2>3. Fits(k)
    BY DEF IInv, TasksOK
  <2>4. ~run.battle => task[k].read # run.status
    BY <2>1, <2>3 DEF Fits, Finished, Complete, Walking
  <2> QED BY <2>2, <2>4 DEF StaleSave
<1>6. ASSUME NEW k \in Tasks, FetchEmpty(k) \/ ItemFails(k) \/ (\E last \in BOOLEAN : EndPage(k, last)) PROVE FALSE
  <2>1. CASE ItemFails(k)
    BY <1>1, <2>1, FailedStamped DEF ItemFails
  <2>2. task[k] \in TaskRows
    BY Facts
  <2>3. CASE FetchEmpty(k)
    BY <1>1, <2>2, <2>3, AdvancedFields DEF FetchEmpty
  <2>4. CASE \E last \in BOOLEAN : EndPage(k, last)
    BY <1>1, <2>2, <2>4, AdvancedFields DEF EndPage
  <2> QED BY <1>6, <2>1, <2>3, <2>4
<1>7. ASSUME NEW c \in Collectors, ClaimJob(c) PROVE FALSE
  <2>1. run.battle
    BY <1>7, Collecting DEF ClaimJob
  <2> QED BY <1>7, <2>1 DEF ClaimJob
<1>8. ASSUME NEW c \in Collectors, Save(c) PROVE StaleSave(run.status)
  <2>1. run.battle
    BY <1>8, Collecting DEF Save
  <2>2. collector[c].pc = "saving" /\ collector[c].read \notin Terminal /\ collector[c].then # "saving"
    BY <1>8 DEF Save, IInv, CollectorsOK
  <2>3. collector'[c].pc = collector[c].then
    BY <1>8, Facts DEF Save, At
  <2> QED BY <2>1, <2>2, <2>3 DEF StaleSave
<1>9. CASE Silence
  BY <1>1, <1>9 DEF Silence, Runs
<1>10. CASE BeginResume \/ BeginCancel \/ Restart \/ LoseAccess \/ UNCHANGED vars
  BY <1>2, <1>10 DEF BeginResume, BeginCancel, Restart, LoseAccess, vars, runs
<1>11. ASSUME NEW k \in Tasks,
              StartSync(k) \/ Begin(k) \/ Look(k) \/ FetchEntries(k) \/ FetchFails(k) \/ Abort(k) \/ Close(k) \/ Callback(k)
       PROVE  FALSE
  BY <1>2, <1>11 DEF StartSync, Begin, Look, FetchEntries, FetchFails, Abort, Close, Callback, runs
<1>12. ASSUME NEW c \in Collectors,
              ResumeBattle(c) \/ LookBattle(c) \/ Fetched(c) \/ FetchBreaks(c) \/ Entry(c) \/ Turn(c) \/ Leave(c) \/ Die(c)
       PROVE  FALSE
  BY <1>2, <1>12 DEF ResumeBattle, LookBattle, Fetched, FetchBreaks, Entry, Turn, Leave, Die
<1> QED BY <1>3, <1>4, <1>5, <1>6, <1>7, <1>8, <1>9, <1>10, <1>11, <1>12 DEF Next, TaskNext, CollectorNext

-----------------------------------------------------------------------------
(* The theorems *)

\* Types; and as long as no section of a battle collection is saved across a lost lease, the
\* cursor stays within the targets and pages of the run (execute_sync_run, execute).
THEOREM TypeCorrect == Spec => []TypeOK
<1>1. IInv => TypeOK
  <2> SUFFICES ASSUME IInv PROVE TypeOK
    OBVIOUS
  <2>1. run \in [battle : BOOLEAN, status : Statuses, target : Nat \ {0}, feed : Feeds,
                 page : Nat \ {0}, failed : BOOLEAN, silent : BOOLEAN, lease : Collectors \cup {None}]
    BY Facts DEF Runs, Positive
  <2>2. cancelling \in Statuses \cup {None}
    BY DEF IInv, RequestsOK, Statuses
  <2>3. \A k \in Tasks : task[k].feed \in Feeds /\ task[k].read \in Statuses
    BY Facts DEF TaskRows
  <2>4. \A c \in Collectors : DOMAIN collector[c].write \subseteq {"status", "target", "page", "failed"}
    <3> SUFFICES ASSUME NEW c \in Collectors, NEW w, w = collector[c].write
                 PROVE  DOMAIN w \subseteq {"status", "target", "page", "failed"}
      OBVIOUS
    <3>1. w \in Edits
      BY DEF IInv, CollectorsOK, EditOK
    <3> QED BY <3>1 DEF Edits, Columns
  <2> QED BY <2>1, <2>2, <2>3, <2>4 DEF IInv, RunOK, RequestsOK, TasksOK, TypeOK
<1> QED BY Invariance, <1>1, PTL

\* A run that says it is complete has gone through every page of every feed, whatever was
\* resumed, cancelled, restarted, lost or saved late on the way, unless a second task or a
\* section saved across a lost lease came between.
THEOREM CompleteIsCovered == Spec => []Covered
<1>1. IInv => Covered
  <2> SUFFICES ASSUME IInv PROVE Covered
    OBVIOUS
  <2>1. ASSUME ~run.battle, run.status \in Complete, ~popped, NEW t \in 1..Targets, NEW f \in Walked
        PROVE  \E last \in 1..Pages + 1 :
                  <<t, f, last>> \in ended /\ \A p \in 1..last - 1 : <<t, f, p>> \in seen
    <3>1. Through(t, f)
      BY <2>1 DEF IInv, WalkOK
    <3> QED BY <3>1 DEF Through
  <2>2. ASSUME run.battle, run.status = "complete", ~crossed, NEW t \in 1..Targets
        PROVE  \A p \in 1..length[t]["battle"] : <<t, "battle", p>> \in seen
    BY <2>2 DEF IInv, SweepOK, AllSwept, Swept
  <2> QED BY <2>1, <2>2 DEF Covered, Complete
<1> QED BY Invariance, <1>1, PTL

\* The registry of start_sync_task keeps a run to one task, until a callback takes a younger
\* task out of it.
THEOREM OneTaskPerRun == Spec => []OneTask
<1>1. IInv => OneTask
  BY DEF IInv, TasksOK, OneTask
<1> QED BY Invariance, <1>1, PTL

\* A finished run stays as it finished, for any number of tasks, processes and requests, but
\* for the saves of those who had read it before it finished.
THEOREM FinishedForGood == Spec => FinishedStays
<1>1. IInv /\ [Next]_vars =>
        [run.status \in (IF run.battle THEN Terminal ELSE Finished) /\ run'.status # run.status =>
            popped \/ StaleSave(run.status) \/ (run.battle /\ \E k \in Tasks : TaskSaves(k))]_vars
  BY FinalStep
<1> QED BY Invariance, <1>1, PTL DEF Spec, FinishedStays
=============================================================================
