----------------------------- MODULE UpdateAgent -----------------------------
(* Application updates from Settings: the API and a helper on the Docker host  *)
(* talk through files.  The API creates inbox/request exclusively and writes a *)
(* job ID into it; the helper, alone under a lock file, reads it, publishes    *)
(* the job's phases in status/job.json, runs the update script and removes the *)
(* request.  Any of them may die between two file operations; the script holds *)
(* the lock too, and outlives the helper that started it.                      *)
(*                                                                             *)
(* One action is one file operation.  What Git, Docker and the script find is  *)
(* any outcome the code tells apart; revisions and messages are left out.      *)
EXTENDS Naturals, FiniteSets

CONSTANTS
    Ids,            \* job IDs, one drawn by each press of the button
    NoId,
    Handlers,       \* API requests in flight at a time
    Watched,        \* the IDs whose tab stays open and polls
    MaxPosts        \* bound: times an ID may be placed in the inbox

ASSUME IdsOK == NoId \notin Ids /\ Watched \subseteq Ids /\ MaxPosts \in Nat
ASSUME HandlersOK == "nobody" \notin Handlers

VARIABLES
    request,        \* inbox/request: is there a file, who created it, its ID, its age
    job,            \* status/job.json
    helper,         \* local state of Agent.serve
    running,        \* the jobs whose update script is running
    handler,        \* local state of the API's handlers
    seen,           \* seen[i]: the phase the tab that watches i was told last
    placed,         \* placed[i]: times the ID got into the inbox
    started         \* started[i]: times the script was started for it

api    == <<handler, seen, placed>>
agent  == <<helper, running, started>>
vars   == <<request, job, helper, running, handler, seen, placed, started>>

Active   == {"queued", "checking", "installing", "starting"}
Terminal == {"current", "succeeded", "failed"}

NoJob     == [id |-> NoId, phase |-> "none"]
NoRequest == [exists |-> FALSE, by |-> "nobody", id |-> NoId, old |-> FALSE]
Down      == [pc |-> "down", id |-> NoId]
Idle      == [pc |-> "idle", id |-> NoId]
NoHandler == [pc |-> "idle", op |-> "status", id |-> NoId, job |-> NoJob]

-----------------------------------------------------------------------------
(* The helper *)

\* Mutant: the script does not inherit the lock.
LockFree_HelperOnly == helper.pc = "down"

\* lock_runner: held by a helper, and by the script it passed the descriptor to.
LockFree == helper.pc = "down" /\ running = {}

Publish(i, phase) == job' = [id |-> i, phase |-> phase]

At(pc) == helper' = [helper EXCEPT !.pc = pc]

Start ==
    /\ LockFree
    /\ At("recover")
    /\ UNCHANGED <<request, job, running, started, api>>

\* Mutant: nobody closes an interrupted job.
Interrupted_Never == FALSE

Interrupted == job.phase \in Active

\* What serve does before its loop.
Recover ==
    /\ helper.pc = "recover"
    /\ IF Interrupted THEN Publish(job.id, "failed") ELSE UNCHANGED job
    /\ helper' = Idle
    /\ UNCHANGED <<request, running, started, api>>

Readable == request.id # NoId

\* Mutant: an empty file is waited for, however old.
Abandoned_Never == FALSE

Abandoned == request.exists /\ request.id = NoId /\ request.old

\* read_request: an ID, or a file too old to be still empty
ReadRequest ==
    /\ helper.pc = "idle"
    /\ \/ Readable /\ helper' = [pc |-> "compare", id |-> request.id]
       \/ Abandoned /\ At("reject")
    /\ UNCHANGED <<request, job, running, started, api>>

Reject ==
    /\ helper.pc = "reject"
    /\ request' = NoRequest
    /\ helper' = Idle
    /\ UNCHANGED <<job, running, started, api>>

\* Mutant: whatever is in the inbox is run.
Unreported_Any == TRUE

\* "A terminal result can survive a restart between publish and unlink."
Unreported == job.id # helper.id

Begin ==
    /\ helper.pc = "compare"
    /\ \/ Unreported /\ Publish(helper.id, "checking") /\ At("check")
       \/ ~Unreported /\ At("unlink") /\ UNCHANGED job
    /\ UNCHANGED <<request, running, started, api>>

\* update, up to the script: up to date, to be installed, or refused
Check ==
    /\ helper.pc = "check"
    /\ \/ Publish(helper.id, "installing") /\ At("install")
       \/ \E phase \in {"current", "failed"} : Publish(helper.id, phase) /\ At("unlink")
    /\ UNCHANGED <<request, running, started, api>>

RunScript ==
    /\ helper.pc = "install"
    /\ \/ /\ running' = running \cup {helper.id}
          /\ started' = [started EXCEPT ![helper.id] = @ + 1]
          /\ At("wait") /\ UNCHANGED job
       \/ Publish(helper.id, "failed") /\ At("unlink") /\ UNCHANGED <<running, started>>
    /\ UNCHANGED <<request, api>>

EndScript(i) ==
    /\ i \in running
    /\ running' = running \ {i}
    /\ UNCHANGED <<request, job, helper, started, api>>

\* The exit code and the revision it left decide.
AfterScript ==
    /\ helper.pc = "wait" /\ helper.id \notin running
    /\ \/ Publish(helper.id, "starting") /\ At("ready")
       \/ Publish(helper.id, "failed") /\ At("unlink")
    /\ UNCHANGED <<request, running, started, api>>

AwaitReady ==
    /\ helper.pc = "ready"
    /\ \E phase \in {"succeeded", "failed"} : Publish(helper.id, phase)
    /\ At("unlink")
    /\ UNCHANGED <<request, running, started, api>>

Unlink ==
    /\ helper.pc = "unlink"
    /\ request' = NoRequest
    /\ helper' = Idle
    /\ UNCHANGED <<job, running, started, api>>

\* The helper dies or is interrupted; a running script goes on.
Die ==
    /\ helper.pc # "down"
    /\ helper' = Down
    /\ UNCHANGED <<request, job, running, started, api>>

-----------------------------------------------------------------------------
(* The API *)

\* A POST carries the tab's ID, at times more than once; a tab polls one request
\* at a time for the ID it posted.  snapshot reads the job first ...
Ask(h, op, i) ==
    /\ handler[h].pc = "idle"
    /\ op = "status" => i \in Watched /\ \A g \in Handlers :
          handler[g].op = "status" => handler[g].id # i
    /\ op = "post" => placed[i] < MaxPosts
    /\ handler' = [handler EXCEPT ![h] = [pc |-> "inbox", op |-> op, id |-> i, job |-> job]]
    /\ UNCHANGED <<request, job, agent, seen, placed>>

\* ... and the inbox second: an ID not reported yet is queued.
Shown(read) ==
    IF request.id # NoId /\ read.id # request.id
    THEN [id |-> request.id, phase |-> "queued"] ELSE read

AnswerStatus(h) ==
    /\ handler[h].pc = "inbox" /\ handler[h].op = "status"
    /\ LET shown == Shown(handler[h].job)  i == handler[h].id IN
       seen' = IF shown.id = i THEN [seen EXCEPT ![i] = shown.phase] ELSE seen
    /\ handler' = [handler EXCEPT ![h] = NoHandler]
    /\ UNCHANGED <<request, job, agent, placed>>

\* queue_update answers at once when the job is known already, the helper's heartbeat
\* is too old, or a job is active.
Decide(h) ==
    /\ handler[h].pc = "inbox" /\ handler[h].op = "post"
    /\ LET shown == Shown(handler[h].job) IN
       \/ handler' = [handler EXCEPT ![h] = NoHandler]
       \/ /\ shown.id # handler[h].id /\ shown.phase \notin Active
          /\ handler' = [handler EXCEPT ![h].pc = "create", ![h].job = NoJob]
    /\ UNCHANGED <<request, job, agent, seen, placed>>

\* open("xb")
Create(h) ==
    /\ handler[h].pc = "create"
    /\ IF request.exists
       THEN /\ handler' = [handler EXCEPT ![h] = NoHandler]
            /\ UNCHANGED request
       ELSE /\ handler' = [handler EXCEPT ![h].pc = "write"]
            /\ request' = [NoRequest EXCEPT !.exists = TRUE, !.by = h]
    /\ UNCHANGED <<job, agent, seen, placed>>

\* The ID goes into the file the handler created, be it in the inbox still or not.
Write(h) ==
    /\ handler[h].pc = "write"
    /\ IF request.by = h
       THEN /\ request' = [request EXCEPT !.by = "nobody", !.id = handler[h].id, !.old = FALSE]
            /\ placed' = [placed EXCEPT ![handler[h].id] = @ + 1]
       ELSE UNCHANGED <<request, placed>>
    /\ handler' = [handler EXCEPT ![h] = NoHandler]
    /\ UNCHANGED <<job, agent, seen>>

\* The API is restarted, by the update script if not by accident: answers are
\* lost, and a file may stay empty.
ApiDies ==
    /\ handler' = [h \in Handlers |-> NoHandler]
    /\ request' = [request EXCEPT !.by = "nobody"]
    /\ UNCHANGED <<job, agent, seen, placed>>

-----------------------------------------------------------------------------
(* Time *)

\* ten seconds after the file was created
Age ==
    /\ request.exists /\ request.id = NoId
    /\ request' = [request EXCEPT !.old = TRUE]
    /\ UNCHANGED <<job, agent, api>>

-----------------------------------------------------------------------------

Init ==
    /\ request = NoRequest /\ job = NoJob /\ helper = Down
    /\ running = {} /\ handler = [h \in Handlers |-> NoHandler]
    /\ seen = [i \in Ids |-> "none"]
    /\ placed = [i \in Ids |-> 0] /\ started = [i \in Ids |-> 0]

Serve ==
    \/ Recover \/ ReadRequest \/ Reject \/ Begin \/ Check \/ RunScript \/ AfterScript
    \/ AwaitReady \/ Unlink

Handle(h) ==
    \/ \E op \in {"post", "status"}, i \in Ids : Ask(h, op, i)
    \/ AnswerStatus(h) \/ Decide(h) \/ Create(h) \/ Write(h)

Next ==
    \/ Start \/ Serve \/ Die \/ \E i \in Ids : EndScript(i)
    \/ \E h \in Handlers : Handle(h)
    \/ ApiDies \/ Age

Spec == Init /\ [][Next]_vars

\* A helper that may take the lock is started, the loop runs, scripts end and time
\* passes.  Nothing is assumed of the API.
Fairness ==
    /\ WF_vars(Start) /\ WF_vars(Serve) /\ WF_vars(Age)
    /\ \A i \in Ids : WF_vars(EndScript(i))

FairSpec == Spec /\ Fairness

-----------------------------------------------------------------------------
(* Properties *)

Jobs == {NoJob} \cup [id : Ids, phase : Active \cup Terminal]

Busy == {"compare", "check", "install", "wait", "ready", "unlink"}

\* Files, processes and counters have their types; a busy helper has an ID.
TypeOK ==
    /\ request \in [exists : BOOLEAN, by : Handlers \cup {"nobody"}, id : Ids \cup {NoId},
                    old : BOOLEAN]
    /\ job \in Jobs
    /\ helper \in [pc : Busy, id : Ids] \cup
                  [pc : {"down", "recover", "idle", "reject"}, id : {NoId}]
    /\ running \subseteq Ids
    /\ handler \in [Handlers -> [pc : {"idle", "inbox", "create", "write"},
          op : {"post", "status"}, id : Ids \cup {NoId}, job : Jobs]]
    /\ seen \in [Ids -> Active \cup Terminal \cup {"none"}]
    /\ placed \in [Ids -> Nat] /\ started \in [Ids -> Nat]

\* A script that runs is the one the status reports as installing: whatever helper
\* dies or starts, no second script joins it and no result is reported over it.
ScriptIsReported == \A i \in running :
    job = [id |-> i, phase |-> "installing"]

\* A request that was queued once is run at most once, wherever the helper dies.
OncePerRequest == \A i \in Ids : started[i] <= placed[i]

Progress(phase) ==
    CASE phase = "none" -> 0 [] phase = "queued" -> 1 [] phase = "checking" -> 2
      [] phase = "installing" -> 3 [] phase = "starting" -> 4 [] phase \in Terminal -> 5

\* The tab that watches a request placed once is never told an earlier phase than
\* before, nor another result, though the API reads two files that change.
StatusNeverGoesBack == [][\A i \in Ids :
    seen'[i] # seen[i] /\ placed[i] <= 1 => Progress(seen[i]) < Progress(seen'[i])]_vars

\* The API wrote the ID after the helper had taken the file for abandoned.
WrittenLate(i) == request.id = i /\ helper.pc = "reject"

\* Once the helper stops dying, a request in the inbox gets a result, unless the API
\* took more than ten seconds between creating the file and writing it.
Reported ==
    <>[][~Die]_vars => \A i \in Ids :
        request.id = i ~> (job.id = i /\ job.phase \in Terminal) \/ WrittenLate(i)

\* A file the API died over does not block the inbox for good.
Unblocked ==
    <>[][~Die]_vars => (request.exists /\ request.id = NoId) ~>
                       (~request.exists \/ request.id # NoId)
=============================================================================
