-------------------------- MODULE UpdateAgentProofs --------------------------
(* For any number of request IDs and API handlers: files and processes keep    *)
(* their types, a running script is the reported one, no request is run twice, *)
(* and what a tab is told never goes back.                                     *)
EXTENDS UpdateAgent, TLAPS

\* Only the helper removes a request: the one it works on stays in the inbox, and
\* only a file that is still empty has a writer waiting to fill it.
InboxKept ==
    /\ request.by # "nobody" => request.exists /\ request.id = NoId
    /\ request.id # NoId => request.exists
    /\ helper.pc \in Busy => request.id = helper.id

\* A script runs only where a helper waits for it or has died, and its job is published
\* before it starts and not overwritten while it runs.
ScriptAlone ==
    /\ helper.pc \notin {"down", "wait"} => running = {}
    /\ helper.pc \in {"install", "wait"} => job = [id |-> helper.id, phase |-> "installing"]

\* A request that may still be run has been run less often than it was placed.
Unspent == \A i \in Ids :
    request.id = i /\ (job.id # i \/ helper.pc \in {"check", "install"})
        => started[i] < placed[i]

IInv == TypeOK /\ InboxKept /\ ScriptAlone /\ ScriptIsReported /\ Unspent /\ OncePerRequest

HandlerTypes == [pc : {"idle", "inbox", "create", "write"},
    op : {"post", "status"}, id : Ids \cup {NoId}, job : Jobs]

RequestTypes == [exists : BOOLEAN, by : Handlers \cup {"nobody"}, id : Ids \cup {NoId},
                 old : BOOLEAN]

-----------------------------------------------------------------------------
(* The parts of the state *)

\* The helper has an ID exactly while it is busy.
LEMMA HelperParts ==
    ASSUME TypeOK
    PROVE  /\ helper = [pc |-> helper.pc, id |-> helper.id]
           /\ helper.pc \in Busy => helper.id \in Ids
           /\ helper.pc \in {"down", "recover", "idle", "reject"} => helper.id = NoId
           /\ helper.pc \in Busy \cup {"down", "recover", "idle", "reject"}
BY DEF TypeOK, Busy

\* A job whose phase is active has an ID.
LEMMA ActiveHasId ==
    ASSUME TypeOK, job.phase \in Active
    PROVE  job.id \in Ids
BY DEF TypeOK, Jobs, NoJob, Active, Terminal

-----------------------------------------------------------------------------
(* Types *)

\* Every step of the helper and of the script keeps the types.
LEMMA AgentTyped ==
    ASSUME TypeOK, Start \/ Serve \/ Die \/ (\E i \in Ids : EndScript(i))
    PROVE  TypeOK'
<1> USE IdsOK, HelperParts
<1>1. CASE Start
  BY <1>1 DEF Start, LockFree, At, TypeOK, Busy, api
<1>2. CASE Recover
  BY <1>2, ActiveHasId DEF Recover, Interrupted, Publish, Idle, TypeOK, Busy, Jobs, Terminal, api
<1>3. CASE ReadRequest
  BY <1>3 DEF ReadRequest, Readable, Abandoned, At, TypeOK, Busy, api
<1>4. CASE Reject
  BY <1>4 DEF Reject, NoRequest, Idle, TypeOK, Busy, api
<1>5. CASE Begin
  BY <1>5 DEF Begin, Unreported, Publish, At, TypeOK, Busy, Jobs, Active, api
<1>6. CASE Check
  BY <1>6 DEF Check, Publish, At, TypeOK, Busy, Jobs, Active, Terminal, api
<1>7. CASE RunScript
  BY <1>7 DEF RunScript, Publish, At, TypeOK, Busy, Jobs, Terminal, api
<1>8. CASE AfterScript
  BY <1>8 DEF AfterScript, Publish, At, TypeOK, Busy, Jobs, Active, Terminal, api
<1>9. CASE AwaitReady
  BY <1>9 DEF AwaitReady, Publish, At, TypeOK, Busy, Jobs, Terminal, api
<1>10. CASE Unlink
  BY <1>10 DEF Unlink, NoRequest, Idle, TypeOK, Busy, api
<1>11. CASE Die
  BY <1>11 DEF Die, Down, TypeOK, Busy, api
<1>12. CASE \E i \in Ids : EndScript(i)
  BY <1>12 DEF EndScript, TypeOK, api
<1> QED BY <1>1, <1>2, <1>3, <1>4, <1>5, <1>6, <1>7, <1>8, <1>9, <1>10, <1>11, <1>12 DEF Serve

\* Every step of a handler, and the passing of time, keeps the types.
LEMMA ApiTyped ==
    ASSUME TypeOK, (\E h \in Handlers : Handle(h)) \/ ApiDies \/ Age
    PROVE  TypeOK'
<1> NoHandler \in HandlerTypes
  BY DEF NoHandler, HandlerTypes, Jobs
<1> USE DEF HandlerTypes
<1>1. CASE \E h \in Handlers : Handle(h)
  <2> PICK h \in Handlers : Handle(h)
    BY <1>1
  <2>1. CASE \E op \in {"post", "status"}, i \in Ids : Ask(h, op, i)
    BY <2>1 DEF Ask, TypeOK, agent
  <2>2. CASE AnswerStatus(h)
    <3>1. Shown(handler[h].job) \in Jobs
      BY <2>2 DEF Shown, TypeOK, Jobs, Active
    <3>2. Shown(handler[h].job).phase \in Active \cup Terminal \cup {"none"}
      BY <3>1 DEF Jobs, NoJob
    <3> QED BY <2>2, <3>2 DEF AnswerStatus, TypeOK, agent
  <2>3. CASE Decide(h)
    BY <2>3 DEF Decide, TypeOK, agent, Jobs
  <2>4. CASE Create(h)
    <3>1. request' \in RequestTypes
      <4>1. CASE request.exists
        BY <2>4, <4>1 DEF Create, TypeOK, RequestTypes
      <4>2. CASE ~request.exists
        <5>1. request' = [exists |-> TRUE, by |-> h, id |-> NoId, old |-> FALSE]
          BY <2>4, <4>2 DEF Create, NoRequest
        <5> QED BY <5>1 DEF RequestTypes
      <4> QED BY <4>1, <4>2
    <3>2. handler' \in [Handlers -> HandlerTypes]
      BY <2>4 DEF Create, TypeOK
    <3> QED BY <2>4, <3>1, <3>2 DEF Create, TypeOK, agent, RequestTypes
  <2>5. CASE Write(h)
    <3>1. request' \in RequestTypes
      <4>1. CASE request.by = h
        <5>1. request' = [exists |-> request.exists, by |-> "nobody",
                          id |-> handler[h].id, old |-> FALSE]
          BY <2>5, <4>1 DEF Write, TypeOK
        <5>2. handler[h].id \in Ids \cup {NoId} /\ request.exists \in BOOLEAN
          BY DEF TypeOK
        <5> QED BY <5>1, <5>2 DEF RequestTypes
      <4>2. CASE request.by # h
        BY <2>5, <4>2 DEF Write, TypeOK, RequestTypes
      <4> QED BY <4>1, <4>2
    <3>2. placed' \in [Ids -> Nat]
      BY <2>5 DEF Write, TypeOK
    <3>3. handler' \in [Handlers -> HandlerTypes]
      BY <2>5 DEF Write, TypeOK
    <3> QED BY <2>5, <3>1, <3>2, <3>3 DEF Write, TypeOK, agent, RequestTypes
  <2> QED BY <2>1, <2>2, <2>3, <2>4, <2>5 DEF Handle
<1>2. CASE ApiDies
  BY <1>2 DEF ApiDies, TypeOK, agent
<1>3. CASE Age
  BY <1>3 DEF Age, TypeOK, agent, api
<1> QED BY <1>1, <1>2, <1>3

-----------------------------------------------------------------------------
(* The inbox, the script and the counters *)

\* Only the helper removes its request, and a written file has no writer.
LEMMA InboxKeptStep ==
    ASSUME TypeOK, InboxKept, Next
    PROVE  InboxKept'
<1> USE IdsOK, HelperParts DEF InboxKept, Busy
<1>1. CASE Start
  BY <1>1 DEF Start, At, TypeOK
<1>2. CASE Serve
  <2>1. CASE Recover
    BY <2>1 DEF Recover, Idle
  <2>2. CASE ReadRequest
    BY <2>2 DEF ReadRequest, Readable, Abandoned, At, TypeOK
  <2>3. CASE Reject
    BY <2>3 DEF Reject, NoRequest, Idle
  <2>4. CASE Begin
    BY <2>4 DEF Begin, At, TypeOK
  <2>5. CASE Check
    BY <2>5 DEF Check, At, TypeOK
  <2>6. CASE RunScript
    BY <2>6 DEF RunScript, At, TypeOK
  <2>7. CASE AfterScript
    BY <2>7 DEF AfterScript, At, TypeOK
  <2>8. CASE AwaitReady
    BY <2>8 DEF AwaitReady, At, TypeOK
  <2>9. CASE Unlink
    BY <2>9 DEF Unlink, NoRequest, Idle
  <2> QED BY <1>2, <2>1, <2>2, <2>3, <2>4, <2>5, <2>6, <2>7, <2>8, <2>9 DEF Serve
<1>3. CASE Die
  BY <1>3 DEF Die, Down
<1>4. CASE \E i \in Ids : EndScript(i)
  BY <1>4 DEF EndScript
<1>5. CASE \E h \in Handlers : Handle(h)
  <2> PICK h \in Handlers : Handle(h)
    BY <1>5
  <2>1. CASE Create(h)
    <3>1. CASE request.exists
      BY <2>1, <3>1 DEF Create, agent
    <3>2. CASE ~request.exists
      <4>1. request' = [exists |-> TRUE, by |-> h, id |-> NoId, old |-> FALSE]
        BY <2>1, <3>2 DEF Create, NoRequest
      <4>2. request'.id = NoId /\ request'.exists
        BY <4>1
      <4>3. helper.pc \notin Busy
        BY <3>2
      <4> QED BY <2>1, <4>2, <4>3 DEF Create, agent
    <3> QED BY <3>1, <3>2
  <2>2. CASE Write(h)
    <3>1. CASE request.by = h
      <4>1. request.by # "nobody"
        BY <3>1, HandlersOK
      <4>2. request' = [exists |-> TRUE, by |-> "nobody", id |-> handler[h].id, old |-> FALSE]
        BY <2>2, <3>1, <4>1 DEF Write, TypeOK
      <4>3. helper.pc \notin Busy
        BY <4>1
      <4> QED BY <2>2, <4>2, <4>3 DEF Write, agent
    <3>2. CASE request.by # h
      BY <2>2, <3>2 DEF Write, agent
    <3> QED BY <3>1, <3>2
  <2> QED BY <2>1, <2>2 DEF Handle, Ask, AnswerStatus, Decide, agent
<1>6. CASE ApiDies
  BY <1>6 DEF ApiDies, agent, TypeOK
<1>7. CASE Age
  BY <1>7 DEF Age, agent, TypeOK
<1> QED BY <1>1, <1>2, <1>3, <1>4, <1>5, <1>6, <1>7 DEF Next

\* The lock keeps helpers away from a running script, and only the helper that
\* waits for it reports on it.
LEMMA ScriptStep ==
    ASSUME TypeOK, ScriptAlone, ScriptIsReported, Next
    PROVE  ScriptAlone' /\ ScriptIsReported'
<1> USE HelperParts DEF ScriptAlone, ScriptIsReported, Busy
<1>1. CASE Start
  BY <1>1 DEF Start, LockFree, At, TypeOK
<1>2. CASE Serve
  <2>1. CASE Recover
    BY <2>1 DEF Recover, Idle, Publish
  <2>2. CASE ReadRequest
    BY <2>2 DEF ReadRequest, Readable, Abandoned, At, TypeOK
  <2>3. CASE Reject
    BY <2>3 DEF Reject, NoRequest, Idle
  <2>4. CASE Begin
    BY <2>4 DEF Begin, At, Publish, TypeOK
  <2>5. CASE Check
    BY <2>5 DEF Check, At, Publish, TypeOK
  <2>6. CASE RunScript
    BY <2>6 DEF RunScript, At, Publish, TypeOK
  <2>7. CASE AfterScript
    BY <2>7 DEF AfterScript, At, Publish, TypeOK
  <2>8. CASE AwaitReady
    BY <2>8 DEF AwaitReady, At, Publish, TypeOK
  <2>9. CASE Unlink
    BY <2>9 DEF Unlink, NoRequest, Idle
  <2> QED BY <1>2, <2>1, <2>2, <2>3, <2>4, <2>5, <2>6, <2>7, <2>8, <2>9 DEF Serve
<1>3. CASE Die
  BY <1>3 DEF Die, Down
<1>4. CASE \E i \in Ids : EndScript(i)
  BY <1>4 DEF EndScript
<1>5. CASE (\E h \in Handlers : Handle(h)) \/ ApiDies \/ Age
  BY <1>5 DEF Handle, Ask, AnswerStatus, Decide, Create, Write, ApiDies, Age, agent, api
<1> QED BY <1>1, <1>2, <1>3, <1>4, <1>5 DEF Next

\* A start is paid for by a placement: the job is published under the request's ID
\* before the script starts, and from then on the request counts as reported.
LEMMA UnspentStep ==
    ASSUME TypeOK, InboxKept, ScriptAlone, Unspent, OncePerRequest, Next
    PROVE  Unspent' /\ OncePerRequest'
<1> USE IdsOK, HelperParts DEF InboxKept, ScriptAlone, Unspent, OncePerRequest, Busy
<1>1. CASE Start
  BY <1>1 DEF Start, LockFree, At, TypeOK, api
<1>2. CASE Serve
  <2>1. CASE Recover
    BY <2>1 DEF Recover, Interrupted, Publish, Idle, TypeOK, api
  <2>2. CASE ReadRequest
    BY <2>2 DEF ReadRequest, At, TypeOK, api
  <2>3. CASE Reject
    BY <2>3 DEF Reject, NoRequest, Idle, TypeOK, api
  <2>4. CASE Begin
    BY <2>4 DEF Begin, Unreported, Publish, At, TypeOK, api
  <2>5. CASE Check
    BY <2>5 DEF Check, Publish, At, TypeOK, api
  <2>6. CASE RunScript
    BY <2>6 DEF RunScript, Publish, At, TypeOK, api
  <2>7. CASE AfterScript
    BY <2>7 DEF AfterScript, Publish, At, TypeOK, api
  <2>8. CASE AwaitReady
    BY <2>8 DEF AwaitReady, Publish, At, TypeOK, api
  <2>9. CASE Unlink
    BY <2>9 DEF Unlink, NoRequest, Idle, TypeOK, api
  <2> QED BY <1>2, <2>1, <2>2, <2>3, <2>4, <2>5, <2>6, <2>7, <2>8, <2>9 DEF Serve
<1>3. CASE Die
  BY <1>3 DEF Die, Down, api
<1>4. CASE \E i \in Ids : EndScript(i)
  BY <1>4 DEF EndScript, api
<1>5. CASE \E h \in Handlers : Handle(h)
  <2> PICK h \in Handlers : Handle(h)
    BY <1>5
  <2>1. CASE Create(h)
    <3>1. CASE request.exists
      BY <2>1, <3>1 DEF Create, agent
    <3>2. CASE ~request.exists
      <4>1. request'.id = NoId
        BY <2>1, <3>2 DEF Create, NoRequest
      <4> QED BY <2>1, <4>1 DEF Create, agent
    <3> QED BY <3>1, <3>2
  <2>2. CASE Write(h)
    <3>1. CASE request.by = h
      <4>1. request.id = NoId
        BY <3>1, HandlersOK
      <4>2. request'.id = handler[h].id
        BY <2>2, <3>1 DEF Write, TypeOK
      <4>3. \A i \in Ids : placed[i] <= placed'[i]
        BY <2>2, <3>1 DEF Write, TypeOK
      <4>4. handler[h].id \in Ids => placed'[handler[h].id] = placed[handler[h].id] + 1
        BY <2>2, <3>1 DEF Write, TypeOK
      <4>5. started' = started /\ job' = job /\ placed' \in [Ids -> Nat]
        BY <2>2, <3>1 DEF Write, TypeOK, agent
      <4> QED BY <4>2, <4>3, <4>4, <4>5 DEF TypeOK
    <3>2. CASE request.by # h
      BY <2>2, <3>2 DEF Write, agent
    <3> QED BY <3>1, <3>2
  <2> QED BY <2>1, <2>2 DEF Handle, Ask, AnswerStatus, Decide, agent
<1>6. CASE ApiDies
  BY <1>6 DEF ApiDies, agent, TypeOK
<1>7. CASE Age
  BY <1>7 DEF Age, agent, api, TypeOK
<1> QED BY <1>1, <1>2, <1>3, <1>4, <1>5, <1>6, <1>7 DEF Next

-----------------------------------------------------------------------------
(* Theorems *)

\* The inductive invariant holds of every run, whoever dies and whatever is posted.
THEOREM IInvAlways == Spec => []IInv
<1>1. Init => IInv
  BY IdsOK DEF Init, IInv, TypeOK, InboxKept, ScriptAlone, ScriptIsReported, Unspent,
               OncePerRequest, NoRequest, NoJob, NoHandler, Down, Jobs, Busy
<1>2. IInv /\ [Next]_vars => IInv'
  <2> SUFFICES ASSUME IInv, [Next]_vars PROVE IInv'
    OBVIOUS
  <2>1. CASE Next
    <3>1. TypeOK'
      BY <2>1, AgentTyped, ApiTyped DEF IInv, Next
    <3> QED BY <2>1, <3>1, InboxKeptStep, ScriptStep, UnspentStep DEF IInv
  <2>2. CASE UNCHANGED vars
    BY <2>2 DEF vars, IInv, TypeOK, InboxKept, ScriptAlone, ScriptIsReported, Unspent,
                OncePerRequest
  <2> QED BY <2>1, <2>2
<1> QED BY <1>1, <1>2, PTL DEF Spec

\* Requests, jobs, processes and counters keep their types, and a busy helper has an ID.
THEOREM TypeCorrect == Spec => []TypeOK
BY IInvAlways, PTL DEF IInv

\* A script that runs is the one the status reports as installing, for any number of
\* helpers that died before.
THEOREM RunningIsReported == Spec => []ScriptIsReported
BY IInvAlways, PTL DEF IInv

\* No request is run more often than its ID was placed in the inbox.
THEOREM RunsOnce == Spec => []OncePerRequest
BY IInvAlways, PTL DEF IInv

-----------------------------------------------------------------------------
(* What a tab is told *)

Phases == Active \cup Terminal \cup {"none"}

\* The same phase or a later one.
UpTo(p, q) == p = q \/ Progress(p) < Progress(q)

\* Handler h polls for the tab that watches i.
Polls(h, i) == handler[h].op = "status" /\ handler[h].id = i
OnePoll == \A i \in Ids, g, h \in Handlers : Polls(g, i) /\ Polls(h, i) => g = h

\* What the helper has published last where it publishes next.
Following ==
    /\ helper.pc = "check" => job = [id |-> helper.id, phase |-> "checking"]
    /\ helper.pc = "ready" => job = [id |-> helper.id, phase |-> "starting"]

\* An ID that was never in the inbox is nowhere.
Unknown(i) ==
    /\ request.id # i /\ job.id # i /\ seen[i] = "none"
    /\ \A h \in Handlers : Polls(h, i) => handler[h].job.id # i

\* A tab was told no more than the job file says or said; whoever was told of a job whose
\* request is still in the inbox finds it in the job file.
Told(i) ==
    /\ request.id = i /\ seen[i] \notin {"none", "queued"} => job.id = i
    /\ job.id = i => UpTo(seen[i], job.phase)

\* What a poll has read is no less than the tab was told and no more than the file says; a
\* poll that did not read the job of a request in the inbox was sent before that job began.
Answering(h, i) ==
    LET read == handler[h].job IN
    IF read.id = i
    THEN /\ UpTo(seen[i], read.phase)
         /\ job.id = i => UpTo(read.phase, job.phase)
         /\ request.id = i => job.id = i
    ELSE request.id = i => seen[i] \in {"none", "queued"}

Truthful(i) ==
    /\ placed[i] = 0 => Unknown(i)
    /\ Told(i)
    /\ \A h \in Handlers : Polls(h, i) => Answering(h, i)
Honest == OnePoll /\ Following /\ \A i \in Ids : placed[i] <= 1 => Truthful(i)

\* A step by which a handler gets nothing new to tell a tab.
Retains(h) ==
    \/ handler'[h].op = "post" \/ handler'[h].id = NoId
    \/ /\ handler'[h].op = handler[h].op /\ handler'[h].id = handler[h].id
       /\ handler'[h].job = handler[h].job

LEMMA Phased ==
    /\ Progress("none") = 0 /\ Progress("queued") = 1 /\ Progress("checking") = 2
    /\ Progress("installing") = 3 /\ Progress("starting") = 4
    /\ \A p \in Terminal : Progress(p) = 5
BY DEF Progress, Terminal

LEMMA Ordered ==
    /\ \A p \in Phases : UpTo("none", p) /\ UpTo(p, p)
    /\ \A p \in Active \cup Terminal : UpTo("queued", p)
    /\ \A p \in Active, q \in Terminal : UpTo(p, q)
    /\ \A p, q, r \in Phases : UpTo(p, q) /\ UpTo(q, r) => UpTo(p, r)
    /\ UpTo("checking", "installing") /\ UpTo("installing", "starting")
<1>1. \A p \in Phases : Progress(p) \in Nat
  BY Phased DEF Phases, Active
<1>2. \A p \in Terminal : Progress(p) = 5 /\ p \in Phases
  BY Phased DEF Phases
<1>3. \A p \in Active : Progress(p) \in 1..4 /\ p \in Phases
  BY Phased DEF Phases, Active
<1>4. \A p \in Phases : p = "none" \/ Progress(p) > 0
  BY <1>2, <1>3 DEF Phases
<1>5. \A p \in Active \cup Terminal : p = "queued" \/ Progress(p) > 1
  BY Phased, <1>2 DEF Active
<1>6. \A p, q, r \in Phases : UpTo(p, q) /\ UpTo(q, r) => UpTo(p, r)
  BY <1>1 DEF UpTo
<1>7. \A p \in Active, q \in Terminal : UpTo(p, q)
  BY <1>2, <1>3 DEF UpTo
<1>8. \A p \in Phases : UpTo("none", p) /\ UpTo(p, p)
  BY <1>4, Phased DEF UpTo
<1>9. \A p \in Active \cup Terminal : UpTo("queued", p)
  BY <1>5, Phased DEF UpTo
<1>. QED
  BY <1>6, <1>7, <1>8, <1>9, Phased DEF UpTo

\* A step that neither tells nor reads anything, adds no request and changes the job only
\* to a later phase.
LEMMA Quietly ==
    ASSUME IInv, Honest, NEW i \in Ids, placed' = placed, placed[i] <= 1, seen' = seen,
           request'.id \in {request.id, NoId},
           \A h \in Handlers : Retains(h),
           job'.id = job.id, UpTo(job.phase, job'.phase), job'.phase \in Phases
    PROVE  Truthful(i)'
<1>1. Truthful(i) /\ i # NoId
  BY IdsOK DEF Honest
<1>2. \A h \in Handlers : Polls(h, i)' => Polls(h, i) /\ handler'[h].job = handler[h].job
  BY <1>1 DEF Polls, Retains
<1>3. job.phase \in Phases /\ seen[i] \in Phases
  BY DEF IInv, TypeOK, Jobs, NoJob, Phases
<1>4. Told(i)'
  BY <1>1, <1>3, Ordered DEF Truthful, Told
<1>5. placed[i] = 0 => Unknown(i)'
  BY <1>1, <1>2 DEF Truthful, Unknown
<1>6. ASSUME NEW h \in Handlers, Polls(h, i)' PROVE Answering(h, i)'
  <2>1. handler[h].job.phase \in Phases
    BY DEF IInv, TypeOK, Jobs, NoJob, Phases
  <2>2. Answering(h, i) /\ handler'[h].job = handler[h].job
    BY <1>1, <1>2, <1>6 DEF Truthful
  <2>. QED
    BY <2>1, <2>2, <1>1, <1>3, Ordered DEF Answering
<1>. QED
  BY <1>4, <1>5, <1>6 DEF Truthful

LEMMA SameFollowing ==
    ASSUME Following, UNCHANGED <<helper, job>> PROVE Following'
BY DEF Following

LEMMA SamePolls ==
    ASSUME OnePoll, \A h \in Handlers : Retains(h)
    PROVE  OnePoll'
BY IdsOK DEF OnePoll, Polls, Retains

\* The helper's steps.
LEMMA AgentHonest ==
    ASSUME IInv, Honest, Start \/ Serve \/ Die \/ (\E i \in Ids : EndScript(i))
    PROVE  Honest'
<1>. USE DEF api
<1>1. UNCHANGED <<handler, seen, placed>>
  BY DEF Start, Serve, Die, EndScript, Recover, ReadRequest, Reject, Begin, Check, RunScript,
        AfterScript, AwaitReady, Unlink
<1>. /\ \A h \in Handlers : Retains(h)
     /\ OnePoll'
  BY <1>1, SamePolls DEF Retains, Honest
<1>2. Following'
  BY HelperParts DEF IInv, Honest, Following, Start, Serve, Die, EndScript, Recover, ReadRequest, Reject,
        Begin, Check, RunScript, AfterScript, AwaitReady, Unlink, Publish, At, Idle, Down, TypeOK
<1>3. request'.id \in {request.id, NoId}
  BY DEF Start, Serve, Die, EndScript, Recover, ReadRequest, Reject, Begin, Check, RunScript,
        AfterScript, AwaitReady, Unlink, NoRequest
<1>4. job.phase \in Phases /\ Active \subseteq Phases /\ Terminal \subseteq Phases
  BY DEF IInv, TypeOK, Jobs, NoJob, Phases
<1>5. \/ job'.id = job.id /\ UpTo(job.phase, job'.phase) /\ job'.phase \in Phases
      \/ Begin /\ Unreported /\ Publish(helper.id, "checking")
  <2>1. CASE job' = job
    BY <2>1, <1>4, Ordered
  <2>2. CASE Recover /\ Interrupted /\ Publish(job.id, "failed")
    BY <2>2, <1>4, Ordered DEF Interrupted, Publish, Terminal
  <2>3. CASE Check
    BY <2>3, <1>4, Ordered DEF Check, Publish, Honest, Following, Active, Terminal
  <2>4. CASE RunScript \/ AfterScript
    BY <2>4, <1>4, Ordered DEF RunScript, AfterScript, Publish, IInv, ScriptAlone, Active, Terminal
  <2>5. CASE AwaitReady
    BY <2>5, <1>4, Ordered DEF AwaitReady, Publish, Honest, Following, Active, Terminal
  <2>. QED
    BY <2>1, <2>2, <2>3, <2>4, <2>5 DEF Start, Serve, Die, EndScript, Recover, ReadRequest, Reject,
        Begin, Unlink
<1>6. ASSUME NEW i \in Ids, placed[i] <= 1 PROVE Truthful(i)'
  <2>1. CASE job'.id = job.id /\ UpTo(job.phase, job'.phase) /\ job'.phase \in Phases
    BY <2>1, <1>1, <1>3, <1>6, Quietly
  <2>2. CASE Begin /\ Unreported /\ Publish(helper.id, "checking")
    <3>1. job' = [id |-> helper.id, phase |-> "checking"] /\ request' = request
      BY <2>2 DEF Begin, Publish
    <3>2. request.id = helper.id /\ job.id # helper.id
      BY <2>2 DEF Begin, Unreported, IInv, InboxKept, Busy
    <3>3. Truthful(i)
      BY <1>6 DEF Honest
    <3>4. "checking" \in Active
      BY DEF Active
    <3>5. seen[i] \in {"none", "queued"} => UpTo(seen[i], "checking")
      BY <3>4, <1>4, Ordered
    <3>6. Told(i)'
      BY <3>1, <3>2, <3>3, <3>5, <1>1 DEF Truthful, Told
    <3>7. placed[i] = 0 => Unknown(i)'
      BY <3>1, <3>2, <3>3, <1>1 DEF Truthful, Unknown, Polls
    <3>8. ASSUME NEW h \in Handlers, Polls(h, i)' PROVE Answering(h, i)'
      BY <3>1, <3>2, <3>3, <3>8, <1>1 DEF Truthful, Answering, Polls
    <3>. QED
      BY <3>6, <3>7, <3>8, <1>1 DEF Truthful
  <2>. QED
    BY <2>1, <2>2, <1>5
<1>. QED
  BY <1>1, <1>2, <1>6 DEF Honest

\* A poll is sent: nobody polls for this tab, and the job is read first.
LEMMA AskHonest ==
    ASSUME IInv, Honest, NEW h \in Handlers, NEW op \in {"post", "status"}, NEW k \in Ids, Ask(h, op, k)
    PROVE  Honest'
<1>1. /\ handler' = [handler EXCEPT ![h] = [pc |-> "inbox", op |-> op, id |-> k, job |-> job]]
      /\ UNCHANGED <<request, job, helper, seen, placed>>
  BY DEF Ask, agent
<1>2. /\ handler'[h].op = op /\ handler'[h].id = k /\ handler'[h].job = job
      /\ \A g \in Handlers \ {h} : handler'[g] = handler[g]
  BY <1>1 DEF IInv, TypeOK
<1>3. Following'
  BY <1>1, SameFollowing DEF Honest
<1>4. OnePoll'
  BY <1>2 DEF Ask, Honest, OnePoll, Polls
<1>5. ASSUME NEW i \in Ids, placed[i] <= 1 PROVE Truthful(i)'
  <2>1. Truthful(i) /\ seen[i] \in Phases /\ job.phase \in Phases
    BY <1>5 DEF Honest, IInv, TypeOK, Jobs, NoJob, Phases
  <2>2. Told(i)'
    BY <2>1, <1>1 DEF Truthful, Told
  <2>3. placed[i] = 0 => Unknown(i)'
    BY <2>1, <1>1, <1>2 DEF Truthful, Unknown, Polls
  <2>4. ASSUME NEW g \in Handlers, Polls(g, i)' PROVE Answering(g, i)'
    <3>1. CASE g = h
      BY <3>1, <2>1, <1>1, <1>2, Ordered DEF Truthful, Told, Answering
    <3>2. CASE g # h
      BY <3>2, <2>1, <2>4, <1>1, <1>2 DEF Truthful, Answering, Polls
    <3>. QED
      BY <3>1, <3>2
  <2>. QED
    BY <2>2, <2>3, <2>4, <1>1 DEF Truthful
<1>. QED
  BY <1>3, <1>4, <1>5, <1>1 DEF Honest

\* A tab is told the same or something later.
LEMMA ToldMore ==
    ASSUME IInv, Honest, NEW h \in Handlers, AnswerStatus(h), NEW i \in Ids, placed[i] <= 1
    PROVE  /\ seen'[i] # seen[i] => Polls(h, i)
           /\ UpTo(seen[i], seen'[i])
           /\ request.id = i /\ seen'[i] \notin {"none", "queued"} => job.id = i
           /\ job.id = i => UpTo(seen'[i], job.phase)
           /\ placed[i] = 0 => seen'[i] = "none"
<1>1. PICK shown : shown = Shown(handler[h].job)
  OBVIOUS
<1>2. seen' = IF shown.id = handler[h].id THEN [seen EXCEPT ![handler[h].id] = shown.phase] ELSE seen
  BY <1>1 DEF AnswerStatus
<1>3. Truthful(i) /\ seen[i] \in Phases /\ job.phase \in Phases /\ seen = [j \in Ids |-> seen[j]] /\ i # NoId
  BY IdsOK DEF Honest, IInv, TypeOK, Jobs, NoJob, Phases
<1>4. handler[h].op = "status" /\ handler[h].job \in Jobs /\ job \in Jobs
  BY DEF AnswerStatus, IInv, TypeOK
<1>5. CASE seen' = seen
  BY <1>3, <1>5, Ordered DEF Truthful, Told, Unknown
<1>6. CASE handler[h].id # i
  <2>1. seen'[i] = seen[i]
    BY <1>2, <1>3, <1>6
  <2>. QED
    BY <2>1, <1>3, Ordered DEF Truthful, Told, Unknown
<1>7. CASE handler[h].id = i /\ shown.id = i
  <2>1. seen'[i] = shown.phase /\ Polls(h, i)
    BY <1>2, <1>3, <1>4, <1>7 DEF Polls
  <2>2. Answering(h, i) /\ (placed[i] = 0 => Unknown(i))
    BY <2>1, <1>3 DEF Truthful
  <2>3. CASE request.id = i /\ handler[h].job.id # i
    <3>1. shown = [id |-> i, phase |-> "queued"]
      BY <2>3, <1>1, <1>3 DEF Shown
    <3>2. seen[i] \in {"none", "queued"} /\ placed[i] # 0
      BY <2>2, <2>3 DEF Answering, Unknown
    <3>3. job.id = i => job.phase \in Active \cup Terminal
      BY <1>3, <1>4 DEF Jobs, NoJob
    <3>4. "queued" \in Phases
      BY DEF Phases, Active
    <3>. QED
      BY <2>1, <3>1, <3>2, <3>3, <3>4, Ordered
  <2>4. CASE handler[h].job.id = i
    <3>1. shown = handler[h].job
      BY <2>4, <1>1, <1>7 DEF Shown
    <3>. QED
      BY <2>1, <2>2, <2>4, <3>1 DEF Answering, Unknown
  <2>. QED
    BY <2>3, <2>4, <1>1, <1>7 DEF Shown
<1>. QED
  BY <1>2, <1>5, <1>6, <1>7

LEMMA AnswerHonest ==
    ASSUME IInv, Honest, NEW h \in Handlers, AnswerStatus(h) PROVE Honest'
<1>1. /\ handler' = [handler EXCEPT ![h] = NoHandler]
      /\ UNCHANGED <<request, job, helper, placed>>
  BY DEF AnswerStatus, agent
<1>2. /\ handler'[h].id = NoId /\ \A g \in Handlers \ {h} : handler'[g] = handler[g]
  BY <1>1 DEF IInv, TypeOK, NoHandler
<1>3. \A g \in Handlers : Retains(g)
  BY <1>2 DEF Retains
<1>. Following' /\ OnePoll'
  BY <1>1, <1>3, SameFollowing, SamePolls DEF Honest
<1>4. ASSUME NEW i \in Ids, placed[i] <= 1 PROVE Truthful(i)'
  <2>1. Truthful(i)
    BY <1>4 DEF Honest
  <2>2. Told(i)'
    BY <1>1, <1>4, ToldMore DEF Told
  <2>3. placed[i] = 0 => Unknown(i)'
    BY <1>1, <1>2, <1>4, <2>1, ToldMore, IdsOK DEF Truthful, Unknown, Polls
  <2>4. ASSUME NEW g \in Handlers, Polls(g, i)' PROVE Answering(g, i)'
    <3>1. g # h /\ handler'[g] = handler[g] /\ Polls(g, i)
      BY <2>4, <1>2, IdsOK DEF Polls
    <3>2. ~Polls(h, i)
      BY <3>1 DEF Honest, OnePoll
    <3>3. seen'[i] = seen[i]
      BY <3>2, <1>4, ToldMore
    <3>. QED
      BY <2>1, <3>1, <3>3, <1>1 DEF Truthful, Answering
  <2>. QED
    BY <2>2, <2>3, <2>4, <1>1 DEF Truthful
<1>. QED
  BY <1>3, <1>4, <1>1 DEF Honest

\* An ID gets into the inbox: for the first time, or it is no longer looked at.
LEMMA WriteHonest ==
    ASSUME IInv, Honest, NEW h \in Handlers, Write(h) PROVE Honest'
<1>1. /\ handler' = [handler EXCEPT ![h] = NoHandler]
      /\ UNCHANGED <<job, helper, seen>>
  BY DEF Write, agent
<1>2. handler'[h].id = NoId /\ \A g \in Handlers \ {h} : handler'[g] = handler[g]
  BY <1>1 DEF IInv, TypeOK, NoHandler
<1>3. \A g \in Handlers : Retains(g)
  BY <1>2 DEF Retains
<1>. Following' /\ OnePoll'
  BY <1>1, <1>3, SameFollowing, SamePolls DEF Honest
<1>4. ASSUME NEW i \in Ids, placed'[i] <= 1 PROVE Truthful(i)'
  <2>. job.phase \in Phases /\ seen[i] \in Phases /\ placed[i] \in Nat /\ i # NoId
    BY IdsOK DEF IInv, TypeOK, Jobs, NoJob, Phases
  <2>1. CASE request.by # h
    BY <2>1, <1>1, <1>3, <1>4, Quietly, Ordered DEF Write
  <2>2. CASE request.by = h
    <3>1. /\ request'.id = handler[h].id /\ placed' = [placed EXCEPT ![handler[h].id] = @ + 1]
      BY <2>2 DEF Write, IInv, TypeOK
    <3>2. CASE handler[h].id = i
      <4>1. placed'[i] = placed[i] + 1
        BY <3>1, <3>2 DEF IInv, TypeOK
      <4>2. placed[i] = 0 /\ Truthful(i) /\ placed'[i] # 0
        BY <4>1, <1>4 DEF Honest
      <4>3. Unknown(i)
        BY <4>2 DEF Truthful
      <4>4. Told(i)'
        BY <4>3, <1>1 DEF Unknown, Told
      <4>5. ASSUME NEW g \in Handlers, Polls(g, i)' PROVE Answering(g, i)'
        BY <4>3, <4>5, <1>1, <1>2 DEF Unknown, Answering, Polls
      <4>. QED
        BY <4>2, <4>4, <4>5 DEF Truthful
    <3>3. CASE handler[h].id # i
      <4>1. placed'[i] = placed[i] /\ Truthful(i)
        BY <3>1, <3>3, <1>4 DEF IInv, TypeOK, Honest
      <4>2. Told(i)'
        BY <4>1, <3>1, <3>3, <1>1 DEF Truthful, Told
      <4>3. placed'[i] = 0 => Unknown(i)'
        BY <4>1, <3>1, <3>3, <1>1, <1>2 DEF Truthful, Unknown, Polls
      <4>4. ASSUME NEW g \in Handlers, Polls(g, i)' PROVE Answering(g, i)'
        BY <4>1, <4>4, <3>1, <3>3, <1>1, <1>2 DEF Truthful, Answering, Polls
      <4>. QED
        BY <4>2, <4>3, <4>4 DEF Truthful
    <3>. QED
      BY <3>2, <3>3
  <2>. QED
    BY <2>1, <2>2
<1>. QED
  BY <1>3, <1>4 DEF Honest

\* The other steps of the API and the passing of time.
LEMMA RestHonest ==
    ASSUME IInv, Honest, (\E h \in Handlers : Decide(h) \/ Create(h)) \/ ApiDies \/ Age \/ UNCHANGED vars
    PROVE  Honest'
<1>1. UNCHANGED <<job, helper, seen, placed>>
  BY DEF Decide, Create, ApiDies, Age, vars, agent, api
<1>2. request'.id \in {request.id, NoId}
  BY DEF Decide, Create, ApiDies, Age, vars, agent, api, NoRequest, IInv, TypeOK
<1>3. \A h \in Handlers : Retains(h)
  <2>1. ASSUME NEW h \in Handlers, Decide(h) \/ Create(h), NEW g \in Handlers PROVE Retains(g)
    <3>1. \/ handler' = [handler EXCEPT ![h] = NoHandler]
          \/ handler' = [handler EXCEPT ![h].pc = "create", ![h].job = NoJob] /\ handler[h].op = "post"
          \/ handler' = [handler EXCEPT ![h].pc = "write"]
          \/ handler' = handler
      BY <2>1 DEF Decide, Create
    <3>2. handler'[g] = handler[g] \/ g = h
      BY <3>1 DEF IInv, TypeOK
    <3>3. CASE g = h
      <4>1. PICK x : x = handler[h]
        OBVIOUS
      <4>2. x \in HandlerTypes
        BY <4>1 DEF IInv, TypeOK, HandlerTypes
      <4>3. PICK y : y = handler'[h]
        OBVIOUS
      <4>4. \/ y = NoHandler
            \/ y = [x EXCEPT !.pc = "create", !.job = NoJob] /\ x.op = "post"
            \/ y = [x EXCEPT !.pc = "write"]
            \/ y = x
        BY <3>1, <4>1, <4>3 DEF IInv, TypeOK
      <4>5. y.id = NoId \/ y.op = "post" \/ (y.op = x.op /\ y.id = x.id /\ y.job = x.job)
        <5>1. CASE y = NoHandler
          BY <5>1 DEF NoHandler
        <5>2. CASE y = [x EXCEPT !.pc = "create", !.job = NoJob] /\ x.op = "post"
          BY <4>2, <5>2 DEF HandlerTypes
        <5>3. CASE y = [x EXCEPT !.pc = "write"]
          BY <4>2, <5>3 DEF HandlerTypes
        <5>. QED
          BY <4>4, <5>1, <5>2, <5>3
      <4>. QED
        BY <3>3, <4>1, <4>3, <4>5 DEF Retains
    <3>. QED
      BY <3>2, <3>3 DEF Retains
  <2>2. CASE ApiDies \/ Age \/ UNCHANGED vars
    BY <2>2 DEF ApiDies, Age, vars, api, NoHandler, Retains
  <2>. QED
    BY <2>1, <2>2
<1>4. job.phase \in Phases
  BY DEF IInv, TypeOK, Jobs, NoJob, Phases
<1>5. \A i \in Ids : placed'[i] <= 1 => Truthful(i)'
  BY <1>1, <1>2, <1>3, <1>4, Quietly, Ordered
<1>. QED
  BY <1>1, <1>3, <1>5, SameFollowing, SamePolls DEF Honest

LEMMA HonestStep ==
    ASSUME IInv, Honest, [Next]_vars
    PROVE  /\ Honest'
           /\ \A i \in Ids : seen'[i] # seen[i] /\ placed[i] <= 1 => Progress(seen[i]) < Progress(seen'[i])
<1>1. CASE Start \/ Serve \/ Die \/ (\E i \in Ids : EndScript(i))
  <2>1. seen' = seen
    BY <1>1 DEF Start, Serve, Die, EndScript, Recover, ReadRequest, Reject, Begin, Check, RunScript,
        AfterScript, AwaitReady, Unlink, api
  <2>. QED
    BY <2>1, <1>1, AgentHonest
<1>2. ASSUME NEW h \in Handlers, Handle(h)
      PROVE  /\ Honest'
             /\ \A i \in Ids : seen'[i] # seen[i] /\ placed[i] <= 1 => Progress(seen[i]) < Progress(seen'[i])
  <2>1. CASE AnswerStatus(h)
    BY <2>1, AnswerHonest, ToldMore DEF UpTo
  <2>2. CASE ~AnswerStatus(h)
    <3>1. seen' = seen
      BY <1>2, <2>2 DEF Handle, Ask, Decide, Create, Write
    <3>2. Honest'
      BY <1>2, <2>2, AskHonest, WriteHonest, RestHonest DEF Handle
    <3>. QED
      BY <3>1, <3>2
  <2>. QED
    BY <2>1, <2>2
<1>3. CASE ApiDies \/ Age \/ UNCHANGED vars
  <2>1. seen' = seen
    BY <1>3 DEF ApiDies, Age, vars, api
  <2>. QED
    BY <2>1, <1>3, RestHonest
<1>. QED
  BY <1>1, <1>2, <1>3 DEF Next

\* However the two files change while they are read, the tab that watches a request placed
\* once is never told an earlier phase than before, nor a second result.
THEOREM PhasesNeverGoBack == Spec => StatusNeverGoesBack
<1>1. Init => Honest
  <2>. SUFFICES ASSUME Init PROVE Honest
    OBVIOUS
  <2>1. \A h \in Handlers : handler[h].id = NoId
    BY DEF Init, NoHandler
  <2>2. \A h \in Handlers, i \in Ids : ~Polls(h, i)
    BY <2>1, IdsOK DEF Polls
  <2>3. \A i \in Ids : request.id # i /\ job.id # i /\ seen[i] = "none"
    BY IdsOK DEF Init, NoRequest, NoJob
  <2>. QED
    BY <2>2, <2>3 DEF Init, Down, Honest, OnePoll, Following, Truthful, Unknown, Told
<1>2. IInv /\ Honest /\ [Next]_vars => Honest'
  BY HonestStep
<1>3. IInv /\ Honest /\ [Next]_vars =>
        [\A i \in Ids : seen'[i] # seen[i] /\ placed[i] <= 1 => Progress(seen[i]) < Progress(seen'[i])]_vars
  BY HonestStep
<1>. QED
  BY <1>1, <1>2, <1>3, IInvAlways, PTL DEF Spec, StatusNeverGoesBack
=============================================================================
