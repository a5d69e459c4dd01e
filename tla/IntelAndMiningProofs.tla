----------------------- MODULE IntelAndMiningProofs -----------------------
(* Theorems about IntelCollection, for any number of jobs, processes, tokens,  *)
(* pages and killmails, and about MiningSettlement, for any payloads and any   *)
(* number of requests.  Both count on sums, whose laws stand between them.     *)
(*                                                                             *)
(* IntelCollection: a lease token is never held by two runs, so at most one    *)
(* process owns a row (Ownership).  Only the owner moves a row's cursor, so    *)
(* what the owner remembers of the cursor stays true until it lets go          *)
(* (StepMatchesCheckpoint).  That bounds the page it increments, and shows     *)
(* that every write moves the cursor forward.                                  *)
(* Counts are sums over the rows: one row's counters and the stored killmails  *)
(* grow in the same step (Ledgered).  Coverage is an invariant of the pages    *)
(* (PagesSound): what a report still misses lies deeper in the feed than the   *)
(* pages it has read, and posting only pushes it deeper.                       *)
(*                                                                             *)
(* MiningSettlement: what is left after rounding every share down is less than *)
(* the number of shares with a fraction, and goes to the largest fractions, so *)
(* the shares add up to the total and keep their order (AllocateAddsUp,        *)
(* AllocateFair).  The row keeps the columns of its latest save as long as the *)
(* children of no other save are left (SettlementInv).                         *)
EXTENDS IntelCollection, MiningSettlement,
        FiniteSetTheorems, WellFoundedInduction, TLAPS

\* Runs hold distinct tokens, and every process and request points at a job.
Ownership ==
    /\ \A w \in Workers : worker[w].pc # "idle" => worker[w].job \in Jobs
    /\ \A w \in Workers : worker[w].pc \in Working => worker[w].token \in Tokens
    /\ \A v, w \in Workers :
          worker[v].pc \in Working /\ worker[w].pc \in Working
              /\ worker[v].token = worker[w].token => v = w
    /\ \A r \in Requests : request[r].op = "retry" => request[r].job \in Jobs

IInv == TypeOK /\ Ownership /\ StepMatchesCheckpoint

-----------------------------------------------------------------------------

LEMMA BlankTyped == Blank \in JobRow /\ Idle \in WorkerState /\ NoRequest \in RequestState
<1>1. Blank.subject \in Subjects
  BY ConstantsOK DEF Blank
<1>2. [f \in Feeds |-> "none"] \in [Feeds -> FeedEnd \cup {"none", "collecting"}]
  OBVIOUS
<1>3. 1 \in 1..MaxPages
  BY ConstantsOK
<1>. QED
  BY <1>1, <1>2, <1>3 DEF Blank, Idle, NoRequest, JobRow, WorkerState, RequestState, Stages, Feeds

LEMMA InitIInv == Init => IInv
<1>. SUFFICES ASSUME Init PROVE IInv
  OBVIOUS
<1>. USE BlankTyped, ConstantsOK DEF Init
<1>1. TypeOK
  BY DEF TypeOK
<1>2. Ownership
  BY DEF Ownership, Idle, NoRequest, Working
<1>3. StepMatchesCheckpoint
  BY DEF StepMatchesCheckpoint, Owns, Idle, Working
<1>. QED
  BY <1>1, <1>2, <1>3 DEF IInv

-----------------------------------------------------------------------------
(* Three shapes of step: by the owner of a row, by nobody's owner, by the clock *)
(* and the API.                                                                 *)

\* A run that owns its row rewrites the row and its own state, keeping or giving
\* up the token.
LEMMA OwnerStep ==
    ASSUME IInv, NEW w \in Workers, Owns(w),
           NEW row \in JobRow, NEW me \in WorkerState,
           job' = [job EXCEPT ![worker[w].job] = row],
           worker' = [worker EXCEPT ![w] = me],
           row.token \in {worker[w].token, NoToken},
           me = Idle \/ /\ me.pc \in Working
                        /\ me.job = worker[w].job /\ me.token = worker[w].token
                        /\ row.token = me.token => Matches(me, row),
           UNCHANGED <<request, posted>>,
           store' \subseteq 1..MaxKills,
           discovery' \subseteq Subjects \X Feeds \X (1..MaxKills),
           cache' \subseteq CacheRow
    PROVE  IInv'
<1>. USE DEF IInv
<1>0. worker[w].pc \in Working /\ worker[w].pc # "idle" /\ worker[w].job \in Jobs
      /\ worker[w].token \in Tokens /\ NoToken \notin Tokens
  BY ConstantsOK DEF Owns, Working, Ownership
<1>1. TypeOK'
  BY <1>0 DEF TypeOK
<1>2. \A v \in Workers : worker'[v] = IF v = w THEN me ELSE worker[v]
  BY DEF TypeOK
<1>3. Idle.pc = "idle" /\ "idle" \notin Working
  BY DEF Idle, Working
<1>4. Ownership'
  BY <1>0, <1>2, <1>3 DEF Ownership
<1>5. ASSUME NEW v \in Workers, Owns(v)'
      PROVE  Matches(worker[v], job[worker[v].job])'
  <2>0. worker'[v].pc \in Working
    BY <1>5 DEF Owns
  <2>1. CASE v = w
    <3>1. worker'[v] = me /\ me.pc \in Working /\ me # Idle
      BY <1>2, <1>3, <2>0, <2>1
    <3>2. job'[me.job] = row
      BY <1>0, <3>1 DEF TypeOK
    <3>3. row.token = me.token
      BY <1>5, <3>1, <3>2 DEF Owns
    <3>. QED
      BY <3>1, <3>2, <3>3 DEF Matches
  <2>2. CASE v # w
    <3>1. worker'[v] = worker[v] /\ worker[v].token \in Tokens /\ worker[v].job \in Jobs
      BY <1>2, <1>3, <2>0, <2>2 DEF Ownership
    <3>2. worker[v].token # worker[w].token
      BY <1>0, <2>0, <2>2, <3>1 DEF Ownership
    <3>3. worker[v].job # worker[w].job
      BY <1>0, <1>5, <3>1, <3>2 DEF Owns, TypeOK
    <3>4. job'[worker[v].job] = job[worker[v].job]
      BY <3>1, <3>3 DEF TypeOK
    <3>5. Owns(v)
      BY <1>5, <3>1, <3>4 DEF Owns
    <3>6. Matches(worker[v], job[worker[v].job])
      BY <3>5 DEF StepMatchesCheckpoint
    <3>. QED
      BY <3>1, <3>4, <3>6 DEF Matches
  <2>. QED
    BY <2>1, <2>2
<1>. QED
  BY <1>1, <1>4, <1>5 DEF StepMatchesCheckpoint

\* Rows change without any run's doing, and no run gains or keeps a row whose
\* cursor moved.
LEMMA RowStep ==
    ASSUME IInv, job' \in [Jobs -> JobRow], worker' = worker,
           request' \in [Requests -> RequestState],
           \A r \in Requests : request'[r].op = "retry" => request'[r].job \in Jobs,
           posted' \in 0..MaxKills, UNCHANGED <<store, discovery>>, cache' \subseteq cache,
           \A j \in Jobs : job'[j].status = "running" /\ job'[j].token # NoToken =>
               /\ job[j].status = "running" /\ job[j].token = job'[j].token
               /\ job[j].stage = job'[j].stage /\ job[j].page = job'[j].page
    PROVE  IInv'
<1>. USE DEF IInv
<1>1. TypeOK'
  BY DEF TypeOK
<1>2. Ownership'
  BY DEF Ownership
<1>3. ASSUME NEW v \in Workers, Owns(v)'
      PROVE  Matches(worker[v], job[worker[v].job])'
  <2>1. worker[v].pc \in Working /\ worker[v].job \in Jobs /\ worker[v].token # NoToken
    BY <1>3, ConstantsOK DEF Owns, Ownership, Working
  <2>2. job'[worker[v].job].status = "running"
        /\ job'[worker[v].job].token = worker[v].token
    BY <1>3 DEF Owns
  <2>3. Owns(v)
    BY <2>1, <2>2 DEF Owns
  <2>4. Matches(worker[v], job[worker[v].job])
    BY <2>3 DEF StepMatchesCheckpoint
  <2>. QED
    BY <2>1, <2>2, <2>4 DEF Matches
<1>. QED
  BY <1>1, <1>2, <1>3 DEF StepMatchesCheckpoint

\* A process moves without touching the database and without a new lease.
LEMMA ProcessStep ==
    ASSUME IInv, NEW w \in Workers, NEW me \in WorkerState,
           worker' = [worker EXCEPT ![w] = me],
           UNCHANGED <<job, request, data>>,
           \/ me.pc = "idle"
           \/ me.pc = "claiming" /\ me.job \in Jobs
           \/ /\ worker[w].pc \in Working /\ me.pc \in Working
              /\ me.job = worker[w].job /\ me.token = worker[w].token
              /\ Owns(w) => Matches(me, job[me.job])
    PROVE  IInv'
<1>. USE DEF IInv
<1>1. TypeOK'
  BY DEF TypeOK, data
<1>2. \A v \in Workers : worker'[v] = IF v = w THEN me ELSE worker[v]
  BY DEF TypeOK
<1>3. "idle" \notin Working /\ "claiming" \notin Working
  BY DEF Working
<1>4. Ownership'
  <2>1. \A v \in Workers : worker'[v].pc \in Working =>
           worker[v].pc \in Working /\ worker'[v].token = worker[v].token
    BY <1>2, <1>3
  <2>2. \A v \in Workers : worker'[v].pc # "idle" => worker'[v].job \in Jobs
    BY <1>2, <1>3 DEF Ownership
  <2>. QED
    BY <2>1, <2>2 DEF Ownership
<1>5. ASSUME NEW v \in Workers, Owns(v)'
      PROVE  Matches(worker[v], job[worker[v].job])'
  BY <1>2, <1>3, <1>5 DEF Owns, StepMatchesCheckpoint, Matches
<1>. QED
  BY <1>1, <1>4, <1>5 DEF StepMatchesCheckpoint

-----------------------------------------------------------------------------
(* One lemma per action. *)

LEMMA HeldTyped ==
    ASSUME IInv, NEW w \in Workers, Owns(w)
    PROVE  /\ worker[w] \in WorkerState /\ worker[w].job \in Jobs
           /\ worker[w].token \in Tokens
           /\ Held(w) \in JobRow /\ Held(w).token = worker[w].token
           /\ Matches(worker[w], Held(w))
<1>1. worker[w] \in WorkerState /\ worker[w].pc \in Working
  BY DEF IInv, TypeOK, Owns
<1>2. worker[w].job \in Jobs /\ worker[w].token \in Tokens
  BY <1>1 DEF IInv, Ownership, Working
<1>3. job[worker[w].job] \in JobRow
  BY <1>2 DEF IInv, TypeOK
<1>4. Held(w) = [job[worker[w].job] EXCEPT !.lease = "held"]
  BY DEF Held
<1>5. Held(w) \in JobRow
  BY <1>3, <1>4 DEF JobRow
<1>6. Held(w).token = worker[w].token
  BY <1>3, <1>4 DEF Owns, JobRow
<1>7. Matches(worker[w], Held(w))
  BY <1>3, <1>4 DEF IInv, StepMatchesCheckpoint, Matches, JobRow
<1>. QED
  BY <1>1, <1>2, <1>5, <1>6, <1>7

LEMMA DataTyped ==
    ASSUME IInv
    PROVE  /\ posted \in 0..MaxKills /\ store \subseteq 1..MaxKills
           /\ discovery \subseteq Subjects \X Feeds \X (1..MaxKills)
           /\ cache \subseteq CacheRow
BY DEF IInv, TypeOK

LEMMA DispatchStep ==
    ASSUME IInv, NEW w \in Workers, Dispatch(w) PROVE IInv'
<1>. DEFINE step == StageStep(Held(w).stage)
            me == [worker[w] EXCEPT !.pc = step]
<1>1. Owns(w) /\ Held(w).stage # "finished" /\ job' = [job EXCEPT ![worker[w].job] = Held(w)]
      /\ worker' = [worker EXCEPT ![w] = me] /\ UNCHANGED <<request, data>>
  BY DEF Dispatch, Save, Goto
<1>2. Held(w) \in JobRow /\ worker[w] \in WorkerState /\ Held(w).token = worker[w].token
  BY <1>1, HeldTyped
<1>3. step \in {"profile", "membership", "open", "metadata"}
      /\ (step = "open" => Held(w).stage \in Feeds)
      /\ (step # "open" => Held(w).stage = step)
  BY <1>1, <1>2 DEF JobRow, Stages, StageStep, Feeds
<1>. HIDE DEF step
<1>4. me \in WorkerState /\ me.pc = step /\ me.job = worker[w].job /\ me.token = worker[w].token
  BY <1>2, <1>3 DEF WorkerState, Working
<1>5. me.pc \in Working /\ Matches(me, Held(w))
  BY <1>3, <1>4 DEF Matches, Working
<1>. QED
  BY <1>1, <1>2, <1>4, <1>5, DataTyped, OwnerStep DEF data

LEMMA ProfileStep ==
    ASSUME IInv, NEW w \in Workers, FinishProfile(w) PROVE IInv'
<1>. DEFINE me == [worker[w] EXCEPT !.pc = "dispatch"]
            stage == IF Held(w).subject \in Alliances THEN "membership" ELSE "kills"
            row == [Held(w) EXCEPT !.stage = stage, !.page = 1, !.retry = 0]
<1>1. Owns(w) /\ job' = [job EXCEPT ![worker[w].job] = row]
      /\ worker' = [worker EXCEPT ![w] = me] /\ UNCHANGED <<request, data>>
  BY DEF FinishProfile, Save, Goto
<1>2. Held(w) \in JobRow /\ worker[w] \in WorkerState /\ Held(w).token = worker[w].token
  BY <1>1, HeldTyped
<1>3. stage \in Stages /\ 1 \in 1..MaxPages
  BY ConstantsOK DEF Stages
<1>. HIDE DEF stage
<1>4. row \in JobRow /\ row.token = worker[w].token
  BY <1>2, <1>3 DEF JobRow
<1>5. me \in WorkerState /\ me.pc = "dispatch" /\ me.job = worker[w].job
      /\ me.token = worker[w].token
  BY <1>2 DEF WorkerState, Working
<1>6. me.pc \in Working /\ Matches(me, row)
  BY <1>5 DEF Matches, Working
<1>. QED
  BY <1>1, <1>4, <1>5, <1>6, DataTyped, OwnerStep DEF data

LEMMA MembershipStep ==
    ASSUME IInv, NEW w \in Workers, FinishMembership(w) PROVE IInv'
<1>0. PICK outcome \in Census :
         job' = [job EXCEPT ![worker[w].job] =
                    [Held(w) EXCEPT !.census = outcome, !.stage = "kills", !.page = 1, !.retry = 0]]
  BY DEF FinishMembership, Save
<1>. DEFINE me == [worker[w] EXCEPT !.pc = "dispatch"]
            row == [Held(w) EXCEPT !.census = outcome, !.stage = "kills", !.page = 1, !.retry = 0]
<1>1. Owns(w) /\ worker' = [worker EXCEPT ![w] = me] /\ UNCHANGED <<request, data>>
  BY DEF FinishMembership, Goto
<1>2. Held(w) \in JobRow /\ worker[w] \in WorkerState /\ Held(w).token = worker[w].token
  BY <1>1, HeldTyped
<1>one. 1 \in 1..MaxPages
  BY ConstantsOK
<1>3. row \in JobRow /\ row.token = worker[w].token
  BY <1>2, <1>one DEF JobRow, Stages
<1>4. me \in WorkerState /\ me.pc = "dispatch" /\ me.job = worker[w].job
      /\ me.token = worker[w].token
  BY <1>2 DEF WorkerState, Working
<1>5. me.pc \in Working /\ Matches(me, row)
  BY <1>4 DEF Matches, Working
<1>. QED
  BY <1>0, <1>1, <1>3, <1>4, <1>5, DataTyped, OwnerStep DEF data

LEMMA OpenPageStep ==
    ASSUME IInv, NEW w \in Workers, OpenPage(w) PROVE IInv'
<1>1. Owns(w) /\ worker[w].pc = "open" /\ job' = [job EXCEPT ![worker[w].job] = Held(w)]
      /\ UNCHANGED <<request, data>>
  BY DEF OpenPage, Save
<1>2. /\ Held(w) \in JobRow /\ worker[w] \in WorkerState /\ Held(w).token = worker[w].token
      /\ Matches(worker[w], Held(w))
  BY <1>1, HeldTyped
<1>3. PICK pc \in {"entries", "fetch"}, kills \in SUBSET (1..MaxKills) : Opened(w, pc, kills)
  BY DataTyped DEF OpenPage, Cached, CacheRow
<1>. DEFINE me == [worker[w] EXCEPT !.pc = pc, !.feed = Held(w).stage, !.page = Held(w).page,
                      !.entries = kills, !.empty = (kills = {}), !.past = FALSE]
<1>4. worker' = [worker EXCEPT ![w] = me]
  BY <1>3 DEF Opened
<1>5. Held(w).stage \in Feeds /\ Held(w).page \in 1..MaxPages
  BY <1>1, <1>2 DEF Matches, JobRow
<1>6. me \in WorkerState /\ me.pc = pc /\ me.job = worker[w].job
      /\ me.token = worker[w].token /\ me.feed = Held(w).stage /\ me.page = Held(w).page
  BY <1>2, <1>5 DEF WorkerState, Working
<1>7. me.pc \in Working /\ Matches(me, Held(w))
  BY <1>3, <1>6 DEF Matches, Working
<1>. QED
  BY <1>1, <1>2, <1>4, <1>6, <1>7, DataTyped, OwnerStep DEF data

LEMMA FetchPageStep ==
    ASSUME IInv, NEW w \in Workers, FetchPage(w) PROVE IInv'
<1>. DEFINE kills == Listing(job[worker[w].job].subject, worker[w].feed, worker[w].page)
            me == [worker[w] EXCEPT !.pc = "publish", !.entries = kills, !.empty = (kills = {})]
<1>1. worker[w].pc = "fetch" /\ worker' = [worker EXCEPT ![w] = me]
      /\ UNCHANGED <<job, request, data>>
  BY DEF FetchPage
<1>2. worker[w] \in WorkerState /\ worker[w].job \in Jobs
  BY <1>1 DEF IInv, TypeOK, Ownership
<1>3. job[worker[w].job].subject \in Subjects /\ worker[w].feed \in Feeds
  BY <1>2 DEF IInv, TypeOK, JobRow, WorkerState
<1>4. kills \in SUBSET (1..MaxKills)
  BY <1>3, ConstantsOK DEF Listing
<1>. HIDE DEF kills
<1>5. me \in WorkerState /\ me.pc = "publish" /\ me.job = worker[w].job
      /\ me.token = worker[w].token /\ me.feed = worker[w].feed /\ me.page = worker[w].page
  BY <1>2, <1>4 DEF WorkerState, Working
<1>6. Owns(w) => Matches(me, job[me.job])
  BY <1>1, <1>5 DEF IInv, StepMatchesCheckpoint, Matches
<1>. QED
  BY <1>1, <1>5, <1>6, ProcessStep DEF Working

LEMMA CachePageStep ==
    ASSUME IInv, NEW w \in Workers, CachePage(w) PROVE IInv'
<1>. DEFINE me == [worker[w] EXCEPT !.pc = "entries"]
            entry == [subject |-> Held(w).subject, feed |-> worker[w].feed,
                      page |-> worker[w].page, kills |-> worker[w].entries]
<1>1. /\ Owns(w) /\ worker[w].pc = "publish"
      /\ job' = [job EXCEPT ![worker[w].job] = Held(w)]
      /\ worker' = [worker EXCEPT ![w] = me]
      /\ UNCHANGED <<request, posted, store, discovery>>
      /\ cache' \subseteq cache \cup {entry}
  BY DEF CachePage, Save, Goto
<1>2. /\ Held(w) \in JobRow /\ worker[w] \in WorkerState /\ Held(w).token = worker[w].token
      /\ Matches(worker[w], Held(w))
  BY <1>1, HeldTyped
<1>3. entry \in CacheRow
  BY <1>2 DEF CacheRow, JobRow, WorkerState
<1>4. me \in WorkerState /\ me.pc = "entries" /\ me.job = worker[w].job
      /\ me.token = worker[w].token /\ me.feed = worker[w].feed /\ me.page = worker[w].page
  BY <1>2 DEF WorkerState, Working
<1>5. me.pc \in Working /\ Matches(me, Held(w))
  BY <1>1, <1>2, <1>4 DEF Matches, Working
<1>6. cache' \subseteq CacheRow
  BY <1>1, <1>3, DataTyped
<1>. QED
  BY <1>1, <1>2, <1>4, <1>5, <1>6, DataTyped, OwnerStep

LEMMA TakeEntryStep ==
    ASSUME IInv, NEW w \in Workers, TakeEntry(w) PROVE IInv'
<1>1. /\ Owns(w) /\ worker[w].pc = "entries"
      /\ UNCHANGED <<request, posted, cache>>
  BY DEF TakeEntry
<1>2. /\ Held(w) \in JobRow /\ worker[w] \in WorkerState /\ Held(w).token = worker[w].token
      /\ Matches(worker[w], Held(w))
  BY <1>1, HeldTyped
<1>3. PICK k \in worker[w].entries :
         /\ worker' = [worker EXCEPT ![w].entries = @ \ {k}, ![w].past = @ \/ k < Held(w).from]
         /\ \/ Save(w, Held(w)) /\ UNCHANGED <<store, discovery>>
            \/ Import(w, k)
  BY DEF TakeEntry
<1>. DEFINE me == [worker[w] EXCEPT !.entries = worker[w].entries \ {k},
                                    !.past = worker[w].past \/ k < Held(w).from]
<1>4. worker' = [worker EXCEPT ![w] = me]
  BY <1>2, <1>3 DEF IInv, TypeOK, WorkerState
<1>5. me \in WorkerState /\ me.pc = "entries" /\ me.job = worker[w].job
      /\ me.token = worker[w].token /\ me.feed = worker[w].feed /\ me.page = worker[w].page
  BY <1>1, <1>2 DEF WorkerState, Working
<1>6. k \in 1..MaxKills /\ worker[w].feed \in Feeds /\ Held(w).subject \in Subjects
  BY <1>2 DEF WorkerState, JobRow
<1>7. PICK row \in JobRow :
         /\ job' = [job EXCEPT ![worker[w].job] = row]
         /\ row.token = worker[w].token
         /\ row.stage = Held(w).stage /\ row.page = Held(w).page
  <2>1. CASE Save(w, Held(w))
    BY <1>2, <2>1 DEF Save
  <2>2. CASE Import(w, k)
    <3>1. PICK imported \in Nat, reused \in Nat :
             Save(w, [Held(w) EXCEPT !.imported = imported, !.reused = reused])
      <4>. DEFINE mark == <<Held(w).subject, worker[w].feed, k>>
                  i == IF k \in store THEN Held(w).imported ELSE Held(w).imported + 1
                  u == IF k \in store /\ mark \notin discovery
                       THEN Held(w).reused + 1 ELSE Held(w).reused
      <4>1. i \in Nat /\ u \in Nat
        BY <1>2 DEF JobRow
      <4>2. Save(w, [Held(w) EXCEPT !.imported = i, !.reused = u])
        BY <1>2, <2>2 DEF Import, JobRow
      <4>. QED
        BY <4>1, <4>2
    <3>2. [Held(w) EXCEPT !.imported = imported, !.reused = reused] \in JobRow
      BY <1>2 DEF JobRow
    <3>. QED
      BY <1>2, <3>1, <3>2 DEF Save, JobRow
  <2>. QED
    BY <1>3, <2>1, <2>2
<1>8. me.pc \in Working /\ Matches(me, row)
  BY <1>1, <1>2, <1>5, <1>7 DEF Matches, Working
<1>9. store' \subseteq 1..MaxKills /\ discovery' \subseteq Subjects \X Feeds \X (1..MaxKills)
      /\ cache' \subseteq CacheRow
  BY <1>1, <1>3, <1>6, DataTyped DEF Import
<1>. QED
  BY <1>1, <1>2, <1>4, <1>5, <1>7, <1>8, <1>9, OwnerStep

LEMMA CommitPageStep ==
    ASSUME IInv, NEW w \in Workers, CommitPage(w) PROVE IInv'
<1>1. /\ Owns(w) /\ worker[w].pc = "entries" /\ UNCHANGED <<request, data>>
      /\ worker' = [worker EXCEPT ![w] = [worker[w] EXCEPT !.pc = "dispatch"]]
  BY DEF CommitPage, Goto
<1>2. /\ Held(w) \in JobRow /\ worker[w] \in WorkerState /\ Held(w).token = worker[w].token
      /\ Matches(worker[w], Held(w))
  BY <1>1, HeldTyped
<1>3. worker[w].feed \in Feeds /\ worker[w].page = Held(w).page /\ Held(w).page \in 1..MaxPages
  BY <1>1, <1>2 DEF Matches, WorkerState, JobRow
<1>. DEFINE me == [worker[w] EXCEPT !.pc = "dispatch"]
            feed(end) == [Held(w).feed EXCEPT ![worker[w].feed] = end]
            last(end, stage) == [Held(w) EXCEPT !.feed = feed(end), !.page = 1, !.retry = 0,
                                                !.stage = stage]
            more == [Held(w) EXCEPT !.feed = feed("collecting"), !.page = Held(w).page + 1,
                                    !.retry = 0]
<1>4. ASSUME NEW end \in FeedEnd \cup {"collecting"}
      PROVE  feed(end) \in [Feeds -> FeedEnd \cup {"none", "collecting"}]
  BY <1>2 DEF JobRow
<1>. HIDE DEF feed
<1>5. PICK row \in JobRow : Save(w, row) /\ row.token = worker[w].token
  <2>1. CASE \E end \in FeedEnd, stage \in {"losses", "metadata"} : Save(w, last(end, stage))
    <3>1. PICK end \in FeedEnd, stage \in {"losses", "metadata"} : Save(w, last(end, stage))
      BY <2>1
    <3>2. feed(end) \in [Feeds -> FeedEnd \cup {"none", "collecting"}] /\ 1 \in 1..MaxPages
      BY <1>4, ConstantsOK
    <3>3. last(end, stage) \in JobRow /\ last(end, stage).token = worker[w].token
      BY <1>2, <3>2 DEF JobRow, Stages
    <3>. QED
      BY <3>1, <3>3
  <2>2. CASE Save(w, more) /\ worker[w].page < MaxPages
    <3>1. feed("collecting") \in [Feeds -> FeedEnd \cup {"none", "collecting"}]
      BY <1>4
    <3>2. Held(w).page + 1 \in 1..MaxPages
      BY <1>3, <2>2, ConstantsOK
    <3>3. more \in JobRow /\ more.token = worker[w].token
      BY <1>2, <3>1, <3>2 DEF JobRow
    <3>. QED
      BY <2>2, <3>3
  <2>3. \/ \E end \in FeedEnd, stage \in {"losses", "metadata"} : Save(w, last(end, stage))
        \/ Save(w, more) /\ worker[w].page < MaxPages
    <3>. DEFINE me0 == worker[w]
                end == IF me0.empty THEN "feed_exhausted"
                       ELSE IF me0.past THEN "reached_date" ELSE "page_cap"
                stage == IF me0.feed = "kills" THEN "losses" ELSE "metadata"
    <3>1. end \in FeedEnd /\ stage \in {"losses", "metadata"}
      BY DEF FeedEnd
    <3>2. \/ Save(w, last(end, stage))
          \/ Save(w, more) /\ ~(me0.page >= MaxPages)
      BY <1>2, <1>3 DEF CommitPage, FeedDone, Ending, feed, JobRow
    <3>3. ~(me0.page >= MaxPages) => me0.page < MaxPages
      BY <1>3, ConstantsOK
    <3>. QED
      BY <3>1, <3>2, <3>3
  <2>. QED
    BY <2>1, <2>2, <2>3
<1>6. me \in WorkerState /\ me.pc = "dispatch" /\ me.job = worker[w].job
      /\ me.token = worker[w].token
  BY <1>2 DEF WorkerState, Working
<1>7. me.pc \in Working /\ Matches(me, row)
  BY <1>6 DEF Matches, Working
<1>. QED
  BY <1>1, <1>5, <1>6, <1>7, DataTyped, OwnerStep DEF data, Save

LEMMA ResolveMetadataStep ==
    ASSUME IInv, NEW w \in Workers, ResolveMetadata(w) PROVE IInv'
<1>1. /\ Owns(w) /\ UNCHANGED <<worker, request, data>>
      /\ job' = [job EXCEPT ![worker[w].job] = Held(w)]
  BY DEF ResolveMetadata, Save
<1>2. /\ Held(w) \in JobRow /\ worker[w] \in WorkerState /\ Held(w).token = worker[w].token
      /\ Matches(worker[w], Held(w)) /\ worker[w].pc \in Working
  BY <1>1, HeldTyped DEF Owns
<1>3. worker' = [worker EXCEPT ![w] = worker[w]]
  BY <1>1 DEF IInv, TypeOK
<1>. QED
  BY <1>1, <1>2, <1>3, DataTyped, OwnerStep DEF data

LEMMA MetadataStep ==
    ASSUME IInv, NEW w \in Workers, FinishMetadata(w) PROVE IInv'
<1>1. /\ Owns(w) /\ UNCHANGED <<request, data>>
      /\ worker' = [worker EXCEPT ![w] = [worker[w] EXCEPT !.pc = "dispatch"]]
  BY DEF FinishMetadata, Goto
<1>2. Held(w) \in JobRow /\ worker[w] \in WorkerState
  BY <1>1, HeldTyped
<1>. DEFINE me == [worker[w] EXCEPT !.pc = "dispatch"]
            row(status) == [Held(w) EXCEPT !.status = status, !.stage = "finished",
                                           !.token = NoToken, !.lease = "none"]
<1>3. PICK status \in {"partial", "completed"} : Save(w, row(status))
  BY DEF FinishMetadata
<1>4. row(status) \in JobRow /\ row(status).token = NoToken
  BY <1>2 DEF JobRow, Stages, Settled
<1>5. me \in WorkerState /\ me.pc = "dispatch" /\ me.job = worker[w].job
      /\ me.token = worker[w].token
  BY <1>2 DEF WorkerState, Working
<1>6. me.pc \in Working /\ Matches(me, row(status))
  BY <1>5 DEF Matches, Working
<1>. HIDE DEF row
<1>. QED
  BY <1>1, <1>3, <1>4, <1>5, <1>6, DataTyped, OwnerStep DEF data, Save

LEMMA FailedTyped ==
    ASSUME NEW row \in JobRow
    PROVE  /\ Failed(row) \in JobRow /\ Failed(row).token = NoToken
           /\ Failed(row).status # "absent"
           /\ Failed(row).stage = row.stage /\ Failed(row).page = row.page
<1>. DEFINE last == row.retry + 1 >= MaxRetries
            n == row.retry + 1
            wait == IF last THEN row.waiting ELSE TRUE
            s == IF ~last THEN "queued"
                 ELSE IF row.imported + row.reused > 0 THEN "partial" ELSE "failed"
            next == [row EXCEPT !.retry = n, !.token = NoToken, !.lease = "none",
                                !.waiting = wait, !.status = s]
<1>1. row.waiting \in BOOLEAN /\ row.retry \in Nat
  BY DEF JobRow
<1>2. n \in Nat
  BY <1>1
<1>3. s \in {"queued", "partial", "failed"}
  OBVIOUS
<1>4. wait \in BOOLEAN
  <2>1. CASE last
    BY <1>1, <2>1
  <2>2. CASE ~last
    BY <2>2
  <2>. QED
    BY <2>1, <2>2
<1>5. Failed(row) = next
  BY DEF Failed, JobRow
<1>. HIDE DEF n, wait, s
<1>6. next \in JobRow /\ next.token = NoToken /\ next.status = s
      /\ next.stage = row.stage /\ next.page = row.page
  BY <1>2, <1>3, <1>4 DEF JobRow, Active, Settled
<1>. QED
  BY <1>3, <1>5, <1>6

LEMMA FailStep ==
    ASSUME IInv, NEW w \in Workers, Fail(w) PROVE IInv'
<1>1. /\ Owns(w) /\ UNCHANGED <<request, data>> /\ Save(w, Failed(Held(w)))
      /\ worker' = [worker EXCEPT ![w] = Idle]
  BY DEF Fail, Stop
<1>2. Held(w) \in JobRow
  BY <1>1, HeldTyped
<1>3. Failed(Held(w)) \in JobRow /\ Failed(Held(w)).token = NoToken
  BY <1>2, FailedTyped
<1>. QED
  BY <1>1, <1>3, BlankTyped, DataTyped, OwnerStep DEF data, Save

LEMMA InterruptStep ==
    ASSUME IInv, NEW w \in Workers, Interrupt(w) PROVE IInv'
<1>. DEFINE row == [Held(w) EXCEPT !.status = "queued", !.token = NoToken, !.lease = "none"]
<1>1. /\ Owns(w) /\ UNCHANGED <<request, data>> /\ Save(w, row)
      /\ worker' = [worker EXCEPT ![w] = Idle]
  BY DEF Interrupt, Stop
<1>2. row \in JobRow /\ row.token = NoToken
  BY <1>1, HeldTyped DEF JobRow, Active
<1>. HIDE DEF row
<1>. QED
  BY <1>1, <1>2, BlankTyped, DataTyped, OwnerStep DEF data, Save

LEMMA ProcessOnlyStep ==
    ASSUME IInv, NEW w \in Workers, PickJob(w) \/ Abandon(w) \/ Crash(w) PROVE IInv'
<1>1. CASE Abandon(w) \/ Crash(w)
  BY <1>1, BlankTyped, ProcessStep DEF Abandon, Crash, Stop, Idle
<1>2. CASE PickJob(w)
  <2>1. PICK j \in Jobs :
           worker' = [worker EXCEPT ![w] = [Idle EXCEPT !.pc = "claiming", !.job = j]]
    BY <1>2 DEF PickJob
  <2>. DEFINE me == [Idle EXCEPT !.pc = "claiming", !.job = j]
  <2>2. me \in WorkerState /\ me.pc = "claiming" /\ me.job \in Jobs
    BY BlankTyped DEF WorkerState
  <2>. QED
    BY <1>2, <2>1, <2>2, ProcessStep DEF PickJob
<1>. QED
  BY <1>1, <1>2

\* The token of a claim is nobody's, so it takes the row from any earlier run.
LEMMA ClaimStep ==
    ASSUME IInv, NEW w \in Workers, Claim(w) PROVE IInv'
<1>. DEFINE j == worker[w].job
<1>1. worker[w].pc = "claiming" /\ j \in Jobs /\ worker[w] \in WorkerState
  BY DEF Claim, IInv, TypeOK, Ownership
<1>2. CASE ~Claimable(j)
  BY <1>1, <1>2, BlankTyped, ProcessStep DEF Claim, Stop, Idle
<1>3. CASE Claimable(j)
  <2>1. PICK t \in Tokens \ TokensInUse :
           /\ job' = [job EXCEPT ![j] = [job[j] EXCEPT !.status = "running",
                                         !.token = t, !.lease = "held"]]
           /\ worker' = [worker EXCEPT ![w] = [worker[w] EXCEPT !.pc = "dispatch", !.token = t]]
           /\ UNCHANGED <<request, data>>
    BY <1>3 DEF Claim
  <2>. DEFINE row == [job[j] EXCEPT !.status = "running", !.token = t, !.lease = "held"]
              me == [worker[w] EXCEPT !.pc = "dispatch", !.token = t]
  <2>2. job[j] \in JobRow
    BY <1>1 DEF IInv, TypeOK
  <2>3. row \in JobRow /\ row.token = t
    BY <2>2 DEF JobRow, Active
  <2>4. me \in WorkerState /\ me.pc = "dispatch" /\ me.job = j /\ me.token = t
    BY <1>1 DEF WorkerState, Working
  <2>5. \A v \in Workers : worker[v].token # t
    BY DEF TokensInUse
  <2>. HIDE DEF row, me
  <2>6. job' = [job EXCEPT ![j] = row] /\ worker' = [worker EXCEPT ![w] = me]
    BY <2>1 DEF row, me
  <2>7. \A v \in Workers : worker'[v] = IF v = w THEN me ELSE worker[v]
    BY <2>6 DEF IInv, TypeOK
  <2>8. \A i \in Jobs : job'[i] = IF i = j THEN row ELSE job[i]
    BY <2>6 DEF IInv, TypeOK
  <2>9. TypeOK'
    BY <1>1, <2>1, <2>3, <2>4, <2>6 DEF IInv, TypeOK, data
  <2>10. Ownership'
    BY <1>1, <2>1, <2>4, <2>5, <2>7 DEF IInv, Ownership
  <2>11. ASSUME NEW v \in Workers, Owns(v)'
         PROVE  Matches(worker[v], job[worker[v].job])'
    <3>1. CASE v = w
      BY <2>4, <2>7, <3>1 DEF Matches
    <3>2. CASE v # w
      <4>1. worker'[v] = worker[v] /\ worker[v].job \in Jobs /\ worker[v].job # j
        BY <2>3, <2>5, <2>7, <2>8, <2>11, <3>2 DEF IInv, Ownership, Owns, Working
      <4>2. job'[worker[v].job] = job[worker[v].job]
        BY <2>8, <4>1
      <4>3. Owns(v)
        BY <2>11, <4>1, <4>2 DEF Owns
      <4>. QED
        BY <4>1, <4>2, <4>3 DEF IInv, StepMatchesCheckpoint, Matches
    <3>. QED
      BY <3>1, <3>2
  <2>. QED
    BY <2>9, <2>10, <2>11 DEF IInv, StepMatchesCheckpoint
<1>. QED
  BY <1>2, <1>3

LEMMA ClockStep ==
    ASSUME IInv, NEW j \in Jobs, Clock(j) \/ Cancel(j) PROVE IInv'
<1>1. job[j] \in JobRow /\ \A i \in Jobs : job[i] \in JobRow
  BY DEF IInv, TypeOK
<1>. DEFINE cancelled == [job[j] EXCEPT !.status = "cancelled", !.token = NoToken, !.lease = "none"]
            lapsed    == [job[j] EXCEPT !.lease = "lapsed"]
            elapsed   == [job[j] EXCEPT !.waiting = FALSE]
<1>2. \E row \in {cancelled, lapsed, elapsed} : job' = [job EXCEPT ![j] = row]
  BY DEF Clock, LapseLease, ElapseBackoff, Cancel
<1>3. \A row \in {cancelled, lapsed, elapsed} :
      /\ row \in JobRow
      /\ row.stage = job[j].stage /\ row.page = job[j].page
      /\ row.token # NoToken => row.status = job[j].status /\ row.token = job[j].token
  <2>1. job[j].token \in Tokens \cup {NoToken} /\ "cancelled" \in Settled
    BY <1>1 DEF JobRow, Settled
  <2>2. cancelled \in JobRow /\ cancelled.token = NoToken
        /\ cancelled.stage = job[j].stage /\ cancelled.page = job[j].page
    BY <1>1, <2>1 DEF JobRow
  <2>3. lapsed \in JobRow /\ lapsed.token = job[j].token /\ lapsed.status = job[j].status
        /\ lapsed.stage = job[j].stage /\ lapsed.page = job[j].page
    BY <1>1 DEF JobRow
  <2>4. elapsed \in JobRow /\ elapsed.token = job[j].token /\ elapsed.status = job[j].status
        /\ elapsed.stage = job[j].stage /\ elapsed.page = job[j].page
    BY <1>1 DEF JobRow
  <2>. HIDE DEF cancelled, lapsed, elapsed
  <2>. QED
    BY <2>2, <2>3, <2>4
<1>. HIDE DEF cancelled, lapsed, elapsed
<1>7. PICK row \in {cancelled, lapsed, elapsed} : job' = [job EXCEPT ![j] = row]
  BY <1>2
<1>4. UNCHANGED <<worker, request, data>>
  BY DEF Clock, LapseLease, ElapseBackoff, Cancel
<1>5. job' \in [Jobs -> JobRow] /\ \A i \in Jobs : job'[i] = IF i = j THEN row ELSE job[i]
  BY <1>3, <1>7 DEF IInv, TypeOK
<1>6. \A i \in Jobs : job'[i].status = "running" /\ job'[i].token # NoToken =>
         /\ job[i].status = "running" /\ job[i].token = job'[i].token
         /\ job[i].stage = job'[i].stage /\ job[i].page = job'[i].page
  BY <1>3, <1>5
<1>. QED
  BY <1>4, <1>5, <1>6, RowStep DEF data, IInv, TypeOK, Ownership

LEMMA EnvironmentStep ==
    ASSUME IInv, PostKill \/ ExpireListing PROVE IInv'
<1>1. UNCHANGED <<job, worker, request, store, discovery>> /\ cache' \subseteq cache
      /\ posted' \in 0..MaxKills
  BY ConstantsOK DEF PostKill, ExpireListing, IInv, TypeOK
<1>2. job' \in [Jobs -> JobRow] /\ request' \in [Requests -> RequestState]
      /\ \A r \in Requests : request'[r].op = "retry" => request'[r].job \in Jobs
  BY <1>1 DEF IInv, TypeOK, Ownership
<1>. QED
  BY <1>1, <1>2, RowStep

LEMMA BeginRequestStep ==
    ASSUME IInv, NEW r \in Requests,
           \/ \E s \in Subjects : BeginCollect(r, s)
           \/ \E j \in Jobs : BeginRetry(r, j)
    PROVE  IInv'
<1>1. NoRequest \in RequestState /\ \A j \in Jobs : job[j].retry \in Nat
  BY BlankTyped DEF IInv, TypeOK, JobRow
<1>2. PICK x \in RequestState : /\ request' = [request EXCEPT ![r] = x]
                                /\ x.op = "retry" => x.job \in Jobs
  <2>1. CASE \E s \in Subjects : BeginCollect(r, s)
    <3>1. PICK s \in Subjects : request' =
             [request EXCEPT ![r] = [NoRequest EXCEPT !.op = "collect", !.subject = s]]
      BY <2>1 DEF BeginCollect
    <3>. DEFINE x == [NoRequest EXCEPT !.op = "collect", !.subject = s]
    <3>2. x \in RequestState /\ x.op = "collect"
      BY <1>1 DEF RequestState
    <3>. HIDE DEF x
    <3>3. request' = [request EXCEPT ![r] = x]
      BY <3>1 DEF x
    <3>. QED
      BY <3>2, <3>3
  <2>2. CASE \E j \in Jobs : BeginRetry(r, j)
    <3>1. PICK j \in Jobs : request' = [request EXCEPT ![r] =
             [NoRequest EXCEPT !.op = "retry", !.job = j, !.retry = job[j].retry]]
      BY <2>2 DEF BeginRetry
    <3>. DEFINE x == [NoRequest EXCEPT !.op = "retry", !.job = j, !.retry = job[j].retry]
    <3>2. x \in RequestState /\ x.job = j
      BY <1>1 DEF RequestState
    <3>. HIDE DEF x
    <3>3. request' = [request EXCEPT ![r] = x]
      BY <3>1 DEF x
    <3>. QED
      BY <3>2, <3>3
  <2>. QED
    BY <2>1, <2>2
<1>3. UNCHANGED <<job, worker, data>>
  BY DEF BeginCollect, BeginRetry
<1>4. request' \in [Requests -> RequestState]
      /\ \A q \in Requests : request'[q].op = "retry" => request'[q].job \in Jobs
  BY <1>2 DEF IInv, TypeOK, Ownership
<1>. QED
  BY <1>3, <1>4, RowStep DEF data, IInv, TypeOK

LEMMA CommitCollectStep ==
    ASSUME IInv, NEW r \in Requests, CommitCollect(r) PROVE IInv'
<1>1. /\ request' = [request EXCEPT ![r] = NoRequest]
      /\ UNCHANGED <<worker, data>>
  BY DEF CommitCollect
<1>2. request' \in [Requests -> RequestState]
      /\ \A q \in Requests : request'[q].op = "retry" => request'[q].job \in Jobs
  BY <1>1, BlankTyped DEF IInv, TypeOK, Ownership, NoRequest
<1>3. CASE UNCHANGED job
  BY <1>1, <1>2, <1>3, RowStep DEF data, IInv, TypeOK
<1>4. CASE ~UNCHANGED job
  <2>1. PICK j \in Jobs, at \in Cutoffs : job' = [job EXCEPT ![j] =
           [Blank EXCEPT !.status = "queued", !.subject = request[r].subject,
                         !.from = at, !.to = posted]]
    BY <1>4 DEF CommitCollect
  <2>. DEFINE row == [Blank EXCEPT !.status = "queued", !.subject = request[r].subject,
                                   !.from = at, !.to = posted]
  <2>2. request[r].subject \in Subjects /\ at \in Nat /\ posted \in Nat
    BY ConstantsOK DEF IInv, TypeOK, RequestState
  <2>3. row \in JobRow /\ row.status = "queued"
    BY <2>2, BlankTyped DEF JobRow, Active
  <2>. HIDE DEF row
  <2>4. job' = [job EXCEPT ![j] = row]
    BY <2>1 DEF row
  <2>5. job' \in [Jobs -> JobRow] /\ \A i \in Jobs : job'[i] = IF i = j THEN row ELSE job[i]
    BY <2>3, <2>4 DEF IInv, TypeOK
  <2>. QED
    BY <1>1, <1>2, <2>3, <2>5, RowStep DEF data, IInv, TypeOK
<1>. QED
  BY <1>3, <1>4

LEMMA ResumedTyped ==
    ASSUME NEW row \in JobRow, NEW retry
    PROVE  /\ Resumed(row, retry) \in JobRow /\ Resumed(row, retry).status = "queued"
           /\ Resumed(row, retry).stage = row.stage /\ Resumed(row, retry).page = row.page
<1>. DEFINE n == IF retry = 0 THEN row.retry ELSE 0
            next == [row EXCEPT !.status = "queued", !.waiting = FALSE, !.retry = n]
<1>1. n \in Nat
  BY DEF JobRow
<1>2. Resumed(row, retry) = next
  BY DEF Resumed, JobRow
<1>. HIDE DEF n
<1>3. next \in JobRow /\ next.status = "queued"
      /\ next.stage = row.stage /\ next.page = row.page
  BY <1>1 DEF JobRow, Active
<1>. QED
  BY <1>2, <1>3

LEMMA CommitRetryStep ==
    ASSUME IInv, NEW r \in Requests, CommitRetry(r) PROVE IInv'
<1>1. /\ request' = [request EXCEPT ![r] = NoRequest]
      /\ UNCHANGED <<worker, data>>
      /\ request[r].job \in Jobs
  BY DEF CommitRetry, IInv, Ownership
<1>2. request' \in [Requests -> RequestState]
      /\ \A q \in Requests : request'[q].op = "retry" => request'[q].job \in Jobs
  BY <1>1, BlankTyped DEF IInv, TypeOK, Ownership, NoRequest
<1>3. CASE UNCHANGED job
  BY <1>1, <1>2, <1>3, RowStep DEF data, IInv, TypeOK
<1>4. CASE ~UNCHANGED job
  <2>. DEFINE j == request[r].job
  <2>. DEFINE row == Resumed(job[j], request[r].retry)
  <2>0. job[j] \in JobRow /\ job \in [Jobs -> JobRow]
    BY <1>1 DEF IInv, TypeOK
  <2>1. job' = [job EXCEPT ![j] = row]
    BY <1>4 DEF CommitRetry
  <2>2. job'[j] \in JobRow /\ job'[j].status = "queued"
    BY <1>1, <2>0, <2>1, ResumedTyped
  <2>3. job' \in [Jobs -> JobRow] /\ \A i \in Jobs : i # j => job'[i] = job[i]
    BY <1>1, <2>0, <2>1, <2>2
  <2>. QED
    BY <1>1, <1>2, <2>2, <2>3, RowStep DEF data, IInv, TypeOK
<1>. QED
  BY <1>3, <1>4

-----------------------------------------------------------------------------
(* The invariant and the theorems *)

LEMMA NextIInv ==
    ASSUME IInv, [Next]_vars PROVE IInv'
<1>1. ASSUME NEW w \in Workers, Work(w) PROVE IInv'
  BY <1>1, ProcessOnlyStep, ClaimStep, DispatchStep, ProfileStep, MembershipStep, OpenPageStep,
     FetchPageStep, CachePageStep, TakeEntryStep, CommitPageStep, ResolveMetadataStep, MetadataStep, FailStep
     DEF Work, RejectStage
<1>2. ASSUME NEW w \in Workers, Disturb(w) PROVE IInv'
  BY <1>2, FailStep, InterruptStep, ProcessOnlyStep DEF Disturb
<1>3. ASSUME NEW r \in Requests, Api(r) PROVE IInv'
  BY <1>3, BeginRequestStep, CommitCollectStep, CommitRetryStep DEF Api
<1>4. ASSUME NEW j \in Jobs, Clock(j) \/ Cancel(j) PROVE IInv'
  BY <1>4, ClockStep
<1>5. CASE PostKill \/ ExpireListing
  BY <1>5, EnvironmentStep
<1>6. CASE UNCHANGED vars
  BY <1>6 DEF vars, IInv, TypeOK, Ownership, StepMatchesCheckpoint, Matches, Owns
<1>. QED
  BY <1>1, <1>2, <1>3, <1>4, <1>5, <1>6 DEF Next

THEOREM IInvAlways == Spec => []IInv
BY InitIInv, NextIInv, PTL DEF Spec

\* Every row, process, request and cache entry keeps the shape the code gives it,
\* for any number of them.  It rests on the fencing: without it a late run could
\* carry a row's page past the depth the job was created with.
THEOREM TypeCorrect == Spec => []TypeOK
<1>1. IInv => TypeOK
  BY DEF IInv
<1>. QED
  BY <1>1, IInvAlways, PTL

\* A run that passes owned_job works on the checkpoint its row holds, whatever
\* crashes, lapsed leases, cancellations and resumptions went before.
THEOREM CheckpointFenced == Spec => []StepMatchesCheckpoint
<1>1. IInv => StepMatchesCheckpoint
  BY DEF IInv
<1>. QED
  BY <1>1, IInvAlways, PTL

-----------------------------------------------------------------------------
(* The cursor only moves forward. *)

\* A job not created yet has moved nowhere, and only feeds have pages.
Fresh == \A j \in Jobs :
    /\ job[j].status = "absent" => job[j].stage = "profile"
    /\ job[j].stage \notin Feeds => job[j].page = 1

\* What one step may make of a row: the cursor moves only while the job is active,
\* and reaches the last stage exactly when it settles the job.
Moved(row, next) ==
    /\ NotBehind(row, next)
    /\ next.status = "absent" => row.status = "absent"
    /\ row.status = "absent" => next.status \in {"absent", "queued"}
    /\ \/ row.stage = next.stage /\ row.page = next.page
       \/ row.status \in Active /\ (next.status \in Settled <=> next.stage = "finished")

Forward == Fresh' /\ \A j \in Jobs : Moved(job[j], job'[j])

LEMMA SameCursor ==
    ASSUME NEW row \in JobRow, NEW next \in JobRow, row.stage = next.stage, row.page = next.page
    PROVE  NotBehind(row, next)
<1>1. row.page \in Nat
  BY ConstantsOK DEF JobRow
<1>. QED
  BY <1>1 DEF NotBehind

LEMMA RowForward ==
    ASSUME IInv, Fresh, NEW j \in Jobs, NEW row \in JobRow,
           job' = [job EXCEPT ![j] = row],
           row.status = "absent" => row.stage = "profile",
           row.stage \notin Feeds => row.page = 1,
           Moved(job[j], row)
    PROVE  Forward
<1>1. \A i \in Jobs : job[i] \in JobRow /\ job'[i] = IF i = j THEN row ELSE job[i]
  BY DEF IInv, TypeOK
<1>2. \A i \in Jobs : Moved(job[i], job[i])
  BY <1>1, SameCursor DEF Moved
<1>. QED
  BY <1>1, <1>2 DEF Forward, Fresh

\* A row that keeps its cursor.
LEMMA RowStays ==
    ASSUME IInv, Fresh, NEW j \in Jobs, NEW row \in JobRow,
           job' = [job EXCEPT ![j] = row],
           row.stage = job[j].stage, row.page = job[j].page,
           \/ row.status = job[j].status
           \/ row.status = "queued"
           \/ row.status # "absent" /\ job[j].status # "absent"
    PROVE  Forward
<1>1. job[j] \in JobRow
  BY DEF IInv, TypeOK
<1>2. Moved(job[j], row)
  BY <1>1, SameCursor DEF Moved
<1>. QED
  BY <1>2, RowForward DEF Fresh

LEMMA StillForward == ASSUME IInv, Fresh, UNCHANGED job PROVE Forward
<1>1. \A i \in Jobs : Moved(job[i], job[i])
  BY SameCursor DEF IInv, TypeOK, Moved
<1>. QED
  BY <1>1 DEF Forward, Fresh

LEMMA HeldCursor ==
    ASSUME IInv, NEW w \in Workers, Owns(w)
    PROVE  /\ job[worker[w].job] \in JobRow /\ worker[w].job \in Jobs
           /\ Held(w).status = "running" /\ Held(w).page \in Nat
           /\ Held(w).stage = job[worker[w].job].stage
           /\ Held(w).page = job[worker[w].job].page
<1>1. job[worker[w].job] \in JobRow /\ worker[w].job \in Jobs
  BY HeldTyped DEF IInv, TypeOK
<1>2. job[worker[w].job].page \in Nat
  BY <1>1, ConstantsOK DEF JobRow
<1>. QED
  BY <1>1, <1>2 DEF Held, Owns, JobRow

\* A run that owns its row writes a row that is not behind the one it holds, and
\* settles it with the last stage.
LEMMA SaveForward ==
    ASSUME IInv, Fresh, NEW w \in Workers, Owns(w), NEW row \in JobRow, Save(w, row),
           row.status # "absent", NotBehind(Held(w), row),
           row.stage \notin Feeds => row.page = 1,
           row.status \in Settled <=> row.stage = "finished"
    PROVE  Forward
<1>1. NotBehind(job[worker[w].job], row)
  BY HeldCursor DEF NotBehind
<1>2. job[worker[w].job].status = "running"
  BY DEF Owns
<1>3. Moved(job[worker[w].job], row)
  BY <1>1, <1>2 DEF Moved, Active
<1>. QED
  BY <1>3, HeldCursor, RowForward DEF Save

LEMMA StageForward ==
    ASSUME IInv, Fresh, NEW w \in Workers,
           FinishProfile(w) \/ FinishMembership(w) \/ FinishMetadata(w)
    PROVE  Forward
<1>0. Owns(w)
  BY DEF FinishProfile, FinishMembership, FinishMetadata
<1>1. Owns(w) /\ Held(w) \in JobRow /\ 1 \in 1..MaxPages /\ Matches(worker[w], Held(w))
      /\ Held(w).status = "running"
  BY <1>0, HeldTyped, HeldCursor, ConstantsOK
<1>2. CASE FinishProfile(w)
  <2>. DEFINE stage == IF Held(w).subject \in Alliances THEN "membership" ELSE "kills"
              row == [Held(w) EXCEPT !.stage = stage, !.page = 1, !.retry = 0]
  <2>1. Held(w).stage = "profile" /\ Save(w, row)
    BY <1>1, <1>2 DEF FinishProfile, Matches
  <2>2. stage \in {"membership", "kills"}
    OBVIOUS
  <2>. HIDE DEF stage
  <2>3. row \in JobRow /\ row.stage = stage /\ row.status = "running" /\ row.page = 1
    BY <1>1, <2>2 DEF JobRow, Stages
  <2>4. NotBehind(Held(w), row)
    BY <2>1, <2>2, <2>3 DEF NotBehind, StageRank
  <2>. HIDE DEF row
  <2>. QED
    BY <1>1, <2>1, <2>2, <2>3, <2>4, SaveForward DEF Settled
<1>3. CASE FinishMembership(w)
  <2>1. PICK outcome \in Census : Save(w,
           [Held(w) EXCEPT !.census = outcome, !.stage = "kills", !.page = 1, !.retry = 0])
    BY <1>3 DEF FinishMembership
  <2>. DEFINE row == [Held(w) EXCEPT !.census = outcome, !.stage = "kills", !.page = 1,
                                     !.retry = 0]
  <2>2. Held(w).stage = "membership"
    BY <1>1, <1>3 DEF FinishMembership, Matches
  <2>3. row \in JobRow /\ row.stage = "kills" /\ row.status = "running" /\ row.page = 1
    BY <1>1 DEF JobRow, Stages
  <2>4. NotBehind(Held(w), row)
    BY <2>2, <2>3 DEF NotBehind, StageRank
  <2>. HIDE DEF row
  <2>. QED
    BY <1>1, <2>1, <2>3, <2>4, SaveForward DEF row, Settled
<1>4. CASE FinishMetadata(w)
  <2>1. PICK status \in {"partial", "completed"} : Save(w,
           [Held(w) EXCEPT !.status = status, !.stage = "finished", !.token = NoToken,
                           !.lease = "none"])
    BY <1>4 DEF FinishMetadata
  <2>. DEFINE row == [Held(w) EXCEPT !.status = status, !.stage = "finished",
                                     !.token = NoToken, !.lease = "none"]
  <2>2. Held(w).stage = "metadata"
    BY <1>1, <1>4 DEF FinishMetadata, Matches
  <2>3. row \in JobRow /\ row.stage = "finished" /\ row.status = status
        /\ row.page = Held(w).page
    BY <1>1 DEF JobRow, Stages, Settled
  <2>4. NotBehind(Held(w), row)
    BY <2>2, <2>3 DEF NotBehind, StageRank
  <2>5. Held(w).page = 1
    BY <1>1, <2>2, HeldCursor DEF Fresh, Feeds
  <2>. HIDE DEF row
  <2>. QED
    BY <1>1, <2>1, <2>3, <2>4, <2>5, SaveForward DEF row, Settled
<1>. QED
  BY <1>2, <1>3, <1>4

LEMMA PageForward ==
    ASSUME IInv, Fresh, NEW w \in Workers, CommitPage(w) PROVE Forward
<1>. DEFINE me == worker[w]
            end == IF me.empty THEN "feed_exhausted"
                   ELSE IF me.past THEN "reached_date" ELSE "page_cap"
            done == me.empty \/ me.past \/ me.page >= MaxPages
            stage == IF me.feed = "kills" THEN "losses" ELSE "metadata"
            feed(x) == [Held(w).feed EXCEPT ![me.feed] = x]
            next == [Held(w) EXCEPT !.feed = feed(end), !.page = 1, !.retry = 0,
                                    !.stage = stage]
            more == [Held(w) EXCEPT !.feed = feed("collecting"), !.page = Held(w).page + 1,
                                    !.retry = 0]
<1>0. Owns(w)
  BY DEF CommitPage
<1>1. Owns(w) /\ Held(w) \in JobRow /\ 1 \in 1..MaxPages /\ me.feed \in Feeds
      /\ me.page \in 1..MaxPages /\ Held(w).stage = me.feed /\ Held(w).page = me.page
      /\ Held(w).status = "running"
  BY <1>0, HeldTyped, HeldCursor, ConstantsOK DEF CommitPage, WorkerState, Matches
<1>2. end \in FeedEnd /\ stage \in {"losses", "metadata"}
      /\ (stage = "losses" <=> me.feed = "kills")
  BY DEF FeedEnd
<1>3. (done /\ Save(w, next)) \/ (~done /\ Save(w, more))
  BY <1>1 DEF CommitPage, FeedDone, Ending, JobRow
<1>6. feed(end) \in [Feeds -> FeedEnd \cup {"none", "collecting"}]
      /\ feed("collecting") \in [Feeds -> FeedEnd \cup {"none", "collecting"}]
  BY <1>1, <1>2 DEF JobRow
<1>. HIDE DEF end, stage, feed
<1>4. CASE Save(w, next)
  <2>1. next \in JobRow /\ next.stage = stage /\ next.status = "running" /\ next.page = 1
    BY <1>1, <1>2, <1>6 DEF JobRow, Stages
  <2>2. NotBehind(Held(w), next)
    BY <1>1, <1>2, <2>1 DEF NotBehind, StageRank, Feeds
  <2>. HIDE DEF next
  <2>. QED
    BY <1>1, <1>2, <1>4, <2>1, <2>2, SaveForward DEF Settled
<1>5. CASE ~done /\ Save(w, more)
  <2>1. Held(w).page + 1 \in 1..MaxPages
    BY <1>1, <1>5, ConstantsOK
  <2>2. more \in JobRow /\ more.stage = Held(w).stage /\ more.page = Held(w).page + 1
        /\ more.status = "running"
    BY <1>1, <1>6, <2>1 DEF JobRow
  <2>3. NotBehind(Held(w), more)
    BY <1>1, <2>2 DEF NotBehind
  <2>. HIDE DEF more
  <2>. QED
    BY <1>1, <1>5, <2>2, <2>3, SaveForward DEF Settled, Feeds
<1>. QED
  BY <1>3, <1>4, <1>5

\* The remaining steps of a run leave the cursor where it is.
LEMMA SameCursorForward ==
    ASSUME IInv, Fresh, NEW w \in Workers,
           \/ PickJob(w) \/ Claim(w) \/ Abandon(w) \/ Dispatch(w) \/ OpenPage(w) \/ ResolveMetadata(w)
           \/ FetchPage(w) \/ CachePage(w) \/ TakeEntry(w) \/ Fail(w) \/ Interrupt(w) \/ Crash(w)
    PROVE  Forward
<1>1. CASE PickJob(w) \/ Abandon(w) \/ FetchPage(w) \/ Crash(w)
  BY <1>1, StillForward DEF PickJob, Abandon, FetchPage, Crash
<1>2. CASE Claim(w)
  <2>. DEFINE j == worker[w].job
  <2>1. j \in Jobs /\ job[j] \in JobRow
    BY <1>2 DEF Claim, IInv, TypeOK, Ownership
  <2>2. CASE UNCHANGED job
    BY <2>2, StillForward
  <2>3. CASE ~UNCHANGED job
    <3>1. PICK t \in Tokens : job' = [job EXCEPT ![j] =
             [job[j] EXCEPT !.status = "running", !.token = t, !.lease = "held"]]
      BY <1>2, <2>3 DEF Claim
    <3>. DEFINE row == [job[j] EXCEPT !.status = "running", !.token = t, !.lease = "held"]
    <3>2. row \in JobRow /\ row.status = "running"
          /\ row.stage = job[j].stage /\ row.page = job[j].page
      BY <2>1 DEF JobRow, Active
    <3>3. job[j].status # "absent"
      BY <1>2, <2>1, <2>3 DEF Claim, Claimable, IsActive, Active
    <3>. HIDE DEF row
    <3>4. job' = [job EXCEPT ![j] = row]
      BY <3>1 DEF row
    <3>. QED
      BY <2>1, <3>2, <3>3, <3>4, RowStays
  <2>. QED
    BY <2>2, <2>3
<1>3. CASE \/ Dispatch(w) \/ OpenPage(w) \/ CachePage(w) \/ TakeEntry(w)
           \/ ResolveMetadata(w) \/ Fail(w) \/ Interrupt(w)
  <2>1. Owns(w)
    BY <1>3 DEF Dispatch, OpenPage, CachePage, TakeEntry, ResolveMetadata, Fail, Interrupt
  <2>2. Held(w) \in JobRow /\ Held(w).status = "running"
    BY <2>1, HeldTyped, HeldCursor
  <2>3. PICK row \in JobRow : /\ Save(w, row) /\ row.status # "absent"
                              /\ row.stage = Held(w).stage /\ row.page = Held(w).page
    <3>1. CASE Dispatch(w) \/ OpenPage(w) \/ CachePage(w) \/ ResolveMetadata(w)
      BY <2>2, <3>1 DEF Dispatch, OpenPage, CachePage, ResolveMetadata
    <3>2. CASE TakeEntry(w)
      <4>1. PICK k \in worker[w].entries : Save(w, Held(w)) \/ Import(w, k)
        BY <3>2 DEF TakeEntry
      <4>2. CASE Save(w, Held(w))
        BY <2>2, <4>2
      <4>3. CASE Import(w, k)
        <5>. DEFINE mark == <<Held(w).subject, worker[w].feed, k>>
                    i == IF k \in store THEN Held(w).imported ELSE Held(w).imported + 1
                    u == IF k \in store /\ mark \notin discovery
                         THEN Held(w).reused + 1 ELSE Held(w).reused
        <5>1. i \in Nat /\ u \in Nat
          BY <2>2 DEF JobRow
        <5>2. Save(w, [Held(w) EXCEPT !.imported = i, !.reused = u])
          BY <2>2, <4>3 DEF Import, JobRow
        <5>. HIDE DEF i, u
        <5>. DEFINE row == [Held(w) EXCEPT !.imported = i, !.reused = u]
        <5>3. row \in JobRow /\ row.status = "running"
              /\ row.stage = Held(w).stage /\ row.page = Held(w).page
          BY <2>2, <5>1 DEF JobRow
        <5>. QED
          BY <5>2, <5>3
      <4>. QED
        BY <4>1, <4>2, <4>3
    <3>3. CASE Fail(w)
      BY <2>2, <3>3, FailedTyped DEF Fail
    <3>4. CASE Interrupt(w)
      <4>. DEFINE row == [Held(w) EXCEPT !.status = "queued", !.token = NoToken, !.lease = "none"]
      <4>1. row \in JobRow /\ row.status = "queued"
            /\ row.stage = Held(w).stage /\ row.page = Held(w).page
        BY <2>2 DEF JobRow, Active
      <4>. QED
        BY <3>4, <4>1 DEF Interrupt
    <3>. QED
      BY <1>3, <3>1, <3>2, <3>3, <3>4
  <2>4. job[worker[w].job].status = "running"
    BY <2>1 DEF Owns
  <2>. QED
    BY <2>1, <2>3, <2>4, HeldCursor, RowStays DEF Save
<1>. QED
  BY <1>1, <1>2, <1>3

LEMMA OutsideForward ==
    ASSUME IInv, Fresh, NEW j \in Jobs, Clock(j) \/ Cancel(j) PROVE Forward
<1>. DEFINE cancelled == [job[j] EXCEPT !.status = "cancelled", !.token = NoToken, !.lease = "none"]
            lapsed    == [job[j] EXCEPT !.lease = "lapsed"]
            elapsed   == [job[j] EXCEPT !.waiting = FALSE]
<1>1. job[j] \in JobRow
  BY DEF IInv, TypeOK
<1>2. /\ cancelled \in JobRow /\ cancelled.status # "absent"
      /\ cancelled.stage = job[j].stage /\ cancelled.page = job[j].page
  BY <1>1 DEF JobRow, Settled
<1>3. /\ lapsed \in JobRow /\ lapsed.status = job[j].status
      /\ lapsed.stage = job[j].stage /\ lapsed.page = job[j].page
  BY <1>1 DEF JobRow
<1>4. /\ elapsed \in JobRow /\ elapsed.status = job[j].status
      /\ elapsed.stage = job[j].stage /\ elapsed.page = job[j].page
  BY <1>1 DEF JobRow
<1>5. \/ job' = [job EXCEPT ![j] = cancelled] /\ job[j].status # "absent"
      \/ job' = [job EXCEPT ![j] = lapsed]
      \/ job' = [job EXCEPT ![j] = elapsed]
  BY DEF Clock, LapseLease, ElapseBackoff, Cancel, IsActive, Active
<1>. HIDE DEF cancelled, lapsed, elapsed
<1>. QED
  BY <1>1, <1>2, <1>3, <1>4, <1>5, RowStays

LEMMA ApiForward ==
    ASSUME IInv, Fresh, NEW r \in Requests, Api(r) PROVE Forward
<1>1. CASE UNCHANGED job
  BY <1>1, StillForward
<1>2. CASE CommitCollect(r) /\ ~UNCHANGED job
  <2>1. PICK j \in Jobs, at \in Cutoffs :
           /\ job[j].status = "absent"
           /\ job' = [job EXCEPT ![j] = [Blank EXCEPT !.status = "queued",
                         !.subject = request[r].subject, !.from = at, !.to = posted]]
    BY <1>2 DEF CommitCollect
  <2>. DEFINE row == [Blank EXCEPT !.status = "queued", !.subject = request[r].subject,
                                   !.from = at, !.to = posted]
  <2>2. request[r].subject \in Subjects /\ at \in Nat /\ posted \in Nat
    BY ConstantsOK DEF IInv, TypeOK, RequestState
  <2>3. row \in JobRow /\ row.status = "queued" /\ row.stage = Blank.stage /\ row.page = Blank.page
    BY <2>2, BlankTyped DEF JobRow, Active
  <2>4. Blank.stage = "profile" /\ Blank.page = 1
    BY DEF Blank
  <2>5. job[j].stage = "profile" /\ job[j].page = 1 /\ job[j] \in JobRow
    BY <2>1 DEF Fresh, Feeds, IInv, TypeOK
  <2>. HIDE DEF row
  <2>6. job' = [job EXCEPT ![j] = row]
    BY <2>1 DEF row
  <2>. QED
    BY <2>3, <2>4, <2>5, <2>6, RowStays
<1>3. CASE CommitRetry(r) /\ ~UNCHANGED job
  <2>. DEFINE j == request[r].job
              row == Resumed(job[j], request[r].retry)
  <2>1. j \in Jobs /\ job[j] \in JobRow
    BY <1>3 DEF CommitRetry, IInv, TypeOK, Ownership
  <2>2. job' = [job EXCEPT ![j] = row]
    BY <1>3 DEF CommitRetry
  <2>3. row \in JobRow /\ row.status = "queued"
        /\ row.stage = job[j].stage /\ row.page = job[j].page
    BY <2>1, ResumedTyped
  <2>. HIDE DEF row
  <2>. QED
    BY <2>1, <2>2, <2>3, RowStays
<1>. QED
  BY <1>1, <1>2, <1>3 DEF Api, BeginCollect, BeginRetry

LEMMA NextForward ==
    ASSUME IInv, Fresh, [Next]_vars PROVE Forward
<1>1. ASSUME NEW w \in Workers, Work(w) \/ Disturb(w) PROVE Forward
  BY <1>1, StageForward, PageForward, SameCursorForward DEF Work, Disturb, RejectStage
<1>2. ASSUME NEW r \in Requests, Api(r) PROVE Forward
  BY <1>2, ApiForward
<1>3. ASSUME NEW j \in Jobs, Clock(j) \/ Cancel(j) PROVE Forward
  BY <1>3, OutsideForward
<1>4. CASE PostKill \/ ExpireListing \/ UNCHANGED vars
  BY <1>4, StillForward DEF PostKill, ExpireListing, vars
<1>. QED
  BY <1>1, <1>2, <1>3, <1>4 DEF Next

\* No step of any run, however late, of the API or of the clock moves a job back to
\* an earlier stage or page.
THEOREM CursorMonotone == Spec => CursorNeverRegresses
<1>1. Init => Fresh
  BY DEF Init, Fresh, Blank
<1>2. IInv /\ Fresh /\ [Next]_vars => Fresh'
  BY NextForward DEF Forward
<1>3. IInv /\ Fresh /\ [Next]_vars => [\A j \in Jobs : NotBehind(job[j], job'[j])]_vars
  BY NextForward DEF Forward, Moved
<1>. QED
  BY <1>1, <1>2, <1>3, IInvAlways, PTL DEF Spec, CursorNeverRegresses

-----------------------------------------------------------------------------
(* The collector implements DurableJob. *)

\* Ranks order the checkpoints: by stage, then by page.
LEMMA RankOrder ==
    ASSUME NEW row \in JobRow, NEW next \in JobRow
    PROVE  /\ Rank(row) \in Nat
           /\ NotBehind(row, next) => Rank(row) <= Rank(next)
           /\ Rank(row) = Rank(next) <=> row.stage = next.stage /\ row.page = next.page
<1>. DEFINE n == MaxPages + 1
<1>1. n \in Nat /\ row.page \in 1..MaxPages /\ next.page \in 1..MaxPages
      /\ row.page < n /\ next.page < n
  BY ConstantsOK DEF JobRow
<1>2. /\ StageRank("profile") = 0 /\ StageRank("membership") = 1 /\ StageRank("kills") = 2
      /\ StageRank("losses") = 3 /\ StageRank("metadata") = 4 /\ StageRank("finished") = 5
  BY DEF StageRank
<1>3. row.stage \in Stages /\ next.stage \in Stages
  BY DEF JobRow
<1>4. \A r \in {row, next} : \/ r.stage = "profile" /\ Rank(r) = r.page - 1
                             \/ r.stage = "membership" /\ Rank(r) = n + r.page - 1
                             \/ r.stage = "kills" /\ Rank(r) = 2 * n + r.page - 1
                             \/ r.stage = "losses" /\ Rank(r) = 3 * n + r.page - 1
                             \/ r.stage = "metadata" /\ Rank(r) = 4 * n + r.page - 1
                             \/ r.stage = "finished" /\ Rank(r) = 5 * n + r.page - 1
  BY <1>1, <1>2, <1>3 DEF Rank, Stages
<1>. HIDE DEF n
<1>5. Rank(row) \in Nat
  BY <1>1, <1>4
<1>6. NotBehind(row, next) => Rank(row) <= Rank(next)
  BY <1>1, <1>2, <1>4 DEF NotBehind
<1>7. Rank(row) = Rank(next) <=> row.stage = next.stage /\ row.page = next.page
  BY <1>1, <1>4
<1>. QED
  BY <1>5, <1>6, <1>7

Top == StageRank("finished") * (MaxPages + 1)

\* The last checkpoint has the highest rank, and only it has.
LEMMA RankTop ==
    ASSUME NEW row \in JobRow, row.stage \notin Feeds => row.page = 1
    PROVE  /\ Top \in Nat
           /\ IF row.stage = "finished" THEN Rank(row) = Top ELSE Rank(row) < Top
<1>1. MaxPages \in Nat /\ row.page \in 1..MaxPages
  BY ConstantsOK DEF JobRow
<1>2. /\ StageRank("profile") = 0 /\ StageRank("membership") = 1 /\ StageRank("kills") = 2
      /\ StageRank("losses") = 3 /\ StageRank("metadata") = 4 /\ StageRank("finished") = 5
  BY DEF StageRank
<1>3. row.stage \in Stages
  BY DEF JobRow
<1>. QED
  BY <1>1, <1>2, <1>3 DEF Rank, Top, Stages, Feeds

\* A step writes one row.
LEMMA OneRow ==
    ASSUME IInv, [Next]_vars
    PROVE  UNCHANGED job \/ \E j \in Jobs : \A i \in Jobs \ {j} : job'[i] = job[i]
<1>. DEFINE One == \E j \in Jobs : \A i \in Jobs \ {j} : job'[i] = job[i]
<1>1. ASSUME NEW j \in Jobs, NEW row, job' = [job EXCEPT ![j] = row] PROVE One
  BY <1>1 DEF IInv, TypeOK
<1>. HIDE DEF One
<1>2. ASSUME NEW w \in Workers, NEW row, worker[w].job \in Jobs, Save(w, row) PROVE One
  BY <1>1, <1>2 DEF Save
<1>3. ASSUME NEW w \in Workers, Owns(w) PROVE worker[w].job \in Jobs
  BY <1>3, HeldCursor
<1>4. ASSUME NEW w \in Workers, Work(w) \/ Disturb(w) PROVE UNCHANGED job \/ One
  <2>1. CASE Claim(w)
    <3>1. worker[w].job \in Jobs
      BY <2>1 DEF Claim, IInv, Ownership
    <3>. QED
      BY <2>1, <3>1, <1>1 DEF Claim
  <2>2. CASE TakeEntry(w)
    BY <2>2, <1>2, <1>3 DEF TakeEntry, Import
  <2>3. CASE CommitPage(w)
    BY <2>3, <1>2, <1>3 DEF CommitPage
  <2>4. CASE FinishProfile(w) \/ FinishMembership(w) \/ FinishMetadata(w)
    BY <2>4, <1>2, <1>3 DEF FinishProfile, FinishMembership, FinishMetadata
  <2>5. CASE Dispatch(w) \/ OpenPage(w) \/ CachePage(w) \/ ResolveMetadata(w)
    BY <2>5, <1>2, <1>3 DEF Dispatch, OpenPage, CachePage, ResolveMetadata
  <2>6. CASE Fail(w) \/ Interrupt(w)
    BY <2>6, <1>2, <1>3 DEF Fail, Interrupt
  <2>7. CASE PickJob(w) \/ Abandon(w) \/ FetchPage(w) \/ Crash(w)
    BY <2>7 DEF PickJob, Abandon, FetchPage, Crash
  <2>. QED
    BY <1>4, <2>1, <2>2, <2>3, <2>4, <2>5, <2>6, <2>7 DEF Work, Disturb, RejectStage
<1>5. ASSUME NEW r \in Requests, Api(r) PROVE UNCHANGED job \/ One
  <2>1. CASE CommitCollect(r)
    BY <2>1, <1>1 DEF CommitCollect
  <2>2. CASE CommitRetry(r)
    <3>1. request[r].job \in Jobs
      BY <2>2 DEF CommitRetry, IInv, Ownership
    <3>. QED
      BY <2>2, <3>1, <1>1 DEF CommitRetry
  <2>3. CASE \E x : BeginCollect(r, x) \/ BeginRetry(r, x)
    BY <2>3 DEF BeginCollect, BeginRetry
  <2>. QED
    BY <1>5, <2>1, <2>2, <2>3 DEF Api
<1>6. ASSUME NEW j \in Jobs, Clock(j) \/ Cancel(j) PROVE One
  BY <1>1, <1>6 DEF Clock, LapseLease, ElapseBackoff, Cancel
<1>7. CASE PostKill \/ ExpireListing \/ UNCHANGED vars
  BY <1>7 DEF PostKill, ExpireListing, vars
<1>. DEFINE Goal == UNCHANGED job \/ One
<1>8. \A w \in Workers : Work(w) \/ Disturb(w) => Goal
  BY <1>4
<1>9. \A r \in Requests : Api(r) => Goal
  BY <1>5
<1>10. \A j \in Jobs : Clock(j) \/ Cancel(j) => Goal
  BY <1>6
<1>11. PostKill \/ ExpireListing \/ UNCHANGED vars => Goal
  BY <1>7 DEF One
<1>. HIDE DEF Goal
<1>12. Goal
  BY <1>8, <1>9, <1>10, <1>11 DEF Next
<1>. QED
  BY <1>12 DEF One, Goal

phases == [j \in Jobs |-> Phase(job[j])]
ranks  == [j \in Jobs |-> Rank(job[j])]

LEMMA DurableStep ==
    ASSUME IInv, Fresh, [Next]_vars
    PROVE  Durable!Next \/ UNCHANGED Durable!vars
<1>1. Forward
  BY NextForward
<1>2. \A j \in Jobs : job[j] \in JobRow /\ job'[j] \in JobRow
  BY NextIInv DEF IInv, TypeOK
<1>3. CASE UNCHANGED job
  BY <1>3 DEF Durable!vars
<1>4. ASSUME NEW j \in Jobs, \A i \in Jobs \ {j} : job'[i] = job[i]
      PROVE  Durable!Next \/ UNCHANGED Durable!vars
  <2>. DEFINE p == phases  r == ranks
  <2>1. Moved(job[j], job'[j]) /\ job[j] \in JobRow /\ job'[j] \in JobRow
        /\ (job[j].stage \notin Feeds => job[j].page = 1)
        /\ (job'[j].stage \notin Feeds => job'[j].page = 1)
    BY <1>1, <1>2 DEF Forward, Fresh
  <2>2. /\ p' = [p EXCEPT ![j] = Phase(job'[j])]
        /\ r' = [r EXCEPT ![j] = Rank(job'[j])]
        /\ p[j] = Phase(job[j]) /\ r[j] = Rank(job[j])
        /\ p'[j] = Phase(job'[j]) /\ r'[j] = Rank(job'[j])
    BY <1>4 DEF phases, ranks
  <2>3. \/ Rank(job'[j]) = Rank(job[j])
        \/ /\ job[j].status \in Active /\ Rank(job[j]) < Rank(job'[j])
           /\ job'[j].status \in Settled <=> job'[j].stage = "finished"
    BY <2>1, RankOrder DEF Moved
  <2>4. /\ job[j].status \in Active \cup Settled \cup {"absent"}
        /\ job'[j].status \in Active \cup Settled \cup {"absent"}
        /\ job'[j].status = "absent" => job[j].status = "absent"
        /\ job[j].status = "absent" => job'[j].status \in {"absent", "queued"}
    BY <2>1 DEF Moved, JobRow
  <2>5. Rank(job[j]) \in Nat /\ Rank(job'[j]) \in Nat
        /\ Top \in Nat /\ Rank(job[j]) <= Top /\ Rank(job'[j]) <= Top
        /\ (job'[j].stage = "finished" <=> Rank(job'[j]) = Top)
    BY <2>1, RankOrder, RankTop
  <2>6. CASE Rank(job'[j]) = Rank(job[j])
    <3>1. r' = r
      BY <2>2, <2>6 DEF ranks
    <3>2. \/ p' = p
          \/ p[j] = "absent" /\ p' = [p EXCEPT ![j] = "open"]
          \/ p[j] = "open" /\ p' = [p EXCEPT ![j] = "closed"]
          \/ p[j] = "closed" /\ p' = [p EXCEPT ![j] = "open"]
      BY <2>2, <2>4 DEF phases, Phase, Active, Settled
    <3>. QED
      BY <3>1, <3>2 DEF phases, ranks, Durable!vars, Durable!Next, Durable!Submit,
         Durable!Close, Durable!Reopen
  <2>7. CASE /\ job[j].status \in Active /\ Rank(job[j]) < Rank(job'[j])
             /\ job'[j].status \in Settled <=> job'[j].stage = "finished"
    <3>1. p[j] = "open" /\ r[j] < r'[j]
      BY <2>2, <2>7 DEF Phase, Active
    <3>2. CASE job'[j].status \in Settled
      <4>1. p' = [p EXCEPT ![j] = "closed"] /\ r[j] < Top /\ r' = [r EXCEPT ![j] = Top]
        BY <2>2, <2>5, <2>7, <3>1, <3>2 DEF Phase, Active, Settled
      <4>. QED
        BY <3>1, <4>1 DEF phases, ranks, Top, Durable!Next, Durable!Complete
    <3>3. CASE job'[j].status \notin Settled
      <4>1. job'[j].status # "absent" /\ job[j].status # "absent"
        BY <2>4, <2>7 DEF Active
      <4>2. Phase(job'[j]) = "open" /\ p[j] = "open"
        BY <2>4, <3>1, <3>3, <4>1 DEF Phase
      <4>3. p' = p
        BY <2>2, <4>2 DEF phases
      <4>4. r' = [r EXCEPT ![j] = r'[j]]
        BY <2>2
      <4>5. r'[j] < Top
        BY <2>2, <2>5, <2>7, <3>3
      <4>. QED
        BY <3>1, <4>3, <4>4, <4>5 DEF phases, ranks, Top, Durable!Next, Durable!Advance
    <3>. QED
      BY <3>2, <3>3
  <2>. QED
    BY <2>3, <2>6, <2>7
<1>. QED
  BY <1>3, <1>4, OneRow

\* However runs crash, overlap, fail and resume, a job only ever does what DurableJob
\* allows: the collector implements it, for any number of jobs, processes and pages.
THEOREM CollectsDurably == Spec => ImplementsDurableJob
<1>1. Init => Durable!Init
  <2>. SUFFICES ASSUME Init PROVE Durable!Init
    OBVIOUS
  <2>1. Phase(Blank) = "absent"
    BY DEF Phase, Blank
  <2>2. StageRank("profile") = 0 /\ Blank.stage = "profile" /\ Blank.page = 1
    BY DEF StageRank, Blank
  <2>3. Rank(Blank) = 0
    BY <2>2, ConstantsOK DEF Rank
  <2>4. \A j \in Jobs : job[j] = Blank
    BY DEF Init
  <2>. QED
    BY <2>1, <2>3, <2>4 DEF Durable!Init
<1>2. Init => Fresh
  BY DEF Init, Fresh, Blank
<1>3. IInv /\ Fresh /\ [Next]_vars => Fresh'
  BY NextForward DEF Forward
<1>4. IInv /\ Fresh /\ [Next]_vars => [Durable!Next]_(Durable!vars)
  BY DurableStep
<1>. QED
  BY <1>1, <1>2, <1>3, <1>4, IInvAlways, PTL DEF Spec, ImplementsDurableJob, Durable!Spec

-----------------------------------------------------------------------------
(* What is reported, who is active, and what a late run may write *)

\* What a row says was read: a feed is over once its stage is, an alliance is censused before
\* its feeds, and a completed job left nothing out.
Read(row) ==
    /\ row.stage \in {"losses", "metadata", "finished"} => row.feed["kills"] \in FeedEnd
    /\ row.stage \in {"metadata", "finished"} => row.feed["losses"] \in FeedEnd
    /\ row.stage = "membership" => row.subject \in Alliances
    /\ row.census \in IF row.stage \in {"profile", "membership"} \/ row.subject \notin Alliances
                      THEN {"none"} ELSE Census
    /\ row.status = "completed" => row.stage = "finished" /\ ~Incomplete(row)

\* What a report was asked for, how far it got and what it counted.
Asked(row, next) == row.subject = next.subject /\ row.from = next.from /\ row.to = next.to
Steady(row, next) == row.stage = next.stage /\ row.page = next.page /\ row.feed = next.feed
Counted(row, next) == row.imported = next.imported /\ row.reused = next.reused

\* The three ways a row changes: its owner works on it; a claim, the clock, a cancellation or
\* a resumption touch its status; or it is created.
Advances(w) == FinishProfile(w) \/ FinishMembership(w) \/ FinishMetadata(w) \/ CommitPage(w)
Worked(w, row) ==
    /\ Owns(w) /\ Save(w, row) /\ Asked(row, Held(w))
    /\ Read(Held(w)) => Read(row)
    /\ Counted(row, Held(w)) \/ \E k \in worker[w].entries : Import(w, k)
    /\ Steady(row, Held(w)) \/ Advances(w)
    /\ row.token \in {worker[w].token, NoToken}
Touched(j, row) ==
    /\ job' = [job EXCEPT ![j] = row]
    /\ Progress(row) = Progress(job[j])
    /\ row.status = "completed" => job[j].status = "completed"
    /\ row.status \in Active => IsActive(j) \/ IndexAllows(job[j].subject, j)
    /\ row.status = "running" =>
          row.token \notin TokensInUse \/ (job[j].status = "running" /\ row.token = job[j].token)
Inserted(j, row) ==
    /\ job' = [job EXCEPT ![j] = row]
    /\ job[j].status = "absent" /\ row.status = "queued" /\ Read(row) /\ Counted(row, Blank)
    /\ Steady(row, Blank) /\ row.to = posted
    /\ IndexAllows(row.subject, j)

Changed ==
    \/ \E w \in Workers, row \in JobRow : Worked(w, row)
    \/ \E j \in Jobs, row \in JobRow : Touched(j, row) \/ Inserted(j, row)
    \/ UNCHANGED job

LEMMA StageWorks ==
    ASSUME IInv, NEW w \in Workers,
           FinishProfile(w) \/ FinishMembership(w) \/ FinishMetadata(w)
    PROVE  Changed
<1>1. Owns(w)
  BY DEF FinishProfile, FinishMembership, FinishMetadata
<1>2. Held(w) \in JobRow /\ 1 \in 1..MaxPages /\ Matches(worker[w], Held(w)) /\ Held(w).status = "running"
      /\ Held(w).token = worker[w].token
  BY <1>1, HeldTyped, HeldCursor, ConstantsOK
<1>3. CASE FinishProfile(w)
  <2>. DEFINE stage == IF Held(w).subject \in Alliances THEN "membership" ELSE "kills"
              row == [Held(w) EXCEPT !.stage = stage, !.page = 1, !.retry = 0]
  <2>1. Held(w).stage = "profile" /\ Save(w, row)
    BY <1>2, <1>3 DEF FinishProfile, Matches
  <2>2. stage \in {"membership", "kills"} /\ (stage = "membership" <=> Held(w).subject \in Alliances)
    OBVIOUS
  <2>. HIDE DEF stage
  <2>3. row \in JobRow /\ row.stage = stage /\ row.status = "running" /\ Asked(row, Held(w)) /\ Counted(row, Held(w))
        /\ row.census = Held(w).census /\ row.feed = Held(w).feed /\ row.token = Held(w).token
    BY <1>2, <2>2 DEF JobRow, Asked, Counted, Stages
  <2>. HIDE DEF row
  <2>4. Read(Held(w)) => Read(row)
    BY <2>1, <2>2, <2>3 DEF Read, Asked
  <2>. QED
    BY <1>1, <1>2, <1>3, <2>1, <2>3, <2>4 DEF Changed, Worked, Advances
<1>4. CASE FinishMembership(w)
  <2>1. PICK outcome \in Census : Save(w,
           [Held(w) EXCEPT !.census = outcome, !.stage = "kills", !.page = 1, !.retry = 0])
    BY <1>4 DEF FinishMembership
  <2>. DEFINE row == [Held(w) EXCEPT !.census = outcome, !.stage = "kills", !.page = 1, !.retry = 0]
  <2>2. Held(w).stage = "membership" /\ Save(w, row)
    BY <1>2, <1>4, <2>1 DEF FinishMembership, Matches
  <2>3. row \in JobRow /\ row.stage = "kills" /\ row.status = "running" /\ Asked(row, Held(w)) /\ Counted(row, Held(w))
        /\ row.census = outcome /\ row.token = Held(w).token
    BY <1>2 DEF JobRow, Asked, Counted, Stages
  <2>. HIDE DEF row
  <2>4. Read(Held(w)) => Read(row)
    BY <2>2, <2>3 DEF Read, Asked
  <2>. QED
    BY <1>1, <1>2, <1>4, <2>2, <2>3, <2>4 DEF Changed, Worked, Advances
<1>5. CASE FinishMetadata(w)
  <2>1. PICK status \in {"partial", "completed"} :
           /\ status = "completed" => ~Incomplete(Held(w))
           /\ Save(w, [Held(w) EXCEPT !.status = status, !.stage = "finished", !.token = NoToken,
                                      !.lease = "none"])
    BY <1>5 DEF FinishMetadata
  <2>. DEFINE row == [Held(w) EXCEPT !.status = status, !.stage = "finished", !.token = NoToken,
                                     !.lease = "none"]
  <2>2. Held(w).stage = "metadata" /\ Save(w, row)
    BY <1>2, <1>5, <2>1 DEF FinishMetadata, Matches
  <2>3. row \in JobRow /\ row.stage = "finished" /\ row.status = status /\ Asked(row, Held(w)) /\ Counted(row, Held(w))
        /\ row.census = Held(w).census /\ row.feed = Held(w).feed /\ row.token = NoToken
    BY <1>2 DEF JobRow, Asked, Counted, Stages, Settled
  <2>. HIDE DEF row
  <2>4. Read(Held(w)) => Read(row)
    BY <2>1, <2>2, <2>3 DEF Read, Asked, Incomplete
  <2>. QED
    BY <1>1, <1>5, <2>2, <2>3, <2>4 DEF Changed, Worked, Advances
<1>. QED
  BY <1>3, <1>4, <1>5

LEMMA PageWorks ==
    ASSUME IInv, NEW w \in Workers, CommitPage(w) PROVE Changed
<1>. DEFINE me == worker[w]
            done == FeedDone(me)
            stage == IF me.feed = "kills" THEN "losses" ELSE "metadata"
            feed(x) == [Held(w).feed EXCEPT ![me.feed] = x]
            next(x) == [Held(w) EXCEPT !.feed = x, !.page = 1, !.retry = 0, !.stage = stage]
            more(x, n) == [Held(w) EXCEPT !.feed = x, !.page = n, !.retry = 0]
<1>1. Owns(w)
  BY DEF CommitPage
<1>2. Held(w) \in JobRow /\ 1 \in 1..MaxPages /\ me.feed \in Feeds /\ me.page \in 1..MaxPages
      /\ Held(w).stage = me.feed /\ Held(w).page = me.page /\ Held(w).status = "running"
      /\ Held(w).token = me.token
  BY <1>1, HeldTyped, HeldCursor, ConstantsOK DEF CommitPage, WorkerState, Matches
<1>3. PICK end : end = Ending(me) /\ end \in FeedEnd
  BY DEF Ending, FeedEnd
<1>4. PICK read, reading : read = feed(end) /\ reading = feed("collecting")
  OBVIOUS
<1>5. /\ read \in [Feeds -> FeedEnd \cup {"none", "collecting"}] /\ reading \in [Feeds -> FeedEnd \cup {"none", "collecting"}]
      /\ read[me.feed] \in FeedEnd
      /\ \A f \in Feeds \ {me.feed} : read[f] = Held(w).feed[f] /\ reading[f] = Held(w).feed[f]
  BY <1>2, <1>3, <1>4 DEF JobRow
<1>6. (done /\ Save(w, next(read))) \/ (~done /\ Save(w, more(reading, me.page + 1)))
  BY <1>2, <1>3, <1>4 DEF CommitPage, JobRow
<1>7. stage \in {"losses", "metadata"} /\ (stage = "losses" <=> me.feed = "kills")
  OBVIOUS
<1>. HIDE DEF stage, done
<1>8. CASE Save(w, next(read))
  <2>1. PICK row : row = next(read)
    OBVIOUS
  <2>2. row \in JobRow /\ row.stage = stage /\ row.feed = read /\ row.status = "running"
        /\ Asked(row, Held(w)) /\ Counted(row, Held(w)) /\ row.census = Held(w).census
        /\ row.token = Held(w).token
    BY <1>2, <1>5, <1>7, <2>1 DEF JobRow, Asked, Counted, Stages
  <2>3. Read(Held(w)) => Read(row)
    BY <1>2, <1>5, <1>7, <2>2 DEF Read, Asked, Feeds
  <2>. QED
    BY <1>1, <1>2, <1>8, <2>1, <2>2, <2>3 DEF Changed, Worked, Advances
<1>9. CASE ~done /\ Save(w, more(reading, me.page + 1))
  <2>1. PICK n : n = me.page + 1
    OBVIOUS
  <2>2. n \in 1..MaxPages
    BY <1>2, <1>9, <2>1, ConstantsOK DEF done, FeedDone
  <2>3. PICK row : row = more(reading, n)
    OBVIOUS
  <2>4. row \in JobRow /\ row.stage = Held(w).stage /\ row.feed = reading /\ row.status = "running"
        /\ Asked(row, Held(w)) /\ Counted(row, Held(w)) /\ row.census = Held(w).census
        /\ row.token = Held(w).token
    BY <1>2, <1>5, <2>2, <2>3 DEF JobRow, Asked, Counted
  <2>5. Read(Held(w)) => Read(row)
    BY <1>2, <1>5, <2>4 DEF Read, Asked, Feeds
  <2>. QED
    BY <1>1, <1>2, <1>9, <2>1, <2>3, <2>4, <2>5 DEF Changed, Worked, Advances
<1>. QED
  BY <1>6, <1>8, <1>9

\* The other writes of an owner change nothing that Read looks at, unless they end the run.
LEMMA RestWorks ==
    ASSUME IInv, NEW w \in Workers,
           \/ Dispatch(w) \/ OpenPage(w) \/ CachePage(w) \/ ResolveMetadata(w) \/ TakeEntry(w)
           \/ Fail(w) \/ Interrupt(w)
    PROVE  Changed
<1>1. Owns(w)
  BY DEF Dispatch, OpenPage, CachePage, TakeEntry, ResolveMetadata, Fail, Interrupt
<1>2. Held(w) \in JobRow /\ Held(w).status = "running" /\ Held(w).token = worker[w].token
  BY <1>1, HeldTyped, HeldCursor
<1>3. ASSUME NEW row \in JobRow, Save(w, row), row.status # "completed",
             Counted(row, Held(w)) \/ \E k \in worker[w].entries : Import(w, k),
             Asked(row, Held(w)), Steady(row, Held(w)), row.census = Held(w).census,
             row.token \in {Held(w).token, NoToken}
      PROVE  Changed
  BY <1>1, <1>2, <1>3 DEF Changed, Worked, Steady, Read, Asked
<1>4. CASE Save(w, Held(w))
  BY <1>2, <1>3, <1>4 DEF Asked, Counted, Steady
<1>5. ASSUME NEW k \in worker[w].entries, Import(w, k) PROVE Changed
  <2>1. PICK i, u : /\ i = IF k \in store THEN Held(w).imported ELSE Held(w).imported + 1
                    /\ u = IF k \in store /\ <<Held(w).subject, worker[w].feed, k>> \notin discovery
                           THEN Held(w).reused + 1 ELSE Held(w).reused
    OBVIOUS
  <2>2. i \in Nat /\ u \in Nat
    BY <1>2, <2>1 DEF JobRow
  <2>3. PICK row : row = [Held(w) EXCEPT !.imported = i, !.reused = u]
    OBVIOUS
  <2>4. row \in JobRow /\ row.status = "running" /\ Asked(row, Held(w)) /\ Steady(row, Held(w))
        /\ row.census = Held(w).census /\ row.token = Held(w).token
    BY <1>2, <2>2, <2>3 DEF JobRow, Asked, Steady
  <2>5. Save(w, row)
    BY <1>2, <1>5, <2>1, <2>3 DEF Import, JobRow
  <2>. QED
    BY <1>3, <1>5, <2>4, <2>5
<1>6. CASE Fail(w)
  <2>1. PICK row : row = Failed(Held(w))
    OBVIOUS
  <2>2. row \in JobRow
    BY <1>2, <2>1, FailedTyped
  <2>3. row.status # "completed" /\ Asked(row, Held(w)) /\ Counted(row, Held(w)) /\ Steady(row, Held(w))
        /\ row.census = Held(w).census /\ row.token = NoToken
    BY <1>2, <2>1 DEF Failed, JobRow, Asked, Counted, Steady
  <2>. QED
    BY <1>3, <1>6, <2>1, <2>2, <2>3 DEF Fail
<1>7. CASE Interrupt(w)
  <2>1. PICK row : row = [Held(w) EXCEPT !.status = "queued", !.token = NoToken, !.lease = "none"]
    OBVIOUS
  <2>2. row \in JobRow /\ row.status = "queued" /\ Asked(row, Held(w)) /\ Counted(row, Held(w)) /\ Steady(row, Held(w))
        /\ row.census = Held(w).census /\ row.token = NoToken
    BY <1>2, <2>1 DEF JobRow, Asked, Counted, Steady, Active
  <2>. QED
    BY <1>3, <1>7, <2>1, <2>2 DEF Interrupt
<1>8. CASE TakeEntry(w)
  BY <1>4, <1>5, <1>8 DEF TakeEntry
<1>. QED
  BY <1>4, <1>6, <1>7, <1>8 DEF Dispatch, OpenPage, CachePage, ResolveMetadata

LEMMA ClaimTouches == ASSUME IInv, NEW w \in Workers, Claim(w) PROVE Changed
<1>1. PICK j \in Jobs : j = worker[w].job /\ job[j] \in JobRow
  BY DEF Claim, IInv, TypeOK, Ownership
<1>2. CASE ~UNCHANGED job
  <2>1. PICK t \in Tokens \ TokensInUse : /\ Claimable(j)
                            /\ job' = [job EXCEPT ![j] = [job[j] EXCEPT !.status = "running", !.token = t, !.lease = "held"]]
    BY <1>1, <1>2 DEF Claim
  <2>2. PICK row : row = [job[j] EXCEPT !.status = "running", !.token = t, !.lease = "held"]
    OBVIOUS
  <2>3. row \in JobRow /\ row.status = "running" /\ row.token = t /\ Progress(row) = Progress(job[j])
    BY <1>1, <2>2 DEF JobRow, Active, Progress
  <2>. QED
    BY <2>1, <2>2, <2>3 DEF Changed, Touched, Claimable
<1>. QED
  BY <1>2 DEF Changed

LEMMA ClockTouches == ASSUME IInv, NEW j \in Jobs, Clock(j) \/ Cancel(j) PROVE Changed
<1>1. job[j] \in JobRow
  BY DEF IInv, TypeOK
<1>2. PICK cancelled, lapsed, elapsed :
         /\ cancelled = [job[j] EXCEPT !.status = "cancelled", !.token = NoToken, !.lease = "none"]
         /\ lapsed = [job[j] EXCEPT !.lease = "lapsed"]
         /\ elapsed = [job[j] EXCEPT !.waiting = FALSE]
  OBVIOUS
<1>3. /\ cancelled \in JobRow /\ cancelled.status = "cancelled" /\ Progress(cancelled) = Progress(job[j])
      /\ lapsed \in JobRow /\ lapsed.status = job[j].status /\ lapsed.token = job[j].token /\ Progress(lapsed) = Progress(job[j])
      /\ elapsed \in JobRow /\ elapsed.status = job[j].status /\ elapsed.token = job[j].token /\ Progress(elapsed) = Progress(job[j])
  BY <1>1, <1>2 DEF JobRow, Settled, Progress
<1>4. CASE Cancel(j)
  <2>1. job' = [job EXCEPT ![j] = cancelled]
    BY <1>1, <1>2, <1>4 DEF Cancel
  <2>. QED
    BY <1>3, <2>1 DEF Changed, Touched, Active
<1>5. ASSUME NEW row \in {lapsed, elapsed}, job' = [job EXCEPT ![j] = row] PROVE Changed
  <2>1. /\ row \in JobRow /\ Progress(row) = Progress(job[j])
        /\ row.status = job[j].status /\ row.token = job[j].token
    BY <1>3, <1>5
  <2>. QED
    BY <1>5, <2>1 DEF Changed, Touched, IsActive
<1>6. CASE Clock(j)
  <2>1. job' = [job EXCEPT ![j] = lapsed] \/ job' = [job EXCEPT ![j] = elapsed]
    BY <1>1, <1>2, <1>6 DEF Clock, LapseLease, ElapseBackoff
  <2>. QED
    BY <1>5, <2>1
<1>. QED
  BY <1>4, <1>6

LEMMA ApiChanges == ASSUME IInv, NEW r \in Requests, Api(r) PROVE Changed
<1>1. CASE UNCHANGED job
  BY <1>1 DEF Changed
<1>2. CASE CommitCollect(r) /\ ~UNCHANGED job
  <2>1. PICK j \in Jobs, at \in Cutoffs :
           /\ job[j].status = "absent" /\ IndexAllows(request[r].subject, j)
           /\ job' = [job EXCEPT ![j] = [Blank EXCEPT !.status = "queued",
                         !.subject = request[r].subject, !.from = at, !.to = posted]]
    BY <1>2 DEF CommitCollect
  <2>2. PICK row : row = [Blank EXCEPT !.status = "queued", !.subject = request[r].subject, !.from = at, !.to = posted]
    OBVIOUS
  <2>3. request[r].subject \in Subjects /\ at \in Nat /\ posted \in Nat
    BY ConstantsOK DEF IInv, TypeOK, RequestState
  <2>4. row \in JobRow /\ row.status = "queued" /\ row.stage = "profile" /\ row.census = "none"
        /\ row.subject = request[r].subject /\ Counted(row, Blank) /\ Steady(row, Blank) /\ row.to = posted
    BY <2>2, <2>3, BlankTyped DEF JobRow, Active, Blank, Counted, Steady
  <2>5. Read(row)
    BY <2>4 DEF Read
  <2>6. Inserted(j, row)
    BY <2>1, <2>2, <2>4, <2>5 DEF Inserted
  <2>. QED
    BY <2>4, <2>6 DEF Changed
<1>3. CASE CommitRetry(r) /\ ~UNCHANGED job
  <2>1. PICK j \in Jobs : j = request[r].job /\ job[j] \in JobRow
    BY <1>3 DEF CommitRetry, IInv, TypeOK, Ownership
  <2>2. PICK row : row = Resumed(job[j], request[r].retry)
    OBVIOUS
  <2>3. job' = [job EXCEPT ![j] = row] /\ IndexAllows(job[j].subject, j)
    BY <1>3, <2>1, <2>2 DEF CommitRetry
  <2>4. row \in JobRow /\ row.status = "queued"
    BY <2>1, <2>2, ResumedTyped
  <2>5. Progress(row) = Progress(job[j])
    BY <2>1, <2>2 DEF Resumed, Progress, JobRow
  <2>. QED
    BY <2>3, <2>4, <2>5 DEF Changed, Touched
<1>. QED
  BY <1>1, <1>2, <1>3 DEF Api, BeginCollect, BeginRetry

LEMMA EveryChange == ASSUME IInv, [Next]_vars PROVE Changed
<1>1. ASSUME NEW w \in Workers, Work(w) \/ Disturb(w) PROVE Changed
  <2>1. CASE PickJob(w) \/ Abandon(w) \/ FetchPage(w) \/ Crash(w)
    BY <2>1 DEF PickJob, Abandon, FetchPage, Crash, Changed
  <2>. QED
    BY <1>1, <2>1, StageWorks, PageWorks, RestWorks, ClaimTouches DEF Work, Disturb, RejectStage
<1>2. ASSUME NEW r \in Requests, Api(r) PROVE Changed
  BY <1>2, ApiChanges
<1>3. ASSUME NEW j \in Jobs, Clock(j) \/ Cancel(j) PROVE Changed
  BY <1>3, ClockTouches
<1>4. CASE PostKill \/ ExpireListing \/ UNCHANGED vars
  BY <1>4 DEF PostKill, ExpireListing, vars, Changed
<1>. QED
  BY <1>1, <1>2, <1>3, <1>4 DEF Next

\* One row is rewritten, the others stay.
LEMMA RowsPut ==
    ASSUME IInv, NEW j \in Jobs, NEW row, job' = [job EXCEPT ![j] = row]
    PROVE  job'[j] = row /\ \A i \in Jobs \ {j} : job'[i] = job[i]
BY DEF IInv, TypeOK

LEMMA WorkedRow ==
    ASSUME IInv, NEW w \in Workers, NEW row, Worked(w, row)
    PROVE  /\ worker[w].job \in Jobs /\ job' = [job EXCEPT ![worker[w].job] = row]
           /\ job[worker[w].job].status = "running" /\ Asked(row, job[worker[w].job])
           /\ Read(job[worker[w].job]) => Read(row)
           /\ Counted(row, job[worker[w].job]) \/ \E k \in worker[w].entries : Import(w, k)
           /\ Steady(row, job[worker[w].job]) \/ Advances(w)
<1>1. worker[w].job \in Jobs /\ job[worker[w].job] \in JobRow /\ Owns(w)
  BY HeldCursor DEF Worked
<1>2. PICK old : old = job[worker[w].job]
  OBVIOUS
<1>3. Held(w) = [old EXCEPT !.lease = "held"]
  BY <1>2 DEF Held
<1>4. Read(old) => Read(Held(w))
  BY <1>1, <1>2, <1>3 DEF Read, Incomplete, JobRow
<1>5. Asked(Held(w), old) /\ Counted(Held(w), old) /\ Steady(Held(w), old)
  BY <1>1, <1>2, <1>3 DEF JobRow, Asked, Counted, Steady
<1>. QED
  BY <1>1, <1>2, <1>4, <1>5 DEF Worked, Owns, Save, Asked, Counted, Steady

LEMMA SameProgress ==
    ASSUME NEW row \in JobRow, NEW next \in JobRow, Progress(next) = Progress(row)
    PROVE  Asked(next, row) /\ Counted(next, row) /\ Steady(next, row) /\ next.census = row.census
<1>. USE DEF Asked, Counted, Steady
<1>1. PICK p, q : p = Progress(row) /\ q = Progress(next)
  OBVIOUS
<1>2. Asked(p, row) /\ Counted(p, row) /\ Steady(p, row) /\ p.census = row.census
  BY <1>1 DEF Progress, JobRow
<1>3. Asked(q, next) /\ Counted(q, next) /\ Steady(q, next) /\ q.census = next.census
  BY <1>1 DEF Progress, JobRow
<1>. QED
  BY <1>1, <1>2, <1>3

Reported == \A j \in Jobs : Read(job[j])
Alone == \A i, j \in Jobs : IsActive(i) /\ IsActive(j) /\ job[i].subject = job[j].subject => i = j

LEMMA ReportedStep == ASSUME IInv, Reported, [Next]_vars PROVE Reported'
<1>1. ASSUME NEW w \in Workers, NEW row \in JobRow, Worked(w, row) PROVE Reported'
  <2>1. PICK j \in Jobs : j = worker[w].job
    BY <1>1, WorkedRow
  <2>2. job' = [job EXCEPT ![j] = row] /\ Read(row)
    BY <1>1, <2>1, WorkedRow DEF Reported
  <2>. QED
    BY <2>2, RowsPut DEF Reported
<1>2. ASSUME NEW j \in Jobs, NEW row \in JobRow, Touched(j, row) PROVE Reported'
  <2>1. job[j] \in JobRow /\ job' = [job EXCEPT ![j] = row] /\ Progress(row) = Progress(job[j])
    BY <1>2 DEF IInv, TypeOK, Touched
  <2>2. Read(row)
    BY <1>2, <2>1, SameProgress DEF Touched, Reported, Read, Incomplete, Asked, Steady
  <2>. QED
    BY <2>1, <2>2, RowsPut DEF Reported
<1>3. ASSUME NEW j \in Jobs, NEW row \in JobRow, Inserted(j, row) PROVE Reported'
  BY <1>3, RowsPut DEF Inserted, Reported
<1>. QED
  BY <1>1, <1>2, <1>3, EveryChange DEF Changed, Reported

LEMMA AloneStep == ASSUME IInv, Alone, [Next]_vars PROVE Alone'
<1>1. ASSUME NEW j \in Jobs, NEW row, job' = [job EXCEPT ![j] = row],
             row.status \in Active => \A i \in Jobs \ {j} : ~(IsActive(i) /\ job[i].subject = row.subject)
      PROVE  Alone'
  BY <1>1, RowsPut DEF Alone, IsActive
<1>2. ASSUME NEW w \in Workers, NEW row \in JobRow, Worked(w, row) PROVE Alone'
  <2>1. PICK j \in Jobs : j = worker[w].job
    BY <1>2, WorkedRow
  <2>2. job' = [job EXCEPT ![j] = row] /\ IsActive(j) /\ row.subject = job[j].subject
    BY <1>2, <2>1, WorkedRow DEF IsActive, Active, Asked
  <2>. QED
    BY <1>1, <2>2 DEF Alone
<1>3. ASSUME NEW j \in Jobs, NEW row \in JobRow, Touched(j, row) PROVE Alone'
  <2>1. job[j] \in JobRow /\ job' = [job EXCEPT ![j] = row] /\ Progress(row) = Progress(job[j])
    BY <1>3 DEF IInv, TypeOK, Touched
  <2>2. row.subject = job[j].subject
    BY <2>1, SameProgress DEF Asked
  <2>3. row.status \in Active => IsActive(j) \/ ActiveFor(job[j].subject) \subseteq {j}
    BY <1>3 DEF Touched, IndexAllows
  <2>. QED
    BY <1>1, <2>1, <2>2, <2>3 DEF Alone, ActiveFor
<1>4. ASSUME NEW j \in Jobs, NEW row \in JobRow, Inserted(j, row) PROVE Alone'
  <2>1. job' = [job EXCEPT ![j] = row] /\ ActiveFor(row.subject) \subseteq {j}
    BY <1>4 DEF Inserted, IndexAllows
  <2>. QED
    BY <1>1, <2>1 DEF ActiveFor
<1>. QED
  BY <1>2, <1>3, <1>4, EveryChange DEF Changed, Alone, IsActive

\* A run records a discovery of its own job's subject, and only while it owns the job.
LEMMA DiscoveryStep ==
    ASSUME IInv, [Next]_vars, NEW m \in discovery' \ discovery
    PROVE  \E j \in ActiveFor(m[1]) : job[j].status = "running" /\ m[3] <= job[j].to
<1>1. PICK w \in Workers : TakeEntry(w) /\ ~UNCHANGED discovery
  BY DEF Next, Work, Disturb, Api, Clock, Cancel, LapseLease, ElapseBackoff, PostKill, ExpireListing,
     BeginCollect, CommitCollect, BeginRetry, CommitRetry, Fail, Interrupt, Crash, PickJob, Claim, Abandon,
     Dispatch, FinishProfile, FinishMembership, OpenPage, FetchPage, CachePage, CommitPage, ResolveMetadata,
     FinishMetadata, RejectStage, vars, data
<1>2. PICK k \in worker[w].entries : InWindow(k, Held(w)) /\ Import(w, k)
  BY <1>1 DEF TakeEntry
<1>3. m = <<Held(w).subject, worker[w].feed, k>>
  BY <1>2 DEF Import
<1>4. PICK j \in Jobs : j = worker[w].job /\ job[j] \in JobRow /\ job[j].status = "running"
  BY <1>1, HeldCursor DEF TakeEntry, Owns
<1>5. Held(w).subject = job[j].subject /\ Held(w).to = job[j].to
  BY <1>4 DEF Held, JobRow
<1>. QED
  BY <1>2, <1>3, <1>4, <1>5 DEF InWindow, ActiveFor, IsActive, Active

LEMMA StillRows ==
    ASSUME IInv, [Next]_vars, NEW j \in Jobs, job[j].status \in Settled \cup {"queued"}
    PROVE  Progress(job'[j]) = Progress(job[j])
<1>1. ASSUME NEW w \in Workers, NEW row \in JobRow, Worked(w, row) PROVE job'[j] = job[j]
  <2>1. worker[w].job # j
    BY <1>1, WorkedRow DEF Settled
  <2>. QED
    BY <1>1, <2>1, WorkedRow, RowsPut
<1>2. ASSUME NEW i \in Jobs, NEW row \in JobRow, Touched(i, row) PROVE Progress(job'[j]) = Progress(job[j])
  BY <1>2, RowsPut DEF Touched
<1>3. ASSUME NEW i \in Jobs, NEW row \in JobRow, Inserted(i, row) PROVE job'[j] = job[j]
  <2>1. i # j
    BY <1>3 DEF Inserted, Settled
  <2>. QED
    BY <1>3, <2>1, RowsPut DEF Inserted
<1>. QED
  BY <1>1, <1>2, <1>3, EveryChange DEF Changed

\* However often a job was lost, failed and resumed, a completed one was censused if it had to
\* be and has both feeds read to their end (metadata_stage's status).
THEOREM CompletedMeansRead == Spec => []CompletedIsCovered
<1>1. Init => Reported
  BY DEF Init, Reported, Read, Blank
<1>2. IInv /\ Reported /\ [Next]_vars => Reported'
  BY ReportedStep
<1>3. IInv /\ Reported => CompletedIsCovered
  <2>. SUFFICES ASSUME IInv, Reported, NEW j \in Jobs, job[j].status = "completed"
                PROVE  /\ job[j].stage = "finished"
                       /\ \A f \in Feeds : job[j].feed[f] \in {"feed_exhausted", "reached_date"}
                       /\ job[j].census = IF job[j].subject \in Alliances THEN "available" ELSE "none"
    BY DEF CompletedIsCovered
  <2>. QED
    BY DEF Reported, Read, Incomplete, Feeds, FeedEnd, Census
<1>. QED
  BY <1>1, <1>2, <1>3, IInvAlways, PTL DEF Spec

\* However collect and retry race, over any number of jobs, no subject has two active ones.
THEOREM OneActive == Spec => []OneActivePerSubject
<1>1. Init => Alone
  BY DEF Init, Alone, IsActive, Active, Blank
<1>2. IInv /\ Alone /\ [Next]_vars => Alone'
  BY AloneStep
<1>3. Alone => OneActivePerSubject
  <2>. SUFFICES ASSUME Alone, NEW s \in Subjects PROVE Cardinality(ActiveFor(s)) <= 1
    BY DEF OneActivePerSubject
  <2>1. CASE ActiveFor(s) = {}
    BY <2>1, FS_EmptySet
  <2>2. CASE ActiveFor(s) # {}
    <3>1. PICK j : j \in ActiveFor(s)
      BY <2>2
    <3>2. ActiveFor(s) = {j}
      BY <3>1 DEF Alone, ActiveFor
    <3>3. Cardinality({j}) = 1
      BY FS_Singleton
    <3>4. Cardinality(ActiveFor(s)) = 1
      BY <3>2, <3>3, Zenon
    <3>. QED
      BY <3>4
  <2>. QED
    BY <2>1, <2>2
<1>. QED
  BY <1>1, <1>2, <1>3, IInvAlways, PTL DEF Spec

\* A process that lost its job, to a lease, a cancellation or a failure, writes no cursor, no
\* coverage, no count and no discovery any more (owned_job, in any number of processes).
THEOREM LateRunsWriteNothing == Spec => NoLateWrites
<1>1. IInv /\ [Next]_vars =>
        [/\ \A j \in Jobs : job[j].status \in Settled \cup {"queued"} => Progress(job'[j]) = Progress(job[j])
         /\ \A m \in discovery' \ discovery :
               \E j \in ActiveFor(m[1]) : job[j].status = "running" /\ m[3] <= job[j].to]_vars
  BY StillRows, DiscoveryStep
<1>. QED
  BY <1>1, IInvAlways, PTL DEF Spec, NoLateWrites

-----------------------------------------------------------------------------
(* Sums, for both components: MapThenSumSet adds up a set in the order CHOOSE  *)
(* takes it apart.  What holds of every sum is proved by taking a smallest set *)
(* for which it would not hold.                                                *)

Pick(s) == CHOOSE x \in s : TRUE
SumsUp(g, f, S) == g = [s \in SUBSET S |-> IF s = {} THEN 0 ELSE f[Pick(s)] + g[s \ {Pick(s)}]]

LEMMA SmallestSet ==
    ASSUME NEW S, IsFiniteSet(S), NEW T \in SUBSET SUBSET S, T # {}
    PROVE  \E s \in T : \A t \in T : t \subseteq s => t = s
<1>1. IsWellFoundedOn(StrictSubsetOrdering(S), SUBSET S)
  BY FS_StrictSubsetOrderingWellFounded, FS_FiniteSubsetsOfFinite
<1>2. PICK s \in T : \A t \in T : ~(<<t, s>> \in StrictSubsetOrdering(S))
  BY <1>1, WFMin
<1>. QED
  BY <1>2 DEF StrictSubsetOrdering

LEMMA SumStep ==
    ASSUME NEW S, NEW f, NEW g, SumsUp(g, f, S), NEW s \in SUBSET S
    PROVE  /\ s = {} => g[s] = 0
           /\ s # {} => Pick(s) \in s /\ g[s] = f[Pick(s)] + g[s \ {Pick(s)}]
<1>1. g[s] = IF s = {} THEN 0 ELSE f[Pick(s)] + g[s \ {Pick(s)}]
  BY DEF SumsUp
<1>2. s # {} => Pick(s) \in s
  BY DEF Pick
<1>. QED
  BY <1>1, <1>2

\* A sum over a set depends on nothing but what is added up there.
LEMMA SameSum ==
    ASSUME NEW S, NEW R, NEW f, NEW h, NEW g, NEW k, SumsUp(g, f, S), SumsUp(k, h, R),
           NEW w, IsFiniteSet(w), w \subseteq S, w \subseteq R, \A x \in w : f[x] = h[x]
    PROVE  g[w] = k[w]
<1>1. PICK T : T = {s \in SUBSET w : g[s] # k[s]}
  OBVIOUS
<1>2. SUFFICES ASSUME T # {} PROVE FALSE
  BY <1>1
<1>3. PICK s \in T : \A t \in T : t \subseteq s => t = s
  BY <1>1, <1>2, SmallestSet
<1>4. s \in SUBSET S /\ s \in SUBSET R /\ g[s] # k[s]
  BY <1>1
<1>5. s # {}
  BY <1>4, SumStep
<1>6. Pick(s) \in s /\ g[s] = f[Pick(s)] + g[s \ {Pick(s)}] /\ k[s] = h[Pick(s)] + k[s \ {Pick(s)}]
  BY <1>4, <1>5, SumStep
<1>7. g[s \ {Pick(s)}] = k[s \ {Pick(s)}]
  <2>1. s \ {Pick(s)} \in SUBSET w /\ s \ {Pick(s)} # s
    BY <1>1, <1>6
  <2>. QED
    BY <1>1, <1>3, <2>1
<1>8. f[Pick(s)] = h[Pick(s)]
  BY <1>1, <1>6
<1>. QED
  BY <1>4, <1>6, <1>7, <1>8

LEMMA SumExists == ASSUME NEW S, IsFiniteSet(S), NEW f PROVE \E g : SumsUp(g, f, S)
<1>1. PICK T : T = {s \in SUBSET S : ~ \E g : SumsUp(g, f, s)}
  OBVIOUS
<1>2. SUFFICES ASSUME T # {} PROVE FALSE
  BY <1>1
<1>3. PICK m \in T : \A t \in T : t \subseteq m => t = m
  <2>1. T \in SUBSET SUBSET S
    BY <1>1
  <2>. QED
    BY <1>2, <2>1, SmallestSet
<1>. DEFINE sub(s) == CHOOSE h : SumsUp(h, f, s)
            rest(s) == s \ {Pick(s)}
            g == [s \in SUBSET m |-> IF s = {} THEN 0 ELSE f[Pick(s)] + sub(rest(s))[rest(s)]]
<1>4. ASSUME NEW s \in SUBSET m, s # m PROVE SumsUp(sub(s), f, s) /\ IsFiniteSet(s)
  <2>1. \E h : SumsUp(h, f, s)
    BY <1>1, <1>3, <1>4
  <2>2. IsFiniteSet(s)
    BY <1>1, FS_Subset
  <2>. QED
    BY <2>1, <2>2
<1>. HIDE DEF sub
<1>5. ASSUME NEW s \in SUBSET m, s # {} PROVE sub(rest(s))[rest(s)] = g[rest(s)]
  <2>1. PICK d : d = rest(s)
    OBVIOUS
  <2>2. d \in SUBSET m /\ d # m
    BY <1>5, <2>1 DEF Pick
  <2>3. SumsUp(sub(d), f, d)
    BY <1>4, <2>2
  <2>4. CASE d = {}
    <3>1. sub(d)[d] = 0
      BY <2>3, <2>4, SumStep
    <3>2. g[d] = 0
      BY <2>2, <2>4
    <3>. QED
      BY <2>1, <3>1, <3>2
  <2>5. CASE d # {}
    <3>1. PICK e : e = rest(d)
      OBVIOUS
    <3>2. Pick(d) \in d /\ sub(d)[d] = f[Pick(d)] + sub(d)[e]
      BY <2>3, <2>5, <3>1, SumStep
    <3>3. g[d] = f[Pick(d)] + sub(e)[e]
      BY <2>2, <2>5, <3>1
    <3>4. e \in SUBSET m /\ e # m /\ e \subseteq d
      BY <2>2, <3>1, <3>2
    <3>5. SumsUp(sub(e), f, e) /\ IsFiniteSet(e)
      BY <1>4, <3>4
    <3>6. sub(d)[e] = sub(e)[e]
      BY <2>3, <3>4, <3>5, SameSum
    <3>. QED
      BY <2>1, <3>2, <3>3, <3>6
  <2>. QED
    BY <2>1, <2>4, <2>5
<1>6. g = [s \in SUBSET m |-> IF s = {} THEN 0 ELSE f[Pick(s)] + g[rest(s)]]
  <2>1. ASSUME NEW s \in SUBSET m
        PROVE  (IF s = {} THEN 0 ELSE f[Pick(s)] + sub(rest(s))[rest(s)]) =
               (IF s = {} THEN 0 ELSE f[Pick(s)] + g[rest(s)])
    BY <1>5
  <2>. QED
    BY <2>1, Zenon
<1>7. SumsUp(g, f, m)
  BY <1>6 DEF SumsUp
<1>. QED
  BY <1>1, <1>7

\* Any member may be added last.
LEMMA SumTaken ==
    ASSUME NEW S, IsFiniteSet(S), NEW f \in [S -> Int], NEW g, SumsUp(g, f, S)
    PROVE  \A w \in SUBSET S : g[w] \in Int /\ \A x \in w : g[w] = f[x] + g[w \ {x}]
<1>1. \A w \in SUBSET S : g[w] \in Int
  <2>1. PICK T : T = {s \in SUBSET S : g[s] \notin Int}
    OBVIOUS
  <2>2. SUFFICES ASSUME T # {} PROVE FALSE
    BY <2>1
  <2>3. PICK s \in T : \A t \in T : t \subseteq s => t = s
    BY <2>1, <2>2, SmallestSet
  <2>4. s # {} /\ Pick(s) \in s /\ g[s] = f[Pick(s)] + g[s \ {Pick(s)}]
    BY <2>1, <2>3, SumStep
  <2>5. s \ {Pick(s)} \in SUBSET S /\ s \ {Pick(s)} # s /\ f[Pick(s)] \in Int
    BY <2>1, <2>4
  <2>6. g[s \ {Pick(s)}] \in Int
    BY <2>1, <2>3, <2>5
  <2>. QED
    BY <2>1, <2>4, <2>5, <2>6
<1>2. \A w \in SUBSET S : \A x \in w : g[w] = f[x] + g[w \ {x}]
  <2>1. PICK T : T = {s \in SUBSET S : \E x \in s : g[s] # f[x] + g[s \ {x}]}
    OBVIOUS
  <2>2. SUFFICES ASSUME T # {} PROVE FALSE
    BY <2>1
  <2>3. PICK s \in T : \A t \in T : t \subseteq s => t = s
    <3>1. T \in SUBSET SUBSET S
      BY <2>1
    <3>. QED
      BY <2>2, <3>1, SmallestSet
  <2>4. PICK x \in s : g[s] # f[x] + g[s \ {x}]
    BY <2>1
  <2>5. PICK p : p = Pick(s)
    OBVIOUS
  <2>6. s \in SUBSET S /\ p \in s /\ g[s] = f[p] + g[s \ {p}] /\ p # x
    <3>1. s \in SUBSET S /\ s # {}
      BY <2>1, <2>4
    <3>2. p \in s /\ g[s] = f[p] + g[s \ {p}]
      BY <2>5, <3>1, SumStep
    <3>. QED
      BY <2>4, <3>1, <3>2
  <2>7. PICK u, v, r : u = s \ {p} /\ v = s \ {x} /\ r = s \ {p, x}
    OBVIOUS
  <2>8. /\ u \in SUBSET S /\ u \subseteq s /\ u # s /\ x \in u /\ u \ {x} = r
        /\ v \in SUBSET S /\ v \subseteq s /\ v # s /\ p \in v /\ v \ {p} = r /\ r \in SUBSET S
    BY <2>4, <2>6, <2>7
  <2>9. g[u] = f[x] + g[r] /\ g[v] = f[p] + g[r]
    <3>1. u \notin T /\ v \notin T
      BY <2>3, <2>8
    <3>2. \A t \in SUBSET S : t \notin T => \A y \in t : g[t] = f[y] + g[t \ {y}]
      BY <2>1
    <3>. QED
      BY <2>8, <3>1, <3>2
  <2>10. f[x] \in Int /\ f[p] \in Int /\ g[r] \in Int
    BY <1>1, <2>6, <2>8
  <2>. QED
    BY <2>4, <2>6, <2>7, <2>9, <2>10
<1>. QED
  BY <1>1, <1>2

LEMMA TotalIs == ASSUME NEW f PROVE Total(f) = (CHOOSE g : SumsUp(g, f, DOMAIN f))[DOMAIN f]
BY DEF Total, MapThenSumSet, MapThenFoldSet, SumsUp, Pick

LEMMA TotalRun ==
    ASSUME NEW S, IsFiniteSet(S)
    PROVE  \A f \in [S -> Int] : \E g :
               SumsUp(g, f, S) /\ Total(f) = g[S] /\ \A w \in SUBSET S : g[w] \in Int
<1>. TAKE f \in [S -> Int]
<1>1. \E g : SumsUp(g, f, S)
  BY SumExists
<1>2. PICK g : g = CHOOSE k : SumsUp(k, f, S)
  OBVIOUS
<1>3. SumsUp(g, f, S) /\ DOMAIN f = S
  BY <1>1, <1>2
<1>4. Total(f) = g[S]
  BY <1>2, <1>3, TotalIs
<1>5. \A w \in SUBSET S : g[w] \in Int
  BY <1>3, SumTaken
<1>. QED
  BY <1>3, <1>4, <1>5

LEMMA TotalSplits ==
    ASSUME NEW S, IsFiniteSet(S), NEW j \in S
    PROVE  \A f \in [S -> Int] : \E g :
               /\ SumsUp(g, f, S) /\ Total(f) \in Int
               /\ g[S \ {j}] \in Int /\ Total(f) = f[j] + g[S \ {j}]
<1>. TAKE f \in [S -> Int]
<1>1. PICK g : SumsUp(g, f, S) /\ Total(f) = g[S] /\ \A w \in SUBSET S : g[w] \in Int
  BY TotalRun
<1>2. g[S] = f[j] + g[S \ {j}]
  <2>1. \A w \in SUBSET S : g[w] \in Int /\ \A x \in w : g[w] = f[x] + g[w \ {x}]
    BY <1>1, SumTaken
  <2>. QED
    BY <2>1
<1>. QED
  BY <1>1, <1>2

\* A total changes by as much as its one entry that does.
LEMMA TotalMoves ==
    ASSUME NEW S, IsFiniteSet(S), NEW j \in S, NEW f \in [S -> Int], NEW h \in [S -> Int],
           \A i \in S \ {j} : h[i] = f[i]
    PROVE  Total(f) \in Int /\ Total(h) \in Int /\ Total(h) + f[j] = Total(f) + h[j]
<1>1. PICK w : w = S \ {j}
  OBVIOUS
<1>2. PICK g : /\ SumsUp(g, f, S) /\ Total(f) \in Int /\ g[w] \in Int /\ Total(f) = f[j] + g[w]
  BY <1>1, TotalSplits
<1>3. PICK k : /\ SumsUp(k, h, S) /\ Total(h) \in Int /\ k[w] \in Int /\ Total(h) = h[j] + k[w]
  BY <1>1, TotalSplits
<1>4. w \subseteq S /\ IsFiniteSet(w) /\ \A x \in w : h[x] = f[x]
  BY <1>1, FS_Subset
<1>5. k[w] = g[w]
  BY <1>2, <1>3, <1>4, SameSum
<1>6. f[j] \in Int /\ h[j] \in Int
  OBVIOUS
<1>. QED
  BY <1>2, <1>3, <1>5, <1>6

LEMMA SumSteps ==
    ASSUME NEW S, NEW f, NEW g, SumsUp(g, f, S)
    PROVE  \A s \in SUBSET S : s # {} => g[s] = f[Pick(s)] + g[s \ {Pick(s)}]
BY SumStep

\* A sum is linear in what it adds up.
LEMMA TotalLinear ==
    ASSUME NEW S, IsFiniteSet(S), NEW c \in Int, NEW f \in [S -> Int], NEW h \in [S -> Int],
           NEW k \in [S -> Int], \A x \in S : k[x] = c * f[x] + h[x]
    PROVE  Total(f) \in Int /\ Total(h) \in Int /\ Total(k) = c * Total(f) + Total(h)
<1>1. PICK F : SumsUp(F, f, S) /\ Total(f) = F[S] /\ \A w \in SUBSET S : F[w] \in Int
  BY TotalRun
<1>2. PICK H : SumsUp(H, h, S) /\ Total(h) = H[S] /\ \A w \in SUBSET S : H[w] \in Int
  BY TotalRun
<1>3. PICK K : SumsUp(K, k, S) /\ Total(k) = K[S] /\ \A w \in SUBSET S : K[w] \in Int
  BY TotalRun
<1>4. PICK T : T = {s \in SUBSET S : K[s] # c * F[s] + H[s]}
  OBVIOUS
<1>5. ASSUME T # {} PROVE FALSE
  <2>1. PICK s \in T : \A t \in T : t \subseteq s => t = s
    <3>1. T \in SUBSET SUBSET S
      BY <1>4
    <3>. QED
      BY <1>5, <3>1, SmallestSet
  <2>2. s \in SUBSET S /\ K[s] # c * F[s] + H[s]
    BY <1>4, <2>1
  <2>3. s # {}
    <3>1. s = {} => F[s] = 0
      BY <1>1, <2>2, SumStep
    <3>2. s = {} => H[s] = 0
      BY <1>2, <2>2, SumStep
    <3>3. s = {} => K[s] = 0
      BY <1>3, <2>2, SumStep
    <3>. QED
      BY <2>2, <3>1, <3>2, <3>3
  <2>10. Pick(s) \in s /\ F[s] = f[Pick(s)] + F[s \ {Pick(s)}]
    BY <1>1, <2>2, <2>3, SumStep
  <2>11. H[s] = h[Pick(s)] + H[s \ {Pick(s)}]
    BY <1>2, <2>2, <2>3, SumStep
  <2>12. K[s] = k[Pick(s)] + K[s \ {Pick(s)}]
    <3>1. \A w \in SUBSET S : w # {} => K[w] = k[Pick(w)] + K[w \ {Pick(w)}]
      BY <1>3, SumSteps
    <3>. QED
      BY <2>2, <2>3, <3>1, Zenon
  <2>4. PICK p, r : p = Pick(s) /\ r = s \ {Pick(s)}
    OBVIOUS
  <2>5. p \in s /\ F[s] = f[p] + F[r] /\ H[s] = h[p] + H[r] /\ K[s] = k[p] + K[r]
    BY <2>4, <2>10, <2>11, <2>12, Zenon
  <2>6. r \in SUBSET S /\ K[r] = c * F[r] + H[r]
    <3>1. r \in SUBSET S /\ r \subseteq s /\ r # s
      BY <2>2, <2>4, <2>5
    <3>2. r \notin T
      BY <2>1, <3>1
    <3>. QED
      BY <1>4, <3>1, <3>2, Zenon
  <2>7. PICK a, b, d, e \in Int : a = f[p] /\ b = F[r] /\ d = h[p] /\ e = H[r]
    BY <1>1, <1>2, <2>2, <2>5, <2>6
  <2>8. c * (a + b) = c * a + c * b /\ c * a \in Int /\ c * b \in Int
    OBVIOUS
  <2>9. k[p] = c * a + d
    BY <2>2, <2>5, <2>7
  <2>13. K[s] = c * (a + b) + (d + e)
    BY <2>5, <2>6, <2>7, <2>8, <2>9
  <2>. QED
    BY <2>2, <2>5, <2>7, <2>13
<1>6. S \in SUBSET S
  OBVIOUS
<1>. QED
  BY <1>1, <1>2, <1>3, <1>4, <1>5, <1>6

LEMMA TotalPlus ==
    ASSUME NEW S, IsFiniteSet(S)
    PROVE  \A f, h, k \in [S -> Int] : (\A x \in S : k[x] = f[x] + h[x]) =>
               Total(f) \in Int /\ Total(h) \in Int /\ Total(k) = Total(f) + Total(h)
<1>. SUFFICES ASSUME NEW f \in [S -> Int], NEW h \in [S -> Int], NEW k \in [S -> Int],
                     \A x \in S : k[x] = f[x] + h[x]
              PROVE  Total(f) \in Int /\ Total(h) \in Int /\ Total(k) = Total(f) + Total(h)
  OBVIOUS
<1>1. PICK c \in Int : c = 1
  OBVIOUS
<1>2. \A x \in S : k[x] = c * f[x] + h[x]
  BY <1>1
<1>3. Total(f) \in Int /\ Total(h) \in Int /\ Total(k) = c * Total(f) + Total(h)
  BY <1>2, TotalLinear
<1>. QED
  BY <1>1, <1>3

\* What is never negative adds up to a natural number.
LEMMA TotalNat == ASSUME NEW S, IsFiniteSet(S), NEW f \in [S -> Nat] PROVE Total(f) \in Nat
<1>1. f \in [S -> Int]
  OBVIOUS
<1>2. PICK F : SumsUp(F, f, S) /\ Total(f) = F[S]
  BY <1>1, TotalRun
<1>3. PICK T : T = {s \in SUBSET S : F[s] \notin Nat}
  OBVIOUS
<1>4. ASSUME T # {} PROVE FALSE
  <2>1. PICK s \in T : \A t \in T : t \subseteq s => t = s
    <3>1. T \in SUBSET SUBSET S
      BY <1>3
    <3>. QED
      BY <1>4, <3>1, SmallestSet
  <2>2. s \in SUBSET S /\ F[s] \notin Nat
    BY <1>3, <2>1
  <2>3. s # {}
    <3>1. s = {} => F[s] = 0
      BY <1>2, <2>2, SumStep
    <3>. QED
      BY <2>2, <3>1
  <2>4. Pick(s) \in s /\ F[s] = f[Pick(s)] + F[s \ {Pick(s)}]
    BY <1>2, <2>2, <2>3, SumStep
  <2>5. F[s \ {Pick(s)}] \in Nat /\ f[Pick(s)] \in Nat
    BY <1>3, <2>1, <2>2, <2>4
  <2>. QED
    BY <2>2, <2>4, <2>5
<1>5. S \in SUBSET S
  OBVIOUS
<1>. QED
  BY <1>2, <1>3, <1>4, <1>5

\* A sum is monotone in what it adds up.
LEMMA TotalAtMost ==
    ASSUME NEW S, IsFiniteSet(S), NEW f \in [S -> Int], NEW h \in [S -> Int], \A x \in S : f[x] <= h[x]
    PROVE  Total(f) \in Int /\ Total(h) \in Int /\ Total(f) <= Total(h)
<1>1. PICK d : d = [x \in S |-> h[x] - f[x]]
  OBVIOUS
<1>2. d \in [S -> Nat] /\ d \in [S -> Int] /\ \A x \in S : h[x] = 1 * f[x] + d[x]
  BY <1>1
<1>3. Total(f) \in Int /\ Total(h) \in Int /\ Total(h) = 1 * Total(f) + Total(d)
  <2>1. Total(f) \in Int /\ Total(h) = 1 * Total(f) + Total(d)
    <3>1. PICK c \in Int : c = 1
      OBVIOUS
    <3>2. \A x \in S : h[x] = c * f[x] + d[x]
      BY <1>2, <3>1
    <3>. QED
      BY <1>2, <3>1, <3>2, TotalLinear
  <2>2. Total(h) \in Int
    BY TotalRun
  <2>. QED
    BY <2>1, <2>2
<1>4. Total(d) \in Nat
  BY <1>2, TotalNat
<1>. QED
  BY <1>3, <1>4

\* What adds up nothing is nothing.
LEMMA TotalZero == ASSUME NEW S, IsFiniteSet(S) PROVE Total([i \in S |-> 0]) = 0
<1>1. PICK f : f = [i \in S |-> 0]
  OBVIOUS
<1>2. f \in [S -> Int] /\ DOMAIN f = S
  BY <1>1
<1>3. PICK g : SumsUp(g, f, S) /\ Total(f) = g[S]
  <2>1. \E g : SumsUp(g, f, S)
    BY SumExists
  <2>2. PICK g : g = CHOOSE k : SumsUp(k, f, S)
    OBVIOUS
  <2>3. SumsUp(g, f, S)
    BY <2>1, <2>2
  <2>. QED
    BY <1>2, <2>2, <2>3, TotalIs
<1>4. PICK T : T = {s \in SUBSET S : g[s] # 0}
  OBVIOUS
<1>5. ASSUME T # {} PROVE FALSE
  <2>1. PICK s \in T : \A t \in T : t \subseteq s => t = s
    BY <1>4, <1>5, SmallestSet
  <2>2. s # {} /\ Pick(s) \in s /\ g[s] = f[Pick(s)] + g[s \ {Pick(s)}]
    BY <1>3, <1>4, <2>1, SumStep
  <2>3. g[s \ {Pick(s)}] = 0 /\ f[Pick(s)] = 0
    BY <1>1, <1>4, <2>1, <2>2
  <2>. QED
    BY <1>4, <2>2, <2>3
<1>. QED
  BY <1>1, <1>3, <1>4, <1>5

\* No part is larger than the whole.
LEMMA TotalHas ==
    ASSUME NEW S, IsFiniteSet(S), NEW f \in [S -> Nat], NEW x \in S
    PROVE  Total(f) \in Nat /\ f[x] <= Total(f)
<1>1. PICK z, h : z = [i \in S |-> 0] /\ h = [i \in S |-> IF i = x THEN f[x] ELSE 0]
  OBVIOUS
<1>2. /\ z \in [S -> Int] /\ h \in [S -> Int] /\ f \in [S -> Int]
      /\ \A i \in S \ {x} : h[i] = z[i]
      /\ \A i \in S : h[i] <= f[i]
      /\ z[x] = 0 /\ h[x] = f[x]
  BY <1>1
<1>3. Total(z) = 0
  BY <1>1, TotalZero
<1>4. Total(h) + z[x] = Total(z) + h[x] /\ Total(h) \in Int
  BY <1>2, TotalMoves
<1>5. Total(h) <= Total(f)
  BY <1>2, TotalAtMost
<1>6. Total(f) \in Nat
  BY TotalNat
<1>7. f[x] \in Nat
  OBVIOUS
<1>. QED
  BY <1>2, <1>3, <1>4, <1>5, <1>6, <1>7

LEMMA TotalSome ==
    ASSUME NEW S, IsFiniteSet(S), NEW f \in [S -> Nat], Total(f) > 0
    PROVE  \E x \in S : f[x] > 0
<1>1. SUFFICES ASSUME \A x \in S : ~(f[x] > 0) PROVE FALSE
  OBVIOUS
<1>2. f = [x \in S |-> 0]
  <2>1. \A x \in S : f[x] = 0
    BY <1>1
  <2>. QED
    BY <2>1
<1>3. Total(f) = 0
  BY <1>2, TotalZero
<1>. QED
  BY <1>3

\* A multiple of every part adds up to the multiple of the whole.
LEMMA TotalTimes ==
    ASSUME NEW S, IsFiniteSet(S)
    PROVE  \A c \in Int : \A f, k \in [S -> Int] :
               (\A x \in S : k[x] = c * f[x]) => Total(f) \in Int /\ Total(k) = c * Total(f)
<1>. SUFFICES ASSUME NEW c \in Int, NEW f \in [S -> Int], NEW k \in [S -> Int],
                     \A x \in S : k[x] = c * f[x]
              PROVE  Total(f) \in Int /\ Total(k) = c * Total(f)
  OBVIOUS
<1>1. PICK z : z = [i \in S |-> 0]
  OBVIOUS
<1>2. z \in [S -> Int] /\ \A x \in S : z[x] = 0
  BY <1>1
<1>3. Total(z) = 0
  BY <1>1, TotalZero
<1>4. \A x \in S : k[x] = c * f[x] + z[x]
  <2>. SUFFICES ASSUME NEW x \in S PROVE k[x] = c * f[x] + z[x]
    OBVIOUS
  <2>1. PICK a \in Int : a = f[x]
    OBVIOUS
  <2>2. c * a \in Int /\ k[x] = c * a /\ z[x] = 0
    BY <1>2, <2>1
  <2>. QED
    BY <2>1, <2>2
<1>5. Total(f) \in Int /\ Total(k) = c * Total(f) + Total(z)
  BY <1>2, <1>4, TotalLinear
<1>6. c * Total(f) \in Int
  BY <1>5
<1>. QED
  BY <1>3, <1>5, <1>6

\* A sum of ones counts.
LEMMA TotalCounts ==
    ASSUME NEW S, IsFiniteSet(S), NEW A \in SUBSET S
    PROVE  Total([x \in S |-> IF x \in A THEN 1 ELSE 0]) = Cardinality(A)
<1>1. PICK f : f = [x \in S |-> IF x \in A THEN 1 ELSE 0]
  OBVIOUS
<1>2. f \in [S -> Int] /\ \A x \in S : f[x] = IF x \in A THEN 1 ELSE 0
  BY <1>1
<1>3. PICK F : SumsUp(F, f, S) /\ Total(f) = F[S]
  BY <1>2, TotalRun
<1>4. PICK T : T = {s \in SUBSET S : F[s] # Cardinality(s \cap A)}
  OBVIOUS
<1>5. ASSUME T # {} PROVE FALSE
  <2>1. PICK s \in T : \A t \in T : t \subseteq s => t = s
    <3>1. T \in SUBSET SUBSET S
      BY <1>4
    <3>. QED
      BY <1>5, <3>1, SmallestSet
  <2>2. s \in SUBSET S /\ F[s] # Cardinality(s \cap A)
    BY <1>4, <2>1
  <2>3. s # {}
    <3>1. s = {} => F[s] = 0 /\ s \cap A = {}
      BY <1>3, <2>2, SumStep
    <3>. QED
      BY <2>2, <3>1, FS_EmptySet
  <2>4. PICK p, r : p = Pick(s) /\ r = s \ {p}
    OBVIOUS
  <2>5. p \in s /\ F[s] = f[p] + F[r]
    BY <1>3, <2>2, <2>3, <2>4, SumStep
  <2>6. r \in SUBSET S /\ F[r] = Cardinality(r \cap A)
    BY <1>4, <2>1, <2>2, <2>4, <2>5
  <2>7. PICK u, v : u = r \cap A /\ v = s \cap A
    OBVIOUS
  <2>8. IsFiniteSet(u) /\ Cardinality(u) \in Nat
    <3>1. u \subseteq S
      BY <2>6, <2>7
    <3>. QED
      BY <3>1, FS_Subset, FS_CardinalityType
  <2>9. CASE p \in A
    <3>1. v = u \cup {p} /\ p \notin u
      BY <2>4, <2>5, <2>7, <2>9
    <3>2. Cardinality(v) = Cardinality(u) + 1
      BY <2>8, <3>1, FS_AddElement
    <3>. QED
      BY <1>2, <2>2, <2>5, <2>6, <2>7, <2>8, <2>9, <3>2
  <2>10. CASE p \notin A
    <3>1. v = u
      BY <2>4, <2>5, <2>7, <2>10
    <3>. QED
      <4>1. f[p] = 0 /\ F[r] = Cardinality(u) /\ F[s] # Cardinality(u)
        BY <1>2, <2>2, <2>5, <2>6, <2>7, <2>10, <3>1
      <4>. QED
        BY <2>5, <2>8, <4>1
  <2>. QED
    BY <2>9, <2>10
<1>6. F[S] = Cardinality(A)
  <2>1. S \in SUBSET S /\ S \cap A = A
    OBVIOUS
  <2>. QED
    BY <1>4, <1>5, <2>1
<1>. QED
  BY <1>1, <1>3, <1>6

-----------------------------------------------------------------------------
(* Ranks *)

LEMMA LeastOf == ASSUME NEW T \in SUBSET Nat, T # {} PROVE \E n \in T : \A m \in T : n <= m
<1>1. \A y, x \in Nat : y < x => <<y, x>> \in OpToRel(<, Nat)
  BY Zenon DEF OpToRel
<1>2. IsWellFoundedOn(OpToRel(<, Nat), Nat)
  BY NatLessThanWellFounded
<1>3. PICK x \in T : \A y \in T : ~(<<y, x>> \in OpToRel(<, Nat))
  BY <1>2, WFMin
<1>4. ASSUME NEW y \in T PROVE x <= y
  <2>1. x \in Nat /\ y \in Nat /\ ~(y < x)
    BY <1>1, <1>3
  <2>. QED
    BY <2>1
<1>. QED
  BY <1>4

\* before[i] holds what comes ahead of i in a strict order of P, the same for all.
Ordered(P, before) ==
    /\ before \in [P -> SUBSET P]
    /\ \A i \in P : i \notin before[i]
    /\ \A i, j \in P : j \in before[i] => before[j] \subseteq before[i]
    /\ \A i, j \in P : i = j \/ i \in before[j] \/ j \in before[i]

First(P, before, n) == {i \in P : Cardinality(before[i]) < n}

LEMMA RankGrows ==
    ASSUME NEW P, IsFiniteSet(P), NEW before, Ordered(P, before), NEW i \in P
    PROVE  /\ IsFiniteSet(before[i]) /\ Cardinality(before[i]) \in Nat
           /\ \A j \in before[i] : j \in P /\ Cardinality(before[j]) \in Nat
                                  /\ Cardinality(before[j]) < Cardinality(before[i])
<1>1. before[i] \subseteq P
  BY DEF Ordered
<1>2. IsFiniteSet(before[i]) /\ Cardinality(before[i]) \in Nat
  BY <1>1, FS_Subset, FS_CardinalityType
<1>3. ASSUME NEW j \in before[i]
      PROVE  Cardinality(before[j]) \in Nat /\ Cardinality(before[j]) < Cardinality(before[i])
  <2>1. before[j] \subseteq before[i] /\ j \notin before[j] /\ before[j] # before[i]
    BY <1>1, <1>3 DEF Ordered
  <2>2. IsFiniteSet(before[j]) /\ Cardinality(before[j]) \in Nat
    BY <1>2, <2>1, FS_Subset, FS_CardinalityType
  <2>3. Cardinality(before[j]) <= Cardinality(before[i]) /\
        (Cardinality(before[j]) = Cardinality(before[i]) => before[j] = before[i])
    BY <1>2, <2>1, FS_Subset
  <2>. QED
    BY <1>2, <2>1, <2>2, <2>3
<1>. QED
  BY <1>1, <1>2, <1>3

\* Exactly n members are among the first n.
LEMMA RankCounts ==
    ASSUME NEW P, IsFiniteSet(P), NEW before, Ordered(P, before)
    PROVE  \A n \in 0..Cardinality(P) : Cardinality(First(P, before, n)) = n
<1>1. \A i \in P : Cardinality(before[i]) \in Nat
  BY RankGrows
<1>2. Cardinality(P) \in Nat
  BY FS_CardinalityType
<1>3. PICK T : T = {n \in Nat : n <= Cardinality(P) /\ Cardinality(First(P, before, n)) # n}
  OBVIOUS
<1>4. ASSUME T # {} PROVE FALSE
  <2>1. PICK n \in T : \A m \in T : n <= m
    BY <1>3, <1>4, LeastOf
  <2>2. n \in Nat /\ n <= Cardinality(P) /\ Cardinality(First(P, before, n)) # n
    BY <1>3, <2>1
  <2>3. n # 0
    <3>1. First(P, before, 0) = {}
      BY <1>1 DEF First
    <3>. QED
      BY <2>2, <3>1, FS_EmptySet
  <2>4. PICK m \in Nat : n = m + 1
    <3>1. n - 1 \in Nat /\ n = (n - 1) + 1
      BY <2>2, <2>3
    <3>. QED
      BY <3>1
  <2>5. PICK A : A = First(P, before, m) /\ A \subseteq P /\ IsFiniteSet(A)
    <3>1. First(P, before, m) \subseteq P
      BY DEF First
    <3>. QED
      BY <3>1, FS_Subset
  <2>6. Cardinality(A) = m
    <3>1. m \notin T /\ m <= Cardinality(P)
      BY <1>2, <2>1, <2>2, <2>4
    <3>. QED
      BY <1>3, <2>5, <3>1
  <2>7. PICK B : B = P \ A /\ B # {}
    <3>1. P # A
      BY <1>2, <2>2, <2>4, <2>6
    <3>. QED
      BY <2>5, <3>1
  <2>8. PICK D : D = {d \in Nat : \E i \in B : d = Cardinality(before[i])}
    OBVIOUS
  <2>9. PICK d \in D : \A e \in D : d <= e
    <3>1. D # {}
      BY <1>1, <2>7, <2>8
    <3>2. D \in SUBSET Nat
      BY <2>8
    <3>. QED
      BY <3>1, <3>2, LeastOf
  <2>10. PICK i \in B : d = Cardinality(before[i]) /\ d \in Nat
    BY <2>8, <2>9
  <2>11. ~(d < m)
    BY <1>1, <2>5, <2>7, <2>10 DEF First
  <2>12. before[i] \subseteq A
    <3>. SUFFICES ASSUME NEW j \in before[i], j \notin A PROVE FALSE
      OBVIOUS
    <3>1. j \in P /\ Cardinality(before[j]) \in Nat /\ Cardinality(before[j]) < d
      BY <2>7, <2>10, RankGrows
    <3>2. Cardinality(before[j]) \in D
      BY <2>7, <2>8, <3>1
    <3>. QED
      BY <2>9, <2>10, <3>1, <3>2
  <2>13. d = m
    <3>1. d <= m
      BY <2>5, <2>6, <2>10, <2>12, FS_Subset
    <3>. QED
      BY <2>10, <2>11, <3>1
  <2>14. First(P, before, n) = A \cup {i}
    <3>1. ASSUME NEW j \in P, Cardinality(before[j]) < n, j \notin A PROVE j = i
      <4>1. Cardinality(before[j]) = m
        BY <1>1, <2>4, <2>5, <3>1 DEF First
      <4>2. Cardinality(before[i]) = m /\ i \in P
        BY <2>7, <2>10, <2>13
      <4>3. j \notin before[i]
        BY <4>1, <4>2, RankGrows
      <4>4. i \notin before[j]
        BY <3>1, <4>1, <4>2, RankGrows
      <4>. QED
        BY <3>1, <4>2, <4>3, <4>4 DEF Ordered
    <3>2. i \in P /\ Cardinality(before[i]) < n
      BY <2>4, <2>7, <2>10, <2>13
    <3>3. ASSUME NEW j \in A PROVE j \in P /\ Cardinality(before[j]) < n
      BY <1>1, <2>4, <2>5, <3>3 DEF First
    <3>. QED
      BY <3>1, <3>2, <3>3 DEF First
  <2>15. Cardinality(A \cup {i}) = m + 1
    BY <2>5, <2>6, <2>7, FS_AddElement
  <2>. QED
    BY <2>2, <2>4, <2>14, <2>15
<1>5. ASSUME NEW n \in 0..Cardinality(P) PROVE Cardinality(First(P, before, n)) = n
  <2>1. n \in Nat /\ n <= Cardinality(P)
    BY <1>2
  <2>. QED
    BY <1>3, <1>4, <2>1
<1>. QED
  BY <1>5

-----------------------------------------------------------------------------
(* What the counters add up to *)

\* A killmail is stored with its first discovery, in the transaction that counts both.
Ledgered ==
    /\ IsFiniteSet(discovery) /\ \A m \in discovery : m[3] \in store
    /\ \A j \in Jobs : job[j].status = "absent" => Counted(job[j], Blank)

Imported == [j \in Jobs |-> job[j].imported]
Found == [j \in Jobs |-> job[j].imported + job[j].reused]

LEMMA CountedNext ==
    CountedOnce' <=> Total(Imported') = Cardinality(store') /\ Total(Found') = Cardinality(discovery')
BY DEF CountedOnce, Imported, Found

LEMMA ImportStep ==
    ASSUME IInv, Ledgered, CountedOnce, NEW w \in Workers, Owns(w),
           NEW k \in worker[w].entries, Import(w, k)
    PROVE  Ledgered' /\ CountedOnce'
<1>1. PICK j \in Jobs : j = worker[w].job /\ job[j] \in JobRow /\ job[j].status = "running"
  BY HeldCursor DEF Owns
<1>2. PICK held : held = Held(w) /\ held \in JobRow /\ Counted(held, job[j])
  <2>1. PICK held : held = [job[j] EXCEPT !.lease = "held"]
    OBVIOUS
  <2>2. held = Held(w) /\ Held(w) \in JobRow
    BY <1>1, <2>1, HeldTyped DEF Held
  <2>3. Counted(held, job[j])
    BY <1>1, <2>1 DEF JobRow, Counted
  <2>. QED
    BY <2>2, <2>3
<1>3. PICK mark : mark = <<held.subject, worker[w].feed, k>>
  OBVIOUS
<1>4. store' = store \cup {k} /\ discovery' = discovery \cup {mark} /\ mark[3] = k
  BY <1>2, <1>3 DEF Import
<1>5. PICK i, u : /\ i = IF k \in store THEN job[j].imported ELSE job[j].imported + 1
                  /\ u = IF k \in store /\ mark \notin discovery THEN job[j].reused + 1 ELSE job[j].reused
  OBVIOUS
<1>6. job[j].imported \in Nat /\ job[j].reused \in Nat /\ i \in Nat /\ u \in Nat
  BY <1>1, <1>5 DEF JobRow
<1>7. PICK row : row = [held EXCEPT !.imported = i, !.reused = u]
  OBVIOUS
<1>8. row.imported = i /\ row.reused = u /\ row.status = held.status /\ job' = [job EXCEPT ![j] = row]
  <2>1. Save(w, row)
    BY <1>2, <1>3, <1>5, <1>7 DEF Import, Counted
  <2>2. row.imported = i /\ row.reused = u /\ row.status = held.status
    BY <1>2, <1>7 DEF JobRow
  <2>. QED
    BY <1>1, <2>1, <2>2 DEF Save
<1>9. job'[j] = row /\ \A x \in Jobs \ {j} : job'[x] = job[x]
  BY <1>8, RowsPut
<1>10. IsFiniteSet(store) /\ IsFiniteSet(discovery)
  <2>1. store \subseteq 1..MaxKills /\ IsFiniteSet(1..MaxKills)
    BY ConstantsOK, FS_Interval DEF IInv, TypeOK
  <2>. QED
    BY <2>1, FS_Subset DEF Ledgered
<1>11. /\ Cardinality(store) \in Nat /\ Cardinality(discovery) \in Nat
       /\ Cardinality(store') = IF k \in store THEN Cardinality(store) ELSE Cardinality(store) + 1
       /\ IsFiniteSet(discovery')
       /\ Cardinality(discovery') = IF mark \in discovery THEN Cardinality(discovery) ELSE Cardinality(discovery) + 1
  BY <1>4, <1>10, FS_AddElement, FS_CardinalityType
<1>12. mark \in discovery => k \in store
  BY <1>4 DEF Ledgered
<1>13. /\ Imported \in [Jobs -> Nat] /\ Imported' \in [Jobs -> Nat] /\ Found \in [Jobs -> Nat] /\ Found' \in [Jobs -> Nat]
       /\ \A x \in Jobs \ {j} : Imported'[x] = Imported[x] /\ Found'[x] = Found[x]
       /\ Imported[j] = job[j].imported /\ Imported'[j] = i
       /\ Found[j] = job[j].imported + job[j].reused /\ Found'[j] = i + u
  <2>1. \A x \in Jobs : job[x].imported \in Nat /\ job[x].reused \in Nat
    BY DEF IInv, TypeOK, JobRow
  <2>2. \A x \in Jobs : job'[x].imported \in Nat /\ job'[x].reused \in Nat
    BY <1>6, <1>8, <1>9, <2>1
  <2>. QED
    BY <1>8, <1>9, <2>1, <2>2 DEF Imported, Found
<1>14. IsFiniteSet(Jobs)
  BY ConstantsOK, FS_Interval DEF Jobs
<1>15. /\ Total(Imported) \in Nat /\ Total(Imported') \in Nat
       /\ Total(Imported') + job[j].imported = Total(Imported) + i
  <2>1. PICK f, h : f = Imported /\ h = Imported'
    OBVIOUS
  <2>2. f \in [Jobs -> Nat] /\ h \in [Jobs -> Nat] /\ \A x \in Jobs \ {j} : h[x] = f[x]
    BY <1>13, <2>1
  <2>3. Total(f) \in Nat /\ Total(h) \in Nat
    BY <1>14, <2>2, TotalNat
  <2>4. f \in [Jobs -> Int] /\ h \in [Jobs -> Int]
    BY <2>2
  <2>5. Total(h) + f[j] = Total(f) + h[j]
    BY <1>14, <2>2, <2>4, TotalMoves
  <2>. QED
    BY <1>13, <2>1, <2>3, <2>5
<1>16. /\ Total(Found) \in Nat /\ Total(Found') \in Nat
       /\ Total(Found') + (job[j].imported + job[j].reused) = Total(Found) + (i + u)
  <2>1. PICK f, h : f = Found /\ h = Found'
    OBVIOUS
  <2>2. f \in [Jobs -> Nat] /\ h \in [Jobs -> Nat] /\ \A x \in Jobs \ {j} : h[x] = f[x]
    BY <1>13, <2>1
  <2>3. Total(f) \in Nat /\ Total(h) \in Nat
    BY <1>14, <2>2, TotalNat
  <2>4. f \in [Jobs -> Int] /\ h \in [Jobs -> Int]
    BY <2>2
  <2>5. Total(h) + f[j] = Total(f) + h[j]
    BY <1>14, <2>2, <2>4, TotalMoves
  <2>. QED
    BY <1>13, <2>1, <2>3, <2>5
<1>17. Total(Imported) = Cardinality(store) /\ Total(Found) = Cardinality(discovery)
  BY DEF CountedOnce, Imported, Found
<1>18. Total(Imported') = Cardinality(store') /\ Total(Found') = Cardinality(discovery')
  BY <1>5, <1>6, <1>11, <1>12, <1>15, <1>16, <1>17
<1>19. CountedOnce'
  BY <1>18, CountedNext
<1>20. Ledgered'
  <2>1. row.status = "running"
    BY <1>1, <1>2, <1>8, HeldCursor
  <2>. QED
    BY <1>4, <1>9, <1>11, <2>1 DEF Ledgered
<1>. QED
  BY <1>19, <1>20

\* Only an import touches the stores.
LEMMA StoresStay ==
    ASSUME [Next]_vars
    PROVE  \/ UNCHANGED <<store, discovery>>
           \/ \E w \in Workers : Owns(w) /\ \E k \in worker[w].entries : Import(w, k)
<1>1. UNCHANGED <<store, discovery>> \/ \E w \in Workers : TakeEntry(w) /\ ~UNCHANGED <<store, discovery>>
  BY DEF Next, Work, Disturb, Api, Clock, Cancel, LapseLease, ElapseBackoff, PostKill, ExpireListing,
     BeginCollect, CommitCollect, BeginRetry, CommitRetry, Fail, Interrupt, Crash, PickJob, Claim, Abandon,
     Dispatch, FinishProfile, FinishMembership, OpenPage, FetchPage, CachePage, CommitPage, ResolveMetadata,
     FinishMetadata, RejectStage, vars, data
<1>. QED
  BY <1>1 DEF TakeEntry

LEMMA CountsStep ==
    ASSUME IInv, Fresh, Ledgered, CountedOnce, [Next]_vars
    PROVE  Ledgered' /\ CountedOnce'
<1>1. CASE \E w \in Workers : Owns(w) /\ \E k \in worker[w].entries : Import(w, k)
  BY <1>1, ImportStep
<1>2. CASE ~ \E w \in Workers : Owns(w) /\ \E k \in worker[w].entries : Import(w, k)
  <2>1. UNCHANGED <<store, discovery>>
    BY <1>2, StoresStay
  <2>2. ASSUME NEW w \in Workers, NEW row \in JobRow, Worked(w, row) PROVE \A j \in Jobs : Counted(job'[j], job[j])
    <3>1. PICK i \in Jobs : i = worker[w].job
      BY <2>2, WorkedRow
    <3>2. job' = [job EXCEPT ![i] = row] /\ Counted(row, job[i])
      BY <1>2, <2>2, <3>1, WorkedRow DEF Worked
    <3>. QED
      BY <3>2, RowsPut DEF Counted
  <2>3. ASSUME NEW i \in Jobs, NEW row \in JobRow, Touched(i, row) PROVE \A j \in Jobs : Counted(job'[j], job[j])
    <3>1. job[i] \in JobRow /\ job' = [job EXCEPT ![i] = row] /\ Progress(row) = Progress(job[i])
      BY <2>3 DEF IInv, TypeOK, Touched
    <3>2. Counted(row, job[i])
      BY <3>1, SameProgress
    <3>. QED
      BY <3>1, <3>2, RowsPut DEF Counted
  <2>4. ASSUME NEW i \in Jobs, NEW row \in JobRow, Inserted(i, row) PROVE \A j \in Jobs : Counted(job'[j], job[j])
    <3>1. job' = [job EXCEPT ![i] = row] /\ Counted(row, Blank) /\ Counted(job[i], Blank)
      BY <2>4 DEF Inserted, Ledgered
    <3>. QED
      BY <3>1, RowsPut DEF Counted
  <2>5. \A j \in Jobs : Counted(job'[j], job[j])
    BY <2>2, <2>3, <2>4, EveryChange DEF Changed, Counted
  <2>6. \A j \in Jobs : job'[j].status = "absent" => job[j].status = "absent"
    BY NextForward DEF Forward, Moved
  <2>7. Ledgered'
    BY <2>1, <2>5, <2>6 DEF Ledgered, Counted
  <2>8. Imported' = Imported /\ Found' = Found
    BY <2>5 DEF Imported, Found, Counted
  <2>9. Total(Imported) = Cardinality(store) /\ Total(Found) = Cardinality(discovery)
    BY DEF CountedOnce, Imported, Found
  <2>. QED
    BY <2>1, <2>7, <2>8, <2>9, CountedNext
<1>. QED
  BY <1>1, <1>2

\* Across crashes, repeated pages and overlapping reports, the counters of all reports add up to
\* the killmails stored and to the discoveries recorded (page_stage's transaction per entry).
THEOREM CountsAddUp == Spec => []CountedOnce
<1>1. Init => Fresh /\ Ledgered /\ CountedOnce
  <2>. SUFFICES ASSUME Init PROVE Fresh /\ Ledgered /\ CountedOnce
    OBVIOUS
  <2>1. Fresh /\ Ledgered
    BY FS_EmptySet DEF Init, Fresh, Ledgered, Blank, Counted
  <2>2. IsFiniteSet(Jobs)
    BY ConstantsOK, FS_Interval DEF Jobs
  <2>3. Imported = [j \in Jobs |-> 0] /\ Found = [j \in Jobs |-> 0]
    BY DEF Init, Blank, Imported, Found
  <2>4. Cardinality(store) = 0 /\ Cardinality(discovery) = 0
    BY FS_EmptySet DEF Init
  <2>. QED
    BY <2>1, <2>2, <2>3, <2>4, TotalZero DEF CountedOnce, Imported, Found
<1>2. IInv /\ Fresh /\ Ledgered /\ CountedOnce /\ [Next]_vars => (Fresh /\ Ledgered /\ CountedOnce)'
  BY CountsStep, NextForward DEF Forward
<1>. QED
  BY <1>1, <1>2, IInvAlways, PTL DEF Spec

-----------------------------------------------------------------------------
(* What a feed's pages cover *)

\* How deep in a feed a killmail is listed once n have been posted.
Shown(s, f, n) == {x \in KillFeed[s][f] : x <= n}
Depth(s, f, n, k) == Cardinality({x \in Shown(s, f, n) : x >= k})

\* What a report asked for and the discoveries d lack.
Missing(row, f, d) == {k \in KillFeed[row.subject][f] : InWindow(k, row) /\ <<row.subject, f, k>> \notin d}
Beyond(row, f, d, n, m) == \A k \in Missing(row, f, d) : m < Depth(row.subject, f, n, k)

\* What a run may conclude from a page in hand, and from a cached one.
Covers(row, page, d, n) ==
    /\ page.empty => Missing(row, page.feed, d) = {}
    /\ page.past \/ (\E x \in page.entries : x < row.from) => Missing(row, page.feed, d) \subseteq page.entries
    /\ \A k \in Missing(row, page.feed, d) \ page.entries :
          page.page * PageSize < Depth(row.subject, page.feed, n, k)
AsPage(e) == [feed |-> e.feed, page |-> e.page, entries |-> e.kills, empty |-> e.kills = {}, past |-> FALSE]

\* A row ahead of which nothing is cached.
Reached(row, e) ==
    /\ e.feed = "kills" => row.stage \in {"kills", "losses", "metadata", "finished"}
    /\ e.feed = "losses" => row.stage \in {"losses", "metadata", "finished"}
    /\ e.feed = row.stage => e.page <= row.page
FeedsRead(row, d) == \A f \in Feeds : row.feed[f] \in {"feed_exhausted", "reached_date"} => Missing(row, f, d) = {}
Sound(row, d, n, c) ==
    /\ row.to <= n
    /\ FeedsRead(row, d)
    /\ row.stage \in Feeds => Beyond(row, row.stage, d, n, (row.page - 1) * PageSize)
    /\ \A e \in c : e.subject = row.subject =>
          Reached(row, e) /\ (e.feed = row.stage /\ e.page = row.page => Covers(row, AsPage(e), d, n))

RowsSound == \A j \in Jobs : job[j].status # "absent" /\ Only(j) => Sound(job[j], discovery, posted, cache)
InHand(me) == me.pc \in {"publish", "entries"}
RunSound(w) ==
    /\ worker[w].pc = "fetch" => ~worker[w].past
    /\ worker[w].pc = "publish" => (worker[w].empty <=> worker[w].entries = {})
    /\ InHand(worker[w]) /\ Owns(w) /\ Only(worker[w].job) =>
          Covers(job[worker[w].job], worker[w], discovery, posted)
RunsSound == \A w \in Workers : RunSound(w)
CacheOwned == \A e \in cache : \E j \in Jobs : job[j].status # "absent" /\ job[j].subject = e.subject
Unread == \A j \in Jobs : job[j].status = "absent" =>
              job[j].to <= posted /\ \A f \in Feeds : job[j].feed[f] = "none"

PagesSound == RowsSound /\ RunsSound /\ CacheOwned /\ Unread

LEMMA DepthGrows ==
    ASSUME NEW s \in Subjects, NEW f \in Feeds, NEW n \in Nat, NEW p \in Nat, n <= p, NEW k \in Nat
    PROVE  /\ IsFiniteSet(Shown(s, f, n)) /\ Shown(s, f, n) \subseteq Nat
           /\ Depth(s, f, n, k) \in Nat /\ Depth(s, f, p, k) \in Nat /\ Depth(s, f, n, k) <= Depth(s, f, p, k)
<1>1. KillFeed[s][f] \subseteq 1..MaxKills /\ IsFiniteSet(1..MaxKills)
  BY ConstantsOK, FS_Interval
<1>2. PICK all : all = KillFeed[s][f] /\ IsFiniteSet(all) /\ all \subseteq Nat
  <2>1. PICK all, every : all = KillFeed[s][f] /\ every = 1..MaxKills
    OBVIOUS
  <2>2. all \subseteq every /\ IsFiniteSet(every) /\ all \subseteq Nat
    BY <1>1, <2>1
  <2>. QED
    BY <2>1, <2>2, FS_Subset
<1>3. PICK A, B : A = {x \in Shown(s, f, n) : x >= k} /\ B = {x \in Shown(s, f, p) : x >= k}
  OBVIOUS
<1>4. A \subseteq B /\ B \subseteq all /\ Shown(s, f, n) \subseteq all
  BY <1>2, <1>3 DEF Shown
<1>5. IsFiniteSet(B) /\ IsFiniteSet(Shown(s, f, n))
  BY <1>2, <1>4, FS_Subset
<1>6. IsFiniteSet(A) /\ Cardinality(A) <= Cardinality(B) /\ Cardinality(A) \in Nat /\ Cardinality(B) \in Nat
  BY <1>4, <1>5, FS_Subset, FS_CardinalityType
<1>. QED
  BY <1>2, <1>3, <1>4, <1>5, <1>6 DEF Depth

\* A page of a feed that reaches beyond it is not empty: depths leave no gaps.
LEMMA NoGap ==
    ASSUME NEW s \in Subjects, NEW f \in Feeds, NEW n \in Nat, NEW m \in Nat,
           NEW k \in Shown(s, f, n), m < Depth(s, f, n, k)
    PROVE  \E x \in Shown(s, f, n) : Depth(s, f, n, x) = m + 1
<1>1. PICK S : S = Shown(s, f, n) /\ IsFiniteSet(S) /\ S \subseteq Nat
  BY DepthGrows
<1>2. \A x \in S : Depth(s, f, n, x) = Cardinality({y \in S : y >= x}) /\ Depth(s, f, n, x) \in Nat
  <2>. SUFFICES ASSUME NEW x \in S
                PROVE  Depth(s, f, n, x) = Cardinality({y \in S : y >= x}) /\ Depth(s, f, n, x) \in Nat
    OBVIOUS
  <2>1. x \in Nat
    BY <1>1
  <2>2. Depth(s, f, n, x) \in Nat
    BY <2>1, DepthGrows
  <2>. QED
    BY <1>1, <2>2 DEF Depth
<1>3. PICK D : D = {d \in Nat : \E x \in S : d = Depth(s, f, n, x) /\ m < d}
  OBVIOUS
<1>4. Depth(s, f, n, k) \in D
  BY <1>1, <1>2, <1>3
<1>5. PICK d \in D : \A e \in D : d <= e
  BY <1>3, <1>4, LeastOf
<1>6. PICK x \in S : d = Depth(s, f, n, x) /\ m < d
  BY <1>3, <1>5
<1>7. PICK T : T = {y \in S : y > x}
  OBVIOUS
<1>8. IsFiniteSet(T) /\ Cardinality(T) \in Nat /\ d = Cardinality(T) + 1
  <2>1. IsFiniteSet(T) /\ x \notin T /\ {y \in S : y >= x} = T \cup {x}
    <3>1. T \subseteq S /\ x \notin T
      BY <1>1, <1>7
    <3>2. \A y \in S : y >= x <=> y > x \/ y = x
      BY <1>1, <1>6
    <3>. QED
      BY <1>1, <1>6, <1>7, <3>1, <3>2, FS_Subset
  <2>2. Cardinality(T \cup {x}) = Cardinality(T) + 1 /\ Cardinality(T) \in Nat
    BY <2>1, FS_AddElement, FS_CardinalityType
  <2>. QED
    BY <1>2, <1>6, <2>1, <2>2
<1>9. Cardinality(T) <= m
  <2>1. CASE T = {}
    BY <2>1, FS_EmptySet
  <2>2. CASE T # {}
    <3>1. T \in SUBSET Nat
      BY <1>1, <1>7
    <3>2. PICK z \in T : \A y \in T : z <= y
      BY <2>2, <3>1, LeastOf
    <3>3. {y \in S : y >= z} = T
      <4>1. \A y \in S : y >= z <=> y \in T
        BY <1>1, <1>6, <1>7, <3>2
      <4>. QED
        BY <1>7, <4>1
    <3>4. z \in S /\ Depth(s, f, n, z) = Cardinality(T)
      BY <1>2, <1>7, <3>3
    <3>5. ~(m < Cardinality(T))
      <4>1. SUFFICES ASSUME m < Cardinality(T) PROVE FALSE
        OBVIOUS
      <4>2. Cardinality(T) \in D
        BY <1>3, <1>8, <3>4, <4>1
      <4>3. d <= Cardinality(T)
        BY <1>5, <4>2
      <4>. QED
        BY <1>8, <4>3
    <3>. QED
      BY <1>8, <3>5
  <2>. QED
    BY <2>1, <2>2
<1>10. d = m + 1
  BY <1>6, <1>8, <1>9
<1>. QED
  BY <1>1, <1>6, <1>10

\* What was concluded stays true while the report is asked the same, discoveries and killmails
\* are added, and the cache forgets.
LEMMA LessMissing ==
    ASSUME NEW row \in JobRow, NEW next \in JobRow, Asked(next, row), NEW f \in Feeds,
           NEW d, NEW e, d \subseteq e
    PROVE  Missing(next, f, e) \subseteq Missing(row, f, d)
BY DEF Missing, Asked, InWindow

LEMMA MissingDeeper ==
    ASSUME NEW row \in JobRow, NEW next \in JobRow, Asked(next, row), NEW f \in Feeds,
           NEW d, NEW e, d \subseteq e, NEW n \in Nat, NEW p \in Nat, n <= p,
           NEW m \in Nat, NEW k \in Missing(next, f, e), m < Depth(row.subject, f, n, k)
    PROVE  m < Depth(next.subject, f, p, k)
<1>1. row.subject \in Subjects /\ next.subject = row.subject
  BY DEF JobRow, Asked
<1>2. k \in Nat
  <2>1. KillFeed[row.subject][f] \subseteq 1..MaxKills
    BY <1>1, ConstantsOK
  <2>. QED
    BY <1>1, <2>1 DEF Missing
<1>3. PICK a, b \in Nat : a = Depth(row.subject, f, n, k) /\ b = Depth(row.subject, f, p, k) /\ a <= b
  BY <1>1, <1>2, DepthGrows
<1>. QED
  BY <1>1, <1>3

Paged(page) == page.feed \in Feeds /\ page.page \in Nat

LEMMA StillCovers ==
    ASSUME NEW row \in JobRow, NEW next \in JobRow, Asked(next, row),
           NEW d, NEW e, d \subseteq e, NEW n \in Nat, NEW p \in Nat, n <= p,
           NEW page, Paged(page), Covers(row, page, d, n)
    PROVE  Covers(next, page, e, p)
<1>1. next.from = row.from /\ Missing(next, page.feed, e) \subseteq Missing(row, page.feed, d)
  BY LessMissing DEF Asked, Paged
<1>2. PICK m \in Nat : m = page.page * PageSize
  BY ConstantsOK DEF Paged
<1>3. ASSUME NEW k \in Missing(next, page.feed, e) \ page.entries
      PROVE  m < Depth(next.subject, page.feed, p, k)
  <2>1. m < Depth(row.subject, page.feed, n, k)
    BY <1>1, <1>2 DEF Covers
  <2>. QED
    BY <2>1, MissingDeeper DEF Paged
<1>. QED
  BY <1>1, <1>2, <1>3 DEF Covers

LEMMA AsPagePaged == ASSUME IInv, NEW e \in cache PROVE Paged(AsPage(e)) /\ e.page \in Nat /\ e.feed \in Feeds
BY ConstantsOK DEF IInv, TypeOK, CacheRow, Paged, AsPage

LEMMA StillBeyond ==
    ASSUME NEW row \in JobRow, NEW next \in JobRow, Asked(next, row), NEW f \in Feeds,
           NEW d, NEW e, d \subseteq e, NEW n \in Nat, NEW p \in Nat, n <= p, NEW m \in Nat,
           Beyond(row, f, d, n, m)
    PROVE  Beyond(next, f, e, p, m)
<1>. SUFFICES ASSUME NEW k \in Missing(next, f, e) PROVE m < Depth(next.subject, f, p, k)
  BY DEF Beyond
<1>1. m < Depth(row.subject, f, n, k)
  BY LessMissing DEF Beyond
<1>. QED
  BY <1>1, MissingDeeper

LEMMA StillRead ==
    ASSUME NEW row \in JobRow, NEW next \in JobRow, Asked(next, row), next.feed = row.feed,
           NEW d, NEW e, d \subseteq e, FeedsRead(row, d)
    PROVE  FeedsRead(next, e)
<1>. SUFFICES ASSUME NEW f \in Feeds, next.feed[f] \in {"feed_exhausted", "reached_date"}
              PROVE  Missing(next, f, e) = {}
  BY DEF FeedsRead
<1>1. Missing(row, f, d) = {}
  BY DEF FeedsRead
<1>. QED
  BY <1>1, LessMissing

LEMMA StillSound ==
    ASSUME IInv, NEW row \in JobRow, NEW next \in JobRow, Asked(next, row), Steady(next, row),
           NEW d, NEW e, d \subseteq e, NEW n \in Nat, NEW p \in Nat, n <= p,
           NEW c \in SUBSET cache, Sound(row, d, n, cache)
    PROVE  Sound(next, e, p, c)
<1>1. next.to <= p
  BY DEF Sound, Asked, JobRow
<1>2. FeedsRead(next, e)
  BY StillRead DEF Sound, Steady
<1>3. ASSUME next.stage \in Feeds PROVE Beyond(next, next.stage, e, p, (next.page - 1) * PageSize)
  <2>1. PICK m \in Nat : m = (row.page - 1) * PageSize
    <3>1. PICK a \in Nat : a = row.page - 1
      BY ConstantsOK DEF JobRow
    <3>2. a * PageSize \in Nat
      BY ConstantsOK
    <3>. QED
      BY <3>1, <3>2
  <2>2. Beyond(row, row.stage, d, n, m)
    BY <1>3, <2>1 DEF Sound, Steady
  <2>3. row.stage \in Feeds /\ Beyond(next, row.stage, e, p, m)
    BY <1>3, <2>2, StillBeyond DEF Steady
  <2>. QED
    BY <2>1, <2>3 DEF Steady
<1>4. ASSUME NEW x \in c, x.subject = next.subject
      PROVE  Reached(next, x) /\ (x.feed = next.stage /\ x.page = next.page => Covers(next, AsPage(x), e, p))
  <2>1. /\ Reached(row, x)
        /\ x.feed = row.stage /\ x.page = row.page => Covers(row, AsPage(x), d, n)
    BY <1>4 DEF Sound, Asked
  <2>2. Reached(next, x)
    BY <2>1 DEF Reached, Steady
  <2>3. Paged(AsPage(x))
    BY AsPagePaged
  <2>4. Covers(row, AsPage(x), d, n) => Covers(next, AsPage(x), e, p)
    BY <2>3, StillCovers
  <2>. QED
    BY <2>1, <2>2, <2>4 DEF Steady
<1>. QED
  BY <1>1, <1>2, <1>3, <1>4 DEF Sound

\* A page as upstream lists it, when nothing missing comes before it.
LEMMA PageCovers ==
    ASSUME NEW row \in JobRow, NEW f \in Feeds, NEW n \in Nat, row.to <= n, NEW d,
           NEW p \in Nat \ {0}, Beyond(row, f, d, n, (p - 1) * PageSize),
           NEW page, page.feed = f, page.page = p, ~page.past,
           page.empty <=> page.entries = {},
           page.entries = {k \in Shown(row.subject, f, n) :
               (p - 1) * PageSize < Depth(row.subject, f, n, k) /\ Depth(row.subject, f, n, k) <= p * PageSize}
    PROVE  Covers(row, page, d, n)
<1>. DEFINE depth(k) == Depth(row.subject, f, n, k)
<1>1. PICK lo, hi \in Nat : lo = (p - 1) * PageSize /\ hi = p * PageSize /\ lo < hi
  <2>1. PICK a \in Nat, c \in Nat : a = p - 1 /\ c = PageSize /\ c > 0
    BY ConstantsOK
  <2>2. a * c \in Nat /\ (a + 1) * c = a * c + c
    BY <2>1
  <2>. QED
    BY <2>1, <2>2
<1>2. row.subject \in Subjects /\ row.from \in Nat /\ row.to \in Nat
  BY DEF JobRow
<1>3. PICK S : S = Shown(row.subject, f, n) /\ S \subseteq Nat /\ IsFiniteSet(S)
  <2>1. n \in Nat /\ n <= n
    OBVIOUS
  <2>2. Shown(row.subject, f, n) \subseteq Nat /\ IsFiniteSet(Shown(row.subject, f, n))
    BY <1>2, <2>1, DepthGrows
  <2>. QED
    BY <2>2
<1>4. ASSUME NEW k \in Missing(row, f, d)
      PROVE  k \in S /\ lo < depth(k) /\ depth(k) \in Nat /\ row.from <= k
  <2>1. k \in KillFeed[row.subject][f] /\ row.from <= k /\ k <= row.to
    BY DEF Missing, InWindow
  <2>2. KillFeed[row.subject][f] \subseteq 1..MaxKills
    BY <1>2, ConstantsOK
  <2>3. k \in Nat /\ k <= n
    BY <1>2, <2>1, <2>2
  <2>4. k \in S
    BY <1>3, <2>1, <2>3 DEF Shown
  <2>5. lo < depth(k)
    BY <1>1 DEF Beyond
  <2>. QED
    BY <1>2, <2>1, <2>3, <2>4, <2>5, DepthGrows
<1>5. \A k \in S : depth(k) \in Nat /\ (k \in page.entries <=> lo < depth(k) /\ depth(k) <= hi)
  <2>. SUFFICES ASSUME NEW k \in S PROVE depth(k) \in Nat /\ (k \in page.entries <=> lo < depth(k) /\ depth(k) <= hi)
    OBVIOUS
  <2>1. k \in Nat
    BY <1>3
  <2>2. depth(k) \in Nat
    BY <1>2, <2>1, DepthGrows
  <2>. QED
    BY <1>1, <1>3, <2>2
<1>6. ASSUME page.empty PROVE Missing(row, f, d) = {}
  <2>. SUFFICES ASSUME NEW k \in Missing(row, f, d) PROVE FALSE
    OBVIOUS
  <2>1. PICK x \in S : depth(x) = lo + 1
    BY <1>2, <1>3, <1>4, NoGap
  <2>2. x \in page.entries
    BY <1>1, <1>5, <2>1
  <2>. QED
    BY <1>6, <2>2
<1>7. ASSUME NEW x \in page.entries, x < row.from, NEW k \in Missing(row, f, d) PROVE k \in page.entries
  <2>1. x \in S /\ depth(x) <= hi /\ depth(x) \in Nat
    BY <1>3, <1>5
  <2>2. x \in Nat /\ k \in Nat /\ x < k /\ k \in S
    BY <1>2, <1>3, <1>4, <1>7, <2>1
  <2>3. depth(k) <= depth(x)
    <3>1. PICK A, B : A = {y \in S : y >= k} /\ B = {y \in S : y >= x}
      OBVIOUS
    <3>2. \A y \in S : y >= k => y >= x
      BY <1>3, <2>2
    <3>3. A \subseteq B /\ B \subseteq S
      BY <3>1, <3>2
    <3>4. IsFiniteSet(B) /\ Cardinality(A) <= Cardinality(B)
      BY <1>3, <3>3, FS_Subset
    <3>. QED
      BY <1>3, <3>1, <3>4 DEF Depth
  <2>4. lo < depth(k) /\ depth(k) \in Nat
    BY <1>4
  <2>. QED
    BY <1>5, <2>1, <2>2, <2>3, <2>4
<1>8. ASSUME NEW k \in Missing(row, f, d) \ page.entries PROVE hi < depth(k)
  BY <1>4, <1>5
<1>. QED
  BY <1>1, <1>6, <1>7, <1>8 DEF Covers

\* Rows keep what they were asked, stay created, and are Only later only if they were.
LEMMA Since ==
    ASSUME IInv, Fresh, [Next]_vars
    PROVE  /\ discovery \subseteq discovery' /\ posted \in Nat /\ posted' \in Nat /\ posted <= posted'
           /\ \A j \in Jobs : job[j] \in JobRow /\ job'[j] \in JobRow
           /\ \A j \in Jobs : job[j].status # "absent" =>
                 /\ Asked(job'[j], job[j]) /\ job'[j].status # "absent" /\ (Only(j)' => Only(j))
<1>1. discovery \subseteq discovery'
  BY StoresStay DEF Import
<1>2. posted \in Nat /\ posted' \in Nat /\ posted <= posted'
  <2>1. posted \in Nat
    BY ConstantsOK DEF IInv, TypeOK
  <2>2. posted' = posted \/ PostKill
    BY DEF Next, Work, Disturb, Api, Clock, Cancel, LapseLease, ElapseBackoff, ExpireListing,
       BeginCollect, CommitCollect, BeginRetry, CommitRetry, Fail, Interrupt, Crash, PickJob, Claim, Abandon,
       Dispatch, FinishProfile, FinishMembership, OpenPage, FetchPage, CachePage, TakeEntry, CommitPage,
       ResolveMetadata, FinishMetadata, RejectStage, vars, data
  <2>. QED
    BY <2>1, <2>2 DEF PostKill
<1>3. \A j \in Jobs : job[j] \in JobRow /\ job'[j] \in JobRow
  BY NextIInv DEF IInv, TypeOK
<1>4. \A j \in Jobs : job[j].status # "absent" => Asked(job'[j], job[j])
  <2>1. ASSUME NEW w \in Workers, NEW row \in JobRow, Worked(w, row) PROVE \A j \in Jobs : Asked(job'[j], job[j])
    <3>1. PICK i \in Jobs : i = worker[w].job
      BY <2>1, WorkedRow
    <3>2. job' = [job EXCEPT ![i] = row] /\ Asked(row, job[i])
      BY <2>1, <3>1, WorkedRow
    <3>. QED
      BY <3>2, RowsPut DEF Asked
  <2>2. ASSUME NEW i \in Jobs, NEW row \in JobRow, Touched(i, row) PROVE \A j \in Jobs : Asked(job'[j], job[j])
    <3>1. job[i] \in JobRow /\ job' = [job EXCEPT ![i] = row] /\ Progress(row) = Progress(job[i])
      BY <2>2 DEF IInv, TypeOK, Touched
    <3>2. Asked(row, job[i])
      BY <3>1, SameProgress
    <3>. QED
      BY <3>1, <3>2, RowsPut DEF Asked
  <2>3. ASSUME NEW i \in Jobs, NEW row \in JobRow, Inserted(i, row), NEW j \in Jobs, job[j].status # "absent"
        PROVE  Asked(job'[j], job[j])
    <3>1. job' = [job EXCEPT ![i] = row] /\ i # j
      BY <2>3 DEF Inserted
    <3>. QED
      BY <3>1, RowsPut DEF Asked
  <2>. QED
    BY <2>1, <2>2, <2>3, EveryChange DEF Changed, Asked
<1>5. \A j \in Jobs : job[j].status # "absent" => job'[j].status # "absent"
  BY NextForward DEF Forward, Moved
<1>6. ASSUME NEW j \in Jobs, job[j].status # "absent", Only(j)' PROVE Only(j)
  <2>. SUFFICES ASSUME NEW i \in Jobs \ {j}, job[i].status # "absent" PROVE job[i].subject # job[j].subject
    BY DEF Only
  <2>1. job'[i].status # "absent" /\ job'[i].subject = job[i].subject /\ job'[j].subject = job[j].subject
    BY <1>4, <1>5, <1>6 DEF Asked
  <2>2. job'[i].subject # job'[j].subject
    BY <1>6, <2>1 DEF Only
  <2>. QED
    BY <2>1, <2>2
<1>. QED
  BY <1>1, <1>2, <1>3, <1>4, <1>5, <1>6

\* A run that owns a row now owned it before, unless it moved itself.
LEMMA OwnedBefore ==
    ASSUME IInv, [Next]_vars, NEW v \in Workers, worker'[v] = worker[v], Owns(v)'
    PROVE  Owns(v)
<1>1. PICK j \in Jobs : j = worker[v].job /\ worker[v].pc \in Working /\ worker[v].token \in Tokens
  BY DEF IInv, Ownership, Owns, Working
<1>2. job'[j].status = "running" /\ job'[j].token = worker[v].token
  BY <1>1 DEF Owns
<1>3. SUFFICES ASSUME job'[j] # job[j] PROVE Owns(v)
  BY <1>1, <1>2 DEF Owns
<1>4. ASSUME NEW w \in Workers, NEW row \in JobRow, Worked(w, row) PROVE Owns(v)
  <2>1. worker[w].job = j /\ job'[j] = row
    BY <1>3, <1>4, WorkedRow, RowsPut
  <2>2. row.token \in {worker[w].token, NoToken} /\ worker[w].pc \in Working /\ Owns(w)
    BY <1>4 DEF Worked, Owns
  <2>3. worker[w].token = worker[v].token
    BY <1>1, <1>2, <2>1, <2>2, ConstantsOK
  <2>4. v = w
    BY <1>1, <2>2, <2>3 DEF IInv, Ownership
  <2>. QED
    BY <2>2, <2>4
<1>5. ASSUME NEW i \in Jobs, NEW row \in JobRow, Touched(i, row) PROVE Owns(v)
  <2>1. i = j /\ job'[j] = row
    BY <1>3, <1>5, RowsPut DEF Touched
  <2>2. worker[v].token \in TokensInUse
    BY DEF TokensInUse
  <2>3. job[j].status = "running" /\ row.token = job[j].token
    BY <1>2, <1>5, <2>1, <2>2 DEF Touched
  <2>. QED
    BY <1>1, <1>2, <2>1, <2>3 DEF Owns
<1>6. ASSUME NEW i \in Jobs, NEW row \in JobRow, Inserted(i, row) PROVE Owns(v)
  <2>1. i = j /\ job'[j] = row
    BY <1>3, <1>6, RowsPut DEF Inserted
  <2>. QED
    BY <1>2, <1>6, <2>1 DEF Inserted
<1>. QED
  BY <1>3, <1>4, <1>5, <1>6, EveryChange DEF Changed

LEMMA RunPaged == ASSUME IInv, NEW w \in Workers PROVE Paged(worker[w]) /\ worker[w] \in WorkerState
BY ConstantsOK DEF IInv, TypeOK, WorkerState, Paged

\* A run that did not move still has its page right.
LEMMA RunStays ==
    ASSUME IInv, Fresh, PagesSound, [Next]_vars, NEW v \in Workers, worker'[v] = worker[v],
           InHand(worker[v]), Owns(v)', Only(worker[v].job)'
    PROVE  Covers(job'[worker[v].job], worker[v], discovery', posted')
<1>1. PICK j \in Jobs : j = worker[v].job /\ job[j].status = "running" /\ Owns(v)
  BY OwnedBefore, HeldTyped DEF Owns
<1>2. Covers(job[j], worker[v], discovery, posted)
  BY <1>1, Since DEF PagesSound, RunsSound, RunSound
<1>3. PICK row, next \in JobRow : row = job[j] /\ next = job'[j] /\ Asked(next, row)
  BY <1>1, Since
<1>4. discovery \subseteq discovery' /\ posted \in Nat /\ posted' \in Nat /\ posted <= posted'
  BY Since
<1>5. Covers(next, worker[v], discovery', posted')
  BY <1>2, <1>3, <1>4, RunPaged, StillCovers
<1>. QED
  BY <1>1, <1>3, <1>5

\* A row that did not move is still sound, if the cache did not grow for it.
LEMMA RowStaysSound ==
    ASSUME IInv, Fresh, PagesSound, [Next]_vars, NEW j \in Jobs, job[j].status # "absent", Only(j)',
           Steady(job'[j], job[j]), NEW c \in SUBSET cache
    PROVE  Sound(job'[j], discovery', posted', c)
<1>1. Sound(job[j], discovery, posted, cache)
  BY Since DEF PagesSound, RowsSound
<1>2. PICK row, next \in JobRow : row = job[j] /\ next = job'[j] /\ Asked(next, row) /\ Steady(next, row)
  BY Since
<1>3. discovery \subseteq discovery' /\ posted \in Nat /\ posted' \in Nat /\ posted <= posted'
  BY Since
<1>4. Sound(next, discovery', posted', c)
  BY <1>1, <1>2, <1>3, StillSound
<1>. QED
  BY <1>2, <1>4

\* How one step moves a row, the cache and a run.
LEMMA RowMoves ==
    ASSUME IInv, [Next]_vars, NEW j \in Jobs
    PROVE  \/ Steady(job'[j], job[j]) /\ Asked(job'[j], job[j])
           \/ \E w \in Workers : Owns(w) /\ Advances(w) /\ worker[w].job = j
           \/ job[j].status = "absent" /\ job'[j].status = "queued" /\ Steady(job'[j], Blank) /\ job'[j].to = posted
<1>. USE DEF Steady, Asked
<1>1. ASSUME NEW w \in Workers, NEW row \in JobRow, Worked(w, row)
      PROVE  \/ Steady(job'[j], job[j]) /\ Asked(job'[j], job[j])
             \/ Owns(w) /\ Advances(w) /\ worker[w].job = j
  <2>1. PICK i \in Jobs : i = worker[w].job
    BY <1>1, WorkedRow
  <2>2. /\ job' = [job EXCEPT ![i] = row] /\ Owns(w) /\ Asked(row, job[i])
        /\ Steady(row, job[i]) \/ Advances(w)
    BY <1>1, <2>1, WorkedRow DEF Worked
  <2>. QED
    BY <2>1, <2>2, RowsPut
<1>2. ASSUME NEW i \in Jobs, NEW row \in JobRow, Touched(i, row)
      PROVE  Steady(job'[j], job[j]) /\ Asked(job'[j], job[j])
  <2>1. job[i] \in JobRow /\ job' = [job EXCEPT ![i] = row] /\ Progress(row) = Progress(job[i])
    BY <1>2 DEF IInv, TypeOK, Touched
  <2>2. Asked(row, job[i]) /\ Steady(row, job[i])
    BY <2>1, SameProgress
  <2>. QED
    BY <2>1, <2>2, RowsPut
<1>3. ASSUME NEW i \in Jobs, NEW row \in JobRow, Inserted(i, row)
      PROVE  \/ job'[j] = job[j]
             \/ job[j].status = "absent" /\ job'[j].status = "queued" /\ Steady(job'[j], Blank) /\ job'[j].to = posted
  <2>1. job' = [job EXCEPT ![i] = row]
    BY <1>3 DEF Inserted
  <2>. QED
    BY <1>3, <2>1, RowsPut DEF Inserted
<1>. QED
  BY <1>1, <1>2, <1>3, EveryChange DEF Changed

LEMMA CacheMoves ==
    ASSUME [Next]_vars PROVE cache' \subseteq cache \/ \E w \in Workers : CachePage(w)
BY DEF Next, Work, Disturb, Api, Clock, Cancel, LapseLease, ElapseBackoff, PostKill, ExpireListing,
   BeginCollect, CommitCollect, BeginRetry, CommitRetry, Fail, Interrupt, Crash, PickJob, Claim, Abandon,
   Dispatch, FinishProfile, FinishMembership, OpenPage, FetchPage, TakeEntry, CommitPage, ResolveMetadata,
   FinishMetadata, RejectStage, vars, data

LEMMA RunMoves ==
    ASSUME IInv, [Next]_vars, NEW v \in Workers
    PROVE  \/ worker'[v] = worker[v]
           \/ worker'[v].pc \notin {"fetch", "publish", "entries"}
           \/ OpenPage(v) \/ FetchPage(v) \/ CachePage(v) \/ TakeEntry(v)
<1>. DEFINE Result == \/ worker'[v] = worker[v]
                      \/ worker'[v].pc \notin {"fetch", "publish", "entries"}
                      \/ OpenPage(v) \/ FetchPage(v) \/ CachePage(v) \/ TakeEntry(v)
<1>1. worker \in [Workers -> WorkerState] /\ worker[v] \in WorkerState
  BY DEF IInv, TypeOK
<1>2. ASSUME NEW w \in Workers, NEW me, worker' = [worker EXCEPT ![w] = me], w = v => me.pc \notin {"fetch", "publish", "entries"}
      PROVE  Result
  BY <1>1, <1>2
<1>3. ASSUME NEW w \in Workers, NEW pc, Goto(w, pc), pc \notin {"fetch", "publish", "entries"} PROVE Result
  BY <1>1, <1>3 DEF Goto, WorkerState
<1>4. ASSUME NEW w \in Workers, Stop(w) PROVE Result
  BY <1>2, <1>4 DEF Stop, Idle
<1>5. ASSUME NEW w \in Workers, Work(w) \/ Disturb(w) PROVE Result
  <2>1. CASE PickJob(w)
    BY <1>1, <2>1 DEF PickJob, Idle
  <2>2. CASE Claim(w)
    <3>1. CASE Stop(w)
      BY <1>4, <3>1
    <3>2. CASE ~Stop(w)
      <4>1. PICK t \in Tokens : worker' = [worker EXCEPT ![w] = [@ EXCEPT !.pc = "dispatch", !.token = t]]
        BY <2>2, <3>2 DEF Claim
      <4>. QED
        BY <1>1, <4>1 DEF WorkerState
    <3>. QED
      BY <3>1, <3>2
  <2>3. CASE Dispatch(w)
    <3>1. Goto(w, StageStep(Held(w).stage)) /\ StageStep(Held(w).stage) \notin {"fetch", "publish", "entries"}
      <4>1. Owns(w) /\ Goto(w, StageStep(Held(w).stage))
        BY <2>3 DEF Dispatch
      <4>2. Held(w).stage \in Stages
        BY <4>1, HeldTyped DEF JobRow
      <4>. QED
        BY <4>1, <4>2 DEF StageStep, Stages, Feeds
    <3>. QED
      BY <1>3, <3>1
  <2>4. CASE FinishProfile(w) \/ FinishMembership(w) \/ FinishMetadata(w) \/ CommitPage(w)
    BY <1>3, <2>4 DEF FinishProfile, FinishMembership, FinishMetadata, CommitPage
  <2>5. CASE OpenPage(w) \/ FetchPage(w) \/ CachePage(w) \/ TakeEntry(w)
    BY <1>1, <2>5 DEF OpenPage, Opened, FetchPage, CachePage, Goto, TakeEntry
  <2>6. CASE ResolveMetadata(w)
    BY <2>6 DEF ResolveMetadata
  <2>7. CASE Abandon(w) \/ Disturb(w) \/ RejectStage(w)
    BY <1>4, <2>7 DEF Abandon, Disturb, RejectStage, Fail, Interrupt, Crash
  <2>. QED
    BY <1>5, <2>1, <2>2, <2>3, <2>4, <2>5, <2>6, <2>7 DEF Work
<1>6. CASE UNCHANGED worker
  BY <1>6
<1>. QED
  BY <1>5, <1>6 DEF Next, Api, Clock, Cancel, LapseLease, ElapseBackoff, PostKill, ExpireListing,
     BeginCollect, CommitCollect, BeginRetry, CommitRetry, vars

\* What a report asks for was posted before it was asked, so the first page may list it.
LEMMA Listed ==
    ASSUME NEW row \in JobRow, NEW f \in Feeds, NEW n \in Nat, row.to <= n, NEW d
    PROVE  Beyond(row, f, d, n, 0)
<1>. SUFFICES ASSUME NEW k \in Missing(row, f, d) PROVE 0 < Depth(row.subject, f, n, k)
  BY DEF Beyond
<1>1. row.subject \in Subjects /\ row.to \in Nat /\ k \in KillFeed[row.subject][f] /\ k <= row.to
  BY DEF JobRow, Missing, InWindow
<1>2. KillFeed[row.subject][f] \subseteq 1..MaxKills
  BY <1>1, ConstantsOK
<1>3. k \in Nat /\ k <= n
  BY <1>1, <1>2
<1>4. k \in Shown(row.subject, f, n)
  BY <1>1, <1>3 DEF Shown
<1>5. n <= n
  OBVIOUS
<1>6. PICK S : S = Shown(row.subject, f, n) /\ IsFiniteSet(S) /\ S \subseteq Nat
  BY <1>1, <1>3, <1>5, DepthGrows
<1>7. PICK T : T = {x \in S : x >= k} /\ k \in T /\ IsFiniteSet(T)
  <2>1. k \in {x \in S : x >= k}
    BY <1>3, <1>4, <1>6
  <2>. QED
    BY <1>6, <2>1, FS_Subset
<1>8. Cardinality(T) \in Nat /\ Cardinality(T) # 0
  BY <1>7, FS_EmptySet, FS_CardinalityType
<1>. QED
  BY <1>6, <1>7, <1>8 DEF Depth

LEMMA SoundBefore ==
    ASSUME IInv, Fresh, PagesSound, [Next]_vars, NEW w \in Workers, Owns(w),
           NEW j \in Jobs, j = worker[w].job, Only(j)'
    PROVE  /\ Only(j) /\ Sound(job[j], discovery, posted, cache) /\ posted \in Nat /\ posted <= posted
           /\ InHand(worker[w]) => Covers(job[j], worker[w], discovery, posted)
<1>1. job[j].status = "running"
  BY DEF Owns
<1>2. Only(j) /\ posted \in Nat /\ posted <= posted
  BY <1>1, Since
<1>3. Sound(job[j], discovery, posted, cache)
  BY <1>1, <1>2 DEF PagesSound, RowsSound
<1>4. InHand(worker[w]) => Covers(job[j], worker[w], discovery, posted)
  BY <1>2 DEF PagesSound, RunsSound, RunSound
<1>. QED
  BY <1>2, <1>3, <1>4

\* A stage that hands the row on to the next leaves it sound.
LEMMA EntersFeeds ==
    ASSUME IInv, Fresh, PagesSound, [Next]_vars, NEW w \in Workers, FinishProfile(w) \/ FinishMembership(w),
           NEW j \in Jobs, j = worker[w].job, Only(j)'
    PROVE  Sound(job'[j], discovery', posted', cache')
<1>1. Owns(w) /\ job[j].status = "running" /\ job[j] \in JobRow
      /\ Held(w) = [job[j] EXCEPT !.lease = "held"] /\ Held(w).stage \in {"profile", "membership"}
  <2>1. Owns(w)
    BY DEF FinishProfile, FinishMembership
  <2>2. job[j] \in JobRow /\ Matches(worker[w], Held(w))
    BY <2>1, HeldTyped, HeldCursor
  <2>. QED
    BY <2>1, <2>2 DEF FinishProfile, FinishMembership, Matches, Held, Owns
<1>2. PICK row, next \in JobRow : row = job[j] /\ next = job'[j] /\ Asked(next, row)
  BY <1>1, Since
<1>3. next.stage \in {"membership", "kills"} /\ next.page = 1 /\ next.feed = row.feed
  <2>1. CASE FinishProfile(w)
    <3>0. PICK stage : /\ stage = IF Held(w).subject \in Alliances THEN "membership" ELSE "kills"
                       /\ stage \in {"membership", "kills"}
      OBVIOUS
    <3>1. PICK h : /\ h = [Held(w) EXCEPT !.stage = stage, !.page = 1, !.retry = 0]
                   /\ job' = [job EXCEPT ![j] = h]
      BY <2>1, <3>0 DEF FinishProfile, Save
    <3>2. h.stage = stage /\ h.page = 1 /\ h.feed = row.feed
      BY <1>1, <1>2, <3>1 DEF JobRow
    <3>. QED
      BY <1>2, <3>0, <3>1, <3>2, RowsPut
  <2>2. CASE FinishMembership(w)
    <3>1. PICK census, h : /\ h = [Held(w) EXCEPT !.census = census, !.stage = "kills", !.page = 1, !.retry = 0]
                           /\ job' = [job EXCEPT ![j] = h]
      BY <2>2 DEF FinishMembership, Save
    <3>2. h.stage = "kills" /\ h.page = 1 /\ h.feed = row.feed
      BY <1>1, <1>2, <3>1 DEF JobRow
    <3>. QED
      BY <1>2, <3>1, <3>2, RowsPut
  <2>. QED
    BY <2>1, <2>2
<1>4. UNCHANGED <<discovery, posted, cache>>
  BY DEF FinishProfile, FinishMembership, data
<1>5. Sound(row, discovery, posted, cache) /\ posted \in Nat
  BY <1>1, <1>2, SoundBefore
<1>6. next.to <= posted /\ FeedsRead(next, discovery)
  BY <1>2, <1>3, <1>5, StillRead DEF Sound, Asked
<1>7. next.stage \in Feeds => Beyond(next, next.stage, discovery, posted, (next.page - 1) * PageSize)
  <2>1. (next.page - 1) * PageSize = 0
    <3>1. PICK z : z = next.page - 1 /\ z = 0
      BY <1>3
    <3>. QED
      BY <3>1, ConstantsOK
  <2>2. next.stage \in Feeds => Beyond(next, next.stage, discovery, posted, 0)
    BY <1>5, <1>6, Listed
  <2>. QED
    BY <2>1, <2>2
<1>8. \A e \in cache : e.subject # next.subject
  <2>. SUFFICES ASSUME NEW e \in cache, e.subject = next.subject PROVE FALSE
    OBVIOUS
  <2>1. Reached(row, e) /\ e.feed \in Feeds
    BY <1>2, <1>5, AsPagePaged DEF Sound, Asked
  <2>2. row.stage \in {"profile", "membership"}
    BY <1>1, <1>2 DEF JobRow
  <2>. QED
    BY <2>1, <2>2 DEF Reached, Feeds
<1>9. Sound(next, discovery, posted, cache)
  BY <1>6, <1>7, <1>8 DEF Sound
<1>. QED
  BY <1>1, <1>2, <1>4, <1>9

LEMMA FinishesSound ==
    ASSUME IInv, Fresh, PagesSound, [Next]_vars, NEW w \in Workers, FinishMetadata(w),
           NEW j \in Jobs, j = worker[w].job, Only(j)'
    PROVE  Sound(job'[j], discovery', posted', cache')
<1>1. Owns(w) /\ job[j].status = "running" /\ job[j] \in JobRow
      /\ Held(w) = [job[j] EXCEPT !.lease = "held"] /\ Held(w).stage = "metadata"
  <2>1. Owns(w)
    BY DEF FinishMetadata
  <2>2. job[j] \in JobRow /\ Matches(worker[w], Held(w))
    BY <2>1, HeldTyped, HeldCursor
  <2>. QED
    BY <2>1, <2>2 DEF FinishMetadata, Matches, Held, Owns
<1>2. PICK row, next \in JobRow : row = job[j] /\ next = job'[j] /\ Asked(next, row)
  BY <1>1, Since
<1>3. next.stage = "finished" /\ next.feed = row.feed
  <2>1. PICK status : job' = [job EXCEPT ![j] =
            [Held(w) EXCEPT !.status = status, !.stage = "finished", !.token = NoToken, !.lease = "none"]]
    BY <1>1 DEF FinishMetadata, Save
  <2>2. PICK h : h = [Held(w) EXCEPT !.status = status, !.stage = "finished", !.token = NoToken, !.lease = "none"]
    OBVIOUS
  <2>3. h.stage = "finished" /\ h.feed = row.feed
    BY <1>1, <1>2, <2>2 DEF JobRow
  <2>. QED
    BY <1>2, <2>1, <2>2, <2>3, RowsPut
<1>4. UNCHANGED <<discovery, posted, cache>>
  BY DEF FinishMetadata, data
<1>5. Sound(row, discovery, posted, cache) /\ posted \in Nat
  BY <1>1, <1>2, SoundBefore
<1>6. next.to <= posted /\ FeedsRead(next, discovery)
  BY <1>2, <1>3, <1>5, StillRead DEF Sound, Asked
<1>7. ASSUME NEW e \in cache PROVE Reached(next, e) /\ e.feed # next.stage
  BY <1>3, AsPagePaged DEF Reached, Feeds
<1>9. Sound(next, discovery, posted, cache)
  BY <1>3, <1>6, <1>7 DEF Sound, Feeds
<1>. QED
  BY <1>1, <1>2, <1>4, <1>9

\* A page whose entries are all taken, committed: the feed ends, or its next page is asked for.
LEMMA CommitsSound ==
    ASSUME IInv, Fresh, PagesSound, [Next]_vars, NEW w \in Workers, CommitPage(w),
           NEW j \in Jobs, j = worker[w].job, Only(j)'
    PROVE  Sound(job'[j], discovery', posted', cache')
<1>1. PICK me \in WorkerState :
          /\ me = worker[w] /\ Owns(w) /\ job[j].status = "running" /\ job[j] \in JobRow
          /\ Held(w) = [job[j] EXCEPT !.lease = "held"] /\ Held(w).stage = me.feed /\ Held(w).page = me.page
          /\ me.entries = {} /\ InHand(me)
  <2>1. Owns(w)
    BY DEF CommitPage
  <2>2. job[j] \in JobRow /\ Matches(worker[w], Held(w)) /\ worker[w] \in WorkerState
    BY <2>1, HeldTyped, HeldCursor
  <2>. QED
    BY <2>1, <2>2 DEF CommitPage, Matches, Held, Owns, InHand
<1>2. PICK row, next \in JobRow : row = job[j] /\ next = job'[j] /\ Asked(next, row)
  BY <1>1, Since
<1>3. UNCHANGED <<discovery, posted, cache>>
  BY DEF CommitPage, data
<1>4. Sound(row, discovery, posted, cache) /\ posted \in Nat /\ posted <= posted
  BY <1>1, <1>2, SoundBefore
<1>5. /\ me.empty \/ me.past => Missing(row, me.feed, discovery) = {}
      /\ Beyond(row, me.feed, discovery, posted, me.page * PageSize)
  <2>1. Covers(row, me, discovery, posted)
    BY <1>1, <1>2, SoundBefore
  <2>. QED
    BY <1>1, <2>1 DEF Covers, Beyond
<1>6. row.stage = me.feed /\ row.page = me.page /\ me.feed \in Feeds /\ me.page \in 1..MaxPages
  BY <1>1, <1>2 DEF JobRow, WorkerState
<1>7. next.to <= posted
  BY <1>2, <1>4 DEF Sound, Asked
<1>8. PICK end : end = IF FeedDone(me) THEN Ending(me) ELSE "collecting"
  OBVIOUS
<1>9. PICK feed : feed = [row.feed EXCEPT ![me.feed] = end] /\ feed[me.feed] = end
                  /\ \A f \in Feeds : f # me.feed => feed[f] = row.feed[f]
  <2>1. PICK feeds, feed : /\ feeds = row.feed /\ feed = [feeds EXCEPT ![me.feed] = end]
                           /\ feeds \in [Feeds -> FeedEnd \cup {"none", "collecting"}]
    BY DEF JobRow
  <2>2. feed[me.feed] = end /\ \A f \in Feeds : f # me.feed => feed[f] = feeds[f]
    BY <1>6, <2>1
  <2>. QED
    BY <2>1, <2>2
<1>10. /\ next.feed = feed
       /\ \/ FeedDone(me) /\ next.page = 1 /\ next.stage = IF me.feed = "kills" THEN "losses" ELSE "metadata"
          \/ ~FeedDone(me) /\ next.page = me.page + 1 /\ next.stage = row.stage
  <2>1. Held(w).feed = row.feed
    BY <1>1, <1>2 DEF JobRow
  <2>2. CASE FeedDone(me)
    <3>1. PICK stage : stage = IF me.feed = "kills" THEN "losses" ELSE "metadata"
      OBVIOUS
    <3>2. job' = [job EXCEPT ![j] = [Held(w) EXCEPT !.feed[me.feed] = end, !.page = 1, !.retry = 0, !.stage = stage]]
      BY <1>1, <1>8, <2>2, <3>1 DEF CommitPage, Save
    <3>3. PICK h : h = [Held(w) EXCEPT !.feed = feed, !.page = 1, !.retry = 0, !.stage = stage]
      OBVIOUS
    <3>4. h = [Held(w) EXCEPT !.feed[me.feed] = end, !.page = 1, !.retry = 0, !.stage = stage]
      BY <1>1, <1>9, <2>1, <3>3 DEF JobRow
    <3>5. h.feed = feed /\ h.page = 1 /\ h.stage = stage
      BY <1>1, <3>3 DEF JobRow
    <3>. QED
      BY <1>2, <2>2, <3>1, <3>2, <3>4, <3>5, RowsPut
  <2>3. CASE ~FeedDone(me)
    <3>1. PICK n : n = me.page + 1
      OBVIOUS
    <3>2. job' = [job EXCEPT ![j] = [Held(w) EXCEPT !.feed[me.feed] = "collecting", !.page = @ + 1, !.retry = 0]]
      BY <1>1, <2>3 DEF CommitPage, Save
    <3>3. PICK h : h = [Held(w) EXCEPT !.feed = feed, !.page = n, !.retry = 0]
      OBVIOUS
    <3>4. h = [Held(w) EXCEPT !.feed[me.feed] = "collecting", !.page = @ + 1, !.retry = 0]
      BY <1>1, <1>8, <1>9, <2>1, <2>3, <3>1, <3>3 DEF JobRow
    <3>5. h.feed = feed /\ h.page = n /\ h.stage = row.stage
      BY <1>1, <1>2, <3>3 DEF JobRow
    <3>. QED
      BY <1>2, <2>3, <3>1, <3>2, <3>4, <3>5, RowsPut
  <2>. QED
    BY <2>2, <2>3
<1>11. FeedsRead(next, discovery)
  <2>. SUFFICES ASSUME NEW f \in Feeds, next.feed[f] \in {"feed_exhausted", "reached_date"}
                PROVE  Missing(row, f, discovery) = {}
    BY <1>2, LessMissing DEF FeedsRead
  <2>1. CASE f # me.feed
    BY <1>4, <1>9, <1>10, <2>1 DEF Sound, FeedsRead
  <2>2. CASE f = me.feed
    BY <1>5, <1>8, <1>9, <1>10, <2>2 DEF Ending
  <2>. QED
    BY <2>1, <2>2
<1>12. ASSUME next.stage \in Feeds
       PROVE  Beyond(next, next.stage, discovery, posted, (next.page - 1) * PageSize)
  <2>1. CASE FeedDone(me)
    <3>1. PICK z : z = next.page - 1 /\ z = 0
      BY <1>10, <2>1
    <3>2. z * PageSize = 0
      BY <3>1, ConstantsOK
    <3>3. Beyond(next, next.stage, discovery, posted, 0)
      BY <1>4, <1>7, <1>12, Listed
    <3>. QED
      BY <3>1, <3>2, <3>3
  <2>2. CASE ~FeedDone(me)
    <3>1. next.page - 1 = me.page /\ next.stage = me.feed
      BY <1>6, <1>10, <2>2, ConstantsOK
    <3>2. PICK m \in Nat : m = me.page * PageSize
      BY <1>6, ConstantsOK
    <3>3. Beyond(row, me.feed, discovery, posted, m)
      BY <1>5, <3>2
    <3>4. Beyond(next, me.feed, discovery, posted, m)
      BY <1>2, <1>4, <1>6, <3>3, StillBeyond
    <3>. QED
      BY <3>1, <3>2, <3>4
  <2>. QED
    BY <2>1, <2>2
<1>13. ASSUME NEW e \in cache, e.subject = next.subject
       PROVE  Reached(next, e) /\ ~(e.feed = next.stage /\ e.page = next.page)
  <2>1. Reached(row, e) /\ e.feed \in Feeds /\ e.page \in Nat
    BY <1>2, <1>4, <1>13, AsPagePaged DEF Sound, Asked
  <2>2. CASE FeedDone(me)
    BY <1>6, <1>10, <2>1, <2>2 DEF Reached, Feeds
  <2>3. CASE ~FeedDone(me)
    BY <1>6, <1>10, <2>1, <2>3, ConstantsOK DEF Reached
  <2>. QED
    BY <2>2, <2>3
<1>14. Sound(next, discovery, posted, cache)
  BY <1>7, <1>11, <1>12, <1>13 DEF Sound
<1>. QED
  BY <1>1, <1>2, <1>3, <1>14

\* What the cache gains is the page in hand of the run that owns the row.
LEMMA CacheGrows ==
    ASSUME IInv, Fresh, [Next]_vars, NEW j \in Jobs, job'[j].status # "absent", Only(j)',
           NEW e \in cache' \ cache, e.subject = job'[j].subject
    PROVE  \E w \in Workers : /\ CachePage(w) /\ worker[w].job = j /\ e.feed = worker[w].feed
                              /\ e.page = worker[w].page /\ e.kills = worker[w].entries
<1>1. PICK w \in Workers : CachePage(w)
  BY CacheMoves
<1>2. PICK i \in Jobs : i = worker[w].job /\ Owns(w) /\ job[i].status = "running" /\ Held(w).subject = job[i].subject
  <2>1. Owns(w)
    BY <1>1 DEF CachePage
  <2>2. worker[w].job \in Jobs /\ job[worker[w].job] \in JobRow
    BY <2>1, HeldTyped, HeldCursor
  <2>. QED
    BY <2>1, <2>2 DEF Held, Owns, JobRow
<1>3. e = [subject |-> Held(w).subject, feed |-> worker[w].feed, page |-> worker[w].page, kills |-> worker[w].entries]
  BY <1>1 DEF CachePage
<1>4. job'[i].status # "absent" /\ job'[i].subject = e.subject
  BY <1>2, <1>3, Since DEF Asked
<1>5. i = j
  BY <1>4 DEF Only
<1>. QED
  BY <1>1, <1>2, <1>3, <1>5

LEMMA CacheOwnedStep == ASSUME IInv, Fresh, PagesSound, [Next]_vars PROVE CacheOwned'
<1>. SUFFICES ASSUME NEW e \in cache' PROVE \E j \in Jobs : job'[j].status # "absent" /\ job'[j].subject = e.subject
  BY DEF CacheOwned
<1>1. CASE e \in cache
  <2>1. PICK j \in Jobs : job[j].status # "absent" /\ job[j].subject = e.subject
    BY <1>1 DEF PagesSound, CacheOwned
  <2>. QED
    BY <2>1, Since DEF Asked
<1>2. CASE e \notin cache
  <2>1. PICK w \in Workers : CachePage(w)
    BY <1>2, CacheMoves
  <2>2. PICK i \in Jobs : i = worker[w].job /\ job[i].status = "running" /\ Held(w).subject = job[i].subject
    <3>1. Owns(w)
      BY <2>1 DEF CachePage
    <3>2. worker[w].job \in Jobs /\ job[worker[w].job] \in JobRow
      BY <3>1, HeldTyped, HeldCursor
    <3>. QED
      BY <3>1, <3>2 DEF Held, Owns, JobRow
  <2>3. e.subject = Held(w).subject
    BY <1>2, <2>1 DEF CachePage
  <2>. QED
    BY <2>2, <2>3, Since DEF Asked
<1>. QED
  BY <1>1, <1>2

LEMMA UnreadStep == ASSUME IInv, Fresh, PagesSound, [Next]_vars PROVE Unread'
<1>. SUFFICES ASSUME NEW j \in Jobs, job'[j].status = "absent"
              PROVE  job'[j].to <= posted' /\ \A f \in Feeds : job'[j].feed[f] = "none"
  BY DEF Unread
<1>1. job[j].status = "absent" /\ job[j] \in JobRow
  BY Since
<1>2. job[j].to <= posted /\ \A f \in Feeds : job[j].feed[f] = "none"
  BY <1>1 DEF PagesSound, Unread
<1>3. Steady(job'[j], job[j]) /\ Asked(job'[j], job[j])
  BY <1>1, RowMoves DEF Owns
<1>4. posted \in Nat /\ posted' \in Nat /\ posted <= posted' /\ job[j].to \in Nat
  BY <1>1, Since DEF JobRow
<1>. QED
  BY <1>2, <1>3, <1>4 DEF Steady, Asked

\* A report just created has read nothing and finds nothing cached.
LEMMA NewRowSound ==
    ASSUME IInv, Fresh, PagesSound, [Next]_vars, NEW j \in Jobs, job[j].status = "absent",
           job'[j].status # "absent", Only(j)'
    PROVE  Sound(job'[j], discovery', posted', cache')
<1>1. /\ job'[j].to <= posted' /\ job'[j].stage = "profile"
      /\ \A f \in Feeds : job'[j].feed[f] = "none"
  <2>1. job[j].stage = "profile" /\ job[j].to <= posted /\ \A f \in Feeds : job[j].feed[f] = "none"
    BY DEF Fresh, PagesSound, Unread
  <2>2. Blank.stage = "profile" /\ \A f \in Feeds : Blank.feed[f] = "none"
    BY DEF Blank
  <2>3. \/ Steady(job'[j], job[j]) /\ Asked(job'[j], job[j])
        \/ Steady(job'[j], Blank) /\ job'[j].to = posted
    BY RowMoves DEF Owns
  <2>4. posted \in Nat /\ posted' \in Nat /\ posted <= posted' /\ job[j].to \in Nat
    BY Since DEF JobRow
  <2>. QED
    BY <2>1, <2>2, <2>3, <2>4 DEF Steady, Asked
<1>2. FeedsRead(job'[j], discovery')
  BY <1>1 DEF FeedsRead
<1>3. ASSUME NEW e \in cache', e.subject = job'[j].subject PROVE FALSE
  <2>1. CASE e \in cache
    <3>1. PICK i \in Jobs : job[i].status # "absent" /\ job[i].subject = e.subject
      BY <2>1 DEF PagesSound, CacheOwned
    <3>2. i # j /\ job'[i].status # "absent" /\ job'[i].subject = e.subject
      BY <3>1, Since DEF Asked
    <3>. QED
      BY <1>3, <3>2 DEF Only
  <2>2. CASE e \notin cache
    <3>1. PICK w \in Workers : CachePage(w) /\ worker[w].job = j
      BY <1>3, <2>2, CacheGrows
    <3>. QED
      BY <3>1 DEF CachePage, Owns
  <2>. QED
    BY <2>1, <2>2
<1>. QED
  BY <1>1, <1>2, <1>3 DEF Sound, Feeds

\* Caching the page in hand keeps the row sound: the page is of the row's own checkpoint.
LEMMA CachedCovers ==
    ASSUME IInv, Fresh, PagesSound, [Next]_vars, NEW w \in Workers, CachePage(w),
           NEW j \in Jobs, j = worker[w].job, Only(j)', Steady(job'[j], job[j]),
           NEW e \in cache', e.feed = worker[w].feed, e.page = worker[w].page, e.kills = worker[w].entries
    PROVE  Reached(job'[j], e) /\ Covers(job'[j], AsPage(e), discovery', posted')
<1>1. Owns(w) /\ InHand(worker[w]) /\ worker[w].pc = "publish"
  BY DEF CachePage, InHand
<1>2. PICK me \in WorkerState : me = worker[w] /\ Matches(me, Held(w)) /\ Held(w).stage = job[j].stage
                                /\ Held(w).page = job[j].page
  BY <1>1, HeldTyped, HeldCursor
<1>3. job[j].stage = me.feed /\ job[j].page = me.page /\ me.feed \in Feeds /\ me.page \in 1..MaxPages
  BY <1>1, <1>2 DEF Matches, WorkerState
<1>4. Covers(job[j], me, discovery, posted) /\ (me.empty <=> me.entries = {})
  BY <1>1, <1>2, SoundBefore DEF PagesSound, RunsSound, RunSound
<1>5. Covers(job[j], AsPage(e), discovery, posted)
  BY <1>2, <1>4 DEF Covers, AsPage
<1>6. Paged(AsPage(e))
  BY <1>2, <1>3, ConstantsOK DEF Paged, AsPage
<1>7. PICK row, next \in JobRow : row = job[j] /\ next = job'[j] /\ Asked(next, row)
  BY <1>1, Since DEF Owns
<1>8. discovery \subseteq discovery' /\ posted \in Nat /\ posted' \in Nat /\ posted <= posted'
  BY Since
<1>9. Covers(next, AsPage(e), discovery', posted')
  BY <1>5, <1>6, <1>7, <1>8, StillCovers
<1>10. Reached(next, e)
  BY <1>2, <1>3, <1>7, ConstantsOK DEF Reached, Steady
<1>. QED
  BY <1>7, <1>9, <1>10

LEMMA RowsSoundStep == ASSUME IInv, Fresh, PagesSound, [Next]_vars PROVE RowsSound'
<1>. SUFFICES ASSUME NEW j \in Jobs, job'[j].status # "absent", Only(j)'
              PROVE  Sound(job'[j], discovery', posted', cache')
  BY DEF RowsSound
<1>1. CASE job[j].status = "absent"
  BY <1>1, NewRowSound
<1>2. CASE job[j].status # "absent" /\ Steady(job'[j], job[j])
  <2>1. PICK c : c = cache \cap cache'
    OBVIOUS
  <2>2. Sound(job'[j], discovery', posted', c)
    BY <1>2, <2>1, RowStaysSound
  <2>3. ASSUME NEW e \in cache' \ c, e.subject = job'[j].subject
        PROVE  Reached(job'[j], e) /\ Covers(job'[j], AsPage(e), discovery', posted')
    <3>1. PICK w \in Workers : /\ CachePage(w) /\ worker[w].job = j /\ e.feed = worker[w].feed
                               /\ e.page = worker[w].page /\ e.kills = worker[w].entries
      BY <2>1, <2>3, CacheGrows
    <3>. QED
      BY <1>2, <2>3, <3>1, CachedCovers
  <2>. QED
    BY <2>1, <2>2, <2>3 DEF Sound
<1>3. CASE \E w \in Workers : Owns(w) /\ Advances(w) /\ worker[w].job = j
  BY <1>3, EntersFeeds, FinishesSound, CommitsSound DEF Advances
<1>. QED
  BY <1>1, <1>2, <1>3, RowMoves

\* A cached page opened again says what the row knows of it.
LEMMA OpenedSound ==
    ASSUME IInv, Fresh, PagesSound, [Next]_vars, RowsSound', NEW v \in Workers, OpenPage(v)
    PROVE  RunSound(v)'
<1>1. Owns(v) /\ worker[v].pc = "open" /\ UNCHANGED cache
  BY DEF OpenPage, data
<1>2. worker[v] \in WorkerState /\ worker \in [Workers -> WorkerState]
  BY <1>1, HeldTyped DEF IInv, TypeOK
<1>3. PICK j \in Jobs : j = worker[v].job /\ job[j].status = "running" /\ job[j] \in JobRow
                        /\ Held(v) = [job[j] EXCEPT !.lease = "held"]
  BY <1>1, HeldTyped, HeldCursor DEF Held, Owns
<1>4. job'[j] = Held(v)
  BY <1>3, RowsPut DEF OpenPage, Save
<1>5. PICK s, p : s = Held(v).stage /\ p = Held(v).page
  OBVIOUS
<1>6. CASE Opened(v, "fetch", {})
  <2>1. worker'[v].pc = "fetch" /\ ~worker'[v].past
    BY <1>2, <1>6 DEF Opened, WorkerState
  <2>. QED
    BY <2>1 DEF RunSound, InHand
<1>7. ASSUME NEW e \in Cached(Held(v).subject, s, p), Opened(v, "entries", e.kills)
      PROVE  RunSound(v)'
  <2>1. PICK me : /\ me = [worker[v] EXCEPT !.pc = "entries", !.feed = s, !.page = p, !.entries = e.kills,
                                            !.empty = (e.kills = {}), !.past = FALSE]
                  /\ worker' = [worker EXCEPT ![v] = me]
    BY <1>5, <1>7 DEF Opened
  <2>2. worker'[v] = me
    BY <1>2, <2>1
  <2>3. /\ me.pc = "entries" /\ me.job = j /\ me.feed = s /\ me.page = p /\ me.entries = e.kills
        /\ me.past = FALSE
    BY <1>2, <1>3, <2>1 DEF WorkerState
  <2>4. me.empty <=> e.kills = {}
    BY <1>2, <2>1, Zenon DEF WorkerState
  <2>5. ASSUME Only(j)' PROVE Covers(job'[j], me, discovery', posted')
    <3>1. Sound(job'[j], discovery', posted', cache')
      BY <1>3, <2>5, Since DEF RowsSound
    <3>2. e \in cache' /\ e.subject = job'[j].subject /\ e.feed = job'[j].stage /\ e.page = job'[j].page
      BY <1>1, <1>4, <1>5 DEF Cached
    <3>3. Covers(job'[j], AsPage(e), discovery', posted')
      BY <3>1, <3>2 DEF Sound
    <3>. QED
      BY <1>4, <1>5, <2>3, <2>4, <3>2, <3>3 DEF Covers, AsPage
  <2>6. worker'[v].job = j /\ worker'[v].pc = "entries"
    BY <2>2, <2>3
  <2>7. Covers(job'[j], me, discovery', posted') \/ ~Only(j)'
    BY <2>5
  <2>8. Only(worker[v].job)' <=> Only(j)'
    BY <2>6 DEF Only
  <2>. QED
    BY <2>2, <2>6, <2>7, <2>8 DEF RunSound
<1>. QED
  BY <1>5, <1>6, <1>7 DEF OpenPage

\* The page upstream answers, while nothing missing comes before it.
LEMMA FetchedSound ==
    ASSUME IInv, Fresh, PagesSound, [Next]_vars, NEW v \in Workers, FetchPage(v)
    PROVE  RunSound(v)'
<1>1. worker[v] \in WorkerState /\ worker \in [Workers -> WorkerState] /\ worker[v].pc = "fetch"
  BY DEF IInv, TypeOK, FetchPage
<1>2. PICK j \in Jobs : j = worker[v].job
  BY <1>1 DEF IInv, Ownership
<1>3. PICK me, kills : /\ kills = Listing(job[j].subject, worker[v].feed, worker[v].page)
                       /\ me = [worker[v] EXCEPT !.pc = "publish", !.entries = kills, !.empty = (kills = {})]
                       /\ worker' = [worker EXCEPT ![v] = me]
  BY <1>2 DEF FetchPage
<1>4. worker'[v] = me
  BY <1>1, <1>3
<1>5. /\ me.pc = "publish" /\ me.job = j /\ me.feed = worker[v].feed /\ me.page = worker[v].page
      /\ me.entries = kills /\ me.token = worker[v].token /\ me.past = worker[v].past
  BY <1>1, <1>2, <1>3 DEF WorkerState
<1>6. me.empty <=> kills = {}
  BY <1>1, <1>3, Zenon DEF WorkerState
<1>7. UNCHANGED <<job, discovery, posted, cache>>
  BY DEF FetchPage, data
<1>8. ~me.past
  BY <1>1, <1>5 DEF PagesSound, RunsSound, RunSound
<1>9. ASSUME Owns(v)', Only(j)' PROVE Covers(job[j], me, discovery, posted)
  <2>1. Owns(v)
    BY <1>1, <1>2, <1>4, <1>5, <1>7, <1>9 DEF Owns, Working
  <2>2. /\ job[j] \in JobRow /\ Held(v).stage = job[j].stage /\ Held(v).page = job[j].page
        /\ Matches(worker[v], Held(v))
    BY <1>2, <2>1, HeldTyped, HeldCursor
  <2>3. Sound(job[j], discovery, posted, cache) /\ posted \in Nat
    BY <1>2, <1>9, <2>1, SoundBefore
  <2>4. PICK f \in Feeds, p \in Nat \ {0} : f = me.feed /\ p = me.page /\ job[j].stage = f /\ job[j].page = p
    BY <1>1, <1>5, <2>2, ConstantsOK DEF WorkerState, Matches
  <2>5. PICK row \in JobRow : row = job[j] /\ row.to <= posted /\ Beyond(row, f, discovery, posted, (p - 1) * PageSize)
    BY <2>2, <2>3, <2>4 DEF Sound
  <2>6. me.entries = {k \in Shown(row.subject, f, posted) :
            (p - 1) * PageSize < Depth(row.subject, f, posted, k) /\ Depth(row.subject, f, posted, k) <= p * PageSize}
    BY <1>3, <1>5, <2>4, <2>5 DEF Listing, Shown, Depth
  <2>7. Covers(row, me, discovery, posted)
    BY <1>5, <1>6, <1>8, <2>3, <2>4, <2>5, <2>6, PageCovers
  <2>. QED
    BY <2>5, <2>7
<1>10. Only(worker[v].job)' <=> Only(j)'
  BY <1>4, <1>5 DEF Only
<1>. QED
  BY <1>4, <1>5, <1>6, <1>7, <1>9, <1>10 DEF RunSound

\* Caching the page in hand changes nothing about it.
LEMMA PublishedSound ==
    ASSUME IInv, Fresh, PagesSound, [Next]_vars, NEW v \in Workers, CachePage(v)
    PROVE  RunSound(v)'
<1>1. worker[v] \in WorkerState /\ worker \in [Workers -> WorkerState] /\ Owns(v) /\ InHand(worker[v])
  BY DEF IInv, TypeOK, CachePage, InHand
<1>2. PICK j \in Jobs : j = worker[v].job /\ job[j].status = "running"
  BY <1>1, HeldTyped DEF Owns
<1>3. PICK me : me = [worker[v] EXCEPT !.pc = "entries"] /\ worker' = [worker EXCEPT ![v] = me]
  BY <1>1 DEF CachePage, Goto
<1>4. worker'[v] = me
  BY <1>1, <1>3
<1>5. /\ me.pc = "entries" /\ me.job = j /\ me.feed = worker[v].feed /\ me.page = worker[v].page
      /\ me.entries = worker[v].entries /\ me.past = worker[v].past
  BY <1>1, <1>2, <1>3 DEF WorkerState
<1>6. me.empty = worker[v].empty
  BY <1>1, <1>3 DEF WorkerState
<1>7. ASSUME Only(j)' PROVE Covers(job'[j], me, discovery', posted')
  <2>1. Covers(job[j], worker[v], discovery, posted)
    BY <1>1, <1>2, <1>7, SoundBefore
  <2>2. Covers(job[j], me, discovery, posted) /\ Paged(me)
    BY <1>5, <1>6, <2>1, RunPaged DEF Covers, Paged
  <2>3. PICK row, next \in JobRow : row = job[j] /\ next = job'[j] /\ Asked(next, row)
    BY <1>2, Since
  <2>4. discovery \subseteq discovery' /\ posted \in Nat /\ posted' \in Nat /\ posted <= posted'
    BY Since
  <2>5. Covers(next, me, discovery', posted')
    BY <2>2, <2>3, <2>4, StillCovers
  <2>. QED
    BY <2>3, <2>5
<1>8. Only(worker[v].job)' <=> Only(j)'
  BY <1>4, <1>5 DEF Only
<1>. QED
  BY <1>4, <1>5, <1>7, <1>8 DEF RunSound

\* An entry taken is discovered if it was asked for, and the rest of the page still covers.
LEMMA TakenCovers ==
    ASSUME NEW row \in JobRow, NEW f \in Feeds, NEW n \in Nat, NEW d, NEW e, d \subseteq e,
           NEW page, page.feed = f, Covers(row, page, d, n), page.entries \subseteq Nat,
           NEW k \in page.entries, \A x \in page.entries : x <= k,
           InWindow(k, row) => <<row.subject, f, k>> \in e,
           NEW rest, rest.feed = f, rest.page = page.page, rest.empty = page.empty,
           rest.entries = page.entries \ {k}, rest.past <=> page.past \/ k < row.from
    PROVE  Covers(row, rest, e, n)
<1>1. Missing(row, f, e) \subseteq Missing(row, f, d) \ {k}
  BY DEF Missing
<1>2. rest.empty => Missing(row, f, e) = {}
  BY <1>1 DEF Covers
<1>3. rest.past \/ (\E x \in rest.entries : x < row.from) => Missing(row, f, e) \subseteq rest.entries
  <2>1. rest.past \/ (\E x \in rest.entries : x < row.from) =>
        page.past \/ (\E x \in page.entries : x < row.from)
    OBVIOUS
  <2>. QED
    BY <1>1, <2>1 DEF Covers
<1>4. \A x \in Missing(row, f, e) \ rest.entries : page.page * PageSize < Depth(row.subject, f, n, x)
  BY <1>1 DEF Covers
<1>. QED
  BY <1>2, <1>3, <1>4 DEF Covers

LEMMA TakenSound ==
    ASSUME IInv, Fresh, PagesSound, [Next]_vars, NEW v \in Workers, TakeEntry(v)
    PROVE  RunSound(v)'
<1>1. worker[v] \in WorkerState /\ worker \in [Workers -> WorkerState] /\ Owns(v) /\ InHand(worker[v])
      /\ worker[v].pc = "entries"
  BY DEF IInv, TypeOK, TakeEntry, InHand
<1>2. PICK j \in Jobs : j = worker[v].job /\ job[j].status = "running" /\ job[j] \in JobRow
                        /\ Held(v) = [job[j] EXCEPT !.lease = "held"]
  BY <1>1, HeldTyped, HeldCursor DEF Owns, Held
<1>3. Held(v).subject = job[j].subject /\ Held(v).from = job[j].from /\ Held(v).to = job[j].to
  BY <1>2 DEF JobRow
<1>4. PICK k \in worker[v].entries :
          /\ \A x \in worker[v].entries : x <= k
          /\ worker' = [worker EXCEPT ![v].entries = @ \ {k}, ![v].past = @ \/ k < Held(v).from]
          /\ ~InWindow(k, Held(v)) \/ Import(v, k)
  BY DEF TakeEntry
<1>5. /\ worker'[v].pc = "entries" /\ worker'[v].job = j /\ worker'[v].feed = worker[v].feed
      /\ worker'[v].page = worker[v].page /\ worker'[v].entries = worker[v].entries \ {k}
      /\ worker'[v].empty = worker[v].empty
  BY <1>1, <1>2, <1>4 DEF WorkerState
<1>6. worker'[v].past <=> worker[v].past \/ k < job[j].from
  BY <1>1, <1>3, <1>4, Zenon DEF WorkerState
<1>7. ASSUME Only(j)' PROVE Covers(job'[j], worker'[v], discovery', posted')
  <2>1. PICK me : me = worker[v] /\ me.feed \in Feeds /\ me.page \in Nat /\ me.entries \subseteq Nat
    BY <1>1, ConstantsOK DEF WorkerState
  <2>2. PICK row, next \in JobRow : row = job[j] /\ next = job'[j] /\ Asked(next, row)
    BY <1>2, Since
  <2>3. discovery \subseteq discovery' /\ posted \in Nat /\ posted' \in Nat /\ posted <= posted'
    BY Since
  <2>4. Covers(row, me, discovery, posted)
    BY <1>1, <1>2, <1>7, <2>1, <2>2, SoundBefore
  <2>5. InWindow(k, row) => <<row.subject, me.feed, k>> \in discovery'
    BY <1>3, <1>4, <2>1, <2>2 DEF InWindow, Import
  <2>6. PICK rest : rest = worker'[v]
    OBVIOUS
  <2>7. Covers(row, rest, discovery', posted)
    <3>1. /\ rest.feed = me.feed /\ rest.page = me.page /\ rest.empty = me.empty
          /\ rest.entries = me.entries \ {k}
      BY <1>5, <2>1, <2>6
    <3>2. rest.past <=> me.past \/ k < row.from
      BY <1>6, <2>1, <2>2, <2>6
    <3>3. k \in me.entries /\ \A x \in me.entries : x <= k
      BY <1>4, <2>1
    <3>. QED
      BY <2>1, <2>3, <2>4, <2>5, <3>1, <3>2, <3>3, TakenCovers
  <2>8. Paged(rest)
    BY <1>5, <2>1, <2>6 DEF Paged
  <2>9. discovery' \subseteq discovery'
    OBVIOUS
  <2>10. Covers(next, rest, discovery', posted')
    BY <2>2, <2>3, <2>7, <2>8, <2>9, StillCovers
  <2>. QED
    BY <2>2, <2>6, <2>10
<1>8. Only(worker[v].job)' <=> Only(j)'
  BY <1>5 DEF Only
<1>. QED
  BY <1>5, <1>7, <1>8 DEF RunSound

LEMMA PagesSoundStep == ASSUME IInv, Fresh, PagesSound, [Next]_vars PROVE PagesSound'
<1>1. RowsSound'
  BY RowsSoundStep
<1>2. ASSUME NEW v \in Workers PROVE RunSound(v)'
  <2>1. CASE worker'[v] = worker[v]
    <3>1. RunSound(v)
      BY DEF PagesSound, RunsSound
    <3>2. InHand(worker[v]) /\ Owns(v)' /\ Only(worker[v].job)' =>
              Covers(job'[worker[v].job], worker[v], discovery', posted')
      BY <2>1, RunStays
    <3>. QED
      BY <2>1, <3>1, <3>2 DEF RunSound
  <2>2. CASE worker'[v].pc \notin {"fetch", "publish", "entries"}
    BY <2>2 DEF RunSound, InHand
  <2>. QED
    BY <1>1, <2>1, <2>2, RunMoves, OpenedSound, FetchedSound, PublishedSound, TakenSound
<1>. QED
  BY <1>1, <1>2, CacheOwnedStep, UnreadStep DEF PagesSound, RunsSound

\* A first report whose feed was read to its end, or back to the date asked for, discovered every
\* killmail of the window that upstream listed when it was queued: whatever pages were read
\* twice, served from the cache or read while killmails kept being posted (page_stage).
THEOREM CoverageHolds == Spec => []CoverageIsComplete
<1>1. Init => Fresh
  BY DEF Init, Fresh, Blank
<1>2. Init => PagesSound
  <2>. SUFFICES ASSUME Init PROVE PagesSound
    OBVIOUS
  <2>1. \A j \in Jobs : job[j].status = "absent" /\ job[j].to = 0 /\ \A f \in Feeds : job[j].feed[f] = "none"
    BY DEF Init, Blank
  <2>2. posted \in Nat /\ cache = {}
    BY ConstantsOK DEF Init
  <2>3. \A w \in Workers : worker[w].pc = "idle"
    BY DEF Init, Idle
  <2>. QED
    BY <2>1, <2>2, <2>3 DEF PagesSound, RowsSound, RunsSound, RunSound, InHand, CacheOwned, Unread
<1>3. IInv /\ Fresh /\ [Next]_vars => Fresh'
  BY NextForward DEF Forward
<1>4. IInv /\ Fresh /\ PagesSound /\ [Next]_vars => PagesSound'
  BY PagesSoundStep
<1>5. PagesSound => CoverageIsComplete
  <2>. SUFFICES ASSUME PagesSound, NEW j \in Jobs, NEW f \in Feeds, Only(j),
                       job[j].feed[f] \in {"feed_exhausted", "reached_date"},
                       NEW k \in KillFeed[job[j].subject][f], InWindow(k, job[j])
                PROVE  <<job[j].subject, f, k>> \in discovery
    BY DEF CoverageIsComplete
  <2>1. job[j].status # "absent"
    BY DEF PagesSound, Unread
  <2>2. Missing(job[j], f, discovery) = {}
    BY <2>1 DEF PagesSound, RowsSound, Sound, FeedsRead
  <2>. QED
    BY <2>2 DEF Missing
<1>. QED
  BY <1>1, <1>2, <1>3, <1>4, <1>5, IInvAlways, PTL DEF Spec

-----------------------------------------------------------------------------
(* MiningSettlement: whole parts *)

LEMMA DivMod == \A a \in Int : \A b \in Nat \ {0} :
    /\ a \div b \in Int /\ a % b \in 0..b - 1 /\ a = b * (a \div b) + (a % b)
OBVIOUS

LEMMA DivNat == \A a \in Nat : \A b \in Nat \ {0} :
    /\ a \div b \in Nat /\ a % b \in Nat /\ a % b <= b - 1 /\ a = b * (a \div b) + (a % b)
    /\ a = 0 => a \div b = 0 /\ a % b = 0
OBVIOUS

LEMMA Rounded == \A a \in Int : \A b \in Nat \ {0} :
    /\ RoundHalfUp(a, b) \in Int
    /\ 2 * b * RoundHalfUp(a, b) <= 2 * a + b /\ 2 * a + b < 2 * b * RoundHalfUp(a, b) + 2 * b
BY DEF RoundHalfUp

LEMMA Products == \A a, b \in Nat : a * b \in Nat
OBVIOUS

\* Half even, a number is rounded by half of the last place at most.
LEMMA Nearest == \A a \in Nat : \A b \in Nat \ {0} :
    /\ RoundHalfEven(a, b) \in Nat
    /\ 2 * (b * RoundHalfEven(a, b)) <= 2 * a + b
<1>. TAKE a \in Nat
<1>. TAKE b \in Nat \ {0}
<1>1. PICK q, m \in Nat : q = a \div b /\ m = a % b /\ a = b * q + m
  BY DivNat
<1>2. CASE 2 * m > b \/ (2 * m = b /\ q % 2 = 1)
  <2>1. RoundHalfEven(a, b) = q + 1
    BY <1>1, <1>2 DEF RoundHalfEven
  <2>2. PICK c \in Nat : c = b * q
    BY Products
  <2>3. b * (q + 1) = c + b
    BY <2>2
  <2>. QED
    BY <1>1, <1>2, <2>1, <2>2, <2>3
<1>3. CASE ~(2 * m > b \/ (2 * m = b /\ q % 2 = 1))
  <2>1. RoundHalfEven(a, b) = q
    BY <1>1, <1>3 DEF RoundHalfEven
  <2>2. PICK c \in Nat : c = b * q
    BY Products
  <2>. QED
    BY <1>1, <2>1, <2>2
<1>. QED
  BY <1>2, <1>3

\* A quantity is no less than its units.
LEMMA UnitsIs == \A n \in Nat : /\ Units(n) \in Nat /\ Grain * Units(n) <= n
                              /\ \A e \in Nat : Grain * e <= n => e <= Units(n)
<1>. TAKE n \in Nat
<1>1. PICK b \in Nat \ {0} : b = Grain
  BY SettlementConstants
<1>2. PICK q, m \in Nat : q = n \div b /\ m <= b - 1 /\ n = b * q + m
  BY DivNat
<1>3. Units(n) = q
  BY <1>1, <1>2 DEF Units
<1>4. PICK c \in Nat : c = b * q
  BY Products
<1>5. ASSUME NEW e \in Nat, b * e <= n PROVE e <= q
  <2>. SUFFICES ASSUME e >= q + 1 PROVE FALSE
    OBVIOUS
  <2>1. b * e >= b * (q + 1)
    OBVIOUS
  <2>2. b * (q + 1) = c + b
    BY <1>4
  <2>3. PICK f \in Nat : f = b * e
    BY Products
  <2>. QED
    BY <1>2, <1>4, <1>5, <2>1, <2>2, <2>3
<1>. QED
  BY <1>1, <1>2, <1>3, <1>4, <1>5

-----------------------------------------------------------------------------
(* Allotments *)

\* A share is a product over the sum of the weights: its whole part, and the rest.
Quota(total, weight) == [i \in DOMAIN weight |-> (total * weight[i]) \div Total(weight)]
Rest(total, weight)  == [i \in DOMAIN weight |-> (total * weight[i]) % Total(weight)]

\* Who takes part, who comes ahead of whom, and how many units are left to hand out.
Takers(weight) == {i \in DOMAIN weight : weight[i] > 0}
Ahead(total, weight) == [i \in Takers(weight) |-> {j \in Takers(weight) :
    LET x == Rest(total, weight)[j]  y == Rest(total, weight)[i] IN x > y \/ (x = y /\ j < i)}]
Left(total, weight) == total - Total(Quota(total, weight))

Weights(n) == [1..n -> Nat]

LEMMA AllocateIs ==
    ASSUME NEW total, NEW weight
    PROVE  Allocate(total, weight) = [i \in DOMAIN weight |-> IF total <= 0 \/ weight[i] = 0 THEN 0 ELSE
               (total * weight[i]) \div Total(weight) +
               IF Cardinality({j \in DOMAIN weight : weight[j] > 0 /\
                      (\/ (total * weight[j]) % Total(weight) > (total * weight[i]) % Total(weight)
                       \/ (total * weight[j]) % Total(weight) = (total * weight[i]) % Total(weight) /\ j < i)})
                   < total - Total([k \in DOMAIN weight |-> (total * weight[k]) \div Total(weight)])
               THEN 1 ELSE 0]
BY DEF Allocate

LEMMA AllocateOne ==
    ASSUME NEW n \in Nat, NEW weight \in Weights(n), NEW total \in Nat, total > 0,
           NEW i \in Takers(weight)
    PROVE  Allocate(total, weight)[i] = Quota(total, weight)[i] +
               IF Cardinality(Ahead(total, weight)[i]) < Left(total, weight) THEN 1 ELSE 0
<1>1. DOMAIN weight = 1..n /\ i \in 1..n /\ weight[i] > 0 /\ weight[i] # 0
  BY DEF Weights, Takers
<1>2. PICK D : D = {j \in DOMAIN weight : weight[j] > 0 /\
                      (\/ (total * weight[j]) % Total(weight) > (total * weight[i]) % Total(weight)
                       \/ (total * weight[j]) % Total(weight) = (total * weight[i]) % Total(weight) /\ j < i)}
  OBVIOUS
<1>3. Ahead(total, weight)[i] = D
  BY <1>1, <1>2 DEF Ahead, Takers, Rest
<1>4. Quota(total, weight)[i] = (total * weight[i]) \div Total(weight)
  BY <1>1 DEF Quota
<1>5. Left(total, weight) = total - Total([k \in DOMAIN weight |-> (total * weight[k]) \div Total(weight)])
  BY DEF Left, Quota
<1>6. ~(total <= 0 \/ weight[i] = 0)
  BY <1>1
<1>. QED
  BY <1>1, <1>2, <1>3, <1>4, <1>5, <1>6, AllocateIs, Zenon

LEMMA AllocateNone ==
    ASSUME NEW n \in Nat, NEW weight \in Weights(n), NEW total \in Int, NEW i \in 1..n,
           total <= 0 \/ weight[i] = 0
    PROVE  Allocate(total, weight)[i] = 0
BY DEF Allocate, Weights
LEMMA Positive == \A a, b \in Nat \ {0} : a * b > 0
OBVIOUS

LEMMA Halves == \A w \in Nat \ {0} : \A l \in Int, c \in Nat :
    w * l >= 0 /\ w * l <= (w - 1) * c => l \in 0..c
<1>. TAKE w \in Nat \ {0}
<1>. TAKE l \in Int, c \in Nat
<1>1. (w - 1) * c = w * c - c
  OBVIOUS
<1>2. w * (l - c) = w * l - w * c
  OBVIOUS
<1>3. l - c > 0 => w * (l - c) > 0
  OBVIOUS
<1>4. w * l >= 0 => l >= 0
  OBVIOUS
<1>. QED
  BY <1>1, <1>2, <1>3, <1>4

\* A larger product has no smaller whole part, and of equal whole parts the larger rest.
LEMMA Ranked == \A w \in Nat \ {0} : \A x, y \in Int, c, d, e, f \in Nat :
    /\ e <= w - 1 /\ x = w * c + e /\ f <= w - 1 /\ y = w * d + f /\ x >= y
    => c >= d /\ (c = d => e >= f /\ (x > y => e > f))
OBVIOUS

LEMMA Apart == \A w \in Nat \ {0} : \A l, a, b, c \in Int : a * w = w * b + c /\ l = a - b => w * l = c
OBVIOUS

\* Whole part and rest of every share.
LEMMA Parts ==
    ASSUME NEW n \in Nat, NEW weight \in Weights(n), NEW total \in Nat, Total(weight) > 0
    PROVE  /\ IsFiniteSet(1..n) /\ Total(weight) \in Nat \ {0} /\ DOMAIN weight = 1..n
           /\ Quota(total, weight) \in [1..n -> Nat] /\ Rest(total, weight) \in [1..n -> Nat]
           /\ \A i \in 1..n :
                 /\ Rest(total, weight)[i] <= Total(weight) - 1
                 /\ total * weight[i] = Total(weight) * Quota(total, weight)[i] + Rest(total, weight)[i]
                 /\ weight[i] = 0 => Quota(total, weight)[i] = 0 /\ Rest(total, weight)[i] = 0
<1>1. IsFiniteSet(1..n) /\ DOMAIN weight = 1..n
  BY FS_Interval DEF Weights
<1>2. PICK W \in Nat \ {0} : W = Total(weight)
  BY <1>1, TotalNat DEF Weights
<1>3. \A i \in 1..n : total * weight[i] \in Nat /\ (weight[i] = 0 => total * weight[i] = 0)
  BY Products DEF Weights
<1>4. PICK k, q, r : /\ k = [i \in 1..n |-> total * weight[i]]
                     /\ q = Quota(total, weight) /\ r = Rest(total, weight)
  OBVIOUS
<1>5. q = [i \in 1..n |-> k[i] \div W] /\ r = [i \in 1..n |-> k[i] % W] /\ k \in [1..n -> Nat]
  BY <1>1, <1>2, <1>3, <1>4 DEF Quota, Rest
<1>6. ASSUME NEW i \in 1..n
      PROVE  /\ q[i] \in Nat /\ r[i] \in Nat /\ r[i] <= W - 1 /\ k[i] = W * q[i] + r[i]
             /\ k[i] = 0 => q[i] = 0 /\ r[i] = 0
  <2>1. PICK a \in Nat : a = k[i]
    BY <1>5
  <2>2. q[i] = a \div W /\ r[i] = a % W
    BY <1>5, <2>1
  <2>. QED
    BY <2>1, <2>2, DivNat
<1>7. \A i \in 1..n : k[i] = total * weight[i]
  BY <1>4
<1>8. q \in [1..n -> Nat] /\ r \in [1..n -> Nat]
  BY <1>5, <1>6
<1>. QED
  BY <1>1, <1>2, <1>3, <1>4, <1>6, <1>7, <1>8

LEMMA NoQuota ==
    ASSUME NEW n \in Nat, NEW weight \in Weights(n), NEW total \in Nat, Total(weight) > 0,
           NEW i \in 1..n, weight[i] = 0
    PROVE  Quota(total, weight)[i] = 0
<1>1. \A j \in 1..n :
         /\ Rest(total, weight)[j] <= Total(weight) - 1
         /\ total * weight[j] = Total(weight) * Quota(total, weight)[j] + Rest(total, weight)[j]
         /\ weight[j] = 0 => Quota(total, weight)[j] = 0 /\ Rest(total, weight)[j] = 0
  BY Parts
<1>. QED
  BY <1>1

\* No more units are left over than there are takers to get one each.
LEMMA LeftOver ==
    ASSUME NEW n \in Nat, NEW weight \in Weights(n), NEW total \in Nat, Total(weight) > 0
    PROVE  /\ Left(total, weight) \in 0..Cardinality(Takers(weight))
           /\ Total(Quota(total, weight)) \in Int
           /\ IsFiniteSet(Takers(weight)) /\ Cardinality(Takers(weight)) \in Nat
<1>1. PICK S, W, q, r, f : /\ S = 1..n /\ W = Total(weight) /\ f = weight
                        /\ q = Quota(total, weight) /\ r = Rest(total, weight)
  OBVIOUS
<1>2. IsFiniteSet(S) /\ W \in Nat \ {0} /\ q \in [S -> Nat] /\ r \in [S -> Nat] /\ f \in [S -> Nat]
  BY <1>1, Parts DEF Weights
<1>3. \A i \in S : r[i] <= W - 1 /\ total * f[i] = W * q[i] + r[i] /\ (f[i] = 0 => r[i] = 0)
  <2>1. \A i \in 1..n :
           /\ Rest(total, weight)[i] <= Total(weight) - 1
           /\ total * weight[i] = Total(weight) * Quota(total, weight)[i] + Rest(total, weight)[i]
           /\ weight[i] = 0 => Quota(total, weight)[i] = 0 /\ Rest(total, weight)[i] = 0
    BY Parts
  <2>. QED
    BY <1>1, <2>1, Zenon
<1>4. PICK k : k = [i \in S |-> total * f[i]]
  OBVIOUS
<1>5. k \in [S -> Int] /\ f \in [S -> Int] /\ q \in [S -> Int] /\ r \in [S -> Int] /\ total \in Int /\ W \in Int
  BY <1>2, <1>4, Products
<1>6. Total(k) = total * Total(f)
  <2>1. PICK c \in Int : c = total
    OBVIOUS
  <2>2. \A i \in S : k[i] = c * f[i]
    BY <1>4, <2>1
  <2>3. Total(k) = c * Total(f)
    <3>1. IsFiniteSet(S) /\ f \in [S -> Int] /\ k \in [S -> Int]
      BY <1>2, <1>5
    <3>. QED
      BY <2>2, <3>1, TotalTimes
  <2>. QED
    BY <2>1, <2>3
<1>7. Total(q) \in Int /\ Total(r) \in Int /\ Total(k) = W * Total(q) + Total(r)
  <2>1. \A i \in S : k[i] = W * q[i] + r[i]
    BY <1>3, <1>4
  <2>. QED
    BY <1>2, <1>5, <2>1, TotalLinear
<1>8. Total(r) \in Nat
  BY <1>2, TotalNat
<1>9. PICK A, one, top : /\ A = Takers(weight) /\ one = [x \in S |-> IF x \in A THEN 1 ELSE 0]
                         /\ top = [x \in S |-> IF x \in A THEN W - 1 ELSE 0]
  OBVIOUS
<1>10. A \subseteq S /\ IsFiniteSet(A) /\ Cardinality(A) \in Nat
  <2>1. A \subseteq S
    BY <1>1, <1>9 DEF Takers, Weights
  <2>. QED
    BY <1>2, <2>1, FS_Subset, FS_CardinalityType
<1>11. Total(one) = Cardinality(A)
  BY <1>2, <1>9, <1>10, TotalCounts
<1>12. one \in [S -> Int] /\ top \in [S -> Int] /\ \A x \in S : top[x] = (W - 1) * one[x]
  <2>1. one \in [S -> Int] /\ top \in [S -> Int]
    BY <1>2, <1>9
  <2>2. ASSUME NEW x \in S PROVE top[x] = (W - 1) * one[x]
    <3>1. top[x] = (IF x \in A THEN W - 1 ELSE 0) /\ one[x] = (IF x \in A THEN 1 ELSE 0)
      BY <1>9
    <3>2. (W - 1) * 1 = W - 1 /\ (W - 1) * 0 = 0
      BY <1>2
    <3>. QED
      BY <3>1, <3>2
  <2>. QED
    BY <2>1, <2>2
<1>13. Total(top) = (W - 1) * Total(one)
  <2>1. PICK c \in Int : c = W - 1
    BY <1>2
  <2>2. \A x \in S : top[x] = c * one[x]
    BY <1>12, <2>1
  <2>. QED
    BY <1>2, <1>12, <2>1, <2>2, TotalTimes
<1>14. Total(r) <= Total(top)
  <2>1. ASSUME NEW x \in S PROVE r[x] <= top[x]
    <3>1. CASE x \in A
      BY <1>3, <1>9, <3>1
    <3>2. CASE x \notin A
      <4>1. f[x] = 0
        BY <1>1, <1>2, <1>9, <3>2 DEF Takers
      <4>. QED
        BY <1>3, <1>9, <3>2, <4>1
    <3>. QED
      BY <3>1, <3>2
  <2>. QED
    BY <1>2, <1>5, <1>12, <2>1, TotalAtMost
<1>15. PICK l, c \in Int : l = total - Total(q) /\ c = Cardinality(A)
  BY <1>7, <1>10
<1>16. W * l = Total(r)
  <2>1. PICK b, d, e \in Int : b = Total(q) /\ d = Total(r) /\ e = total
    BY <1>7
  <2>2. e * W = W * b + d /\ l = e - b
    BY <1>1, <1>6, <1>7, <1>15, <2>1
  <2>. QED
    BY <1>2, <2>1, <2>2, Apart
<1>17. W * l >= 0 /\ W * l <= (W - 1) * c
  BY <1>8, <1>11, <1>13, <1>14, <1>15, <1>16
<1>18. l \in 0..c
  BY <1>2, <1>10, <1>15, <1>17, Halves
<1>. QED
  BY <1>1, <1>7, <1>9, <1>10, <1>15, <1>18 DEF Left
LEMMA AheadOrdered ==
    ASSUME NEW n \in Nat, NEW weight \in Weights(n), NEW total \in Nat, Total(weight) > 0
    PROVE  /\ Ordered(Takers(weight), Ahead(total, weight))
           /\ \A i, j \in Takers(weight) :
                 Rest(total, weight)[i] > Rest(total, weight)[j] => i \in Ahead(total, weight)[j]
<1>1. PICK P, before, r : /\ P = Takers(weight) /\ before = Ahead(total, weight) /\ r = Rest(total, weight)
  OBVIOUS
<1>2. P \subseteq 1..n
  BY <1>1 DEF Takers, Weights
<1>3. r \in [1..n -> Nat]
  BY <1>1, Parts
<1>4. before = [i \in P |-> {j \in P : r[j] > r[i] \/ (r[j] = r[i] /\ j < i)}]
  BY <1>1 DEF Ahead
<1>5. before \in [P -> SUBSET P]
  BY <1>4
<1>6. \A i, j \in P : j \in before[i] <=> (r[j] > r[i] \/ (r[j] = r[i] /\ j < i))
  BY <1>4
<1>7. \A i \in P : i \in Int /\ r[i] \in Int
  BY <1>2, <1>3
<1>8. ASSUME NEW i \in P, NEW j \in P, j \in before[i] PROVE before[j] \subseteq before[i]
  <2>. SUFFICES ASSUME NEW k \in before[j] PROVE k \in before[i]
    OBVIOUS
  <2>1. k \in P
    BY <1>5
  <2>. QED
    BY <1>6, <1>7, <1>8, <2>1
<1>9. \A i \in P : i \notin before[i]
  BY <1>6, <1>7
<1>10. \A i, j \in P : i = j \/ i \in before[j] \/ j \in before[i]
  BY <1>6, <1>7
<1>. QED
  BY <1>1, <1>5, <1>6, <1>8, <1>9, <1>10 DEF Ordered

\* Who gets a unit of what is left over.
LEMMA AllocateParts ==
    ASSUME NEW n \in Nat, NEW weight \in Weights(n), NEW total \in Nat, total > 0, Total(weight) > 0
    PROVE  /\ DOMAIN Allocate(total, weight) = 1..n
           /\ \A i \in 1..n : Allocate(total, weight)[i] = Quota(total, weight)[i] +
                 IF i \in First(Takers(weight), Ahead(total, weight), Left(total, weight)) THEN 1 ELSE 0
<1>1. DOMAIN weight = 1..n
  BY DEF Weights
<1>2. DOMAIN Allocate(total, weight) = 1..n
  BY <1>1 DEF Allocate
<1>3. PICK P, A : P = Takers(weight) /\ A = First(P, Ahead(total, weight), Left(total, weight))
  OBVIOUS
<1>4. ASSUME NEW i \in 1..n
      PROVE  Allocate(total, weight)[i] = Quota(total, weight)[i] + IF i \in A THEN 1 ELSE 0
  <2>1. CASE i \in P
    <3>1. i \in A <=> Cardinality(Ahead(total, weight)[i]) < Left(total, weight)
      BY <1>3, <2>1 DEF First
    <3>2. Allocate(total, weight)[i] = Quota(total, weight)[i] +
              IF Cardinality(Ahead(total, weight)[i]) < Left(total, weight) THEN 1 ELSE 0
      BY <1>3, <2>1, AllocateOne
    <3>. QED
      BY <3>1, <3>2, Zenon
  <2>2. CASE i \notin P
    <3>1. weight[i] = 0 /\ i \notin A
      BY <1>1, <1>3, <2>2 DEF Takers, First, Weights
    <3>2. Quota(total, weight)[i] = 0
      BY <3>1, NoQuota
    <3>3. Allocate(total, weight)[i] = 0
      BY <3>1, AllocateNone
    <3>. QED
      BY <3>1, <3>2, <3>3
  <2>. QED
    BY <2>1, <2>2
<1>. QED
  BY <1>2, <1>3, <1>4

\* Everything is handed out.
LEMMA AllocateAddsUp ==
    ASSUME NEW n \in Nat, NEW weight \in Weights(n), NEW total \in Nat, total > 0, Total(weight) > 0
    PROVE  Total(Allocate(total, weight)) = total
<1>1. PICK S, P, q, before, l : /\ S = 1..n /\ P = Takers(weight) /\ q = Quota(total, weight)
                                /\ before = Ahead(total, weight) /\ l = Left(total, weight)
  OBVIOUS
<1>2. PICK A, one, k : /\ A = First(P, before, l) /\ one = [x \in S |-> IF x \in A THEN 1 ELSE 0]
                       /\ k = Allocate(total, weight)
  OBVIOUS
<1>3. IsFiniteSet(S) /\ q \in [S -> Nat]
  BY <1>1, Parts
<1>4. IsFiniteSet(P) /\ l \in 0..Cardinality(P) /\ P \subseteq S
  BY <1>1, LeftOver DEF Takers, Weights
<1>5. Ordered(P, before)
  BY <1>1, AheadOrdered
<1>6. Cardinality(A) = l /\ A \subseteq S
  <2>1. Cardinality(A) = l
    BY <1>2, <1>4, <1>5, RankCounts
  <2>. QED
    BY <1>2, <1>4, <2>1 DEF First
<1>7. Total(one) = l
  BY <1>2, <1>3, <1>6, TotalCounts
<1>8. DOMAIN k = S /\ \A x \in S : k[x] = q[x] + one[x]
  <2>1. DOMAIN k = S
    BY <1>1, <1>2, AllocateParts
  <2>2. ASSUME NEW x \in S PROVE k[x] = q[x] + one[x]
    <3>1. k[x] = q[x] + IF x \in A THEN 1 ELSE 0
      BY <1>1, <1>2, AllocateParts
    <3>. QED
      BY <1>2, <3>1
  <2>. QED
    BY <2>1, <2>2
<1>9. q \in [S -> Int] /\ one \in [S -> Int] /\ k \in [S -> Int]
  <2>1. q \in [S -> Int] /\ one \in [S -> Int]
    BY <1>2, <1>3
  <2>2. k = [x \in S |-> q[x] + one[x]]
    BY <1>1, <1>2, <1>8 DEF Allocate, Weights
  <2>. QED
    BY <2>1, <2>2
<1>10. Total(q) \in Int /\ Total(k) = Total(q) + Total(one)
  BY <1>3, <1>8, <1>9, TotalPlus
<1>11. l = total - Total(q)
  BY <1>1 DEF Left
<1>. QED
  BY <1>2, <1>7, <1>10, <1>11

\* A larger weight gets no less, an equal one no less but for one unit.
LEMMA AllocateFair ==
    ASSUME NEW n \in Nat, NEW weight \in Weights(n), NEW total \in Int,
           NEW i \in 1..n, NEW j \in 1..n, weight[i] >= weight[j]
    PROVE  /\ Allocate(total, weight)[i] \in Nat /\ Allocate(total, weight)[j] \in Nat
           /\ Allocate(total, weight)[i] + (IF weight[i] = weight[j] THEN 1 ELSE 0) >= Allocate(total, weight)[j]
<1>1. weight[i] \in Nat /\ weight[j] \in Nat
  BY DEF Weights
<1>2. CASE total <= 0
  BY <1>1, <1>2, AllocateNone
<1>3. CASE total > 0 /\ ~(Total(weight) > 0)
  <2>1. IsFiniteSet(1..n) /\ weight \in [1..n -> Nat]
    <3>1. IsFiniteSet(1..n)
      BY FS_Interval
    <3>. QED
      BY <3>1 DEF Weights
  <2>2. Total(weight) \in Nat /\ weight[i] <= Total(weight) /\ weight[j] <= Total(weight)
    BY <2>1, TotalHas
  <2>3. weight[i] = 0 /\ weight[j] = 0
    BY <1>1, <1>3, <2>2
  <2>. QED
    BY <2>3, AllocateNone
<1>4. CASE total > 0 /\ Total(weight) > 0
  <2>1. PICK W, q, r, P, before, l :
            /\ W = Total(weight) /\ q = Quota(total, weight) /\ r = Rest(total, weight)
            /\ P = Takers(weight) /\ before = Ahead(total, weight) /\ l = Left(total, weight)
    OBVIOUS
  <2>2. PICK A : A = First(P, before, l)
    OBVIOUS
  <2>3. total \in Nat
    BY <1>4
  <2>4. W \in Nat \ {0} /\ q[i] \in Nat /\ q[j] \in Nat /\ r[i] \in Nat /\ r[j] \in Nat
    <3>1. Total(weight) \in Nat \ {0} /\ Quota(total, weight) \in [1..n -> Nat] /\ Rest(total, weight) \in [1..n -> Nat]
      BY <1>4, <2>3, Parts
    <3>. QED
      BY <2>1, <3>1
  <2>5. /\ r[i] <= W - 1 /\ total * weight[i] = W * q[i] + r[i]
        /\ r[j] <= W - 1 /\ total * weight[j] = W * q[j] + r[j]
    <3>1. \A k \in 1..n :
             /\ Rest(total, weight)[k] <= Total(weight) - 1
             /\ total * weight[k] = Total(weight) * Quota(total, weight)[k] + Rest(total, weight)[k]
             /\ weight[k] = 0 => Quota(total, weight)[k] = 0 /\ Rest(total, weight)[k] = 0
      BY <1>4, <2>3, Parts
    <3>. QED
      BY <2>1, <3>1
  <2>6. PICK a, b \in Nat : a = Allocate(total, weight)[i] /\ b = Allocate(total, weight)[j] /\
            a = q[i] + (IF i \in A THEN 1 ELSE 0) /\ b = q[j] + (IF j \in A THEN 1 ELSE 0)
    <3>1. \A k \in 1..n : Allocate(total, weight)[k] = q[k] + IF k \in A THEN 1 ELSE 0
      BY <1>4, <2>1, <2>2, <2>3, AllocateParts
    <3>2. PICK a, b : a = q[i] + (IF i \in A THEN 1 ELSE 0) /\ b = q[j] + (IF j \in A THEN 1 ELSE 0)
      OBVIOUS
    <3>3. a \in Nat /\ b \in Nat
      BY <2>4, <3>2
    <3>. QED
      BY <3>1, <3>2, <3>3
  <2>7. PICK x, y \in Int : x = total * weight[i] /\ y = total * weight[j]
    BY <1>1, <2>3, Products
  <2>8. x >= y /\ (weight[i] # weight[j] => x > y)
    <3>1. PICK u, v \in Nat : u = weight[i] /\ v = weight[j]
      BY <1>1
    <3>2. u >= v => total * u >= total * v
      BY <2>3
    <3>3. u > v => total * u > total * v
      BY <1>4, <2>3
    <3>. QED
      BY <2>7, <3>1, <3>2, <3>3
  <2>9. q[i] >= q[j] /\ (q[i] = q[j] => r[i] >= r[j] /\ (x > y => r[i] > r[j]))
    <3>1. PICK c, d, e, f \in Nat : c = q[i] /\ d = q[j] /\ e = r[i] /\ f = r[j]
      BY <2>4
    <3>. QED
      BY <2>4, <2>5, <2>7, <2>8, <3>1, Ranked
  <2>10. CASE q[i] # q[j] \/ weight[i] = weight[j]
    BY <2>4, <2>6, <2>9, <2>10
  <2>11. CASE q[i] = q[j] /\ weight[i] # weight[j]
    <3>1. r[i] > r[j]
      BY <2>8, <2>9, <2>11
    <3>2. i \in A \/ j \notin A
      <4>. SUFFICES ASSUME j \in A PROVE i \in A
        OBVIOUS
      <4>1. j \in P /\ Cardinality(before[j]) < l
        BY <2>2 DEF First
      <4>2. i \in P
        <5>1. weight[i] > 0 /\ i \in DOMAIN weight
          BY <1>1, <2>11 DEF Weights
        <5>. QED
          BY <2>1, <5>1 DEF Takers
      <4>3. i \in before[j]
        BY <1>4, <2>1, <2>3, <3>1, <4>1, <4>2, AheadOrdered
      <4>4. IsFiniteSet(P) /\ Ordered(P, before) /\ l \in Nat
        <5>1. l \in 0..Cardinality(P) /\ IsFiniteSet(P) /\ Cardinality(P) \in Nat
          BY <1>4, <2>1, <2>3, LeftOver
        <5>2. Ordered(P, before)
          BY <1>4, <2>1, <2>3, AheadOrdered
        <5>. QED
          BY <5>1, <5>2
      <4>5. /\ Cardinality(before[i]) \in Nat /\ Cardinality(before[j]) \in Nat
            /\ Cardinality(before[i]) < Cardinality(before[j])
        BY <4>1, <4>3, <4>4, RankGrows
      <4>6. Cardinality(before[i]) < l
        BY <4>1, <4>4, <4>5
      <4>. QED
        BY <2>2, <4>2, <4>6 DEF First
    <3>. QED
      BY <2>4, <2>6, <2>11, <3>2
  <2>. QED
    BY <2>10, <2>11
<1>. QED
  BY <1>2, <1>3, <1>4

-----------------------------------------------------------------------------
(* The calculation *)

LEMMA IntervalFinite == \A n \in Nat : IsFiniteSet(1..n)
BY FS_Interval

LEMMA Behind == \A m, n \in Nat : \A i \in 1..m + n : ~(i <= m) => i - m \in 1..n
<1>. TAKE m, n \in Nat
<1>. TAKE i \in 1..m + n
<1>1. i \in Int /\ i <= m + n
  OBVIOUS
<1>2. ~(i <= m) => i - m \in Int /\ 1 <= i - m /\ i - m <= n
  BY <1>1
<1>. QED
  BY <1>2

LEMMA RoundNat == \A a \in Nat : \A b \in Nat \ {0} : RoundHalfUp(a, b) \in Nat /\ RoundHalfUp(0, b) = 0
BY DEF RoundHalfUp

LEMMA RateNat == \A v \in Nat : Rate(v) \in Nat
<1>. TAKE v \in Nat
<1>1. RoundHalfUp(v, 100) \in Nat
  <2>1. PICK h \in Nat \ {0} : h = 100
    OBVIOUS
  <2>. QED
    BY <2>1, RoundNat
<1>. QED
  BY <1>1 DEF Rate

LEMMA PayloadIs ==
    ASSUME NEW p \in Payloads
    PROVE  /\ IsFiniteSet(DOMAIN p.outputs)
           /\ \A t \in DOMAIN p.outputs : p.outputs[t].quantity \in Nat /\ p.outputs[t].price \in Nat
           /\ p.reserve \in ChargeRows /\ p.deductions \in Seq(ChargeRows)
           /\ DOMAIN p.ledger = 1..Len(p.ledger) /\ Len(p.ledger) \in Nat
           /\ \A i \in DOMAIN p.ledger : p.ledger[i].mined \in Nat /\ p.ledger[i].terms \in TermRows
           /\ p.manual \in Seq({c \in TermRows : c.method # "auto"})
BY PayloadsOK, Zenon

LEMMA GrossNat ==
    ASSUME NEW p \in Payloads
    PROVE  /\ Gross(p) \in Nat /\ IsFiniteSet(Minerals(p))
           /\ \A t \in Minerals(p) : p.outputs[t].quantity \in Nat \ {0}
<1>1. Minerals(p) \subseteq DOMAIN p.outputs /\ \A t \in Minerals(p) : p.outputs[t].quantity > 0
  BY DEF Minerals
<1>2. IsFiniteSet(DOMAIN p.outputs) /\
      \A t \in DOMAIN p.outputs : p.outputs[t].quantity \in Nat /\ p.outputs[t].price \in Nat
  BY PayloadIs
<1>3. IsFiniteSet(Minerals(p))
  BY <1>1, <1>2, FS_Subset
<1>4. PICK S, f : S = Minerals(p) /\
          f = [t \in S |-> RoundHalfUp(p.outputs[t].quantity * p.outputs[t].price, Cent)]
  OBVIOUS
<1>5. f \in [S -> Nat]
  <2>1. ASSUME NEW t \in S PROVE RoundHalfUp(p.outputs[t].quantity * p.outputs[t].price, Cent) \in Nat
    <3>1. PICK q, c \in Nat : q = p.outputs[t].quantity /\ c = p.outputs[t].price
      BY <1>1, <1>2, <1>4, <2>1
    <3>2. q * c \in Nat
      BY Products
    <3>. QED
      BY <3>1, <3>2, RoundNat, SettlementConstants
  <2>. QED
    BY <1>4, <2>1
<1>6. Total(f) \in Nat
  BY <1>3, <1>4, <1>5, TotalNat
<1>. QED
  BY <1>1, <1>2, <1>3, <1>4, <1>6 DEF Gross

LEMMA ChargeNat ==
    ASSUME NEW p \in Payloads, NEW charge \in ChargeRows
    PROVE  Charge(p, charge) \in Nat
<1>1. charge.method \in {"none", "flat_isk", "percentage"} /\ charge.value \in Nat
  BY DEF ChargeRows
<1>2. RoundHalfUp(Gross(p) * Rate(charge.value), Whole) \in Nat
  <2>1. PICK g, r \in Nat : g = Gross(p) /\ r = Rate(charge.value)
    BY <1>1, GrossNat, RateNat
  <2>2. g * r \in Nat
    BY Products
  <2>. QED
    BY <2>1, <2>2, RoundNat, SettlementConstants
<1>. QED
  BY <1>1, <1>2 DEF Charge

LEMMA ChargesNat ==
    ASSUME NEW p \in Payloads
    PROVE  Reserve(p) \in Nat /\ Deductions(p) \in Nat /\ Distributable(p) \in Int
<1>1. Reserve(p) \in Nat
  BY PayloadIs, ChargeNat DEF Reserve
<1>2. PICK f : f = [d \in DOMAIN p.deductions |-> Charge(p, p.deductions[d])]
  OBVIOUS
<1>3. PICK n \in Nat : DOMAIN p.deductions = 1..n /\ \A d \in 1..n : p.deductions[d] \in ChargeRows
  <2>1. p.deductions \in Seq(ChargeRows)
    BY PayloadIs
  <2>. QED
    BY <2>1
<1>4. f \in [1..n -> Nat] /\ IsFiniteSet(1..n)
  <2>1. f \in [1..n -> Nat]
    BY <1>2, <1>3, ChargeNat
  <2>. QED
    BY <2>1, IntervalFinite
<1>5. Total(f) \in Nat
  BY <1>4, TotalNat
<1>6. Deductions(p) \in Nat
  BY <1>2, <1>5 DEF Deductions
<1>. QED
  BY <1>1, <1>6, GrossNat DEF Distributable

Size(p) == Len(p.ledger) + Len(p.manual)

LEMMA CrewIs ==
    ASSUME NEW p \in Payloads
    PROVE  /\ Size(p) \in Nat /\ Crew(p) = 1..Size(p) /\ IsFiniteSet(Crew(p))
           /\ \A i \in Crew(p) :
                 /\ Terms(p, i) \in TermRows
                 /\ Terms(p, i).method = "auto" => i \in DOMAIN p.ledger
<1>1. Len(p.ledger) \in Nat /\ DOMAIN p.ledger = 1..Len(p.ledger)
  BY PayloadIs
<1>2. p.manual \in Seq({c \in TermRows : c.method # "auto"})
  BY PayloadIs
<1>3. /\ Len(p.manual) \in Nat
      /\ \A i \in 1..Len(p.manual) : p.manual[i] \in TermRows /\ p.manual[i].method # "auto"
  BY <1>2
<1>4. Size(p) \in Nat /\ Crew(p) = 1..Size(p)
  <2>1. Size(p) \in Nat
    <3>1. PICK m, n \in Nat : m = Len(p.ledger) /\ n = Len(p.manual)
      BY <1>1, <1>3
    <3>2. Size(p) = m + n
      BY <3>1, Zenon DEF Size
    <3>. QED
      BY <3>2
  <2>2. Crew(p) = 1..Size(p)
    BY DEF Size, Crew
  <2>. QED
    BY <2>1, <2>2
<1>5. IsFiniteSet(1..Size(p))
  BY <1>4, IntervalFinite
<1>6. ASSUME NEW i \in Crew(p)
      PROVE  Terms(p, i) \in TermRows /\ (Terms(p, i).method = "auto" => i \in DOMAIN p.ledger)
  <2>1. PICK m, n \in Nat : m = Len(p.ledger) /\ n = Len(p.manual)
    BY <1>1, <1>3
  <2>2. i \in 1..m + n
    BY <1>4, <1>6, <2>1 DEF Size
  <2>3. CASE i <= m
    <3>1. i \in DOMAIN p.ledger /\ Terms(p, i) = p.ledger[i].terms
      BY <1>1, <2>1, <2>2, <2>3 DEF Terms
    <3>. QED
      BY <3>1, PayloadIs
  <2>4. CASE ~(i <= m)
    <3>1. i - m \in 1..n
      BY <2>2, <2>4, Behind
    <3>2. Terms(p, i) = p.manual[i - m]
      BY <2>1, <2>4 DEF Terms
    <3>. QED
      BY <1>3, <2>1, <3>1, <3>2
  <2>. QED
    BY <2>3, <2>4
<1>. QED
  BY <1>4, <1>5, <1>6

LEMMA AutoNat ==
    ASSUME NEW p \in Payloads, NEW i \in DOMAIN p.ledger
    PROVE  AutoWeight(p, i) \in Nat
<1>1. PICK n \in Nat : n = Len(p.ledger) /\ DOMAIN p.ledger = 1..n
  BY PayloadIs
<1>2. PICK f : f = [j \in DOMAIN p.ledger |-> p.ledger[j].mined]
  OBVIOUS
<1>3. f \in [1..n -> Nat] /\ IsFiniteSet(1..n)
  <2>1. f \in [1..n -> Nat]
    BY <1>1, <1>2, PayloadIs
  <2>. QED
    BY <2>1, IntervalFinite
<1>4. PICK mined \in Nat : mined = Total(f)
  BY <1>3, TotalNat
<1>5. AutoWeight(p, i) = IF mined = 0 THEN 0 ELSE RoundHalfUp(Unit * p.ledger[i].mined * n, mined)
  BY <1>1, <1>2, <1>4 DEF AutoWeight
<1>6. PICK a \in Nat : a = Unit * p.ledger[i].mined * n
  <2>1. PICK u, m \in Nat : u = Unit /\ m = p.ledger[i].mined
    BY PayloadIs, SettlementConstants
  <2>2. u * m * n \in Nat
    OBVIOUS
  <2>. QED
    BY <2>1, <2>2
<1>7. mined # 0 => RoundHalfUp(a, mined) \in Nat
  BY RoundNat
<1>. QED
  BY <1>5, <1>6, <1>7

LEMMA TermsNat ==
    ASSUME NEW p \in Payloads
    PROVE  /\ FixedRate(p) \in Weights(Size(p)) /\ Weight(p) \in Weights(Size(p))
           /\ \A i \in Crew(p) : IF IsFixed(p, i) THEN Weight(p)[i] = 0 ELSE FixedRate(p)[i] = 0
<1>1. \A i \in Crew(p) : Terms(p, i).value \in Nat /\ Terms(p, i).method \in {"auto", "shares", "fixed_percentage"}
  BY CrewIs DEF TermRows
<1>2. ASSUME NEW i \in Crew(p) PROVE FixedRate(p)[i] \in Nat /\ (~IsFixed(p, i) => FixedRate(p)[i] = 0)
  BY <1>1, RateNat DEF FixedRate
<1>3. ASSUME NEW i \in Crew(p) PROVE Weight(p)[i] \in Nat /\ (IsFixed(p, i) => Weight(p)[i] = 0)
  <2>1. Terms(p, i).method = "auto" => AutoWeight(p, i) \in Nat
    BY CrewIs, AutoNat
  <2>2. Weight(p)[i] = CASE Terms(p, i).method = "auto"   -> AutoWeight(p, i)
                         [] Terms(p, i).method = "shares" -> Terms(p, i).value
                         [] OTHER                         -> 0
    BY DEF Weight
  <2>. QED
    BY <1>1, <2>1, <2>2 DEF IsFixed
<1>4. FixedRate(p) \in [Crew(p) -> Nat] /\ Weight(p) \in [Crew(p) -> Nat]
  <2>1. FixedRate(p) \in [Crew(p) -> Nat]
    BY <1>2 DEF FixedRate
  <2>2. PICK w : w = [i \in Crew(p) |-> Weight(p)[i]]
    OBVIOUS
  <2>3. w = Weight(p)
    BY <2>2 DEF Weight
  <2>. QED
    BY <1>3, <2>1, <2>2, <2>3
<1>5. Crew(p) = 1..Size(p)
  BY CrewIs
<1>. QED
  BY <1>2, <1>3, <1>4, <1>5 DEF Weights

\* What an accepted payload fulfils.
Shares(p) == Allocate(SharePool(p), Weight(p))

LEMMA AcceptedIs ==
    ASSUME NEW p \in Payloads, Accepted(p)
    PROVE  /\ Distributable(p) \in Nat
           /\ Total(FixedRate(p)) \in Nat /\ Total(FixedRate(p)) <= Whole
           /\ SharePool(p) > 0 => Total(Weight(p)) > 0
           /\ p.mode = "minerals" /\ Total(FixedRate(p)) < Whole => Total(Weight(p)) > 0
           /\ Unallocated(p) \in -1..1
<1>1. Reserve(p) + Deductions(p) <= Gross(p)
  BY DEF Accepted
<1>2. Distributable(p) \in Nat
  BY <1>1, ChargesNat, GrossNat DEF Distributable
<1>3. Total(FixedRate(p)) \in Nat
  BY CrewIs, IntervalFinite, TermsNat, TotalNat DEF Weights
<1>. QED
  BY <1>2, <1>3 DEF Accepted

LEMMA FixedPayNat ==
    ASSUME NEW p \in Payloads, Accepted(p)
    PROVE  /\ FixedPay(p) \in [Crew(p) -> Nat] /\ Total(FixedPay(p)) \in Nat /\ SharePool(p) \in Int
           /\ \A i \in Crew(p) : ~IsFixed(p, i) => FixedPay(p)[i] = 0
<1>1. PICK d \in Nat : d = Distributable(p)
  BY AcceptedIs
<1>2. ASSUME NEW i \in Crew(p)
      PROVE  FixedPay(p)[i] \in Nat /\ (~IsFixed(p, i) => FixedPay(p)[i] = 0)
  <2>1. PICK r \in Nat : r = FixedRate(p)[i]
    BY TermsNat, CrewIs DEF Weights
  <2>2. FixedPay(p)[i] = RoundHalfUp(d * r, Whole)
    BY <1>1, <2>1 DEF FixedPay
  <2>3. d * r \in Nat /\ (r = 0 => d * r = 0)
    OBVIOUS
  <2>4. ~IsFixed(p, i) => r = 0
    BY <2>1, TermsNat
  <2>. QED
    BY <2>2, <2>3, <2>4, RoundNat, SettlementConstants
<1>3. FixedPay(p) \in [Crew(p) -> Nat]
  <2>1. PICK f : f = [i \in Crew(p) |-> FixedPay(p)[i]]
    OBVIOUS
  <2>2. f = FixedPay(p)
    BY <2>1 DEF FixedPay
  <2>. QED
    BY <1>2, <2>1, <2>2
<1>4. Total(FixedPay(p)) \in Nat
  BY <1>3, CrewIs, TotalNat
<1>5. SharePool(p) \in Int
  BY <1>1, <1>4 DEF SharePool
<1>. QED
  BY <1>2, <1>3, <1>4, <1>5

LEMMA AllocateNat ==
    ASSUME NEW n \in Nat, NEW weight \in Weights(n), NEW total \in Int
    PROVE  Allocate(total, weight) \in [1..n -> Nat]
<1>1. PICK f : f = [i \in 1..n |-> Allocate(total, weight)[i]]
  OBVIOUS
<1>2. f = Allocate(total, weight)
  BY <1>1 DEF Allocate, Weights
<1>3. \A i \in 1..n : weight[i] \in Nat
  BY DEF Weights
<1>4. ASSUME NEW i \in 1..n PROVE Allocate(total, weight)[i] \in Nat
  <2>1. weight[i] >= weight[i]
    BY <1>3
  <2>. QED
    BY <2>1, AllocateFair
<1>. QED
  BY <1>1, <1>2, <1>4

\* What the shares add up to.
LEMMA SharesAddUp ==
    ASSUME NEW p \in Payloads, Accepted(p)
    PROVE  /\ Shares(p) \in [Crew(p) -> Nat]
           /\ Total(Shares(p)) = IF SharePool(p) > 0 THEN SharePool(p) ELSE 0
<1>1. PICK n, w : n \in Nat /\ w \in Weights(n) /\ n = Size(p) /\ w = Weight(p) /\ Crew(p) = 1..n
  BY CrewIs, TermsNat
<1>2. PICK total \in Int : total = SharePool(p)
  BY FixedPayNat
<1>3. Shares(p) = Allocate(total, w)
  BY <1>1, <1>2 DEF Shares
<1>4. Allocate(total, w) \in [1..n -> Nat]
  BY <1>1, AllocateNat
<1>5. CASE total > 0
  <2>1. total \in Nat /\ Total(w) > 0
    BY <1>1, <1>2, <1>5, AcceptedIs
  <2>2. Total(Allocate(total, w)) = total
    BY <1>1, <1>5, <2>1, AllocateAddsUp
  <2>. QED
    BY <1>1, <1>2, <1>3, <1>4, <1>5, <2>2
<1>6. CASE ~(total > 0)
  <2>1. \A i \in 1..n : Allocate(total, w)[i] = 0
    BY <1>1, <1>6, AllocateNone
  <2>2. Allocate(total, w) = [i \in 1..n |-> 0]
    BY <1>4, <2>1
  <2>3. Total(Allocate(total, w)) = 0
    BY <1>1, <2>2, IntervalFinite, TotalZero
  <2>. QED
    BY <1>1, <1>2, <1>3, <1>4, <1>6, <2>3
<1>. QED
  BY <1>5, <1>6

\* A cent too much may be paid, never one kept back.
LEMMA Remainder ==
    ASSUME NEW p \in Payloads, Accepted(p)
    PROVE  /\ Payouts(p) \in [Crew(p) -> Nat] /\ Total(Payouts(p)) \in Nat
           /\ Unallocated(p) \in {-1, 0}
           /\ Gross(p) = Reserve(p) + Deductions(p) + Total(Payouts(p)) + Unallocated(p)
<1>1. PICK S, f, h, k : S = Crew(p) /\ f = FixedPay(p) /\ h = Shares(p) /\ k = Payouts(p)
  OBVIOUS
<1>2. f \in [S -> Nat] /\ h \in [S -> Nat] /\ IsFiniteSet(S)
  BY <1>1, FixedPayNat, SharesAddUp, CrewIs
<1>3. k = [i \in S |-> f[i] + h[i]]
  BY <1>1 DEF Payouts, Shares
<1>4. k \in [S -> Nat] /\ k \in [S -> Int] /\ f \in [S -> Int] /\ h \in [S -> Int] /\ \A i \in S : k[i] = f[i] + h[i]
  BY <1>2, <1>3
<1>5. Total(f) \in Int /\ Total(h) \in Int /\ Total(k) = Total(f) + Total(h)
  BY <1>2, <1>4, TotalPlus
<1>6. Total(k) \in Nat
  BY <1>2, <1>4, TotalNat
<1>7. PICK d, x, y, z \in Int : d = Distributable(p) /\ x = Total(f) /\ y = Total(h) /\ z = SharePool(p)
  BY <1>5, AcceptedIs, FixedPayNat
<1>8. z = d - x /\ y = (IF z > 0 THEN z ELSE 0) /\ Unallocated(p) = d - (x + y)
  BY <1>1, <1>5, <1>7, SharesAddUp DEF SharePool, Unallocated
<1>9. Unallocated(p) \in -1..1
  BY AcceptedIs
<1>10. Unallocated(p) \in {-1, 0}
  BY <1>8, <1>9
<1>11. Gross(p) = Reserve(p) + Deductions(p) + Total(k) + Unallocated(p)
  <2>1. PICK g, r, e \in Int : g = Gross(p) /\ r = Reserve(p) /\ e = Deductions(p) /\ d = g - r - e
    BY <1>7, GrossNat, ChargesNat DEF Distributable
  <2>. QED
    BY <1>5, <1>7, <1>8, <2>1
<1>. QED
  BY <1>1, <1>4, <1>6, <1>10, <1>11

\* A larger share is paid no less, an equal one no less but for one cent.
LEMMA FairPay ==
    ASSUME NEW p \in Payloads, Accepted(p), NEW i \in Crew(p), NEW j \in Crew(p),
           ~IsFixed(p, i), ~IsFixed(p, j), Weight(p)[i] >= Weight(p)[j]
    PROVE  /\ Payouts(p)[i] \in Nat /\ Payouts(p)[j] \in Nat
           /\ Payouts(p)[i] + (IF Weight(p)[i] = Weight(p)[j] THEN 1 ELSE 0) >= Payouts(p)[j]
<1>1. PICK n, w : n \in Nat /\ w \in Weights(n) /\ n = Size(p) /\ w = Weight(p) /\ Crew(p) = 1..n
  BY CrewIs, TermsNat
<1>2. PICK total \in Int : total = SharePool(p)
  BY FixedPayNat
<1>3. i \in 1..n /\ j \in 1..n /\ w[i] >= w[j]
  BY <1>1
<1>4. PICK a, b \in Nat : a = Allocate(total, w)[i] /\ b = Allocate(total, w)[j] /\
                          a + (IF w[i] = w[j] THEN 1 ELSE 0) >= b
  BY <1>1, <1>3, AllocateFair
<1>5. FixedPay(p)[i] = 0 /\ FixedPay(p)[j] = 0
  BY FixedPayNat
<1>6. Payouts(p)[i] = 0 + a /\ Payouts(p)[j] = 0 + b
  BY <1>1, <1>2, <1>4, <1>5 DEF Payouts
<1>. QED
  BY <1>1, <1>4, <1>6

-----------------------------------------------------------------------------
(* Minerals *)

LEMMA ScaleIs ==
    ASSUME NEW n \in Nat, NEW top \in Scales, n < top * Precision
    PROVE  /\ Scale(n) \in Nat \ {0}
           /\ Scale(n) = 1 \/ Scale(n) * Precision <= 10 * n
<1>1. PICK T : T = {s \in Scales : n < s * Precision}
  OBVIOUS
<1>2. Scales \subseteq Nat \ {0} /\ Precision \in Nat \ {0} /\ \A s \in Scales \ {1} : \E r \in Scales : s = 10 * r
  BY SettlementConstants
<1>3. PICK s \in T : \A t \in T : s <= t
  <2>1. T \in SUBSET Nat /\ T # {}
    BY <1>1, <1>2
  <2>. QED
    BY <2>1, LeastOf
<1>4. s \in Scales /\ s \in Nat \ {0} /\ n < s * Precision
  BY <1>1, <1>2
<1>5. s = 1 \/ s * Precision <= 10 * n
  <2>. SUFFICES ASSUME s # 1 PROVE s * Precision <= 10 * n
    OBVIOUS
  <2>1. PICK r \in Scales : s = 10 * r
    BY <1>2, <1>4
  <2>2. r \in Nat \ {0} /\ r < s
    BY <1>2, <2>1
  <2>3. r \notin T
    BY <1>3, <1>4, <2>2
  <2>4. ~(n < r * Precision)
    BY <1>1, <2>3
  <2>5. PICK x \in Nat : x = r * Precision
    BY <1>2, <2>2, Products
  <2>6. s * Precision = 10 * x
    BY <1>2, <2>1, <2>2, <2>5
  <2>. QED
    BY <2>4, <2>5, <2>6
<1>6. Scale(n) \in Scales /\ (Scale(n) = 1 \/ Scale(n) * Precision <= 10 * n)
  <2>1. \E x \in Scales : n < x * Precision /\ (x = 1 \/ x * Precision <= 10 * n)
    BY <1>4, <1>5
  <2>. QED
    BY <2>1 DEF Scale
<1>. QED
  BY <1>2, <1>6

LEMMA RatioAtMost == \A g \in Nat \ {0} : \A d, w \in Nat : d <= g =>
    \E r \in Nat : r = RoundHalfEven(d * w, g) /\ 2 * (g * r) <= 2 * (d * w) + g /\ r <= w
<1>. TAKE g \in Nat \ {0}
<1>. TAKE d, w \in Nat
<1>. HAVE d <= g
<1>1. PICK a \in Nat : a = d * w
  BY Products
<1>2. PICK r \in Nat : r = RoundHalfEven(a, g)
  BY Nearest
<1>3. 2 * (g * r) <= 2 * a + g
  BY <1>2, Nearest
<1>4. PICK b \in Nat : b = g * r
  BY Products
<1>5. 2 * (g * r) = 2 * b
  BY <1>4
<1>6. PICK c \in Nat : c = g * w /\ a <= c
  <2>1. g * w \in Nat /\ d * w <= g * w
    OBVIOUS
  <2>. QED
    BY <1>1, <2>1
<1>7. 2 * b < 2 * (c + g)
  BY <1>3, <1>5, <1>6
<1>8. g * (w + 1) = c + g
  BY <1>6
<1>9. r <= w
  <2>. SUFFICES ASSUME r >= w + 1 PROVE FALSE
    OBVIOUS
  <2>1. g * r >= g * (w + 1)
    OBVIOUS
  <2>. QED
    BY <1>4, <1>6, <1>7, <1>8, <2>1
<1>. QED
  BY <1>1, <1>2, <1>3, <1>4, <1>5, <1>9

\* Rounding, with so many digits, never makes up for one unit.
LEMMA NoUnitMade == \A w, g, q \in Nat \ {0} : \A d, r, n, s, c, e \in Nat :
    /\ 2 * (g * r) <= 2 * (d * w) + g /\ r <= w /\ n = q * r
    /\ 2 * c <= 2 * n + s /\ (c <= n \/ s * w <= 10 * n) /\ w * e <= c
    /\ 11 * q * g < 2 * w
    => g * e <= d * q
<1>. TAKE w, g, q \in Nat \ {0}
<1>. TAKE d, r, n, s, c, e \in Nat
<1>. HAVE /\ 2 * (g * r) <= 2 * (d * w) + g /\ r <= w /\ n = q * r
          /\ 2 * c <= 2 * n + s /\ (c <= n \/ s * w <= 10 * n) /\ w * e <= c
          /\ 11 * q * g < 2 * w
<1>1. PICK x, y, z, u, v \in Nat : x = g * r /\ y = d * w /\ z = q * g /\ u = g * e /\ v = d * q
  BY Products
<1>. SUFFICES ASSUME u >= v + 1 PROVE FALSE
  BY <1>1
<1>2. 2 * x <= 2 * y + g /\ 11 * z < 2 * w
  BY <1>1
<1>3. g * n = q * x
  BY <1>1
<1>4. 2 * (q * x) <= 2 * (q * y) + z
  <2>1. q * (2 * x) <= q * (2 * y + g)
    BY <1>2
  <2>2. q * (2 * x) = 2 * (q * x) /\ q * (2 * y + g) = 2 * (q * y) + q * g
    OBVIOUS
  <2>. QED
    BY <1>1, <2>1, <2>2
<1>5. q * y = w * v
  BY <1>1
<1>6. w * u <= g * c
  <2>1. w * u = g * (w * e)
    BY <1>1
  <2>2. PICK a \in Nat : a = w * e /\ a <= c
    BY Products
  <2>3. g * a <= g * c
    BY <2>2
  <2>. QED
    BY <2>1, <2>2, <2>3
<1>7. w * u >= w * v + w
  <2>1. w * u >= w * (v + 1)
    OBVIOUS
  <2>2. w * (v + 1) = w * v + w
    OBVIOUS
  <2>. QED
    BY <2>1, <2>2
<1>8. PICK a, b, f, h, k \in Nat : a = w * u /\ b = w * v /\ f = g * c /\ h = g * n /\ k = g * s
  BY Products
<1>9. 2 * h <= 2 * b + z /\ a <= f /\ a >= b + w
  BY <1>3, <1>4, <1>5, <1>6, <1>7, <1>8
<1>10. CASE c <= n
  <2>1. f <= h
    BY <1>8, <1>10
  <2>. QED
    BY <1>2, <1>9, <2>1
<1>11. CASE s * w <= 10 * n
  <2>1. n <= q * w
    OBVIOUS
  <2>2. s <= 10 * q
    <3>1. s * w <= 10 * (q * w)
      BY <1>11, <2>1
    <3>2. 10 * (q * w) = (10 * q) * w
      OBVIOUS
    <3>. SUFFICES ASSUME s >= 10 * q + 1 PROVE FALSE
      OBVIOUS
    <3>3. s * w >= (10 * q + 1) * w
      OBVIOUS
    <3>4. (10 * q + 1) * w = (10 * q) * w + w
      OBVIOUS
    <3>5. PICK i, j \in Nat : i = s * w /\ j = (10 * q) * w
      BY Products
    <3>. QED
      BY <3>1, <3>2, <3>3, <3>4, <3>5
  <2>3. k <= 10 * z
    <3>1. g * s <= g * (10 * q)
      BY <2>2
    <3>2. g * (10 * q) = 10 * (q * g)
      OBVIOUS
    <3>. QED
      BY <1>1, <1>8, <3>1, <3>2
  <2>4. 2 * f <= 2 * h + k
    <3>1. g * (2 * c) <= g * (2 * n + s)
      OBVIOUS
    <3>2. g * (2 * c) = 2 * (g * c) /\ g * (2 * n + s) = 2 * (g * n) + g * s
      OBVIOUS
    <3>. QED
      BY <1>8, <3>1, <3>2
  <2>. QED
    BY <1>2, <1>9, <2>3, <2>4
<1>. QED
  BY <1>10, <1>11

\* What is handed out of a mineral is not worth more than may be distributed, and is there.
LEMMA DistributedIs ==
    ASSUME NEW p \in Payloads, Accepted(p), NEW t \in Minerals(p)
    PROVE  /\ Distributed(p, t) \in Nat
           /\ Gross(p) * (Grain * Distributed(p, t)) <= Distributable(p) * p.outputs[t].quantity
           /\ Distributed(p, t) <= Units(p.outputs[t].quantity)
<1>1. PICK q \in Nat \ {0} : q = p.outputs[t].quantity
  BY GrossNat
<1>2. PICK d, g \in Nat : d = Distributable(p) /\ g = Gross(p) /\ d <= g
  <2>1. Distributable(p) \in Nat /\ Gross(p) \in Nat /\ Reserve(p) \in Nat /\ Deductions(p) \in Nat
    BY AcceptedIs, GrossNat, ChargesNat
  <2>2. Distributable(p) <= Gross(p)
    BY <2>1 DEF Distributable
  <2>. QED
    BY <2>1, <2>2
<1>3. CASE g = 0
  <2>1. PICK e \in Nat : e = Units(q)
    BY UnitsIs
  <2>2. Distributed(p, t) = e
    BY <1>1, <1>2, <1>3, <2>1 DEF Distributed
  <2>3. PICK x \in Nat : x = Grain * e
    BY SettlementConstants, Products
  <2>4. d = 0 /\ g * x = 0 /\ d * q = 0
    BY <1>2, <1>3
  <2>. QED
    BY <1>1, <1>2, <2>1, <2>2, <2>3, <2>4
<1>4. CASE g # 0
  <2>1. PICK w \in Nat \ {0} : w = Precision
    BY SettlementConstants
  <2>2. g \in Nat \ {0}
    BY <1>4
  <2>3. PICK r \in Nat : r = RoundHalfEven(d * w, g) /\ 2 * (g * r) <= 2 * (d * w) + g /\ r <= w
    BY <1>2, <2>2, RatioAtMost
  <2>4. PICK n \in Nat : n = q * r
    BY Products
  <2>5. PICK top \in Scales : q < top
    BY <1>1, PrecisionOK
  <2>6. n < top * w
    <3>1. top \in Nat
      BY SettlementConstants
    <3>2. q * r <= q * w
      BY <2>3
    <3>3. q * w < top * w
      BY <2>5, <3>1
    <3>4. PICK x, y \in Nat : x = q * w /\ y = top * w
      BY <3>1, Products
    <3>. QED
      BY <2>4, <3>2, <3>3, <3>4
  <2>7. PICK s \in Nat \ {0} : s = Scale(n) /\ (s = 1 \/ s * w <= 10 * n)
    BY <2>1, <2>6, ScaleIs
  <2>8. PICK h \in Nat : h = RoundHalfEven(n, s)
    BY Nearest
  <2>9. PICK c \in Nat : c = s * h
    BY Products
  <2>10. 2 * c <= 2 * n + s
    <3>1. 2 * (s * h) <= 2 * n + s
      BY <2>8, Nearest
    <3>. QED
      BY <2>9, <3>1
  <2>11. c <= n \/ s * w <= 10 * n
    BY <2>7, <2>10
  <2>12. PICK e \in Nat : e = c \div w /\ w * e <= c
    <3>1. c \div w \in Nat /\ c % w \in Nat /\ c = w * (c \div w) + (c % w)
      BY DivNat
    <3>2. PICK e, m \in Nat : e = c \div w /\ m = c % w /\ c = w * e + m
      BY <3>1
    <3>3. w * e \in Nat /\ m >= 0
      BY Products
    <3>. QED
      BY <3>2, <3>3
  <2>13. 11 * q * g < 2 * w
    BY <1>1, <1>2, <2>1, PrecisionOK
  <2>14. PICK u, x \in Nat : u = Units(e) /\ x = Grain * u /\ x <= e
    BY UnitsIs, SettlementConstants, Products
  <2>15. w * x <= c
    <3>1. w * x <= w * e
      BY <2>14
    <3>2. w * x \in Nat /\ w * e \in Nat
      BY Products
    <3>. QED
      BY <2>12, <3>1, <3>2
  <2>16. g * x <= d * q
    BY <2>2, <2>3, <2>4, <2>10, <2>11, <2>13, <2>15, NoUnitMade
  <2>17. Distributed(p, t) = u
    BY <1>1, <1>2, <1>4, <2>1, <2>3, <2>4, <2>7, <2>8, <2>9, <2>12, <2>14 DEF Distributed, Carried
  <2>18. x <= q
    <3>. SUFFICES ASSUME x >= q + 1 PROVE FALSE
      OBVIOUS
    <3>1. g * x >= g * (q + 1) /\ g * (q + 1) = g * q + g
      OBVIOUS
    <3>2. d * q <= g * q
      BY <1>2
    <3>3. PICK i, j, k \in Nat : i = g * x /\ j = g * q /\ k = d * q
      BY Products
    <3>. QED
      BY <2>2, <2>16, <3>1, <3>2, <3>3
  <2>19. u <= Units(q)
    BY <2>14, <2>18, UnitsIs
  <2>. QED
    BY <1>1, <1>2, <2>14, <2>16, <2>17, <2>19
<1>. QED
  BY <1>3, <1>4

\* What a miner gets of each mineral goes by its share of what is not fixed.
LEMMA RatiosIs ==
    ASSUME NEW p \in Payloads, Accepted(p)
    PROVE  /\ Ratios(p) \in Weights(Size(p))
           /\ \A i \in Crew(p) : ~IsFixed(p, i) => Ratios(p)[i] = (Whole - Total(FixedRate(p))) * Weight(p)[i]
           /\ p.mode = "minerals" => Total(Ratios(p)) > 0
<1>1. PICK S, r, w, z : S = Crew(p) /\ r = FixedRate(p) /\ w = Weight(p) /\ z = Ratios(p)
  OBVIOUS
<1>2. IsFiniteSet(S) /\ r \in [S -> Nat] /\ w \in [S -> Nat] /\ S = 1..Size(p)
  BY <1>1, CrewIs, TermsNat DEF Weights
<1>3. PICK F, W \in Nat : F = Total(r) /\ W = Total(w)
  BY <1>2, TotalNat
<1>4. PICK one \in Nat \ {0} : one = IF W = 0 THEN 1 ELSE W
  OBVIOUS
<1>5. PICK left \in Nat : left = Whole - F
  <2>1. F <= Whole
    BY <1>1, <1>3, AcceptedIs
  <2>. QED
    BY <2>1, SettlementConstants
<1>6. z = [i \in S |-> IF IsFixed(p, i) THEN r[i] * one ELSE left * w[i]]
  BY <1>1, <1>3, <1>4, <1>5 DEF Ratios
<1>7. z \in [S -> Nat]
  <2>1. \A i \in S : r[i] \in Nat /\ w[i] \in Nat
    BY <1>2
  <2>2. \A i \in S : r[i] * one \in Nat /\ left * w[i] \in Nat
    BY <2>1, Products
  <2>. QED
    BY <1>6, <2>2
<1>8. ASSUME NEW i \in S, ~IsFixed(p, i) PROVE z[i] = (Whole - Total(r)) * w[i]
  BY <1>3, <1>5, <1>6, <1>8
<1>9. ASSUME p.mode = "minerals" PROVE Total(z) > 0
  <2>1. \E i \in S : z[i] > 0
    <3>1. CASE F < Whole
      <4>1. W > 0
        BY <1>1, <1>3, <1>9, <3>1, AcceptedIs
      <4>2. PICK i \in S : w[i] > 0
        BY <1>2, <1>3, <4>1, TotalSome
      <4>3. ~IsFixed(p, i)
        BY <1>1, <4>2, TermsNat
      <4>4. left \in Nat \ {0} /\ w[i] \in Nat \ {0} /\ z[i] = left * w[i]
        BY <1>2, <1>5, <1>6, <3>1, <4>2, <4>3, SettlementConstants
      <4>5. left * w[i] > 0
        BY <4>4, Positive
      <4>. QED
        BY <4>4, <4>5
    <3>2. CASE ~(F < Whole)
      <4>1. F > 0
        BY <3>2, SettlementConstants
      <4>2. PICK i \in S : r[i] > 0
        BY <1>2, <1>3, <4>1, TotalSome
      <4>3. IsFixed(p, i)
        BY <1>1, <4>2, TermsNat
      <4>4. r[i] \in Nat \ {0} /\ z[i] = r[i] * one
        BY <1>2, <1>6, <4>2, <4>3
      <4>5. r[i] * one > 0
        BY <4>4, Positive
      <4>. QED
        BY <4>4, <4>5
    <3>. QED
      BY <3>1, <3>2
  <2>2. PICK i \in S : z[i] > 0
    BY <2>1
  <2>3. Total(z) \in Nat /\ z[i] <= Total(z) /\ z[i] \in Nat
    BY <1>2, <1>7, TotalHas
  <2>. QED
    BY <2>2, <2>3
<1>. QED
  BY <1>1, <1>2, <1>7, <1>8, <1>9 DEF Weights

\* Every unit that is distributed goes to a miner.
LEMMA MineralsAddUp ==
    ASSUME NEW p \in Payloads, Accepted(p), NEW t \in Minerals(p)
    PROVE  Total(MineralPayouts(p, t)) = IF p.mode = "minerals" THEN Distributed(p, t) ELSE 0
<1>1. PICK n, w : n \in Nat /\ n = Size(p) /\ w = Ratios(p) /\ w \in Weights(n) /\ Crew(p) = 1..n
  BY CrewIs, RatiosIs
<1>2. PICK total \in Nat : total = Distributed(p, t)
  BY DistributedIs
<1>3. CASE p.mode # "minerals"
  <2>1. MineralPayouts(p, t) = [i \in 1..n |-> 0]
    BY <1>1, <1>3 DEF MineralPayouts
  <2>. QED
    BY <1>1, <1>3, <2>1, IntervalFinite, TotalZero
<1>4. CASE p.mode = "minerals"
  <2>1. MineralPayouts(p, t) = Allocate(total, w)
    BY <1>1, <1>2, <1>4 DEF MineralPayouts
  <2>2. Total(w) > 0
    BY <1>1, <1>4, RatiosIs
  <2>3. CASE total > 0
    BY <1>1, <1>2, <1>4, <2>1, <2>2, <2>3, AllocateAddsUp
  <2>4. CASE total = 0
    <3>1. \A i \in 1..n : Allocate(total, w)[i] = 0
      BY <1>1, <2>4, AllocateNone
    <3>2. Allocate(total, w) \in [1..n -> Nat]
      <4>1. PICK z \in Int : z = total
        OBVIOUS
      <4>. QED
        BY <1>1, <4>1, AllocateNat
    <3>3. Allocate(total, w) = [i \in 1..n |-> 0]
      BY <3>1, <3>2
    <3>. QED
      BY <1>1, <1>2, <1>4, <2>1, <2>4, <3>3, IntervalFinite, TotalZero
  <2>. QED
    BY <2>3, <2>4
<1>. QED
  BY <1>3, <1>4

\* A larger share gets no less of a mineral, an equal one no less but for one unit.
LEMMA FairUnits ==
    ASSUME NEW p \in Payloads, Accepted(p), NEW t \in Minerals(p), NEW i \in Crew(p), NEW j \in Crew(p),
           ~IsFixed(p, i), ~IsFixed(p, j), Weight(p)[i] >= Weight(p)[j]
    PROVE  MineralPayouts(p, t)[i] + (IF Weight(p)[i] = Weight(p)[j] THEN 1 ELSE 0) >= MineralPayouts(p, t)[j]
<1>1. PICK n, w : n \in Nat /\ n = Size(p) /\ w = Ratios(p) /\ w \in Weights(n) /\ Crew(p) = 1..n
  BY CrewIs, RatiosIs
<1>2. PICK total \in Nat : total = Distributed(p, t)
  BY DistributedIs
<1>3. PICK left, x, y \in Nat : left = Whole - Total(FixedRate(p)) /\ x = Weight(p)[i] /\ y = Weight(p)[j]
  <2>1. Whole - Total(FixedRate(p)) \in Nat
    BY AcceptedIs, SettlementConstants
  <2>2. Weight(p)[i] \in Nat /\ Weight(p)[j] \in Nat
    BY <1>1, TermsNat DEF Weights
  <2>. QED
    BY <2>1, <2>2
<1>4. w[i] = left * x /\ w[j] = left * y /\ x >= y
  BY <1>1, <1>3, RatiosIs
<1>5. w[i] >= w[j] /\ w[i] \in Nat /\ w[j] \in Nat
  <2>1. left * x >= left * y /\ left * x \in Nat /\ left * y \in Nat
    BY <1>4
  <2>. QED
    BY <1>4, <2>1
<1>6. CASE p.mode # "minerals"
  BY <1>1, <1>6 DEF MineralPayouts
<1>7. CASE p.mode = "minerals"
  <2>1. MineralPayouts(p, t) = Allocate(total, w)
    BY <1>1, <1>2, <1>7 DEF MineralPayouts
  <2>2. PICK a, b \in Nat : a = Allocate(total, w)[i] /\ b = Allocate(total, w)[j] /\
                            a + (IF w[i] = w[j] THEN 1 ELSE 0) >= b
    BY <1>1, <1>5, AllocateFair
  <2>3. CASE left = 0
    <3>1. w[i] = 0 /\ w[j] = 0
      BY <1>4, <2>3
    <3>2. a = 0 /\ b = 0
      BY <1>1, <2>2, <3>1, AllocateNone
    <3>. QED
      BY <1>3, <2>1, <2>2, <3>2
  <2>4. CASE left # 0
    <3>1. x # y => left * x # left * y
      BY <2>4
    <3>2. w[i] = w[j] => x = y
      BY <1>4, <3>1
    <3>. QED
      BY <1>3, <2>1, <2>2, <3>2
  <2>. QED
    BY <2>3, <2>4
<1>. QED
  BY <1>6, <1>7

-----------------------------------------------------------------------------
(* The stored settlement *)

Snapshots == UNION {{Children(p, n) : n \in Nat \ {0}} : p \in {q \in Payloads : Accepted(q)}}

SettlementRows ==
    [status : {"absent", "draft", "finalized"}, saves : Nat,
     columns : [gross : Int, reserve : Int, deductions : Int, unallocated : Int],
     children : SUBSET Snapshots]

\* What is true of the settlement whatever overlapped.  The latest save is among its
\* children, and when no other is, the columns are those of that save too.
Stored(r) ==
    /\ r \in SettlementRows
    /\ IsFiniteSet(r.children)
    /\ r.status = "absent" => r.children = {}
    /\ r.status # "absent" => \E c \in r.children : c.save = r.saves
    /\ \A c \in r.children : c.save <= r.saves /\
          (r.children = {c} => \E p \in Payloads :
               Accepted(p) /\ c = Children(p, r.saves) /\ r.columns = Columns(p))

\* A request holds what was stored when it began: a draft, since then perhaps
\* saved again or deleted.
Drafted(e) == section[e].op # "none" =>
    LET r == section[e].read IN
    /\ Stored(r) /\ r.status = "draft" /\ r.saves <= settlement.saves
    /\ settlement.status # "absent" /\ settlement.saves = r.saves => settlement.columns = r.columns

SettlementInv ==
    /\ Stored(settlement)
    /\ section \in [Handlers -> [op : {"none", "update", "finalize", "delete"}, read : SettlementRows]]
    /\ \A e \in Handlers : Drafted(e)

LEMMA ColumnsInt ==
    ASSUME NEW p \in Payloads, Accepted(p)
    PROVE  Columns(p) \in [gross : Int, reserve : Int, deductions : Int, unallocated : Int]
BY GrossNat, ChargesNat, Remainder DEF Columns

LEMMA ChildIs ==
    ASSUME NEW p \in Payloads, Accepted(p), NEW n \in Nat \ {0}
    PROVE  Children(p, n) \in Snapshots /\ Children(p, n).save = n
<1>1. Children(p, n) \in Snapshots
  <2>1. PICK S : S = {Children(p, m) : m \in Nat \ {0}}
    OBVIOUS
  <2>2. Children(p, n) \in S
    BY <2>1
  <2>3. p \in {q \in Payloads : Accepted(q)}
    OBVIOUS
  <2>4. S \in {{Children(q, m) : m \in Nat \ {0}} : q \in {x \in Payloads : Accepted(x)}}
    BY <2>1, <2>3
  <2>. QED
    BY <2>2, <2>4 DEF Snapshots
<1>2. Children(p, n).save = n
  BY DEF Children
<1>. QED
  BY <1>1, <1>2

LEMMA SnapshotIs ==
    ASSUME NEW c \in Snapshots
    PROVE  \E p \in Payloads : Accepted(p) /\ \E n \in Nat \ {0} : c = Children(p, n)
BY Zenon DEF Snapshots

LEMMA AbsentStored == Stored(Absent) /\ NoSection.op = "none" /\ NoSection.read = Absent /\
    NoSection \in [op : {"none", "update", "finalize", "delete"}, read : SettlementRows]
<1>1. Absent \in SettlementRows
  BY DEF Absent, SettlementRows
<1>. QED
  BY <1>1, FS_EmptySet DEF Stored, Absent, NoSection

LEMMA SettlementStarts == SettlementInit => SettlementInv
BY AbsentStored DEF SettlementInit, SettlementInv, Drafted

\* The first save.
LEMMA DraftStored ==
    ASSUME NEW p \in Payloads, Accepted(p)
    PROVE  Stored([status |-> "draft", saves |-> 1, columns |-> Columns(p), children |-> {Children(p, 1)}])
<1>1. PICK one \in Nat \ {0} : one = 1
  OBVIOUS
<1>2. PICK r, c, k : k = Columns(p) /\ c = Children(p, one) /\ 
                     r = [status |-> "draft", saves |-> one, columns |-> k, children |-> {c}]
  OBVIOUS
<1>3. c.save = one /\ c \in Snapshots /\ k \in [gross : Int, reserve : Int, deductions : Int, unallocated : Int]
  BY <1>2, ColumnsInt, ChildIs
<1>4. r.children = {c} /\ r.status = "draft" /\ r.saves = one /\ r.columns = k
  BY <1>2
<1>5. IsFiniteSet(r.children) /\ r \in SettlementRows
  BY <1>2, <1>3, <1>4, FS_Singleton DEF SettlementRows
<1>6. Stored(r)
  BY <1>2, <1>3, <1>4, <1>5 DEF Stored
<1>. QED
  BY <1>1, <1>2, <1>6

LEMMA SavedOnce == ASSUME NEW r, Stored(r), r.status # "absent" PROVE r.saves > 0
<1>1. PICK c \in r.children : c.save = r.saves
  BY DEF Stored
<1>2. c \in Snapshots /\ r.saves \in Nat
  BY <1>1 DEF Stored, SettlementRows
<1>3. PICK p \in Payloads : Accepted(p) /\ \E n \in Nat \ {0} : c = Children(p, n)
  BY <1>2, SnapshotIs
<1>4. PICK n \in Nat \ {0} : c = Children(p, n)
  BY <1>3
<1>5. c.save = n
  BY <1>3, <1>4, ChildIs
<1>. QED
  BY <1>1, <1>2, <1>5

\* What a request holds stays true while the settlement is saved, finalized or deleted.
LEMMA DraftedKept ==
    ASSUME SettlementInv, NEW e \in Handlers, section'[e] = section[e] \/ section'[e] = NoSection,
           settlement'.saves \in Nat, settlement'.saves >= settlement.saves,
           settlement'.status # "absent" /\ settlement'.saves = settlement.saves =>
               settlement.status # "absent" /\ settlement'.columns = settlement.columns
    PROVE  Drafted(e)'
<1>1. CASE section'[e] = NoSection
  BY <1>1 DEF Drafted, NoSection
<1>2. CASE section'[e] = section[e]
  <2>1. PICK o, r : o = section[e].op /\ r = section[e].read /\ o = section'[e].op /\ r = section'[e].read
    BY <1>2
  <2>2. CASE o # "none"
    <3>1. Stored(r) /\ r.status = "draft" /\ r.saves <= settlement.saves
      BY <2>1, <2>2 DEF SettlementInv, Drafted
    <3>2. settlement.status # "absent" /\ settlement.saves = r.saves => settlement.columns = r.columns
      BY <2>1, <2>2 DEF SettlementInv, Drafted
    <3>3. r.saves \in Nat /\ settlement.saves \in Nat
      BY <3>1 DEF SettlementInv, Stored, SettlementRows
    <3>4. r.saves <= settlement'.saves
      BY <3>1, <3>3
    <3>5. settlement'.status # "absent" /\ settlement'.saves = r.saves => settlement'.columns = r.columns
      BY <3>1, <3>2, <3>3
    <3>. QED
      BY <2>1, <3>1, <3>4, <3>5 DEF Drafted
  <2>. QED
    BY <2>1, <2>2 DEF Drafted
<1>. QED
  BY <1>1, <1>2

LEMMA CreateKeeps == ASSUME SettlementInv, CreateDraft PROVE SettlementInv'
<1>1. PICK p \in Payloads : Accepted(p) /\
          settlement' = [status |-> "draft", saves |-> 1, columns |-> Columns(p), children |-> {Children(p, 1)}]
  BY DEF CreateDraft
<1>2. Stored(settlement)'
  BY <1>1, DraftStored
<1>3. settlement.saves = 0 /\ section' = section
  BY DEF CreateDraft
<1>4. settlement'.saves = 1
  BY <1>1
<1>5. ASSUME NEW e \in Handlers PROVE Drafted(e)'
  BY <1>3, <1>4, DraftedKept
<1>. QED
  BY <1>2, <1>3, <1>5 DEF SettlementInv

LEMMA BeginKeeps == ASSUME SettlementInv, NEW e \in Handlers, Begin(e) PROVE SettlementInv'
<1>1. PICK op \in {"update", "finalize", "delete"} : section' = [section EXCEPT ![e] = [op |-> op, read |-> settlement]]
  BY DEF Begin
<1>2. settlement' = settlement /\ settlement.status = "draft" /\ Stored(settlement) /\ settlement \in SettlementRows
  BY DEF Begin, Editable, SettlementInv, Stored
<1>3. section' \in [Handlers -> [op : {"none", "update", "finalize", "delete"}, read : SettlementRows]]
  BY <1>1, <1>2 DEF SettlementInv
<1>4. ASSUME NEW x \in Handlers PROVE Drafted(x)'
  <2>1. CASE x = e
    <3>1. section'[x].op = op /\ section'[x].read = settlement
      BY <1>1, <2>1 DEF SettlementInv
    <3>2. settlement.saves <= settlement.saves
      BY <1>2 DEF SettlementRows
    <3>3. Stored(settlement)'
      BY <1>2
    <3>. QED
      BY <1>2, <3>1, <3>2, <3>3 DEF Drafted
  <2>2. CASE x # e
    <3>1. section'[x] = section[x]
      BY <1>1, <2>2 DEF SettlementInv
    <3>2. settlement.saves \in Nat
      BY <1>2 DEF SettlementRows
    <3>. QED
      BY <1>2, <3>1, <3>2, DraftedKept
  <2>. QED
    BY <2>1, <2>2
<1>. QED
  BY <1>2, <1>3, <1>4 DEF SettlementInv

LEMMA EndIs ==
    ASSUME SettlementInv, NEW e \in Handlers, End(e)
    PROVE  /\ section' \in [Handlers -> [op : {"none", "update", "finalize", "delete"}, read : SettlementRows]]
           /\ \A x \in Handlers : section'[x] = section[x] \/ section'[x] = NoSection
           /\ section'[e] = NoSection
BY AbsentStored DEF SettlementInv, End

\* Writing the columns that differ from what was read.
LEMMA OverlaidInt ==
    ASSUME SettlementInv, NEW e \in Handlers, NEW p \in Payloads, Accepted(p)
    PROVE  /\ Overlaid(e, Columns(p)) \in [gross : Int, reserve : Int, deductions : Int, unallocated : Int]
           /\ settlement.columns = section[e].read.columns => Overlaid(e, Columns(p)) = Columns(p)
<1>1. PICK k \in [gross : Int, reserve : Int, deductions : Int, unallocated : Int] : k = Columns(p)
  BY ColumnsInt
<1>2. PICK x, y \in [gross : Int, reserve : Int, deductions : Int, unallocated : Int] :
          x = settlement.columns /\ y = section[e].read.columns
  BY DEF SettlementInv, Stored, SettlementRows
<1>3. PICK f : f = Overlaid(e, Columns(p))
  OBVIOUS
<1>4. f = [c \in {"gross", "reserve", "deductions", "unallocated"} |-> IF k[c] # y[c] THEN k[c] ELSE x[c]]
  BY <1>1, <1>2, <1>3 DEF Overlaid
<1>5. f \in [gross : Int, reserve : Int, deductions : Int, unallocated : Int]
  BY <1>4
<1>6. ASSUME x = y PROVE f = k
  <2>1. \A c \in {"gross", "reserve", "deductions", "unallocated"} : f[c] = k[c]
    BY <1>4, <1>6
  <2>. QED
    BY <1>4, <1>5, <2>1
<1>. QED
  BY <1>1, <1>2, <1>3, <1>5, <1>6

LEMMA UpdateKeeps == ASSUME SettlementInv, NEW e \in Handlers, UpdateDraft(e) PROVE SettlementInv'
<1>1. PICK p \in Updates : LET child == Children(p, settlement.saves + 1) IN
          /\ Accepted(p) /\ settlement.status # "absent" /\ ~Collides(child, Kept(e))
          /\ settlement' = [settlement EXCEPT !.saves = @ + 1, !.columns = Overlaid(e, Columns(p)),
                                !.children = Kept(e) \cup {child}]
  BY DEF UpdateDraft
<1>2. p \in Payloads /\ Accepted(p) /\ settlement.status # "absent" /\ settlement \in SettlementRows /\ Stored(settlement)
  BY <1>1, SettlementConstants DEF SettlementInv, Stored
<1>3. PICK n \in Nat \ {0} : n = settlement.saves + 1
  BY <1>2 DEF SettlementRows
<1>4. PICK c, k, s : c = Children(p, n) /\ k = Overlaid(e, Columns(p)) /\ s = Kept(e) \cup {c}
  OBVIOUS
<1>5. settlement' = [settlement EXCEPT !.saves = n, !.columns = k, !.children = s]
  BY <1>1, <1>3, <1>4
<1>6. settlement'.status = settlement.status /\ settlement'.saves = n /\ settlement'.columns = k /\ settlement'.children = s
  BY <1>2, <1>5 DEF SettlementRows
<1>7. c \in Snapshots /\ c.save = n
  BY <1>2, <1>4, ChildIs
<1>8. Kept(e) \subseteq settlement.children /\ settlement.children \subseteq Snapshots /\ IsFiniteSet(settlement.children)
  BY <1>2 DEF Kept, Stored, SettlementRows
<1>9. IsFiniteSet(s)
  BY <1>4, <1>8, FS_Subset, FS_AddElement
<1>10. settlement' \in SettlementRows
  <2>1. s \in SUBSET Snapshots
    BY <1>4, <1>7, <1>8
  <2>2. k \in [gross : Int, reserve : Int, deductions : Int, unallocated : Int]
    BY <1>2, <1>4, OverlaidInt
  <2>. QED
    BY <1>2, <1>5, <2>1, <2>2 DEF SettlementRows
<1>11. ASSUME NEW x \in s PROVE x.save <= n
  <2>1. x = c \/ x \in settlement.children
    BY <1>4, <1>8
  <2>2. x \in settlement.children => x.save <= settlement.saves /\ x.save \in Nat
    <3>1. ASSUME x \in settlement.children PROVE \E q \in Payloads : Accepted(q) /\ \E m \in Nat \ {0} : x = Children(q, m)
      BY <1>8, <3>1, SnapshotIs
    <3>2. ASSUME x \in settlement.children PROVE x.save \in Nat
      BY <3>1, <3>2, ChildIs
    <3>. QED
      BY <1>2, <3>2 DEF Stored
  <2>3. settlement.saves \in Nat
    BY <1>2 DEF SettlementRows
  <2>. QED
    BY <1>3, <1>7, <2>1, <2>2, <2>3
<1>12. ASSUME NEW x \in s, s = {x} PROVE x = c /\ k = Columns(p)
  <2>1. x = c
    BY <1>4, <1>12
  <2>2. PICK last \in settlement.children : last.save = settlement.saves
    BY <1>2 DEF Stored
  <2>3. last # c
    BY <1>2, <1>3, <1>7, <2>2 DEF SettlementRows
  <2>4. last \in section[e].read.children
    BY <1>4, <1>12, <2>1, <2>2, <2>3 DEF Kept
  <2>5. PICK r : r = section[e].read
    OBVIOUS
  <2>6. Stored(r) /\ r.saves <= settlement.saves /\ (settlement.saves = r.saves => settlement.columns = r.columns)
    BY <1>2, <2>5 DEF UpdateDraft, SettlementInv, Drafted
  <2>7. last.save <= r.saves /\ r.saves \in Nat /\ settlement.saves \in Nat
    BY <1>2, <2>4, <2>5, <2>6 DEF Stored, SettlementRows
  <2>8. settlement.saves = r.saves
    BY <2>2, <2>6, <2>7
  <2>. QED
    BY <1>2, <1>4, <2>1, <2>5, <2>6, <2>8, OverlaidInt
<1>13. c \in s
  BY <1>4
<1>14. Stored(settlement')
  BY <1>2, <1>4, <1>6, <1>7, <1>9, <1>10, <1>11, <1>12, <1>13 DEF Stored
<1>15. End(e)
  BY DEF UpdateDraft
<1>16. ASSUME NEW x \in Handlers PROVE Drafted(x)'
  <2>1. settlement.saves \in Nat
    BY <1>2 DEF SettlementRows
  <2>2. settlement'.saves \in Nat /\ settlement'.saves >= settlement.saves /\ settlement'.saves # settlement.saves
    BY <1>3, <1>6, <2>1
  <2>. QED
    BY <1>15, <2>2, EndIs, DraftedKept
<1>. QED
  BY <1>14, <1>15, <1>16, EndIs DEF SettlementInv

LEMMA FinalizeKeeps == ASSUME SettlementInv, NEW e \in Handlers, Finalize(e) PROVE SettlementInv'
<1>1. settlement \in SettlementRows /\ Stored(settlement) /\ settlement.saves \in Nat
  BY DEF SettlementInv, Stored, SettlementRows
<1>2. PICK r : r = [settlement EXCEPT !.status = "finalized"]
  OBVIOUS
<1>3. settlement' = IF settlement.status = "absent" THEN settlement ELSE r
  BY <1>2 DEF Finalize
<1>4. /\ r \in SettlementRows /\ r.status = "finalized" /\ r.saves = settlement.saves /\ r.columns = settlement.columns
      /\ r.children = settlement.children
  BY <1>1, <1>2 DEF SettlementRows
<1>5. settlement.status # "absent" => Stored(r)
  BY <1>1, <1>4 DEF Stored
<1>6. Stored(settlement')
  BY <1>1, <1>3, <1>5
<1>7. settlement'.saves = settlement.saves /\ settlement'.columns = settlement.columns /\ (settlement'.status # "absent" => settlement.status # "absent")
  BY <1>3, <1>4
<1>8. End(e)
  BY DEF Finalize
<1>9. ASSUME NEW x \in Handlers PROVE Drafted(x)'
  BY <1>1, <1>7, <1>8, EndIs, DraftedKept
<1>. QED
  BY <1>6, <1>8, <1>9, EndIs DEF SettlementInv

LEMMA DeleteKeeps == ASSUME SettlementInv, NEW e \in Handlers, DeleteDraft(e) PROVE SettlementInv'
<1>1. settlement.saves \in Nat
  BY DEF SettlementInv, Stored, SettlementRows
<1>2. PICK r : r = [Absent EXCEPT !.saves = settlement.saves]
  OBVIOUS
<1>3. settlement' = r
  BY <1>2 DEF DeleteDraft
<1>4. r \in SettlementRows /\ r.status = "absent" /\ r.saves = settlement.saves /\ r.children = {}
  BY <1>1, <1>2 DEF Absent, SettlementRows
<1>5. Stored(settlement')
  BY <1>3, <1>4, FS_EmptySet DEF Stored
<1>6. End(e)
  BY DEF DeleteDraft
<1>7. ASSUME NEW x \in Handlers PROVE Drafted(x)'
  BY <1>1, <1>3, <1>4, <1>6, EndIs, DraftedKept
<1>. QED
  BY <1>5, <1>6, <1>7, EndIs DEF SettlementInv

LEMMA RefuseKeeps == ASSUME SettlementInv, NEW e \in Handlers, Refuse(e) PROVE SettlementInv'
<1>1. settlement' = settlement /\ End(e)
  BY DEF Refuse
<1>2. settlement.saves \in Nat
  BY DEF SettlementInv, Stored, SettlementRows
<1>3. ASSUME NEW x \in Handlers PROVE Drafted(x)'
  BY <1>1, <1>2, EndIs, DraftedKept
<1>. QED
  BY <1>1, <1>3, EndIs DEF SettlementInv

LEMMA SettlementSteps == SettlementInv /\ [SettlementNext]_settlementVars => SettlementInv'
<1>. SUFFICES ASSUME SettlementInv, [SettlementNext]_settlementVars PROVE SettlementInv'
  OBVIOUS
<1>1. CASE CreateDraft
  BY <1>1, CreateKeeps
<1>2. ASSUME NEW e \in Handlers, Begin(e) \/ UpdateDraft(e) \/ Refuse(e) \/ Finalize(e) \/ DeleteDraft(e)
      PROVE SettlementInv'
  BY <1>2, BeginKeeps, UpdateKeeps, RefuseKeeps, FinalizeKeeps, DeleteKeeps
<1>3. CASE UNCHANGED settlementVars
  BY <1>3 DEF settlementVars, SettlementInv, Drafted
<1>. QED
  BY <1>1, <1>2, <1>3 DEF SettlementNext

LEMMA SettlementHolds == SettlementSpec => []SettlementInv
BY SettlementStarts, SettlementSteps, PTL DEF SettlementSpec

-----------------------------------------------------------------------------
(* The theorems *)

LEMMA CrewStored ==
    ASSUME NEW p \in Payloads, NEW n
    PROVE  /\ DOMAIN Children(p, n).crew = Crew(p)
           /\ \A i \in Crew(p) :
                 LET a == Children(p, n).crew[i] IN
                 /\ a.method = Terms(p, i).method /\ a.weight = Weight(p)[i] /\ a.payout = Payouts(p)[i]
                 /\ DOMAIN a.minerals = Minerals(p)
                 /\ \A t \in Minerals(p) : a.minerals[t] = MineralPayouts(p, t)[i]
BY DEF Children

LEMMA OutputStored ==
    ASSUME NEW p \in Payloads, NEW n
    PROVE  /\ DOMAIN Children(p, n).outputs = Minerals(p)
           /\ \A t \in Minerals(p) :
                 LET o == Children(p, n).outputs[t] IN
                 /\ o.entered = p.outputs[t].quantity /\ o.quantity = Units(p.outputs[t].quantity)
                 /\ o.distributed = (IF p.mode = "minerals" THEN Distributed(p, t) ELSE 0)
                 /\ o.retained = o.quantity - o.distributed
BY DEF Children

\* When there is one child only, the settlement has the columns of its save.
LEMMA OnlyChild ==
    ASSUME SettlementInv, NEW c \in settlement.children, Cardinality(settlement.children) = 1
    PROVE  \E p \in Payloads : Accepted(p) /\ c = Children(p, settlement.saves) /\ settlement.columns = Columns(p)
<1>1. settlement.children = {c}
  BY FS_Singleton DEF SettlementInv, Stored
<1>. QED
  BY <1>1 DEF SettlementInv, Stored

\* Gross value is accounted for to the cent, and none is kept back.
THEOREM SettlementReconciles == SettlementSpec => []Reconciles
<1>1. SettlementInv => Reconciles
  <2>. SUFFICES ASSUME SettlementInv, NEW child \in settlement.children, Cardinality(settlement.children) = 1
       PROVE  LET c == settlement.columns IN
              /\ c.gross = c.reserve + c.deductions +
                     Total([i \in DOMAIN child.crew |-> Payout(child, i)]) + c.unallocated
              /\ c.unallocated \in {-1, 0}
    BY DEF Reconciles
  <2>1. PICK p \in Payloads : Accepted(p) /\ child = Children(p, settlement.saves) /\ settlement.columns = Columns(p)
    BY OnlyChild
  <2>2. DOMAIN child.crew = Crew(p) /\ \A i \in Crew(p) : Payout(child, i) = Payouts(p)[i]
    BY <2>1, CrewStored DEF Payout
  <2>3. [i \in DOMAIN child.crew |-> Payout(child, i)] = [i \in Crew(p) |-> Payouts(p)[i]]
    BY <2>2
  <2>4. [i \in Crew(p) |-> Payouts(p)[i]] = Payouts(p)
    BY <2>1, Remainder
  <2>5. Total([i \in DOMAIN child.crew |-> Payout(child, i)]) = Total(Payouts(p))
    BY <2>3, <2>4
  <2>6. /\ settlement.columns.gross = Gross(p) /\ settlement.columns.reserve = Reserve(p)
        /\ settlement.columns.deductions = Deductions(p) /\ settlement.columns.unallocated = Unallocated(p)
    BY <2>1 DEF Columns
  <2>. QED
    BY <2>1, <2>5, <2>6, Remainder
<1>. QED
  BY <1>1, SettlementHolds, PTL

\* A larger share never pays less, in cents or in any mineral.
THEOREM SharesFair == SettlementSpec => []FairShares
<1>1. SettlementInv => FairShares
  <2>. SUFFICES ASSUME SettlementInv, NEW child \in settlement.children,
                       NEW i \in DOMAIN child.crew, NEW j \in DOMAIN child.crew,
                       {child.crew[i].method, child.crew[j].method} \subseteq {"auto", "shares"},
                       child.crew[i].weight >= child.crew[j].weight
       PROVE  LET a == child.crew[i]  b == child.crew[j]
                  slack == IF a.weight = b.weight THEN 1 ELSE 0 IN
              /\ a.payout + slack >= b.payout
              /\ \A t \in DOMAIN a.minerals : a.minerals[t] + slack >= b.minerals[t]
    BY DEF FairShares
  <2>1. child \in Snapshots
    BY DEF SettlementInv, Stored, SettlementRows
  <2>2. PICK p \in Payloads : Accepted(p) /\ \E n \in Nat \ {0} : child = Children(p, n)
    BY <2>1, SnapshotIs
  <2>3. PICK n : child = Children(p, n)
    BY <2>2
  <2>4. i \in Crew(p) /\ j \in Crew(p)
    BY <2>3, CrewStored
  <2>5. PICK a, b : a = child.crew[i] /\ b = child.crew[j]
    OBVIOUS
  <2>6. /\ a.method = Terms(p, i).method /\ a.weight = Weight(p)[i] /\ a.payout = Payouts(p)[i]
        /\ DOMAIN a.minerals = Minerals(p)
        /\ \A t \in Minerals(p) : a.minerals[t] = MineralPayouts(p, t)[i]
    BY <2>3, <2>4, <2>5, CrewStored
  <2>7. /\ b.method = Terms(p, j).method /\ b.weight = Weight(p)[j] /\ b.payout = Payouts(p)[j]
        /\ \A t \in Minerals(p) : b.minerals[t] = MineralPayouts(p, t)[j]
    BY <2>3, <2>4, <2>5, CrewStored
  <2>8. ~IsFixed(p, i) /\ ~IsFixed(p, j)
    BY <2>5, <2>6, <2>7 DEF IsFixed
  <2>9. Weight(p)[i] >= Weight(p)[j]
    BY <2>5, <2>6, <2>7
  <2>10. Payouts(p)[i] + (IF Weight(p)[i] = Weight(p)[j] THEN 1 ELSE 0) >= Payouts(p)[j]
    BY <2>2, <2>4, <2>8, <2>9, FairPay
  <2>11. ASSUME NEW t \in Minerals(p)
         PROVE MineralPayouts(p, t)[i] + (IF Weight(p)[i] = Weight(p)[j] THEN 1 ELSE 0) >= MineralPayouts(p, t)[j]
    BY <2>2, <2>4, <2>8, <2>9, FairUnits
  <2>. QED
    BY <2>5, <2>6, <2>7, <2>10, <2>11
<1>. QED
  BY <1>1, SettlementHolds, PTL

LEMMA WhatIsKept == \A g, q, d, x \in Nat : g * d <= x * q => g * (q - d) >= (g - x) * q
OBVIOUS

\* Every stored unit is handed out or kept, no more are handed out than there are, and what
\* is not handed out of the entered quantity covers reserve and deductions.
THEOREM UnitsConserved == SettlementSpec => []MineralsConserved
<1>1. SettlementInv => MineralsConserved
  <2>. SUFFICES ASSUME SettlementInv, NEW child \in settlement.children, NEW t \in DOMAIN child.outputs
       PROVE  LET out == child.outputs[t]  c == settlement.columns IN
              /\ out.distributed = Total([i \in DOMAIN child.crew |-> child.crew[i].minerals[t]])
              /\ out.distributed + out.retained = out.quantity /\ out.retained >= 0
              /\ Cardinality(settlement.children) = 1 =>
                    c.gross * (out.entered - Grain * out.distributed) >= (c.reserve + c.deductions) * out.entered
    BY DEF MineralsConserved
  <2>1. child \in Snapshots
    BY DEF SettlementInv, Stored, SettlementRows
  <2>2. PICK p \in Payloads : Accepted(p) /\ \E n \in Nat \ {0} : child = Children(p, n)
    BY <2>1, SnapshotIs
  <2>3. PICK n : child = Children(p, n)
    BY <2>2
  <2>4. t \in Minerals(p)
    BY <2>3, OutputStored
  <2>5. PICK o : o = child.outputs[t]
    OBVIOUS
  <2>6. PICK q, d, m \in Nat :
            /\ q = o.entered /\ d = o.distributed /\ m = o.quantity /\ o.retained = m - d
            /\ q = p.outputs[t].quantity /\ m = Units(q)
            /\ d = (IF p.mode = "minerals" THEN Distributed(p, t) ELSE 0) /\ d <= m
    <3>1. PICK q, m \in Nat : q = p.outputs[t].quantity /\ m = Units(q)
      BY <2>2, <2>4, GrossNat, UnitsIs
    <3>2. PICK d \in Nat : d = (IF p.mode = "minerals" THEN Distributed(p, t) ELSE 0) /\ d <= m
      BY <2>2, <2>4, <3>1, DistributedIs
    <3>3. q = o.entered /\ d = o.distributed /\ m = o.quantity /\ o.retained = m - d
      BY <2>3, <2>4, <2>5, <3>1, <3>2, OutputStored
    <3>. QED
      BY <3>1, <3>2, <3>3
  <2>7. d = Total([i \in DOMAIN child.crew |-> child.crew[i].minerals[t]])
    <3>1. DOMAIN child.crew = Crew(p) /\ \A i \in Crew(p) : child.crew[i].minerals[t] = MineralPayouts(p, t)[i]
      BY <2>3, <2>4, CrewStored
    <3>2. [i \in DOMAIN child.crew |-> child.crew[i].minerals[t]] = [i \in Crew(p) |-> MineralPayouts(p, t)[i]]
      BY <3>1
    <3>3. [i \in Crew(p) |-> MineralPayouts(p, t)[i]] = MineralPayouts(p, t)
      <4>1. PICK k, w : k = Size(p) /\ w = Ratios(p) /\ k \in Nat /\ w \in Weights(k) /\ Crew(p) = 1..k
        BY <2>2, CrewIs, RatiosIs
      <4>2. PICK total \in Int : total = Distributed(p, t)
        BY <2>2, <2>4, DistributedIs
      <4>3. Allocate(total, w) \in [1..k -> Nat]
        BY <4>1, AllocateNat
      <4>. QED
        BY <4>1, <4>2, <4>3 DEF MineralPayouts
    <3>4. Total(MineralPayouts(p, t)) = d
      BY <2>2, <2>4, <2>6, MineralsAddUp
    <3>. QED
      BY <3>2, <3>3, <3>4
  <2>8. ASSUME Cardinality(settlement.children) = 1
        PROVE settlement.columns.gross * (o.entered - Grain * o.distributed)
                  >= (settlement.columns.reserve + settlement.columns.deductions) * o.entered
    <3>1. PICK s \in Payloads : Accepted(s) /\ child = Children(s, settlement.saves) /\ settlement.columns = Columns(s)
      BY <2>8, OnlyChild
    <3>2. t \in Minerals(s)
      BY <3>1, OutputStored
    <3>3. q = s.outputs[t].quantity /\ d = (IF s.mode = "minerals" THEN Distributed(s, t) ELSE 0)
      BY <2>5, <2>6, <3>1, <3>2, OutputStored
    <3>4. PICK g, r, e, x \in Nat : g = Gross(s) /\ r = Reserve(s) /\ e = Deductions(s) /\ x = Distributable(s)
      BY <3>1, AcceptedIs, GrossNat, ChargesNat
    <3>5. PICK y \in Nat : y = Grain * d /\ g * y <= x * q
      <4>1. CASE s.mode = "minerals"
        <5>1. Grain * d \in Nat
          BY SettlementConstants, Products
        <5>. QED
          BY <3>1, <3>2, <3>3, <3>4, <4>1, <5>1, DistributedIs
      <4>2. CASE s.mode # "minerals"
        <5>1. d = 0 /\ x * q \in Nat
          BY <3>3, <4>2, Products
        <5>2. Grain * d = 0 /\ g * 0 = 0
          BY <5>1, SettlementConstants
        <5>. QED
          BY <5>1, <5>2
      <4>. QED
        BY <4>1, <4>2
    <3>6. r + e = g - x
      BY <3>4 DEF Distributable
    <3>7. g * (q - y) >= (g - x) * q
      BY <3>5, WhatIsKept
    <3>8. settlement.columns.gross = g /\ settlement.columns.reserve = r /\ settlement.columns.deductions = e
      BY <3>1, <3>4 DEF Columns
    <3>. QED
      BY <2>6, <3>5, <3>6, <3>7, <3>8
  <2>9. d + (m - d) = m /\ m - d >= 0
    BY <2>6
  <2>. QED
    BY <2>5, <2>6, <2>7, <2>8, <2>9
<1>. QED
  BY <1>1, SettlementHolds, PTL
=============================================================================
