--------------------------- MODULE IntelCollection ---------------------------
(* The public-intel collector: a job per dossier subject, kept in the          *)
(* database, that any backend process may pick up, work on under a lease and   *)
(* lose at any moment.  One action is one database transaction of the code (or *)
(* one network answer); between two actions anything else may happen.          *)
(*                                                                             *)
(* A killmail is its position in time: killmail k is older than killmail k+1,  *)
(* and a feed page is read newest first.  Wall-clock time is reduced to the    *)
(* two comparisons the code makes: has the lease lapsed, has the backoff       *)
(* elapsed.  A lease token (a uuid) is any token nobody holds any more.        *)
EXTENDS Naturals, FiniteSets, Sums

CONSTANTS
    Subjects,       \* dossier subjects
    Alliances,      \* the subjects of kind alliance: they have a census stage
    Workers,        \* backend processes, each runs one worker_loop
    Requests,       \* API requests in flight at a time
    Tokens,         \* lease tokens
    NoToken,
    MaxJobs,        \* bound: jobs ever created
    MaxPages,       \* page depth of a job
    PageSize,       \* killmails per feed page
    MaxKills,       \* bound: killmails ever posted upstream
    KillFeed,       \* KillFeed[s][f]: the killmails upstream lists for s in f
    Cutoffs,        \* the from_at values a collect request may ask for
    MaxRetries,     \* failures in a row that settle a job (3)
    QueueLimit      \* active jobs a collect request tolerates (100)

Feeds == {"kills", "losses"}
Jobs  == 1..MaxJobs

ASSUME ConstantsOK ==
    /\ Subjects # {} /\ Alliances \subseteq Subjects
    /\ NoToken \notin Tokens
    /\ MaxJobs \in Nat /\ MaxPages \in Nat \ {0} /\ PageSize \in Nat \ {0}
    /\ MaxKills \in Nat /\ QueueLimit \in Nat \ {0} /\ MaxRetries \in Nat \ {0}
    /\ Cutoffs \subseteq Nat
    /\ KillFeed \in [Subjects -> [Feeds -> SUBSET (1..MaxKills)]]

VARIABLES
    job,            \* intel_collections
    worker,         \* local state of run_collection in each process
    request,        \* local state of the API handlers in flight
    posted,         \* killmails posted upstream so far
    store,          \* killmails: the canonical rows
    discovery,      \* killmail_discoveries: <<subject, feed, killmail>>
    cache           \* intel_source_cache: the page listings kept for an hour

vars == <<job, worker, request, posted, store, discovery, cache>>
data == <<posted, store, discovery, cache>>

Stages   == {"profile", "membership", "kills", "losses", "metadata", "finished"}
Active   == {"queued", "running"}
Settled  == {"completed", "partial", "failed", "cancelled"}
Census   == {"available", "partial", "unavailable"}
FeedEnd  == {"feed_exhausted", "reached_date", "page_cap"}
Working  == {"dispatch", "profile", "membership", "open", "fetch", "publish",
             "entries", "metadata"}

-----------------------------------------------------------------------------
(* Rows and process state *)

Blank == [status |-> "absent", stage |-> "profile", page |-> 1, retry |-> 0,
          token |-> NoToken, lease |-> "none", waiting |-> FALSE,
          subject |-> CHOOSE s \in Subjects : TRUE, from |-> 0, to |-> 0,
          imported |-> 0, reused |-> 0,
          feed |-> [f \in Feeds |-> "none"], census |-> "none"]

Idle == [pc |-> "idle", job |-> 0, token |-> NoToken, feed |-> "kills",
         page |-> 1, entries |-> {}, empty |-> FALSE, past |-> FALSE]

NoRequest == [op |-> "none", subject |-> Blank.subject, job |-> 0, retry |-> 0]

IsActive(j) == job[j].status \in Active

ActiveFor(s) == {j \in Jobs : IsActive(j) /\ job[j].subject = s}

\* Mutant: an abandoned lease is never taken over.
Claimable_NeverStale(j) == IsActive(j) /\ ~job[j].waiting /\ job[j].lease = "none"

\* claim's WHERE clause, and worker_loop's
Claimable(j) == IsActive(j) /\ ~job[j].waiting /\ job[j].lease # "held"

\* Mutants: the token is not compared, or the row is not looked at again.
Owns_AnyToken(w) == worker[w].pc \in Working /\ job[worker[w].job].status = "running"
Owns_Unchecked(w) == worker[w].pc \in Working

\* owned_job: the row still carries this run's token and is still running.  The
\* lease itself is not compared with the clock.
Owns(w) == LET me == worker[w] IN
    /\ me.pc \in Working
    /\ job[me.job].status = "running"
    /\ job[me.job].token = me.token

\* the row as owned_job returns it, its lease renewed
Held(w) == [job[worker[w].job] EXCEPT !.lease = "held"]

Save(w, row) == job' = [job EXCEPT ![worker[w].job] = row]

Goto(w, pc) == worker' = [worker EXCEPT ![w].pc = pc]

Stop(w) == worker' = [worker EXCEPT ![w] = Idle]

TokensInUse == {job[j].token : j \in Jobs} \cup {worker[w].token : w \in Workers}

\* Page p of a feed: the killmails posted so far, newest first, cut in pages.
Listing(s, f, p) ==
    LET shown == {k \in KillFeed[s][f] : k <= posted}
        rank(k) == Cardinality({x \in shown : x >= k})
    IN  {k \in shown : (p - 1) * PageSize < rank(k) /\ rank(k) <= p * PageSize}

\* Mutant: a cache key that leaves the feed out.
Cached_AnyFeed(s, f, p) == {e \in cache : e.subject = s /\ e.page = p}

\* cache_get: the listing kept for a page, if one is and has not expired
Cached(s, f, p) == {e \in cache : e.subject = s /\ e.feed = f /\ e.page = p}

-----------------------------------------------------------------------------
(* worker_loop and claim *)

\* The oldest job that can be claimed; the claim itself is another transaction.
PickJob(w) ==
    /\ worker[w].pc = "idle"
    /\ \E j \in Jobs :
          /\ Claimable(j)
          /\ \A i \in Jobs : i < j => ~Claimable(i)
          /\ worker' = [worker EXCEPT ![w] = [Idle EXCEPT !.pc = "claiming", !.job = j]]
    /\ UNCHANGED <<job, request, data>>

Claim(w) ==
    /\ worker[w].pc = "claiming"
    /\ LET j == worker[w].job IN
       \/ /\ Claimable(j)
          /\ \E t \in Tokens \ TokensInUse :
                /\ job' = [job EXCEPT ![j] = [@ EXCEPT !.status = "running",
                                              !.token = t, !.lease = "held"]]
                /\ worker' = [worker EXCEPT ![w] = [@ EXCEPT !.pc = "dispatch", !.token = t]]
       \/ /\ ~Claimable(j)
          /\ Stop(w)
          /\ UNCHANGED job
    /\ UNCHANGED <<request, data>>

\* Every transaction of the run starts with owned_job; when that finds nothing
\* the stage returns, run_collection asks again, and the run ends unnoticed.
Abandon(w) ==
    /\ worker[w].pc \in Working \ {"fetch"}
    /\ ~Owns(w)
    /\ Stop(w)
    /\ UNCHANGED <<job, request, data>>

StageStep(stage) == IF stage \in Feeds THEN "open" ELSE stage

Dispatch(w) ==
    /\ worker[w].pc = "dispatch" /\ Owns(w)
    /\ Held(w).stage # "finished"
    /\ Save(w, Held(w))
    /\ Goto(w, StageStep(Held(w).stage))
    /\ UNCHANGED <<request, data>>

-----------------------------------------------------------------------------
(* The stages *)

FinishProfile(w) ==
    /\ worker[w].pc = "profile" /\ Owns(w)
    /\ Save(w, [Held(w) EXCEPT
          !.stage = IF Held(w).subject \in Alliances THEN "membership" ELSE "kills",
          !.page = 1, !.retry = 0])
    /\ Goto(w, "dispatch")
    /\ UNCHANGED <<request, data>>

\* An upstream failure of the census is an outcome, not an error of the run.
FinishMembership(w) ==
    /\ worker[w].pc = "membership" /\ Owns(w)
    /\ \E outcome \in Census :
          Save(w, [Held(w) EXCEPT !.census = outcome, !.stage = "kills",
                                  !.page = 1, !.retry = 0])
    /\ Goto(w, "dispatch")
    /\ UNCHANGED <<request, data>>

Opened(w, pc, entries) ==
    worker' = [worker EXCEPT ![w] = [@ EXCEPT !.pc = pc, !.feed = Held(w).stage,
        !.page = Held(w).page, !.entries = entries, !.empty = (entries = {}), !.past = FALSE]]

\* page_stage's first transaction: read the cursor and the cached listing.
OpenPage(w) ==
    /\ worker[w].pc = "open" /\ Owns(w)
    /\ LET hits == Cached(Held(w).subject, Held(w).stage, Held(w).page) IN
       \/ hits = {} /\ Opened(w, "fetch", {})
       \/ \E e \in hits : Opened(w, "entries", e.kills)
    /\ Save(w, Held(w))
    /\ UNCHANGED <<request, data>>

\* The upstream answer; no database access, so no ownership check.
FetchPage(w) ==
    /\ worker[w].pc = "fetch"
    /\ LET kills == Listing(job[worker[w].job].subject, worker[w].feed, worker[w].page) IN
       worker' = [worker EXCEPT ![w] = [@ EXCEPT !.pc = "publish", !.entries = kills,
                                                 !.empty = (kills = {})]]
    /\ UNCHANGED <<job, request, data>>

CachePage(w) ==
    /\ worker[w].pc = "publish" /\ Owns(w)
    /\ LET me == worker[w]  s == Held(w).subject IN
       cache' = (cache \ Cached(s, me.feed, me.page)) \cup
                {[subject |-> s, feed |-> me.feed, page |-> me.page, kills |-> me.entries]}
    /\ Save(w, Held(w))
    /\ Goto(w, "entries")
    /\ UNCHANGED <<request, posted, store, discovery>>

InWindow(k, row) == row.from <= k /\ k <= row.to

\* Mutants: a killmail already stored is counted at every look, or only for the
\* first subject that finds it.
Import_EveryLook(w, k) ==
    /\ store' = store \cup {k}
    /\ discovery' = discovery \cup {<<Held(w).subject, worker[w].feed, k>>}
    /\ Save(w, [Held(w) EXCEPT
          !.imported = IF k \in store THEN @ ELSE @ + 1,
          !.reused = IF k \in store THEN @ + 1 ELSE @])

Import_FirstFinder(w, k) ==
    /\ store' = store \cup {k}
    /\ discovery' = discovery \cup {<<Held(w).subject, worker[w].feed, k>>}
    /\ Save(w, [Held(w) EXCEPT !.imported = IF k \in store THEN @ ELSE @ + 1])

Import(w, k) ==
    LET mark == <<Held(w).subject, worker[w].feed, k>> IN
    /\ store' = store \cup {k}
    /\ discovery' = discovery \cup {mark}
    /\ Save(w, [Held(w) EXCEPT
          !.imported = IF k \in store THEN @ ELSE @ + 1,
          !.reused = IF k \in store /\ mark \notin discovery THEN @ + 1 ELSE @])

\* An entry outside the window is only looked at; one inside is stored once and
\* recorded once per subject and feed, and counted in the same transaction.
TakeEntry(w) ==
    /\ worker[w].pc = "entries" /\ Owns(w)
    /\ \E k \in worker[w].entries :
          /\ \A x \in worker[w].entries : x <= k
          /\ worker' = [worker EXCEPT ![w].entries = @ \ {k},
                                      ![w].past = @ \/ k < Held(w).from]
          /\ \/ /\ ~InWindow(k, Held(w))
                /\ Save(w, Held(w))
                /\ UNCHANGED <<store, discovery>>
             \/ /\ InWindow(k, Held(w))
                /\ Import(w, k)
    /\ UNCHANGED <<request, posted, cache>>

FeedDone(me) == me.empty \/ me.past \/ me.page >= MaxPages

Ending(me) ==
    IF me.empty THEN "feed_exhausted" ELSE IF me.past THEN "reached_date" ELSE "page_cap"

\* page_stage's last transaction.  The feed and page written to the coverage are
\* the run's own; the page that is incremented is the row's.
CommitPage(w) ==
    /\ worker[w].pc = "entries" /\ worker[w].entries = {} /\ Owns(w)
    /\ LET me == worker[w]  row == Held(w) IN
       \/ /\ FeedDone(me)
          /\ Save(w, [row EXCEPT !.feed[me.feed] = Ending(me), !.page = 1, !.retry = 0,
                 !.stage = IF me.feed = "kills" THEN "losses" ELSE "metadata"])
       \/ /\ ~FeedDone(me)
          /\ Save(w, [row EXCEPT !.feed[me.feed] = "collecting", !.page = @ + 1, !.retry = 0])
    /\ Goto(w, "dispatch")
    /\ UNCHANGED <<request, data>>

\* metadata_stage's transactions before the last: each renews the lease.
ResolveMetadata(w) ==
    /\ worker[w].pc = "metadata" /\ Owns(w)
    /\ Save(w, Held(w))
    /\ UNCHANGED <<worker, request, data>>

\* Mutants: the report's status forgets the census, or the page cap.
Incomplete_Pages(row) == \E f \in Feeds : row.feed[f] = "page_cap"
Incomplete_Census(row) == row.census \in {"partial", "unavailable"}

Incomplete(row) ==
    \/ \E f \in Feeds : row.feed[f] = "page_cap"
    \/ row.census \in {"partial", "unavailable"}

FinishMetadata(w) ==
    /\ worker[w].pc = "metadata" /\ Owns(w)
    /\ Save(w, [Held(w) EXCEPT
          !.status = IF Incomplete(Held(w)) THEN "partial" ELSE "completed",
          !.stage = "finished", !.token = NoToken, !.lease = "none"])
    /\ Goto(w, "dispatch")
    /\ UNCHANGED <<request, data>>

-----------------------------------------------------------------------------
(* What goes wrong: errors, shutdowns, crashes, lapsed leases *)

\* Mutant: a failed step is retried from the first page.
Failed_FirstPage(row) ==
    [row EXCEPT !.retry = @ + 1, !.token = NoToken, !.lease = "none", !.page = 1,
        !.waiting = TRUE, !.status = IF row.retry + 1 >= MaxRetries THEN "failed" ELSE "queued"]

\* note_failure: the third failure in a row at a checkpoint settles the job.
Failed(row) ==
    LET last == row.retry + 1 >= MaxRetries IN
    [row EXCEPT !.retry = @ + 1, !.token = NoToken, !.lease = "none",
        !.waiting = IF last THEN @ ELSE TRUE,
        !.status = IF ~last THEN "queued"
                   ELSE IF row.imported + row.reused > 0 THEN "partial" ELSE "failed"]

\* Any stage may raise.
Fail(w) ==
    /\ Owns(w)
    /\ Save(w, Failed(Held(w)))
    /\ Stop(w)
    /\ UNCHANGED <<request, data>>

\* A run dispatched on a finished row always does: run_collection knows no such stage.
RejectStage(w) ==
    /\ worker[w].pc = "dispatch"
    /\ Held(w).stage = "finished"
    /\ Fail(w)

\* Shutdown: the run's CancelledError handler gives the job back.
Interrupt(w) ==
    /\ Owns(w)
    /\ Save(w, [Held(w) EXCEPT !.status = "queued", !.token = NoToken, !.lease = "none"])
    /\ Stop(w)
    /\ UNCHANGED <<request, data>>

\* The process dies; the row keeps its token and its lease.
Crash(w) ==
    /\ worker[w].pc # "idle"
    /\ Stop(w)
    /\ UNCHANGED <<job, request, data>>

LapseLease(j) ==
    /\ job[j].lease = "held"
    /\ job' = [job EXCEPT ![j].lease = "lapsed"]
    /\ UNCHANGED <<worker, request, data>>

ElapseBackoff(j) ==
    /\ job[j].waiting
    /\ job' = [job EXCEPT ![j].waiting = FALSE]
    /\ UNCHANGED <<worker, request, data>>

-----------------------------------------------------------------------------
(* The API: collect, cancel and retry *)

\* Mutant: no unique index.
IndexAllows_Any(s, j) == TRUE

\* The partial unique index: row j may be active for s.
IndexAllows(s, j) == ActiveFor(s) \subseteq {j}

\* collect counts the active jobs in one statement and inserts in a later one.
BeginCollect(r, s) ==
    /\ request[r].op = "none"
    /\ ActiveFor(s) = {}
    /\ Cardinality({j \in Jobs : IsActive(j)}) < QueueLimit
    /\ request' = [request EXCEPT ![r] = [NoRequest EXCEPT !.op = "collect", !.subject = s]]
    /\ UNCHANGED <<job, worker, data>>

\* The insert; the second active job of a subject is refused (409).
CommitCollect(r) ==
    /\ request[r].op = "collect"
    /\ LET s == request[r].subject IN
       \/ \E j \in Jobs, at \in Cutoffs :
                /\ job[j].status = "absent"
                /\ \A i \in Jobs : i < j => job[i].status # "absent"
                /\ at <= posted + 1
                /\ IndexAllows(s, j)
                /\ job' = [job EXCEPT ![j] = [Blank EXCEPT !.status = "queued",
                              !.subject = s, !.from = at, !.to = posted]]
       \/ /\ \A j \in Jobs : job[j].status = "absent" => ~IndexAllows(s, j)
          /\ UNCHANGED job
    /\ request' = [request EXCEPT ![r] = NoRequest]
    /\ UNCHANGED <<worker, data>>

Cancel(j) ==
    /\ IsActive(j)
    /\ job' = [job EXCEPT ![j] = [@ EXCEPT !.status = "cancelled", !.token = NoToken,
                                           !.lease = "none"]]
    /\ UNCHANGED <<worker, request, data>>

\* retry reads the row and checks it without a lock.
BeginRetry(r, j) ==
    /\ request[r].op = "none"
    /\ job[j].status \in {"failed", "partial", "cancelled"}
    /\ job[j].stage # "finished"
    /\ ActiveFor(job[j].subject) = {}
    /\ request' = [request EXCEPT ![r] =
          [NoRequest EXCEPT !.op = "retry", !.job = j, !.retry = job[j].retry]]
    /\ UNCHANGED <<job, worker, data>>

\* The flush writes the columns that differ from what was read: status and
\* available_at always, retry_count when it was not zero, never the lease, which
\* was empty already.
Resumed(row, retry) ==
    [row EXCEPT !.status = "queued", !.waiting = FALSE, !.retry = IF retry = 0 THEN @ ELSE 0]

\* Of the checks only the unique index is made again.
CommitRetry(r) ==
    /\ request[r].op = "retry"
    /\ LET j == request[r].job IN
       \/ /\ IndexAllows(job[j].subject, j)
          /\ job' = [job EXCEPT ![j] = Resumed(job[j], request[r].retry)]
       \/ /\ ~IndexAllows(job[j].subject, j)
          /\ UNCHANGED job
    /\ request' = [request EXCEPT ![r] = NoRequest]
    /\ UNCHANGED <<worker, data>>

-----------------------------------------------------------------------------
(* Upstream and time *)

PostKill ==
    /\ posted < MaxKills
    /\ posted' = posted + 1
    /\ UNCHANGED <<job, worker, request, store, discovery, cache>>

ExpireListing ==
    /\ \E e \in cache : cache' = cache \ {e}
    /\ UNCHANGED <<job, worker, request, posted, store, discovery>>

-----------------------------------------------------------------------------

Init ==
    /\ job = [j \in Jobs |-> Blank]
    /\ worker = [w \in Workers |-> Idle]
    /\ request = [r \in Requests |-> NoRequest]
    /\ posted \in 0..MaxKills
    /\ store = {} /\ discovery = {} /\ cache = {}

Work(w) ==
    \/ PickJob(w) \/ Claim(w) \/ Abandon(w) \/ Dispatch(w)
    \/ FinishProfile(w) \/ FinishMembership(w)
    \/ OpenPage(w) \/ FetchPage(w) \/ CachePage(w) \/ TakeEntry(w) \/ CommitPage(w)
    \/ ResolveMetadata(w) \/ FinishMetadata(w) \/ RejectStage(w)

Disturb(w) == Fail(w) \/ Interrupt(w) \/ Crash(w)

Api(r) ==
    \/ \E s \in Subjects : BeginCollect(r, s)
    \/ CommitCollect(r)
    \/ \E j \in Jobs : BeginRetry(r, j)
    \/ CommitRetry(r)

Clock(j) == LapseLease(j) \/ ElapseBackoff(j)

Next ==
    \/ \E w \in Workers : Work(w) \/ Disturb(w)
    \/ \E r \in Requests : Api(r)
    \/ \E j \in Jobs : Clock(j) \/ Cancel(j)
    \/ PostKill \/ ExpireListing

Spec == Init /\ [][Next]_vars

\* The worker loop runs as long as its process does, clocks advance, and a lease
\* nobody works under any more lapses.
LapseOrphan(j) == LapseLease(j) /\ ~ \E w \in Workers : Owns(w) /\ worker[w].job = j

Fairness ==
    /\ \A w \in Workers : WF_vars(Work(w))
    /\ \A j \in Jobs : WF_vars(LapseOrphan(j)) /\ WF_vars(ElapseBackoff(j))

FairSpec == Spec /\ Fairness

-----------------------------------------------------------------------------
(* Properties *)

JobRow ==
    [status : Active \cup Settled \cup {"absent"}, stage : Stages, page : 1..MaxPages,
     retry : Nat, token : Tokens \cup {NoToken},
     lease : {"none", "held", "lapsed"}, waiting : BOOLEAN, subject : Subjects,
     from : Nat, to : Nat, imported : Nat, reused : Nat,
     feed : [Feeds -> FeedEnd \cup {"none", "collecting"}], census : Census \cup {"none"}]

WorkerState ==
    [pc : Working \cup {"idle", "claiming"}, job : Jobs \cup {0},
     token : Tokens \cup {NoToken}, feed : Feeds, page : 1..MaxPages,
     entries : SUBSET (1..MaxKills), empty : BOOLEAN, past : BOOLEAN]

RequestState ==
    [op : {"none", "collect", "retry"}, subject : Subjects, job : Jobs \cup {0},
     retry : Nat]

CacheRow ==
    [subject : Subjects, feed : Feeds, page : 1..MaxPages, kills : SUBSET (1..MaxKills)]

\* Every row, process and cache entry has the shape the code gives it.
TypeOK ==
    /\ job \in [Jobs -> JobRow]
    /\ worker \in [Workers -> WorkerState]
    /\ request \in [Requests -> RequestState]
    /\ posted \in 0..MaxKills
    /\ store \subseteq 1..MaxKills
    /\ discovery \subseteq Subjects \X Feeds \X (1..MaxKills)
    /\ cache \subseteq CacheRow

Matches(me, row) ==
    /\ me.pc \in {"profile", "membership", "metadata"} => row.stage = me.pc
    /\ me.pc = "open" => row.stage \in Feeds
    /\ me.pc \in {"fetch", "publish", "entries"} => row.stage = me.feed /\ row.page = me.page

\* A process that still passes owned_job is working on the very checkpoint the
\* row holds: page_stage may write the coverage under the feed and page it read
\* before its network waits, and add one to the row's page, only because of this.
StepMatchesCheckpoint == \A w \in Workers : Owns(w) => Matches(worker[w], job[worker[w].job])

\* The counters a report shows: across crashes, repeated pages, overlapping feeds
\* and overlapping jobs each stored killmail was counted imported once, and each
\* discovery was counted exactly once, as imported or as reused.
CountedOnce ==
    /\ Total([j \in Jobs |-> job[j].imported]) = Cardinality(store)
    /\ Total([j \in Jobs |-> job[j].imported + job[j].reused]) = Cardinality(discovery)

\* The first report of its subject: nothing is cached yet of what it asks for.
Only(j) == \A i \in Jobs \ {j} : job[i].status = "absent" \/ job[i].subject # job[j].subject

\* A feed recorded as exhausted, or as read back to the requested date, has a
\* discovery for every killmail upstream had listed in the window when the job
\* was queued.  A later report of the subject may be given pages its predecessor
\* cached within the hour, and miss what was posted since.
CoverageIsComplete == \A j \in Jobs, f \in Feeds :
    Only(j) /\ job[j].feed[f] \in {"feed_exhausted", "reached_date"} =>
        \A k \in KillFeed[job[j].subject][f] :
            InWindow(k, job[j]) => <<job[j].subject, f, k>> \in discovery

\* A job reported completed went through every stage: both feeds ended before the
\* page cap, and the census of an alliance was not missing or partial.
CompletedIsCovered == \A j \in Jobs : job[j].status = "completed" =>
    /\ job[j].stage = "finished"
    /\ \A f \in Feeds : job[j].feed[f] \in {"feed_exhausted", "reached_date"}
    /\ job[j].census = IF job[j].subject \in Alliances THEN "available" ELSE "none"

\* Cancelled, failed, finished or merely queued, a job no longer moves: a process
\* that lost it writes no cursor, coverage, count or discovery any more.
Progress(row) ==
    [row EXCEPT !.status = "queued", !.retry = 0, !.token = NoToken, !.lease = "none",
                !.waiting = FALSE]

NoLateWrites == [][
    /\ \A j \in Jobs : job[j].status \in Settled \cup {"queued"} =>
          Progress(job'[j]) = Progress(job[j])
    /\ \A m \in discovery' \ discovery :
          \E j \in ActiveFor(m[1]) : job[j].status = "running" /\ m[3] <= job[j].to]_vars

\* No run, however late, and no API call moves a job back to an earlier stage or
\* page: work that was checkpointed is never asked for again.
StageRank(stage) ==
    CASE stage = "profile" -> 0 [] stage = "membership" -> 1 [] stage = "kills" -> 2
      [] stage = "losses" -> 3 [] stage = "metadata" -> 4 [] stage = "finished" -> 5

NotBehind(row, next) ==
    \/ StageRank(row.stage) < StageRank(next.stage)
    \/ row.stage = next.stage /\ row.page <= next.page

CursorNeverRegresses == [][\A j \in Jobs : NotBehind(job[j], job'[j])]_vars

\* Two requests racing, to collect or to resume, never leave a subject with two
\* active jobs.
OneActivePerSubject == \A s \in Subjects : Cardinality(ActiveFor(s)) <= 1

\* The job as its owner watches it: checkpoints are ranked in stage order.
Rank(row) == StageRank(row.stage) * (MaxPages + 1) + row.page - 1

Phase(row) ==
    IF row.status = "absent" THEN "absent" ELSE IF row.status \in Active THEN "open" ELSE "closed"

Durable == INSTANCE DurableJob WITH
    Last <- StageRank("finished") * (MaxPages + 1),
    phase <- [j \in Jobs |-> Phase(job[j])],
    rank <- [j \in Jobs |-> Rank(job[j])]

\* However runs crash, overlap and resume, the job implements DurableJob.
ImplementsDurableJob == Durable!Spec

\* Once processes stop crashing, steps stop failing, nobody resumes jobs and no
\* step outlives its lease any more, every active job is settled: none is
\* stranded by an abandoned lease, a backoff or a lost race for a claim.
Disturbance ==
    \/ \E w \in Workers : Disturb(w)
    \/ \E r \in Requests : CommitRetry(r)
    \/ \E w \in Workers : Owns(w) /\ LapseLease(worker[w].job)

Settles ==
    <>[][~Disturbance]_vars => \A j \in Jobs : IsActive(j) ~> (job[j].status \in Settled)
=============================================================================
