# Verification of EVE Quartermaster

EVE Quartermaster is a FastAPI and SQLAlchemy backend on PostgreSQL with a React front
end, a host-side update agent and a Rust calculation engine.  Its core logic that is hard
to test is not the calculation, which the repository compares with reference
implementations, but the *coordination*: durable background jobs that several backend
processes may pick up, handlers that read a row without a lock and save it later, tokens
that two workers rotate, and files that an API and a host helper pass to each other.  These
modules model that coordination, check it on small instances with TLC and prove the most
important facts for every instance with TLAPS.

Paths below are relative to `src/`; `app/` stands for `src/backend/app/`.

    tlc -workers 2 -config IntelFencing.cfg MCIntelCollection.tla
    tlapm IntelAndMiningProofs.tla

| module | what it is |
|---|---|
| `IntelCollection`, `MCIntelCollection` | the public-intel collector and the part of its API that touches jobs; feeds and symmetry for TLC |
| `DurableJob` | what any resumable job promises; `IntelCollection` implements it |
| `ExchangeListing`, `MCExchangeListing` | one Corporate Exchange listing: claims, bids, decisions, edits, withdrawals |
| `UpdateAgent` | the host update helper, the API that queues updates, and the files between them |
| `CredentialRotation`, `CredentialLoss` | one character's EVE SSO credential and everyone who rotates it; with one bit of history |
| `JourneyTracking`, `MCJourneyTracking` | the Journey tracker on top of `CredentialRotation`, which its samplers implement |
| `MembershipMonitor` | the daily head count of an Intel dossier |
| `KillboardRuns`, `MCKillboardRuns` | a durable killboard run under its two executors |
| `EsiTransport`, `MCEsiTransport` | admission of requests to ESI by rate-limit budgets |
| `MiningSettlement`, `MCMiningSettlement` | the settlement calculation, and the draft it is saved in |
| `Sums` | the sum of a function's values, which `IntelCollection` and `MiningSettlement` both use |
| `...Proofs` | theorems about the module of that name; `IntelAndMiningProofs` about the two that sum |

## 1. Inventory

**Public intel collector** (`app/services/intel_collection.py`, `app/models/intel.py`).
State: a row of `intel_collections` per dossier job (status, stage, page, coverage per feed,
counters, lease token and expiry, retry count, backoff), `intel_source_cache`, and the
killmail tables.  Operations: `claim`, `owned_job`, `note_failure`, the stages `profile`,
`membership`, `page`, `metadata`, `run_collection`, `worker_loop`.  Each transaction of a run
begins with `owned_job`, which takes the row lock, compares the lease token and renews the
lease; between transactions the run waits for the network and owns nothing but its token.
Hard: two processes on one job after a lease lapsed, crashes between transactions, failures
at every step, cancellation and retry of a job in the middle of a page.  Correct when a run
that lost its job changes nothing, killmails are counted once, coverage is what was read, and
no job is stranded.

**Intel API** (`app/api/intel.py`).  `collect`, `cancel`, `retry` change job rows in the
database the workers poll; nothing else connects the two.  Hard: `collect` and `retry` check
first and write later.  Correct when a subject has one active job and a finished report stays
finished.  Dossiers, notes and sightings are single-request records.

**Killmail store and killboard synchronization** (`app/services/killboard_sync.py`,
`app/api/killboard.py`).  State: canonical killmails (one row per ID, shared with the
collector) and discoveries, and sync runs with a cursor and no lease.  Hard: a run resumed in
a second process; resume over a run that was cancelled meanwhile.

**Corporate Exchange** (`app/api/corporate_exchange.py`, `app/api/corporate_exchange_bids.py`,
`app/services/exchange_bids.py`, `app/services/exchange_listing_updates.py`).  State: a listing
with its stock, status, package contents and appraisals; bids; transactions.  Claims, bids and
the seller's decisions lock the listing `FOR UPDATE`; edits and withdrawals do not.  Correct
when transactions, stock, status and contents agree, a bid sells once, and there is one highest
bid.

**Membership monitor** (`app/services/intel_membership.py`): a census per subject under a lease
that a refresh request clears; an intelligence collection writes the same day's record.  **Pilot journey tracker** (`app/services/journey_worker.py`,
`journey.py`): samples a pilot's location under a per-tracker lease while consent, history and
ownership may change.  **ESI credential refresh** (`app/services/esi_refresh.py`): rotates a
refresh token, in two processes, where the answer of the identity provider can be lost after
the old token died.  **ESI transport** (`app/services/esi_transport.py`): admission by
rate-limit budgets learned from headers that arrive out of order.  **Host updater**
(`scripts/eqm_update_agent.py`, `app/api/app_update.py`): an API in a container and a helper on the
Docker host share a directory, in which the API may only create a request and the helper only
removes it and publishes a job file; either may die between two file operations.
**Battle collection** (`app/services/battle_report_discovery.py`): a queue with limits counted
before the insert and a lease kept inside JSON.

**Mining settlements** (`app/services/mining_settlements.py`, `app/api/mining_settlements.py`): a
calculation in cents and mineral units with three kinds of rounding, saved in a draft that
unlocked requests replace, finalize and delete.

**Smaller lifecycles**: fleet assignment revisions, HyperNet offers, account ownership transfer, events, recruiting and SRP reviews, the in-memory job list of the
quartermaster sync.  **Out of scope**: planners and gatecheck (sequential calculation and
presentation), static data import (bulk I/O), the Rust engine (pure floating-point calculation,
compared with its Python reference by the repository's tests), the front end and the Android
wrapper (presentation).

`PROJECT.json` lists every component with its status and every hazard with the line where it
bites and the properties that would catch it.

## 2. Plan

The order was the most shared and most concurrent state first: the collector, the listing, the
updater, the credential and the two workers that use it, the remaining leases (membership
monitor, killboard runs and battle collections), the ESI budgets, and one calculation.  All of
these are built.  Each run asks one question, most modules need one run, and a run checks
both the safety and the liveness of its module where the instance is small enough.

The modules were written so that they can be proved about: constants under named assumptions,
one action per transaction or section of code, no RECURSIVE operator.  A property was proved
once TLC agreed with it, beginning with the one whose violation would be noticed last.  What is
left out, and why it adds little of this kind, is in section 14.

## 3. IntelCollection

**State.** `job` is the table, a record per row with the columns the code branches on; ID order
is creation order.  `worker[w]` is the local state of `run_collection` in process `w`: where it
is (`pc`), its token, and what `page_stage` keeps across its network waits (feed, page, the
entries still to be looked at, whether the page was empty or an entry was before the start
date).  `request[r]` holds an API handler between its check and its write.  `posted` is how many
killmails zKillboard has listed so far; `store`, `discovery`, `cache` are `killmails`,
`killmail_discoveries` and `intel_source_cache`.

**Actions.** One database transaction, or one network answer, is one action.

| code | action |
|---|---|
| `worker_loop`, `claim` | `PickJob`, `Claim` (two transactions) |
| `run_collection`, one turn of its loop | `Dispatch`, `RejectStage`, `Abandon` |
| `profile_stage`, `membership_stage` | `FinishProfile`, `FinishMembership` |
| `page_stage` | `OpenPage`, `FetchPage`, `CachePage`, `TakeEntry`, `CommitPage` |
| `metadata_stage` | `ResolveMetadata`, `FinishMetadata` |
| `note_failure`; `CancelledError` handler | `Fail`; `Interrupt` |
| the process dies | `Crash`: the row keeps its token and lease |
| the clock | `LapseLease`, `ElapseBackoff`, `ExpireListing` |
| `collect`, `retry` | `BeginCollect`, `CommitCollect`; `BeginRetry`, `CommitRetry` |
| `cancel` | `Cancel` |
| zKillboard | `PostKill` |

**Abstractions.** Killmails are positions in time, posted in time order; a date is such a
position.  Of time only the two comparisons with `now` are kept (lease, backoff).  A lease token
is any token not in use.  Contents of profiles, census rows, names, error texts, `finished_at`
and `failed_count` are left out: no branch of a job depends on them.  An entry that cannot be read
after its retries is skipped by the code *and counted in `failed_count`*, so the report tells of
it; here the upstream either answers or the stage fails, and coverage is a statement about
runs without skipped entries.  `retry` counts failures in `Nat`: a stale `retry` request that races another may
leave a count above the limit, which the code treats like the limit.

### Runs

| run | question and bounds |
|---|---|
| `intel_fencing` | Two processes, one job, two pages, two killmails on overlapping feeds, three tokens, a request that collects and resumes; leases lapse, processes crash, are interrupted or fail at every step.  Fencing, coverage and refinement of `DurableJob`. |
| `intel_liveness` | One alliance job under `FairSpec`; every outcome of the census; `Settles`. |
| `intel_requests` | Two API requests over two jobs of one subject, one process that works on them and may crash. |

Two processes suffice for every race over one row (a third only repeats the second's role:
whoever does not hold the row's token is a late process); three tokens let a row be claimed
twice more while a late process still remembers its own.  Two pages make the page cap, the
increment and the return to page one happen; a page of one killmail makes "empty", "more" and
"before the start date" distinct.  A failure settles the job at once
(`MaxRetries` 1) in `intel_fencing`, where resuming is then up to the request; the code's value,
3, with the backoff between failures, is in `intel_liveness`.

### Properties

`StepMatchesCheckpoint`: a process that still passes `owned_job` works on the very stage and
page the row holds.  `page_stage` relies on it silently: it writes coverage under the feed it
read before its network waits and increments the page the row has *now*.
`NoLateWrites`: a settled or queued job does not move, and killmails are recorded only under a
running job.  `CountedOnce`, `CoverageIsComplete`, `CompletedIsCovered` and
`OneActivePerSubject` are what the report's reader relies on.  `ImplementsDurableJob` sums up the
job's life: `DurableJob` has a checkpoint (the rank of stage and page) and a status, keeps the
checkpoint whatever fails or is retried, and moves it forward only.  `CoverageIsComplete`
speaks of the first report of a subject (`Only`): a later one may be given the pages its
predecessor cached within the hour (section 12).  In `intel_fencing`, with one job, that is
every report; the theorem of section 13 has any number of jobs, feeds, pages and killmails.

### Fairness

`FairSpec` assumes weak fairness of each process's next step (`worker_loop` never stops
polling, and a run proceeds while its process lives), of `ElapseBackoff` and of `LapseOrphan`:
a lease *nobody works under* lapses, since only `owned_job` renews it.  The lapse of a lease
in use is possible and unfair.  `Settles` is conditional: if from some time on no process
crashes or fails, no retry is saved and no step outlives its lease, then every active job is
settled.  Without the condition it is false, as it should be: a job may crash forever.

## 4. ExchangeListing

**State.** One listing row (`listing`), the bids, withdraw requests that have passed their check
(`withdrawing`), update requests in flight with the row they read and the row they want
(`edit`), and of the transactions their total (`sold`), their number per bid (`deals`) and the
contents they were made on (`shown`).

**Atomicity.** `claim_exchange_listing`, the bid handler and `decide_exchange_bid` lock the
listing (and re-read it) before their first check and commit once: one action each (`Claim`,
`PlaceBid`, `AcceptBid`, `RejectBid`).  `update_exchange_listing` and `withdraw_exchange_bid`
read without a lock: `BeginEdit` and `BeginWithdraw` read and validate; `SaveEdit` and
`SaveWithdraw` are the flush.  SQLAlchemy writes only the columns whose value changed, so `SaveEdit`
merges (`Merged`): a column the edit did not change keeps whatever a claim wrote in between.

**What an edit may change.** One request changes one kind of thing: stock (with the status change
that follows it), package contents, the lot policy, the status, or an auction's ending time.
Requests that change several at once are the composition of these reads and are not
enumerated.  Stock is validated on every request, as in the code.  The ending time appears only
as "has passed".  Not modelled: prices and auction pricing, texts, visibility, appraisals,
notifications, the limit of pending bids per contact.

**Amounts.** A bid is parsed by `float()`, compared with `float(highest) + 0.01` and stored as
`Numeric(24, 2)`.  Amounts are numbers of cents, and the constant `Exact` is the amount from which
the cent is lost: in the sum (a double has no room for it from 2^47 ISK, about 1.4 * 10^14), or on the
way into the column (the database takes 15 digits of a double, so from 10^13 ISK).  From `Exact`
on an equal bid is accepted (`Outbids`).  `float()` also reads "nan", which no comparison
rejects; a NaN in the running leaves the floor at the minimum bid if it is the first row read,
and the order of the rows is not fixed (`NoFloor`).  NaN is the amount 0, which no bid can have.
Below `Exact` a raise by exactly a cent may be refused by the rounding of the sum; the model
accepts it.

### Runs

`exchange_listing`: either kind of listing, up to two units, two bids of up to two units, of 1
(whose cents fit) or of 2 (`Exact`, whose cents do not), restocking so that three units are sold,
one edit in flight that may also end, restock or prolong an auction; withdrawals, expiry, decisions
and the auction's end in any order.  One overlapping edit is enough: an edit overlaps with the
locked handlers, not with itself.  Two bids make a tie, a raise and a bid below one that lapsed;
bids of NaN are left to the proof, which has any number of bids and amounts.

### Properties

`CommitmentsKept`: starting from a listing consistent with what was sold (`StockCovers`,
`StatusFits`, `ContentsKept`), every step keeps it consistent, except saving an edit over a row
that changed since it was read.  It pins the blame: all the locked handlers and all
validated edits are right, and the *only* way to an oversold listing is the missing lock.
`SoldOnce`: a bid makes at most one transaction.  `NoTies`: bids in the running never tie,
though the floor falls again when bids lapse or are withdrawn, unless somebody bid NaN or the
tied amount is beyond `Exact`: the code does accept ties then.

## 5. UpdateAgent

**State.** `request` is `inbox/request`: whether there is a file, the handler that has created it
and not yet written to it, the ID in it, and whether ten seconds have passed since.  `job` is
`status/job.json`, its ID and phase.  `helper` is the local state of `Agent.serve` (its step and
the job it works on), `handler[h]` that of an API request, with the job it read.  `running` holds
the jobs whose update script runs.  `seen`, `placed` and `started` are history: what the tab that
watches an ID was told last, how often an ID got into the inbox, how often its script was started.

**Actions.** One file operation is one action, since the two sides share nothing but files.

| code | action |
|---|---|
| `main`, `lock_runner`; what `serve` does before its loop | `Start`; `Recover` |
| `read_request`; its `ValueError` | `ReadRequest`; `Reject` |
| `serve` comparing IDs, with the first `publish` of `update` | `Begin` |
| `update` | `Check`, `RunScript`, `AfterScript`, `AwaitReady` |
| the script exits | `EndScript` |
| `serve` deleting the request | `Unlink` |
| `snapshot`, reading the job; then the inbox | `Ask`; `AnswerStatus`, `Decide` |
| `queue_update` | `Decide`, `Create` (`open("xb")`), `Write` |
| the helper dies; the API is restarted | `Die`; `ApiDies` |
| the clock | `Age` |

**Lock.** On POSIX hosts the script inherits the helper's lock (`pass_fds`), so a helper that died
is not replaced while its script runs; `LockFree` says so.  On Windows the lock is not inherited;
that variant is not modelled.

**Abstractions.** Revisions, messages and what Git, Docker and the script find are nondeterministic:
each step of `update` takes any outcome the code distinguishes.  The heartbeat only lets
`queue_update` refuse, so `Decide` may refuse at any time.  A handler's arrival and its first read are
one action (nothing can be observed in between).  Files that are not plain files are rejected like
abandoned ones and left out.  A file the handler created but the helper has deleted still
receives its ID (`Write` with another file, or none, in the inbox): the ID is lost.

**Run.** `update_files`: two IDs, two handlers (so two posts, or a post and a poll, overlap), one
helper that may die and start again any number of times.  Each ID is placed at most once
(`MaxPosts`), which is what one press of the button does; the proofs hold for any number.

**Properties.** `ScriptIsReported`: no second script joins a running one, and no result is published
over it.  `OncePerRequest`: a request is run once, though the helper may die between any two
of publishing, running and deleting.  `StatusNeverGoesBack`: what a tab is told never regresses,
although `snapshot` reads two files one after the other while the helper replaces one and deletes
the other: reading the job *first* is what makes it right.  `Reported`: once the helper stops
dying, a request in the inbox gets a result.  `Unblocked`: an empty file left by an API that died
does not block the inbox for good.

**Fairness.** A helper that may take the lock is started (`scripts/setup_eqm_update.py` registers
it with `Restart=on-failure`), its loop runs, scripts end, time passes.  Nothing is assumed
of the API.  Both liveness properties assume that the helper stops dying at some point.  `Reported`
excepts a request whose ID was written after the helper had taken the empty file for abandoned
(`WrittenLate`): a handler that stalls for ten seconds between `open` and `write` answers 202 for a
request nobody will run.

## 6. CredentialRotation and CredentialLoss

**State.** `row` is the newest `esi_tokens` row of one character (its ID, account, credential and
whether it was revoked), `permitted` whether the account's role allows the scopes, `live` the
refresh tokens EVE SSO accepts, `flight[x]` an exchange in flight with what it remembers of the
row, `link` an SSO callback between its read and its commit.  A refresh token is a *grant* (one
consent) and a *turn* (how often it was rotated), so "newer" has a meaning the code never
writes down: it compares *ciphertexts* for equality only, and Fernet encrypts one token
differently each time.  What is stored and compared is therefore a credential: a token and its
*seal*, the number of times the same token was encrypted again.

| code | action |
|---|---|
| `snapshot`; the POST; its failure | `Snapshot`; `Answer`; `GiveUp` |
| `persist` (row lock, NOWAIT) | `Persist`, `Busy` |
| the Journey worker's compare-and-set UPDATE | `Swap` |
| `unlink_character` | `Unlink` |
| `auth_callback` up to its lookup of the row; its commit | `BeginLink`; `SaveLink` |
| role or section access withdrawn | `LoseRole` |
| a process dies | `Die` |

`refresh_access_token` holds an in-process lock, so a member of `Callers` is a process, not a
task; nothing orders two processes, or a sync and a sampler.  EVE SSO may answer without a
refresh token (what is stored stays as it is), with the same one (which is encrypted again), or
with a new one, the old one being dead from then on, whether or not the answer arrives (`Sold`).
A revoked row never comes back, so older rows are not kept.

**Run.** `credential_rotation`: two processes, a sampler, two accounts, two consents, one rotation of
each and one new encryption of each token (two processes that are answered with different
things and save in either order need no more).  `CredentialLoss` adds one bit, `lost`: since the last
consent something happened that may lose a token for good.  That is no answer, a death, a busy row, a
permission that was gone when the answer came, or an exchange that was overtaken (`Overtakes`):
somebody stored the same token under another encryption, and the exchange that started from
the earlier one, perhaps answered with the next token, can no longer be saved.

**Properties.** `CredentialMovesForward`: the row goes to a later turn of its grant, to another
encryption of its token or to a new grant, never back, though two processes answer in any
order.  `OnlyLossesLose`: unless one of those losses happened, the row's token is live or the
answer that replaces it is on its way.  So two refreshers ruin a link only if EVE SSO returns the token
unrotated to one of them and rotates it for the other (section 12); a race of two rotations, with a
pause, a revocation or a new consent in between, ruins none.  `CredentialsOK` adds to the types that
whoever exchanges the row's credential knows its row and account.

## 7. JourneyTracking

**State.** On top of the credential: `tracker` (enabled, due, the sampler that holds its lease,
whether the lease lapsed, and whether it refers to a visit that was seen recently or long
ago), `kept` (that visit is in the table), and `settings` and `erasure`, requests between
their read and their flush.  `consented`, `broken` and `overtaken` are history.

| code | action |
|---|---|
| `claim`; reading the authorization | `Claim`; `Load` |
| `refresh_access` | `Answer` (of `CredentialRotation`), `Lost` |
| the compare-and-set; the recheck after it | `SaveRotation`; `Recheck` |
| storing the sample, `observe` | `ExtendVisit`, `BeginVisit`, `SaveOffline`, `DropSample` |
| the error handler; a dead process | `Fail`; `Crash` |
| `configure` | `BeginConfigure`, `SaveConfigure` |
| `clear_history` | `BeginErase`, `SaveErase` |
| `unlink_character` | `EndConsent` |

`configure` and `clear_history` change an object they read earlier and SQLAlchemy writes the
columns that differ, so `Flushed` merges only those: a lease that was claimed in between is not a
changed column.  Ship segments, systems, intervals and sample counts are left out; a
configuration always may change a revision and a time, which no guard reads.

**Runs.** `journey_consent`: two samplers (the second is the one that takes over a lapsed lease), no
other refresher, one pilot with two consents, two requests in flight (so that an erasure
overlaps with a configuration), and answers without a refresh token, since the two properties are
about samples and not about tokens.  `journey_polling`: one sampler and one sync process that may
die at any step, one consent, a token that may be rotated once and encrypted again once, one
request in flight; liveness and refinement.  The theorems of section 13 have all of this at once.

**Properties.** `StoredUnderConsent`: a sample whose authorization was read before a pause, an
erasure or an unlink is not stored after it, even if the pilot has consented again; except
after an erasure that left the tracker on (section 12).  `GapsAreMarked`: a sighting is
joined to an earlier one only if no pause, erasure, offline sample, failure or long silence
came between; it takes a reference in one table, a row in another and a clock to be right
together.  `ImplementsRotation`: a sampler does nothing to the row or to EVE SSO's tokens that
`CredentialRotation` does not describe, so that module's properties are about the sampler too.
`PolledAgain`: once disturbances cease, an enabled tracker is polled again and again.

**Fairness.** The worker loop polls (`Poll`), the next poll falls due, and a lease nobody works
under lapses.  A terminal error switches the tracker off, which `PolledAgain` allows.

## 8. MembershipMonitor

**State.** `row` is the monitor's row (`poll` is "none", "later" or "now"; `recent` is the one-minute
cooldown; `counted` that a total was recorded today), `day` today's snapshot, `phase` each
process's census, `form[r]` an analyst's request between read and flush, `permitted` the
analysts with Intel access.

`claim` and `persist` are transactions under the row's lock: `Claim`, `Persist`, `Discard`.
`request_refresh` reads without a lock and flushes what it changed: `Begin` and `Save`.
`Collect` is the membership stage of `IntelCollection`, which writes the same day.

**Run.** `membership_monitor`: two processes, two analysts, one request in flight at a time; days
pass, leases lapse, processes die, access is withdrawn.

**Properties.** `PausesFence`: a census overtaken by a pause is not stored, unless the pause was
decided before the lease was taken (`leaky`: the cleared lease is then not a changed column).
`StaysScheduled`: an enabled monitor has a next count; only a request saved over a row that
changed since it was read can leave it without one.  `CountsAgain`: once analysts and failures
leave it alone, an enabled monitor that has a time to count counts again and again, given
processes that keep working, time that passes and leases that lapse when nobody works under
them.  `TypeOK` includes that a complete count of a day is never replaced by a
partial one.

## 9. KillboardRuns

**State.** `run` is a row of `killboard_sync_runs`; `task` the tasks of the API's event loop that run
the ordinary executor, `registered` the registry's entry; `collector[c]` an execution of the
battle executor in process `c`; `cancelling` and `resuming` requests between read and commit;
`length` what zKillboard lists.  `seen` and `ended` record the pages that were gone through and
where a feed was taken to be over.

**Atomicity.** The ordinary executor runs in the event loop: from one await to the next is one
action, except where a cancel request, which runs in a thread, can come between a read and
its commit (`Begin`/`SaveStart`, `Look`/`SaveComplete`, `FetchFails`/`SaveFail`).  `Busy` keeps
the loop's own sections whole.  The battle executor may run in several processes, so each of
its sections is a read (`Section`) and a `Save` of the columns that changed (`Changed`, written
`Over` the row by `Wrote`).  A cancel request of either kind of run is two actions as well
(`BeginCancel`, `SaveCancel`): it checks the status it read and overwrites what was committed since.
The shipped image runs one uvicorn process (`backend/Dockerfile`), so two collectors exist
only when the backend is scaled; a restart of the process with the tasks therefore need not end a
cancel request, which may be another's.

**How a section ends.** An entry may be imported, known, failed or not worth reading, or be the one
at which a collection has imported as many as it may and ends `partial` (`Entry`).  An ordinary run
fails by a page that cannot be fetched or by an error while the entries of one are stored
(`FetchFails`); an error of one killmail only counts (`ItemFails`).

**Run.** `killboard_runs`: an account's run with two tasks, and a battle collection with two
processes, over feeds of no, one or three pages, with a limit of two (so that a feed may be empty,
end before the limit, or go on behind it).  `Strays` is empty there: an ordinary task that `start_sync`
puts to a battle collection (section 12), together with two processes, is too large for TLC in
its time, and is covered by the theorems of section 13, which have any number of all of them.

**Properties.** `Covered`: a run that says it is complete went through every page up to where the
feed was over; a complete battle collection through all zKillboard lists.  `OneTask`: a run
has one task, unless a done-callback took a younger task out of the registry (`popped`).
`FinishedStays`: a finished run stays finished unless a section or a request that had read it
before is saved over it, or an ordinary task was put to a battle collection.  These exceptions are
what the code can really do (section 12); nothing else can: an executor that is still
under way, under a lease that still matches, leaves a run alone that others finished.

## 10. EsiTransport

**State.** One API process and one character.  `request[r]` is a caller of `request()` (queued for a
slot, asleep, sent, answered, done; its attempt, its timer and the bucket it holds), `bucket`
the `Bucket` objects named by the route they were made for, `groups` and `ofGroup` what is known
of ESI's group, `stopped` the global error stop, `ledger` what ESI has served in its rolling
window.  Time passes by ticks, in which deadlines count down.

`reserve` and `observe` hold the lock without an await, so each is one action: `Admit`, `Observe`.
Any answer may also report that five errors or fewer are left, which stops all requests as a 420
does.  `Serve` is ESI; `Break` a failed or cancelled send; `Wake` a sleeper whose time has come.

**Run.** `esi_admission`: two reads and a write over two routes of one group, two slots, a limit of
four tokens (two requests), windows of two ticks.

**Properties.** `Conservative`: a bucket never believes in more than the limit less the live
consumption it was told of, in whatever order answers come.  `InflightExact`: a reservation
goes back to the bucket it was taken from, once.  `EveryRequestReturns`: with fair time, answers
and wake-ups, no request waits forever.

**Left out.** The response cache, requests of other characters, redirects and FIFO order of
the semaphore (`Admit` has strong fairness instead).

## 11. MiningSettlement

**Calculation.** Operators `Rate`, `AutoWeight`, `Allocate`, `FixedPay`, `Payouts`, `Ratios`,
`Distributed` follow `calculate_settlement` and `_python_settlement_math`, in integers: money in
cents, rates in parts of `Whole`, weights in parts of `Unit`, quantities in parts of `Grain`.  A mineral's value
is rounded to a cent (`Gross`; a quantity times a price is in parts of `Cent`).  `distributable /
gross` is a Decimal of 28 digits that is rounded *before* it is multiplied by the quantity and rounded
down, so a settlement can hand out one unit less than the exact share (300 units, 10 of 30 ISK: 99, not
100).  The quotient and its product with the quantity are therefore `Carried` with as many digits
as `Precision` says, rounded half even as Decimals are.  The quantity is shared out as it was
entered, fraction and all, and stored as `int(quantity)` (`Units`).  `Accepted` is what is not refused.
`PayloadsOK` says what the input checks (`decimal_value`, the refusals of negative numbers) leave of a
payload: quantities with a fraction are among it; and that only a miner of the ledger has a share of its
own accord.  `PrecisionOK` says that a Decimal has digits to spare for a quantity times the gross
value: with 28 digits, any settlement whose product of quantity (in its last decimal place) and
cents stays below 1.8e27.  Nothing in the code enforces it; beyond it the product itself is
rounded.

**Draft.** `settlement` is the row with the children of each save; `section[e]` a request and the row
it read (`Begin`).  An update writes the columns that differ from what it read (`Overlaid`).
`replace_snapshot` deletes the children it *read* and adds its own, so two updates of disjoint
minerals and ledger entries leave both (`Kept`); if they share one, a unique key refuses the
second (`Collides`).

**Run.** `mining_settlement`: the nearly four thousand accepted of all payloads with two modes, four
outputs (two with a fraction of a unit, prices of half cents), four charges, five terms per miner
and four extras; two requests, three saves, ratios of five digits.  An update has two payloads to
choose from, one of which shares nothing with the others, so that children of two saves can stand
side by side.

**Properties.** `Reconciles`: gross is reserve, deductions, payouts and remainder to the cent, the
remainder being 0 or one cent overpaid.  `FairShares`: a larger share never gets less, an equal
one the same but for one unit.  `MineralsConserved`: every stored unit is handed out or retained,
never more than there are; and of the quantity *as entered*, what is not handed out covers the
reserve and the deductions.  In stored units the latter is false (section 12): the fraction that is not
stored counts.  That a finalized settlement does not change is no property: without overlapping
requests it is the guard of `Begin`, and with them it is false.

**Left out.** The rounding of a share to 28 digits before it is rounded down (`Allocate` divides
exactly), the extra places a Decimal keeps of a ratio below a tenth, payout ratios, the value of
minerals handed out, warnings, the Rust engine (compared with the Python one by the repository's
tests) and the search for a finalized settlement of the same scope.

## 12. Where the code departs from what it says

Met while modelling; the properties are stated so that they hold of the code and name the
exception.

- `retry` promises that only interrupted collections resume (`app/api/intel.py:141`); it checks a row
  it read without a lock, and by the time it saves, another retry and a worker may have
  finished the job, which goes back to the queue (`DurableJob!Reopen` allows it).
- The documentation says a collection covers the time up to now (`docs/intel-reports.md:20`); a page
  cached up to an hour earlier by another job of the subject is taken instead
  (`app/services/intel_collection.py:128`).
- "committed unit(s) cannot be removed from total stock"
  (`app/services/exchange_listing_updates.py:124`), but an edit that read before a sale saves sold
  units as available (the exception of `CommitmentsKept`).
- "This bid can no longer be withdrawn" (`app/api/corporate_exchange_bids.py:386`), but a withdrawal
  that read before the seller accepted marks the sold bid withdrawn.
- `clear_history` answers `tracking_paused` (`app/services/journey.py:83`), but it changes an object it
  read before the lock: if the tracker was paused then and enabled since, it stays on
  (`overtaken`).  The erasure's row lock does not re-read the columns.
- "Disabling invalidates an in-flight lease" (`docs/intel-reports.md`): only if the request saw
  the lease (`leaky`).  A monitor may also be left enabled without a next count (the
  exception of `StaysScheduled`).
- "Ordinary Killboard sync does not manage these jobs" (`docs/battle-discovery.md:13`), but
  `start_sync` looks for any active run of the account and starts the ordinary executor on it, which
  fails the collection.  (`ensure_sync` goes by `latest_run`, which leaves the battle feed out.)
- The ordinary registry's callback removes whatever task is registered, not its own as the battle
  collection's does (`popped`); a cancel request and a starting task overwrite each other's status.
- A cancel request checks a battle collection's status before it commits
  (`app/api/battle_reports.py:155`): a collector of another process that completes it in between is
  overwritten by "cancelled" (`StaleSave`).
- "Preserve it without ... overwriting a newer credential" (`app/services/journey_worker.py:180`): a
  sampler drops the rotated token it was answered with when a sync, answered with the unrotated
  one, has stored that encrypted again meanwhile (`app/services/esi_refresh.py:117`), since line 189
  compares ciphertexts.  The link is lost though nobody touched it (`Overtakes`).  The sync refresher
  loses a token the same way.
- The next bid must be higher by 0.01, but beyond `Exact` an equal bid is accepted, and a bid of NaN
  passes every comparison (section 4).
- The Journey sampler treats a 400 from the token endpoint as the end of the authorization; when a
  sync has just rotated the token, its own exchange gets exactly that and switches the tracker off.
- "Finalized mining settlements are immutable" (`app/api/mining_settlements.py:356`), except to requests
  that had read the draft: an update flushed after another request finalized replaces columns and
  children.  Fixed percentages can pay one cent more than there is.
- "Reserved and expense value is retained proportionally from each refined mineral"
  (`app/services/mining_settlements.py:477`): of 1.9 units at two cents with one cent in reserve,
  one unit is handed out, `int(1.9)` is stored (line 221), and none is retained.

## 13. Proofs

All theorems hold for every value of the constants under the named assumptions, which TLC
evaluates in every run of the module: `ConstantsOK` (IntelCollection), `BoundsOK`
(ExchangeListing, KillboardRuns, EsiTransport), `IdsOK` and `HandlersOK` (UpdateAgent),
`PartiesOK` (CredentialRotation), `OwnerOK` (JourneyTracking), `NobodyOK` (MembershipMonitor),
`RoutesOK` (EsiTransport, where the requests are also assumed to be finitely many),
`SettlementConstants`, `PayloadsOK` and `PrecisionOK` (MiningSettlement, section 11).  In each module an invariant is made inductive by saying
what a process, a form or a request *in flight* still remembers of the shared row.

**IntelAndMiningProofs, IntelCollection.** `IInv` is `TypeOK`, `Ownership` and `StepMatchesCheckpoint`.
`TypeOK` alone is not inductive: `CommitPage` increments the row's page, and stays in `1..MaxPages`
only because the page the process read is the row's page.  That is `StepMatchesCheckpoint`, which
is kept by the steps of *other* processes only if no two runs hold one token: `Ownership`.
Three lemmas carry the induction: `OwnerStep` (the owner rewrites its row), `RowStep` (clock and
API steps, which leave the token alone or clear it) and `ProcessStep` (a process changes only its
own state).  Theorems: `IInvAlways`, `TypeCorrect`, `CheckpointFenced`
(`StepMatchesCheckpoint`), `CursorMonotone` (`CursorNeverRegresses`), and
`CollectsDurably`: every step of the collector is a step of `DurableJob` on one job or a stutter
(`OneRow`, `DurableStep`), where the checkpoint is the rank of stage and page (`RankOrder`,
`RankTop`).  For the last three theorems `EveryChange` shows that a step changes a row in one of
three ways only: its owner works on it (`Worked`), something touches its status but not
its progress (`Touched`), or it is new (`Inserted`).  From that, `Reported` (what a row says was
read) and `Alone` (the unique index over active rows) are inductive and give
`CompletedMeansRead` and `OneActive`; `LateRunsWriteNothing` follows step by step, since only
`Worked` moves progress and its owner's job is running.

`CountsAddUp` (`CountedOnce`) is inductive with `Ledgered`: a discovery is of a stored killmail, and
a row not yet inserted has counted nothing.  The work is in the sums: one step moves one row's
counters by what it adds to the store (`ImportStep`), and a sum over a table moves by what one of
its rows does (`TotalMoves`).

`CoverageHolds` (`CoverageIsComplete`) needs `PagesSound`, which is about killmails that are *not*
recorded yet.  zKillboard shows the newest first, so a page number means something else after each
new post; but a post only pushes what is already listed deeper.  `RowsSound`: what the report of
its subject still misses lies deeper in the feed than the pages it has read, or before the
requested date, and a cached page shows what lay above its depth.  `RunsSound` says the same of
the page in the hands of the process that owns the row, its entries taken one by one.
`CacheOwned` (a cached page belongs to a subject some job reported on) gives a subject's first
report an empty cache.  `PagesSound` was model-checked with one job and two processes, and with
two jobs and one process, before it was proved.

**IntelAndMiningProofs, MiningSettlement.** Half of the argument is arithmetic, for any payload.
`AllocateAddsUp`: rounding down leaves fewer cents than there are shares with a fraction
(`LeftOver`), the order in which they are handed out is strict (`AheadOrdered`), and in a strict
order exactly *n* members are among the first *n* (`RankCounts`, again by minimal counterexample), so
the shares add up to the total.  `AllocateFair`: a larger weight has a larger whole part, or
the same and a larger fraction, or is ahead by its index (`Ranked`).  `Remainder` adds reserve,
deductions, fixed pay and shares up to the gross value; that the rest is 0 or -1, never 1, comes from
`Accepted` and from a share pool that is handed out whole.  `NoUnitMade` is the error bound: two roundings to
a Decimal's digits (each off by half of the last place, `Nearest`) together add less than one part of
a unit, so `DistributedIs` has gross x distributed <= distributable x quantity; this is where
`PrecisionOK` is needed.  `UnitsIs` takes it down to whole units, no more than are stored.

The other half is the stored row, `SettlementInv`.  `Stored`: each child is the snapshot of
an accepted payload, the latest save is among the children, and *if it is the only one* the
columns are its own.  An update over a row it had not read writes only the columns that
differ from what it read, so this is kept by `Drafted`, about the requests in flight: what they hold
was stored, no later than what is stored now, and has the row's columns if nothing was saved since.
If an update removes all other children it had read the latest save, hence the columns
(`UpdateKeeps`).  Theorems: `SettlementReconciles` (`Reconciles`), `SharesFair` (`FairShares`),
and `UnitsConserved` (`MineralsConserved`).

**ExchangeListingProofs.** `IInv` is `TypeOK`, `EditsSound` (an edit in flight offers no unit
that was committed *in the row it read*, keeps the contents of a committed listing, and keeps
its status in step), `NothingShown` (nothing sold, nothing shown) and `UndecidedUnsold` (a bid
that may still be decided has no transaction).  `EditTyped` shows that what
`apply_listing_edits` admits is sound; `MergedTyped` that any merge of rows is a row.
Theorems: `StockTyped`, `BidSoldOnce` (from `UndecidedUnsold`), `HighestBidUnique` (`NoTies` is
inductive on its own given types: bids keep their amounts), `CommitmentsHold` (`CommitmentsKept`: a fresh edit merges into
exactly the row it wanted, which is sound; if it changes the contents nothing was sold).

**UpdateAgentProofs.** `IInv` adds three things to `TypeOK`, `ScriptIsReported` and
`OncePerRequest`.  `InboxKept`: the request the helper works on stays in the inbox, and a file with
a writer is empty.  `ScriptAlone`: a script runs only where a helper waits for it or has died, and
its job is published before it starts; with the lock it yields `RunningIsReported`.  `Unspent`:
a request that may still be run has been started less often than placed, which is what `RunsOnce`
needs across a death of the helper.  `PhasesNeverGoBack` (`StatusNeverGoesBack`) needs `Honest`:
what a tab was told is no more than the job file says *or said* (`Told`), what a poll has read
lies between the two, and a poll that read the file before the job of a request still in
the inbox had begun belongs to a tab that was told at most "queued" (`Answering`).  That is the
argument for reading the job first and the inbox second.

**CredentialRotationProofs.** `RInv` is `RowOK`, `LinkOK` and `FlightsOK`: an exchange in flight
holds nothing newer than the row, and if it holds the row's credential it knows the row's ID
and account (`Behind`); an answer is the same turn or the next, and the successor of the row's
credential is still live (`Sound`); the grant of an open callback is newer and unused
(`Linking`).  Theorems: `CredentialsAreTheirs`, `NeverBack`, and, with the bit `lost`,
`OverlapsAreHarmless` (`OnlyLossesLose`): whoever else could have used the row's token
answered with its successor and is about to save it.  Its invariant is `Fresh`: as long as nothing was
lost, whoever exchanges the row's token started from the very encryption the row holds
(`FreshStep`); `RotationStep` and `LossesKeep` then go through the other steps.

**JourneyTrackingProofs.** `IInv` is `RInv`, taken over from CredentialRotationProofs under the
refinement mapping (`R == INSTANCE ... WITH flight <- Exchanging, lost <- broken`), with
`Polls`, `Trackings`, `Histories`, `Pending` (what an open configuration will write fits the
tracker it will find), `Consenting` (whoever could still store a sample was consented to) and
`Interruptions` (a tracker that is on remembers no sighting from before an interruption).
Theorems: `TypeCorrect`, `ConsentHolds`, `GapsMarked`, `SamplersRotate` (each step is a step of
`CredentialRotation` or a stutter).

**MembershipMonitorProofs.** `IInv` is `RowOK`, `DayOK`, `PhasesOK`, `FormsOK` and `Fenced`.  Of a form
between read and flush: it writes no lease but an empty one (`Formed`), over the row it read it
leaves or sets a time to count or switches off (`Careful`), and a pause takes the lease it saw
(`Fencing`).  Theorems: `TypeCorrect`, `CensusFenced`, `KeepsCounting`.

**KillboardRunsProofs.** `IInv` is `RunOK`, `RequestsOK`, `TasksOK`, `WalkOK`, `SweepOK` and
`CollectorsOK`.  The only task of an ordinary run has the run's cursor (`Fits`), and behind the
cursor every page was gone through (`WalkOK`).  A battle collector that holds the lease has the
cursor, and what it is about to save, written over the row as it is *then*, is still behind it
(`Sweeps`, `Behind`).  Theorems: `TypeCorrect`, `CompleteIsCovered` (`Covered`), `OneTaskPerRun`,
`FinishedForGood` (`FinishedStays`).

**EsiTransportProofs.** `ReservationsExact` (`InflightExact`): a bucket counts its holders, by
`HolderAdded` and `HolderRemoved` on the cardinality of a finite set; `GroupsOK` says that a known
group has a bucket, so that a holder's bucket never disappears.

`BudgetsConservative` (`Conservative`) and `TransportTypes` (`TypeOK`) share the invariant `LInv`
about ESI's ledger.  The live consumption is the cardinality of the set of its tokens
(`Tokens`), so that lemmas on sets say what an entry that lapses, arrives or is reported does to it
(`TokensShifted`, `TokensAdded`, `TokensSame`).  `AnswersOK`: an answer on its way leaves room for what it covers,
*as the ledger is now*.  `ToldFirst`: reports cover the ledger from its front, so of two answers
that overtake each other the larger one contains the other.  `OneKnown`: one bucket hears the
reports of a group.  `ToldLapses`: what was told is no longer live when the bucket's window
ends, which is why a bucket may forget then.  `Budget` is the property itself, strengthened by
these; `RangesOK` bounds the columns, among them the subtraction that `observe` never takes
below zero.

**Sums.** Induction over data is not available to these provers, because the library's theorems
take an operator as a parameter.  Facts about sums over finite sets are proved by minimal
counterexample instead: the strict subsets of a finite set are well-founded
(`FS_StrictSubsetOrderingWellFounded`, `WFMin`), so a set of sums that go wrong has a smallest
member, and taking one element away from it contradicts that (`SmallestSet`, `SumStep`).

**Only model-checked.** Liveness (`Settles`, `Reported`, `Unblocked`, `PolledAgain`, `CountsAgain`,
`EveryRequestReturns`) is outside the prover's reach, as is ENABLED.  Every other property of the
runs is also a theorem.  No module declares a RECURSIVE operator.

## 14. Not modelled

The modules cover the code that several actors run at once; measured in lines that is a small
part of the repository, and the rest is left out for these reasons.

- **Single requests over their own records.** HyperNet locks the offer before every check
  (`owned_offer(..., lock=True)`), fleet assignments compare and set the revision the client was
  shown before any change (`claim_revision`), and events, recruiting, SRP reviews, dossiers and
  notes are read and written by one request.  A model of them would restate their guards.
- **Account ownership transfer** is one transaction; what it does to a credential is linking and
  unlinking in `CredentialRotation`.
- **Quartermaster sync** keeps its jobs in the memory of one process, around third-party imports;
  a restart forgets them.
- **Appraisals** price the stock read before the market is asked
  (`app/api/corporate_exchange.py:461`); prices are not modelled, so neither is this.  The counts
  taken before an insert (`app/api/intel.py:110`) bound nothing else.
- **Sequential calculation**: the fitting simulator, planners, jump freighter and industry
  calculations, gatecheck, local and d-scan analysis compute with real numbers or parse text in one
  thread.  The Rust engine does the same and is compared with its Python reference by the
  repository's tests.
- **Bulk I/O and presentation**: static data import, ESI read endpoints, analytics, the front end and
  the Android wrapper.
