----------------------------- MODULE EsiTransport -----------------------------
(* Admission of requests to EVE's ESI API (EsiTransport): one API process, one *)
(* character, requests of several routes that ESI has in one rate-limit group. *)
(*                                                                             *)
(* ESI meters a route group by a rolling window of tokens and reports, with    *)
(* each answer, the group and what remained when it served the request.  The   *)
(* transport keeps a bucket per route until it learns the group, and then one  *)
(* per group; reserve admits a request by what the bucket says remains and by  *)
(* what is still in flight.                                                    *)
(*                                                                             *)
(* Time is the passing of ticks; every deadline is kept as the ticks it is     *)
(* away.  The lock's sections hold no await, so each is one action.  Bodies,   *)
(* the response cache and the identities of other characters are left out.     *)
EXTENDS Integers, Sequences, FiniteSets

CONSTANTS
    Reads, Writes,  \* requests: GET or HEAD, and the others
    Routes,         \* route templates
    RouteOf,        \* the route of a request
    None,           \* no bucket
    Slots,          \* esi_max_connections
    Limit,          \* external: tokens of a window
    Reserve,        \* what reserve keeps back: the cushion's share of Limit
    Window,         \* external: ticks of a window
    Delay           \* external: ticks of Retry-After, and of a retry's pause

Requests == Reads \cup Writes

ASSUME RoutesOK == RouteOf \in [Requests -> Routes] /\ None \notin Routes
ASSUME BoundsOK == /\ Slots \in Nat \ {0} /\ Limit \in Nat \ {0} /\ Reserve \in Nat
                   /\ Reserve + 2 <= Limit /\ Window \in Nat \ {0} /\ Delay \in Nat \ {0}
                   /\ IsFiniteSet(Requests)

VARIABLES
    request,        \* callers of request(): where they are
    bucket,         \* Bucket objects, named by the route they were made for
    groups,         \* groups: the routes whose group is known
    ofGroup,        \* buckets[(group, who)]: the object that became the group's
    stopped,        \* error_until
    ledger          \* external: what ESI has served in the window, oldest first

vars == <<request, bucket, groups, ofGroup, stopped, ledger>>

Away == 0..Window + Delay
Later(a, b) == IF a > b THEN a ELSE b
Less(n, k) == IF n > k THEN n - k ELSE 0

Fresh == [pc |-> "queued", attempt |-> 1, timer |-> 0, held |-> None, answer |-> None]
Unknown == [remaining |-> 0, known |-> FALSE, reset |-> 0, blocked |-> 0, inflight |-> 0]

Sent(r) == request[r].pc \in {"sent", "answered"}
InSlot == {r \in Requests : Sent(r)}

\* The bucket a request of a route is counted in.
Counted(r) == IF RouteOf[r] \in groups THEN ofGroup ELSE RouteOf[r]

-----------------------------------------------------------------------------
(* reserve: a slot is free, and the bucket is asked *)

\* A window after the last report the whole limit is there again.
Renewed(b) == IF bucket[b].known /\ bucket[b].reset = 0
              THEN [bucket[b] EXCEPT !.remaining = Limit, !.reset = Window] ELSE bucket[b]

Wait(b) ==
    Later(Later(stopped, b.blocked),
          IF b.known /\ b.remaining - 2 * b.inflight - 2 < Reserve THEN b.reset ELSE 0)

Admit(r) ==
    /\ request[r].pc = "queued" /\ Cardinality(InSlot) < Slots
    /\ LET b == Counted(r)  renewed == Renewed(b)  wait == Wait(renewed) IN
          IF wait = 0
          THEN /\ bucket' = [bucket EXCEPT ![b] = [renewed EXCEPT !.inflight = @ + 1]]
               /\ request' = [request EXCEPT ![r].pc = "sent", ![r].held = b]
          ELSE /\ bucket' = [bucket EXCEPT ![b] = renewed]
               /\ request' = [request EXCEPT ![r].pc = "asleep", ![r].timer = wait]
    /\ UNCHANGED <<groups, ofGroup, stopped, ledger>>

\* A sleeper, over its bucket's wait or between two attempts, asks again.
Wake(r) ==
    /\ request[r].pc = "asleep" /\ request[r].timer = 0
    /\ request' = [request EXCEPT ![r].pc = "queued"]
    /\ UNCHANGED <<bucket, groups, ofGroup, stopped, ledger>>

-----------------------------------------------------------------------------
(* external: ESI *)

\* The tokens of a set of served requests, one by one.
Tokens(entries) == UNION {{i} \X (1..ledger[i].cost) : i \in entries}

Spent == Cardinality(Tokens(DOMAIN ledger))

Answer(r, status, cost, reports) ==
    /\ ledger' = IF cost = 0 THEN ledger ELSE Append(ledger, [age |-> 0, cost |-> cost, told |-> FALSE])
    /\ request' = [request EXCEPT
          ![r].pc = "answered",
          ![r].answer = [status |-> status, reports |-> reports, upto |-> Len(ledger'),
                         remaining |-> IF reports THEN Less(Limit, Spent + cost) ELSE 0]]
    /\ UNCHANGED <<bucket, groups, ofGroup, stopped>>

\* A request that fits is served, for two tokens or as a client's error for five, or fails on
\* the way; another is refused.  What never came to be served has no rate-limit headers.
Serve(r) ==
    /\ request[r].pc = "sent"
    /\ IF Spent < Limit
       THEN \/ \E cost \in {2, 5} : Answer(r, "final", cost, TRUE)
            \/ \E status \in {"failed", "errors"} : Answer(r, status, 0, FALSE)
       ELSE Answer(r, "refused", 0, TRUE)

-----------------------------------------------------------------------------
(* The answer *)

\* The statuses in question are retried for reads, twice.
Again(r) == r \in Reads /\ request[r].attempt < 3

\* Mutant: the report of an older answer replaces that of a younger one.
Reported_Latest(b, answer) ==
    IF ~answer.reports THEN b
    ELSE [b EXCEPT !.remaining = answer.remaining, !.known = TRUE, !.reset = Window]

\* A report never raises the budget of a live window.
Reported(b, answer) ==
    IF ~answer.reports THEN b
    ELSE [b EXCEPT !.remaining = IF ~b.known \/ b.reset = 0 \/ answer.remaining < @ THEN answer.remaining ELSE @,
                   !.known = TRUE, !.reset = Window]

\* Mutant: the reservation is returned to the bucket the group has by now.
Released_Group(b, held, main) == IF b = main THEN [bucket[b] EXCEPT !.inflight = @ - 1] ELSE bucket[b]

Released(b, held, main) == IF b = held THEN [bucket[b] EXCEPT !.inflight = @ - 1] ELSE bucket[b]

\* observe, and what request makes of the status.  The answer names the group whenever it
\* has the headers; the first bucket to hear of it becomes the group's.
Observe(r) ==
    /\ request[r].pc = "answered"
    /\ LET answer == request[r].answer
           held == request[r].held
           main == IF ~answer.reports THEN held ELSE IF ofGroup = None THEN held ELSE ofGroup
           told(b) == Reported(Released(b, held, main), answer)
       IN /\ groups' = IF answer.reports THEN groups \cup {RouteOf[r]} ELSE groups
          /\ ofGroup' = IF answer.reports THEN main ELSE ofGroup
          /\ bucket' = [b \in Routes |->
                IF b # main THEN Released(b, held, main)
                ELSE IF answer.status = "refused"
                     THEN [told(b) EXCEPT !.blocked = Later(@, Delay)] ELSE told(b)]
          /\ \/ stopped' = Later(stopped, Delay)     \* 420, or five errors left or fewer
             \/ answer.status # "errors" /\ stopped' = stopped
          /\ ledger' = [i \in DOMAIN ledger |->
                IF answer.reports /\ i <= answer.upto THEN [ledger[i] EXCEPT !.told = TRUE] ELSE ledger[i]]
          /\ request' = [request EXCEPT ![r] =
                IF answer.status = "final" \/ ~Again(r) THEN [Fresh EXCEPT !.pc = "done", !.attempt = request[r].attempt]
                ELSE [Fresh EXCEPT !.pc = IF answer.status = "failed" THEN "asleep" ELSE "queued",
                                   !.timer = IF answer.status = "failed" THEN Delay ELSE 0,
                                   !.attempt = request[r].attempt + 1]]

\* Mutant: a broken request keeps its reservation.
Returned_Kept(b) == bucket[b]

Returned(b) == [bucket[b] EXCEPT !.inflight = @ - 1]

\* The connection breaks or the caller is cancelled, before or after ESI counted the request.
Break(r) ==
    /\ Sent(r)
    /\ bucket' = [bucket EXCEPT ![request[r].held] = Returned(request[r].held)]
    /\ request' = [request EXCEPT ![r] = [Fresh EXCEPT !.pc = "done", !.attempt = request[r].attempt]]
    /\ UNCHANGED <<groups, ofGroup, stopped, ledger>>

-----------------------------------------------------------------------------

\* An answer in hand covers what is left of the consumption it covered.
Shifted(answer, gone) == [answer EXCEPT !.upto = Less(@, gone)]

\* A sleeper whose time has come is up before the next tick.  What is a window old is gone from
\* the front of the ledger.
Tick ==
    /\ \A r \in Requests : ~(request[r].pc = "asleep" /\ request[r].timer = 0)
    /\ \E r \in Requests : request[r].pc # "done"
    /\ \E gone \in 0..Len(ledger) :
          /\ \A i \in DOMAIN ledger : i <= gone <=> ledger[i].age + 1 >= Window
          /\ ledger' = [i \in 1..Len(ledger) - gone |-> [ledger[i + gone] EXCEPT !.age = @ + 1]]
          /\ request' = [r \in Requests |->
                IF request[r].pc = "answered" THEN [request[r] EXCEPT !.answer = Shifted(@, gone)]
                ELSE [request[r] EXCEPT !.timer = Less(@, 1)]]
    /\ bucket' = [b \in Routes |-> [bucket[b] EXCEPT !.reset = Less(@, 1), !.blocked = Less(@, 1)]]
    /\ stopped' = Less(stopped, 1)
    /\ UNCHANGED <<groups, ofGroup>>

Init ==
    /\ request = [r \in Requests |-> Fresh]
    /\ bucket = [b \in Routes |-> Unknown]
    /\ groups = {} /\ ofGroup = None
    /\ stopped = 0
    /\ ledger = <<>>

RequestNext(r) == Admit(r) \/ Wake(r) \/ Serve(r) \/ Observe(r)

Next == Tick \/ \E r \in Requests : RequestNext(r) \/ Break(r)

Spec == Init /\ [][Next]_vars

\* Time passes, ESI answers, and the event loop runs whoever may run.
Fairness ==
    /\ WF_vars(Tick)
    /\ \A r \in Requests : SF_vars(Admit(r)) /\ WF_vars(Wake(r)) /\ WF_vars(Serve(r)) /\ WF_vars(Observe(r))

FairSpec == Spec /\ Fairness

-----------------------------------------------------------------------------

Holders(b) == {r \in Requests : Sent(r) /\ request[r].held = b}

TypeOK ==
    /\ \A r \in Requests : /\ request[r].pc \in {"queued", "asleep", "sent", "answered", "done"}
                           /\ request[r].attempt \in 1..3 /\ request[r].timer \in Away
                           /\ request[r].held \in Routes \cup {None}
    /\ bucket \in [Routes -> [remaining : 0..Limit, known : BOOLEAN, reset : 0..Window,
                              blocked : 0..Delay, inflight : 0..Cardinality(Requests)]]
    /\ groups \subseteq Routes /\ ofGroup \in Routes \cup {None}
    /\ stopped \in 0..Delay

\* What a bucket counts in flight is what its holders will return: nothing is returned twice,
\* to another bucket or not at all, though the bucket of a route changes under its requests.
InflightExact == \A b \in Routes : bucket[b].inflight = Cardinality(Holders(b))

Told == Cardinality(Tokens({i \in DOMAIN ledger : ledger[i].told}))

\* A bucket never believes in more than the limit less the live consumption it was told of,
\* in whatever order the answers came and whenever its window was renewed.
Conservative ==
    \A b \in Routes : bucket[b].known =>
       IF bucket[b].reset = 0 THEN Told = 0 ELSE bucket[b].remaining <= Less(Limit, Told)

\* Every request comes back, whatever is refused, lost or waited for.
EveryRequestReturns == \A r \in Requests : <>(request[r].pc = "done")
=============================================================================
