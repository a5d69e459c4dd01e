-------------------------- MODULE EsiTransportProofs --------------------------
(* Proofs about EsiTransport: any number of requests and routes, any limit and *)
(* any window.                                                                 *)
EXTENDS EsiTransport, FiniteSetTheorems, TLAPS

Columns == {"remaining", "known", "reset", "blocked", "inflight"}
Fields == {"pc", "attempt", "timer", "held", "answer"}

\* Rows have their columns; what they hold is looked at where it matters.
BucketsOK ==
    /\ bucket = [b \in Routes |-> bucket[b]]
    /\ \A b \in Routes : DOMAIN bucket[b] = Columns /\ bucket[b].inflight \in Nat
RequestsOK ==
    /\ request = [r \in Requests |-> request[r]]
    /\ \A r \in Requests : DOMAIN request[r] = Fields /\ (Sent(r) => request[r].held \in Routes)

\* A group that is known to some route has a bucket.
GroupsOK ==
    /\ ofGroup \in Routes \cup {None}
    /\ groups # {} => ofGroup \in Routes

IInv == BucketsOK /\ RequestsOK /\ GroupsOK /\ InflightExact

USE RoutesOK, BoundsOK

-----------------------------------------------------------------------------
(* Rows and holders *)

LEMMA ReleasedFields ==
    ASSUME BucketsOK, NEW b \in Routes, NEW held, NEW main, NEW w, w = Released(b, held, main)
    PROVE  /\ DOMAIN w = Columns
           /\ w.inflight = IF b = held THEN bucket[b].inflight - 1 ELSE bucket[b].inflight
<1>1. "inflight" \in Columns
  BY DEF Columns
<1> QED BY <1>1 DEF Released, BucketsOK

LEMMA ReportedFields ==
    ASSUME NEW x, DOMAIN x = Columns, NEW answer, NEW w, w = Reported(x, answer)
    PROVE  DOMAIN w = Columns /\ w.inflight = x.inflight
<1>1. CASE ~answer.reports
  BY <1>1 DEF Reported
<1>2. CASE answer.reports
  <2>1. PICK left : left = IF ~x.known \/ x.reset = 0 \/ answer.remaining < x.remaining THEN answer.remaining ELSE x.remaining
    OBVIOUS
  <2>2. w = [x EXCEPT !.remaining = left, !.known = TRUE, !.reset = Window]
    BY <1>2, <2>1 DEF Reported
  <2> QED BY <2>2 DEF Columns
<1> QED BY <1>1, <1>2

LEMMA RenewedFields ==
    ASSUME BucketsOK, NEW b \in Routes, NEW w, w = Renewed(b)
    PROVE  DOMAIN w = Columns /\ w.inflight = bucket[b].inflight
<1>1. DOMAIN bucket[b] = Columns
  BY DEF BucketsOK
<1>2. CASE w = bucket[b]
  BY <1>1, <1>2
<1>3. CASE w = [bucket[b] EXCEPT !.remaining = Limit, !.reset = Window]
  BY <1>1, <1>3 DEF Columns
<1> QED BY <1>2, <1>3 DEF Renewed

LEMMA HoldersFinite == ASSUME NEW b PROVE IsFiniteSet(Holders(b)) /\ Cardinality(Holders(b)) \in Nat
BY FS_Subset, FS_CardinalityType DEF Holders

\* One request that begins or ceases to hold one bucket.
LEMMA HoldersKept ==
    ASSUME \A q \in Requests : (Sent(q) <=> Sent(q)') /\ (Sent(q) => request'[q].held = request[q].held), NEW b
    PROVE  Holders(b)' = Holders(b)
BY DEF Holders

LEMMA HolderAdded ==
    ASSUME NEW r \in Requests, ~Sent(r), Sent(r)', NEW at, request'[r].held = at,
           \A q \in Requests \ {r} : request'[q] = request[q], NEW b
    PROVE  Cardinality(Holders(b)') = IF b = at THEN Cardinality(Holders(b)) + 1 ELSE Cardinality(Holders(b))
<1>1. CASE b = at
  <2>1. Holders(b)' = Holders(b) \cup {r} /\ r \notin Holders(b)
    BY <1>1 DEF Holders, Sent
  <2>2. PICK S : S = Holders(b)
    OBVIOUS
  <2>3. IsFiniteSet(S) /\ r \notin S /\ Holders(b)' = S \cup {r}
    BY <2>1, <2>2, HoldersFinite
  <2>4. Cardinality(S \cup {r}) = Cardinality(S) + 1
    BY <2>3, FS_AddElement
  <2> QED BY <1>1, <2>2, <2>3, <2>4
<1>2. CASE b # at
  <2>1. Holders(b)' = Holders(b)
    BY <1>2 DEF Holders, Sent
  <2> QED BY <1>2, <2>1
<1> QED BY <1>1, <1>2

LEMMA HolderRemoved ==
    ASSUME NEW r \in Requests, Sent(r), ~Sent(r)', NEW at, request[r].held = at,
           \A q \in Requests \ {r} : request'[q] = request[q], NEW b
    PROVE  Cardinality(Holders(b)') = IF b = at THEN Cardinality(Holders(b)) - 1 ELSE Cardinality(Holders(b))
<1>1. CASE b = at
  <2>1. Holders(b)' = Holders(b) \ {r} /\ r \in Holders(b)
    BY <1>1 DEF Holders, Sent
  <2>2. PICK S : S = Holders(b)
    OBVIOUS
  <2>3. IsFiniteSet(S) /\ r \in S /\ Holders(b)' = S \ {r}
    BY <2>1, <2>2, HoldersFinite
  <2>4. Cardinality(S \ {r}) = Cardinality(S) - 1
    BY <2>3, FS_RemoveElement
  <2> QED BY <1>1, <2>2, <2>3, <2>4
<1>2. CASE b # at
  <2>1. Holders(b)' = Holders(b)
    BY <1>2 DEF Holders, Sent
  <2> QED BY <1>2, <2>1
<1> QED BY <1>1, <1>2

-----------------------------------------------------------------------------
(* The steps *)

\* A step that leaves reservations alone.
LEMMA RestStep ==
    ASSUME IInv, BucketsOK', RequestsOK', UNCHANGED <<groups, ofGroup>>,
           \A b \in Routes : bucket'[b].inflight = bucket[b].inflight,
           \A q \in Requests : (Sent(q) <=> Sent(q)') /\ (Sent(q) => request'[q].held = request[q].held)
    PROVE  IInv'
<1>1. GroupsOK'
  BY DEF IInv, GroupsOK
<1>2. ASSUME NEW b \in Routes PROVE (bucket[b].inflight = Cardinality(Holders(b)))'
  <2>1. Holders(b)' = Holders(b)
    BY HoldersKept
  <2> QED BY <2>1 DEF IInv, InflightExact
<1> QED BY <1>1, <1>2 DEF IInv, InflightExact

\* A request moved to another row.
LEMMA RequestPut ==
    ASSUME RequestsOK, NEW r \in Requests, NEW x, request' = [request EXCEPT ![r] = x],
           DOMAIN x = Fields, x.pc \in {"sent", "answered"} => x.held \in Routes
    PROVE  RequestsOK' /\ request'[r] = x /\ \A q \in Requests \ {r} : request'[q] = request[q]
<1>1. request'[r] = x /\ \A q \in Requests \ {r} : request'[q] = request[q]
  BY DEF RequestsOK
<1>2. request' = [q \in Requests |-> request'[q]]
  BY DEF RequestsOK
<1>3. ASSUME NEW q \in Requests PROVE (DOMAIN request[q] = Fields /\ (Sent(q) => request[q].held \in Routes))'
  <2>1. CASE q = r
    BY <1>1, <2>1 DEF Sent
  <2>2. CASE q # r
    BY <1>1, <2>2 DEF Sent, RequestsOK
  <2> QED BY <2>1, <2>2
<1> QED BY <1>1, <1>2, <1>3 DEF RequestsOK

LEMMA CountedBucket == ASSUME IInv, NEW r \in Requests PROVE Counted(r) \in Routes
BY DEF Counted, IInv, GroupsOK

LEMMA AdmitStep == ASSUME IInv, NEW r \in Requests, Admit(r) PROVE IInv'
<1>1. PICK b \in Routes : b = Counted(r)
  BY CountedBucket
<1>2. PICK renewed : renewed = Renewed(b)
  OBVIOUS
<1>3. DOMAIN renewed = Columns /\ renewed.inflight = bucket[b].inflight /\ renewed.inflight \in Nat
  BY <1>2, RenewedFields DEF IInv, BucketsOK
<1>4. DOMAIN request[r] = Fields /\ ~Sent(r) /\ UNCHANGED <<groups, ofGroup>>
  BY DEF Admit, Sent, IInv, RequestsOK
<1>5. CASE Wait(renewed) = 0
  <2>1. PICK y : y = [renewed EXCEPT !.inflight = renewed.inflight + 1]
    OBVIOUS
  <2>2. DOMAIN y = Columns /\ y.inflight = renewed.inflight + 1
    BY <1>3, <2>1 DEF Columns
  <2>3. bucket' = [bucket EXCEPT ![b] = y]
    BY <1>1, <1>2, <1>5, <2>1 DEF Admit
  <2>4. bucket'[b] = y /\ \A d \in Routes \ {b} : bucket'[d] = bucket[d]
    BY <2>3 DEF IInv, BucketsOK
  <2>5. BucketsOK'
    BY <1>3, <2>2, <2>3, <2>4 DEF IInv, BucketsOK
  <2>6. PICK x : x = [request[r] EXCEPT !.pc = "sent", !.held = b]
    OBVIOUS
  <2>7. DOMAIN x = Fields /\ x.pc = "sent" /\ x.held = b
    BY <1>4, <2>6 DEF Fields
  <2>8. request' = [request EXCEPT ![r] = x]
    BY <1>1, <1>2, <1>5, <2>6 DEF Admit
  <2>9. RequestsOK' /\ request'[r] = x /\ \A q \in Requests \ {r} : request'[q] = request[q]
    BY <2>7, <2>8, RequestPut DEF IInv
  <2>10. ASSUME NEW d \in Routes PROVE (bucket[d].inflight = Cardinality(Holders(d)))'
    <3>1. Cardinality(Holders(d)') = IF d = b THEN Cardinality(Holders(d)) + 1 ELSE Cardinality(Holders(d))
      <4>1. Sent(r)' /\ request'[r].held = b
        BY <2>7, <2>9 DEF Sent
      <4> QED BY <1>4, <2>9, <4>1, HolderAdded
    <3>2. bucket[d].inflight = Cardinality(Holders(d))
      BY DEF IInv, InflightExact
    <3>3. bucket'[d].inflight = IF d = b THEN bucket[d].inflight + 1 ELSE bucket[d].inflight
      BY <1>3, <2>2, <2>4
    <3> QED BY <3>1, <3>2, <3>3
  <2> QED BY <1>4, <2>5, <2>9, <2>10 DEF IInv, GroupsOK, InflightExact
<1>6. CASE Wait(renewed) # 0
  <2>1. bucket' = [bucket EXCEPT ![b] = renewed]
    BY <1>1, <1>2, <1>6 DEF Admit
  <2>2. bucket'[b] = renewed /\ \A d \in Routes \ {b} : bucket'[d] = bucket[d]
    BY <2>1 DEF IInv, BucketsOK
  <2>3. BucketsOK' /\ \A d \in Routes : bucket'[d].inflight = bucket[d].inflight
    BY <1>3, <2>1, <2>2 DEF IInv, BucketsOK
  <2>4. PICK wait : wait = Wait(renewed)
    OBVIOUS
  <2>5. PICK x : x = [request[r] EXCEPT !.pc = "asleep", !.timer = wait]
    OBVIOUS
  <2>6. DOMAIN x = Fields /\ x.pc = "asleep"
    BY <1>4, <2>5 DEF Fields
  <2>7. request' = [request EXCEPT ![r] = x]
    BY <1>1, <1>2, <1>6, <2>4, <2>5 DEF Admit
  <2>8. RequestsOK' /\ request'[r] = x /\ \A q \in Requests \ {r} : request'[q] = request[q]
    BY <2>6, <2>7, RequestPut DEF IInv
  <2>9. \A q \in Requests : (Sent(q) <=> Sent(q)') /\ (Sent(q) => request'[q].held = request[q].held)
    BY <1>4, <2>6, <2>8 DEF Sent
  <2> QED BY <1>4, <2>3, <2>8, <2>9, RestStep
<1> QED BY <1>5, <1>6

LEMMA WakeStep == ASSUME IInv, NEW r \in Requests, Wake(r) PROVE IInv'
<1>1. PICK x : x = [request[r] EXCEPT !.pc = "queued"]
  OBVIOUS
<1>2. DOMAIN x = Fields /\ x.pc = "queued" /\ ~Sent(r)
  BY <1>1 DEF Wake, Sent, Fields, IInv, RequestsOK
<1>3. RequestsOK' /\ request'[r] = x /\ \A q \in Requests \ {r} : request'[q] = request[q]
  BY <1>1, <1>2, RequestPut DEF Wake, IInv
<1>4. \A q \in Requests : (Sent(q) <=> Sent(q)') /\ (Sent(q) => request'[q].held = request[q].held)
  BY <1>2, <1>3 DEF Sent
<1>5. BucketsOK'
  BY DEF Wake, IInv, BucketsOK
<1> QED BY <1>3, <1>4, <1>5, RestStep DEF Wake

LEMMA ServeStep == ASSUME IInv, NEW r \in Requests, Serve(r) PROVE IInv'
<1>1. PICK answer : request' = [request EXCEPT ![r].pc = "answered", ![r].answer = answer]
  BY DEF Serve, Answer
<1>2. request[r].pc = "sent" /\ UNCHANGED <<bucket, groups, ofGroup>>
  BY DEF Serve, Answer
<1>3. PICK x : x = [request[r] EXCEPT !.pc = "answered", !.answer = answer]
  OBVIOUS
<1>4. DOMAIN x = Fields /\ x.pc = "answered" /\ x.held = request[r].held /\ x.held \in Routes
  BY <1>2, <1>3 DEF Sent, Fields, IInv, RequestsOK
<1>5. request' = [request EXCEPT ![r] = x]
  BY <1>1, <1>3 DEF IInv, RequestsOK
<1>6. RequestsOK' /\ request'[r] = x /\ \A q \in Requests \ {r} : request'[q] = request[q]
  BY <1>4, <1>5, RequestPut DEF IInv
<1>7. \A q \in Requests : (Sent(q) <=> Sent(q)') /\ (Sent(q) => request'[q].held = request[q].held)
  BY <1>2, <1>4, <1>6 DEF Sent
<1>8. BucketsOK'
  BY <1>2 DEF IInv, BucketsOK
<1> QED BY <1>2, <1>6, <1>7, <1>8, RestStep

\* A request gives its reservation back to the bucket it was taken from.
LEMMA ReturnStep ==
    ASSUME IInv, NEW r \in Requests, Sent(r), NEW x, DOMAIN x = Fields, x.pc \notin {"sent", "answered"},
           request' = [request EXCEPT ![r] = x], GroupsOK', bucket' = [b \in Routes |-> bucket'[b]],
           \A b \in Routes :
              /\ DOMAIN bucket'[b] = Columns
              /\ bucket'[b].inflight = IF b = request[r].held THEN bucket[b].inflight - 1 ELSE bucket[b].inflight
    PROVE  IInv'
<1>1. PICK held \in Routes : held = request[r].held
  BY DEF IInv, RequestsOK
<1>2. RequestsOK' /\ request'[r] = x /\ \A q \in Requests \ {r} : request'[q] = request[q]
  BY RequestPut DEF IInv
<1>3. ASSUME NEW b \in Routes PROVE bucket'[b].inflight = Cardinality(Holders(b)') /\ bucket'[b].inflight \in Nat
  <2>1. ~Sent(r)'
    BY <1>2 DEF Sent
  <2>2. Cardinality(Holders(b)') = IF b = held THEN Cardinality(Holders(b)) - 1 ELSE Cardinality(Holders(b))
    BY <1>1, <1>2, <2>1, HolderRemoved
  <2>3. bucket[b].inflight = Cardinality(Holders(b))
    BY DEF IInv, InflightExact
  <2>4. IsFiniteSet(Holders(b)')
    BY FS_Subset DEF Holders
  <2>5. Cardinality(Holders(b)') \in Nat
    BY <2>4, FS_CardinalityType
  <2> QED BY <1>1, <2>2, <2>3, <2>5
<1>4. BucketsOK'
  BY <1>3 DEF BucketsOK
<1> QED BY <1>2, <1>3, <1>4 DEF IInv, InflightExact

LEMMA BreakStep == ASSUME IInv, NEW r \in Requests, Break(r) PROVE IInv'
<1>1. PICK held \in Routes : held = request[r].held
  BY DEF Break, IInv, RequestsOK
<1>2. PICK y : y = [bucket[held] EXCEPT !.inflight = bucket[held].inflight - 1]
  OBVIOUS
<1>3. DOMAIN y = Columns /\ y.inflight = bucket[held].inflight - 1
  BY <1>2 DEF Columns, IInv, BucketsOK
<1>4. bucket' = [bucket EXCEPT ![held] = y]
  BY <1>1, <1>2 DEF Break, Returned
<1>5. bucket'[held] = y /\ \A b \in Routes \ {held} : bucket'[b] = bucket[b]
  BY <1>4 DEF IInv, BucketsOK
<1>6. bucket' = [b \in Routes |-> bucket'[b]]
  BY <1>4 DEF IInv, BucketsOK
<1>7. \A b \in Routes : /\ DOMAIN bucket'[b] = Columns
                        /\ bucket'[b].inflight = IF b = request[r].held THEN bucket[b].inflight - 1 ELSE bucket[b].inflight
  BY <1>1, <1>3, <1>5 DEF IInv, BucketsOK
<1>8. PICK x : x = [Fresh EXCEPT !.pc = "done", !.attempt = request[r].attempt]
  OBVIOUS
<1>9. DOMAIN x = Fields /\ x.pc = "done"
  BY <1>8 DEF Fresh, Fields
<1>10. request' = [request EXCEPT ![r] = x] /\ Sent(r) /\ GroupsOK'
  BY <1>8 DEF Break, IInv, GroupsOK
<1> QED BY <1>6, <1>7, <1>9, <1>10, ReturnStep

\* A line of the window that follows the b lines gone.
LEMMA ShiftUp ==
    ASSUME NEW a \in Nat, NEW b \in Nat, NEW c \in Nat, 1 <= c, c <= a - b
    PROVE  1 <= c + b /\ c + b <= a
OBVIOUS

LEMMA ObserveStep == ASSUME IInv, NEW r \in Requests, Observe(r) PROVE IInv'
<1>1. PICK answer : answer = request[r].answer
  OBVIOUS
<1>2. PICK held \in Routes : held = request[r].held
  BY DEF Observe, Sent, IInv, RequestsOK
<1>3. PICK main \in Routes : main = IF ~answer.reports THEN held ELSE IF ofGroup = None THEN held ELSE ofGroup
  BY DEF IInv, GroupsOK
<1>4. Sent(r)
  BY DEF Observe, Sent
<1>5. GroupsOK'
  <2>1. ofGroup' = IF answer.reports THEN main ELSE ofGroup
    BY <1>1, <1>2, <1>3 DEF Observe
  <2>2. groups' = IF answer.reports THEN groups \cup {RouteOf[r]} ELSE groups
    BY <1>1 DEF Observe
  <2> QED BY <2>1, <2>2 DEF IInv, GroupsOK
<1>6. bucket' = [b \in Routes |->
                   IF b # main THEN Released(b, held, main)
                   ELSE IF answer.status = "refused"
                        THEN [Reported(Released(b, held, main), answer) EXCEPT !.blocked = Later(@, Delay)]
                        ELSE Reported(Released(b, held, main), answer)]
  BY <1>1, <1>2, <1>3 DEF Observe
<1>7. bucket' = [b \in Routes |-> bucket'[b]]
  BY <1>6
<1>8. ASSUME NEW b \in Routes
      PROVE  /\ DOMAIN bucket'[b] = Columns
             /\ bucket'[b].inflight = IF b = request[r].held THEN bucket[b].inflight - 1 ELSE bucket[b].inflight
  <2>1. PICK w : w = Released(b, held, main)
    OBVIOUS
  <2>2. DOMAIN w = Columns /\ w.inflight = IF b = held THEN bucket[b].inflight - 1 ELSE bucket[b].inflight
    BY <2>1, ReleasedFields DEF IInv
  <2>3. PICK told : told = Reported(w, answer)
    OBVIOUS
  <2>4. DOMAIN told = Columns /\ told.inflight = w.inflight
    BY <2>2, <2>3, ReportedFields
  <2>5. CASE b # main
    BY <1>2, <1>6, <2>1, <2>2, <2>5
  <2>6. CASE b = main /\ answer.status = "refused"
    <3>1. PICK till : till = Later(told.blocked, Delay)
      OBVIOUS
    <3>2. PICK v : v = [told EXCEPT !.blocked = till]
      OBVIOUS
    <3>3. DOMAIN v = Columns /\ v.inflight = told.inflight
      BY <2>4, <3>2 DEF Columns
    <3>4. bucket'[b] = v
      BY <1>6, <2>1, <2>3, <2>6, <3>1, <3>2
    <3> QED BY <1>2, <2>2, <2>4, <3>3, <3>4
  <2>7. CASE b = main /\ answer.status # "refused"
    <3>1. bucket'[b] = told
      BY <1>6, <2>1, <2>3, <2>7
    <3> QED BY <1>2, <2>2, <2>4, <3>1
  <2> QED BY <2>5, <2>6, <2>7
<1>9. CASE answer.status = "final" \/ ~Again(r)
  <2>1. PICK x : x = [Fresh EXCEPT !.pc = "done", !.attempt = request[r].attempt]
    OBVIOUS
  <2>2. DOMAIN x = Fields /\ x.pc = "done"
    BY <2>1 DEF Fresh, Fields
  <2>3. request' = [request EXCEPT ![r] = x]
    BY <1>1, <1>9, <2>1 DEF Observe
  <2> QED BY <1>4, <1>5, <1>7, <1>8, <2>2, <2>3, ReturnStep
<1>10. CASE ~(answer.status = "final" \/ ~Again(r))
  <2>1. PICK pc, timer : pc = (IF answer.status = "failed" THEN "asleep" ELSE "queued")
                         /\ timer = (IF answer.status = "failed" THEN Delay ELSE 0)
    OBVIOUS
  <2>2. PICK x : x = [Fresh EXCEPT !.pc = pc, !.timer = timer, !.attempt = request[r].attempt + 1]
    OBVIOUS
  <2>3. DOMAIN x = Fields /\ x.pc \notin {"sent", "answered"}
    BY <2>1, <2>2 DEF Fresh, Fields
  <2>4. request' = [request EXCEPT ![r] = x]
    BY <1>1, <1>10, <2>1, <2>2 DEF Observe
  <2> QED BY <1>4, <1>5, <1>7, <1>8, <2>3, <2>4, ReturnStep
<1> QED BY <1>9, <1>10

LEMMA TickStep == ASSUME IInv, Tick PROVE IInv'
<1>1. ASSUME NEW b \in Routes PROVE DOMAIN bucket'[b] = Columns /\ bucket'[b].inflight = bucket[b].inflight
  <2>1. PICK reset, blocked : reset = Less(bucket[b].reset, 1) /\ blocked = Less(bucket[b].blocked, 1)
    OBVIOUS
  <2>2. PICK v : v = [bucket[b] EXCEPT !.reset = reset, !.blocked = blocked]
    OBVIOUS
  <2>3. bucket'[b] = v
    BY <2>1, <2>2 DEF Tick
  <2> QED BY <2>2, <2>3 DEF Columns, IInv, BucketsOK
<1>2. BucketsOK'
  <2>1. bucket' = [b \in Routes |-> bucket'[b]]
    BY DEF Tick
  <2> QED BY <1>1, <2>1 DEF IInv, BucketsOK
<1>3. PICK gone : request' = [q \in Requests |->
                IF request[q].pc = "answered" THEN [request[q] EXCEPT !.answer = Shifted(@, gone)]
                ELSE [request[q] EXCEPT !.timer = Less(@, 1)]]
  BY DEF Tick
<1>4. ASSUME NEW q \in Requests
      PROVE  DOMAIN request'[q] = Fields /\ request'[q].pc = request[q].pc /\ request'[q].held = request[q].held
  <2>1. CASE request[q].pc = "answered"
    <3>1. PICK answer : answer = Shifted(request[q].answer, gone)
      OBVIOUS
    <3>2. PICK x : x = [request[q] EXCEPT !.answer = answer]
      OBVIOUS
    <3>3. request'[q] = x
      BY <1>3, <2>1, <3>1, <3>2
    <3> QED BY <3>2, <3>3 DEF Fields, IInv, RequestsOK
  <2>2. CASE request[q].pc # "answered"
    <3>1. PICK timer : timer = Less(request[q].timer, 1)
      OBVIOUS
    <3>2. PICK x : x = [request[q] EXCEPT !.timer = timer]
      OBVIOUS
    <3>3. request'[q] = x
      BY <1>3, <2>2, <3>1, <3>2
    <3> QED BY <3>2, <3>3 DEF Fields, IInv, RequestsOK
  <2> QED BY <2>1, <2>2
<1>5. \A q \in Requests : (Sent(q) <=> Sent(q)') /\ (Sent(q) => request'[q].held = request[q].held)
  BY <1>4 DEF Sent
<1>6. RequestsOK'
  <2>1. request' = [q \in Requests |-> request'[q]]
    BY <1>3
  <2> QED BY <1>4, <1>5, <2>1 DEF IInv, RequestsOK
<1> QED BY <1>1, <1>2, <1>5, <1>6, RestStep DEF Tick

-----------------------------------------------------------------------------
(* The invariant *)

LEMMA InvInit == Init => IInv
<1> SUFFICES ASSUME Init PROVE IInv
  OBVIOUS
<1>1. BucketsOK /\ \A b \in Routes : bucket[b].inflight = 0
  BY DEF Init, BucketsOK, Unknown, Columns
<1>2. RequestsOK /\ \A r \in Requests : ~Sent(r)
  BY DEF Init, RequestsOK, Sent, Fresh, Fields
<1>3. ASSUME NEW b \in Routes PROVE Cardinality(Holders(b)) = 0
  <2>1. Holders(b) = {}
    BY <1>2 DEF Holders
  <2> QED BY <2>1, FS_EmptySet
<1>4. GroupsOK
  BY DEF Init, GroupsOK
<1> QED BY <1>1, <1>2, <1>3, <1>4 DEF IInv, InflightExact

LEMMA InvStep == IInv /\ [Next]_vars => IInv'
<1> SUFFICES ASSUME IInv, [Next]_vars PROVE IInv'
  OBVIOUS
<1>1. CASE Tick
  BY <1>1, TickStep
<1>2. ASSUME NEW r \in Requests, RequestNext(r) \/ Break(r) PROVE IInv'
  BY <1>2, AdmitStep, WakeStep, ServeStep, ObserveStep, BreakStep DEF RequestNext
<1>3. CASE UNCHANGED vars
  <2>1. BucketsOK'
    BY <1>3 DEF vars, IInv, BucketsOK
  <2>2. \A q \in Requests : (Sent(q) <=> Sent(q)') /\ (Sent(q) => request'[q].held = request[q].held)
    BY <1>3 DEF vars, Sent
  <2>3. RequestsOK'
    BY <1>3 DEF vars, IInv, RequestsOK, Sent
  <2> QED BY <1>3, <2>1, <2>2, <2>3, RestStep DEF vars
<1> QED BY <1>1, <1>2, <1>3 DEF Next

\* Reservations are counted in buckets that exist, by requests that hold them.
LEMMA Invariance == Spec => []IInv
BY InvInit, InvStep, PTL DEF Spec

\* However answers, breaks and renamed groups interleave, a bucket counts in flight exactly the
\* requests that will give it their reservation back (reserve and the finally of request).
THEOREM ReservationsExact == Spec => []InflightExact
<1>1. IInv => InflightExact
  BY DEF IInv
<1> QED BY <1>1, Invariance, PTL

-----------------------------------------------------------------------------
(* Tokens of a ledger *)

TokensOf(l, entries) == UNION {{i} \X (1..l[i].cost) : i \in entries}

ToldIn(l) == {i \in DOMAIN l : l[i].told}

LEMMA TokensFinite ==
    ASSUME NEW l, NEW S, IsFiniteSet(S), \A i \in S : l[i].cost \in {2, 5}
    PROVE  IsFiniteSet(TokensOf(l, S)) /\ Cardinality(TokensOf(l, S)) \in Nat
<1>1. IsFiniteSet(1..5)
  <2>1. PICK n \in Nat : n = 5
    OBVIOUS
  <2>2. IsFiniteSet(1..n)
    BY FS_Interval
  <2> QED BY <2>1, <2>2
<1>2. IsFiniteSet(S \X (1..5))
  BY <1>1, FS_Product
<1>3. ASSUME NEW i \in S, NEW t \in {i} \X (1..l[i].cost) PROVE t \in S \X (1..5)
  <2>1. l[i].cost \in 1..5
    OBVIOUS
  <2>2. 1..l[i].cost \subseteq 1..5
    BY <2>1
  <2> QED BY <2>2
<1>4. TokensOf(l, S) \subseteq S \X (1..5)
  BY <1>3 DEF TokensOf
<1> QED BY <1>2, <1>4, FS_Subset, FS_CardinalityType

\* Fewer requests spent no more.
LEMMA TokensFewer ==
    ASSUME NEW l, NEW T, IsFiniteSet(T), \A i \in T : l[i].cost \in {2, 5}, NEW S \in SUBSET T
    PROVE  /\ Cardinality(TokensOf(l, S)) \in Nat /\ Cardinality(TokensOf(l, T)) \in Nat
           /\ Cardinality(TokensOf(l, S)) <= Cardinality(TokensOf(l, T))
<1>1. TokensOf(l, S) \subseteq TokensOf(l, T)
  BY DEF TokensOf
<1>2. IsFiniteSet(TokensOf(l, T)) /\ Cardinality(TokensOf(l, T)) \in Nat
  BY TokensFinite
<1>3. IsFiniteSet(TokensOf(l, S))
  BY <1>1, <1>2, FS_Subset
<1> QED BY <1>1, <1>2, <1>3, FS_Subset, FS_CardinalityType

LEMMA TokensSame ==
    ASSUME NEW l, NEW m, NEW S, \A i \in S : l[i].cost = m[i].cost
    PROVE  TokensOf(l, S) = TokensOf(m, S)
BY DEF TokensOf

\* One request more spends its cost.
LEMMA TokensAdded ==
    ASSUME NEW l, NEW S, IsFiniteSet(S), NEW j, \A i \in S \cup {j} : l[i].cost \in {2, 5}
    PROVE  /\ Cardinality(TokensOf(l, S)) \in Nat /\ Cardinality(TokensOf(l, S \cup {j})) \in Nat
           /\ Cardinality(TokensOf(l, S \cup {j})) <= Cardinality(TokensOf(l, S)) + l[j].cost
<1> DEFINE A == TokensOf(l, S)  one == {j}  price == 1..l[j].cost  B == one \X price
<1>1. TokensOf(l, S \cup {j}) = A \cup B
  BY DEF TokensOf
<1>2. IsFiniteSet(A) /\ Cardinality(A) \in Nat
  BY TokensFinite
<1>3. IsFiniteSet(one) /\ Cardinality(one) = 1
  BY FS_Singleton
<1>4. IsFiniteSet(price) /\ Cardinality(price) = l[j].cost
  <2>1. l[j].cost \in {2, 5}
    OBVIOUS
  <2>2. PICK c \in {2, 5} : c = l[j].cost
    BY <2>1
  <2>3. IsFiniteSet(1..c) /\ Cardinality(1..c) = c
    BY FS_Interval
  <2> QED BY <2>2, <2>3
<1>5. IsFiniteSet(B) /\ Cardinality(B) = Cardinality(one) * Cardinality(price)
  <2> HIDE DEF one, price
  <2> QED BY <1>3, <1>4, FS_Product
<1>6. Cardinality(B) = l[j].cost /\ l[j].cost \in {2, 5}
  BY <1>3, <1>4, <1>5
<1> HIDE DEF A, B
<1>7. IsFiniteSet(A \cup B) /\ Cardinality(A \cup B) = Cardinality(A) + Cardinality(B) - Cardinality(A \cap B)
  BY <1>2, <1>5, FS_Union
<1>8. IsFiniteSet(A \cap B) /\ Cardinality(A \cap B) \in Nat /\ Cardinality(A \cup B) \in Nat
  BY <1>2, <1>7, FS_Intersection, FS_CardinalityType
<1>9. Cardinality(A \cup B) <= Cardinality(A) + l[j].cost
  BY <1>2, <1>6, <1>7, <1>8
<1> QED BY <1>1, <1>2, <1>8, <1>9 DEF A

\* What moved to the front of the ledger spent no more than it did.
LEMMA TokensShifted ==
    ASSUME NEW l, NEW m, NEW gone \in Nat, NEW T, IsFiniteSet(T), \A i \in T : l[i].cost \in {2, 5},
           NEW S \in SUBSET Nat, \A i \in S : i + gone \in T /\ m[i].cost = l[i + gone].cost
    PROVE  /\ Cardinality(TokensOf(m, S)) \in Nat /\ Cardinality(TokensOf(l, T)) \in Nat
           /\ Cardinality(TokensOf(m, S)) <= Cardinality(TokensOf(l, T))
<1> DEFINE A == TokensOf(m, S)  B == TokensOf(l, T)  f == [t \in A |-> <<t[1] + gone, t[2]>>]
<1>1. IsFiniteSet(B) /\ Cardinality(B) \in Nat
  BY TokensFinite
<1>2. ASSUME NEW t \in A PROVE \E i \in S : \E n \in 1..m[i].cost : t = <<i, n>> /\ f[t] = <<i + gone, n>>
  BY DEF TokensOf
<1>3. ASSUME NEW t \in A PROVE f[t] \in B
  <2>1. PICK i \in S : \E n \in 1..m[i].cost : f[t] = <<i + gone, n>>
    BY <1>2
  <2>2. i + gone \in T /\ \E n \in 1..l[i + gone].cost : f[t] = <<i + gone, n>>
    BY <2>1
  <2> QED BY <2>2 DEF TokensOf
<1>4. ASSUME NEW t \in A, NEW u \in A, f[t] = f[u] PROVE t = u
  <2> HIDE DEF A, f
  <2>1. PICK i, n : i \in S /\ t = <<i, n>> /\ f[t] = <<i + gone, n>>
    BY <1>2
  <2>2. PICK k, p : k \in S /\ u = <<k, p>> /\ f[u] = <<k + gone, p>>
    BY <1>2
  <2>3. i + gone = k + gone /\ n = p
    BY <1>4, <2>1, <2>2
  <2>4. i \in Nat /\ k \in Nat
    BY <2>1, <2>2
  <2> QED BY <2>1, <2>2, <2>3, <2>4
<1>5. f \in Injection(A, B)
  <2>1. f \in [A -> B]
    BY <1>3
  <2> QED BY <1>4, <2>1 DEF Injection, IsInjective
<1> HIDE DEF A, B, f
<1>6. IsFiniteSet(A) /\ Cardinality(A) <= Cardinality(B)
  BY <1>1, <1>5, FS_Injection
<1>7. Cardinality(A) \in Nat
  BY <1>6, FS_CardinalityType
<1> QED BY <1>1, <1>6, <1>7 DEF A, B

-----------------------------------------------------------------------------
(* What ESI served, what was told of it and what a bucket believes *)

\* What ESI remembers of a request it served.
Entries == [age : 0..Window - 1, cost : {2, 5}, told : BOOLEAN]
Headers == {"status", "reports", "upto", "remaining"}
Covered(n) == Cardinality(Tokens(1..n))

LedgerOK == ledger \in Seq(Entries)

\* What a report says remains leaves room for what it covers and is still live.
AnswerOK(answer) ==
    /\ DOMAIN answer = Headers
    /\ answer.reports => /\ answer.upto \in 0..Len(ledger) /\ answer.remaining \in 0..Limit
                         /\ answer.remaining <= Less(Limit, Covered(answer.upto))
AnswersOK == \A r \in Requests : request[r].pc = "answered" => AnswerOK(request[r].answer)

\* Reports cover the ledger from its front, so what has been told of comes first.
ToldFirst == \A i, j \in DOMAIN ledger : ledger[j].told /\ i < j => ledger[i].told

\* One bucket hears reports, and by the end of its window what it heard of is no longer live.
OneKnown == \A b \in Routes : bucket[b].known => b = ofGroup
ToldLapses == \A i \in DOMAIN ledger : ledger[i].told =>
    ofGroup \in Routes /\ bucket[ofGroup].known /\ ledger[i].age + bucket[ofGroup].reset >= Window

Budget == \A b \in Routes :
    bucket[b].known /\ bucket[b].reset > 0 => bucket[b].remaining <= Less(Limit, Told)

\* The ranges of the columns.
CallerOK(x) ==
    /\ x.pc \in {"queued", "asleep", "sent", "answered", "done"}
    /\ x.attempt \in 1..3 /\ x.timer \in Away /\ x.held \in Routes \cup {None}
BudgetOK(v) ==
    v \in [remaining : 0..Limit, known : BOOLEAN, reset : 0..Window, blocked : 0..Delay, inflight : Int]
RangesOK ==
    /\ \A r \in Requests : CallerOK(request[r])
    /\ \A b \in Routes : BudgetOK(bucket[b])
    /\ groups \subseteq Routes /\ stopped \in 0..Delay

LInv == LedgerOK /\ AnswersOK /\ ToldFirst /\ OneKnown /\ ToldLapses /\ Budget /\ RangesOK

LEMMA LedgerEntries ==
    ASSUME LedgerOK
    PROVE  /\ Len(ledger) \in Nat /\ DOMAIN ledger = 1..Len(ledger) /\ IsFiniteSet(DOMAIN ledger)
           /\ \A i \in DOMAIN ledger :
                 /\ ledger[i] \in Entries /\ ledger[i].cost \in {2, 5} /\ ledger[i].age \in 0..Window - 1
                 /\ DOMAIN ledger[i] = {"age", "cost", "told"} /\ ledger[i].told \in BOOLEAN
<1>1. Len(ledger) \in Nat /\ DOMAIN ledger = 1..Len(ledger) /\ \A i \in DOMAIN ledger : ledger[i] \in Entries
  BY DEF LedgerOK
<1>2. IsFiniteSet(1..Len(ledger))
  BY <1>1, FS_Interval
<1> QED BY <1>1, <1>2 DEF Entries

LEMMA TokensAre ==
    /\ Spent = Cardinality(TokensOf(ledger, DOMAIN ledger)) /\ Told = Cardinality(TokensOf(ledger, ToldIn(ledger)))
    /\ Spent' = Cardinality(TokensOf(ledger', DOMAIN ledger')) /\ Told' = Cardinality(TokensOf(ledger', ToldIn(ledger')))
    /\ \A n : /\ Covered(n) = Cardinality(TokensOf(ledger, 1..n))
              /\ Covered(n)' = Cardinality(TokensOf(ledger', 1..n))
BY DEF Spent, Told, Covered, Tokens, TokensOf, ToldIn

\* What was told of is no more than what was spent, nor than a prefix that holds it.
LEMMA SpentTold ==
    ASSUME LedgerOK
    PROVE  /\ Spent \in Nat /\ Told \in Nat
           /\ \A n \in 0..Len(ledger) :
                 Covered(n) \in Nat /\ Covered(n) <= Spent /\ (ToldIn(ledger) \subseteq 1..n => Told <= Covered(n))
<1>1. PICK l, D : l = ledger /\ D = DOMAIN ledger
  OBVIOUS
<1>2. IsFiniteSet(D) /\ \A i \in D : l[i].cost \in {2, 5}
  BY <1>1, LedgerEntries
<1>3. Spent = Cardinality(TokensOf(l, D)) /\ Told = Cardinality(TokensOf(l, ToldIn(l)))
  BY <1>1, TokensAre
<1>4. ToldIn(l) \subseteq D
  BY <1>1 DEF ToldIn
<1>5. Spent \in Nat /\ Told \in Nat
  BY <1>2, <1>3, <1>4, TokensFewer
<1>6. ASSUME NEW n \in 0..Len(ledger)
      PROVE  Covered(n) \in Nat /\ Covered(n) <= Spent /\ (ToldIn(ledger) \subseteq 1..n => Told <= Covered(n))
  <2>1. PICK P : P = 1..n
    OBVIOUS
  <2>2. P \subseteq D
    BY <1>1, <2>1, LedgerEntries
  <2>3. Covered(n) = Cardinality(TokensOf(l, P))
    BY <1>1, <2>1, TokensAre
  <2>4. Covered(n) \in Nat /\ Covered(n) <= Spent
    BY <1>2, <1>3, <2>2, <2>3, TokensFewer
  <2>5. IsFiniteSet(P) /\ \A i \in P : l[i].cost \in {2, 5}
    BY <1>2, <2>2, FS_Subset
  <2>6. ASSUME ToldIn(l) \subseteq P PROVE Told <= Covered(n)
    BY <1>3, <2>3, <2>5, <2>6, TokensFewer
  <2> QED BY <1>1, <2>1, <2>4, <2>6
<1> QED BY <1>5, <1>6

\* In the last tick of the window of the bucket that hears the reports nothing told of is live.
LEMMA NothingTold ==
    ASSUME LInv, NEW b \in Routes, bucket[b].known, bucket[b].reset = 0
    PROVE  ToldIn(ledger) = {} /\ Told = 0
<1>1. ASSUME NEW i \in DOMAIN ledger, ledger[i].told PROVE FALSE
  <2>1. b = ofGroup /\ ledger[i].age + bucket[b].reset >= Window
    BY <1>1 DEF LInv, OneKnown, ToldLapses
  <2>2. PICK age \in 0..Window - 1 : age = ledger[i].age
    BY LedgerEntries DEF LInv
  <2>3. age + 0 >= Window
    BY <2>1, <2>2
  <2> QED BY <2>2, <2>3
<1>2. ToldIn(ledger) = {}
  BY <1>1 DEF ToldIn
<1>3. Told = Cardinality({})
  BY <1>2, TokensAre DEF TokensOf
<1> QED BY <1>2, <1>3, FS_EmptySet

\* The budget after the window's renewal or as it was.
Carried(v, w) ==
    /\ w.known = v.known
    /\ \/ w.reset = v.reset /\ w.remaining = v.remaining
       \/ v.known /\ v.reset = 0 /\ w.reset = Window /\ w.remaining = Limit

LEMMA LedgerFrame ==
    ASSUME LInv, UNCHANGED <<ledger, ofGroup>>, \A b \in Routes : Carried(bucket[b], bucket'[b])
    PROVE  /\ LedgerOK' /\ ToldFirst' /\ OneKnown' /\ ToldLapses' /\ Budget'
<1>1. LedgerOK' /\ ToldFirst' /\ OneKnown' /\ Told' = Told
  BY DEF LInv, LedgerOK, ToldFirst, OneKnown, Carried, Told, Tokens
<1>2. ASSUME NEW i \in DOMAIN ledger, ledger[i].told
      PROVE  ofGroup \in Routes /\ bucket'[ofGroup].known /\ ledger[i].age + bucket'[ofGroup].reset >= Window
  <2>1. ofGroup \in Routes /\ bucket[ofGroup].known /\ ledger[i].age + bucket[ofGroup].reset >= Window
    BY <1>2 DEF LInv, ToldLapses
  <2>2. bucket[ofGroup].reset # 0
    BY <1>2, <2>1, NothingTold DEF ToldIn
  <2> QED BY <2>1, <2>2 DEF Carried
<1>3. ToldLapses'
  BY <1>2 DEF ToldLapses
<1>4. ASSUME NEW b \in Routes, bucket'[b].known, bucket'[b].reset > 0 PROVE bucket'[b].remaining <= Less(Limit, Told)
  <2>1. CASE bucket'[b].reset = bucket[b].reset /\ bucket'[b].remaining = bucket[b].remaining
    BY <1>4, <2>1 DEF Carried, LInv, Budget
  <2>2. CASE bucket[b].known /\ bucket[b].reset = 0 /\ bucket'[b].remaining = Limit
    <3>1. Told = 0
      BY <2>2, NothingTold
    <3>2. Less(Limit, 0) = Limit
      BY DEF Less
    <3> QED BY <2>2, <3>1, <3>2
  <2> QED BY <2>1, <2>2 DEF Carried
<1> QED BY <1>1, <1>3, <1>4 DEF Budget

LEMMA AnswersFrame ==
    ASSUME AnswersOK, UNCHANGED ledger,
           \A q \in Requests : request'[q].pc = "answered" =>
               request[q].pc = "answered" /\ request'[q].answer = request[q].answer
    PROVE  AnswersOK'
<1>1. \A answer : AnswerOK(answer)' <=> AnswerOK(answer)
  BY DEF AnswerOK, Covered, Tokens
<1> QED BY <1>1 DEF AnswersOK, AnswerOK, Covered, Tokens

\* A step of one request that hears no report.
LEMMA QuietStep ==
    ASSUME LInv, UNCHANGED <<ledger, ofGroup>>, NEW r \in Requests, request'[r].pc # "answered", CallerOK(request'[r]),
           \A q \in Requests \ {r} : request'[q] = request[q],
           \A b \in Routes : Carried(bucket[b], bucket'[b]) /\ BudgetOK(bucket'[b]),
           groups' \subseteq Routes, stopped' \in 0..Delay
    PROVE  LInv'
<1>1. LedgerOK' /\ ToldFirst' /\ OneKnown' /\ ToldLapses' /\ Budget'
  BY LedgerFrame
<1>2. AnswersOK'
  BY AnswersFrame DEF LInv
<1>3. ASSUME NEW q \in Requests PROVE CallerOK(request'[q])
  BY DEF LInv, RangesOK
<1>4. RangesOK'
  BY <1>3 DEF RangesOK, CallerOK, BudgetOK
<1> QED BY <1>1, <1>2, <1>4 DEF LInv

LEMMA RenewedCarries ==
    ASSUME BucketsOK, RangesOK, NEW b \in Routes, NEW w, w = Renewed(b)
    PROVE  DOMAIN w = Columns /\ Carried(bucket[b], w) /\ BudgetOK(w)
<1>1. DOMAIN bucket[b] = Columns /\ BudgetOK(bucket[b])
  BY DEF BucketsOK, RangesOK
<1>2. CASE w = bucket[b]
  BY <1>1, <1>2 DEF Carried
<1>3. CASE bucket[b].known /\ bucket[b].reset = 0 /\ w = [bucket[b] EXCEPT !.remaining = Limit, !.reset = Window]
  <2>1. /\ DOMAIN w = Columns /\ w.remaining = Limit /\ w.reset = Window
        /\ w.known = bucket[b].known /\ w.blocked = bucket[b].blocked
    BY <1>1, <1>3 DEF Columns
  <2>2. Carried(bucket[b], w)
    BY <1>3, <2>1 DEF Carried
  <2>3. Limit \in 0..Limit /\ Window \in 0..Window
    OBVIOUS
  <2>4. BudgetOK(w)
    <3>1. PICK v : v = bucket[b]
      OBVIOUS
    <3>2. w = [v EXCEPT !.remaining = Limit, !.reset = Window] /\ BudgetOK(v)
      BY <1>1, <1>3, <3>1
    <3> QED BY <2>3, <3>2 DEF BudgetOK
  <2> QED BY <2>1, <2>2, <2>4
<1> QED BY <1>2, <1>3 DEF Renewed

LEMMA LaterIn == \A m \in Nat : \A a, b \in 0..m : Later(a, b) \in 0..m
BY DEF Later

\* A sleeper's wait is over within a window and a pause.
LEMMA WaitBounded ==
    ASSUME NEW v, BudgetOK(v), stopped \in 0..Delay
    PROVE  Wait(v) \in Away
<1>1. Later(stopped, v.blocked) \in 0..Delay
  BY LaterIn DEF BudgetOK
<1>2. PICK m \in Nat : m = Window + Delay
  OBVIOUS
<1>3. 0..Delay \subseteq 0..m /\ 0..Window \subseteq 0..m
  BY <1>2
<1>4. PICK rest \in 0..m : rest = IF v.known /\ v.remaining - 2 * v.inflight - 2 < Reserve THEN v.reset ELSE 0
  BY <1>3 DEF BudgetOK
<1>5. Later(Later(stopped, v.blocked), rest) \in 0..m
  BY <1>1, <1>3, <1>4, LaterIn
<1> QED BY <1>2, <1>4, <1>5 DEF Wait, Away

LEMMA RequestRow ==
    ASSUME RequestsOK, NEW r \in Requests, NEW x, request' = [request EXCEPT ![r] = x]
    PROVE  request'[r] = x /\ \A q \in Requests \ {r} : request'[q] = request[q]
BY DEF RequestsOK

LEMMA AdmitLedger == ASSUME IInv, LInv, NEW r \in Requests, Admit(r) PROVE LInv'
<1>1. PICK b \in Routes : b = Counted(r)
  BY CountedBucket
<1>2. PICK renewed : renewed = Renewed(b)
  OBVIOUS
<1>3. DOMAIN renewed = Columns /\ Carried(bucket[b], renewed) /\ BudgetOK(renewed)
  BY <1>2, RenewedCarries DEF IInv, LInv
<1>4. /\ DOMAIN request[r] = Fields /\ CallerOK(request[r]) /\ UNCHANGED <<ledger, groups, ofGroup, stopped>>
      /\ groups \subseteq Routes /\ stopped \in 0..Delay
  BY DEF Admit, IInv, RequestsOK, LInv, RangesOK
<1>5. \A d \in Routes : BudgetOK(bucket[d]) /\ Carried(bucket[d], bucket[d])
  BY DEF LInv, RangesOK, Carried
<1>6. ASSUME NEW y, Carried(renewed, y) \/ y = renewed, BudgetOK(y), bucket' = [bucket EXCEPT ![b] = y], Carried(bucket[b], y),
             NEW x, CallerOK(x), x.pc # "answered", request' = [request EXCEPT ![r] = x]
      PROVE  LInv'
  <2>1. bucket'[b] = y /\ \A d \in Routes \ {b} : bucket'[d] = bucket[d]
    BY <1>6 DEF IInv, BucketsOK
  <2>2. request'[r] = x /\ \A q \in Requests \ {r} : request'[q] = request[q]
    BY <1>6, RequestRow DEF IInv
  <2>3. ASSUME NEW d \in Routes PROVE Carried(bucket[d], bucket'[d]) /\ BudgetOK(bucket'[d])
    BY <1>5, <1>6, <2>1
  <2> QED BY <1>4, <1>6, <2>2, <2>3, QuietStep
<1>7. CASE Wait(renewed) = 0
  <2>1. PICK y : y = [renewed EXCEPT !.inflight = renewed.inflight + 1]
    OBVIOUS
  <2>2. Carried(bucket[b], y) /\ BudgetOK(y) /\ Carried(renewed, y)
    BY <1>3, <2>1 DEF Columns, Carried, BudgetOK
  <2>3. bucket' = [bucket EXCEPT ![b] = y]
    BY <1>1, <1>2, <1>7, <2>1 DEF Admit
  <2>4. PICK x : x = [request[r] EXCEPT !.pc = "sent", !.held = b]
    OBVIOUS
  <2>5. CallerOK(x) /\ x.pc # "answered"
    BY <1>4, <2>4 DEF Fields, CallerOK
  <2>6. request' = [request EXCEPT ![r] = x]
    BY <1>1, <1>2, <1>7, <2>4 DEF Admit
  <2> QED BY <1>6, <2>2, <2>3, <2>5, <2>6
<1>8. CASE Wait(renewed) # 0
  <2>1. bucket' = [bucket EXCEPT ![b] = renewed]
    BY <1>1, <1>2, <1>8 DEF Admit
  <2>2. PICK wait \in Away : wait = Wait(renewed)
    BY <1>3, <1>4, WaitBounded
  <2>3. PICK x : x = [request[r] EXCEPT !.pc = "asleep", !.timer = wait]
    OBVIOUS
  <2>4. CallerOK(x) /\ x.pc # "answered"
    BY <1>4, <2>2, <2>3 DEF Fields, CallerOK
  <2>5. request' = [request EXCEPT ![r] = x]
    BY <1>1, <1>2, <1>8, <2>2, <2>3 DEF Admit
  <2> QED BY <1>3, <1>6, <2>1, <2>4, <2>5
<1> QED BY <1>7, <1>8

LEMMA WakeLedger == ASSUME IInv, LInv, NEW r \in Requests, Wake(r) PROVE LInv'
<1>1. PICK x : x = [request[r] EXCEPT !.pc = "queued"]
  OBVIOUS
<1>2. CallerOK(x) /\ x.pc = "queued"
  BY <1>1 DEF Fields, IInv, RequestsOK, LInv, RangesOK, CallerOK
<1>3. request'[r] = x /\ \A q \in Requests \ {r} : request'[q] = request[q]
  BY <1>1, RequestRow DEF Wake, IInv
<1>4. \A d \in Routes : BudgetOK(bucket[d]) /\ Carried(bucket[d], bucket[d])
  BY DEF LInv, RangesOK, Carried
<1> QED BY <1>2, <1>3, <1>4, QuietStep DEF Wake, LInv, RangesOK

LEMMA BreakLedger == ASSUME IInv, LInv, NEW r \in Requests, Break(r) PROVE LInv'
<1>1. PICK held \in Routes : held = request[r].held
  BY DEF Break, IInv, RequestsOK
<1>2. PICK y : y = [bucket[held] EXCEPT !.inflight = bucket[held].inflight - 1]
  OBVIOUS
<1>3. Carried(bucket[held], y) /\ BudgetOK(y)
  BY <1>2 DEF Columns, IInv, BucketsOK, LInv, RangesOK, BudgetOK, Carried
<1>4. bucket' = [bucket EXCEPT ![held] = y]
  BY <1>1, <1>2 DEF Break, Returned
<1>5. bucket'[held] = y /\ \A b \in Routes \ {held} : bucket'[b] = bucket[b]
  BY <1>4 DEF IInv, BucketsOK
<1>6. \A d \in Routes : BudgetOK(bucket[d]) /\ Carried(bucket[d], bucket[d])
  BY DEF LInv, RangesOK, Carried
<1>7. PICK x : x = [Fresh EXCEPT !.pc = "done", !.attempt = request[r].attempt]
  OBVIOUS
<1>8. CallerOK(x) /\ x.pc = "done"
  BY <1>7 DEF Fresh, LInv, RangesOK, CallerOK, Away
<1>9. request'[r] = x /\ \A q \in Requests \ {r} : request'[q] = request[q]
  BY <1>7, RequestRow DEF Break, IInv
<1>10. UNCHANGED <<ledger, groups, ofGroup, stopped>> /\ groups \subseteq Routes /\ stopped \in 0..Delay
  BY DEF Break, LInv, RangesOK
<1> QED BY <1>3, <1>5, <1>6, <1>8, <1>9, <1>10, QuietStep

LEMMA LessIn == \A n, k \in Nat : Less(n, k) \in 0..n
BY DEF Less

LEMMA LessFalls == \A n, j, k \in Nat : j <= k => Less(n, k) <= Less(n, j) /\ Less(n, j) \in Nat /\ Less(n, k) \in Nat
BY DEF Less

\* A request that is served: what was covered or told of is what it was.
LEMMA LedgerGrown ==
    ASSUME LedgerOK, NEW entry \in Entries, ~entry.told, ledger' = Append(ledger, entry)
    PROVE  /\ LedgerOK' /\ Len(ledger') = Len(ledger) + 1
           /\ \A i \in DOMAIN ledger : i \in DOMAIN ledger' /\ ledger'[i] = ledger[i]
           /\ \A i \in DOMAIN ledger' : ledger'[i].told => i \in DOMAIN ledger
           /\ \A n \in 0..Len(ledger) : Covered(n)' = Covered(n)
           /\ \A n \in {Len(ledger) + 1} : Covered(n)' \in Nat /\ Covered(n)' <= Spent + entry.cost
           /\ Told' = Told
<1>1. PICK l, m, k : l = ledger /\ m = ledger' /\ k = Len(ledger)
  OBVIOUS
<1>2. /\ l \in Seq(Entries) /\ k = Len(l) /\ m = Append(l, entry)
      /\ k \in Nat /\ DOMAIN l = 1..k /\ IsFiniteSet(1..k) /\ \A i \in 1..k : l[i].cost \in {2, 5}
  BY <1>1, LedgerEntries DEF LedgerOK
<1>3. m \in Seq(Entries) /\ Len(m) = k + 1 /\ DOMAIN m = 1..k + 1
  BY <1>2
<1>4. \A i \in 1..k : m[i] = l[i] /\ i \in 1..k + 1
  BY <1>2
<1>5. m[k + 1] = entry
  BY <1>2
<1>6. \A i \in DOMAIN m : m[i].told => i \in 1..k
  BY <1>2, <1>3, <1>5
<1>7. ASSUME NEW n \in 0..k PROVE TokensOf(m, 1..n) = TokensOf(l, 1..n)
  <2>1. \A i \in 1..n : i \in 1..k /\ m[i].cost = l[i].cost
    BY <1>2, <1>4
  <2> QED BY <2>1, TokensSame
<1>8. Cardinality(TokensOf(m, 1..k + 1)) \in Nat /\ Cardinality(TokensOf(m, 1..k + 1)) <= Cardinality(TokensOf(l, 1..k)) + entry.cost
  <2>1. PICK S, j : S = 1..k /\ j = k + 1
    OBVIOUS
  <2>2. 1..k + 1 = S \cup {j}
    BY <1>2, <2>1
  <2>3. \A i \in S \cup {j} : m[i].cost \in {2, 5}
    BY <1>2, <1>4, <1>5, <2>1 DEF Entries
  <2>4. /\ Cardinality(TokensOf(m, S \cup {j})) \in Nat
        /\ Cardinality(TokensOf(m, S \cup {j})) <= Cardinality(TokensOf(m, S)) + m[j].cost
    BY <1>2, <2>1, <2>3, TokensAdded
  <2>5. TokensOf(m, S) = TokensOf(l, S)
    BY <1>2, <1>7, <2>1
  <2> QED BY <1>5, <2>1, <2>2, <2>4, <2>5
<1>9. TokensOf(m, ToldIn(m)) = TokensOf(l, ToldIn(l))
  <2>1. ToldIn(m) = ToldIn(l)
    BY <1>2, <1>3, <1>4, <1>6 DEF ToldIn
  <2>2. \A i \in ToldIn(l) : m[i].cost = l[i].cost
    BY <1>2, <1>4 DEF ToldIn
  <2> QED BY <2>1, <2>2, TokensSame
<1>10. \A n \in 0..k : Covered(n)' = Covered(n)
  BY <1>1, <1>7, TokensAre
<1>11. Told' = Told
  BY <1>1, <1>9, TokensAre
<1>12. \A n \in {k + 1} : Covered(n)' = Cardinality(TokensOf(m, 1..k + 1))
  BY <1>1, TokensAre
<1>13. Spent = Cardinality(TokensOf(l, 1..k))
  BY <1>1, <1>2, TokensAre
<1>14. LedgerOK'
  BY <1>1, <1>3 DEF LedgerOK
<1> QED BY <1>1, <1>2, <1>3, <1>4, <1>6, <1>8, <1>10, <1>11, <1>12, <1>13, <1>14

LEMMA ServeLedger == ASSUME IInv, LInv, NEW r \in Requests, Serve(r) PROVE LInv'
<1>1. PICK cost \in {0, 2, 5}, reports \in BOOLEAN, status \in {"final", "failed", "errors", "refused"} :
         Answer(r, status, cost, reports)
  BY DEF Serve
<1>2. PICK n : n = Len(ledger')
  OBVIOUS
<1>3. PICK left : left = IF reports THEN Less(Limit, Spent + cost) ELSE 0
  OBVIOUS
<1>4. PICK answer : answer = [status |-> status, reports |-> reports, upto |-> n, remaining |-> left]
  OBVIOUS
<1>5. /\ request' = [request EXCEPT ![r].pc = "answered", ![r].answer = answer]
      /\ UNCHANGED <<bucket, groups, ofGroup, stopped>>
  BY <1>1, <1>2, <1>3, <1>4 DEF Answer
<1>6. PICK x : x = [request[r] EXCEPT !.pc = "answered", !.answer = answer]
  OBVIOUS
<1>7. CallerOK(x) /\ x.pc = "answered" /\ x.answer = answer
  BY <1>6 DEF Fields, IInv, RequestsOK, LInv, RangesOK, CallerOK
<1>8. request' = [request EXCEPT ![r] = x]
  BY <1>5, <1>6 DEF IInv, RequestsOK
<1>9. request'[r] = x /\ \A q \in Requests \ {r} : request'[q] = request[q]
  BY <1>8, RequestRow DEF IInv
<1>10. RangesOK'
  BY <1>5, <1>7, <1>9 DEF LInv, RangesOK, CallerOK, BudgetOK
<1>11. Spent \in Nat /\ Len(ledger) \in Nat
  BY SpentTold, LedgerEntries DEF LInv
<1>12. left \in 0..Limit
  <2>1. Spent + cost \in Nat /\ Limit \in Nat
    BY <1>11
  <2> QED BY <1>3, <2>1, LessIn
<1>13. CASE cost = 0
  <2>1. UNCHANGED ledger
    BY <1>1, <1>13 DEF Answer
  <2>2. LedgerOK' /\ ToldFirst' /\ OneKnown' /\ ToldLapses' /\ Budget'
    BY <1>5, <2>1, LedgerFrame DEF Carried
  <2>3. Covered(n) = Spent
    BY <1>2, <2>1, LedgerEntries DEF Covered, Spent, LInv
  <2>4. AnswerOK(answer)
    <3>1. DOMAIN answer = Headers /\ answer.upto = n /\ answer.remaining = left /\ answer.reports = reports
      BY <1>4 DEF Headers
    <3>2. n \in 0..Len(ledger)
      BY <1>2, <1>11, <2>1
    <3>3. reports => left <= Less(Limit, Covered(n))
      BY <1>3, <1>11, <1>13, <2>3, LessFalls
    <3> QED BY <1>12, <3>1, <3>2, <3>3 DEF AnswerOK
  <2>5. \A a : AnswerOK(a)' <=> AnswerOK(a)
    BY <2>1 DEF AnswerOK, Covered, Tokens
  <2>6. AnswersOK'
    <3> SUFFICES ASSUME NEW q \in Requests, request'[q].pc = "answered" PROVE AnswerOK(request[q].answer)'
      BY DEF AnswersOK
    <3>1. PICK a : a = request'[q].answer
      OBVIOUS
    <3>2. AnswerOK(a)
      BY <1>7, <1>9, <2>4, <3>1 DEF LInv, AnswersOK
    <3> QED BY <2>1, <3>1, <3>2 DEF AnswerOK, Covered, Tokens
  <2> QED BY <1>10, <2>2, <2>6 DEF LInv
<1>14. CASE cost # 0
  <2>1. PICK entry : entry = [age |-> 0, cost |-> cost, told |-> FALSE]
    OBVIOUS
  <2>2. entry \in Entries /\ ~entry.told /\ entry.cost = cost
    BY <1>14, <2>1 DEF Entries
  <2>3. ledger' = Append(ledger, entry)
    BY <1>1, <1>14, <2>1 DEF Answer
  <2>4. /\ LedgerOK' /\ Len(ledger') = Len(ledger) + 1
        /\ \A i \in DOMAIN ledger : i \in DOMAIN ledger' /\ ledger'[i] = ledger[i]
        /\ \A i \in DOMAIN ledger' : ledger'[i].told => i \in DOMAIN ledger
        /\ \A k \in 0..Len(ledger) : Covered(k)' = Covered(k)
        /\ \A k \in {Len(ledger) + 1} : Covered(k)' \in Nat /\ Covered(k)' <= Spent + entry.cost
        /\ Told' = Told
    BY <2>2, <2>3, LedgerGrown DEF LInv
  <2>5. AnswersOK'
    <3> SUFFICES ASSUME NEW q \in Requests, request'[q].pc = "answered" PROVE AnswerOK(request[q].answer)'
      BY DEF AnswersOK
    <3>1. PICK a : a = request'[q].answer
      OBVIOUS
    <3>2. CASE q = r
      <4>1. a = answer /\ DOMAIN a = Headers /\ a.upto = n /\ a.remaining = left /\ a.reports = reports
        BY <1>4, <1>7, <1>9, <3>1, <3>2 DEF Headers
      <4>2. n = Len(ledger) + 1 /\ n \in 0..Len(ledger')
        BY <1>2, <1>11, <2>4
      <4>3. Covered(n)' \in Nat /\ Covered(n)' <= Spent + cost
        BY <2>2, <2>4, <4>2
      <4>4. reports => left <= Less(Limit, Covered(n)')
        BY <1>3, <1>11, <4>3, LessFalls
      <4>5. AnswerOK(a)'
        BY <1>12, <4>1, <4>2, <4>4 DEF AnswerOK, Covered, Tokens
      <4> QED BY <3>1, <4>5 DEF AnswerOK, Covered, Tokens
    <3>3. CASE q # r
      <4>1. AnswerOK(a)
        BY <1>9, <3>1, <3>3 DEF LInv, AnswersOK
      <4>2. a.reports => Covered(a.upto)' = Covered(a.upto) /\ a.upto \in 0..Len(ledger')
        BY <1>11, <2>4, <4>1 DEF AnswerOK
      <4> QED BY <3>1, <4>1, <4>2 DEF AnswerOK, Covered, Tokens
    <3> QED BY <3>2, <3>3
  <2>6. ToldFirst'
    BY <2>4 DEF LInv, ToldFirst
  <2>7. OneKnown' /\ ToldLapses'
    BY <1>5, <2>4 DEF LInv, OneKnown, ToldLapses
  <2>8. Budget'
    BY <1>5, <2>4 DEF LInv, Budget
  <2> QED BY <1>10, <2>4, <2>5, <2>6, <2>7, <2>8 DEF LInv
<1> QED BY <1>13, <1>14

\* An answer that comes with a report.
LEMMA ReportedLedger ==
    ASSUME LedgerOK, ToldFirst, NEW u \in 0..Len(ledger),
           ledger' = [i \in DOMAIN ledger |-> IF i <= u THEN [ledger[i] EXCEPT !.told = TRUE] ELSE ledger[i]]
    PROVE  /\ LedgerOK' /\ Len(ledger') = Len(ledger) /\ ToldFirst' /\ DOMAIN ledger' = DOMAIN ledger
           /\ \A i \in DOMAIN ledger : ledger'[i].age = ledger[i].age
           /\ \A n \in 0..Len(ledger) : Covered(n)' = Covered(n)
           /\ Told' \in Nat
           /\ \/ Told' <= Covered(u)
              \/ Told' = Told /\ \E i \in DOMAIN ledger : ledger[i].told
<1>1. PICK l, m, k : l = ledger /\ m = ledger' /\ k = Len(ledger)
  OBVIOUS
<1>2. /\ l \in Seq(Entries) /\ k = Len(l) /\ k \in Nat /\ DOMAIN l = 1..k /\ IsFiniteSet(1..k)
      /\ m = [i \in DOMAIN l |-> IF i <= u THEN [l[i] EXCEPT !.told = TRUE] ELSE l[i]]
  BY <1>1, LedgerEntries DEF LedgerOK
<1>3. ASSUME NEW i \in 1..k
      PROVE  /\ m[i] \in Entries /\ m[i].age = l[i].age /\ m[i].cost = l[i].cost /\ m[i].cost \in {2, 5}
             /\ m[i].told <=> l[i].told \/ i <= u
  <2>1. l[i] \in Entries
    BY <1>2
  <2>2. CASE i <= u
    <3>1. PICK e : e = [l[i] EXCEPT !.told = TRUE]
      OBVIOUS
    <3>2. e \in Entries /\ e.age = l[i].age /\ e.cost = l[i].cost /\ e.told
      BY <2>1, <3>1 DEF Entries
    <3>3. m[i] = e
      BY <1>2, <2>2, <3>1
    <3> QED BY <2>2, <3>2, <3>3 DEF Entries
  <2>3. CASE ~(i <= u)
    <3>1. m[i] = l[i]
      BY <1>2, <2>3
    <3> QED BY <2>1, <2>3, <3>1 DEF Entries
  <2> QED BY <2>2, <2>3
<1>4. DOMAIN m = 1..k /\ m \in Seq(Entries) /\ Len(m) = k
  <2>1. DOMAIN m = 1..k /\ m \in [1..k -> Entries]
    BY <1>2, <1>3
  <2> QED BY <1>2, <2>1
<1>5. ASSUME NEW n \in 0..k PROVE TokensOf(m, 1..n) = TokensOf(l, 1..n)
  <2>1. \A i \in 1..n : i \in 1..k
    BY <1>2
  <2> QED BY <1>3, <2>1, TokensSame
<1>6. ToldIn(m) = ToldIn(l) \cup 1..u
  BY <1>1, <1>2, <1>3, <1>4 DEF ToldIn
<1>7. ToldFirst'
  <2> SUFFICES ASSUME NEW i \in 1..k, NEW j \in 1..k, m[j].told, i < j PROVE m[i].told
    BY <1>1, <1>4 DEF ToldFirst
  <2>1. CASE j <= u
    BY <1>1, <1>2, <1>3, <2>1
  <2>2. CASE l[j].told
    BY <1>1, <1>2, <1>3, <2>2 DEF ToldFirst
  <2> QED BY <1>3, <2>1, <2>2
<1>8. ToldIn(m) \subseteq 1..k
  BY <1>4 DEF ToldIn
<1>9. Told' = Cardinality(TokensOf(m, ToldIn(m))) /\ Told' \in Nat
  <2>1. Told' = Cardinality(TokensOf(m, ToldIn(m)))
    BY <1>1, TokensAre
  <2>2. PICK T : T = 1..k
    OBVIOUS
  <2>3. IsFiniteSet(T) /\ \A i \in T : m[i].cost \in {2, 5}
    BY <1>2, <1>3, <2>2
  <2>4. Cardinality(TokensOf(m, ToldIn(m))) \in Nat
    BY <1>8, <2>2, <2>3, TokensFewer
  <2> QED BY <2>1, <2>4
<1>10. LedgerOK' /\ \A n \in 0..k : Covered(n)' = Covered(n)
  BY <1>1, <1>4, <1>5, TokensAre DEF LedgerOK
<1>11. CASE ToldIn(l) \subseteq 1..u
  <2>1. ToldIn(m) = 1..u
    BY <1>6, <1>11
  <2>2. Told' = Covered(u)
    BY <1>1, <1>5, <1>9, <2>1, TokensAre
  <2> QED BY <1>1, <1>2, <1>3, <1>4, <1>7, <1>9, <1>10, <2>2
<1>12. CASE ~(ToldIn(l) \subseteq 1..u)
  <2>1. PICK j \in 1..k : l[j].told /\ u < j
    BY <1>1, <1>2, <1>12 DEF ToldIn
  <2>2. 1..u \subseteq ToldIn(l)
    BY <1>1, <1>2, <2>1 DEF ToldIn, ToldFirst
  <2>3. ToldIn(m) = ToldIn(l)
    BY <1>6, <2>2
  <2>4. \A i \in ToldIn(l) : m[i].cost = l[i].cost
    BY <1>2, <1>3 DEF ToldIn
  <2>5. Told' = Told
    <3>1. PICK S : S = ToldIn(l)
      OBVIOUS
    <3>2. TokensOf(m, S) = TokensOf(l, S)
      BY <2>4, <3>1, TokensSame
    <3> QED BY <1>1, <1>9, <2>3, <3>1, <3>2, TokensAre
  <2> QED BY <1>1, <1>2, <1>3, <1>4, <1>7, <1>9, <1>10, <2>1, <2>5
<1> QED BY <1>11, <1>12

\* The report a bucket hears: it believes no more than the report, nor than a live window did.
LEMMA ReportHeard ==
    ASSUME NEW v, BudgetOK(v), DOMAIN v = Columns, NEW answer, answer.reports, answer.remaining \in 0..Limit,
           NEW w, w = Reported(v, answer)
    PROVE  /\ DOMAIN w = Columns /\ BudgetOK(w) /\ w.known = TRUE /\ w.reset = Window
           /\ w.remaining <= answer.remaining
           /\ v.known /\ v.reset > 0 => w.remaining <= v.remaining
<1>1. PICK left : left = IF ~v.known \/ v.reset = 0 \/ answer.remaining < v.remaining THEN answer.remaining ELSE v.remaining
  OBVIOUS
<1>2. w = [v EXCEPT !.remaining = left, !.known = TRUE, !.reset = Window]
  BY <1>1 DEF Reported
<1>3. left \in 0..Limit /\ left <= answer.remaining /\ (v.known /\ v.reset > 0 => left <= v.remaining)
  BY <1>1 DEF BudgetOK
<1>4. DOMAIN w = Columns /\ w.remaining = left /\ w.known = TRUE /\ w.reset = Window /\ w.blocked = v.blocked
  BY <1>2 DEF Columns
<1>5. BudgetOK(w)
  <2>1. Window \in 0..Window
    OBVIOUS
  <2> QED BY <1>2, <1>3, <2>1 DEF BudgetOK
<1> QED BY <1>3, <1>4, <1>5

LEMMA ObserveRequest ==
    ASSUME IInv, LInv, NEW r \in Requests, Observe(r)
    PROVE  /\ request'[r].pc # "answered" /\ CallerOK(request'[r])
           /\ \A q \in Requests \ {r} : request'[q] = request[q]
<1>1. PICK answer : answer = request[r].answer
  OBVIOUS
<1>2. request[r].attempt \in 1..3 /\ Delay \in Away /\ 0 \in Away
  BY DEF LInv, RangesOK, CallerOK, Away
<1>3. CASE answer.status = "final" \/ ~Again(r)
  <2>1. PICK x : x = [Fresh EXCEPT !.pc = "done", !.attempt = request[r].attempt]
    OBVIOUS
  <2>2. CallerOK(x) /\ x.pc = "done"
    BY <1>2, <2>1 DEF Fresh, CallerOK
  <2>3. request' = [request EXCEPT ![r] = x]
    BY <1>1, <1>3, <2>1 DEF Observe
  <2> QED BY <2>2, <2>3, RequestRow DEF IInv
<1>4. CASE ~(answer.status = "final" \/ ~Again(r))
  <2>1. PICK pc, timer, attempt : /\ pc = (IF answer.status = "failed" THEN "asleep" ELSE "queued")
                                  /\ timer = (IF answer.status = "failed" THEN Delay ELSE 0)
                                  /\ attempt = request[r].attempt + 1
    OBVIOUS
  <2>2. PICK x : x = [Fresh EXCEPT !.pc = pc, !.timer = timer, !.attempt = attempt]
    OBVIOUS
  <2>3. attempt \in 1..3
    BY <1>2, <1>4, <2>1 DEF Again
  <2>4. CallerOK(x) /\ x.pc # "answered"
    BY <1>2, <2>1, <2>2, <2>3 DEF Fresh, CallerOK
  <2>5. request' = [request EXCEPT ![r] = x]
    BY <1>1, <1>4, <2>1, <2>2 DEF Observe
  <2> QED BY <2>4, <2>5, RequestRow DEF IInv
<1> QED BY <1>3, <1>4

\* The columns of a released bucket but the reservation.
LEMMA ReleasedCarries ==
    ASSUME BucketsOK, RangesOK, NEW b \in Routes, NEW held, NEW main, NEW w, w = Released(b, held, main)
    PROVE  /\ DOMAIN w = Columns /\ BudgetOK(w)
           /\ w.known = bucket[b].known /\ w.reset = bucket[b].reset /\ w.remaining = bucket[b].remaining
<1>1. DOMAIN bucket[b] = Columns /\ BudgetOK(bucket[b])
  BY DEF BucketsOK, RangesOK
<1>2. CASE w = bucket[b]
  BY <1>1, <1>2
<1>3. CASE w = [bucket[b] EXCEPT !.inflight = bucket[b].inflight - 1]
  BY <1>1, <1>3 DEF Columns, BudgetOK
<1> QED BY <1>2, <1>3 DEF Released

LEMMA BlockedCarries ==
    ASSUME NEW v, DOMAIN v = Columns, BudgetOK(v), NEW w, w = [v EXCEPT !.blocked = Later(@, Delay)]
    PROVE  DOMAIN w = Columns /\ BudgetOK(w) /\ w.known = v.known /\ w.reset = v.reset /\ w.remaining = v.remaining
<1>1. PICK till : till = Later(v.blocked, Delay)
  OBVIOUS
<1>2. till \in 0..Delay
  BY <1>1, LaterIn DEF BudgetOK
<1>3. w = [v EXCEPT !.blocked = till]
  BY <1>1
<1> QED BY <1>2, <1>3 DEF Columns, BudgetOK

LEMMA ObserveLedger == ASSUME IInv, LInv, NEW r \in Requests, Observe(r) PROVE LInv'
<1>1. PICK answer : answer = request[r].answer
  OBVIOUS
<1>2. PICK held \in Routes : held = request[r].held
  BY DEF Observe, Sent, IInv, RequestsOK
<1>3. PICK main \in Routes : main = IF ~answer.reports THEN held ELSE IF ofGroup = None THEN held ELSE ofGroup
  BY DEF IInv, GroupsOK
<1>4. PICK told : told = Reported(Released(main, held, main), answer)
  OBVIOUS
<1>5. PICK top : top = IF answer.status = "refused" THEN [told EXCEPT !.blocked = Later(@, Delay)] ELSE told
  OBVIOUS
<1>6. /\ bucket'[main] = top
      /\ \A b \in Routes \ {main} : bucket'[b] = Released(b, held, main)
  <2>1. bucket' = [b \in Routes |->
                   IF b # main THEN Released(b, held, main)
                   ELSE IF answer.status = "refused"
                        THEN [Reported(Released(b, held, main), answer) EXCEPT !.blocked = Later(@, Delay)]
                        ELSE Reported(Released(b, held, main), answer)]
    BY <1>1, <1>2, <1>3 DEF Observe
  <2> QED BY <1>4, <1>5, <2>1
<1>7. \A b \in Routes \ {main} : BudgetOK(bucket'[b]) /\ bucket'[b].known = bucket[b].known
         /\ bucket'[b].reset = bucket[b].reset /\ bucket'[b].remaining = bucket[b].remaining
  BY <1>6, ReleasedCarries DEF IInv, LInv
<1>8. PICK v : v = Released(main, held, main)
  OBVIOUS
<1>9. /\ DOMAIN v = Columns /\ BudgetOK(v)
      /\ v.known = bucket[main].known /\ v.reset = bucket[main].reset /\ v.remaining = bucket[main].remaining
  BY <1>8, ReleasedCarries DEF IInv, LInv
<1>10. /\ request'[r].pc # "answered" /\ CallerOK(request'[r])
       /\ \A q \in Requests \ {r} : request'[q] = request[q]
  BY ObserveRequest
<1>11. /\ groups' = IF answer.reports THEN groups \cup {RouteOf[r]} ELSE groups
       /\ ofGroup' = IF answer.reports THEN main ELSE ofGroup
       /\ stopped' \in {Later(stopped, Delay), stopped}
       /\ ledger' = [i \in DOMAIN ledger |->
             IF answer.reports /\ i <= answer.upto THEN [ledger[i] EXCEPT !.told = TRUE] ELSE ledger[i]]
  BY <1>1, <1>2, <1>3 DEF Observe
<1>12. groups' \subseteq Routes /\ stopped' \in 0..Delay
  <2>1. groups \subseteq Routes /\ stopped \in 0..Delay /\ Delay \in 0..Delay
    BY DEF LInv, RangesOK
  <2>2. Later(stopped, Delay) \in 0..Delay
    BY <2>1, LaterIn
  <2> QED BY <1>11, <2>1, <2>2
<1>13. CASE ~answer.reports
  <2>1. told = v
    BY <1>4, <1>8, <1>13 DEF Reported
  <2>2. BudgetOK(top) /\ top.known = v.known /\ top.reset = v.reset /\ top.remaining = v.remaining
    BY <1>5, <1>9, <2>1, BlockedCarries
  <2>3. \A b \in Routes : Carried(bucket[b], bucket'[b]) /\ BudgetOK(bucket'[b])
    BY <1>6, <1>7, <1>9, <2>2 DEF Carried
  <2>4. UNCHANGED <<ledger, ofGroup>>
    <3>1. ledger' = ledger
      BY <1>11, <1>13 DEF LInv, LedgerOK
    <3> QED BY <1>11, <1>13, <3>1
  <2> QED BY <1>10, <1>12, <2>3, <2>4, QuietStep
<1>14. CASE answer.reports
  <2>1. AnswerOK(answer)
    BY <1>1 DEF Observe, LInv, AnswersOK
  <2>2. PICK u \in 0..Len(ledger) : u = answer.upto
    BY <1>14, <2>1 DEF AnswerOK
  <2>3. /\ DOMAIN told = Columns /\ BudgetOK(told) /\ told.known = TRUE /\ told.reset = Window
        /\ told.remaining <= answer.remaining
        /\ v.known /\ v.reset > 0 => told.remaining <= v.remaining
    BY <1>4, <1>8, <1>9, <1>14, <2>1, ReportHeard DEF AnswerOK
  <2>4. /\ BudgetOK(top) /\ top.known = TRUE /\ top.reset = Window /\ top.remaining = told.remaining
    BY <1>5, <2>3, BlockedCarries
  <2>5. /\ LedgerOK' /\ Len(ledger') = Len(ledger) /\ ToldFirst' /\ DOMAIN ledger' = DOMAIN ledger
        /\ \A i \in DOMAIN ledger : ledger'[i].age = ledger[i].age
        /\ \A n \in 0..Len(ledger) : Covered(n)' = Covered(n)
        /\ Told' \in Nat
        /\ \/ Told' <= Covered(u)
           \/ Told' = Told /\ \E i \in DOMAIN ledger : ledger[i].told
    <3>1. ledger' = [i \in DOMAIN ledger |-> IF i <= u THEN [ledger[i] EXCEPT !.told = TRUE] ELSE ledger[i]]
      BY <1>11, <1>14, <2>2
    <3> QED BY <3>1, ReportedLedger DEF LInv
  <2>6. ofGroup' = main
    BY <1>11, <1>14
  <2>7. OneKnown'
    <3> SUFFICES ASSUME NEW b \in Routes, bucket'[b].known, b # main PROVE FALSE
      BY <2>6 DEF OneKnown
    <3>1. bucket[b].known
      BY <1>7
    <3>2. b = ofGroup /\ ofGroup # None
      BY <3>1 DEF LInv, OneKnown
    <3> QED BY <1>3, <1>14, <3>2
  <2>8. ToldLapses'
    <3> SUFFICES ASSUME NEW i \in DOMAIN ledger
                 PROVE  main \in Routes /\ bucket'[main].known /\ ledger'[i].age + bucket'[main].reset >= Window
      BY <2>5, <2>6 DEF ToldLapses
    <3>1. PICK age \in 0..Window - 1 : age = ledger'[i].age
      BY <2>5, LedgerEntries DEF LInv
    <3>2. age + Window >= Window
      OBVIOUS
    <3> QED BY <1>6, <2>4, <3>1, <3>2
  <2>9. Budget'
    <3> SUFFICES ASSUME NEW b \in Routes, bucket'[b].known PROVE bucket'[b].remaining <= Less(Limit, Told')
      BY DEF Budget
    <3>1. b = main /\ bucket'[b].remaining = told.remaining /\ told.remaining \in 0..Limit
      BY <1>6, <2>3, <2>4, <2>6, <2>7 DEF OneKnown, BudgetOK
    <3>2. CASE Told' <= Covered(u)
      <4>1. Covered(u) \in Nat
        BY SpentTold DEF LInv
      <4>2. Less(Limit, Covered(u)) <= Less(Limit, Told') /\ Less(Limit, Covered(u)) \in Nat /\ Less(Limit, Told') \in Nat
        BY <2>5, <3>2, <4>1, LessFalls
      <4>3. answer.remaining <= Less(Limit, Covered(u)) /\ answer.remaining \in 0..Limit
        BY <1>14, <2>1, <2>2 DEF AnswerOK
      <4> QED BY <2>3, <3>1, <4>2, <4>3
    <3>3. CASE Told' = Told /\ \E i \in DOMAIN ledger : ledger[i].told
      <4>1. PICK i \in DOMAIN ledger : ledger[i].told
        BY <3>3
      <4>2. ofGroup \in Routes /\ bucket[ofGroup].known
        BY <4>1 DEF LInv, ToldLapses
      <4>3. main = ofGroup
        BY <1>3, <1>14, <4>2
      <4>4. bucket[main].reset # 0
        BY <4>1, <4>2, <4>3, NothingTold DEF ToldIn
      <4>5. bucket[main].reset > 0
        BY <4>4 DEF LInv, RangesOK, BudgetOK
      <4>6. bucket[main].remaining <= Less(Limit, Told)
        BY <4>2, <4>3, <4>5 DEF LInv, Budget
      <4>7. told.remaining <= bucket[main].remaining /\ bucket[main].remaining \in 0..Limit
        BY <1>9, <2>3, <4>2, <4>3, <4>5 DEF LInv, RangesOK, BudgetOK
      <4>8. Told \in Nat
        BY SpentTold DEF LInv
      <4>9. Less(Limit, Told) \in Nat
        BY <4>8 DEF Less
      <4> QED BY <3>1, <3>3, <4>6, <4>7, <4>9
    <3> QED BY <2>5, <3>2, <3>3
  <2>10. AnswersOK'
    <3> SUFFICES ASSUME NEW q \in Requests, request'[q].pc = "answered" PROVE AnswerOK(request[q].answer)'
      BY DEF AnswersOK
    <3>1. PICK a : a = request'[q].answer
      OBVIOUS
    <3>2. AnswerOK(a)
      BY <1>10, <3>1 DEF LInv, AnswersOK
    <3>3. a.reports => Covered(a.upto)' = Covered(a.upto) /\ a.upto \in 0..Len(ledger')
      BY <2>5, <3>2 DEF AnswerOK
    <3> QED BY <3>1, <3>2, <3>3 DEF AnswerOK, Covered, Tokens
  <2>11. RangesOK'
    <3>1. ASSUME NEW q \in Requests PROVE CallerOK(request'[q])
      BY <1>10 DEF LInv, RangesOK
    <3>2. ASSUME NEW b \in Routes PROVE BudgetOK(bucket'[b])
      BY <1>6, <1>7, <2>4
    <3> QED BY <1>12, <3>1, <3>2 DEF RangesOK, CallerOK, BudgetOK
  <2> QED BY <2>5, <2>7, <2>8, <2>9, <2>10, <2>11 DEF LInv
<1> QED BY <1>13, <1>14

LEMMA LessStays == \A m, k \in Nat : \A x \in 0..m : Less(x, k) \in 0..m
BY DEF Less

LEMMA FunctionsAreSequences == ASSUME NEW S, NEW n \in Nat, NEW s \in [1..n -> S] PROVE s \in Seq(S)
OBVIOUS

\* A tick: what is a window old leaves the front of the ledger.
LEMMA LedgerShifted ==
    ASSUME LedgerOK, ToldFirst, NEW gone \in 0..Len(ledger),
           \A i \in DOMAIN ledger : i <= gone <=> ledger[i].age + 1 >= Window,
           ledger' = [i \in 1..Len(ledger) - gone |-> [ledger[i + gone] EXCEPT !.age = @ + 1]]
    PROVE  /\ LedgerOK' /\ Len(ledger') = Len(ledger) - gone /\ ToldFirst'
           /\ \A i \in DOMAIN ledger' :
                 /\ i + gone \in DOMAIN ledger /\ ledger'[i].told = ledger[i + gone].told
                 /\ ledger'[i].age = ledger[i + gone].age + 1
           /\ \A u \in 0..Len(ledger), n \in Nat : n = Less(u, gone) =>
                 n \in 0..Len(ledger') /\ Covered(n)' \in Nat /\ Covered(n)' <= Covered(u)
           /\ Told' \in Nat /\ Told' <= Told
<1>1. PICK l, m, k : l = ledger /\ m = ledger' /\ k = Len(ledger)
  OBVIOUS
<1>2. /\ l \in Seq(Entries) /\ k \in Nat /\ DOMAIN l = 1..k /\ IsFiniteSet(1..k)
      /\ gone \in 0..k /\ \A i \in 1..k : l[i].cost \in {2, 5} /\ (i <= gone <=> l[i].age + 1 >= Window)
  BY <1>1, LedgerEntries DEF LedgerOK
<1>3. PICK p \in Nat : p = k - gone /\ m = [i \in 1..p |-> [l[i + gone] EXCEPT !.age = l[i + gone].age + 1]]
  BY <1>1, <1>2
<1>4. ASSUME NEW i \in 1..p
      PROVE  /\ i + gone \in 1..k /\ m[i] \in Entries /\ m[i].told = l[i + gone].told
             /\ m[i].cost = l[i + gone].cost /\ m[i].age = l[i + gone].age + 1 /\ m[i].cost \in {2, 5}
  <2>1. i + gone \in 1..k /\ ~(i + gone <= gone)
    BY <1>2, <1>3
  <2>2. PICK e \in Entries : e = l[i + gone]
    BY <1>2, <2>1
  <2>3. e.age \in 0..Window - 1 /\ e.age + 1 \in 0..Window - 1
    <3>1. e.age \in 0..Window - 1
      BY DEF Entries
    <3>2. ~(e.age + 1 >= Window)
      BY <1>2, <2>1, <2>2
    <3>3. PICK a \in 0..Window - 1 : a = e.age
      BY <3>1
    <3>4. ~(a + 1 >= Window)
      BY <3>2, <3>3
    <3>5. a + 1 \in 0..Window - 1
      BY <3>4
    <3> QED BY <3>1, <3>3, <3>5
  <2>4. PICK age : age = e.age + 1
    OBVIOUS
  <2>5. PICK d : d = [e EXCEPT !.age = age]
    OBVIOUS
  <2>6. d \in Entries /\ d.told = e.told /\ d.cost = e.cost /\ d.age = age /\ d.cost \in {2, 5}
    BY <2>3, <2>4, <2>5 DEF Entries
  <2>7. m[i] = d
    BY <1>3, <2>2, <2>4, <2>5
  <2> QED BY <2>1, <2>2, <2>4, <2>6, <2>7
<1>5. DOMAIN m = 1..p /\ m \in Seq(Entries) /\ Len(m) = p
  <2>1. m \in [1..p -> Entries]
    BY <1>3, <1>4
  <2>2. DOMAIN m = 1..p
    BY <2>1
  <2>3. m \in Seq(Entries)
    BY <2>1, FunctionsAreSequences
  <2>4. Len(m) = p
    BY <2>2, <2>3
  <2> QED BY <2>2, <2>3, <2>4
<1>6. ASSUME NEW S \in SUBSET (1..p), NEW T \in SUBSET (1..k), \A i \in S : i + gone \in T
      PROVE  /\ Cardinality(TokensOf(m, S)) \in Nat /\ Cardinality(TokensOf(l, T)) \in Nat
             /\ Cardinality(TokensOf(m, S)) <= Cardinality(TokensOf(l, T))
  <2>1. IsFiniteSet(T) /\ \A i \in T : l[i].cost \in {2, 5}
    BY <1>2, <1>6, FS_Subset
  <2>2. S \in SUBSET Nat /\ \A i \in S : i + gone \in T /\ m[i].cost = l[i + gone].cost
    BY <1>4, <1>6
  <2>3. gone \in Nat
    BY <1>2
  <2> QED BY <2>1, <2>2, <2>3, TokensShifted
<1>7. ASSUME NEW u \in 0..k, NEW n \in Nat, n = Less(u, gone)
      PROVE  n \in 0..p /\ Covered(n)' \in Nat /\ Covered(n)' <= Covered(u)
  <2>1. n = IF u > gone THEN u - gone ELSE 0
    BY <1>7 DEF Less
  <2>5. n \in 0..p
    BY <1>2, <1>3, <2>1
  <2>6. ASSUME NEW i \in 1..n PROVE i + gone \in 1..u
    <3>1. PICK a, b, c \in Int : a = u /\ b = gone /\ c = i
      BY <1>2
    <3>2. a \in Nat /\ b \in Nat /\ n \in Nat /\ c \in 1..n
      BY <1>2, <3>1
    <3>3. n = a - b /\ a > b
      BY <2>1, <3>1, <3>2
    <3>4. 1 <= c /\ c <= n
      BY <3>2
    <3>5. 1 <= c + b /\ c + b <= a
      <4>1. c \in Nat /\ c <= a - b /\ 1 <= c
        BY <3>2, <3>3, <3>4
      <4> QED BY <3>2, <4>1, ShiftUp
    <3>6. c + b \in 1..a
      BY <3>5
    <3> QED BY <3>1, <3>6
  <2>2. PICK S, T : S = 1..n /\ T = 1..u
    OBVIOUS
  <2>3. S \subseteq 1..p /\ T \subseteq 1..k
    BY <1>2, <1>3, <2>5, <2>2
  <2>4. /\ Cardinality(TokensOf(m, S)) \in Nat /\ Cardinality(TokensOf(m, S)) <= Cardinality(TokensOf(l, T))
    BY <1>6, <2>6, <2>2, <2>3
  <2> QED BY <1>1, <2>5, <2>2, <2>4, TokensAre
<1>8. Told' \in Nat /\ Told' <= Told
  <2>1. PICK S, T : S = ToldIn(m) /\ T = ToldIn(l)
    OBVIOUS
  <2>2. S \subseteq 1..p /\ T \subseteq 1..k /\ \A i \in S : i + gone \in T
    BY <1>2, <1>4, <1>5, <2>1 DEF ToldIn
  <2>3. /\ Cardinality(TokensOf(m, S)) \in Nat /\ Cardinality(TokensOf(m, S)) <= Cardinality(TokensOf(l, T))
    BY <1>6, <2>2
  <2> QED BY <1>1, <2>1, <2>3, TokensAre
<1>9. ToldFirst'
  <2> SUFFICES ASSUME NEW i \in 1..p, NEW j \in 1..p, m[j].told, i < j PROVE m[i].told
    BY <1>1, <1>5 DEF ToldFirst
  <2>1. i + gone < j + gone
    BY <1>2
  <2>3. i + gone \in 1..k /\ j + gone \in 1..k /\ l[j + gone].told
    BY <1>4
  <2>2. l[i + gone].told
    BY <1>1, <1>2, <2>1, <2>3 DEF ToldFirst
  <2> QED BY <1>4, <2>2
<1>10. LedgerOK'
  BY <1>1, <1>5 DEF LedgerOK
<1> QED BY <1>1, <1>2, <1>4, <1>5, <1>7, <1>8, <1>9, <1>10, <1>3

LEMMA TickLedger == ASSUME IInv, LInv, Tick PROVE LInv'
<1>1. PICK gone \in 0..Len(ledger) :
         /\ \A i \in DOMAIN ledger : i <= gone <=> ledger[i].age + 1 >= Window
         /\ ledger' = [i \in 1..Len(ledger) - gone |-> [ledger[i + gone] EXCEPT !.age = @ + 1]]
         /\ request' = [q \in Requests |->
                IF request[q].pc = "answered" THEN [request[q] EXCEPT !.answer = Shifted(@, gone)]
                ELSE [request[q] EXCEPT !.timer = Less(@, 1)]]
  BY DEF Tick
<1>2. /\ LedgerOK' /\ Len(ledger') = Len(ledger) - gone /\ ToldFirst'
      /\ \A i \in DOMAIN ledger' :
            /\ i + gone \in DOMAIN ledger /\ ledger'[i].told = ledger[i + gone].told
            /\ ledger'[i].age = ledger[i + gone].age + 1
      /\ \A u \in 0..Len(ledger), n \in Nat : n = Less(u, gone) =>
            n \in 0..Len(ledger') /\ Covered(n)' \in Nat /\ Covered(n)' <= Covered(u)
      /\ Told' \in Nat /\ Told' <= Told
  BY <1>1, LedgerShifted DEF LInv
<1>3. UNCHANGED <<groups, ofGroup>> /\ stopped' = Less(stopped, 1)
  BY DEF Tick
<1>4. ASSUME NEW b \in Routes
      PROVE  /\ BudgetOK(bucket'[b]) /\ bucket'[b].known = bucket[b].known
             /\ bucket'[b].remaining = bucket[b].remaining /\ bucket'[b].reset = Less(bucket[b].reset, 1)
  <2>1. PICK reset, blocked : reset = Less(bucket[b].reset, 1) /\ blocked = Less(bucket[b].blocked, 1)
    OBVIOUS
  <2>2. BudgetOK(bucket[b]) /\ DOMAIN bucket[b] = Columns
    BY DEF LInv, RangesOK, IInv, BucketsOK
  <2>3. reset \in 0..Window /\ blocked \in 0..Delay
    BY <2>1, <2>2, LessStays DEF BudgetOK
  <2>4. PICK v : v = [bucket[b] EXCEPT !.reset = reset, !.blocked = blocked]
    OBVIOUS
  <2>5. BudgetOK(v) /\ v.known = bucket[b].known /\ v.remaining = bucket[b].remaining /\ v.reset = reset
    BY <2>2, <2>3, <2>4 DEF BudgetOK, Columns
  <2>6. bucket'[b] = v
    BY <2>1, <2>4 DEF Tick
  <2> QED BY <2>1, <2>5, <2>6
<1>5. OneKnown'
  BY <1>3, <1>4 DEF LInv, OneKnown
<1>6. ToldLapses'
  <2> SUFFICES ASSUME NEW i \in DOMAIN ledger', ledger'[i].told
               PROVE  ofGroup \in Routes /\ bucket'[ofGroup].known /\ ledger'[i].age + bucket'[ofGroup].reset >= Window
    BY <1>3 DEF ToldLapses
  <2>1. PICK j \in DOMAIN ledger : j = i + gone
    BY <1>2
  <2>2. ledger[j].told /\ ledger'[i].age = ledger[j].age + 1
    BY <1>2, <2>1
  <2>3. ofGroup \in Routes /\ bucket[ofGroup].known /\ ledger[j].age + bucket[ofGroup].reset >= Window
    BY <2>2 DEF LInv, ToldLapses
  <2>4. bucket[ofGroup].reset # 0
    BY <2>2, <2>3, NothingTold DEF ToldIn
  <2>5. PICK reset \in 0..Window : reset = bucket[ofGroup].reset
    BY <2>3 DEF LInv, RangesOK, BudgetOK
  <2>6. PICK age \in 0..Window - 1 : age = ledger[j].age
    BY LedgerEntries DEF LInv
  <2>7. bucket'[ofGroup].reset = reset - 1
    BY <1>4, <2>3, <2>4, <2>5 DEF Less
  <2>8. age + reset >= Window
    BY <2>3, <2>5, <2>6
  <2>9. age + 1 + (reset - 1) >= Window
    BY <2>8
  <2> QED BY <1>4, <2>2, <2>3, <2>6, <2>7, <2>9
<1>7. Budget'
  <2> SUFFICES ASSUME NEW b \in Routes, bucket'[b].known, bucket'[b].reset > 0 PROVE bucket'[b].remaining <= Less(Limit, Told')
    BY DEF Budget
  <2>1. bucket[b].known /\ bucket[b].reset \in 0..Window /\ bucket[b].remaining \in 0..Limit /\ bucket'[b].remaining = bucket[b].remaining
    BY <1>4 DEF LInv, RangesOK, BudgetOK
  <2>2. bucket[b].reset > 0
    BY <1>4, <2>1 DEF Less
  <2>3. bucket[b].remaining <= Less(Limit, Told) /\ Told \in Nat
    BY <2>1, <2>2, SpentTold DEF LInv, Budget
  <2>4. Less(Limit, Told) <= Less(Limit, Told') /\ Less(Limit, Told) \in Nat /\ Less(Limit, Told') \in Nat
    BY <1>2, <2>3, LessFalls
  <2> QED BY <2>1, <2>3, <2>4
<1>8. ASSUME NEW q \in Requests
      PROVE  /\ CallerOK(request'[q]) /\ request'[q].pc = request[q].pc
             /\ request[q].pc = "answered" => request'[q].answer = Shifted(request[q].answer, gone)
  <2>1. DOMAIN request[q] = Fields /\ CallerOK(request[q])
    BY DEF IInv, RequestsOK, LInv, RangesOK
  <2>2. CASE request[q].pc = "answered"
    <3>1. PICK answer : answer = Shifted(request[q].answer, gone)
      OBVIOUS
    <3>2. PICK x : x = [request[q] EXCEPT !.answer = answer]
      OBVIOUS
    <3>3. request'[q] = x
      BY <1>1, <2>2, <3>1, <3>2
    <3> QED BY <2>1, <3>1, <3>2, <3>3 DEF Fields, CallerOK
  <2>3. CASE request[q].pc # "answered"
    <3>1. PICK timer : timer = Less(request[q].timer, 1)
      OBVIOUS
    <3>2. timer \in Away
      BY <2>1, <3>1 DEF CallerOK, Away, Less
    <3>3. PICK x : x = [request[q] EXCEPT !.timer = timer]
      OBVIOUS
    <3>4. request'[q] = x
      BY <1>1, <2>3, <3>1, <3>3
    <3> QED BY <2>1, <2>3, <3>2, <3>3, <3>4 DEF Fields, CallerOK
  <2> QED BY <2>2, <2>3
<1>9. AnswersOK'
  <2> SUFFICES ASSUME NEW q \in Requests, request'[q].pc = "answered" PROVE AnswerOK(request[q].answer)'
    BY DEF AnswersOK
  <2>1. PICK a, d : a = request[q].answer /\ d = request'[q].answer
    OBVIOUS
  <2>2. AnswerOK(a) /\ d = Shifted(a, gone)
    BY <1>8, <2>1 DEF LInv, AnswersOK
  <2>3. PICK n : n = Less(a.upto, gone)
    OBVIOUS
  <2>4. /\ DOMAIN d = Headers /\ d.reports = a.reports /\ d.remaining = a.remaining /\ d.upto = n
    <3>1. d = [a EXCEPT !.upto = n]
      BY <2>2, <2>3 DEF Shifted
    <3> QED BY <2>2, <3>1 DEF AnswerOK, Headers
  <2>5. CASE a.reports
    <3>1. a.upto \in 0..Len(ledger) /\ a.remaining \in 0..Limit /\ a.remaining <= Less(Limit, Covered(a.upto))
      BY <2>2, <2>5 DEF AnswerOK
    <3>2. n \in Nat
      BY <1>1, <2>3, <3>1 DEF Less
    <3>3. n \in 0..Len(ledger') /\ Covered(n)' \in Nat /\ Covered(n)' <= Covered(a.upto)
      BY <1>2, <2>3, <3>1, <3>2
    <3>4. Covered(a.upto) \in Nat
      BY <3>1, SpentTold DEF LInv
    <3>5. Less(Limit, Covered(a.upto)) <= Less(Limit, Covered(n)') /\ Less(Limit, Covered(a.upto)) \in Nat /\ Less(Limit, Covered(n)') \in Nat
      BY <3>3, <3>4, LessFalls
    <3>6. a.remaining <= Less(Limit, Covered(n)')
      BY <3>1, <3>5
    <3>7. AnswerOK(d)'
      BY <2>4, <2>5, <3>1, <3>3, <3>6 DEF AnswerOK, Covered, Tokens
    <3> QED BY <2>1, <3>7 DEF AnswerOK, Covered, Tokens
  <2>6. CASE ~a.reports
    BY <2>1, <2>4, <2>6 DEF AnswerOK
  <2> QED BY <2>5, <2>6
<1>10. RangesOK'
  <2>1. groups \subseteq Routes /\ stopped \in 0..Delay
    BY DEF LInv, RangesOK
  <2>2. stopped' \in 0..Delay
    BY <1>3, <2>1 DEF Less
  <2> QED BY <1>3, <1>4, <1>8, <2>1, <2>2 DEF RangesOK, CallerOK, BudgetOK
<1> QED BY <1>2, <1>5, <1>6, <1>7, <1>9, <1>10 DEF LInv

-----------------------------------------------------------------------------
(* The invariant of the ledger *)

LEMMA LedgerInit == Init => LInv
<1> SUFFICES ASSUME Init PROVE LInv
  OBVIOUS
<1>1. LedgerOK /\ DOMAIN ledger = {}
  BY DEF Init, LedgerOK
<1>2. AnswersOK
  BY DEF Init, AnswersOK, Fresh
<1>3. OneKnown /\ Budget
  BY DEF Init, OneKnown, Budget, Unknown
<1>4. RangesOK
  <2>1. CallerOK(Fresh)
    BY DEF CallerOK, Fresh, Away
  <2>2. BudgetOK(Unknown)
    BY DEF BudgetOK, Unknown
  <2> QED BY <2>1, <2>2 DEF Init, RangesOK
<1> QED BY <1>1, <1>2, <1>3, <1>4 DEF LInv, ToldFirst, ToldLapses

LEMMA LedgerStep == IInv /\ LInv /\ [Next]_vars => LInv'
<1> SUFFICES ASSUME IInv, LInv, [Next]_vars PROVE LInv'
  OBVIOUS
<1>1. CASE Tick
  BY <1>1, TickLedger
<1>2. ASSUME NEW r \in Requests, RequestNext(r) \/ Break(r) PROVE LInv'
  BY <1>2, AdmitLedger, WakeLedger, ServeLedger, ObserveLedger, BreakLedger DEF RequestNext
<1>3. CASE UNCHANGED vars
  <2>1. LedgerOK' /\ ToldFirst' /\ OneKnown' /\ ToldLapses' /\ Budget'
    BY <1>3, LedgerFrame DEF vars, Carried
  <2>2. AnswersOK'
    BY <1>3, AnswersFrame DEF vars, LInv
  <2>3. RangesOK'
    BY <1>3 DEF vars, LInv, RangesOK, CallerOK, BudgetOK
  <2> QED BY <2>1, <2>2, <2>3 DEF LInv
<1> QED BY <1>1, <1>2, <1>3 DEF Next

LEMMA LedgerInvariance == Spec => [](IInv /\ LInv)
<1>1. Init => IInv /\ LInv
  BY InvInit, LedgerInit
<1>2. (IInv /\ LInv) /\ [Next]_vars => (IInv /\ LInv)'
  BY InvStep, LedgerStep
<1> QED BY <1>1, <1>2, PTL DEF Spec

\* Every caller, bucket and deadline stays in its range: a sleeper's timer, a bucket's window and
\* its blocking, and a reservation count no greater than the requests there are.
THEOREM TransportTypes == Spec => []TypeOK
<1>1. IInv /\ LInv => TypeOK
  <2> SUFFICES ASSUME IInv, LInv PROVE TypeOK
    OBVIOUS
  <2>1. ASSUME NEW b \in Routes
        PROVE  bucket[b] \in [remaining : 0..Limit, known : BOOLEAN, reset : 0..Window,
                              blocked : 0..Delay, inflight : 0..Cardinality(Requests)]
    <3>1. PICK v : v = bucket[b]
      OBVIOUS
    <3>2. BudgetOK(v)
      BY <3>1 DEF LInv, RangesOK
    <3>3. v.inflight \in 0..Cardinality(Requests)
      <4>1. Holders(b) \subseteq Requests /\ v.inflight = Cardinality(Holders(b))
        BY <3>1 DEF Holders, IInv, InflightExact
      <4>2. Cardinality(Holders(b)) \in Nat /\ Cardinality(Requests) \in Nat /\ Cardinality(Holders(b)) <= Cardinality(Requests)
        BY <4>1, FS_Subset, FS_CardinalityType
      <4> QED BY <4>1, <4>2
    <3> QED BY <3>1, <3>2, <3>3 DEF BudgetOK
  <2>2. bucket \in [Routes -> [remaining : 0..Limit, known : BOOLEAN, reset : 0..Window,
                               blocked : 0..Delay, inflight : 0..Cardinality(Requests)]]
    <3>1. bucket = [b \in Routes |-> bucket[b]]
      BY DEF IInv, BucketsOK
    <3> QED BY <2>1, <3>1
  <2> QED BY <2>2 DEF TypeOK, LInv, RangesOK, CallerOK, IInv, GroupsOK
<1> QED BY <1>1, LedgerInvariance, PTL

\* In whatever order answers come back, windows end and buckets become a group's, no bucket
\* believes in more than the limit less the live consumption it was told of (observe and reserve).
THEOREM BudgetsConservative == Spec => []Conservative
<1>1. IInv /\ LInv => Conservative
  <2> SUFFICES ASSUME IInv, LInv, NEW b \in Routes, bucket[b].known
               PROVE  IF bucket[b].reset = 0 THEN Told = 0 ELSE bucket[b].remaining <= Less(Limit, Told)
    BY DEF Conservative
  <2>1. CASE bucket[b].reset = 0
    BY <2>1, NothingTold
  <2>2. CASE bucket[b].reset # 0
    <3>1. bucket[b].reset > 0
      BY <2>2 DEF LInv, RangesOK, BudgetOK
    <3> QED BY <2>2, <3>1 DEF LInv, Budget
  <2> QED BY <2>1, <2>2
<1> QED BY <1>1, LedgerInvariance, PTL

=============================================================================
