---------------------- MODULE MembershipMonitorProofs ----------------------
(* Proofs about MembershipMonitor: any number of processes, analysts and       *)
(* requests that overlap each other.                                           *)
EXTENDS MembershipMonitor, TLAPS

Columns == {"enabled", "status", "requester", "poll", "lease"}
Rows == [enabled : BOOLEAN, status : Statuses, requester : Users \cup {None},
         poll : {"none", "later", "now"}, lease : Processes \cup {None},
         lapsed : BOOLEAN, recent : BOOLEAN, counted : BOOLEAN]

\* A request writes no lease but an empty one.
Formed(f) ==
    /\ f.wish \in Rows /\ f.writes \subseteq Columns /\ f.open \in BOOLEAN
    /\ f.pause \in BOOLEAN /\ (f.pause => f.open)
    /\ "lease" \in f.writes => f.wish.lease = None

\* Saved over the row it has read, a request that is no pause leaves a time to count where
\* there was one or sets one, and a pause switches the monitor off.
Careful(f) ==
    f.open =>
       \/ "poll" \in f.writes /\ f.wish.poll = "now"
       \/ "poll" \notin f.writes /\ ("enabled" \notin f.writes \/ f.seen.set)
       \/ "enabled" \in f.writes /\ ~f.wish.enabled
       \/ "enabled" \notin f.writes /\ ~f.seen.enabled

\* A pause takes the lease it has seen.
Fencing(f) == f.pause => ("lease" \in f.writes \/ f.seen.lease = None)

RowOK == row \in Rows /\ (row.lapsed => row.lease # None) /\ permitted \subseteq Users
DayOK == day \in {"none", "partial", "complete"} /\ (row.counted => day = "complete")
PhasesOK == phase \in [Processes -> {"idle", "counting"}]
FormsOK ==
    /\ form = [r \in Requests |-> form[r]]
    /\ \A r \in Requests : Formed(form[r]) /\ Careful(form[r]) /\ Fencing(form[r])
Fenced ==
    /\ withdrawn \subseteq Working /\ leaky \in BOOLEAN
    /\ ~leaky => \A p \in withdrawn : row.lease # p

IInv == RowOK /\ DayOK /\ PhasesOK /\ FormsOK /\ Fenced

USE NobodyOK

-----------------------------------------------------------------------------
(* The forms *)

LEMMA NoFormOK == Formed(NoForm) /\ Careful(NoForm) /\ Fencing(NoForm)
BY DEF NoForm, Created, Seen, Formed, Rows, Statuses, Columns, Careful, Fencing

\* What the four kinds of wishes make of the row.
LEMMA Wished ==
    ASSUME RowOK, NEW u \in Users, NEW wish \in Wishes(u)
    PROVE  /\ wish \in Rows
           /\ Writes(wish) \subseteq Columns
           /\ \/ wish = Paused /\ ~wish.enabled /\ wish.lease = None
              \/ ~Active /\ wish.poll = "now" /\ wish.lease = None /\ wish # Paused
              \/ Active /\ wish.poll = row.poll /\ wish.lease = row.lease /\ wish # Paused
<1>1. row \in Rows
  BY DEF RowOK
<1>2. CASE wish = Paused
  <2>1. wish = [enabled |-> FALSE, status |-> "paused", requester |-> row.requester, poll |-> "none",
                lease |-> None, lapsed |-> row.lapsed, recent |-> row.recent, counted |-> row.counted]
    BY <1>1, <1>2 DEF Paused, Rows
  <2>2. wish \in Rows /\ wish.lapsed = row.lapsed /\ wish.recent = row.recent /\ wish.counted = row.counted
    BY <1>1, <2>1 DEF Rows, Statuses
  <2>3. DOMAIN row = Columns \cup {"lapsed", "recent", "counted"}
    BY <1>1 DEF Rows, Columns
  <2>4. Writes(wish) \subseteq Columns
    BY <2>2, <2>3 DEF Writes, Columns
  <2>5. ~wish.enabled /\ wish.lease = None
    BY <2>1
  <2> QED BY <1>2, <2>2, <2>4, <2>5
<1>3. ASSUME NEW on \in BOOLEAN, wish = Queued(u, on), ~Active
      PROVE  /\ wish \in Rows /\ Writes(wish) \subseteq Columns
             /\ wish.poll = "now" /\ wish.lease = None /\ wish # Paused
  <2>1. wish = [enabled |-> on, status |-> "queued", requester |-> u, poll |-> "now",
                lease |-> None, lapsed |-> row.lapsed, recent |-> row.recent, counted |-> row.counted]
    BY <1>1, <1>3 DEF Queued, Rows
  <2>2. wish \in Rows /\ wish.lapsed = row.lapsed /\ wish.recent = row.recent /\ wish.counted = row.counted
    BY <1>1, <2>1 DEF Rows, Statuses
  <2>3. DOMAIN row = Columns \cup {"lapsed", "recent", "counted"}
    BY <1>1 DEF Rows, Columns
  <2>4. Writes(wish) \subseteq Columns
    BY <2>2, <2>3 DEF Writes, Columns
  <2>5. Paused.poll = "none"
    BY <1>1 DEF Paused, Rows
  <2> QED BY <2>1, <2>2, <2>4, <2>5
<1>4. ASSUME NEW on \in BOOLEAN, wish = Joined(u, on), Active
      PROVE  /\ wish \in Rows /\ Writes(wish) \subseteq Columns
             /\ wish.poll = row.poll /\ wish.lease = row.lease /\ wish # Paused
  <2>1. wish = [enabled |-> on, status |-> row.status, requester |-> u, poll |-> row.poll,
                lease |-> row.lease, lapsed |-> row.lapsed, recent |-> row.recent, counted |-> row.counted]
    BY <1>1, <1>4 DEF Joined, Rows
  <2>2. wish \in Rows /\ wish.lapsed = row.lapsed /\ wish.recent = row.recent /\ wish.counted = row.counted
    BY <1>1, <2>1 DEF Rows, Statuses
  <2>3. DOMAIN row = Columns \cup {"lapsed", "recent", "counted"}
    BY <1>1 DEF Rows, Columns
  <2>4. Writes(wish) \subseteq Columns
    BY <2>2, <2>3 DEF Writes, Columns
  <2>5. Paused.poll = "none"
    BY <1>1 DEF Paused, Rows
  <2> QED BY <1>4, <2>1, <2>2, <2>4, <2>5 DEF Active
<1>5. row.enabled \in BOOLEAN
  BY <1>1 DEF Rows
<1>6. \/ wish = Paused
      \/ ~Active /\ \E on \in BOOLEAN : wish = Queued(u, on)
      \/ Active /\ \E on \in BOOLEAN : wish = Joined(u, on)
  BY <1>5 DEF Wishes
<1> QED BY <1>2, <1>3, <1>4, <1>6

LEMMA WrittenFields ==
    ASSUME NEW new \in Rows, NEW old \in Rows, NEW columns \in SUBSET Columns,
           NEW w, w = Written(new, old, columns)
    PROVE  /\ w \in Rows
           /\ w.enabled = IF "enabled" \in columns THEN new.enabled ELSE old.enabled
           /\ w.poll = IF "poll" \in columns THEN new.poll ELSE old.poll
           /\ w.lease = IF "lease" \in columns THEN new.lease ELSE old.lease
           /\ w.counted = old.counted /\ w.lapsed = old.lapsed
<1>1. w \in Rows
  BY DEF Written, Rows, Columns
<1>2. /\ w.enabled = IF "enabled" \in columns THEN new.enabled ELSE old.enabled
      /\ w.poll = IF "poll" \in columns THEN new.poll ELSE old.poll
      /\ w.lease = IF "lease" \in columns THEN new.lease ELSE old.lease
  BY DEF Written, Rows, Columns
<1>3. w.counted = old.counted /\ w.lapsed = old.lapsed
  BY DEF Written, Rows, Columns
<1> QED BY <1>1, <1>2, <1>3

LEMMA BeginStep == ASSUME IInv, NEW r \in Requests, NEW u \in Users, Begin(r, u) PROVE IInv'
<1>1. PICK wish \in Wishes(u) :
          form' = [form EXCEPT ![r] =
              [open |-> TRUE, writes |-> Writes(wish), wish |-> Written(wish, Created, Writes(wish)),
               pause |-> wish = Paused, seen |-> Seen(row)]]
  BY DEF Begin
<1>2. row \in Rows /\ Created \in Rows
  BY DEF IInv, RowOK, Created, Rows, Statuses
<1>3. wish \in Rows /\ Writes(wish) \subseteq Columns
  BY Wished DEF IInv
<1> DEFINE w == Written(wish, Created, Writes(wish))
           f == [open |-> TRUE, writes |-> Writes(wish), wish |-> w, pause |-> wish = Paused, seen |-> Seen(row)]
<1>4. /\ w \in Rows
      /\ w.enabled = IF "enabled" \in Writes(wish) THEN wish.enabled ELSE Created.enabled
      /\ w.poll = IF "poll" \in Writes(wish) THEN wish.poll ELSE Created.poll
      /\ w.lease = IF "lease" \in Writes(wish) THEN wish.lease ELSE Created.lease
  BY <1>2, <1>3, WrittenFields
<1>5. /\ "lease" \in Writes(wish) <=> wish.lease # row.lease
      /\ "enabled" \in Writes(wish) <=> wish.enabled # row.enabled
      /\ "poll" \in Writes(wish) <=> wish.poll # row.poll \/ (~Active /\ wish.poll = "now")
  BY <1>2 DEF Writes, Rows
<1>6. /\ f.open /\ f.writes = Writes(wish) /\ f.wish = w /\ (f.pause <=> wish = Paused)
      /\ f.pause \in BOOLEAN /\ f.open \in BOOLEAN
      /\ f.seen.enabled = row.enabled /\ f.seen.lease = row.lease /\ (f.seen.set <=> row.poll # "none")
  BY DEF Seen
<1> HIDE DEF f, w
<1>7. Formed(f)
  <2>1. "lease" \in Writes(wish) => wish.lease = None
    BY <1>5, Wished DEF IInv
  <2> QED BY <1>3, <1>4, <1>6, <2>1 DEF Formed
<1>8. Careful(f)
  <2>1. CASE wish = Paused
    <3>1. ~wish.enabled
      BY <2>1, Wished DEF IInv
    <3>2. CASE "enabled" \in Writes(wish)
      BY <1>4, <1>6, <3>1, <3>2 DEF Careful
    <3>3. CASE "enabled" \notin Writes(wish)
      <4>1. row.enabled = wish.enabled
        BY <1>5, <3>3
      <4> QED BY <1>6, <3>1, <3>3, <4>1 DEF Careful
    <3> QED BY <3>2, <3>3
  <2>2. CASE ~Active /\ wish.poll = "now"
    BY <1>4, <1>5, <1>6, <2>2 DEF Careful
  <2>3. CASE Active /\ wish.poll = row.poll
    <3>1. row.poll # "none"
      BY <2>3 DEF Active
    <3>2. "poll" \notin Writes(wish)
      BY <1>5, <2>3
    <3> QED BY <1>6, <3>1, <3>2 DEF Careful
  <2> QED BY <2>1, <2>2, <2>3, Wished DEF IInv
<1>9. Fencing(f)
  <2>1. wish = Paused => wish.lease = None
    BY Wished DEF IInv
  <2> QED BY <1>5, <1>6, <2>1 DEF Fencing
<1>10. form' = [form EXCEPT ![r] = f]
  BY <1>1 DEF f, w
<1>11. FormsOK'
  <2>1. ASSUME NEW q \in Requests PROVE Formed(form'[q]) /\ Careful(form'[q]) /\ Fencing(form'[q])
    BY <1>7, <1>8, <1>9, <1>10 DEF IInv, FormsOK
  <2>2. form' = [q \in Requests |-> form'[q]]
    BY <1>10 DEF IInv, FormsOK
  <2> QED BY <2>1, <2>2 DEF FormsOK, Formed, Careful, Fencing
<1> QED BY <1>11 DEF Begin, history, IInv, RowOK, DayOK, PhasesOK, Fenced, Working

\* The row a request leaves behind.
LEMMA SaveRow ==
    ASSUME IInv, NEW r \in Requests, Save(r), NEW f, f = form[r]
    PROVE  /\ row' \in Rows
           /\ row'.enabled = IF "enabled" \in f.writes THEN f.wish.enabled ELSE row.enabled
           /\ row'.poll = IF "poll" \in f.writes THEN f.wish.poll ELSE row.poll
           /\ row'.lease = IF "lease" \in f.writes THEN f.wish.lease ELSE row.lease
           /\ row'.counted = row.counted
           /\ row'.lapsed <=> row.lapsed /\ "lease" \notin f.writes
<1>1. f.wish \in Rows /\ f.writes \in SUBSET Columns /\ row \in Rows
  BY DEF IInv, FormsOK, Formed, RowOK
<1>2. PICK w : w = Written(f.wish, row, f.writes)
  OBVIOUS
<1>3. /\ w.enabled = IF "enabled" \in f.writes THEN f.wish.enabled ELSE row.enabled
      /\ w.poll = IF "poll" \in f.writes THEN f.wish.poll ELSE row.poll
      /\ w.lease = IF "lease" \in f.writes THEN f.wish.lease ELSE row.lease
      /\ w \in Rows /\ w.counted = row.counted /\ w.lapsed = row.lapsed
  BY <1>1, <1>2, WrittenFields
<1>4. PICK lapsed \in BOOLEAN : lapsed <=> w.lapsed /\ "lease" \notin f.writes
  OBVIOUS
<1>6. row' = [w EXCEPT !.lapsed = lapsed]
  BY <1>2, <1>4 DEF Save
<1>7. row' \in Rows
  BY <1>3, <1>6 DEF Rows
<1>8. row'.enabled = w.enabled /\ row'.poll = w.poll /\ row'.lease = w.lease /\ row'.counted = w.counted
  BY <1>3, <1>6 DEF Rows
<1>9. row'.lapsed = lapsed
  BY <1>3, <1>6 DEF Rows
<1> QED BY <1>3, <1>4, <1>7, <1>8, <1>9

LEMMA SaveStep ==
    ASSUME IInv, NEW r \in Requests, Save(r)
    PROVE  /\ IInv'
           /\ Scheduled /\ form[r].seen = Seen(row) => Scheduled'
<1> DEFINE f == form[r]
<1>1. Formed(f) /\ Careful(f) /\ Fencing(f) /\ f.open
  BY DEF IInv, FormsOK, Save
<1>2. /\ row' \in Rows
      /\ row'.enabled = IF "enabled" \in f.writes THEN f.wish.enabled ELSE row.enabled
      /\ row'.poll = IF "poll" \in f.writes THEN f.wish.poll ELSE row.poll
      /\ row'.lease = IF "lease" \in f.writes THEN f.wish.lease ELSE row.lease
      /\ row'.counted = row.counted
      /\ row'.lapsed <=> row.lapsed /\ "lease" \notin f.writes
  BY SaveRow
<1>3. RowOK' /\ DayOK' /\ PhasesOK'
  BY <1>2 DEF Save, IInv, RowOK, DayOK, PhasesOK
<1>4. FormsOK'
  <2>1. ASSUME NEW q \in Requests PROVE Formed(form'[q]) /\ Careful(form'[q]) /\ Fencing(form'[q])
    BY NoFormOK DEF Save, IInv, FormsOK
  <2>2. form' = [q \in Requests |-> form'[q]]
    BY DEF Save, IInv, FormsOK
  <2> QED BY <2>1, <2>2 DEF FormsOK, Formed, Careful, Fencing
<1>5. Fenced'
  <2>1. CASE f.pause
    <3>1. withdrawn' = Working /\ leaky' = (row.lease # f.seen.lease) /\ UNCHANGED phase
      BY <2>1 DEF Save
    <3>2. ~leaky' => row'.lease = None
      BY <1>1, <1>2, <2>1, <3>1 DEF Formed, Fencing
    <3> QED BY <3>1, <3>2 DEF Fenced, Working
  <2>2. CASE ~f.pause
    <3>1. UNCHANGED <<phase, withdrawn, leaky>>
      BY <2>2 DEF Save, history
    <3>2. row'.lease = row.lease \/ row'.lease = None
      BY <1>1, <1>2 DEF Formed
    <3>3. withdrawn \subseteq Processes
      BY DEF IInv, Fenced, Working
    <3> QED BY <3>1, <3>2, <3>3 DEF IInv, Fenced, Working
  <2> QED BY <2>1, <2>2
<1>6. ASSUME Scheduled, f.seen = Seen(row) PROVE Scheduled'
  <2>1. f.seen.enabled = row.enabled /\ (f.seen.set <=> row.poll # "none")
    <3>1. Seen(row).enabled = row.enabled /\ (Seen(row).set <=> row.poll # "none")
      BY DEF Seen
    <3> QED BY <1>6, <3>1
  <2> HIDE DEF f
  <2>2. CASE "poll" \in f.writes /\ f.wish.poll = "now"
    BY <1>2, <2>2 DEF Scheduled
  <2>3. CASE "poll" \notin f.writes /\ ("enabled" \notin f.writes \/ f.seen.set)
    <3>1. row'.poll = row.poll
      BY <1>2, <2>3
    <3>2. CASE "enabled" \notin f.writes
      <4>1. row'.enabled = row.enabled
        BY <1>2, <3>2
      <4> QED BY <1>6, <3>1, <4>1 DEF Scheduled
    <3>3. CASE f.seen.set
      BY <2>1, <3>1, <3>3 DEF Scheduled
    <3> QED BY <2>3, <3>2, <3>3
  <2>4. CASE "enabled" \in f.writes /\ ~f.wish.enabled
    <3>1. row'.enabled = f.wish.enabled
      BY <1>2, <2>4
    <3> QED BY <2>4, <3>1 DEF Scheduled
  <2>5. CASE "enabled" \notin f.writes /\ ~f.seen.enabled
    <3>1. row'.enabled = row.enabled
      BY <1>2, <2>5
    <3> QED BY <2>1, <2>5, <3>1 DEF Scheduled
  <2> QED BY <1>1, <2>2, <2>3, <2>4, <2>5 DEF Careful
<1> QED BY <1>3, <1>4, <1>5, <1>6 DEF IInv

-----------------------------------------------------------------------------
(* The worker *)

\* A step that touches no form keeps them in form.
LEMMA FormsKept == ASSUME IInv, UNCHANGED form PROVE FormsOK'
BY DEF IInv, FormsOK, Formed, Careful, Fencing

\* The monitor of an analyst who lost access.
LEMMA RevokedRow ==
    ASSUME RowOK
    PROVE  /\ Revoked \in Rows /\ ~Revoked.enabled /\ Revoked.lease = None
           /\ ~Revoked.lapsed /\ Revoked.counted = row.counted
<1>1. Revoked = [enabled |-> FALSE, status |-> "paused", requester |-> row.requester, poll |-> "none",
                 lease |-> None, lapsed |-> FALSE, recent |-> row.recent, counted |-> row.counted]
  <2>1. PICK v : v = [row EXCEPT !.enabled = FALSE, !.poll = "none", !.status = "paused"]
    OBVIOUS
  <2>2. v = [enabled |-> FALSE, status |-> "paused", requester |-> row.requester, poll |-> "none",
             lease |-> row.lease, lapsed |-> row.lapsed, recent |-> row.recent, counted |-> row.counted]
    BY <2>1 DEF RowOK, Rows
  <2>3. Revoked = Freed(v)
    BY <2>1, Zenon DEF Revoked
  <2> QED BY <2>2, <2>3 DEF Freed
<1>2. Revoked \in Rows
  BY <1>1 DEF RowOK, Rows, Statuses
<1> QED BY <1>1, <1>2

LEMMA ClaimStep ==
    ASSUME IInv, NEW p \in Processes, Claim(p)
    PROVE  IInv' /\ (Scheduled => Scheduled')
<1>1. FormsOK'
  BY FormsKept DEF Claim
<1>2. row \in Rows /\ p # None /\ row.poll = "now" /\ permitted \subseteq Users
  BY DEF IInv, RowOK, Claim, Due
<1>3. p \notin withdrawn /\ withdrawn \subseteq Working
  BY DEF Claim, IInv, Fenced, Working
<1>4. CASE Allowed
  <2>1. phase' = [phase EXCEPT ![p] = "counting"]
    BY <1>4 DEF Claim
  <2>2. row' = [row EXCEPT !.lease = p, !.lapsed = FALSE, !.status = "running", !.recent = TRUE]
    BY <1>4 DEF Claim
  <2>3. row' = [enabled |-> row.enabled, status |-> "running", requester |-> row.requester, poll |-> row.poll,
                lease |-> p, lapsed |-> FALSE, recent |-> TRUE, counted |-> row.counted]
    BY <1>2, <2>2 DEF Rows
  <2>4. row' \in Rows
    BY <1>2, <2>3 DEF Rows, Statuses
  <2>5. row'.lease = p /\ ~row'.lapsed /\ row'.counted = row.counted /\ row'.poll = "now"
    BY <1>2, <2>3
  <2>6. RowOK' /\ DayOK' /\ PhasesOK'
    BY <1>2, <2>1, <2>4, <2>5 DEF Claim, IInv, RowOK, DayOK, PhasesOK
  <2>7. Fenced'
    BY <1>3, <2>1, <2>5 DEF Claim, history, IInv, PhasesOK, Fenced, Working
  <2> QED BY <1>1, <2>5, <2>6, <2>7 DEF IInv, Scheduled
<1>5. CASE ~Allowed
  <2>1. row' = [Revoked EXCEPT !.recent = TRUE] /\ UNCHANGED phase
    BY <1>5 DEF Claim
  <2>2. PICK v \in Rows : v = Revoked
    BY RevokedRow DEF IInv
  <2>3. ~v.enabled /\ v.lease = None /\ ~v.lapsed /\ v.counted = row.counted
    BY <2>2, RevokedRow DEF IInv
  <2>4. row' = [v EXCEPT !.recent = TRUE]
    BY <2>1, <2>2
  <2>5. row' \in Rows
    BY <2>4 DEF Rows
  <2>6. row'.enabled = v.enabled /\ row'.lease = v.lease /\ row'.lapsed = v.lapsed /\ row'.counted = v.counted
    BY <2>4 DEF Rows
  <2>7. RowOK' /\ DayOK' /\ PhasesOK'
    BY <1>2, <2>1, <2>3, <2>5, <2>6 DEF Claim, IInv, RowOK, DayOK, PhasesOK
  <2>8. Fenced'
    BY <1>3, <2>1, <2>3, <2>6 DEF Claim, history, IInv, Fenced, Working
  <2> QED BY <1>1, <2>3, <2>6, <2>7, <2>8 DEF IInv, Scheduled
<1> QED BY <1>4, <1>5

\* A process that forgets its census is no longer one a pause came after.
LEMMA Forgotten ==
    ASSUME IInv, NEW p \in Processes, Forget(p), row'.lease = row.lease \/ row'.lease = None
    PROVE  PhasesOK' /\ Fenced'
<1>1. PhasesOK'
  BY DEF Forget, IInv, PhasesOK
<1>2. withdrawn' \subseteq Working'
  BY DEF Forget, IInv, PhasesOK, Fenced, Working
<1>3. withdrawn' \subseteq withdrawn /\ withdrawn \subseteq Processes /\ leaky' = leaky
  BY DEF Forget, IInv, Fenced, Working
<1> QED BY <1>1, <1>2, <1>3 DEF IInv, Fenced

LEMMA PersistStep ==
    ASSUME IInv, NEW p \in Processes, NEW answer \in Answers, Persist(p, answer)
    PROVE  IInv' /\ (Scheduled => Scheduled')
<1>1. FormsOK'
  BY FormsKept DEF Persist
<1>2. row \in Rows /\ permitted \subseteq Users
  BY DEF IInv, RowOK
<1>3. PICK counted \in BOOLEAN : counted <=> row.counted \/ answer = "complete"
  OBVIOUS
<1>4. PICK status \in Statuses : status = IF answer = "complete" THEN "available" ELSE "incomplete"
  BY DEF Statuses
<1>5. PICK poll \in {"later", "none"} : poll = NextPoll
  BY DEF NextPoll
<1>6. row' = Freed([row EXCEPT !.poll = poll, !.status = status, !.counted = counted])
  <2>1. (row.counted \/ answer = "complete") = counted
    BY <1>2, <1>3 DEF Rows
  <2> QED BY <1>4, <1>5, <2>1, Zenon DEF Persist
<1>7. row' = [enabled |-> row.enabled, status |-> status, requester |-> row.requester, poll |-> poll,
              lease |-> None, lapsed |-> FALSE, recent |-> row.recent, counted |-> counted]
  BY <1>2, <1>6 DEF Freed, Rows
<1>8. row' \in Rows
  BY <1>2, <1>7 DEF Rows
<1>9. row'.lease = None /\ ~row'.lapsed /\ row'.counted = counted /\ row'.poll = poll /\ row'.enabled = row.enabled
  BY <1>7
<1>10. PhasesOK' /\ Fenced'
  BY <1>9, Forgotten DEF Persist
<1>11. RowOK'
  BY <1>2, <1>8, <1>9 DEF Persist, RowOK
<1>12. DayOK'
  <2>1. day' \in {"none", "partial", "complete"}
    BY DEF Persist, Recorded, IInv, DayOK
  <2>2. counted => day' = "complete"
    BY <1>3 DEF Persist, Recorded, IInv, DayOK, Answers
  <2> QED BY <1>9, <2>1, <2>2 DEF DayOK
<1>13. Scheduled => Scheduled'
  BY <1>5, <1>9 DEF Scheduled, NextPoll
<1> QED BY <1>1, <1>10, <1>11, <1>12, <1>13 DEF IInv

LEMMA DiscardStep ==
    ASSUME IInv, NEW p \in Processes, Discard(p)
    PROVE  IInv' /\ (Scheduled => Scheduled')
<1>1. FormsOK'
  BY FormsKept DEF Discard
<1>2. CASE Owned(p)
  <2>1. row' = Revoked
    BY <1>2 DEF Discard
  <2>2. /\ row' \in Rows /\ ~row'.enabled /\ row'.lease = None
        /\ ~row'.lapsed /\ row'.counted = row.counted
    BY <2>1, RevokedRow DEF IInv
  <2>3. PhasesOK' /\ Fenced'
    BY <2>2, Forgotten DEF Discard
  <2> QED BY <1>1, <2>2, <2>3 DEF Discard, IInv, RowOK, DayOK, Scheduled
<1>3. CASE ~Owned(p)
  <2>1. row' = row
    BY <1>3 DEF Discard
  <2>2. PhasesOK' /\ Fenced'
    BY <2>1, Forgotten DEF Discard
  <2> QED BY <1>1, <2>1, <2>2 DEF Discard, IInv, RowOK, DayOK, Scheduled
<1> QED BY <1>2, <1>3

LEMMA DieStep ==
    ASSUME IInv, NEW p \in Processes, Die(p)
    PROVE  IInv' /\ (Scheduled => Scheduled')
<1>1. FormsOK' /\ PhasesOK' /\ Fenced'
  BY FormsKept, Forgotten DEF Die
<1> QED BY <1>1 DEF Die, IInv, RowOK, DayOK, Scheduled

-----------------------------------------------------------------------------
(* Access, the collection, and time *)

LEMMA OutsideStep ==
    ASSUME IInv, (\E u \in Users : LoseAccess(u)) \/ (\E total \in BOOLEAN : Collect(total))
    PROVE  IInv' /\ (Scheduled => Scheduled')
<1>1. UNCHANGED <<row, phase, form, withdrawn, leaky>> /\ permitted' \subseteq permitted
  BY DEF LoseAccess, Collect, history
<1>2. day' \in {"none", "partial", "complete"} /\ (day = "complete" => day' = "complete")
  BY DEF LoseAccess, Collect, Recorded, IInv, DayOK
<1> QED BY <1>1, <1>2, FormsKept DEF IInv, RowOK, DayOK, PhasesOK, Fenced, Working, Scheduled

LEMMA TimeStep ==
    ASSUME IInv, LapseLease \/ FallDue \/ Cool \/ NewDay
    PROVE  IInv' /\ (Scheduled => Scheduled')
<1>1. row \in Rows
  BY DEF IInv, RowOK
<1>2. UNCHANGED <<phase, form, permitted, withdrawn, leaky>>
  BY DEF LapseLease, FallDue, Cool, NewDay, Elapse, history
<1>3. PhasesOK' /\ FormsOK'
  BY <1>2, FormsKept DEF IInv, PhasesOK
<1>4. ASSUME row'.lease = row.lease PROVE Fenced'
  BY <1>2, <1>4 DEF IInv, Fenced, Working
<1>5. CASE LapseLease
  <2>1. row' = [row EXCEPT !.lapsed = TRUE] /\ row.lease # None /\ UNCHANGED day
    BY <1>5 DEF LapseLease, Elapse
  <2>2. row' \in Rows
    BY <1>1, <2>1 DEF Rows
  <2>3. row'.lease = row.lease /\ row'.counted = row.counted /\ row'.enabled = row.enabled /\ row'.poll = row.poll
    BY <1>1, <2>1 DEF Rows
  <2> QED BY <1>2, <1>3, <1>4, <2>1, <2>2, <2>3 DEF IInv, RowOK, DayOK, Scheduled
<1>6. CASE FallDue
  <2>1. row' = [row EXCEPT !.poll = "now"] /\ UNCHANGED day
    BY <1>6 DEF FallDue, Elapse
  <2>2. row' \in Rows
    BY <1>1, <2>1 DEF Rows
  <2>3. row'.lease = row.lease /\ row'.counted = row.counted /\ row'.lapsed = row.lapsed /\ row'.poll = "now"
    BY <1>1, <2>1 DEF Rows
  <2> QED BY <1>2, <1>3, <1>4, <2>1, <2>2, <2>3 DEF IInv, RowOK, DayOK, Scheduled
<1>7. CASE Cool
  <2>1. row' = [row EXCEPT !.recent = FALSE] /\ UNCHANGED day
    BY <1>7 DEF Cool, Elapse
  <2>2. row' \in Rows
    BY <1>1, <2>1 DEF Rows
  <2>3. /\ row'.lease = row.lease /\ row'.counted = row.counted /\ row'.lapsed = row.lapsed
        /\ row'.enabled = row.enabled /\ row'.poll = row.poll
    BY <1>1, <2>1 DEF Rows
  <2> QED BY <1>2, <1>3, <1>4, <2>1, <2>2, <2>3 DEF IInv, RowOK, DayOK, Scheduled
<1>8. CASE NewDay
  <2>1. row' = [row EXCEPT !.counted = FALSE] /\ day' = "none"
    BY <1>8 DEF NewDay
  <2>2. row' \in Rows
    BY <1>1, <2>1 DEF Rows
  <2>3. /\ row'.lease = row.lease /\ ~row'.counted /\ row'.lapsed = row.lapsed
        /\ row'.enabled = row.enabled /\ row'.poll = row.poll
    BY <1>1, <2>1 DEF Rows
  <2> QED BY <1>2, <1>3, <1>4, <2>1, <2>2, <2>3 DEF IInv, RowOK, DayOK, Scheduled
<1> QED BY <1>5, <1>6, <1>7, <1>8

-----------------------------------------------------------------------------
(* The theorems *)

LEMMA InvInit == Init => IInv
<1> SUFFICES ASSUME Init PROVE IInv
  OBVIOUS
<1>1. Created \in Rows /\ Created.lease = None /\ ~Created.lapsed /\ ~Created.counted
  BY DEF Created, Rows, Statuses
<1>2. FormsOK
  BY NoFormOK DEF Init, FormsOK
<1> QED BY <1>1, <1>2 DEF Init, IInv, RowOK, DayOK, PhasesOK, Fenced

\* Every step keeps the invariant; and unless it saves a request over a row that changed
\* since the request read it, it keeps an enabled monitor's time for the next count.
LEMMA InvStep ==
    ASSUME IInv, [Next]_vars
    PROVE  /\ IInv'
           /\ Scheduled => Scheduled' \/ \E r \in Requests : Save(r) /\ form[r].seen # Seen(row)
<1>1. CASE \E p \in Processes : Count(p) \/ Die(p)
  BY <1>1, ClaimStep, PersistStep, DiscardStep, DieStep DEF Count
<1>2. CASE \E r \in Requests, u \in Users : Begin(r, u)
  <2>1. UNCHANGED row
    BY <1>2 DEF Begin
  <2> QED BY <1>2, <2>1, BeginStep DEF Scheduled
<1>3. CASE \E r \in Requests : Save(r)
  BY <1>3, SaveStep
<1>4. CASE (\E u \in Users : LoseAccess(u)) \/ (\E total \in BOOLEAN : Collect(total))
  BY <1>4, OutsideStep
<1>5. CASE LapseLease \/ FallDue \/ Cool \/ NewDay
  BY <1>5, TimeStep
<1>6. CASE UNCHANGED vars
  BY <1>6, FormsKept DEF vars, IInv, RowOK, DayOK, PhasesOK, Fenced, Working, Scheduled
<1> QED BY <1>1, <1>2, <1>3, <1>4, <1>5, <1>6 DEF Next

LEMMA Invariance == Spec => []IInv
<1>1. IInv /\ [Next]_vars => IInv'
  BY InvStep
<1> QED BY InvInit, <1>1, PTL DEF Spec

\* Types; a lease that lapsed is held by someone; and a total counted today is still the
\* day's, whichever census of the worker or of the collection came later (persist, write_census).
THEOREM TypeCorrect == Spec => []TypeOK
<1>1. IInv => TypeOK
  BY DEF IInv, RowOK, DayOK, PhasesOK, FormsOK, Formed, Fenced, Rows, TypeOK
<1> QED BY Invariance, <1>1, PTL

\* No census asked for before a pause is stored after it (request_refresh, persist), for any
\* number of workers, of analysts and of requests between the pause and the answer, unless
\* the pause was decided before the lease was taken.
THEOREM CensusFenced == Spec => PausesFence
<1>1. IInv /\ [Next]_vars => [\A p \in withdrawn : ~leaky => \A answer \in Answers : ~Persist(p, answer)]_vars
  BY DEF IInv, Fenced, Persist, Owned
<1> QED BY Invariance, <1>1, PTL DEF Spec, PausesFence

\* An enabled monitor keeps a time for its next count, whatever claims, failures, revoked
\* analysts and requests do, except where a request is saved over a row it has not seen.
THEOREM KeepsCounting == Spec => StaysScheduled
<1>1. IInv /\ [Next]_vars =>
        [Scheduled => Scheduled' \/ \E r \in Requests : Save(r) /\ form[r].seen # Seen(row)]_vars
  BY InvStep
<1> QED BY Invariance, <1>1, PTL DEF Spec, StaysScheduled
=============================================================================
