------------------------ MODULE ExchangeListingProofs ------------------------
(* Theorems about ExchangeListing, for any number of bids, edits in flight,    *)
(* and units.                                                                  *)
EXTENDS ExchangeListing, TLAPS

\* The two halves of Consistent that speak of one row only.
Fits(row) ==
    /\ row.status = "reserved" => row.available = 0
    /\ row.status = "partially_claimed" => row.available > 0

\* What an edit may have changed of the row it read: it offers no committed unit,
\* keeps the contents of a committed listing, and keeps the status in step.
Sound(row, new) ==
    /\ row.available <= row.total => new.available + (row.total - row.available) <= new.total
    /\ new.contents # row.contents => row.total <= row.available
    /\ Fits(row) => Fits(new)

EditsSound == \A e \in Editors : edit[e].open => Sound(edit[e].read, edit[e].new)

NothingShown == sold = 0 => shown = {}

\* A bid that may still be decided has no transaction.
UndecidedUnsold == \A b \in Bids :
    deals[b] <= 1 /\ (bid[b].status \in {"none", "pending"} => deals[b] = 0)

IInv == TypeOK /\ EditsSound /\ NothingShown /\ UndecidedUnsold

-----------------------------------------------------------------------------
(* The operators *)

\* A listing as created is a row.
LEMMA ListedTyped ==
    ASSUME NEW kind \in {"fixed", "auction"}, NEW status \in Statuses,
           NEW total \in 1..MaxUnits, NEW lot \in BOOLEAN
    PROVE  Listed(kind, status, total, lot) \in Row
BY BoundsOK DEF Listed, Row

\* An editor without a request holds rows too.
LEMMA NoEditTyped ==
    /\ NoEdit \in [open : BOOLEAN, read : Row, new : Row, extends : BOOLEAN]
    /\ ~NoEdit.open
<1>1. 1 \in 1..MaxUnits /\ "draft" \in Statuses
  BY BoundsOK DEF Statuses
<1>2. Listed("fixed", "draft", 1, FALSE) \in Row
  BY <1>1, ListedTyped
<1> QED BY <1>2 DEF NoEdit

\* A restocked row is a row, and gives no committed unit back to the stock.
LEMMA RestockTyped ==
    ASSUME NEW row \in Row, NEW total \in 1..MaxUnits, NEW available \in 0..MaxUnits,
           StockAllowed(row, total, available)
    PROVE  /\ Restocked(row, total, available) \in Row
           /\ Sound(row, Restocked(row, total, available))
<1> DEFINE status ==
        IF (total # row.total \/ available # row.available) /\ available = 0
           /\ row.status \in {"active", "partially_claimed", "reserved"}
        THEN "completed"
        ELSE IF (total # row.total \/ available # row.available) /\ available > 0
                /\ row.status \in {"completed", "reserved"}
        THEN "active" ELSE row.status
        new == Restocked(row, total, available)
<1>1. new = [row EXCEPT !.total = total, !.available = available, !.status = status]
  BY DEF Restocked
<1>2. status \in Statuses
  BY DEF Row, Statuses
<1>3. /\ new.total = total /\ new.available = available /\ new.status = status
      /\ new.contents = row.contents
  BY <1>1 DEF Row
<1>4. new \in Row
  BY <1>1, <1>2 DEF Row
<1>5. row.available <= row.total => new.available + (row.total - row.available) <= new.total
  BY <1>3, BoundsOK DEF StockAllowed, Committed, Row
<1>6. Fits(row) => Fits(new)
  BY <1>3, BoundsOK DEF Fits, Row, Statuses
<1> QED BY <1>3, <1>4, <1>5, <1>6 DEF Sound

\* An edit of a row is a row, whatever it changes, and sound.
LEMMA EditTyped ==
    ASSUME NEW row \in Row, NEW new \in Edits(row)
    PROVE  new \in Row /\ Sound(row, new)
<1>1. CASE new \in Restocks(row)
  BY <1>1, RestockTyped DEF Restocks
<1>2. CASE new \in Repacks(row)
  <2>1. PICK v \in 1..MaxVersion : new = [row EXCEPT !.contents = v] /\ ContentsFree(row)
    BY <1>2 DEF Repacks
  <2>2. new \in Row
    BY <2>1, BoundsOK DEF Row
  <2>3. row.total <= row.available
    BY <2>1, BoundsOK DEF ContentsFree, Committed, Row
  <2>4. /\ new.total = row.total /\ new.available = row.available
        /\ new.status = row.status
    BY <2>1 DEF Row
  <2> QED BY <2>2, <2>3, <2>4, BoundsOK DEF Sound, Fits, Row
<1>3. CASE new \in Settings(row)
  <2>1. CASE \E lot \in BOOLEAN : new = [row EXCEPT !.lot = lot]
    <3>1. PICK lot \in BOOLEAN : new = [row EXCEPT !.lot = lot]
      BY <2>1
    <3>2. new \in Row
      BY <3>1 DEF Row
    <3>3. /\ new.total = row.total /\ new.available = row.available
          /\ new.status = row.status /\ new.contents = row.contents
      BY <3>1 DEF Row
    <3> QED BY <3>2, <3>3, BoundsOK DEF Sound, Fits, Row
  <2>2. CASE \E status \in Settable : new = [row EXCEPT !.status = status]
    <3>1. PICK status \in Settable : new = [row EXCEPT !.status = status]
      BY <2>2
    <3>2. new \in Row
      BY <3>1 DEF Row, Settable, Statuses
    <3>3. /\ new.total = row.total /\ new.available = row.available
          /\ new.status = status /\ new.contents = row.contents
      BY <3>1 DEF Row
    <3> QED BY <3>2, <3>3, BoundsOK DEF Sound, Fits, Row, Settable
  <2> QED BY <1>3, <2>1, <2>2 DEF Settings
<1> QED BY <1>1, <1>2, <1>3 DEF Edits

\* Merging the changed columns of one row into another gives a row.
LEMMA MergedTyped ==
    ASSUME NEW read \in Row, NEW new \in Row, NEW row \in Row, NEW flag \in BOOLEAN
    PROVE  [Merged(read, new, row) EXCEPT !.ended = @ /\ flag] \in Row
<1> DEFINE fields == {"kind", "status", "total", "available", "lot", "ended", "contents"}
           merged == Merged(read, new, row)
<1>1. DOMAIN row = fields
  BY DEF Row
<1>2. merged = [f \in fields |-> IF new[f] # read[f] THEN new[f] ELSE row[f]]
  BY <1>1 DEF Merged
<1>3. merged \in Row
  BY <1>2 DEF Row
<1>4. merged.ended \in BOOLEAN
  BY <1>3 DEF Row
<1> QED BY <1>3, <1>4 DEF Row

\* Selling units that are left keeps the row, the total sold and the record of what
\* was shown within their types; something has then been sold.
LEMMA SellTyped ==
    ASSUME TypeOK, NEW quantity \in 1..MaxUnits, quantity <= listing.available,
           Room(quantity), Sell(quantity)
    PROVE  /\ listing' \in Row /\ sold' \in 0..MaxSold /\ shown' \subseteq 0..MaxVersion
           /\ sold' # 0
<1>1. listing \in Row /\ sold \in 0..MaxSold /\ shown \subseteq 0..MaxVersion
  BY DEF TypeOK
<1>2. listing.available - quantity \in 0..MaxUnits
  BY <1>1, BoundsOK DEF Row
<1>3. listing' \in Row
  BY <1>1, <1>2 DEF Sell, Row, Statuses
<1>4. sold' \in 0..MaxSold /\ sold' # 0
  BY <1>1, BoundsOK DEF Sell, Room
<1>5. shown' \subseteq 0..MaxVersion
  BY <1>1 DEF Sell, Row
<1> QED BY <1>3, <1>4, <1>5

\* A sale keeps the listing consistent.
LEMMA SellConsistent ==
    ASSUME TypeOK, NEW quantity \in 1..MaxUnits, quantity <= listing.available,
           Sell(quantity), Consistent
    PROVE  Consistent'
<1>1. listing \in Row /\ sold \in Nat
  BY BoundsOK DEF TypeOK
<1>2. /\ listing'.available = listing.available - quantity
      /\ listing'.total = listing.total /\ listing'.contents = listing.contents
      /\ listing'.status = IF quantity = listing.available THEN "reserved"
                           ELSE "partially_claimed"
  BY <1>1 DEF Sell, Row
<1>3. StockCovers'
  BY <1>1, <1>2, BoundsOK DEF Sell, Consistent, StockCovers, Row
<1>4. StatusFits'
  BY <1>1, <1>2, BoundsOK DEF StatusFits, Row
<1>5. ContentsKept'
  BY <1>2 DEF Sell, Consistent, ContentsKept
<1> QED BY <1>3, <1>4, <1>5 DEF Consistent

-----------------------------------------------------------------------------
(* The inductive invariant *)

LEMMA InitIInv == Init => IInv
<1> SUFFICES ASSUME Init PROVE IInv
  OBVIOUS
<1>1. PICK kind \in Kinds, status \in {"draft", "active"}, total \in 1..MaxUnits, lot \in BOOLEAN :
        listing = Listed(kind, status, total, lot)
  BY DEF Init
<1>2. listing \in Row
  BY <1>1, ListedTyped, BoundsOK DEF Statuses
<1>4. NoEdit \in [open : BOOLEAN, read : Row, new : Row, extends : BOOLEAN] /\ ~NoEdit.open
  BY NoEditTyped
<1>5. NoBid \in [status : {"none", "pending", "accepted", "rejected", "withdrawn"},
                 quantity : 1..MaxUnits, amount : 0..MaxAmount, lapsed : BOOLEAN]
      /\ NoBid.status = "none"
  BY BoundsOK DEF NoBid
<1>6. TypeOK
  BY <1>2, <1>4, <1>5, BoundsOK DEF Init, TypeOK
<1>7. EditsSound
  BY <1>4 DEF Init, EditsSound
<1>8. NothingShown /\ UndecidedUnsold
  BY <1>5 DEF Init, NothingShown, UndecidedUnsold
<1> QED BY <1>6, <1>7, <1>8 DEF IInv

LEMMA ClaimIInv ==
    ASSUME IInv, NEW quantity \in 1..MaxUnits, Claim(quantity)
    PROVE  IInv'
<1>1. /\ listing' \in Row /\ sold' \in 0..MaxSold /\ shown' \subseteq 0..MaxVersion
      /\ sold' # 0
  BY SellTyped DEF IInv, Claim
<1>2. UNCHANGED <<bid, withdrawing, edit, deals>>
  BY DEF Claim
<1>3. TypeOK'
  BY <1>1, <1>2 DEF IInv, TypeOK
<1>4. EditsSound' /\ UndecidedUnsold'
  BY <1>2 DEF IInv, EditsSound, UndecidedUnsold
<1>5. NothingShown'
  BY <1>1 DEF NothingShown
<1> QED BY <1>3, <1>4, <1>5 DEF IInv

LEMMA AcceptIInv ==
    ASSUME IInv, NEW b \in Bids, AcceptBid(b)
    PROVE  IInv'
<1> DEFINE B == [status : {"none", "pending", "accepted", "rejected", "withdrawn"},
                 quantity : 1..MaxUnits, amount : 0..MaxAmount, lapsed : BOOLEAN]
<1>1. bid \in [Bids -> B] /\ deals \in [Bids -> Nat] /\ TypeOK
  BY DEF IInv, TypeOK
<1>2. bid[b].quantity \in 1..MaxUnits /\ bid[b].status = "pending"
  BY <1>1 DEF AcceptBid, Decidable
<1>3. /\ listing' \in Row /\ sold' \in 0..MaxSold /\ shown' \subseteq 0..MaxVersion
      /\ sold' # 0
  BY <1>1, <1>2, SellTyped DEF AcceptBid
<1>4. deals' = [deals EXCEPT ![b] = deals[b] + 1] /\ deals' \in [Bids -> Nat]
  BY <1>1 DEF AcceptBid
<1>5. ASSUME NEW x \in Bids
      PROVE  /\ bid'[x] \in B /\ bid'[b].status = "accepted"
             /\ x # b => bid'[x].status \in {bid[x].status, "rejected"}
             /\ x # b /\ bid'[x].status \in {"none", "pending"} => bid[x].status = bid'[x].status
  <2>1. bid[x] \in B /\ bid[b] \in B
    BY <1>1
  <2>2. /\ [bid[x] EXCEPT !.status = "rejected"] \in B
        /\ [bid[x] EXCEPT !.status = "rejected"].status = "rejected"
    BY <2>1
  <2>3. /\ [bid[b] EXCEPT !.status = "accepted"] \in B
        /\ [bid[b] EXCEPT !.status = "accepted"].status = "accepted"
    BY <2>1
  <2>4. bid'[b] = [bid[b] EXCEPT !.status = "accepted"]
    BY DEF AcceptBid
  <2>5. CASE x = b
    BY <2>3, <2>4, <2>5
  <2>6. CASE x # b
    <3>1. bid'[x] \in {bid[x], [bid[x] EXCEPT !.status = "rejected"]}
      BY <2>6 DEF AcceptBid
    <3> QED BY <2>1, <2>2, <2>3, <2>4, <2>6, <3>1
  <2> QED BY <2>5, <2>6
<1>6. bid' = [x \in Bids |-> bid'[x]]
  BY DEF AcceptBid
<1>7. bid' \in [Bids -> B]
  BY <1>5, <1>6
<1>8. UNCHANGED <<withdrawing, edit>>
  BY DEF AcceptBid
<1>9. TypeOK'
  BY <1>1, <1>3, <1>4, <1>7, <1>8 DEF TypeOK
<1>10. EditsSound' /\ NothingShown'
  BY <1>3, <1>8 DEF IInv, EditsSound, NothingShown
<1>11. ASSUME NEW x \in Bids
       PROVE  deals'[x] <= 1 /\ (bid'[x].status \in {"none", "pending"} => deals'[x] = 0)
  <2>1. deals[x] <= 1 /\ (bid[x].status \in {"none", "pending"} => deals[x] = 0)
        /\ deals[b] = 0
    BY <1>2 DEF IInv, UndecidedUnsold
  <2>2. CASE x = b
    BY <1>1, <1>4, <1>5, <2>1, <2>2
  <2>3. CASE x # b
    <3>1. deals'[x] = deals[x]
      BY <1>1, <1>4, <2>3
    <3> QED BY <1>5, <2>1, <2>3, <3>1
  <2> QED BY <2>2, <2>3
<1>12. UndecidedUnsold'
  BY <1>11 DEF UndecidedUnsold
<1> QED BY <1>9, <1>10, <1>12 DEF IInv

\* A step that changes one bid, and leaves it undecided only if it was, keeps the
\* invariant: bids are tied to the rest by their transactions alone.
LEMMA OneBidIInv ==
    ASSUME IInv, NEW b \in Bids,
           NEW new \in [status : {"none", "pending", "accepted", "rejected", "withdrawn"},
                        quantity : 1..MaxUnits, amount : 0..MaxAmount, lapsed : BOOLEAN],
           new.status \in {"none", "pending"} => bid[b].status \in {"none", "pending"},
           bid' = [bid EXCEPT ![b] = new], withdrawing' \subseteq Bids,
           UNCHANGED <<listing, edit, sales>>
    PROVE  IInv'
<1>1. TypeOK'
  BY DEF IInv, TypeOK, sales
<1>2. EditsSound' /\ NothingShown'
  BY DEF IInv, EditsSound, NothingShown, sales
<1>3. UndecidedUnsold'
  <2> SUFFICES ASSUME NEW x \in Bids
               PROVE  /\ deals'[x] <= 1
                      /\ bid'[x].status \in {"none", "pending"} => deals'[x] = 0
    BY DEF UndecidedUnsold
  <2>1. deals' = deals
    BY DEF sales
  <2>2. deals[x] <= 1 /\ (bid[x].status \in {"none", "pending"} => deals[x] = 0)
    BY DEF IInv, UndecidedUnsold
  <2>3. bid'[x] = IF x = b THEN new ELSE bid[x]
    BY DEF IInv, TypeOK
  <2> QED BY <2>1, <2>2, <2>3
<1> QED BY <1>1, <1>2, <1>3 DEF IInv

\* The four steps that change one bid.
LEMMA BidIInv ==
    ASSUME IInv, NEW b \in Bids,
           \/ \E quantity \in 1..MaxUnits, amount \in MinAmount..MaxAmount : PlaceBid(b, quantity, amount)
           \/ RejectBid(b) \/ SaveWithdraw(b) \/ LapseBid(b)
    PROVE  IInv'
<1> DEFINE B == [status : {"none", "pending", "accepted", "rejected", "withdrawn"},
                 quantity : 1..MaxUnits, amount : 0..MaxAmount, lapsed : BOOLEAN]
<1>1. bid \in [Bids -> B] /\ bid[b] \in B /\ withdrawing \subseteq Bids
  BY DEF IInv, TypeOK
<1>2. ASSUME NEW quantity \in 1..MaxUnits, NEW amount \in MinAmount..MaxAmount, PlaceBid(b, quantity, amount)
      PROVE  IInv'
  <2> DEFINE new == [status |-> "pending", quantity |-> quantity, amount |-> amount, lapsed |-> FALSE]
  <2>1. new \in B
    BY BoundsOK
  <2>2. /\ bid' = [bid EXCEPT ![b] = new] /\ bid[b].status = "none"
        /\ withdrawing' = withdrawing /\ UNCHANGED <<listing, edit, sales>>
    BY <1>2 DEF PlaceBid
  <2> HIDE DEF new
  <2> QED BY <1>1, <2>1, <2>2, OneBidIInv
<1>3. ASSUME NEW status \in {"rejected", "withdrawn"},
             bid' = [bid EXCEPT ![b].status = status], withdrawing' \subseteq Bids,
             UNCHANGED <<listing, edit, sales>>
      PROVE  IInv'
  <2> DEFINE new == [bid[b] EXCEPT !.status = status]
  <2>1. new \in B /\ new.status = status
    BY <1>1
  <2>2. bid' = [bid EXCEPT ![b] = new]
    BY <1>1, <1>3
  <2>3. new.status \in {"none", "pending"} => bid[b].status \in {"none", "pending"}
    BY <2>1
  <2> HIDE DEF new
  <2> QED BY <1>3, <2>1, <2>2, <2>3, OneBidIInv
<1>4. CASE RejectBid(b)
  BY <1>1, <1>3, <1>4 DEF RejectBid
<1>5. CASE SaveWithdraw(b)
  <2>1. withdrawing' \subseteq Bids
    BY <1>1, <1>5 DEF SaveWithdraw
  <2> QED BY <1>3, <1>5, <2>1 DEF SaveWithdraw
<1>6. CASE LapseBid(b)
  <2> DEFINE new == [bid[b] EXCEPT !.lapsed = TRUE]
  <2>1. new \in B /\ new.status = bid[b].status
    BY <1>1
  <2>2. /\ bid' = [bid EXCEPT ![b] = new]
        /\ withdrawing' = withdrawing /\ UNCHANGED <<listing, edit, sales>>
    BY <1>1, <1>6 DEF LapseBid
  <2> HIDE DEF new
  <2> QED BY <1>1, <2>1, <2>2, OneBidIInv
<1> QED BY <1>2, <1>4, <1>5, <1>6

\* An edit that is begun holds rows, and is sound by EditTyped.
LEMMA BeginEditIInv ==
    ASSUME IInv, NEW e \in Editors, BeginEdit(e)
    PROVE  IInv'
<1>1. listing \in Row /\ TypeOK
  BY DEF IInv, TypeOK
<1>2. PICK new \in Edits(listing), extends \in {FALSE, listing.kind = "auction"} :
        edit' = [edit EXCEPT ![e] = [open |-> TRUE, read |-> listing, new |-> new,
                                     extends |-> extends]]
  BY DEF BeginEdit
<1>3. new \in Row /\ Sound(listing, new) /\ extends \in BOOLEAN
  BY <1>1, <1>2, EditTyped
<1>4. UNCHANGED <<listing, bid, withdrawing, sales>>
  BY DEF BeginEdit
<1>5. TypeOK'
  BY <1>1, <1>2, <1>3, <1>4 DEF TypeOK, sales
<1>6. EditsSound'
  <2> SUFFICES ASSUME NEW x \in Editors, edit'[x].open
               PROVE  Sound(edit'[x].read, edit'[x].new)
    BY DEF EditsSound
  <2>1. CASE x = e
    <3>1. edit'[x].read = listing /\ edit'[x].new = new
      BY <1>1, <1>2, <2>1 DEF TypeOK
    <3> QED BY <1>3, <3>1
  <2>2. CASE x # e
    <3>1. edit'[x] = edit[x]
      BY <1>1, <1>2, <2>2 DEF TypeOK
    <3> QED BY <3>1 DEF IInv, EditsSound
  <2> QED BY <2>1, <2>2
<1>7. NothingShown' /\ UndecidedUnsold'
  BY <1>4 DEF IInv, NothingShown, UndecidedUnsold, sales
<1> QED BY <1>5, <1>6, <1>7 DEF IInv

\* A saved edit leaves a row, whatever the row was by then.
LEMMA SaveEditIInv ==
    ASSUME IInv, NEW e \in Editors, SaveEdit(e)
    PROVE  IInv'
<1>1. /\ listing \in Row /\ edit[e].read \in Row /\ edit[e].new \in Row
      /\ edit[e].extends \in BOOLEAN /\ TypeOK
  BY DEF IInv, TypeOK
<1>2. listing' = [Merged(edit[e].read, edit[e].new, listing)
                     EXCEPT !.ended = @ /\ ~edit[e].extends]
  BY DEF SaveEdit
<1>3. listing' \in Row
  BY <1>1, <1>2, MergedTyped
<1>4. UNCHANGED <<bid, withdrawing, sales>> /\ edit' = [edit EXCEPT ![e] = NoEdit]
  BY DEF SaveEdit
<1>5. NoEdit \in [open : BOOLEAN, read : Row, new : Row, extends : BOOLEAN] /\ ~NoEdit.open
  BY NoEditTyped
<1>6. edit' \in [Editors -> [open : BOOLEAN, read : Row, new : Row, extends : BOOLEAN]]
  BY <1>1, <1>4, <1>5 DEF TypeOK
<1>7. TypeOK'
  BY <1>1, <1>3, <1>4, <1>6 DEF TypeOK, sales
<1>8. EditsSound'
  <2> SUFFICES ASSUME NEW x \in Editors, edit'[x].open
               PROVE  Sound(edit'[x].read, edit'[x].new)
    BY DEF EditsSound
  <2>1. edit'[x] = edit[x]
    BY <1>1, <1>4, <1>5 DEF TypeOK
  <2> QED BY <2>1 DEF IInv, EditsSound
<1>9. NothingShown' /\ UndecidedUnsold'
  BY <1>4 DEF IInv, NothingShown, UndecidedUnsold, sales
<1> QED BY <1>7, <1>8, <1>9 DEF IInv

\* Every step keeps the invariant.
LEMMA NextIInv == IInv /\ [Next]_vars => IInv'
<1> SUFFICES ASSUME IInv, [Next]_vars PROVE IInv'
  OBVIOUS
<1>1. ASSUME NEW quantity \in 1..MaxUnits, Claim(quantity) PROVE IInv'
  BY <1>1, ClaimIInv
<1>2. ASSUME NEW b \in Bids, AcceptBid(b) PROVE IInv'
  BY <1>2, AcceptIInv
<1>3. ASSUME NEW b \in Bids,
             \/ \E quantity \in 1..MaxUnits, amount \in MinAmount..MaxAmount :
                   PlaceBid(b, quantity, amount)
             \/ RejectBid(b) \/ SaveWithdraw(b) \/ LapseBid(b)
      PROVE  IInv'
  BY <1>3, BidIInv
<1>4. ASSUME NEW b \in Bids, BeginWithdraw(b) PROVE IInv'
  BY <1>4 DEF BeginWithdraw, IInv, TypeOK, EditsSound, NothingShown, UndecidedUnsold, sales
<1>5. ASSUME NEW e \in Editors, BeginEdit(e) PROVE IInv'
  BY <1>5, BeginEditIInv
<1>6. ASSUME NEW e \in Editors, SaveEdit(e) PROVE IInv'
  BY <1>6, SaveEditIInv
<1>7. CASE EndAuction
  <2>1. listing' \in Row
    BY <1>7 DEF EndAuction, IInv, TypeOK, Row
  <2> QED BY <1>7, <2>1 DEF EndAuction, IInv, TypeOK, EditsSound, NothingShown,
               UndecidedUnsold, sales
<1>8. CASE UNCHANGED vars
  BY <1>8 DEF vars, IInv, TypeOK, EditsSound, NothingShown, UndecidedUnsold
<1> QED BY <1>1, <1>2, <1>3, <1>4, <1>5, <1>6, <1>7, <1>8 DEF Next

-----------------------------------------------------------------------------
(* The highest bid *)

\* Nobody bid NaN.
NoNaN == \A b \in Bids : bid[b].status # "none" => bid[b].amount # NaN

\* A step after which no other bid is in the running, and none offers another amount,
\* ties no two bids.
LEMMA FewerBids ==
    ASSUME NoTies, ActiveBids' \subseteq ActiveBids, ActiveBids \subseteq Bids,
           \A x \in Bids : /\ bid'[x].amount = bid[x].amount
                           /\ bid[x].status # "none" => bid'[x].status # "none"
    PROVE  NoTies'
<1>1. NoNaN' => NoNaN
  BY DEF NoNaN
<1> QED BY <1>1 DEF NoTies, NoNaN

\* A bid above every bid in the running, below the amounts that swallow a cent, ties with
\* none of them.
LEMMA PlaceNoTies ==
    ASSUME TypeOK, NoTies, NEW b \in Bids, NEW quantity \in 1..MaxUnits,
           NEW amount \in MinAmount..MaxAmount, PlaceBid(b, quantity, amount)
    PROVE  NoTies'
<1>1. \A x \in Bids : bid'[x] =
        IF x = b THEN [status |-> "pending", quantity |-> quantity, amount |-> amount,
                       lapsed |-> FALSE]
        ELSE bid[x]
  BY DEF TypeOK, PlaceBid
<1>2. /\ bid'[b].amount = amount /\ bid'[b].status = "pending" /\ bid[b].status = "none"
      /\ \A x \in Bids \ {b} : bid'[x] = bid[x]
  BY <1>1 DEF PlaceBid
<1>3. ActiveBids' \subseteq ActiveBids \cup {b}
  BY <1>2 DEF ActiveBids
<1>4. b \notin ActiveBids /\ ActiveBids \subseteq Bids
  BY <1>2 DEF ActiveBids
<1> SUFFICES ASSUME NoNaN', NEW x \in ActiveBids', NEW y \in ActiveBids',
                    bid'[x].amount = bid'[y].amount, bid'[x].amount < Exact
             PROVE  x = y
  BY DEF NoTies, NoNaN
<1>5. NoNaN /\ amount # NaN
  BY <1>2 DEF NoNaN
<1>6. \A z \in ActiveBids : bid[z].amount \in Nat /\ bid[z].amount # NaN
  BY <1>5, BoundsOK DEF ActiveBids, TypeOK, NoNaN
<1>7. ASSUME NEW z \in ActiveBids, amount < Exact PROVE bid[z].amount # amount
  <2>1. Outbids(amount, bid[z].amount)
    BY <1>5, <1>6 DEF PlaceBid, Floor, NoFloor
  <2> QED BY <1>6, <1>7, <2>1, BoundsOK DEF Outbids
<1>8. \A z \in ActiveBids : bid'[z].amount = bid[z].amount
  BY <1>2, <1>4
<1>9. CASE x = b /\ y # b
  BY <1>2, <1>3, <1>7, <1>8, <1>9
<1>10. CASE x # b /\ y = b
  BY <1>2, <1>3, <1>7, <1>8, <1>10
<1>11. CASE x # b /\ y # b
  BY <1>3, <1>5, <1>8, <1>11 DEF NoTies, NoNaN
<1> QED BY <1>9, <1>10, <1>11

LEMMA NextNoTies == TypeOK /\ NoTies /\ [Next]_vars => NoTies'
<1> SUFFICES ASSUME TypeOK, NoTies, [Next]_vars PROVE NoTies'
  OBVIOUS
<1>1. ASSUME NEW b \in Bids, NEW quantity \in 1..MaxUnits, NEW amount \in MinAmount..MaxAmount,
             PlaceBid(b, quantity, amount)
      PROVE  NoTies'
  BY <1>1, PlaceNoTies
<1>2. CASE bid' = bid
  <2>1. ActiveBids' = ActiveBids /\ ActiveBids \subseteq Bids
    BY <1>2 DEF ActiveBids
  <2> QED BY <1>2, <2>1, FewerBids
<1>3. ASSUME NEW b \in Bids, RejectBid(b) \/ SaveWithdraw(b) \/ LapseBid(b) \/ AcceptBid(b)
      PROVE  NoTies'
  <2>1. ASSUME NEW x \in Bids
        PROVE  /\ bid'[x].amount = bid[x].amount
               /\ bid'[x].status = "pending" => bid[x].status = "pending"
               /\ bid[x].status # "none" => bid'[x].status # "none"
               /\ bid[x].lapsed => bid'[x].lapsed
    <3>1. bid[x] \in [status : {"none", "pending", "accepted", "rejected", "withdrawn"},
                      quantity : 1..MaxUnits, amount : 0..MaxAmount, lapsed : BOOLEAN]
      BY DEF TypeOK
    <3>2. bid'[x] \in {bid[x], [bid[x] EXCEPT !.status = "rejected"],
                       [bid[x] EXCEPT !.status = "withdrawn"],
                       [bid[x] EXCEPT !.status = "accepted"]}
          \/ bid'[x] = [bid[x] EXCEPT !.lapsed = TRUE]
      BY <1>3 DEF RejectBid, SaveWithdraw, LapseBid, AcceptBid, TypeOK
    <3> QED BY <3>1, <3>2
  <2>2. ActiveBids' \subseteq ActiveBids /\ ActiveBids \subseteq Bids
    BY <2>1 DEF ActiveBids
  <2> QED BY <2>1, <2>2, FewerBids
<1>4. ASSUME NEW b \in Bids, BeginWithdraw(b) PROVE bid' = bid
  BY <1>4 DEF BeginWithdraw
<1>5. ASSUME NEW quantity \in 1..MaxUnits, Claim(quantity) PROVE bid' = bid
  BY <1>5 DEF Claim
<1>6. ASSUME NEW e \in Editors, BeginEdit(e) \/ SaveEdit(e) PROVE bid' = bid
  BY <1>6 DEF BeginEdit, SaveEdit
<1>7. CASE EndAuction \/ UNCHANGED vars
  BY <1>2, <1>7 DEF EndAuction, vars
<1> QED BY <1>1, <1>2, <1>3, <1>4, <1>5, <1>6, <1>7 DEF Next

-----------------------------------------------------------------------------
(* Commitments *)

\* Saving an edit of the row as it still is keeps the listing consistent: what an edit
\* may change is checked against the stock committed and the contents shown.
LEMMA FreshSave ==
    ASSUME IInv, Consistent, NEW e \in Editors, edit[e].read = listing, SaveEdit(e)
    PROVE  Consistent'
<1> DEFINE new == edit[e].new
<1>1. /\ listing \in Row /\ new \in Row /\ edit[e].extends \in BOOLEAN
      /\ sold \in Nat /\ Sound(listing, new)
  BY BoundsOK DEF IInv, TypeOK, EditsSound, SaveEdit
<1>2. listing' = [Merged(listing, new, listing) EXCEPT !.ended = @ /\ ~edit[e].extends]
  BY DEF SaveEdit
<1>3. /\ listing'.total = new.total /\ listing'.available = new.available
      /\ listing'.status = new.status /\ listing'.contents = new.contents
  <2> DEFINE fields == {"kind", "status", "total", "available", "lot", "ended", "contents"}
  <2>1. DOMAIN listing = fields
    BY <1>1 DEF Row
  <2>2. Merged(listing, new, listing) =
          [f \in fields |-> IF new[f] # listing[f] THEN new[f] ELSE listing[f]]
    BY <2>1 DEF Merged
  <2> HIDE DEF new
  <2> QED BY <1>2, <2>2
<1>4. sold' = sold /\ shown' = shown
  BY DEF SaveEdit, sales
<1>5. sold + listing.available <= listing.total
  BY DEF Consistent, StockCovers
<1>6. /\ listing.available \in Nat /\ listing.total \in Nat
      /\ new.available \in Nat /\ new.total \in Nat
  BY <1>1, BoundsOK DEF Row
<1> HIDE DEF new
<1>7. listing.available <= listing.total
  BY <1>1, <1>5, <1>6
<1>8. StockCovers'
  BY <1>1, <1>3, <1>4, <1>5, <1>6, <1>7 DEF Sound, StockCovers
<1>9. StatusFits'
  BY <1>1, <1>3 DEF Consistent, StatusFits, Sound, Fits
<1>10. ContentsKept'
  <2>1. CASE new.contents = listing.contents
    BY <1>3, <1>4, <2>1 DEF Consistent, ContentsKept
  <2>2. CASE new.contents # listing.contents
    <3>1. listing.total <= listing.available
      BY <1>1, <2>2 DEF Sound
    <3>2. sold = 0
      BY <1>1, <1>5, <1>6, <3>1
    <3> QED BY <1>4, <3>2 DEF IInv, NothingShown, ContentsKept
  <2> QED BY <2>1, <2>2
<1> QED BY <1>8, <1>9, <1>10 DEF Consistent

LEMMA StepKeepsCommitments ==
    IInv /\ [Next]_vars => (Consistent /\ ~StaleSave => Consistent')
<1> SUFFICES ASSUME IInv, [Next]_vars, Consistent, ~StaleSave PROVE Consistent'
  OBVIOUS
<1>1. ASSUME NEW quantity \in 1..MaxUnits, Claim(quantity) PROVE Consistent'
  BY <1>1, SellConsistent DEF Claim, IInv
<1>2. ASSUME NEW b \in Bids, AcceptBid(b) PROVE Consistent'
  <2>1. bid[b].quantity \in 1..MaxUnits
    BY DEF IInv, TypeOK
  <2> QED BY <1>2, <2>1, SellConsistent DEF AcceptBid, IInv
<1>3. ASSUME NEW e \in Editors, SaveEdit(e) PROVE Consistent'
  <2>1. edit[e].read = listing
    BY <1>3 DEF StaleSave, SaveEdit
  <2> QED BY <1>3, <2>1, FreshSave
<1>4. ASSUME UNCHANGED <<listing, sales>> PROVE Consistent'
  BY <1>4 DEF sales, Consistent, StockCovers, StatusFits, ContentsKept
<1>5. ASSUME NEW b \in Bids,
             \/ \E quantity \in 1..MaxUnits, amount \in MinAmount..MaxAmount :
                   PlaceBid(b, quantity, amount)
             \/ RejectBid(b) \/ BeginWithdraw(b) \/ SaveWithdraw(b) \/ LapseBid(b)
      PROVE  UNCHANGED <<listing, sales>>
  BY <1>5 DEF PlaceBid, RejectBid, BeginWithdraw, SaveWithdraw, LapseBid, sales
<1>6. ASSUME NEW e \in Editors, BeginEdit(e) PROVE UNCHANGED <<listing, sales>>
  BY <1>6 DEF BeginEdit, sales
<1>7. CASE EndAuction
  <2>1. /\ listing'.total = listing.total /\ listing'.available = listing.available
        /\ listing'.status = listing.status /\ listing'.contents = listing.contents
    BY <1>7 DEF EndAuction, IInv, TypeOK, Row
  <2> QED BY <1>7, <2>1 DEF EndAuction, sales, Consistent, StockCovers, StatusFits, ContentsKept
<1>8. CASE UNCHANGED vars
  BY <1>4, <1>8 DEF vars, sales
<1> QED BY <1>1, <1>2, <1>3, <1>4, <1>5, <1>6, <1>7, <1>8 DEF Next

-----------------------------------------------------------------------------
(* The theorems *)

\* The invariant holds always: typed rows, sound edits in flight, no contents shown
\* before a sale, and no transaction for a bid that may still be decided.
THEOREM ListingInvariant == Spec => []IInv
BY InitIInv, NextIInv, PTL DEF Spec

\* Stock, versions, bids and edits keep their types: claims and decisions, made under
\* the lock, never take more than is left, whatever edits are saved in between.
THEOREM StockTyped == Spec => []TypeOK
<1>1. IInv => TypeOK
  BY DEF IInv
<1> QED BY <1>1, ListingInvariant, PTL

\* A bid is sold at most once, however decisions and withdrawals race.
THEOREM BidSoldOnce == Spec => []SoldOnce
<1>1. IInv => SoldOnce
  BY DEF IInv, UndecidedUnsold, SoldOnce
<1> QED BY <1>1, ListingInvariant, PTL

\* Bids in the running differ: there is always one highest bid.
THEOREM HighestBidUnique == Spec => []NoTies
<1>1. Init => NoTies
  BY DEF Init, NoTies, ActiveBids, NoBid
<1> QED BY <1>1, NextNoTies, StockTyped, PTL DEF Spec

\* Only an edit saved over a row that changed since it was read can break the
\* listing's consistency with what was sold.
THEOREM CommitmentsHold == Spec => CommitmentsKept
BY ListingInvariant, StepKeepsCommitments, PTL DEF Spec, CommitmentsKept
=============================================================================
