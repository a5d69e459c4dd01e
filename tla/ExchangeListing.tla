--------------------------- MODULE ExchangeListing ---------------------------
(* One Corporate Exchange listing: claims, bids and the seller's decisions,    *)
(* each made under a row lock on the listing, next to edits and withdrawals,   *)
(* which read the listing without a lock and save later.                       *)
(*                                                                             *)
(* A handler that holds the listing's lock from its first read to its commit   *)
(* is one action.  One that does not is a Begin, which reads and validates,    *)
(* and an end, which saves: the columns it found changed against what it read, *)
(* whatever the row holds by then.  Package contents are a version number;     *)
(* titles, texts, prices, appraisals and notifications are left out.           *)
EXTENDS Naturals, FiniteSets

CONSTANTS
    Kinds,          \* kinds of listing looked at: "fixed", "auction"
    Bids,           \* bids that may be submitted
    Editors,        \* edit requests in flight (the seller's, an admin's)
    MaxUnits,       \* bound: units of total stock
    MinAmount,
    MaxAmount,      \* bounds: bid amounts, in cents, and 0 for NaN
    Exact,          \* external: the amount from which a float, or its way into the column,
                    \* has no room for a cent
    MaxSold,        \* bound: units in transactions
    MaxVersion      \* bound: times the package contents are replaced

ASSUME BoundsOK ==
    /\ Kinds \subseteq {"fixed", "auction"}
    /\ MaxUnits \in Nat \ {0} /\ MinAmount \in Nat /\ MaxAmount \in Nat /\ Exact \in Nat \ {0}
    /\ MaxSold \in Nat /\ MaxVersion \in Nat

VARIABLES
    listing,        \* exchange_listings: the row
    bid,            \* exchange_bids
    withdrawing,    \* bids whose withdraw request has passed its check
    edit,           \* the update requests in flight
    sold,           \* exchange_transactions: the units they add up to
    deals,          \* ... how many name a bid
    shown           \* ... and the package contents they were made on

vars == <<listing, bid, withdrawing, edit, sold, deals, shown>>
sales == <<sold, deals, shown>>

Statuses == {"draft", "active", "partially_claimed", "reserved", "completed", "cancelled"}
Settable == {"draft", "active", "cancelled", "completed"}
Open     == {"active", "partially_claimed"}

\* A listing as it is created.
Listed(kind, status, total, lot) ==
    [kind |-> kind, status |-> status, total |-> total, available |-> total, lot |-> lot,
     ended |-> FALSE, contents |-> 0]

NoEdit == [open |-> FALSE, read |-> Listed("fixed", "draft", 1, FALSE),
           new |-> Listed("fixed", "draft", 1, FALSE), extends |-> FALSE]
NoBid == [status |-> "none", quantity |-> 1, amount |-> 0, lapsed |-> FALSE]

\* active_bid_rows
ActiveBids == {b \in Bids : bid[b].status = "pending" /\ ~bid[b].lapsed}

\* float() reads "nan" too, and no comparison with that holds.
NaN == 0

\* max, over the rows in no particular order, never leaves a NaN it began with, and the
\* floor is then the minimum bid.
NoFloor == \E b \in ActiveBids : bid[b].amount = NaN

\* Mutant: equal bids are accepted.
Outbids_Tie(amount, highest) == amount >= highest

\* amount >= float(highest) + 0.01: from Exact on, the cent is lost.
Outbids(amount, highest) == amount > highest \/ (amount = highest /\ highest >= Exact)

\* next_bid_floor, for an amount at or above the minimum bid
Floor(amount) ==
    amount = NaN \/ NoFloor \/ \A b \in ActiveBids : Outbids(amount, bid[b].amount)

-----------------------------------------------------------------------------
(* Under the listing's lock *)

Sell(quantity) ==
    /\ listing' = [listing EXCEPT !.available = @ - quantity,
          !.status = IF quantity = listing.available THEN "reserved" ELSE "partially_claimed"]
    /\ sold' = sold + quantity
    /\ shown' = shown \cup {listing.contents}

Room(quantity) == sold + quantity <= MaxSold

Claim(quantity) ==
    /\ listing.kind = "fixed" /\ listing.status \in Open
    /\ listing.lot => quantity = listing.available
    /\ quantity <= listing.available
    /\ Room(quantity)
    /\ Sell(quantity)
    /\ UNCHANGED <<bid, withdrawing, edit, deals>>

PlaceBid(b, quantity, amount) ==
    /\ bid[b].status = "none"
    /\ listing.kind = "auction" /\ listing.status \in Open /\ ~listing.ended
    /\ quantity <= listing.available
    /\ listing.lot => quantity = listing.available
    /\ Floor(amount)
    /\ bid' = [bid EXCEPT ![b] = [status |-> "pending", quantity |-> quantity,
                                  amount |-> amount, lapsed |-> FALSE]]
    /\ UNCHANGED <<listing, withdrawing, edit, sales>>

RejectBid(b) ==
    /\ bid[b].status = "pending"
    /\ bid' = [bid EXCEPT ![b].status = "rejected"]
    /\ UNCHANGED <<listing, withdrawing, edit, sales>>

\* Mutant: a bid decided already may be accepted.
Decidable_Any(b) == bid[b].status # "none"

Decidable(b) == bid[b].status = "pending"

\* Neither the bid's own expiry nor, before the auction's end, the listing's
\* status is looked at.  The last unit gone, the other pending bids are rejected.
AcceptBid(b) ==
    /\ Decidable(b)
    /\ listing.ended => listing.status \in Open
    /\ bid[b].quantity <= listing.available
    /\ Room(bid[b].quantity)
    /\ Sell(bid[b].quantity)
    /\ deals' = [deals EXCEPT ![b] = @ + 1]
    /\ bid' = [x \in Bids |->
          IF x = b THEN [bid[x] EXCEPT !.status = "accepted"]
          ELSE IF bid[b].quantity = listing.available /\ bid[x].status = "pending"
               THEN [bid[x] EXCEPT !.status = "rejected"] ELSE bid[x]]
    /\ UNCHANGED <<withdrawing, edit>>

-----------------------------------------------------------------------------
(* Without it *)

BeginWithdraw(b) ==
    /\ bid[b].status = "pending" /\ b \notin withdrawing
    /\ withdrawing' = withdrawing \cup {b}
    /\ UNCHANGED <<listing, bid, edit, sales>>

SaveWithdraw(b) ==
    /\ b \in withdrawing
    /\ bid' = [bid EXCEPT ![b].status = "withdrawn"]
    /\ withdrawing' = withdrawing \ {b}
    /\ UNCHANGED <<listing, edit, sales>>

Committed(row) == IF row.total >= row.available THEN row.total - row.available ELSE 0

StockAllowed(row, total, available) ==
    /\ total >= 1 /\ total >= Committed(row)
    /\ available + Committed(row) <= total

\* Mutant: a reservation does not protect the contents.
ContentsFree_Bids(row) == ActiveBids = {}

ContentsFree(row) == Committed(row) = 0 /\ ActiveBids = {}

\* A stock change completes a listing or makes it active again.
Restocked(row, total, available) ==
    LET changed == total # row.total \/ available # row.available IN
    [row EXCEPT !.total = total, !.available = available, !.status =
        IF changed /\ available = 0 /\ row.status \in {"active", "partially_claimed", "reserved"}
        THEN "completed"
        ELSE IF changed /\ available > 0 /\ row.status \in {"completed", "reserved"}
        THEN "active" ELSE row.status]

Restocks(row) ==
    {Restocked(row, s[1], s[2]) : s \in
        {s \in (1..MaxUnits) \X (0..MaxUnits) : StockAllowed(row, s[1], s[2])}}

Repacks(row) == {[row EXCEPT !.contents = v] : v \in
    {v \in 1..MaxVersion : v = row.contents + 1 /\ ContentsFree(row)}}

Settings(row) == {[row EXCEPT !.lot = lot] : lot \in BOOLEAN}
                 \cup {[row EXCEPT !.status = status] : status \in Settable}

\* apply_listing_edits and the explicit status, on the row as it was read: the stock,
\* the contents, the lot policy or the status changes, one of them per request.  The
\* stock is checked even when the request leaves it as it is.
Edits(row) == Restocks(row) \cup
    {new \in Repacks(row) \cup Settings(row) : StockAllowed(row, row.total, row.available)}

\* An auction's new ending time is kept apart: the row only says whether it has passed.
BeginEdit(e) ==
    /\ ~edit[e].open
    /\ \E new \in Edits(listing), extends \in {FALSE, listing.kind = "auction"} :
          /\ extends = (new = listing)
          /\ edit' = [edit EXCEPT ![e] = [open |-> TRUE, read |-> listing, new |-> new,
                                          extends |-> extends]]
    /\ UNCHANGED <<listing, bid, withdrawing, sales>>

\* The columns that differ from what was read, and no others.
Merged(read, new, row) ==
    [f \in DOMAIN row |-> IF new[f] # read[f] THEN new[f] ELSE row[f]]

SaveEdit(e) ==
    /\ edit[e].open
    /\ listing' = [Merged(edit[e].read, edit[e].new, listing)
                      EXCEPT !.ended = @ /\ ~edit[e].extends]
    /\ edit' = [edit EXCEPT ![e] = NoEdit]
    /\ UNCHANGED <<bid, withdrawing, sales>>

-----------------------------------------------------------------------------
(* Time *)

LapseBid(b) ==
    /\ bid[b].status = "pending" /\ ~bid[b].lapsed
    /\ bid' = [bid EXCEPT ![b].lapsed = TRUE]
    /\ UNCHANGED <<listing, withdrawing, edit, sales>>

EndAuction ==
    /\ listing.kind = "auction" /\ ~listing.ended
    /\ listing' = [listing EXCEPT !.ended = TRUE]
    /\ UNCHANGED <<bid, withdrawing, edit, sales>>

-----------------------------------------------------------------------------

Init ==
    /\ \E kind \in Kinds, status \in {"draft", "active"},
          total \in 1..MaxUnits, lot \in BOOLEAN : listing = Listed(kind, status, total, lot)
    /\ bid = [b \in Bids |-> NoBid]
    /\ withdrawing = {}
    /\ edit = [e \in Editors |-> NoEdit]
    /\ sold = 0 /\ deals = [b \in Bids |-> 0] /\ shown = {}

Next ==
    \/ \E quantity \in 1..MaxUnits : Claim(quantity)
    \/ \E b \in Bids :
          \/ \E quantity \in 1..MaxUnits, amount \in MinAmount..MaxAmount :
                PlaceBid(b, quantity, amount)
          \/ AcceptBid(b) \/ RejectBid(b) \/ BeginWithdraw(b) \/ SaveWithdraw(b) \/ LapseBid(b)
    \/ \E e \in Editors : BeginEdit(e) \/ SaveEdit(e)
    \/ EndAuction

Spec == Init /\ [][Next]_vars

-----------------------------------------------------------------------------
(* Properties *)

Row ==
    [kind : {"fixed", "auction"}, status : Statuses, total : 1..MaxUnits,
     available : 0..MaxUnits, lot : BOOLEAN, ended : BOOLEAN, contents : 0..MaxVersion]

\* Stock never goes below zero or above the bound, whatever edits overlap.
TypeOK ==
    /\ listing \in Row
    /\ bid \in [Bids -> [status : {"none", "pending", "accepted", "rejected", "withdrawn"},
                         quantity : 1..MaxUnits, amount : 0..MaxAmount, lapsed : BOOLEAN]]
    /\ withdrawing \subseteq Bids
    /\ edit \in [Editors -> [open : BOOLEAN, read : Row, new : Row, extends : BOOLEAN]]
    /\ sold \in 0..MaxSold /\ deals \in [Bids -> Nat] /\ shown \subseteq 0..MaxVersion

\* The units in transactions are not offered again.
StockCovers == sold + listing.available <= listing.total

\* A reserved listing has nothing left, a partially claimed one has something.
StatusFits ==
    /\ listing.status = "reserved" => listing.available = 0
    /\ listing.status = "partially_claimed" => listing.available > 0

\* Every transaction was made on the contents the listing has now.
ContentsKept == shown \subseteq {listing.contents}

Consistent == StockCovers /\ StatusFits /\ ContentsKept

StaleSave == \E e \in Editors : edit[e].open /\ edit[e].read # listing /\ SaveEdit(e)

\* Claims, decisions, restocks, repackagings, withdrawals and time, in any order, keep
\* the listing consistent with what was sold; only saving an edit over a row that
\* changed since it was read may break that.
CommitmentsKept == [][Consistent /\ ~StaleSave => Consistent']_vars

\* A bid makes at most one transaction, however decisions and withdrawals race.
SoldOnce == \A b \in Bids : deals[b] <= 1

\* Two bids in the running are never equal, whatever lapsed, was rejected or withdrawn
\* before: there is one highest bid, as long as its cents fit in a float and nobody bid NaN.
NoTies == (\A b \in Bids : bid[b].status # "none" => bid[b].amount # NaN) =>
    \A b, c \in ActiveBids : bid[b].amount = bid[c].amount /\ bid[b].amount < Exact => b = c
=============================================================================
