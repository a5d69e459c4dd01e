-------------------------- MODULE MiningSettlement --------------------------
(* A mining settlement: what calculate_settlement makes of a payload, and the  *)
(* draft it is saved in, which requests update, finalize and delete without    *)
(* locking it.  Money is in cents.  A rate is in parts of Whole, a share weight *)
(* in parts of Unit, as the calculation engine receives them.  Quantities and  *)
(* prices of minerals are entered as decimals: a quantity is in parts of Grain, *)
(* its product with a price in parts of Cent.                                  *)
EXTENDS Integers, Sequences, FiniteSets, Sums

CONSTANTS
    Payloads,       \* what a client may submit for a new settlement
    Updates,        \* bound: the payloads it may be updated with
    Handlers,       \* requests on the settlement at a time
    MaxSaves,       \* bound: times the settlement is saved
    Whole,          \* 100% (RATE_SCALE)
    Unit,           \* share weight 1 (WEIGHT_SCALE)
    Grain,          \* a unit of a mineral
    Cent,           \* a cent
    Precision,      \* 1 in the last place of a Decimal's digits
    Scales          \* the powers of ten up to the largest quantity

ASSUME SettlementConstants ==
    /\ Updates \subseteq Payloads
    /\ MaxSaves \in Nat \ {0} /\ Whole \in Nat \ {0} /\ Unit \in Nat \ {0}
    /\ Precision \in Nat \ {0} /\ Grain \in Nat \ {0} /\ Cent \in Nat \ {0}
    /\ 1 \in Scales /\ Scales \subseteq Nat \ {0}
    /\ \A s \in Scales \ {1} : \E r \in Scales : s = 10 * r

ChargeRows == [method : {"none", "flat_isk", "percentage"}, value : Nat]
TermRows   == [method : {"auto", "shares", "fixed_percentage"}, value : Nat]

\* What decimal_value and the checks for negative numbers let through, fractions of a
\* unit among them.  Only a miner of the ledger has a share of its own accord ("auto").
ASSUME PayloadsOK == \A p \in Payloads :
    /\ IsFiniteSet(DOMAIN p.outputs)
    /\ \A t \in DOMAIN p.outputs : p.outputs[t].quantity \in Nat /\ p.outputs[t].price \in Nat
    /\ p.reserve \in ChargeRows /\ p.deductions \in Seq(ChargeRows)
    /\ DOMAIN p.ledger = 1..Len(p.ledger) /\ Len(p.ledger) \in Nat
    /\ \A i \in DOMAIN p.ledger : p.ledger[i].mined \in Nat /\ p.ledger[i].terms \in TermRows
    /\ p.manual \in Seq({c \in TermRows : c.method # "auto"})

VARIABLES
    settlement,     \* the mining_settlements row and its children
    section         \* what each request in flight read

settlementVars == <<settlement, section>>

-----------------------------------------------------------------------------
(* Numbers *)

RoundHalfUp(a, b) == (2 * a + b) \div (2 * b)

\* How Decimal's context rounds a quotient or a product.
RoundHalfEven(a, b) ==
    LET twice == 2 * (a % b)
        up    == twice > b \/ (twice = b /\ (a \div b) % 2 = 1)
    IN  a \div b + IF up THEN 1 ELSE 0

\* int(): what is stored of a quantity.
Units(quantity) == quantity \div Grain

\* normalize_percentage, of a number entered in parts of Whole: up to 1 it is
\* taken for a ratio, above for a percentage.
Rate(entered) == IF entered <= Whole THEN entered ELSE RoundHalfUp(entered, 100)

\* Mutant: the cents left over go to the smallest fractions.
Allocate_Smallest(total, weight) ==
    LET W == Total(weight)
        part(i) == (total * weight[i]) % W
        before(i) == {j \in DOMAIN weight : weight[j] > 0 /\
                          (part(j) < part(i) \/ (part(j) = part(i) /\ j < i))}
        left == total - Total([i \in DOMAIN weight |-> (total * weight[i]) \div W])
    IN  [i \in DOMAIN weight |-> IF total <= 0 \/ weight[i] = 0 THEN 0 ELSE
            (total * weight[i]) \div W + IF Cardinality(before(i)) < left THEN 1 ELSE 0]

\* allocate_money and allocate_units: everyone's share rounded down, and what is
\* left one by one to the largest fractions, the first of equal ones first.
Allocate(total, weight) ==
    LET W == Total(weight)
        part(i) == (total * weight[i]) % W
        before(i) == {j \in DOMAIN weight : weight[j] > 0 /\
                          (part(j) > part(i) \/ (part(j) = part(i) /\ j < i))}
        left == total - Total([i \in DOMAIN weight |-> (total * weight[i]) \div W])
    IN  [i \in DOMAIN weight |-> IF total <= 0 \/ weight[i] = 0 THEN 0 ELSE
            (total * weight[i]) \div W + IF Cardinality(before(i)) < left THEN 1 ELSE 0]

-----------------------------------------------------------------------------
(* The calculation *)

\* The outputs that count: a mineral of quantity zero is skipped.
Minerals(p) == {t \in DOMAIN p.outputs : p.outputs[t].quantity > 0}

\* Every mineral is worth whole cents.
Gross(p) == Total([t \in Minerals(p) |->
    RoundHalfUp(p.outputs[t].quantity * p.outputs[t].price, Cent)])

\* A reserve or a deduction.
Charge(p, charge) ==
    CASE charge.method = "none" -> 0
      [] charge.method = "flat_isk" -> charge.value
      [] charge.method = "percentage" -> RoundHalfUp(Gross(p) * Rate(charge.value), Whole)

Reserve(p)       == Charge(p, p.reserve)
Deductions(p)    == Total([d \in DOMAIN p.deductions |-> Charge(p, p.deductions[d])])
Distributable(p) == Gross(p) - Reserve(p) - Deductions(p)

\* aggregate_contributions: a miner's own weight is what it mined over the average.
AutoWeight(p, i) ==
    LET mined == Total([j \in DOMAIN p.ledger |-> p.ledger[j].mined]) IN
    IF mined = 0 THEN 0 ELSE RoundHalfUp(Unit * p.ledger[i].mined * Len(p.ledger), mined)

\* _participant_rows: the miners of the ledger, then those entered by hand.
Crew(p) == 1..(Len(p.ledger) + Len(p.manual))

Terms(p, i) ==
    IF i <= Len(p.ledger) THEN p.ledger[i].terms ELSE p.manual[i - Len(p.ledger)]

IsFixed(p, i) == Terms(p, i).method = "fixed_percentage"

FixedRate(p) == [i \in Crew(p) |-> IF IsFixed(p, i) THEN Rate(Terms(p, i).value) ELSE 0]

Weight(p) == [i \in Crew(p) |->
    CASE Terms(p, i).method = "auto"   -> AutoWeight(p, i)
      [] Terms(p, i).method = "shares" -> Terms(p, i).value
      [] OTHER                         -> 0]

FixedPay(p) == [i \in Crew(p) |-> RoundHalfUp(Distributable(p) * FixedRate(p)[i], Whole)]

SharePool(p) == Distributable(p) - Total(FixedPay(p))

Payouts(p) ==
    LET shares == Allocate(SharePool(p), Weight(p)) IN
    [i \in Crew(p) |-> FixedPay(p)[i] + shares[i]]

\* compensation_ratios, over the common denominator Whole * Total(Weight(p)).
Ratios(p) ==
    LET W == Total(Weight(p)) IN
    [i \in Crew(p) |-> IF IsFixed(p, i) THEN FixedRate(p)[i] * (IF W = 0 THEN 1 ELSE W)
                       ELSE (Whole - Total(FixedRate(p))) * Weight(p)[i]]

\* Mutant: rounded to the nearest unit.
Distributed_Nearest(p, t) ==
    IF Gross(p) = 0 THEN Units(p.outputs[t].quantity)
    ELSE RoundHalfUp(p.outputs[t].quantity * Distributable(p), Gross(p) * Grain)

\* A number, in the last place of 1, as a Decimal of so many digits carries it.
Scale(n) == CHOOSE s \in Scales : n < s * Precision /\ (s = 1 \/ s * Precision <= 10 * n)
Carried(n) == Scale(n) * RoundHalfEven(n, Scale(n))

\* A Decimal has digits to spare for the product of a quantity and the gross value.
ASSUME PrecisionOK == \A p \in Payloads : \A t \in Minerals(p) :
    /\ \E s \in Scales : p.outputs[t].quantity < s
    /\ 11 * p.outputs[t].quantity * Gross(p) < 2 * Precision

\* The ratio is a Decimal, and so is its product with the quantity.
Distributed(p, t) ==
    IF Gross(p) = 0 THEN Units(p.outputs[t].quantity)
    ELSE Units(Carried(p.outputs[t].quantity * RoundHalfEven(Distributable(p) * Precision, Gross(p)))
                   \div Precision)

MineralPayouts(p, t) ==
    IF p.mode = "minerals" THEN Allocate(Distributed(p, t), Ratios(p))
    ELSE [i \in Crew(p) |-> 0]

Unallocated(p) == Distributable(p) - Total(Payouts(p))

\* What calculate_settlement refuses with a SettlementValidationError.
Accepted(p) ==
    /\ p.ledger # <<>> /\ Minerals(p) # {}
    /\ \A charge \in {p.reserve} \cup {p.deductions[d] : d \in DOMAIN p.deductions} :
          charge.method = "percentage" => Rate(charge.value) <= Whole
    /\ \A i \in Crew(p) : FixedRate(p)[i] <= Whole
    /\ Reserve(p) + Deductions(p) <= Gross(p)
    /\ Total(FixedRate(p)) <= Whole
    /\ SharePool(p) > 0 => Total(Weight(p)) > 0
    /\ p.mode = "minerals" /\ Total(FixedRate(p)) < Whole => Total(Weight(p)) > 0
    /\ Unallocated(p) \in -1..1

-----------------------------------------------------------------------------
(* What is stored *)

\* The columns of the row that replace_snapshot assigns.
Columns(p) == [gross |-> Gross(p), reserve |-> Reserve(p), deductions |-> Deductions(p),
               unallocated |-> Unallocated(p)]

\* The child rows of the n-th save: outputs, participants and ledger links.  Of a
\* quantity its units are stored; "entered" is history.
Children(p, n) ==
    [save |-> n,
     entries |-> {p.ledger[i].entry : i \in DOMAIN p.ledger},
     outputs |-> [t \in Minerals(p) |->
        LET entered == p.outputs[t].quantity
            given   == IF p.mode = "minerals" THEN Distributed(p, t) ELSE 0
        IN  [quantity |-> Units(entered), distributed |-> given, retained |-> Units(entered) - given,
             entered |-> entered]],
     crew |-> [i \in Crew(p) |->
        [method |-> Terms(p, i).method, rate |-> FixedRate(p)[i], weight |-> Weight(p)[i],
         payout |-> Payouts(p)[i],
         minerals |-> [t \in Minerals(p) |-> MineralPayouts(p, t)[i]]]]]

Absent == [status |-> "absent", saves |-> 0, columns |-> [gross |-> 0, reserve |-> 0,
           deductions |-> 0, unallocated |-> 0], children |-> {}]

NoSection == [op |-> "none", read |-> Absent]

\* editable_settlement
Editable == settlement.status = "draft"

\* uq_mining_settlement_output_type and uq_mining_settlement_ledger_entry
Collides(child, kept) == \E other \in kept :
    \/ DOMAIN child.outputs \cap DOMAIN other.outputs # {}
    \/ child.entries \cap other.entries # {}

-----------------------------------------------------------------------------
(* The requests *)

CreateDraft ==
    /\ settlement.saves = 0
    /\ \E p \in Payloads :
          /\ Accepted(p)
          /\ settlement' = [status |-> "draft", saves |-> 1, columns |-> Columns(p),
                            children |-> {Children(p, 1)}]
    /\ UNCHANGED section

\* Every other request reads the settlement, and its children, first.
Begin(e) ==
    /\ section[e].op = "none"
    /\ Editable
    /\ \E op \in {"update", "finalize", "delete"} :
          section' = [section EXCEPT ![e] = [op |-> op, read |-> settlement]]
    /\ UNCHANGED settlement

End(e) == section' = [section EXCEPT ![e] = NoSection]

\* Mutant: the children are deleted by their settlement, not one by one.
Kept_None(e) == {}

\* The flush deletes the child rows the request read; others stay.
Kept(e) == settlement.children \ section[e].read.children

\* The columns that differ from what was read are written, the others are not.
Overlaid(e, columns) == [c \in DOMAIN columns |->
    IF columns[c] # section[e].read.columns[c] THEN columns[c] ELSE settlement.columns[c]]

UpdateDraft(e) ==
    /\ section[e].op = "update"
    /\ settlement.saves < MaxSaves
    /\ \E p \in Updates :
          LET child == Children(p, settlement.saves + 1) IN
          /\ Accepted(p) /\ settlement.status # "absent" /\ ~Collides(child, Kept(e))
          /\ settlement' = [settlement EXCEPT !.saves = @ + 1,
                                !.columns = Overlaid(e, Columns(p)), !.children = Kept(e) \cup {child}]
    /\ End(e)

\* The payload is refused, the row is gone or a unique key is taken.
Refuse(e) ==
    /\ section[e].op = "update"
    /\ End(e)
    /\ UNCHANGED settlement

\* The flush writes the status; when the row is gone the request fails.
Finalize(e) ==
    /\ section[e].op = "finalize"
    /\ section[e].read.columns.unallocated \in -1..1
    /\ settlement' = IF settlement.status = "absent" THEN settlement
                     ELSE [settlement EXCEPT !.status = "finalized"]
    /\ End(e)

DeleteDraft(e) ==
    /\ section[e].op = "delete"
    /\ settlement' = [Absent EXCEPT !.saves = settlement.saves]
    /\ End(e)

SettlementInit ==
    /\ settlement = Absent
    /\ section = [e \in Handlers |-> NoSection]

SettlementNext ==
    \/ CreateDraft
    \/ \E e \in Handlers :
          Begin(e) \/ UpdateDraft(e) \/ Refuse(e) \/ Finalize(e) \/ DeleteDraft(e)

SettlementSpec == SettlementInit /\ [][SettlementNext]_settlementVars

-----------------------------------------------------------------------------
(* Properties *)

Payout(child, i) == child.crew[i].payout

\* Gross value is accounted for to the cent: as long as the children of a
\* settlement are those of one save, reserve, deductions, the payouts of its
\* participants and the remainder add up to it, whatever was rounded and however
\* requests overlapped; only a cent too much may be paid, never one kept back.
Reconciles == \A child \in settlement.children : Cardinality(settlement.children) = 1 =>
    LET c == settlement.columns IN
    /\ c.gross = c.reserve + c.deductions + Total([i \in DOMAIN child.crew |-> Payout(child, i)])
                 + c.unallocated
    /\ c.unallocated \in {-1, 0}

\* A larger share never pays less, in cents or in any mineral, and equal shares
\* pay the same but for one cent or unit.
FairShares == \A child \in settlement.children : \A i, j \in DOMAIN child.crew :
    LET a == child.crew[i]  b == child.crew[j] IN
    {a.method, b.method} \subseteq {"auto", "shares"} /\ a.weight >= b.weight =>
        LET slack == IF a.weight = b.weight THEN 1 ELSE 0 IN
        /\ a.payout + slack >= b.payout
        /\ \A t \in DOMAIN a.minerals : a.minerals[t] + slack >= b.minerals[t]

\* Every stored unit of a refined mineral is either handed to a participant or kept, and
\* none is handed out that is not there.  Of the quantity that was entered, what is not
\* handed out covers the reserve and the deductions; a fraction of a unit counts for that,
\* though it is not stored.
MineralsConserved == \A child \in settlement.children : \A t \in DOMAIN child.outputs :
    LET out == child.outputs[t]  c == settlement.columns IN
    /\ out.distributed = Total([i \in DOMAIN child.crew |-> child.crew[i].minerals[t]])
    /\ out.distributed + out.retained = out.quantity /\ out.retained >= 0
    /\ Cardinality(settlement.children) = 1 =>
          c.gross * (out.entered - Grain * out.distributed) >= (c.reserve + c.deductions) * out.entered
=============================================================================
