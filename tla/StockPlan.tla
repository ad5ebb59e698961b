------------------------------ MODULE StockPlan ------------------------------
(***************************************************************************)
(* What a stock control run computes (app/domain/stock_control), for one   *)
(* size of one product; sizes do not influence each other.                 *)
(*   return_excess: the stock is shared out to the regions by their        *)
(*     demand, and units are moved from the regions above their share to   *)
(*     those below;                                                        *)
(*   ship_from_hand: one row of stock at hand is shared out to the regions *)
(*     that need it;                                                       *)
(*   store_balance: units are moved from one account to another.           *)
(* Quantities are of one size; regions are numbered in alphabetical order. *)
(***************************************************************************)
EXTENDS Integers, FiniteSets, FiniteSetsExt, Functions

CONSTANTS
    Regions,
    Keeps,      \* values of minimum_keep_per_size and of min_source_stock
    Profile,    \* default_il_profile: the share of each of its regions ...
    Scale,      \* ... of Scale; a weight of an allocation is in this unit
    MinHistory, \* minimum_history_orders
    MaxQty,     \* bound: demand and stock of a region, stock of an account
    MaxHand     \* bound: units in the row at hand

ASSUME RegionsAssumption == Regions \subseteq Nat /\ IsFiniteSet(Regions)
ASSUME ProfileAssumption ==
    /\ DOMAIN Profile \subseteq Regions /\ Scale \in Nat \ {0, 1}
    /\ \A r \in DOMAIN Profile : Profile[r] \in 1 .. Scale
ASSUME NumbersAssumption ==
    /\ Keeps \subseteq Nat /\ {MinHistory, MaxQty} \subseteq Nat
    /\ MaxHand \in Nat \ {0}

VARIABLES
    phase,      \* plan, move, ship, balance, done
    demand,     \* orders per region that has rows of the size
    stock,      \* units per region
    keep,       \* minimum_keep_per_size
    target,     \* planned units per region
    delta,      \* planned change per region, limited by keep
    left,       \* what the movements have not done of it yet
    moved,      \* units moved from each region to each other
    hand,       \* the row at hand and how it is to be shipped
    shipment,   \* units sent to each region, and units left over
    balance,    \* the accounts and the rules between them
    transfer    \* units moved between the accounts

plan == <<keep, target, delta>>
moves == <<left, moved>>
computeVars == <<phase, demand, stock, plan, moves, hand, shipment, balance, transfer>>

-----------------------------------------------------------------------------
(* largest_remainder_allocation                                            *)

Least(a, b) == IF a <= b THEN a ELSE b
AtLeastZero(n) == IF n < 0 THEN 0 ELSE n

Floor(total, w, k) == (total * w[k]) \div SumFunction(w)
Remainder(total, w, k) == (total * w[k]) % SumFunction(w)

\* The rest goes, one by one, to the greatest remainders.  Equal ones are told apart
\* by their rounding to 28 digits and then by the name: any order is allowed here.
WithRest(total, w) ==
    LET floors == [k \in DOMAIN w |-> Floor(total, w, k)]
        rest == total - SumFunction(floors)
        ByRemainder(B) == \A k \in B, j \in DOMAIN w \ B :
                            Remainder(total, w, k) >= Remainder(total, w, j)
    IN  {[k \in DOMAIN w |-> floors[k] + (IF k \in B THEN 1 ELSE 0)] :
           B \in {C \in SUBSET {k \in DOMAIN w : w[k] > 0} :
                    Cardinality(C) = rest /\ ByRemainder(C)}}

\* Without a positive weight the first key gets all, and the keys are those of a set.
ToTheFirst(total, K) ==
    IF K = {} THEN {[k \in {} |-> 0]}
    ELSE {[k \in K |-> IF k = f THEN total ELSE 0] : f \in K}

FloorsOnly(total, w) ==                                                \* mutant
    {[k \in DOMAIN w |-> IF SumFunction(w) = 0 THEN 0 ELSE Floor(total, w, k)]}

Allocations(total, w) ==
    IF SumFunction(w) = 0 THEN ToTheFirst(total, DOMAIN w) ELSE WithRest(total, w)

-----------------------------------------------------------------------------
NoHand == [qty |-> 0, match |-> "none", mode |-> "redistribute", all |-> FALSE]
NoShipment == [sent |-> [r \in {} |-> 0], over |-> 0]
NoBalance == [from |-> 0, to |-> 0, mode |-> "equalize", min |-> 0, max |-> 0]

Present == DOMAIN stock
None == [r \in Present |-> 0]

Hands ==
    [qty : 1 .. MaxHand, match : {"exact", "product", "none", "mismatch"},
     mode : {"redistribute", "balance"}, all : BOOLEAN]

\* max = 0 is no maximum.
Balances ==
    [from : 1 .. MaxQty, to : 0 .. MaxQty, mode : {"equalize", "donor_recipient"},
     min : Keeps, max : 0 .. MaxQty]

\* The three types of runs.
ComputeInit ==
    /\ \E P \in (SUBSET Regions) \ {{}} :
         /\ demand \in [P -> 0 .. MaxQty] /\ stock \in [P -> 0 .. MaxQty]
         /\ \/ /\ phase = "plan" /\ keep \in Keeps
               /\ hand = NoHand /\ balance = NoBalance
            \/ /\ phase = "ship" /\ keep = 0
               /\ hand \in Hands /\ balance = NoBalance
            \/ /\ P = {Min(Regions)} /\ demand = [r \in P |-> 0] /\ stock = demand
               /\ phase = "balance" /\ keep = 0
               /\ hand = NoHand /\ balance \in Balances
    /\ target = None /\ delta = None /\ left = None
    /\ moved = [r \in Present |-> None]
    /\ shipment = NoShipment /\ transfer = 0

-----------------------------------------------------------------------------
(* compute_return_excess and _allocate_movements                           *)

Equal == [r \in Present |-> 1]
Orders == SumFunction(demand)

\* A donor keeps the minimum, however far its share is below it.
KeepIgnored(r) == target'[r] - stock[r]                                \* mutant
Delta(r) ==
    LET d == target'[r] - stock[r]
    IN  IF d < 0 /\ keep > 0 THEN -Least(-d, AtLeastZero(stock[r] - keep)) ELSE d

Plan ==
    /\ phase = "plan"
    /\ target' \in Allocations(SumFunction(stock), IF Orders = 0 THEN Equal ELSE demand)
    /\ delta' = [r \in Present |-> Delta(r)]
    /\ left' = delta'
    /\ phase' = "move"
    /\ UNCHANGED <<demand, stock, keep, moved, hand, shipment, balance, transfer>>

Donors == {r \in Present : left[r] < 0}
Recipients == {r \in Present : left[r] > 0}

\* Sorted once, by what they were to give or to get, and then by name.
Before(r, q, d) == d[r] > d[q] \/ (d[r] = d[q] /\ r <= q)
FirstDonor(r) == r \in Donors /\ \A q \in Donors : Before(r, q, [k \in Present |-> -delta[k]])
FirstRecipient(r) == r \in Recipients /\ \A q \in Recipients : Before(r, q, delta)

Units(r, q) == Least(-left[r], left[q])

Move(r, q) ==
    /\ phase = "move" /\ FirstDonor(r) /\ FirstRecipient(q)
    /\ moved' = [moved EXCEPT ![r][q] = @ + Units(r, q)]
    /\ left' = [left EXCEPT ![r] = @ + Units(r, q), ![q] = @ - Units(r, q)]
    /\ UNCHANGED <<phase, demand, stock, plan, hand, shipment, balance, transfer>>

NothingToPair == Donors = {} \/ Recipients = {}

MovesEnd ==
    /\ phase = "move" /\ NothingToPair
    /\ phase' = "done"
    /\ UNCHANGED <<demand, stock, plan, moves, hand, shipment, balance, transfer>>

-----------------------------------------------------------------------------
(* compute_ship_from_hand                                                  *)

Scaled(w) == [r \in DOMAIN w |-> w[r] * Scale]

\* _ship_weights
Weights ==
    IF Orders < MinHistory /\ DOMAIN Profile # {}
    THEN {Restrict(Profile, DOMAIN Profile \cap Present)}
    ELSE IF hand.mode = "balance"
    THEN {Scaled([r \in Present |-> AtLeastZero(t[r] - stock[r])]) :
            t \in Allocations(SumFunction(stock) + (IF Orders = 0 THEN 1 ELSE Orders),
                              IF Orders = 0 THEN Equal ELSE demand)}
    ELSE {Scaled([r \in Present |-> AtLeastZero(demand[r] - stock[r])])}

\* A row whose size has no rows of its own takes the orders of the product, or the
\* profile; none of them if the sizes of the product do not agree with it.
HandWeights ==
    CASE hand.match = "exact" -> Weights
      [] hand.match = "product" -> {Scaled(demand)}
      [] hand.match = "none" -> {Profile}

Unmatched == hand.match = "mismatch" \/ (hand.match = "none" /\ DOMAIN Profile = {})

\* int() of the sum of the weights.  The shares are floats, and so a sum of ten tenths
\* may be less than one.
Needs(w) ==
    LET n == SumFunction(w) \div Scale
        fractions == \E r \in DOMAIN w : w[r] % Scale # 0
    IN  {n} \cup (IF fractions /\ SumFunction(w) % Scale = 0 THEN {n - 1} ELSE {})

NeedIgnored(w) == {hand.qty}                                           \* mutant
Allowed(w) ==
    IF hand.all THEN {hand.qty} ELSE {Least(hand.qty, n) : n \in Needs(w)}

Ship ==
    /\ phase = "ship" /\ ~Unmatched
    /\ \E w \in HandWeights : \E n \in Allowed(w) : \E a \in Allocations(n, w) :
         shipment' = [sent |-> a, over |-> hand.qty - n]
    /\ phase' = "done"
    /\ UNCHANGED <<demand, stock, plan, moves, hand, balance, transfer>>

LeaveOut ==
    /\ phase = "ship" /\ Unmatched
    /\ shipment' = [NoShipment EXCEPT !.over = hand.qty]
    /\ phase' = "done"
    /\ UNCHANGED <<demand, stock, plan, moves, hand, balance, transfer>>

-----------------------------------------------------------------------------
(* compute_store_balance                                                   *)

Half(b) == (b.from + b.to) \div 2

MinIgnored(b) ==                                                       \* mutant
    AtLeastZero(b.from - (IF b.mode = "equalize" THEN Half(b) ELSE b.min))
Movable(b) ==
    AtLeastZero(b.from - (IF b.mode = "equalize" /\ Half(b) > b.min THEN Half(b) ELSE b.min))

Needed(b) ==
    IF b.mode = "equalize" THEN AtLeastZero(Half(b) - b.to)
    ELSE IF b.max = 0 THEN Movable(b) ELSE AtLeastZero(b.max - b.to)

Balance ==
    /\ phase = "balance"
    /\ transfer' = Least(Movable(balance), Needed(balance))
    /\ phase' = "done"
    /\ UNCHANGED <<demand, stock, plan, moves, hand, shipment, balance>>

-----------------------------------------------------------------------------
ComputeNext ==
    \/ Plan \/ (\E r, q \in Present : Move(r, q)) \/ MovesEnd
    \/ Ship \/ LeaveOut
    \/ Balance

ComputeSpec == ComputeInit /\ [][ComputeNext]_computeVars

-----------------------------------------------------------------------------
(***************************************************************************)
(* Types; a region is a donor or a recipient and never becomes the other.  *)
(***************************************************************************)
ComputeTypes ==
    /\ phase \in {"plan", "move", "ship", "balance", "done"}
    /\ demand \in [Present -> Nat] /\ stock \in [Present -> Nat] /\ keep \in Nat
    /\ target \in [Present -> Nat]
    /\ delta \in [Present -> Int] /\ left \in [Present -> Int]
    /\ \A r \in Present :
         left[r] \in (IF delta[r] < 0 THEN delta[r] .. 0 ELSE 0 .. delta[r])
    /\ moved \in [Present -> [Present -> Nat]]
    /\ hand \in Hands \cup {NoHand}
    /\ shipment.over \in Nat
    /\ \A r \in DOMAIN shipment.sent : r \in Regions /\ shipment.sent[r] \in Nat
    /\ balance \in Balances \cup {NoBalance} /\ transfer \in Nat

Planned == phase = "move" \/ (phase = "done" /\ hand = NoHand /\ balance = NoBalance)

(***************************************************************************)
(* The plan distributes the whole stock, and each region's target is its   *)
(* exact share of it, rounded up or down: no unit is lost to the rounding, *)
(* and none beyond the next integer is gained by it.                       *)
(***************************************************************************)
PlanIsProportional ==
    LET total == SumFunction(stock)
        share == IF Orders = 0 THEN Equal ELSE demand
        parts == SumFunction(share)
    IN  Planned =>
          /\ SumFunction(target) = total
          /\ \A r \in Present : /\ target[r] * parts < total * share[r] + parts
                                /\ target[r] * parts > total * share[r] - parts

Given(r) == SumFunction(moved[r])
Got(r) == SumFunction([q \in Present |-> moved[q][r]])
After(r) == stock[r] - Given(r) + Got(r)

(***************************************************************************)
(* At the end of the movements no region has given units and got others,   *)
(* a region that has given has kept the minimum, none has got more than    *)
(* its target, and no further movement could have been made: either no     *)
(* region lacks units or none that has too many may give one.  Without a   *)
(* minimum the targets are reached.                                        *)
(***************************************************************************)
MovesReachPlan ==
    (phase = "done" /\ Planned) =>
        /\ \A r \in Present :
             /\ Given(r) = 0 \/ Got(r) = 0
             /\ Given(r) > 0 => After(r) >= keep /\ After(r) >= target[r]
             /\ Got(r) > 0 => After(r) <= target[r]
        /\ \/ \A r \in Present : After(r) >= target[r]
           \/ \A r \in Present : After(r) <= target[r] \/ After(r) <= keep
        /\ keep = 0 => \A r \in Present : After(r) = target[r]

(***************************************************************************)
(* Every unit at hand is sent or reported as left over, except that a run  *)
(* that ships all loses the row if the profile has none of its regions.    *)
(* Unless all is shipped, a region is never sent more than the uncovered   *)
(* demand the row was measured against, and units are left over only when  *)
(* that demand is covered.                                                 *)
(***************************************************************************)
ShipsByNeed ==
    LET sent == shipment.sent
        uncovered == [r \in Present |-> AtLeastZero(demand[r] - stock[r])]
        measured == /\ hand.match = "exact" /\ hand.mode = "redistribute" /\ ~hand.all
                    /\ (Orders >= MinHistory \/ DOMAIN Profile = {})
    IN  (phase = "done" /\ hand # NoHand) =>
          /\ \/ SumFunction(sent) + shipment.over = hand.qty
             \/ hand.all /\ DOMAIN Profile \cap Present = {}
          /\ measured => /\ \A r \in Present : sent[r] <= uncovered[r]
                         /\ shipment.over > 0 => sent = uncovered

\* May n units be moved between the accounts?
MayMove(b, n) ==
    /\ b.from - n >= b.min
    /\ b.mode = "equalize" => b.from - n >= b.to + n
    /\ (b.mode = "donor_recipient" /\ b.max # 0) => b.to + n <= b.max

(***************************************************************************)
(* The units moved between two accounts are as many as may be: the account *)
(* that gives keeps its minimum, equalizing never reverses the inequality, *)
(* and the account that gets stays within its maximum.                     *)
(***************************************************************************)
BalanceIsLargest ==
    (phase = "done" /\ balance # NoBalance) =>
        /\ transfer > 0 => MayMove(balance, transfer)
        /\ \A n \in 1 .. balance.from : MayMove(balance, n) => n <= transfer
=============================================================================
