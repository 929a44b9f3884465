--------------------------- MODULE PositionProofs ---------------------------
(***************************************************************************)
(* What the account can come to hold when only cycles run: no contract sold *)
(* twice, no underlying bought twice, no slot beyond the limit, whatever    *)
(* fills between which two reads and wherever the controller crashes.       *)
(***************************************************************************)
EXTENDS ExecutionProofs, RecursionLemmas

(* An order that filled and whose intent the journal no longer guards; such *)
(* an entry, not sold since, is a position that only the ledger knows of.   *)
Sold(c)  == \E x \in ExitKeys : ContractOf[x] = c /\ order[x] = "filled"
Ended(k) == order[k] = "filled" /\ rows[k].status # "claimed"
Loose(k) == order[k] = "filled" /\ rows[k].status \notin Live /\ ~Sold(ContractOf[k])

Exposed(k) == rows[k].status \in Live \/ Loose(k)
Selling(k) == rows[k].status = "claimed" \/ Ended(k)
Bought(c)  == \E e \in EntryKeys : ContractOf[e] = c /\ order[e] = "filled"

OneSale     == \A j, k \in ExitKeys : Selling(j) /\ Selling(k) /\ ContractOf[j] = ContractOf[k] => j = k
BoughtFirst == \A x \in ExitKeys : Selling(x) => Bought(ContractOf[x])
OneName     == \A j, k \in EntryKeys : Exposed(j) /\ Exposed(k) /\ Underlying(j) = Underlying(k) => j = k
Slots       == Cardinality({k \in EntryKeys : Exposed(k)}) <= MaxSlots

(* What the journal guards counts at its limit with fees, a position that    *)
(* only the ledger knows at what was paid.                                   *)
Guarded    == {k \in EntryKeys : rows[k].status \in Live}
LedgerOnly == {k \in EntryKeys : Loose(k)}
Capital    == TotalCost(Guarded) + TotalPaid(LedgerOnly) <= CapitalCap

(* What was decided was priced: its fill costs no more than its reservation. *)
Priced == \A k \in EntryKeys : Exposed(k) \/ order[k] = "filled" => PaidFor[k] <= MaxLoss(IdeaOf[k])

(* The positions read are those of all fills of some earlier instant, and   *)
(* unless an intent was resolved since, those fills include every one that  *)
(* the journal no longer guards.                                            *)
Seen ==
    /\ view.second \/ txn # NoTxn => ~view.resolved
    /\ proc["controller"].pc \in {"orders", "lookups"} =>
          \E S \in SUBSET Filled :
              /\ view.pos = Lots(S)
              /\ ~view.resolved => \A k \in Keys : Ended(k) => k \in S
    /\ proc["controller"].pc = "lookups" /\ ~view.resolved => view.live = Claimed

(* The inventory of the cycle shows only what may still be sold, and every  *)
(* position that the journal does not guard.                                *)
InExits ==
    \/ proc["controller"].pc = "exits"
    \/ proc["controller"].pc \in {"send", "wait"} /\ proc["controller"].key \in ExitKeys

Sellable(c) == Bought(c) /\ \A x \in ExitKeys : ContractOf[x] = c => ~Ended(x)

Held ==
    /\ InExits \/ proc["controller"].inv = NoLots
    /\ \A c \in Contracts : proc["controller"].inv[c] # 0 => Sellable(c)
    /\ InExits => \A j \in EntryKeys : Loose(j) => proc["controller"].inv[ContractOf[j]] # 0

(* An entry on its way to a reservation has no such position of its name.   *)
Bidding == proc["controller"].pc = "reserve" \/ txn.op = "reserve"
Bid ==
    Bidding => \A j \in EntryKeys : Underlying(j) = Underlying(proc["controller"].key) => ~Loose(j)

Quiet == Commands = {} /\ proc["command"].pc = "idle"
Fresh == \A k \in EntryKeys : rows[k].status = "reserved" => ~rows[k].sent

XInv == PInv /\ Quiet /\ Fresh /\ Seen /\ Held /\ Bid /\ OneSale /\ BoughtFirst /\ OneName
            /\ Slots /\ Capital /\ Priced

-----------------------------------------------------------------------------
(* Lots of a contract that is entered once.                                 *)
LEMMA LotsOfOne ==
    ASSUME NEW S \in SUBSET Keys, NEW c \in Contracts
    PROVE  /\ Lots(S)[c] > 0 => /\ \E e \in EntryKeys : e \in S /\ ContractOf[e] = c
                                /\ \A x \in ExitKeys : ContractOf[x] = c => x \notin S
           /\ (/\ \E e \in EntryKeys : e \in S /\ ContractOf[e] = c
               /\ \A x \in ExitKeys : ContractOf[x] = c => x \notin S) => Lots(S)[c] # 0
  <1> DEFINE B == {k \in S \cap EntryKeys : ContractOf[k] = c}
             X == {k \in S \cap ExitKeys : ContractOf[k] = c}
  <1>1. IsFiniteSet(B) /\ IsFiniteSet(X)
    BY JournalConstants, FS_Subset DEF Keys
  <1>2. Cardinality(B) \in Nat /\ Cardinality(X) \in Nat
    BY <1>1, FS_CardinalityType
  <1>3. Lots(S)[c] = Cardinality(B) - Cardinality(X)
    BY DEF Lots
  <1>4. (B = {} <=> Cardinality(B) = 0) /\ (X = {} <=> Cardinality(X) = 0)
    BY <1>1, FS_EmptySet
  <1>5. B # {} => Cardinality(B) = 1
    <2> SUFFICES ASSUME NEW b \in B PROVE Cardinality(B) = 1
      OBVIOUS
    <2>1. B = {b}
      BY ExecutionConstants
    <2>2. QED
      BY <2>1, FS_Singleton
  <1> HIDE DEF B, X
  <1>6. /\ Lots(S)[c] > 0 => B # {} /\ X = {}
        /\ B # {} /\ X = {} => Lots(S)[c] # 0
    BY <1>2, <1>3, <1>4, <1>5
  <1>7. QED
    BY <1>6 DEF B, X

-----------------------------------------------------------------------------
(* The sum of any price over a set of entries.                              *)
TotalBy(price, F, S) ==
    F = [T \in SUBSET S |->
            IF T = {} THEN 0
            ELSE LET k == CHOOSE x \in T : TRUE IN price[k] + F[T \ {k}]]

LEMMA TotalsAreSums ==
    ASSUME NEW price \in [EntryKeys -> Int]
    PROVE  \E F : /\ Sums(F, EntryKeys, price)
                 /\ \A S \in SUBSET EntryKeys : Total(price, S) = F[S]
  <1> DEFINE ch == [T \in SUBSET EntryKeys |-> CHOOSE x \in T : TRUE]
  <1>1. \A S \in SUBSET EntryKeys : Chooses(ch, S) /\ IsFiniteSet(S) /\ [k \in S |-> price[k]] \in [S -> Int]
    BY JournalConstants, FS_Subset DEF Chooses, Keys
  <1>2. ASSUME NEW S \in SUBSET EntryKeys
        PROVE  \E F : Sums(F, S, [k \in S |-> price[k]]) /\ Total(price, S) = F[S]
    <2> DEFINE c == [k \in S |-> price[k]]
    <2>1. \A k \in S : c[k] = price[k]
      OBVIOUS
    <2>2. c \in [S -> Int]
      BY <1>1
    <2>3. \A T \in SUBSET S : ch[T] = CHOOSE x \in T : TRUE
      OBVIOUS
    <2> HIDE DEF c, ch
    <2>4. \A F : SumsBy(F, S, ch, c) <=> TotalBy(price, F, S)
      <3> SUFFICES ASSUME NEW F
                   PROVE  [T \in SUBSET S |-> IF T = {} THEN 0 ELSE c[ch[T]] + F[T \ {ch[T]}]]
                        = [T \in SUBSET S |-> IF T = {} THEN 0
                                              ELSE LET k == CHOOSE x \in T : TRUE
                                                   IN  price[k] + F[T \ {k}]]
        BY DEF SumsBy, TotalBy
      <3>1. ASSUME NEW T \in SUBSET S, T # {}
            PROVE  c[ch[T]] = price[CHOOSE x \in T : TRUE] /\ ch[T] = CHOOSE x \in T : TRUE
        BY <2>1, <2>3, <3>1, <1>1 DEF Chooses
      <3>2. QED
        BY <3>1
    <2>5. PICK G : TotalBy(price, G, S)
      BY <1>1, <2>2, <2>4, SumExists
    <2>6. \E F : TotalBy(price, F, S) /\ Total(price, S) = F[S]
      BY <2>5 DEF Total, TotalBy
    <2>7. QED
      BY <1>1, <2>2, <2>4, <2>6, SumIsSum DEF c
  <1>3. PICK F : Sums(F, EntryKeys, [k \in EntryKeys |-> price[k]])
    BY <1>2
  <1>4. [k \in EntryKeys |-> price[k]] = price
    OBVIOUS
  <1>5. ASSUME NEW S \in SUBSET EntryKeys PROVE Total(price, S) = F[S]
    <2>1. PICK G : Sums(G, S, [k \in S |-> price[k]]) /\ Total(price, S) = G[S]
      BY <1>2
    <2> DEFINE d == [k \in S |-> price[k]]
    <2>2. S \subseteq EntryKeys /\ IsFiniteSet(S) /\ \A k \in S : price[k] = d[k]
      BY <1>1
    <2>3. Sums(F, EntryKeys, price) /\ Sums(G, S, d)
      BY <1>3, <1>4, <2>1
    <2> HIDE DEF d
    <2>4. F[S] = G[S]
      BY <2>2, <2>3, SumsAgree
    <2>5. QED
      BY <2>1, <2>4
  <1>6. QED
    BY <1>3, <1>4, <1>5

LEMMA TotalFacts ==
    ASSUME NEW price \in [EntryKeys -> Int]
    PROVE  /\ Total(price, {}) = 0
           /\ \A S \in SUBSET EntryKeys : Total(price, S) \in Int
           /\ \A k \in EntryKeys : Total(price, {k}) = price[k]
  <1>1. PICK F : Sums(F, EntryKeys, price) /\ \A S \in SUBSET EntryKeys : Total(price, S) = F[S]
    BY TotalsAreSums
  <1>2. Total(price, {}) = 0 /\ \A S \in SUBSET EntryKeys : Total(price, S) \in Int
    BY <1>1 DEF Sums
  <1>3. ASSUME NEW k \in EntryKeys PROVE Total(price, {k}) = price[k]
    <2>1. {k} \in SUBSET EntryKeys /\ k \in {k} /\ {k} \ {k} = {} /\ price[k] \in Int
      OBVIOUS
    <2>2. F[{k}] = price[k] + F[{}] /\ F[{}] = 0
      BY <1>1, <2>1 DEF Sums
    <2>3. QED
      BY <1>1, <2>1, <2>2
  <1>4. QED
    BY <1>2, <1>3

LEMMA TotalBounds ==
    ASSUME NEW price \in [EntryKeys -> Int],
           NEW A \in SUBSET EntryKeys, NEW B \in SUBSET EntryKeys, \A k \in B : price[k] >= 0
    PROVE  /\ A \subseteq B => Total(price, A) <= Total(price, B)
           /\ Total(price, A \cup B) <= Total(price, A) + Total(price, B)
  <1>1. PICK F : Sums(F, EntryKeys, price) /\ \A S \in SUBSET EntryKeys : Total(price, S) = F[S]
    BY TotalsAreSums
  <1>2. IsFiniteSet(B)
    BY JournalConstants, FS_Subset DEF Keys
  <1>3. A \subseteq B => F[A] <= F[B]
    BY <1>1, <1>2, SumGrows
  <1>4. F[A \cup B] <= F[A] + F[B]
    BY <1>1, <1>2, SumOfUnion
  <1>5. QED
    BY <1>1, <1>3, <1>4

(* What an entry may cost, and what it costs when it fills.                  *)
Cost == [k \in EntryKeys |-> MaxLoss(IdeaOf[k])]

LEMMA CostType ==
    /\ Cost \in [EntryKeys -> Int] /\ PaidFor \in [EntryKeys -> Int]
    /\ \A k \in EntryKeys : Cost[k] = MaxLoss(IdeaOf[k]) /\ PaidFor[k] >= 0
  <1>1. ASSUME NEW k \in EntryKeys PROVE MaxLoss(IdeaOf[k]) \in Int
    <2>1. IdeaOf[k].debit \in Int /\ IdeaOf[k].quantity \in Int /\ IdeaOf[k].fees \in Int
      BY IdeaConstants
    <2>2. QED
      BY <2>1 DEF MaxLoss
  <1>2. QED
    BY <1>1, FillPrices DEF Cost

LEMMA CostFacts ==
    /\ TotalCost({}) = 0 /\ TotalPaid({}) = 0
    /\ \A S \in SUBSET EntryKeys : TotalCost(S) \in Int /\ TotalPaid(S) \in Int
    /\ \A k \in EntryKeys : MaxLoss(IdeaOf[k]) \in Int /\ TotalCost({k}) = MaxLoss(IdeaOf[k])
  <1>1. \A S : TotalCost(S) = Total(Cost, S) /\ TotalPaid(S) = Total(PaidFor, S)
    BY DEF TotalCost, TotalPaid, Cost
  <1>2. QED
    BY <1>1, CostType, TotalFacts

LEMMA CostBounds ==
    ASSUME NEW A \in SUBSET EntryKeys, NEW B \in SUBSET EntryKeys
    PROVE  /\ (\A k \in B : MaxLoss(IdeaOf[k]) >= 0) =>
                 /\ A \subseteq B => TotalCost(A) <= TotalCost(B)
                 /\ TotalCost(A \cup B) <= TotalCost(A) + TotalCost(B)
           /\ A \subseteq B => TotalPaid(A) <= TotalPaid(B)
           /\ TotalPaid(A \cup B) <= TotalPaid(A) + TotalPaid(B)
  <1>1. \A S : TotalCost(S) = Total(Cost, S) /\ TotalPaid(S) = Total(PaidFor, S)
    BY DEF TotalCost, TotalPaid, Cost
  <1>2. Cost \in [EntryKeys -> Int] /\ PaidFor \in [EntryKeys -> Int]
    BY CostType
  <1>3. /\ A \subseteq B => Total(PaidFor, A) <= Total(PaidFor, B)
        /\ Total(PaidFor, A \cup B) <= Total(PaidFor, A) + Total(PaidFor, B)
    BY <1>2, CostType, TotalBounds
  <1>4. ASSUME \A k \in B : MaxLoss(IdeaOf[k]) >= 0
        PROVE  /\ A \subseteq B => Total(Cost, A) <= Total(Cost, B)
               /\ Total(Cost, A \cup B) <= Total(Cost, A) + Total(Cost, B)
    <2>1. \A k \in B : Cost[k] >= 0
      BY <1>4, CostType
    <2>2. QED
      BY <1>2, <2>1, TotalBounds
  <1>5. QED
    BY <1>1, <1>3, <1>4

(* What was reserved covers what is paid in its place.                       *)
LEMMA PaidFromReserve ==
    ASSUME NEW A \in SUBSET EntryKeys, NEW B \in SUBSET EntryKeys, A \cap B = {},
           \A k \in B : PaidFor[k] <= MaxLoss(IdeaOf[k])
    PROVE  TotalCost(A) + TotalPaid(B) <= TotalCost(A \cup B)
  <1>1. Cost \in [EntryKeys -> Int] /\ PaidFor \in [EntryKeys -> Int]
    BY CostType
  <1>2. PICK F : Sums(F, EntryKeys, Cost) /\ \A S \in SUBSET EntryKeys : Total(Cost, S) = F[S]
    BY <1>1, TotalsAreSums
  <1>3. PICK G : Sums(G, EntryKeys, PaidFor) /\ \A S \in SUBSET EntryKeys : Total(PaidFor, S) = G[S]
    BY <1>1, TotalsAreSums
  <1>4. IsFiniteSet(B) /\ \A k \in B : PaidFor[k] <= Cost[k]
    BY CostType, JournalConstants, FS_Subset DEF Keys
  <1>5. F[A \cup B] = F[A] + F[B]
    BY <1>1, <1>2, <1>4, SumSplits
  <1>6. G[B] <= F[B]
    BY <1>1, <1>2, <1>3, <1>4, SumDominated
  <1>7. F[A] \in Int /\ F[B] \in Int /\ G[B] \in Int
    BY <1>2, <1>3 DEF Sums
  <1>8. \A S \in SUBSET EntryKeys : TotalCost(S) = F[S] /\ TotalPaid(S) = G[S]
    BY <1>2, <1>3 DEF TotalCost, TotalPaid, Cost
  <1>9. A \cup B \in SUBSET EntryKeys
    OBVIOUS
  <1>10. QED
    BY <1>5, <1>6, <1>7, <1>8, <1>9

-----------------------------------------------------------------------------
(* What every step does to the orders, and what most steps do to the rows.  *)
Onward ==
    \A k \in Keys :
        /\ order[k] = "filled" => order'[k] = "filled"
        /\ order'[k] = "filled" => \/ order[k] = "filled"
                                   \/ rows[k].status = "claimed" /\ rows'[k].status = "claimed"

NoEntry == \A k \in EntryKeys : rows'[k].status \in Live => rows[k].status \in Live
NoExit  == \A k \in ExitKeys : rows'[k].status = "claimed" => rows[k].status = "claimed"
NoEnd   == \A k \in Keys : rows[k].status = "claimed" /\ order[k] = "filled" => rows'[k].status = "claimed"

LEMMA FilledIsCommitted ==
    ASSUME PInv, NEW k \in Keys, order[k] = "filled"
    PROVE  rows[k].status \in Committed
  BY DEF PInv, Hands, Posted

LEMMA NothingLoosens ==
    ASSUME PInv, Onward, NoEnd
    PROVE  /\ \A k \in Keys : Ended(k)' => Ended(k)
           /\ \A k \in Keys : Loose(k)' => Loose(k)
           /\ \A c : Bought(c) => Bought(c)'
  <1>1. \A k \in Keys : Ended(k)' => Ended(k)
    BY DEF Onward, NoEnd, Ended
  <1>2. \A c : Sold(c) => Sold(c)'
    BY DEF Onward, Sold, Keys
  <1>3. \A k \in Keys : Loose(k)' => Loose(k)
    <2> SUFFICES ASSUME NEW k \in Keys, Loose(k)' PROVE Loose(k)
      OBVIOUS
    <2>1. Ended(k)' /\ ~Sold(ContractOf[k])
      BY <1>2 DEF Loose, Ended, Live
    <2>2. order[k] = "filled" /\ rows[k].status # "claimed"
      BY <1>1, <2>1 DEF Ended
    <2>3. QED
      BY <2>1, <2>2, FilledIsCommitted DEF Loose, Live, Committed, Resolved
  <1>4. \A c : Bought(c) => Bought(c)'
    BY DEF Onward, Bought, Keys
  <1>5. QED
    BY <1>1, <1>3, <1>4

(* Without a new entry or exit, what is exposed or being sold only shrinks. *)
LEMMA ExposureShrinks ==
    ASSUME XInv, Onward, NoEntry
    PROVE  /\ \A k \in EntryKeys : Exposed(k)' => Exposed(k)
           /\ OneName' /\ Slots' /\ Capital' /\ Priced'
  <1>1. \A c : Sold(c) => Sold(c)'
    BY DEF Onward, Sold, Keys
  <1>2. ASSUME NEW k \in EntryKeys, Exposed(k)' PROVE Exposed(k)
    <2>1. CASE rows'[k].status \in Live
      BY <2>1 DEF NoEntry, Exposed
    <2>2. CASE Loose(k)'
      <3>1. k \in Keys /\ order'[k] = "filled" /\ ~Sold(ContractOf[k])
        BY <1>1, <2>2 DEF Loose, Keys
      <3>2. QED
        BY <3>1 DEF Onward, Exposed, Loose, Live
    <2>3. QED
      BY <1>2, <2>1, <2>2 DEF Exposed
  <1>3. OneName'
    BY <1>2 DEF XInv, OneName, Underlying
  <1>4. Slots'
    <2> DEFINE A == {k \in EntryKeys : Exposed(k)}
               B == {k \in EntryKeys : Exposed(k)'}
    <2>1. IsFiniteSet(A) /\ B \subseteq A
      BY <1>2, JournalConstants, FS_Subset DEF Keys
    <2>2. /\ Cardinality(B) <= Cardinality(A) /\ Cardinality(B) \in Nat /\ Cardinality(A) \in Nat
      BY <2>1, FS_Subset, FS_CardinalityType
    <2>3. Cardinality(A) <= MaxSlots
      BY DEF XInv, Slots
    <2> HIDE DEF A, B
    <2>4. Cardinality(B) <= MaxSlots
      BY <2>2, <2>3, RulesConstants
    <2>5. QED
      BY <2>4 DEF B, Slots
  <1>5. ASSUME NEW k \in EntryKeys, Exposed(k)' \/ order'[k] = "filled"
        PROVE  PaidFor[k] <= MaxLoss(IdeaOf[k])
    <2>1. Exposed(k) \/ order[k] = "filled"
      BY <1>2, <1>5 DEF Onward, Exposed, Live, Keys
    <2>2. QED
      BY <2>1 DEF XInv, Priced
  <1>6. Capital'
    <2> DEFINE A == Guarded
               B == Guarded'
               D == LedgerOnly
               E == LedgerOnly'
    <2>1. /\ A \in SUBSET EntryKeys /\ B \in SUBSET EntryKeys
          /\ D \in SUBSET EntryKeys /\ E \in SUBSET EntryKeys /\ A \ B \in SUBSET EntryKeys
      BY DEF Guarded, LedgerOnly
    <2>2. B \subseteq A /\ E \subseteq D \cup (A \ B)
      <3>1. B \subseteq A
        BY DEF NoEntry, Guarded
      <3>2. ASSUME NEW k \in E PROVE k \in D \cup (A \ B)
        <4>1. k \in EntryKeys /\ Loose(k)' /\ Exposed(k)
          BY <1>2 DEF LedgerOnly, Exposed
        <4>2. k \notin B
          BY <4>1 DEF Loose, Guarded
        <4>3. QED
          BY <4>1, <4>2 DEF Exposed, Guarded, LedgerOnly
      <3>3. QED
        BY <3>1, <3>2
    <2>3. \A k \in A : PaidFor[k] <= MaxLoss(IdeaOf[k])
      BY DEF XInv, Priced, Guarded, Exposed
    <2>4. TotalCost(A) + TotalPaid(D) <= CapitalCap
      BY DEF XInv, Capital
    <2> HIDE DEF A, B, D, E
    <2>5. /\ TotalPaid(E) <= TotalPaid(D \cup (A \ B))
          /\ TotalPaid(D \cup (A \ B)) <= TotalPaid(D) + TotalPaid(A \ B)
      BY <2>1, <2>2, CostBounds
    <2>6. TotalCost(B) + TotalPaid(A \ B) <= TotalCost(A)
      <3>1. B \cap (A \ B) = {} /\ B \cup (A \ B) = A /\ \A k \in A \ B : PaidFor[k] <= MaxLoss(IdeaOf[k])
        BY <2>2, <2>3
      <3>2. TotalCost(B) + TotalPaid(A \ B) <= TotalCost(B \cup (A \ B))
        BY <2>1, <3>1, PaidFromReserve
      <3>3. QED
        BY <3>1, <3>2
    <2>7. /\ TotalCost(A) \in Int /\ TotalCost(B) \in Int /\ TotalPaid(D) \in Int /\ TotalPaid(E) \in Int
          /\ TotalPaid(A \ B) \in Int /\ TotalPaid(D \cup (A \ B)) \in Int /\ CapitalCap \in Int
      <3>1. D \cup (A \ B) \in SUBSET EntryKeys
        BY <2>1
      <3>2. QED
        BY <2>1, <3>1, CostFacts, ExecutionConstants
    <2>8. TotalCost(B) + TotalPaid(E) <= CapitalCap
      BY <2>4, <2>5, <2>6, <2>7
    <2>9. QED
      BY <2>8 DEF B, E, Capital, TotalCost, TotalPaid
  <1>7. Priced'
    BY <1>5 DEF Priced
  <1>8. QED
    BY <1>2, <1>3, <1>4, <1>6, <1>7

LEMMA SalesShrink ==
    ASSUME XInv, Onward, NoExit
    PROVE  OneSale' /\ BoughtFirst'
  <1>1. ASSUME NEW k \in ExitKeys, Selling(k)' PROVE Selling(k)
    BY <1>1 DEF NoExit, Onward, Selling, Ended, Keys
  <1>2. \A c : Bought(c) => Bought(c)'
    BY DEF Onward, Bought, Keys
  <1>3. QED
    BY <1>1, <1>2 DEF XInv, OneSale, BoughtFirst

-----------------------------------------------------------------------------
(* The parts of the invariant that speak of the controller's record.        *)
LEMMA HeldStays ==
    ASSUME XInv, Onward, NoEnd, InExits' <=> InExits,
           proc'["controller"].inv = proc["controller"].inv
    PROVE  Held'
  <1>1. \A c \in Contracts : Sellable(c) => Sellable(c)'
    BY NothingLoosens DEF XInv, Sellable, Keys
  <1>2. \A j \in EntryKeys : Loose(j)' => Loose(j)
    BY NothingLoosens DEF XInv, Keys
  <1>3. QED
    BY <1>1, <1>2 DEF XInv, Held

LEMMA HeldDropped ==
    ASSUME proc'["controller"].inv = NoLots, ~InExits'
    PROVE  Held'
  BY DEF Held, NoLots

(* Outside the exits the inventory is empty.                                *)
LEMMA HeldNowhere ==
    ASSUME XInv, ~InExits, ~InExits', proc'["controller"].inv = proc["controller"].inv
    PROVE  Held'
  BY HeldDropped DEF XInv, Held

LEMMA BidStays ==
    ASSUME XInv, Onward, NoEnd,
           Bidding' => Bidding /\ proc'["controller"].key = proc["controller"].key
    PROVE  Bid'
  BY NothingLoosens DEF XInv, Bid, Underlying, Keys

LEMMA SeenAway ==
    ASSUME XInv, proc'["controller"].pc \notin {"orders", "lookups"},
           view'.second \/ txn' # NoTxn => ~view'.resolved
    PROVE  Seen'
  BY DEF Seen

LEMMA SeenStays ==
    ASSUME XInv, Onward, NoEnd, Claimed' = Claimed, proc'["controller"].pc = proc["controller"].pc,
           txn' = txn, view'.second = view.second, view'.resolved = view.resolved,
           view'.pos = view.pos, view'.live = view.live
    PROVE  Seen'
  <1>1. Filled \subseteq Filled' /\ \A k \in Keys : Ended(k)' => Ended(k)
    BY NothingLoosens DEF XInv, Filled, Onward
  <1>2. ASSUME proc["controller"].pc \in {"orders", "lookups"}
        PROVE  \E S \in SUBSET Filled' :
                  /\ view'.pos = Lots(S)
                  /\ ~view'.resolved => \A k \in Keys : Ended(k)' => k \in S
    BY <1>1, <1>2 DEF XInv, Seen
  <1>3. \A S : Lots(S)' = Lots(S)
    BY DEF Lots
  <1>4. QED
    BY <1>2, <1>3 DEF XInv, Seen

LEMMA IdleFacts == Idle.pc = "idle" /\ Idle.inv = NoLots /\ Idle.key = "none"
  BY DEF Idle

LEMMA SameRows == rows' = rows => NoEnd /\ NoEntry /\ NoExit /\ (UNCHANGED order => Onward)
  BY DEF NoEnd, NoEntry, NoExit, Onward

(* What the steps have in common.                                           *)
Step == XInv /\ PInv' /\ Quiet' /\ Fresh' /\ Onward

LEMMA StepKeeps ==
    ASSUME Step, NoEntry, NoExit, Seen', Held', Bid'
    PROVE  XInv'
  BY ExposureShrinks, SalesShrink DEF Step, XInv

-----------------------------------------------------------------------------
(* The reads.                                                               *)
LEMMA GotoFacts ==
    ASSUME ProcOK, NEW x, Goto("controller", x)
    PROVE  /\ proc'["controller"].pc = x
           /\ proc'["controller"].key = proc["controller"].key
           /\ proc'["controller"].inv = proc["controller"].inv
  BY DEF ProcOK, Process, Processes, Goto

LEMMA StartFacts ==
    ASSUME ProcOK, NEW b, StartReading(b)
    PROVE  /\ proc'["controller"].pc = "activities"
           /\ proc'["controller"].key = proc["controller"].key
           /\ proc'["controller"].inv = proc["controller"].inv
           /\ ~view'.resolved
  <1>1. ASSUME NEW x \in Process, NEW e
        PROVE  LET s == [x EXCEPT !.pc = "activities", !.day = e]
               IN  s.pc = "activities" /\ s.key = x.key /\ s.inv = x.inv
    BY DEF Process
  <1> DEFINE c == proc["controller"]
             d == IF txn' = NoTxn THEN today ELSE c.day
  <1>2. c \in Process /\ proc'["controller"] = [c EXCEPT !.pc = "activities", !.day = d]
    BY DEF ProcOK, Processes, StartReading
  <1>3. ~view'.resolved
    BY DEF StartReading, NoView
  <1> HIDE DEF c, d
  <1>4. /\ proc'["controller"].pc = "activities"
        /\ proc'["controller"].key = c.key /\ proc'["controller"].inv = c.inv
    BY <1>1, <1>2
  <1>5. QED
    BY <1>3, <1>4 DEF c

LEMMA EndFacts ==
    ASSUME ProcOK, EndCycle
    PROVE  /\ proc'["controller"].pc = "idle" /\ proc'["controller"].inv = NoLots
           /\ view' = NoView
  BY IdleFacts DEF EndCycle, ProcOK, Processes

LEMMA CycleEnds ==
    ASSUME Step, NoEntry, NoExit, EndCycle, txn' = NoTxn
    PROVE  XInv'
  <1>1. proc'["controller"].pc = "idle" /\ proc'["controller"].inv = NoLots /\ view' = NoView
    BY EndFacts DEF Step, XInv, PInv
  <1>2. Seen'
    BY <1>1, SeenAway DEF Step, NoView
  <1>3. Held' /\ Bid'
    BY <1>1, HeldDropped DEF InExits, Bid, Bidding, NoTxn
  <1>4. QED
    BY <1>2, <1>3, StepKeeps

LEMMA ReadsBegin ==
    ASSUME Step, BeginCycle \/ ReadAgain
    PROVE  XInv'
  <1>1. /\ UNCHANGED <<rows, txn, order>> /\ txn = NoTxn
        /\ proc["controller"].pc \in {"idle", "lookups"} /\ \E b \in BOOLEAN : StartReading(b)
    BY ControllerFacts DEF Step, XInv, BeginCycle, ReadAgain, AllRead, At, jvars, bvars, Reading
  <1>2. /\ proc'["controller"].pc = "activities" /\ ~view'.resolved
        /\ proc'["controller"].inv = proc["controller"].inv
    BY <1>1, StartFacts DEF Step, XInv, PInv
  <1>3. Seen'
    BY <1>2, SeenAway DEF Step
  <1>4. Held' /\ Bid'
    BY <1>1, <1>2, HeldNowhere DEF Step, InExits, Bid, Bidding, NoTxn
  <1>5. QED
    BY <1>1, <1>3, <1>4, SameRows, StepKeeps

(* A read between the first and the last.                                   *)
LEMMA ReadKeepsRest ==
    ASSUME Step, UNCHANGED <<rows, txn>>, NEW x \in Reading, Goto("controller", x),
           proc["controller"].pc \in Reading, Seen'
    PROVE  XInv'
  <1>1. /\ proc'["controller"].pc = x /\ proc'["controller"].key = proc["controller"].key
        /\ proc'["controller"].inv = proc["controller"].inv
    BY GotoFacts DEF Step, XInv, PInv
  <1>2. NoEnd /\ NoEntry /\ NoExit
    BY SameRows
  <1>3. ~InExits /\ ~InExits' /\ (Bidding' => Bidding)
    BY <1>1 DEF InExits, Reading, Bidding
  <1>4. Held' /\ Bid'
    BY <1>1, <1>2, <1>3, HeldNowhere, BidStays DEF Step
  <1>5. QED
    BY <1>2, <1>4, StepKeeps

LEMMA ActivitiesRead ==
    ASSUME Step, ReadActivities \/ HistoryFails
    PROVE  XInv'
  <1>1. /\ UNCHANGED <<rows, txn>> /\ Goto("controller", "positions")
        /\ proc["controller"].pc = "activities"
        /\ \E b : view' = [view EXCEPT !.complete = b]
    BY DEF ReadActivities, HistoryFails, At, jvars
  <1>2. view'.second = view.second /\ view'.resolved = view.resolved
    BY <1>1 DEF Step, XInv, PInv, ViewOK, NoView
  <1>3. proc'["controller"].pc = "positions"
    BY <1>1, GotoFacts DEF Step, XInv, PInv
  <1>4. Seen'
    BY <1>1, <1>2, <1>3, SeenAway DEF Step, XInv, Seen
  <1>5. QED
    BY <1>1, <1>4, ReadKeepsRest DEF Reading

LEMMA PositionsRead ==
    ASSUME Step, ReadPositions
    PROVE  XInv'
  <1>1. /\ UNCHANGED <<rows, txn, order>> /\ Goto("controller", "orders")
        /\ proc["controller"].pc = "positions"
        /\ view' = [view EXCEPT !.pos = Lots(Filled)]
    BY DEF ReadPositions, At, jvars, bvars, Positions
  <1>2. view'.second = view.second /\ view'.resolved = view.resolved /\ view'.pos = Lots(Filled)
    BY <1>1 DEF Step, XInv, PInv, ViewOK, NoView
  <1>3. proc'["controller"].pc = "orders"
    BY <1>1, GotoFacts DEF Step, XInv, PInv
  <1>4. Filled' = Filled /\ Lots(Filled)' = Lots(Filled) /\ \A k \in Keys : Ended(k)' => k \in Filled
    BY <1>1 DEF Filled, Ended, Lots
  <1>5. Seen'
    BY <1>1, <1>2, <1>3, <1>4 DEF Step, XInv, Seen
  <1>6. QED
    BY <1>1, <1>5, ReadKeepsRest DEF Reading

LEMMA OrdersRead ==
    ASSUME Step, ReadOrders
    PROVE  XInv'
  <1>1. /\ UNCHANGED <<rows, txn, order>> /\ Goto("controller", "lookups")
        /\ proc["controller"].pc = "orders"
        /\ view' = [view EXCEPT !.open = {k \in Keys : order[k] = "open"}, !.live = Claimed, !.look = <<>>]
    BY DEF ReadOrders, At, jvars, bvars
  <1>2. view'.second = view.second /\ view'.resolved = view.resolved /\ view'.pos = view.pos
        /\ view'.live = Claimed
    BY <1>1 DEF Step, XInv, PInv, ViewOK, NoView
  <1>3. proc'["controller"].pc = "lookups"
    BY <1>1, GotoFacts DEF Step, XInv, PInv
  <1>4. Filled' = Filled /\ Claimed' = Claimed /\ (\A k \in Keys : Ended(k)' <=> Ended(k))
        /\ \A S : Lots(S)' = Lots(S)
    BY <1>1 DEF Filled, Ended, Lots, Claimed
  <1>5. Seen'
    BY <1>1, <1>2, <1>3, <1>4 DEF Step, XInv, Seen
  <1>6. QED
    BY <1>1, <1>5, ReadKeepsRest DEF Reading

(* Steps in which no process moves and no row changes.                      *)
LEMMA StillKeeps ==
    ASSUME Step, UNCHANGED <<rows, txn>>,
           proc'["controller"].pc = proc["controller"].pc,
           proc'["controller"].key = proc["controller"].key,
           proc'["controller"].inv = proc["controller"].inv,
           view'.second = view.second, view'.resolved = view.resolved,
           view'.pos = view.pos, view'.live = view.live
    PROVE  XInv'
  <1>1. NoEnd /\ NoEntry /\ NoExit
    BY SameRows
  <1>2. Claimed' = Claimed /\ (InExits' <=> InExits) /\ (Bidding' <=> Bidding)
    BY DEF Claimed, InExits, Bidding
  <1>3. Seen' /\ Held' /\ Bid'
    BY <1>1, <1>2, SeenStays, HeldStays, BidStays DEF Step
  <1>4. QED
    BY <1>1, <1>3, StepKeeps

LEMMA OneLookedUp ==
    ASSUME Step, NEW k \in Keys, LookUp(k)
    PROVE  XInv'
  <1>1. /\ UNCHANGED <<rows, txn, proc>>
        /\ view'.second = view.second /\ view'.resolved = view.resolved
        /\ view'.pos = view.pos /\ view'.live = view.live
    BY DEF LookUp, jvars, Step, XInv, PInv, ViewOK, NoView
  <1>2. QED
    BY <1>1, StillKeeps

-----------------------------------------------------------------------------
(* Calls of the journal, as changes of the rows.                            *)
LEMMA LapseIsCalm ==
    ASSUME JInv, NEW now \in Times, NEW j \in Keys, rows'[j] = Expire(rows, now)[j]
    PROVE  /\ rows'[j].status = "claimed" <=> rows[j].status = "claimed"
           /\ rows'[j].status \in Live => rows[j].status \in Live
  BY ExpireStatus DEF JInv, JTypeOK

LEMMA ExpiryIsCalm ==
    ASSUME JInv, NEW now \in Times, rows' = Expire(rows, now)
    PROVE  NoEnd /\ NoEntry /\ NoExit
  BY LapseIsCalm DEF NoEnd, NoEntry, NoExit, Keys

LEMMA InsertIsCalm ==
    ASSUME JInv, NEW now \in Times, NEW day \in Days, NEW k \in Keys, rows[k].status = "absent",
           NEW s \in {"rejected", "reserved", "claimed"}, rows' = Insert(k, s, now, day)
    PROVE  /\ NoEnd /\ rows'[k].status = s
           /\ s = "rejected" \/ k \in ExitKeys => NoEntry
           /\ s = "rejected" \/ k \in EntryKeys => NoExit
           /\ \A j \in Keys \ {k} : rows'[j] = Expire(rows, now)[j]
  <1>1. /\ rows'[k].status = s
        /\ \A j \in Keys \ {k} : rows'[j] = Expire(rows, now)[j]
    BY InsertRow DEF JInv, JTypeOK, Statuses, Live
  <1>2. \A j \in Keys \ {k} : /\ rows'[j].status = "claimed" <=> rows[j].status = "claimed"
                              /\ rows'[j].status \in Live => rows[j].status \in Live
    BY <1>1, LapseIsCalm
  <1>3. EntryKeys \cap ExitKeys = {}
    BY JournalConstants
  <1>4. QED
    BY <1>1, <1>2, <1>3 DEF NoEnd, NoEntry, NoExit, Keys, Live

LEMMA ClaimIsCalm ==
    ASSUME JInv, NEW now \in Times, NEW k \in EntryKeys, Expire(rows, now)[k].status = "reserved",
           NEW s \in {"claimed", "revoked"}, rows' = SetStatus(Expire(rows, now), k, s)
    PROVE  NoEnd /\ NoEntry /\ NoExit /\ rows'[k].status = s
  <1>1. /\ rows \in [Keys -> Row] /\ s \in Statuses /\ Expire(rows, now) \in [Keys -> Row]
        /\ rows[k].status = "reserved" /\ k \in Keys /\ k \notin ExitKeys
    BY ExpireRow, JournalConstants DEF JInv, JTypeOK, Statuses, Live, Keys
  <1>2. /\ rows'[k].status = s
        /\ \A j \in Keys \ {k} : rows'[j] = Expire(rows, now)[j]
    BY <1>1, SetStatusRow
  <1>3. \A j \in Keys \ {k} : /\ rows'[j].status = "claimed" <=> rows[j].status = "claimed"
                              /\ rows'[j].status \in Live => rows[j].status \in Live
    BY <1>2, LapseIsCalm
  <1>4. QED
    BY <1>1, <1>2, <1>3 DEF NoEnd, NoEntry, NoExit, Keys, Live

LEMMA ReserveCommitIsCalm ==
    ASSUME JInv, NEW base, ReserveCommit(base)
    PROVE  /\ NoEnd /\ NoExit /\ txn' = NoTxn
           /\ rows'[txn.key].status # "reserved" => NoEntry
           /\ base = ProviderError => NoEntry
  <1>1. /\ txn.key \in EntryKeys /\ txn.key \in Keys /\ txn.now \in Times /\ txn.day \in Days
        /\ rows[txn.key].status = "absent" /\ txn' = NoTxn
    BY DEF JInv, JTypeOK, TxnInv, ReserveCommit, Txn, NoTxn, Keys
  <1>2. PICK s \in {"reserved", "rejected"} :
            /\ rows' = Insert(txn.key, s, txn.now, txn.day)
            /\ base = ProviderError => s = "rejected"
    BY DEF ReserveCommit, Validates
  <1>3. QED
    BY <1>1, <1>2, InsertIsCalm

LEMMA ClaimCommitIsCalm ==
    ASSUME JInv, NEW base, ClaimCommit(base)
    PROVE  NoEnd /\ NoEntry /\ NoExit /\ txn' = NoTxn
  <1>1. /\ txn.key \in EntryKeys /\ txn.now \in Times /\ txn' = NoTxn
        /\ Expire(rows, txn.now)[txn.key].status = "reserved"
    BY OpenClaim DEF ClaimCommit
  <1>2. PICK s \in {"claimed", "revoked"} : rows' = SetStatus(Expire(rows, txn.now), txn.key, s)
    BY DEF ClaimCommit
  <1>3. QED
    BY <1>1, <1>2, ClaimIsCalm

-----------------------------------------------------------------------------
(* The cycle between the reads.                                             *)
LEMMA CycleStops ==
    ASSUME Step, ReadFails \/ Halt \/ NoProposal
    PROVE  XInv'
  <1>1. EndCycle /\ JInv
    BY DEF ReadFails, Halt, NoProposal, Step, XInv, PInv
  <1>2. NoEntry /\ NoExit /\ txn' = NoTxn
    <2>1. CASE ReadFails
      <3>1. CASE txn = NoTxn /\ UNCHANGED jvars
        BY <3>1, SameRows DEF jvars
      <3>2. CASE ReserveCommit(ProviderError)
        BY <1>1, <3>2, ReserveCommitIsCalm
      <3>3. CASE ClaimCommit(ProviderError)
        BY <1>1, <3>3, ClaimCommitIsCalm
      <3>4. QED
        BY <2>1, <3>1, <3>2, <3>3 DEF ReadFails
    <2>2. CASE Halt \/ NoProposal
      <3>1. UNCHANGED jvars /\ txn = NoTxn
        BY <2>2, ControllerFacts DEF Halt, Settled, NoProposal, At, Reading, Step, XInv
      <3>2. QED
        BY <3>1, SameRows DEF jvars
    <2>3. QED
      BY <2>1, <2>2
  <1>3. QED
    BY <1>1, <1>2, CycleEnds

LEMMA IntentResolved ==
    ASSUME Step, NEW k \in Keys, ResolveIntent(k)
    PROVE  XInv'
  <1>1. /\ txn = NoTxn /\ txn' = txn /\ proc' = proc /\ ~view.second /\ UNCHANGED order
        /\ proc["controller"].pc = "lookups" /\ rows' = SetStatus(rows, k, "resolved")
    BY DEF ResolveIntent, Resolve, AllRead, At, bvars
  <1>2. /\ view'.second = view.second /\ view'.resolved /\ view'.pos = view.pos
    BY DEF ResolveIntent, Step, XInv, PInv, ViewOK, NoView
  <1>3. rows'[k].status = "resolved" /\ \A j \in Keys \ {k} : rows'[j] = rows[j]
    BY <1>1, SetStatusRow DEF Step, XInv, PInv, JInv, JTypeOK, Statuses, Resolved
  <1>4. NoEntry /\ NoExit
    BY <1>3 DEF NoEntry, NoExit, Keys, Live
  <1>5. Filled' = Filled /\ \A S : Lots(S)' = Lots(S)
    BY <1>1 DEF Filled, Lots
  <1>6. Seen'
    BY <1>1, <1>2, <1>5 DEF Step, XInv, Seen
  <1>7. Held' /\ Bid'
    BY <1>1, HeldNowhere DEF InExits, Bid, Bidding, NoTxn, Step
  <1>8. QED
    BY <1>4, <1>6, <1>7, StepKeeps

(* The cycle goes on: its inventory is that of the positions it has read.   *)
LEMMA CycleProceeds ==
    ASSUME Step, Proceed
    PROVE  XInv'
  <1> DEFINE held == Lots(booked)
  <1>1. /\ UNCHANGED <<rows, txn, order>> /\ view' = NoView /\ txn = NoTxn
        /\ proc["controller"].pc = "lookups" /\ held = view.pos /\ held \in [Contracts -> Nat]
        /\ proc' = [proc EXCEPT !["controller"] =
                      [proc["controller"] EXCEPT !.pc = "exits", !.mode = control, !.inv = held]]
    BY DEF Proceed, Settled, AllRead, At, Reconciled, PositionsMatch, jvars, bvars, Step, XInv, PInv, BrokerOK
  <1> HIDE DEF held
  <1>2. ~view.resolved
    BY DEF Proceed, Settled, Step, XInv, Seen
  <1>3. PICK S \in SUBSET Filled : held = Lots(S) /\ \A k \in Keys : Ended(k) => k \in S
    BY <1>1, <1>2 DEF Step, XInv, Seen
  <1>4. ASSUME NEW x \in Process, NEW m, NEW inv
        PROVE  LET s == [x EXCEPT !.pc = "exits", !.mode = m, !.inv = inv]
               IN  s.pc = "exits" /\ s.inv = inv
    BY DEF Process
  <1>5. proc'["controller"].pc = "exits" /\ proc'["controller"].inv = held
    BY <1>1, <1>4, ControllerFacts DEF Step, XInv, PInv, ProcOK, Processes
  <1>6. S \in SUBSET Keys
    BY DEF Filled
  <1>7. /\ \A k \in Keys : Ended(k)' <=> Ended(k)
        /\ \A c : (Sold(c)' <=> Sold(c)) /\ (Bought(c)' <=> Bought(c))
    BY <1>1 DEF Ended, Sold, Bought
  <1>8. ASSUME NEW c \in Contracts, held[c] # 0 PROVE Sellable(c)'
    <2>1. Lots(S)[c] > 0
      BY <1>1, <1>3, <1>8
    <2>2. /\ \E e \in EntryKeys : e \in S /\ ContractOf[e] = c
          /\ \A x \in ExitKeys : ContractOf[x] = c => x \notin S
      BY <1>6, <2>1, LotsOfOne
    <2>3. Bought(c) /\ \A x \in ExitKeys : ContractOf[x] = c => ~Ended(x)
      BY <1>3, <2>2 DEF Bought, Filled, Keys
    <2>4. QED
      BY <1>7, <2>3 DEF Sellable, Keys
  <1>9. ASSUME NEW j \in EntryKeys, Loose(j)' PROVE held[ContractOf[j]] # 0
    <2>1. Loose(j) /\ j \in Keys /\ ContractOf[j] \in Contracts
      BY <1>1, <1>7, <1>9, JournalConstants DEF Loose, Keys
    <2>2. Ended(j)
      BY <2>1 DEF Loose, Ended, Live
    <2>3. j \in S
      BY <1>3, <2>1, <2>2
    <2>4. \A x \in ExitKeys : ContractOf[x] = ContractOf[j] => x \notin S
      BY <2>1 DEF Loose, Sold, Filled
    <2>5. Lots(S)[ContractOf[j]] # 0
      BY <1>6, <2>1, <2>3, <2>4, LotsOfOne
    <2>6. QED
      BY <1>3, <2>5
  <1>10. Held'
    BY <1>5, <1>8, <1>9 DEF Held, InExits
  <1>11. Seen'
    BY <1>1, <1>5, SeenAway DEF Step, NoView
  <1>12. Bid'
    BY <1>1, <1>5 DEF Bid, Bidding, NoTxn
  <1>13. QED
    BY <1>1, <1>10, <1>11, <1>12, SameRows, StepKeeps

(* An entry is proposed: no position of its name is held or unguarded.      *)
LEMMA EntryProposed ==
    ASSUME Step, NEW k \in EntryKeys, Propose(k)
    PROVE  XInv'
  <1> DEFINE held == proc["controller"].inv
  <1>1. /\ UNCHANGED <<rows, txn, order, view>> /\ txn = NoTxn
        /\ proc["controller"].pc = "exits" /\ Underlying(k) \notin OpenSymbols
        /\ proc' = [proc EXCEPT !["controller"] =
                      [proc["controller"] EXCEPT !.pc = "reserve", !.key = k, !.inv = NoLots]]
    BY DEF Propose, At, jvars, bvars
  <1>2. ASSUME NEW x \in Process
        PROVE  LET s == [x EXCEPT !.pc = "reserve", !.key = k, !.inv = NoLots]
               IN  s.pc = "reserve" /\ s.key = k /\ s.inv = NoLots
    BY DEF Process
  <1>3. held \in [Contracts -> Nat] /\ proc["controller"] \in Process
    BY ControllerFacts DEF Step, XInv, Process
  <1>4. /\ proc'["controller"].pc = "reserve" /\ proc'["controller"].key = k
        /\ proc'["controller"].inv = NoLots
    BY <1>1, <1>2, <1>3 DEF Step, XInv, PInv, ProcOK, Processes
  <1>5. ASSUME NEW j \in EntryKeys, Underlying(j) = Underlying(k), Loose(j) PROVE FALSE
    <2>1. held[ContractOf[j]] # 0 /\ ContractOf[j] \in Contracts
      BY <1>1, <1>5, JournalConstants DEF Step, XInv, Held, InExits, Keys
    <2>2. held[ContractOf[j]] > 0
      BY <1>3, <2>1
    <2>3. UnderlyingOf[ContractOf[j]] \in OpenSymbols
      BY <2>1, <2>2 DEF OpenSymbols
    <2>4. QED
      BY <1>1, <1>5, <2>3 DEF Underlying
  <1>6. Bid'
    BY <1>1, <1>4, <1>5 DEF Bid, Loose, Sold, Underlying
  <1>7. Held'
    BY <1>4, HeldDropped DEF InExits
  <1>8. Seen'
    BY <1>1, <1>4, SeenAway DEF Step, XInv, Seen
  <1>9. QED
    BY <1>1, <1>6, <1>7, <1>8, SameRows, StepKeeps

(* The reads inside reserve and claim begin.                                *)
LEMMA ProviderBegins ==
    ASSUME Step, rows' = rows, StartReading(FALSE), ~InExits,
           Bidding' => Bidding
    PROVE  XInv'
  <1>1. /\ proc'["controller"].pc = "activities" /\ ~view'.resolved
        /\ proc'["controller"].key = proc["controller"].key
        /\ proc'["controller"].inv = proc["controller"].inv
    BY StartFacts DEF Step, XInv, PInv
  <1>2. NoEnd /\ NoEntry /\ NoExit
    BY SameRows
  <1>3. Seen'
    BY <1>1, SeenAway DEF Step
  <1>4. Held'
    BY <1>1, HeldNowhere DEF Step, InExits
  <1>5. Bid'
    BY <1>1, <1>2, BidStays DEF Step
  <1>6. QED
    BY <1>2, <1>3, <1>4, <1>5, StepKeeps

LEMMA ReservationBegins ==
    ASSUME Step, NEW now \in Times, Reserve(now)
    PROVE  XInv'
  <1> DEFINE k == proc["controller"].key
             day == proc["controller"].day
  <1>1. /\ k \in EntryKeys /\ k \in Keys /\ day \in Days
        /\ proc["controller"].pc = "reserve" /\ JInv
    BY ControllerFacts DEF Reserve, At, Step, XInv, PInv, CycleOK, Keys
  <1> HIDE DEF k, day
  <1>2. CASE ReserveDisabled(k, now, day) /\ EndCycle
    <2>1. rows' = Insert(k, "rejected", now, day) /\ rows[k].status = "absent" /\ txn' = NoTxn
      BY <1>2 DEF ReserveDisabled
    <2>2. NoEntry /\ NoExit
      BY <1>1, <2>1, InsertIsCalm
    <2>3. QED
      BY <1>2, <2>1, <2>2, CycleEnds
  <1>3. CASE ReserveBegin(k, now, day) /\ StartReading(FALSE)
    <2>1. ~InExits /\ Bidding /\ rows' = rows
      BY <1>1, <1>3 DEF InExits, Bidding, ReserveBegin
    <2>2. QED
      BY <1>3, <2>1, ProviderBegins
  <1>4. QED
    BY <1>2, <1>3 DEF Reserve, k, day

LEMMA ClaimBegins ==
    ASSUME Step, NEW now \in Times, Claim(now)
    PROVE  XInv'
  <1> DEFINE k == proc["controller"].key
             day == proc["controller"].day
  <1>1. /\ k \in EntryKeys /\ k \in Keys /\ day \in Days
        /\ proc["controller"].pc = "claim" /\ JInv
    BY ControllerFacts DEF Claim, At, Step, XInv, PInv, CycleOK, Keys
  <1> HIDE DEF k, day
  <1>2. CASE ClaimBegin(k, now, day) /\ StartReading(FALSE)
    <2>1. proc'["controller"].pc = "activities" /\ rows' = rows /\ txn'.op = "claim"
      BY <1>2, StartFacts DEF ClaimBegin, Step, XInv, PInv
    <2>2. ~InExits /\ ~Bidding'
      BY <1>1, <2>1 DEF InExits, Bidding
    <2>3. QED
      BY <1>2, <2>1, <2>2, ProviderBegins
  <1>3. CASE ClaimUnavailable(k, now) /\ EndCycle
    <2>1. rows' = Expire(rows, now) /\ txn' = NoTxn
      BY <1>3 DEF ClaimUnavailable
    <2>2. QED
      BY <1>1, <1>3, <2>1, ExpiryIsCalm, CycleEnds
  <1>4. CASE (ClaimMismatch(k, now, day) \/ ClaimDisabled(k, now, day)) /\ EndCycle
    <2>1. /\ txn' = NoTxn /\ Expire(rows, now)[k].status = "reserved"
          /\ rows' = SetStatus(Expire(rows, now), k, "revoked")
      BY <1>4 DEF ClaimMismatch, ClaimDisabled
    <2>2. QED
      BY <1>1, <1>4, <2>1, ClaimIsCalm, CycleEnds
  <1>5. QED
    BY <1>2, <1>3, <1>4 DEF Claim, k, day

(* A claim changes nothing of what is exposed: the entry was reserved.      *)
LEMMA EntryClaimed ==
    ASSUME Step, ClaimedNow
    PROVE  XInv'
  <1>1. JInv /\ ClaimCommit(RiskState(txn.now)) /\ proc["controller"].pc = "lookups" /\ txn # NoTxn
    BY DEF ClaimedNow, AllRead, At, NoTxn, Step, XInv, PInv
  <1>2. NoEntry /\ NoExit /\ txn' = NoTxn
    BY <1>1, ClaimCommitIsCalm
  <1>3. CASE EndCycle
    BY <1>2, <1>3, CycleEnds
  <1>4. CASE Goto("controller", "send") /\ view' = NoView
    <2>1. /\ proc'["controller"].pc = "send" /\ proc'["controller"].key = txn.key
          /\ proc'["controller"].inv = proc["controller"].inv
      BY <1>1, <1>4, GotoFacts, ControllerFacts DEF Step, XInv, PInv
    <2>2. txn.key \in EntryKeys /\ txn.key \notin ExitKeys
      BY <1>1, OpenClaim, JournalConstants DEF ClaimCommit
    <2>3. Held'
      BY <1>1, <2>1, <2>2, HeldNowhere DEF Step, InExits
    <2>4. Seen' /\ Bid'
      BY <1>2, <1>4, <2>1, SeenAway DEF Step, NoView, Bid, Bidding, NoTxn
    <2>5. QED
      BY <1>2, <2>3, <2>4, StepKeeps
  <1>5. QED
    BY <1>3, <1>4 DEF ClaimedNow

-----------------------------------------------------------------------------
LEMMA UnionBound ==
    ASSUME NEW A, NEW B, IsFiniteSet(A), IsFiniteSet(B)
    PROVE  /\ IsFiniteSet(A \cup B)
           /\ Cardinality(A \cup B) <= Cardinality(A) + Cardinality(B)
           /\ Cardinality(A) \in Nat /\ Cardinality(B) \in Nat /\ Cardinality(A \cup B) \in Nat
  <1>1. /\ IsFiniteSet(A \cup B) /\ IsFiniteSet(A \cap B)
        /\ Cardinality(A \cup B) = Cardinality(A) + Cardinality(B) - Cardinality(A \cap B)
    BY FS_Union, FS_Intersection
  <1>2. /\ Cardinality(A) \in Nat /\ Cardinality(B) \in Nat
        /\ Cardinality(A \cup B) \in Nat /\ Cardinality(A \cap B) \in Nat
    BY <1>1, FS_CardinalityType
  <1>3. QED
    BY <1>1, <1>2

(* Every entry of lots still held has a contract of its own among them.     *)
LEMMA HeldCount ==
    ASSUME NEW S \in SUBSET Keys, NEW L \in SUBSET EntryKeys,
           \A j \in L : Lots(S)[ContractOf[j]] # 0
    PROVE  LET T == {c \in Contracts : Lots(S)[c] # 0}
           IN  /\ Cardinality(L) <= Cardinality(T)
               /\ Cardinality(L) \in Nat /\ Cardinality(T) \in Nat
  <1> DEFINE T == {c \in Contracts : Lots(S)[c] # 0}
             R == {ContractOf[k] : k \in Keys}
             f == [j \in L |-> ContractOf[j]]
  <1>1. IsFiniteSet(R)
    <2>1. ContractOf \in Surjection(Keys, R)
      BY JournalConstants DEF Surjection
    <2>2. QED
      BY <2>1, JournalConstants, FS_Surjection
  <1>2. T \subseteq R
    <2> SUFFICES ASSUME NEW c \in T, c \notin R PROVE FALSE
      OBVIOUS
    <2>1. /\ {k \in S \cap EntryKeys : ContractOf[k] = c} = {}
          /\ {k \in S \cap ExitKeys : ContractOf[k] = c} = {}
      OBVIOUS
    <2>2. Lots(S)[c] = Cardinality({}) - Cardinality({})
      BY <2>1 DEF Lots
    <2>3. QED
      BY <2>2, FS_EmptySet
  <1>3. IsFiniteSet(T) /\ IsFiniteSet(L)
    BY <1>1, <1>2, JournalConstants, FS_Subset DEF Keys
  <1>4. f \in Injection(L, T)
    <2>1. \A j \in L : f[j] \in T
      BY JournalConstants DEF Keys
    <2>2. \A i, j \in L : f[i] = f[j] => i = j
      BY ExecutionConstants
    <2> HIDE DEF T
    <2>3. QED
      BY <2>1, <2>2 DEF Injection, IsInjective
  <1> HIDE DEF T, f
  <1>5. Cardinality(L) <= Cardinality(T) /\ Cardinality(L) \in Nat /\ Cardinality(T) \in Nat
    BY <1>3, <1>4, FS_Injection, FS_CardinalityType
  <1>6. QED
    BY <1>5 DEF T

(* What a reconciled cycle lets an approval rest on.                        *)
LEMMA ApprovalFacts ==
    ASSUME NEW k, NEW rs, NEW now, NEW day, Validates(rs, k, RiskState(now), {}, now, day)
    PROVE  /\ Reconciled
           /\ \A j \in Active(rs) : Underlying(j) # Underlying(k)
           /\ view.live \subseteq view.open
           /\ Cardinality({c \in Contracts : view.pos[c] # 0})
                + (Cardinality(view.open \cap EntryKeys) + Cardinality(Unsent(rs))) < MaxSlots
  <1> DEFINE st == Adjusted(rs, RiskState(now), {})
             held == Cardinality({c \in Contracts : view.pos[c] # 0})
             open == Cardinality(view.open \cap EntryKeys)
  <1>1. /\ st.reconciled /\ st.open + st.pending < MaxSlots
        /\ \A j \in Active(rs) : Underlying(j) # Underlying(k)
    BY DEF Validates, Approves, FreshState, Capacity
  <1>2. /\ st.reconciled = Reconciled /\ st.open = held
        /\ st.pending = open + Cardinality(Unrecorded) + Cardinality(Unlisted) + Cardinality(Unsent(rs) \ {})
    BY DEF Adjusted, RiskState
  <1>3. Reconciled
    BY <1>1, <1>2
  <1>4. Unrecorded = {} /\ Unlisted = {} /\ Unsent(rs) \ {} = Unsent(rs)
    BY <1>3 DEF Reconciled
  <1>5. view.live \subseteq view.open
    BY <1>3 DEF Reconciled, Unrecorded, Unlisted, Resolvable
  <1> HIDE DEF st, held, open
  <1>6. open \in Nat /\ Cardinality(Unsent(rs)) \in Nat
    <2>1. Unsent(rs) \subseteq Keys /\ view.open \cap EntryKeys \subseteq Keys
      BY DEF Unsent, Active, Keys
    <2>2. QED
      BY <2>1, JournalConstants, FS_Subset, FS_CardinalityType DEF open
  <1>7. held + (open + 0 + 0 + Cardinality(Unsent(rs))) < MaxSlots
    BY <1>1, <1>2, <1>4, FS_EmptySet
  <1>8. held + (open + Cardinality(Unsent(rs))) < MaxSlots
    BY <1>6, <1>7
  <1>9. QED
    BY <1>1, <1>3, <1>5, <1>8 DEF held, open

(* The positions read show every such position.                             *)
LEMMA LooseIsSeen ==
    ASSUME XInv, proc["controller"].pc = "lookups", ~view.resolved, NEW j \in EntryKeys, Loose(j)
    PROVE  view.pos[ContractOf[j]] # 0
  <1>1. PICK S \in SUBSET Filled : view.pos = Lots(S) /\ \A i \in Keys : Ended(i) => i \in S
    BY DEF XInv, Seen
  <1>2. S \in SUBSET Keys /\ j \in Keys /\ ContractOf[j] \in Contracts
    BY JournalConstants DEF Filled, Keys
  <1>3. j \in S
    BY <1>1, <1>2 DEF Loose, Ended, Live
  <1>4. \A x \in ExitKeys : ContractOf[x] = ContractOf[j] => x \notin S
    BY <1>1 DEF Loose, Sold, Filled
  <1>5. QED
    BY <1>1, <1>2, <1>3, <1>4, LotsOfOne

(* The price of what is approved, beside what is deployed and reserved.     *)
LEMMA ApprovalCost ==
    ASSUME NEW k \in EntryKeys, NEW rs, NEW now, NEW day, Validates(rs, k, RiskState(now), {}, now, day),
           \A j \in Active(rs) : MaxLoss(IdeaOf[j]) >= 0
    PROVE  LET D == {j \in booked \cap EntryKeys : Lots(booked)[ContractOf[j]] > 0}
           IN  /\ TotalCost(Active(rs)) + (TotalPaid(D) + MaxLoss(IdeaOf[k])) <= CapitalCap
               /\ MaxLoss(IdeaOf[k]) >= 0 /\ PaidFor[k] <= MaxLoss(IdeaOf[k])
  <1> DEFINE cash == RiskState(now).cash
             left == cash - TotalCost(Active(rs) \ {})
             m    == MaxLoss(IdeaOf[k])
  <1>1. m <= (IF left < 0 THEN 0 ELSE left) /\ ValidIdea(IdeaOf[k], day)
    BY DEF Validates, Approves, Adjusted
  <1>2. m > 0 /\ m \in Int /\ PaidFor[k] <= m
    <2>1. /\ IdeaOf[k].debit > 0 /\ IdeaOf[k].fees >= 0 /\ IdeaOf[k].quantity = 1
          /\ IdeaOf[k].debit \in Int /\ IdeaOf[k].fees \in Int
      BY <1>1, IdeaConstants DEF ValidIdea, ValidCost
    <2>2. IdeaOf[k].debit * 100 * IdeaOf[k].quantity = IdeaOf[k].debit * 100
      BY <2>1
    <2>3. PaidFor[k] <= IdeaOf[k].debit * 100 * IdeaOf[k].quantity /\ PaidFor[k] \in Int
      BY <1>1, FillPrices DEF ValidIdea
    <2>4. QED
      BY <2>1, <2>2, <2>3 DEF MaxLoss
  <1>3. cash = IF Basis > CapitalCap THEN 0 ELSE CapitalCap - Basis
    BY DEF RiskState
  <1>4. TotalCost(Active(rs)) \in Int /\ Basis \in Int /\ CapitalCap \in Int
    <2>1. Active(rs) \in SUBSET EntryKeys
      BY DEF Active
    <2>2. {j \in booked \cap EntryKeys : Lots(booked)[ContractOf[j]] > 0} \in SUBSET EntryKeys
      OBVIOUS
    <2>3. QED
      BY <2>1, <2>2, CostFacts, ExecutionConstants DEF Basis
  <1>5. Active(rs) \ {} = Active(rs)
    OBVIOUS
  <1>6. 0 <= TotalCost(Active(rs))
    <2>1. {} \in SUBSET EntryKeys /\ {} \subseteq Active(rs) /\ Active(rs) \in SUBSET EntryKeys
      BY DEF Active
    <2>2. QED
      BY <2>1, CostBounds, CostFacts
  <1> HIDE DEF cash, m
  <1>7. m <= (IF cash - TotalCost(Active(rs)) < 0 THEN 0 ELSE cash - TotalCost(Active(rs)))
    BY <1>1, <1>5
  <1>8. TotalCost(Active(rs)) + (Basis + m) <= CapitalCap
    BY <1>2, <1>3, <1>4, <1>7, <1>6
  <1>9. QED
    BY <1>2, <1>8 DEF Basis, m

(* What a reservation exposes: itself and what was exposed already.         *)
LEMMA ReservedExposes ==
    ASSUME Step, NEW k \in EntryKeys, NEW now \in Times, NEW day \in Days, rows[k].status = "absent",
           rows' = Insert(k, "reserved", now, day), UNCHANGED order,
           NEW j \in EntryKeys \ {k}, Exposed(j)'
    PROVE  /\ Exposed(j)
           /\ j \in Active(Expire(rows, now)) \/ Loose(j)
  <1>1. JInv /\ k \in Keys /\ j \in Keys
    BY DEF Step, XInv, PInv, Keys
  <1>2. rows'[j] = Expire(rows, now)[j]
    BY <1>1, InsertIsCalm
  <1>3. rows'[j].status \in Live => rows[j].status \in Live
    BY <1>1, <1>2, LapseIsCalm
  <1>4. CASE rows'[j].status \in Live
    BY <1>2, <1>3, <1>4 DEF Exposed, Active
  <1>5. CASE Loose(j)'
    <2>1. Loose(j)
      BY <1>1, InsertIsCalm, NothingLoosens, <1>5 DEF Step, XInv
    <2>2. QED
      BY <2>1 DEF Exposed
  <1>6. QED
    BY <1>4, <1>5 DEF Exposed

(* An approved reservation finds no exposure of its name, and the contracts *)
(* held, the open orders and the unsent intents that the check counts leave *)
(* no exposed entry out.                                                    *)
LEMMA EntryReserved ==
    ASSUME Step, Reserved
    PROVE  XInv'
  <1> DEFINE k   == txn.key
             now == txn.now
             day == txn.day
             rs  == Expire(rows, now)
  <1>1. /\ JInv /\ ReserveCommit(RiskState(now)) /\ proc["controller"].pc = "lookups"
        /\ txn.op = "reserve" /\ txn # NoTxn /\ UNCHANGED order /\ txn' = NoTxn
    BY DEF Reserved, AllRead, At, NoTxn, Step, XInv, PInv, bvars, ReserveCommit
  <1>2. NoEnd /\ NoExit /\ (rows'[k].status # "reserved" => NoEntry)
    BY <1>1, ReserveCommitIsCalm
  <1>3. CASE EndCycle /\ rows'[k].status # "reserved"
    BY <1>1, <1>2, <1>3, CycleEnds
  <1>4. CASE Goto("controller", "claim") /\ view' = NoView /\ rows'[k].status = "reserved"
    <2>1. /\ k \in EntryKeys /\ k \in Keys /\ now \in Times /\ day \in Days
          /\ rows[k].status = "absent"
      BY <1>1 DEF JInv, JTypeOK, TxnInv, ReserveCommit, Txn, NoTxn, Keys
    <2>2. Validates(rs, k, RiskState(now), {}, now, day) /\ rows' = Insert(k, "reserved", now, day)
      <3>1. PICK s \in {"reserved", "rejected"} :
                /\ rows' = Insert(k, s, now, day)
                /\ s = "reserved" => Validates(rs, k, RiskState(now), {}, now, day)
        BY <1>1 DEF ReserveCommit
      <3>2. rows'[k].status = s
        BY <1>1, <2>1, <3>1, InsertIsCalm
      <3>3. QED
        BY <1>4, <3>1, <3>2
    <2>3. /\ Reconciled /\ view.live \subseteq view.open
          /\ \A j \in Active(rs) : Underlying(j) # Underlying(k)
          /\ Cardinality({c \in Contracts : view.pos[c] # 0})
               + (Cardinality(view.open \cap EntryKeys) + Cardinality(Unsent(rs))) < MaxSlots
      BY <2>2, ApprovalFacts DEF Step, XInv
    <2>4. ~view.resolved /\ view.live = Claimed /\ k = proc["controller"].key /\ Bidding
      BY <1>1, ControllerFacts DEF Step, XInv, Seen, Bidding
    <2> HIDE DEF k, now, day
    <2>5. ASSUME NEW j \in EntryKeys \ {k}, Exposed(j)'
          PROVE  Exposed(j) /\ (j \in Active(rs) \/ Loose(j))
      BY <1>1, <2>1, <2>2, <2>5, ReservedExposes
    <2>6. OneName'
      <3>1. ASSUME NEW j \in EntryKeys \ {k}, Exposed(j)', Underlying(j) = Underlying(k) PROVE FALSE
        BY <2>3, <2>4, <2>5, <3>1 DEF Step, XInv, Bid
      <3>2. QED
        BY <2>1, <2>5, <3>1 DEF OneName, Underlying, Step, XInv
    <2>7. Slots'
      <3> DEFINE L == {j \in EntryKeys : Loose(j)}
                 O == view.open \cap EntryKeys
                 U == Unsent(rs)
                 T == {c \in Contracts : view.pos[c] # 0}
                 X == {j \in EntryKeys : Exposed(j)'}
      <3>1. Cardinality(L) <= Cardinality(T) /\ Cardinality(T) \in Nat
        <4>1. PICK S \in SUBSET Filled : view.pos = Lots(S) /\ \A j \in Keys : Ended(j) => j \in S
          BY <1>1, <2>4 DEF Step, XInv, Seen
        <4>2. S \in SUBSET Keys
          BY DEF Filled
        <4>3. ASSUME NEW j \in L PROVE Lots(S)[ContractOf[j]] # 0
          <5>1. j \in Keys /\ Loose(j) /\ ContractOf[j] \in Contracts /\ Ended(j)
            BY JournalConstants DEF Keys, Loose, Ended, Live
          <5>2. j \in S
            BY <4>1, <5>1
          <5>3. \A x \in ExitKeys : ContractOf[x] = ContractOf[j] => x \notin S
            BY <5>1 DEF Loose, Sold, Filled
          <5>4. QED
            BY <4>2, <5>1, <5>2, <5>3, LotsOfOne
        <4>4. L \in SUBSET EntryKeys
          OBVIOUS
        <4> HIDE DEF L
        <4>5. QED
          BY <4>1, <4>2, <4>3, <4>4, HeldCount
      <3>2. X \subseteq (L \cup (O \cup U)) \cup {k}
        <4> SUFFICES ASSUME NEW j \in EntryKeys \ {k}, Exposed(j)', j \notin L PROVE j \in O \cup U
          OBVIOUS
        <4>1. j \in Active(rs) /\ j \in Keys
          BY <2>5 DEF Keys
        <4>2. rs[j].status \in Live
          BY <4>1 DEF Active
        <4>3. /\ rs[j].status = "claimed" <=> rows[j].status = "claimed"
              /\ rs[j].status \in {rows[j].status, "expired"} /\ rs[j].sent = rows[j].sent
          BY <1>1, <2>1, <4>1, ExpireStatus DEF JInv, JTypeOK
        <4>4. CASE rows[j].status = "claimed"
          BY <2>3, <2>4, <4>1, <4>4 DEF Claimed
        <4>5. CASE rows[j].status = "reserved"
          BY <4>1, <4>3, <4>5 DEF Step, XInv, Fresh, Unsent
        <4>6. QED
          BY <4>2, <4>3, <4>4, <4>5 DEF Live
      <3>3. /\ IsFiniteSet(L) /\ IsFiniteSet(O) /\ IsFiniteSet(U) /\ IsFiniteSet(X)
        BY JournalConstants, FS_Subset DEF Keys, Unsent, Active
      <3>4. Cardinality(T) + (Cardinality(O) + Cardinality(U)) < MaxSlots
        BY <2>3
      <3> HIDE DEF L, O, U, T, X
      <3>5. /\ IsFiniteSet(O \cup U) /\ IsFiniteSet(L \cup (O \cup U))
            /\ Cardinality(O \cup U) <= Cardinality(O) + Cardinality(U)
            /\ Cardinality(L \cup (O \cup U)) <= Cardinality(L) + Cardinality(O \cup U)
        BY <3>3, UnionBound
      <3>6. Cardinality(X) <= MaxSlots
        <4> DEFINE Y == L \cup (O \cup U)
        <4>1. /\ IsFiniteSet(Y \cup {k}) /\ Cardinality(Y \cup {k}) <= Cardinality(Y) + 1
              /\ Cardinality(Y) \in Nat
          <5>1. IsFiniteSet(Y)
            BY <3>5
          <5>2. IsFiniteSet({k}) /\ Cardinality({k}) = 1
            BY FS_Singleton
          <5> HIDE DEF Y
          <5>3. QED
            BY <5>1, <5>2, UnionBound
        <4>2. Cardinality(X) <= Cardinality(Y \cup {k})
          BY <3>2, <4>1, FS_Subset
        <4>3. /\ Cardinality(L) \in Nat /\ Cardinality(O) \in Nat /\ Cardinality(U) \in Nat
              /\ Cardinality(O \cup U) \in Nat
              /\ Cardinality(X) \in Nat /\ Cardinality(Y \cup {k}) \in Nat
          BY <3>3, <3>5, <4>1, FS_CardinalityType
        <4>4. Cardinality(Y) <= Cardinality(L) + Cardinality(O \cup U)
          BY <3>5
        <4> HIDE DEF Y
        <4>5. QED
          BY <3>1, <3>4, <3>5, <4>1, <4>2, <4>3, <4>4, RulesConstants
      <3>7. QED
        BY <3>6 DEF Slots, X
    <2>8. Capital' /\ Priced'
      <3> DEFINE L == {j \in EntryKeys : Loose(j)}
                 D == {j \in booked \cap EntryKeys : Lots(booked)[ContractOf[j]] > 0}
                 A == Active(rs)
                 W == A \cup {k}
      <3>1. L \subseteq D
        <4> SUFFICES ASSUME NEW j \in EntryKeys, Loose(j) PROVE j \in D
          OBVIOUS
        <4>1. Lots(booked) \in [Contracts -> Int] /\ booked \in SUBSET Keys /\ ContractOf[j] \in Contracts
          BY JournalConstants, LotsType DEF Step, XInv, PInv, BrokerOK, Filled, Keys
        <4>2. view.pos = Lots(booked) /\ view.pos[ContractOf[j]] >= 0
          BY <2>3, <4>1 DEF Reconciled, PositionsMatch
        <4>3. Lots(booked)[ContractOf[j]] # 0
          BY <1>1, <2>4, <4>2, LooseIsSeen DEF Step
        <4>4. Lots(booked)[ContractOf[j]] > 0
          BY <4>1, <4>2, <4>3
        <4>5. \E e \in EntryKeys : e \in booked /\ ContractOf[e] = ContractOf[j]
          BY <4>1, <4>4, LotsOfOne
        <4>6. j \in booked
          BY <4>5, ExecutionConstants
        <4>7. QED
          BY <4>4, <4>6
      <3>2. ASSUME NEW j \in EntryKeys \ {k}
            PROVE  /\ rows'[j].status \in Live => j \in A
                   /\ Loose(j)' => j \in D
                   /\ Exposed(j)' => Exposed(j)
        <4>1. Exposed(j)' => Exposed(j) /\ (j \in A \/ Loose(j))
          BY <2>5
        <4>2. rows'[j] = rs[j]
          BY <1>1, <2>1, <2>2, InsertIsCalm DEF Keys
        <4>3. rows'[j].status \in Live => j \in A
          BY <4>2 DEF Active
        <4>4. Loose(j)' => j \notin A
          BY <4>2 DEF Loose, Active
        <4>5. QED
          BY <3>1, <4>1, <4>3, <4>4 DEF Exposed
      <3>3. A \subseteq EntryKeys /\ D \subseteq EntryKeys /\ W \in SUBSET EntryKeys /\ k \notin A
        <4>1. rs[k].status = "absent"
          BY <1>1, <2>1, ExpireStatus DEF JInv, JTypeOK
        <4>2. QED
          BY <2>1, <4>1 DEF Active, Live
      <3>4. \A j \in A : PaidFor[j] <= MaxLoss(IdeaOf[j])
        <4> SUFFICES ASSUME NEW j \in A PROVE Exposed(j) /\ j \in EntryKeys
          BY DEF Step, XInv, Priced
        <4>1. j \in EntryKeys /\ j \in Keys /\ rs[j].status \in Live
          BY DEF Active, Keys
        <4>2. rows[j].status \in Live
          BY <1>1, <2>1, <4>1, ExpireStatus DEF JInv, JTypeOK, Live
        <4>3. QED
          BY <4>1, <4>2 DEF Exposed
      <3> HIDE DEF A, D, L
      <3>5. \A j \in A : MaxLoss(IdeaOf[j]) >= 0
        <4>1. \A j \in EntryKeys : PaidFor[j] \in Int /\ PaidFor[j] >= 0 /\ MaxLoss(IdeaOf[j]) \in Int
          BY CostType, CostFacts
        <4>2. QED
          BY <3>3, <3>4, <4>1
      <3>6. /\ TotalCost(A) + (TotalPaid(D) + MaxLoss(IdeaOf[k])) <= CapitalCap
            /\ MaxLoss(IdeaOf[k]) >= 0 /\ PaidFor[k] <= MaxLoss(IdeaOf[k])
        BY <2>1, <2>2, <3>5, ApprovalCost DEF A, D
      <3>7. Guarded' \subseteq W /\ LedgerOnly' \subseteq D
        <4>1. Guarded' \subseteq W
          BY <3>2 DEF Guarded
        <4>2. ASSUME NEW j \in EntryKeys, Loose(j)' PROVE j # k
          BY <1>4, <4>2 DEF Loose, Live
        <4>3. ASSUME NEW j \in LedgerOnly' PROVE j \in D
          <5>1. j \in EntryKeys /\ Loose(j)'
            BY <4>3 DEF LedgerOnly
          <5>2. QED
            BY <3>2, <4>2, <5>1
        <4>4. QED
          BY <4>1, <4>3
      <3>8. TotalCost(W) <= TotalCost(A) + MaxLoss(IdeaOf[k])
        <4>1. A \in SUBSET EntryKeys /\ {k} \in SUBSET EntryKeys /\ \A j \in {k} : MaxLoss(IdeaOf[j]) >= 0
          BY <3>3, <3>6
        <4>2. TotalCost(W) <= TotalCost(A) + TotalCost({k})
          BY <4>1, CostBounds
        <4>3. QED
          BY <2>1, <4>2, CostFacts
      <3>9. Capital'
        <4> DEFINE B == Guarded'
                   E == LedgerOnly'
        <4>1. B \in SUBSET EntryKeys /\ E \in SUBSET EntryKeys /\ D \in SUBSET EntryKeys /\ A \in SUBSET EntryKeys
          BY <3>3 DEF Guarded, LedgerOnly
        <4>2. B \subseteq W /\ E \subseteq D /\ \A j \in W : MaxLoss(IdeaOf[j]) >= 0
          BY <3>5, <3>6, <3>7
        <4> HIDE DEF B, E, W
        <4>3. TotalCost(B) <= TotalCost(W) /\ TotalPaid(E) <= TotalPaid(D)
          BY <3>3, <4>1, <4>2, CostBounds
        <4>4. /\ TotalCost(B) \in Int /\ TotalCost(W) \in Int /\ TotalCost(A) \in Int
              /\ TotalPaid(E) \in Int /\ TotalPaid(D) \in Int
              /\ MaxLoss(IdeaOf[k]) \in Int /\ CapitalCap \in Int
          <5>1. \A S \in SUBSET EntryKeys : TotalCost(S) \in Int /\ TotalPaid(S) \in Int
            BY CostFacts
          <5>2. W \in SUBSET EntryKeys
            BY <3>3
          <5>3. MaxLoss(IdeaOf[k]) \in Int /\ CapitalCap \in Int
            <6>1. MaxLoss(IdeaOf[k]) \in Int
              BY <2>1, CostFacts
            <6>2. QED
              BY <6>1, ExecutionConstants
          <5>4. QED
            BY <4>1, <5>1, <5>2, <5>3
        <4>5. TotalCost(B) + TotalPaid(E) <= CapitalCap
          BY <3>6, <3>8, <4>3, <4>4
        <4>6. QED
          BY <4>5 DEF B, E, Capital, TotalCost, TotalPaid
      <3>10. Priced'
        <4> SUFFICES ASSUME NEW j \in EntryKeys, Exposed(j)' \/ order'[j] = "filled"
                     PROVE  PaidFor[j] <= MaxLoss(IdeaOf[j])
          BY DEF Priced
        <4>1. CASE j = k
          BY <3>6, <4>1
        <4>2. CASE j # k
          BY <1>1, <3>2, <4>2 DEF Step, XInv, Priced
        <4>3. QED
          BY <4>1, <4>2
      <3>11. QED
        BY <3>9, <3>10
    <2>9. OneSale' /\ BoughtFirst'
      BY <1>2, SalesShrink DEF Step
    <2>10. /\ proc'["controller"].pc = "claim" /\ proc'["controller"].inv = proc["controller"].inv
      BY <1>4, GotoFacts DEF Step, XInv, PInv
    <2>11. Held'
      BY <1>1, <2>10, HeldNowhere DEF Step, InExits
    <2>12. Seen' /\ Bid'
      BY <1>1, <1>4, <2>10, SeenAway DEF Step, NoView, Bid, Bidding, NoTxn
    <2>13. QED
      BY <2>6, <2>7, <2>9, <2>11, <2>12, <2>8 DEF Step, XInv
  <1>5. QED
    BY <1>3, <1>4 DEF Reserved

-----------------------------------------------------------------------------
(* An exit is claimed: no other sale of its contract is under way or was    *)
(* missed by the inventory, which showed the lot that it sells.             *)
LEMMA ExitTaken ==
    ASSUME Step, NEW c \in Contracts, NEW now \in Times, Exit(c, now)
    PROVE  XInv'
  <1> DEFINE x == proc["controller"]
             day == x.day
             k == CycleExit[<<c, day>>]
             s == [x EXCEPT !.pc = "send", !.key = k]
  <1>1. /\ x \in Process /\ x.pc = "exits" /\ day \in Days /\ txn = NoTxn /\ txn' = NoTxn
        /\ k \in ExitKeys /\ k \in Keys /\ k \notin EntryKeys /\ ContractOf[k] = c
        /\ UNCHANGED <<order, view>> /\ JInv
        /\ x.inv[c] = ExitQty[k]
    BY ControllerFacts, ExecutionConstants, JournalConstants
    DEF Exit, At, Reading, Keys, Step, XInv, PInv, bvars, ExitDuplicate, PrepareExit
  <1>2. \/ ExitDuplicate(k, now)
        \/ PrepareExit(k, x.inv, now, day)
    BY DEF Exit
  <1>3. ASSUME NEW y \in Process
        PROVE  LET t == [y EXCEPT !.pc = "send", !.key = k]
               IN  t.pc = "send" /\ t.key = k /\ t.inv = y.inv
    BY DEF Process
  <1>4. s.pc = "send" /\ s.key = k /\ s.inv = x.inv
    BY <1>1, <1>3
  <1>5. \/ /\ rows[k].status = "absent" /\ rows'[k].status = "claimed"
           /\ proc'["controller"] = s
        \/ /\ rows[k].status # "absent" \/ rows'[k].status # "claimed"
           /\ proc'["controller"] = x
    BY DEF Exit, AfterPrepare, Step, XInv, PInv, ProcOK, Processes
  <1> HIDE DEF s, k, day
  <1>6. InExits /\ InExits' /\ proc'["controller"].inv = x.inv /\ ~Bidding'
        /\ proc'["controller"].pc \notin {"orders", "lookups"}
    BY <1>1, <1>4, <1>5 DEF InExits, Bidding, NoTxn
  <1>7. Seen' /\ Bid'
    BY <1>1, <1>6, SeenAway DEF Step, XInv, Seen, Bid
  <1>8. NoEnd /\ NoEntry /\ (~(rows[k].status = "absent" /\ rows'[k].status = "claimed") => NoExit)
    <2>1. CASE ExitDuplicate(k, now)
      BY <1>1, <2>1, ExpiryIsCalm DEF ExitDuplicate
    <2>2. CASE PrepareExit(k, x.inv, now, day)
      <3>1. rows[k].status = "absent" /\ \E t \in {"claimed", "rejected"} : rows' = Insert(k, t, now, day)
        BY <2>2 DEF PrepareExit
      <3>2. QED
        BY <1>1, <3>1, InsertIsCalm
    <2>3. QED
      BY <1>2, <2>1, <2>2
  <1>9. Held'
    BY <1>6, <1>8, HeldStays DEF Step
  <1>10. CASE ~(rows[k].status = "absent" /\ rows'[k].status = "claimed")
    BY <1>7, <1>8, <1>9, <1>10, StepKeeps
  <1>11. CASE rows[k].status = "absent" /\ rows'[k].status = "claimed"
    <2>1. PrepareExit(k, x.inv, now, day)
      BY <1>2, <1>11 DEF ExitDuplicate
    <2>2. rows' = Insert(k, "claimed", now, day) /\ ValidExit(k, x.inv)
      <3>1. PICK t \in {"claimed", "rejected"} :
                rows' = Insert(k, t, now, day) /\ (t = "claimed" => ValidExit(k, x.inv))
        BY <2>1 DEF PrepareExit
      <3>2. rows'[k].status = t
        BY <1>1, <1>11, <3>1, InsertIsCalm
      <3>3. QED
        BY <1>11, <3>1, <3>2
    <2>3. Sellable(c)
      BY <1>1, ExecutionConstants DEF Step, XInv, Held
    <2>4. ASSUME NEW j \in ExitKeys \ {k}, Selling(j)'
          PROVE  Selling(j) /\ ContractOf[j] # c
      <3>1. j \in Keys /\ rows'[j] = Expire(rows, now)[j]
        BY <1>1, <1>11, <2>2, InsertIsCalm DEF Keys
      <3>2. rows'[j].status = "claimed" <=> rows[j].status = "claimed"
        BY <1>1, <3>1, LapseIsCalm
      <3>3. Selling(j)
        BY <1>1, <2>4, <3>2 DEF Selling, Ended
      <3>4. QED
        BY <1>1, <2>2, <2>3, <3>1, <3>3 DEF Selling, ValidExit, Sellable
    <2>5. OneSale'
      BY <1>1, <2>4 DEF Step, XInv, OneSale
    <2>6. \A d : Bought(d) => Bought(d)'
      BY <1>1 DEF Bought
    <2>7. BoughtFirst'
      BY <1>1, <2>3, <2>4, <2>6 DEF Step, XInv, BoughtFirst, Sellable
    <2>8. OneName' /\ Slots' /\ Capital' /\ Priced'
      BY <1>8, ExposureShrinks DEF Step
    <2>9. QED
      BY <1>7, <1>9, <2>5, <2>7, <2>8 DEF Step, XInv
  <1>12. QED
    BY <1>10, <1>11

-----------------------------------------------------------------------------
(* The submission of the controller: an entry ends the cycle, an exit goes  *)
(* back to the inventory.                                                   *)
LEMMA DoneFacts ==
    ASSUME Step, proc' = Done("controller"), proc["controller"].pc \in {"send", "wait"}
    PROVE  \/ /\ proc'["controller"].pc = "exits" /\ InExits
              /\ proc'["controller"].inv = proc["controller"].inv
           \/ /\ proc'["controller"].pc = "idle"
              /\ proc'["controller"].inv = NoLots
  <1>1. ASSUME NEW y \in Process
        PROVE  LET t == [y EXCEPT !.pc = "exits", !.key = "none", !.reply = "none"]
               IN  t.pc = "exits" /\ t.inv = y.inv
    BY DEF Process
  <1>2. proc["controller"] \in Process
    BY ControllerFacts DEF Step, XInv
  <1>3. CASE proc["controller"].key \in ExitKeys
    <2>1. proc'["controller"] = [proc["controller"] EXCEPT !.pc = "exits", !.key = "none", !.reply = "none"]
      BY <1>3 DEF Done, Step, XInv, PInv, ProcOK, Processes
    <2>2. QED
      BY <1>1, <1>2, <1>3, <2>1 DEF InExits
  <1>4. CASE proc["controller"].key \notin ExitKeys
    <2>1. proc'["controller"] = Idle
      BY <1>4 DEF Done, Step, XInv, PInv, ProcOK, Processes
    <2>2. QED
      BY <2>1, IdleFacts
  <1>5. QED
    BY <1>3, <1>4

LEMMA SubmissionEnds ==
    ASSUME Step, NoEnd, NoEntry, NoExit, txn = NoTxn, txn' = NoTxn, view' = view,
           proc' = Done("controller"), proc["controller"].pc \in {"send", "wait"}
    PROVE  XInv'
  <1>1. \/ /\ proc'["controller"].pc = "exits" /\ InExits
           /\ proc'["controller"].inv = proc["controller"].inv
        \/ /\ proc'["controller"].pc = "idle"
           /\ proc'["controller"].inv = NoLots
    BY DoneFacts
  <1>2. Held'
    <2>1. CASE proc'["controller"].pc = "exits" /\ InExits /\ proc'["controller"].inv = proc["controller"].inv
      BY <2>1, HeldStays DEF Step, InExits
    <2>2. CASE proc'["controller"].pc = "idle" /\ proc'["controller"].inv = NoLots
      BY <2>2, HeldDropped DEF InExits
    <2>3. QED
      BY <1>1, <2>1, <2>2
  <1>3. Seen' /\ Bid'
    BY <1>1, SeenAway DEF Step, XInv, Seen, Bid, Bidding, NoTxn
  <1>4. QED
    BY <1>2, <1>3, StepKeeps

LEMMA Submits ==
    ASSUME Step, NEW p \in Processes, Send(p) \/ Answered(p) \/ OutcomeUnknown(p)
    PROVE  XInv'
  <1>1. p = "controller" /\ proc["controller"].pc \in {"send", "wait"}
    BY DEF Send, Answered, OutcomeUnknown, At, Step, XInv, Quiet, Processes
  <1>2. txn = NoTxn /\ view' = view /\ UNCHANGED order
    BY DEF Send, Answered, OutcomeUnknown, bvars
  <1>3. CASE Send(p)
    <2>1. UNCHANGED <<rows, txn>> /\ (Goto("controller", "wait") \/ proc' = Done("controller"))
      BY <1>1, <1>3 DEF Send, jvars
    <2>2. NoEnd /\ NoEntry /\ NoExit
      BY <2>1, SameRows
    <2>3. CASE proc' = Done("controller")
      BY <1>1, <1>2, <2>1, <2>2, <2>3, SubmissionEnds
    <2>4. CASE Goto("controller", "wait")
      <3>1. /\ proc'["controller"].pc = "wait" /\ proc'["controller"].key = proc["controller"].key
            /\ proc'["controller"].inv = proc["controller"].inv
        BY <2>4, GotoFacts DEF Step, XInv, PInv
      <3>2. proc["controller"].pc = "send"
        BY <1>1, <1>3 DEF Send, At
      <3>3. Held'
        BY <2>2, <3>1, <3>2, HeldStays DEF Step, InExits
      <3>4. Seen' /\ Bid'
        BY <1>2, <2>1, <3>1, SeenAway DEF Step, XInv, Seen, Bid, Bidding, NoTxn
      <3>5. QED
        BY <2>2, <3>3, <3>4, StepKeeps
    <2>5. QED
      BY <2>1, <2>3, <2>4
  <1>4. CASE OutcomeUnknown(p)
    BY <1>1, <1>2, <1>4, SameRows, SubmissionEnds DEF OutcomeUnknown, jvars
  <1>5. CASE Answered(p)
    <2> DEFINE k == proc["controller"].key
    <2>1. /\ proc' = Done("controller") /\ k \in Keys /\ proc["controller"].pc = "wait"
          /\ proc["controller"].reply \in {"taken", "refused"} /\ rows \in [Keys -> Row]
      BY <1>1, <1>5, ControllerFacts
      DEF Answered, At, Step, XInv, PInv, Hands, InHand, Process, JInv, JTypeOK
    <2>2. NoEnd /\ NoEntry /\ NoExit /\ txn' = NoTxn
      <3>1. CASE UNCHANGED jvars
        BY <1>2, <3>1, SameRows DEF jvars
      <3>2. CASE MarkSubmitted(k)
        <4>1. \A j \in Keys : rows'[j].status = rows[j].status
          BY <2>1, <3>2 DEF MarkSubmitted, Row
        <4>2. QED
          BY <3>2, <4>1 DEF MarkSubmitted, NoEnd, NoEntry, NoExit, Keys
      <3>3. CASE ResolveUnplaced(k) /\ proc["controller"].reply = "refused"
        <4>1. order[k] = "none"
          BY <1>1, <3>3 DEF Step, XInv, PInv, Hands, InHand
        <4>2. rows'[k].status = "unplaced" /\ \A j \in Keys \ {k} : rows'[j] = rows[j]
          BY <2>1, <3>3, SetStatusRow DEF ResolveUnplaced, Statuses, Resolved
        <4>3. txn' = NoTxn
          BY <3>3 DEF ResolveUnplaced
        <4> HIDE DEF k
        <4>4. QED
          BY <4>1, <4>2, <4>3 DEF NoEnd, NoEntry, NoExit, Keys, Live
      <3>4. QED
        BY <1>1, <1>5, <2>1, <3>1, <3>2, <3>3 DEF Answered
    <2>3. QED
      BY <1>1, <1>2, <2>1, <2>2, SubmissionEnds
  <1>6. QED
    BY <1>3, <1>4, <1>5

-----------------------------------------------------------------------------
(* Whatever happens outside the process.                                    *)
LEMMA Received ==
    ASSUME Step, NEW k \in Keys, NEW outcome \in {"taken", "refused", "lost"}, Receive(k, outcome)
    PROVE  XInv'
  <1>1. ASSUME NEW y \in Process
        PROVE  LET t == [y EXCEPT !.reply = outcome]
               IN  t.pc = y.pc /\ t.key = y.key /\ t.inv = y.inv
    BY DEF Process
  <1>2. /\ UNCHANGED <<rows, txn, view>>
        /\ proc'["controller"] \in {proc["controller"], [proc["controller"] EXCEPT !.reply = outcome]}
    BY DEF Receive, Processes, jvars
  <1>3. proc["controller"] \in Process
    BY ControllerFacts DEF Step, XInv
  <1>4. QED
    BY <1>1, <1>2, <1>3, StillKeeps

LEMMA Elapsed ==
    ASSUME Step, UNCHANGED <<rows, txn, proc, view>>
    PROVE  XInv'
  BY StillKeeps

LEMMA Crashed ==
    ASSUME Step, NEW p \in Processes, Crash(p)
    PROVE  XInv'
  <1>1. p = "controller"
    BY DEF Crash, At, Step, XInv, Quiet, Processes
  <1>2. EndCycle /\ txn' = NoTxn /\ rows' = rows
    BY <1>1 DEF Crash, EndCycle
  <1>3. QED
    BY <1>2, SameRows, CycleEnds

LEMMA DiedNormalizing ==
    ASSUME Step, DiesNormalizing
    PROVE  XInv'
  <1>1. EndCycle /\ txn' = NoTxn /\ rows' = rows
    BY DEF DiesNormalizing, EndCycle
  <1>2. QED
    BY <1>1, SameRows, CycleEnds

-----------------------------------------------------------------------------
(* Only the broker moves an order, and it fills only those of claims.       *)
LEMMA OrdersGoOn == PInv /\ Commands = {} /\ [Next]_vars => Onward
  <1> SUFFICES ASSUME PInv, Commands = {}, [Next]_vars PROVE Onward
    OBVIOUS
  <1>1. CASE UNCHANGED order
    BY <1>1 DEF Onward
  <1>2. ASSUME NEW k \in Keys, NEW outcome, Receive(k, outcome) PROVE Onward
    <2>1. order[k] = "none"
      BY <1>2 DEF Receive, PInv, Hands, Posted
    <2>2. (\A j \in Keys \ {k} : order'[j] = order[j]) /\ order'[k] # "filled"
      BY <1>2, <2>1 DEF Receive, PInv, BrokerOK
    <2>3. QED
      BY <2>1, <2>2 DEF Onward
  <1>3. ASSUME NEW k \in Keys, NEW status, Execute(k, status) PROVE Onward
    <2>1. order[k] = "open" /\ rows[k].status = "claimed" /\ rows' = rows
      BY <1>3, ProvenanceKnown DEF Execute, KnownProvenance, jvars
    <2>2. \A j \in Keys \ {k} : order'[j] = order[j]
      BY <1>3 DEF Execute, PInv, BrokerOK
    <2>3. QED
      BY <2>1, <2>2 DEF Onward
  <1>4. CASE ~UNCHANGED order
    <2>1. ~UNCHANGED bvars /\ ~UNCHANGED vars
      BY <1>4 DEF bvars, vars
    <2>2. ~Cycle
      BY <2>1
      DEF Cycle, BeginCycle, ReadActivities, ReadPositions, ReadOrders, LookUp, ResolveIntent, ReadAgain,
          Halt, Proceed, HistoryFails, ReadFails, DiesNormalizing, NoProposal, Reserved, ClaimedNow, Propose, Reserve,
          Claim, Exit
    <2>3. ~Command
      BY <2>1 DEF Command, ReleaseLookup, Release, FlattenRead, FlattenDryRun, FlattenPrepare
    <2>4. ~Submission
      BY <1>4, <2>1 DEF Submission, Send, Answered, OutcomeUnknown
    <2>5. ~WriteControl /\ \A p \in Processes : ~Crash(p)
      BY <2>1 DEF WriteControl, Crash
    <2>6. Broker /\ ~NewDay /\ \A k \in Keys : ~PostActivity(k)
      BY <1>4, <2>1, <2>2, <2>3, <2>4, <2>5 DEF Next, NewDay, PostActivity
    <2>7. QED
      BY <1>2, <1>3, <2>6 DEF Broker
  <1>5. QED
    BY <1>1, <1>4

(* Nothing but a command moves the operator's process from idle.            *)
LEMMA NoCommand == Quiet => ~Command
  BY DEF Quiet, Command, ReleaseLookup, Release, FlattenRead, FlattenDryRun, FlattenPrepare, At

LEMMA StaysQuiet == PInv /\ Quiet /\ [Next]_vars => Quiet'
  <1> SUFFICES ASSUME PInv, Quiet, [Next]_vars PROVE proc'["command"].pc = "idle"
    BY DEF Quiet
  <1> USE DEF PInv, ProcOK, Processes
  <1>1. CASE UNCHANGED proc
    BY <1>1 DEF Quiet
  <1>2. CASE \E r : proc' = [proc EXCEPT !["controller"] = r]
    BY <1>2 DEF Quiet
  <1>3. CASE Cycle
    <2>1. CASE BeginCycle \/ ReadAgain \/ (\E now \in Times : Reserve(now) \/ Claim(now))
      BY <1>2, <2>1 DEF BeginCycle, ReadAgain, Reserve, Claim, StartReading, EndCycle
    <2>2. CASE ReadActivities \/ HistoryFails \/ ReadPositions \/ ReadOrders \/ Reserved \/ ClaimedNow
      BY <1>2, <2>2
      DEF ReadActivities, HistoryFails, ReadPositions, ReadOrders, Reserved, ClaimedNow, Goto, EndCycle, Quiet
    <2>3. CASE ReadFails \/ DiesNormalizing \/ Halt \/ NoProposal \/ Proceed \/ (\E k \in EntryKeys : Propose(k))
      BY <1>2, <2>3 DEF ReadFails, DiesNormalizing, Halt, NoProposal, Proceed, Propose, EndCycle
    <2>4. CASE \E k \in Keys : LookUp(k) \/ ResolveIntent(k)
      BY <1>1, <2>4 DEF LookUp, ResolveIntent
    <2>5. CASE \E now \in Times : \E c \in Contracts : Exit(c, now)
      BY <1>2, <2>5 DEF Exit, AfterPrepare
    <2>6. QED
      BY <1>3, <2>1, <2>2, <2>3, <2>4, <2>5 DEF Cycle
  <1>4. CASE Submission
    <2>1. Send("controller") \/ Answered("controller") \/ OutcomeUnknown("controller")
      BY <1>4 DEF Submission, Send, Answered, OutcomeUnknown, At, Quiet
    <2>2. Goto("controller", "wait") \/ proc' = Done("controller")
      BY <2>1 DEF Send, Answered, OutcomeUnknown
    <2>3. QED
      BY <2>2 DEF Goto, Done, Quiet
  <1>5. CASE Broker
    <2>1. CASE \E k \in Keys, outcome \in {"taken", "refused", "lost"} : Receive(k, outcome)
      BY <2>1 DEF Receive, At, Quiet
    <2>2. CASE UNCHANGED proc
      BY <1>1, <2>2
    <2>3. QED
      BY <1>5, <2>1, <2>2 DEF Broker, NewDay, Execute, PostActivity
  <1>6. CASE WriteControl \/ UNCHANGED vars
    BY <1>1, <1>6 DEF WriteControl, vars
  <1>7. ASSUME NEW p \in Processes, Crash(p) PROVE proc'["command"].pc = "idle"
    BY <1>7, IdleFacts DEF Crash, Quiet
  <1>8. QED
    BY <1>3, <1>4, <1>5, <1>6, <1>7, NoCommand DEF Next

(* A reserved row has never been acknowledged.                              *)
LEMMA StaysFresh == JInv /\ Fresh /\ [JournalStep]_jvars => Fresh'
  <1> SUFFICES ASSUME JInv, Fresh, [JournalStep]_jvars PROVE Fresh'
    OBVIOUS
  <1> DEFINE Calm(j) == rows'[j].status = "reserved" =>
                          ~rows'[j].sent \/ (rows[j].status = "reserved" /\ rows'[j].sent = rows[j].sent)
  <1>1. rows \in [Keys -> Row] /\ EntryKeys \subseteq Keys
    BY DEF JInv, JTypeOK, Keys
  <1>2. ASSUME NEW now \in Times, NEW j \in Keys, rows'[j] = Expire(rows, now)[j] PROVE Calm(j)
    BY <1>1, <1>2, ExpireStatus
  <1>3. ASSUME NEW now \in Times, NEW k \in Keys, NEW s, NEW day, rows' = Insert(k, s, now, day)
        PROVE  \A j \in Keys : Calm(j)
    <2>1. Expire(rows, now) \in [Keys -> Row]
      BY <1>1, ExpireRow
    <2>2. /\ rows'[k].sent = FALSE
          /\ \A j \in Keys \ {k} : rows'[j] = Expire(rows, now)[j]
      BY <1>3, <2>1 DEF Insert, Absent
    <2>3. QED
      BY <1>2, <2>2
  <1>4. ASSUME NEW rs \in [Keys -> Row], NEW k \in Keys, NEW s, s # "reserved", rows' = SetStatus(rs, k, s)
        PROVE  rows'[k].status # "reserved" /\ \A j \in Keys \ {k} : rows'[j] = rs[j]
    BY <1>4 DEF SetStatus, Row
  <1>5. ASSUME NEW now \in Times, NEW k \in EntryKeys, NEW s, s # "reserved",
               rows' = SetStatus(Expire(rows, now), k, s)
        PROVE  \A j \in Keys : Calm(j)
    <2>1. rows'[k].status # "reserved" /\ \A j \in Keys \ {k} : rows'[j] = Expire(rows, now)[j]
      BY <1>1, <1>4, <1>5, ExpireRow
    <2>2. QED
      BY <1>1, <1>2, <2>1
  <1>6. CASE UNCHANGED rows
    BY <1>6 DEF Fresh
  <1>7. ASSUME \A j \in Keys : Calm(j) PROVE Fresh'
    BY <1>1, <1>7 DEF Fresh
  <1>8. CASE \E base : ReserveCommit(base) \/ ClaimCommit(base)
    <2>1. txn.key \in EntryKeys /\ txn.now \in Times
      BY <1>8 DEF ReserveCommit, ClaimCommit, JInv, JTypeOK, Txn, NoTxn
    <2>2. \/ \E s : rows' = Insert(txn.key, s, txn.now, txn.day)
          \/ \E s \in {"claimed", "revoked"} : rows' = SetStatus(Expire(rows, txn.now), txn.key, s)
      BY <1>8 DEF ReserveCommit, ClaimCommit
    <2>3. \A j \in Keys : Calm(j)
      BY <1>1, <1>3, <1>5, <2>1, <2>2
    <2>4. QED
      BY <1>7, <2>3
  <1>9. ASSUME NEW k \in Keys, NEW now \in Times, NEW day,
               \/ rows' = Expire(rows, now)
               \/ \E s : rows' = Insert(k, s, now, day)
               \/ k \in EntryKeys /\ rows' = SetStatus(Expire(rows, now), k, "revoked")
        PROVE  Fresh'
    BY <1>2, <1>3, <1>5, <1>7, <1>9
  <1>10. ASSUME NEW k \in Keys, MarkSubmitted(k) PROVE Fresh'
    BY <1>1, <1>10 DEF MarkSubmitted, Sendable, Fresh, Row
  <1>11. ASSUME NEW k \in Keys, NEW s \in Resolved, rows' = SetStatus(rows, k, s) PROVE Fresh'
    <2>1. rows'[k].status # "reserved" /\ \A j \in Keys \ {k} : rows'[j] = rows[j]
      BY <1>1, <1>4, <1>11 DEF Resolved
    <2>2. QED
      BY <1>1, <2>1 DEF Fresh
  <1>12. ASSUME NEW k \in EntryKeys, NEW now \in Times,
                \/ ReserveDuplicate(k, now) \/ ClaimUnavailable(k, now)
                \/ \E day \in Days :
                      \/ ReserveDisabled(k, now, day) \/ ReserveBegin(k, now, day)
                      \/ ClaimMismatch(k, now, day) \/ ClaimDisabled(k, now, day)
                      \/ ClaimBegin(k, now, day)
         PROVE  Fresh'
    <2>1. \/ UNCHANGED rows
          \/ \E day : \/ rows' = Expire(rows, now)
                      \/ rows' = Insert(k, "rejected", now, day)
                      \/ rows' = SetStatus(Expire(rows, now), k, "revoked")
      BY <1>12
      DEF ReserveDuplicate, ClaimUnavailable, ReserveDisabled, ReserveBegin, ClaimMismatch, ClaimDisabled,
          ClaimBegin
    <2>2. QED
      BY <1>1, <1>6, <1>9, <2>1
  <1>13. ASSUME NEW k \in ExitKeys, NEW now \in Times,
                ExitDuplicate(k, now) \/ \E day \in Days : \E held : PrepareExit(k, held, now, day)
         PROVE  Fresh'
    <2>1. \/ rows' = Expire(rows, now)
          \/ \E s, day : rows' = Insert(k, s, now, day)
      BY <1>13 DEF ExitDuplicate, PrepareExit
    <2>2. k \in Keys
      BY DEF Keys
    <2>3. QED
      BY <1>9, <2>1, <2>2
  <1>14. ASSUME NEW k \in Keys,
                ResolveUnplaced(k) \/ ReleaseUnsent(k) \/ \E status \in TerminalStatuses : Resolve(k, status)
         PROVE  Fresh'
    BY <1>11, <1>14 DEF ResolveUnplaced, ReleaseUnsent, Resolve, Resolved
  <1>15. CASE SetControl \/ Rollback \/ UNCHANGED jvars
    BY <1>6, <1>15 DEF SetControl, Rollback, jvars
  <1>16. QED
    BY <1>8, <1>10, <1>12, <1>13, <1>14, <1>15 DEF JournalStep

-----------------------------------------------------------------------------
LEMMA InitPositions == Init /\ Commands = {} => XInv
  <1> SUFFICES ASSUME Init, Commands = {} PROVE XInv
    OBVIOUS
  <1>1. /\ proc["controller"].pc = "idle" /\ proc["command"].pc = "idle"
        /\ proc["controller"].inv = NoLots /\ txn = NoTxn
        /\ ~view.second /\ ~view.resolved
        /\ \A k \in Keys : order[k] = "none" /\ rows[k].status = "absent"
    BY IdleFacts DEF Init, Processes, NoView, Absent
  <1>2. Quiet /\ Fresh /\ Seen /\ Held /\ Bid
    BY <1>1 DEF Quiet, Fresh, Seen, Held, InExits, NoLots, Bid, Bidding, NoTxn, Keys
  <1>3. \A k \in Keys : ~Exposed(k) /\ ~Selling(k)
    BY <1>1 DEF Exposed, Selling, Loose, Ended, Live
  <1>4. OneSale /\ BoughtFirst /\ OneName
    BY <1>3 DEF OneSale, BoughtFirst, OneName, Keys
  <1>5. Slots
    <2>1. {k \in EntryKeys : Exposed(k)} = {}
      BY <1>3 DEF Keys
    <2>2. QED
      BY <2>1, FS_EmptySet, RulesConstants DEF Slots
  <1>6. Capital /\ Priced
    <2>1. Guarded = {} /\ LedgerOnly = {}
      BY <1>3 DEF Keys, Guarded, LedgerOnly, Exposed
    <2>2. Capital
      BY <2>1, CostFacts, ExecutionConstants DEF Capital
    <2>3. Priced
      BY <1>1, <1>3 DEF Priced, Keys
    <2>4. QED
      BY <2>2, <2>3
  <1>7. QED
    BY <1>2, <1>4, <1>5, <1>6, InitInv DEF XInv

LEMMA NextPositions == XInv /\ [Next]_vars => XInv'
  <1> SUFFICES ASSUME XInv, [Next]_vars PROVE XInv'
    OBVIOUS
  <1>1. Step
    <2>1. PInv /\ Quiet /\ Fresh /\ Commands = {}
      BY DEF XInv, Quiet
    <2>2. PInv' /\ Quiet' /\ Onward
      BY <2>1, NextInv, StaysQuiet, OrdersGoOn
    <2>3. Fresh'
      BY <2>1, CallsAreJournalSteps, StaysFresh DEF PInv
    <2>4. QED
      BY <2>2, <2>3 DEF Step
  <1>2. CASE Cycle
    <2>1. CASE BeginCycle \/ ReadAgain \/ ReadActivities \/ HistoryFails \/ ReadPositions \/ ReadOrders
      BY <1>1, <2>1, ReadsBegin, ActivitiesRead, PositionsRead, OrdersRead
    <2>2. CASE \E k \in Keys : LookUp(k) \/ ResolveIntent(k)
      BY <1>1, <2>2, OneLookedUp, IntentResolved
    <2>3. CASE ReadFails \/ DiesNormalizing \/ Halt \/ NoProposal \/ Proceed
      BY <1>1, <2>3, CycleStops, DiedNormalizing, CycleProceeds
    <2>4. CASE Reserved \/ ClaimedNow \/ (\E k \in EntryKeys : Propose(k))
      BY <1>1, <2>4, EntryReserved, EntryClaimed, EntryProposed
    <2>5. CASE \E now \in Times : Reserve(now) \/ Claim(now) \/ \E c \in Contracts : Exit(c, now)
      BY <1>1, <2>5, ReservationBegins, ClaimBegins, ExitTaken
    <2>6. QED
      BY <1>2, <2>1, <2>2, <2>3, <2>4, <2>5 DEF Cycle
  <1>3. CASE Submission
    BY <1>1, <1>3, Submits DEF Submission
  <1>4. CASE Broker
    <2>1. CASE UNCHANGED <<rows, txn, proc, view>>
      BY <1>1, <2>1, Elapsed
    <2>2. QED
      BY <1>1, <1>4, <2>1, Received DEF Broker, NewDay, Execute, PostActivity, jvars
  <1>5. CASE WriteControl \/ UNCHANGED vars
    BY <1>1, <1>5, Elapsed DEF WriteControl, SetControl, vars, jvars
  <1>6. CASE \E p \in Processes : Crash(p)
    BY <1>1, <1>6, Crashed
  <1>7. QED
    BY <1>2, <1>3, <1>4, <1>5, <1>6, NoCommand DEF Next, XInv

LEMMA PositionInvariant ==
    ASSUME Commands = {}
    PROVE  Spec => []XInv
  BY InitPositions, NextPositions, PTL DEF Spec

-----------------------------------------------------------------------------
(* What the account holds and may come to hold, in terms of the invariant.  *)
LEMMA AtMostOne ==
    ASSUME NEW S, \A x, y \in S : x = y
    PROVE  /\ IsFiniteSet(S) /\ Cardinality(S) \in {0, 1}
           /\ Cardinality(S) = 1 <=> S # {}
  <1>1. CASE S = {}
    BY <1>1, FS_EmptySet
  <1>2. CASE S # {}
    <2>1. PICK x : S = {x}
      BY <1>2
    <2>2. QED
      BY <2>1, FS_Singleton
  <1>3. QED
    BY <1>1, <1>2

LEMMA UnderWay ==
    ASSUME XInv, NEW k \in Keys, k \in wire \/ order[k] = "open"
    PROVE  rows[k].status = "claimed"
  BY ProvenanceKnown DEF XInv, Quiet, KnownProvenance

LEMMA OutstandingIsExposed ==
    ASSUME XInv, NEW k \in Outstanding
    PROVE  k \in EntryKeys /\ Exposed(k)
  BY UnderWay DEF Outstanding, Exposed, Live, Keys

LEMMA HoldingIsExposed ==
    ASSUME XInv, NEW c \in Holdings
    PROVE  \E e \in EntryKeys : ContractOf[e] = c /\ Exposed(e) /\ e \notin Outstanding
  <1>1. c \in Contracts /\ Lots(Filled)[c] > 0 /\ Filled \in SUBSET Keys
    BY DEF Holdings, Positions, Filled
  <1>2. /\ \E e \in EntryKeys : e \in Filled /\ ContractOf[e] = c
        /\ \A x \in ExitKeys : ContractOf[x] = c => x \notin Filled
    BY <1>1, LotsOfOne
  <1>3. PICK e \in EntryKeys : ContractOf[e] = c /\ order[e] = "filled"
    BY <1>2 DEF Filled
  <1>4. ~Sold(c)
    BY <1>2 DEF Sold, Filled, Keys
  <1>5. Exposed(e)
    BY <1>3, <1>4 DEF Exposed, Loose
  <1>6. e \notin wire
    BY <1>3 DEF XInv, PInv, Hands, Posted, Keys
  <1>7. QED
    BY <1>3, <1>5, <1>6 DEF Outstanding

(* "A sell_to_close never adds exposure" (orders.py:242): without commands  *)
(* beside the controller the sells done, open or under way never exceed the *)
(* lots bought, whatever fills between the reads of a cycle.                *)
THEOREM NothingIsOversold ==
    ASSUME Commands = {}
    PROVE  Spec => []NeverOversold
  <1>1. XInv => NeverOversold
    <2> SUFFICES ASSUME XInv, NEW c \in Contracts
                 PROVE  NeverOversold!(c)
      BY DEF NeverOversold
    <2> DEFINE A == {k \in ExitKeys : ContractOf[k] = c /\ (k \in wire \/ order[k] \in {"open", "filled"})}
               B == {k \in EntryKeys \cap Filled : ContractOf[k] = c}
    <2>1. \A k \in A : k \in ExitKeys /\ Selling(k) /\ ContractOf[k] = c
      BY UnderWay DEF Selling, Ended, Keys
    <2>2. \A j, k \in A : j = k
      BY <2>1 DEF XInv, OneSale
    <2>3. A # {} => B # {}
      BY <2>1 DEF XInv, BoughtFirst, Bought, Filled, Keys
    <2>4. IsFiniteSet(B)
      BY JournalConstants, FS_Subset DEF Keys
    <2> HIDE DEF A, B
    <2>5. Cardinality(A) \in {0, 1} /\ (Cardinality(A) = 1 <=> A # {})
      BY <2>2, AtMostOne
    <2>6. Cardinality(B) \in Nat /\ (Cardinality(B) = 0 <=> B = {})
      BY <2>4, FS_CardinalityType, FS_EmptySet
    <2>7. Cardinality(A) <= Cardinality(B)
      BY <2>3, <2>5, <2>6
    <2>8. QED
      BY <2>7 DEF A, B
  <1>2. QED
    BY <1>1, PositionInvariant, PTL

(* "One-idea-per-held-underlying" (controller.py:208) holds at the broker,  *)
(* though inventory, journal and positions are read at different times.     *)
THEOREM OneNameAtTheBroker ==
    ASSUME Commands = {}
    PROVE  Spec => []OnePerUnderlying
  <1>1. XInv => OnePerUnderlying
    <2> SUFFICES ASSUME XInv, NEW u \in Underlyings
                 PROVE  OnePerUnderlying!(u)
      BY DEF OnePerUnderlying
    <2> DEFINE H == {c \in Holdings : UnderlyingOf[c] = u}
               O == {k \in Outstanding : Underlying(k) = u}
    <2>1. \A k \in O : k \in EntryKeys /\ k \in Outstanding /\ Exposed(k) /\ Underlying(k) = u
      BY OutstandingIsExposed
    <2>2. \A c \in H : \E e \in EntryKeys :
             ContractOf[e] = c /\ Exposed(e) /\ Underlying(e) = u /\ e \notin Outstanding
      BY HoldingIsExposed DEF Underlying
    <2>3. \A j, k \in EntryKeys : Exposed(j) /\ Exposed(k) /\ Underlying(j) = u /\ Underlying(k) = u => j = k
      BY DEF XInv, OneName
    <2> HIDE DEF H, O
    <2>4. (\A x, y \in H : x = y) /\ (\A x, y \in O : x = y) /\ (H = {} \/ O = {})
      BY <2>1, <2>2, <2>3
    <2>5. /\ Cardinality(H) \in {0, 1} /\ Cardinality(O) \in {0, 1}
          /\ (Cardinality(H) = 1 <=> H # {}) /\ (Cardinality(O) = 1 <=> O # {})
      BY <2>4, AtMostOne
    <2>6. Cardinality(H) + Cardinality(O) <= 1
      BY <2>4, <2>5
    <2>7. QED
      BY <2>6 DEF H, O
  <1>2. QED
    BY <1>1, PositionInvariant, PTL

(* "Max 2 positions" (README), for every limit: what is held and what may   *)
(* still be held never exceed it, at every instant.                         *)
THEOREM SlotsAreLimited ==
    ASSUME Commands = {}
    PROVE  Spec => []ExposureLimit
  <1>1. XInv => ExposureLimit
    <2> SUFFICES ASSUME XInv PROVE ExposureLimit
      OBVIOUS
    <2> DEFINE X == {k \in EntryKeys : Exposed(k)}
               D == X \ Outstanding
               f == [c \in Holdings |-> CHOOSE e \in D : ContractOf[e] = c]
    <2>1. Outstanding \subseteq X
      BY OutstandingIsExposed
    <2>2. /\ IsFiniteSet(X) /\ IsFiniteSet(D) /\ IsFiniteSet(Outstanding)
      BY <2>1, JournalConstants, FS_Subset DEF Keys
    <2>3. ASSUME NEW c \in Holdings PROVE f[c] \in D /\ ContractOf[f[c]] = c
      <3>1. \E e \in D : ContractOf[e] = c
        BY HoldingIsExposed
      <3>2. QED
        BY <3>1
    <2>4. Cardinality(Holdings) <= Cardinality(D) /\ IsFiniteSet(Holdings)
      <3>1. f \in Injection(Holdings, D)
        <4>1. f \in [Holdings -> D]
          BY <2>3
        <4>2. \A b, c \in Holdings : f[b] = f[c] => b = c
          BY <2>3
        <4> HIDE DEF f, D
        <4>3. QED
          BY <4>1, <4>2 DEF Injection, IsInjective
      <3> HIDE DEF f, D
      <3>2. QED
        BY <2>2, <3>1, FS_Injection
    <2>5. D \cup Outstanding = X /\ D \cap Outstanding = {}
      BY <2>1
    <2>6. Cardinality(X) <= MaxSlots
      BY DEF XInv, Slots
    <2> HIDE DEF X, D
    <2>7. Cardinality(X) = Cardinality(D) + Cardinality(Outstanding) - 0
      BY <2>2, <2>5, FS_Union, FS_EmptySet
    <2>8. /\ Cardinality(D) \in Nat /\ Cardinality(Outstanding) \in Nat /\ Cardinality(Holdings) \in Nat
          /\ Cardinality(X) \in Nat
      BY <2>2, <2>4, FS_CardinalityType
    <2>9. Cardinality(Holdings) + Cardinality(Outstanding) <= MaxSlots
      BY <2>4, <2>6, <2>7, <2>8, RulesConstants
    <2>10. QED
      BY <2>9 DEF ExposureLimit
  <1>2. QED
    BY <1>1, PositionInvariant, PTL

(* "Spendable cash never exceeds cap minus open basis" (reconcile.py:37),   *)
(* for every cap, every price list, every fee and whatever at or below its   *)
(* limit an order fills: what was paid for the positions, and what is        *)
(* reserved, on its way or open may cost with its fees, never exceed the cap *)
(* together, although the cycle adds up a ledger, a journal and a broker     *)
(* that it read at different times.                                          *)
THEOREM CapitalIsLimited ==
    ASSUME Commands = {}
    PROVE  Spec => []CapitalLimit
  <1>1. XInv => CapitalLimit
    <2> SUFFICES ASSUME XInv PROVE CapitalLimit
      OBVIOUS
    <2> DEFINE A == Guarded
               L == LedgerOnly
               O == Outstanding
               D == {k \in EntryKeys \cap Filled : ContractOf[k] \in Holdings}
               G == D \cap A
    <2>1. ASSUME NEW k \in D PROVE k \in A \cup L
      <3>1. /\ k \in EntryKeys /\ order[k] = "filled"
            /\ \E e \in EntryKeys : ContractOf[e] = ContractOf[k] /\ Exposed(e)
        BY HoldingIsExposed DEF Filled
      <3>2. Exposed(k)
        BY <3>1, ExecutionConstants
      <3>3. QED
        BY <3>1, <3>2 DEF Exposed, Guarded, LedgerOnly
    <2>2. O \subseteq A
      <3> SUFFICES ASSUME NEW k \in O PROVE k \in EntryKeys /\ rows[k].status \in Live
        BY DEF Guarded
      <3>1. k \in EntryKeys /\ k \in Keys /\ KnownProvenance
        BY ProvenanceKnown DEF XInv, Quiet, Outstanding, Keys
      <3>2. QED
        BY <3>1 DEF Outstanding, KnownProvenance, Live
    <2>3. O \cap G = {}
      BY DEF Outstanding, Filled, XInv, PInv, Hands, Posted, Keys
    <2>4. \A k \in G : PaidFor[k] <= MaxLoss(IdeaOf[k])
      BY DEF XInv, Priced, Filled
    <2>5. \A k \in A : MaxLoss(IdeaOf[k]) >= 0
      <3>1. \A j \in EntryKeys : PaidFor[j] \in Int /\ PaidFor[j] >= 0 /\ MaxLoss(IdeaOf[j]) \in Int
        BY CostType, CostFacts
      <3>2. QED
        BY <3>1 DEF XInv, Priced, Guarded, Exposed
    <2>6. TotalCost(A) + TotalPaid(L) <= CapitalCap
      BY DEF XInv, Capital
    <2>7. /\ D \in SUBSET EntryKeys /\ O \in SUBSET EntryKeys /\ A \in SUBSET EntryKeys
          /\ L \in SUBSET EntryKeys /\ G \in SUBSET EntryKeys /\ G \subseteq A
      BY DEF Outstanding, Guarded, LedgerOnly
    <2>8. D \subseteq L \cup G
      BY <2>1
    <2> HIDE DEF A, L, O, D, G
    <2>9. TotalPaid(D) <= TotalPaid(L \cup G) /\ TotalPaid(L \cup G) <= TotalPaid(L) + TotalPaid(G)
      BY <2>7, <2>8, CostBounds
    <2>10. TotalCost(O) + TotalPaid(G) <= TotalCost(O \cup G)
      BY <2>3, <2>4, <2>7, PaidFromReserve
    <2>11. TotalCost(O \cup G) <= TotalCost(A)
      <3>1. O \cup G \subseteq A /\ O \cup G \in SUBSET EntryKeys
        BY <2>2, <2>7
      <3>2. QED
        BY <2>5, <2>7, <3>1, CostBounds
    <2>12. /\ TotalPaid(D) \in Int /\ TotalPaid(L) \in Int /\ TotalPaid(G) \in Int
           /\ TotalPaid(L \cup G) \in Int /\ CapitalCap \in Int
           /\ TotalCost(O) \in Int /\ TotalCost(O \cup G) \in Int /\ TotalCost(A) \in Int
      <3>1. L \cup G \in SUBSET EntryKeys /\ O \cup G \in SUBSET EntryKeys
        BY <2>7
      <3>2. QED
        BY <2>7, <3>1, CostFacts, ExecutionConstants
    <2>13. TotalPaid(D) + TotalCost(O) <= CapitalCap
      BY <2>6, <2>9, <2>10, <2>11, <2>12
    <2>14. QED
      BY <2>13 DEF D, O, CapitalLimit
  <1>2. QED
    BY <1>1, PositionInvariant, PTL
=============================================================================
