----------------------------- MODULE FillLedger -----------------------------
(***************************************************************************)
(* executor/fills.py: FIFO accounting of long-option executions.  Each      *)
(* method is one SQLite transaction, given here as an operator from the     *)
(* tables before it to the tables after it; a rejected call (LedgerError)   *)
(* rolls back.  Amounts are integers (the code's microdollars); the audit   *)
(* events, which nothing reads back, are left out.                          *)
(*                                                                          *)
(* An execution is [id, pos, contract, side, qty, premium, fees, at, day],  *)
(* its position id `pos' naming one lifecycle of the contract.              *)
(***************************************************************************)
EXTENDS Integers, Sequences, FiniteSets, SequencesExt, FiniteSetsExt

CONSTANT DailyLossLimit       \* of a session: 40 dollars (fills.py:115)

ASSUME LedgerConstants == DailyLossLimit \in Nat \ {0}

Nobody      == 0         \* no lifecycle; position ids start at 1
EmptyLedger == [fills |-> <<>>, lots |-> <<>>, fees |-> {}, latched |-> {}]

-----------------------------------------------------------------------------
(* What the tables say *)

Booked(db, id)   == {f \in Range(db.fills) : f.id = id}        \* recorded_execution
OpenLots(db)     == {i \in DOMAIN db.lots : db.lots[i].qty > 0}
LotsOf(db, pos)  == {i \in OpenLots(db) : db.lots[i].pos = pos}
Quantity(db, L)  == SumFunction([i \in L |-> db.lots[i].qty])
Available(db, p) == Quantity(db, LotsOf(db, p))

(* The rows of a lifecycle, in the order of their sequence numbers.          *)
FillsOf(db, pos)     == {k \in DOMAIN db.fills : db.fills[k].pos = pos}
ContractOfLot(db, i) == db.fills[Min(FillsOf(db, db.lots[i].pos))].contract

(* inventory() restricted to a contract: the open lots of its lifecycles.   *)
Inventory(db, contract) == {i \in OpenLots(db) : ContractOfLot(db, i) = contract}
Held(db, contract)      == Quantity(db, Inventory(db, contract))

(* open_lifecycle: the one with the oldest lot.                             *)
OpenLifecycle(db, contract) ==
    IF Inventory(db, contract) = {} THEN Nobody
    ELSE db.lots[Min(Inventory(db, contract))].pos

-----------------------------------------------------------------------------
(* _totals and the latch *)

FeesOn(db, day) ==
    SumFunction([g \in {g \in db.fees : g.day = day} |-> g.amount])

(* The loss counter: no win offsets a loss.                                 *)
Loss(f)         == IF f.pnl < 0 THEN -f.pnl ELSE 0
LossOn(db, day) ==
    SumFunction([k \in {k \in DOMAIN db.fills : db.fills[k].day = day} |-> Loss(db.fills[k])])
      + FeesOn(db, day)

(* Mutant: the limit itself is not yet too much.                            *)
LatchBeyond(db, day) ==
    IF LossOn(db, day) > DailyLossLimit THEN [db EXCEPT !.latched = @ \cup {day}] ELSE db

LatchIfNeeded(db, day) ==
    IF LossOn(db, day) >= DailyLossLimit THEN [db EXCEPT !.latched = @ \cup {day}] ELSE db

-----------------------------------------------------------------------------
(* record_fee *)

FeeBooked(db, fee)   == fee \in db.fees
FeeConflict(db, fee) == \E g \in db.fees : g.id = fee.id /\ g # fee

BookFee(db, fee) == LatchIfNeeded([db EXCEPT !.fees = @ \cup {fee}], fee.day)

-----------------------------------------------------------------------------
(* record *)

WithPnl(e, pnl) ==
    [id |-> e.id, pos |-> e.pos, contract |-> e.contract, side |-> e.side, qty |-> e.qty,
     premium |-> e.premium, fees |-> e.fees, at |-> e.at, day |-> e.day, pnl |-> pnl]

(* "Identical replays are no-ops": the same payload under the same id.      *)
Replayed(db, e) == \E f \in Booked(db, e.id) : f = WithPnl(e, f.pnl)

Follows(e, last) == e.contract = last.contract /\ e.at >= last.at /\ e.day >= last.day

Accepts(db, e, now) ==
    /\ now >= e.at
    /\ Booked(db, e.id) = {}
    /\ FillsOf(db, e.pos) # {} =>
          /\ Follows(e, db.fills[Max(FillsOf(db, e.pos))])
          /\ Available(db, e.pos) > 0
    /\ e.side = "sell_to_close" => Available(db, e.pos) >= e.qty

(* Take contracts from one lot; its basis is allocated rounding upward.     *)
TakeFrom(i, acc) ==
    LET lot       == acc.lots[i]
        take      == IF acc.left < lot.qty THEN acc.left ELSE lot.qty
        allocated == (lot.basis * take + lot.qty - 1) \div lot.qty
    IN  [left  |-> acc.left - take,
         basis |-> acc.basis + allocated,
         lots  |-> [acc.lots EXCEPT ![i] = [pos |-> lot.pos, qty |-> lot.qty - take,
                                            basis |-> lot.basis - allocated]]]

(* Mutant: the newest lots first.                                           *)
ConsumeNewest(db, pos, qty) ==
    MapThenFoldSet(TakeFrom, [left |-> qty, basis |-> 0, lots |-> db.lots],
                   LAMBDA i : i, Min, LotsOf(db, pos))

(* The oldest lots of the lifecycle first, until the quantity is taken: the  *)
(* newest one gives what the others could not.                              *)
Consume(db, pos, qty) ==
    MapThenFoldSet(TakeFrom, [left |-> qty, basis |-> 0, lots |-> db.lots],
                   LAMBDA i : i, Max, LotsOf(db, pos))

BookBuy(db, e) ==
    LatchIfNeeded([db EXCEPT
        !.lots  = Append(@, [pos |-> e.pos, qty |-> e.qty, basis |-> e.premium + e.fees]),
        !.fills = Append(@, WithPnl(e, 0))], e.day)

(* Mutant: the profit is booked and the inventory is not.                   *)
BookSellAlone(db, e) ==
    LET taken == Consume(db, e.pos, e.qty) IN
    LatchIfNeeded([db EXCEPT
        !.fills = Append(@, WithPnl(e, e.premium - e.fees - taken.basis))], e.day)

BookSell(db, e) ==
    LET taken == Consume(db, e.pos, e.qty) IN
    LatchIfNeeded([db EXCEPT
        !.lots  = taken.lots,
        !.fills = Append(@, WithPnl(e, e.premium - e.fees - taken.basis))], e.day)

Book(db, e) == IF e.side = "buy_to_open" THEN BookBuy(db, e) ELSE BookSell(db, e)
=============================================================================
