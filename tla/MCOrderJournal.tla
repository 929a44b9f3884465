--------------------------- MODULE MCOrderJournal ---------------------------
(* A small instance of OrderJournal: two entries on one underlying and two  *)
(* exits, all of one contract, so that the entries are interchangeable and  *)
(* so are the exits.                                                        *)
EXTENDS OrderJournal, TLC

CONSTANTS e1, e2, x1, x2, c1, uA

MCEntryKeys    == {e1, e2}
MCExitKeys     == {x1, x2}
MCContracts    == {c1}
MCUnderlyings  == {uA}
MCUnderlyingOf == c1 :> uA
MCContractOf   == [k \in Keys |-> c1]
MCExitQty      == [k \in ExitKeys |-> 1]
MCSymmetry     == Permutations(MCEntryKeys) \cup Permutations(MCExitKeys)

Call(debit) ==
    [action |-> "open", style |-> "swing", strategy |-> "long_call", quantity |-> 1,
     direction |-> "long", entry |-> 3, stop |-> 2, target |-> 4, metadata |-> TRUE,
     legs |-> <<[right |-> "call", strike |-> 100, expiry |-> 9, side |-> "buy", standard |-> TRUE]>>,
     debit |-> debit, fees |-> 0, est |-> debit * 100]

MCIdeaOf == [k \in EntryKeys |-> Call(50)]

Baseline(cash, reconciled) ==
    [reconciled |-> reconciled, day |-> 1, observed |-> 0, breaker |-> FALSE, loss |-> 0,
     open |-> 0, pending |-> 0, cash |-> cash]

MCBaselines == {Baseline(20000, TRUE)}
MCTimes == 0..2
MCDays  == {1, 2}
=============================================================================
