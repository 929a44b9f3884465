-------------------------- MODULE MCPaperExecution --------------------------
(* Small instances of PaperExecution: an entry and the exit of the day for  *)
(* each of up to three contracts, and a flatten key for the first.          *)
EXTENDS PaperExecution, TLC

CONSTANTS e1, e2, e3, x1, x2, x3, y1, f1, c1, c2, c3, uA, uB, uC

EntryOn == e1 :> c1 @@ e2 :> c2 @@ e3 :> c3
ExitOn  == x1 :> c1 @@ x2 :> c2 @@ x3 :> c3 @@ f1 :> c1 @@ y1 :> c1

MCContractOf == [k \in Keys |-> (EntryOn @@ ExitOn)[k]]
MCExitQty    == [k \in ExitKeys |-> 1]
MCCycleExit  ==       \* x1, x2, x3 on the first day, y1 on the second
    LET exits == ExitKeys \ {f1}
        on(x) == <<ExitOn[x], IF x = y1 THEN 2 ELSE 1>>
    IN  [d \in {on(x) : x \in exits} |-> CHOOSE x \in exits : on(x) = d]

OwnNames     == [c \in Contracts |-> (c1 :> uA @@ c2 :> uB @@ c3 :> uC)[c]]
SharedNames  == [c \in Contracts |-> (c1 :> uA @@ c2 :> uA @@ c3 :> uB)[c]]

Call(debit) ==
    [action |-> "open", style |-> "swing", strategy |-> "long_call", quantity |-> 1,
     direction |-> "long", entry |-> 3, stop |-> 2, target |-> 4, metadata |-> TRUE,
     legs |-> <<[right |-> "call", strike |-> 100, expiry |-> 9, side |-> "buy", standard |-> TRUE]>>,
     debit |-> debit, fees |-> 0, est |-> debit * 100]

SameIdeas  == [k \in EntryKeys |-> Call(50)]

(* With a dollar of fees each, and fills at their limit or below it.        *)
WithFees(idea) == [idea EXCEPT !.fees = 100]
OtherIdeas == [k \in EntryKeys |-> WithFees((e1 :> Call(50) @@ e2 :> Call(20) @@ e3 :> Call(40))[k])]

AtLimit    == [k \in EntryKeys |-> 5000]
BelowLimit == [k \in EntryKeys |-> (e1 :> 4400 @@ e2 :> 2000 @@ e3 :> 3900)[k]]

(* Contracts on names of their own are told apart by nothing else: every    *)
(* permutation of them, with their keys and names, is a symmetry.           *)
Together(p) ==
    [v \in {e1, e2, e3, x1, x2, x3, c1, c2, c3, uA, uB, uC} |->
        LET family == CHOOSE f \in {<<e1, e2, e3>>, <<x1, x2, x3>>, <<c1, c2, c3>>, <<uA, uB, uC>>} :
                          \E i \in 1..3 : f[i] = v
        IN  family[p[CHOOSE i \in 1..3 : family[i] = v]]]
MCSymmetry == {Together(p) : p \in Permutations(1..3)}

(* Three entries on the first day, and two of them go on into a second.     *)
TwoGoOn == today = 1 \/ rows[e2] = Absent

Days1  == {1}
Days2  == {1, 2}
Early  == {0}
Lapsing == {0, 1}
None   == {}
Armed  == {"ARMED_PAPER"}
OnOff  == {"ARMED_PAPER", "DISABLED"}
=============================================================================
