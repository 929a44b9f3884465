---------------------------- MODULE RulesEngine ----------------------------
(***************************************************************************)
(* rules.py: the pure entry validator.  `evaluate' walks a list of checks  *)
(* and returns at the first that fails; only "approved or not" has an      *)
(* effect outside the audit log, so the walk is the conjunction of its     *)
(* checks, grouped and named here in the order of the code.  Amounts are   *)
(* integers in cents, days and times are integers.                         *)
(***************************************************************************)
EXTENDS Integers, Sequences, FiniteSets

CONSTANTS
    Hour,          \* the rolling rate window (timedelta(hours=1), rules.py:87)
    MaxAttempts,   \* order attempts per window (5, rules.py:87)
    MaxSlots,      \* open plus pending positions (2, rules.py:85)
    Freshness,     \* age limit of a snapshot (60 s, rules.py:74)
    LossLimit,     \* daily loss that stops entries ($40, rules.py:83)
    RiskLimit      \* maximum loss of one idea ($100, rules.py:156)

ASSUME RulesConstants ==
    /\ {Hour, MaxAttempts, MaxSlots, Freshness, LossLimit, RiskLimit} \subseteq Nat
    /\ Hour > 0

Longs    == {"long_call", "long_put"}
Spreads  == {"call_debit_spread", "put_debit_spread"}
IsCall(idea)  == idea.strategy \in {"long_call", "call_debit_spread"}
IsSpread(idea) == idea.strategy \in Spreads
Gap(a, b) == IF a > b THEN a - b ELSE b - a

-----------------------------------------------------------------------------
(* The snapshot.  order_attempts is a function from attempts to the time of *)
(* each, so that two attempts at one instant stay two.                      *)

FreshState(st, now, day) ==
    /\ st.reconciled
    /\ st.day = day
    /\ st.observed <= now
    /\ now - st.observed <= Freshness

ValidCounters(st, now) ==
    /\ {st.open, st.pending, st.loss, st.cash} \subseteq Nat
    /\ \A a \in DOMAIN st.attempts : st.attempts[a] <= now

Recent(attempts, now) ==
    {a \in DOMAIN attempts : now - Hour < attempts[a] /\ attempts[a] <= now}

Capacity(st, now) ==
    /\ ~st.breaker /\ st.loss < LossLimit
    /\ st.open + st.pending < MaxSlots
    /\ Cardinality(Recent(st.attempts, now)) < MaxAttempts

-----------------------------------------------------------------------------
(* The idea *)

ValidLevels(idea) ==
    /\ {idea.entry, idea.stop, idea.target} \subseteq Nat \ {0}
    /\ \/ idea.direction = "long"  /\ idea.stop < idea.entry /\ idea.entry < idea.target
       \/ idea.direction = "short" /\ idea.target < idea.entry /\ idea.entry < idea.stop
    /\ Gap(idea.target, idea.entry) >= Gap(idea.entry, idea.stop)

ValidLegs(idea, day) ==
    LET legs == idea.legs IN
    /\ idea.direction = (IF IsCall(idea) THEN "long" ELSE "short")
    /\ Len(legs) = IF IsSpread(idea) THEN 2 ELSE 1
    /\ \A i \in 1..Len(legs) :
          /\ legs[i].standard        \* same underlying, 1:1, multiplier 100
          /\ legs[i].right = (IF IsCall(idea) THEN "call" ELSE "put")
          /\ legs[i].strike > 0
          /\ legs[i].expiry > day
          /\ legs[i].side = (IF i = 1 THEN "buy" ELSE "sell")
    /\ IsSpread(idea) =>
          /\ legs[1].expiry = legs[2].expiry
          /\ IF IsCall(idea) THEN legs[1].strike < legs[2].strike
                             ELSE legs[1].strike > legs[2].strike

MaxLoss(idea) == idea.debit * 100 * idea.quantity + idea.fees

ValidCost(idea) ==
    /\ idea.debit > 0 /\ idea.fees >= 0
    /\ IsSpread(idea) => idea.debit < Gap(idea.legs[1].strike, idea.legs[2].strike)
    /\ idea.est = idea.debit * 100 * idea.quantity
    /\ MaxLoss(idea) <= RiskLimit

ValidIdea(idea, day) ==
    /\ idea.action = "open" /\ idea.style = "swing"
    /\ idea.strategy \in Longs \cup Spreads
    /\ idea.quantity = 1
    /\ ValidLevels(idea)
    /\ idea.metadata                 \* score 0..100, a thesis, reward:risk >= 1
    /\ ValidLegs(idea, day)
    /\ ValidCost(idea)

(* evaluate(...)["approved"]; the kill switch comes first (rules.py:67).    *)
Approves(idea, st, now, day, killSwitch) ==
    /\ ~killSwitch
    /\ FreshState(st, now, day)
    /\ ValidCounters(st, now)
    /\ Capacity(st, now)
    /\ ValidIdea(idea, day)
    /\ MaxLoss(idea) <= st.cash
=============================================================================
