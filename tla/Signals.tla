-------------------------------- MODULE Signals --------------------------------
(***************************************************************************)
(* scanner/signals.py: the entry, stop and target a session gives each       *)
(* playbook, or nothing.  Pure.                                             *)
(*                                                                          *)
(* A session has its close, the range of the one before it, and its         *)
(* indicators (indicators.py).  Prices are in tenths of a cent, finer than   *)
(* what an idea may say; momentum is in thousandths, RSI and strengths in    *)
(* hundredths, rounded down where the source has a float.                   *)
(***************************************************************************)
EXTENDS RulesEngine

CONSTANT Missing

Session ==
    [close : Int, prevHigh : Int, prevLow : Int, e20 : Int, e50 : Int, average200 : Int,
     momentum : Int, rsi : Nat, threeDown : BOOLEAN, e50Rises : BOOLEAN, swingLow : Int,
     highs : SUBSET Int, lows : SUBSET Int, rangeHigh : Int, rangeLow : Int, sixtyHigh : Int,
     volume : Int, volumeMean : Int, atr : Int]

Nearest(levels, entry, direction) ==
    LET beyond == {l \in levels : IF direction = "long" THEN l > entry ELSE l < entry} IN
    IF beyond = {} THEN Missing
    ELSE CHOOSE l \in beyond : \A m \in beyond : Gap(l, entry) <= Gap(m, entry)

(* The risk is at least half the ATR, the reward at least the risk.         *)
Worthwhile(b, s) ==
    LET long   == s.direction = "long"
        risk   == IF long THEN s.entry - s.stop ELSE s.stop - s.entry
        reward == IF long THEN s.target - s.entry ELSE s.entry - s.target
    IN  /\ risk > 0
        /\ 2 * risk >= b.atr
        /\ reward >= risk

Accepted(b, s) == IF Worthwhile(b, s) THEN s ELSE Missing

Upto(n, limit) == IF n < limit THEN n ELSE limit

(* The averages are stacked and the momentum agrees.                        *)
Trending(b) ==
    CASE b.close > b.e20 /\ b.e20 > b.e50 /\ b.momentum > 0 -> "long"
      [] b.close < b.e20 /\ b.e20 < b.e50 /\ b.momentum < 0 -> "short"
      [] OTHER -> Missing

(* Within a hundredth of the average.                                       *)
Pullback(b) ==
    IF Trending(b) = "long" THEN 100 * b.close <= 101 * b.e20 ELSE 100 * b.close >= 99 * b.e20

(* More than 1.5 % beyond the range of the day before.                      *)
Chased(b) ==
    IF Trending(b) = "long" THEN 1000 * b.close > 1015 * b.prevHigh ELSE 1000 * b.close < 985 * b.prevLow

(* Without a level in its way the target is projected: half as much again as *)
(* the risk.                                                                *)
TrendSignal(b) ==
    LET long   == Trending(b) = "long"
        prior  == IF long THEN b.prevHigh ELSE b.prevLow
        beyond == IF long THEN b.close >= prior ELSE b.close <= prior
        entry  == IF Pullback(b) \/ beyond THEN b.close ELSE prior
        level  == Nearest(IF long THEN b.highs ELSE b.lows, entry, Trending(b))
        reward == (3 * Gap(entry, b.e20)) \div 2
        target == CASE level # Missing         -> level
                    [] level = Missing /\ long -> entry + reward
                    [] OTHER                   -> entry - reward
    IN  IF Trending(b) = Missing \/ (~Pullback(b) /\ Chased(b)) THEN Missing
        ELSE Accepted(b, [direction |-> Trending(b), entry |-> entry, stop |-> b.e20, target |-> target,
                          strength |-> Upto(Gap(b.momentum, 0), 100)])

(* A dip within a long uptrend: a low RSI, or three lower closes while the   *)
(* 50 day average rises.  The stop is the low of the last ten sessions.      *)
BounceSignal(b) ==
    LET levels == {l \in {b.e20} : l > b.close} \cup {l \in {Nearest(b.highs, b.close, "long")} : l # Missing}
        low    == b.rsi < 3500
        s      == [direction |-> "long", entry |-> b.close, stop |-> b.swingLow,
                   target |-> CHOOSE l \in levels : \A m \in levels : l <= m,
                   strength |-> IF low THEN (100 * (3500 - b.rsi)) \div 3500 ELSE 50]
    IN  IF b.close <= b.average200 \/ ~(low \/ (b.threeDown /\ b.e50Rises)) \/ levels = {} THEN Missing
        ELSE Accepted(b, s)

(* A close above a tight range near the highs, on volume, not yet extended;  *)
(* the target is as far above the range as the range is wide.               *)
BreakoutSignal(b) ==
    IF /\ 20 * (b.rangeHigh - b.rangeLow) < b.rangeLow
       /\ 100 * b.rangeHigh >= 97 * b.sixtyHigh
       /\ b.close > b.rangeHigh /\ 1000 * b.close <= 1015 * b.rangeHigh
       /\ b.volumeMean > 0 /\ 2 * b.volume > 3 * b.volumeMean
    THEN Accepted(b, [direction |-> "long", entry |-> b.close, stop |-> b.rangeHigh,
                      target |-> 2 * b.rangeHigh - b.rangeLow,
                      strength |-> Upto((100 * b.volume) \div (3 * b.volumeMean), 100)])
    ELSE Missing

(* scan.build_manual_idea: the owner's draft has no signal; its levels are an *)
(* ATR and an ATR and a half from the close.                                *)
ManualSignal(b, right) ==
    LET up == IF right = "call" THEN 1 ELSE -1 IN
    IF b.atr <= 0 THEN Missing
    ELSE [direction |-> IF right = "call" THEN "long" ELSE "short", entry |-> b.close,
          stop |-> b.close - up * b.atr, target |-> b.close + up * ((3 * b.atr) \div 2), strength |-> 50]
=============================================================================
