------------------------------- MODULE ExitRules -------------------------------
(***************************************************************************)
(* executor/exits.py: when a held option is closed, and at what price.      *)
(* Pure.  Prices are in cents; what the broker or a provider did not supply *)
(* is Unknown.  A held option h has its basis, its mark and bid, the close and *)
(* the 20 session average of its underlying, its days to expiration and the *)
(* sessions since its entry; an idea has a direction, two levels and a plan *)
(* whose parts are Unknown when it does not state them.                        *)
(***************************************************************************)
EXTENDS Integers, Sequences

CONSTANTS Unknown, DayTradeLimit      \* PDT_DAY_TRADE_LIMIT

ASSUME ExitConstants == DayTradeLimit \in Nat

Hold   == "hold"
Manual == "manual attention"

Fires(rule, h, idea) ==
    CASE rule = "underlying_stop" ->
            h.close # Unknown /\ (IF idea.direction = "long" THEN h.close <= idea.stop ELSE h.close >= idea.stop)
      [] rule = "underlying_rule" ->         \* through the 20 session average
            /\ h.close # Unknown /\ h.average # Unknown /\ idea.averageRule
            /\ IF idea.direction = "long" THEN h.close < h.average ELSE h.close > h.average
      [] rule = "premium_stop" ->            \* the floor is rounded half up to a cent
            /\ h.mark # Unknown /\ idea.premiumStop \in 1..99
            /\ 100 * h.mark <= (h.basis * (100 - idea.premiumStop) + 50) \div 100
      [] rule = "underlying_target" ->
            /\ h.close # Unknown
            /\ IF idea.direction = "long" THEN h.close >= idea.target ELSE h.close <= idea.target
      [] rule = "time_stop" ->
            \/ idea.stopDte # Unknown /\ h.dte <= idea.stopDte
            \/ idea.stopSessions # Unknown /\ h.sessions >= idea.stopSessions

Priority == <<"underlying_stop", "underlying_rule", "premium_stop", "underlying_target", "time_stop">>

(* Mutant: the budget is not asked.                                         *)
SameSessionFree(h, idea, used) == Fires("premium_stop", h, idea)

(* On the session of the entry a sale is a day trade, and only protects.     *)
SameSession(h, idea, used) == Fires("premium_stop", h, idea) /\ used < DayTradeLimit

Reason(h, idea, used) ==
    LET fired == SelectSeq(Priority, LAMBDA rule : Fires(rule, h, idea)) IN
    IF h.sessions = 0 THEN IF SameSession(h, idea, used) THEN "premium_stop" ELSE Hold
    ELSE IF fired # <<>> THEN Head(fired) ELSE Hold

Priced(h) == h.mark # Unknown \/ (h.bid # Unknown /\ h.bid > 0)

Decision(h, idea, used) ==
    IF Reason(h, idea, used) = Hold THEN Hold
    ELSE IF Priced(h) THEN Reason(h, idea, used) ELSE Manual

(* The bid, or 95 % of the mark and at least a cent.                        *)
ExitLimit(h) ==
    IF h.bid # Unknown /\ h.bid > 0 THEN h.bid
    ELSE IF (95 * h.mark) \div 100 > 1 THEN (95 * h.mark) \div 100 ELSE 1
=============================================================================
