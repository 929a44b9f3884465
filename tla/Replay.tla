-------------------------------- MODULE Replay --------------------------------
(***************************************************************************)
(* backtest/replay.py: what the signals of a history would have come to.    *)
(* The history grows by a session at a time, as it does for whoever runs    *)
(* the replay again a day later.                                            *)
(*                                                                          *)
(* A session has its four prices, the moving average of its close, and the  *)
(* signal of each playbook: a signal is computed from the sessions up to it *)
(* alone, so it is part of the session.  Prices are numbers.                *)
(***************************************************************************)
EXTENDS Integers, Sequences, FiniteSetsExt, SequencesExt

CONSTANTS
    Never,
    Sessions,       \* what a session may be
    HoldLimit,      \* playbook -> sessions a trade is held at most
    MaxFill,        \* MAX_FILL_SESSIONS
    MinBars,        \* the first session that has signals
    MaxHistory      \* bound: sessions

ReplayPlaybooks == <<"trend", "oversold_bounce", "breakout">>

Level == [direction : {"long", "short"}, entry : Int, stop : Int, target : Int]

ASSUME ReplayConstants ==
    /\ Never \notin Int
    /\ {MaxFill, MinBars, MaxHistory} \subseteq Nat \ {0}
    /\ \A i \in DOMAIN ReplayPlaybooks : HoldLimit[ReplayPlaybooks[i]] \in Nat \ {0}
    /\ \A b \in Sessions :
          /\ {b.open, b.high, b.low, b.close, b.average} \subseteq Int
          /\ \A i \in DOMAIN ReplayPlaybooks : b.signal[ReplayPlaybooks[i]] \in Level \cup {Never}
    /\ \A b \in Sessions : b.low <= b.open /\ b.open <= b.high /\ b.low <= b.close /\ b.close <= b.high

VARIABLES
    bars,       \* the history
    outcomes    \* of its replay

rvars == <<bars, outcomes>>

Least(a, b) == IF a <= b THEN a ELSE b
Most(a, b)  == IF a >= b THEN a ELSE b

(* An order at the close of the signal is filled at the next open; another   *)
(* waits for its level, and a gap beyond it fills worse.                    *)
AtOpen(history, i, s) == s.entry = history[i].close

FillDays(history, i, s) ==
    {j \in i + 1 .. Least(i + MaxFill, Len(history)) :
        \/ AtOpen(history, i, s)
        \/ s.direction = "long"  /\ history[j].high >= s.entry
        \/ s.direction = "short" /\ history[j].low <= s.entry}

FillPrice(history, i, s, j) ==
    IF AtOpen(history, i, s) THEN history[j].open
    ELSE IF s.direction = "long" THEN Most(history[j].open, s.entry)
    ELSE Least(history[j].open, s.entry)

(* Mutant: an order that has not filled yet will not.                       *)
FillWindowEnded(history, i) == TRUE

FillWindowOver(history, i) == i + MaxFill <= Len(history)

HoldOver(history, playbook, j) == j - 1 + HoldLimit[playbook] <= Len(history)

(* The stop of a trend is its average of the day; stops are of the close,    *)
(* targets of the day's range, and a stop comes first.                      *)
Stopped(b, playbook, s) ==
    LET level == IF playbook = "trend" THEN b.average ELSE s.stop IN
    IF s.direction = "long" THEN b.close <= level ELSE b.close >= level

Targeted(b, s) == IF s.direction = "long" THEN b.high >= s.target ELSE b.low <= s.target

Gain(s, fill, exit) == IF s.direction = "long" THEN exit - fill ELSE fill - exit

Sign(gain) == IF gain > 0 THEN "win" ELSE IF gain < 0 THEN "loss" ELSE "flat"

(* The R multiple is the gain over the risk.                                *)
Trade(i, playbook, fill, risk, gain, exit, outcome, why) ==
    [playbook |-> playbook, signal |-> i, fill |-> fill, risk |-> risk, gain |-> gain,
     exit |-> exit, outcome |-> outcome, why |-> why]

HoldDays(history, playbook, j) == j .. Least(j - 1 + HoldLimit[playbook], Len(history))

Exits(history, playbook, s, j) ==
    {k \in HoldDays(history, playbook, j) : Stopped(history[k], playbook, s) \/ Targeted(history[k], s)}

(* What becomes of an order that is filled on session j.                    *)
Settle(history, i, playbook, s, j) ==
    LET fill  == FillPrice(history, i, s, j)
        risk  == Gain(s, s.stop, fill)
        exits == Exits(history, playbook, s, j)
        first == Min(exits)
        last  == Max(HoldDays(history, playbook, j))
        Untraded(why) == Trade(i, playbook, j, risk, Never, j, "no_trade", why)
        Closed(day, price, why) ==
            Trade(i, playbook, j, risk, Gain(s, fill, price), day, Sign(Gain(s, fill, price)), why)
    IN
    IF risk <= 0 THEN Untraded("fill_beyond_stop")
    ELSE IF Gain(s, fill, s.target) <= 0 THEN Untraded("fill_beyond_target")
    ELSE IF exits # {} THEN IF Stopped(history[first], playbook, s)
                            THEN Closed(first, history[first].close, "stop")
                            ELSE Closed(first, s.target, "target")
    ELSE IF HoldOver(history, playbook, j) THEN Closed(last, history[last].close, "timeout")
    ELSE Trade(i, playbook, j, risk, Never, Never, "unresolved", Never)

Simulate(history, i, playbook, s) ==
    LET days == FillDays(history, i, s) IN
    IF days # {} THEN Settle(history, i, playbook, s, Min(days))
    ELSE Trade(i, playbook, Never, Never, Never, Never,
               IF FillWindowOver(history, i) THEN "no_fill" ELSE "unresolved", Never)

(* The last session a trade occupies.                                       *)
BusyUntil(history, trade) ==
    CASE trade.exit # Never -> trade.exit
      [] trade.exit = Never /\ trade.outcome = "unresolved" -> Len(history)
      [] OTHER -> trade.signal + MaxFill

(* One trade at a time for each playbook.                                   *)
TradesOf(history) ==
    LET n       == Len(ReplayPlaybooks)
        turn(m) == [session |-> MinBars + (m - 1) \div n, playbook |-> ReplayPlaybooks[1 + ((m - 1) % n)]]
        turns   == [m \in 1..(n * Most(Len(history) - MinBars, 0)) |-> turn(m)]
        step(state, t) ==
            LET s == history[t.session].signal[t.playbook] IN
            IF t.session <= state.busy[t.playbook] \/ s = Never THEN state
            ELSE LET trade == Simulate(history, t.session, t.playbook, s) IN
                 [trades |-> Append(state.trades, trade),
                  busy   |-> [state.busy EXCEPT ![t.playbook] = BusyUntil(history, trade)]]
    IN  FoldLeft(step, [trades |-> <<>>, busy |-> [p \in {ReplayPlaybooks[i] : i \in 1..n} |-> 0]], turns).trades

ReplayInit == bars = <<>> /\ outcomes = <<>>

NextSession(b) ==
    /\ Len(bars) < MaxHistory
    /\ bars' = Append(bars, b)
    /\ outcomes' = TradesOf(bars')

ReplayNext == \E b \in Sessions : NextSession(b)

ReplaySpec == ReplayInit /\ [][ReplayNext]_rvars

-----------------------------------------------------------------------------
(* Properties *)

(* "No look-ahead" (replay.py:4): a later session adds trades and settles    *)
(* those that were unresolved, but it changes no trade that was settled, no  *)
(* fill, and none of the signals that were taken.                           *)
NoLookAhead ==
    [][/\ Len(outcomes') >= Len(outcomes)
       /\ \A n \in DOMAIN outcomes :
            LET was == outcomes[n]  now == outcomes'[n] IN
            IF was.outcome # "unresolved" THEN now = was
            ELSE /\ now.signal = was.signal /\ now.playbook = was.playbook
                 /\ was.fill # Never => now.fill = was.fill /\ now.risk = was.risk]_rvars
=============================================================================
