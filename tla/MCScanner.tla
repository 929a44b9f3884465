------------------------------- MODULE MCScanner -------------------------------
(* Two index funds and two stocks on day 0; each has no signal, or one or   *)
(* two of them, on chains with cheap, dear and illiquid contracts.          *)
EXTENDS Scanner

Quote(right, strike, expiry, bid, ask, delta) ==
    [right |-> right, strike |-> strike, expiry |-> expiry, bid |-> bid, ask |-> ask, delta |-> delta, interest |-> 500]

Cheap == {Quote("call", 10000, 35, 58, 60, 40), Quote("call", 10100, 35, 20, 22, 25),
          Quote("call", 10000, 42, 58, 60, 38), Quote("call", 10100, 42, 20, 22, 25),
          Quote("call", 9900, 35, 30, 60, 40),  Quote("call", 10200, 60, 20, 22, 25),
          Quote("put", 10000, 35, 58, 60, 40),  Quote("put", 9900, 35, 20, 22, 25)}
Dear  == {Quote("call", 10000, 35, 97, 100, 40), Quote("call", 10300, 35, 30, 32, 25)}

Flat == [close |-> 100000, prevHigh |-> 99000, prevLow |-> 101000, e20 |-> 100000, e50 |-> 100000,
         average200 |-> 100000, momentum |-> 0, rsi |-> 5000, threeDown |-> FALSE, e50Rises |-> TRUE,
         swingLow |-> 98000, highs |-> {104000}, lows |-> {96000}, rangeHigh |-> 101000, rangeLow |-> 90000,
         sixtyHigh |-> 104000, volume |-> 100, volumeMean |-> 100, atr |-> 1000]
Up        == [Flat EXCEPT !.e20 = 98000, !.e50 = 97000, !.momentum = 80]
Below     == [Up EXCEPT !.prevHigh = 100500, !.highs = {}]          \* its entry is above the close
Dip       == [Up EXCEPT !.average200 = 90000, !.rsi = 1750]
Down      == [Flat EXCEPT !.e20 = 102000, !.e50 = 103000, !.momentum = -80]
Breakout  == [Up EXCEPT !.rangeHigh = 99500, !.rangeLow = 98500, !.sixtyHigh = 99500, !.volume = 200]
Rounded   == [Up EXCEPT !.close = 100005, !.highs = {102010}]       \* as much to win as to lose
Collapsed == [Flat EXCEPT !.close = 300, !.prevLow = 300, !.e20 = 600, !.e50 = 700, !.momentum = -100, !.lows = {}, !.atr = 50]

Snap(chain, bars) ==
    [chain |-> chain, bars |-> bars, preferSpread |-> FALSE, exempt |-> TRUE, earnings |-> Missing, current |-> TRUE]

Stock(snap) == [snap EXCEPT !.exempt = FALSE, !.earnings = 90]
Funds  == {Snap(Cheap, Flat), Snap(Cheap, Up), Snap(Cheap, Dip), Snap(Cheap, Rounded)}
Stocks == {Stock(Snap(Cheap, Flat)), Stock(Snap(Cheap, Down)), Stock(Snap(Dear, Breakout)),
           [Stock(Snap(Cheap, Up)) EXCEPT !.earnings = 35]}

MCSnapshots == [s \in 1..4 |->
    CASE s = 1 -> Funds
      [] s = 2 -> Funds \cup {[Snap(Cheap, Below) EXCEPT !.preferSpread = TRUE]}
      [] s = 3 -> Stocks \cup {Snap(Cheap, Up)}
      [] s = 4 -> Stocks \cup {Stock(Snap(Cheap, Collapsed)), [Stock(Snap(Cheap, Up)) EXCEPT !.current = FALSE]}]
MCEnablings == {{Playbooks[i] : i \in DOMAIN Playbooks}, {"trend_directional", "oversold_bounce"}}
MCOpens     == {{}, {1}, {3}, {2, 3}}
MCUniverses == {1..4}
=============================================================================
