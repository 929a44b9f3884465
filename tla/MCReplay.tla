-------------------------------- MODULE MCReplay --------------------------------
(* Six kinds of session: three with signals, at the close or at a level, long *)
(* and short, and three that fill, stop or reach a target.                   *)
EXTENDS Replay
Bar(open, high, low, close, average, trend, bounce) ==
    [open |-> open, high |-> high, low |-> low, close |-> close, average |-> average,
     signal |-> [trend |-> trend, oversold_bounce |-> bounce, breakout |-> Never]]
Lvl(direction, entry, stop, target) == [direction |-> direction, entry |-> entry, stop |-> stop, target |-> target]
MCSessions == {
    Bar(10, 11, 9, 10, 8, Lvl("long", 10, 8, 14), Never),
    Bar(10, 11, 9, 10, 8, Never, Lvl("long", 12, 8, 14)),
    Bar(10, 11, 9, 10, 8, Lvl("short", 8, 13, 5), Lvl("long", 12, 8, 14)),
    Bar(11, 13, 10, 12, 9, Never, Never),
    Bar(12, 15, 11, 13, 9, Never, Never),
    Bar(7, 8, 5, 6, 9, Never, Never)}
MCHold == [trend |-> 2, oversold_bounce |-> 3, breakout |-> 2]
=============================================================================
