----------------------------- MODULE MCTradingDays -----------------------------
(* Two contracts, quotes that fire the premium stop or a rule of the          *)
(* underlying, and one a provider did not price.                              *)
EXTENDS TradingDays

CONSTANTS o1, o2

MCIdea == [direction |-> "long", stop |-> 10, target |-> 30, premiumStop |-> 50,
           averageRule |-> TRUE, stopDte |-> 1, stopSessions |-> Unknown]

Quote(market, mark, bid, close) ==
    [market |-> market, mark |-> mark, bid |-> bid, close |-> close, average |-> 15]

MCQuotes == {Quote(18, 20, 18, 20), Quote(8, 10, 8, 20), Quote(8, 10, Unknown, 20), Quote(18, Unknown, Unknown, 10)}
=============================================================================
