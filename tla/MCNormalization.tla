--------------------------- MODULE MCNormalization ---------------------------
(* Histories of four activities on one contract: buys and sells of one or    *)
(* two lots at two prices, an expiration, a fee and what is unsupported.     *)
EXTENDS Normalization

CONSTANTS z1

MCExpiry == [c \in {z1} |-> 2]
Act(kind, side, qty, price) ==
    [kind |-> kind, contract |-> z1, side |-> side, qty |-> qty, price |-> price]

Buys       == {Act("FILL", "buy_to_open", 1, p) : p \in {10, 30}} \cup {Act("FILL", "buy_to_open", 2, 10)}
Sells      == {Act("FILL", "sell_to_close", q, 15) : q \in 1..2}
Expiration == Act("OPEXP", "none", 1, 0)
Others     == {Expiration, Act("FILL", "unknown", 1, 10), Act("FEE", "none", 0, 5),
               Act("other", "none", 0, 0)}

(* The session is the date of the time of execution: two ticks each.        *)
Timed(history, times) ==
    [i \in DOMAIN history |->
        [kind |-> history[i].kind, contract |-> history[i].contract, side |-> history[i].side,
         qty |-> history[i].qty, price |-> history[i].price, at |-> times[i],
         day |-> IF times[i] <= 2 THEN 1 ELSE 2]]

(* Activity i is executed at tick i; or, a few, at the tick of the activity  *)
(* before it, or before that one, or at a time that cannot be read.          *)
MCFeeds ==
    {Timed(<<b, x, y, z>>, <<1, 2, 3, 4>>) :
        b \in Buys, x \in Buys \cup Sells, y \in Sells \cup Others, z \in Buys \cup Sells \cup Others}
    \cup {Timed(<<b, x, y, z>>, times) :
        b \in Buys, x \in Buys \cup Sells, y \in Buys \cup Sells \cup {Expiration}, z \in Sells,
        times \in {<<1, 1, 2, 3>>, <<1, 3, 4, 2>>, <<1, 2, NoTime, 4>>}}
MCClocks == {2, 9}
=============================================================================
