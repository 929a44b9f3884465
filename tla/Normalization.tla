---------------------------- MODULE Normalization ----------------------------
(***************************************************************************)
(* executor/normalize.py: account activities into the fill ledger.          *)
(*                                                                          *)
(* A build hands over the activities of one import window.  Windows overlap *)
(* and move forward (ActivityHistory), so the same activity may come again, *)
(* and a process that dies leaves the rest of its window unbooked.  Each    *)
(* activity is a transaction of its own.  The feed is in creation order and *)
(* an activity's id is its place in it; a time of execution may be equal to *)
(* the one before it, or earlier when the broker posts late.                *)
(***************************************************************************)
EXTENDS FillLedger

CONSTANTS
    Feeds,        \* histories the broker may present
    Expiry,       \* contract -> session of its expiration
    Clocks        \* what build_risk_state may read as now

Sides == {"buy_to_open", "sell_to_close"}
ActivityTypes == {"FILL", "OPEXP", "FEE", "other"}      \* other: unsupported
NoTime == -1                                    \* an unreadable transaction_time

Activity ==
    [kind : ActivityTypes, contract : DOMAIN Expiry, side : Sides \cup {"none", "unknown"},
     qty : Nat, price : Int, at : Int, day : Int]

ASSUME FeedsAreFeeds ==
    /\ \A history \in Feeds :
          /\ history \in Seq(Activity)
          /\ \A i \in DOMAIN history : history[i].kind \in {"FILL", "OPEXP"} => history[i].qty > 0
    /\ Clocks \subseteq Int

VARIABLES feed, db, window, todo, halted, blocked, now

bookvars == <<feed, db, window, todo, halted, blocked, now>>

NInit ==
    /\ feed \in Feeds /\ db = EmptyLedger
    /\ window = <<1, 0>> /\ todo = {} /\ halted = FALSE /\ blocked = FALSE
    /\ now \in Clocks

-----------------------------------------------------------------------------
(* Mutant: expirations are set aside with the cash movements.               *)
IsFill(i) == feed[i].kind = "FILL"

IsTrade(i) == feed[i].kind \in {"FILL", "OPEXP"}
Earlier(i, j) == feed[i].at < feed[j].at \/ (feed[i].at = feed[j].at /\ i < j)

(* Trades by time and id, then fees.                                         *)
First(S) ==
    LET trades == {i \in S : IsTrade(i)} IN
    IF trades # {} THEN CHOOSE i \in trades : \A j \in trades \ {i} : Earlier(i, j) ELSE Min(S)

(* One trade that has no time and none is processed.                         *)
Sorted(S) ==
    LET sortable == \A i \in S : IsTrade(i) => feed[i].at # NoTime
    IN  {i \in S : feed[i].kind = "FEE" \/ (IsTrade(i) /\ sortable)}

StartBuild ==
    /\ todo = {}
    /\ \E lo \in window[1]..(window[2] + 1), hi \in window[2]..Len(feed), t \in Clocks :
          /\ lo <= hi
          /\ window' = <<lo, hi>> /\ now' = t
          /\ todo' = Sorted(lo..hi)
          /\ blocked' = \E i \in lo..hi : feed[i].kind = "other" \/ (IsTrade(i) /\ feed[i].at = NoTime)
    /\ halted' = FALSE
    /\ UNCHANGED <<feed, db>>

-----------------------------------------------------------------------------
(* Mutant: the lifecycle is derived from the inventory of today.            *)
LifecycleNow(i) == OpenLifecycle(db, feed[i].contract)

(* A replay keeps the lifecycle it was booked under.                        *)
LifecycleOf(i) ==
    LET previous == Booked(db, i) IN
    IF previous # {} THEN (CHOOSE f \in previous : TRUE).pos
    ELSE OpenLifecycle(db, feed[i].contract)

Execution(i, pos, side) ==
    [id |-> i, pos |-> pos, contract |-> feed[i].contract, side |-> side, qty |-> feed[i].qty,
     premium |-> feed[i].price * feed[i].qty, fees |-> 0, at |-> feed[i].at, day |-> feed[i].day]

(* The first buy of a lifecycle names it.                                   *)
ExecutionOf(i) ==
    LET side == IF feed[i].kind = "OPEXP" THEN "sell_to_close" ELSE feed[i].side
        pos  == LifecycleOf(i)
    IN  Execution(i, IF side = "buy_to_open" /\ pos = Nobody THEN i ELSE pos, side)

(* Expired worthless: the whole holding, on the expiration date, for zero.  *)
ValidExpiry(i) ==
    /\ feed[i].day = Expiry[feed[i].contract] /\ feed[i].price = 0
    /\ LifecycleOf(i) # Nobody
    /\ Booked(db, i) # {} \/ Held(db, feed[i].contract) = feed[i].qty

ValidTrade(i) ==
    /\ feed[i].price >= 0 /\ feed[i].side \in Sides
    /\ feed[i].side = "buy_to_open" => feed[i].price > 0
    /\ feed[i].side = "sell_to_close" => LifecycleOf(i) # Nobody

Valid(i) == IF feed[i].kind = "OPEXP" THEN ValidExpiry(i) ELSE ValidTrade(i)

Pop == todo' = todo \ {First(todo)}

ReplayTrade ==
    /\ todo # {} /\ IsTrade(First(todo)) /\ ~halted
    /\ Valid(First(todo)) /\ now >= feed[First(todo)].at
    /\ Replayed(db, ExecutionOf(First(todo)))
    /\ Pop /\ UNCHANGED <<feed, db, window, halted, blocked, now>>

BookTrade ==
    /\ todo # {} /\ IsTrade(First(todo)) /\ ~halted
    /\ Valid(First(todo))
    /\ Accepts(db, ExecutionOf(First(todo)), now)
    /\ db' = Book(db, ExecutionOf(First(todo)))
    /\ Pop /\ UNCHANGED <<feed, window, halted, blocked, now>>

(* ValueError or LedgerError: the trades after it are not applied.          *)
BlockTrade ==
    /\ todo # {} /\ IsTrade(First(todo))
    /\ \/ halted
       \/ ~Valid(First(todo))
       \/ /\ ~Accepts(db, ExecutionOf(First(todo)), now)
          /\ ~(now >= feed[First(todo)].at /\ Replayed(db, ExecutionOf(First(todo))))
    /\ halted' = TRUE /\ blocked' = TRUE
    /\ Pop /\ UNCHANGED <<feed, db, window, now>>

Fee(i) == [id |-> i, day |-> feed[i].day, amount |-> feed[i].price]

NormalizeFee ==
    /\ todo # {} /\ feed[First(todo)].kind = "FEE"
    /\ LET fee == Fee(First(todo))
           bad == fee.amount <= 0 \/ FeeConflict(db, fee)
       IN  /\ db' = IF bad \/ FeeBooked(db, fee) THEN db ELSE BookFee(db, fee)
           /\ blocked' = (blocked \/ bad)
    /\ Pop /\ UNCHANGED <<feed, window, halted, now>>

(* The process dies between two transactions.                               *)
CrashBuild ==
    /\ todo # {}
    /\ todo' = {} /\ blocked' = TRUE
    /\ UNCHANGED <<feed, db, window, halted, now>>

NNext == StartBuild \/ ReplayTrade \/ BookTrade \/ BlockTrade \/ NormalizeFee \/ CrashBuild

NSpec == NInit /\ [][NNext]_bookvars

-----------------------------------------------------------------------------
(* The trades booked among the first k, and the price paid for the n-th     *)
(* contract bought.                                                         *)
Bought(contract, k) ==
    {i \in 1..k : db.fills[i].contract = contract /\ db.fills[i].side = "buy_to_open"}
Sold(contract, k) ==
    {i \in 1..k : db.fills[i].contract = contract /\ db.fills[i].side = "sell_to_close"}
Traded(S) == SumFunction([i \in S |-> db.fills[i].qty])
CostOfUnit(contract, n) ==
    LET i == Min({j \in DOMAIN db.fills : Traded(Bought(contract, j)) >= n})
    IN  db.fills[i].premium \div db.fills[i].qty

(* "FIFO accounting" (fills.py:1): the n-th contract sold is the n-th one    *)
(* bought, over every lifecycle of it, partial fill, replay and crash.      *)
FifoProfit ==
    \A k \in DOMAIN db.fills :
        LET f == db.fills[k]
            sold == Traded(Sold(f.contract, k - 1))
        IN  f.side = "sell_to_close" =>
              f.pnl = f.premium
                        - SumFunction([n \in (sold + 1)..(sold + f.qty) |-> CostOfUnit(f.contract, n)])

(* Fill, inventory and profit "commit together" (README:252): what was paid  *)
(* is in the lots still held or in the profit that was taken, and the lots   *)
(* hold what was bought and not sold, none of them less than nothing.       *)
BooksBalance ==
    /\ \A i \in DOMAIN db.lots : db.lots[i].qty >= 0 /\ db.lots[i].basis >= 0
    /\ \A c \in DOMAIN Expiry :
          Held(db, c) = Traded(Bought(c, Len(db.fills))) - Traded(Sold(c, Len(db.fills)))
    /\ SumFunction([i \in DOMAIN db.lots |-> db.lots[i].basis]) =
          SumFunction([k \in DOMAIN db.fills |->
              LET f == db.fills[k] IN
              IF f.side = "buy_to_open" THEN f.premium ELSE f.pnl - f.premium])

(* A session is latched when its losing sells and fees have reached the     *)
(* limit, and only then: no win, replay or crash clears or delays it.       *)
LatchIsExact == db.latched = {d \in {feed[i].day : i \in DOMAIN feed} : LossOn(db, d) >= DailyLossLimit}

(* "Overlapping import windows re-present booked activities" (normalize.py:  *)
(* 130): what is booked is never booked again, and does not block the rest   *)
(* -- unless the clock has stepped back behind it.                          *)
ReplayIsNoOp ==
    [][(todo # {} /\ ~halted /\ todo' = todo \ {First(todo)} /\ Booked(db, First(todo)) # {}
            /\ now >= feed[First(todo)].at)
          => db' = db /\ ~halted']_bookvars

(* A build whose normalization is complete -- the only kind reconcile() lets *)
(* through -- has booked every trade and fee of its window, and the window  *)
(* held nothing unsupported.                                                *)
CompleteMeansBooked ==
    todo = {} /\ ~blocked => \A i \in window[1]..window[2] :
        CASE feed[i].kind \in {"FILL", "OPEXP"} -> Booked(db, i) # {}
          [] feed[i].kind = "FEE"               -> \E g \in db.fees : g.id = i
          [] OTHER                              -> FALSE
=============================================================================
