------------------------------ MODULE TradingDays ------------------------------
(***************************************************************************)
(* The exits of controller.run_cycle over the sessions: the decision of     *)
(* exits.py, the key journal.prepare_exit burns for a contract and a day,   *)
(* and the day-trade budget, FillLedger.day_trades_since, read once at the  *)
(* start of the exits of a cycle.                                           *)
(*                                                                          *)
(* A contract has at most one position at a time, may be bought again once  *)
(* its sale is booked, and is sold whole.  An exit is a DAY order.  Fills   *)
(* reach the account activities with a delay; a cycle that reads positions  *)
(* the ledger does not explain stops before the exits, and so does every    *)
(* cycle from a claimed exit the broker has no record of until the owner     *)
(* releases it.  Sessions have no numbers: what is counted is their age, so  *)
(* days go on for ever.                                                     *)
(***************************************************************************)
EXTENDS ExitRules, FiniteSets, FiniteSetsExt, Functions

CONSTANTS
    Options,
    Idea,          \* the entry idea of every position
    Quotes,        \* the market's bid, and what the providers say: mark, bid, close, average
    CostBasis,     \* of a position
    Life,          \* days to its expiration when bought
    PdtWindow,     \* PDT_WINDOW_SESSIONS
    MaxSessions    \* bound: sessions after which the age is not counted

ASSUME TradingConstants ==
    /\ IsFiniteSet(Options) /\ Options # {}
    /\ PdtWindow \in Nat \ {0}
    /\ MaxSessions \in Nat
    /\ Idea.stopSessions # Unknown => Idea.stopSessions <= MaxSessions

VARIABLES
    held,       \* contract -> "none", "held" or "sold"
    exit,       \* contract -> limit of its exit order, 0 without one
    sessions,   \* contract -> sessions since the entry
    quote,      \* contract -> what the providers say of it
    unposted,   \* contracts with a fill the activities do not list yet
    lost,       \* contracts with a claimed exit that never reached the broker
    tried,      \* contracts whose exit key of today is in the journal
    trips,      \* age -> round trips made within that session
    budget,     \* day_trades_used of the cycle
    todo        \* rows of the inventory the cycle has not evaluated

tvars == <<held, exit, sessions, quote, unposted, lost, tried, trips, budget, todo>>

DayTrades == FoldFunctionOnSet(+, 0, trips, 0..(PdtWindow - 1))
Calm      == CHOOSE q \in Quotes : \A r \in Quotes : r.mark # Unknown => q.mark # Unknown /\ r.mark <= q.mark

TInit ==
    /\ held = [c \in Options |-> "none"]
    /\ exit = [c \in Options |-> 0]
    /\ sessions = [c \in Options |-> 0]
    /\ quote = [c \in Options |-> Calm]
    /\ unposted = {} /\ lost = {} /\ tried = {}
    /\ trips = [age \in 0..(PdtWindow - 1) |-> 0]
    /\ budget = 0 /\ todo = {}

HeldOption(c) ==
    [basis |-> CostBasis, mark |-> quote[c].mark, bid |-> quote[c].bid, close |-> quote[c].close,
     average |-> quote[c].average, dte |-> Life - sessions[c], sessions |-> sessions[c]]

Decides(c, used) == Decision(HeldOption(c), Idea, used) \notin {Hold, Manual}

-----------------------------------------------------------------------------
(* The broker and the markets *)

(* An entry of the first three steps of the cycle fills.                    *)
Bought(c) ==
    /\ held[c] = "none"
    /\ held' = [held EXCEPT ![c] = "held"]
    /\ sessions' = [sessions EXCEPT ![c] = 0]
    /\ unposted' = unposted \cup {c}
    /\ UNCHANGED <<exit, quote, lost, tried, trips, budget, todo>>

(* A sell limit fills when it is at most the best bid.                      *)
Sold(c) ==
    /\ exit[c] > 0 /\ exit[c] <= quote[c].market
    /\ exit' = [exit EXCEPT ![c] = 0]
    /\ held' = [held EXCEPT ![c] = "sold"]
    /\ unposted' = unposted \cup {c}
    /\ trips' = IF sessions[c] = 0 THEN [trips EXCEPT ![0] = @ + 1] ELSE trips
    /\ UNCHANGED <<sessions, quote, lost, tried, budget, todo>>

Posted(c) ==
    /\ c \in unposted
    /\ unposted' = unposted \ {c}
    /\ UNCHANGED <<held, exit, sessions, quote, lost, tried, trips, budget, todo>>

Quoted(c, q) ==
    /\ held[c] = "held" /\ todo = {}
    /\ quote[c] # q
    /\ quote' = [quote EXCEPT ![c] = q]
    /\ UNCHANGED <<held, exit, sessions, unposted, lost, tried, trips, budget, todo>>

-----------------------------------------------------------------------------
(* The cycle *)

(* Reconciled: what was sold is out of the inventory, every round trip is    *)
(* booked, and the broker knows every claimed order.                        *)
BeginExits ==
    /\ todo = {} /\ unposted = {} /\ lost = {}
    /\ held' = [c \in Options |-> IF held[c] = "sold" THEN "none" ELSE held[c]]
    /\ sessions' = [c \in Options |-> IF held[c] = "sold" THEN 0 ELSE sessions[c]]
    /\ quote' = [c \in Options |-> IF held[c] = "sold" THEN Calm ELSE quote[c]]
    /\ todo' = {c \in Options : held[c] = "held"}
    /\ budget' = DayTrades
    /\ UNCHANGED <<exit, unposted, lost, tried, trips>>

(* prepare_exit takes one decision of a contract a day, and one exit of a   *)
(* contract at a time.                                                      *)
Prepares(c) == Decides(c, budget) /\ c \notin tried /\ held[c] = "held" /\ exit[c] = 0

NoExit(c) ==
    /\ c \in todo /\ ~Prepares(c)
    /\ todo' = todo \ {c}
    /\ tried' = IF Decides(c, budget) THEN tried \cup {c} ELSE tried
    /\ UNCHANGED <<held, exit, sessions, quote, unposted, lost, trips, budget>>

(* The broker accepts the order, refuses it, or never sees it: the key is    *)
(* burned either way, and the cycle goes on with the next row.              *)
ExitSent(c, limit) ==
    /\ c \in todo /\ Prepares(c)
    /\ todo' = todo \ {c}
    /\ tried' = tried \cup {c}
    /\ exit' = [exit EXCEPT ![c] = limit]
    /\ UNCHANGED <<held, sessions, quote, unposted, trips, budget>>

ExitPlaced(c)  == ExitSent(c, ExitLimit(HeldOption(c))) /\ UNCHANGED lost
ExitRefused(c) == ExitSent(c, 0) /\ UNCHANGED lost

(* A time-out on the way: the exit stays claimed, and the next               *)
(* reconciliation finds CLAIMED_INTENT_WITHOUT_BROKER_RECORD.               *)
ExitLost(c) == ExitSent(c, 0) /\ lost' = lost \cup {c}

(* The owner looks at the incident and releases the intent.                 *)
ReleaseIntent(c) ==
    /\ c \in lost
    /\ lost' = lost \ {c}
    /\ UNCHANGED <<held, exit, sessions, quote, unposted, tried, trips, budget, todo>>

KeysOfAlways == tried        \* Mutant: the key of an exit is its contract
KeysOfToday  == {}

(* The next session: open orders have expired.                              *)
NewSession ==
    /\ todo = {}
    /\ exit' = [c \in Options |-> 0]
    /\ sessions' = [c \in Options |->
                       IF held[c] = "held" /\ sessions[c] < MaxSessions
                       THEN sessions[c] + 1 ELSE sessions[c]]
    /\ tried' = KeysOfToday
    /\ trips' = [age \in 0..(PdtWindow - 1) |-> IF age = 0 THEN 0 ELSE trips[age - 1]]
    /\ budget' = 0
    /\ UNCHANGED <<held, quote, unposted, lost, todo>>

TNext ==
    \/ BeginExits \/ NewSession
    \/ \E c \in Options :
          \/ Bought(c) \/ Sold(c) \/ Posted(c)
          \/ NoExit(c) \/ ExitPlaced(c) \/ ExitRefused(c) \/ ExitLost(c)
          \/ ReleaseIntent(c)
          \/ \E q \in Quotes : Quoted(c, q)

(* Cycles and sessions go on, fills are posted, and an order that is sent    *)
(* again and again is once accepted and, if its limit allows, once filled.  *)
(* Nothing makes the owner release an intent.                               *)
TFairness ==
    /\ SF_tvars(BeginExits) /\ SF_tvars(NewSession)
    /\ \A c \in Options :
          /\ WF_tvars(Posted(c)) /\ WF_tvars(NoExit(c))
          /\ WF_tvars(ExitPlaced(c) \/ ExitRefused(c) \/ ExitLost(c))
          /\ SF_tvars(ExitPlaced(c)) /\ SF_tvars(Sold(c))

TSpec == TInit /\ [][TNext]_tvars /\ TFairness

-----------------------------------------------------------------------------
(* Properties *)

(* exits.py:27-29, README:418-420: the rule refuses the fourth day trade of *)
(* five sessions.                                                           *)
WithinBudget == DayTrades <= DayTradeLimit

(* The budget is read once a cycle and knows only what is booked, so the    *)
(* contracts held may each add one to what is left of it, and no more.      *)
OverrunBounded == DayTrades <= DayTradeLimit + Cardinality(Options) - 1

(* A position whose exit rules go on firing while its bid is known is sold,  *)
(* whatever becomes of the first orders - refused, expired, or lost on the   *)
(* way - if the owner releases what was lost: the key of an exit is burned   *)
(* for a day, the budget defers the sale, the order expires with the session *)
(* and a lost one stops every cycle (reconcile.py:182-186,                  *)
(* controller.py:146-149).                                                  *)
StoppedPositionsLeave ==
    \A c \in Options, q \in {q \in Quotes : q.bid # Unknown} :
        <>[](quote[c] = q) /\ []<>(lost = {}) => []<>~(held[c] = "held" /\ Decides(c, 0))
=============================================================================
