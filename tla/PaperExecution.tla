--------------------------- MODULE PaperExecution ---------------------------
(***************************************************************************)
(* The executor at work: the controller's cycle (controller.run_cycle with  *)
(* --submit), the reads and checks of executor/reconcile.py, the single     *)
(* submission of executor/submit.py, the operator's commands of             *)
(* executor/__main__.py and the order journal, against a broker that goes   *)
(* on working between any two of their calls.                               *)
(*                                                                          *)
(* A network read is one action: the broker accepts, fills and cancels      *)
(* orders and posts activities in between.  A POST is two: what leaves the  *)
(* process (`wire') reaches the broker later, after the caller's time-out   *)
(* or never.  A crash stops a process at any step and rolls back the open   *)
(* transaction.  The commands run beside the controller, because they do    *)
(* not take its lock.                                                       *)
(*                                                                          *)
(* An order has the name of its intent: the client order id is "paper-" and *)
(* the authorization id.  Entries are of one lot (rules.py:100); a contract *)
(* is entered at most once here, so exits are of one lot too.               *)
(***************************************************************************)
EXTENDS OrderJournal

CONSTANTS
    CycleExit,     \* <<contract, day>> -> exit key, where an exit rule may fire (controller.py:186)
    FlattenKeys,   \* keys of the operator's flatten command
    Commands,      \* commands the operator uses, of {"release", "flatten"}
    Switch,        \* what the owner writes to the control file
    PaidFor,       \* entry key -> what its order costs if it fills, in cents
    CapitalCap     \* ReconcileConfig.capital_cap, in cents

ASSUME ExecutionConstants ==
    /\ DOMAIN CycleExit \subseteq Contracts \X Days
    /\ FlattenKeys \subseteq ExitKeys
    /\ \A d \in DOMAIN CycleExit : CycleExit[d] \in ExitKeys \ FlattenKeys /\ ContractOf[CycleExit[d]] = d[1]
    /\ \A j, k \in EntryKeys : ContractOf[j] = ContractOf[k] => j = k
    /\ \A k \in ExitKeys : ExitQty[k] = 1
    /\ Commands \subseteq {"release", "flatten"}
    /\ Switch \subseteq Modes /\ Switch # {}
    /\ CapitalCap \in Nat

(* A limit order fills at its limit or better.                               *)
ASSUME FillPrices ==
    /\ PaidFor \in [EntryKeys -> Nat]
    /\ \A k \in EntryKeys : ValidCost(IdeaOf[k]) => PaidFor[k] <= IdeaOf[k].debit * 100 * IdeaOf[k].quantity

Processes == {"controller", "command"}

VARIABLES
    wire,      \* POSTs under way
    order,     \* the broker's orders: client id -> status, "none" before it has one
    posted,    \* fills that the account activities show
    today,     \* the broker's trading day
    booked,    \* fills in the ledger
    skipped,   \* fills of an earlier import that no build has booked
    traced,    \* POSTs recorded by the trace store before they left
    proc,      \* process -> where it is and what it holds
    view       \* what the controller has read for build_risk_state

bvars == <<wire, order, posted, today>>
vars  == <<jvars, bvars, booked, skipped, traced, proc, view>>

(* Lots of each contract after the fills in S: what they bought less what   *)
(* they sold.                                                               *)
Lots(S) ==
    [c \in Contracts |->
        Cardinality({k \in S \cap EntryKeys : ContractOf[k] = c})
      - Cardinality({k \in S \cap ExitKeys : ContractOf[k] = c})]

Filled    == {k \in Keys : order[k] = "filled"}
Positions == Lots(Filled)
Claimed   == {k \in Keys : rows[k].status = "claimed"}
NoLots    == [c \in Contracts |-> 0]

Idle    == [pc |-> "idle", key |-> "none", reply |-> "none", day |-> 0, mode |-> "none", inv |-> NoLots]
NoView  == [complete |-> FALSE, pos |-> NoLots, open |-> {}, live |-> {}, look |-> <<>>,
            day |-> 0, second |-> FALSE, resolved |-> FALSE]

Init ==
    /\ rows = [k \in Keys |-> Absent] /\ txn = NoTxn
    /\ control \in Switch
    /\ wire = {} /\ order = [k \in Keys |-> "none"]
    /\ posted = {} /\ booked = {} /\ skipped = {} /\ traced = {}
    /\ today \in Days /\ \A d \in Days : today <= d
    /\ proc = [p \in Processes |-> Idle]
    /\ view = NoView

At(p, pc)   == proc[p].pc = pc
Goto(p, pc) == proc' = [proc EXCEPT ![p].pc = pc]

-----------------------------------------------------------------------------
(* build_risk_state, its reads in their order.  It runs at the start of a   *)
(* cycle, and inside reserve and claim while the journal is locked.         *)

(* The account and the clock, read first.                                   *)
StartReading(more) ==
    /\ view' = [NoView EXCEPT !.day = today, !.second = more]
    /\ proc' = [proc EXCEPT !["controller"] =
                   [@ EXCEPT !.pc = "activities",
                             !.day = IF txn' = NoTxn THEN today ELSE proc["controller"].day]]

(* The import that was just exhausted reaches from the coverage of the last *)
(* one, less five minutes, to now: `Unimported' and some of what an earlier  *)
(* build left behind.  Nothing else is normalized (reconcile.py:279-284).    *)
Unimported == posted \ (booked \cup skipped)

(* normalize_activities books its fills in the order of their times, each    *)
(* in a transaction of its own; S is the ledger at some moment of that.      *)
Books(run, S) ==
    /\ booked \subseteq S /\ S \subseteq booked \cup run
    /\ \A c \in Contracts : Lots(S)[c] >= 0

(* A sell that no lot covers, and no buy of this run would: it halts the     *)
(* rest of the run, other contracts included.                                *)
HaltsAt(k, run, S) ==
    /\ k \in (run \ S) \cap ExitKeys
    /\ Lots(S)[ContractOf[k]] = 0
    /\ \A j \in (run \ S) \cap EntryKeys : ContractOf[j] # ContractOf[k]

(* Mutant: only the fills of intents still claimed are looked for.          *)
ReadActivitiesOfClaims ==
    /\ At("controller", "activities")
    /\ booked' = booked \cup (posted \cap Claimed)
    /\ view' = [view EXCEPT !.complete = TRUE]
    /\ Goto("controller", "positions")
    /\ UNCHANGED <<jvars, bvars, skipped, traced>>

(* import_activities and normalize_activities.                              *)
ReadActivities ==
    /\ At("controller", "activities")
    /\ \E again \in SUBSET skipped, S \in SUBSET posted :
          LET run == Unimported \cup again IN
          /\ Books(run, S)
          /\ S # booked \cup run => \E k \in Keys : HaltsAt(k, run, S)
          /\ booked' = S /\ skipped' = posted \ S
          /\ view' = [view EXCEPT !.complete = (S = booked \cup run)]
    /\ Goto("controller", "positions")
    /\ UNCHANGED <<jvars, bvars, traced>>

(* The process dies after the import and before its last fill is booked.     *)
DiesNormalizing ==
    /\ At("controller", "activities")
    /\ \E again \in SUBSET skipped, S \in SUBSET posted :
          /\ Books(Unimported \cup again, S)
          /\ booked' = S /\ skipped' = posted \ S
    /\ proc' = [proc EXCEPT !["controller"] = Idle] /\ view' = NoView
    /\ txn' = NoTxn
    /\ UNCHANGED <<rows, control, bvars, traced>>

(* The import fails: swallowed, and shown as a reason (reconcile.py:286).   *)
HistoryFails ==
    /\ At("controller", "activities")
    /\ view' = [view EXCEPT !.complete = FALSE]
    /\ Goto("controller", "positions")
    /\ UNCHANGED <<jvars, bvars, booked, skipped, traced>>

ReadPositions ==
    /\ At("controller", "positions")
    /\ view' = [view EXCEPT !.pos = Positions]
    /\ Goto("controller", "orders")
    /\ UNCHANGED <<jvars, bvars, booked, skipped, traced>>

(* The open orders, and then the live intents of the journal.               *)
ReadOrders ==
    /\ At("controller", "orders")
    /\ view' = [view EXCEPT !.open = {k \in Keys : order[k] = "open"}, !.live = Claimed, !.look = <<>>]
    /\ Goto("controller", "lookups")
    /\ UNCHANGED <<jvars, bvars, booked, skipped, traced>>

LookUp(k) ==
    /\ At("controller", "lookups")
    /\ k \in view.live \ DOMAIN view.look
    /\ view' = [view EXCEPT !.look =
                   [j \in DOMAIN view.look \cup {k} |-> IF j = k THEN order[k] ELSE view.look[j]]]
    /\ UNCHANGED <<jvars, bvars, booked, skipped, traced, proc>>

AllRead == At("controller", "lookups") /\ DOMAIN view.look = view.live

-----------------------------------------------------------------------------
(* reconcile() on what was read.  `state.reconciled' is the conjunction of  *)
(* its checks; those that speak of the account, the clock or the calendar   *)
(* alone are in ReadFails, which ends the cycle in the same way.            *)

PositionsMatch == view.pos = Lots(booked) /\ \A c \in Contracts : view.pos[c] >= 0
KnownOrders    == view.open \subseteq view.live
Unrecorded     == {k \in view.live : view.look[k] = "none"}
Unlisted       == {k \in view.live \ view.open : view.look[k] = "open"}
ResolvableFills == {k \in view.live \ view.open : view.look[k] = "filled"}   \* mutant: not the cancels
Resolvable     == IF KnownOrders THEN {k \in view.live \ view.open : view.look[k] \notin {"none", "open"}}
                                 ELSE {}

(* Mutant: an intent that ended at the broker is no reason to stop.         *)
ReconciledButForEnded == view.complete /\ PositionsMatch /\ KnownOrders /\ Unrecorded = {} /\ Unlisted = {}

Reconciled ==
    /\ view.complete /\ PositionsMatch /\ KnownOrders
    /\ Unrecorded = {} /\ Unlisted = {} /\ Resolvable = {}

(* What the entries in S cost when they filled: the ledger's basis, which    *)
(* carries no fees (normalize.py:144).                                       *)
TotalPaid(S) == Total(PaidFor, S)

Basis == TotalPaid({k \in booked \cap EntryKeys : Lots(booked)[ContractOf[k]] > 0})

(* Mutant: the cap is not reduced by what is deployed.                      *)
RiskStateUndeployed(now) ==
    [reconciled |-> Reconciled, day |-> view.day, observed |-> now, breaker |-> FALSE, loss |-> 0,
     open    |-> Cardinality({c \in Contracts : view.pos[c] # 0}),
     pending |-> Cardinality(view.open \cap EntryKeys) + Cardinality(Unrecorded) + Cardinality(Unlisted),
     cash    |-> CapitalCap]

RiskState(now) ==
    [reconciled |-> Reconciled, day |-> view.day, observed |-> now, breaker |-> FALSE, loss |-> 0,
     open    |-> Cardinality({c \in Contracts : view.pos[c] # 0}),
     pending |-> Cardinality(view.open \cap EntryKeys) + Cardinality(Unrecorded) + Cardinality(Unlisted),
     cash    |-> IF Basis > CapitalCap THEN 0 ELSE CapitalCap - Basis]

-----------------------------------------------------------------------------
(* run_cycle, stage 1 *)

BeginCycle ==
    /\ At("controller", "idle")
    /\ UNCHANGED <<jvars, bvars, booked, skipped, traced>>
    /\ StartReading(FALSE)

EndCycle == proc' = [proc EXCEPT !["controller"] = Idle] /\ view' = NoView

(* Any read may raise, or the account, the clock or the calendar forbid     *)
(* trading: the cycle ends, or the provider has no state to offer.          *)
ReadFails ==
    /\ proc["controller"].pc \in {"activities", "positions", "orders", "lookups"}
    /\ \/ txn = NoTxn /\ UNCHANGED jvars
       \/ ReserveCommit(ProviderError)
       \/ ClaimCommit(ProviderError)
    /\ EndCycle
    /\ UNCHANGED <<bvars, booked, skipped, traced>>

ToResolve == Resolvable \cap Claimed

ResolveIntent(k) ==
    /\ AllRead /\ txn = NoTxn /\ ~view.second
    /\ k \in ToResolve
    /\ Resolve(k, view.look[k])
    /\ view' = [view EXCEPT !.resolved = TRUE]
    /\ UNCHANGED <<bvars, booked, skipped, traced, proc>>

(* Something was resolved: build_risk_state once more.                      *)
ReadAgain ==
    /\ AllRead /\ txn = NoTxn /\ ~view.second
    /\ view.resolved /\ ToResolve = {}
    /\ UNCHANGED <<jvars, bvars, booked, skipped, traced>>
    /\ StartReading(TRUE)

Settled == AllRead /\ txn = NoTxn /\ (view.second \/ (~view.resolved /\ ToResolve = {}))

Halt ==
    /\ Settled /\ ~Reconciled
    /\ EndCycle
    /\ UNCHANGED <<jvars, bvars, booked, skipped, traced>>

(* Reconciled: the mode and the inventory of the cycle are read, once       *)
(* (controller.py:151, 155).                                                *)
Proceed ==
    /\ Settled /\ Reconciled
    /\ proc' = [proc EXCEPT !["controller"] =
                   [@ EXCEPT !.pc = "exits", !.mode = control, !.inv = Lots(booked)]]
    /\ view' = NoView
    /\ UNCHANGED <<jvars, bvars, booked, skipped, traced>>

-----------------------------------------------------------------------------
(* Stage 2: exits.  evaluate_exit decides on any of the contracts held.     *)

(* A prepared exit is sent next; a refused one leaves the process where it  *)
(* was (the controller) or ends it (the command).                           *)
AfterPrepare(p, k, refused) ==
    proc' = [proc EXCEPT ![p] = IF rows[k].status = "absent" /\ rows'[k].status = "claimed"
                                THEN [@ EXCEPT !.pc = "send", !.key = k] ELSE refused]

Exit(c, now) ==
    LET day == proc["controller"].day
        k   == CycleExit[<<c, day>>]
    IN
    /\ <<c, day>> \in DOMAIN CycleExit
    /\ At("controller", "exits") /\ proc["controller"].mode \in {"ARMED_PAPER", "EXITS_ONLY"}
    /\ proc["controller"].inv[c] = ExitQty[k]
    /\ ExitDuplicate(k, now) \/ PrepareExit(k, proc["controller"].inv, now, day)
    /\ AfterPrepare("controller", k, proc["controller"])
    /\ UNCHANGED <<bvars, booked, skipped, traced, view>>

-----------------------------------------------------------------------------
(* Stage 3: at most one entry a cycle (max_entries_per_cycle).  A proposal  *)
(* of an underlying held in the cycle's inventory, or live in the journal,  *)
(* is refused (controller.py:214).                                          *)

LiveSymbols == {Underlying(k) : k \in Active(rows)}      \* mutant: the inventory is forgotten

OpenSymbols ==
    {UnderlyingOf[c] : c \in {d \in Contracts : proc["controller"].inv[d] > 0}}
        \cup {Underlying(k) : k \in Active(rows)}

Propose(k) ==
    /\ At("controller", "exits") /\ proc["controller"].mode = "ARMED_PAPER" /\ txn = NoTxn
    /\ rows[k].status = "absent"
    /\ Underlying(k) \notin OpenSymbols
    /\ proc' = [proc EXCEPT !["controller"] = [@ EXCEPT !.pc = "reserve", !.key = k, !.inv = NoLots]]
    /\ UNCHANGED <<jvars, bvars, booked, skipped, traced, view>>

NoProposal ==
    /\ At("controller", "exits")
    /\ EndCycle
    /\ UNCHANGED <<jvars, bvars, booked, skipped, traced>>

Reserve(now) ==
    LET k == proc["controller"].key  day == proc["controller"].day IN
    /\ At("controller", "reserve")
    /\ \/ ReserveDisabled(k, now, day) /\ EndCycle
       \/ ReserveBegin(k, now, day) /\ StartReading(FALSE)
    /\ UNCHANGED <<bvars, booked, skipped, traced>>

(* The provider has answered: the transaction commits.                      *)
Reserved ==
    /\ AllRead /\ txn.op = "reserve"
    /\ ReserveCommit(RiskState(txn.now))
    /\ IF rows'[txn.key].status = "reserved"
       THEN Goto("controller", "claim") /\ view' = NoView
       ELSE EndCycle
    /\ UNCHANGED <<bvars, booked, skipped, traced>>

Claim(now) ==
    LET k == proc["controller"].key  day == proc["controller"].day IN
    /\ At("controller", "claim")
    /\ \/ ClaimBegin(k, now, day) /\ StartReading(FALSE)
       \/ /\ ClaimUnavailable(k, now) \/ ClaimMismatch(k, now, day) \/ ClaimDisabled(k, now, day)
          /\ EndCycle
    /\ UNCHANGED <<bvars, booked, skipped, traced>>

ClaimedNow ==
    /\ AllRead /\ txn.op = "claim"
    /\ ClaimCommit(RiskState(txn.now))
    /\ IF rows'[txn.key].status = "claimed"
       THEN Goto("controller", "send") /\ view' = NoView
       ELSE EndCycle
    /\ UNCHANGED <<bvars, booked, skipped, traced>>

-----------------------------------------------------------------------------
(* submit_claimed, in either process.                                       *)

Done(p) ==
    [proc EXCEPT ![p] = IF p = "controller" /\ @.key \in ExitKeys
                        THEN [@ EXCEPT !.pc = "exits", !.key = "none", !.reply = "none"] ELSE Idle]

(* Mutant: the trace record is left for the answer.                         *)
SendUntraced(p) ==
    LET k == proc[p].key IN
    /\ At(p, "send") /\ txn = NoTxn
    /\ IF Sendable(k)
       THEN wire' = wire \cup {k} /\ Goto(p, "wait")
       ELSE proc' = Done(p) /\ UNCHANGED wire
    /\ UNCHANGED <<jvars, order, posted, today, booked, skipped, traced, view>>

(* sendable_body, the trace record, and the POST on its way.                *)
Send(p) ==
    LET k == proc[p].key IN
    /\ At(p, "send") /\ txn = NoTxn
    /\ IF Sendable(k)
       THEN /\ wire' = wire \cup {k} /\ traced' = traced \cup {k}
            /\ Goto(p, "wait")
       ELSE proc' = Done(p) /\ UNCHANGED <<wire, traced>>
    /\ UNCHANGED <<jvars, order, posted, today, booked, skipped, view>>

(* The answer arrived: mark_submitted or resolve_unplaced, which do nothing *)
(* if the intent is no longer sendable.                                     *)
Answered(p) ==
    LET k == proc[p].key IN
    /\ At(p, "wait") /\ proc[p].reply # "none" /\ txn = NoTxn
    /\ IF ~Sendable(k)                THEN UNCHANGED jvars
       ELSE IF proc[p].reply = "taken" THEN MarkSubmitted(k) ELSE ResolveUnplaced(k)
    /\ proc' = Done(p)
    /\ UNCHANGED <<bvars, booked, skipped, traced, view>>

(* Mutants: a time-out is taken for a refusal; a time-out is retried.       *)
TimeoutIsRefusal(p) ==
    LET k == proc[p].key IN
    /\ At(p, "wait") /\ txn = NoTxn
    /\ IF Sendable(k) THEN ResolveUnplaced(k) ELSE UNCHANGED jvars
    /\ proc' = Done(p)
    /\ UNCHANGED <<bvars, booked, skipped, traced, view>>

TimeoutIsRetried(p) ==
    /\ At(p, "wait") /\ txn = NoTxn
    /\ Goto(p, "send")
    /\ UNCHANGED <<jvars, bvars, booked, skipped, traced, view>>

(* Time-out, 5xx, bad body or mismatch: note_submit_outcome_unknown, which  *)
(* changes the reason of the row only.                                      *)
OutcomeUnknown(p) ==
    /\ At(p, "wait") /\ txn = NoTxn
    /\ proc' = Done(p)
    /\ UNCHANGED <<jvars, bvars, booked, skipped, traced, view>>

-----------------------------------------------------------------------------
(* The operator's commands *)

(* release-intent: a fresh lookup.  Terminal: resolve.  No record and never *)
(* acknowledged: go on to release_unsent.                                   *)
ReleaseLookup(k) ==
    /\ "release" \in Commands /\ At("command", "idle") /\ txn = NoTxn
    /\ k \in Claimed
    /\ \/ /\ Resolve(k, order[k])
          /\ UNCHANGED proc
       \/ /\ order[k] = "none" /\ ~rows[k].sent
          /\ proc' = [proc EXCEPT !["command"] = [Idle EXCEPT !.pc = "release", !.key = k]]
          /\ UNCHANGED jvars
    /\ UNCHANGED <<bvars, booked, skipped, traced, view>>

Release ==
    LET k == proc["command"].key IN
    /\ At("command", "release") /\ txn = NoTxn
    /\ IF Sendable(k) THEN ReleaseUnsent(k) ELSE UNCHANGED jvars
    /\ proc' = [proc EXCEPT !["command"] = Idle]
    /\ UNCHANGED <<bvars, booked, skipped, traced, view>>

(* flatten: the inventory first, then the network reads that price it, then *)
(* prepare_exit with the inventory as it was.                               *)
FlattenRead(k) ==
    /\ "flatten" \in Commands /\ At("command", "idle")
    /\ rows[k].status = "absent" /\ Lots(booked)[ContractOf[k]] = ExitQty[k]
    /\ proc' = [proc EXCEPT !["command"] = [Idle EXCEPT !.pc = "flatten", !.key = k, !.inv = Lots(booked)]]
    /\ UNCHANGED <<jvars, bvars, booked, skipped, traced, view>>

FlattenPrepare(now) ==
    LET k == proc["command"].key IN
    /\ At("command", "flatten")
    /\ PrepareExit(k, proc["command"].inv, now, today)
    /\ AfterPrepare("command", k, Idle)
    /\ UNCHANGED <<bvars, booked, skipped, traced, view>>

(* Without --submit the prepared exit is released at once.                  *)
FlattenDryRun ==
    /\ At("command", "send")
    /\ ReleaseUnsent(proc["command"].key)
    /\ proc' = [proc EXCEPT !["command"] = Idle]
    /\ UNCHANGED <<bvars, booked, skipped, traced, view>>

-----------------------------------------------------------------------------
(* The broker, the network, the owner and the machine *)

Receive(k, outcome) ==
    /\ k \in wire
    /\ wire' = wire \ {k}
    /\ order' = IF outcome = "taken" THEN [order EXCEPT ![k] = "open"] ELSE order
    /\ proc' = [p \in Processes |->
                  IF At(p, "wait") /\ proc[p].key = k /\ outcome # "lost"
                  THEN [proc[p] EXCEPT !.reply = outcome] ELSE proc[p]]
    /\ UNCHANGED <<jvars, posted, today, booked, skipped, traced, view>>

(* A day order fills, or ends without a fill.                               *)
Execute(k, status) ==
    /\ order[k] = "open"
    /\ order' = [order EXCEPT ![k] = status]
    /\ UNCHANGED <<jvars, wire, posted, today, booked, skipped, traced, proc, view>>

PostActivity(k) ==
    /\ k \in Filled \ posted
    /\ posted' = posted \cup {k}
    /\ UNCHANGED <<jvars, wire, order, today, booked, skipped, traced, proc, view>>

NewDay ==
    /\ today + 1 \in Days
    /\ today' = today + 1
    /\ UNCHANGED <<jvars, wire, order, posted, booked, skipped, traced, proc, view>>

WriteControl ==
    /\ SetControl /\ control' \in Switch
    /\ UNCHANGED <<bvars, booked, skipped, traced, proc, view>>

Crash(p) ==
    /\ ~At(p, "idle")
    /\ proc' = [proc EXCEPT ![p] = Idle]
    /\ IF p = "controller" THEN view' = NoView /\ txn' = NoTxn ELSE UNCHANGED <<view, txn>>
    /\ UNCHANGED <<rows, control, bvars, booked, skipped, traced>>

-----------------------------------------------------------------------------
Cycle ==
    \/ BeginCycle \/ ReadActivities \/ ReadPositions \/ ReadOrders \/ (\E k \in Keys : LookUp(k))
    \/ (\E k \in Keys : ResolveIntent(k)) \/ ReadAgain \/ Halt \/ Proceed
    \/ HistoryFails \/ ReadFails \/ DiesNormalizing
    \/ NoProposal \/ Reserved \/ ClaimedNow
    \/ \E k \in EntryKeys : Propose(k)
    \/ \E now \in Times : Reserve(now) \/ Claim(now) \/ \E c \in Contracts : Exit(c, now)

Submission == \E p \in Processes : Send(p) \/ Answered(p) \/ OutcomeUnknown(p)

Command ==
    \/ (\E k \in Keys : ReleaseLookup(k)) \/ Release
    \/ (\E k \in FlattenKeys : FlattenRead(k)) \/ FlattenDryRun
    \/ \E now \in Times : FlattenPrepare(now)

Broker ==
    \/ NewDay
    \/ \E k \in Keys :
        \/ \E outcome \in {"taken", "refused", "lost"} : Receive(k, outcome)
        \/ \E status \in {"filled", "canceled"} : Execute(k, status)
        \/ PostActivity(k)

Next ==
    \/ Cycle \/ Submission \/ Command \/ Broker \/ WriteControl
    \/ \E p \in Processes : Crash(p)

Spec == Init /\ [][Next]_vars

LookUpWith(n) == Cardinality(view.live \ DOMAIN view.look) = n /\ \E k \in Keys : LookUp(k)

(* Cycles keep being run: by the loop, by a scheduler, or by the owner, who *)
(* after a halt (exit 3) or a crash removes the lock left behind, if any,    *)
(* and starts the controller again.  A process that is not stopped goes on, *)
(* the network delivers or drops, and the broker ends its day orders and     *)
(* posts its fills.  A read may fail and the controller crash any number of  *)
(* times, but not always before the same step succeeds: for lookups, the     *)
(* n-th before the last of a round.  Nothing else is owed by anybody: no     *)
(* command is ever used, and the switch is never moved.                      *)
Fairness ==
    /\ WF_vars(BeginCycle \/ ReadAgain \/ Halt \/ Proceed \/ NoProposal \/ Reserved \/ ClaimedNow)
    /\ WF_vars(\E now \in Times : Reserve(now) \/ Claim(now))
    /\ WF_vars(Submission)
    /\ SF_vars(ReadActivities) /\ SF_vars(ReadPositions) /\ SF_vars(ReadOrders)
    /\ \A n \in 1..Cardinality(Keys) : SF_vars(LookUpWith(n))
    /\ \A k \in Keys :
          /\ SF_vars(ResolveIntent(k))
          /\ WF_vars(PostActivity(k)) /\ WF_vars(\E status \in {"filled", "canceled"} : Execute(k, status))
          /\ WF_vars(\E outcome \in {"taken", "refused", "lost"} : Receive(k, outcome))

FairSpec == Spec /\ Fairness

-----------------------------------------------------------------------------
PTypeOK ==
    /\ JTypeOK
    /\ wire \subseteq traced /\ traced \subseteq Keys
    /\ order \in [Keys -> {"none", "open", "filled", "canceled"}]
    /\ booked \subseteq posted /\ posted \subseteq Filled
    /\ skipped \subseteq posted \ booked
    /\ \A p \in Processes : proc[p].key \in Keys \cup {"none"} /\ proc[p].inv \in [Contracts -> Nat]
    /\ view.live \subseteq Keys /\ view.open \subseteq Keys /\ DOMAIN view.look \subseteq view.live

(* Entries that may still become positions: decided and unknown to the      *)
(* broker, on their way to it, or open there.                               *)
Outstanding ==
    {k \in EntryKeys : \/ k \in wire \/ order[k] = "open"
                       \/ rows[k].status \in Live /\ order[k] = "none"}
Holdings == {c \in Contracts : Positions[c] > 0}

(* "Max 2 positions" (README), at the broker and at every instant: whatever *)
(* fills between which two reads, positions and entries that may become     *)
(* positions never exceed the slots.                                        *)
ExposureLimit == Cardinality(Holdings) + Cardinality(Outstanding) <= MaxSlots

(* "one-idea-per-held-underlying" (controller.py:208) holds at the broker,  *)
(* though the inventory and the intents it is checked against are read at   *)
(* different times.                                                         *)
OnePerUnderlying ==
    \A u \in Underlyings :
        Cardinality({c \in Holdings : UnderlyingOf[c] = u})
      + Cardinality({k \in Outstanding : Underlying(k) = u}) <= 1

(* "spendable cash never exceeds cap minus open basis" (reconcile.py:37):   *)
(* what was paid for the positions, and what the entries reserved, on their *)
(* way or open may cost, stay under the cap together.                       *)
CapitalLimit ==
    TotalPaid({k \in EntryKeys \cap Filled : ContractOf[k] \in Holdings})
        + TotalCost(Outstanding) <= CapitalCap

(* "a sell_to_close never adds exposure" (orders.py:242): the sells done,   *)
(* open or under way never exceed the lots bought of their contract.        *)
NeverOversold ==
    \A c \in Contracts :
        Cardinality({k \in ExitKeys : ContractOf[k] = c /\ (k \in wire \/ order[k] \in {"open", "filled"})})
            <= Cardinality({k \in EntryKeys \cap Filled : ContractOf[k] = c})

(* Provenance (reconcile.py:159): what is under way or open at the broker is *)
(* a claimed intent of the journal, so that no order is ever unknown.        *)
KnownProvenance == \A k \in Keys : (k \in wire \/ order[k] = "open") => rows[k].status = "claimed"

(* A slot is released only when the order is known to be dead: a resolved   *)
(* intent has a terminal order, an unplaced one none, and neither is still  *)
(* under way (orders.py:365, 415).                                          *)
DefinitiveRelease ==
    \A k \in Keys :
        /\ rows[k].status = "resolved" => k \notin wire /\ order[k] \in TerminalStatuses
        /\ rows[k].status = "unplaced" => k \notin wire /\ order[k] = "none"

(* "One attempt per order, ever" (README:797), over crashes, time-outs and  *)
(* the operator's commands.                                                 *)
SingleAttempt == [][\A k \in Keys : k \in wire' \ wire => k \notin traced]_vars

(* What release-intent promises (README:861): it releases "only on a fresh  *)
(* 404 for a never-acknowledged intent", so a released order never exists.  *)
ReleasedWasNeverPlaced == \A k \in Keys : rows[k].status = "released_manual" => order[k] = "none"

(* However many cycles and reads fail before, the books catch up with the   *)
(* broker again and again: every fill is booked -- unless the one build that *)
(* imported it died or was blocked before it, which no later build makes up  *)
(* for -- and every intent whose order has ended gives up its slot.          *)
EventuallyBooked   == []<>(Filled \subseteq booked \cup skipped)
EventuallyResolved == []<>(\A k \in Claimed : order[k] \notin TerminalStatuses)
=============================================================================
