---------------------------- MODULE OrderJournal ----------------------------
(***************************************************************************)
(* executor/orders.py: the order-intent journal.                            *)
(*                                                                          *)
(* Every method is one SQLite transaction opened with BEGIN IMMEDIATE, so   *)
(* it is one action here -- except reserve() and claim(), which call the    *)
(* state provider (network reads) while they hold the write lock.  Those    *)
(* two are split where the provider runs: `txn' is the transaction that is  *)
(* open, no other method of the journal can start while it is, and a crash  *)
(* rolls it back.  The control file is not protected by the lock.           *)
(*                                                                          *)
(* A row is identified by its decision key: the key is UNIQUE and every     *)
(* insert makes a fresh authorization id, so the two name the same row.     *)
(* An idea or exit decision is a function of its key, because a key is      *)
(* evaluated at most once.  `now' is an argument of every method, as in the *)
(* code: callers read their own clock, which may step back.                 *)
(***************************************************************************)
EXTENDS RulesEngine

CONSTANTS
    EntryKeys, ExitKeys,   \* decision keys of entries and of exits
    Contracts, Underlyings,
    UnderlyingOf,          \* contract -> underlying (contract[:-15])
    ContractOf,            \* decision key -> contract
    IdeaOf,                \* entry key -> idea
    ExitQty,               \* exit key -> quantity of the decision (any integer)
    Times,                 \* values of `now'
    Days,                  \* values of `trading_day'
    TTL,                   \* AUTH_TTL (30 s, orders.py:30)
    Baselines,             \* what a state provider may answer
    ProviderError          \* the provider raised, or returned no RiskState

Keys == EntryKeys \cup ExitKeys

ASSUME JournalConstants ==
    /\ EntryKeys \cap ExitKeys = {}
    /\ IsFiniteSet(Keys)
    /\ UnderlyingOf \in [Contracts -> Underlyings]
    /\ ContractOf \in [Keys -> Contracts]
    /\ ExitQty \in [ExitKeys -> Int]
    /\ Times \subseteq Nat
    /\ TTL \in Nat \ {0}
    /\ ProviderError \notin Baselines

(* Amounts are whole cents and quantities whole lots; their sign is checked *)
(* by `evaluate'.                                                           *)
ASSUME IdeaConstants ==
    \A k \in EntryKeys : {IdeaOf[k].debit, IdeaOf[k].quantity, IdeaOf[k].fees} \subseteq Int

Live      == {"reserved", "claimed"}
Resolved  == {"resolved", "unplaced", "released_manual"}
Statuses  == {"absent", "rejected", "expired", "revoked"} \cup Live \cup Resolved
Modes     == {"ARMED_PAPER", "EXITS_ONLY", "DISABLED"}

TerminalStatuses == {"filled", "canceled", "expired", "rejected", "replaced", "done_for_day"}

VARIABLES
    rows,      \* order_intents
    control,   \* contents of runtime/trading-control, DISABLED if unusable
    txn        \* the open transaction of reserve/claim, or NoTxn

jvars == <<rows, control, txn>>

Row     == [status: Statuses, created: Times \cup {0}, day: Days \cup {0}, sent: BOOLEAN]
Absent  == [status |-> "absent", created |-> 0, day |-> 0, sent |-> FALSE]
Txn     == [op: {"reserve", "claim"}, key: EntryKeys, now: Times, day: Days]
NoTxn   == [op |-> "none"]

-----------------------------------------------------------------------------
(* Reading the table *)

Authorized(rs) == {k \in DOMAIN rs : rs[k].status \notin {"absent", "rejected"}}
Active(rs)     == {k \in EntryKeys : rs[k].status \in Live}
Unsent(rs)     == {k \in Active(rs) : ~rs[k].sent}
Underlying(k)  == UnderlyingOf[ContractOf[k]]

(* Mutant: claims expire like reservations.                                 *)
ExpireClaims(rs, now) ==
    [k \in DOMAIN rs |->
        IF rs[k].status \in Live /\ rs[k].created + TTL <= now
        THEN [rs[k] EXCEPT !.status = "expired"] ELSE rs[k]]

(* _expire: every reserved row whose time is up, at the start of reserve,  *)
(* claim and prepare_exit.                                                  *)
Expire(rs, now) ==
    [k \in DOMAIN rs |->
        IF rs[k].status = "reserved" /\ rs[k].created + TTL <= now
        THEN [rs[k] EXCEPT !.status = "expired"] ELSE rs[k]]

(* The sum of price over S.                                                 *)
Total(price, S) ==
    LET sum[T \in SUBSET S] ==
            IF T = {} THEN 0
            ELSE LET k == CHOOSE x \in T : TRUE IN price[k] + sum[T \ {k}]
    IN  sum[S]

(* What the entries in S may cost, as _validate subtracts it.               *)
TotalCost(S) == Total([k \in EntryKeys |-> MaxLoss(IdeaOf[k])], S)

(* Mutant: an authorization that has ended frees its rate allowance.        *)
AdjustedByLive(rs, base, excluding) ==
    LET left == base.cash - TotalCost(Active(rs) \ excluding)
    IN  [reconciled |-> base.reconciled, day |-> base.day, observed |-> base.observed,
         breaker    |-> base.breaker, loss |-> base.loss, open |-> base.open,
         pending    |-> base.pending + Cardinality(Unsent(rs) \ excluding),
         cash       |-> IF left < 0 THEN 0 ELSE left,
         attempts   |-> [k \in Active(rs) \ excluding |-> rs[k].created]]

(* The baseline with the journal's own commitments folded in.  The attempts *)
(* are the journal's alone: the controller's provider passes none.          *)
Adjusted(rs, base, excluding) ==
    LET others == Keys \ excluding
        left   == base.cash - TotalCost(Active(rs) \ excluding)
    IN  [reconciled |-> base.reconciled, day |-> base.day, observed |-> base.observed,
         breaker    |-> base.breaker, loss |-> base.loss, open |-> base.open,
         pending    |-> base.pending + Cardinality(Unsent(rs) \ excluding),
         cash       |-> IF left < 0 THEN 0 ELSE left,
         attempts   |-> [k \in Authorized(rs) \cap others |-> rs[k].created]]

(* _validate, from the provider's answer on (`excluding' is the claimed row)*)
Validates(rs, k, base, excluding, now, day) ==
    /\ base # ProviderError
    /\ Approves(IdeaOf[k], Adjusted(rs, base, excluding), now, day, FALSE)
    /\ IdeaOf[k].strategy \in Longs
    /\ \A j \in Active(rs) \ excluding : Underlying(j) # Underlying(k)

Disabled == control # "ARMED_PAPER"       \* gateway.trading_disabled

-----------------------------------------------------------------------------
JInit ==
    /\ rows = [k \in Keys |-> Absent]
    /\ control = "DISABLED"
    /\ txn = NoTxn

(* The owner writes the control file, at any time.                          *)
SetControl ==
    /\ control' \in Modes \ {control}
    /\ UNCHANGED <<rows, txn>>

(* A row is inserted whatever the decision, which burns the key.  The stamps *)
(* of a rejected row (authorized = 0) are read by nothing and left at zero.  *)
Insert(k, status, now, day) ==
    [Expire(rows, now) EXCEPT ![k] =
        IF status = "rejected" THEN [Absent EXCEPT !.status = "rejected"]
        ELSE [status |-> status, created |-> now, day |-> day, sent |-> FALSE]]

(* reserve() up to the provider call.  A duplicate key and a disabled       *)
(* switch finish at once; both commit the expiry of other rows.             *)
ReserveDuplicate(k, now) ==
    /\ txn = NoTxn
    /\ rows[k].status # "absent"
    /\ rows' = Expire(rows, now)
    /\ UNCHANGED <<control, txn>>

ReserveDisabled(k, now, day) ==
    /\ txn = NoTxn /\ rows[k].status = "absent"
    /\ Disabled
    /\ rows' = Insert(k, "rejected", now, day)
    /\ UNCHANGED <<control, txn>>

ReserveBegin(k, now, day) ==
    /\ txn = NoTxn /\ rows[k].status = "absent"
    /\ ~Disabled
    /\ txn' = [op |-> "reserve", key |-> k, now |-> now, day |-> day]
    /\ UNCHANGED <<rows, control>>

(* reserve() from the provider's answer to COMMIT; the switch is read again. *)
ReserveCommit(base) ==
    LET k == txn.key
        ok == Validates(Expire(rows, txn.now), k, base, {}, txn.now, txn.day) /\ ~Disabled
    IN  /\ txn.op = "reserve"
        /\ rows' = Insert(k, IF ok THEN "reserved" ELSE "rejected", txn.now, txn.day)
        /\ txn' = NoTxn
        /\ UNCHANGED control

-----------------------------------------------------------------------------
SetStatus(rs, k, status) == [rs EXCEPT ![k].status = status]

(* claim() on a row that is unknown, used or expired: only the expiry stays. *)
ClaimUnavailable(k, now) ==
    /\ txn = NoTxn
    /\ Expire(rows, now)[k].status # "reserved"
    /\ rows' = Expire(rows, now)
    /\ UNCHANGED <<control, txn>>

ClaimMismatch(k, now, day) ==
    /\ txn = NoTxn
    /\ Expire(rows, now)[k].status = "reserved"
    /\ rows[k].day # day \/ now < rows[k].created
    /\ rows' = SetStatus(Expire(rows, now), k, "revoked")
    /\ UNCHANGED <<control, txn>>

ClaimDisabled(k, now, day) ==
    /\ txn = NoTxn
    /\ Expire(rows, now)[k].status = "reserved"
    /\ rows[k].day = day /\ now >= rows[k].created
    /\ Disabled
    /\ rows' = SetStatus(Expire(rows, now), k, "revoked")
    /\ UNCHANGED <<control, txn>>

ClaimBegin(k, now, day) ==
    /\ txn = NoTxn
    /\ Expire(rows, now)[k].status = "reserved"
    /\ rows[k].day = day /\ now >= rows[k].created
    /\ ~Disabled
    /\ txn' = [op |-> "claim", key |-> k, now |-> now, day |-> day]
    /\ UNCHANGED <<rows, control>>

(* Mutant: the switch is not read again after the provider.                 *)
ClaimCommitOnce(base) ==
    LET k == txn.key
        rs == Expire(rows, txn.now)
    IN  /\ txn.op = "claim"
        /\ rows' = SetStatus(rs, k, IF Validates(rs, k, base, {k}, txn.now, txn.day)
                                    THEN "claimed" ELSE "revoked")
        /\ txn' = NoTxn
        /\ UNCHANGED control

ClaimCommit(base) ==
    LET k == txn.key
        rs == Expire(rows, txn.now)
        ok == Validates(rs, k, base, {k}, txn.now, txn.day) /\ ~Disabled
    IN  /\ txn.op = "claim"
        /\ rows' = SetStatus(rs, k, IF ok THEN "claimed" ELSE "revoked")
        /\ txn' = NoTxn
        /\ UNCHANGED control

(* The process dies while the provider runs: SQLite rolls back.             *)
Rollback ==
    /\ txn # NoTxn
    /\ txn' = NoTxn
    /\ UNCHANGED <<rows, control>>

-----------------------------------------------------------------------------
(* prepare_exit: `held' is the inventory the CALLER read, contract -> lots. *)
ExitDuplicate(k, now) ==
    /\ txn = NoTxn
    /\ rows[k].status # "absent"
    /\ rows' = Expire(rows, now)
    /\ UNCHANGED <<control, txn>>

(* Mutant: no look at the exits under way.                                  *)
ValidExitUnguarded(k, held) == ExitQty[k] >= 1 /\ held[ContractOf[k]] >= ExitQty[k]

ValidExit(k, held) ==
    /\ ExitQty[k] >= 1
    /\ held[ContractOf[k]] >= ExitQty[k]
    /\ \A j \in ExitKeys : ~(rows[j].status = "claimed" /\ ContractOf[j] = ContractOf[k])

PrepareExit(k, held, now, day) ==
    LET ok == control \in {"ARMED_PAPER", "EXITS_ONLY"} /\ ValidExit(k, held)
    IN  /\ txn = NoTxn /\ rows[k].status = "absent"
        /\ rows' = Insert(k, IF ok THEN "claimed" ELSE "rejected", now, day)
        /\ UNCHANGED <<control, txn>>

-----------------------------------------------------------------------------
(* What follows a claim.  `sent' stands for broker_order_id being set.      *)
Sendable(k) == rows[k].status = "claimed" /\ ~rows[k].sent    \* sendable_body

MarkSubmitted(k) ==
    /\ txn = NoTxn /\ Sendable(k)
    /\ rows' = [rows EXCEPT ![k].sent = TRUE]
    /\ UNCHANGED <<control, txn>>

(* resolve_unplaced: the broker answered 400, 403 or 422 with a request id. *)
ResolveUnplaced(k) ==
    /\ txn = NoTxn /\ Sendable(k)
    /\ rows' = SetStatus(rows, k, "unplaced")
    /\ UNCHANGED <<control, txn>>

(* release_unsent: an operator, after a by-client-id lookup answered 404.   *)
ReleaseUnsent(k) ==
    /\ txn = NoTxn /\ Sendable(k)
    /\ rows' = SetStatus(rows, k, "released_manual")
    /\ UNCHANGED <<control, txn>>

(* Mutant: the broker's status goes into the row as it is.                  *)
ResolveVerbatim(k, brokerStatus) ==
    /\ txn = NoTxn
    /\ rows[k].status = "claimed"
    /\ rows' = SetStatus(rows, k, brokerStatus)
    /\ UNCHANGED <<control, txn>>

(* resolve: ValueError before the transaction unless the status is terminal. *)
Resolve(k, brokerStatus) ==
    /\ txn = NoTxn
    /\ brokerStatus \in TerminalStatuses
    /\ rows[k].status = "claimed"
    /\ rows' = SetStatus(rows, k, "resolved")
    /\ UNCHANGED <<control, txn>>

-----------------------------------------------------------------------------
JNext ==
    \/ SetControl
    \/ Rollback
    \/ \E base \in Baselines \cup {ProviderError} : ReserveCommit(base) \/ ClaimCommit(base)
    \/ \E k \in EntryKeys, now \in Times :
          \/ ReserveDuplicate(k, now) \/ ClaimUnavailable(k, now)
          \/ \E day \in Days :
                \/ ReserveDisabled(k, now, day) \/ ReserveBegin(k, now, day)
                \/ ClaimMismatch(k, now, day) \/ ClaimDisabled(k, now, day)
                \/ ClaimBegin(k, now, day)
    \/ \E k \in ExitKeys, now \in Times :
          \/ ExitDuplicate(k, now)
          \/ \E day \in Days, held \in [Contracts -> 0..1] : PrepareExit(k, held, now, day)
    \/ \E k \in Keys :
          \/ MarkSubmitted(k) \/ ResolveUnplaced(k) \/ ReleaseUnsent(k)
          \/ Resolve(k, "filled")

JSpec == JInit /\ [][JNext]_jvars

-----------------------------------------------------------------------------
JTypeOK ==
    /\ rows \in [Keys -> Row]
    /\ control \in Modes
    /\ txn \in Txn \cup {NoTxn}

(* The authorized entries of the hour that ends at t.                       *)
Window(rs, t) ==
    {k \in EntryKeys : k \in Authorized(rs) /\ t - Hour < rs[k].created /\ rs[k].created <= t}

(* "one rate allowance" (orders.py:146): whatever the order and the clocks  *)
(* of the callers, no hour -- not just the hour before the last decision -- *)
(* holds more than MaxAttempts authorized entries.                          *)
RollingRate == \A t \in Times : Cardinality(Window(rows, t)) <= MaxAttempts

(* "one live exit per contract" (orders.py:240) and "one pending intent per *)
(* underlying" (orders.py:139), over every interleaving of reservations,    *)
(* expiries, claims and releases.                                           *)
ExclusiveIntents ==
    /\ \A j, k \in ExitKeys :
          (rows[j].status = "claimed" /\ rows[k].status = "claimed"
            /\ ContractOf[j] = ContractOf[k]) => j = k
    /\ \A j, k \in Active(rows) : Underlying(j) = Underlying(k) => j = k

(* The journal implements IntentLifecycle: a decision key is decided once,  *)
(* reserved and claimed intents own their underlying (entries) or contract  *)
(* (exits) alone, and a claimed intent "never auto-expires" (orders.py:11): *)
(* only a resolution of its own ends it.                                    *)
Phase(status) ==
    CASE status = "absent"   -> "new"
      [] status = "rejected" -> "refused"
      [] status = "reserved" -> "held"
      [] status = "claimed"  -> "committed"
      [] OTHER               -> "ended"

Lifecycle ==
    INSTANCE IntentLifecycle WITH
        Intents    <- Keys,
        ResourceOf <- [k \in Keys |-> IF k \in EntryKeys THEN <<"entry", Underlying(k)>>
                                                         ELSE <<"exit", ContractOf[k]>>],
        phase      <- [k \in Keys |-> Phase(rows[k].status)]

LifecycleSpec == Lifecycle!Spec

(* A body leaves claim() only while its authorization lives: on the day of  *)
(* the reservation, not before it and less than TTL after it, and with the  *)
(* switch on ARMED_PAPER when the transaction commits (orders.py:140, 219). *)
ClaimIsTimely ==
    [][\A k \in EntryKeys :
          rows[k].status # "claimed" /\ rows'[k].status = "claimed" =>
             /\ rows[k].status = "reserved"
             /\ control = "ARMED_PAPER"
             /\ txn.day = rows[k].day
             /\ rows[k].created <= txn.now /\ txn.now < rows[k].created + TTL]_rows
=============================================================================
