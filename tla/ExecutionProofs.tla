--------------------------- MODULE ExecutionProofs ---------------------------
(***************************************************************************)
(* Proofs about PaperExecution, for every set of keys, contracts and days,  *)
(* every limit, every exit the rules may take and every command in use:     *)
(* one attempt per order over crashes, time-outs and commands, a slot freed *)
(* only on proof, and no order without its intent.                          *)
(***************************************************************************)
EXTENDS PaperExecution, OrderJournalProofs

Committed   == {"claimed"} \cup Resolved
Reading     == {"activities", "positions", "orders", "lookups"}
OrderStates == {"none", "open", "filled", "canceled"}

Places ==
    Reading \cup {"idle", "exits", "reserve", "claim", "send", "wait", "release", "flatten"}

Process ==
    [pc : Places, key : Keys \cup {"none"}, reply : {"none", "taken", "refused"},
     day : Days \cup {0}, mode : Modes \cup {"none"}, inv : [Contracts -> Nat]]

BrokerOK ==
    /\ wire \subseteq Keys /\ traced \subseteq Keys
    /\ order \in [Keys -> OrderStates]
    /\ booked \subseteq posted /\ posted \subseteq Filled
    /\ skipped \subseteq posted \ booked
    /\ Lots(booked) \in [Contracts -> Nat]
    /\ today \in Days

ProcOK == proc \in [Processes -> Process]

ViewOK ==
    /\ DOMAIN view = DOMAIN NoView
    /\ view.live \subseteq Keys /\ view.open \subseteq Keys /\ DOMAIN view.look \subseteq view.live

(* What the controller needs of its own record at each place of the cycle.  *)
CycleOK ==
    /\ txn # NoTxn => /\ proc["controller"].pc \in Reading
                      /\ proc["controller"].key = txn.key
    /\ proc["controller"].pc # "idle" => proc["controller"].day \in Days
    /\ proc["controller"].pc \in {"reserve", "claim"} => proc["controller"].key \in EntryKeys
    /\ proc["command"].pc = "flatten" => proc["command"].key \in FlattenKeys

(* What has left was recorded before, and what was recorded is committed:   *)
(* the journal never lets such a row go back.                               *)
Posted ==
    \A k \in Keys :
        /\ k \in wire => order[k] = "none"
        /\ k \in wire \/ order[k] # "none" => k \in traced
        /\ k \in traced => rows[k].status \in Committed

(* What a process in the middle of a submission holds.                      *)
InHand ==
    \A p \in Processes :
        /\ proc[p].pc = "send" =>
              /\ proc[p].key \in Keys /\ proc[p].key \notin traced
              /\ rows[proc[p].key].status \in Committed
        /\ proc[p].pc = "wait" => proc[p].key \in Keys /\ proc[p].key \in traced
        /\ proc[p].pc = "release" => proc[p].key \in Keys /\ "release" \in Commands
        /\ proc[p].reply # "none" => proc[p].pc = "wait"
        /\ proc[p].reply = "refused" => proc[p].key \notin wire /\ order[proc[p].key] = "none"

OneSender ==
    \A p, q \in Processes :
        proc[p].pc = "send" /\ proc[q].pc = "send" /\ proc[p].key = proc[q].key => p = q

(* A status read in a lookup and final is still the order's.                *)
Known ==
    \A k \in DOMAIN view.look : view.look[k] \in TerminalStatuses => order[k] = view.look[k]

(* Without release-intent, only a dry run releases, before anything left.   *)
Released ==
    "release" \notin Commands => \A k \in Keys : rows[k].status = "released_manual" => k \notin traced

Hands == Posted /\ InHand /\ OneSender /\ DefinitiveRelease /\ Released

PInv == JInv /\ BrokerOK /\ ProcOK /\ ViewOK /\ CycleOK /\ Hands /\ Known

-----------------------------------------------------------------------------
(* Steps that leave what is under way alone.                                *)

(* How one row may change: not at all; among the statuses that commit to    *)
(* nothing, or into a claim; or by a settlement that has its proof.         *)
Proper(k) ==
    /\ rows'[k].status = "resolved" => k \notin wire /\ order[k] \in TerminalStatuses
    /\ rows'[k].status = "unplaced" => k \notin wire /\ order[k] = "none"
    /\ rows'[k].status = "released_manual" => "release" \in Commands \/ k \notin traced

Uncommitted(k) == rows[k].status \notin Committed /\ rows'[k].status \notin Resolved

RowMoves(k) ==
    \/ rows'[k].status = rows[k].status
    \/ Uncommitted(k)
    \/ rows[k].status = "claimed" /\ rows'[k].status \in Resolved /\ Proper(k)

(* How a process may change outside a submission.                           *)
Outside(r) ==
    /\ r.pc \notin {"send", "wait"} /\ r.reply = "none"
    /\ r.pc = "release" => r.key \in Keys /\ "release" \in Commands

Elsewhere(p) == proc'[p] = proc[p] \/ Outside(proc'[p])

LEMMA CalmStep ==
    ASSUME ProcOK, Hands, UNCHANGED <<wire, order, traced>>,
           \A k \in Keys : RowMoves(k),
           \A p \in Processes : Elsewhere(p)
    PROVE  Hands'
  <1> USE DEF Hands
  <1>1. \A k \in Keys : rows[k].status \in Committed => rows'[k].status \in Committed
    BY DEF RowMoves, Uncommitted, Committed
  <1>2. Posted'
    BY <1>1 DEF Posted
  <1>3. InHand'
    <2> SUFFICES ASSUME NEW p \in Processes
                 PROVE  InHand!(p)'
      BY DEF InHand
    <2>1. CASE proc'[p] = proc[p]
      BY <1>1, <2>1 DEF InHand
    <2>2. CASE Outside(proc'[p])
      BY <2>2 DEF Outside
    <2>3. QED
      BY <2>1, <2>2 DEF Elsewhere
  <1>4. OneSender'
    BY DEF OneSender, Elsewhere, Outside
  <1>5. DefinitiveRelease'
    BY DEF DefinitiveRelease, RowMoves, Uncommitted, Proper, Resolved
  <1>6. Released'
    BY DEF Released, RowMoves, Uncommitted, Proper, Resolved
  <1>7. QED
    BY <1>2, <1>3, <1>4, <1>5, <1>6

(* A process takes a row that has just been claimed.                        *)
LEMMA TakesClaim ==
    ASSUME ProcOK, Hands, UNCHANGED <<wire, order, traced>>,
           \A j \in Keys : RowMoves(j),
           NEW p \in Processes, NEW k \in Keys,
           rows[k].status \notin Committed, rows'[k].status = "claimed",
           proc'[p].pc = "send", proc'[p].key = k, proc'[p].reply = "none",
           \A q \in Processes \ {p} : proc'[q] = proc[q]
    PROVE  Hands'
  <1> USE DEF Hands
  <1>1. \A j \in Keys : rows[j].status \in Committed => rows'[j].status \in Committed
    BY DEF RowMoves, Uncommitted, Committed
  <1>2. Posted'
    BY <1>1 DEF Posted
  <1>3. k \notin traced /\ rows'[k].status \in Committed
    BY DEF Posted, Committed
  <1>4. InHand'
    <2> SUFFICES ASSUME NEW q \in Processes
                 PROVE  InHand!(q)'
      BY DEF InHand
    <2>1. CASE q = p
      BY <1>3, <2>1
    <2>2. CASE q # p
      BY <1>1, <2>2 DEF InHand
    <2>3. QED
      BY <2>1, <2>2
  <1>5. OneSender'
    <2>1. \A q \in Processes \ {p} : proc[q].pc = "send" => proc[q].key # k
      BY DEF InHand
    <2>2. QED
      BY <2>1 DEF OneSender
  <1>6. DefinitiveRelease' /\ Released'
    BY DEF DefinitiveRelease, Released, RowMoves, Uncommitted, Proper, Resolved
  <1>7. QED
    BY <1>2, <1>4, <1>5, <1>6
-----------------------------------------------------------------------------
(* The methods of the journal as moves of single rows.                      *)
LEMMA MoveOfLapse ==
    ASSUME rows \in [Keys -> Row], NEW now \in Times, NEW j \in Keys,
           rows'[j] = Expire(rows, now)[j]
    PROVE  RowMoves(j)
  <1> DEFINE after == Expire(rows, now)[j]
  <1>1. \/ after = rows[j]
        \/ rows[j].status = "reserved" /\ after.status \in {rows[j].status, "expired"}
    BY ExpireRow, ExpireStatus
  <1> HIDE DEF after
  <1>2. rows'[j] = after
    BY DEF after
  <1>3. QED
    BY <1>1, <1>2 DEF RowMoves, Uncommitted, Committed, Resolved

LEMMA MovesOfExpiry ==
    ASSUME JInv, NEW now \in Times, rows' = Expire(rows, now)
    PROVE  \A j \in Keys : RowMoves(j)
  BY MoveOfLapse DEF JInv, JTypeOK

LEMMA MovesOfInsert ==
    ASSUME JInv, NEW now \in Times, NEW day \in Days, NEW k \in Keys, rows[k].status = "absent",
           NEW s \in {"rejected", "reserved", "claimed"}, rows' = Insert(k, s, now, day)
    PROVE  /\ \A j \in Keys : RowMoves(j)
           /\ rows'[k].status = s
  <1>1. rows \in [Keys -> Row] /\ s \in Statuses
    BY DEF JInv, JTypeOK, Statuses, Live
  <1>2. /\ rows'[k].status = s
        /\ \A j \in Keys \ {k} : rows'[j] = Expire(rows, now)[j]
    BY <1>1, InsertRow
  <1>3. RowMoves(k)
    BY <1>2 DEF RowMoves, Uncommitted, Committed, Resolved
  <1>4. \A j \in Keys \ {k} : RowMoves(j)
    BY <1>1, <1>2, MoveOfLapse
  <1>5. QED
    BY <1>2, <1>3, <1>4

LEMMA MovesOfClaim ==
    ASSUME JInv, NEW now \in Times, NEW k \in Keys, Expire(rows, now)[k].status = "reserved",
           NEW s \in {"claimed", "revoked"}, rows' = SetStatus(Expire(rows, now), k, s)
    PROVE  /\ \A j \in Keys : RowMoves(j)
           /\ rows[k].status = "reserved" /\ rows'[k].status = s
  <1>1. /\ rows \in [Keys -> Row] /\ s \in Statuses /\ Expire(rows, now) \in [Keys -> Row]
        /\ rows[k].status = "reserved"
    BY ExpireRow DEF JInv, JTypeOK, Statuses, Live
  <1>2. /\ rows'[k].status = s
        /\ \A j \in Keys \ {k} : rows'[j] = Expire(rows, now)[j]
    BY <1>1, SetStatusRow
  <1>3. RowMoves(k)
    BY <1>1, <1>2 DEF RowMoves, Uncommitted, Committed, Resolved
  <1>4. \A j \in Keys \ {k} : RowMoves(j)
    BY <1>1, <1>2, MoveOfLapse
  <1>5. QED
    BY <1>1, <1>2, <1>3, <1>4

LEMMA MovesOfReserveCommit ==
    ASSUME JInv, NEW base, ReserveCommit(base)
    PROVE  /\ \A j \in Keys : RowMoves(j)
           /\ txn.key \in EntryKeys /\ txn' = NoTxn
  <1>1. /\ txn.key \in EntryKeys /\ txn.key \in Keys /\ txn.now \in Times /\ txn.day \in Days
        /\ rows[txn.key].status = "absent" /\ txn' = NoTxn
    BY DEF JInv, JTypeOK, TxnInv, ReserveCommit, Txn, NoTxn, Keys
  <1>2. \E s \in {"reserved", "rejected"} : rows' = Insert(txn.key, s, txn.now, txn.day)
    BY DEF ReserveCommit
  <1>3. QED
    BY <1>1, <1>2, MovesOfInsert

LEMMA MovesOfClaimCommit ==
    ASSUME JInv, NEW base, ClaimCommit(base)
    PROVE  /\ \A j \in Keys : RowMoves(j)
           /\ txn.key \in EntryKeys /\ txn' = NoTxn
           /\ rows[txn.key].status \notin Committed
  <1>1. /\ txn.key \in EntryKeys /\ txn.key \in Keys /\ txn.now \in Times /\ txn' = NoTxn
        /\ Expire(rows, txn.now)[txn.key].status = "reserved"
    BY OpenClaim DEF ClaimCommit, Keys
  <1>2. \E s \in {"claimed", "revoked"} : rows' = SetStatus(Expire(rows, txn.now), txn.key, s)
    BY DEF ClaimCommit
  <1>3. (\A j \in Keys : RowMoves(j)) /\ rows[txn.key].status = "reserved"
    BY <1>1, <1>2, MovesOfClaim
  <1>4. QED
    BY <1>1, <1>3 DEF Committed, Resolved

LEMMA MovesOfPrepare ==
    ASSUME JInv, NEW k \in ExitKeys, NEW held, NEW now \in Times, NEW day \in Days,
           PrepareExit(k, held, now, day)
    PROVE  /\ \A j \in Keys : RowMoves(j)
           /\ rows[k].status \notin Committed
  <1>1. k \in Keys /\ rows[k].status = "absent"
    BY DEF PrepareExit, Keys
  <1>2. \E s \in {"claimed", "rejected"} : rows' = Insert(k, s, now, day)
    BY DEF PrepareExit
  <1>3. \A j \in Keys : RowMoves(j)
    BY <1>1, <1>2, MovesOfInsert
  <1>4. QED
    BY <1>1, <1>3 DEF Committed, Resolved

(* The settlements, each of which must be proper.                           *)
LEMMA MovesOfSettlement ==
    ASSUME JInv, NEW k \in Keys, rows[k].status = "claimed",
           NEW s \in Resolved, rows' = SetStatus(rows, k, s),
           s = "resolved" => k \notin wire /\ order[k] \in TerminalStatuses,
           s = "unplaced" => k \notin wire /\ order[k] = "none",
           s = "released_manual" => "release" \in Commands \/ k \notin traced
    PROVE  \A j \in Keys : RowMoves(j)
  <1>1. rows \in [Keys -> Row] /\ s \in Statuses
    BY DEF JInv, JTypeOK, Statuses
  <1>2. rows'[k].status = s /\ \A j \in Keys \ {k} : rows'[j] = rows[j]
    BY <1>1, SetStatusRow
  <1>3. RowMoves(k)
    BY <1>2 DEF RowMoves, Proper
  <1>4. QED
    BY <1>2, <1>3 DEF RowMoves

LEMMA MovesOfMark ==
    ASSUME JInv, NEW k \in Keys, MarkSubmitted(k)
    PROVE  \A j \in Keys : RowMoves(j)
  BY DEF JInv, JTypeOK, MarkSubmitted, RowMoves, Row

-----------------------------------------------------------------------------
(* The records of the processes.                                            *)
LEMMA NoLotsType == NoLots \in [Contracts -> Nat]
  BY DEF NoLots

LEMMA IdleIsProcess == Idle \in Process /\ Idle.pc = "idle" /\ Idle.reply = "none"
  BY NoLotsType DEF Idle, Process, Places

LEMMA LotsType ==
    ASSUME NEW S
    PROVE  Lots(S) \in [Contracts -> Int]
  <1> SUFFICES ASSUME NEW c \in Contracts
               PROVE  Lots(S)[c] \in Int
    BY DEF Lots
  <1> DEFINE B == {k \in S \cap EntryKeys : ContractOf[k] = c}
             X == {k \in S \cap ExitKeys : ContractOf[k] = c}
  <1>1. IsFiniteSet(B) /\ IsFiniteSet(X)
    BY JournalConstants, FS_Subset DEF Keys
  <1>2. Cardinality(B) \in Nat /\ Cardinality(X) \in Nat
    BY <1>1, FS_CardinalityType
  <1>3. Lots(S)[c] = Cardinality(B) - Cardinality(X)
    BY DEF Lots
  <1> HIDE DEF B, X
  <1>4. QED
    BY <1>2, <1>3

(* A step of one process that neither begins nor ends a submission.         *)
LEMMA ProcElsewhere ==
    ASSUME ProcOK, NEW p \in Processes, NEW r \in Process, proc' = [proc EXCEPT ![p] = r],
           Outside(r)
    PROVE  /\ ProcOK' /\ proc'[p] = r
           /\ \A q \in Processes \ {p} : proc'[q] = proc[q]
           /\ \A q \in Processes : Elsewhere(q)
  <1>1. ProcOK' /\ proc'[p] = r /\ \A q \in Processes \ {p} : proc'[q] = proc[q]
    BY DEF ProcOK
  <1>2. QED
    BY <1>1 DEF Elsewhere

(* The view of a round of reads that begins, or of none.                    *)
LEMMA FreshView ==
    ASSUME NEW d, NEW b, view' = NoView \/ view' = [NoView EXCEPT !.day = d, !.second = b]
    PROVE  ViewOK' /\ Known'
  <1>1. DOMAIN <<>> = {}
    OBVIOUS
  <1>2. /\ view'.live = NoView.live /\ view'.open = NoView.open /\ view'.look = NoView.look
        /\ NoView.live = {} /\ NoView.open = {} /\ NoView.look = <<>>
    <2>1. CASE view' = NoView
      BY <2>1 DEF NoView
    <2>2. CASE view' = [NoView EXCEPT !.day = d, !.second = b]
      BY <2>2 DEF NoView
    <2>3. QED
      BY <2>1, <2>2
  <1>3. DOMAIN view' = DOMAIN NoView
    OBVIOUS
  <1>4. QED
    BY <1>1, <1>2, <1>3 DEF ViewOK, Known

(* What holds of the controller's record at any place.                      *)
LEMMA ControllerFacts ==
    ASSUME PInv
    PROVE  /\ proc["controller"] \in Process
           /\ proc["controller"].pc # "wait" => proc["controller"].reply = "none"
           /\ proc["controller"].pc # "idle" => proc["controller"].day \in Days
           /\ proc["controller"].pc \notin Reading => txn = NoTxn
           /\ txn # NoTxn => proc["controller"].key = txn.key
  BY DEF PInv, ProcOK, Processes, Hands, InHand, CycleOK

-----------------------------------------------------------------------------
(* A step of the controller, or of a command, outside a submission.         *)
LEMMA ControllerKeeps ==
    ASSUME PInv, JInv', BrokerOK', ViewOK', Known', UNCHANGED <<wire, order, traced>>,
           \A j \in Keys : RowMoves(j),
           NEW r \in Process, proc' = [proc EXCEPT !["controller"] = r],
           Outside(r),
           r.pc # "idle" => r.day \in Days,
           r.pc \in {"reserve", "claim"} => r.key \in EntryKeys,
           txn' # NoTxn => r.pc \in Reading /\ r.key = txn'.key
    PROVE  PInv'
  <1>1. /\ ProcOK' /\ proc'["controller"] = r
        /\ proc'["command"] = proc["command"] /\ \A q \in Processes : Elsewhere(q)
    BY ProcElsewhere DEF PInv, Processes
  <1>2. Hands'
    BY <1>1, CalmStep DEF PInv
  <1>3. CycleOK'
    BY <1>1 DEF PInv, CycleOK
  <1>4. QED
    BY <1>1, <1>2, <1>3 DEF PInv

LEMMA CommandKeeps ==
    ASSUME PInv, JInv', BrokerOK', UNCHANGED <<wire, order, traced, view>>,
           \A j \in Keys : RowMoves(j),
           NEW r \in Process, proc' = [proc EXCEPT !["command"] = r],
           Outside(r),
           r.pc = "flatten" => r.key \in FlattenKeys,
           txn' = txn
    PROVE  PInv'
  <1>1. /\ ProcOK' /\ proc'["command"] = r
        /\ proc'["controller"] = proc["controller"] /\ \A q \in Processes : Elsewhere(q)
    BY ProcElsewhere DEF PInv, Processes
  <1>2. Hands'
    BY <1>1, CalmStep DEF PInv
  <1>3. CycleOK'
    BY <1>1 DEF PInv, CycleOK
  <1>4. ViewOK' /\ Known'
    BY DEF PInv, ViewOK, Known
  <1>5. QED
    BY <1>1, <1>2, <1>3, <1>4 DEF PInv

LEMMA SameJournal ==
    ASSUME PInv, UNCHANGED jvars
    PROVE  JInv' /\ (\A j \in Keys : RowMoves(j)) /\ txn' = txn
  BY StepKeepsInv DEF PInv, jvars, RowMoves

LEMMA SameBroker ==
    ASSUME PInv, UNCHANGED <<bvars, booked, skipped, traced>>
    PROVE  BrokerOK' /\ UNCHANGED <<wire, order, traced>>
  BY DEF PInv, BrokerOK, bvars, Filled, Lots

-----------------------------------------------------------------------------
(* The reads.                                                               *)
LEMMA StartReadingMoves ==
    ASSUME PInv, NEW b, StartReading(b), txn' = NoTxn \/ proc["controller"].pc # "idle"
    PROVE  \E r \in Process :
              /\ proc' = [proc EXCEPT !["controller"] = r]
              /\ r.pc = "activities" /\ r.day \in Days
              /\ r.key = proc["controller"].key /\ r.reply = proc["controller"].reply
  <1> DEFINE c == proc["controller"]
             d == IF txn' = NoTxn THEN today ELSE c.day
             r == [c EXCEPT !.pc = "activities", !.day = d]
  <1>1. c \in Process /\ d \in Days
    BY ControllerFacts DEF PInv, BrokerOK
  <1>2. ASSUME NEW x \in Process, NEW e \in Days
        PROVE  LET s == [x EXCEPT !.pc = "activities", !.day = e]
               IN  /\ s \in Process /\ s.pc = "activities" /\ s.day = e
                   /\ s.key = x.key /\ s.reply = x.reply
    BY DEF Process, Places, Reading
  <1>3. r \in Process /\ r.pc = "activities" /\ r.day = d /\ r.key = c.key /\ r.reply = c.reply
    BY <1>1, <1>2
  <1>4. proc' = [proc EXCEPT !["controller"] = r]
    BY DEF StartReading
  <1>5. QED
    BY <1>1, <1>3, <1>4

LEMMA BeginCycleKeeps == PInv /\ (BeginCycle \/ ReadAgain) => PInv'
  <1> SUFFICES ASSUME PInv, BeginCycle \/ ReadAgain PROVE PInv'
    OBVIOUS
  <1>1. /\ UNCHANGED <<jvars, bvars, booked, skipped, traced>>
        /\ proc["controller"].pc # "wait" /\ \E b \in BOOLEAN : StartReading(b)
    BY DEF BeginCycle, ReadAgain, AllRead, At
  <1>2. txn = NoTxn
    BY ControllerFacts DEF BeginCycle, ReadAgain, At, Reading
  <1>3. txn' = NoTxn
    BY <1>1, <1>2 DEF jvars
  <1>4. PICK b \in BOOLEAN : StartReading(b)
    BY <1>1
  <1>5. PICK r \in Process :
              /\ proc' = [proc EXCEPT !["controller"] = r]
              /\ r.pc = "activities" /\ r.day \in Days
              /\ r.key = proc["controller"].key /\ r.reply = proc["controller"].reply
    BY <1>3, <1>4, StartReadingMoves
  <1>6. ViewOK' /\ Known'
    BY <1>4, FreshView DEF StartReading
  <1>7. JInv' /\ BrokerOK' /\ UNCHANGED <<wire, order, traced>> /\ \A j \in Keys : RowMoves(j)
    BY <1>1, SameJournal, SameBroker
  <1>8. Outside(r)
    BY <1>1, <1>5, ControllerFacts DEF Outside
  <1>9. QED
    BY <1>3, <1>5, <1>6, <1>7, <1>8, ControllerKeeps

(* One read: the place, the view and perhaps the ledger change.             *)
LEMMA GotoMoves ==
    ASSUME PInv, NEW p \in Processes, NEW x \in Places, Goto(p, x)
    PROVE  \E r \in Process :
              /\ proc' = [proc EXCEPT ![p] = r] /\ r.pc = x
              /\ r.day = proc[p].day /\ r.key = proc[p].key /\ r.reply = proc[p].reply
  <1>1. ASSUME NEW y \in Process
        PROVE  LET s == [y EXCEPT !.pc = x]
               IN  s \in Process /\ s.pc = x /\ s.day = y.day /\ s.key = y.key /\ s.reply = y.reply
    BY DEF Process
  <1>2. proc[p] \in Process /\ proc' = [proc EXCEPT ![p] = [proc[p] EXCEPT !.pc = x]]
    BY DEF Goto, PInv, ProcOK
  <1>3. QED
    BY <1>1, <1>2

LEMMA ReadKeeps ==
    ASSUME PInv, NEW x \in Reading, Goto("controller", x), proc["controller"].pc \in Reading,
           UNCHANGED <<jvars, wire, order, traced>>, BrokerOK', ViewOK', Known'
    PROVE  PInv'
  <1>1. x \in Places /\ "controller" \in Processes
    BY DEF Places, Processes
  <1>2. PICK r \in Process :
              /\ proc' = [proc EXCEPT !["controller"] = r] /\ r.pc = x
              /\ r.day = proc["controller"].day /\ r.key = proc["controller"].key
              /\ r.reply = proc["controller"].reply
    BY <1>1, GotoMoves
  <1>3. proc["controller"].pc \notin {"wait", "idle"} /\ r.pc \notin {"send", "wait", "release", "reserve", "claim"}
    BY <1>2 DEF Reading
  <1>4. Outside(r) /\ r.day \in Days /\ (txn # NoTxn => r.key = txn.key)
    BY <1>2, <1>3, ControllerFacts DEF Outside
  <1>5. JInv' /\ (\A j \in Keys : RowMoves(j)) /\ txn' = txn
    BY SameJournal
  <1>6. QED
    BY <1>2, <1>3, <1>4, <1>5, ControllerKeeps

LEMMA ReadActivitiesKeeps == PInv /\ ReadActivities => PInv'
  <1> SUFFICES ASSUME PInv, ReadActivities PROVE PInv'
    OBVIOUS
  <1>1. PICK S \in SUBSET posted, b \in BOOLEAN :
          /\ \A c \in Contracts : Lots(S)[c] >= 0
          /\ booked' = S /\ skipped' = posted \ S
          /\ view' = [view EXCEPT !.complete = b]
    BY DEF ReadActivities, Books
  <1>2. Lots(S) \in [Contracts -> Nat]
    BY <1>1, LotsType
  <1>3. BrokerOK' /\ UNCHANGED <<jvars, wire, order, traced>>
    BY <1>1, <1>2 DEF ReadActivities, PInv, BrokerOK, bvars, Filled, Lots
  <1>4. /\ DOMAIN view' = DOMAIN view /\ view'.live = view.live /\ view'.open = view.open
        /\ view'.look = view.look
    BY <1>1 DEF PInv, ViewOK, NoView
  <1>5. ViewOK' /\ Known'
    BY <1>3, <1>4 DEF PInv, ViewOK, Known
  <1>6. QED
    BY <1>3, <1>5, ReadKeeps DEF ReadActivities, At, Reading

LEMMA HistoryFailsKeeps == PInv /\ HistoryFails => PInv'
  <1> SUFFICES ASSUME PInv, HistoryFails PROVE PInv'
    OBVIOUS
  <1>1. BrokerOK' /\ UNCHANGED <<jvars, wire, order, traced>>
    BY SameBroker DEF HistoryFails
  <1>2. /\ DOMAIN view' = DOMAIN view /\ view'.live = view.live /\ view'.open = view.open
        /\ view'.look = view.look
    BY DEF HistoryFails, PInv, ViewOK, NoView
  <1>3. ViewOK' /\ Known'
    BY <1>1, <1>2 DEF PInv, ViewOK, Known
  <1>4. QED
    BY <1>1, <1>3, ReadKeeps DEF HistoryFails, At, Reading

LEMMA ReadPositionsKeeps == PInv /\ ReadPositions => PInv'
  <1> SUFFICES ASSUME PInv, ReadPositions PROVE PInv'
    OBVIOUS
  <1>1. BrokerOK' /\ UNCHANGED <<jvars, wire, order, traced>>
    BY SameBroker DEF ReadPositions
  <1>2. /\ DOMAIN view' = DOMAIN view /\ view'.live = view.live /\ view'.open = view.open
        /\ view'.look = view.look
    BY DEF ReadPositions, PInv, ViewOK, NoView
  <1>3. ViewOK' /\ Known'
    BY <1>1, <1>2 DEF PInv, ViewOK, Known
  <1>4. QED
    BY <1>1, <1>3, ReadKeeps DEF ReadPositions, At, Reading

LEMMA ReadOrdersKeeps == PInv /\ ReadOrders => PInv'
  <1> SUFFICES ASSUME PInv, ReadOrders PROVE PInv'
    OBVIOUS
  <1>1. BrokerOK' /\ UNCHANGED <<jvars, wire, order, traced>>
    BY SameBroker DEF ReadOrders
  <1>2. /\ DOMAIN view' = DOMAIN view /\ view'.live = Claimed
        /\ view'.open = {k \in Keys : order[k] = "open"} /\ view'.look = <<>>
    BY DEF ReadOrders, PInv, ViewOK, NoView
  <1>3. DOMAIN <<>> = {}
    OBVIOUS
  <1>4. ViewOK' /\ Known'
    BY <1>2, <1>3 DEF PInv, ViewOK, Known, Claimed
  <1>5. QED
    BY <1>1, <1>4, ReadKeeps DEF ReadOrders, At, Reading

(* A step in which no process moves.                                        *)
LEMMA NobodyMoves ==
    ASSUME PInv, JInv', BrokerOK', ViewOK', Known', UNCHANGED <<wire, order, traced, proc>>,
           \A j \in Keys : RowMoves(j), txn' = txn
    PROVE  PInv'
  <1>1. Hands'
    BY CalmStep DEF PInv, Elsewhere
  <1>2. QED
    BY <1>1 DEF PInv, ProcOK, CycleOK

LEMMA LookUpKeeps == ASSUME PInv, NEW k \in Keys, LookUp(k) PROVE PInv'
  <1>1. /\ BrokerOK' /\ UNCHANGED <<wire, order, traced, proc>>
        /\ JInv' /\ (\A j \in Keys : RowMoves(j)) /\ txn' = txn
    BY SameBroker, SameJournal DEF LookUp
  <1>2. /\ DOMAIN view' = DOMAIN view /\ view'.live = view.live /\ view'.open = view.open
        /\ view'.look = [j \in DOMAIN view.look \cup {k} |-> IF j = k THEN order[k] ELSE view.look[j]]
        /\ k \in view.live
    BY DEF LookUp, PInv, ViewOK, NoView
  <1>3. DOMAIN view'.look = DOMAIN view.look \cup {k}
    BY <1>2
  <1>4. ViewOK'
    BY <1>2, <1>3 DEF PInv, ViewOK
  <1>5. Known'
    BY <1>1, <1>2 DEF PInv, Known
  <1>6. QED
    BY <1>1, <1>4, <1>5, NobodyMoves

-----------------------------------------------------------------------------
(* The cycle between the reads.                                             *)
LEMMA EndCycleKeeps ==
    ASSUME PInv, JInv', BrokerOK', UNCHANGED <<wire, order, traced>>,
           \A j \in Keys : RowMoves(j), EndCycle, txn' = NoTxn
    PROVE  PInv'
  <1>1. ViewOK' /\ Known'
    BY FreshView DEF EndCycle
  <1>2. Outside(Idle)
    BY IdleIsProcess DEF Outside
  <1>3. QED
    BY <1>1, <1>2, IdleIsProcess, ControllerKeeps DEF EndCycle

LEMMA JournalKeeps ==
    ASSUME PInv, JournalStep
    PROVE  JInv'
  BY StepKeepsInv DEF PInv

LEMMA ReadFailsKeeps == PInv /\ ReadFails => PInv'
  <1> SUFFICES ASSUME PInv, ReadFails PROVE PInv'
    OBVIOUS
  <1>1. BrokerOK' /\ UNCHANGED <<wire, order, traced>> /\ EndCycle
    BY SameBroker DEF ReadFails
  <1>2. CASE txn = NoTxn /\ UNCHANGED jvars
    BY <1>1, <1>2, SameJournal, EndCycleKeeps
  <1>3. CASE ReserveCommit(ProviderError)
    <2>1. JInv' /\ (\A j \in Keys : RowMoves(j)) /\ txn' = NoTxn
      BY <1>3, JournalKeeps, MovesOfReserveCommit DEF JournalStep, PInv
    <2>2. QED
      BY <1>1, <2>1, EndCycleKeeps
  <1>4. CASE ClaimCommit(ProviderError)
    <2>1. JInv' /\ (\A j \in Keys : RowMoves(j)) /\ txn' = NoTxn
      BY <1>4, JournalKeeps, MovesOfClaimCommit DEF JournalStep, PInv
    <2>2. QED
      BY <1>1, <2>1, EndCycleKeeps
  <1>5. QED
    BY <1>2, <1>3, <1>4 DEF ReadFails

LEMMA StopKeeps == PInv /\ (Halt \/ NoProposal) => PInv'
  <1> SUFFICES ASSUME PInv, Halt \/ NoProposal PROVE PInv'
    OBVIOUS
  <1>1. BrokerOK' /\ UNCHANGED <<wire, order, traced>> /\ EndCycle /\ UNCHANGED jvars
    BY SameBroker DEF Halt, NoProposal
  <1>2. txn = NoTxn
    BY ControllerFacts DEF Halt, Settled, NoProposal, At, Reading
  <1>3. QED
    BY <1>1, <1>2, SameJournal, EndCycleKeeps

(* An intent is resolved from a lookup whose answer is still the order's.   *)
LEMMA ResolveIntentKeeps == ASSUME PInv, NEW k \in Keys, ResolveIntent(k) PROVE PInv'
  <1>1. /\ BrokerOK' /\ UNCHANGED <<wire, order, traced, proc>>
        /\ Resolve(k, view.look[k]) /\ k \in DOMAIN view.look
    BY SameBroker DEF ResolveIntent, ToResolve, Resolvable, AllRead
  <1>2. /\ rows[k].status = "claimed" /\ rows' = SetStatus(rows, k, "resolved")
        /\ txn' = txn /\ view.look[k] \in TerminalStatuses
    BY <1>1 DEF Resolve
  <1>3. order[k] \in TerminalStatuses
    BY <1>1, <1>2 DEF PInv, Known
  <1>4. k \notin wire
    BY <1>3 DEF PInv, Hands, Posted, TerminalStatuses
  <1>5. (\A j \in Keys : RowMoves(j)) /\ JInv'
    BY <1>1, <1>2, <1>3, <1>4, MovesOfSettlement, JournalKeeps DEF PInv, Resolved, JournalStep
  <1>6. /\ DOMAIN view' = DOMAIN view /\ view'.live = view.live /\ view'.open = view.open
        /\ view'.look = view.look
    BY DEF ResolveIntent, PInv, ViewOK, NoView
  <1>7. ViewOK' /\ Known'
    BY <1>1, <1>6 DEF PInv, ViewOK, Known
  <1>8. QED
    BY <1>1, <1>2, <1>5, <1>7, NobodyMoves

LEMMA ProceedKeeps == PInv /\ Proceed => PInv'
  <1> SUFFICES ASSUME PInv, Proceed PROVE PInv'
    OBVIOUS
  <1> DEFINE c == proc["controller"]
             now  == control
             held == Lots(booked)
             r == [c EXCEPT !.pc = "exits", !.mode = now, !.inv = held]
  <1>1. /\ BrokerOK' /\ UNCHANGED <<wire, order, traced>> /\ view' = NoView
        /\ JInv' /\ (\A j \in Keys : RowMoves(j)) /\ txn' = txn
    BY SameBroker, SameJournal DEF Proceed
  <1>2. txn = NoTxn /\ c.pc = "lookups"
    BY DEF Proceed, Settled, AllRead, At
  <1>3. c \in Process /\ c.reply = "none" /\ c.day \in Days
    BY <1>2, ControllerFacts
  <1>4. now \in Modes /\ held \in [Contracts -> Nat]
    BY DEF PInv, JInv, JTypeOK, BrokerOK
  <1>5. ASSUME NEW x \in Process, NEW m \in Modes, NEW inv \in [Contracts -> Nat]
        PROVE  LET s == [x EXCEPT !.pc = "exits", !.mode = m, !.inv = inv]
               IN  s \in Process /\ s.pc = "exits" /\ s.reply = x.reply /\ s.day = x.day
    BY DEF Process, Places
  <1>6. proc' = [proc EXCEPT !["controller"] = r]
    BY DEF Proceed
  <1> HIDE DEF now, held
  <1>7. r \in Process /\ r.pc = "exits" /\ r.reply = "none" /\ r.day \in Days
    <2>1. c \in Process /\ now \in Modes /\ held \in [Contracts -> Nat]
      BY <1>3, <1>4
    <2> HIDE DEF c
    <2>2. QED
      BY <2>1, <1>3, <1>5
  <1> HIDE DEF r
  <1>8. Outside(r) /\ ViewOK' /\ Known'
    BY <1>1, <1>7, FreshView DEF Outside
  <1>9. QED
    BY <1>1, <1>2, <1>6, <1>7, <1>8, ControllerKeeps

LEMMA ProposeKeeps == ASSUME PInv, NEW k \in EntryKeys, Propose(k) PROVE PInv'
  <1> DEFINE c == proc["controller"]
             r == [c EXCEPT !.pc = "reserve", !.key = k, !.inv = NoLots]
  <1>1. /\ BrokerOK' /\ UNCHANGED <<wire, order, traced>> /\ view' = view
        /\ JInv' /\ (\A j \in Keys : RowMoves(j)) /\ txn' = txn
    BY SameBroker, SameJournal DEF Propose
  <1>2. txn = NoTxn /\ c.pc = "exits" /\ k \in Keys
    BY DEF Propose, At, Keys
  <1>3. c \in Process /\ c.reply = "none" /\ c.day \in Days
    BY <1>2, ControllerFacts
  <1>4. ASSUME NEW x \in Process
        PROVE  LET s == [x EXCEPT !.pc = "reserve", !.key = k, !.inv = NoLots]
               IN  s \in Process /\ s.pc = "reserve" /\ s.key = k /\ s.reply = x.reply /\ s.day = x.day
    BY <1>2, NoLotsType DEF Process, Places
  <1>5. r \in Process /\ r.pc = "reserve" /\ r.key = k /\ r.reply = "none" /\ r.day \in Days
    BY <1>3, <1>4
  <1>6. proc' = [proc EXCEPT !["controller"] = r]
    BY DEF Propose
  <1> HIDE DEF r
  <1>7. Outside(r) /\ ViewOK' /\ Known'
    BY <1>1, <1>5 DEF Outside, PInv, ViewOK, Known
  <1>8. QED
    BY <1>1, <1>2, <1>5, <1>6, <1>7, ControllerKeeps

-----------------------------------------------------------------------------
(* A process goes on to send the row it has just claimed.                   *)
LEMMA TakeKeeps ==
    ASSUME PInv, JInv', BrokerOK', ViewOK', Known', UNCHANGED <<wire, order, traced>>,
           \A j \in Keys : RowMoves(j),
           NEW p \in Processes, NEW k \in Keys,
           rows[k].status \notin Committed, rows'[k].status = "claimed",
           NEW r \in Process, proc' = [proc EXCEPT ![p] = r],
           r.pc = "send", r.key = k, r.reply = "none",
           p = "controller" => r.day \in Days,
           txn' = NoTxn
    PROVE  PInv'
  <1>1. ProcOK' /\ proc'[p] = r /\ \A q \in Processes \ {p} : proc'[q] = proc[q]
    BY DEF PInv, ProcOK
  <1>2. Hands'
    BY <1>1, TakesClaim DEF PInv
  <1>3. CycleOK'
    BY <1>1 DEF PInv, CycleOK, Processes
  <1>4. QED
    BY <1>1, <1>2, <1>3 DEF PInv

(* The record of a process that sends next.                                 *)
LEMMA SenderRecord ==
    ASSUME NEW x \in Process, NEW k \in Keys
    PROVE  LET s == [x EXCEPT !.pc = "send", !.key = k]
           IN  s \in Process /\ s.pc = "send" /\ s.key = k /\ s.reply = x.reply /\ s.day = x.day
  BY DEF Process, Places

LEMMA ReserveKeeps == ASSUME PInv, NEW now \in Times, Reserve(now) PROVE PInv'
  <1> DEFINE k == proc["controller"].key
             day == proc["controller"].day
  <1>1. /\ k \in EntryKeys /\ k \in Keys /\ day \in Days /\ proc["controller"].reply = "none"
        /\ proc["controller"].pc = "reserve"
        /\ BrokerOK' /\ UNCHANGED <<wire, order, traced>>
    BY ControllerFacts, SameBroker DEF Reserve, At, PInv, CycleOK, Keys
  <1> HIDE DEF k, day
  <1>2. CASE ReserveDisabled(k, now, day) /\ EndCycle
    <2>1. JInv' /\ rows' = Insert(k, "rejected", now, day) /\ rows[k].status = "absent" /\ txn' = NoTxn
      BY <1>1, <1>2, JournalKeeps DEF JournalStep, ReserveDisabled
    <2>2. \A j \in Keys : RowMoves(j)
      BY <1>1, <2>1, MovesOfInsert DEF PInv
    <2>3. QED
      BY <1>1, <1>2, <2>1, <2>2, EndCycleKeeps
  <1>3. CASE ReserveBegin(k, now, day) /\ StartReading(FALSE)
    <2>1. JInv' /\ rows' = rows /\ txn'.key = k
      BY <1>1, <1>3, JournalKeeps DEF JournalStep, ReserveBegin
    <2>2. PICK r \in Process :
              /\ proc' = [proc EXCEPT !["controller"] = r]
              /\ r.pc = "activities" /\ r.day \in Days
              /\ r.key = proc["controller"].key /\ r.reply = proc["controller"].reply
      BY <1>1, <1>3, StartReadingMoves
    <2>3. ViewOK' /\ Known'
      BY <1>3, FreshView DEF StartReading
    <2>4. Outside(r) /\ r.key = k
      BY <1>1, <2>2 DEF Outside, k
    <2>5. \A j \in Keys : RowMoves(j)
      BY <2>1 DEF RowMoves
    <2>6. QED
      BY <1>1, <2>1, <2>2, <2>3, <2>4, <2>5, ControllerKeeps DEF Reading
  <1>4. QED
    BY <1>2, <1>3 DEF Reserve, k, day

LEMMA ReservedKeeps == PInv /\ Reserved => PInv'
  <1> SUFFICES ASSUME PInv, Reserved PROVE PInv'
    OBVIOUS
  <1>1. /\ BrokerOK' /\ UNCHANGED <<wire, order, traced>>
        /\ ReserveCommit(RiskState(txn.now)) /\ proc["controller"].pc = "lookups"
        /\ txn.op = "reserve" /\ txn # NoTxn
    BY SameBroker DEF Reserved, AllRead, At, NoTxn
  <1>2. /\ JInv' /\ (\A j \in Keys : RowMoves(j)) /\ txn' = NoTxn
        /\ txn.key \in EntryKeys
    BY <1>1, JournalKeeps, MovesOfReserveCommit DEF JournalStep, PInv
  <1>3. CASE EndCycle
    BY <1>1, <1>2, <1>3, EndCycleKeeps
  <1>4. CASE Goto("controller", "claim") /\ view' = NoView
    <2>1. "claim" \in Places /\ "controller" \in Processes
      BY DEF Places, Processes
    <2>2. PICK r \in Process :
              /\ proc' = [proc EXCEPT !["controller"] = r] /\ r.pc = "claim"
              /\ r.day = proc["controller"].day /\ r.key = proc["controller"].key
              /\ r.reply = proc["controller"].reply
      BY <1>4, <2>1, GotoMoves
    <2>3. Outside(r) /\ r.day \in Days /\ r.key = txn.key
      BY <1>1, <2>2, ControllerFacts DEF Outside
    <2>4. ViewOK' /\ Known'
      BY <1>4, FreshView
    <2>5. QED
      BY <1>1, <1>2, <2>2, <2>3, <2>4, ControllerKeeps
  <1>5. QED
    BY <1>3, <1>4 DEF Reserved

LEMMA ClaimKeeps == ASSUME PInv, NEW now \in Times, Claim(now) PROVE PInv'
  <1> DEFINE k == proc["controller"].key
             day == proc["controller"].day
  <1>1. /\ k \in EntryKeys /\ k \in Keys /\ day \in Days /\ proc["controller"].reply = "none"
        /\ proc["controller"].pc = "claim"
        /\ BrokerOK' /\ UNCHANGED <<wire, order, traced>>
    BY ControllerFacts, SameBroker DEF Claim, At, PInv, CycleOK, Keys
  <1> HIDE DEF k, day
  <1>2. CASE ClaimBegin(k, now, day) /\ StartReading(FALSE)
    <2>1. JInv' /\ rows' = rows /\ txn'.key = k
      BY <1>1, <1>2, JournalKeeps DEF JournalStep, ClaimBegin
    <2>2. PICK r \in Process :
              /\ proc' = [proc EXCEPT !["controller"] = r]
              /\ r.pc = "activities" /\ r.day \in Days
              /\ r.key = proc["controller"].key /\ r.reply = proc["controller"].reply
      BY <1>1, <1>2, StartReadingMoves
    <2>3. ViewOK' /\ Known'
      BY <1>2, FreshView DEF StartReading
    <2>4. Outside(r) /\ r.key = k
      BY <1>1, <2>2 DEF Outside, k
    <2>5. \A j \in Keys : RowMoves(j)
      BY <2>1 DEF RowMoves
    <2>6. QED
      BY <1>1, <2>1, <2>2, <2>3, <2>4, <2>5, ControllerKeeps DEF Reading
  <1>3. CASE ClaimUnavailable(k, now) /\ EndCycle
    <2>1. JInv' /\ rows' = Expire(rows, now) /\ txn' = NoTxn
      BY <1>1, <1>3, JournalKeeps DEF JournalStep, ClaimUnavailable
    <2>2. \A j \in Keys : RowMoves(j)
      BY <2>1, MovesOfExpiry DEF PInv
    <2>3. QED
      BY <1>1, <1>3, <2>1, <2>2, EndCycleKeeps
  <1>4. CASE (ClaimMismatch(k, now, day) \/ ClaimDisabled(k, now, day)) /\ EndCycle
    <2>1. /\ JInv' /\ txn' = NoTxn /\ Expire(rows, now)[k].status = "reserved"
          /\ rows' = SetStatus(Expire(rows, now), k, "revoked")
      BY <1>1, <1>4, JournalKeeps DEF JournalStep, ClaimMismatch, ClaimDisabled
    <2>2. \A j \in Keys : RowMoves(j)
      BY <1>1, <2>1, MovesOfClaim DEF PInv
    <2>3. QED
      BY <1>1, <1>4, <2>1, <2>2, EndCycleKeeps
  <1>5. QED
    BY <1>2, <1>3, <1>4 DEF Claim, k, day

LEMMA ClaimedNowKeeps == PInv /\ ClaimedNow => PInv'
  <1> SUFFICES ASSUME PInv, ClaimedNow PROVE PInv'
    OBVIOUS
  <1>1. /\ BrokerOK' /\ UNCHANGED <<wire, order, traced>>
        /\ ClaimCommit(RiskState(txn.now)) /\ proc["controller"].pc = "lookups"
        /\ txn.op = "claim" /\ txn # NoTxn
    BY SameBroker DEF ClaimedNow, AllRead, At, NoTxn
  <1>2. /\ JInv' /\ (\A j \in Keys : RowMoves(j)) /\ txn' = NoTxn
        /\ txn.key \in EntryKeys /\ rows[txn.key].status \notin Committed
    BY <1>1, JournalKeeps, MovesOfClaimCommit DEF JournalStep, PInv
  <1>3. CASE EndCycle
    BY <1>1, <1>2, <1>3, EndCycleKeeps
  <1>4. CASE Goto("controller", "send") /\ view' = NoView /\ rows'[txn.key].status = "claimed"
    <2>1. "send" \in Places /\ "controller" \in Processes /\ txn.key \in Keys
      BY <1>2 DEF Places, Processes, Keys
    <2>2. PICK r \in Process :
              /\ proc' = [proc EXCEPT !["controller"] = r] /\ r.pc = "send"
              /\ r.day = proc["controller"].day /\ r.key = proc["controller"].key
              /\ r.reply = proc["controller"].reply
      BY <1>4, <2>1, GotoMoves
    <2>3. r.reply = "none" /\ r.day \in Days /\ r.key = txn.key
      BY <1>1, <2>2, ControllerFacts
    <2>4. ViewOK' /\ Known'
      BY <1>4, FreshView
    <2>5. QED
      BY <1>1, <1>2, <1>4, <2>1, <2>2, <2>3, <2>4, TakeKeeps
  <1>5. QED
    BY <1>3, <1>4 DEF ClaimedNow

-----------------------------------------------------------------------------
(* Exits, and the record AfterPrepare leaves.                               *)
LEMMA ExitKeeps == ASSUME PInv, NEW c \in Contracts, NEW now \in Times, Exit(c, now) PROVE PInv'
  <1> DEFINE x == proc["controller"]
             day == x.day
             k == CycleExit[<<c, day>>]
             s == [x EXCEPT !.pc = "send", !.key = k]
  <1>1. /\ x \in Process /\ x.pc = "exits" /\ x.reply = "none" /\ day \in Days /\ txn = NoTxn
        /\ k \in ExitKeys /\ k \in Keys /\ "controller" \in Processes
        /\ BrokerOK' /\ UNCHANGED <<wire, order, traced>> /\ view' = view
    BY ControllerFacts, SameBroker, ExecutionConstants DEF Exit, At, Reading, Keys, Processes
  <1>2. ViewOK' /\ Known'
    BY <1>1 DEF PInv, ViewOK, Known
  <1>3. \/ ExitDuplicate(k, now)
        \/ PrepareExit(k, x.inv, now, day)
    BY DEF Exit
  <1>4. s \in Process /\ s.pc = "send" /\ s.key = k /\ s.reply = "none" /\ s.day = day
    BY <1>1, SenderRecord
  <1>5. \/ /\ rows[k].status = "absent" /\ rows'[k].status = "claimed"
           /\ proc' = [proc EXCEPT !["controller"] = s]
        \/ proc' = [proc EXCEPT !["controller"] = x]
    BY DEF Exit, AfterPrepare
  <1> HIDE DEF s, k, day
  <1>6. JInv' /\ (\A j \in Keys : RowMoves(j)) /\ txn' = NoTxn
    <2>1. CASE ExitDuplicate(k, now)
      BY <1>1, <2>1, MovesOfExpiry, JournalKeeps DEF ExitDuplicate, JournalStep, PInv
    <2>2. CASE PrepareExit(k, x.inv, now, day)
      BY <1>1, <2>2, MovesOfPrepare, JournalKeeps DEF PrepareExit, JournalStep, PInv
    <2>3. QED
      BY <1>3, <2>1, <2>2
  <1> HIDE DEF x
  <1>7. CASE /\ rows[k].status = "absent" /\ rows'[k].status = "claimed"
             /\ proc' = [proc EXCEPT !["controller"] = s]
    <2>1. rows[k].status \notin Committed
      BY <1>7 DEF Committed, Resolved
    <2>2. QED
      BY <1>1, <1>2, <1>4, <1>6, <1>7, <2>1, TakeKeeps
  <1>8. CASE proc' = [proc EXCEPT !["controller"] = x]
    <2>1. Outside(x)
      BY <1>1 DEF Outside
    <2>2. x.day \in Days
      BY <1>1 DEF day
    <2>3. QED
      BY <1>1, <1>2, <1>6, <1>8, <2>1, <2>2, ControllerKeeps
  <1>9. QED
    BY <1>5, <1>7, <1>8

-----------------------------------------------------------------------------
(* Submission.                                                              *)
LEMMA DoneMoves ==
    ASSUME PInv, NEW p \in Processes, proc' = Done(p), proc[p].pc # "idle"
    PROVE  \E r \in Process :
              /\ proc' = [proc EXCEPT ![p] = r]
              /\ r.reply = "none" /\ r.pc \in {"idle", "exits"}
              /\ r.pc = "exits" => p = "controller" /\ r.day \in Days
  <1>1. ASSUME NEW y \in Process
        PROVE  LET s == [y EXCEPT !.pc = "exits", !.key = "none", !.reply = "none"]
               IN  s \in Process /\ s.pc = "exits" /\ s.reply = "none" /\ s.day = y.day
    BY DEF Process, Places
  <1>2. proc[p] \in Process /\ (p = "controller" => proc[p].day \in Days)
    BY ControllerFacts DEF PInv, ProcOK
  <1>3. CASE p = "controller" /\ proc[p].key \in ExitKeys
    <2>1. proc' = [proc EXCEPT ![p] = [proc[p] EXCEPT !.pc = "exits", !.key = "none", !.reply = "none"]]
      BY <1>3 DEF Done
    <2>2. QED
      BY <1>1, <1>2, <1>3, <2>1
  <1>4. CASE ~(p = "controller" /\ proc[p].key \in ExitKeys)
    <2>1. proc' = [proc EXCEPT ![p] = Idle]
      BY <1>4 DEF Done
    <2>2. QED
      BY <2>1, IdleIsProcess
  <1>5. QED
    BY <1>3, <1>4

LEMMA DoneKeeps ==
    ASSUME PInv, JInv', BrokerOK', UNCHANGED <<wire, order, traced, view>>,
           \A j \in Keys : RowMoves(j),
           NEW p \in Processes, proc' = Done(p), proc[p].pc # "idle", txn = NoTxn, txn' = NoTxn
    PROVE  PInv'
  <1>1. PICK r \in Process :
              /\ proc' = [proc EXCEPT ![p] = r]
              /\ r.reply = "none" /\ r.pc \in {"idle", "exits"}
              /\ r.pc = "exits" => p = "controller" /\ r.day \in Days
    BY DoneMoves
  <1>2. Outside(r) /\ r.pc \notin {"reserve", "claim", "flatten"}
    BY <1>1 DEF Outside
  <1>3. ViewOK' /\ Known'
    BY DEF PInv, ViewOK, Known
  <1>4. CASE p = "controller"
    BY <1>1, <1>2, <1>3, <1>4, ControllerKeeps
  <1>5. CASE p = "command"
    BY <1>1, <1>2, <1>5, CommandKeeps
  <1>6. QED
    BY <1>4, <1>5 DEF Processes

LEMMA AnsweredKeeps == ASSUME PInv, NEW p \in Processes, Answered(p) PROVE PInv'
  <1> DEFINE k == proc[p].key
  <1>1. /\ BrokerOK' /\ UNCHANGED <<wire, order, traced, view>>
        /\ proc' = Done(p) /\ proc[p].pc = "wait" /\ proc[p].reply # "none" /\ txn = NoTxn
        /\ k \in Keys
    BY SameBroker DEF Answered, At, PInv, Hands, InHand
  <1>2. JInv' /\ (\A j \in Keys : RowMoves(j)) /\ txn' = NoTxn
    <2>1. CASE ~Sendable(k)
      BY <1>1, <2>1, SameJournal DEF Answered
    <2>2. CASE MarkSubmitted(k)
      BY <1>1, <2>2, MovesOfMark, JournalKeeps DEF PInv, JournalStep, MarkSubmitted
    <2>3. CASE ResolveUnplaced(k) /\ proc[p].reply # "taken"
      <3>1. proc[p].reply = "refused"
        BY <1>1, <2>3 DEF PInv, ProcOK, Process
      <3>2. k \notin wire /\ order[k] = "none"
        BY <3>1 DEF PInv, Hands, InHand
      <3>3. /\ rows[k].status = "claimed" /\ rows' = SetStatus(rows, k, "unplaced")
            /\ "unplaced" \in Resolved /\ txn' = NoTxn
        BY <1>1, <2>3 DEF ResolveUnplaced, Sendable, Resolved
      <3>4. \A j \in Keys : RowMoves(j)
        BY <1>1, <3>2, <3>3, MovesOfSettlement DEF PInv
      <3>5. JInv'
        BY <1>1, <2>3, JournalKeeps DEF JournalStep
      <3>6. QED
        BY <3>3, <3>4, <3>5
    <2>4. QED
      BY <2>1, <2>2, <2>3 DEF Answered
  <1>3. QED
    BY <1>1, <1>2, DoneKeeps

LEMMA OutcomeUnknownKeeps == ASSUME PInv, NEW p \in Processes, OutcomeUnknown(p) PROVE PInv'
  <1>1. /\ BrokerOK' /\ UNCHANGED <<wire, order, traced, view>>
        /\ proc' = Done(p) /\ proc[p].pc # "idle" /\ txn = NoTxn
        /\ JInv' /\ (\A j \in Keys : RowMoves(j)) /\ txn' = NoTxn
    BY SameBroker, SameJournal DEF OutcomeUnknown, At
  <1>2. QED
    BY <1>1, DoneKeeps

(* The POST leaves: of all that may send, this process alone holds the key. *)
LEMMA SendKeeps == ASSUME PInv, NEW p \in Processes, Send(p) PROVE PInv'
  <1> DEFINE k == proc[p].key
  <1>1. /\ UNCHANGED <<jvars, order, posted, today, booked, skipped, view>>
        /\ proc[p].pc = "send" /\ txn = NoTxn /\ k \in Keys /\ k \notin traced
        /\ JInv' /\ (\A j \in Keys : RowMoves(j)) /\ txn' = NoTxn
    BY SameJournal DEF Send, At, PInv, Hands, InHand
  <1>2. CASE ~Sendable(k)
    <2>1. /\ proc' = Done(p) /\ UNCHANGED <<wire, traced>>
      BY <1>2 DEF Send
    <2>2. BrokerOK'
      BY <1>1, <2>1, SameBroker DEF bvars
    <2>3. QED
      BY <1>1, <2>1, <2>2, DoneKeeps
  <1>3. CASE Sendable(k)
    <2>1. wire' = wire \cup {k} /\ traced' = traced \cup {k} /\ Goto(p, "wait")
      BY <1>3 DEF Send
    <2>2. PICK r \in Process :
              /\ proc' = [proc EXCEPT ![p] = r] /\ r.pc = "wait"
              /\ r.day = proc[p].day /\ r.key = k /\ r.reply = proc[p].reply
      BY <2>1, GotoMoves DEF Places
    <2>3. ProcOK' /\ proc'[p] = r /\ \A q \in Processes \ {p} : proc'[q] = proc[q]
      BY <2>2 DEF PInv, ProcOK
    <2>4. /\ r.reply = "none" /\ order[k] = "none" /\ rows[k].status = "claimed" /\ rows' = rows
          /\ \A q \in Processes \ {p} : proc[q].pc = "send" => proc[q].key # k
      BY <1>1, <1>3, <2>2 DEF PInv, Hands, InHand, Posted, OneSender, Sendable, jvars
    <2> HIDE DEF k
    <2>5. BrokerOK'
      BY <1>1, <2>1 DEF PInv, BrokerOK, Filled, Lots
    <2>6. Posted'
      BY <1>1, <2>1, <2>4 DEF PInv, Hands, Posted, Committed
    <2>7. InHand'
      <3> SUFFICES ASSUME NEW q \in Processes
                   PROVE  InHand!(q)'
        BY DEF InHand
      <3>1. CASE q = p
        BY <1>1, <2>1, <2>2, <2>3, <2>4, <3>1
      <3>2. CASE q # p
        <4>1. proc'[q] = proc[q] /\ InHand!(q) /\ (proc[q].pc = "wait" => proc[q].key # k)
          BY <1>1, <2>3, <3>2 DEF PInv, Hands, InHand
        <4>2. QED
          BY <1>1, <2>1, <2>4, <3>2, <4>1
      <3>3. QED
        BY <3>1, <3>2
    <2>8. OneSender'
      BY <2>2, <2>3 DEF PInv, Hands, OneSender
    <2>9. DefinitiveRelease' /\ Released'
      BY <1>1, <2>1, <2>4 DEF PInv, Hands, DefinitiveRelease, Released
    <2>10. ViewOK' /\ Known'
      BY <1>1 DEF PInv, ViewOK, Known
    <2>11. CycleOK'
      BY <1>1, <2>2, <2>3, ControllerFacts DEF PInv, CycleOK, Processes
    <2>12. QED
      BY <1>1, <2>3, <2>5, <2>6, <2>7, <2>8, <2>9, <2>10, <2>11 DEF PInv, Hands
  <1>4. QED
    BY <1>2, <1>3

-----------------------------------------------------------------------------
(* The operator's commands.                                                 *)
LEMMA ReleaseLookupKeeps == ASSUME PInv, NEW k \in Keys, ReleaseLookup(k) PROVE PInv'
  <1>1. /\ BrokerOK' /\ UNCHANGED <<wire, order, traced, view>> /\ "release" \in Commands
        /\ txn = NoTxn
    BY SameBroker DEF ReleaseLookup
  <1>2. ViewOK' /\ Known'
    BY <1>1 DEF PInv, ViewOK, Known
  <1>3. CASE Resolve(k, order[k]) /\ UNCHANGED proc
    <2>1. /\ rows[k].status = "claimed" /\ rows' = SetStatus(rows, k, "resolved")
          /\ txn' = txn /\ order[k] \in TerminalStatuses /\ k \notin wire
      BY <1>3 DEF Resolve, PInv, Hands, Posted, TerminalStatuses
    <2>2. (\A j \in Keys : RowMoves(j)) /\ JInv'
      BY <1>3, <2>1, MovesOfSettlement, JournalKeeps DEF PInv, Resolved, JournalStep
    <2>3. QED
      BY <1>1, <1>2, <1>3, <2>1, <2>2, NobodyMoves
  <1>4. CASE /\ proc' = [proc EXCEPT !["command"] = [Idle EXCEPT !.pc = "release", !.key = k]]
             /\ UNCHANGED jvars
    <2> DEFINE r == [Idle EXCEPT !.pc = "release", !.key = k]
    <2>1. r \in Process /\ r.pc = "release" /\ r.key = k /\ r.reply = "none"
      BY NoLotsType DEF Idle, Process, Places
    <2> HIDE DEF r
    <2>2. Outside(r) /\ proc' = [proc EXCEPT !["command"] = r]
      BY <1>1, <1>4, <2>1 DEF Outside, r
    <2>3. JInv' /\ (\A j \in Keys : RowMoves(j)) /\ txn' = txn
      BY <1>4, SameJournal
    <2>4. QED
      BY <1>1, <2>1, <2>2, <2>3, CommandKeeps
  <1>5. QED
    BY <1>3, <1>4 DEF ReleaseLookup

(* A command that ends.                                                     *)
LEMMA CommandEnds ==
    ASSUME PInv, JInv', BrokerOK', UNCHANGED <<wire, order, traced, view>>,
           \A j \in Keys : RowMoves(j), txn' = txn, proc' = [proc EXCEPT !["command"] = Idle]
    PROVE  PInv'
  <1>1. Outside(Idle)
    BY IdleIsProcess DEF Outside
  <1>2. QED
    BY <1>1, IdleIsProcess, CommandKeeps

LEMMA ReleaseKeeps == PInv /\ Release => PInv'
  <1> SUFFICES ASSUME PInv, Release PROVE PInv'
    OBVIOUS
  <1> DEFINE k == proc["command"].key
  <1>1. /\ BrokerOK' /\ UNCHANGED <<wire, order, traced, view>> /\ txn = NoTxn
        /\ proc' = [proc EXCEPT !["command"] = Idle]
        /\ k \in Keys /\ "release" \in Commands
    BY SameBroker DEF Release, At, PInv, Hands, InHand, Processes
  <1>2. CASE ReleaseUnsent(k)
    <2>1. /\ rows[k].status = "claimed" /\ rows' = SetStatus(rows, k, "released_manual")
          /\ "released_manual" \in Resolved /\ txn' = txn
      BY <1>2 DEF ReleaseUnsent, Sendable, Resolved
    <2>2. (\A j \in Keys : RowMoves(j)) /\ JInv'
      BY <1>1, <1>2, <2>1, MovesOfSettlement, JournalKeeps DEF PInv, JournalStep
    <2>3. QED
      BY <1>1, <2>1, <2>2, CommandEnds
  <1>3. CASE UNCHANGED jvars
    BY <1>1, <1>3, SameJournal, CommandEnds
  <1>4. QED
    BY <1>2, <1>3 DEF Release

LEMMA FlattenReadKeeps == ASSUME PInv, NEW k \in FlattenKeys, FlattenRead(k) PROVE PInv'
  <1> DEFINE held == Lots(booked)
             r == [Idle EXCEPT !.pc = "flatten", !.key = k, !.inv = held]
  <1>1. /\ BrokerOK' /\ UNCHANGED <<wire, order, traced, view>>
        /\ JInv' /\ (\A j \in Keys : RowMoves(j)) /\ txn' = txn
        /\ proc' = [proc EXCEPT !["command"] = r]
    BY SameBroker, SameJournal DEF FlattenRead
  <1>2. k \in Keys /\ held \in [Contracts -> Nat]
    BY ExecutionConstants DEF Keys, PInv, BrokerOK
  <1> HIDE DEF held
  <1>3. r \in Process /\ r.pc = "flatten" /\ r.key = k /\ r.reply = "none"
    BY <1>2 DEF Idle, Process, Places
  <1> HIDE DEF r
  <1>4. Outside(r)
    BY <1>3 DEF Outside
  <1>5. QED
    BY <1>1, <1>3, <1>4, CommandKeeps

LEMMA FlattenPrepareKeeps == ASSUME PInv, NEW now \in Times, FlattenPrepare(now) PROVE PInv'
  <1> DEFINE x == proc["command"]
             k == x.key
             s == [x EXCEPT !.pc = "send", !.key = k]
  <1>1. /\ x \in Process /\ x.pc = "flatten" /\ x.reply = "none" /\ today \in Days
        /\ k \in ExitKeys /\ k \in Keys /\ "command" \in Processes
        /\ BrokerOK' /\ UNCHANGED <<wire, order, traced, view>>
        /\ PrepareExit(k, x.inv, now, today)
    BY SameBroker, ExecutionConstants
    DEF FlattenPrepare, At, PInv, CycleOK, ProcOK, BrokerOK, Hands, InHand, Keys, Processes
  <1>2. ViewOK' /\ Known'
    BY <1>1 DEF PInv, ViewOK, Known
  <1>3. txn = NoTxn /\ txn' = NoTxn /\ JInv' /\ (\A j \in Keys : RowMoves(j))
        /\ rows[k].status \notin Committed
    BY <1>1, MovesOfPrepare, JournalKeeps DEF PrepareExit, JournalStep, PInv
  <1>4. s \in Process /\ s.pc = "send" /\ s.key = k /\ s.reply = "none"
    BY <1>1, SenderRecord
  <1>5. \/ rows'[k].status = "claimed" /\ proc' = [proc EXCEPT !["command"] = s]
        \/ proc' = [proc EXCEPT !["command"] = Idle]
    BY DEF FlattenPrepare, AfterPrepare
  <1> HIDE DEF s, k, x
  <1>6. CASE rows'[k].status = "claimed" /\ proc' = [proc EXCEPT !["command"] = s]
    BY <1>1, <1>2, <1>3, <1>4, <1>6, TakeKeeps
  <1>7. CASE proc' = [proc EXCEPT !["command"] = Idle]
    BY <1>1, <1>3, <1>7, CommandEnds
  <1>8. QED
    BY <1>5, <1>6, <1>7

LEMMA FlattenDryRunKeeps == PInv /\ FlattenDryRun => PInv'
  <1> SUFFICES ASSUME PInv, FlattenDryRun PROVE PInv'
    OBVIOUS
  <1> DEFINE k == proc["command"].key
  <1>1. /\ BrokerOK' /\ UNCHANGED <<wire, order, traced, view>> /\ ReleaseUnsent(k)
        /\ proc' = [proc EXCEPT !["command"] = Idle]
        /\ k \in Keys /\ k \notin traced
    BY SameBroker DEF FlattenDryRun, At, PInv, Hands, InHand, Processes
  <1>2. /\ rows[k].status = "claimed" /\ rows' = SetStatus(rows, k, "released_manual")
        /\ "released_manual" \in Resolved /\ txn' = txn
    BY <1>1 DEF ReleaseUnsent, Sendable, Resolved
  <1>3. (\A j \in Keys : RowMoves(j)) /\ JInv'
    BY <1>1, <1>2, MovesOfSettlement, JournalKeeps DEF PInv, JournalStep
  <1>4. QED
    BY <1>1, <1>2, <1>3, CommandEnds

-----------------------------------------------------------------------------
(* The broker, the owner and the machine.                                   *)
LEMMA ReceiveKeeps ==
    ASSUME PInv, NEW k \in Keys, NEW outcome \in {"taken", "refused", "lost"}, Receive(k, outcome)
    PROVE  PInv'
  <1> DEFINE next(p) == IF At(p, "wait") /\ proc[p].key = k /\ outcome # "lost"
                        THEN [proc[p] EXCEPT !.reply = outcome] ELSE proc[p]
  <1>1. /\ k \in wire /\ wire' = wire \ {k} /\ UNCHANGED <<jvars, posted, today, booked, skipped, traced, view>>
        /\ order[k] = "none" /\ k \in traced
        /\ JInv' /\ rows' = rows /\ txn' = txn
    BY SameJournal DEF Receive, PInv, Hands, Posted, jvars
  <1>2. /\ order' \in [Keys -> OrderStates]
        /\ \A j \in Keys \ {k} : order'[j] = order[j]
        /\ order'[k] \in {"none", "open"}
        /\ outcome # "taken" => order'[k] = "none"
    BY <1>1 DEF Receive, PInv, BrokerOK, OrderStates
  <1>3. ASSUME NEW p \in Processes
        PROVE  /\ proc'[p] = next(p) /\ next(p) \in Process
               /\ next(p).pc = proc[p].pc /\ next(p).key = proc[p].key /\ next(p).day = proc[p].day
               /\ \/ next(p).reply = proc[p].reply
                  \/ proc[p].pc = "wait" /\ proc[p].key = k /\ next(p).reply = outcome
    <2>1. proc'[p] = next(p) /\ proc[p] \in Process
      BY DEF Receive, PInv, ProcOK
    <2>2. CASE At(p, "wait") /\ proc[p].key = k /\ outcome # "lost"
      BY <2>1, <2>2 DEF Process, At
    <2>3. CASE ~(At(p, "wait") /\ proc[p].key = k /\ outcome # "lost")
      BY <2>1, <2>3
    <2>4. QED
      BY <2>1, <2>2, <2>3
  <1> HIDE DEF next
  <1>4. ProcOK'
    BY <1>3 DEF Receive, ProcOK
  <1>5. BrokerOK'
    BY <1>1, <1>2 DEF PInv, BrokerOK, Filled, Lots
  <1>6. Posted'
    BY <1>1, <1>2 DEF PInv, Hands, Posted
  <1>7. InHand'
    <2> SUFFICES ASSUME NEW p \in Processes
                 PROVE  InHand!(p)'
      BY DEF InHand
    <2>1. /\ proc'[p].pc = proc[p].pc /\ proc'[p].key = proc[p].key
          /\ \/ proc'[p].reply = proc[p].reply
             \/ proc[p].pc = "wait" /\ proc[p].key = k /\ proc'[p].reply = outcome
      BY <1>3
    <2>2. InHand!(p)
      BY DEF PInv, Hands, InHand
    <2>3. CASE proc'[p].reply = proc[p].reply
      <3>1. proc[p].reply = "refused" => proc[p].key \in Keys \ {k}
        BY <1>1, <2>2
      <3>2. QED
        BY <1>1, <1>2, <2>1, <2>2, <2>3, <3>1
    <2>4. CASE proc[p].pc = "wait" /\ proc[p].key = k /\ proc'[p].reply = outcome
      BY <1>1, <1>2, <2>1, <2>2, <2>4
    <2>5. QED
      BY <2>1, <2>3, <2>4
  <1>8. OneSender'
    BY <1>3 DEF PInv, Hands, OneSender
  <1>9. DefinitiveRelease' /\ Released'
    BY <1>1, <1>2 DEF PInv, Hands, DefinitiveRelease, Released
  <1>10. ViewOK' /\ Known'
    BY <1>1, <1>2 DEF PInv, ViewOK, Known, TerminalStatuses
  <1>11. CycleOK'
    BY <1>1, <1>3 DEF PInv, CycleOK, Processes
  <1>12. QED
    BY <1>1, <1>4, <1>5, <1>6, <1>7, <1>8, <1>9, <1>10, <1>11 DEF PInv, Hands

LEMMA ExecuteKeeps ==
    ASSUME PInv, NEW k \in Keys, NEW status \in {"filled", "canceled"}, Execute(k, status)
    PROVE  PInv'
  <1>1. /\ UNCHANGED <<jvars, wire, posted, today, booked, skipped, traced, proc, view>>
        /\ order[k] = "open" /\ JInv' /\ rows' = rows /\ txn' = txn
    BY SameJournal DEF Execute, jvars
  <1>2. /\ order' \in [Keys -> OrderStates] /\ order'[k] = status
        /\ \A j \in Keys \ {k} : order'[j] = order[j]
    BY DEF Execute, PInv, BrokerOK, OrderStates
  <1>3. BrokerOK'
    <2>1. Filled \subseteq Filled'
      BY <1>1, <1>2 DEF Filled
    <2>2. QED
      BY <1>1, <1>2, <2>1 DEF PInv, BrokerOK, Lots
  <1>4. Posted' /\ InHand' /\ OneSender'
    BY <1>1, <1>2 DEF PInv, Hands, Posted, InHand, OneSender
  <1>5. DefinitiveRelease' /\ Released'
    BY <1>1, <1>2 DEF PInv, Hands, DefinitiveRelease, Released, TerminalStatuses
  <1>6. ViewOK' /\ Known' /\ ProcOK' /\ CycleOK'
    BY <1>1, <1>2 DEF PInv, ViewOK, Known, TerminalStatuses, ProcOK, CycleOK
  <1>7. QED
    BY <1>1, <1>3, <1>4, <1>5, <1>6 DEF PInv, Hands

(* A fill is posted, a day begins, the owner turns the switch.              *)
LEMMA OutsideKeeps == PInv /\ ((\E k \in Keys : PostActivity(k)) \/ NewDay \/ WriteControl) => PInv'
  <1> SUFFICES ASSUME PInv, (\E k \in Keys : PostActivity(k)) \/ NewDay \/ WriteControl
               PROVE  PInv'
    OBVIOUS
  <1>1. /\ UNCHANGED <<wire, order, booked, skipped, traced, proc, view>> /\ txn' = txn /\ rows' = rows
        /\ posted \subseteq posted' /\ posted' \subseteq Filled /\ today' \in Days
    BY DEF PostActivity, NewDay, WriteControl, SetControl, bvars, jvars, PInv, BrokerOK
  <1>2. BrokerOK'
    BY <1>1 DEF PInv, BrokerOK, Filled, Lots
  <1>3. JInv'
    BY SameJournal, JournalKeeps DEF PostActivity, NewDay, WriteControl, JournalStep
  <1>4. (\A j \in Keys : RowMoves(j)) /\ ViewOK' /\ Known'
    BY <1>1 DEF RowMoves, PInv, ViewOK, Known
  <1>5. QED
    BY <1>1, <1>2, <1>3, <1>4, NobodyMoves

LEMMA CrashKeeps == ASSUME PInv, NEW p \in Processes, Crash(p) PROVE PInv'
  <1>1. /\ UNCHANGED <<rows, control>> /\ BrokerOK' /\ UNCHANGED <<wire, order, traced>>
        /\ \A j \in Keys : RowMoves(j)
    BY SameBroker DEF Crash, RowMoves
  <1>2. CASE p = "controller"
    <2>1. EndCycle /\ txn' = NoTxn
      BY <1>2 DEF Crash, EndCycle
    <2>2. JInv'
      BY <1>1, <2>1, SameJournal, JournalKeeps DEF JournalStep, Rollback, jvars
    <2>3. QED
      BY <1>1, <2>1, <2>2, EndCycleKeeps
  <1>3. CASE p = "command"
    <2>1. proc' = [proc EXCEPT !["command"] = Idle] /\ UNCHANGED <<view, txn>>
      BY <1>3 DEF Crash
    <2>2. JInv'
      BY <1>1, <2>1, SameJournal DEF jvars
    <2>3. QED
      BY <1>1, <2>1, <2>2, CommandEnds
  <1>4. QED
    BY <1>2, <1>3 DEF Processes

(* What a process leaves that dies between two fills.                       *)
LEMMA DiesNormalizingKeeps == PInv /\ DiesNormalizing => PInv'
  <1> SUFFICES ASSUME PInv, DiesNormalizing PROVE PInv'
    OBVIOUS
  <1>1. PICK S \in SUBSET posted :
          /\ \A c \in Contracts : Lots(S)[c] >= 0
          /\ booked' = S /\ skipped' = posted \ S
    BY DEF DiesNormalizing, Books
  <1>2. Lots(S) \in [Contracts -> Nat]
    BY <1>1, LotsType
  <1>3. BrokerOK' /\ UNCHANGED <<rows, control, wire, order, traced>> /\ \A j \in Keys : RowMoves(j)
    BY <1>1, <1>2 DEF DiesNormalizing, PInv, BrokerOK, bvars, Filled, Lots, RowMoves
  <1>4. EndCycle /\ txn' = NoTxn
    BY DEF DiesNormalizing, EndCycle
  <1>5. JInv'
    BY <1>3, <1>4, SameJournal, JournalKeeps DEF JournalStep, Rollback, jvars
  <1>6. QED
    BY <1>3, <1>4, <1>5, EndCycleKeeps

-----------------------------------------------------------------------------
LEMMA InitInv == Init => PInv
  <1> SUFFICES ASSUME Init PROVE PInv
    OBVIOUS
  <1>1. JInv
    BY EmptyJournal, ExecutionConstants DEF Init
  <1>2. Lots({}) \in [Contracts -> Nat]
    <2> SUFFICES ASSUME NEW c \in Contracts PROVE Lots({})[c] = 0
      BY DEF Lots
    <2>1. /\ {k \in {} \cap EntryKeys : ContractOf[k] = c} = {}
          /\ {k \in {} \cap ExitKeys : ContractOf[k] = c} = {}
      OBVIOUS
    <2>2. Lots({})[c] = Cardinality({}) - Cardinality({})
      BY <2>1 DEF Lots
    <2>3. QED
      BY <2>2, FS_EmptySet
  <1>3. BrokerOK
    BY <1>2 DEF Init, BrokerOK, OrderStates, Filled
  <1>4. \A p \in Processes : proc[p] = Idle
    BY DEF Init
  <1>5. ProcOK
    BY IdleIsProcess DEF Init, ProcOK
  <1>6. ViewOK /\ Known
    <2>1. view = NoView /\ DOMAIN NoView.look = {} /\ NoView.live = {} /\ NoView.open = {}
      BY DEF Init, NoView
    <2>2. QED
      BY <2>1 DEF ViewOK, Known
  <1>7. CycleOK
    BY <1>4, IdleIsProcess DEF Init, CycleOK, Processes
  <1>8. Hands
    <2>1. /\ wire = {} /\ traced = {} /\ \A k \in Keys : order[k] = "none" /\ rows[k].status = "absent"
      BY DEF Init, Absent
    <2>2. QED
      BY <1>4, <2>1, IdleIsProcess DEF Hands, Posted, InHand, OneSender, DefinitiveRelease, Released
  <1>9. QED
    BY <1>1, <1>3, <1>5, <1>6, <1>7, <1>8 DEF PInv

LEMMA NextInv == PInv /\ [Next]_vars => PInv'
  <1> SUFFICES ASSUME PInv, [Next]_vars PROVE PInv'
    OBVIOUS
  <1>1. CASE Cycle
    <2>1. CASE BeginCycle \/ ReadAgain
      BY <2>1, BeginCycleKeeps
    <2>2. CASE ReadActivities \/ HistoryFails \/ ReadPositions \/ ReadOrders \/ ReadFails \/ DiesNormalizing
      BY <2>2, ReadActivitiesKeeps, HistoryFailsKeeps, ReadPositionsKeeps, ReadOrdersKeeps, ReadFailsKeeps,
         DiesNormalizingKeeps
    <2>3. CASE \E k \in Keys : LookUp(k) \/ ResolveIntent(k)
      BY <2>3, LookUpKeeps, ResolveIntentKeeps
    <2>4. CASE Halt \/ NoProposal \/ Proceed
      BY <2>4, StopKeeps, ProceedKeeps
    <2>5. CASE Reserved \/ ClaimedNow
      BY <2>5, ReservedKeeps, ClaimedNowKeeps
    <2>6. CASE \E k \in EntryKeys : Propose(k)
      BY <2>6, ProposeKeeps
    <2>7. CASE \E now \in Times : Reserve(now) \/ Claim(now) \/ \E c \in Contracts : Exit(c, now)
      BY <2>7, ReserveKeeps, ClaimKeeps, ExitKeeps
    <2>8. QED
      BY <1>1, <2>1, <2>2, <2>3, <2>4, <2>5, <2>6, <2>7 DEF Cycle
  <1>2. CASE Submission
    BY <1>2, SendKeeps, AnsweredKeeps, OutcomeUnknownKeeps DEF Submission
  <1>3. CASE Command
    BY <1>3, ReleaseLookupKeeps, ReleaseKeeps, FlattenReadKeeps, FlattenPrepareKeeps, FlattenDryRunKeeps
    DEF Command
  <1>4. CASE Broker
    BY <1>4, ReceiveKeeps, ExecuteKeeps, OutsideKeeps DEF Broker
  <1>5. CASE WriteControl \/ \E p \in Processes : Crash(p)
    BY <1>5, OutsideKeeps, CrashKeeps
  <1>6. CASE UNCHANGED vars
    <2>1. UNCHANGED <<jvars, bvars, booked, skipped, traced, proc, view>>
      BY <1>6 DEF vars
    <2>2. BrokerOK' /\ UNCHANGED <<wire, order, traced>> /\ JInv' /\ (\A j \in Keys : RowMoves(j))
          /\ txn' = txn
      BY <2>1, SameJournal, SameBroker
    <2>3. ViewOK' /\ Known'
      BY <2>1, <2>2 DEF PInv, ViewOK, Known
    <2>4. QED
      BY <2>1, <2>2, <2>3, NobodyMoves
  <1>7. QED
    BY <1>1, <1>2, <1>3, <1>4, <1>5, <1>6 DEF Next

(* The invariant of the whole executor.                                     *)
THEOREM ExecutionInvariant == Spec => []PInv
  BY InitInv, NextInv, PTL DEF Spec

(* The executor keeps its types, and no fill is booked before it is posted  *)
(* (ledger.py, reconcile.py).                                               *)
THEOREM ExecutionTypeOK == Spec => []PTypeOK
  <1>1. PInv => PTypeOK
    <2> SUFFICES ASSUME PInv PROVE PTypeOK
      OBVIOUS
    <2>1. wire \subseteq traced
      BY DEF PInv, BrokerOK, Hands, Posted
    <2>2. \A p \in Processes : proc[p].key \in Keys \cup {"none"} /\ proc[p].inv \in [Contracts -> Nat]
      BY DEF PInv, ProcOK, Process
    <2>3. QED
      BY <2>1, <2>2 DEF PInv, JInv, BrokerOK, ViewOK, OrderStates, PTypeOK
  <1>2. QED
    BY <1>1, ExecutionInvariant, PTL

(* A slot is given up only on proof that its order is dead, whatever the    *)
(* broker, the operator and the crashes do (orders.py:365, 415).            *)
THEOREM ReleaseIsDefinitive == Spec => []DefinitiveRelease
  <1>1. PInv => DefinitiveRelease
    BY DEF PInv, Hands
  <1>2. QED
    BY <1>1, ExecutionInvariant, PTL

LEMMA ProvenanceKnown == PInv /\ "release" \notin Commands => KnownProvenance
  <1> SUFFICES ASSUME PInv, "release" \notin Commands, NEW k \in Keys, k \in wire \/ order[k] = "open"
               PROVE  rows[k].status = "claimed"
    BY DEF KnownProvenance
  <1>1. k \in traced /\ rows[k].status \in Committed
    BY DEF PInv, Hands, Posted
  <1>2. rows[k].status \notin {"resolved", "unplaced"}
    BY DEF PInv, Hands, Posted, DefinitiveRelease, TerminalStatuses
  <1>3. rows[k].status # "released_manual"
    BY <1>1 DEF PInv, Hands, Released
  <1>4. QED
    BY <1>1, <1>2, <1>3 DEF Committed, Resolved

(* As long as the operator releases nothing by hand, every order under way  *)
(* or open at the broker is a claimed intent (reconcile.py:159).            *)
THEOREM OrdersAreKnown ==
    ASSUME "release" \notin Commands
    PROVE  Spec => []KnownProvenance
  BY ProvenanceKnown, ExecutionInvariant, PTL

(* Only Send puts a POST on the wire.                                       *)
LEMMA OnlySendSends ==
    ASSUME [Next]_vars, NEW k \in Keys, k \in wire' \ wire
    PROVE  \E p \in Processes : Send(p)
  <1>1. ~UNCHANGED wire
    OBVIOUS
  <1>2. ~UNCHANGED bvars
    BY <1>1 DEF bvars
  <1>3. ~UNCHANGED vars
    BY <1>2 DEF vars
  <1>4. ~Cycle
    BY <1>2
    DEF Cycle, BeginCycle, ReadActivities, ReadPositions, ReadOrders, LookUp, ResolveIntent, ReadAgain,
        Halt, Proceed, HistoryFails, ReadFails, DiesNormalizing, NoProposal, Reserved, ClaimedNow, Propose, Reserve,
        Claim, Exit
  <1>5. ~Command
    BY <1>2 DEF Command, ReleaseLookup, Release, FlattenRead, FlattenDryRun, FlattenPrepare
  <1>6. ~Broker
    BY <1>1 DEF Broker, NewDay, Receive, Execute, PostActivity
  <1>7. ~WriteControl /\ \A p \in Processes : ~Crash(p) /\ ~Answered(p) /\ ~OutcomeUnknown(p)
    BY <1>2 DEF WriteControl, Crash, Answered, OutcomeUnknown
  <1>8. QED
    BY <1>3, <1>4, <1>5, <1>6, <1>7 DEF Next, Submission

(* "One attempt per order, ever" (README:797): a key that has been on its   *)
(* way is never sent again, over crashes, time-outs and commands.           *)
THEOREM OneAttempt == Spec => SingleAttempt
  <1> DEFINE Once == \A k \in Keys : k \in wire' \ wire => k \notin traced
  <1>1. ASSUME PInv, [Next]_vars, NEW k \in Keys, k \in wire' \ wire
        PROVE  k \notin traced
    <2>1. PICK p \in Processes : Send(p)
      BY <1>1, OnlySendSends
    <2>2. proc[p].pc = "send" /\ proc[p].key \notin traced /\ wire' \subseteq wire \cup {proc[p].key}
      BY <1>1, <2>1 DEF Send, At, PInv, Hands, InHand
    <2>3. QED
      BY <1>1, <2>2
  <1>2. PInv /\ [Next]_vars => [Once]_vars
    BY <1>1
  <1>3. QED
    BY <1>2, ExecutionInvariant, PTL DEF Spec, SingleAttempt

-----------------------------------------------------------------------------
(* The executor uses the journal through its methods only: what is proved   *)
(* of the journal for any caller holds of the executor.                     *)
LEMMA CallsAreJournalSteps == PInv /\ [Next]_vars => [JournalStep]_jvars
  <1> SUFFICES ASSUME PInv, [Next]_vars, ~UNCHANGED jvars PROVE JournalStep
    OBVIOUS
  <1>1. ASSUME (\E p \in Processes : Crash(p)) \/ DiesNormalizing PROVE JournalStep
    BY <1>1 DEF Crash, DiesNormalizing, Rollback, jvars, JournalStep
  <1>2. CASE Cycle
    <2>1. CASE \E k \in Keys : ResolveIntent(k)
      BY <2>1 DEF ResolveIntent, Resolve, JournalStep
    <2>2. CASE ReadFails \/ Reserved \/ ClaimedNow
      BY <2>2 DEF ReadFails, Reserved, ClaimedNow, JournalStep
    <2>3. ASSUME NEW now \in Times, Reserve(now) \/ Claim(now) PROVE JournalStep
      <3>1. proc["controller"].key \in EntryKeys /\ proc["controller"].day \in Days
        BY <2>3, ControllerFacts DEF Reserve, Claim, At, PInv, CycleOK
      <3>2. QED
        BY <2>3, <3>1 DEF Reserve, Claim, JournalStep
    <2>4. ASSUME NEW now \in Times, NEW c \in Contracts, Exit(c, now) PROVE JournalStep
      <3>1. /\ proc["controller"].day \in Days
            /\ CycleExit[<<c, proc["controller"].day>>] \in ExitKeys
        BY <2>4, ControllerFacts, ExecutionConstants DEF Exit, At
      <3>2. QED
        BY <2>4, <3>1 DEF Exit, JournalStep
    <2>5. QED
      BY <1>1, <1>2, <2>1, <2>2, <2>3, <2>4
      DEF Cycle, BeginCycle, ReadActivities, ReadPositions, ReadOrders, LookUp, ReadAgain, Halt, Proceed,
          HistoryFails, NoProposal, Propose
  <1>3. CASE Submission
    <2>1. PICK p \in Processes : Answered(p)
      BY <1>3 DEF Submission, Send, OutcomeUnknown
    <2>2. proc[p].key \in Keys
      BY <2>1 DEF Answered, At, PInv, Hands, InHand
    <2>3. QED
      BY <2>1, <2>2 DEF Answered, JournalStep
  <1>4. CASE Command
    <2>1. ASSUME NEW k \in Keys, ReleaseLookup(k) PROVE JournalStep
      BY <2>1 DEF ReleaseLookup, Resolve, JournalStep
    <2>2. CASE Release \/ FlattenDryRun
      <3>1. proc["command"].key \in Keys
        BY <2>2 DEF Release, FlattenDryRun, At, PInv, Hands, InHand, Processes
      <3>2. QED
        BY <2>2, <3>1 DEF Release, FlattenDryRun, JournalStep
    <2>3. ASSUME NEW now \in Times, FlattenPrepare(now) PROVE JournalStep
      <3>1. proc["command"].key \in ExitKeys /\ today \in Days
        BY <2>3, ExecutionConstants DEF FlattenPrepare, At, PInv, CycleOK, BrokerOK
      <3>2. QED
        BY <2>3, <3>1 DEF FlattenPrepare, JournalStep
    <2>4. QED
      BY <1>4, <2>1, <2>2, <2>3 DEF Command, FlattenRead
  <1>5. CASE WriteControl
    BY <1>5 DEF WriteControl, JournalStep
  <1>6. QED
    BY <1>1, <1>2, <1>3, <1>4, <1>5 DEF Next, Broker, NewDay, Receive, Execute, PostActivity, vars

(* In the executor too no hour holds more than MaxAttempts authorized       *)
(* entries (orders.py:146), whatever the reads return to the provider.      *)
THEOREM ExecutorKeepsRate == Spec => []RollingRate
  <1>1. Init => RollingRate
    BY EmptyRate DEF Init
  <1>2. PInv /\ PInv' => JInv /\ JInv'
    BY DEF PInv
  <1>3. QED
    BY <1>1, <1>2, CallsAreJournalSteps, StepKeepsRate, ExecutionInvariant, PTL DEF Spec

(* And its journal still implements IntentLifecycle (orders.py:7-13).       *)
THEOREM ExecutorImplementsLifecycle == Spec => LifecycleSpec
  <1>1. Init => Lifecycle!Init /\ ExitsAreCommitted
    BY DEF Init, Lifecycle!Init, Absent, Phase, ExitsAreCommitted, Keys
  <1>2. PInv /\ ExitsAreCommitted /\ [Next]_vars => ExitsAreCommitted' /\ [Lifecycle!Next]_Ph
    <2> SUFFICES ASSUME PInv, ExitsAreCommitted, [Next]_vars
                 PROVE  ExitsAreCommitted' /\ [Lifecycle!Next]_Ph
      OBVIOUS
    <2>1. Shape
      BY CallsAreJournalSteps, StepsHaveShape DEF PInv
    <2>2. QED
      BY <2>1, ShapeKeepsExits, ShapeIsAbstract
  <1>3. QED
    BY <1>1, <1>2, ExecutionInvariant, PTL DEF Spec, LifecycleSpec, Lifecycle!Spec, Ph
=============================================================================
