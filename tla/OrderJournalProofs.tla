------------------------- MODULE OrderJournalProofs -------------------------
(***************************************************************************)
(* Proofs about OrderJournal, for every set of keys, contracts, times and   *)
(* days, every provider and every value of the limits.                      *)
(***************************************************************************)
EXTENDS OrderJournal, TLAPS, FiniteSetTheorems

(* The transaction that is open still sees the row it began with: the lock  *)
(* keeps every other method out between its two halves.                     *)
TxnInv ==
    txn # NoTxn =>
        /\ txn.op = "reserve" => rows[txn.key].status = "absent"
        /\ txn.op = "claim" =>
              /\ rows[txn.key].status = "reserved"
              /\ txn.now < rows[txn.key].created + TTL
              /\ rows[txn.key].created <= txn.now
              /\ rows[txn.key].day = txn.day

JInv == JTypeOK /\ TxnInv /\ ExclusiveIntents

-----------------------------------------------------------------------------
(* What _expire does to one row: nothing, or reserved becomes expired.      *)
LEMMA ExpireRow ==
    ASSUME NEW rs \in [Keys -> Row], NEW now \in Times
    PROVE  /\ Expire(rs, now) \in [Keys -> Row]
           /\ \A k \in Keys :
                 \/ Expire(rs, now)[k] = rs[k]
                 \/ /\ rs[k].status = "reserved"
                    /\ rs[k].created + TTL <= now
                    /\ Expire(rs, now)[k] = [rs[k] EXCEPT !.status = "expired"]
           /\ \A k \in Keys :
                 Expire(rs, now)[k].status = "reserved" =>
                    Expire(rs, now)[k] = rs[k] /\ ~(rs[k].created + TTL <= now)
  BY JournalConstants DEF Expire, Row, Statuses, Live, Resolved

(* Statuses after an expiry are those before it, but for lapsed rows.       *)
LEMMA ExpireStatus ==
    ASSUME NEW rs \in [Keys -> Row], NEW now \in Times, NEW k \in Keys
    PROVE  /\ Expire(rs, now)[k].status = "claimed" <=> rs[k].status = "claimed"
           /\ Expire(rs, now)[k].status = "absent" <=> rs[k].status = "absent"
           /\ Expire(rs, now)[k].status \in Live => rs[k].status \in Live
           /\ Expire(rs, now)[k].status \in {rs[k].status, "expired"}
           /\ Expire(rs, now)[k].sent = rs[k].sent
           /\ Expire(rs, now)[k].created = rs[k].created
  BY JournalConstants DEF Expire, Row, Statuses, Live, Resolved

(* The row an insert leaves, and that it disturbs no other row.             *)
LEMMA InsertRow ==
    ASSUME rows \in [Keys -> Row], NEW now \in Times, NEW day \in Days,
           NEW k \in Keys, NEW s \in Statuses
    PROVE  /\ Insert(k, s, now, day) \in [Keys -> Row]
           /\ Insert(k, s, now, day)[k].status = s
           /\ \A j \in Keys \ {k} : Insert(k, s, now, day)[j] = Expire(rows, now)[j]
  <1>1. Expire(rows, now) \in [Keys -> Row]
    BY ExpireRow
  <1>2. Absent \in Row /\ [Absent EXCEPT !.status = "rejected"] \in Row
    BY DEF Absent, Row, Statuses
  <1>3. [status |-> s, created |-> now, day |-> day, sent |-> FALSE] \in Row
    BY DEF Row
  <1>4. QED
    BY <1>1, <1>2, <1>3 DEF Insert, Row, Absent

(* A change of status of one row.                                           *)
LEMMA SetStatusRow ==
    ASSUME NEW rs \in [Keys -> Row], NEW k \in Keys, NEW s \in Statuses
    PROVE  /\ SetStatus(rs, k, s) \in [Keys -> Row]
           /\ SetStatus(rs, k, s)[k].status = s
           /\ SetStatus(rs, k, s)[k].created = rs[k].created
           /\ \A j \in Keys \ {k} : SetStatus(rs, k, s)[j] = rs[j]
  BY DEF SetStatus, Row

-----------------------------------------------------------------------------
(* The exclusion invariant only looks at live rows, so it survives any step *)
(* in which the live rows were live before with the same status, ...        *)
LEMMA ExclusionShrinks ==
    ASSUME ExclusiveIntents,
           \A k \in ExitKeys : rows'[k].status = "claimed" => rows[k].status = "claimed",
           \A k \in EntryKeys : rows'[k].status \in Live => rows[k].status \in Live
    PROVE  ExclusiveIntents'
  BY DEF ExclusiveIntents, Active, Underlying

(* ... and a step that adds one row which no live row conflicts with.       *)
LEMMA ExclusionGrows ==
    ASSUME ExclusiveIntents, NEW k \in Keys,
           \A j \in ExitKeys \ {k} : rows'[j].status = "claimed" => rows[j].status = "claimed",
           \A j \in EntryKeys \ {k} : rows'[j].status \in Live => rows[j].status \in Live,
           k \in ExitKeys => \A j \in ExitKeys :
                ~(rows[j].status = "claimed" /\ ContractOf[j] = ContractOf[k]),
           k \in EntryKeys => \A j \in EntryKeys \ {k} :
                rows'[j].status \in Live => Underlying(j) # Underlying(k)
    PROVE  ExclusiveIntents'
  BY DEF ExclusiveIntents, Active, Underlying

-----------------------------------------------------------------------------
LEMMA EmptyJournal ==
    ASSUME rows = [k \in Keys |-> Absent], txn = NoTxn, control \in Modes
    PROVE  JInv
  <1>1. Absent \in Row
    BY DEF Absent, Row, Statuses
  <1>2. \A k \in Keys : rows[k].status = "absent"
    BY DEF Absent
  <1>3. JTypeOK
    BY <1>1 DEF JTypeOK
  <1>4. TxnInv
    BY DEF TxnInv
  <1>5. ExclusiveIntents
    BY <1>2 DEF ExclusiveIntents, Active, Live, Keys
  <1>6. QED
    BY <1>3, <1>4, <1>5 DEF JInv

LEMMA JInitInv == JInit => JInv
  BY EmptyJournal DEF JInit, Modes

-----------------------------------------------------------------------------
(* Steps that only let rows lapse.                                          *)
LEMMA ExpireKeepsInv ==
    ASSUME JInv, NEW now \in Times, rows' = Expire(rows, now),
           txn' = NoTxn, control' \in Modes
    PROVE  JInv'
  <1> USE DEF JInv
  <1>1. JTypeOK'
    BY ExpireRow DEF JTypeOK
  <1>2. TxnInv'
    BY DEF TxnInv
  <1>3. ExclusiveIntents'
    BY ExpireStatus, ExclusionShrinks DEF JTypeOK, Keys
  <1>4. QED
    BY <1>1, <1>2, <1>3

(* A key is burned by a rejection.                                          *)
LEMMA RejectKeepsInv ==
    ASSUME JInv, NEW now \in Times, NEW day \in Days, NEW k \in Keys,
           rows' = Insert(k, "rejected", now, day), txn' = NoTxn, control' \in Modes
    PROVE  JInv'
  <1> USE DEF JInv
  <1>1. "rejected" \in Statuses /\ "rejected" \notin Live
    BY DEF Statuses, Live
  <1>2. /\ rows' \in [Keys -> Row]
        /\ rows'[k].status = "rejected"
        /\ \A j \in Keys \ {k} : rows'[j] = Expire(rows, now)[j]
    BY <1>1, InsertRow DEF JTypeOK
  <1>3. JTypeOK' /\ TxnInv'
    BY <1>2 DEF JTypeOK, TxnInv
  <1>4. ExclusiveIntents'
    BY <1>1, <1>2, ExpireStatus, ExclusionShrinks DEF JTypeOK, Keys
  <1>5. QED
    BY <1>3, <1>4

(* A row is revoked, or leaves `claimed' for a resolved status.             *)
LEMMA LeaveKeepsInv ==
    ASSUME JInv, NEW k \in Keys, NEW s \in {"revoked"} \cup Resolved,
           NEW rs \in [Keys -> Row], rows' = SetStatus(rs, k, s),
           \A j \in Keys : /\ rs[j].status = "claimed" => rows[j].status = "claimed"
                           /\ rs[j].status \in Live => rows[j].status \in Live,
           txn' = NoTxn, control' \in Modes
    PROVE  JInv'
  <1> USE DEF JInv
  <1>1. s \in Statuses /\ s \notin Live /\ s # "claimed"
    BY DEF Statuses, Live, Resolved
  <1>2. /\ rows' \in [Keys -> Row]
        /\ rows'[k].status = s
        /\ \A j \in Keys \ {k} : rows'[j] = rs[j]
    BY <1>1, SetStatusRow
  <1>3. JTypeOK' /\ TxnInv'
    BY <1>2 DEF JTypeOK, TxnInv
  <1>4. ExclusiveIntents'
    BY <1>1, <1>2, ExclusionShrinks DEF Keys
  <1>5. QED
    BY <1>3, <1>4

(* What an approval of the state provider's snapshot says of the other rows. *)
LEMMA ValidatesExcludes ==
    ASSUME NEW rs, NEW k \in EntryKeys, NEW base, NEW ex, NEW now, NEW day,
           Validates(rs, k, base, ex, now, day)
    PROVE  \A j \in EntryKeys \ ex : rs[j].status \in Live => Underlying(j) # Underlying(k)
  BY DEF Validates, Active

LEMMA ReserveCommitKeepsInv ==
    ASSUME JInv, NEW base, ReserveCommit(base)
    PROVE  JInv'
  <1> DEFINE k == txn.key
             ok == Validates(Expire(rows, txn.now), k, base, {}, txn.now, txn.day) /\ ~Disabled
  <1>1. /\ txn \in Txn /\ txn # NoTxn /\ k \in EntryKeys /\ k \in Keys
        /\ txn.now \in Times /\ txn.day \in Days
        /\ rows[k].status = "absent"
        /\ rows' = Insert(k, IF ok THEN "reserved" ELSE "rejected", txn.now, txn.day)
        /\ txn' = NoTxn /\ control' = control
    BY DEF JInv, JTypeOK, TxnInv, ReserveCommit, Txn, NoTxn, Keys
  <1>2. CASE ~ok
    <2> HIDE DEF k
    <2>1. rows' = Insert(k, "rejected", txn.now, txn.day)
      BY <1>1, <1>2
    <2>2. QED
      BY <1>1, <2>1, RejectKeepsInv DEF JInv, JTypeOK
  <1>3. CASE ok
    <2> HIDE DEF k
    <2>1. rows' = Insert(k, "reserved", txn.now, txn.day)
      BY <1>1, <1>3
    <2>2. /\ rows' \in [Keys -> Row]
          /\ rows'[k].status = "reserved"
          /\ \A j \in Keys \ {k} : rows'[j] = Expire(rows, txn.now)[j]
      BY <1>1, <2>1, InsertRow DEF JInv, JTypeOK, Statuses, Live
    <2>3. JTypeOK' /\ TxnInv'
      BY <1>1, <2>2 DEF JInv, JTypeOK, TxnInv
    <2>4. \A j \in EntryKeys : Expire(rows, txn.now)[j].status \in Live => Underlying(j) # Underlying(k)
      BY <1>1, <1>3, ValidatesExcludes
    <2>5. /\ \A j \in ExitKeys \ {k} : rows'[j].status = "claimed" => rows[j].status = "claimed"
          /\ \A j \in EntryKeys \ {k} : rows'[j].status \in Live => rows[j].status \in Live
          /\ \A j \in EntryKeys \ {k} : rows'[j].status \in Live => Underlying(j) # Underlying(k)
      <3>1. rows \in [Keys -> Row] /\ txn.now \in Times
        BY <1>1 DEF JInv, JTypeOK
      <3>2. \A j \in Keys \ {k} :
               /\ rows'[j].status = "claimed" => rows[j].status = "claimed"
               /\ rows'[j].status \in Live => rows[j].status \in Live
               /\ rows'[j].status \in Live => Expire(rows, txn.now)[j].status \in Live
        BY <2>2, <3>1, ExpireStatus
      <3>3. QED
        BY <2>4, <3>2 DEF Keys
    <2>6. k \notin ExitKeys
      BY <1>1, JournalConstants
    <2>7. ExclusiveIntents'
      BY <1>1, <2>5, <2>6, ExclusionGrows DEF JInv
    <2>8. QED
      BY <2>3, <2>7 DEF JInv
  <1>4. QED
    BY <1>2, <1>3

LEMMA ClaimCommitKeepsInv ==
    ASSUME JInv, NEW base, ClaimCommit(base)
    PROVE  JInv'
  <1> DEFINE k == txn.key
             rs == Expire(rows, txn.now)
             ok == Validates(rs, k, base, {k}, txn.now, txn.day) /\ ~Disabled
  <1>1. /\ txn \in Txn /\ txn # NoTxn /\ k \in EntryKeys /\ k \in Keys
        /\ txn.now \in Times
        /\ rows[k].status = "reserved"
        /\ rows' = SetStatus(rs, k, IF ok THEN "claimed" ELSE "revoked")
        /\ txn' = NoTxn /\ control' = control
    BY DEF JInv, JTypeOK, TxnInv, ClaimCommit, Txn, NoTxn, Keys
  <1>2. rs \in [Keys -> Row]
    BY <1>1, ExpireRow DEF JInv, JTypeOK
  <1>3. \A j \in Keys : /\ rs[j].status = "claimed" => rows[j].status = "claimed"
                        /\ rs[j].status \in Live => rows[j].status \in Live
    BY <1>1, ExpireStatus DEF JInv, JTypeOK
  <1>4. CASE ~ok
    <2> HIDE DEF k, rs
    <2>1. rows' = SetStatus(rs, k, "revoked")
      BY <1>1, <1>4
    <2>2. QED
      BY <1>1, <1>2, <1>3, <2>1, LeaveKeepsInv DEF JInv, JTypeOK
  <1>5. CASE ok
    <2>0. \A j \in EntryKeys \ {k} : rs[j].status \in Live => Underlying(j) # Underlying(k)
      BY <1>1, <1>5, ValidatesExcludes
    <2> HIDE DEF k, rs
    <2>1. rows' = SetStatus(rs, k, "claimed")
      BY <1>1, <1>5
    <2>2. /\ rows' \in [Keys -> Row]
          /\ \A j \in Keys \ {k} : rows'[j] = rs[j]
      BY <1>1, <1>2, <2>1, SetStatusRow DEF Statuses, Live
    <2>3. JTypeOK' /\ TxnInv'
      BY <1>1, <2>2 DEF JInv, JTypeOK, TxnInv
    <2>4. /\ \A j \in ExitKeys \ {k} : rows'[j].status = "claimed" => rows[j].status = "claimed"
          /\ \A j \in EntryKeys \ {k} : rows'[j].status \in Live => rows[j].status \in Live
          /\ \A j \in EntryKeys \ {k} : rows'[j].status \in Live => Underlying(j) # Underlying(k)
      BY <1>3, <2>0, <2>2 DEF Keys
    <2>5. k \notin ExitKeys
      BY <1>1, JournalConstants
    <2>6. ExclusiveIntents'
      BY <1>1, <2>4, <2>5, ExclusionGrows DEF JInv
    <2>7. QED
      BY <2>3, <2>6 DEF JInv
  <1>6. QED
    BY <1>4, <1>5

LEMMA PrepareExitKeepsInv ==
    ASSUME JInv, NEW k \in ExitKeys, NEW held, NEW now \in Times, NEW day \in Days,
           PrepareExit(k, held, now, day)
    PROVE  JInv'
  <1> DEFINE ok == control \in {"ARMED_PAPER", "EXITS_ONLY"} /\ ValidExit(k, held)
  <1>1. /\ k \in Keys
        /\ rows' = Insert(k, IF ok THEN "claimed" ELSE "rejected", now, day)
        /\ txn' = NoTxn /\ control' = control
    BY DEF PrepareExit, Keys
  <1>2. CASE ~ok
    BY <1>1, <1>2, RejectKeepsInv DEF JInv, JTypeOK
  <1>3. CASE ok
    <2>1. /\ rows' \in [Keys -> Row]
          /\ \A j \in Keys \ {k} : rows'[j] = Expire(rows, now)[j]
      BY <1>1, <1>3, InsertRow DEF JInv, JTypeOK, Statuses, Live
    <2>2. JTypeOK' /\ TxnInv'
      BY <1>1, <2>1 DEF JInv, JTypeOK, TxnInv
    <2>3. \A j \in ExitKeys : ~(rows[j].status = "claimed" /\ ContractOf[j] = ContractOf[k])
      BY <1>3 DEF ValidExit
    <2>4. ExclusiveIntents'
      BY <1>1, <2>1, <2>3, ExpireStatus, ExclusionGrows, JournalConstants DEF JInv, JTypeOK, Keys
    <2>5. QED
      BY <2>2, <2>4 DEF JInv
  <1>4. QED
    BY <1>2, <1>3

(* Steps on a sent or unsent claimed row.                                   *)
LEMMA SettleKeepsInv ==
    ASSUME JInv, NEW k \in Keys,
           \/ MarkSubmitted(k) \/ ResolveUnplaced(k) \/ ReleaseUnsent(k)
           \/ \E s \in TerminalStatuses : Resolve(k, s)
    PROVE  JInv'
  <1>1. rows \in [Keys -> Row] /\ txn' = NoTxn /\ control' \in Modes
    BY DEF JInv, JTypeOK, MarkSubmitted, ResolveUnplaced, ReleaseUnsent, Resolve
  <1>2. CASE MarkSubmitted(k)
    <2>1. /\ rows' \in [Keys -> Row]
          /\ \A j \in Keys : rows'[j].status = rows[j].status
      BY <1>1, <1>2 DEF MarkSubmitted, Row
    <2>2. JTypeOK' /\ TxnInv'
      BY <1>1, <2>1 DEF JTypeOK, TxnInv
    <2>3. ExclusiveIntents'
      BY <2>1, ExclusionShrinks DEF JInv, Keys
    <2>4. QED
      BY <2>2, <2>3 DEF JInv
  <1>3. CASE \E s \in Resolved : rows' = SetStatus(rows, k, s)
    BY <1>1, <1>3, LeaveKeepsInv
  <1>4. ResolveUnplaced(k) \/ ReleaseUnsent(k) \/ (\E s \in TerminalStatuses : Resolve(k, s))
          => \E s \in Resolved : rows' = SetStatus(rows, k, s)
    BY DEF ResolveUnplaced, ReleaseUnsent, Resolve, Resolved
  <1>5. QED
    BY <1>2, <1>3, <1>4

(* Opening a transaction leaves the rows alone.                             *)
LEMMA BeginKeepsInv ==
    ASSUME JInv, NEW k \in EntryKeys, NEW now \in Times, NEW day \in Days,
           ReserveBegin(k, now, day) \/ ClaimBegin(k, now, day)
    PROVE  JInv'
  <1>1. rows' = rows /\ control' = control /\ txn'.key = k /\ txn'.now = now /\ txn'.day = day
        /\ txn' \in Txn
    BY DEF ReserveBegin, ClaimBegin, Txn
  <1>2. JTypeOK' /\ ExclusiveIntents'
    BY <1>1 DEF JInv, JTypeOK, ExclusiveIntents, Active
  <1>3. CASE ReserveBegin(k, now, day)
    BY <1>1, <1>2, <1>3 DEF JInv, TxnInv, ReserveBegin
  <1>4. CASE ClaimBegin(k, now, day)
    <2>1. /\ rows[k].status = "reserved"
          /\ ~(rows[k].created + TTL <= now)
      BY <1>4, ExpireRow DEF ClaimBegin, JInv, JTypeOK, Keys
    <2>2. now < rows[k].created + TTL
      <3>1. rows[k] \in Row
        BY DEF JInv, JTypeOK, Keys
      <3>2. rows[k].created \in Times \cup {0}
        BY <3>1 DEF Row
      <3>3. (\A t \in Times : t \in Nat) /\ TTL \in Nat
        BY JournalConstants
      <3>4. rows[k].created \in Nat /\ now \in Nat /\ TTL \in Nat
        BY <3>2, <3>3
      <3>5. QED
        BY <2>1, <3>4
    <2>3. TxnInv'
      BY <1>1, <1>4, <2>1, <2>2 DEF TxnInv, ClaimBegin
    <2>4. QED
      BY <1>2, <2>3 DEF JInv
  <1>5. QED
    BY <1>3, <1>4

(* A step of the journal under any caller: whatever a provider answers,      *)
(* whatever inventory an exit is held against, whatever terminal status an   *)
(* order has.  JNext and the processes of PaperExecution are some of them.   *)
JournalStep ==
    \/ SetControl
    \/ Rollback
    \/ \E base : ReserveCommit(base) \/ ClaimCommit(base)
    \/ \E k \in EntryKeys, now \in Times :
          \/ ReserveDuplicate(k, now) \/ ClaimUnavailable(k, now)
          \/ \E day \in Days :
                \/ ReserveDisabled(k, now, day) \/ ReserveBegin(k, now, day)
                \/ ClaimMismatch(k, now, day) \/ ClaimDisabled(k, now, day)
                \/ ClaimBegin(k, now, day)
    \/ \E k \in ExitKeys, now \in Times :
          \/ ExitDuplicate(k, now)
          \/ \E day \in Days : \E held : PrepareExit(k, held, now, day)
    \/ \E k \in Keys :
          \/ MarkSubmitted(k) \/ ResolveUnplaced(k) \/ ReleaseUnsent(k)
          \/ \E status \in TerminalStatuses : Resolve(k, status)

LEMMA NextIsStep == JNext => JournalStep
  BY DEF JNext, JournalStep, TerminalStatuses

LEMMA StepKeepsInv == JInv /\ [JournalStep]_jvars => JInv'
  <1> SUFFICES ASSUME JInv, [JournalStep]_jvars PROVE JInv'
    OBVIOUS
  <1>1. CASE UNCHANGED jvars
    BY <1>1 DEF jvars, JInv, JTypeOK, TxnInv, ExclusiveIntents, Active
  <1>2. CASE SetControl \/ Rollback
    <2>1. /\ rows' = rows /\ control' \in Modes
          /\ txn' = txn \/ txn' = NoTxn
      BY <1>2 DEF SetControl, Rollback, JInv, JTypeOK
    <2>2. QED
      BY <2>1 DEF JInv, JTypeOK, TxnInv, ExclusiveIntents, Active
  <1>3. CASE \E base : ReserveCommit(base) \/ ClaimCommit(base)
    BY <1>3, ReserveCommitKeepsInv, ClaimCommitKeepsInv
  <1>4. ASSUME NEW k \in EntryKeys, NEW now \in Times,
               ReserveDuplicate(k, now) \/ ClaimUnavailable(k, now)
        PROVE  JInv'
    BY <1>4, ExpireKeepsInv DEF ReserveDuplicate, ClaimUnavailable, JInv, JTypeOK
  <1>5. ASSUME NEW k \in EntryKeys, NEW now \in Times, NEW day \in Days,
               ReserveDisabled(k, now, day)
        PROVE  JInv'
    BY <1>5, RejectKeepsInv DEF ReserveDisabled, JInv, JTypeOK, Keys
  <1>6. ASSUME NEW k \in EntryKeys, NEW now \in Times, NEW day \in Days,
               ClaimMismatch(k, now, day) \/ ClaimDisabled(k, now, day)
        PROVE  JInv'
    <2>1. /\ rows' = SetStatus(Expire(rows, now), k, "revoked")
          /\ txn' = NoTxn /\ control' \in Modes /\ k \in Keys
      BY <1>6 DEF ClaimMismatch, ClaimDisabled, JInv, JTypeOK, Keys
    <2>2. /\ Expire(rows, now) \in [Keys -> Row]
          /\ \A j \in Keys :
                /\ Expire(rows, now)[j].status = "claimed" => rows[j].status = "claimed"
                /\ Expire(rows, now)[j].status \in Live => rows[j].status \in Live
      BY ExpireRow, ExpireStatus DEF JInv, JTypeOK
    <2>3. QED
      BY <2>1, <2>2, LeaveKeepsInv
  <1>7. ASSUME NEW k \in EntryKeys, NEW now \in Times, NEW day \in Days,
               ReserveBegin(k, now, day) \/ ClaimBegin(k, now, day)
        PROVE  JInv'
    BY <1>7, BeginKeepsInv
  <1>8. ASSUME NEW k \in ExitKeys, NEW now \in Times, ExitDuplicate(k, now)
        PROVE  JInv'
    BY <1>8, ExpireKeepsInv DEF ExitDuplicate, JInv, JTypeOK
  <1>9. ASSUME NEW k \in ExitKeys, NEW now \in Times, NEW day \in Days,
               NEW held, PrepareExit(k, held, now, day)
        PROVE  JInv'
    BY <1>9, PrepareExitKeepsInv
  <1>10. ASSUME NEW k \in Keys,
                \/ MarkSubmitted(k) \/ ResolveUnplaced(k) \/ ReleaseUnsent(k)
                \/ \E status \in TerminalStatuses : Resolve(k, status)
         PROVE  JInv'
    BY <1>10, SettleKeepsInv
  <1>11. QED
    BY <1>1, <1>2, <1>3, <1>4, <1>5, <1>6, <1>7, <1>8, <1>9, <1>10 DEF JournalStep

-----------------------------------------------------------------------------
(* JInv is inductive.                                                       *)
THEOREM JournalInvariant == JSpec => []JInv
  BY JInitInv, NextIsStep, StepKeepsInv, PTL DEF JSpec

(* The journal keeps its types (orders.py:59-77).                           *)
THEOREM JournalTypeOK == JSpec => []JTypeOK
  <1>1. JInv => JTypeOK
    BY DEF JInv
  <1>2. QED
    BY <1>1, JournalInvariant, PTL

(* At most one live exit per contract and one live entry per underlying, for *)
(* every interleaving of reservations, claims, expiries and releases.        *)
THEOREM IntentsAreExclusive == JSpec => []ExclusiveIntents
  <1>1. JInv => ExclusiveIntents
    BY DEF JInv
  <1>2. QED
    BY <1>1, JournalInvariant, PTL

-----------------------------------------------------------------------------
(* The rate limit.  A step other than an approved reservation leaves the    *)
(* authorized entries and their stamps as they were.                        *)
SameAuthorized ==
    \A k \in EntryKeys :
        /\ k \in Authorized(rows') <=> k \in Authorized(rows)
        /\ k \in Authorized(rows) => rows'[k].created = rows[k].created

LEMMA SameWindows ==
    ASSUME RollingRate, SameAuthorized
    PROVE  RollingRate'
  <1>1. \A t \in Times : Window(rows', t) = Window(rows, t)
    BY DEF SameAuthorized, Window
  <1>2. QED
    BY <1>1 DEF RollingRate

LEMMA ExpireAuthorized ==
    ASSUME NEW rs \in [Keys -> Row], NEW now \in Times, NEW k \in Keys
    PROVE  /\ k \in Authorized(Expire(rs, now)) <=> k \in Authorized(rs)
           /\ Expire(rs, now)[k].created = rs[k].created
  <1>1. DOMAIN rs = Keys /\ DOMAIN Expire(rs, now) = Keys
    BY ExpireRow
  <1>2. rs[k].status \in {"absent", "rejected"} <=> Expire(rs, now)[k].status \in {"absent", "rejected"}
    BY DEF Expire, Row
  <1>3. k \in Authorized(Expire(rs, now)) <=> k \in Authorized(rs)
    BY <1>1, <1>2 DEF Authorized
  <1>4. QED
    BY <1>3, ExpireStatus

(* A step that inserts a rejected row, or an exit, or changes the status of *)
(* an authorized row to an authorized one.                                  *)
LEMMA OtherKeepsRate ==
    ASSUME JTypeOK, JTypeOK', RollingRate, NEW now \in Times, NEW k \in Keys,
           \A j \in Keys \ {k} : rows'[j] = Expire(rows, now)[j] \/ rows'[j] = rows[j],
           \/ k \in EntryKeys => rows'[k].status = "rejected" /\ rows[k].status = "absent"
           \/ /\ rows[k].status \notin {"absent", "rejected"}
              /\ rows'[k].status \notin {"absent", "rejected"}
              /\ rows'[k].created = rows[k].created
    PROVE  RollingRate'
  <1>1. DOMAIN rows = Keys /\ DOMAIN rows' = Keys
    BY DEF JTypeOK
  <1>2. \A j \in Keys \ {k} : /\ j \in Authorized(rows') <=> j \in Authorized(rows)
                              /\ rows'[j].created = rows[j].created
    BY <1>1, ExpireAuthorized, ExpireRow DEF Authorized, JTypeOK
  <1>3. k \in EntryKeys => /\ k \in Authorized(rows') <=> k \in Authorized(rows)
                           /\ k \in Authorized(rows) => rows'[k].created = rows[k].created
    BY <1>1 DEF Authorized
  <1>4. SameAuthorized
    BY <1>2, <1>3 DEF SameAuthorized, Keys
  <1>5. QED
    BY <1>4, SameWindows

(* What an approval says of the attempts: none lies in the future of the    *)
(* decision and fewer than MaxAttempts in the hour before it.               *)
LEMMA ApprovalBoundsRate ==
    ASSUME NEW rs, NEW k, NEW base, NEW now, NEW day,
           Validates(rs, k, base, {}, now, day)
    PROVE  LET att == [j \in Authorized(rs) \cap Keys |-> rs[j].created]
           IN  /\ \A j \in Authorized(rs) \cap Keys : rs[j].created <= now
               /\ Cardinality(Recent(att, now)) < MaxAttempts
  <1> DEFINE att == [j \in Authorized(rs) \cap Keys |-> rs[j].created]
             st == Adjusted(rs, base, {})
  <1>1. st.attempts = att
    BY DEF Adjusted
  <1>2. ValidCounters(st, now) /\ Capacity(st, now)
    BY DEF Validates, Approves
  <1>3. \A j \in DOMAIN att : att[j] <= now
    BY <1>1, <1>2 DEF ValidCounters
  <1>4. Cardinality(Recent(att, now)) < MaxAttempts
    BY <1>1, <1>2 DEF Capacity
  <1>5. QED
    BY <1>3, <1>4

LEMMA ReserveKeepsRate ==
    ASSUME JInv, RollingRate, NEW base, ReserveCommit(base)
    PROVE  RollingRate'
  <1> DEFINE k == txn.key
             now == txn.now
             rs == Expire(rows, now)
             ok == Validates(rs, k, base, {}, now, txn.day) /\ ~Disabled
             att == [j \in Authorized(rs) \cap Keys |-> rs[j].created]
  <1>1. /\ k \in EntryKeys /\ k \in Keys /\ now \in Times /\ txn.day \in Days
        /\ rows \in [Keys -> Row] /\ rows[k].status = "absent"
        /\ rows' = Insert(k, IF ok THEN "reserved" ELSE "rejected", now, txn.day)
    BY DEF JInv, JTypeOK, TxnInv, ReserveCommit, Txn, NoTxn, Keys
  <1>2. JTypeOK'
    BY ReserveCommitKeepsInv DEF JInv
  <1>3. \A j \in Keys \ {k} : rows'[j] = rs[j]
    BY <1>1, InsertRow DEF Statuses, Live
  <1>4. CASE ~ok
    <2>1. rows'[k].status = "rejected"
      BY <1>1, <1>4, InsertRow DEF Statuses, Live
    <2>2. QED
      BY <1>1, <1>2, <1>3, <2>1, OtherKeepsRate DEF JInv
  <1>5. CASE ok
    <2>1. rs \in [Keys -> Row] /\ DOMAIN rs = Keys /\ rows' \in [Keys -> Row] /\ DOMAIN rows' = Keys
      BY <1>1, <1>2, ExpireRow DEF JTypeOK
    <2>2. rows'[k].created = now
      BY <1>1, <1>5, ExpireRow DEF Insert
    <2>3. /\ \A j \in Authorized(rs) \cap Keys : rs[j].created <= now
          /\ Cardinality(Recent(att, now)) < MaxAttempts
      BY <1>5, ApprovalBoundsRate
    <2>4. SUFFICES ASSUME NEW t \in Times
                   PROVE  Cardinality(Window(rows', t)) <= MaxAttempts
      BY DEF RollingRate
    <2>5. now \in Nat /\ t \in Nat /\ Hour \in Nat /\ MaxAttempts \in Nat
      BY <1>1, JournalConstants, RulesConstants
    <2>6. CASE t < now
      <3>1. k \notin Window(rows', t)
        BY <2>2, <2>5, <2>6 DEF Window
      <3>2. \A j \in EntryKeys \ {k} : j \in Window(rows', t) => j \in Window(rows, t)
        BY <1>1, <1>3, <2>1, ExpireAuthorized DEF Window, Authorized, Keys
      <3>3. Window(rows', t) \subseteq Window(rows, t)
        BY <3>1, <3>2 DEF Window
      <3>4. IsFiniteSet(Window(rows, t))
        BY JournalConstants, FS_Subset DEF Window, Keys
      <3>5. /\ Cardinality(Window(rows', t)) <= Cardinality(Window(rows, t))
            /\ IsFiniteSet(Window(rows', t))
        BY <3>3, <3>4, FS_Subset
      <3>6. /\ Cardinality(Window(rows, t)) \in Nat /\ Cardinality(Window(rows', t)) \in Nat
            /\ Cardinality(Window(rows, t)) <= MaxAttempts
        BY <3>4, <3>5, FS_CardinalityType DEF RollingRate
      <3>7. QED
        BY <2>5, <3>5, <3>6
    <2>7. CASE now <= t
      <3>1. ASSUME NEW j \in Window(rows', t), j # k
            PROVE  j \in Recent(att, now)
        <4>1. j \in EntryKeys /\ j \in Keys /\ rows'[j] = rs[j] /\ j \in Authorized(rs)
          BY <1>3, <2>1, <3>1 DEF Window, Authorized, Keys
        <4>2. rs[j] \in Row /\ t - Hour < rs[j].created
          BY <2>1, <3>1, <4>1 DEF Window
        <4>3. rs[j].created <= now
          BY <2>3, <4>1
        <4>4. rs[j].created \in Times \cup {0} /\ \A x \in Times : x \in Nat
          BY <4>2, JournalConstants DEF Row
        <4>5. rs[j].created \in Nat
          BY <4>4
        <4>6. now - Hour < rs[j].created
          BY <2>5, <2>7, <4>2, <4>5
        <4>7. j \in DOMAIN att /\ att[j] = rs[j].created
          BY <4>1
        <4>8. QED
          BY <4>3, <4>6, <4>7 DEF Recent
      <3>2. Window(rows', t) \subseteq Recent(att, now) \cup {k}
        BY <3>1
      <3>3. IsFiniteSet(Recent(att, now))
        BY JournalConstants, FS_Subset DEF Recent
      <3>4. /\ IsFiniteSet(Recent(att, now) \cup {k})
            /\ Cardinality(Recent(att, now) \cup {k}) <= Cardinality(Recent(att, now)) + 1
        <4> DEFINE R == Recent(att, now)
        <4>1. IsFiniteSet(R)
          BY <3>3
        <4> HIDE DEF R, att, k
        <4>2. Cardinality(R) \in Nat
          BY <4>1, FS_CardinalityType
        <4>3. /\ IsFiniteSet(R \cup {k})
              /\ Cardinality(R \cup {k}) = IF k \in R THEN Cardinality(R) ELSE Cardinality(R) + 1
          BY <4>1, FS_AddElement
        <4>4. IsFiniteSet(R \cup {k}) /\ Cardinality(R \cup {k}) <= Cardinality(R) + 1
          BY <4>2, <4>3
        <4>5. QED
          BY <4>4 DEF R
      <3>5. /\ IsFiniteSet(Window(rows', t))
            /\ Cardinality(Window(rows', t)) <= Cardinality(Recent(att, now) \cup {k})
        BY <3>2, <3>4, FS_Subset
      <3>6. /\ Cardinality(Window(rows', t)) \in Nat
            /\ Cardinality(Recent(att, now) \cup {k}) \in Nat
            /\ Cardinality(Recent(att, now)) \in Nat
        BY <3>3, <3>4, <3>5, FS_CardinalityType
      <3> HIDE DEF att, k
      <3>7. QED
        BY <2>3, <2>5, <3>4, <3>5, <3>6
    <2>8. QED
      BY <2>5, <2>6, <2>7
  <1>6. QED
    BY <1>4, <1>5

(* A step in which no row changes but by expiry.                            *)
LEMMA LapseKeepsRate ==
    ASSUME JTypeOK, JTypeOK', RollingRate, NEW now \in Times, rows' = Expire(rows, now)
    PROVE  RollingRate'
  <1>1. SameAuthorized
    BY ExpireAuthorized DEF SameAuthorized, JTypeOK, Keys
  <1>2. QED
    BY <1>1, SameWindows

LEMMA ClaimedKeepsRate ==
    ASSUME JInv, JTypeOK', RollingRate, NEW k \in EntryKeys, NEW now \in Times,
           Expire(rows, now)[k].status = "reserved",
           NEW s \in {"claimed", "revoked"}, rows' = SetStatus(Expire(rows, now), k, s)
    PROVE  RollingRate'
  <1>1. k \in Keys /\ rows \in [Keys -> Row]
    BY DEF JInv, JTypeOK, Keys
  <1>2. Expire(rows, now) \in [Keys -> Row] /\ Expire(rows, now)[k] = rows[k]
    BY <1>1, ExpireRow
  <1>3. /\ rows'[k].status = s /\ rows'[k].created = rows[k].created
        /\ \A j \in Keys \ {k} : rows'[j] = Expire(rows, now)[j]
    BY <1>1, <1>2, SetStatusRow DEF Statuses, Live
  <1>4. rows[k].status \notin {"absent", "rejected"} /\ rows'[k].status \notin {"absent", "rejected"}
    BY <1>2, <1>3
  <1>5. QED
    BY <1>1, <1>3, <1>4, OtherKeepsRate DEF JInv

LEMMA StepKeepsRate == JInv /\ JInv' /\ RollingRate /\ [JournalStep]_jvars => RollingRate'
  <1> SUFFICES ASSUME JInv, JInv', RollingRate, [JournalStep]_jvars PROVE RollingRate'
    OBVIOUS
  <1>0. JTypeOK /\ JTypeOK' /\ rows \in [Keys -> Row]
    BY DEF JInv, JTypeOK
  <1>1. CASE UNCHANGED jvars \/ SetControl \/ Rollback
    BY <1>1, SameWindows DEF jvars, SetControl, Rollback, SameAuthorized
  <1>2. ASSUME NEW base, ReserveCommit(base) PROVE RollingRate'
    BY <1>2, ReserveKeepsRate
  <1>3. ASSUME NEW base, ClaimCommit(base) PROVE RollingRate'
    <2>1. /\ txn.key \in EntryKeys /\ txn.now \in Times
          /\ txn.key \in Keys /\ rows[txn.key].status = "reserved"
          /\ txn.now < rows[txn.key].created + TTL
      BY <1>3 DEF JInv, JTypeOK, TxnInv, ClaimCommit, Txn, NoTxn, Keys
    <2>2. \E s \in {"claimed", "revoked"} : rows' = SetStatus(Expire(rows, txn.now), txn.key, s)
      BY <1>3 DEF ClaimCommit
    <2>3. ~(rows[txn.key].created + TTL <= txn.now)
      <3>1. rows[txn.key].created \in Times \cup {0}
        BY <1>0, <2>1 DEF Row
      <3>2. (\A x \in Times : x \in Nat) /\ TTL \in Nat
        BY JournalConstants
      <3>3. rows[txn.key].created \in Nat /\ txn.now \in Nat /\ TTL \in Nat
        BY <2>1, <3>1, <3>2
      <3>4. QED
        BY <2>1, <3>3
    <2>4. Expire(rows, txn.now)[txn.key].status = "reserved"
      BY <1>0, <2>1, <2>3 DEF Expire
    <2>5. QED
      BY <1>0, <2>1, <2>2, <2>4, ClaimedKeepsRate
  <1>4. ASSUME NEW k \in EntryKeys, NEW now \in Times,
               ReserveDuplicate(k, now) \/ ClaimUnavailable(k, now)
        PROVE  RollingRate'
    BY <1>0, <1>4, LapseKeepsRate DEF ReserveDuplicate, ClaimUnavailable
  <1>5. ASSUME NEW k \in EntryKeys, NEW now \in Times, NEW day \in Days,
               ReserveDisabled(k, now, day)
        PROVE  RollingRate'
    <2>1. /\ k \in Keys /\ rows[k].status = "absent"
          /\ rows'[k].status = "rejected"
          /\ \A j \in Keys \ {k} : rows'[j] = Expire(rows, now)[j]
      BY <1>0, <1>5, InsertRow DEF ReserveDisabled, Statuses, Keys
    <2>2. QED
      BY <1>0, <2>1, OtherKeepsRate
  <1>6. ASSUME NEW k \in EntryKeys, NEW now \in Times, NEW day \in Days,
               ClaimMismatch(k, now, day) \/ ClaimDisabled(k, now, day)
        PROVE  RollingRate'
    <2>1. /\ Expire(rows, now)[k].status = "reserved"
          /\ rows' = SetStatus(Expire(rows, now), k, "revoked")
      BY <1>6 DEF ClaimMismatch, ClaimDisabled
    <2>2. QED
      BY <1>0, <2>1, ClaimedKeepsRate
  <1>7. ASSUME NEW k \in EntryKeys, NEW now \in Times, NEW day \in Days,
               ReserveBegin(k, now, day) \/ ClaimBegin(k, now, day)
        PROVE  RollingRate'
    BY <1>7, SameWindows DEF ReserveBegin, ClaimBegin, SameAuthorized
  <1>8. ASSUME NEW k \in ExitKeys, NEW now \in Times, ExitDuplicate(k, now)
        PROVE  RollingRate'
    BY <1>0, <1>8, LapseKeepsRate DEF ExitDuplicate
  <1>9. ASSUME NEW k \in ExitKeys, NEW now \in Times, NEW day \in Days, NEW held,
               PrepareExit(k, held, now, day)
        PROVE  RollingRate'
    <2>1. k \in Keys /\ k \notin EntryKeys
      BY JournalConstants DEF Keys
    <2>2. \E s \in Statuses : rows' = Insert(k, s, now, day)
      BY <1>9 DEF PrepareExit, Statuses, Live
    <2>3. \A j \in Keys \ {k} : rows'[j] = Expire(rows, now)[j]
      BY <1>0, <2>1, <2>2, InsertRow
    <2>4. QED
      BY <1>0, <2>1, <2>3, OtherKeepsRate
  <1>10. ASSUME NEW k \in Keys,
                \/ MarkSubmitted(k) \/ ResolveUnplaced(k) \/ ReleaseUnsent(k)
                \/ \E status \in TerminalStatuses : Resolve(k, status)
         PROVE  RollingRate'
    <2>1. /\ rows[k].status = "claimed"
          /\ \A j \in Keys \ {k} : rows'[j] = rows[j]
          /\ rows'[k].created = rows[k].created
          /\ rows'[k].status \in {"claimed"} \cup Resolved
      BY <1>0, <1>10 DEF MarkSubmitted, ResolveUnplaced, ReleaseUnsent, Resolve, SetStatus, Sendable, Row, Resolved
    <2>2. rows[k].status \notin {"absent", "rejected"} /\ rows'[k].status \notin {"absent", "rejected"}
      BY <2>1 DEF Resolved
    <2>3. SameAuthorized
      BY <1>0, <2>1, <2>2 DEF SameAuthorized, Authorized, JTypeOK, Keys
    <2>4. QED
      BY <2>3, SameWindows
  <1>11. QED
    BY <1>1, <1>2, <1>3, <1>4, <1>5, <1>6, <1>7, <1>8, <1>9, <1>10 DEF JournalStep

LEMMA EmptyRate ==
    ASSUME rows = [k \in Keys |-> Absent]
    PROVE  RollingRate
  <1> SUFFICES ASSUME NEW t \in Times
               PROVE  Cardinality(Window(rows, t)) <= MaxAttempts
    BY DEF RollingRate
  <1>1. \A k \in EntryKeys : k \notin Authorized(rows)
    BY DEF Absent, Authorized
  <1>2. Window(rows, t) = {}
    BY <1>1 DEF Window
  <1>3. QED
    BY <1>2, FS_EmptySet, RulesConstants

(* No hour ever holds more than MaxAttempts authorized entries, even when   *)
(* the clocks of the callers step back between decisions.                   *)
THEOREM RateIsLimited == JSpec => []RollingRate
  <1>1. JInit => RollingRate
    BY EmptyRate DEF JInit
  <1>2. QED
    BY <1>1, NextIsStep, StepKeepsRate, JournalInvariant, PTL DEF JSpec

-----------------------------------------------------------------------------
(* OrderJournal implements IntentLifecycle, and a claim is timely.           *)

(* What time did to the rows before a step looked at them.                  *)
Lapses(mid) ==
    \A j \in Keys : \/ mid[j].status = rows[j].status
                    \/ rows[j].status = "reserved" /\ mid[j].status = "expired"

(* What a step then did to the one row it is about.                         *)
Refuses(mid, k)  == mid[k].status = "absent" /\ rows'[k].status = "rejected"
Reserves(mid, k) ==
    /\ k \in EntryKeys
    /\ mid[k].status = "absent" /\ rows'[k].status = "reserved"
    /\ \A j \in EntryKeys : mid[j].status \in Live => Underlying(j) # Underlying(k)
Prepares(mid, k) ==
    /\ k \in ExitKeys
    /\ mid[k].status = "absent" /\ rows'[k].status = "claimed"
    /\ \A j \in ExitKeys : mid[j].status = "claimed" => ContractOf[j] # ContractOf[k]
Claims(mid, k)   == mid[k].status = "reserved" /\ rows'[k].status \in {"claimed", "revoked"}
Settles(mid, k)  == mid[k].status = "claimed" /\ rows'[k].status \in {"claimed"} \cup Resolved

Moves(mid, k) ==
    /\ \A j \in Keys \ {k} : rows'[j].status = mid[j].status
    /\ Refuses(mid, k) \/ Reserves(mid, k) \/ Prepares(mid, k) \/ Claims(mid, k) \/ Settles(mid, k)

(* The shape of every step of the journal.                                  *)
Shape ==
    \/ \A j \in Keys : rows'[j].status = rows[j].status
    \/ \E mid \in [Keys -> Row] :
          /\ Lapses(mid)
          /\ \/ \A j \in Keys : rows'[j].status = mid[j].status
             \/ \E k \in Keys : Moves(mid, k)

LEMMA ExpireLapses ==
    ASSUME JInv, NEW now \in Times
    PROVE  /\ Expire(rows, now) \in [Keys -> Row]
           /\ Lapses(Expire(rows, now))
  <1>1. rows \in [Keys -> Row]
    BY DEF JInv, JTypeOK
  <1>2. \A j \in Keys : \/ Expire(rows, now)[j].status = rows[j].status
                        \/ rows[j].status = "reserved" /\ Expire(rows, now)[j].status = "expired"
    <2> SUFFICES ASSUME NEW j \in Keys
                 PROVE  \/ Expire(rows, now)[j].status = rows[j].status
                        \/ rows[j].status = "reserved" /\ Expire(rows, now)[j].status = "expired"
      OBVIOUS
    <2>1. Expire(rows, now)[j] = rows[j] \/ rows[j].status = "reserved"
      BY <1>1, ExpireRow
    <2>2. Expire(rows, now)[j].status \in {rows[j].status, "expired"}
      BY <1>1, ExpireStatus
    <2>3. QED
      BY <2>1, <2>2
  <1>3. QED
    BY <1>1, <1>2, ExpireRow DEF Lapses

(* A step that moves one row after an expiry has the shape.                 *)
LEMMA ShapeOfMove ==
    ASSUME JInv, NEW now \in Times, NEW k \in Keys, Moves(Expire(rows, now), k)
    PROVE  Shape
  BY ExpireLapses DEF Shape

LEMMA ShapeOfLapse ==
    ASSUME JInv, NEW now \in Times, rows' = Expire(rows, now)
    PROVE  Shape
  BY ExpireLapses DEF Shape

LEMMA ShapeOfReject ==
    ASSUME JInv, NEW now \in Times, NEW day \in Days, NEW k \in Keys,
           rows[k].status = "absent", rows' = Insert(k, "rejected", now, day)
    PROVE  Shape
  <1>1. rows \in [Keys -> Row] /\ "rejected" \in Statuses
    BY DEF JInv, JTypeOK, Statuses
  <1>2. /\ rows'[k].status = "rejected"
        /\ \A j \in Keys \ {k} : rows'[j] = Expire(rows, now)[j]
    BY <1>1, InsertRow
  <1>3. Expire(rows, now)[k].status = "absent"
    BY <1>1, ExpireStatus
  <1>4. Moves(Expire(rows, now), k)
    BY <1>2, <1>3 DEF Moves, Refuses
  <1>5. QED
    BY <1>4, ShapeOfMove

LEMMA ShapeOfReserve ==
    ASSUME JInv, NEW base, ReserveCommit(base)
    PROVE  Shape
  <1> DEFINE k == txn.key
             rs == Expire(rows, txn.now)
             ok == Validates(rs, k, base, {}, txn.now, txn.day) /\ ~Disabled
  <1>1. /\ k \in EntryKeys /\ k \in Keys /\ txn.now \in Times /\ txn.day \in Days
        /\ rows \in [Keys -> Row] /\ rows[k].status = "absent"
        /\ rows' = Insert(k, IF ok THEN "reserved" ELSE "rejected", txn.now, txn.day)
    BY DEF JInv, JTypeOK, TxnInv, ReserveCommit, Txn, NoTxn, Keys
  <1>2. CASE ~ok
    <2>1. rows' = Insert(k, "rejected", txn.now, txn.day)
      BY <1>1, <1>2
    <2> HIDE DEF k
    <2>2. QED
      BY <1>1, <2>1, ShapeOfReject
  <1>3. CASE ok
    <2>1. \A j \in EntryKeys : rs[j].status \in Live => Underlying(j) # Underlying(k)
      BY <1>1, <1>3, ValidatesExcludes
    <2>2. rows' = Insert(k, "reserved", txn.now, txn.day)
      BY <1>1, <1>3
    <2> HIDE DEF k
    <2>3. /\ rows'[k].status = "reserved"
          /\ \A j \in Keys \ {k} : rows'[j] = rs[j]
      BY <1>1, <2>2, InsertRow DEF Statuses, Live
    <2>4. rs[k].status = "absent"
      BY <1>1, ExpireStatus
    <2>5. Moves(rs, k)
      BY <1>1, <2>1, <2>3, <2>4 DEF Moves, Reserves
    <2>6. QED
      BY <1>1, <2>5, ShapeOfMove
  <1>4. QED
    BY <1>2, <1>3

(* claim() in its three forms that change the row.                          *)
LEMMA ShapeOfClaim ==
    ASSUME JInv, NEW now \in Times, NEW k \in EntryKeys,
           Expire(rows, now)[k].status = "reserved",
           NEW s \in {"claimed", "revoked"}, rows' = SetStatus(Expire(rows, now), k, s)
    PROVE  Shape
  <1>1. k \in Keys /\ s \in Statuses /\ Expire(rows, now) \in [Keys -> Row]
    BY ExpireRow DEF JInv, JTypeOK, Keys, Statuses, Live
  <1>2. /\ rows'[k].status = s
        /\ \A j \in Keys \ {k} : rows'[j] = Expire(rows, now)[j]
    BY <1>1, SetStatusRow
  <1>3. Moves(Expire(rows, now), k)
    BY <1>1, <1>2 DEF Moves, Claims
  <1>4. QED
    BY <1>1, <1>3, ShapeOfMove

(* The row of an open claim has not lapsed.                                 *)
LEMMA OpenClaim ==
    ASSUME JInv, txn.op = "claim"
    PROVE  /\ txn.key \in EntryKeys /\ txn.now \in Times
           /\ rows[txn.key].status = "reserved"
           /\ Expire(rows, txn.now)[txn.key].status = "reserved"
  <1>1. /\ txn.key \in EntryKeys /\ txn.key \in Keys /\ txn.now \in Times
        /\ rows \in [Keys -> Row] /\ rows[txn.key].status = "reserved"
        /\ txn.now < rows[txn.key].created + TTL
    BY DEF JInv, JTypeOK, TxnInv, Txn, NoTxn, Keys
  <1>2. rows[txn.key].created \in Times \cup {0}
    BY <1>1 DEF Row
  <1>3. (\A x \in Times : x \in Nat) /\ TTL \in Nat
    BY JournalConstants
  <1>4. ~(rows[txn.key].created + TTL <= txn.now)
    BY <1>1, <1>2, <1>3
  <1>5. QED
    BY <1>1, <1>4 DEF Expire

LEMMA ShapeOfPrepare ==
    ASSUME JInv, NEW k \in ExitKeys, NEW held, NEW now \in Times, NEW day \in Days,
           PrepareExit(k, held, now, day)
    PROVE  Shape
  <1> DEFINE ok == control \in {"ARMED_PAPER", "EXITS_ONLY"} /\ ValidExit(k, held)
             rs == Expire(rows, now)
  <1>1. /\ k \in Keys /\ rows \in [Keys -> Row] /\ rows[k].status = "absent"
        /\ rows' = Insert(k, IF ok THEN "claimed" ELSE "rejected", now, day)
    BY DEF PrepareExit, Keys, JInv, JTypeOK
  <1>2. CASE ~ok
    BY <1>1, <1>2, ShapeOfReject
  <1>3. CASE ok
    <2>1. /\ rows'[k].status = "claimed"
          /\ \A j \in Keys \ {k} : rows'[j] = rs[j]
      BY <1>1, <1>3, InsertRow DEF Statuses, Live
    <2>2. \A j \in ExitKeys : rows[j].status = "claimed" => ContractOf[j] # ContractOf[k]
      BY <1>3 DEF ValidExit
    <2>3. \A j \in ExitKeys : rs[j].status = "claimed" => ContractOf[j] # ContractOf[k]
      BY <1>1, <2>2, ExpireStatus DEF Keys
    <2>4. rs[k].status = "absent"
      BY <1>1, ExpireStatus
    <2>5. Moves(rs, k)
      BY <1>1, <2>1, <2>3, <2>4 DEF Moves, Prepares
    <2>6. QED
      BY <1>1, <2>5, ShapeOfMove
  <1>4. QED
    BY <1>2, <1>3

LEMMA ShapeOfSettle ==
    ASSUME JInv, NEW k \in Keys,
           \/ MarkSubmitted(k) \/ ResolveUnplaced(k) \/ ReleaseUnsent(k)
           \/ \E status \in TerminalStatuses : Resolve(k, status)
    PROVE  Shape
  <1>1. /\ rows \in [Keys -> Row] /\ rows[k].status = "claimed"
        /\ \A j \in Keys \ {k} : rows'[j] = rows[j]
        /\ rows'[k].status \in {"claimed"} \cup Resolved
    BY DEF JInv, JTypeOK, MarkSubmitted, ResolveUnplaced, ReleaseUnsent, Resolve,
           SetStatus, Sendable, Row, Resolved
  <1>2. Lapses(rows) /\ Moves(rows, k)
    BY <1>1 DEF Lapses, Moves, Settles
  <1>3. QED
    BY <1>1, <1>2 DEF Shape

LEMMA StepsHaveShape == JInv /\ [JournalStep]_jvars => Shape
  <1> SUFFICES ASSUME JInv, [JournalStep]_jvars PROVE Shape
    OBVIOUS
  <1>1. CASE UNCHANGED jvars \/ SetControl \/ Rollback
    BY <1>1 DEF jvars, SetControl, Rollback, Shape
  <1>2. ASSUME NEW base, ReserveCommit(base) PROVE Shape
    BY <1>2, ShapeOfReserve
  <1>3. ASSUME NEW base, ClaimCommit(base) PROVE Shape
    <2>1. txn.op = "claim"
      BY <1>3 DEF ClaimCommit
    <2>2. \E s \in {"claimed", "revoked"} : rows' = SetStatus(Expire(rows, txn.now), txn.key, s)
      BY <1>3 DEF ClaimCommit
    <2>3. QED
      BY <2>1, <2>2, OpenClaim, ShapeOfClaim
  <1>4. ASSUME NEW k \in EntryKeys, NEW now \in Times,
               ReserveDuplicate(k, now) \/ ClaimUnavailable(k, now)
        PROVE  Shape
    BY <1>4, ShapeOfLapse DEF ReserveDuplicate, ClaimUnavailable
  <1>5. ASSUME NEW k \in EntryKeys, NEW now \in Times, NEW day \in Days,
               ReserveDisabled(k, now, day)
        PROVE  Shape
    BY <1>5, ShapeOfReject DEF ReserveDisabled, Keys
  <1>6. ASSUME NEW k \in EntryKeys, NEW now \in Times, NEW day \in Days,
               ClaimMismatch(k, now, day) \/ ClaimDisabled(k, now, day)
        PROVE  Shape
    <2>1. /\ Expire(rows, now)[k].status = "reserved"
          /\ rows' = SetStatus(Expire(rows, now), k, "revoked")
      BY <1>6 DEF ClaimMismatch, ClaimDisabled
    <2>2. QED
      BY <2>1, ShapeOfClaim
  <1>7. ASSUME NEW k \in EntryKeys, NEW now \in Times, NEW day \in Days,
               ReserveBegin(k, now, day) \/ ClaimBegin(k, now, day)
        PROVE  Shape
    BY <1>7 DEF ReserveBegin, ClaimBegin, Shape
  <1>8. ASSUME NEW k \in ExitKeys, NEW now \in Times, ExitDuplicate(k, now)
        PROVE  Shape
    BY <1>8, ShapeOfLapse DEF ExitDuplicate
  <1>9. ASSUME NEW k \in ExitKeys, NEW now \in Times, NEW day \in Days, NEW held,
               PrepareExit(k, held, now, day)
        PROVE  Shape
    BY <1>9, ShapeOfPrepare
  <1>10. ASSUME NEW k \in Keys,
                \/ MarkSubmitted(k) \/ ResolveUnplaced(k) \/ ReleaseUnsent(k)
                \/ \E status \in TerminalStatuses : Resolve(k, status)
         PROVE  Shape
    BY <1>10, ShapeOfSettle
  <1>11. QED
    BY <1>1, <1>2, <1>3, <1>4, <1>5, <1>6, <1>7, <1>8, <1>9, <1>10 DEF JournalStep

-----------------------------------------------------------------------------
(* Exits are never held: prepare_exit makes them claimed at once.           *)
ExitsAreCommitted == \A k \in ExitKeys : rows[k].status # "reserved"

LEMMA ShapeKeepsExits ==
    ASSUME ExitsAreCommitted, Shape
    PROVE  ExitsAreCommitted'
  <1>1. CASE \A j \in Keys : rows'[j].status = rows[j].status
    BY <1>1 DEF ExitsAreCommitted, Keys
  <1>2. ASSUME NEW mid \in [Keys -> Row], Lapses(mid)
        PROVE  \A j \in ExitKeys : mid[j].status # "reserved"
    BY <1>2 DEF ExitsAreCommitted, Lapses, Keys
  <1>3. ASSUME NEW mid \in [Keys -> Row], Lapses(mid), \A j \in Keys : rows'[j].status = mid[j].status
        PROVE  ExitsAreCommitted'
    BY <1>2, <1>3 DEF ExitsAreCommitted, Keys
  <1>4. ASSUME NEW mid \in [Keys -> Row], Lapses(mid), NEW k \in Keys, Moves(mid, k)
        PROVE  ExitsAreCommitted'
    <2>1. k \in ExitKeys => rows'[k].status # "reserved"
      BY <1>4, JournalConstants
         DEF Moves, Refuses, Reserves, Prepares, Claims, Settles, Resolved
    <2>2. \A j \in ExitKeys \ {k} : rows'[j].status # "reserved"
      BY <1>2, <1>4 DEF Moves, Keys
    <2>3. QED
      BY <2>1, <2>2 DEF ExitsAreCommitted
  <1>5. QED
    BY <1>1, <1>3, <1>4 DEF Shape

RInv == JInv /\ ExitsAreCommitted

LEMMA RefinementInvariant == JSpec => []RInv
  <1>1. JInit => ExitsAreCommitted
    BY DEF JInit, ExitsAreCommitted, Absent, Keys
  <1>2. JInv /\ ExitsAreCommitted /\ [JournalStep]_jvars => ExitsAreCommitted'
    BY StepsHaveShape, ShapeKeepsExits
  <1>3. QED
    BY <1>1, <1>2, NextIsStep, JournalInvariant, PTL DEF JSpec, RInv

-----------------------------------------------------------------------------
(* The abstract step of each shape.                                         *)
Ph       == [k \in Keys |-> Phase(rows[k].status)]
Resource == [k \in Keys |-> IF k \in EntryKeys THEN <<"entry", Underlying(k)>>
                                                ELSE <<"exit", ContractOf[k]>>]

(* The rows that lapsed, and the phases afterwards.                         *)
Gone(mid) == {j \in Keys : rows[j].status = "reserved" /\ mid[j].status = "expired"}

LEMMA LapseIsAbstract ==
    ASSUME NEW mid \in [Keys -> Row], Lapses(mid)
    PROVE  /\ Gone(mid) \in SUBSET {j \in Keys : Ph[j] = "held"}
           /\ Lifecycle!Lapse(Gone(mid)) = [j \in Keys |-> Phase(mid[j].status)]
  <1>1. \A j \in Gone(mid) : Ph[j] = "held"
    BY DEF Gone, Ph, Phase
  <1>2. \A j \in Keys : (IF j \in Gone(mid) THEN "ended" ELSE Ph[j]) = Phase(mid[j].status)
    BY DEF Gone, Ph, Phase, Lapses
  <1>3. QED
    BY <1>1, <1>2 DEF Lifecycle!Lapse, Gone, Ph

LEMMA MoveMember ==
    ASSUME NEW ph, NEW k \in Keys, NEW p,
           \/ ph[k] = "new" /\ p = "refused"
           \/ ph[k] = "new" /\ p \in {"held", "committed"} /\ Lifecycle!Free(ph, k)
           \/ ph[k] = "held" /\ p \in {"committed", "ended"}
           \/ ph[k] = "committed" /\ p = "ended"
    PROVE  [ph EXCEPT ![k] = p] \in Lifecycle!Move(ph, k)
  BY DEF Lifecycle!Move

(* A resource that no live row of its kind uses is free.                    *)
LEMMA FreeEntry ==
    ASSUME NEW mid, NEW k \in EntryKeys,
           \A j \in EntryKeys : mid[j].status \in Live => Underlying(j) # Underlying(k)
    PROVE  Lifecycle!Free([j \in Keys |-> Phase(mid[j].status)], k)
  <1> DEFINE ph == [j \in Keys |-> Phase(mid[j].status)]
  <1>1. SUFFICES ASSUME NEW j \in Keys, Resource[j] = Resource[k]
                 PROVE  ph[j] \notin {"held", "committed"}
    BY DEF Lifecycle!Free, Lifecycle!Owns, Resource
  <1>2. k \in Keys /\ Resource[k] = <<"entry", Underlying(k)>>
    BY DEF Resource, Keys
  <1>3. j \in EntryKeys /\ Underlying(j) = Underlying(k)
    BY <1>1, <1>2 DEF Resource
  <1>4. mid[j].status \notin Live
    BY <1>3
  <1>5. QED
    BY <1>4 DEF Phase, Live

LEMMA FreeExit ==
    ASSUME NEW mid, NEW k \in ExitKeys,
           \A j \in ExitKeys : mid[j].status # "reserved",
           \A j \in ExitKeys : mid[j].status = "claimed" => ContractOf[j] # ContractOf[k]
    PROVE  Lifecycle!Free([j \in Keys |-> Phase(mid[j].status)], k)
  <1> DEFINE ph == [j \in Keys |-> Phase(mid[j].status)]
  <1>1. SUFFICES ASSUME NEW j \in Keys, Resource[j] = Resource[k]
                 PROVE  ph[j] \notin {"held", "committed"}
    BY DEF Lifecycle!Free, Lifecycle!Owns, Resource
  <1>2. k \in Keys /\ Resource[k] = <<"exit", ContractOf[k]>>
    BY JournalConstants DEF Resource, Keys
  <1>3. j \in ExitKeys /\ ContractOf[j] = ContractOf[k]
    BY <1>1, <1>2 DEF Resource, Keys
  <1>4. mid[j].status # "reserved" /\ mid[j].status # "claimed"
    BY <1>3
  <1>5. QED
    BY <1>4 DEF Phase

LEMMA MoveIsAbstract ==
    ASSUME ExitsAreCommitted,
           NEW mid \in [Keys -> Row], Lapses(mid), NEW k \in Keys, Moves(mid, k)
    PROVE  LET ph == [j \in Keys |-> Phase(mid[j].status)]
           IN  Ph' = ph \/ Ph' \in Lifecycle!Move(ph, k)
  <1> DEFINE ph == [j \in Keys |-> Phase(mid[j].status)]
             p == Phase(rows'[k].status)
  <1>1. /\ Ph' = [j \in Keys |-> Phase(rows'[j].status)]
        /\ \A j \in Keys \ {k} : Phase(rows'[j].status) = ph[j]
    BY DEF Moves, Ph
  <1>2. Ph' = [ph EXCEPT ![k] = p]
    BY <1>1
  <1>3. \A j \in ExitKeys : mid[j].status # "reserved"
    BY DEF ExitsAreCommitted, Lapses, Keys
  <1>4. CASE Refuses(mid, k)
    <2>1. ph[k] = "new" /\ p = "refused"
      BY <1>4 DEF Refuses, Phase
    <2>2. QED
      BY <1>2, <2>1, MoveMember
  <1>5. CASE Reserves(mid, k)
    <2>1. ph[k] = "new" /\ p = "held"
      BY <1>5 DEF Reserves, Phase
    <2>2. Lifecycle!Free(ph, k)
      BY <1>5, FreeEntry DEF Reserves
    <2>3. QED
      BY <1>2, <2>1, <2>2, MoveMember
  <1>6. CASE Prepares(mid, k)
    <2>1. ph[k] = "new" /\ p = "committed"
      BY <1>6 DEF Prepares, Phase
    <2>2. Lifecycle!Free(ph, k)
      BY <1>3, <1>6, FreeExit DEF Prepares
    <2>3. QED
      BY <1>2, <2>1, <2>2, MoveMember
  <1>7. CASE Claims(mid, k)
    <2>1. ph[k] = "held" /\ p \in {"committed", "ended"}
      BY <1>7 DEF Claims, Phase
    <2>2. QED
      BY <1>2, <2>1, MoveMember
  <1>8. CASE Settles(mid, k)
    <2>1. ph[k] = "committed" /\ p \in {"committed", "ended"}
      BY <1>8 DEF Settles, Phase, Resolved
    <2>2. CASE p = "committed"
      BY <1>2, <2>1, <2>2
    <2>3. CASE p = "ended"
      BY <1>2, <2>1, <2>3, MoveMember
    <2>4. QED
      BY <2>1, <2>2, <2>3
  <1>9. QED
    BY <1>4, <1>5, <1>6, <1>7, <1>8 DEF Moves

LEMMA ShapeIsAbstract ==
    ASSUME ExitsAreCommitted, Shape
    PROVE  [Lifecycle!Next]_Ph
  <1>1. CASE \A j \in Keys : rows'[j].status = rows[j].status
    BY <1>1 DEF Ph
  <1>2. ASSUME NEW mid \in [Keys -> Row], Lapses(mid),
               \/ \A j \in Keys : rows'[j].status = mid[j].status
               \/ \E k \in Keys : Moves(mid, k)
        PROVE  Lifecycle!Next
    <2> DEFINE ph == [j \in Keys |-> Phase(mid[j].status)]
    <2>1. /\ Gone(mid) \in SUBSET {j \in Keys : Ph[j] = "held"}
          /\ Lifecycle!Lapse(Gone(mid)) = ph
      BY <1>2, LapseIsAbstract
    <2>2. Ph' = ph \/ \E k \in Keys : Ph' \in Lifecycle!Move(ph, k)
      <3>1. CASE \A j \in Keys : rows'[j].status = mid[j].status
        BY <3>1 DEF Ph
      <3>2. ASSUME NEW k \in Keys, Moves(mid, k)
            PROVE  Ph' = ph \/ Ph' \in Lifecycle!Move(ph, k)
        BY <1>2, <3>2, MoveIsAbstract
      <3>3. QED
        BY <1>2, <3>1, <3>2
    <2>3. QED
      BY <2>1, <2>2 DEF Lifecycle!Next, Ph
  <1>3. QED
    BY <1>1, <1>2 DEF Shape

-----------------------------------------------------------------------------
(* The journal implements IntentLifecycle (orders.py:7-13): one decision    *)
(* per key, resources owned alone, no lapse of what is committed.           *)
THEOREM JournalImplementsLifecycle == JSpec => LifecycleSpec
  <1>1. JInit => Lifecycle!Init
    BY DEF JInit, Lifecycle!Init, Absent, Phase
  <1>2. RInv /\ [JournalStep]_jvars => [Lifecycle!Next]_Ph
    BY StepsHaveShape, ShapeIsAbstract DEF RInv
  <1>3. QED
    BY <1>1, <1>2, NextIsStep, RefinementInvariant, PTL DEF JSpec, LifecycleSpec, Lifecycle!Spec, Ph

(* Neither an expiry nor an insert makes an entry claimed, nor does a       *)
(* settlement.                                                              *)
LEMMA ExpiryClaimsNothing ==
    ASSUME JInv, NEW now \in Times, NEW k \in EntryKeys,
           rows' = Expire(rows, now), rows'[k].status = "claimed"
    PROVE  rows[k].status = "claimed"
  BY ExpireStatus DEF JInv, JTypeOK, Keys

LEMMA InsertClaimsNothing ==
    ASSUME JInv, NEW now \in Times, NEW day \in Days, NEW i \in Keys, NEW s \in Statuses,
           NEW k \in EntryKeys, rows' = Insert(i, s, now, day),
           i = k => s # "claimed", rows'[k].status = "claimed"
    PROVE  rows[k].status = "claimed"
  <1>1. k \in Keys /\ rows \in [Keys -> Row]
    BY DEF JInv, JTypeOK, Keys
  <1>2. i # k
    BY <1>1, InsertRow
  <1>3. rows'[k] = Expire(rows, now)[k]
    BY <1>1, <1>2, InsertRow
  <1>4. QED
    BY <1>1, <1>3, ExpireStatus

LEMMA OnlyClaimClaims ==
    ASSUME JInv, [JournalStep]_jvars, NEW k \in EntryKeys,
           rows[k].status # "claimed", rows'[k].status = "claimed"
    PROVE  /\ txn.op = "claim" /\ txn.key = k
           /\ ~Disabled
  <1>0. rows \in [Keys -> Row] /\ k \in Keys
    BY DEF JInv, JTypeOK, Keys
  <1>1. CASE UNCHANGED jvars \/ SetControl \/ Rollback
    BY <1>1 DEF jvars, SetControl, Rollback
  <1>2. ASSUME NEW base, ReserveCommit(base) PROVE FALSE
    <2>1. txn.key \in Keys /\ txn.now \in Times /\ txn.day \in Days
      BY <1>2 DEF JInv, JTypeOK, ReserveCommit, Txn, NoTxn, Keys
    <2>2. \E s \in {"reserved", "rejected"} : rows' = Insert(txn.key, s, txn.now, txn.day)
      BY <1>2 DEF ReserveCommit
    <2>3. QED
      BY <2>1, <2>2, InsertClaimsNothing DEF Statuses, Live
  <1>3. ASSUME NEW base, ClaimCommit(base)
        PROVE  txn.op = "claim" /\ txn.key = k /\ ~Disabled
    <2> DEFINE rs == Expire(rows, txn.now)
               ok == Validates(rs, txn.key, base, {txn.key}, txn.now, txn.day) /\ ~Disabled
               s == IF ok THEN "claimed" ELSE "revoked"
    <2>1. /\ txn.op = "claim" /\ txn.key \in Keys /\ txn.now \in Times
          /\ rows' = SetStatus(rs, txn.key, s)
      BY <1>3, OpenClaim DEF ClaimCommit, Keys
    <2>2. rs \in [Keys -> Row] /\ s \in Statuses
      BY <1>0, <2>1, ExpireRow DEF Statuses, Live
    <2>3. /\ rows'[txn.key].status = s
          /\ \A j \in Keys \ {txn.key} : rows'[j] = rs[j]
      <3> HIDE DEF rs, s
      <3>1. QED
        BY <2>1, <2>2, SetStatusRow
    <2>4. txn.key = k
      <3>1. SUFFICES ASSUME txn.key # k PROVE FALSE
        OBVIOUS
      <3>2. rs[k].status = "claimed"
        BY <1>0, <2>3, <3>1
      <3>3. rows[k].status = "claimed"
        BY <1>0, <2>1, <3>2, ExpireStatus
      <3>4. QED
        BY <3>3
    <2>5. ok
      BY <2>3, <2>4
    <2>6. QED
      BY <2>1, <2>4, <2>5
  <1>4. ASSUME NEW i \in EntryKeys, NEW now \in Times,
               ReserveDuplicate(i, now) \/ ClaimUnavailable(i, now)
        PROVE  FALSE
    BY <1>4, ExpiryClaimsNothing DEF ReserveDuplicate, ClaimUnavailable
  <1>5. ASSUME NEW i \in EntryKeys, NEW now \in Times, NEW day \in Days,
               ReserveDisabled(i, now, day)
        PROVE  FALSE
    BY <1>5, InsertClaimsNothing DEF ReserveDisabled, Keys, Statuses
  <1>6. ASSUME NEW i \in EntryKeys, NEW now \in Times, NEW day \in Days,
               ClaimMismatch(i, now, day) \/ ClaimDisabled(i, now, day)
        PROVE  FALSE
    <2>1. rows' = SetStatus(Expire(rows, now), i, "revoked")
      BY <1>6 DEF ClaimMismatch, ClaimDisabled
    <2>2. i \in Keys /\ "revoked" \in Statuses /\ Expire(rows, now) \in [Keys -> Row]
      BY <1>0, ExpireRow DEF Keys, Statuses
    <2>3. /\ rows'[i].status = "revoked"
          /\ \A j \in Keys \ {i} : rows'[j] = Expire(rows, now)[j]
      BY <2>1, <2>2, SetStatusRow
    <2>4. QED
      BY <1>0, <2>3, ExpireStatus
  <1>7. ASSUME NEW i \in EntryKeys, NEW now \in Times, NEW day \in Days,
               ReserveBegin(i, now, day) \/ ClaimBegin(i, now, day)
        PROVE  FALSE
    BY <1>7 DEF ReserveBegin, ClaimBegin
  <1>8. ASSUME NEW i \in ExitKeys, NEW now \in Times, ExitDuplicate(i, now)
        PROVE  FALSE
    BY <1>8, ExpiryClaimsNothing DEF ExitDuplicate
  <1>9. ASSUME NEW i \in ExitKeys, NEW now \in Times, NEW day \in Days, NEW held,
               PrepareExit(i, held, now, day)
        PROVE  FALSE
    <2>1. i \in Keys /\ i # k
      BY JournalConstants DEF Keys
    <2>2. \E s \in Statuses : rows' = Insert(i, s, now, day)
      BY <1>9 DEF PrepareExit, Statuses, Live
    <2>3. QED
      BY <2>1, <2>2, InsertClaimsNothing
  <1>10. ASSUME NEW i \in Keys,
                \/ MarkSubmitted(i) \/ ResolveUnplaced(i) \/ ReleaseUnsent(i)
                \/ \E status \in TerminalStatuses : Resolve(i, status)
         PROVE  FALSE
    <2>1. rows[i].status = "claimed" /\ \A j \in Keys \ {i} : rows'[j] = rows[j]
      BY <1>0, <1>10 DEF MarkSubmitted, ResolveUnplaced, ReleaseUnsent, Resolve, SetStatus, Sendable
    <2>2. QED
      BY <1>0, <2>1
  <1>11. QED
    BY <1>1, <1>2, <1>3, <1>4, <1>5, <1>6, <1>7, <1>8, <1>9, <1>10 DEF JournalStep

(* A body leaves claim() only within its authorization's life and with the  *)
(* switch on when the transaction commits (orders.py:140, 219).             *)
THEOREM ClaimsAreTimely == JSpec => ClaimIsTimely
  <1> DEFINE Timely == \A k \in EntryKeys :
                rows[k].status # "claimed" /\ rows'[k].status = "claimed" =>
                   /\ rows[k].status = "reserved"
                   /\ control = "ARMED_PAPER"
                   /\ txn.day = rows[k].day
                   /\ rows[k].created <= txn.now /\ txn.now < rows[k].created + TTL
  <1>1. ASSUME JInv, [JournalStep]_jvars, NEW k \in EntryKeys,
               rows[k].status # "claimed", rows'[k].status = "claimed"
        PROVE  /\ rows[k].status = "reserved"
               /\ control = "ARMED_PAPER"
               /\ txn.day = rows[k].day
               /\ rows[k].created <= txn.now /\ txn.now < rows[k].created + TTL
    <2>1. txn.op = "claim" /\ txn.key = k /\ ~Disabled
      BY <1>1, OnlyClaimClaims
    <2>2. txn # NoTxn
      BY <2>1 DEF NoTxn
    <2>3. QED
      BY <1>1, <2>1, <2>2 DEF JInv, TxnInv, Disabled
  <1>2. JInv /\ [JournalStep]_jvars => [Timely]_rows
    BY <1>1
  <1>3. QED
    BY <1>2, NextIsStep, JournalInvariant, PTL DEF JSpec, ClaimIsTimely
=============================================================================
