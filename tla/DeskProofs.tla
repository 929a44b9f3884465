------------------------------- MODULE DeskProofs -------------------------------
(***************************************************************************)
(* Proofs about the parts of the desk, each for every value of its own      *)
(* constants: the processes of a runtime directory and the manual draft     *)
(* (Supervision), the report of a cycle (CycleReport), a request to the     *)
(* broker (BrokerRequest), the budget of the chat model (ChatModel), and    *)
(* the worker and the callers of the studio (Studio).                       *)
(***************************************************************************)
EXTENDS Supervision, CycleReport, BrokerRequest, ChatModel, Studio, RecursionLemmas, SequenceTheorems

-----------------------------------------------------------------------------
(***************************************************************************)
(* Supervision: one controller, one draft.                                  *)
(***************************************************************************)

Places == {"gone", "ready", "ideas", "entries", "report", "writing", "retire", "decide", "leaving"}

ControlOK ==
    /\ pc \in [Processes -> Places]
    /\ carried \in [Processes -> 1..Drafts \cup {Nobody}]
    /\ DOMAIN open = Processes
    /\ live \in [1..Drafts -> Nat]
    /\ draft # Nobody => draft \in [id : 1..Drafts, age : Nat]

(* The lock file stands for the process that is at work.                    *)
LockHolder == \A p \in Processes : pc[p] # "gone" => lock = p

(* A symbol that a cycle found free is so when it comes to its entries.      *)
StillFree ==
    \A p \in Processes, d \in 1..Drafts :
        pc[p] \in {"ideas", "entries"} /\ DraftSymbol[d] \notin open[p] => live[d] = 0

SupInv == ControlOK /\ LockHolder /\ StillFree /\ OneDraftOpen

-----------------------------------------------------------------------------
LEMMA SupervisionInit == SInit => SupInv
  BY SupervisionConstants DEF SInit, SupInv, ControlOK, Places, LockHolder, StillFree, OneDraftOpen

(* Steps of one process that leave the orders alone, and after which it is   *)
(* not about to use what it found.                                          *)
LEMMA EnterKeeps ==
    ASSUME SupInv, NEW p \in Processes, Enter(p)
    PROVE  SupInv'
  <1> USE DEF SupInv
  <1>1. \A q \in Processes : pc[q] = "gone" \/ lock = q
    BY DEF LockHolder
  <1>2. \A q \in Processes : pc[q] = "gone"
    BY <1>1, SupervisionConstants DEF Enter
  <1>3. ControlOK'
    BY DEF Enter, ControlOK, Places, dvars
  <1>4. LockHolder'
    BY <1>2 DEF Enter, LockHolder, ControlOK
  <1>5. StillFree' /\ OneDraftOpen'
    BY <1>2 DEF Enter, StillFree, OneDraftOpen, ControlOK, dvars
  <1>6. QED
    BY <1>3, <1>4, <1>5

LEMMA UnlockKeeps ==
    ASSUME SupInv, NEW p \in Processes, Unlock(p)
    PROVE  SupInv'
  <1> USE DEF SupInv
  <1>1. \A q \in Processes : q # p => pc[q] = "gone"
    BY DEF LockHolder, Unlock
  <1>2. QED
    BY <1>1 DEF Unlock, ControlOK, Places, LockHolder, StillFree, OneDraftOpen, dvars

LEMMA RemoveLockKeeps ==
    ASSUME SupInv, RemoveLock
    PROVE  SupInv'
  <1>1. \A q \in Processes : pc[q] = "gone"
    BY DEF SupInv, LockHolder, RemoveLock
  <1>2. QED
    BY <1>1 DEF SupInv, RemoveLock, ControlOK, LockHolder, StillFree, OneDraftOpen, dvars

LEMMA BeginKeeps ==
    ASSUME SupInv, NEW p \in Processes, Begin(p)
    PROVE  SupInv'
  <1> USE DEF SupInv, dvars
  <1>1. ControlOK'
    BY DEF Begin, ControlOK, Places, SymbolsOpen
  <1>2. LockHolder' /\ OneDraftOpen'
    BY DEF Begin, ControlOK, LockHolder, OneDraftOpen
  <1>3. StillFree'
    BY DEF Begin, ControlOK, StillFree, SymbolsOpen
  <1>4. QED
    BY <1>1, <1>2, <1>3

LEMMA IdeasKeeps ==
    ASSUME SupInv, NEW p \in Processes, Ideas(p)
    PROVE  SupInv'
  <1> USE DEF SupInv
  <1>1. ControlOK'
    BY DEF Ideas, ControlOK, Places, Loadable
  <1>2. LockHolder' /\ OneDraftOpen' /\ StillFree'
    BY DEF Ideas, ControlOK, LockHolder, OneDraftOpen, StillFree
  <1>3. QED
    BY <1>1, <1>2

(* The only step that opens an order: no other cycle is under way, and there *)
(* was none open.                                                           *)
LEMMA EntriesKeeps ==
    ASSUME SupInv, NEW p \in Processes, Entries(p)
    PROVE  SupInv'
  <1> USE DEF SupInv
  <1>1. \A q \in Processes : q # p => pc[q] = "gone"
    BY DEF LockHolder, Entries
  <1>2. LockHolder'
    BY DEF Entries, ControlOK, LockHolder
  <1>3. StillFree'
    BY <1>1 DEF Entries, ControlOK, StillFree
  <1>4. CASE UNCHANGED live
    BY <1>2, <1>3, <1>4 DEF Entries, ControlOK, Places, OneDraftOpen
  <1>5. CASE MaySubmit(p) /\ live' = [live EXCEPT ![carried[p]] = @ + 1]
    <2>1. carried[p] \in 1..Drafts
      BY <1>5 DEF MaySubmit, ControlOK
    <2>2. \A d \in 1..Drafts : DraftSymbol[d] = DraftSymbol[carried[p]] => live[d] = 0
      BY <1>5 DEF Entries, MaySubmit, StillFree
    <2>3. /\ live' \in [1..Drafts -> Nat]
          /\ live'[carried[p]] = 1
          /\ \A d \in 1..Drafts : d # carried[p] => live'[d] = live[d]
      BY <1>5, <2>1, <2>2 DEF ControlOK
    <2>4. ControlOK' /\ OneDraftOpen'
      BY <2>1, <2>2, <2>3 DEF Entries, ControlOK, Places, OneDraftOpen
    <2>5. QED
      BY <1>2, <1>3, <2>4
  <1>6. QED
    BY <1>4, <1>5 DEF Entries

LEMMA WriteKeeps ==
    ASSUME SupInv, NEW p \in Processes, Write(p) \/ Written(p) \/ Decide(p)
    PROVE  SupInv'
  <1> USE DEF SupInv, dvars
  <1>1. pc[p] # "gone" /\ pc' \in [Processes -> Places]
        /\ \A q \in Processes : q # p => pc'[q] = pc[q]
    BY DEF Write, Written, Decide, ControlOK, Places
  <1>2. pc'[p] \notin {"ideas", "entries"}
    BY DEF Write, Written, Decide, ControlOK
  <1>3. UNCHANGED <<lock, carried, open, draft, fate, live>>
    BY DEF Write, Written, Decide
  <1>4. QED
    BY <1>1, <1>2, <1>3 DEF ControlOK, LockHolder, StillFree, OneDraftOpen

LEMMA RetireKeeps ==
    ASSUME SupInv, NEW p \in Processes, Retire(p)
    PROVE  SupInv'
  <1> USE DEF SupInv
  <1>1. ControlOK'
    BY DEF Retire, RetireFile, ControlOK, Places
  <1>2. LockHolder' /\ StillFree' /\ OneDraftOpen'
    BY DEF Retire, ControlOK, LockHolder, StillFree, OneDraftOpen
  <1>3. QED
    BY <1>1, <1>2

LEMMA StopKeeps ==
    ASSUME SupInv, NEW p \in Processes, Fail(p) \/ Crash(p)
    PROVE  SupInv'
  <1> USE DEF SupInv, dvars
  <1>1. pc[p] # "gone"
    BY DEF Fail, Crash, AtWork
  <1>2. /\ pc' \in [Processes -> Places] /\ pc'[p] \in {"leaving", "gone"}
        /\ \A q \in Processes : q # p => pc'[q] = pc[q] /\ open'[q] = open[q]
    BY DEF Fail, Crash, ControlOK, Places
  <1>3. /\ UNCHANGED <<lock, draft, fate, live>>
        /\ carried' \in [Processes -> 1..Drafts \cup {Nobody}]
        /\ DOMAIN open' = Processes
    BY DEF Fail, Crash, ControlOK
  <1>4. QED
    BY <1>1, <1>2, <1>3 DEF ControlOK, LockHolder, StillFree, OneDraftOpen

LEMMA OwnerKeeps ==
    ASSUME SupInv, WriteDraft \/ Age
    PROVE  SupInv'
  <1> USE DEF SupInv
  <1>1. ControlOK'
    BY DEF WriteDraft, Age, ControlOK
  <1>2. QED
    BY <1>1 DEF WriteDraft, Age, LockHolder, StillFree, OneDraftOpen

LEMMA ClosedKeeps ==
    ASSUME SupInv, NEW d \in 1..Drafts, Closed(d)
    PROVE  SupInv'
  <1> USE DEF SupInv
  <1>1. /\ live' \in [1..Drafts -> Nat]
        /\ \A e \in 1..Drafts : live'[e] <= live[e]
    BY DEF Closed, ControlOK
  <1>2. \A e \in 1..Drafts : live[e] \in Nat /\ live'[e] \in Nat
    BY <1>1 DEF ControlOK
  <1>3. OneDraftOpen'
    BY <1>1, <1>2 DEF OneDraftOpen
  <1>4. StillFree'
    BY <1>1, <1>2 DEF StillFree, Closed
  <1>5. QED
    BY <1>1, <1>3, <1>4 DEF Closed, ControlOK, LockHolder

LEMMA SupervisionNext == SupInv /\ [SNext]_svars => SupInv'
  <1> SUFFICES ASSUME SupInv, [SNext]_svars PROVE SupInv'
    OBVIOUS
  <1>1. CASE UNCHANGED svars
    BY <1>1 DEF svars, dvars, SupInv, ControlOK, LockHolder, StillFree, OneDraftOpen
  <1>2. CASE SNext
    BY <1>2, EnterKeeps, UnlockKeeps, RemoveLockKeeps, BeginKeeps, IdeasKeeps, EntriesKeeps, WriteKeeps,
       RetireKeeps, StopKeeps, OwnerKeeps, ClosedKeeps DEF SNext
  <1>3. QED
    BY <1>1, <1>2

(* The inductive invariant: the lock stands for the process at work, and what *)
(* a cycle found free stays free until its entries.                         *)
THEOREM SupervisionInvariant == SSpec => []SupInv
  BY SupervisionInit, SupervisionNext, PTL DEF SSpec

(* "Exclusive lock on a runtime directory" (controller.py:373): never two   *)
(* processes are at work.                                                   *)
THEOREM ControllerIsAlone == SSpec => []SoleController
  <1>1. SupInv => SoleController
    BY DEF SupInv, LockHolder, SoleController
  <1>2. QED
    BY <1>1, SupervisionInvariant, PTL

(* Drafts of one symbol, however many, and however often a crash leaves one  *)
(* to a second cycle, never have two orders or positions (manual.py:10-12).                              *)
THEOREM DraftsOpenOnce == SSpec => []OneDraftOpen
  <1>1. SupInv => OneDraftOpen
    BY DEF SupInv
  <1>2. QED
    BY <1>1, SupervisionInvariant, PTL

-----------------------------------------------------------------------------
(***************************************************************************)
(* Supervision: the owner is told of every cycle.                           *)
(***************************************************************************)

Pieces == {Newline, Torn} \cup {Record(r) : r \in Nat}

(* A file that is shown whole: every line is one record, and the newline     *)
(* follows it.                                                              *)
LEMMA LinesAreRecords ==
    ASSUME NEW file \in Seq(Pieces), ~Trailing(file),
           NEW i \in Newlines(file), WellFormed(file, i)
    PROVE  i - 1 \in DOMAIN file /\ i - 1 \notin Newlines(file) /\ Line(file, i) = {i - 1}
  <1>1. PICK k \in Line(file, i) : Line(file, i) = {k} /\ file[k].kind = "record"
    BY DEF WellFormed
  <1>2. DOMAIN file = 1..Len(file) /\ Len(file) \in Nat
    OBVIOUS
  <1>3. i \in 1..Len(file)
    BY <1>2 DEF Newlines
  <1>4. k \in 1..(i - 1) /\ \A j \in k..(i - 1) : file[j] # Newline
    BY <1>1 DEF Line
  <1>5. i - 1 \in 1..(i - 1) /\ \A j \in (i - 1)..(i - 1) : file[j] # Newline
    BY <1>3, <1>4
  <1>6. i - 1 \in Line(file, i)
    BY <1>5 DEF Line
  <1>7. QED
    BY <1>1, <1>2, <1>3, <1>5, <1>6 DEF Newlines

(* ... and every piece but the newlines is on such a line.                   *)
LEMMA PiecesAreEnded ==
    ASSUME NEW file \in Seq(Pieces), ~Trailing(file),
           \A i \in Newlines(file) : WellFormed(file, i),
           NEW k \in DOMAIN file, file[k] # Newline
    PROVE  k + 1 \in Newlines(file)
  <1> DEFINE L == Len(file)
             C == {i \in Newlines(file) : i > k}
  <1>1. DOMAIN file = 1..L /\ L \in Nat /\ k \in 1..L
    OBVIOUS
  <1>2. file # <<>> /\ file[L] = Newline
    BY <1>1 DEF Trailing, Last
  <1>3. L \in C
    BY <1>1, <1>2 DEF Newlines
  <1>4. C \subseteq Nat
    BY <1>1 DEF Newlines
  <1>5. PICK i \in C : \A n \in C : i <= n
    <2> HIDE DEF C
    <2>1. QED
      BY <1>3, <1>4, LeastNumber
  <1>6. i \in Newlines(file) /\ i \in 1..L /\ i > k
    BY <1>1 DEF Newlines
  <1>7. \A j \in k..(i - 1) : file[j] # Newline
    <2>1. ASSUME NEW j \in k..(i - 1), file[j] = Newline PROVE FALSE
      <3>1. j # k /\ j \in 1..L /\ j > k /\ j < i
        BY <1>1, <1>6, <2>1
      <3>2. j \in C
        BY <1>1, <2>1, <3>1 DEF Newlines
      <3>3. QED
        BY <1>5, <3>1, <3>2
    <2>2. QED
      BY <2>1
  <1>8. k \in Line(file, i)
    BY <1>1, <1>6, <1>7 DEF Line
  <1>9. k = i - 1
    BY <1>6, <1>8, LinesAreRecords
  <1>10. QED
    BY <1>1, <1>6, <1>9

LEMMA ShownWhole ==
    ASSUME NEW file \in Seq(Pieces), ~LoadCycles(file).warned, ~LoadCycles(file).truncated
    PROVE  /\ DOMAIN LoadCycles(file).shown = Newlines(file)
           /\ \A i \in Newlines(file) : LoadCycles(file).shown[i] = file[i - 1].report
           /\ Cardinality(Newlines(file)) = Cardinality({i \in DOMAIN file : file[i] # Newline})
  <1> DEFINE N == Newlines(file)
             O == {i \in DOMAIN file : file[i] # Newline}
             good == {i \in Recent(file) : WellFormed(file, i)}
             desk == LoadCycles(file)
  <1>1. /\ desk.shown = [i \in good |-> file[CHOOSE k \in Line(file, i) : TRUE].report]
        /\ desk.warned = (Trailing(file) \/ good # Recent(file))
        /\ desk.truncated = (Cardinality(N) > MaxCycles)
    BY DEF LoadCycles
  <1>2. ~Trailing(file) /\ good = Recent(file) /\ ~(Cardinality(N) > MaxCycles)
    BY <1>1
  <1>3. DOMAIN file = 1..Len(file) /\ Len(file) \in Nat
    OBVIOUS
  <1>4. IsFiniteSet(DOMAIN file)
    BY <1>3, FS_Interval
  <1>5. N \subseteq DOMAIN file /\ N \subseteq Int
    BY <1>3 DEF Newlines
  <1>6. IsFiniteSet(N) /\ Cardinality(N) \in Nat
    BY <1>4, <1>5, FS_Subset, FS_CardinalityType
  <1>7. Recent(file) = N
    <2>1. ASSUME NEW i \in N PROVE Cardinality({j \in N : j > i}) < MaxCycles
      <3> DEFINE M == {j \in N : j > i}
      <3>1. M \subseteq N /\ i \notin M /\ i \in N
        BY <1>5
      <3> HIDE DEF M, N
      <3>2. Cardinality(M) \in Nat /\ Cardinality(M) <= Cardinality(N)
        BY <1>6, <3>1, FS_Subset, FS_CardinalityType
      <3>3. Cardinality(M) # Cardinality(N)
        BY <1>6, <3>1, FS_Subset
      <3>4. QED
        BY <1>2, <1>6, <3>2, <3>3, DeskConstants DEF M
    <2>2. QED
      BY <2>1 DEF Recent
  <1>8. \A i \in N : WellFormed(file, i)
    BY <1>2, <1>7
  <1>9. \A i \in N : i - 1 \in O /\ Line(file, i) = {i - 1}
    BY <1>2, <1>8, LinesAreRecords DEF Newlines
  <1>10. \A k \in O : k + 1 \in N
    BY <1>2, <1>8, PiecesAreEnded
  <1>11. \A i \in N : (CHOOSE k \in Line(file, i) : TRUE) = i - 1
    BY <1>9
  <1>12. DOMAIN desk.shown = N /\ \A i \in N : desk.shown[i] = file[i - 1].report
    BY <1>1, <1>2, <1>7, <1>11
  <1>13. Cardinality(N) = Cardinality(O)
    <2>1. O \subseteq Int
      BY <1>3
    <2> HIDE DEF N, O
    <2> DEFINE f == [i \in N |-> i - 1]
    <2>2. f \in [N -> O] /\ (\A i, j \in N : f[i] = f[j] => i = j) /\ \A k \in O : \E i \in N : f[i] = k
      <3>1. f \in [N -> O]
        BY <1>9
      <3>2. \A i, j \in N : f[i] = f[j] => i = j
        BY <1>5
      <3>3. ASSUME NEW k \in O PROVE \E i \in N : f[i] = k
        <4>1. k + 1 \in N /\ f[k + 1] = k
          BY <1>10, <2>1
        <4>2. QED
          BY <4>1
      <3>4. QED
        BY <3>1, <3>2, <3>3
    <2> HIDE DEF f
    <2>3. f \in Bijection(N, O)
      BY <2>2 DEF Bijection, Injection, Surjection, IsInjective
    <2>4. ExistsBijection(N, O)
      BY <2>3 DEF ExistsBijection
    <2>5. QED
      BY <1>6, <2>4, FS_Bijection
  <1>14. QED
    BY <1>12, <1>13

(* Every cycle that was reported has its record and a newline in the file,    *)
(* and what is being written is not ended.                                  *)
LogOK ==
    /\ log \in Seq(Pieces) /\ reported \in Nat
    /\ \A c \in 1..reported : \E i \in Newlines(log) : i > 1 /\ log[i - 1] = Record(c)
    /\ \A p \in Processes : pc[p] = "writing" => log # <<>> /\ log[Len(log)] # Newline

LEMMA PieceFacts ==
    /\ Newline \in Pieces /\ Torn \in Pieces /\ Torn # Newline
    /\ \A r \in Nat : Record(r) \in Pieces /\ Record(r) # Newline /\ Record(r).report = r
  BY DEF Pieces, Newline, Torn, Record

LEMMA WriteLogs ==
    ASSUME LogOK, ControlOK, SoleController, NEW p \in Processes, Write(p)
    PROVE  LogOK'
  <1>1. PICK piece \in {Torn, Record(reported + 1)} : log' = Append(log, piece)
    BY DEF Write
  <1>2. piece \in Pieces /\ piece # Newline
    BY PieceFacts DEF LogOK
  <1>3. /\ log' \in Seq(Pieces) /\ Len(log') = Len(log) + 1 /\ log'[Len(log')] = piece
        /\ \A i \in 1..Len(log) : log'[i] = log[i] /\ i \in 1..Len(log')
        /\ Len(log) \in Nat /\ DOMAIN log = 1..Len(log) /\ DOMAIN log' = 1..Len(log')
    BY <1>1, <1>2 DEF LogOK
  <1>4. ASSUME NEW c \in 1..reported
        PROVE  \E i \in Newlines(log') : i > 1 /\ log'[i - 1] = Record(c)
    <2>1. PICK i \in Newlines(log) : i > 1 /\ log[i - 1] = Record(c)
      BY DEF LogOK
    <2>2. i \in 1..Len(log) /\ i - 1 \in 1..Len(log) /\ log[i] = Newline
      BY <1>3, <2>1 DEF Newlines
    <2>3. i \in Newlines(log')
      BY <1>3, <2>2 DEF Newlines
    <2>4. QED
      BY <1>3, <2>1, <2>2, <2>3
  <1>5. log' # <<>>
    BY <1>3
  <1>6. reported' = reported
    BY DEF Write
  <1>7. QED
    BY <1>2, <1>3, <1>4, <1>5, <1>6 DEF LogOK

LEMMA WrittenLogs ==
    ASSUME LogOK, ControlOK, SoleController, NEW p \in Processes, Written(p)
    PROVE  LogOK'
  <1> DEFINE L == Len(log)
             done == Record(reported + 1)
  <1>1. /\ log' = Front(log) \o <<done, Newline>>
        /\ reported' = reported + 1 /\ pc' = [pc EXCEPT ![p] = "retire"] /\ pc[p] = "writing"
    BY DEF Written
  <1>2. /\ log \in Seq(Pieces) /\ reported \in Nat /\ log # <<>> /\ log[L] # Newline
        /\ \A c \in 1..reported : \E i \in Newlines(log) : i > 1 /\ log[i - 1] = Record(c)
    BY <1>1 DEF LogOK
  <1>3. done \in Pieces /\ Newline \in Pieces
    BY <1>2, PieceFacts
  <1>4. L \in Nat /\ L >= 1 /\ DOMAIN log = 1..L
    BY <1>2
  <1>5. Front(log) = [i \in 1..(L - 1) |-> log[i]]
    BY <1>4 DEF Front
  <1>6. Front(log) \in Seq(Pieces) /\ Len(Front(log)) = L - 1 /\ \A i \in 1..(L - 1) : Front(log)[i] = log[i]
    BY <1>2, <1>4, <1>5
  <1> HIDE DEF L, done
  <1>7. /\ log' \in Seq(Pieces) /\ Len(log') = L + 1 /\ DOMAIN log' = 1..(L + 1)
        /\ log'[L] = done /\ log'[L + 1] = Newline
        /\ \A i \in 1..(L - 1) : log'[i] = log[i]
    <2> DEFINE f == Front(log)
               e == <<done, Newline>>
    <2>1. e \in Seq(Pieces) /\ Len(e) = 2 /\ e[1] = done /\ e[2] = Newline
      BY <1>3
    <2>2. log' = f \o e /\ f \in Seq(Pieces) /\ Len(f) = L - 1 /\ \A i \in 1..(L - 1) : f[i] = log[i]
      BY <1>1, <1>6
    <2> HIDE DEF f, e
    <2>9. /\ f \o e \in Seq(Pieces) /\ Len(f \o e) = Len(f) + Len(e)
          /\ \A i \in 1..(Len(f) + Len(e)) : (f \o e)[i] = IF i <= Len(f) THEN f[i] ELSE e[i - Len(f)]
      BY <2>1, <2>2, ConcatProperties
    <2>3. log' \in Seq(Pieces) /\ Len(log') = L + 1
      BY <1>4, <2>1, <2>2, <2>9
    <2>4. \A i \in 1..(L + 1) : log'[i] = IF i <= L - 1 THEN f[i] ELSE e[i - (L - 1)]
      BY <1>4, <2>1, <2>2, <2>9
    <2>5. log'[L] = done /\ log'[L + 1] = Newline
      BY <1>4, <2>1, <2>4
    <2>6. \A i \in 1..(L - 1) : log'[i] = log[i]
      BY <1>4, <2>2, <2>4
    <2>7. DOMAIN log' = 1..(L + 1)
      BY <1>4, <2>3
    <2>8. QED
      BY <2>3, <2>5, <2>6, <2>7
  <1>8. ASSUME NEW c \in 1..(reported + 1)
        PROVE  \E i \in Newlines(log') : i > 1 /\ log'[i - 1] = Record(c)
    <2>1. CASE c = reported + 1
      <3>1. L + 1 \in Newlines(log') /\ L + 1 > 1 /\ log'[(L + 1) - 1] = done
        BY <1>4, <1>7 DEF Newlines
      <3>2. QED
        BY <2>1, <3>1 DEF done
    <2>2. CASE c # reported + 1
      <3>1. c \in 1..reported
        BY <1>2, <2>2
      <3>2. PICK i \in Newlines(log) : i > 1 /\ log[i - 1] = Record(c)
        BY <1>2, <3>1
      <3>3. i \in 1..L /\ log[i] = Newline
        BY <1>4, <3>2 DEF Newlines
      <3>4. i # L
        BY <1>2, <3>3
      <3>5. i \in 1..(L - 1) /\ i - 1 \in 1..(L - 1) /\ i \in 1..(L + 1)
        BY <1>4, <3>2, <3>3, <3>4
      <3>6. i \in Newlines(log')
        BY <1>7, <3>3, <3>5 DEF Newlines
      <3>7. QED
        BY <1>7, <3>2, <3>5, <3>6
    <2>3. QED
      BY <2>1, <2>2
  <1>9. \A q \in Processes : pc'[q] # "writing"
    <2>1. \A q \in Processes : q # p => pc[q] = "gone"
      BY <1>1 DEF SoleController
    <2>2. QED
      BY <1>1, <2>1 DEF ControlOK, Places
  <1>10. reported' \in Nat /\ reported' = reported + 1 /\ log' \in Seq(Pieces)
    BY <1>1, <1>2, <1>7
  <1>11. QED
    BY <1>8, <1>9, <1>10 DEF LogOK

LEMMA OthersLog ==
    ASSUME LogOK, ControlOK, UNCHANGED <<log, reported>>,
           \A p \in Processes : pc'[p] = "writing" => pc[p] = "writing"
    PROVE  LogOK'
  BY DEF LogOK, Newlines

LEMMA LogNext ==
    ASSUME LogOK, ControlOK, SoleController, [SNext]_svars
    PROVE  LogOK'
  <1>1. CASE UNCHANGED svars
    BY <1>1, OthersLog DEF svars
  <1>2. CASE \/ RemoveLock \/ WriteDraft \/ Age
             \/ \E d \in 1..Drafts : Closed(d)
    <2>1. UNCHANGED <<pc, log, reported>>
      BY <1>2 DEF RemoveLock, WriteDraft, Age, Closed
    <2>2. QED
      BY <2>1, OthersLog
  <1>3. ASSUME NEW p \in Processes,
               \/ Enter(p) \/ Unlock(p) \/ Begin(p) \/ Ideas(p) \/ Entries(p) \/ Retire(p) \/ Decide(p)
               \/ Fail(p) \/ Crash(p)
        PROVE  LogOK'
    <2>1. UNCHANGED <<log, reported>>
      BY <1>3 DEF Enter, Unlock, Begin, Ideas, Entries, Retire, Decide, Fail, Crash
    <2>2. \A q \in Processes : pc'[q] = "writing" => pc[q] = "writing"
      BY <1>3 DEF ControlOK, Places, Enter, Unlock, Begin, Ideas, Entries, Retire, Decide, Fail, Crash
    <2>3. QED
      BY <2>1, <2>2, OthersLog
  <1>4. ASSUME NEW p \in Processes, Write(p) \/ Written(p) PROVE LogOK'
    BY <1>4, WriteLogs, WrittenLogs
  <1>5. QED
    BY <1>1, <1>2, <1>3, <1>4 DEF SNext

LEMMA LogShows == LogOK => DeskShowsGaps
  <1> SUFFICES ASSUME LogOK, ~LoadCycles(log).warned, ~LoadCycles(log).truncated
               PROVE  /\ \A c \in 1..reported :
                            \E i \in DOMAIN LoadCycles(log).shown : LoadCycles(log).shown[i] = c
                      /\ Cardinality(DOMAIN LoadCycles(log).shown) = Cardinality({i \in DOMAIN log : log[i] # Newline})
    BY DEF DeskShowsGaps
  <1>1. /\ DOMAIN LoadCycles(log).shown = Newlines(log)
        /\ \A i \in Newlines(log) : LoadCycles(log).shown[i] = log[i - 1].report
        /\ Cardinality(Newlines(log)) = Cardinality({i \in DOMAIN log : log[i] # Newline})
    BY ShownWhole DEF LogOK
  <1>2. ASSUME NEW c \in 1..reported
        PROVE  \E i \in DOMAIN LoadCycles(log).shown : LoadCycles(log).shown[i] = c
    <2>1. PICK i \in Newlines(log) : i > 1 /\ log[i - 1] = Record(c)
      BY DEF LogOK
    <2>2. Record(c).report = c
      BY PieceFacts DEF LogOK
    <2>3. QED
      BY <1>1, <2>1, <2>2
  <1>3. QED
    BY <1>1, <1>2

(* What the desk shows without a warning and uncut is the whole history: all *)
(* that was reported, and a line for all that was begun (agent_desk.py:263). *)
THEOREM DeskHidesNothing == SSpec => []DeskShowsGaps
  <1>1. SInit => LogOK
    BY DEF SInit, LogOK, Newlines
  <1>2. SupInv => ControlOK /\ SoleController
    BY DEF SupInv, LockHolder, SoleController
  <1>3. SupInv /\ LogOK /\ [SNext]_svars => LogOK'
    BY <1>2, LogNext
  <1>4. SSpec => []LogOK
    BY <1>1, <1>3, SupervisionInvariant, PTL DEF SSpec
  <1>5. QED
    BY <1>4, LogShows, PTL

-----------------------------------------------------------------------------
(***************************************************************************)
(* CycleReport: what the owner reads of a cycle is what it did.             *)
(***************************************************************************)

Told == Outcomes \cup {"none"}

Report ==
    [mode : Modes, submit : BOOLEAN, ok : BOOLEAN, halted : BOOLEAN, positions : Nat,
     exitStage : BOOLEAN, exits : Seq(Told), skipped : BOOLEAN, entryError : BOOLEAN,
     scanStage : BOOLEAN,
     entries : Seq([reserved : BOOLEAN, claimed : BOOLEAN, dry : BOOLEAN, outcome : Told])]

ReportOK ==
    /\ report \in Report
    /\ did \in [unevaluated : Nat, orders : Seq(Told), scanned : BOOLEAN, refused : BOOLEAN]
    /\ mode \in Modes
    /\ stage \in {"reconcile", "exits", "entries", "written"}

(* The report grows with the cycle: until it is written, its exits are the   *)
(* orders of the cycle, a dry run has sent none, and without a row of exits  *)
(* no position was evaluated.                                               *)
Reporting ==
    /\ report.ok /\ ~report.halted /\ ~report.entryError /\ ~report.scanStage
    /\ report.entries = <<>>
    /\ ~did.scanned /\ ~did.refused
    /\ did.orders = report.exits
    /\ report.exits = <<>> => did.unevaluated = report.positions
    /\ report.exits # <<>> => mode # "DISABLED"
    /\ ~report.submit => \A i \in DOMAIN report.exits : report.exits[i] = "none"

Staged ==
    /\ stage = "reconcile" => report.exits = <<>> /\ report.positions = 0
    /\ stage \in {"reconcile", "exits"} => ~report.exitStage /\ ~report.skipped
    /\ stage = "entries" => /\ mode = "ARMED_PAPER" /\ did.unevaluated = 0
                            /\ report.exitStage /\ ~report.skipped

ReportInv ==
    /\ ReportOK /\ Staged
    /\ stage # "written" => Reporting
    /\ DeskIsHonest

-----------------------------------------------------------------------------
LEMMA Appended ==
    ASSUME NEW S, NEW s \in Seq(S), NEW e \in S
    PROVE  /\ Append(s, e) \in Seq(S) /\ Append(s, e) # <<>>
           /\ DOMAIN s = 1..Len(s) /\ DOMAIN Append(s, e) = 1..Len(s) + 1
           /\ \A i \in 1..Len(s) + 1 : Append(s, e)[i] = IF i = Len(s) + 1 THEN e ELSE s[i]
  OBVIOUS

(* What the first rows do not show is known to be missing.                  *)
LEMMA ExitsTold ==
    ASSUME NEW r \in Report, \E i \in DOMAIN r.exits : r.exits[i] = "unknown"
    PROVE  CycleStatus(r) = "uncertain" \/ DetailsTruncated(r)
  <1>1. PICK i \in DOMAIN r.exits : r.exits[i] = "unknown"
    OBVIOUS
  <1>2. i \in 1..Len(r.exits) /\ Len(r.exits) \in Nat
    BY DEF Report
  <1>3. CASE Len(r.exits) > MaxRows
    BY <1>3 DEF DetailsTruncated
  <1>4. CASE ~(Len(r.exits) > MaxRows)
    <2>1. i \in FirstRows(r.exits)
      BY <1>2, <1>4, DeskConstants DEF FirstRows
    <2>2. QED
      BY <1>1, <2>1 DEF CycleStatus
  <1>5. QED
    BY <1>3, <1>4

LEMMA ReportBegins == CInit => ReportInv
  <1> SUFFICES ASSUME CInit PROVE ReportInv
    OBVIOUS
  <1>1. PICK control \in Modes, submit \in BOOLEAN : report = Blank(control, submit)
    BY DEF CInit
  <1>2. ReportOK
    BY <1>1 DEF CInit, Blank, Nothing, ReportOK, Report, Modes
  <1>3. QED
    BY <1>1, <1>2 DEF CInit, Blank, Nothing, ReportInv, Staged, Reporting, DeskIsHonest

LEMMA NextCycleKeeps == ReportInv /\ NextCycle => ReportInv'
  <1> SUFFICES ASSUME ReportInv, NextCycle PROVE ReportInv'
    OBVIOUS
  <1>1. PICK control \in Modes, submit \in BOOLEAN : report' = Blank(control, submit)
    BY DEF NextCycle
  <1>2. ReportOK'
    BY <1>1 DEF NextCycle, Blank, Nothing, ReportOK, Report, Modes
  <1>3. QED
    BY <1>1, <1>2 DEF NextCycle, Blank, Nothing, ReportInv, Staged, Reporting, DeskIsHonest

LEMMA ReconciledKeeps ==
    ASSUME ReportInv, NEW n \in 0..Positions, NEW control \in Modes, Reconciled(n, control)
    PROVE  ReportInv'
  <1>1. n \in Nat
    BY CycleConstants
  <1>2. ReportOK'
    BY <1>1 DEF Reconciled, ReportInv, ReportOK, Report
  <1>3. QED
    BY <1>2 DEF Reconciled, ReportInv, ReportOK, Report, Staged, Reporting, DeskIsHonest

(* A halted cycle has no stage but the reconciliation to report.            *)
LEMMA UnreconciledKeeps == ReportInv /\ Unreconciled => ReportInv'
  <1> SUFFICES ASSUME ReportInv, Unreconciled PROVE ReportInv'
    OBVIOUS
  <1>1. PICK halted \in BOOLEAN : report' = [report EXCEPT !.ok = FALSE, !.halted = halted]
    BY DEF Unreconciled
  <1>2. ReportOK' /\ Staged'
    BY <1>1 DEF Unreconciled, ReportInv, ReportOK, Report, Staged
  <1>3. /\ ~report'.ok /\ report'.exits = <<>> /\ report'.entries = <<>>
        /\ ~report'.scanStage /\ ~report'.entryError
        /\ did'.orders = <<>> /\ ~did'.scanned
    BY <1>1 DEF Unreconciled, ReportInv, ReportOK, Report, Reporting, Staged
  <1>4. DeskIsHonest'
    BY <1>3 DEF DeskIsHonest, Sent, CycleStatus, ExitState, ScanState, RiskVerdict, Blocked, AnyEntry, FirstRows
  <1>5. QED
    BY <1>2, <1>4 DEF Unreconciled, ReportInv

(* The row and the order of an exit are written together.                   *)
LEMMA ExitRowKeeps ==
    ASSUME ReportInv, NEW outcome \in Told, ExitRow(outcome)
    PROVE  ReportInv'
  <1>1. /\ report'.exits = Append(report.exits, outcome)
        /\ did'.orders = Append(did.orders, outcome)
        /\ did'.unevaluated = did.unevaluated - 1
        /\ stage' = "exits" /\ mode' = mode
        /\ \A f \in DOMAIN report \ {"exits"} : report'[f] = report[f]
        /\ \A f \in {"scanned", "refused"} : did'[f] = did[f]
    BY DEF ExitRow, ReportInv, ReportOK, Report
  <1>2. ReportOK'
    <2>1. Append(report.exits, outcome) \in Seq(Told) /\ Append(did.orders, outcome) \in Seq(Told)
      BY Appended DEF ReportInv, ReportOK, Report
    <2>2. did.unevaluated - 1 \in Nat
      BY DEF ExitRow, ReportInv, ReportOK
    <2>3. QED
      BY <2>1, <2>2 DEF ExitRow, ReportInv, ReportOK, Report
  <1>3. ~report.submit => outcome = "none"
    BY DEF ExitRow, Told
  <1>4. /\ report'.exits # <<>>
        /\ DOMAIN report'.exits = 1..Len(report.exits) + 1
        /\ \A i \in 1..Len(report.exits) + 1 :
              report'.exits[i] = IF i = Len(report.exits) + 1 THEN outcome ELSE report.exits[i]
        /\ DOMAIN report.exits = 1..Len(report.exits)
    BY <1>1, Appended DEF ReportInv, ReportOK, Report
  <1>5. Reporting /\ mode # "DISABLED"
    BY DEF ExitRow, ReportInv
  <1>6. ~report'.submit => \A i \in DOMAIN report'.exits : report'.exits[i] = "none"
    <2>1. report'.submit = report.submit
      BY <1>1 DEF ReportInv, ReportOK, Report
    <2>2. ASSUME ~report.submit, NEW i \in 1..Len(report.exits) + 1
          PROVE  report'.exits[i] = "none"
      <3>1. Len(report.exits) \in Nat
        BY DEF ReportInv, ReportOK, Report
      <3>2. i = Len(report.exits) + 1 \/ i \in 1..Len(report.exits)
        BY <3>1
      <3>3. QED
        BY <1>3, <1>4, <1>5, <2>2, <3>2 DEF Reporting
    <2>3. QED
      BY <1>4, <2>1, <2>2
  <1>7. Reporting'
    BY <1>1, <1>4, <1>5, <1>6 DEF Reporting, ReportInv, ReportOK, Report
  <1>8. QED
    BY <1>1, <1>2, <1>7 DEF ReportInv, ReportOK, Report, ExitRow, Staged, DeskIsHonest

(* Written without entries: the mode skips them.                            *)
LEMMA EndExitsKeeps == ReportInv /\ EndExits => ReportInv'
  <1> SUFFICES ASSUME ReportInv, EndExits PROVE ReportInv'
    OBVIOUS
  <1>1. /\ report' = [report EXCEPT !.exitStage = TRUE, !.skipped = mode # "ARMED_PAPER"]
        /\ UNCHANGED <<mode, did>>
        /\ Reporting /\ ReportOK /\ stage = "exits"
        /\ stage' = IF mode # "ARMED_PAPER" THEN "written" ELSE "entries"
        /\ did.unevaluated = 0 \/ mode = "DISABLED"
    BY DEF EndExits, ReportInv
  <1>2. ReportOK' /\ Staged' /\ Reporting'
    BY <1>1 DEF ReportOK, Report, Staged, Reporting
  <1>3. ASSUME mode # "ARMED_PAPER"
        PROVE  DeskIsHonest'
    <2>1. Sent("unknown")' => CycleStatus(report') = "uncertain" \/ DetailsTruncated(report')
      <3>1. report' \in Report /\ did'.orders = report'.exits
        BY <1>2 DEF ReportOK, Reporting
      <3>2. QED
        BY <3>1, ExitsTold DEF Sent
    <2>2. CycleStatus(report') # "halted"
      BY <1>2 DEF CycleStatus, Blocked, Reporting, EntryState
    <2>3. CycleStatus(report') # "dry_run"
      BY <1>2 DEF CycleStatus, Blocked, Reporting, EntryState, AnyEntry, FirstRows
    <2>4. ExitState(report') = "recorded" => did'.unevaluated = 0
      BY <1>1, <1>2 DEF ExitState, Blocked, Reporting
    <2>5. ScanState(report') # "recorded" /\ ~did'.scanned /\ ~did'.refused
      BY <1>2 DEF ScanState, Reporting
    <2>6. QED
      BY <2>1, <2>2, <2>3, <2>4, <2>5 DEF DeskIsHonest
  <1>4. DeskIsHonest'
    BY <1>1, <1>3 DEF DeskIsHonest
  <1>5. QED
    BY <1>2, <1>4 DEF ReportInv

LEMMA IdeasFailKeeps == ReportInv /\ IdeasFail => ReportInv'
  <1> SUFFICES ASSUME ReportInv, IdeasFail PROVE ReportInv'
    OBVIOUS
  <1>1. /\ report' = [report EXCEPT !.entryError = TRUE]
        /\ UNCHANGED <<mode, did>> /\ stage' = "written"
        /\ Reporting /\ ReportOK /\ Staged /\ stage = "entries"
    BY DEF IdeasFail, ReportInv
  <1>2. ReportOK' /\ Staged'
    BY <1>1 DEF ReportOK, Report, Staged
  <1>3. /\ report'.ok /\ ~report'.halted /\ report'.entryError /\ report'.entries = <<>>
        /\ ~did'.scanned /\ ~did'.refused /\ did'.unevaluated = 0
        /\ did'.orders = report'.exits
    BY <1>1 DEF ReportOK, Report, Reporting, Staged
  <1>4. Sent("unknown")' => CycleStatus(report') = "uncertain" \/ DetailsTruncated(report')
    BY <1>2, <1>3, ExitsTold DEF ReportOK, Sent
  <1>5. CycleStatus(report') \notin {"halted", "dry_run"} /\ ScanState(report') # "recorded"
    BY <1>3 DEF CycleStatus, Blocked, ScanState
  <1>6. DeskIsHonest'
    BY <1>3, <1>4, <1>5 DEF DeskIsHonest
  <1>7. QED
    BY <1>1, <1>2, <1>6 DEF ReportInv

(* The entry, if there is one, is the last order of the cycle.              *)
LEMMA EntryKeeps == ReportInv /\ EntryRow => ReportInv'
  <1> SUFFICES ASSUME ReportInv, EntryRow PROVE ReportInv'
    OBVIOUS
  <1>1. /\ stage = "entries" /\ stage' = "written" /\ mode' = mode
        /\ Reporting /\ ReportOK /\ Staged
    BY DEF EntryRow, ReportInv
  <1>2. CASE /\ report' = [report EXCEPT !.scanStage = TRUE]
             /\ did' = [did EXCEPT !.scanned = TRUE]
    <2>1. ReportOK' /\ Staged'
      BY <1>1, <1>2 DEF ReportOK, Report, Staged
    <2>2. /\ report'.ok /\ ~report'.halted /\ ~report'.entryError /\ report'.entries = <<>>
          /\ report'.scanStage
          /\ did'.scanned /\ ~did'.refused /\ did'.unevaluated = 0
          /\ did'.orders = report'.exits
      BY <1>1, <1>2 DEF ReportOK, Report, Reporting, Staged
    <2>3. CycleStatus(report') \notin {"halted", "dry_run"}
      BY <2>2 DEF CycleStatus, Blocked, EntryState, AnyEntry, FirstRows
    <2>4. Sent("unknown")' => CycleStatus(report') = "uncertain" \/ DetailsTruncated(report')
      BY <2>1, <2>2, ExitsTold DEF ReportOK, Sent
    <2>5. ScanState(report') = "recorded"
      BY <2>2 DEF ScanState
    <2>6. DeskIsHonest'
      BY <2>2, <2>3, <2>4, <2>5 DEF DeskIsHonest
    <2>7. QED
      BY <1>1, <2>1, <2>6 DEF ReportInv
  <1>3. ASSUME NEW row \in Rows(report.submit),
               report' = [report EXCEPT !.scanStage = TRUE, !.entries = <<row>>],
               did' = [did EXCEPT !.scanned = TRUE, !.orders = Append(@, row.outcome), !.refused = ~row.reserved]
        PROVE  ReportInv'
    <2>1. /\ row \in [reserved : BOOLEAN, claimed : BOOLEAN, dry : BOOLEAN, outcome : Told]
          /\ ~report.submit => row.outcome = "none"
          /\ row.dry => row.reserved /\ row.outcome = "none"
          /\ row.outcome = "submitted" => row.reserved
      <3>1. \E r, c, d \in BOOLEAN, o \in Told :
              /\ row = [reserved |-> r, claimed |-> c, dry |-> d, outcome |-> o]
              /\ o # "none" => r /\ report.submit /\ ~d
              /\ d => r
        BY <1>3 DEF Rows, Told
      <3>2. PICK r, c, d \in BOOLEAN, o \in Told :
              /\ row = [reserved |-> r, claimed |-> c, dry |-> d, outcome |-> o]
              /\ o # "none" => r /\ report.submit /\ ~d
              /\ d => r
        BY <3>1
      <3>3. QED
        BY <3>2
    <2>2. ReportOK' /\ Staged'
      <3> DEFINE Entry == [reserved : BOOLEAN, claimed : BOOLEAN, dry : BOOLEAN, outcome : Told]
      <3>1. <<row>> \in Seq(Entry)
        BY <2>1
      <3>2. Append(did.orders, row.outcome) \in Seq(Told)
        BY <1>1, <2>1, Appended DEF ReportOK
      <3>3. (~row.reserved) \in BOOLEAN
        OBVIOUS
      <3>4. QED
        BY <1>1, <1>3, <3>1, <3>2, <3>3 DEF ReportOK, Report, Staged
    <2>3. /\ report'.ok /\ ~report'.halted /\ ~report'.entryError /\ report'.scanStage
          /\ DOMAIN report'.entries = {1} /\ report'.entries[1] = row
          /\ report'.exits = report.exits /\ report'.submit = report.submit
          /\ did'.scanned /\ did'.refused = ~row.reserved /\ did'.unevaluated = 0
      BY <1>1, <1>3, <2>1 DEF ReportOK, Report, Reporting, Staged
    <2>4. /\ did'.orders = Append(report.exits, row.outcome)
          /\ DOMAIN did'.orders = 1..Len(report.exits) + 1
          /\ \A i \in 1..Len(report.exits) + 1 :
                did'.orders[i] = IF i = Len(report.exits) + 1 THEN row.outcome ELSE report.exits[i]
          /\ DOMAIN report.exits = 1..Len(report.exits)
      BY <1>1, <1>3, <2>1 DEF ReportOK, Report, Reporting
    <2>5. \A o : Sent(o)' => row.outcome = o \/ \E i \in DOMAIN report.exits : report.exits[i] = o
      BY <2>4 DEF Sent
    <2>6. /\ FirstRows(report'.entries) = {1}
          /\ EntryState(report') = "uncertain" <=> row.outcome = "unknown"
      BY <2>3, DeskConstants DEF EntryState, AnyEntry, FirstRows
    <2>7. Sent("unknown")' => CycleStatus(report') = "uncertain" \/ DetailsTruncated(report')
      <3>1. CASE row.outcome = "unknown"
        BY <2>3, <2>6, <3>1 DEF CycleStatus, Blocked
      <3>2. CASE row.outcome # "unknown"
        BY <2>2, <2>3, <2>5, <3>2, ExitsTold DEF ReportOK
      <3>3. QED
        BY <3>1, <3>2
    <2>8. CycleStatus(report') # "halted"
      BY <2>3 DEF CycleStatus, Blocked, EntryState
    <2>9. CycleStatus(report') = "dry_run" => ~report.submit
      BY <2>3 DEF CycleStatus, Blocked, EntryState
    <2>10. CycleStatus(report') = "dry_run" => ~Sent("submitted")'
      BY <1>1, <2>1, <2>5, <2>9 DEF Reporting
    <2>11. ScanState(report') = "recorded"
      BY <2>3 DEF ScanState
    <2>12. RiskVerdict(report') = "risk_pass" => ~did'.refused
      BY <2>3, <2>6 DEF RiskVerdict, AnyEntry
    <2>13. DeskIsHonest'
      BY <2>3, <2>7, <2>8, <2>10, <2>11, <2>12 DEF DeskIsHonest
    <2>14. QED
      BY <1>1, <2>2, <2>13 DEF ReportInv
  <1>4. QED
    BY <1>2, <1>3 DEF EntryRow

LEMMA ReportNext == ReportInv /\ [CNext]_cvars => ReportInv'
  <1> SUFFICES ASSUME ReportInv, [CNext]_cvars PROVE ReportInv'
    OBVIOUS
  <1>1. CASE UNCHANGED cvars
    BY <1>1 DEF cvars, ReportInv, ReportOK, Staged, Reporting, DeskIsHonest, Sent
  <1>2. CASE CNext
    BY <1>2, UnreconciledKeeps, ReconciledKeeps, ExitRowKeeps, EndExitsKeeps, IdeasFailKeeps, EntryKeeps,
       NextCycleKeeps DEF CNext, Told
  <1>3. QED
    BY <1>1, <1>2

(* However many rows a cycle reports and the desk reads, whatever the cycle  *)
(* met and wherever it stopped, an unknown outcome is shown as uncertain or  *)
(* the desk says that it left rows out; a halted or dry cycle sent nothing;  *)
(* and "recorded" and "risk_pass" are never said of a position, scan or     *)
(* entry they are not true of (agent_desk.py:1-6, 53-54, 239, 260).          *)
THEOREM OwnerIsToldTheTruth == CSpec => []DeskIsHonest
  <1>1. ReportInv => DeskIsHonest
    BY DEF ReportInv
  <1>2. QED
    BY <1>1, ReportBegins, ReportNext, PTL DEF CSpec

-----------------------------------------------------------------------------
(***************************************************************************)
(* BrokerRequest: what a failed request proves of the order it carried.     *)
(***************************************************************************)

(* The row in the journal comes before the network.                         *)
TraceFirst ==
    /\ step = "begin" => trace = "absent"
    /\ step # "begin" /\ trace = "absent" => step = "gone"
    /\ trace = "absent" => ~placed

(* Nothing is decided, and nothing known, before an answer is there.        *)
Undecided ==
    /\ step \in {"begin", "open", "head", "body", "close", "finish", "journal"} => intent = "claimed"
    /\ step \in {"begin", "open"} => answer = NoReply /\ content = "none"
    /\ step \in {"begin", "open", "head"} => ending = "transport_error"

(* What the answer says of the order, whether the body is read or not.      *)
AnswerIsProof ==
    /\ answer.code = "refusal" /\ answer.id => ~placed
    /\ content = "ours" => placed

EndIsNamed ==
    /\ ending \in Ends
    /\ step \in {"journal", "returned"} => trace = ending

Settled ==
    /\ intent = "unplaced" => ~placed
    /\ intent = "acknowledged" => placed /\ trace = Success

RequestInv == TraceFirst /\ Undecided /\ AnswerIsProof /\ EndIsNamed /\ Settled

-----------------------------------------------------------------------------
LEMMA RequestBegins == RequestInit => RequestInv
  BY DEF RequestInit, RequestInv, TraceFirst, Undecided, AnswerIsProof, EndIsNamed, Settled, NoReply, Ends

(* The journal row, and the three things that may come of the network.       *)
LEMMA OpenKeeps ==
    ASSUME RequestInv, BeginTrace \/ BrokerAnswers \/ GatewayAnswers \/ NoAnswer
    PROVE  RequestInv'
  <1> USE DEF RequestInv, TraceFirst, Undecided, AnswerIsProof, EndIsNamed, Settled, Goes, NoReply, Ends
  <1>1. CASE BeginTrace
    BY <1>1 DEF BeginTrace
  <1>2. CASE BrokerAnswers
    BY <1>2 DEF BrokerAnswers, Codes
  <1>3. CASE GatewayAnswers
    BY <1>3 DEF GatewayAnswers, Codes
  <1>4. CASE NoAnswer
    BY <1>4 DEF NoAnswer
  <1>5. QED
    BY <1>1, <1>2, <1>3, <1>4

(* The answer is read and the row finished: the broker is not asked again.   *)
LEMMA ReadKeeps ==
    ASSUME RequestInv, ReadHead \/ ReadBody \/ Close \/ Finish
    PROVE  RequestInv'
  <1> USE DEF RequestInv, TraceFirst, Undecided, AnswerIsProof, EndIsNamed, Settled, Goes, NoReply, Ends, Success
  <1>1. CASE ReadHead
    BY <1>1 DEF ReadHead
  <1>2. CASE ReadBody
    BY <1>2 DEF ReadBody
  <1>3. CASE Close
    BY <1>3 DEF Close
  <1>4. CASE Finish
    BY <1>4 DEF Finish
  <1>5. QED
    BY <1>1, <1>2, <1>3, <1>4

LEMMA JournalKeeps == RequestInv /\ Journal => RequestInv'
  BY DEF RequestInv, TraceFirst, Undecided, AnswerIsProof, EndIsNamed, Settled, Goes, Ends,
         Journal, RefusedByBroker, Acknowledged

LEMMA DeathKeeps == RequestInv /\ Dies => RequestInv'
  <1> SUFFICES ASSUME RequestInv, Dies PROVE RequestInv'
    OBVIOUS
  <1> USE DEF RequestInv, TraceFirst, Undecided, AnswerIsProof, EndIsNamed, Settled, NoReply, Dies
  <1>1. CASE step = "open"
    BY <1>1
  <1>2. CASE step # "open"
    BY <1>2
  <1>3. QED
    BY <1>1, <1>2

LEMMA RequestKeeps == RequestInv /\ [RequestNext]_requestvars => RequestInv'
  <1> SUFFICES ASSUME RequestInv, [RequestNext]_requestvars PROVE RequestInv'
    OBVIOUS
  <1>1. CASE UNCHANGED requestvars
    BY <1>1 DEF requestvars, RequestInv, TraceFirst, Undecided, AnswerIsProof, EndIsNamed, Settled
  <1>2. CASE RequestNext
    BY <1>2, OpenKeeps, ReadKeeps, JournalKeeps, DeathKeeps DEF RequestNext
  <1>3. QED
    BY <1>1, <1>2

(* Whatever fails between the claim of an intent and the answer to its       *)
(* order, a slot is given back only without an order at the broker.          *)
THEOREM SlotsAreFreedOnProof == RequestSpec => []FreedOnProof
  <1>1. RequestInv => FreedOnProof
    BY DEF RequestInv, TraceFirst, EndIsNamed, Settled, FreedOnProof
  <1>2. QED
    BY <1>1, RequestBegins, RequestKeeps, PTL DEF RequestSpec

-----------------------------------------------------------------------------
(***************************************************************************)
(* ChatModel: the budget, for any midnights.                                *)
(***************************************************************************)

CountersOK ==
    /\ cap \in Nat /\ calls \in Nat /\ made \in Nat /\ round \in Nat
    /\ rolled \in BOOLEAN
    /\ worker \in {"idle", "asking"}

(* The question under way began below the cap; since then each of its calls  *)
(* added one to both sides.                                                 *)
UnderWay ==
    /\ round <= MaxRounds
    /\ worker = "idle" => round = 0 /\ calls <= cap + MaxRounds
    /\ worker = "asking" => calls + 1 <= cap + round

(* What the counter does not know of today's calls are those of the question *)
(* that midnight overtook.                                                  *)
Today ==
    /\ rolled => made <= calls + MaxRounds + 1
    /\ ~rolled /\ worker = "idle" => made <= MaxRounds + 1
    /\ ~rolled /\ worker = "asking" => made <= round

SwitchedOff == cap = 0 => worker = "idle" /\ made = 0

BudgetInv == CountersOK /\ UnderWay /\ Today /\ SwitchedOff

-----------------------------------------------------------------------------
LEMMA BudgetInit == ChatInit => BudgetInv
  <1> SUFFICES ASSUME ChatInit PROVE BudgetInv
    OBVIOUS
  <1> USE ChatConstants DEF ChatInit
  <1>1. CountersOK
    <2>1. cap \in Nat /\ calls \in Nat /\ made \in Nat /\ round \in Nat
      OBVIOUS
    <2>2. rolled \in BOOLEAN
      OBVIOUS
    <2>3. QED
      BY <2>1, <2>2 DEF CountersOK
  <1>2. UnderWay
    BY <1>1 DEF UnderWay, CountersOK
  <1>3. Today
    BY DEF Today
  <1>4. SwitchedOff
    BY DEF SwitchedOff
  <1>5. QED
    BY <1>1, <1>2, <1>3, <1>4 DEF BudgetInv

(* A question that is asked: the counter is rolled first.                   *)
LEMMA AskKeeps ==
    ASSUME BudgetInv, PastCap \/ BeginQuestion
    PROVE  BudgetInv'
  <1> USE ChatConstants DEF BudgetInv, CountersOK, UnderWay, Today, SwitchedOff, CallsAfterRoll, BudgetLeft
  <1>1. CASE PastCap
    BY <1>1 DEF PastCap
  <1>2. CASE BeginQuestion
    BY <1>2 DEF BeginQuestion
  <1>3. QED
    BY <1>1, <1>2

(* A call, with which the question goes on or ends.                         *)
LEMMA CallKeeps ==
    ASSUME BudgetInv, CallForTools \/ EndQuestion
    PROVE  BudgetInv'
  <1> USE ChatConstants DEF BudgetInv, CountersOK, UnderWay, Today, SwitchedOff, Called
  <1>1. CASE CallForTools
    BY <1>1 DEF CallForTools
  <1>2. CASE EndQuestion
    BY <1>2 DEF EndQuestion
  <1>3. QED
    BY <1>1, <1>2

LEMMA BudgetNext == BudgetInv /\ [ChatNext]_hvars => BudgetInv'
  <1> SUFFICES ASSUME BudgetInv, [ChatNext]_hvars PROVE BudgetInv'
    OBVIOUS
  <1> USE ChatConstants DEF BudgetInv, CountersOK, UnderWay, Today, SwitchedOff
  <1>1. CASE Midnight
    <2> USE <1>1 DEF Midnight
    <2>1. UnderWay' /\ SwitchedOff'
      OBVIOUS
    <2>2. CountersOK'
      <3>1. rolled' \in BOOLEAN
        OBVIOUS
      <3>2. (cap \in Nat /\ calls \in Nat /\ made \in Nat /\ round \in Nat)'
        OBVIOUS
      <3>3. QED
        BY <3>1, <3>2
    <2>3. Today'
      OBVIOUS
    <2>4. QED
      BY <2>1, <2>2, <2>3
  <1>2. CASE UNCHANGED hvars
    BY <1>2 DEF hvars
  <1>3. QED
    BY <1>1, <1>2, AskKeeps, CallKeeps DEF ChatNext

LEMMA BudgetBounds == BudgetInv => CapOverrun
  BY ChatConstants DEF BudgetInv, CountersOK, UnderWay, Today, SwitchedOff, CapOverrun

(* However questions, tools and midnights follow each other in one process,  *)
(* a day has at most cap + 2 * MaxRounds + 1 calls, and none with a cap of   *)
(* zero.                                                                     *)
THEOREM CapIsExceededByRoundsOnly == ChatSpec => []CapOverrun
  BY BudgetInit, BudgetNext, BudgetBounds, PTL DEF ChatSpec

-----------------------------------------------------------------------------
(***************************************************************************)
(* Studio, for any requests, any size of the queue and any number of slots. *)
(* The theorems hold of Init and [Next]_vars alone: no fairness.            *)
(***************************************************************************)

(* A job that can still start has a request thread that waits for it, or    *)
(* that is about to cancel it.                                              *)
PendingIsAwaited ==
    \A r \in Requests : future[r] = "pending" => caller[r] \in {"waiting", "expired"}

(* The worker holds a job exactly while it works on one.                    *)
JobInHand == at \in {"got", "ready", "running"} => job \in Requests

(* The schedule of a process that halted is over.                           *)
HaltIsFinal ==
    schedule \in {"halted", "market closed"} => due = "never" /\ at # "cycling"

SInv == StudioTypeOK /\ NothingRunsUnlocked /\ PendingIsAwaited /\ JobInHand /\ HaltIsFinal

-----------------------------------------------------------------------------
LEMMA QueueBounds ==
    /\ QueueSize \in Nat
    /\ \A q \in Seq(Requests) : Len(q) \in Nat
  BY StudioConstants

LEMMA QueueAppend ==
    ASSUME NEW q \in Seq(Requests), NEW r \in Requests, Len(q) < QueueSize
    PROVE  Append(q, r) \in Seq(Requests) /\ Len(Append(q, r)) <= QueueSize
  <1>1. Append(q, r) \in Seq(Requests) /\ Len(Append(q, r)) = Len(q) + 1
    OBVIOUS
  <1>2. QED
    BY <1>1, QueueBounds

LEMMA StudioInit == Init => SInv
  <1> SUFFICES ASSUME Init PROVE SInv
    OBVIOUS
  <1>1. jobs \in Seq(Requests) /\ Len(jobs) <= QueueSize
    <2>1. jobs = <<>>
      BY DEF Init
    <2>2. <<>> \in Seq(Requests) /\ Len(<<>>) = 0
      OBVIOUS
    <2>3. QED
      BY <2>1, <2>2, QueueBounds
  <1>2. due \in DueAt /\ schedule \in Schedules /\ schedule \notin {"halted", "market closed"}
    BY DEF Init, DueAt, Schedules
  <1>3. future \in [Requests -> Futures] /\ caller \in [Requests -> CallerAt]
    BY DEF Init, Futures, CallerAt
  <1>4. PendingIsAwaited
    BY DEF Init, PendingIsAwaited
  <1>5. QED
    BY <1>1, <1>2, <1>3, <1>4
       DEF Init, SInv, StudioTypeOK, NothingRunsUnlocked, JobInHand, HaltIsFinal, MainAt, WorkerAt

LEMMA QueueTail ==
    ASSUME NEW q \in Seq(Requests), q # <<>>, Len(q) <= QueueSize
    PROVE  /\ Head(q) \in Requests
           /\ Tail(q) \in Seq(Requests) /\ Len(Tail(q)) <= QueueSize
  BY StudioConstants

-----------------------------------------------------------------------------
(* The worker.  It leaves the other threads alone, and it never comes back  *)
(* from "gone".                                                             *)
LEMMA WorkerKeepsInv ==
    ASSUME SInv, Worker
    PROVE  SInv'
  <1> USE DEF SInv, StudioTypeOK, NothingRunsUnlocked, PendingIsAwaited, JobInHand,
              HaltIsFinal, workerOnly, WorkerAt
  <1>1. CASE Loop
    BY <1>1 DEF Loop
  <1>2. CASE StartCycle
    BY <1>2 DEF StartCycle
  <1>3. CASE NoCycle
    BY <1>3 DEF NoCycle
  <1>4. CASE Looked
    BY <1>4 DEF Looked
  <1>5. CASE Get
    <2>1. job' \in Requests /\ jobs' \in Seq(Requests) /\ Len(jobs') <= QueueSize
      BY <1>5, QueueTail DEF Get
    <2>2. QED
      BY <1>5, <2>1 DEF Get
  <1>6. CASE GetTimesOut
    BY <1>6 DEF GetTimesOut
  <1>7. CASE Got
    <2>1. job \in Requests
      BY <1>7 DEF Got
    <2>2. CASE stop
      <3>1. /\ future' \in [Requests -> Futures]
            /\ \A q \in Requests : future'[q] = "pending" => future[q] = "pending"
        BY <1>7, <2>1, <2>2 DEF Got, Cancel, Futures
      <3>2. QED
        BY <1>7, <2>2, <3>1 DEF Got
    <2>3. CASE ~stop
      BY <1>7, <2>1, <2>3 DEF Got
    <2>4. QED
      BY <2>2, <2>3
  <1>8. CASE StartJob
    BY <1>8 DEF StartJob, Futures
  <1>9. CASE SkipJob
    BY <1>9 DEF SkipJob
  <1>10. CASE EndJob
    BY <1>10 DEF EndJob, Futures
  <1>11. CASE Drain
    <2>1. CASE jobs # <<>>
      <3>1. Head(jobs) \in Requests /\ Tail(jobs) \in Seq(Requests) /\ Len(Tail(jobs)) <= QueueSize
        BY <2>1, QueueTail
      <3>2. /\ future' \in [Requests -> Futures]
            /\ \A q \in Requests : future'[q] = "pending" => future[q] = "pending"
        BY <1>11, <2>1, <3>1 DEF Drain, Cancel, Futures
      <3>3. QED
        BY <1>11, <2>1, <3>1, <3>2 DEF Drain
    <2>2. CASE jobs = <<>>
      BY <1>11, <2>2 DEF Drain
    <2>3. QED
      BY <2>1, <2>2
  <1>12. ASSUME NEW outcome \in Schedules \ {"on demand"}, EndCycle(outcome)
         PROVE  SInv'
    BY <1>12 DEF EndCycle, Schedules, DueAt
  <1>13. QED
    BY <1>1, <1>2, <1>3, <1>4, <1>5, <1>6, <1>7, <1>8, <1>9, <1>10, <1>11, <1>12 DEF Worker

(* A request thread.  It leaves the worker alone; the queue grows at its    *)
(* end, and only in Put.                                                    *)
LEMMA CallerKeepsInv ==
    ASSUME SInv, NEW r \in Requests, Caller(r)
    PROVE  SInv'
  <1> USE DEF SInv, StudioTypeOK, NothingRunsUnlocked, PendingIsAwaited, JobInHand,
              HaltIsFinal, callerOnly, CallerAt
  <1>1. CASE Connect(r)
    BY <1>1 DEF Connect
  <1>2. CASE Refuse(r)
    BY <1>2 DEF Refuse
  <1>3. CASE Check(r)
    BY <1>3 DEF Check
  <1>4. CASE Put(r)
    <2>1. CASE Len(jobs) < QueueSize
      <3>1. Append(jobs, r) \in Seq(Requests) /\ Len(Append(jobs, r)) <= QueueSize
        BY <2>1, QueueAppend
      <3>2. QED
        BY <1>4, <2>1, <3>1 DEF Put, Futures
    <2>2. CASE ~(Len(jobs) < QueueSize)
      BY <1>4, <2>2 DEF Put
    <2>3. QED
      BY <2>1, <2>2
  <1>5. CASE Answer(r)
    BY <1>5 DEF Answer
  <1>6. CASE Expire(r)
    BY <1>6 DEF Expire
  <1>7. CASE GiveUp(r)
    <2>1. /\ future' \in [Requests -> Futures] /\ future'[r] # "pending"
          /\ \A q \in Requests : future'[q] = "pending" => future[q] = "pending"
      BY <1>7 DEF GiveUp, Cancel, Futures
    <2>2. caller' = [caller EXCEPT ![r] = "busy"]
      BY <1>7 DEF GiveUp
    <2>3. QED
      BY <1>7, <2>1, <2>2 DEF GiveUp
  <1>8. CASE Forget(r)
    BY <1>8 DEF Forget, Futures
  <1>9. QED
    BY <1>1, <1>2, <1>3, <1>4, <1>5, <1>6, <1>7, <1>8 DEF Caller

(* The main thread.  Only Leave releases the lock, after the worker.        *)
LEMMA MainKeepsInv ==
    ASSUME SInv, Main
    PROVE  SInv'
  BY DEF Main, Sleep, Interrupt, Shutdown, Leave, mainOnly, SInv, StudioTypeOK,
         NothingRunsUnlocked, PendingIsAwaited, JobInHand, HaltIsFinal, MainAt

LEMMA StudioNext == SInv /\ [Next]_vars => SInv'
  <1> SUFFICES ASSUME SInv, [Next]_vars PROVE SInv'
    OBVIOUS
  <1>1. CASE BecomeDue
    BY <1>1 DEF BecomeDue, workerOnly, SInv, StudioTypeOK, NothingRunsUnlocked,
                PendingIsAwaited, JobInHand, HaltIsFinal, DueAt
  <1>2. CASE UNCHANGED vars
    BY <1>2 DEF vars, SInv, StudioTypeOK, NothingRunsUnlocked, PendingIsAwaited,
                JobInHand, HaltIsFinal
  <1>3. QED
    BY <1>1, <1>2, WorkerKeepsInv, CallerKeepsInv, MainKeepsInv DEF Next

-----------------------------------------------------------------------------
(* SInv is inductive.                                                       *)
THEOREM StudioInvariant == StudioSpec => []SInv
  BY StudioInit, StudioNext, PTL DEF StudioSpec

(* The threads keep the types of what they share, and the queue its bound   *)
(* (studio.py:137).                                                         *)
THEOREM StudioTyped == StudioSpec => []StudioTypeOK
  <1>1. SInv => StudioTypeOK
    BY DEF SInv
  <1>2. QED
    BY <1>1, StudioInvariant, PTL

(* The runtime lock is held as long as the worker lives (studio.py:158).    *)
THEOREM LockCoversWorker == StudioSpec => []NothingRunsUnlocked
  <1>1. SInv => NothingRunsUnlocked
    BY DEF SInv
  <1>2. QED
    BY <1>1, StudioInvariant, PTL

(* No job starts after its request was answered (studio.py:172).            *)
THEOREM AbandonedJobsStaySo == StudioSpec => NoLateStart
  <1>1. SInv => \A r \in Requests : future[r] = "pending" => caller[r] \in {"waiting", "expired"}
    BY DEF SInv, PendingIsAwaited
  <1>2. SInv /\ [Next]_vars =>
          [\A r \in Requests :
              future[r] = "pending" /\ future'[r] = "running" => caller[r] \in {"waiting", "expired"}]_vars
    BY <1>1
  <1>3. QED
    BY <1>2, StudioInvariant, PTL DEF StudioSpec, NoLateStart

(* A schedule that has halted stays halted (studio.py:183-193).             *)
THEOREM HaltedSchedulesStaySo == StudioSpec => NoAutoRestart
  <1>1. SInv /\ [Next]_vars =>
          [at # "cycling" /\ at' = "cycling" => schedule \notin {"halted", "market closed"}]_vars
    <2> SUFFICES ASSUME SInv, [Next]_vars, at # "cycling", at' = "cycling"
                 PROVE  schedule \notin {"halted", "market closed"}
      OBVIOUS
    <2>1. StartCycle
      BY DEF Next, vars, Worker, Caller, Main, BecomeDue, workerOnly, callerOnly, mainOnly,
             Loop, StartCycle, NoCycle, EndCycle, Looked, Get, GetTimesOut, Got, StartJob,
             SkipJob, EndJob, Drain, Connect, Refuse, Check, Put, Answer, Expire, GiveUp,
             Forget, Sleep, Interrupt, Shutdown, Leave
    <2>2. due = "now"
      BY <2>1 DEF StartCycle
    <2>3. QED
      BY <2>2 DEF SInv, HaltIsFinal
  <1>2. QED
    BY <1>1, StudioInvariant, PTL DEF StudioSpec, NoAutoRestart
=============================================================================
