----------------------------- MODULE BooksProofs ----------------------------
(***************************************************************************)
(* Proofs about the two halves of the books: the activities that were       *)
(* imported (ActivityHistory), and what is booked of them (Normalization) in*)
(* the tables of the fill ledger (LedgerProofs).                            *)
(***************************************************************************)
EXTENDS ActivityHistory, LedgerProofs

-----------------------------------------------------------------------------
(***************************************************************************)
(* ActivityHistory: what an instant covered_through answers is worth.       *)
(***************************************************************************)

Statuses == {"started", "failed", "exhausted"}
Run == [after : Nat, until : Nat, status : Statuses, pages : Nat, got : SUBSET Nat]

HistoryOK ==
    /\ clock \in Nat
    /\ created \in Seq(Nat)
    /\ runs \in Seq(Run)
    /\ "pc" \in DOMAIN builder
    /\ builder.pc = "fetch" => runs # <<>>

(* No activity can still be created within a window that a run has asked for. *)
Past ==
    /\ \A i \in DOMAIN created : created[i] <= clock
    /\ \A j \in DOMAIN runs : runs[j].until <= clock

Covers(j, i) == runs[j].after < created[i] /\ created[i] < runs[j].until

(* An exhausted run has every activity of its window.                       *)
ExhaustedIsFull ==
    \A j \in DOMAIN runs :
        runs[j].status = "exhausted" => \A i \in DOMAIN created : Covers(j, i) => i \in runs[j].got

HistoryInv == HistoryOK /\ Past /\ ExhaustedIsFull

-----------------------------------------------------------------------------
(* The chain of windows *)

(* Every instant of the account before this one is strictly within a window. *)
Reached(W) ==
    {t \in Int : \A x \in Int : 0 < x /\ x < t => \E w \in W : w[1] < x /\ x < w[2]}

LEMMA ExtendReaches ==
    ASSUME NEW W \in SUBSET (Int \X Int), NEW t \in Reached(W), NEW w \in W
    PROVE  Extend(t, w) \in Reached(W)
  <1>1. w[1] \in Int /\ w[2] \in Int /\ t \in Int
    BY DEF Reached
  <1>2. Extend(t, w) \in Int
    BY <1>1 DEF Extend, Nowhere, Anchor, Later
  <1>3. ASSUME NEW x \in Int, 0 < x, x < Extend(t, w)
        PROVE  \E v \in W : v[1] < x /\ x < v[2]
    <2>1. CASE x < t
      BY <1>3, <2>1 DEF Reached
    <2>2. CASE ~(x < t)
      <3>1. w[1] < x /\ x < w[2]
        BY <1>1, <1>3, <2>2 DEF Extend, Nowhere, Anchor, Later
      <3>2. QED
        BY <3>1
    <2>3. QED
      BY <2>1, <2>2
  <1>4. QED
    BY <1>2, <1>3 DEF Reached

(* Of finitely many windows one is the last.                                *)
LEMMA LastWindowIsOne ==
    ASSUME NEW W \in SUBSET (Nat \X Nat), IsFiniteSet(W), W # {}
    PROVE  LastWindow(W) \in W
  <1> DEFINE R == {p \in W \X W : p[1][1] < p[2][1] \/ (p[1][1] = p[2][1] /\ p[1][2] <= p[2][2])}
  <1>1. \A v \in W : v[1] \in Int /\ v[2] \in Int
    OBVIOUS
  <1>2. ASSUME NEW v \in W, NEW w \in W
        PROVE  <<v, w>> \in R <=> v[1] < w[1] \/ (v[1] = w[1] /\ v[2] <= w[2])
    <2>1. <<v, w>> \in W \X W /\ <<v, w>>[1] = v /\ <<v, w>>[2] = w
      OBVIOUS
    <2>2. QED
      BY <2>1
  <1> HIDE DEF R
  <1>3. ASSUME NEW v \in W, NEW w \in W
        PROVE  <<v, w>> \in R \/ <<w, v>> \in R
    <2>1. v[1] < w[1] \/ w[1] < v[1] \/ (v[1] = w[1] /\ (v[2] <= w[2] \/ w[2] <= v[2]))
      BY <1>1
    <2>2. QED
      BY <1>2, <2>1
  <1>4. \A u, v, w \in W : <<u, v>> \in R /\ <<v, w>> \in R => <<u, w>> \in R
    BY <1>1, <1>2
  <1>5. \E w \in W : \A v \in W : <<v, w>> \in R
    BY <1>3, <1>4, LastExists
  <1>6. \E w \in W : \A v \in W : v[1] < w[1] \/ (v[1] = w[1] /\ v[2] <= w[2])
    BY <1>2, <1>5
  <1>7. QED
    BY <1>6 DEF LastWindow

(* The recursive definition of the chain.                                   *)
ChainOver(F, W) ==
    F = [T \in SUBSET W |->
            IF T = {} THEN Nowhere
            ELSE LET w == LastWindow(T) IN Extend(F[T \ {w}], w)]

LEMMA ChainExists ==
    ASSUME NEW W \in SUBSET (Nat \X Nat), IsFiniteSet(W)
    PROVE  \E F : ChainOver(F, W)
  <1> DEFINE D  == Reached(W)
             ch == [T \in SUBSET W |-> LastWindow(T)]
             op == [p \in W \X D |-> Extend(p[2], p[1])]
  <1>1. \A T \in SUBSET W : ch[T] = LastWindow(T) /\ (T # {} => LastWindow(T) \in T)
    BY FS_Subset, LastWindowIsOne
  <1>2. Nowhere \in D
    BY DEF Reached, Nowhere
  <1>3. ASSUME NEW w \in W, NEW t \in D
        PROVE  op[<<w, t>>] = Extend(t, w) /\ Extend(t, w) \in D
    BY ExtendReaches
  <1>4. op \in [W \X D -> D]
    BY <1>3
  <1> HIDE DEF D, ch, op
  <1>5. Chooses(ch, W)
    BY <1>1 DEF Chooses
  <1>6. PICK F : FoldsOver(F, W, ch, op, Nowhere)
    BY <1>5, FoldExists
  <1>7. F \in [SUBSET W -> D]
    BY <1>2, <1>4, <1>5, <1>6, FoldType
  <1>8. ASSUME NEW T \in SUBSET W
        PROVE  F[T] = IF T = {} THEN Nowhere
                      ELSE LET w == LastWindow(T) IN Extend(F[T \ {w}], w)
    <2>1. F[T] = IF T = {} THEN Nowhere ELSE op[<<ch[T], F[T \ {ch[T]}]>>]
      BY <1>6 DEF FoldsOver
    <2>2. F[T \ {LastWindow(T)}] \in D
      BY <1>7
    <2>3. T # {} => op[<<ch[T], F[T \ {ch[T]}]>>] = Extend(F[T \ {LastWindow(T)}], LastWindow(T))
      BY <1>1, <1>3, <2>2
    <2>4. QED
      BY <2>1, <2>3
  <1>9. F = [T \in SUBSET W |-> F[T]]
    BY <1>7
  <1>10. ChainOver(F, W)
    BY <1>8, <1>9 DEF ChainOver
  <1>11. QED
    BY <1>10

LEMMA ChainReaches ==
    ASSUME NEW W \in SUBSET (Nat \X Nat), IsFiniteSet(W), NEW F, ChainOver(F, W)
    PROVE  F[W] \in Reached(W)
  <1> DEFINE C == {T \in SUBSET W : F[T] \notin Reached(W)}
  <1> SUFFICES ASSUME C # {} PROVE FALSE
    OBVIOUS
  <1>1. PICK T \in C : \A U \in C : U \subseteq T => U = T
    <2>1. C \subseteq SUBSET W
      OBVIOUS
    <2> HIDE DEF C
    <2>2. QED
      BY <2>1, MinimalSet
  <1>2. T \in SUBSET W /\ F[T] \notin Reached(W)
    OBVIOUS
  <1>3. \A U \in SUBSET T : U # T => F[U] \in Reached(W)
    <2>1. \A U \in SUBSET T : U \in SUBSET W /\ (U # T => U \notin C)
      BY <1>1, <1>2
    <2>2. QED
      BY <2>1
  <1> HIDE DEF C
  <1>4. F[T] = IF T = {} THEN Nowhere
               ELSE LET w == LastWindow(T) IN Extend(F[T \ {w}], w)
    BY <1>2 DEF ChainOver
  <1>5. T # {}
    BY <1>2, <1>4 DEF Reached, Nowhere
  <1>6. LastWindow(T) \in T
    BY <1>2, <1>5, FS_Subset, LastWindowIsOne
  <1>7. F[T \ {LastWindow(T)}] \in Reached(W)
    BY <1>3, <1>6
  <1>8. Extend(F[T \ {LastWindow(T)}], LastWindow(T)) \in Reached(W)
    BY <1>2, <1>6, <1>7, ExtendReaches
  <1>9. QED
    BY <1>2, <1>4, <1>5, <1>8

LEMMA CoverageIsReached ==
    ASSUME HistoryOK
    PROVE  CoveredThrough \in Reached(Windows)
  <1>1. Windows \in SUBSET (Nat \X Nat)
    <2>1. \A j \in DOMAIN runs : runs[j].after \in Nat /\ runs[j].until \in Nat
      <3>1. \A j \in DOMAIN runs : runs[j] \in Run
        BY DEF HistoryOK
      <3>2. QED
        BY <3>1 DEF Run
    <2>2. QED
      BY <2>1 DEF Windows
  <1>2. IsFiniteSet(Windows)
    <2> DEFINE J == {j \in DOMAIN runs : runs[j].status = "exhausted"}
               g == [j \in J |-> <<runs[j].after, runs[j].until>>]
    <2>1. DOMAIN runs = 1..Len(runs) /\ Len(runs) \in Nat
      BY DEF HistoryOK
    <2>2. IsFiniteSet(DOMAIN runs)
      <3>1. Len(runs) \in Int /\ 1 \in Int
        BY <2>1
      <3>2. QED
        BY <2>1, <3>1, FS_Interval
    <2>3. IsFiniteSet(J)
      BY <2>2, FS_Subset
    <2>4. g \in Surjection(J, Windows)
      BY DEF Windows, Surjection
    <2> HIDE DEF J, g
    <2>5. QED
      BY <2>3, <2>4, FS_Surjection
  <1>3. PICK G : ChainOver(G, Windows)
    BY <1>1, <1>2, ChainExists
  <1>4. \E F : ChainOver(F, Windows) /\ CoveredThrough = F[Windows]
    BY <1>3 DEF CoveredThrough, MapThenFoldSet, ChainOver
  <1>5. QED
    BY <1>1, <1>2, <1>4, ChainReaches

(* What the answer of covered_through promises, if exhausted runs are full.  *)
LEMMA FullIsComplete == HistoryInv => CoverageIsComplete
  <1> SUFFICES ASSUME HistoryInv, NEW i \in DOMAIN created, 0 < created[i], created[i] < CoveredThrough
               PROVE  \E j \in DOMAIN runs : runs[j].status = "exhausted" /\ i \in runs[j].got
    BY DEF CoverageIsComplete, Anchor
  <1>1. created[i] \in Int
    BY DEF HistoryInv, HistoryOK
  <1>2. PICK w \in Windows : w[1] < created[i] /\ created[i] < w[2]
    BY <1>1, CoverageIsReached DEF HistoryInv, Reached
  <1>3. PICK j \in DOMAIN runs : runs[j].status = "exhausted" /\ w = <<runs[j].after, runs[j].until>>
    BY DEF Windows
  <1>4. Covers(j, i)
    BY <1>2, <1>3 DEF Covers
  <1>5. QED
    BY <1>3, <1>4 DEF HistoryInv, ExhaustedIsFull

-----------------------------------------------------------------------------
(* The steps *)

LEMMA RunFacts ==
    ASSUME HistoryOK, NEW j \in DOMAIN runs
    PROVE  /\ runs[j] \in Run
           /\ runs[j].after \in Nat /\ runs[j].until \in Nat /\ runs[j].got \in SUBSET Nat
  <1>1. runs[j] \in Run
    BY DEF HistoryOK
  <1>2. QED
    BY <1>1 DEF Run

LEMMA HistoryBegins == HInit => HistoryInv
  BY DEF HInit, AtRest, HistoryInv, HistoryOK, Past, ExhaustedIsFull

(* Steps that leave the runs as they are.                                   *)
LEMMA RunsStay ==
    ASSUME HistoryInv, ImportFails \/ NormalizeOne \/ Answer \/ CrashImport \/ Tick
    PROVE  HistoryInv'
  <1> USE DEF HistoryInv
  <1>1. CASE ImportFails
    <2>1. /\ runs' \in Seq(Run) /\ DOMAIN runs' = DOMAIN runs
          /\ \A j \in DOMAIN runs : /\ runs'[j].after = runs[j].after /\ runs'[j].until = runs[j].until
                                    /\ runs'[j].got = runs[j].got
                                    /\ runs'[j].status = "exhausted" => runs[j].status = "exhausted"
      <3> DEFINE n    == Len(runs)
                 next == [runs[n] EXCEPT !.status = "failed"]
      <3>1. n \in DOMAIN runs /\ runs' = [runs EXCEPT ![n] = next]
        BY <1>1 DEF ImportFails, HistoryOK
      <3>2. runs[n] \in Run
        BY <3>1, RunFacts
      <3> HIDE DEF n
      <3>3. /\ next \in Run /\ next.status = "failed" /\ next.got = runs[n].got
            /\ next.after = runs[n].after /\ next.until = runs[n].until
        BY <3>2 DEF Run, Statuses
      <3> HIDE DEF next
      <3>4. /\ runs' \in Seq(Run) /\ DOMAIN runs' = DOMAIN runs
            /\ \A j \in DOMAIN runs : runs'[j] = IF j = n THEN next ELSE runs[j]
        BY <3>1, <3>3 DEF HistoryOK
      <3>5. QED
        BY <3>3, <3>4
    <2>2. QED
      BY <1>1, <2>1 DEF ImportFails, AtRest, HistoryOK, Past, ExhaustedIsFull, Covers
  <1>2. CASE Tick
    <2>1. clock' \in Nat /\ clock <= clock'
      BY <1>2 DEF Tick, HistoryOK
    <2>2. /\ \A i \in DOMAIN created : created[i] \in Nat
          /\ \A j \in DOMAIN runs : runs[j].until \in Nat
      BY RunFacts DEF HistoryOK
    <2>3. QED
      BY <1>2, <2>1, <2>2 DEF Tick, HistoryOK, Past, ExhaustedIsFull, Covers
  <1>3. CASE NormalizeOne \/ Answer \/ CrashImport
    <2>1. UNCHANGED <<clock, created, runs>>
      BY <1>3 DEF NormalizeOne, Answer, CrashImport
    <2>2. "pc" \in DOMAIN builder' /\ builder'.pc # "fetch"
      <3>1. CASE NormalizeOne
        BY <3>1 DEF NormalizeOne, HistoryOK
      <3>2. CASE Answer \/ CrashImport
        BY <3>2 DEF Answer, CrashImport, AtRest
      <3>3. QED
        BY <1>3, <3>1, <3>2
    <2>3. QED
      BY <2>1, <2>2 DEF HistoryOK, Past, ExhaustedIsFull, Covers
  <1>4. QED
    BY <1>1, <1>2, <1>3

(* A run that is added asks for no more than there is.                      *)
LEMMA Added ==
    ASSUME HistoryInv, NEW run \in Run, runs' = Append(runs, run), run.until <= clock,
           run.status = "exhausted" =>
               \A i \in DOMAIN created : run.after < created[i] /\ created[i] < run.until => i \in run.got,
           UNCHANGED <<clock, created>>, "pc" \in DOMAIN builder'
    PROVE  HistoryInv'
  <1>1. /\ runs' \in Seq(Run) /\ runs' # <<>>
        /\ DOMAIN runs = 1..Len(runs) /\ Len(runs) \in Nat /\ DOMAIN runs' = 1..Len(runs) + 1
        /\ \A j \in 1..Len(runs) + 1 : runs'[j] = IF j = Len(runs) + 1 THEN run ELSE runs[j]
    BY DEF HistoryInv, HistoryOK
  <1>2. HistoryOK'
    BY <1>1 DEF HistoryInv, HistoryOK
  <1>3. \A j \in DOMAIN runs' : runs'[j] = run \/ (j \in DOMAIN runs /\ runs'[j] = runs[j])
    BY <1>1
  <1>4. Past'
    BY <1>3 DEF HistoryInv, Past
  <1>5. ExhaustedIsFull'
    BY <1>3 DEF HistoryInv, ExhaustedIsFull, Covers
  <1>6. QED
    BY <1>2, <1>4, <1>5 DEF HistoryInv

LEMMA StartKeeps == HistoryInv /\ StartImport => HistoryInv'
  <1> SUFFICES ASSUME HistoryInv, StartImport PROVE HistoryInv'
    OBVIOUS
  <1> DEFINE through == CoveredThrough
             after   == IF through = Nowhere THEN Anchor ELSE Later(Anchor, through - Overlap)
  <1>1. through \in Int
    BY CoverageIsReached DEF HistoryInv, Reached
  <1>2. Overlap \in Int
    BY HistoryConstants
  <1>3. after \in Nat
    BY <1>1, <1>2 DEF Later, Anchor
  <1>4. /\ runs' = Append(runs, NewRun(after, clock)) /\ UNCHANGED <<clock, created>>
        /\ builder' = [AtRest EXCEPT !.pc = "fetch"]
    BY DEF StartImport
  <1> HIDE DEF after
  <1>5. NewRun(after, clock) \in Run /\ NewRun(after, clock).until <= clock
        /\ NewRun(after, clock).status = "started"
    BY <1>3 DEF NewRun, Run, Statuses, HistoryInv, HistoryOK
  <1>6. "pc" \in DOMAIN builder'
    BY <1>4 DEF AtRest
  <1>7. QED
    BY <1>4, <1>5, <1>6, Added

LEMMA StageKeeps == HistoryInv /\ Stage => HistoryInv'
  <1> SUFFICES ASSUME HistoryInv, Stage PROVE HistoryInv'
    OBVIOUS
  <1>1. PICK b \in Bounds :
          /\ b[2] <= clock
          /\ runs' = Append(runs, [NewRun(b[1], b[2]) EXCEPT !.status = "exhausted", !.got = Listed(NewRun(b[1], b[2]))])
    BY DEF Stage
  <1> DEFINE run == [NewRun(b[1], b[2]) EXCEPT !.status = "exhausted", !.got = Listed(NewRun(b[1], b[2]))]
  <1>2. b[1] \in Nat /\ b[2] \in Nat
    BY HistoryConstants DEF Bounds
  <1>3. Listed(NewRun(b[1], b[2])) = {i \in DOMAIN created : b[1] < created[i] /\ created[i] < b[2]}
    BY DEF Listed, NewRun
  <1>4. DOMAIN created \subseteq Nat
    BY DEF HistoryInv, HistoryOK
  <1>5. /\ run \in Run /\ run.until = b[2] /\ run.after = b[1]
        /\ run.got = {i \in DOMAIN created : b[1] < created[i] /\ created[i] < b[2]}
    BY <1>2, <1>3, <1>4 DEF NewRun, Run, Statuses
  <1>6. "pc" \in DOMAIN builder' /\ UNCHANGED <<clock, created>>
    BY DEF Stage, HistoryInv, HistoryOK
  <1> HIDE DEF run
  <1>7. QED
    BY <1>1, <1>5, <1>6, Added DEF run

(* The empty page: nothing was left to list.                                *)
LEMMA EmptyPage ==
    ASSUME HistoryInv, NEW run \in Run, Page(run) = {}
    PROVE  Listed(run) = {}
  <1> SUFFICES ASSUME Listed(run) # {} PROVE FALSE
    OBVIOUS
  <1>1. Listed(run) \subseteq Nat
    BY DEF Listed, HistoryInv, HistoryOK
  <1>2. PICK m \in Listed(run) : \A n \in Listed(run) : m <= n
    BY <1>1, LeastNumber
  <1>3. {j \in Listed(run) : j < m} = {}
    BY <1>1, <1>2
  <1>4. Cardinality({j \in Listed(run) : j < m}) < PageSize
    <2>1. PageSize \in Nat \ {0}
      BY HistoryConstants
    <2>2. QED
      BY <1>3, <2>1, FS_EmptySet
  <1>5. QED
    BY <1>2, <1>4 DEF Page

LEMMA FetchKeeps == HistoryInv /\ FetchPage => HistoryInv'
  <1> SUFFICES ASSUME HistoryInv, FetchPage PROVE HistoryInv'
    OBVIOUS
  <1> DEFINE n    == Len(runs)
             run  == runs[n]
             page == Page(run)
             next == [run EXCEPT !.pages = run.pages + 1, !.got = run.got \cup page,
                                 !.status = IF page = {} THEN "exhausted" ELSE run.status]
  <1>1. n \in DOMAIN runs /\ run \in Run
    BY DEF FetchPage, HistoryInv, HistoryOK
  <1>2. page \in SUBSET Nat
    BY DEF Page, Listed, HistoryInv, HistoryOK
  <1>3. /\ runs' = [runs EXCEPT ![n] = next] /\ UNCHANGED <<clock, created>>
        /\ "pc" \in DOMAIN builder'
    BY DEF FetchPage, Current, HistoryInv, HistoryOK
  <1> HIDE DEF n, page
  <1>4. /\ next \in Run /\ next.after = run.after /\ next.until = run.until
        /\ run.got \subseteq next.got
        /\ next.status = "exhausted" => run.status = "exhausted" \/ page = {}
    <2>1. run.got \cup page \in SUBSET Nat /\ run.pages + 1 \in Nat
      <3>1. run.got \in SUBSET Nat /\ run.pages \in Nat
        BY <1>1 DEF Run
      <3>2. \A A, B \in SUBSET Nat : A \cup B \in SUBSET Nat
        OBVIOUS
      <3> HIDE DEF run
      <3>3. run.got \cup page \in SUBSET Nat
        BY <1>2, <3>1, <3>2
      <3>4. QED
        BY <3>1, <3>3
    <2> DEFINE all    == run.got \cup page
               status == IF page = {} THEN "exhausted" ELSE run.status
    <2>2. status \in Statuses /\ run.got \subseteq all /\ all \in SUBSET Nat
      BY <1>1, <2>1 DEF Run, Statuses
    <2>3. next = [run EXCEPT !.pages = run.pages + 1, !.got = all, !.status = status]
      OBVIOUS
    <2> HIDE DEF all, run, next
    <2>4. /\ next \in Run /\ next.after = run.after /\ next.until = run.until
          /\ next.got = all /\ next.status = status
      BY <1>1, <2>1, <2>2, <2>3 DEF Run
    <2>5. QED
      BY <2>2, <2>4
  <1> HIDE DEF next
  <1>5. /\ runs' \in Seq(Run) /\ DOMAIN runs' = DOMAIN runs /\ runs' # <<>>
        /\ \A j \in DOMAIN runs : runs'[j] = IF j = n THEN next ELSE runs[j]
    BY <1>1, <1>3, <1>4 DEF HistoryInv, HistoryOK
  <1>6. page = {} => \A i \in DOMAIN created : Covers(n, i) => i \in run.got
    BY <1>1, EmptyPage DEF page, Listed, Covers
  <1>7. HistoryOK' /\ Past'
    BY <1>3, <1>4, <1>5 DEF HistoryInv, HistoryOK, Past
  <1>8. ExhaustedIsFull'
    BY <1>1, <1>3, <1>4, <1>5, <1>6 DEF HistoryInv, ExhaustedIsFull, Covers
  <1>9. QED
    BY <1>7, <1>8 DEF HistoryInv

(* What is created now is in no window that was asked for.                  *)
LEMMA CreateKeeps == HistoryInv /\ Create => HistoryInv'
  <1> SUFFICES ASSUME HistoryInv, Create PROVE HistoryInv'
    OBVIOUS
  <1>1. /\ created' = Append(created, clock) /\ UNCHANGED <<clock, runs, builder>>
        /\ clock \in Nat /\ created \in Seq(Nat)
    BY DEF Create, HistoryInv, HistoryOK
  <1>2. /\ created' \in Seq(Nat)
        /\ \A i \in DOMAIN created' : (i \in DOMAIN created /\ created'[i] = created[i]) \/ created'[i] = clock
    BY <1>1
  <1>3. HistoryOK'
    BY <1>1, <1>2 DEF HistoryInv, HistoryOK
  <1>4. Past'
    BY <1>1, <1>2 DEF HistoryInv, Past
  <1>5. \A j \in DOMAIN runs : runs[j].until \in Nat /\ runs[j].until <= clock
    BY RunFacts DEF HistoryInv, Past
  <1>6. ASSUME NEW j \in DOMAIN runs, runs[j].status = "exhausted", NEW i \in DOMAIN created',
               runs[j].after < created'[i], created'[i] < runs[j].until
        PROVE  i \in runs[j].got
    <2>1. created'[i] # clock
      BY <1>1, <1>5, <1>6
    <2>2. QED
      BY <1>2, <1>6, <2>1 DEF HistoryInv, ExhaustedIsFull, Covers
  <1>7. ExhaustedIsFull'
    BY <1>1, <1>6 DEF ExhaustedIsFull, Covers
  <1>8. QED
    BY <1>3, <1>4, <1>7 DEF HistoryInv

LEMMA HistoryNext == HistoryInv /\ [HNext]_historyvars => HistoryInv'
  <1> SUFFICES ASSUME HistoryInv, [HNext]_historyvars PROVE HistoryInv'
    OBVIOUS
  <1>1. CASE UNCHANGED historyvars
    BY <1>1 DEF historyvars, HistoryInv, HistoryOK, Past, ExhaustedIsFull, Covers
  <1>2. CASE HNext
    BY <1>2, RunsStay, StartKeeps, StageKeeps, FetchKeeps, CreateKeeps DEF HNext
  <1>3. QED
    BY <1>1, <1>2

(* "The latest instant contiguously covered" (history.py:127) is never too   *)
(* late: of what was created before it nothing is missing from the pages of *)
(* the exhausted runs, whatever windows the runs and the operator asked     *)
(* for, wherever a page or a process ended.                                 *)
THEOREM CoverageHolds == HSpec => []CoverageIsComplete
  BY HistoryBegins, HistoryNext, FullIsComplete, PTL DEF HSpec

-----------------------------------------------------------------------------
(***************************************************************************)
(* Normalization: what is booked of the activities of a window.             *)
(***************************************************************************)

(* Types; what is left to do is of the window, and is a trade or a fee.       *)
BooksTyped ==
    /\ feed \in Feeds /\ db \in Tables /\ IsFiniteSet(db.fees)
    /\ window[1] \in Nat \ {0} /\ window[2] \in 0..Len(feed)
    /\ \A i \in todo : i \in window[1]..window[2] /\ feed[i].kind \in {"FILL", "OPEXP", "FEE"}
    /\ halted \in BOOLEAN /\ blocked \in BOOLEAN /\ now \in Int

SideOf(i) == IF feed[i].kind = "OPEXP" THEN "sell_to_close" ELSE feed[i].side

(* What Valid asks of the activity alone.                                    *)
RightTrade(i) ==
    \/ feed[i].kind = "OPEXP" /\ feed[i].day = Expiry[feed[i].contract] /\ feed[i].price = 0
    \/ /\ feed[i].kind = "FILL" /\ feed[i].price >= 0 /\ feed[i].side \in Sides
       /\ feed[i].side = "buy_to_open" => feed[i].price > 0

(* Every row was made from its activity, and no activity made two.           *)
Traced ==
    /\ \A k \in DOMAIN db.fills :
          LET f == db.fills[k]
          IN  /\ f.id \in DOMAIN feed /\ RightTrade(f.id) /\ f.pos # Nobody /\ f.side = SideOf(f.id)
              /\ f = WithPnl(Execution(f.id, f.pos, f.side), f.pnl)
    /\ \A j, k \in DOMAIN db.fills : db.fills[j].id = db.fills[k].id => j = k
    /\ \A g \in db.fees : g.id \in DOMAIN feed /\ feed[g.id].kind = "FEE" /\ g = Fee(g.id) /\ g.amount > 0

FeeIsBooked(i) == \E g \in db.fees : g.id = i
WindowBooked ==
    ~blocked => \A i \in window[1]..window[2] :
        \/ i \in todo
        \/ IsTrade(i) /\ Booked(db, i) # {}
        \/ feed[i].kind = "FEE" /\ FeeIsBooked(i)

LEMMA FeedFacts ==
    ASSUME feed \in Feeds
    PROVE  /\ DOMAIN feed = 1..Len(feed) /\ Len(feed) \in Nat
           /\ \A i \in DOMAIN feed :
                 /\ feed[i].kind \in ActivityTypes /\ feed[i].contract \in DOMAIN Expiry /\ feed[i].qty \in Nat
                 /\ feed[i].price \in Int /\ feed[i].at \in Int /\ feed[i].day \in Int
                 /\ IsTrade(i) => feed[i].qty > 0
  <1>1. feed \in Seq(Activity)
    BY FeedsAreFeeds
  <1>2. DOMAIN feed = 1..Len(feed) /\ Len(feed) \in Nat /\ \A i \in DOMAIN feed : feed[i] \in Activity
    BY <1>1
  <1>3. \A i \in DOMAIN feed :
           /\ feed[i].kind \in ActivityTypes /\ feed[i].contract \in DOMAIN Expiry /\ feed[i].qty \in Nat
           /\ feed[i].price \in Int /\ feed[i].at \in Int /\ feed[i].day \in Int
    BY <1>2 DEF Activity
  <1>4. \A i \in DOMAIN feed : IsTrade(i) => feed[i].qty > 0
    BY FeedsAreFeeds DEF IsTrade
  <1>5. QED
    BY <1>2, <1>3, <1>4

LEMMA TodoFacts ==
    ASSUME BooksTyped
    PROVE  /\ IsFiniteSet(todo) /\ todo \subseteq Nat /\ todo \subseteq DOMAIN feed
           /\ \A i \in todo : i \in Nat \ {0} /\ i \in DOMAIN feed
  <1>1. DOMAIN feed = 1..Len(feed) /\ Len(feed) \in Nat
    BY FeedFacts DEF BooksTyped
  <1>2. todo \subseteq 1..Len(feed)
    BY <1>1 DEF BooksTyped
  <1>3. IsFiniteSet(1..Len(feed))
    <2>1. Len(feed) \in Int /\ 1 \in Int
      BY <1>1
    <2>2. QED
      BY <2>1, FS_Interval
  <1>4. IsFiniteSet(todo)
    BY <1>2, <1>3, FS_Subset
  <1>5. \A i \in todo : i \in Nat \ {0}
    BY <1>1, <1>2
  <1>6. todo \subseteq Nat /\ todo \subseteq DOMAIN feed
    BY <1>1, <1>2, <1>5
  <1>7. QED
    BY <1>4, <1>5, <1>6

LEMMA FirstIsOne ==
    ASSUME BooksTyped, todo # {}
    PROVE  First(todo) \in todo /\ First(todo) \in DOMAIN feed /\ First(todo) \in Nat \ {0}
  <1> DEFINE T == {i \in todo : IsTrade(i)}
             R == {p \in T \X T : p[1] = p[2] \/ Earlier(p[2], p[1])}
  <1>1. IsFiniteSet(todo) /\ todo \subseteq Nat /\ todo \subseteq DOMAIN feed
    BY TodoFacts
  <1>0. \A i \in todo : i \in Nat \ {0} /\ i \in DOMAIN feed
    BY TodoFacts
  <1>2. \A i \in T : i \in Int /\ feed[i].at \in Int
    BY <1>1, FeedFacts DEF BooksTyped
  <1>3. CASE T # {}
    <2>1. \A x, y \in T : <<x, y>> \in R <=> x = y \/ Earlier(y, x)
      OBVIOUS
    <2> HIDE DEF R, T
    <2>2. \A x, y \in T : <<x, y>> \in R \/ <<y, x>> \in R
      <3> SUFFICES ASSUME NEW x \in T, NEW y \in T PROVE x = y \/ Earlier(x, y) \/ Earlier(y, x)
        BY <2>1
      <3>1. x \in Int /\ y \in Int /\ feed[x].at \in Int /\ feed[y].at \in Int
        BY <1>2
      <3>2. QED
        BY <3>1 DEF Earlier
    <2>3. \A x, y, z \in T : <<x, y>> \in R /\ <<y, z>> \in R => <<x, z>> \in R
      BY <1>2, <2>1 DEF Earlier
    <2>4. IsFiniteSet(T)
      <3>1. T \subseteq todo
        BY DEF T
      <3>2. QED
        BY <1>1, <3>1, FS_Subset
    <2>5. PICK m \in T : \A x \in T : <<x, m>> \in R
      <3>1. QED
        BY <1>3, <2>2, <2>3, <2>4, LastExists
    <2>6. \A x \in T \ {m} : Earlier(m, x)
      BY <2>1, <2>5
    <2>7. First(todo) = CHOOSE i \in T : \A j \in T \ {i} : Earlier(i, j)
      BY <1>3 DEF First, T
    <2>8. First(todo) \in T
      BY <2>5, <2>6, <2>7
    <2>9. T \subseteq todo
      BY DEF T
    <2>10. QED
      BY <1>0, <2>8, <2>9
  <1>4. CASE T = {}
    <2>1. First(todo) = Min(todo)
      BY <1>4 DEF First
    <2>2. todo \subseteq Int
      BY <1>1
    <2>3. Min(todo) \in todo
      BY <1>1, <2>2, GreatestExists
    <2>4. QED
      BY <1>0, <2>1, <2>3
  <1>5. QED
    BY <1>3, <1>4

LEMMA LifecycleIsOne ==
    ASSUME NEW b \in Tables, NEW c
    PROVE  OpenLifecycle(b, c) \in Nat
  <1> DEFINE I == Inventory(b, c)
  <1>1. I \subseteq DOMAIN b.lots
    BY DEF Inventory, OpenLots
  <1>2. IsFiniteSet(I) /\ I \subseteq Int
    <2>1. IsFiniteSet(I) /\ I \subseteq Nat
      BY <1>1, LotsAreFinite
    <2>2. QED
      BY <2>1
  <1>3. \A i \in DOMAIN b.lots : b.lots[i].pos \in Nat
    <2>1. b.lots \in Seq(Lot)
      BY DEF Tables
    <2>2. QED
      BY <2>1, LotsOfSeq
  <1>4. CASE I = {}
    BY <1>4 DEF OpenLifecycle, Nobody
  <1>5. CASE I # {}
    <2>1. OpenLifecycle(b, c) = b.lots[Min(I)].pos
      BY <1>5 DEF OpenLifecycle
    <2>2. Min(I) \in I
      <3> HIDE DEF I
      <3>1. QED
        BY <1>2, <1>5, GreatestExists
    <2>3. QED
      BY <1>1, <1>3, <2>1, <2>2
  <1>6. QED
    BY <1>4, <1>5

(* A trade that record accepts: its first booking, under the open lifecycle   *)
(* or one of its own.                                                       *)
FirstBooking(i, e) ==
    /\ i \in todo /\ i \in DOMAIN feed /\ i \in Nat \ {0} /\ RightTrade(i) /\ feed[i].qty > 0
    /\ e \in Exec /\ e.id = i /\ e.side = SideOf(i) /\ e = Execution(i, e.pos, e.side) /\ e.premium >= 0
    /\ e.pos # Nobody
    /\ e.pos = IF e.side = "buy_to_open" /\ OpenLifecycle(db, e.contract) = Nobody THEN i
               ELSE OpenLifecycle(db, e.contract)
    /\ Accepts(db, e, now)

LEMMA TradeIsFirst ==
    ASSUME BooksTyped, BookTrade
    PROVE  /\ FirstBooking(First(todo), ExecutionOf(First(todo)))
           /\ db' = Book(db, ExecutionOf(First(todo)))
           /\ UNCHANGED <<feed, window, halted, blocked, now>>
           /\ todo' = todo \ {First(todo)}
  <1> DEFINE i == First(todo)
             e == ExecutionOf(i)
  <1>1. i \in todo /\ i \in DOMAIN feed /\ i \in Nat \ {0} /\ Valid(i) /\ IsTrade(i) /\ Accepts(db, e, now)
    BY FirstIsOne DEF BookTrade
  <1>2. db' = Book(db, e) /\ UNCHANGED <<feed, window, halted, blocked, now>> /\ todo' = todo \ {i}
    BY DEF BookTrade, Pop
  <1> HIDE DEF i
  <1>3. e.id = i /\ e.side = SideOf(i) /\ e.contract = feed[i].contract
    BY DEF ExecutionOf, Execution, SideOf
  <1>4. Booked(db, i) = {}
    BY <1>1, <1>3 DEF Accepts
  <1> DEFINE pos == OpenLifecycle(db, feed[i].contract)
  <1>5. LifecycleOf(i) = pos /\ pos \in Nat
    BY <1>4, LifecycleIsOne DEF LifecycleOf, BooksTyped
  <1>6. /\ feed[i].kind \in ActivityTypes /\ feed[i].contract \in DOMAIN Expiry /\ feed[i].qty \in Nat
        /\ feed[i].price \in Int /\ feed[i].at \in Int /\ feed[i].day \in Int /\ feed[i].qty > 0
    BY <1>1, FeedFacts DEF BooksTyped
  <1> HIDE DEF pos
  <1>7. RightTrade(i) /\ feed[i].price >= 0 /\ SideOf(i) \in Sides /\ (SideOf(i) = "sell_to_close" => pos # Nobody)
    <2>1. CASE feed[i].kind = "OPEXP"
      BY <1>1, <1>5, <1>6, <2>1 DEF Valid, ValidExpiry, RightTrade, SideOf, Sides
    <2>2. CASE feed[i].kind = "FILL"
      BY <1>1, <1>5, <1>6, <2>2 DEF Valid, ValidTrade, RightTrade, SideOf
    <2>3. QED
      BY <1>1, <2>1, <2>2 DEF IsTrade
  <1>8. e.pos = (IF e.side = "buy_to_open" /\ pos = Nobody THEN i ELSE pos) /\ e = Execution(i, e.pos, e.side)
    BY <1>5 DEF ExecutionOf, Execution
  <1>9. e.pos \in Nat /\ e.pos # Nobody
    BY <1>1, <1>3, <1>5, <1>7, <1>8 DEF Nobody, Sides
  <1>10. feed[i].price * feed[i].qty \in Int /\ feed[i].price * feed[i].qty >= 0
    BY <1>6, <1>7
  <1> HIDE DEF e
  <1>11. e.premium = feed[i].price * feed[i].qty
    BY <1>8 DEF Execution
  <1>12. e \in Exec
    BY <1>1, <1>3, <1>6, <1>7, <1>8, <1>9, <1>10 DEF Exec, Execution
  <1>13. FirstBooking(i, e)
    BY <1>1, <1>3, <1>6, <1>7, <1>8, <1>9, <1>10, <1>11, <1>12 DEF FirstBooking, pos
  <1>14. QED
    BY <1>2, <1>13 DEF i, e

(* A step that leaves the tables alone.                                      *)
LEMMA TablesStay ==
    ASSUME UNCHANGED <<feed, db>>
    PROVE  (Traced => Traced') /\ (LatchIsExact => LatchIsExact')
  BY DEF Traced, RightTrade, SideOf, Execution, Fee, LatchIsExact

LEMMA BookingFacts ==
    ASSUME BooksTyped, NEW i, NEW e, FirstBooking(i, e), db' = Book(db, e)
    PROVE  /\ db' \in Tables /\ db'.fees = db.fees
           /\ db'.latched = IF LossOn(db', e.day) >= DailyLossLimit THEN db.latched \cup {e.day} ELSE db.latched
           /\ \E p \in Int : db'.fills = Append(db.fills, WithPnl(e, p))
           /\ Booked(db, i) = {} /\ e \in Exec
  <1>1. db \in Tables /\ e \in Exec /\ e.premium >= 0 /\ e.id = i /\ Accepts(db, e, now)
    BY DEF BooksTyped, FirstBooking
  <1>2. Booked(db, i) = {} /\ (e.side = "sell_to_close" => Available(db, e.pos) >= e.qty)
    BY <1>1 DEF Accepts
  <1>3. e.side \in {"buy_to_open", "sell_to_close"}
    BY <1>1 DEF Exec, Sides
  <1>4. 0 \in Int
    OBVIOUS
  <1>5. /\ db' \in Tables /\ db'.fees = db.fees
        /\ db'.latched = IF LossOn(db', e.day) >= DailyLossLimit THEN db.latched \cup {e.day} ELSE db.latched
        /\ e.side = "buy_to_open" => db'.fills = Append(db.fills, WithPnl(e, 0))
        /\ e.side = "sell_to_close" => \E p \in Int : db'.fills = Append(db.fills, WithPnl(e, p))
    BY <1>1, <1>2, Booking
  <1>6. QED
    BY <1>1, <1>2, <1>3, <1>4, <1>5

LEMMA RowIsNew ==
    ASSUME NEW fills \in Seq(Fill), NEW id, {f \in Range(fills) : f.id = id} = {}
    PROVE  \A k \in DOMAIN fills : fills[k].id # id
  <1>1. \A k \in DOMAIN fills : fills[k] \in Range(fills)
    BY DEF Range
  <1>2. QED
    BY <1>1

LEMMA BookingIsTraced ==
    ASSUME BooksTyped, Traced, NEW i, NEW e, FirstBooking(i, e), db' = Book(db, e), feed' = feed
    PROVE  Traced'
  <1>1. PICK p \in Int : db'.fills = Append(db.fills, WithPnl(e, p))
    BY BookingFacts
  <1>2. db.fills \in Seq(Fill) /\ db'.fees = db.fees /\ Booked(db, i) = {} /\ e \in Exec
    BY BookingFacts DEF BooksTyped, Tables
  <1>3. WithPnl(e, p) \in Fill
    BY <1>2, FillRows
  <1> DEFINE m == Len(db.fills) + 1
  <1>4. /\ db'.fills[m] = WithPnl(e, p) /\ DOMAIN db'.fills = DOMAIN db.fills \cup {m} /\ m \notin DOMAIN db.fills
        /\ \A k \in DOMAIN db.fills : db'.fills[k] = db.fills[k]
    BY <1>1, <1>2, <1>3, Appended
  <1>5. \A k \in DOMAIN db.fills : db.fills[k].id # i
    BY <1>2, RowIsNew DEF Booked
  <1> HIDE DEF m
  <1>6. /\ i \in DOMAIN feed /\ RightTrade(i) /\ e.pos # Nobody /\ e.side = SideOf(i) /\ e.id = i
        /\ e = Execution(i, e.pos, e.side)
    BY DEF FirstBooking
  <1>7. LET f == WithPnl(e, p)
        IN  f.id = i /\ f.pos = e.pos /\ f.side = e.side /\ f.pnl = p
    BY <1>2, <1>6, FillRows
  <1>8. ASSUME NEW k \in DOMAIN db'.fills
        PROVE  LET f == db'.fills[k]
               IN  /\ f.id \in DOMAIN feed /\ RightTrade(f.id) /\ f.pos # Nobody /\ f.side = SideOf(f.id)
                   /\ f = WithPnl(Execution(f.id, f.pos, f.side), f.pnl)
    <2>1. CASE k = m
      BY <1>4, <1>6, <1>7, <2>1
    <2>2. CASE k \in DOMAIN db.fills
      BY <1>4, <2>2 DEF Traced
    <2>3. QED
      BY <1>4, <2>1, <2>2
  <1>9. \A j, k \in DOMAIN db'.fills : db'.fills[j].id = db'.fills[k].id => j = k
    <2>1. \A j, k \in DOMAIN db.fills : db.fills[j].id = db.fills[k].id => j = k
      BY DEF Traced
    <2>2. db'.fills[m].id = i
      BY <1>4, <1>7
    <2>3. QED
      BY <1>4, <1>5, <2>1, <2>2
  <1>10. \A g \in db'.fees : g.id \in DOMAIN feed /\ feed[g.id].kind = "FEE" /\ g = Fee(g.id) /\ g.amount > 0
    BY <1>2 DEF Traced
  <1>11. QED
    BY <1>8, <1>9, <1>10 DEF Traced, RightTrade, SideOf, Execution, Fee

Days == {feed[i].day : i \in DOMAIN feed}

(* What a booking or a fee adds to a session latches it, and no other.        *)
Adds(b, c, day) ==
    /\ day \in Days
    /\ c.latched = IF LossOn(c, day) >= DailyLossLimit THEN b.latched \cup {day} ELSE b.latched
    /\ \A d : /\ LossOn(b, d) \in Int /\ LossOn(c, d) \in Int /\ LossOn(c, d) >= LossOn(b, d)
              /\ d # day => LossOn(c, d) = LossOn(b, d)

LEMMA LatchMoves ==
    ASSUME NEW b, NEW c, NEW day, Adds(b, c, day), b.latched = {d \in Days : LossOn(b, d) >= DailyLossLimit}
    PROVE  c.latched = {d \in Days : LossOn(c, d) >= DailyLossLimit}
  BY LedgerConstants DEF Adds

LEMMA NoFeesYet ==
    ASSUME NEW fees \in SUBSET FeeRow, IsFiniteSet(fees), NEW d
    PROVE  FeesIn(fees, d) \in Int
  <1> DEFINE S == {g \in fees : g.day = d}
             x == [g \in S |-> g.amount]
  <1>1. IsFiniteSet(S) /\ x \in [S -> Int]
    BY FS_Subset DEF FeeRow
  <1> HIDE DEF x, S
  <1>2. SumFunction(x) \in Int
    BY <1>1, SumIsInteger
  <1>3. QED
    BY <1>2 DEF x, S, FeesIn

LEMMA LossIsInt ==
    ASSUME NEW fills \in Seq(Fill), NEW d
    PROVE  LossIn(fills, d) \in Int
  <1> DEFINE S == RowsOn(fills, d)
             x == [k \in S |-> Loss(fills[k])]
  <1>1. S \subseteq DOMAIN fills
    BY DEF RowsOn
  <1>2. IsFiniteSet(S) /\ \A k \in S : Loss(fills[k]) \in Nat
    BY <1>1, RowsOfSeq
  <1>3. x \in [S -> Int]
    BY <1>2
  <1> HIDE DEF x, S
  <1>4. SumFunction(x) \in Int
    BY <1>2, <1>3, SumIsInteger
  <1>5. QED
    BY <1>4 DEF x, S, LossIn

LEMMA BookingLatches ==
    ASSUME BooksTyped, LatchIsExact, NEW i, NEW e, FirstBooking(i, e), db' = Book(db, e), feed' = feed
    PROVE  LatchIsExact'
  <1>1. PICK p \in Int : db'.fills = Append(db.fills, WithPnl(e, p))
    BY BookingFacts
  <1>2. /\ db.fills \in Seq(Fill) /\ db'.fees = db.fees /\ e \in Exec
        /\ db.fees \in SUBSET FeeRow /\ IsFiniteSet(db.fees)
        /\ db'.latched = IF LossOn(db', e.day) >= DailyLossLimit THEN db.latched \cup {e.day} ELSE db.latched
    BY BookingFacts DEF BooksTyped, Tables
  <1>3. WithPnl(e, p) \in Fill /\ WithPnl(e, p).day = e.day
    BY <1>2, FillRows
  <1>4. ASSUME NEW d
        PROVE  /\ LossOn(db, d) \in Int /\ LossOn(db', d) \in Int /\ LossOn(db', d) >= LossOn(db, d)
               /\ d # e.day => LossOn(db', d) = LossOn(db, d)
    <2> DEFINE f == WithPnl(e, p)
    <2>1. /\ LossIn(db.fills, d) \in Int /\ Loss(f) \in Nat
          /\ LossIn(db'.fills, d) = LossIn(db.fills, d) + (IF f.day = d THEN Loss(f) ELSE 0)
      BY <1>1, <1>2, <1>3, LossAppended
    <2> HIDE DEF f
    <2>2. FeesIn(db.fees, d) \in Int
      BY <1>2, NoFeesYet
    <2>3. LossOn(db, d) = LossIn(db.fills, d) + FeesIn(db.fees, d)
      BY LossIsOfRows
    <2>4. LossOn(db', d) = LossIn(db'.fills, d) + FeesIn(db.fees, d)
      BY <1>2, LossIsOfRows
    <2>5. f.day = e.day
      BY <1>3 DEF f
    <2>6. QED
      BY <2>1, <2>2, <2>3, <2>4, <2>5
  <1>5. e.day \in Days
    <2>1. i \in DOMAIN feed /\ e = Execution(i, e.pos, e.side)
      BY DEF FirstBooking
    <2>2. Execution(i, e.pos, e.side).day = feed[i].day
      BY DEF Execution
    <2>3. QED
      BY <2>1, <2>2 DEF Days
  <1>6. db.latched = {d \in Days : LossOn(db, d) >= DailyLossLimit}
    BY DEF LatchIsExact, Days
  <1>7. db'.latched = {d \in Days : LossOn(db', d) >= DailyLossLimit}
    <2>1. Adds(db, db', e.day)
      BY <1>2, <1>4, <1>5 DEF Adds
    <2>2. QED
      BY <1>6, <2>1, LatchMoves
  <1>8. QED
    BY <1>7 DEF LatchIsExact, Days

LEMMA FeeIsBookedWell ==
    ASSUME BooksTyped, Traced, LatchIsExact, NormalizeFee
    PROVE  /\ Traced' /\ LatchIsExact' /\ db' \in Tables /\ IsFiniteSet(db'.fees)
           /\ feed' = feed /\ db'.fills = db.fills /\ db'.lots = db.lots /\ db.fees \subseteq db'.fees
           /\ ~blocked' => ~blocked /\ \E g \in db'.fees : g.id = First(todo)
  <1> DEFINE i == First(todo)
             g == Fee(i)
             bad == g.amount <= 0 \/ FeeConflict(db, g)
  <1>1. /\ i \in DOMAIN feed /\ i \in Nat /\ feed[i].kind = "FEE" /\ feed' = feed
        /\ db' = (IF bad \/ FeeBooked(db, g) THEN db ELSE BookFee(db, g))
        /\ blocked' = (blocked \/ bad)
    BY FirstIsOne DEF NormalizeFee
  <1> HIDE DEF i
  <1>2. g \in FeeRow /\ g.id = i /\ g.day = feed[i].day /\ g.day \in Days
    <2>1. feed[i].day \in Int /\ feed[i].price \in Int
      BY <1>1, FeedFacts DEF BooksTyped
    <2>2. QED
      BY <1>1, <2>1 DEF Fee, FeeRow, Days
  <1>3. CASE bad \/ FeeBooked(db, g)
    <2>1. UNCHANGED <<feed, db>>
      BY <1>1, <1>3
    <2>2. Traced' /\ LatchIsExact'
      BY <2>1, TablesStay
    <2>3. ~bad => g \in db.fees
      BY <1>3 DEF FeeBooked
    <2> HIDE DEF g
    <2>4. QED
      BY <1>1, <1>2, <2>1, <2>2, <2>3 DEF BooksTyped, i
  <1>4. CASE ~bad /\ ~FeeBooked(db, g)
    <2>1. g.amount > 0 /\ g \notin db.fees /\ db' = BookFee(db, g) /\ g.amount \in Int
      BY <1>1, <1>2, <1>4 DEF FeeBooked, FeeRow
    <2> HIDE DEF g
    <2> DEFINE x == [db EXCEPT !.fees = @ \cup {g}]
    <2>2. db.fees \in SUBSET FeeRow /\ IsFiniteSet(db.fees) /\ db \in Tables
      BY DEF BooksTyped, Tables
    <2>3. db.fees \cup {g} \in SUBSET FeeRow
      BY <1>2, <2>2
    <2>4. x \in Tables /\ x.fees = db.fees \cup {g} /\ x.fills = db.fills /\ x.lots = db.lots /\ x.latched = db.latched
      BY <2>2, <2>3 DEF Tables
    <2>5. db' = LatchIfNeeded(x, g.day) /\ g.day \in Int
      BY <1>2, <2>1 DEF BookFee, FeeRow
    <2> HIDE DEF x
    <2>6. /\ db' \in Tables /\ db'.fills = x.fills /\ db'.lots = x.lots /\ db'.fees = x.fees
          /\ db'.latched = IF LossOn(db', g.day) >= DailyLossLimit THEN x.latched \cup {g.day} ELSE x.latched
      BY <2>4, <2>5, Latching
    <2>7. IsFiniteSet(db'.fees)
      BY <2>2, <2>4, <2>6, FS_AddElement
    <2>8. Traced'
      <3>1. \A h \in db'.fees : h.id \in DOMAIN feed /\ feed[h.id].kind = "FEE" /\ h = Fee(h.id) /\ h.amount > 0
        BY <1>1, <1>2, <2>1, <2>4, <2>6 DEF Traced, g
      <3>2. db'.fills = db.fills
        BY <2>4, <2>6
      <3>3. \A k \in DOMAIN db'.fills :
               LET f == db'.fills[k]
               IN  /\ f.id \in DOMAIN feed /\ RightTrade(f.id) /\ f.pos # Nobody /\ f.side = SideOf(f.id)
                   /\ f = WithPnl(Execution(f.id, f.pos, f.side), f.pnl)
        BY <3>2 DEF Traced
      <3>4. \A j, k \in DOMAIN db'.fills : db'.fills[j].id = db'.fills[k].id => j = k
        BY <3>2 DEF Traced
      <3>5. feed' = feed
        BY <1>1
      <3>6. QED
        BY <3>1, <3>3, <3>4, <3>5 DEF Traced, RightTrade, SideOf, Execution, Fee
    <2>9. ASSUME NEW d
          PROVE  /\ LossOn(db, d) \in Int /\ LossOn(db', d) \in Int /\ LossOn(db', d) >= LossOn(db, d)
                 /\ d # g.day => LossOn(db', d) = LossOn(db, d)
      <3>1. /\ FeesIn(db.fees, d) \in Int
            /\ FeesIn(db.fees \cup {g}, d) = FeesIn(db.fees, d) + (IF g.day = d THEN g.amount ELSE 0)
        BY <1>2, <2>1, <2>2, FeeAdded
      <3>2. LossIn(db.fills, d) \in Int
        BY <2>2, LossIsInt DEF Tables
      <3>3. LossOn(db, d) = LossIn(db.fills, d) + FeesIn(db.fees, d)
        BY LossIsOfRows
      <3>4. LossOn(db', d) = LossIn(db.fills, d) + FeesIn(db.fees \cup {g}, d)
        BY <2>4, <2>6, LossIsOfRows
      <3>5. QED
        BY <2>1, <3>1, <3>2, <3>3, <3>4
    <2>10. db.latched = {d \in Days : LossOn(db, d) >= DailyLossLimit}
      BY DEF LatchIsExact, Days
    <2>11. db'.latched = {d \in Days : LossOn(db', d) >= DailyLossLimit}
      <3>1. Adds(db, db', g.day)
        BY <1>2, <2>4, <2>6, <2>9 DEF Adds
      <3>2. QED
        BY <2>10, <3>1, LatchMoves
    <2>12. LatchIsExact'
      BY <1>1, <2>11 DEF LatchIsExact, Days
    <2>13. QED
      BY <1>1, <1>2, <2>4, <2>6, <2>7, <2>8, <2>12 DEF i
  <1>5. QED
    BY <1>3, <1>4

BooksInv == BooksTyped /\ Traced /\ WindowBooked /\ LatchIsExact

LEMMA EmptySums ==
    /\ \A d : LossIn(<<>>, d) = 0 /\ FeesIn({}, d) = 0
    /\ IsFiniteSet({})
  <1>1. IsFiniteSet({})
    BY FS_EmptySet
  <1>2. ASSUME NEW d PROVE LossIn(<<>>, d) = 0
    <2> DEFINE S == RowsOn(<<>>, d)
               x == [k \in S |-> Loss(<<>>[k])]
    <2>1. S = {}
      BY DEF RowsOn
    <2>2. x \in [S -> Int]
      BY <2>1
    <2> HIDE DEF x, S
    <2>3. SumFunction(x) = 0
      BY <1>1, <2>1, <2>2, SumIsInteger
    <2>4. QED
      BY <2>3 DEF x, S, LossIn
  <1>3. ASSUME NEW d PROVE FeesIn({}, d) = 0
    <2> DEFINE S == {g \in {} : g.day = d}
               x == [g \in S |-> g.amount]
    <2>1. S = {}
      OBVIOUS
    <2>2. x \in [S -> Int]
      BY <2>1
    <2> HIDE DEF x, S
    <2>3. SumFunction(x) = 0
      BY <1>1, <2>1, <2>2, SumIsInteger
    <2>4. QED
      BY <2>3 DEF x, S, FeesIn
  <1>4. QED
    BY <1>1, <1>2, <1>3

LEMMA EmptyTables ==
    /\ EmptyLedger \in Tables /\ EmptyLedger.fills = <<>> /\ EmptyLedger.lots = <<>>
    /\ EmptyLedger.fees = {} /\ EmptyLedger.latched = {}
  <1>1. <<>> \in Seq(Fill) /\ <<>> \in Seq(Lot) /\ {} \in SUBSET FeeRow /\ {} \in SUBSET Int
    OBVIOUS
  <1>2. QED
    BY <1>1 DEF EmptyLedger, Tables

LEMMA BooksBegin == NInit => BooksInv
  <1> SUFFICES ASSUME NInit PROVE BooksInv
    OBVIOUS
  <1>1. /\ feed \in Feeds /\ db = EmptyLedger /\ window[1] = 1 /\ window[2] = 0 /\ todo = {}
        /\ halted = FALSE /\ blocked = FALSE /\ now \in Int
    BY FeedsAreFeeds DEF NInit
  <1>2. BooksTyped
    <2>1. Len(feed) \in Nat
      BY <1>1, FeedFacts
    <2>2. 0 \in 0..Len(feed)
      BY <2>1
    <2>3. db \in Tables /\ IsFiniteSet(db.fees)
      BY <1>1, EmptyTables, EmptySums
    <2>4. 1 \in Nat \ {0}
      OBVIOUS
    <2>5. QED
      BY <1>1, <2>2, <2>3, <2>4 DEF BooksTyped
  <1>3. Traced
    BY <1>1, EmptyTables DEF Traced
  <1>4. WindowBooked
    BY <1>1 DEF WindowBooked
  <1>5. LatchIsExact
    <2>1. ASSUME NEW d PROVE LossOn(db, d) = 0
      <3>1. db.fills = <<>> /\ db.fees = {}
        BY <1>1, EmptyTables
      <3>2. LossIn(db.fills, d) = 0 /\ FeesIn(db.fees, d) = 0
        BY <3>1, EmptySums
      <3>3. LossOn(db, d) = LossIn(db.fills, d) + FeesIn(db.fees, d)
        BY LossIsOfRows
      <3>4. QED
        BY <3>2, <3>3
    <2>2. db.latched = {}
      BY <1>1, EmptyTables
    <2>3. QED
      BY <2>1, <2>2, LedgerConstants DEF LatchIsExact
  <1>6. QED
    BY <1>2, <1>3, <1>4, <1>5 DEF BooksInv

LEMMA StartOfBuild ==
    ASSUME BooksInv, StartBuild
    PROVE  BooksInv'
  <1>1. PICK lo \in window[1]..(window[2] + 1), hi \in window[2]..Len(feed), t \in Clocks :
           /\ lo <= hi
           /\ window' = <<lo, hi>> /\ now' = t
           /\ todo' = Sorted(lo..hi)
           /\ blocked' = \E i \in lo..hi : feed[i].kind = "other" \/ (IsTrade(i) /\ feed[i].at = NoTime)
    BY DEF StartBuild
  <1>2. halted' = FALSE /\ UNCHANGED <<feed, db>>
    BY DEF StartBuild
  <1>3. BooksTyped /\ feed \in Feeds
    BY DEF BooksInv, BooksTyped
  <1>4. window'[1] = lo /\ window'[2] = hi
    BY <1>1
  <1>5. lo \in Nat \ {0} /\ hi \in 0..Len(feed) /\ now' \in Int
    <2>1. window[1] \in Nat \ {0} /\ window[2] \in 0..Len(feed) /\ Len(feed) \in Nat
      BY <1>3, FeedFacts DEF BooksTyped
    <2>2. lo \in Nat \ {0}
      BY <2>1
    <2>3. hi \in 0..Len(feed)
      BY <2>1
    <2>4. now' \in Int
      BY <1>1, FeedsAreFeeds
    <2>5. QED
      BY <2>2, <2>3, <2>4
  <1>6. ASSUME NEW i \in lo..hi
        PROVE  /\ i \in todo' => feed[i].kind \in {"FILL", "OPEXP", "FEE"}
               /\ ~blocked' => i \in todo'
    <2>1. i \in DOMAIN feed
      <3>1. DOMAIN feed = 1..Len(feed) /\ Len(feed) \in Nat
        BY <1>3, FeedFacts
      <3>2. QED
        BY <1>5, <3>1
    <2>2. feed[i].kind \in {"FILL", "OPEXP", "FEE", "other"}
      BY <1>3, <2>1, FeedFacts DEF ActivityTypes
    <2>3. QED
      BY <1>1, <2>2 DEF Sorted, IsTrade
  <1>7. \A i \in todo' : i \in lo..hi
    BY <1>1 DEF Sorted
  <1>8. BooksTyped'
    <2>1. blocked' \in BOOLEAN
      BY <1>1
    <2>2. feed' = feed /\ db' = db /\ halted' \in BOOLEAN
      BY <1>2
    <2>3. \A i \in todo' : feed[i].kind \in {"FILL", "OPEXP", "FEE"}
      BY <1>6, <1>7
    <2>4. QED
      BY <1>3, <1>4, <1>5, <1>7, <2>1, <2>2, <2>3 DEF BooksTyped
  <1>9. WindowBooked'
    BY <1>4, <1>6 DEF WindowBooked
  <1>10. QED
    BY <1>2, <1>8, <1>9, TablesStay DEF BooksInv

(* The steps of a build take the first activity and move nothing else.       *)
LEMMA PopIsTyped ==
    ASSUME BooksTyped, UNCHANGED <<feed, window, now>>, \A i \in todo' : i \in todo,
           db' \in Tables, IsFiniteSet(db'.fees), halted' \in BOOLEAN, blocked' \in BOOLEAN
    PROVE  BooksTyped'
  BY DEF BooksTyped

LEMMA ReplayKeeps ==
    ASSUME BooksInv, ReplayTrade
    PROVE  BooksInv'
  <1> DEFINE i == First(todo)
  <1>1. /\ IsTrade(i) /\ Replayed(db, ExecutionOf(i)) /\ todo' = todo \ {i}
        /\ UNCHANGED <<feed, db, window, halted, blocked, now>>
    BY DEF ReplayTrade, Pop
  <1> HIDE DEF i
  <1>2. Booked(db, i) # {}
    <2>1. ExecutionOf(i).id = i
      BY DEF ExecutionOf, Execution
    <2>2. QED
      BY <1>1, <2>1 DEF Replayed
  <1>3. BooksTyped'
    BY <1>1, PopIsTyped DEF BooksInv, BooksTyped
  <1>4. WindowBooked'
    BY <1>1, <1>2 DEF BooksInv, WindowBooked, IsTrade, FeeIsBooked
  <1>5. QED
    BY <1>1, <1>3, <1>4, TablesStay DEF BooksInv

LEMMA BlockKeeps ==
    ASSUME BooksInv, BlockTrade \/ CrashBuild
    PROVE  BooksInv'
  <1>1. /\ \A i \in todo' : i \in todo
        /\ halted' \in BOOLEAN /\ blocked' = TRUE /\ UNCHANGED <<feed, db, window, now>>
    BY DEF BlockTrade, CrashBuild, Pop, BooksInv, BooksTyped
  <1>2. BooksTyped'
    BY <1>1, PopIsTyped DEF BooksInv, BooksTyped
  <1>3. WindowBooked'
    BY <1>1 DEF WindowBooked
  <1>4. QED
    BY <1>1, <1>2, <1>3, TablesStay DEF BooksInv

(* What is booked stays booked.                                             *)
LEMMA RowsStay ==
    ASSUME NEW fills \in Seq(Fill), NEW f \in Fill, NEW j
    PROVE  /\ Range(Append(fills, f)) = Range(fills) \cup {f}
           /\ {x \in Range(fills) : x.id = j} \subseteq {x \in Range(Append(fills, f)) : x.id = j}
  <1>1. Range(Append(fills, f)) = Range(fills) \cup {f}
    <2> DEFINE m == Len(fills) + 1
               new == Append(fills, f)
    <2>1. new[m] = f /\ DOMAIN new = DOMAIN fills \cup {m} /\ m \notin DOMAIN fills /\ \A k \in DOMAIN fills : new[k] = fills[k]
      BY Appended
    <2> HIDE DEF new, m
    <2>2. Range(new) = Range(fills) \cup {f}
      BY <2>1 DEF Range
    <2>3. QED
      BY <2>2 DEF new
  <1>2. QED
    BY <1>1

LEMMA BookKeeps ==
    ASSUME BooksInv, BookTrade
    PROVE  BooksInv'
  <1> DEFINE i == First(todo)
             e == ExecutionOf(i)
  <1>1. /\ FirstBooking(i, e) /\ db' = Book(db, e)
        /\ UNCHANGED <<feed, window, halted, blocked, now>> /\ todo' = todo \ {i}
    BY TradeIsFirst DEF BooksInv
  <1> HIDE DEF i, e
  <1>2. BooksTyped /\ Traced /\ LatchIsExact /\ WindowBooked
    BY DEF BooksInv
  <1>3. /\ db' \in Tables /\ db'.fees = db.fees /\ e \in Exec
    BY <1>1, <1>2, BookingFacts
  <1>4. PICK p \in Int : db'.fills = Append(db.fills, WithPnl(e, p))
    BY <1>1, <1>2, BookingFacts
  <1>5. Traced' /\ LatchIsExact'
    BY <1>1, <1>2, BookingIsTraced, BookingLatches
  <1>6. BooksTyped'
    BY <1>1, <1>2, <1>3, PopIsTyped DEF BooksTyped
  <1>7. ASSUME NEW j PROVE Booked(db, j) \subseteq Booked(db, j)' /\ (j = i => Booked(db, j)' # {})
    <2>1. db.fills \in Seq(Fill) /\ WithPnl(e, p) \in Fill /\ WithPnl(e, p).id = i
      BY <1>1, <1>2, <1>3, FillRows DEF BooksTyped, Tables, FirstBooking
    <2>2. /\ Range(db'.fills) = Range(db.fills) \cup {WithPnl(e, p)}
          /\ {x \in Range(db.fills) : x.id = j} \subseteq {x \in Range(db'.fills) : x.id = j}
      BY <1>4, <2>1, RowsStay
    <2>3. QED
      BY <2>1, <2>2 DEF Booked
  <1>8. IsTrade(i)
    BY <1>1 DEF FirstBooking, RightTrade, IsTrade
  <1>9. WindowBooked'
    <2> SUFFICES ASSUME ~blocked', NEW j \in window'[1]..window'[2]
                 PROVE  \/ j \in todo'
                        \/ IsTrade(j)' /\ Booked(db, j)' # {}
                        \/ feed'[j].kind = "FEE" /\ FeeIsBooked(j)'
      BY DEF WindowBooked
    <2>1. \/ j \in todo
          \/ IsTrade(j) /\ Booked(db, j) # {}
          \/ feed[j].kind = "FEE" /\ FeeIsBooked(j)
      BY <1>1, <1>2 DEF WindowBooked
    <2>2. FeeIsBooked(j)' <=> FeeIsBooked(j)
      BY <1>3 DEF FeeIsBooked
    <2>3. IsTrade(j)' <=> IsTrade(j)
      BY <1>1 DEF IsTrade
    <2>4. QED
      BY <1>1, <1>7, <1>8, <2>1, <2>2, <2>3
  <1>10. QED
    BY <1>5, <1>6, <1>9 DEF BooksInv

LEMMA FeeKeeps ==
    ASSUME BooksInv, NormalizeFee
    PROVE  BooksInv'
  <1> DEFINE i == First(todo)
  <1>1. BooksTyped /\ Traced /\ LatchIsExact /\ WindowBooked
    BY DEF BooksInv
  <1>2. /\ Traced' /\ LatchIsExact' /\ db' \in Tables /\ IsFiniteSet(db'.fees)
        /\ feed' = feed /\ db'.fills = db.fills /\ db.fees \subseteq db'.fees
        /\ ~blocked' => ~blocked /\ \E g \in db'.fees : g.id = i
    BY <1>1, FeeIsBookedWell
  <1>3. /\ feed[i].kind = "FEE" /\ todo' = todo \ {i} /\ UNCHANGED <<window, halted, now>> /\ blocked' \in BOOLEAN
    BY <1>1 DEF NormalizeFee, Pop, BooksTyped
  <1> HIDE DEF i
  <1>4. BooksTyped'
    BY <1>1, <1>2, <1>3, PopIsTyped DEF BooksTyped
  <1>5. WindowBooked'
    <2> SUFFICES ASSUME ~blocked', NEW j \in window'[1]..window'[2]
                 PROVE  \/ j \in todo'
                        \/ IsTrade(j)' /\ Booked(db, j)' # {}
                        \/ feed'[j].kind = "FEE" /\ FeeIsBooked(j)'
      BY DEF WindowBooked
    <2>1. \/ j \in todo
          \/ IsTrade(j) /\ Booked(db, j) # {}
          \/ feed[j].kind = "FEE" /\ FeeIsBooked(j)
      BY <1>1, <1>2, <1>3 DEF WindowBooked
    <2>2. FeeIsBooked(j) => FeeIsBooked(j)'
      BY <1>2 DEF FeeIsBooked
    <2>3. Booked(db, j)' = Booked(db, j) /\ (IsTrade(j)' <=> IsTrade(j))
      BY <1>2 DEF IsTrade, Booked
    <2>4. j = i => FeeIsBooked(j)'
      BY <1>2 DEF FeeIsBooked
    <2>5. QED
      BY <1>2, <1>3, <2>1, <2>2, <2>3, <2>4
  <1>6. QED
    BY <1>2, <1>4, <1>5 DEF BooksInv

LEMMA BooksNextKeeps == BooksInv /\ [NNext]_bookvars => BooksInv'
  <1> SUFFICES ASSUME BooksInv, [NNext]_bookvars PROVE BooksInv'
    OBVIOUS
  <1>1. CASE StartBuild
    BY <1>1, StartOfBuild
  <1>2. CASE ReplayTrade
    BY <1>2, ReplayKeeps
  <1>3. CASE BookTrade
    BY <1>3, BookKeeps
  <1>4. CASE BlockTrade \/ CrashBuild
    BY <1>4, BlockKeeps
  <1>5. CASE NormalizeFee
    BY <1>5, FeeKeeps
  <1>6. CASE UNCHANGED bookvars
    <2>1. UNCHANGED <<feed, db, window, todo, halted, blocked, now>>
      BY <1>6 DEF bookvars
    <2>2. BooksTyped'
      BY <2>1 DEF BooksInv, BooksTyped
    <2>3. WindowBooked'
      BY <2>1 DEF BooksInv, WindowBooked, IsTrade, Booked, FeeIsBooked
    <2>4. QED
      BY <2>1, <2>2, <2>3, TablesStay DEF BooksInv
  <1>7. QED
    BY <1>1, <1>2, <1>3, <1>4, <1>5, <1>6 DEF NNext

LEMMA BooksAlways == NSpec => []BooksInv
  BY BooksBegin, BooksNextKeeps, PTL DEF NSpec

(* A build whose normalization is complete has booked every trade and fee of  *)
(* its window, whatever windows, crashes and replays came before it           *)
(* (normalize_history, and the rows reconcile() asks for).                   *)
THEOREM WindowIsBooked == NSpec => []CompleteMeansBooked
  <1>1. BooksInv => CompleteMeansBooked
    <2> SUFFICES ASSUME BooksInv, todo = {}, ~blocked, NEW i \in window[1]..window[2]
                 PROVE  CASE feed[i].kind \in {"FILL", "OPEXP"} -> Booked(db, i) # {}
                          [] feed[i].kind = "FEE"               -> \E g \in db.fees : g.id = i
                          [] OTHER                              -> FALSE
      BY DEF CompleteMeansBooked
    <2>1. \/ IsTrade(i) /\ Booked(db, i) # {}
          \/ feed[i].kind = "FEE" /\ FeeIsBooked(i)
      BY DEF BooksInv, WindowBooked
    <2>2. CASE IsTrade(i) /\ Booked(db, i) # {}
      BY <2>2 DEF IsTrade
    <2>3. CASE feed[i].kind = "FEE" /\ FeeIsBooked(i)
      BY <2>3 DEF FeeIsBooked
    <2>4. QED
      BY <2>1, <2>2, <2>3
  <1>2. QED
    BY <1>1, BooksAlways, PTL

(* _latch_if_needed: the sessions latched are exactly those whose losing       *)
(* sells and fees have reached the limit.                                    *)
THEOREM LatchHolds == NSpec => []LatchIsExact
  <1>1. BooksInv => LatchIsExact
    BY DEF BooksInv
  <1>2. QED
    BY <1>1, BooksAlways, PTL

(* A booked trade is found again under the lifecycle it was booked in.        *)
LEMMA BookedIsReplayed ==
    ASSUME BooksTyped, Traced, NEW i, i \in DOMAIN feed, Booked(db, i) # {}
    PROVE  IsTrade(i) /\ Valid(i) /\ Replayed(db, ExecutionOf(i))
  <1>1. PICK k \in DOMAIN db.fills : db.fills[k].id = i
    BY DEF Booked, Range
  <1> DEFINE f == db.fills[k]
  <1>2. /\ RightTrade(i) /\ f.pos # Nobody /\ f.side = SideOf(i) /\ f \in Range(db.fills)
        /\ f = WithPnl(Execution(i, f.pos, f.side), f.pnl)
    BY <1>1 DEF Traced, Range
  <1>3. \A g \in Booked(db, i) : g = f
    BY <1>1 DEF Traced, Booked, Range
  <1>4. f \in Booked(db, i)
    BY <1>1, <1>2 DEF Booked
  <1>5. LifecycleOf(i) = f.pos
    <2> HIDE DEF f
    <2>1. QED
      BY <1>3, <1>4 DEF LifecycleOf
  <1>6. ExecutionOf(i) = Execution(i, f.pos, f.side)
    BY <1>2, <1>5 DEF ExecutionOf, SideOf
  <1>7. ExecutionOf(i).id = i
    BY DEF ExecutionOf, Execution
  <1>8. Replayed(db, ExecutionOf(i))
    BY <1>2, <1>4, <1>6, <1>7 DEF Replayed
  <1>9. IsTrade(i)
    BY <1>2 DEF RightTrade, IsTrade
  <1>10. Valid(i)
    BY <1>2, <1>5 DEF Valid, ValidExpiry, ValidTrade, RightTrade
  <1>11. QED
    BY <1>8, <1>9, <1>10

(* "Overlapping import windows re-present booked activities" (normalize.py:    *)
(* 130): a replay is recognised, and neither books again nor stops the trades  *)
(* after it.                                                                 *)
THEOREM ReplaysAreNoOps == NSpec => ReplayIsNoOp
  <1> DEFINE Step == (todo # {} /\ ~halted /\ todo' = todo \ {First(todo)} /\ Booked(db, First(todo)) # {}
                        /\ now >= feed[First(todo)].at)
                       => db' = db /\ ~halted'
  <1>1. BooksInv /\ [NNext]_bookvars => [Step]_bookvars
    <2> SUFFICES ASSUME BooksInv, NNext, todo # {}, ~halted, Booked(db, First(todo)) # {},
                        now >= feed[First(todo)].at
                 PROVE  db' = db /\ ~halted'
      OBVIOUS
    <2> DEFINE i == First(todo)
    <2>1. IsTrade(i) /\ Valid(i) /\ Replayed(db, ExecutionOf(i))
      BY FirstIsOne, BookedIsReplayed DEF BooksInv
    <2>2. CASE StartBuild
      BY <2>2 DEF StartBuild
    <2>3. CASE ReplayTrade
      BY <2>3 DEF ReplayTrade
    <2>4. CASE BookTrade
      <3>1. Accepts(db, ExecutionOf(i), now) /\ ExecutionOf(i).id = i
        BY <2>4 DEF BookTrade, ExecutionOf, Execution
      <3>2. QED
        BY <3>1 DEF Accepts
    <2>5. CASE BlockTrade
      BY <2>1, <2>5 DEF BlockTrade
    <2>6. CASE NormalizeFee
      BY <2>1, <2>6 DEF NormalizeFee, IsTrade
    <2>7. CASE CrashBuild
      BY <2>7 DEF CrashBuild
    <2>8. QED
      BY <2>2, <2>3, <2>4, <2>5, <2>6, <2>7 DEF NNext
  <1>2. QED
    BY <1>1, BooksAlways, PTL DEF NSpec, ReplayIsNoOp

-----------------------------------------------------------------------------
(* The books balance *)

BalanceInv == BooksInv /\ Coherent(db) /\ Balanced(db)

LEMMA SameRowsBalance ==
    ASSUME NEW b, NEW c, b.fills = c.fills, b.lots = c.lots, Coherent(b), Balanced(b)
    PROVE  Coherent(c) /\ Balanced(c)
  <1>1. Coherent(c)
    BY DEF Coherent
  <1>2. \A d : Held(c, d) = Held(b, d)
    BY DEF Held, Quantity, Inventory, OpenLots, ContractOfLot, FillsOf
  <1>3. QED
    BY <1>1, <1>2 DEF Balanced

LEMMA EmptyBalances == Coherent(EmptyLedger) /\ Balanced(EmptyLedger)
  <1> DEFINE b == EmptyLedger
             none == [x \in {} |-> 0]
  <1>1. b.fills = <<>> /\ b.lots = <<>>
    BY EmptyTables
  <1>2. DOMAIN b.fills = {} /\ DOMAIN b.lots = {}
    BY <1>1
  <1>3. SumFunction(none) = 0
    <2>1. none \in [{} -> Int] /\ IsFiniteSet({})
      BY FS_EmptySet
    <2> HIDE DEF none
    <2>2. QED
      BY <2>1, SumIsInteger
  <1>4. Coherent(b)
    <2> HIDE DEF b
    <2>1. QED
      BY <1>2 DEF Coherent
  <1>5. ASSUME NEW c PROVE Held(b, c) = 0
    <2>1. Inventory(b, c) = {}
      BY <1>2 DEF Inventory, OpenLots
    <2>2. [i \in Inventory(b, c) |-> b.lots[i].qty] = none
      BY <2>1
    <2>3. QED
      BY <1>3, <2>2 DEF Held, Quantity
  <1>6. ASSUME NEW c, NEW side PROVE Volume(b.fills, c, side) = 0
    <2>1. RowsOf(b.fills, c, side) = {}
      BY <1>2 DEF RowsOf
    <2>2. [k \in RowsOf(b.fills, c, side) |-> b.fills[k].qty] = none
      BY <2>1
    <2>3. QED
      BY <1>3, <2>2 DEF Volume, QtyOf
  <1>7. BasisIn(b.lots) = 0
    <2>1. [i \in DOMAIN b.lots |-> b.lots[i].basis] = none
      BY <1>2
    <2>2. QED
      BY <1>3, <2>1 DEF BasisIn
  <1>8. Paid(b.fills) = 0
    <2>1. [k \in DOMAIN b.fills |-> Paying(b.fills[k])] = none
      BY <1>2
    <2>2. QED
      BY <1>3, <2>1 DEF Paid
  <1> HIDE DEF b
  <1>9. Balanced(b)
    BY <1>5, <1>6, <1>7, <1>8 DEF Balanced
  <1>10. QED
    BY <1>4, <1>9 DEF b

LEMMA BookingBalances ==
    ASSUME BalanceInv, BookTrade
    PROVE  Coherent(db') /\ Balanced(db')
  <1> DEFINE e == ExecutionOf(First(todo))
             i == First(todo)
  <1>1. FirstBooking(i, e) /\ db' = Book(db, e)
    BY TradeIsFirst DEF BalanceInv, BooksInv
  <1> HIDE DEF e, i
  <1>2. db \in Tables /\ e \in Exec /\ Accepted(db, e) /\ Coherent(db) /\ Balanced(db)
    BY <1>1 DEF FirstBooking, Accepts, Accepted, BalanceInv, BooksInv, BooksTyped
  <1>3. e.side \in {"buy_to_open", "sell_to_close"}
    BY <1>2 DEF Exec, Sides
  <1>4. CASE e.side = "buy_to_open"
    BY <1>1, <1>2, <1>4, LotsAfterBuy, BuyBalances DEF AfterBuy
  <1>5. CASE e.side = "sell_to_close"
    BY <1>1, <1>2, <1>5, LotsAfterSell, SellBalances DEF AfterSell
  <1>6. QED
    BY <1>3, <1>4, <1>5

LEMMA BalanceKept == BalanceInv /\ [NNext]_bookvars => BalanceInv'
  <1> SUFFICES ASSUME BalanceInv, [NNext]_bookvars PROVE BalanceInv'
    OBVIOUS
  <1>1. BooksInv'
    BY BooksNextKeeps DEF BalanceInv
  <1>2. Coherent(db') /\ Balanced(db')
    <2>1. CASE BookTrade
      BY <2>1, BookingBalances
    <2>2. CASE NormalizeFee
      <3>1. db.fills = db'.fills /\ db.lots = db'.lots
        BY <2>2, FeeIsBookedWell DEF BalanceInv, BooksInv
      <3>2. QED
        BY <3>1, SameRowsBalance DEF BalanceInv
    <2>3. CASE StartBuild \/ ReplayTrade \/ BlockTrade \/ CrashBuild \/ UNCHANGED bookvars
      <3>1. db' = db
        BY <2>3 DEF StartBuild, ReplayTrade, BlockTrade, CrashBuild, bookvars
      <3>2. QED
        BY <3>1 DEF BalanceInv
    <2>4. QED
      BY <2>1, <2>2, <2>3 DEF NNext
  <1>3. QED
    BY <1>1, <1>2 DEF BalanceInv, Coherent, Balanced

LEMMA BalanceBegins == NInit => BalanceInv
  BY BooksBegin, EmptyBalances DEF BalanceInv, NInit

LEMMA BalanceAlways == NSpec => []BalanceInv
  BY BalanceBegins, BalanceKept, PTL DEF NSpec

(* Fill, inventory and profit "commit together" (README:252): what was paid is *)
(* in the open lots or in the profit that was taken, and the lots hold what    *)
(* was bought and not sold.                                                  *)
THEOREM BooksAlwaysBalance == NSpec => []BooksBalance
  <1>1. BalanceInv => BooksBalance
    <2> SUFFICES ASSUME BalanceInv PROVE BooksBalance
      OBVIOUS
    <2>1. db \in Tables /\ Balanced(db)
      BY DEF BalanceInv, BooksInv, BooksTyped
    <2>2. \A i \in DOMAIN db.lots : db.lots[i].qty >= 0 /\ db.lots[i].basis >= 0
      <3>1. \A i \in DOMAIN db.lots : db.lots[i].qty \in Nat /\ db.lots[i].basis \in Nat
        BY <2>1, TableParts, LotsOfSeq
      <3>2. QED
        BY <3>1
    <2>3. DOMAIN db.fills = 1..Len(db.fills)
      BY <2>1, TableParts, RowsOfSeq
    <2>4. ASSUME NEW c
          PROVE  Held(db, c) = Traded(Bought(c, Len(db.fills))) - Traded(Sold(c, Len(db.fills)))
      <3>1. /\ Bought(c, Len(db.fills)) = RowsOf(db.fills, c, "buy_to_open")
            /\ Sold(c, Len(db.fills)) = RowsOf(db.fills, c, "sell_to_close")
        BY <2>3 DEF Bought, Sold, RowsOf
      <3>2. \A S : Traded(S) = QtyOf(db.fills, S)
        BY DEF Traded, QtyOf
      <3>3. QED
        BY <2>1, <3>1, <3>2 DEF Balanced, Volume
    <2>5. BasisIn(db.lots) = Paid(db.fills)
      BY <2>1 DEF Balanced
    <2>6. QED
      BY <2>2, <2>4, <2>5 DEF BooksBalance, BasisIn, Paid, Paying
  <1>2. QED
    BY <1>1, BalanceAlways, PTL

-----------------------------------------------------------------------------
(* Profit is first in, first out *)

FifoInv == BalanceInv /\ Fifo(db)

LEMMA SameRowsFifo ==
    ASSUME NEW b, NEW c, b.fills = c.fills, b.lots = c.lots, Fifo(b)
    PROVE  Fifo(c)
  <1>1. OpenLots(c) = OpenLots(b) /\ \A i : ContractOfLot(c, i) = ContractOfLot(b, i)
    BY DEF OpenLots, ContractOfLot, FillsOf
  <1>2. OneOpen(c)
    BY <1>1 DEF Fifo, OneOpen
  <1>3. \A d : LotsIn(c, d) = LotsIn(b, d)
    BY <1>1 DEF LotsIn
  <1>4. \A d : UnitsOf(c, d)
    BY <1>3 DEF Fifo, UnitsOf, SoldOf
  <1>5. RowsRight(c)
    BY DEF Fifo, RowsRight
  <1>6. QED
    BY <1>2, <1>4, <1>5 DEF Fifo

LEMMA EmptyIsFifo == Fifo(EmptyLedger)
  <1> DEFINE b == EmptyLedger
  <1>1. DOMAIN b.fills = {} /\ DOMAIN b.lots = {}
    BY EmptyTables
  <1> HIDE DEF b
  <1>2. OneOpen(b)
    BY <1>1 DEF OneOpen, OpenLots
  <1>3. \A d : UnitsOf(b, d)
    <2>1. \A d : LotsIn(b, d) = {}
      BY <1>1 DEF LotsIn
    <2>2. QED
      BY <2>1 DEF UnitsOf, UnitsRight
  <1>4. RowsRight(b)
    BY <1>1 DEF RowsRight
  <1>5. QED
    BY <1>2, <1>3, <1>4 DEF Fifo, b

(* A trade is booked under the one open lifecycle of its contract.            *)
LEMMA BookedWhereOpen ==
    ASSUME BalanceInv, OneOpen(db), NEW i, NEW e, FirstBooking(i, e)
    PROVE  Opens(db, e)
  <1> DEFINE A == Inventory(db, e.contract)
  <1>1. db \in Tables /\ Traced /\ Coherent(db)
    BY DEF BalanceInv, BooksInv, BooksTyped
  <1>2. A \subseteq DOMAIN db.lots /\ A \subseteq OpenLots(db) /\ \A j \in A : ContractOfLot(db, j) = e.contract
    BY DEF Inventory, OpenLots
  <1> SUFFICES ASSUME NEW j \in A PROVE db.lots[j].pos = e.pos
    BY DEF Opens
  <1>3. IsFiniteSet(A) /\ A \subseteq Int /\ A # {}
    <2>1. IsFiniteSet(A) /\ A \subseteq Nat
      BY <1>1, <1>2, LotsAreFinite
    <2>2. QED
      BY <2>1
  <1>4. Min(A) \in A
    <2> HIDE DEF A
    <2>1. QED
      BY <1>3, GreatestExists
  <1>5. OpenLifecycle(db, e.contract) = db.lots[Min(A)].pos
    BY <1>3 DEF OpenLifecycle
  <1> HIDE DEF A
  <1>6. db.lots[j].pos = db.lots[Min(A)].pos
    BY <1>2, <1>4 DEF OneOpen
  <1>7. db.lots[j].pos # Nobody
    <2>1. PICK k \in DOMAIN db.fills : db.fills[k].pos = db.lots[j].pos
      BY <1>1, <1>2 DEF Coherent
    <2>2. db.fills[k].pos # Nobody
      BY <1>1, <2>1 DEF Traced
    <2>3. QED
      BY <2>1, <2>2
  <1>8. e.pos = IF e.side = "buy_to_open" /\ OpenLifecycle(db, e.contract) = Nobody THEN i
                ELSE OpenLifecycle(db, e.contract)
    BY DEF FirstBooking
  <1>9. QED
    BY <1>5, <1>6, <1>7, <1>8

LEMMA TradesHavePrices ==
    ASSUME BooksTyped, NEW i, NEW e, FirstBooking(i, e)
    PROVE  UnitPriced(e)
  <1>1. feed[i].price \in Int /\ feed[i].qty \in Nat /\ feed[i].qty > 0
    BY FeedFacts DEF FirstBooking, BooksTyped
  <1>2. e.premium = feed[i].price * feed[i].qty /\ e.qty = feed[i].qty
    <2>1. e = Execution(i, e.pos, e.side)
      BY DEF FirstBooking
    <2>2. /\ Execution(i, e.pos, e.side).premium = feed[i].price * feed[i].qty
          /\ Execution(i, e.pos, e.side).qty = feed[i].qty
      BY DEF Execution
    <2>3. QED
      BY <2>1, <2>2
  <1>3. e.premium = e.qty * feed[i].price
    BY <1>1, <1>2
  <1>4. QED
    BY <1>1, <1>2, <1>3 DEF UnitPriced

LEMMA BookingIsFifo ==
    ASSUME FifoInv, BookTrade
    PROVE  Fifo(db')
  <1> DEFINE e == ExecutionOf(First(todo))
             i == First(todo)
             c == Book(db, e)
  <1>1. FirstBooking(i, e) /\ db' = c
    BY TradeIsFirst DEF FifoInv, BalanceInv, BooksInv
  <1> HIDE DEF e, i
  <1>2. db \in Tables /\ e \in Exec /\ Accepted(db, e) /\ Coherent(db) /\ Balanced(db) /\ Fifo(db)
    BY <1>1 DEF FirstBooking, Accepts, Accepted, FifoInv, BalanceInv, BooksInv, BooksTyped
  <1>3. e.side \in {"buy_to_open", "sell_to_close"}
    BY <1>2 DEF Exec, Sides
  <1>4. Opens(db, e) /\ UnitPriced(e)
    BY <1>1, <1>2, BookedWhereOpen, TradesHavePrices DEF FifoInv, BalanceInv, BooksInv, Fifo
  <1>5. CASE e.side = "buy_to_open"
    <2>1. AfterBuy(db, e, c)
      BY <1>2, <1>5, LotsAfterBuy
    <2> HIDE DEF c
    <2>2. Fifo(c)
      BY <1>2, <1>4, <1>5, <2>1, FifoAfterBuy
    <2>3. QED
      BY <1>1, <2>2
  <1>6. CASE e.side = "sell_to_close"
    <2>1. AfterSell(db, e, c)
      BY <1>2, <1>6, LotsAfterSell
    <2>2. Available(db, e.pos) >= e.qty
      BY <1>2, <1>6 DEF Accepted
    <2> HIDE DEF c
    <2>3. Balanced(c)
      BY <1>2, <1>6, <2>1, SellBalances
    <2>4. Fifo(c)
      BY <1>2, <1>4, <1>6, <2>1, <2>2, <2>3, FifoAfterSell
    <2>5. QED
      BY <1>1, <2>4
  <1>7. QED
    BY <1>3, <1>5, <1>6

LEMMA FifoKept == FifoInv /\ [NNext]_bookvars => FifoInv'
  <1> SUFFICES ASSUME FifoInv, [NNext]_bookvars PROVE FifoInv'
    OBVIOUS
  <1>1. BalanceInv'
    BY BalanceKept DEF FifoInv
  <1>2. Fifo(db')
    <2>1. CASE BookTrade
      BY <2>1, BookingIsFifo
    <2>2. CASE NormalizeFee
      <3>1. db.fills = db'.fills /\ db.lots = db'.lots
        BY <2>2, FeeIsBookedWell DEF FifoInv, BalanceInv, BooksInv
      <3>2. QED
        BY <3>1, SameRowsFifo DEF FifoInv
    <2>3. CASE StartBuild \/ ReplayTrade \/ BlockTrade \/ CrashBuild \/ UNCHANGED bookvars
      <3>1. db' = db
        BY <2>3 DEF StartBuild, ReplayTrade, BlockTrade, CrashBuild, bookvars
      <3>2. QED
        BY <3>1 DEF FifoInv
    <2>4. QED
      BY <2>1, <2>2, <2>3 DEF NNext
  <1>3. Fifo(db)'
    BY <1>2 DEF Fifo, OneOpen, UnitsOf, RowsRight, SoldOf
  <1>4. QED
    BY <1>1, <1>3 DEF FifoInv

LEMMA FifoAlways == NSpec => []FifoInv
  <1>1. NInit => FifoInv
    BY BalanceBegins, EmptyIsFifo DEF FifoInv, NInit
  <1>2. QED
    BY <1>1, FifoKept, PTL DEF NSpec

(* "FIFO accounting" (fills.py:1): over every lifecycle, partial fill, replay  *)
(* and crash, the profit of a sale is what it brought less what the oldest    *)
(* contracts not yet sold had cost.                                          *)
THEOREM ProfitIsFifo == NSpec => []FifoProfit
  <1>1. FifoInv => FifoProfit
    <2> SUFFICES ASSUME FifoInv, NEW k \in DOMAIN db.fills, db.fills[k].side = "sell_to_close"
                 PROVE  LET f == db.fills[k]
                            sold == Traded(Sold(f.contract, k - 1))
                        IN  f.pnl = f.premium - SumFunction([n \in (sold + 1)..(sold + f.qty) |-> CostOfUnit(f.contract, n)])
      BY DEF FifoProfit
    <2> DEFINE f == db.fills[k]
               c == f.contract
               s == SoldBefore(db.fills, k)
    <2>1. db \in Tables /\ RowsRight(db)
      BY DEF FifoInv, BalanceInv, BooksInv, BooksTyped, Fifo
    <2>2. f.pnl = f.premium - CostOf(Costs(db.fills, c), s, f.qty)
      BY <2>1 DEF RowsRight, RowRight
    <2>3. \A S : Traded(S) = QtyOf(db.fills, S)
      BY DEF Traded, QtyOf
    <2>4. Traded(Sold(c, k - 1)) = s
      BY <2>3 DEF Sold, SoldBefore, VolumeTo, RowsTo
    <2>5. \A n : CostOfUnit(c, n) = CostIn(db.fills, c, n)
      <3>1. \A j : Traded(Bought(c, j)) = VolumeTo(db.fills, c, "buy_to_open", j)
        BY <2>3 DEF Bought, VolumeTo, RowsTo
      <3>2. \A n : {j \in DOMAIN db.fills : Traded(Bought(c, j)) >= n} = BoughtBy(db.fills, c, n)
        BY <3>1 DEF BoughtBy
      <3>3. QED
        BY <3>2 DEF CostOfUnit, CostIn
    <2>6. s \in Nat /\ f.qty \in Nat
      <3>1. Numbered(db.fills, Len(db.fills)) /\ Len(db.fills) \in Nat
        BY <2>1, TablesNumbered
      <3>2. k - 1 \in 0..Len(db.fills) /\ f.qty \in Nat
        BY <3>1 DEF Numbered, RowsTyped
      <3>3. VolumeTo(db.fills, c, "sell_to_close", k - 1) \in Nat
        BY <3>1, <3>2, VolumeRises
      <3>4. QED
        BY <3>2, <3>3 DEF SoldBefore
    <2> HIDE DEF s, c
    <2>7. [n \in (s + 1)..(s + f.qty) |-> CostOfUnit(c, n)] = [n \in (s + 1)..(s + f.qty) |-> Costs(db.fills, c)[n]]
      <3>1. \A n \in (s + 1)..(s + f.qty) : n \in Nat
        BY <2>6
      <3>2. QED
        BY <2>5, <3>1 DEF Costs
    <2>8. CostOf(Costs(db.fills, c), s, f.qty) = SumFunction([n \in (s + 1)..(s + f.qty) |-> CostOfUnit(c, n)])
      BY <2>7 DEF CostOf
    <2>9. QED
      BY <2>2, <2>4, <2>8 DEF c
  <1>2. QED
    BY <1>1, FifoAlways, PTL
=============================================================================
