--------------------------- MODULE ActivityHistory ---------------------------
(***************************************************************************)
(* executor/history.py, and the part of build_risk_state that imports the   *)
(* account activities and hands them to normalize.py.                       *)
(*                                                                          *)
(* The broker lists an activity from the instant it creates it.  A run asks *)
(* for the activities created strictly between two bounds, a page at a      *)
(* time, and stores each page before it asks for the next; the empty page   *)
(* exhausts it.  Exhausted runs whose windows overlap cover the history up  *)
(* to some instant, and the next run starts a little before that instant.   *)
(* Only the records of the run just exhausted are normalized.               *)
(*                                                                          *)
(* Activities are numbered in the order of creation; time is counted in     *)
(* ticks, and the account is created at 0.                                  *)
(***************************************************************************)
EXTENDS Integers, Sequences, FiniteSets, SequencesExt

CONSTANTS
    KindOf,        \* sequence: what each activity is to normalize.py
    PageSize,      \* records of a page (100)
    MaxPages,      \* pages of a run (1000)
    Overlap,       \* reconcile.py:279 (5 minutes)
    MaxTime,       \* bound: ticks
    MaxRuns,       \* bound: import runs
    Staging        \* whether the operator uses import-activities

Kinds == {"fill",          \* booked, or already booked
          "badfill",       \* refused, and halts the fills after it
          "fee",           \* booked
          "ignored",       \* a cash movement
          "unsupported"}   \* blocked: assignment, exercise, unknown types

ASSUME HistoryConstants ==
    /\ KindOf \in Seq(Kinds)
    /\ {PageSize, MaxPages, Overlap, MaxTime, MaxRuns} \subseteq Nat \ {0}
    /\ Staging \in BOOLEAN

Activities == DOMAIN KindOf
Anchor     == 0
Nowhere    == -1                  \* covered_through's None
Bounds     == {b \in (0..MaxTime) \X (1..MaxTime) : b[1] < b[2]}

VARIABLES
    clock,
    created,   \* sequence: when each activity so far was created
    runs,      \* sequence of history_runs with their pages
    ledger,    \* activities in the ledger
    builder,   \* the process in build_risk_state
    verdict    \* its last answer: is normalization complete, coverage through

historyvars == <<clock, created, runs, ledger, builder, verdict>>

NewRun(after, until) ==
    [after |-> after, until |-> until, status |-> "started", pages |-> 0, got |-> {}]
AtRest   == [pc |-> "idle", todo |-> <<>>, blocked |-> FALSE, halted |-> FALSE]
NoAnswer == [complete |-> FALSE, through |-> Nowhere]

HInit ==
    /\ clock = 1 /\ created = <<>> /\ runs = <<>> /\ ledger = {}
    /\ builder = AtRest /\ verdict = NoAnswer

Later(a, b) == IF a > b THEN a ELSE b

-----------------------------------------------------------------------------
(* covered_through: the windows of the exhausted runs in order; the first   *)
(* that reaches across the anchor starts the chain, and each that overlaps  *)
(* the chain by a tick extends it.                                          *)

Windows == {<<runs[i].after, runs[i].until>> :
               i \in {j \in DOMAIN runs : runs[j].status = "exhausted"}}

(* Mutant: windows that only touch count as contiguous.                     *)
ExtendTouching(through, w) ==
    IF through = Nowhere
    THEN IF w[1] <= Anchor /\ w[2] > Anchor THEN w[2] ELSE through
    ELSE IF w[1] <= through THEN Later(through, w[2]) ELSE through

Extend(through, w) ==
    IF through = Nowhere
    THEN IF w[1] <= Anchor /\ w[2] > Anchor THEN w[2] ELSE through
    ELSE IF w[1] + 1 <= through THEN Later(through, w[2]) ELSE through

(* windows.sort(): the last window of some is the one to add to the chain of  *)
(* the others.                                                              *)
LastWindow(W) ==
    CHOOSE w \in W : \A v \in W : v[1] < w[1] \/ (v[1] = w[1] /\ v[2] <= w[2])

CoveredThrough ==
    MapThenFoldSet(LAMBDA w, through : Extend(through, w), Nowhere, LAMBDA w : w, LastWindow, Windows)

-----------------------------------------------------------------------------
(* import_activities *)

StartImport ==
    LET through == CoveredThrough
        after   == IF through = Nowhere THEN Anchor ELSE Later(Anchor, through - Overlap)
    IN  /\ builder.pc = "idle" /\ Len(runs) < MaxRuns
        /\ after < clock
        /\ runs' = Append(runs, NewRun(after, clock))
        /\ builder' = [AtRest EXCEPT !.pc = "fetch"]
        /\ UNCHANGED <<clock, created, ledger, verdict>>

Current == runs[Len(runs)]

(* What the broker has not yet given to the run.                            *)
Listed(run) ==
    {i \in DOMAIN created : run.after < created[i] /\ created[i] < run.until} \ run.got

(* The next page: the first PageSize of them.                               *)
Page(run) ==
    {i \in Listed(run) : Cardinality({j \in Listed(run) : j < i}) < PageSize}

FetchPage ==
    /\ builder.pc = "fetch" /\ Current.pages < MaxPages
    /\ LET run == Current  page == Page(run) IN
       /\ runs' = [runs EXCEPT ![Len(runs)] =
             [run EXCEPT !.pages = run.pages + 1, !.got = run.got \cup page,
                         !.status = IF page = {} THEN "exhausted" ELSE run.status]]
       /\ builder' = IF page # {} THEN builder ELSE
             [builder EXCEPT !.pc = "normalize", !.todo = SetToSortSeq(run.got, <),
                             !.blocked = \E i \in run.got : KindOf[i] = "unsupported"]
    /\ UNCHANGED <<clock, created, ledger, verdict>>

(* The page limit, or any exception of the import: the run fails, and the   *)
(* build goes on without a normalization (reconcile.py:283).                *)
ImportFails ==
    /\ builder.pc = "fetch"
    /\ runs' = [runs EXCEPT ![Len(runs)].status = "failed"]
    /\ builder' = AtRest
    /\ verdict' = NoAnswer
    /\ UNCHANGED <<clock, created, ledger>>

-----------------------------------------------------------------------------
(* normalize_activities: each record is a transaction of the ledger.  Fees  *)
(* come after the fills in the code, which nothing here depends on.         *)
NormalizeOne ==
    LET i == Head(builder.todo)  kind == KindOf[i] IN
    /\ builder.pc = "normalize" /\ builder.todo # <<>>
    /\ ledger' = IF kind = "fee" \/ (kind = "fill" /\ ~builder.halted) THEN ledger \cup {i} ELSE ledger
    /\ builder' = [builder EXCEPT !.todo = Tail(@),
                                  !.halted = @ \/ kind = "badfill",
                                  !.blocked = @ \/ kind = "badfill" \/ (kind = "fill" /\ builder.halted)]
    /\ UNCHANGED <<clock, created, runs, verdict>>

Answer ==
    /\ builder.pc = "normalize" /\ builder.todo = <<>>
    /\ verdict' = [complete |-> ~builder.blocked, through |-> CoveredThrough]
    /\ builder' = AtRest
    /\ UNCHANGED <<clock, created, runs, ledger>>

(* The process dies: its run stays "started", and what was stored stays.    *)
CrashImport ==
    /\ builder.pc # "idle"
    /\ builder' = AtRest /\ verdict' = NoAnswer
    /\ UNCHANGED <<clock, created, runs, ledger>>

-----------------------------------------------------------------------------
(* The operator's import-activities: any window up to now, staged and never *)
(* normalized.  It appends beside a run under way, so it is put before it.  *)
Stage ==
    /\ Staging /\ builder.pc = "idle" /\ Len(runs) < MaxRuns
    /\ \E b \in Bounds :
          LET run == NewRun(b[1], b[2]) IN
          /\ b[2] <= clock
          /\ runs' = Append(runs, [run EXCEPT !.status = "exhausted", !.got = Listed(run)])
    /\ UNCHANGED <<clock, created, ledger, builder, verdict>>

Tick ==
    /\ clock < MaxTime /\ clock' = clock + 1
    /\ UNCHANGED <<created, runs, ledger, builder, verdict>>

Create ==
    /\ Len(created) < Len(KindOf)
    /\ created' = Append(created, clock)
    /\ UNCHANGED <<clock, runs, ledger, builder, verdict>>

HNext ==
    \/ StartImport \/ FetchPage \/ ImportFails \/ NormalizeOne \/ Answer
    \/ CrashImport \/ Stage \/ Tick \/ Create

HSpec == HInit /\ [][HNext]_historyvars

-----------------------------------------------------------------------------
(* "the latest instant contiguously covered" (history.py:127): every        *)
(* activity created before it, whatever the order and the bounds of the     *)
(* runs, and wherever a page ended, is in the pages of an exhausted run.    *)
CoverageIsComplete ==
    \A i \in DOMAIN created :
        (Anchor < created[i] /\ created[i] < CoveredThrough) =>
            \E j \in DOMAIN runs : runs[j].status = "exhausted" /\ i \in runs[j].got

(* "unknown types block reconciliation until handled explicitly"             *)
(* (README:340-341), and so does a fill that could not be booked: a build     *)
(* that finds the normalization complete leaves nothing unbooked below its    *)
(* coverage.                                                                *)
NothingSkipped ==
    verdict.complete =>
        \A i \in DOMAIN created :
            (Anchor < created[i] /\ created[i] < verdict.through) => i \in ledger \/ KindOf[i] = "ignored"
=============================================================================
