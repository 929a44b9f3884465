------------------------------- MODULE AgentDesk -------------------------------
(***************************************************************************)
(* agent_desk.py: what the owner is shown of the cycles.  Pure: operators   *)
(* on the bytes of cycles.jsonl and on the report of one cycle.             *)
(*                                                                          *)
(* The file is a sequence of pieces: a record, whole or torn by a crash in  *)
(* the middle of it, and the newline after it.  Nothing keeps a new record  *)
(* from being appended to what a crash left without its newline.            *)
(***************************************************************************)
EXTENDS Naturals, Sequences, SequencesExt

CONSTANTS
    MaxCycles,      \* MAX_CYCLES (20)
    MaxRows         \* MAX_ROWS (12)

ASSUME DeskConstants == MaxCycles \in Nat /\ MaxRows \in Nat \ {0}

Newline   == [kind |-> "newline"]
Torn      == [kind |-> "torn"]
Record(r) == [kind |-> "record", report |-> r]

Newlines(log) == {i \in DOMAIN log : log[i] = Newline}

(* What is on the line that the newline at i ends.                          *)
Line(log, i) == {k \in 1..(i - 1) : \A j \in k..(i - 1) : log[j] # Newline}

(* Mutant: a record without its newline goes unmentioned.                   *)
TrailingSilent(log) == FALSE

Trailing(log) == log # <<>> /\ Last(log) # Newline

WellFormed(log, i) == \E k \in Line(log, i) : Line(log, i) = {k} /\ log[k].kind = "record"

(* The latest lines, by their ends; what cannot be parsed leaves a warning.  *)
Recent(log) == {i \in Newlines(log) : Cardinality({j \in Newlines(log) : j > i}) < MaxCycles}

LoadCycles(log) ==
    LET good == {i \in Recent(log) : WellFormed(log, i)} IN
    [shown     |-> [i \in good |-> log[CHOOSE k \in Line(log, i) : TRUE].report],
     warned    |-> Trailing(log) \/ good # Recent(log),
     truncated |-> Cardinality(Newlines(log)) > MaxCycles]

-----------------------------------------------------------------------------
(* The status of one cycle.  A report has what reconcile, exits, scan and    *)
(* entries left in "stages"; a row of entries or exits has the outcome of    *)
(* its submission, "none" when nothing was to be sent.  The desk reads the   *)
(* first rows of a list and says when it left some out.                      *)

FirstRows(list) == {i \in DOMAIN list : i <= MaxRows}

DetailsTruncated(r) == Len(r.exits) > MaxRows \/ Len(r.entries) > MaxRows

Blocked(r) == ~r.ok \/ r.halted

AnyEntry(r, Test(_)) == \E i \in FirstRows(r.entries) : Test(r.entries[i])

RefusedRow(e) ==
    ~e.reserved \/ (~e.claimed /\ ~e.dry) \/ e.outcome = "unplaced"

(* Mutant: an acknowledged order makes a cycle's outcome known.              *)
EntryStateHopeful(r) ==
    CASE AnyEntry(r, LAMBDA e : e.outcome = "submitted") -> "submission_recorded"
      [] r.entries # <<>>                                -> "recorded"
      [] OTHER                                           -> "skipped"

EntryState(r) ==
    IF AnyEntry(r, LAMBDA e : e.outcome = "unknown") THEN "uncertain"
    ELSE IF AnyEntry(r, LAMBDA e : e.outcome = "submitted") THEN "submission_recorded"
    ELSE IF AnyEntry(r, RefusedRow) THEN "rejected"
    ELSE IF ~r.submit /\ AnyEntry(r, LAMBDA e : e.reserved) THEN "dry_run"
    ELSE IF r.entries # <<>> THEN "recorded"
    ELSE IF r.skipped \/ Blocked(r) THEN "skipped"
    ELSE IF r.entryError THEN "error"
    ELSE "unknown"

(* The scan is recorded when its counts are; a failed provider left none.    *)
ScanState(r) ==
    IF r.entryError THEN "error"
    ELSE IF r.scanStage THEN "recorded"
    ELSE IF Blocked(r) \/ r.skipped \/ r.mode # "ARMED_PAPER" THEN "skipped"
    ELSE "unknown"

(* The verdicts of the reservations.                                        *)
RiskVerdict(r) ==
    IF AnyEntry(r, LAMBDA e : ~e.reserved) THEN "rejected"
    ELSE IF r.entries # <<>> THEN "risk_pass"
    ELSE IF r.skipped \/ Blocked(r) THEN "skipped"
    ELSE "unknown"

(* "Nothing to evaluate" is told apart from "not evaluated".                *)
ExitState(r) ==
    IF r.exits # <<>> THEN "recorded"
    ELSE IF Blocked(r) THEN "skipped"
    ELSE IF r.exitStage /\ r.positions = 0 THEN "recorded"
    ELSE IF r.exitStage /\ r.mode = "DISABLED" THEN "skipped"
    ELSE "unknown"

CycleStatus(r) ==
    IF \E i \in FirstRows(r.exits) : r.exits[i] = "unknown" THEN "uncertain"
    ELSE IF Blocked(r) THEN "halted"
    ELSE IF r.entryError THEN "error"
    ELSE EntryState(r)
=============================================================================
