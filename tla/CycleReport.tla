------------------------------ MODULE CycleReport ------------------------------
(***************************************************************************)
(* The report controller.run_cycle builds stage by stage, and what          *)
(* agent_desk.py makes of it.  What the cycle really did is kept beside it. *)
(* The owner may write the control file between the reading that goes into  *)
(* the report and the one that decides.                                     *)
(***************************************************************************)
EXTENDS AgentDesk

CONSTANT Positions       \* the most a cycle may find open

ASSUME CycleConstants == Positions \in Nat

Modes    == {"ARMED_PAPER", "EXITS_ONLY", "DISABLED"}
Outcomes == {"not_submitted", "unplaced", "unknown", "submitted"}     \* of submit_claimed

VARIABLES
    stage,      \* where run_cycle is
    report,
    mode,       \* the control mode that decides
    did         \* what the cycle did: rows of inventory left unevaluated, outcomes of its orders,
                \* ideas asked for, an entry refused

cvars == <<stage, report, mode, did>>

Blank(control, submit) ==
    [mode |-> control, submit |-> submit, ok |-> TRUE, halted |-> FALSE, positions |-> 0,
     exitStage |-> FALSE, exits |-> <<>>, skipped |-> FALSE, entryError |-> FALSE,
     scanStage |-> FALSE, entries |-> <<>>]

Nothing == [unevaluated |-> 0, orders |-> <<>>, scanned |-> FALSE, refused |-> FALSE]

CInit ==
    /\ stage = "reconcile"
    /\ report \in {Blank(control, submit) : control \in Modes, submit \in BOOLEAN}
    /\ mode = report.mode
    /\ did = Nothing

(* Broken transport, or a state with reasons: nothing but reconcile ran.     *)
Unreconciled ==
    /\ stage = "reconcile"
    /\ \E halted \in BOOLEAN : report' = [report EXCEPT !.ok = FALSE, !.halted = halted]
    /\ stage' = "written"
    /\ UNCHANGED <<mode, did>>

Reconciled(n, control) ==
    /\ stage = "reconcile"
    /\ report' = [report EXCEPT !.positions = n]
    /\ mode' = control
    /\ did' = [did EXCEPT !.unevaluated = n]
    /\ stage' = "exits"

(* One row: no decision, denied or dry, or an exit that was sent.            *)
ExitRow(outcome) ==
    /\ stage = "exits" /\ did.unevaluated > 0
    /\ mode \in {"ARMED_PAPER", "EXITS_ONLY"}
    /\ outcome \in Outcomes => report.submit
    /\ report' = [report EXCEPT !.exits = Append(@, outcome)]
    /\ did' = [did EXCEPT !.unevaluated = @ - 1, !.orders = Append(@, outcome)]
    /\ UNCHANGED <<stage, mode>>

EndExits ==
    /\ stage = "exits"
    /\ did.unevaluated = 0 \/ mode = "DISABLED"
    /\ report' = [report EXCEPT !.exitStage = TRUE, !.skipped = mode # "ARMED_PAPER"]
    /\ stage' = IF mode # "ARMED_PAPER" THEN "written" ELSE "entries"
    /\ UNCHANGED <<mode, did>>

IdeasFail ==
    /\ stage = "entries"
    /\ report' = [report EXCEPT !.entryError = TRUE]
    /\ stage' = "written"
    /\ UNCHANGED <<mode, did>>

(* At most one entry a cycle: refused by reserve, left to expire by a dry    *)
(* run, refused by claim, or sent.                                          *)
Rows(submit) ==
    {[reserved |-> FALSE, claimed |-> FALSE, dry |-> FALSE, outcome |-> "none"]}
    \cup IF submit
         THEN {[reserved |-> TRUE, claimed |-> FALSE, dry |-> FALSE, outcome |-> "none"]}
              \cup {[reserved |-> TRUE, claimed |-> TRUE, dry |-> FALSE, outcome |-> o] : o \in Outcomes}
         ELSE {[reserved |-> TRUE, claimed |-> FALSE, dry |-> TRUE, outcome |-> "none"]}

EntryRow ==
    /\ stage = "entries"
    /\ \/ /\ report' = [report EXCEPT !.scanStage = TRUE]       \* nothing was proposed
          /\ did' = [did EXCEPT !.scanned = TRUE]
       \/ \E row \in Rows(report.submit) :
             /\ report' = [report EXCEPT !.scanStage = TRUE, !.entries = <<row>>]
             /\ did' = [did EXCEPT !.scanned = TRUE, !.orders = Append(@, row.outcome), !.refused = ~row.reserved]
    /\ stage' = "written"
    /\ UNCHANGED mode

(* The next cycle.                                                          *)
NextCycle ==
    /\ stage = "written"
    /\ stage' = "reconcile"
    /\ \E control \in Modes, submit \in BOOLEAN : report' = Blank(control, submit)
    /\ mode' = report'.mode
    /\ did' = Nothing

CNext ==
    \/ Unreconciled \/ EndExits \/ IdeasFail \/ EntryRow \/ NextCycle
    \/ \E n \in 0..Positions, control \in Modes : Reconciled(n, control)
    \/ \E outcome \in Outcomes \cup {"none"} : ExitRow(outcome)

CSpec == CInit /\ [][CNext]_cvars

-----------------------------------------------------------------------------
(* Properties *)

Sent(outcome) == \E i \in DOMAIN did.orders : did.orders[i] = outcome

(* What the owner reads of a cycle (agent_desk.py:1-6, HANDOVER on unknown   *)
(* outcomes): an order that may be at the broker without an answer makes    *)
(* the whole cycle "uncertain", unless the desk says that it left rows out;  *)
(* a cycle said to be halted or dry sent nothing; exits are "recorded" only if no position was left unevaluated,   *)
(* and the scan only and always if there was one; "risk_pass" is the verdict *)
(* of no refused entry.                                                     *)
DeskIsHonest ==
    stage = "written" =>
        /\ Sent("unknown") => CycleStatus(report) = "uncertain" \/ DetailsTruncated(report)
        /\ CycleStatus(report) \in {"halted", "dry_run"} => ~Sent("submitted")
        /\ ExitState(report) = "recorded" => did.unevaluated = 0
        /\ ScanState(report) = "recorded" <=> did.scanned
        /\ RiskVerdict(report) = "risk_pass" => ~did.refused
=============================================================================
