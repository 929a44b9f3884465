------------------------------ MODULE Supervision ------------------------------
(***************************************************************************)
(* The processes of controller.main: the lock of the runtime directory, the *)
(* loop, the owner's draft (manual.py) and cycles.jsonl, over crashes.      *)
(*                                                                          *)
(* A crash leaves what is on the disk: the lock file, the draft, and the    *)
(* record that was being appended.  The owner removes a lock, but only when *)
(* the process that made it is gone, and may write a new draft at any time. *)
(* A draft may end as an order; the symbol it is for is open until that order *)
(* is dead or its position sold.  Orders for the scanner's ideas are left    *)
(* out: they close more symbols to the drafts.                              *)
(***************************************************************************)
EXTENDS AgentDesk, FiniteSets

CONSTANTS
    Processes,
    Nobody,
    Looping,       \* processes started with --every
    Submitting,    \* processes started with --submit
    Drafts,        \* bound: drafts the owner writes, 1..n
    DraftSymbol,   \* draft -> the underlying it is for
    MaxAge,        \* MAX_AGE of a draft (10 minutes)
    Records,       \* bound: cycles that reach their report
    Tears          \* bound: records that a crash leaves unfinished

ASSUME SupervisionConstants ==
    /\ Nobody \notin Processes \cup Nat
    /\ Looping \subseteq Processes /\ Submitting \subseteq Processes
    /\ {Drafts, MaxAge, Records, Tears} \subseteq Nat
    /\ DOMAIN DraftSymbol = 1..Drafts

VARIABLES
    lock,       \* controller.lock: who made it
    pc,         \* process -> where it is
    carried,    \* process -> the draft its cycle loaded
    open,       \* process -> symbols its cycle found open
    draft,      \* manual-idea.json: Nobody, or its id and age
    fate,       \* draft -> "unwritten", "written", "attempted" by a cycle, or "lost"
    live,       \* draft -> orders and positions it has open
    log,        \* cycles.jsonl
    reported    \* cycles whose record is on the disk

svars == <<lock, pc, carried, open, draft, fate, live, log, reported>>

dvars == <<draft, fate, live>>

SInit ==
    /\ lock = Nobody
    /\ pc = [p \in Processes |-> "gone"]
    /\ carried = [p \in Processes |-> Nobody]
    /\ open = [p \in Processes |-> {}]
    /\ draft = Nobody /\ fate = [d \in 1..Drafts |-> "unwritten"]
    /\ live = [d \in 1..Drafts |-> 0]
    /\ log = <<>> /\ reported = 0

SymbolsOpen == {DraftSymbol[d] : d \in {d \in 1..Drafts : live[d] > 0}}

-----------------------------------------------------------------------------
(* RuntimeLock *)

(* Mutant: the file is created whether it is there or not.                   *)
EnterShared(p) ==
    /\ pc[p] = "gone"
    /\ lock' = p
    /\ pc' = [pc EXCEPT ![p] = "ready"]
    /\ UNCHANGED <<carried, open, dvars, log, reported>>

(* O_CREAT | O_EXCL: otherwise the process ends, "Another controller".       *)
Enter(p) ==
    /\ pc[p] = "gone" /\ lock = Nobody
    /\ lock' = p
    /\ \/ pc' = [pc EXCEPT ![p] = "ready"]
       \/ UNCHANGED pc                 \* the write of the pid failed: __exit__ is not called
    /\ UNCHANGED <<carried, open, dvars, log, reported>>

(* __exit__ removes the file, whoever made it.                              *)
Unlock(p) ==
    /\ pc[p] = "leaving"
    /\ lock' = Nobody
    /\ pc' = [pc EXCEPT ![p] = "gone"]
    /\ UNCHANGED <<carried, open, dvars, log, reported>>

(* By hand, "only if that process is gone".                                 *)
RemoveLock ==
    /\ lock # Nobody /\ pc[lock] = "gone"
    /\ lock' = Nobody
    /\ UNCHANGED <<pc, carried, open, dvars, log, reported>>

-----------------------------------------------------------------------------
(* One cycle *)

(* Stages 1 and 2.  The open symbols are read before the ideas are asked     *)
(* for; a cycle that does not reach them is reported.                       *)
Begin(p) ==
    /\ pc[p] = "ready" /\ reported < Records
    /\ \/ /\ pc' = [pc EXCEPT ![p] = "ideas"]
          /\ open' = [open EXCEPT ![p] = SymbolsOpen]
       \/ /\ pc' = [pc EXCEPT ![p] = "report"]
          /\ UNCHANGED open
    /\ UNCHANGED <<lock, carried, dvars, log, reported>>

Loadable == draft # Nobody /\ draft.age <= MaxAge

(* The provider fails, or the draft joins the proposals.                    *)
Ideas(p) ==
    /\ pc[p] = "ideas"
    /\ \/ /\ pc' = [pc EXCEPT ![p] = "report"]
          /\ UNCHANGED <<carried, fate>>
       \/ /\ pc' = [pc EXCEPT ![p] = "entries"]
          /\ carried' = [carried EXCEPT ![p] = IF Loadable THEN draft.id ELSE Nobody]
          /\ fate' = IF Loadable THEN [fate EXCEPT ![draft.id] = "attempted"] ELSE fate
    /\ UNCHANGED <<lock, open, draft, live, log, reported>>

(* Mutant: the draft joins behind the gate of the open symbols.             *)
MaySubmitAnyway(p) == carried[p] # Nobody /\ p \in Submitting

MaySubmit(p) == carried[p] # Nobody /\ p \in Submitting /\ DraftSymbol[carried[p]] \notin open[p]

(* Refused by the gates, the journal or the broker; or an order.             *)
Entries(p) ==
    /\ pc[p] = "entries"
    /\ \/ UNCHANGED live
       \/ MaySubmit(p) /\ live' = [live EXCEPT ![carried[p]] = @ + 1]
    /\ pc' = [pc EXCEPT ![p] = "report"]
    /\ UNCHANGED <<lock, carried, open, draft, fate, log, reported>>

(* _append: part of the record, or all of it but its newline, is in the file *)
(* before the rest.                                                         *)
Write(p) ==
    /\ pc[p] = "report"
    /\ Len(log) - 2 * reported < Tears + 1
    /\ \E piece \in {Torn, Record(reported + 1)} : log' = Append(log, piece)
    /\ pc' = [pc EXCEPT ![p] = "writing"]
    /\ UNCHANGED <<lock, carried, open, dvars, reported>>

Written(p) ==
    /\ pc[p] = "writing"
    /\ log' = Front(log) \o <<Record(reported + 1), Newline>>
    /\ reported' = reported + 1
    /\ pc' = [pc EXCEPT ![p] = "retire"]
    /\ UNCHANGED <<lock, carried, open, dvars>>

(* consume: the file is renamed, whatever draft is in it by now; it may fail.*)
RetireFile ==
    /\ draft # Nobody /\ draft' = Nobody
    /\ fate' = [fate EXCEPT ![draft.id] = IF @ = "attempted" THEN @ ELSE "lost"]

Retire(p) ==
    /\ pc[p] = "retire"
    /\ IF carried[p] = Nobody
       THEN UNCHANGED <<draft, fate>>
       ELSE RetireFile \/ UNCHANGED <<draft, fate>>
    /\ carried' = [carried EXCEPT ![p] = Nobody]
    /\ open' = [open EXCEPT ![p] = {}]
    /\ pc' = [pc EXCEPT ![p] = "decide"]
    /\ UNCHANGED <<lock, live, log, reported>>

(* The loop sleeps and goes on, unless the market is closed or the reasons   *)
(* want a human; a single cycle ends the process.                           *)
Decide(p) ==
    /\ pc[p] = "decide"
    /\ \/ p \in Looping /\ pc' = [pc EXCEPT ![p] = "ready"]
       \/ pc' = [pc EXCEPT ![p] = "leaving"]
    /\ UNCHANGED <<lock, carried, open, dvars, log, reported>>

AtWork(p) == pc[p] \notin {"gone", "leaving"}

(* A database or the disk fails: the cycle is not reported, its draft stays, *)
(* and the process ends in order.                                           *)
Fail(p) ==
    /\ AtWork(p)
    /\ pc' = [pc EXCEPT ![p] = "leaving"]
    /\ carried' = [carried EXCEPT ![p] = Nobody]
    /\ open' = [open EXCEPT ![p] = {}]
    /\ UNCHANGED <<lock, dvars, log, reported>>

Crash(p) ==
    /\ pc[p] # "gone"
    /\ pc' = [pc EXCEPT ![p] = "gone"]
    /\ carried' = [carried EXCEPT ![p] = Nobody]
    /\ open' = [open EXCEPT ![p] = {}]
    /\ UNCHANGED <<lock, dvars, log, reported>>

-----------------------------------------------------------------------------
(* The owner, the clock and the broker *)

WriteDraft ==
    /\ \E d \in 1..Drafts :
          /\ fate[d] = "unwritten" /\ \A e \in 1..(d - 1) : fate[e] # "unwritten"
          /\ draft' = [id |-> d, age |-> 0]
          /\ fate' = [fate EXCEPT ![d] = "written"]
    /\ UNCHANGED <<lock, pc, carried, open, live, log, reported>>

Age ==
    /\ draft # Nobody /\ draft.age <= MaxAge
    /\ draft' = [draft EXCEPT !.age = @ + 1]
    /\ UNCHANGED <<lock, pc, carried, open, fate, live, log, reported>>

(* The order ended without a fill, or its position was sold.                *)
Closed(d) ==
    /\ live[d] > 0
    /\ live' = [live EXCEPT ![d] = @ - 1]
    /\ UNCHANGED <<lock, pc, carried, open, draft, fate, log, reported>>

SNext ==
    \/ RemoveLock \/ WriteDraft \/ Age
    \/ \E d \in 1..Drafts : Closed(d)
    \/ \E p \in Processes :
          \/ Enter(p) \/ Unlock(p)
          \/ Begin(p) \/ Ideas(p) \/ Entries(p) \/ Write(p) \/ Written(p) \/ Retire(p) \/ Decide(p)
          \/ Fail(p) \/ Crash(p)

SSpec == SInit /\ [][SNext]_svars

-----------------------------------------------------------------------------
(* Properties *)

(* "Exclusive lock on a runtime directory" (controller.py:373): never two   *)
(* processes at work, whatever crashes leave and in whatever order the      *)
(* owner removes stale locks.                                               *)
SoleController ==
    \A p, q \in Processes : pc[p] # "gone" /\ pc[q] # "gone" => p = q

(* A draft that a crash or a failed rename left to a second cycle does not   *)
(* open its symbol twice, nor do two drafts of one symbol (manual.py:10-12, *)
(* controller.py:211-215).                                                  *)
OneDraftOpen ==
    \A d, e \in 1..Drafts :
        live[d] > 0 /\ live[e] > 0 /\ DraftSymbol[d] = DraftSymbol[e] => d = e /\ live[d] = 1

(* The owner is told of every cycle: what was reported is shown, and as many *)
(* are shown as were begun to be written, or there is a warning or a sign    *)
(* that the history is cut (agent_desk.py:283-325).                         *)
DeskShowsGaps ==
    LET desk == LoadCycles(log) IN
    \/ desk.warned \/ desk.truncated
    \/ /\ \A c \in 1..reported : \E i \in DOMAIN desk.shown : desk.shown[i] = c
       /\ Cardinality(DOMAIN desk.shown) = Cardinality({i \in DOMAIN log : log[i] # Newline})

(* "The controller renames it after ONE attempt" (manual.py:10): what is     *)
(* retired was attempted.                                                   *)
RetiredAfterAttempt == \A d \in 1..Drafts : fate[d] # "lost"
=============================================================================
