------------------------------- MODULE ChatModel -------------------------------
(***************************************************************************)
(* llm_chat.py: a question to an agent becomes up to MaxRounds + 1 calls of  *)
(* the provider, between which the tools it asks for are run.  The worker   *)
(* of the Studio asks one question at a time; midnight may pass at any      *)
(* point of it.  Of a question only what the counter depends on is kept:     *)
(* how many calls were made for it.                                        *)
(***************************************************************************)
EXTENDS Naturals

CONSTANTS
    Caps,          \* what ALPACA_AGENTS_LLM_DAILY_CAP may come to, after its clamp
    MaxRounds,     \* MAX_TOOL_ROUNDS
    Questions      \* bound: questions asked of one process

ASSUME ChatConstants ==
    /\ Caps \subseteq Nat
    /\ MaxRounds \in Nat /\ Questions \in Nat

VARIABLES
    cap,           \* daily_cap
    calls,         \* usage["calls"]
    rolled,        \* usage["day"] is today
    made,          \* calls the process made of the provider today
    worker,        \* "idle" or "asking": a question is being answered
    round,         \* calls made for it
    asked          \* questions so far

hvars == <<cap, calls, rolled, made, worker, round, asked>>

(* LLMChat(): a process begins with a counter at zero, which nothing         *)
(* persists: what a process before it called today is not counted, and every *)
(* bound here is for one process.                                           *)
ChatInit ==
    /\ cap \in Caps
    /\ calls = 0 /\ rolled = FALSE /\ made = 0
    /\ worker = "idle" /\ round = 0 /\ asked = 0

(* _roll_day, as a question and usage_today begin.                          *)
CallsAfterRoll == IF rolled THEN calls ELSE 0

(* Mutant: usage["calls"] is compared with the cap after a question only.    *)
BudgetLeftOver(counted) == counted <= cap

BudgetLeft(counted) == counted < cap

(* Past the cap the rule-based answer is given.                             *)
PastCap ==
    /\ worker = "idle" /\ asked < Questions
    /\ ~BudgetLeft(CallsAfterRoll)
    /\ asked' = asked + 1
    /\ calls' = CallsAfterRoll /\ rolled' = TRUE
    /\ UNCHANGED <<cap, made, worker, round>>

BeginQuestion ==
    /\ worker = "idle" /\ asked < Questions
    /\ BudgetLeft(CallsAfterRoll)
    /\ calls' = CallsAfterRoll /\ rolled' = TRUE
    /\ worker' = "asking" /\ round' = 0 /\ asked' = asked + 1
    /\ UNCHANGED <<cap, made>>

(* A call is counted, then made.                                            *)
Called ==
    /\ calls' = calls + 1 /\ made' = made + 1
    /\ UNCHANGED <<cap, rolled, asked>>

(* The provider asks for tools.  Their results and refusals go back to it,   *)
(* unless this was the last call.                                           *)
CallForTools ==
    /\ worker = "asking" /\ round < MaxRounds
    /\ round' = round + 1
    /\ Called
    /\ UNCHANGED worker

(* The provider answers, fails or says nothing, the tool budget is exhausted *)
(* or a tool raises: the answer, a rule-based one or an exception leaves ask. *)
EndQuestion ==
    /\ worker = "asking"
    /\ worker' = "idle" /\ round' = 0
    /\ Called

(* The counter is not rolled by the question that is under way.             *)
Midnight ==
    /\ rolled' = FALSE /\ made' = 0
    /\ UNCHANGED <<cap, calls, worker, round, asked>>

ChatNext ==
    \/ PastCap \/ BeginQuestion \/ CallForTools \/ EndQuestion \/ Midnight

ChatSpec == ChatInit /\ [][ChatNext]_hvars

-----------------------------------------------------------------------------
(* Properties *)

(* The cap is no strict ceiling (guide-build/02:275), but there is one: a    *)
(* question that is let in makes at most MaxRounds calls beyond the cap, and *)
(* one that midnight overtakes leaves at most MaxRounds + 1 on a day whose   *)
(* counter does not know them.  With a cap of zero there is no call at all.  *)
(* A restart of the program begins anew (llm_chat.py:357).                   *)
CapOverrun ==
    /\ calls <= cap + MaxRounds
    /\ made <= cap + 2 * MaxRounds + 1
    /\ cap = 0 => made = 0
=============================================================================
