----------------------------- MODULE BrokerRequest -----------------------------
(***************************************************************************)
(* executor/client.py, _call, under executor/submit.py: the POST of one     *)
(* claimed intent, step by step, with its row in the request journal        *)
(* (TraceStore) and what becomes of the intent.  PaperExecution has the     *)
(* same as Send, Answered and OutcomeUnknown.                               *)
(*                                                                          *)
(* The broker's own answers carry a request id.  Something on the way (a     *)
(* proxy, a gateway) may answer instead, without one, whether the broker    *)
(* got the order or not.                                                    *)
(***************************************************************************)

VARIABLES
    step,       \* where _call is: then "journal", "returned", or "gone" with an exception or a crash
    trace,      \* outcome of its row in api_requests, "absent" before it
    answer,     \* what the client knows of the answer: its status and request id
    content,    \* the body: "ours" echoes the client order id, "foreign" is another object
    placed,     \* the broker has the order
    intent,     \* "claimed", "acknowledged" (mark_submitted) or "unplaced"
    ending      \* the local variable outcome of _call

requestvars == <<step, trace, answer, content, placed, intent, ending>>

Codes     == {"2xx", "refusal", "other"}      \* refusal: 400, 403 or 422
NoReply   == [code |-> "none", id |-> FALSE]
Success   == "success"
Ends      == {"transport_error", "http_error", "response_read_error", "invalid_response",
              "response_close_error", Success}

RequestInit ==
    /\ step = "begin" /\ trace = "absent" /\ answer = NoReply /\ content = "none"
    /\ placed = FALSE /\ intent = "claimed" /\ ending = "transport_error"

Goes(from, to) == step = from /\ step' = to

(* The row is committed before the network is touched; a failure to do so    *)
(* keeps the request from being made.                                       *)
BeginTrace ==
    /\ \/ Goes("begin", "open") /\ trace' = "started"
       \/ Goes("begin", "gone") /\ UNCHANGED trace
    /\ UNCHANGED <<answer, content, placed, intent, ending>>

(* The broker takes or refuses the order; its answer may be lost.            *)
BrokerAnswers ==
    /\ \E code \in Codes :
          /\ placed' \in {taken \in BOOLEAN : (code = "2xx" => taken) /\ (code = "refusal" => ~taken)}
          /\ answer' = [code |-> code, id |-> TRUE]
          /\ content' = IF code = "2xx" THEN "ours" ELSE "none"
    /\ Goes("open", "head")
    /\ UNCHANGED <<trace, intent, ending>>

GatewayAnswers ==
    /\ placed' \in BOOLEAN
    /\ \E code \in Codes : answer' = [code |-> code, id |-> FALSE]
    /\ content' \in {"none", "foreign"}
    /\ Goes("open", "head")
    /\ UNCHANGED <<trace, intent, ending>>

NoAnswer ==
    /\ placed' \in BOOLEAN
    /\ Goes("open", "finish")
    /\ UNCHANGED <<trace, answer, content, intent, ending>>

(* Status and request id are kept before the body is read.                  *)
ReadHead ==
    /\ IF answer.code = "2xx"
       THEN Goes("head", "body") /\ ending' = "response_read_error"
       ELSE Goes("head", "close") /\ ending' = "http_error"
    /\ UNCHANGED <<trace, answer, content, placed, intent>>

(* The read fails or is cut; the body is too long or no object; or it is one.*)
ReadBody ==
    /\ Goes("body", "close")
    /\ \/ ending' \in {"response_read_error", "invalid_response"}
       \/ content # "none" /\ ending' = Success
    /\ UNCHANGED <<trace, answer, content, placed, intent>>

Close ==
    /\ Goes("close", "finish")
    /\ ending' \in {ending, "response_close_error"}
    /\ UNCHANGED <<trace, answer, content, placed, intent>>

(* An ending that cannot be persisted is not returned as one.               *)
Finish ==
    /\ \/ Goes("finish", "journal") /\ trace' = ending
       \/ Goes("finish", "gone") /\ UNCHANGED trace
    /\ UNCHANGED <<answer, content, placed, intent, ending>>

(* Mutant: the request id is not asked for.                                 *)
RefusedByAnyone == ending # Success /\ answer.code = "refusal"

(* resolve_unplaced: a refusal with the broker's request id.                *)
RefusedByBroker == ending # Success /\ answer.code = "refusal" /\ answer.id

(* mark_submitted: an object that echoes the client order id.               *)
Acknowledged == ending = Success /\ content = "ours"

(* submit_claimed: anything else leaves the intent claimed.                 *)
Journal ==
    /\ Goes("journal", "returned")
    /\ intent' = IF RefusedByBroker THEN "unplaced"
                 ELSE IF Acknowledged THEN "acknowledged"
                 ELSE intent
    /\ UNCHANGED <<trace, answer, content, placed, ending>>

(* The process dies: a request that has left may still arrive.               *)
Dies ==
    /\ step \notin {"returned", "gone"}
    /\ step' = "gone"
    /\ placed' \in (IF step = "open" THEN BOOLEAN ELSE {placed})
    /\ UNCHANGED <<trace, answer, content, intent, ending>>

RequestNext ==
    \/ BeginTrace \/ BrokerAnswers \/ GatewayAnswers \/ NoAnswer
    \/ ReadHead \/ ReadBody \/ Close \/ Finish \/ Journal \/ Dies

RequestSpec == RequestInit /\ [][RequestNext]_requestvars

-----------------------------------------------------------------------------
(* Properties *)

(* "UNKNOWN, not failed: the order may exist" (client.py:8): whatever fails   *)
(* on the way, an intent gives its slot back only if the broker has no order *)
(* of it, and is acknowledged only if it has.  An order at the broker has a  *)
(* row in the request journal, and "an unfinished record means the process   *)
(* crashed or could not persist its outcome" (client.py:107).              *)
FreedOnProof ==
    /\ intent = "unplaced" => ~placed
    /\ intent = "acknowledged" => placed /\ trace = Success
    /\ placed => trace # "absent"
    /\ step = "returned" => trace \in Ends
=============================================================================
