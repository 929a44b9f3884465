--------------------------------- MODULE MCDesk ---------------------------------
(* The server, the processes of a runtime directory, the report of a cycle,   *)
(* the chat model and a request to the broker share no state: each behaviour  *)
(* is of one of them, and the others stay as they begin; a server has ended,  *)
(* so that nothing of it is owed a turn.                                      *)
EXTENDS MCStudio, Supervision, CycleReport, ChatModel, BrokerRequest

CONSTANTS p1, p2

(* Two drafts for one symbol, and one for another.                            *)
MCDraftSymbol == <<"SPY", "SPY", "QQQ">>

VARIABLE part

deskvars == <<part, vars, svars, cvars, hvars, requestvars>>

Ended ==
    /\ main = "gone" /\ stop = TRUE /\ at = "gone" /\ job = None
    /\ due = "never" /\ schedule = "scheduled" /\ jobs = <<>>
    /\ future = [r \in Requests |-> "none"] /\ caller = [r \in Requests |-> "away"]

DeskInit ==
    /\ part \in {"studio", "processes", "report", "chat", "request"}
    /\ IF part = "studio" THEN Init ELSE Ended
    /\ SInit
    /\ IF part = "report" THEN TRUE ELSE report = Blank("DISABLED", FALSE)
    /\ CInit
    /\ IF part = "chat" THEN TRUE ELSE cap = 0
    /\ ChatInit
    /\ RequestInit

DeskNext ==
    /\ UNCHANGED part
    /\ \/ part = "studio"    /\ Next        /\ UNCHANGED <<svars, cvars, hvars, requestvars>>
       \/ part = "processes" /\ SNext       /\ UNCHANGED <<vars, cvars, hvars, requestvars>>
       \/ part = "report"    /\ CNext       /\ UNCHANGED <<vars, svars, hvars, requestvars>>
       \/ part = "chat"      /\ ChatNext    /\ UNCHANGED <<vars, svars, cvars, requestvars>>
       \/ part = "request"   /\ RequestNext /\ UNCHANGED <<vars, svars, cvars, hvars>>

DeskSpec == DeskInit /\ [][DeskNext]_deskvars /\ Fairness
=============================================================================
