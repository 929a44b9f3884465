----------------------------- MODULE MCSupervision -----------------------------
(* Two processes, started one after the other, both allowed to submit; one of *)
(* them loops.  Their drafts are for two symbols.                             *)
EXTENDS Supervision
CONSTANTS p1, p2

MCDraftSymbol == <<"SPY", "QQQ">>
=============================================================================
