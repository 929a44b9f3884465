------------------------------- MODULE MCStudio -------------------------------
(* One request more than the queue and the slots hold: jobs whose requests  *)
(* gave up fill the queue, and the third is turned away.                    *)
EXTENDS Studio

CONSTANTS r1, r2, r3

MCRequests == {r1, r2, r3}
=============================================================================
