-------------------------- MODULE MCActivityHistory --------------------------
(* Small instances of ActivityHistory: pages of one record, an overlap of   *)
(* two ticks.                                                               *)
EXTENDS ActivityHistory
MCKinds  == <<"badfill", "fill">>
Unknowns == <<"fill", "unsupported", "fill">>
=============================================================================
