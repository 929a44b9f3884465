-------------------------------- MODULE MCBooks --------------------------------
(* The activities, their normalization, the scanner and the replay, side by   *)
(* side: each behaviour is of one of them, and the others stay as they begin. *)
EXTENDS MCActivityHistory, MCNormalization, MCScanner, MCReplay

VARIABLE part

booksvars == <<part, historyvars, bookvars, nvars, rvars>>

FirstFeed == feed = (CHOOSE f \in Feeds : TRUE) /\ now = (CHOOSE t \in Clocks : TRUE)
FirstScan ==
    /\ config = [universe |-> CHOOSE u \in Universes : TRUE, enabled |-> CHOOSE e \in Enablings : TRUE,
                 open |-> CHOOSE o \in Opens : TRUE]
    /\ market = [s \in Symbols |-> CHOOSE snap \in Snapshots[s] : TRUE]

BooksInit ==
    /\ part \in {"history", "normalization", "scanner", "replay"}
    /\ HInit
    /\ IF part = "normalization" THEN TRUE ELSE FirstFeed
    /\ NInit
    /\ IF part = "scanner" THEN TRUE ELSE FirstScan
    /\ ScanInit
    /\ ReplayInit

BooksNext ==
    /\ UNCHANGED part
    /\ \/ part = "history"       /\ HNext      /\ UNCHANGED <<bookvars, nvars, rvars>>
       \/ part = "normalization" /\ NNext      /\ UNCHANGED <<historyvars, nvars, rvars>>
       \/ part = "scanner"       /\ ScanNext   /\ UNCHANGED <<historyvars, bookvars, rvars>>
       \/ part = "replay"        /\ ReplayNext /\ UNCHANGED <<historyvars, bookvars, nvars>>

BooksSpec == BooksInit /\ [][BooksNext]_booksvars
=============================================================================
