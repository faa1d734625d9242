--------------------------- MODULE MCPushBootcode ---------------------------
(* The files of the runs of PushBootcode: lk.bin is longer than one slice,
   recovery.bin shorter than lk.bin. *)
EXTENDS PushBootcode, TLC

CONSTANTS Lk, Recovery
FileLengths == (Lk :> 3) @@ (Recovery :> 2)
=============================================================================
