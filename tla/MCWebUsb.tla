------------------------------ MODULE MCWebUsb ------------------------------
(* The files of the runs of WebUsb.  lk.bin is longer than one slice,
   recovery.bin shorter than lk.bin.  "config" is overridden under recovery
   only; the other files are below, at and above the length of a chunk. *)
EXTENDS WebUsb, TLC

CONSTANTS Lk, Recovery
FileLengths == (Lk :> 3) @@ (Recovery :> 2)

RootNames == {"recovery", "linux1"}
FileNames == {"config", "start4"}
Lengths == [recovery |-> [config |-> 3, start4 |-> 3],
            linux1   |-> [config |-> 2, start4 |-> NoFile]]
Overrides == [recovery |-> [config |-> 1, start4 |-> NoFile],
              linux1   |-> [config |-> NoFile, start4 |-> NoFile]]
=============================================================================
