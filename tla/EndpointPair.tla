---------------------------- MODULE EndpointPair ----------------------------
(***************************************************************************)
(* What android-auto promises about its bulk endpoints.  The two endpoint  *)
(* files are opened while nobody serves them, are then owned by one io     *)
(* thread, and are closed by that owner before it leaves: they are never   *)
(* reopened, nor given to a second thread, while an owner is alive.        *)
(***************************************************************************)
CONSTANTS Threads, Endpoints

VARIABLES opened,   \* the endpoints that have an open file
          owners    \* the io threads alive
pairVars == <<opened, owners>>

Init == opened = {} /\ owners = {}

Open(e) == /\ owners = {}
           /\ opened' = opened \cup {e}
           /\ UNCHANGED owners

Acquire(t) == /\ owners = {}
              /\ owners' = {t}
              /\ UNCHANGED opened

Close(e) == /\ owners # {}
            /\ opened' = opened \ {e}
            /\ UNCHANGED owners

Release == /\ owners # {}
           /\ opened = {}
           /\ owners' = {}
           /\ UNCHANGED opened

Next == \/ \E e \in Endpoints : Open(e) \/ Close(e)
        \/ \E t \in Threads : Acquire(t)
        \/ Release

Spec == Init /\ [][Next]_pairVars
=============================================================================
