------------------------------ MODULE MCGadget ------------------------------
(* The requests and the faults of the runs of Gadget. *)
EXTENDS Gadget, TLC

Request1(req, dir, value) == [req |-> req, dir |-> dir, value |-> value]

(* One request for each path of handle_setup_request. *)
EveryPath == {Request1("getDescriptor", "in", "string"),
              Request1("getDescriptor", "in", "other"),
              Request1("setConfig", "out", "config"),
              Request1("setConfig", "out", "other"),
              Request1("setConfig", "out", "zero"),
              Request1("getInterface", "in", "other"),
              Request1("setInterface", "out", "other")}
(* The requests that change thread_args. *)
ReconfiguringHost == {Request1("setConfig", "out", "config"), Request1("setConfig", "out", "zero")}
=============================================================================
