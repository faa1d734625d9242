------------------------------- MODULE Gadget -------------------------------
(***************************************************************************)
(* The USB gadget daemon, android-auto/main.cpp.  The main thread answers  *)
(* the setup requests of ep0 (handle_ep0, handle_setup_request, init_ep);  *)
(* each SET_CONFIGURATION creates a detached io_thread that serves the     *)
(* bulk endpoints.  They share the unlocked static thread_args: stop, and  *)
(* the descriptors fd_in and fd_out, here fd["in"] and fd["out"].          *)
(* A step is the code between two accesses to what the threads share.      *)
(***************************************************************************)
EXTENDS Integers

CONSTANTS
    Threads,       \* the io threads that can exist at once
    MaxFd,         \* descriptors are 0..MaxFd; ep0 and the log are not counted
    HostRequests,  \* the setup requests the host sends
    Faults,        \* the system calls that may fail
    SlowIo,        \* TRUE: an io thread may outlive the 200ms ep0 waits for it
    HostWaits      \* TRUE: the host leaves 200ms after a SET_CONFIGURATION 0

Endpoints == {"in", "out"}
Setup == [req   : {"getDescriptor", "setConfig", "getInterface", "setInterface", "other"},
          dir   : Endpoints,
          value : {"string", "config", "zero", "other"}]
FaultKinds == {"gadget", "open", "configure", "thread", "assert", "ep0read", "select", "write"}

ASSUME ConstantsAssumption ==
    /\ MaxFd \in Nat \ {0, 1}
    /\ HostRequests \subseteq Setup
    /\ Faults \subseteq FaultKinds
    /\ SlowIo \in BOOLEAN /\ HostWaits \in BOOLEAN

VARIABLES
    process,  \* "running", "exited" (main returned) or "aborted" (assert)
    ep0,      \* control point of the main thread
    reply,    \* how the last setup request was answered, "none" while it is not
    stop, fd, \* thread_args
    files,    \* what the kernel has behind each descriptor
    io,       \* control point of each io thread
    top       \* max_read_fd, captured by each io thread when it starts
vars == <<process, ep0, reply, stop, fd, files, io, top>>

Configuring == {"sleep", "checkFd", "openIn", "configIn", "openOut", "configOut",
                "start", "create", "ack"}
Serving == {"loop", "select", "serve", "pump"}
Closing == {"closeIn", "closeOut", "clearIn", "clearOut"}

(* One type invariant: every variable keeps to its domain. *)
TypeOK ==
    /\ process \in {"running", "exited", "aborted"}
    /\ ep0 \in {"boot", "hung", "select"} \cup Configuring
    /\ reply \in {"none", "data", "ack", "stall"}
    /\ stop \in BOOLEAN
    /\ fd \in [Endpoints -> -1..MaxFd]
    /\ files \in [0..MaxFd -> {"free", "stdin"} \cup Endpoints]
    /\ io \in [Threads -> {"none", "begin"} \cup Serving \cup Closing]
    /\ top \in [Threads -> 0..MaxFd]

Live == {t \in Threads : io[t] # "none"}
Behind(e) == IF fd[e] >= 0 THEN files[fd[e]] ELSE "nothing"
IsOpen(e) == Behind(e) = e
Lowest(S) == {f \in S : \A g \in S : f <= g}
FreeFds == {f \in 0..MaxFd : files[f] = "free"}

(* thread_args is static: its descriptors start as 0, which is stdin. *)
Init ==
    /\ process = "running"
    /\ ep0 = "boot"
    /\ reply = "ack"
    /\ stop = FALSE
    /\ fd = [e \in Endpoints |-> 0]
    /\ files = [f \in 0..MaxFd |-> IF f = 0 THEN "stdin" ELSE "free"]
    /\ io = [t \in Threads |-> "none"]
    /\ top = [t \in Threads |-> 0]

-----------------------------------------------------------------------------
(* The main thread *)

(* openGadget; main ignores its result, so handle_ep0 runs with a descriptor
   that is -1 (select blocks forever) or unconfigured (its read fails). *)
Boot ==
    /\ process = "running" /\ ep0 = "boot"
    /\ \/ ep0' = "select" /\ UNCHANGED process
       \/ /\ "gadget" \in Faults
          /\ \/ ep0' = "hung" /\ UNCHANGED process
             \/ process' = "exited" /\ UNCHANGED ep0
    /\ UNCHANGED <<reply, stop, fd, files, io, top>>

AtSelect == process = "running" /\ ep0 = "select"

ReadError ==
    /\ AtSelect
    /\ "ep0read" \in Faults
    /\ process' = "exited"
    /\ UNCHANGED <<ep0, reply, stop, fd, files, io, top>>

Stalls(s) ==
    \/ s.req = "getDescriptor" /\ (s.dir # "in" \/ s.value # "string")
    \/ s.req = "setConfig" /\ s.dir # "out"
    \/ s.req = "other"
Answers(s) == s.req = "getInterface" \/ (s.req = "getDescriptor" /\ ~Stalls(s))

(* Data and stalls end in an assert on the result of the ep0 call. *)
AnswerChecked(s) ==
    /\ AtSelect
    /\ Stalls(s) \/ Answers(s)
    /\ \/ reply' = (IF Stalls(s) THEN "stall" ELSE "data") /\ UNCHANGED process
       \/ "assert" \in Faults /\ process' = "aborted" /\ reply' = "none"
    /\ UNCHANGED <<ep0, stop, fd, files, io, top>>

(* The requests that are only acknowledged; CLEAR_HALT ignores its result. *)
AnswerAck(s) ==
    /\ AtSelect
    /\ ~Stalls(s)
    /\ \/ s.req = "setInterface"
       \/ s.req = "setConfig" /\ s.value \notin {"config", "zero"}
    /\ reply' = "ack"
    /\ UNCHANGED <<process, ep0, stop, fd, files, io, top>>

DisableThreads(s) ==
    /\ AtSelect
    /\ ~Stalls(s) /\ s.req = "setConfig" /\ s.value = "zero"
    /\ stop' = TRUE
    /\ reply' = "ack"
    /\ UNCHANGED <<process, ep0, fd, files, io, top>>

(* mutant: no wait at all *)
SetConfigNoWait(s) ==
    /\ AtSelect
    /\ ~Stalls(s) /\ s.req = "setConfig" /\ s.value = "config"
    /\ reply' = "none"
    /\ ep0' = "checkFd"
    /\ stop' = TRUE
    /\ UNCHANGED <<process, fd, files, io, top>>

(* The wait for the old thread is skipped when stop is already set. *)
SetConfig(s) ==
    /\ AtSelect
    /\ ~Stalls(s) /\ s.req = "setConfig" /\ s.value = "config"
    /\ HostWaits /\ stop => Live = {}
    /\ reply' = "none"
    /\ ep0' = (IF stop THEN "checkFd" ELSE "sleep")
    /\ stop' = TRUE
    /\ UNCHANGED <<process, fd, files, io, top>>

Ep0Moves(from, to) == process = "running" /\ ep0 = from /\ ep0' = to

(* mutant: the wait is shorter than what an io thread takes *)
WakeEarly ==
    /\ Ep0Moves("sleep", "checkFd")
    /\ UNCHANGED <<process, reply, stop, fd, files, io, top>>

(* usleep(200000): time enough for an io thread that is not blocked. *)
Wake ==
    /\ Ep0Moves("sleep", "checkFd")
    /\ SlowIo \/ Live = {}
    /\ UNCHANGED <<process, reply, stop, fd, files, io, top>>

(* mutant: 0, the initial value, taken for an open descriptor *)
CheckFdZero ==
    /\ \/ Ep0Moves("checkFd", "openIn") /\ fd["in"] < 0
       \/ Ep0Moves("checkFd", "start") /\ fd["in"] >= 0
    /\ UNCHANGED <<process, reply, stop, fd, files, io, top>>

CheckFd ==
    /\ \/ Ep0Moves("checkFd", "openIn") /\ fd["in"] <= 0
       \/ Ep0Moves("checkFd", "start") /\ fd["in"] > 0
    /\ UNCHANGED <<process, reply, stop, fd, files, io, top>>

(* open: the lowest free descriptor, or -1. *)
Open(e, from, to) ==
    /\ Ep0Moves(from, to)
    /\ \/ \E f \in Lowest(FreeFds) : /\ fd' = [fd EXCEPT ![e] = f]
                                     /\ files' = [files EXCEPT ![f] = e]
       \/ /\ FreeFds = {} \/ "open" \in Faults
          /\ fd' = [fd EXCEPT ![e] = -1]
          /\ UNCHANGED files
    /\ UNCHANGED <<process, reply, stop, io, top>>

(* mutant: the result keeps its initial -1 *)
ConfigureKeepsError(e, from, to) ==
    /\ Ep0Moves(from, IF e = "out" THEN "ack" ELSE to)
    /\ UNCHANGED <<process, reply, stop, fd, files, io, top>>

(* The <= 0 test and the write of the descriptors; a failure leaves the
   descriptors opened so far as they are, and SET_CONFIGURATION is acked. *)
Configure(e, from, to) ==
    /\ \/ Ep0Moves(from, to) /\ fd[e] > 0 /\ IsOpen(e)
       \/ /\ Ep0Moves(from, "ack")
          /\ fd[e] <= 0 \/ ~IsOpen(e) \/ "configure" \in Faults
    /\ UNCHANGED <<process, reply, stop, fd, files, io, top>>

InitEp == \/ Open("in", "openIn", "configIn")
          \/ Configure("in", "configIn", "openOut")
          \/ Open("out", "openOut", "configOut")
          \/ Configure("out", "configOut", "start")

ClearStop ==
    /\ Ep0Moves("start", "create")
    /\ stop' = FALSE
    /\ UNCHANGED <<process, reply, fd, files, io, top>>

(* mutant: a thread is created only when one can be *)
CreateBlocks ==
    /\ Ep0Moves("create", "ack")
    /\ \E t \in Threads \ Live : io' = [io EXCEPT ![t] = "begin"]
    /\ UNCHANGED <<process, reply, stop, fd, files, top>>

(* pthread_create, its result ignored. *)
Create ==
    /\ Ep0Moves("create", "ack")
    /\ \/ \E t \in Threads \ Live : io' = [io EXCEPT ![t] = "begin"]
       \/ (Live = Threads \/ "thread" \in Faults) /\ UNCHANGED io
    /\ UNCHANGED <<process, reply, stop, fd, files, top>>

Ack ==
    /\ Ep0Moves("ack", "select")
    /\ reply' = "ack"
    /\ UNCHANGED <<process, stop, fd, files, io, top>>

Request(s) == AnswerChecked(s) \/ AnswerAck(s) \/ DisableThreads(s) \/ SetConfig(s)
Handler == Wake \/ CheckFd \/ InitEp \/ ClearStop \/ Create \/ Ack
MainThread == Boot \/ ReadError \/ (\E s \in HostRequests : Request(s)) \/ Handler

-----------------------------------------------------------------------------
(* The io threads *)

IoMoves(t, from, to) == process = "running" /\ io[t] = from /\ io' = [io EXCEPT ![t] = to]

(* mutant: the descriptor is captured unchecked *)
BeginUnchecked(t) ==
    /\ IoMoves(t, "begin", "loop")
    /\ top' = [top EXCEPT ![t] = fd["out"]]
    /\ UNCHANGED <<process, ep0, reply, stop, fd, files>>

Begin(t) ==
    /\ IoMoves(t, "begin", "loop")
    /\ top' = [top EXCEPT ![t] = IF fd["out"] > 0 THEN fd["out"] ELSE 0]
    /\ UNCHANGED <<process, ep0, reply, stop, fd, files>>

(* mutant: the loop does not look at stop *)
CheckStopNever(t) ==
    /\ IoMoves(t, "loop", "select")
    /\ UNCHANGED <<process, ep0, reply, stop, fd, files, top>>

CheckStop(t) ==
    /\ \/ stop /\ IoMoves(t, "loop", "closeIn")
       \/ ~stop /\ IoMoves(t, "loop", "select")
    /\ UNCHANGED <<process, ep0, reply, stop, fd, files, top>>

(* select with a 10ms timeout: it sees fd_out only up to the captured
   maximum, and fails on a closed descriptor.  FD_SET(-1) is undefined: any
   outcome. *)
Select(t) ==
    LET undefined == fd["out"] = -1
        watched == 0 <= fd["out"] /\ fd["out"] <= top[t]
        closed == watched /\ Behind("out") = "free"
    IN
    /\ \/ IoMoves(t, "select", "loop") /\ ~closed
       \/ IoMoves(t, "select", "serve") /\ (undefined \/ (watched /\ ~closed))
       \/ IoMoves(t, "select", "pump") /\ undefined
       \/ IoMoves(t, "select", "closeIn") /\ ("select" \in Faults \/ undefined \/ closed)
    /\ UNCHANGED <<process, ep0, reply, stop, fd, files, top>>

(* "serve" reads a frame and handles it, "pump" is maybeSendOutgoingCiphertext;
   each may send packets on fd_in, and sendPacket asserts that they went out. *)
Send(t, from, to) ==
    /\ \/ IoMoves(t, from, to) /\ UNCHANGED process
       \/ /\ process = "running" /\ io[t] = from
          /\ ~IsOpen("in") \/ "write" \in Faults
          /\ process' = "aborted"
          /\ UNCHANGED io
    /\ UNCHANGED <<ep0, reply, stop, fd, files, top>>

CloseFd(t, e, from, to) ==
    /\ IoMoves(t, from, to)
    /\ files' = [f \in 0..MaxFd |-> IF f = fd[e] THEN "free" ELSE files[f]]
    /\ UNCHANGED <<process, ep0, reply, stop, fd, top>>

ClearFd(t, e, from, to) ==
    /\ IoMoves(t, from, to)
    /\ fd' = [fd EXCEPT ![e] = -1]
    /\ top' = [top EXCEPT ![t] = IF to = "none" THEN 0 ELSE @]
    /\ UNCHANGED <<process, ep0, reply, stop, files>>

(* mutant: each descriptor is cleared before it is closed *)
LeaveSwapped(t) == \/ ClearFd(t, "in", "closeIn", "closeOut")
                   \/ ClearFd(t, "out", "closeOut", "clearIn")
                   \/ CloseFd(t, "in", "clearIn", "clearOut")
                   \/ CloseFd(t, "out", "clearOut", "none")

Leave(t) == \/ CloseFd(t, "in", "closeIn", "closeOut")
            \/ CloseFd(t, "out", "closeOut", "clearIn")
            \/ ClearFd(t, "in", "clearIn", "clearOut")
            \/ ClearFd(t, "out", "clearOut", "none")

IoThread(t) == \/ Begin(t) \/ CheckStop(t) \/ Select(t)
               \/ Send(t, "serve", "pump") \/ Send(t, "pump", "loop")
               \/ Leave(t)

Next == MainThread \/ \E t \in Threads : IoThread(t)

(* The scheduler runs both kinds of thread: the handlers of ep0 never block
   but in usleep, and an io thread waits for at most 10ms at a time.  Nothing
   is assumed of the host. *)
Fairness == WF_vars(Boot) /\ WF_vars(Handler) /\ \A t \in Threads : WF_vars(IoThread(t))
Spec == Init /\ [][Next]_vars /\ Fairness

-----------------------------------------------------------------------------
(* What must hold *)

(* "Wait for termination", main.cpp:298: when SET_CONFIGURATION goes on to
   look at the descriptors, no earlier io thread is left. *)
WaitedForTermination == ep0 = "checkFd" => Live = {}

(* At most one io thread exists: they share one pair of descriptors and one
   protocol connection, with no lock. *)
ExclusiveIo == \A t, u \in Live : t = u

(* A thread in its loop has the IN endpoint open, so that the packets it
   sends are written there and not to a closed or another file. *)
InEndpointOpen == \A t \in Threads : io[t] \in Serving => IsOpen("in")

(* ... and the OUT endpoint it reads, which is also the one it selects on. *)
OutEndpointOpen == \A t \in Threads : io[t] \in Serving => IsOpen("out") /\ top[t] = fd["out"]

(* No endpoint file is lost: each open one is named by its thread_args field,
   so that some io thread will close it. *)
DescriptorsAccounted == \A f \in 0..MaxFd : files[f] \in Endpoints => fd[files[f]] = f

(* The descriptors never change under a thread between two steps of its
   loop, although it reads them anew each time. *)
DescriptorsStable ==
    [][\A t \in Threads : (io[t] \in Serving /\ io'[t] \in Serving) => fd' = fd]_vars

(* Every setup request is answered, whatever becomes of the io threads. *)
SetupAnswered == [](ep0 \in Configuring => <>(reply # "none" \/ process # "running"))

(* An io thread that is told to stop does: the flag is never cleared while
   a thread has yet to see it. *)
StopTakesEffect == stop ~> (Live = {} \/ process # "running")

(* A host that sets the configuration gets a thread that serves it. *)
ConfiguredServes == (ep0 = "checkFd") ~> (Live # {} \/ process # "running")

Pair == INSTANCE EndpointPair
            WITH opened <- {files[f] : f \in 0..MaxFd} \cap Endpoints, owners <- Live
(* The daemon opens, serves and closes its endpoints as EndpointPair says. *)
EndpointPairSpec == Pair!Spec
=============================================================================
