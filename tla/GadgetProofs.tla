---------------------------- MODULE GadgetProofs ----------------------------
(***************************************************************************)
(* Theorems about Gadget, for every set of threads, number of descriptors  *)
(* and host.  Beyond its types they need the two delays to be long enough, *)
(* for the descriptors a write of a configuration that does not fail, and  *)
(* for the OUT endpoint opens that do not.                                 *)
(***************************************************************************)
EXTENDS Gadget, TLAPS

Prompt == ~SlowIo /\ HostWaits
ConfigWritten == "configure" \notin Faults

-----------------------------------------------------------------------------
(* types *)

(* Both an unopened descriptor and 0, which counts as one, are descriptors. *)
LEMMA FdType == MaxFd \in Nat /\ -1 \in -1..MaxFd /\ 0 \in 0..MaxFd /\ (0..MaxFd) \subseteq (-1..MaxFd)
  BY ConstantsAssumption

(* open either fails or takes some free descriptor. *)
LEMMA OpenTakesFree ==
  ASSUME NEW e, NEW from, NEW to, Open(e, from, to)
  PROVE  /\ Ep0Moves(from, to)
         /\ UNCHANGED <<process, reply, stop, io, top>>
         /\ \/ \E f \in 0..MaxFd : /\ files[f] = "free"
                                   /\ fd' = [fd EXCEPT ![e] = f]
                                   /\ files' = [files EXCEPT ![f] = e]
            \/ fd' = [fd EXCEPT ![e] = -1] /\ UNCHANGED files
  BY DEF Open, Lowest, FreeFds

(* Every step keeps the variables in their domains: the control points of
   both kinds of thread, and descriptors within 0..MaxFd or -1. *)
LEMMA TypeStep == TypeOK /\ [Next]_vars => TypeOK'
<1> SUFFICES ASSUME TypeOK, [Next]_vars PROVE TypeOK'
  OBVIOUS
<1> USE FdType DEF TypeOK, Endpoints, Configuring, Serving, Closing
<1>1. CASE Boot
  BY <1>1 DEF Boot
<1>2. CASE ReadError
  BY <1>2 DEF ReadError
<1>3. ASSUME NEW s \in HostRequests, Request(s) PROVE TypeOK'
  BY <1>3 DEF Request, AnswerChecked, AnswerAck, DisableThreads, SetConfig
<1>4. CASE Wake \/ CheckFd \/ ClearStop \/ Ack
  BY <1>4 DEF Wake, CheckFd, ClearStop, Ack, Ep0Moves
<1>5. CASE InitEp
  <2>1. ASSUME NEW e \in Endpoints, NEW from, NEW to \in Configuring, Open(e, from, to)
        PROVE  TypeOK'
    <3>0. PICK f \in -1..MaxFd : fd' = [fd EXCEPT ![e] = f]
      BY <2>1, OpenTakesFree
    <3>1. fd' \in [Endpoints -> -1..MaxFd]
      BY <3>0
    <3>2. files' \in [0..MaxFd -> {"free", "stdin"} \cup Endpoints]
      BY <2>1, OpenTakesFree
    <3>3. UNCHANGED <<process, reply, stop, io, top>> /\ ep0' = to
      BY <2>1, OpenTakesFree DEF Ep0Moves
    <3> QED BY <3>1, <3>2, <3>3
  <2>2. ASSUME NEW e \in Endpoints, NEW from, NEW to \in Configuring, Configure(e, from, to)
        PROVE  TypeOK'
    BY <2>2 DEF Configure, Ep0Moves
  <2> QED BY <1>5, <2>1, <2>2 DEF InitEp
<1>6. CASE Create
  BY <1>6 DEF Create, Ep0Moves
<1>7. ASSUME NEW t \in Threads, IoThread(t) PROVE TypeOK'
  <2>1. CASE Begin(t)
    BY <2>1 DEF Begin, IoMoves
  <2>2. CASE CheckStop(t) \/ Select(t)
    BY <2>2 DEF CheckStop, Select, IoMoves
  <2>3. CASE Send(t, "serve", "pump") \/ Send(t, "pump", "loop")
    BY <2>3 DEF Send, IoMoves
  <2>4. CASE CloseFd(t, "in", "closeIn", "closeOut") \/ CloseFd(t, "out", "closeOut", "clearIn")
    BY <2>4 DEF CloseFd, IoMoves
  <2>5. CASE ClearFd(t, "in", "clearIn", "clearOut") \/ ClearFd(t, "out", "clearOut", "none")
    <3>1. fd' \in [Endpoints -> -1..MaxFd]
      BY <2>5 DEF ClearFd
    <3>2. io' \in [Threads -> {"none", "begin"} \cup Serving \cup Closing]
      BY <2>5 DEF ClearFd, IoMoves
    <3>3. top' \in [Threads -> 0..MaxFd]
      BY <2>5 DEF ClearFd
    <3>4. UNCHANGED <<process, ep0, reply, stop, files>>
      BY <2>5 DEF ClearFd
    <3> QED BY <3>1, <3>2, <3>3, <3>4
  <2> QED BY <1>7, <2>1, <2>2, <2>3, <2>4, <2>5 DEF IoThread, Leave
<1>8. CASE UNCHANGED vars
  BY <1>8 DEF vars
<1> QED BY <1>1, <1>2, <1>3, <1>4, <1>5, <1>6, <1>7, <1>8 DEF Next, MainThread, Handler

(* The types hold at first. *)
LEMMA TypeInit == Init => TypeOK
<1> SUFFICES ASSUME Init PROVE TypeOK
  OBVIOUS
<1>1. fd \in [Endpoints -> -1..MaxFd] /\ top \in [Threads -> 0..MaxFd]
  BY FdType DEF Init
<1>2. files \in [0..MaxFd -> {"free", "stdin"} \cup Endpoints]
  BY DEF Init
<1>3. io \in [Threads -> {"none", "begin"} \cup Serving \cup Closing]
  BY DEF Init
<1> QED BY <1>1, <1>2, <1>3 DEF Init, TypeOK

(* Type correctness of the daemon under any host, any faults and any timing. *)
THEOREM TypeCorrect == Spec => []TypeOK
  BY TypeInit, TypeStep, PTL DEF Spec

-----------------------------------------------------------------------------
(* ep0 looks at the descriptors only when no io thread is left *)
PastWait == {"checkFd", "openIn", "configIn", "openOut", "configOut", "start", "create"}
WaitInv == /\ ep0 \in PastWait => Live = {}
           /\ ExclusiveIo

(* No io thread runs at first. *)
LEMMA WaitInit == Init => WaitInv
  BY DEF Init, WaitInv, PastWait, ExclusiveIo, Live

(* Only Create adds a thread, at a control point that implies there is none;
   those control points are entered from the wait, or from a host that waited. *)
LEMMA WaitStep ==
  ASSUME Prompt, TypeOK, WaitInv, [Next]_vars PROVE WaitInv'
<1> USE DEF WaitInv, PastWait, ExclusiveIo, Live, TypeOK
<1>1. CASE Boot
  BY <1>1 DEF Boot
<1>2. CASE ReadError
  BY <1>2 DEF ReadError
<1>3. ASSUME NEW s \in HostRequests, Request(s) PROVE WaitInv'
  BY <1>3 DEF Request, AnswerChecked, AnswerAck, DisableThreads, SetConfig, AtSelect, Prompt
<1>4. CASE Wake \/ CheckFd \/ ClearStop \/ Ack
  BY <1>4 DEF Wake, CheckFd, ClearStop, Ack, Ep0Moves, Prompt
<1>5. CASE InitEp
  BY <1>5 DEF InitEp, Open, Configure, Ep0Moves
<1>6. CASE Create
  BY <1>6 DEF Create, Ep0Moves
<1>7. ASSUME NEW t \in Threads, IoThread(t) PROVE WaitInv'
  <2>1. t \in Live /\ Live' \subseteq Live /\ UNCHANGED ep0
    BY <1>7 DEF IoThread, Begin, CheckStop, Select, Send, Leave, CloseFd, ClearFd, IoMoves
  <2> QED BY <2>1
<1>8. CASE UNCHANGED vars
  BY <1>8 DEF vars
<1> QED BY <1>1, <1>2, <1>3, <1>4, <1>5, <1>6, <1>7, <1>8 DEF Next, MainThread, Handler

(* "Wait for termination", and no two io threads on one pair of endpoints. *)
THEOREM Exclusive ==
  ASSUME Prompt PROVE Spec => [](WaitedForTermination /\ ExclusiveIo)
<1>1. Init => TypeOK /\ WaitInv
  BY TypeInit, WaitInit
<1>2. TypeOK /\ WaitInv /\ [Next]_vars => (TypeOK /\ WaitInv)'
  BY TypeStep, WaitStep
<1>3. WaitInv => WaitedForTermination /\ ExclusiveIo
  BY DEF WaitInv, WaitedForTermination, PastWait
<1> QED BY <1>1, <1>2, <1>3, PTL DEF Spec

(* The descriptors are stable under a serving thread: ep0 opens endpoints
   only when no thread is left, and only the thread itself clears them. *)
THEOREM Stable ==
  ASSUME Prompt PROVE Spec => DescriptorsStable
<1>1. Init => TypeOK /\ WaitInv
  BY TypeInit, WaitInit
<1>2. TypeOK /\ WaitInv /\ [Next]_vars => (TypeOK /\ WaitInv)'
  BY TypeStep, WaitStep
<1>3. ASSUME TypeOK, WaitInv, [Next]_vars
      PROVE  [\A t \in Threads : (io[t] \in Serving /\ io'[t] \in Serving) => fd' = fd]_vars
  <2> SUFFICES ASSUME NEW t \in Threads, io[t] \in Serving, io'[t] \in Serving, fd' # fd
               PROVE  FALSE
    BY DEF vars
  <2>1. t \in Live
    BY DEF Live, Serving
  <2>2. InitEp => FALSE
    BY <1>3, <2>1 DEF InitEp, Open, Configure, Ep0Moves, WaitInv, PastWait
  <2>3. ASSUME NEW u \in Threads, Leave(u) PROVE FALSE
    <3>1. u \in Live /\ io[u] \notin Serving
      BY <1>3, <2>3 DEF Leave, CloseFd, ClearFd, IoMoves, Live, Serving
    <3> QED BY <1>3, <2>1, <3>1 DEF WaitInv, ExclusiveIo
  <2> QED
    BY <1>3, <2>2, <2>3
    DEF Next, vars, MainThread, Boot, ReadError, Request, AnswerChecked, AnswerAck, DisableThreads,
        SetConfig, Handler, Wake, CheckFd, ClearStop, Create, Ack, IoThread, Begin, CheckStop,
        Select, Send
<1> QED BY <1>1, <1>2, <1>3, PTL DEF Spec, DescriptorsStable

-----------------------------------------------------------------------------
(* who has which descriptors, at every control point *)
InClosed == {"closeOut", "clearIn", "clearOut"}
OutClosed == {"clearIn", "clearOut"}
NoFile(e) == \A f \in 0..MaxFd : files[f] # e

FilesInv ==
    /\ files[0] = "stdin"
    /\ DescriptorsAccounted
    /\ fd["in"] > 0 => IsOpen("in") \/ \E t \in Threads : io[t] \in InClosed
    /\ fd["out"] > 0 => IsOpen("out") \/ \E t \in Threads : io[t] \in OutClosed
    /\ \A t \in Threads : io[t] \in InClosed => NoFile("in")
    /\ \A t \in Threads : io[t] \in OutClosed => NoFile("out")
PhaseInv ==
    /\ ep0 \in {"openIn", "configIn", "openOut"} => fd["out"] <= 0
    /\ ep0 = "openIn" => fd["in"] <= 0
    /\ ep0 \in {"openOut", "configOut", "start", "create"} => fd["in"] > 0
    /\ fd["in"] <= 0 /\ Live = {} => fd["out"] <= 0
    /\ fd["in"] > 0 /\ ep0 \notin {"configIn", "openOut"} => fd["out"] # 0
    /\ \A t \in Threads : io[t] \in {"begin", "closeIn", "closeOut", "clearIn"} \cup Serving => fd["in"] > 0
    /\ \A t \in Threads : io[t] = "clearOut" => fd["in"] = -1
DescriptorInv == TypeOK /\ WaitInv /\ FilesInv /\ PhaseInv

(* No file is open at first, but ep0. *)
LEMMA DescriptorInit == Init => DescriptorInv
<1> SUFFICES ASSUME Init PROVE FilesInv /\ PhaseInv
  BY TypeInit, WaitInit DEF DescriptorInv
<1>1. files[0] = "stdin" /\ \A f \in 0..MaxFd : files[f] \notin Endpoints
  BY FdType DEF Init, Endpoints
<1>2. fd["in"] = 0 /\ fd["out"] = 0 /\ ep0 = "boot" /\ \A t \in Threads : io[t] = "none"
  BY DEF Init, Endpoints
<1>3. FilesInv
  BY <1>1, <1>2 DEF FilesInv, DescriptorsAccounted, InClosed, OutClosed
<1>4. PhaseInv
  BY <1>2 DEF PhaseInv, Serving
<1> QED BY <1>3, <1>4

(* With nobody in the last steps of leaving, the files are those of fd. *)
LEMMA Idle ==
  ASSUME DescriptorInv, Live = {}
  PROVE  /\ fd["in"] > 0 => IsOpen("in")
         /\ fd["out"] > 0 => IsOpen("out")
  BY DEF DescriptorInv, FilesInv, Live, InClosed, OutClosed

(* An open by ep0, with no io thread left and nothing open at that endpoint. *)
LEMMA OpenStep ==
  ASSUME DescriptorInv, NEW e \in Endpoints, NEW from \in PastWait, NEW to, Open(e, from, to),
         fd[e] <= 0
  PROVE  /\ FilesInv'
         /\ Live' = {}
         /\ fd'[e] # 0
         /\ \A d \in Endpoints \ {e} : fd'[d] = fd[d]
<1> USE DEF DescriptorInv, TypeOK, Endpoints
<1>1. ep0 = from /\ ep0' = to /\ io' = io /\ Live = {} /\ Live' = {}
  BY OpenTakesFree DEF Ep0Moves, WaitInv, Live
<1>2. \A t \in Threads : io'[t] = "none"
  BY <1>1 DEF Live
<1>3. NoFile(e)
  BY FdType DEF FilesInv, DescriptorsAccounted, NoFile
<1>4. \A d \in Endpoints : fd[d] > 0 => fd[d] \in 0..MaxFd /\ files[fd[d]] = d
  BY <1>1, Idle DEF IsOpen, Behind
<1>5. CASE fd' = [fd EXCEPT ![e] = -1] /\ UNCHANGED files
  <2>1. DescriptorsAccounted'
    BY <1>3, <1>5 DEF FilesInv, DescriptorsAccounted, NoFile
  <2>2. \A d \in Endpoints : fd'[d] > 0 => IsOpen(d)'
    BY <1>4, <1>5 DEF IsOpen, Behind
  <2> QED BY <1>1, <1>2, <1>5, <2>1, <2>2 DEF FilesInv, InClosed, OutClosed
<1>6. ASSUME NEW f \in 0..MaxFd, files[f] = "free", fd' = [fd EXCEPT ![e] = f],
             files' = [files EXCEPT ![f] = e]
      PROVE  FilesInv' /\ fd'[e] # 0 /\ \A d \in Endpoints \ {e} : fd'[d] = fd[d]
  <2>1. f # 0 /\ files'[0] = "stdin"
    BY <1>6, FdType DEF FilesInv
  <2>2. DescriptorsAccounted'
    BY <1>3, <1>6 DEF FilesInv, DescriptorsAccounted, NoFile
  <2>3. \A d \in Endpoints : fd'[d] > 0 => IsOpen(d)'
    BY <1>4, <1>6 DEF IsOpen, Behind
  <2> QED BY <1>1, <1>2, <1>6, <2>1, <2>2, <2>3 DEF FilesInv, InClosed, OutClosed
<1> QED BY <1>1, <1>5, <1>6, OpenTakesFree

(* A thread closes an endpoint: its descriptor is that endpoint's, or -1. *)
LEMMA CloseStep ==
  ASSUME DescriptorInv, NEW t \in Threads, NEW e \in Endpoints, NEW from, NEW to,
         CloseFd(t, e, from, to),
         <<e, from, to>> \in {<<"in", "closeIn", "closeOut">>, <<"out", "closeOut", "clearIn">>}
  PROVE  /\ FilesInv' /\ PhaseInv'
         /\ NoFile(e)' /\ \A d \in Endpoints \ {e} : \A f \in 0..MaxFd : files'[f] = d <=> files[f] = d
<1> USE DEF DescriptorInv, TypeOK, Endpoints
<1>1. /\ io[t] = from /\ io' = [io EXCEPT ![t] = to] /\ UNCHANGED <<ep0, fd>>
      /\ files' = [f \in 0..MaxFd |-> IF f = fd[e] THEN "free" ELSE files[f]]
  BY DEF CloseFd, IoMoves
<1>2. \A u \in Threads : u # t => io[u] = "none" /\ io'[u] = "none"
  BY <1>1 DEF WaitInv, ExclusiveIo, Live
<1>3. t \in Live /\ t \in Live' /\ Live = {t} /\ ep0 \notin PastWait
  BY <1>1, <1>2 DEF Live, WaitInv
<1>4. fd["in"] > 0 /\ fd["out"] # 0
  BY <1>1, <1>3 DEF PhaseInv, PastWait
<1>5. fd[e] \in 1..MaxFd => files[fd[e]] = e
  <2>1. CASE e = "in"
    <3>1. \A u \in Threads : io[u] \notin InClosed
      BY <1>1, <1>2, <2>1 DEF InClosed
    <3> QED BY <2>1, <3>1 DEF FilesInv, IsOpen, Behind
  <2>2. CASE e = "out"
    <3>1. \A u \in Threads : io[u] \notin OutClosed
      BY <1>1, <1>2, <2>2 DEF OutClosed
    <3> QED BY <2>2, <3>1 DEF FilesInv, IsOpen, Behind
  <2> QED BY <2>1, <2>2
<1>6. NoFile(e)' /\ \A d \in Endpoints \ {e} : \A f \in 0..MaxFd : files'[f] = d <=> files[f] = d
  BY <1>1, <1>4, <1>5 DEF FilesInv, DescriptorsAccounted, NoFile
<1>7. files'[0] = "stdin" /\ DescriptorsAccounted'
  <2>1. fd[e] # 0 /\ files[0] = "stdin" /\ 0 \in 0..MaxFd
    BY <1>4, FdType DEF FilesInv
  <2>2. files'[0] = "stdin"
    BY <1>1, <2>1
  <2>3. ASSUME NEW f \in 0..MaxFd, files'[f] \in Endpoints PROVE fd'[files'[f]] = f
    <3>1. files'[f] = files[f]
      BY <1>1, <2>3
    <3> QED BY <1>1, <2>3, <3>1 DEF FilesInv, DescriptorsAccounted
  <2> QED BY <2>2, <2>3 DEF DescriptorsAccounted
<1>8. /\ fd'["in"] > 0 => IsOpen("in")' \/ \E u \in Threads : io'[u] \in InClosed
      /\ fd'["out"] > 0 => IsOpen("out")' \/ \E u \in Threads : io'[u] \in OutClosed
  <2>1. CASE e = "in"
    <3>1. io'[t] \in InClosed
      BY <1>1, <2>1 DEF InClosed
    <3>2. fd["out"] > 0 => files[fd["out"]] = "out"
      BY <1>1, <1>2, <2>1 DEF FilesInv, OutClosed, IsOpen, Behind
    <3>3. fd["out"] > 0 => files'[fd["out"]] = "out"
      BY <3>2, <1>6, <2>1
    <3>4. IsOpen("out")' \/ ~(fd'["out"] > 0)
      BY <1>1, <3>3 DEF IsOpen, Behind
    <3> QED BY <3>1, <3>4
  <2>2. CASE e = "out"
    BY <1>1, <2>2 DEF InClosed, OutClosed
  <2> QED BY <2>1, <2>2
<1>9. ASSUME NEW u \in Threads
      PROVE  (io'[u] \in InClosed => NoFile("in")') /\ (io'[u] \in OutClosed => NoFile("out")')
  BY <1>1, <1>2, <1>6 DEF FilesInv, NoFile, InClosed, OutClosed
<1>10. PhaseInv'
  BY <1>1, <1>2, <1>3, <1>4 DEF PhaseInv, PastWait, Serving
<1>11. FilesInv'
  BY <1>7, <1>8, <1>9 DEF FilesInv
<1> QED BY <1>6, <1>10, <1>11

(* A thread that has closed its descriptors sets both to -1 and is gone. *)
LEMMA ClearStep ==
  ASSUME DescriptorInv, NEW t \in Threads, NEW e \in Endpoints, NEW from, NEW to,
         ClearFd(t, e, from, to),
         <<e, from, to>> \in {<<"in", "clearIn", "clearOut">>, <<"out", "clearOut", "none">>}
  PROVE  FilesInv' /\ PhaseInv' /\ NoFile("in") /\ NoFile("out") /\ UNCHANGED files
<1> USE DEF DescriptorInv, TypeOK, Endpoints
<1>1. /\ io[t] = from /\ io' = [io EXCEPT ![t] = to] /\ UNCHANGED <<ep0, files>>
      /\ fd' = [fd EXCEPT ![e] = -1]
  BY DEF ClearFd, IoMoves
<1>2. \A u \in Threads : u # t => io[u] = "none" /\ io'[u] = "none"
  BY <1>1 DEF WaitInv, ExclusiveIo, Live
<1>3. t \in Live /\ ep0 \notin PastWait
  BY <1>1 DEF Live, WaitInv
<1>4. NoFile("in") /\ NoFile("out")
  BY <1>1 DEF FilesInv, InClosed, OutClosed
<1>5. DescriptorsAccounted' /\ NoFile("in")' /\ NoFile("out")'
  BY <1>1, <1>4 DEF NoFile, DescriptorsAccounted
<1>6. CASE e = "in"
  <2>1. FilesInv'
    BY <1>1, <1>2, <1>5, <1>6 DEF FilesInv, InClosed, OutClosed
  <2>2. PhaseInv'
    BY <1>1, <1>2, <1>3, <1>6 DEF PhaseInv, PastWait, Serving, Live
  <2> QED BY <1>1, <1>4, <2>1, <2>2
<1>7. CASE e = "out"
  <2>1. fd["in"] = -1
    BY <1>1, <1>7 DEF PhaseInv
  <2>2. FilesInv'
    BY <1>1, <1>2, <1>5, <1>7, <2>1 DEF FilesInv, InClosed, OutClosed
  <2>3. PhaseInv'
    BY <1>1, <1>2, <1>3, <1>7, <2>1 DEF PhaseInv, PastWait, Serving, Live
  <2> QED BY <1>1, <1>4, <2>2, <2>3
<1> QED BY <1>6, <1>7

(* A step that leaves fd and files alone keeps who has them, if it moves each
   thread within the control points for which the invariant says the same. *)
LEMMA DescriptorStep ==
  ASSUME Prompt, ConfigWritten, DescriptorInv, [Next]_vars PROVE DescriptorInv'
<1> TypeOK' /\ WaitInv'
  BY TypeStep, WaitStep DEF DescriptorInv
<1> SUFFICES FilesInv' /\ PhaseInv'
  BY DEF DescriptorInv
<1>0. ASSUME UNCHANGED <<fd, files, io>> PROVE FilesInv'
  BY <1>0 DEF DescriptorInv, FilesInv, DescriptorsAccounted, IsOpen, Behind, NoFile
<1>1. CASE Boot \/ ReadError \/ Wake \/ ClearStop \/ Ack
  <2>1. UNCHANGED <<fd, files, io>>
    BY <1>1 DEF Boot, ReadError, Wake, ClearStop, Ack
  <2>2. PhaseInv'
    BY <1>1, <2>1
    DEF DescriptorInv, PhaseInv, Live, Boot, ReadError, Wake, ClearStop, Ack, Ep0Moves, TypeOK
  <2> QED BY <1>0, <2>1, <2>2
<1>2. ASSUME NEW s \in HostRequests, Request(s) PROVE FilesInv' /\ PhaseInv'
  <2>1. UNCHANGED <<fd, files, io>>
    BY <1>2 DEF Request, AnswerChecked, AnswerAck, DisableThreads, SetConfig
  <2>2. AtSelect /\ ep0' \in {"select", "checkFd", "sleep"}
    BY <1>2 DEF Request, AnswerChecked, AnswerAck, DisableThreads, SetConfig, AtSelect
  <2> QED BY <1>0, <2>1, <2>2 DEF DescriptorInv, PhaseInv, Live, AtSelect
<1>3. CASE CheckFd
  <2>1. UNCHANGED <<fd, files, io>> /\ Live = {}
    BY <1>3 DEF CheckFd, Ep0Moves, DescriptorInv, WaitInv, PastWait
  <2>2. PhaseInv'
    BY <1>3, <2>1 DEF DescriptorInv, PhaseInv, Live, CheckFd, Ep0Moves, TypeOK, Endpoints
  <2> QED BY <1>0, <2>1, <2>2
<1>4. CASE Open("in", "openIn", "configIn")
  <2>1. ep0 = "openIn" /\ ep0' = "configIn" /\ io' = io
    BY <1>4 DEF Open, Ep0Moves
  <2>2. fd["in"] <= 0 /\ fd["out"] <= 0
    BY <2>1 DEF DescriptorInv, PhaseInv
  <2>3. FilesInv' /\ Live' = {} /\ fd'["out"] = fd["out"]
    BY <1>4, <2>2, OpenStep DEF PastWait, Endpoints
  <2>4. \A t \in Threads : io'[t] = "none"
    BY <2>3 DEF Live
  <2> QED BY <2>1, <2>2, <2>3, <2>4 DEF PhaseInv, Serving
<1>5. CASE Open("out", "openOut", "configOut")
  <2>1. ep0 = "openOut" /\ ep0' = "configOut" /\ io' = io
    BY <1>5 DEF Open, Ep0Moves
  <2>2. fd["in"] > 0 /\ fd["out"] <= 0
    BY <2>1 DEF DescriptorInv, PhaseInv
  <2>3. FilesInv' /\ Live' = {} /\ fd'["in"] = fd["in"] /\ fd'["out"] # 0
    BY <1>5, <2>2, OpenStep DEF PastWait, Endpoints
  <2>4. \A t \in Threads : io'[t] = "none"
    BY <2>3 DEF Live
  <2>5. fd["in"] \in Int
    BY FdType DEF DescriptorInv, TypeOK, Endpoints
  <2> QED BY <2>1, <2>2, <2>3, <2>4, <2>5 DEF PhaseInv, Serving
<1>6. ASSUME NEW e \in Endpoints, NEW from \in PastWait, NEW to,
             <<e, from, to>> \in {<<"in", "configIn", "openOut">>, <<"out", "configOut", "start">>},
             Configure(e, from, to)
      PROVE  FilesInv' /\ PhaseInv'
  <2>1. UNCHANGED <<fd, files, io>> /\ ep0 = from /\ ep0' \in {to, "ack"}
    BY <1>6 DEF Configure, Ep0Moves
  <2>2. Live = {}
    BY <2>1 DEF DescriptorInv, WaitInv
  <2>3. fd["in"] > 0 => IsOpen("in")
    BY <2>2, Idle
  <2>4. ep0' = "ack" /\ ep0 = "configIn" => fd["in"] <= 0
    BY <1>6, <2>1, <2>3 DEF Configure, Ep0Moves, ConfigWritten, DescriptorInv, TypeOK, Endpoints
  <2>5. ep0' = "openOut" => fd["in"] > 0
    BY <1>6, <2>1 DEF Configure, Ep0Moves
  <2>6. \A d \in Endpoints : fd[d] \in Int
    BY FdType DEF DescriptorInv, TypeOK
  <2>7. PhaseInv'
    BY <1>6, <2>1, <2>2, <2>4, <2>5, <2>6 DEF DescriptorInv, PhaseInv, Live, Endpoints
  <2> QED BY <1>0, <2>1, <2>7
<1>7. CASE Create
  <2>1. UNCHANGED <<fd, files>> /\ ep0 = "create" /\ ep0' = "ack"
    BY <1>7 DEF Create, Ep0Moves
  <2>2. \A t \in Threads : io[t] = "none" /\ io'[t] \in {"none", "begin"}
    BY <1>7, <2>1 DEF Create, DescriptorInv, TypeOK, WaitInv, PastWait, Live
  <2>3. FilesInv'
    BY <2>1, <2>2
    DEF DescriptorInv, FilesInv, DescriptorsAccounted, IsOpen, Behind, NoFile, InClosed, OutClosed
  <2>4. fd["in"] > 0 /\ fd["out"] # 0 /\ fd["in"] \in Int
    BY <2>1, FdType DEF DescriptorInv, PhaseInv, TypeOK, Endpoints
  <2> QED BY <2>1, <2>2, <2>3, <2>4 DEF PhaseInv, Serving
<1>8. ASSUME NEW t \in Threads, IoThread(t), ~Leave(t) PROVE FilesInv' /\ PhaseInv'
  <2>1. /\ UNCHANGED <<ep0, fd, files>>
        /\ io[t] \in {"begin"} \cup Serving
        /\ \/ io' = io
           \/ \E c \in {"closeIn"} \cup Serving : io' = [io EXCEPT ![t] = c]
    BY <1>8 DEF IoThread, Begin, CheckStop, Select, Send, IoMoves, Serving
  <2>2. \A u \in Threads : io'[u] = io[u] \/ (u = t /\ io'[u] \in {"closeIn"} \cup Serving)
    BY <2>1 DEF DescriptorInv, TypeOK
  <2>3. \A u \in Threads : /\ io'[u] \in InClosed <=> io[u] \in InClosed
                           /\ io'[u] \in OutClosed <=> io[u] \in OutClosed
    BY <2>1, <2>2 DEF InClosed, OutClosed, Serving
  <2>4. FilesInv'
    BY <2>1, <2>3 DEF DescriptorInv, FilesInv, DescriptorsAccounted, IsOpen, Behind, NoFile
  <2>5. Live' # {} /\ Live # {}
    BY <2>1, <2>2 DEF Live, Serving
  <2>6. PhaseInv'
    BY <2>1, <2>2, <2>5 DEF DescriptorInv, PhaseInv, Serving
  <2> QED BY <2>4, <2>6
<1>9. ASSUME NEW t \in Threads, Leave(t) PROVE FilesInv' /\ PhaseInv'
  BY <1>9, CloseStep, ClearStep DEF Leave, Endpoints
<1>10. CASE UNCHANGED vars
  BY <1>0, <1>10 DEF vars, DescriptorInv, PhaseInv, Live
<1>11. CASE InitEp
  BY <1>4, <1>5, <1>6, <1>11 DEF InitEp, Endpoints, PastWait
<1> QED
  BY <1>1, <1>2, <1>3, <1>7, <1>8, <1>9, <1>10, <1>11 DEF Next, MainThread, Handler

(* Who has which file, and what the descriptors are at each step of ep0. *)
THEOREM DescriptorsInvariant ==
  ASSUME Prompt, ConfigWritten PROVE Spec => []DescriptorInv
  BY DescriptorInit, DescriptorStep, PTL DEF Spec

(* No endpoint file is ever lost. *)
THEOREM Accounted ==
  ASSUME Prompt, ConfigWritten PROVE Spec => []DescriptorsAccounted
<1>1. DescriptorInv => DescriptorsAccounted
  BY DEF DescriptorInv, FilesInv
<1> QED BY <1>1, DescriptorsInvariant, PTL

(* A serving thread writes its packets to the open IN endpoint. *)
THEOREM InOpen ==
  ASSUME Prompt, ConfigWritten PROVE Spec => []InEndpointOpen
<1>1. DescriptorInv => InEndpointOpen
  <2> SUFFICES ASSUME DescriptorInv, NEW t \in Threads, io[t] \in Serving PROVE IsOpen("in")
    BY DEF InEndpointOpen
  <2>1. \A u \in Threads : io[u] \notin InClosed
    BY DEF DescriptorInv, WaitInv, ExclusiveIo, Live, Serving, InClosed
  <2> QED BY <2>1 DEF DescriptorInv, FilesInv, PhaseInv
<1> QED BY <1>1, DescriptorsInvariant, PTL

-----------------------------------------------------------------------------
(* When open does not fail either, the OUT endpoint is open with the IN one *)
OpenSucceeds == "open" \notin Faults

(* There is one stdin, so that a descriptor is left for either endpoint; the two
   endpoints are had together but while ep0 is between them; and what a thread
   watches is what it captured. *)
OutInv ==
    /\ \A f \in 0..MaxFd : files[f] = "stdin" => f = 0
    /\ fd["in"] > 0 /\ ep0 \notin {"configIn", "openOut"} => fd["out"] > 0
    /\ \A t \in Threads : io[t] \in Serving => top[t] = fd["out"]

(* Nothing is open at first. *)
LEMMA OutInit == Init => OutInv
  BY DEF Init, OutInv, Endpoints, Serving

(* With stdin and at most one endpoint there is a third descriptor. *)
LEMMA FreeForOne ==
  ASSUME DescriptorInv, OutInv, NEW e \in Endpoints, NoFile(e) PROVE FreeFds # {}
<1>1. PICK d \in Endpoints : Endpoints = {d, e}
  BY DEF Endpoints
<1>2. 1 \in 0..MaxFd /\ 2 \in 0..MaxFd
  BY ConstantsAssumption
<1>3. \A f \in 0..MaxFd : files[f] \in {"free", "stdin", d} /\ (files[f] = d => fd[d] = f)
  BY <1>1 DEF DescriptorInv, TypeOK, FilesInv, DescriptorsAccounted, NoFile, Endpoints
<1>4. files[1] = "free" \/ files[2] = "free"
  BY <1>2, <1>3 DEF OutInv
<1> QED BY <1>2, <1>4 DEF FreeFds

(* Nothing is lost by an open while nobody serves, and it succeeds. *)
LEMMA OutOpenStep ==
  ASSUME OpenSucceeds, DescriptorInv, OutInv, NEW e \in Endpoints, NEW from \in PastWait, NEW to,
         Open(e, from, to), fd[e] <= 0
  PROVE  /\ \A f \in 0..MaxFd : files'[f] = "stdin" => f = 0
         /\ fd'[e] > 0
         /\ \A d \in Endpoints \ {e} : fd'[d] = fd[d]
         /\ \A t \in Threads : io'[t] \notin Serving
<1>1. FreeFds # {}
  <2>1. NoFile(e)
    BY FdType DEF DescriptorInv, FilesInv, DescriptorsAccounted, NoFile, IsOpen, Behind, Endpoints,
                  TypeOK
  <2> QED BY <2>1, FreeForOne
<1>2. PICK f \in 0..MaxFd : /\ files[f] = "free"
                            /\ fd' = [fd EXCEPT ![e] = f]
                            /\ files' = [files EXCEPT ![f] = e]
  BY <1>1 DEF Open, Lowest, FreeFds, OpenSucceeds
<1>3. f # 0
  BY <1>2 DEF DescriptorInv, FilesInv
<1>4. ep0 = from /\ io' = io
  BY OpenTakesFree DEF Ep0Moves
<1>5. \A t \in Threads : io'[t] \notin Serving
  BY <1>4 DEF DescriptorInv, WaitInv, Live, Serving
<1> QED BY <1>2, <1>3, <1>5 DEF DescriptorInv, TypeOK, OutInv, Endpoints

(* A thread is created after both opens, and closes what it has only when it leaves. *)
LEMMA OutStep ==
  ASSUME ConfigWritten, OpenSucceeds, DescriptorInv, DescriptorInv', OutInv, [Next]_vars
  PROVE  OutInv'
<1>1. CASE Boot \/ ReadError \/ Wake \/ ClearStop \/ Ack \/ CheckFd
  <2>1. UNCHANGED <<fd, files, io, top>>
    BY <1>1 DEF Boot, ReadError, Wake, ClearStop, Ack, CheckFd
  <2>2. ep0 \notin {"configIn", "openOut"} \/ UNCHANGED ep0
    BY <1>1 DEF Boot, ReadError, Wake, ClearStop, Ack, CheckFd, Ep0Moves
  <2> QED BY <2>1, <2>2 DEF OutInv
<1>2. ASSUME NEW s \in HostRequests, Request(s) PROVE OutInv'
  <2>1. UNCHANGED <<fd, files, io, top>> /\ AtSelect
    BY <1>2 DEF Request, AnswerChecked, AnswerAck, DisableThreads, SetConfig
  <2> QED BY <2>1 DEF OutInv, AtSelect
<1>3. CASE Open("in", "openIn", "configIn")
  <2>1. ep0 = "openIn" /\ ep0' = "configIn"
    BY <1>3 DEF Open, Ep0Moves
  <2>2. fd["in"] <= 0
    BY <2>1 DEF DescriptorInv, PhaseInv
  <2>3. /\ \A f \in 0..MaxFd : files'[f] = "stdin" => f = 0
        /\ \A t \in Threads : io'[t] \notin Serving
    BY <1>3, <2>2, OutOpenStep DEF PastWait, Endpoints
  <2> QED BY <2>1, <2>3 DEF OutInv
<1>4. CASE Open("out", "openOut", "configOut")
  <2>1. ep0 = "openOut"
    BY <1>4 DEF Open, Ep0Moves
  <2>2. fd["out"] <= 0
    BY <2>1 DEF DescriptorInv, PhaseInv
  <2>3. /\ \A f \in 0..MaxFd : files'[f] = "stdin" => f = 0
        /\ \A t \in Threads : io'[t] \notin Serving
        /\ fd'["out"] > 0
    BY <1>4, <2>2, OutOpenStep DEF PastWait, Endpoints
  <2> QED BY <2>3 DEF OutInv
<1>5. ASSUME NEW e \in Endpoints, NEW from \in PastWait, NEW to,
             <<e, from, to>> \in {<<"in", "configIn", "openOut">>, <<"out", "configOut", "start">>},
             Configure(e, from, to)
      PROVE  OutInv'
  <2>1. UNCHANGED <<fd, files, io, top>> /\ ep0 = from /\ ep0' \in {to, "ack"}
    BY <1>5 DEF Configure, Ep0Moves
  <2>2. CASE ep0 = "configOut"
    BY <2>1, <2>2 DEF OutInv
  <2>3. CASE ep0 = "configIn"
    <3>1. fd["in"] > 0 => IsOpen("in")
      BY <2>1, Idle DEF DescriptorInv, WaitInv
    <3>2. ep0' = "ack" => ~(fd["in"] > 0)
      <4>1. e = "in" /\ from = "configIn" /\ to = "openOut"
        BY <1>5, <2>1, <2>3
      <4>2. fd["in"] \in Int
        BY FdType DEF DescriptorInv, TypeOK, Endpoints
      <4> QED BY <1>5, <3>1, <4>1, <4>2 DEF Configure, Ep0Moves, ConfigWritten
    <3> QED BY <1>5, <2>1, <2>3, <3>2 DEF OutInv
  <2> QED BY <1>5, <2>1, <2>2, <2>3
<1>6. CASE Create
  <2>1. UNCHANGED <<fd, files, top>> /\ ep0 = "create"
    BY <1>6 DEF Create, Ep0Moves
  <2>2. \A t \in Threads : io'[t] \notin Serving
    <3>1. \A t \in Threads : io[t] = "none"
      BY <2>1 DEF DescriptorInv, WaitInv, PastWait, Live
    <3> QED BY <1>6, <3>1 DEF Create, DescriptorInv, TypeOK, Serving
  <2> QED BY <2>1, <2>2 DEF OutInv
<1>7. ASSUME NEW t \in Threads, IoThread(t), ~Leave(t) PROVE OutInv'
  <2>1. UNCHANGED <<ep0, fd, files>> /\ io[t] \in {"begin"} \cup Serving
    BY <1>7 DEF IoThread, Begin, CheckStop, Select, Send, IoMoves, Serving
  <2>2. fd["out"] > 0
    <3>1. fd["in"] > 0 /\ t \in Live
      BY <2>1 DEF DescriptorInv, PhaseInv, Live, Serving
    <3>2. ep0 \notin {"configIn", "openOut"}
      BY <3>1 DEF DescriptorInv, WaitInv, PastWait
    <3> QED BY <3>1, <3>2 DEF OutInv
  <2>3. \A u \in Threads : u # t => io'[u] \notin Serving
    BY <2>1, <1>7 DEF DescriptorInv, WaitInv, ExclusiveIo, Live, Serving, TypeOK,
                      IoThread, Begin, CheckStop, Select, Send, IoMoves
  <2>4. io'[t] \in Serving => top'[t] = fd'["out"]
    <3>1. CASE Begin(t)
      BY <2>1, <2>2, <3>1 DEF Begin, DescriptorInv, TypeOK
    <3>2. CASE io[t] \in Serving
      BY <1>7, <2>1, <3>2 DEF OutInv, IoThread, Begin, CheckStop, Select, Send, IoMoves, Serving
    <3> QED
      BY <1>7, <2>1, <3>1, <3>2 DEF IoThread, CheckStop, Select, Send, IoMoves, Serving
  <2> QED BY <2>1, <2>3, <2>4 DEF OutInv
<1>8. ASSUME NEW t \in Threads, Leave(t) PROVE OutInv'
  <2>1. /\ io[t] \in Closing /\ io'[t] \notin Serving /\ t \in Live
        /\ UNCHANGED ep0
        /\ \A u \in Threads : u # t => io'[u] = io[u]
    BY <1>8 DEF Leave, CloseFd, ClearFd, IoMoves, Closing, Serving, Live, DescriptorInv, TypeOK
  <2>2. \A u \in Threads : io'[u] \notin Serving
    BY <2>1 DEF DescriptorInv, WaitInv, ExclusiveIo, Live, Serving
  <2>3. \A f \in 0..MaxFd : files'[f] = "stdin" => f = 0
    BY <1>8 DEF Leave, CloseFd, ClearFd, OutInv
  <2>4. fd'["in"] > 0 /\ ep0' \notin {"configIn", "openOut"} => fd'["out"] > 0
    <3>1. CASE UNCHANGED fd
      BY <2>1, <3>1 DEF OutInv
    <3>2. CASE ClearFd(t, "in", "clearIn", "clearOut")
      <4>1. fd'["in"] = -1
        BY <3>2 DEF ClearFd, DescriptorInv, TypeOK, Endpoints
      <4> QED BY <4>1
    <3>3. CASE ClearFd(t, "out", "clearOut", "none")
      <4>1. io[t] = "clearOut" /\ fd' = [fd EXCEPT !["out"] = -1]
        BY <3>3 DEF ClearFd, IoMoves
      <4>2. fd["in"] = -1
        BY <4>1 DEF DescriptorInv, PhaseInv
      <4>3. fd'["in"] = -1
        BY <4>1, <4>2 DEF DescriptorInv, TypeOK, Endpoints
      <4> QED BY <4>3
    <3> QED BY <1>8, <3>1, <3>2, <3>3 DEF Leave, CloseFd
  <2> QED BY <2>2, <2>3, <2>4 DEF OutInv
<1>9. CASE UNCHANGED vars
  BY <1>9 DEF vars, OutInv
<1>10. CASE InitEp
  BY <1>3, <1>4, <1>5, <1>10 DEF InitEp, Endpoints, PastWait
<1> QED
  BY <1>1, <1>2, <1>6, <1>7, <1>8, <1>9, <1>10 DEF Next, MainThread, Handler

(* A serving thread reads the open OUT endpoint, and selects on it. *)
THEOREM OutOpen ==
  ASSUME Prompt, ConfigWritten, OpenSucceeds PROVE Spec => []OutEndpointOpen
<1>1. Init => DescriptorInv /\ OutInv
  BY DescriptorInit, OutInit
<1>2. DescriptorInv /\ OutInv /\ [Next]_vars => (DescriptorInv /\ OutInv)'
  BY DescriptorStep, OutStep
<1>3. DescriptorInv /\ OutInv => OutEndpointOpen
  <2> SUFFICES ASSUME DescriptorInv, OutInv, NEW t \in Threads, io[t] \in Serving
               PROVE  IsOpen("out") /\ top[t] = fd["out"]
    BY DEF OutEndpointOpen
  <2>1. \A u \in Threads : io[u] \notin OutClosed
    BY DEF DescriptorInv, WaitInv, ExclusiveIo, Live, Serving, OutClosed
  <2>2. fd["in"] > 0 /\ ep0 \notin {"configIn", "openOut"}
    BY DEF DescriptorInv, PhaseInv, WaitInv, PastWait, Live, Serving
  <2> QED BY <2>1, <2>2 DEF OutInv, DescriptorInv, FilesInv
<1> QED BY <1>1, <1>2, <1>3, PTL DEF Spec

-----------------------------------------------------------------------------
(* The daemon implements EndpointPair *)

Opened == {files[f] : f \in 0..MaxFd} \cap Endpoints

(* An endpoint is opened in the abstract sense when it has a file. *)
LEMMA OpenedIff == \A e \in Endpoints : e \in Opened <=> ~NoFile(e)
  BY DEF Opened, NoFile

(* ep0 opens while nobody serves, Create gives the pair to a thread, and the
   last step of leaving releases it with both endpoints closed; every other
   step stutters. *)
LEMMA PairStep ==
  ASSUME DescriptorInv, DescriptorInv', [Next]_vars
  PROVE  [Pair!Next]_<<Opened, Live>>
<1> USE DEF Pair!Next
<1>1. ASSUME NEW e \in Endpoints, NEW from \in PastWait, NEW to, Open(e, from, to)
      PROVE  Live = {} /\ Live' = {} /\ Opened' \in {Opened, Opened \cup {e}}
  <2>1. Live = {} /\ Live' = {}
    BY <1>1 DEF Open, Ep0Moves, DescriptorInv, WaitInv, Live
  <2>2. CASE UNCHANGED files
    BY <2>1, <2>2 DEF Opened
  <2>3. ASSUME NEW f \in 0..MaxFd, files[f] = "free", files' = [files EXCEPT ![f] = e]
        PROVE  Opened' = Opened \cup {e}
    <3>1. \A g \in 0..MaxFd : files'[g] = IF g = f THEN e ELSE files[g]
      BY <2>3 DEF DescriptorInv, TypeOK
    <3> QED BY <2>3, <3>1 DEF Opened, Endpoints
  <2> QED BY <1>1, <2>1, <2>2, <2>3, OpenTakesFree
<1>2. CASE InitEp
  <2>1. ASSUME UNCHANGED <<files, io>> PROVE UNCHANGED <<Opened, Live>>
    BY <2>1 DEF Opened, Live
  <2>2. ASSUME NEW e \in Endpoints, NEW from \in PastWait, NEW to, Open(e, from, to)
        PROVE  Pair!Open(e) \/ UNCHANGED <<Opened, Live>>
    BY <1>1, <2>2 DEF Pair!Open, Opened
  <2> QED BY <1>2, <2>1, <2>2 DEF InitEp, Configure, PastWait, Endpoints
<1>3. CASE Create
  <2>1. Live = {} /\ UNCHANGED Opened
    BY <1>3 DEF Create, Ep0Moves, DescriptorInv, WaitInv, PastWait, Opened
  <2>2. CASE UNCHANGED io
    BY <2>1, <2>2 DEF Live
  <2>3. ASSUME NEW t \in Threads, io' = [io EXCEPT ![t] = "begin"] PROVE Live' = {t}
    BY <2>1, <2>3 DEF Live, DescriptorInv, TypeOK
  <2> QED BY <1>3, <2>1, <2>2, <2>3 DEF Create, Pair!Acquire
<1>4. ASSUME NEW t \in Threads, IoThread(t), ~Leave(t) PROVE UNCHANGED <<Opened, Live>>
  <2>1. /\ UNCHANGED files /\ io[t] # "none"
        /\ io' = io \/ \E c \in {"closeIn"} \cup Serving : io' = [io EXCEPT ![t] = c]
    BY <1>4 DEF IoThread, Begin, CheckStop, Select, Send, IoMoves, Serving
  <2> QED BY <2>1 DEF Opened, Live, DescriptorInv, TypeOK, Serving
<1>5. ASSUME NEW t \in Threads, NEW e \in Endpoints, NEW from, NEW to, CloseFd(t, e, from, to),
             <<e, from, to>> \in {<<"in", "closeIn", "closeOut">>, <<"out", "closeOut", "clearIn">>}
      PROVE  Pair!Close(e)
  <2>1. Opened' = Opened \ {e}
    <3>1. NoFile(e)' /\ \A d \in Endpoints \ {e} : \A f \in 0..MaxFd : files'[f] = d <=> files[f] = d
      BY <1>5, CloseStep
    <3> QED BY <3>1 DEF Opened, NoFile
  <2>2. t \in Live /\ Live' = Live
    BY <1>5 DEF CloseFd, IoMoves, Live, DescriptorInv, TypeOK
  <2> QED BY <2>1, <2>2 DEF Pair!Close, Opened
<1>6. ASSUME NEW t \in Threads, ClearFd(t, "in", "clearIn", "clearOut")
      PROVE  UNCHANGED <<Opened, Live>>
  BY <1>6 DEF ClearFd, IoMoves, Opened, Live, DescriptorInv, TypeOK
<1>7. ASSUME NEW t \in Threads, ClearFd(t, "out", "clearOut", "none") PROVE Pair!Release
  <2>1. NoFile("in") /\ NoFile("out") /\ UNCHANGED files
    BY <1>7, ClearStep DEF Endpoints
  <2>2. Opened = {} /\ UNCHANGED Opened
    BY <2>1, OpenedIff DEF Opened, Endpoints
  <2>3. Live = {t} /\ Live' = {}
    BY <1>7 DEF ClearFd, IoMoves, Live, DescriptorInv, TypeOK, WaitInv, ExclusiveIo
  <2> QED BY <2>2, <2>3 DEF Pair!Release, Opened
<1>8. CASE UNCHANGED <<files, io>>
  BY <1>8 DEF Opened, Live
<1>9. ASSUME NEW t \in Threads, Leave(t) PROVE [Pair!Next]_<<Opened, Live>>
  BY <1>5, <1>6, <1>7, <1>9 DEF Leave, Endpoints
<1> QED
  BY <1>2, <1>3, <1>4, <1>8, <1>9
  DEF Next, MainThread, Handler, Boot, ReadError, Request, AnswerChecked, AnswerAck,
      DisableThreads, SetConfig, Wake, CheckFd, ClearStop, Ack, vars

(* With both waits long enough and the configurations written, the two
   endpoints are opened, owned by one thread at a time, and closed in turn. *)
THEOREM ImplementsEndpointPair ==
  ASSUME Prompt, ConfigWritten PROVE Spec => EndpointPairSpec
<1>1. Init => Pair!Init
  <2> SUFFICES ASSUME Init PROVE Opened = {} /\ Live = {}
    BY DEF Pair!Init, Opened
  <2> QED BY DEF Init, Opened, Live, Endpoints
<1>2. DescriptorInv /\ DescriptorInv' /\ [Next]_vars => [Pair!Next]_(Pair!pairVars)
  BY PairStep DEF Pair!pairVars, Opened
<1> QED BY <1>1, <1>2, DescriptorsInvariant, PTL DEF Spec, EndpointPairSpec, Pair!Spec
=============================================================================
