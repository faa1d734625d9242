----------------------------- MODULE FileServer -----------------------------
(***************************************************************************)
(* The file server for the official firmware, webusbboot/pi-usbboot.js:    *)
(* fileserverMain reads a request, checkFileserverRequest answers it from  *)
(* file_overrides or with a fetch below fileserv_root, and the loop starts *)
(* over until a transfer is rejected.  The user may choose another root    *)
(* (updateRoot) between any two callbacks.  The Pi is external: it asks    *)
(* for the size of a file and, if that is not 0, reads it.                 *)
(***************************************************************************)
EXTENDS Integers

CONSTANTS
    Roots, Files,
    Content,    \* the length of each file below each root, NoFile if missing
    Override,   \* the files of file_overrides under each root, with lengths
    MaxChunk    \* what one transferOut takes: 4MB

NoFile == -1
ASSUME ServerAssumption ==
    /\ Content \in [Roots -> [Files -> Nat \cup {NoFile}]]
    /\ Override \in [Roots -> [Files -> Nat \cup {NoFile}]]
    /\ MaxChunk \in Nat \ {0}

VARIABLES
    root,     \* fileserv_root, and with it file_overrides
    chain,    \* the promise chain of fileserverMain
    body,     \* the length of what it answers with
    start,    \* how much of it ep_write has sent
    pi, file, \* the Pi: what it waits for, and about which file
    size, announced, got,  \* what it was told, and how much it got
    used      \* history: the roots there have been since it asked for the size
serverVars == <<chain, body, start>>
piVars == <<pi, file, size, announced, got>>
fsVars == <<root, serverVars, piVars, used>>

(* One type invariant: every variable keeps to its domain. *)
ServerTypeOK ==
    /\ root \in Roots
    /\ chain \in {"idle", "stopped", "failed", "lost", "read", "fetch", "answer", "chunk", "closed"}
    /\ body \in Nat \cup {NoFile} /\ start \in Nat
    /\ pi \in {"free", "askSize", "known", "askRead", "data", "askDone", "finished",
               "gone"}
    /\ file \in Files
    /\ size \in Nat /\ announced \in Nat /\ got \in Nat
    /\ used \subseteq Roots

ServerInit ==
    /\ root \in Roots
    /\ chain = "idle" /\ body = 0 /\ start = 0
    /\ pi = "free" /\ file \in Files
    /\ size = 0 /\ announced = 0 /\ got = 0
    /\ used = {root}

-----------------------------------------------------------------------------
(* The page *)

UpdateRoot(r) ==
    /\ root' = r
    /\ used' = used \cup {r}
    /\ UNCHANGED <<serverVars, piVars>>

ServerMoves(from, to) == chain = from /\ chain' = to /\ UNCHANGED <<root, used>>

(* The button of the device stays: a server that has ended may be started again,
   and a Pi whose request is read again gives it again.  Bound: not while one
   runs, and not on a Pi that was left in the middle of a file. *)
StartFileserver ==
    /\ \E from \in {"idle", "stopped", "failed", "lost"} : ServerMoves(from, "read")
    /\ pi # "data"
    /\ UNCHANGED <<body, start, piVars>>

(* mutant: only the size comes from file_overrides *)
CheckRequestSizeOnly ==
    /\ pi \in {"askSize", "askRead"}
    /\ IF Override[root][file] # NoFile /\ pi = "askSize"
         THEN ServerMoves("read", "answer") /\ body' = Override[root][file]
         ELSE ServerMoves("read", "fetch") /\ body' = Content[root][file]
    /\ start' = 0
    /\ UNCHANGED piVars

(* The control and file of the request; an override needs no fetch.  The path
   is made here, with the root there is now. *)
CheckRequest ==
    /\ pi \in {"askSize", "askRead"}
    /\ IF Override[root][file] # NoFile
         THEN ServerMoves("read", "answer") /\ body' = Override[root][file]
         ELSE ServerMoves("read", "fetch") /\ body' = Content[root][file]
    /\ start' = 0
    /\ UNCHANGED piVars

(* A missing file has size 0; to read it is a TypeError, and the chain ends. *)
Fetched ==
    /\ \/ body # NoFile /\ ServerMoves("fetch", "answer") /\ UNCHANGED body
       \/ body = NoFile /\ pi = "askSize" /\ ServerMoves("fetch", "answer") /\ body' = 0
       \/ body = NoFile /\ pi = "askRead" /\ ServerMoves("fetch", "stopped") /\ UNCHANGED body
    /\ UNCHANGED <<start, piVars>>

(* mutant: after an override fileserverMain is not called again *)
AnswerSizeOnce ==
    /\ pi = "askSize"
    /\ ServerMoves("answer", IF Override[root][file] # NoFile THEN "stopped" ELSE "read")
    /\ pi' = (IF body = 0 THEN "free" ELSE "known")
    /\ size' = body
    /\ UNCHANGED <<body, start, file, announced, got>>

(* control_out(size), and fileserverMain again. *)
AnswerSize ==
    /\ pi = "askSize"
    /\ ServerMoves("answer", "read")
    /\ pi' = (IF body = 0 THEN "free" ELSE "known")
    /\ size' = body
    /\ UNCHANGED <<body, start, file, announced, got>>

(* ep_write: control_out(size), then send_chunk as long as bytes remain. *)
AnswerRead ==
    /\ pi = "askRead"
    /\ ServerMoves("answer", "chunk")
    /\ pi' = "data"
    /\ announced' = body /\ got' = 0
    /\ UNCHANGED <<body, start, file, size>>

(* mutant: the last piece is left out when it is short *)
SendChunkShort ==
    /\ IF start + MaxChunk <= body
         THEN /\ ServerMoves("chunk", "chunk")
              /\ start' = start + MaxChunk
              /\ got' = got + MaxChunk
              /\ UNCHANGED pi
         ELSE /\ ServerMoves("chunk", "read")
              /\ pi' = "free"
              /\ UNCHANGED <<start, got>>
    /\ UNCHANGED <<body, file, size, announced>>

(* The slice of the last piece ends with the buffer. *)
SendChunk ==
    /\ IF start < body
         THEN /\ ServerMoves("chunk", "chunk")
              /\ start' = start + MaxChunk
              /\ got' = got + (IF start + MaxChunk < body THEN MaxChunk ELSE body - start)
              /\ UNCHANGED pi
         ELSE /\ ServerMoves("chunk", "read")
              /\ pi' = "free"
              /\ UNCHANGED <<start, got>>
    /\ UNCHANGED <<body, file, size, announced>>

(* "done": the device is closed, so that the next ep_read is rejected. *)
CheckDone ==
    /\ pi = "askDone"
    /\ ServerMoves("read", "closed")
    /\ pi' = "finished"
    /\ UNCHANGED <<body, start, file, size, announced, got>>

ReadRejected ==
    /\ ServerMoves("closed", "stopped")
    /\ UNCHANGED <<body, start, piVars>>

(* A transfer is rejected by the bus, and there is no catch that would start
   over; the Pi, if it is still there, goes on waiting. *)
TransferFails ==
    /\ \E from \in {"read", "answer", "chunk"} : ServerMoves(from, "failed")
    /\ UNCHANGED <<body, start, piVars>>

(* A fetch that gets no answer: nothing rejects its promise. *)
FetchUnanswered ==
    /\ ServerMoves("fetch", "lost")
    /\ UNCHANGED <<body, start, piVars>>

-----------------------------------------------------------------------------
(* The Pi *)

PiMoves(from, to) ==
    pi = from /\ pi' = to /\ UNCHANGED <<root, serverVars, announced, got>>

AskSize(f) == /\ PiMoves("free", "askSize")
              /\ file' = f
              /\ size' = 0
              /\ used' = {root}
AskRead == PiMoves("known", "askRead") /\ UNCHANGED <<file, size, used>>
AskDone == PiMoves("free", "askDone") /\ UNCHANGED <<file, size, used>>

Server == \/ CheckRequest \/ Fetched \/ AnswerSize \/ AnswerRead \/ SendChunk
          \/ CheckDone \/ ReadRejected
Pi == (\E f \in Files : AskSize(f)) \/ AskRead \/ AskDone
ServerNext == (\E r \in Roots : UpdateRoot(r)) \/ StartFileserver \/ Server
        \/ TransferFails \/ FetchUnanswered \/ Pi

(* Transfers and fetches end, one way or the other; a Pi that was told a size
   reads. *)
ServerFairness == WF_fsVars(StartFileserver) /\ WF_fsVars(Server) /\ WF_fsVars(AskRead)
ServerSpec == ServerInit /\ [][ServerNext]_fsVars /\ ServerFairness

-----------------------------------------------------------------------------
(* What must hold *)

(* The length that precedes the data of a file is the one the Pi was told
   before it asked for them, as long as the root stays. *)
SizeIsKept == pi = "data" /\ used = {root} => announced = size

(* The Pi gets as much as was announced, also when the length is not a
   multiple of a chunk, and when the root changes between two chunks. *)
ReadIsWhole == [][pi = "data" /\ pi' = "free" => got' = announced]_fsVars

(* What a Pi waits for; and why it may do so in vain: the bus, or the choice of
   another root between the two requests for a file. *)
Asking == {"askSize", "askRead", "askDone", "data"}
Excused == chain \in {"failed", "lost"} \/ (chain = "stopped" /\ body = NoFile /\ used # {root})
=============================================================================
