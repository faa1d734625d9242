---------------------------- MODULE PushBootcode ----------------------------
(***************************************************************************)
(* Pushing boot code to a Pi in its ROM loader, webusbboot/pi-usbboot.js:  *)
(* fetchFirmware leaves a file in the globals payload and header, and each *)
(* connectToPi, from a click or from autopush, sends them over its own     *)
(* device.  JavaScript runs one callback at a time: a step is one callback,*)
(* and between two of them any other may run.  Lengths are counted in      *)
(* units of which a transfer takes MaxSlice at most.                       *)
(***************************************************************************)
EXTENDS Naturals, Sequences, FiniteSets

CONSTANTS
    Images,     \* the files that can be fetched
    Length,     \* their lengths
    Pushes,     \* the devices a push can go to
    MaxSlice    \* 16384 bytes

Undefined == "undefined"   \* the globals before the first fetch
Null == "null"             \* a file that is not there

ASSUME ConstantsAssumption ==
    /\ Length \in [Images -> Nat \ {0}]
    /\ MaxSlice \in Nat \ {0}
    /\ Undefined \notin Images /\ Null \notin Images

VARIABLES
    fetching,         \* the requests that have not been answered
    payload, header,  \* the globals; header as the length it holds
    pc, length, position,  \* each connectToPi: control point and locals
    sending,          \* the slice of its transfer that is under way
    device,           \* what its device was told and got
    seen              \* history: the payloads there have been since it was started
pushVars == <<pc, length, position, sending, device, seen>>
vars == <<fetching, payload, header, pushVars>>

Units(image) == [n \in 1..Length[image] |-> <<image, n>>]
Active == {"header", "announce", "first", "sent", "final"}
Running == {p \in Pushes : pc[p] \in Active}
Fresh == [header |-> 0, announced |-> 0, got |-> <<>>]

(* One type invariant: every variable keeps to its domain. *)
TypeOK ==
    /\ fetching \subseteq Images
    /\ payload \in Images \cup {Undefined, Null}
    /\ header \in Nat
    /\ pc \in [Pushes -> {"idle", "done", "failed"} \cup Active]
    /\ length \in [Pushes -> Nat] /\ position \in [Pushes -> Nat]
    /\ sending \in [Pushes -> Seq(Images \X Nat)]
    /\ device \in [Pushes -> [header : Nat, announced : Nat, got : Seq(Images \X Nat)]]
    /\ seen \in [Pushes -> SUBSET (Images \cup {Null})]

(* updateBootcode has fetched the file selected when the page was loaded. *)
Init ==
    /\ \E image \in Images : fetching = {image}
    /\ payload = Undefined /\ header = 0
    /\ pc = [p \in Pushes |-> "idle"]
    /\ length = [p \in Pushes |-> 0] /\ position = [p \in Pushes |-> 0]
    /\ sending = [p \in Pushes |-> <<>>]
    /\ device = [p \in Pushes |-> Fresh]
    /\ seen = [p \in Pushes |-> {}]

-----------------------------------------------------------------------------
(* fetchFirmware and asyncFetch: requests are answered in any order. *)

Fetch(image) ==
    /\ fetching' = fetching \cup {image}
    /\ UNCHANGED <<payload, header, pushVars>>

Answered(image) ==
    /\ image \in fetching
    /\ fetching' = fetching \ {image}
    /\ UNCHANGED <<pc, length, position, sending, device>>
Payload(new) ==
    /\ payload' = new
    /\ seen' = [p \in Pushes |-> IF p \in Running THEN seen[p] \cup {new} ELSE seen[p]]

(* mutant: the header of the first file is kept *)
FetchDoneOldHeader(image) ==
    /\ Answered(image)
    /\ Payload(image)
    /\ header' = (IF header = 0 THEN Length[image] ELSE header)

FetchDone(image) ==
    /\ Answered(image)
    /\ Payload(image)
    /\ header' = Length[image]

(* 404: payload is null, and header new but not filled when that throws. *)
FetchMissing(image) ==
    /\ Answered(image)
    /\ Payload(Null)
    /\ header' = 0

(* A network error: there is no onerror, the promise is never settled. *)
FetchLost(image) ==
    /\ Answered(image)
    /\ UNCHANGED <<payload, header, seen>>

-----------------------------------------------------------------------------
(* connectToPi; with no payload it throws before it does anything. *)

Connect(p) ==
    /\ pc[p] \notin Active
    /\ payload \in Images
    /\ pc' = [pc EXCEPT ![p] = "header"]
    /\ length' = [length EXCEPT ![p] = Length[payload]]
    /\ position' = [position EXCEPT ![p] = 0]
    /\ sending' = [sending EXCEPT ![p] = <<>>]
    /\ device' = [device EXCEPT ![p] = Fresh]
    /\ seen' = [seen EXCEPT ![p] = {payload}]
    /\ UNCHANGED <<fetching, payload, header>>

Moves(p, from, to) == pc[p] = from /\ pc' = [pc EXCEPT ![p] = to]

(* The header's own length is sent first; then header, read anew. *)
SendHeader(p) ==
    /\ Moves(p, "header", "announce")
    /\ device' = [device EXCEPT ![p].header = header]
    /\ UNCHANGED <<fetching, payload, header, length, position, sending, seen>>

Announce(p) ==
    /\ Moves(p, "announce", "first")
    /\ device' = [device EXCEPT ![p].announced = length[p]]
    /\ UNCHANGED <<fetching, payload, header, length, position, sending, seen>>

(* transferOut of payload.slice(from, from + 16384); null has no slice. *)
SendFrom(p, from) ==
    IF payload \in Images
        THEN /\ pc' = [pc EXCEPT ![p] = "sent"]
             /\ sending' = [sending EXCEPT ![p] = SubSeq(Units(payload), from + 1,
                    IF from + MaxSlice < Length[payload] THEN from + MaxSlice ELSE Length[payload])]
        ELSE /\ pc' = [pc EXCEPT ![p] = "failed"]
             /\ UNCHANGED sending

SendFirst(p) ==
    /\ pc[p] = "first"
    /\ SendFrom(p, 0)
    /\ UNCHANGED <<fetching, payload, header, length, position, device, seen>>

(* The device took the first n units, all there was when it was nothing. *)
Takes(p, n) ==
    /\ pc[p] = "sent"
    /\ n > 0 \/ sending[p] = <<>>
    /\ device' = [device EXCEPT ![p].got = @ \o SubSeq(sending[p], 1, n)]
    /\ UNCHANGED <<fetching, payload, header, length, seen>>

(* mutant: bytesWritten is taken to be the whole slice *)
CheckChunkWhole(p, n) ==
    LET end == position[p] + MaxSlice IN
    /\ Takes(p, n)
    /\ position' = [position EXCEPT ![p] = end]
    /\ IF payload \in Images /\ end >= Length[payload]
         THEN pc' = [pc EXCEPT ![p] = "final"] /\ UNCHANGED sending
         ELSE SendFrom(p, end)

(* mutant: off by one at the end *)
CheckChunkPast(p, n) ==
    LET end == position[p] + n IN
    /\ Takes(p, n)
    /\ position' = [position EXCEPT ![p] = end]
    /\ IF payload \in Images /\ end > Length[payload]
         THEN pc' = [pc EXCEPT ![p] = "final"] /\ UNCHANGED sending
         ELSE SendFrom(p, end)

(* checkChunk, which looks at the payload there is now. *)
CheckChunk(p, n) ==
    LET end == position[p] + n IN
    /\ Takes(p, n)
    /\ position' = [position EXCEPT ![p] = end]
    /\ IF payload \in Images /\ end = Length[payload]
         THEN pc' = [pc EXCEPT ![p] = "final"] /\ UNCHANGED sending
         ELSE SendFrom(p, end)

(* The status is read, the device closed. *)
Finish(p) ==
    /\ Moves(p, "final", "done")
    /\ UNCHANGED <<fetching, payload, header, length, position, sending, device, seen>>

(* A rejected transfer ends the chain; the device is not closed. *)
Fail(p) ==
    /\ pc[p] \in Active
    /\ pc' = [pc EXCEPT ![p] = "failed"]
    /\ UNCHANGED <<fetching, payload, header, length, position, sending, device, seen>>

Page == \E image \in Images : \/ Fetch(image) \/ FetchDone(image)
                              \/ FetchMissing(image) \/ FetchLost(image)
Step(p) == \/ SendHeader(p) \/ Announce(p) \/ SendFirst(p)
           \/ (\E n \in 0..Len(sending[p]) : CheckChunk(p, n))
           \/ Finish(p)
Next == Page \/ \E p \in Pushes : Connect(p) \/ Step(p) \/ Fail(p)

(* Transfers complete; nothing is assumed of the user or the server. *)
Fairness == \A p \in Pushes : WF_vars(Step(p))
Spec == Init /\ [][Next]_vars /\ Fairness

-----------------------------------------------------------------------------
(* What must hold *)

(* A push that ends well, while nothing is fetched in its way, has sent one
   file, whole and in order, and told the device its length both in the header
   and before the data: transfers may take less than they are given. *)
OneFile(p) == Cardinality(seen[p]) = 1
PushIsExact ==
    \A p \in Pushes : pc[p] = "done" /\ OneFile(p) =>
        \E image \in Images : device[p] = [header |-> Length[image], announced |-> Length[image],
                                           got |-> Units(image)]

(* "push the currently selected .bin file over", README.md:7: the same of
   every push, also when the selection changes while it runs. *)
PushIsOneFile ==
    \A p \in Pushes : pc[p] = "done" => \E image \in Images : device[p].got = Units(image)

(* Every push ends, unless a fetch changes the payload under it: then position
   may get past the end, where empty slices follow each other for ever. *)
PushEnds == \A p \in Pushes : (pc[p] \in Active) ~> (pc[p] \notin Active \/ ~OneFile(p))

(* Whatever is fetched meanwhile, and however little a transfer takes, what a
   device gets at an offset is what some file has there: nothing is repeated
   or left out. *)
OffsetsInOrder ==
    \A p \in Pushes : \A n \in DOMAIN device[p].got : device[p].got[n][2] = n
=============================================================================
