---------------------------- MODULE WebUsbProofs ----------------------------
(***************************************************************************)
(* Proofs about the page of webusbboot and its two parts: what a push sends*)
(* and what the file server answers, by themselves (PushBootcode, with any *)
(* number of pushes, and FileServer) and in the page, where the device may *)
(* be closed under them and come back.                                     *)
(***************************************************************************)
EXTENDS WebUsb, TLAPS, FiniteSetTheorems

-----------------------------------------------------------------------------
(* The push: the inductive invariants *)

(* position counts what the device got, each unit is where some file has it,
   and so are those on their way. *)
InOrder(p) ==
    /\ Len(device[p].got) = position[p]
    /\ \A n \in 1..position[p] : device[p].got[n][2] = n
    /\ pc[p] \in {"header", "announce", "first"} => position[p] = 0
    /\ pc[p] = "sent" => \A n \in DOMAIN sending[p] : sending[p][n][2] = position[p] + n

(* As long as there has been one payload since a push was started, it knows its
   length, has told it, and what was sent is of that file. *)
SendsOnly(p, image) ==
    /\ image \in Images
    /\ length[p] = Length[image]
    /\ pc[p] # "header" => device[p].header = Length[image]
    /\ pc[p] \notin {"header", "announce"} => device[p].announced = Length[image]
    /\ \A n \in 1..position[p] : device[p].got[n][1] = image
    /\ pc[p] = "sent" => \A n \in DOMAIN sending[p] : sending[p][n][1] = image
    /\ pc[p] \in {"final", "done"} => position[p] = Length[image]
OnePayload(p) ==
    /\ IsFiniteSet(seen[p])
    /\ pc[p] \in Active => payload \in seen[p]
    /\ pc[p] \in Active \cup {"done"} =>
           \A image \in seen[p] : seen[p] = {image} => SendsOnly(p, image)

HeaderFits == payload \in Images => header = Length[payload]

PushInv == HeaderFits /\ \A p \in Pushes : InOrder(p) /\ OnePayload(p)

-----------------------------------------------------------------------------
(* The push: types *)

(* The units of a slice of the payload, and where they are in the file. *)
LEMMA SliceOf ==
    ASSUME NEW image \in Images, NEW from \in Nat, NEW to \in Nat, to <= Length[image]
    PROVE  /\ SubSeq(Units(image), from + 1, to) \in Seq(Images \X Nat)
           /\ \A n \in DOMAIN SubSeq(Units(image), from + 1, to) :
                  SubSeq(Units(image), from + 1, to)[n] = <<image, from + n>>
<1>1. Length[image] \in Nat
  BY ConstantsAssumption
<1>2. /\ Units(image) \in Seq(Images \X Nat) /\ Len(Units(image)) = Length[image]
      /\ \A n \in 1..Length[image] : Units(image)[n] = <<image, n>>
  BY <1>1 DEF Units
<1> DEFINE slice == SubSeq(Units(image), from + 1, to)
<1>3. /\ slice \in Seq(Images \X Nat)
      /\ DOMAIN slice = 1..Len(slice)
      /\ \A n \in 1..Len(slice) : /\ from + n \in 1..Length[image]
                                  /\ slice[n] = Units(image)[from + n]
  BY <1>1, <1>2
<1>4. QED
  BY <1>2, <1>3

(* What SendFrom does: a slice from that offset, or the push has failed. *)
LEMMA SendFromDoes ==
    ASSUME TypeOK, NEW p \in Pushes, NEW from \in Nat, SendFrom(p, from)
    PROVE  /\ sending' \in [Pushes -> Seq(Images \X Nat)]
           /\ \A q \in Pushes : q # p => sending'[q] = sending[q]
           /\ \/ /\ payload \in Images
                 /\ pc' = [pc EXCEPT ![p] = "sent"]
                 /\ \A n \in DOMAIN sending'[p] : sending'[p][n] = <<payload, from + n>>
              \/ pc' = [pc EXCEPT ![p] = "failed"] /\ UNCHANGED sending
<1>1. CASE payload \in Images
  <2> DEFINE to == IF from + MaxSlice < Length[payload] THEN from + MaxSlice ELSE Length[payload]
             slice == SubSeq(Units(payload), from + 1, to)
  <2>1. to \in Nat /\ to <= Length[payload]
    BY <1>1, ConstantsAssumption
  <2> HIDE DEF to
  <2>2. /\ slice \in Seq(Images \X Nat)
        /\ \A n \in DOMAIN slice : slice[n] = <<payload, from + n>>
    BY <1>1, <2>1, SliceOf
  <2>3. pc' = [pc EXCEPT ![p] = "sent"] /\ sending' = [sending EXCEPT ![p] = slice]
    BY <1>1 DEF SendFrom, to
  <2> HIDE DEF slice
  <2>4. sending'[p] = slice
    BY <2>3 DEF TypeOK
  <2>5. QED
    BY <1>1, <2>2, <2>3, <2>4 DEF TypeOK
<1>2. CASE payload \notin Images
  BY <1>2 DEF SendFrom, TypeOK
<1>3. QED
  BY <1>1, <1>2

(* What a concatenation is, element by element. *)
LEMMA Concatenation ==
    ASSUME NEW T, NEW s \in Seq(T), NEW t \in Seq(T)
    PROVE  /\ s \o t \in Seq(T) /\ Len(s \o t) = Len(s) + Len(t)
           /\ \A i \in 1..Len(s) : (s \o t)[i] = s[i]
           /\ \A i \in 1..Len(t) : (s \o t)[Len(s) + i] = t[i]
OBVIOUS

(* What a transfer that took n units adds to the device. *)
LEMMA TakesDoes ==
    ASSUME TypeOK, NEW p \in Pushes, NEW n \in 0..Len(sending[p]), Takes(p, n)
    PROVE  /\ device' \in [Pushes -> [header : Nat, announced : Nat, got : Seq(Images \X Nat)]]
           /\ \A q \in Pushes : q # p => device'[q] = device[q]
           /\ device'[p].header = device[p].header
           /\ device'[p].announced = device[p].announced
           /\ Len(device'[p].got) = Len(device[p].got) + n
           /\ \A i \in 1..Len(device[p].got) : device'[p].got[i] = device[p].got[i]
           /\ \A i \in 1..n : device'[p].got[Len(device[p].got) + i] = sending[p][i]
<1>1. /\ device[p] \in [header : Nat, announced : Nat, got : Seq(Images \X Nat)]
      /\ sending[p] \in Seq(Images \X Nat) /\ Len(sending[p]) \in Nat /\ n \in Nat
  BY DEF TypeOK
<1>0. device[p].got \in Seq(Images \X Nat) /\ Len(device[p].got) \in Nat
  BY <1>1
<1> DEFINE part == SubSeq(sending[p], 1, n)
           all == device[p].got \o part
<1>2. /\ part \in Seq(Images \X Nat) /\ Len(part) = n
      /\ \A i \in 1..n : part[i] = sending[p][i]
  BY <1>1
<1> HIDE DEF part
<1>3. /\ all \in Seq(Images \X Nat) /\ Len(all) = Len(device[p].got) + n
      /\ \A i \in 1..Len(device[p].got) : all[i] = device[p].got[i]
      /\ \A i \in 1..n : all[Len(device[p].got) + i] = part[i]
  <2> DEFINE T == Images \X Nat
             old == device[p].got
  <2>1. old \in Seq(T) /\ part \in Seq(T)
    BY <1>0, <1>2
  <2> HIDE DEF T, old
  <2>2. /\ old \o part \in Seq(T) /\ Len(old \o part) = Len(old) + Len(part)
        /\ \A i \in 1..Len(old) : (old \o part)[i] = old[i]
        /\ \A i \in 1..Len(part) : (old \o part)[Len(old) + i] = part[i]
    BY <2>1, Concatenation
  <2>3. Len(part) = n
    BY <1>2
  <2>4. QED
    BY <2>2, <2>3 DEF T, old
<1>4. device' = [device EXCEPT ![p].got = all]
  BY DEF Takes, part
<1> HIDE DEF all
<1>5. /\ \A q \in Pushes : q # p => device'[q] = device[q]
      /\ device'[p] = [device[p] EXCEPT !.got = all]
      /\ DOMAIN device' = Pushes
  BY <1>4 DEF TypeOK
<1>6. /\ device'[p].header = device[p].header
      /\ device'[p].announced = device[p].announced
      /\ device'[p].got = all
  BY <1>1, <1>5
<1>7. device' \in [Pushes -> [header : Nat, announced : Nat, got : Seq(Images \X Nat)]]
  BY <1>1, <1>3, <1>4 DEF TypeOK
<1>8. QED
  BY <1>2, <1>3, <1>5, <1>6, <1>7

(* The types of a push are kept by every step. *)
LEMMA PushTypeStep ==
    ASSUME TypeOK, [Next]_vars
    PROVE  TypeOK'
<1> USE ConstantsAssumption
<1>1. CASE Page
  <2>1. PICK image \in Images : \/ Fetch(image) \/ FetchDone(image)
                                \/ FetchMissing(image) \/ FetchLost(image)
    BY <1>1 DEF Page
  <2>2. fetching' \subseteq Images /\ UNCHANGED <<pc, length, position, sending, device>>
    BY <2>1 DEF Fetch, FetchDone, FetchMissing, FetchLost, Answered, pushVars, TypeOK
  <2>3. ASSUME NEW new \in Images \cup {Null}, Payload(new)
        PROVE  /\ payload' \in Images \cup {Undefined, Null}
               /\ seen' \in [Pushes -> SUBSET (Images \cup {Null})]
    BY <2>3 DEF Payload, TypeOK
  <2>4. CASE FetchDone(image) \/ FetchMissing(image)
    BY <2>2, <2>3, <2>4 DEF FetchDone, FetchMissing, TypeOK
  <2>5. CASE Fetch(image) \/ FetchLost(image)
    BY <2>2, <2>5 DEF Fetch, FetchLost, pushVars, TypeOK
  <2>6. QED
    BY <2>1, <2>4, <2>5
<1>2. ASSUME NEW p \in Pushes, Connect(p)
      PROVE  TypeOK'
  <2>1. /\ Fresh \in [header : Nat, announced : Nat, got : Seq(Images \X Nat)]
        /\ <<>> \in Seq(Images \X Nat)
    BY DEF Fresh
  <2>2. Length[payload] \in Nat
    BY <1>2 DEF Connect
  <2>3. "header" \in {"idle", "done", "failed"} \cup Active
    BY DEF Active
  <2>4. QED
    BY <1>2, <2>1, <2>2, <2>3 DEF Connect, TypeOK
<1>3. ASSUME NEW p \in Pushes, SendHeader(p) \/ Announce(p)
      PROVE  TypeOK'
  <2>1. pc' \in [Pushes -> {"idle", "done", "failed"} \cup Active]
    BY <1>3 DEF SendHeader, Announce, Moves, Active, TypeOK
  <2>2. /\ device[p] \in [header : Nat, announced : Nat, got : Seq(Images \X Nat)]
        /\ header \in Nat /\ length[p] \in Nat
    BY DEF TypeOK
  <2>3. /\ [device[p] EXCEPT !.header = header]
              \in [header : Nat, announced : Nat, got : Seq(Images \X Nat)]
        /\ [device[p] EXCEPT !.announced = length[p]]
              \in [header : Nat, announced : Nat, got : Seq(Images \X Nat)]
    BY <2>2
  <2>4. device' \in [Pushes -> [header : Nat, announced : Nat, got : Seq(Images \X Nat)]]
    BY <1>3, <2>3 DEF SendHeader, Announce, TypeOK
  <2>5. QED
    BY <1>3, <2>1, <2>4 DEF SendHeader, Announce, TypeOK
<1>4. ASSUME NEW p \in Pushes, SendFirst(p)
      PROVE  TypeOK'
  <2>1. SendFrom(p, 0) /\ UNCHANGED <<fetching, payload, header, length, position, device, seen>>
    BY <1>4 DEF SendFirst
  <2>2. /\ sending' \in [Pushes -> Seq(Images \X Nat)]
        /\ pc' \in [Pushes -> {"idle", "done", "failed"} \cup Active]
    BY <2>1, SendFromDoes DEF TypeOK, Active
  <2>3. QED
    BY <2>1, <2>2 DEF TypeOK
<1>5. ASSUME NEW p \in Pushes, NEW n \in 0..Len(sending[p]), CheckChunk(p, n)
      PROVE  TypeOK'
  <2>1. position[p] + n \in Nat
    BY DEF TypeOK
  <2>2. /\ Takes(p, n) /\ position' = [position EXCEPT ![p] = position[p] + n]
        /\ \/ pc' = [pc EXCEPT ![p] = "final"] /\ UNCHANGED sending
           \/ SendFrom(p, position[p] + n)
    BY <1>5 DEF CheckChunk
  <2>3. /\ sending' \in [Pushes -> Seq(Images \X Nat)]
        /\ pc' \in [Pushes -> {"idle", "done", "failed"} \cup Active]
    BY <2>1, <2>2, SendFromDoes DEF TypeOK, Active
  <2>4. device' \in [Pushes -> [header : Nat, announced : Nat, got : Seq(Images \X Nat)]]
    BY <2>2, TakesDoes
  <2>5. position' \in [Pushes -> Nat]
    BY <2>1, <2>2 DEF TypeOK
  <2>6. QED
    BY <2>2, <2>3, <2>4, <2>5 DEF Takes, TypeOK
<1>6. ASSUME NEW p \in Pushes, Finish(p) \/ Fail(p)
      PROVE  TypeOK'
  BY <1>6 DEF Finish, Fail, Moves, TypeOK
<1>7. CASE UNCHANGED vars
  BY <1>7 DEF vars, pushVars, TypeOK
<1>8. QED
  BY <1>1, <1>2, <1>3, <1>4, <1>5, <1>6, <1>7 DEF Next, Step

-----------------------------------------------------------------------------
(* The push: what a push sends *)

PushOf(p) == InOrder(p) /\ OnePayload(p)

(* What a step does for another push, and the page while none is looked at. *)
LEMMA SameFor ==
    ASSUME NEW q \in Pushes, PushOf(q), payload' = payload,
           pc'[q] = pc[q], length'[q] = length[q], position'[q] = position[q],
           sending'[q] = sending[q], device'[q] = device[q], seen'[q] = seen[q]
    PROVE  PushOf(q)'
<1>1. InOrder(q)'
  BY DEF PushOf, InOrder
<1>2. ASSUME NEW image, SendsOnly(q, image)
      PROVE  SendsOnly(q, image)'
  BY <1>2 DEF SendsOnly
<1>3. OnePayload(q)'
  <2>1. /\ IsFiniteSet(seen'[q])
        /\ pc'[q] \in Active => payload' \in seen'[q]
    BY DEF PushOf, OnePayload
  <2>2. ASSUME pc'[q] \in Active \cup {"done"}, NEW image \in seen'[q], seen'[q] = {image}
        PROVE  SendsOnly(q, image)'
    BY <1>2, <2>2 DEF PushOf, OnePayload
  <2>3. QED
    BY <2>1, <2>2 DEF OnePayload
<1>4. QED
  BY <1>1, <1>3 DEF PushOf

(* An answered request gives every running push one more payload to have seen. *)
LEMMA PageKeepsInv ==
    ASSUME TypeOK, PushInv, Page
    PROVE  PushInv'
<1> USE ConstantsAssumption
<1>1. PICK image \in Images : \/ Fetch(image) \/ FetchDone(image)
                              \/ FetchMissing(image) \/ FetchLost(image)
  BY DEF Page
<1>2. CASE Fetch(image) \/ FetchLost(image)
  <2>1. UNCHANGED <<payload, header, pushVars>>
    BY <1>2 DEF Fetch, FetchLost, Answered, pushVars
  <2>2. \A q \in Pushes : PushOf(q)'
    BY <2>1, SameFor DEF PushInv, PushOf, pushVars
  <2>3. QED
    BY <2>1, <2>2 DEF PushInv, PushOf, HeaderFits
<1>3. CASE FetchDone(image) \/ FetchMissing(image)
  <2>1. PICK new \in Images \cup {Null} :
          Payload(new) /\ UNCHANGED <<pc, length, position, sending, device>>
    BY <1>3 DEF FetchDone, FetchMissing, Answered
  <2>2. HeaderFits'
    BY <1>3 DEF FetchDone, FetchMissing, Payload, HeaderFits
  <2>3. ASSUME NEW q \in Pushes, pc[q] \notin Active
        PROVE  PushOf(q)'
    <3>1. PushOf(q) /\ seen'[q] = seen[q]
      BY <2>1, <2>3 DEF PushInv, PushOf, Payload, Running
    <3>2. InOrder(q)'
      BY <2>1, <3>1 DEF InOrder, PushOf
    <3>3. \A one : SendsOnly(q, one) => SendsOnly(q, one)'
      BY <2>1 DEF SendsOnly
    <3>4. OnePayload(q)'
      BY <2>1, <2>3, <3>1, <3>3 DEF OnePayload, PushOf
    <3>5. QED
      BY <3>2, <3>4 DEF PushOf
  <2>4. ASSUME NEW q \in Pushes, pc[q] \in Active
        PROVE  PushOf(q)'
    <3>1. PushOf(q) /\ seen'[q] = seen[q] \cup {new} /\ payload' = new /\ payload \in seen[q]
      BY <2>1, <2>4 DEF PushInv, PushOf, OnePayload, Payload, Running
    <3>2. InOrder(q)'
      BY <2>1, <3>1 DEF InOrder, PushOf
    <3>3. \A one : SendsOnly(q, one) => SendsOnly(q, one)'
      BY <2>1 DEF SendsOnly
    <3>4. IsFiniteSet(seen'[q])
      BY <3>1, FS_AddElement DEF PushOf, OnePayload
    <3>5. ASSUME NEW one \in seen'[q], seen'[q] = {one}
          PROVE  SendsOnly(q, one)'
      <4>1. one \in seen[q] /\ seen[q] = {one}
        BY <3>1, <3>5
      <4>2. SendsOnly(q, one)
        BY <2>4, <3>1, <4>1 DEF PushOf, OnePayload
      <4>3. QED
        BY <3>3, <4>2
    <3>6. OnePayload(q)'
      BY <3>1, <3>4, <3>5 DEF OnePayload
    <3>7. QED
      BY <3>2, <3>6 DEF PushOf
  <2>5. QED
    BY <2>2, <2>3, <2>4 DEF PushInv, PushOf
<1>4. QED
  BY <1>1, <1>2, <1>3

(* One push is at a time in a step of its own: what is left is its part. *)
LEMMA OneStep ==
    ASSUME TypeOK, PushInv, UNCHANGED <<payload, header>>, NEW p \in Pushes,
           \A q \in Pushes \ {p} :
               /\ pc'[q] = pc[q] /\ length'[q] = length[q] /\ position'[q] = position[q]
               /\ sending'[q] = sending[q] /\ device'[q] = device[q] /\ seen'[q] = seen[q],
           PushOf(p)'
    PROVE  PushInv'
<1>1. \A q \in Pushes \ {p} : PushOf(q)'
  BY SameFor DEF PushInv, PushOf
<1>2. QED
  BY <1>1 DEF PushInv, PushOf, HeaderFits

(* A push that is started has sent nothing. *)
LEMMA ConnectKeepsInv ==
    ASSUME TypeOK, PushInv, NEW p \in Pushes, Connect(p)
    PROVE  PushInv'
<1> USE ConstantsAssumption
<1>1. /\ payload \in Images /\ UNCHANGED <<fetching, payload, header>>
      /\ pc'[p] = "header" /\ length'[p] = Length[payload] /\ position'[p] = 0
      /\ sending'[p] = <<>> /\ device'[p] = Fresh /\ seen'[p] = {payload}
  BY DEF Connect, TypeOK
<1>2. InOrder(p)'
  BY <1>1 DEF InOrder, Fresh
<1>3. ASSUME NEW image, image = payload
      PROVE  SendsOnly(p, image)'
  BY <1>1, <1>3 DEF SendsOnly
<1>4. IsFiniteSet(seen'[p])
  <2>1. IsFiniteSet({payload})
    BY FS_Singleton
  <2>2. QED
    BY <1>1, <2>1
<1>5. OnePayload(p)'
  <2>1. ASSUME NEW image \in seen'[p]
        PROVE  SendsOnly(p, image)'
    <3>1. image = payload
      BY <1>1, <2>1
    <3>2. QED
      BY <1>3, <3>1
  <2>2. payload' \in seen'[p]
    BY <1>1
  <2>3. QED
    BY <1>4, <2>1, <2>2 DEF OnePayload
<1>6. QED
  BY <1>1, <1>2, <1>5, OneStep DEF Connect, PushOf, TypeOK

(* A push that goes on, with nothing fetched since, has its payload still. *)
LEMMA GoesOn ==
    ASSUME TypeOK, PushInv, UNCHANGED <<payload, header, seen>>, NEW p \in Pushes,
           pc[p] \in Active,
           \A image \in Images : payload = image /\ SendsOnly(p, image) => SendsOnly(p, image)'
    PROVE  OnePayload(p)'
<1>1. OnePayload(p)
  BY DEF PushInv
<1>2. ASSUME NEW image \in seen[p], seen[p] = {image}
      PROVE  SendsOnly(p, image)'
  <2>1. SendsOnly(p, image) /\ image = payload
    BY <1>1, <1>2 DEF OnePayload
  <2>2. image \in Images
    BY <2>1 DEF SendsOnly
  <2>3. QED
    BY <2>1, <2>2
<1>3. QED
  BY <1>1, <1>2 DEF OnePayload

(* The header and the announcement send none of the file. *)
LEMMA TellKeepsInv ==
    ASSUME TypeOK, PushInv, NEW p \in Pushes, SendHeader(p) \/ Announce(p)
    PROVE  PushInv'
<1> USE ConstantsAssumption
<1>1. /\ UNCHANGED <<payload, header, length, position, sending, seen>>
      /\ position[p] = 0 /\ pc[p] \in Active
      /\ pc'[p] # "sent" /\ pc'[p] \notin {"final", "done", "header"}
      /\ device[p] \in [header : Nat, announced : Nat, got : Seq(Images \X Nat)]
  BY DEF PushInv, InOrder, SendHeader, Announce, Moves, Active, TypeOK
<1>2. device'[p].got = device[p].got
  BY <1>1 DEF SendHeader, Announce, TypeOK
<1>3. InOrder(p)'
  BY <1>1, <1>2 DEF PushInv, InOrder
<1>4. ASSUME NEW image \in Images, payload = image, SendsOnly(p, image)
      PROVE  SendsOnly(p, image)'
  <2>1. CASE SendHeader(p)
    <3>1. device'[p].header = header /\ header = Length[image]
      BY <1>1, <1>4, <2>1 DEF PushInv, HeaderFits, SendHeader, TypeOK
    <3>2. pc[p] = "header" /\ pc'[p] = "announce"
      BY <2>1 DEF SendHeader, Moves, TypeOK
    <3>3. QED
      BY <1>1, <1>2, <1>4, <3>1, <3>2 DEF SendsOnly
  <2>2. CASE Announce(p)
    <3>1. device'[p].header = device[p].header /\ device'[p].announced = length[p]
      BY <1>1, <2>2 DEF Announce, TypeOK
    <3>2. pc[p] = "announce" /\ pc'[p] = "first"
      BY <2>2 DEF Announce, Moves, TypeOK
    <3>3. QED
      BY <1>1, <1>2, <1>4, <3>1, <3>2 DEF SendsOnly
  <2>3. QED
    BY <2>1, <2>2
<1>5. OnePayload(p)'
  BY <1>1, <1>4, GoesOn
<1>6. QED
  BY <1>1, <1>3, <1>5, OneStep DEF SendHeader, Announce, Moves, PushOf, TypeOK

(* The first slice is from the beginning of the file. *)
LEMMA SendFirstKeepsInv ==
    ASSUME TypeOK, PushInv, NEW p \in Pushes, SendFirst(p)
    PROVE  PushInv'
<1> USE ConstantsAssumption
<1>1. /\ UNCHANGED <<payload, header, length, position, device, seen>>
      /\ pc[p] = "first" /\ position[p] = 0 /\ SendFrom(p, 0)
  BY DEF PushInv, InOrder, SendFirst
<1>2. /\ \A q \in Pushes : q # p => sending'[q] = sending[q] /\ pc'[q] = pc[q]
      /\ \/ /\ payload \in Images /\ pc'[p] = "sent"
            /\ \A n \in DOMAIN sending'[p] : sending'[p][n] = <<payload, n>>
         \/ pc'[p] = "failed"
  <2>1. \A n \in DOMAIN sending'[p] : 0 + n = n
    BY <1>1, SendFromDoes
  <2>2. QED
    BY <1>1, <2>1, SendFromDoes DEF TypeOK
<1>3. InOrder(p)'
  <2>1. pc'[p] = "sent" => \A n \in DOMAIN sending'[p] : sending'[p][n][2] = position'[p] + n
    <3>1. ASSUME pc'[p] = "sent", NEW n \in DOMAIN sending'[p]
          PROVE  sending'[p][n][2] = position'[p] + n
      <4>1. n \in Nat
        BY <1>1, SendFromDoes
      <4>2. QED
        BY <1>1, <1>2, <3>1, <4>1
    <3>2. QED
      BY <3>1
  <2>2. QED
    BY <1>1, <1>2, <2>1 DEF PushInv, InOrder
<1>4. ASSUME NEW image \in Images, payload = image, SendsOnly(p, image)
      PROVE  SendsOnly(p, image)'
  <2>1. pc'[p] = "sent" => \A n \in DOMAIN sending'[p] : sending'[p][n][1] = image
    BY <1>2, <1>4
  <2>2. QED
    BY <1>1, <1>2, <1>4, <2>1 DEF SendsOnly
<1>5. OnePayload(p)'
  BY <1>1, <1>4, GoesOn DEF Active
<1>6. QED
  BY <1>1, <1>2, <1>3, <1>5, OneStep DEF PushOf

(* What was taken is what was on its way, and position moves past it. *)
LEMMA CheckChunkKeepsInv ==
    ASSUME TypeOK, PushInv, NEW p \in Pushes, NEW n \in 0..Len(sending[p]), CheckChunk(p, n)
    PROVE  PushInv'
<1> USE ConstantsAssumption
<1> DEFINE end == position[p] + n
<1>1. /\ UNCHANGED <<payload, header, length, seen>>
      /\ pc[p] = "sent" /\ Takes(p, n)
      /\ position[p] \in Nat /\ n \in Nat /\ end \in Nat
      /\ position' = [position EXCEPT ![p] = end] /\ position'[p] = end
      /\ DOMAIN sending[p] = 1..Len(sending[p]) /\ Len(sending[p]) \in Nat
  <2>1. /\ Takes(p, n) /\ position' = [position EXCEPT ![p] = end]
        /\ position \in [Pushes -> Nat] /\ sending[p] \in Seq(Images \X Nat)
    BY DEF CheckChunk, TypeOK
  <2>2. DOMAIN sending[p] = 1..Len(sending[p]) /\ Len(sending[p]) \in Nat
    BY <2>1
  <2>3. position[p] \in Nat /\ n \in Nat /\ end \in Nat /\ position'[p] = end
    BY <2>1, <2>2
  <2>4. QED
    BY <2>1, <2>2, <2>3 DEF Takes
<1>2. /\ \A q \in Pushes : q # p => sending'[q] = sending[q] /\ pc'[q] = pc[q]
      /\ \/ payload \in Images /\ end = Length[payload] /\ pc'[p] = "final"
         \/ /\ payload \in Images /\ pc'[p] = "sent"
            /\ \A i \in DOMAIN sending'[p] : sending'[p][i] = <<payload, end + i>>
         \/ pc'[p] = "failed"
  <2>1. \/ /\ payload \in Images /\ end = Length[payload]
           /\ pc' = [pc EXCEPT ![p] = "final"] /\ UNCHANGED sending
        \/ SendFrom(p, end)
    BY DEF CheckChunk
  <2> HIDE DEF end
  <2>2. QED
    BY <1>1, <2>1, SendFromDoes DEF TypeOK
<1>3. /\ \A q \in Pushes : q # p => device'[q] = device[q] /\ position'[q] = position[q]
      /\ device'[p].header = device[p].header
      /\ device'[p].announced = device[p].announced
      /\ Len(device'[p].got) = end
      /\ \A i \in 1..position[p] : device'[p].got[i] = device[p].got[i]
      /\ \A i \in 1..n : device'[p].got[position[p] + i] = sending[p][i]
  <2>1. Len(device[p].got) = position[p]
    BY DEF PushInv, InOrder
  <2>2. \A q \in Pushes : q # p => device'[q] = device[q] /\ position'[q] = position[q]
    BY <1>1, TakesDoes DEF TypeOK
  <2> HIDE DEF end
  <2>3. Takes(p, n)
    BY <1>1
  <2>4. /\ device'[p].header = device[p].header
        /\ device'[p].announced = device[p].announced
        /\ Len(device'[p].got) = position[p] + n
        /\ \A i \in 1..position[p] : device'[p].got[i] = device[p].got[i]
        /\ \A i \in 1..n : device'[p].got[position[p] + i] = sending[p][i]
    <3> DEFINE old == Len(device[p].got)
    <3>1. /\ device'[p].header = device[p].header
          /\ device'[p].announced = device[p].announced
          /\ Len(device'[p].got) = old + n
          /\ \A i \in 1..old : device'[p].got[i] = device[p].got[i]
          /\ \A i \in 1..n : device'[p].got[old + i] = sending[p][i]
      BY <2>3, TakesDoes
    <3>2. old = position[p]
      BY <2>1
    <3> HIDE DEF old
    <3>3. QED
      BY <3>1, <3>2
  <2>5. QED
    BY <2>2, <2>4 DEF end
<1>4. ASSUME NEW i \in 1..end
      PROVE  \/ i \in 1..position[p] /\ device'[p].got[i] = device[p].got[i]
             \/ \E k \in DOMAIN sending[p] : i = position[p] + k /\ device'[p].got[i] = sending[p][k]
  <2>1. CASE i \in 1..position[p]
    BY <1>3, <2>1
  <2>2. CASE i \notin 1..position[p]
    <3> DEFINE k == i - position[p]
    <3>1. k \in 1..n /\ k \in DOMAIN sending[p] /\ i = position[p] + k
      BY <1>1, <2>2
    <3> HIDE DEF k
    <3>2. QED
      BY <1>3, <3>1
  <2>3. QED
    BY <2>1, <2>2
<1>5. InOrder(p)'
  <2>1. ASSUME NEW i \in 1..end
        PROVE  device'[p].got[i][2] = i
    <3>1. /\ \A k \in 1..position[p] : device[p].got[k][2] = k
          /\ \A k \in DOMAIN sending[p] : sending[p][k][2] = position[p] + k
      BY <1>1 DEF PushInv, InOrder
    <3>2. QED
      BY <1>4, <3>1
  <2>2. pc'[p] = "sent" => \A i \in DOMAIN sending'[p] : sending'[p][i][2] = position'[p] + i
    BY <1>1, <1>2
  <2> HIDE DEF end
  <2>3. QED
    BY <1>1, <1>2, <1>3, <2>1, <2>2 DEF InOrder
<1>6. ASSUME NEW image \in Images, payload = image, SendsOnly(p, image)
      PROVE  SendsOnly(p, image)'
  <2>1. \A i \in 1..end : device'[p].got[i][1] = image
    BY <1>1, <1>4, <1>6 DEF SendsOnly
  <2>2. pc'[p] = "sent" => \A i \in DOMAIN sending'[p] : sending'[p][i][1] = image
    BY <1>1, <1>2, <1>6
  <2> HIDE DEF end
  <2>3. QED
    BY <1>1, <1>2, <1>3, <1>6, <2>1, <2>2 DEF SendsOnly
<1>7. OnePayload(p)'
  BY <1>1, <1>6, GoesOn DEF Active
<1>8. QED
  BY <1>1, <1>2, <1>3, <1>5, <1>7, OneStep DEF PushOf

(* A push that ends has sent what it had. *)
LEMMA EndKeepsInv ==
    ASSUME TypeOK, PushInv, NEW p \in Pushes, Finish(p) \/ Fail(p)
    PROVE  PushInv'
<1>1. /\ UNCHANGED <<payload, header, length, position, sending, device, seen>>
      /\ pc[p] \in Active
      /\ pc'[p] = "failed" \/ (pc[p] = "final" /\ pc'[p] = "done")
  BY DEF Finish, Fail, Moves, Active, TypeOK
<1>2. InOrder(p)'
  BY <1>1 DEF PushInv, InOrder
<1>3. OnePayload(p)'
  <2>1. CASE pc'[p] = "failed"
    BY <1>1, <2>1 DEF PushInv, OnePayload, Active
  <2>2. CASE pc[p] = "final" /\ pc'[p] = "done"
    <3>1. \A image \in Images : SendsOnly(p, image) => SendsOnly(p, image)'
      BY <1>1, <2>2 DEF SendsOnly
    <3>2. QED
      BY <1>1, <3>1, GoesOn
  <2>3. QED
    BY <1>1, <2>1, <2>2
<1>4. QED
  BY <1>1, <1>2, <1>3, OneStep DEF Finish, Fail, Moves, PushOf, TypeOK

(* The step of the invariant for PushBootcode. *)
LEMMA PushInvStep ==
    ASSUME TypeOK, PushInv, [Next]_vars
    PROVE  PushInv'
<1>1. CASE UNCHANGED vars
  BY <1>1, SameFor DEF vars, pushVars, PushInv, PushOf, HeaderFits
<1>2. QED
  BY <1>1, PageKeepsInv, ConnectKeepsInv, TellKeepsInv, SendFirstKeepsInv,
     CheckChunkKeepsInv, EndKeepsInv DEF Next, Step

-----------------------------------------------------------------------------
(* The push: what follows *)

(* The invariant has the order of the offsets in it. *)
LEMMA InvGivesOrder ==
    ASSUME TypeOK, PushInv
    PROVE  OffsetsInOrder
<1>1. ASSUME NEW p \in Pushes
      PROVE  DOMAIN device[p].got = 1..position[p]
  <2>1. device[p].got \in Seq(Images \X Nat)
    BY DEF TypeOK
  <2>2. Len(device[p].got) = position[p]
    BY DEF PushInv, InOrder
  <2>3. QED
    BY <2>1, <2>2
<1>2. QED
  BY <1>1 DEF PushInv, InOrder, OffsetsInOrder

(* What was sent in order up to the length is the file. *)
LEMMA InvGivesExact ==
    ASSUME TypeOK, PushInv
    PROVE  PushIsExact
<1> USE ConstantsAssumption
<1> SUFFICES ASSUME NEW p \in Pushes, pc[p] = "done", OneFile(p)
             PROVE  \E image \in Images :
                       device[p] = [header |-> Length[image], announced |-> Length[image],
                                    got |-> Units(image)]
  BY DEF PushIsExact
<1>1. PICK image : seen[p] = {image}
  <2>1. IsFiniteSet(seen[p]) /\ Cardinality(seen[p]) = 1
    BY DEF OneFile, PushInv, OnePayload
  <2>2. QED
    BY <2>1, FS_Singleton
<1>2. SendsOnly(p, image) /\ InOrder(p)
  BY <1>1 DEF PushInv, OnePayload
<1>3. /\ image \in Images /\ position[p] = Length[image] /\ Length[image] \in Nat
      /\ device[p].header = Length[image] /\ device[p].announced = Length[image]
      /\ Len(device[p].got) = Length[image]
      /\ \A n \in 1..Length[image] : device[p].got[n][1] = image /\ device[p].got[n][2] = n
  BY <1>2 DEF SendsOnly, InOrder
<1>4. device[p].got = Units(image)
  <2> DEFINE sent == device[p].got
  <2>1. sent \in Seq(Images \X Nat)
    BY DEF TypeOK
  <2>2. \A n \in 1..Length[image] : sent[n] \in Images \X Nat
    <3>1. Len(sent) = Length[image]
      BY <1>3
    <3> HIDE DEF sent
    <3>2. \A n \in 1..Len(sent) : sent[n] \in Images \X Nat
      BY <2>1
    <3>3. QED
      BY <3>1, <3>2
  <2>3. \A n \in 1..Length[image] : sent[n] = <<image, n>>
    BY <1>3, <2>2
  <2>4. sent = [n \in 1..Length[image] |-> sent[n]]
    BY <1>3, <2>1
  <2> HIDE DEF sent
  <2>5. sent = [n \in 1..Length[image] |-> <<image, n>>]
    BY <2>3, <2>4
  <2>6. QED
    BY <2>5 DEF Units, sent
<1>5. device[p] = [header |-> device[p].header, announced |-> device[p].announced,
                   got |-> device[p].got]
  BY DEF TypeOK
<1>6. QED
  BY <1>3, <1>4, <1>5

(* No push is under way at first. *)
LEMMA PushInitial ==
    ASSUME Init
    PROVE  TypeOK /\ PushInv
<1> USE ConstantsAssumption
<1>1. Fresh \in [header : Nat, announced : Nat, got : Seq(Images \X Nat)]
  <2>1. <<>> \in Seq(Images \X Nat)
    OBVIOUS
  <2>2. QED
    BY <2>1 DEF Fresh
<1>2. TypeOK
  <2>1. <<>> \in Seq(Images \X Nat)
    OBVIOUS
  <2>2. QED
    BY <1>1, <2>1 DEF Init, TypeOK
<1>3. HeaderFits
  BY DEF Init, HeaderFits
<1>4. ASSUME NEW p \in Pushes
      PROVE  InOrder(p) /\ OnePayload(p)
  <2>1. /\ pc[p] = "idle" /\ position[p] = 0 /\ device[p] = Fresh /\ seen[p] = {}
    BY DEF Init
  <2>2. InOrder(p)
    BY <2>1 DEF InOrder, Fresh
  <2>3. IsFiniteSet(seen[p])
    BY <2>1, FS_EmptySet
  <2>4. QED
    BY <2>1, <2>2, <2>3 DEF OnePayload, Active
<1>5. QED
  BY <1>2, <1>3, <1>4 DEF PushInv

(* By themselves pushes keep their variables to their domains. *)
THEOREM PushTypeCorrect == Spec => []TypeOK
<1>1. Init => TypeOK
  BY PushInitial
<1>2. TypeOK /\ [Next]_vars => TypeOK'
  BY PushTypeStep
<1>3. QED
  BY <1>1, <1>2, PTL DEF Spec

(* Any number of pushes, of files of any length, through a bus that takes any
   part of a slice: each unit is at its own offset, whatever is fetched. *)
THEOREM PushOrder == Spec => []OffsetsInOrder
<1>1. Init => TypeOK /\ PushInv
  BY PushInitial
<1>2. (TypeOK /\ PushInv) /\ [Next]_vars => (TypeOK /\ PushInv)'
  BY PushTypeStep, PushInvStep
<1>3. TypeOK /\ PushInv => OffsetsInOrder
  BY InvGivesOrder
<1>4. QED
  BY <1>1, <1>2, <1>3, PTL DEF Spec

(* A push with one payload from its start to its end has sent that file, whole,
   and told its length twice. *)
THEOREM PushExact == Spec => []PushIsExact
<1>1. Init => TypeOK /\ PushInv
  BY PushInitial
<1>2. (TypeOK /\ PushInv) /\ [Next]_vars => (TypeOK /\ PushInv)'
  BY PushTypeStep, PushInvStep
<1>3. TypeOK /\ PushInv => PushIsExact
  BY InvGivesExact
<1>4. QED
  BY <1>1, <1>2, <1>3, PTL DEF Spec

-----------------------------------------------------------------------------
(* The push in the page: its device may be closed under it, and come back *)

(* The device of the page is one that is pushed to. *)
LEMMA ThePiIsOne == ThePi \in Pushes
<1>1. Pushes # {}
  BY OnePi, FS_EmptySet
<1>2. QED
  BY <1>1 DEF ThePi

(* What a step of the page does to the push: one of its own, a new connection
   or the end of its transfers. *)
CutOff ==
    /\ pc' = [p \in Pushes |-> IF pc[p] \in Active THEN "failed" ELSE pc[p]]
    /\ UNCHANGED <<payload, header, fetching, length, position, sending, device, seen>>
Renewed == NoPush /\ UNCHANGED <<payload, header, fetching>>

(* A step of the page is one of a push, or ends or renews the device. *)
LEMMA PagePushes ==
    ASSUME [PageNext]_pageVars
    PROVE  [Next]_vars \/ CutOff \/ Renewed
<1>1. CASE PlugIn
  BY <1>1 DEF PlugIn, Renewed
<1>2. CASE Disconnect
  BY <1>2 DEF Disconnect, TransfersEnd, CutOff
<1>3. CASE RequestAccess \/ Serve \/ ServeFails \/ SelectRoot \/ PiAsks
  BY <1>3 DEF RequestAccess, Serve, ServeFails, SelectRoot, PiAsks
<1>4. ASSUME NEW l \in lookups, LookupAnswered(l)
      PROVE  CutOff
  BY <1>4 DEF LookupAnswered, TransfersEnd, CutOff
<1>5. ASSUME NEW l \in lookups, HandleNewDevice(l)
      PROVE  [Next]_vars
  BY <1>5, ThePiIsOne DEF HandleNewDevice, Next
<1>6. ASSUME NEW n \in DOMAIN entries, Click(n)
      PROVE  [Next]_vars
  BY <1>6, ThePiIsOne DEF Click, Next
<1>7. CASE Select
  BY <1>7 DEF Select, Next, Page
<1>8. CASE Push \/ PushFails
  BY <1>8, ThePiIsOne DEF Push, PushFails, Next
<1>9. CASE UNCHANGED pageVars
  BY <1>9 DEF pageVars
<1>10. QED
  BY <1>1, <1>2, <1>3, <1>4, <1>5, <1>6, <1>7, <1>8, <1>9 DEF PageNext, Table

(* A device that goes away, or is closed, fails its push. *)
LEMMA CutOffKeepsInv ==
    ASSUME TypeOK, PushInv, CutOff
    PROVE  TypeOK' /\ PushInv'
<1>1. TypeOK'
  BY DEF CutOff, TypeOK, Active
<1>2. ASSUME NEW p \in Pushes
      PROVE  InOrder(p)' /\ OnePayload(p)'
  <2>1. InOrder(p) /\ OnePayload(p)
    BY DEF PushInv
  <2>2. /\ UNCHANGED <<payload, header, length, position, sending, device, seen>>
        /\ pc'[p] = IF pc[p] \in Active THEN "failed" ELSE pc[p]
    BY DEF CutOff
  <2>3. InOrder(p)'
    BY <2>1, <2>2 DEF InOrder
  <2>4. CASE pc[p] \in Active
    BY <2>1, <2>2, <2>3, <2>4 DEF OnePayload, Active
  <2>5. CASE pc[p] \notin Active
    <3>1. \A image : SendsOnly(p, image) => SendsOnly(p, image)'
      BY <2>2, <2>5 DEF SendsOnly
    <3>2. QED
      BY <2>1, <2>2, <2>3, <2>5, <3>1 DEF OnePayload
  <2>6. QED
    BY <2>3, <2>4, <2>5
<1>3. QED
  BY <1>1, <1>2 DEF CutOff, PushInv, HeaderFits

(* A device that comes back starts afresh. *)
LEMMA RenewedKeepsInv ==
    ASSUME TypeOK, PushInv, Renewed
    PROVE  TypeOK' /\ PushInv'
<1>1. /\ Fresh \in [header : Nat, announced : Nat, got : Seq(Images \X Nat)]
      /\ <<>> \in Seq(Images \X Nat)
  BY DEF Fresh
<1>2. TypeOK'
  BY <1>1 DEF Renewed, NoPush, TypeOK
<1>3. ASSUME NEW p \in Pushes
      PROVE  InOrder(p)' /\ OnePayload(p)'
  <2>1. pc'[p] = "idle" /\ position'[p] = 0 /\ device'[p] = Fresh /\ seen'[p] = {}
    BY DEF Renewed, NoPush
  <2>2. InOrder(p)'
    BY <2>1 DEF InOrder, Fresh
  <2>3. IsFiniteSet(seen'[p])
    BY <2>1, FS_EmptySet
  <2>4. QED
    BY <2>1, <2>2, <2>3 DEF OnePayload, Active
<1>4. QED
  BY <1>2, <1>3 DEF Renewed, PushInv, HeaderFits

(* In the page a push keeps its invariant. *)
LEMMA PushInPage ==
    ASSUME TypeOK, PushInv, [PageNext]_pageVars
    PROVE  TypeOK' /\ PushInv'
BY PagePushes, PushTypeStep, PushInvStep, CutOffKeepsInv, RenewedKeepsInv

(* In the page too, where a lookup or the Pi itself may end any transfer, what
   arrives is in order. *)
THEOREM PageOrder == PageSpec => []OffsetsInOrder
<1>1. PageInit => TypeOK /\ PushInv
  BY PushInitial DEF PageInit
<1>2. (TypeOK /\ PushInv) /\ [PageNext]_pageVars => (TypeOK /\ PushInv)'
  BY PushInPage
<1>3. TypeOK /\ PushInv => OffsetsInOrder
  BY InvGivesOrder
<1>4. QED
  BY <1>1, <1>2, <1>3, PTL DEF PageSpec

(* In the page too, a push that ends well with one payload has sent all of it. *)
THEOREM PageExact == PageSpec => []PushIsExact
<1>1. PageInit => TypeOK /\ PushInv
  BY PushInitial DEF PageInit
<1>2. (TypeOK /\ PushInv) /\ [PageNext]_pageVars => (TypeOK /\ PushInv)'
  BY PushInPage
<1>3. TypeOK /\ PushInv => PushIsExact
  BY InvGivesExact
<1>4. QED
  BY <1>1, <1>2, <1>3, PTL DEF PageSpec

-----------------------------------------------------------------------------
(* The file server: the inductive invariant *)

(* The length that the file of the Pi is served with, below the root there is. *)
Served ==
    IF Override[root][file] # NoFile THEN Override[root][file]
    ELSE IF Content[root][file] # NoFile THEN Content[root][file] ELSE 0

(* A request is answered to the Pi that made it, from its first byte. *)
Serving ==
    /\ chain \in {"fetch", "answer"} => pi \in {"askSize", "askRead"} /\ start = 0
    /\ chain \in {"answer", "chunk"} => body \in Nat
    /\ chain = "chunk" => pi = "data" /\ announced = body /\ got = (IF start < body THEN start ELSE body)

(* As long as there was one root since the Pi asked, what is answered, what it
   was told and what was announced is the length below that root. *)
Agreeing ==
    /\ chain = "fetch" => Override[root][file] = NoFile /\ body = Content[root][file]
    /\ chain = "answer" => body = Served
    /\ pi \in {"known", "askRead", "data"} => size = Served
    /\ pi = "data" => announced = Served

ServerInv ==
    /\ root \in used
    /\ Serving
    /\ used = {root} => Agreeing

(* The lengths that a root gives for a file. *)
LEMMA Lengths ==
    ASSUME ServerTypeOK
    PROVE  /\ Override[root][file] \in Nat \cup {NoFile}
           /\ Content[root][file] \in Nat \cup {NoFile}
           /\ Served \in Nat
<1>1. /\ Override[root] \in [Files -> Nat \cup {NoFile}]
      /\ Content[root] \in [Files -> Nat \cup {NoFile}]
  BY ServerAssumption DEF ServerTypeOK
<1>2. file \in Files
  BY DEF ServerTypeOK
<1>3. QED
  BY <1>1, <1>2 DEF Served

(* The user picks a root, maybe the one there is. *)
LEMMA UpdateRootKeeps ==
    ASSUME ServerTypeOK, ServerInv, NEW r \in Roots, UpdateRoot(r)
    PROVE  ServerTypeOK' /\ ServerInv'
<1>1. /\ root' = r /\ used' = used \cup {r}
      /\ UNCHANGED <<chain, body, start, pi, file, size, announced, got>>
  BY DEF UpdateRoot, serverVars, piVars
<1>2. ServerTypeOK'
  BY <1>1 DEF ServerTypeOK
<1>3. Serving'
  BY <1>1 DEF ServerInv, Serving
<1>4. ASSUME used' = {root'}
      PROVE  Agreeing'
  <2>1. used = {root} /\ root' = root
    BY <1>1, <1>4 DEF ServerInv
  <2>2. Agreeing
    BY <2>1 DEF ServerInv
  <2>3. QED
    BY <1>1, <2>1, <2>2 DEF Agreeing, Served
<1>5. QED
  BY <1>1, <1>2, <1>3, <1>4 DEF ServerInv

(* One lemma for each handler: what it leaves true of the request. *)
LEMMA CheckRequestKeeps ==
    ASSUME ServerTypeOK, ServerInv, CheckRequest
    PROVE  ServerTypeOK' /\ ServerInv'
<1>1. /\ chain = "read" /\ pi \in {"askSize", "askRead"} /\ start' = 0
      /\ UNCHANGED <<root, used, pi, file, size, announced, got>>
      /\ \/ /\ Override[root][file] # NoFile /\ chain' = "answer"
            /\ body' = Override[root][file]
         \/ /\ Override[root][file] = NoFile /\ chain' = "fetch"
            /\ body' = Content[root][file]
  BY DEF CheckRequest, ServerMoves, piVars
<1>2. ServerTypeOK'
  BY <1>1, Lengths DEF ServerTypeOK
<1>3. Serving'
  BY <1>1, Lengths DEF Serving
<1>4. ASSUME used' = {root'}
      PROVE  Agreeing'
  BY <1>1, <1>4 DEF ServerInv, Agreeing, Served
<1>5. QED
  BY <1>1, <1>2, <1>3, <1>4 DEF ServerInv

(* A fetched file has the length that is told of it. *)
LEMMA FetchedKeeps ==
    ASSUME ServerTypeOK, ServerInv, Fetched
    PROVE  ServerTypeOK' /\ ServerInv'
<1>1. /\ chain = "fetch"
      /\ UNCHANGED <<root, used, start, pi, file, size, announced, got>>
      /\ \/ chain' = "answer" /\ body # NoFile /\ body' = body
         \/ chain' = "answer" /\ body = NoFile /\ body' = 0
         \/ chain' = "stopped" /\ body' = body
  BY DEF Fetched, ServerMoves, piVars
<1>2. ServerTypeOK'
  BY <1>1 DEF ServerTypeOK
<1>3. Serving'
  BY <1>1 DEF ServerInv, Serving, ServerTypeOK
<1>4. ASSUME used' = {root'}
      PROVE  Agreeing'
  BY <1>1, <1>4, Lengths DEF ServerInv, Serving, Agreeing, Served
<1>5. QED
  BY <1>1, <1>2, <1>3, <1>4 DEF ServerInv

(* The answer is from the file of the request. *)
LEMMA AnswerKeeps ==
    ASSUME ServerTypeOK, ServerInv, AnswerSize \/ AnswerRead
    PROVE  ServerTypeOK' /\ ServerInv'
<1>1. /\ chain = "answer" /\ body \in Nat /\ start = 0
      /\ UNCHANGED <<root, used, body, start, file>>
      /\ \/ /\ chain' = "read" /\ pi' \in {"free", "known"} /\ size' = body
            /\ UNCHANGED <<announced, got>>
         \/ /\ chain' = "chunk" /\ pi = "askRead" /\ pi' = "data"
            /\ announced' = body /\ got' = 0 /\ size' = size
  BY DEF AnswerSize, AnswerRead, ServerMoves, ServerInv, Serving
<1>2. ServerTypeOK'
  BY <1>1 DEF ServerTypeOK
<1>3. Serving'
  BY <1>1 DEF ServerInv, Serving
<1>4. ASSUME used' = {root'}
      PROVE  Agreeing'
  BY <1>1, <1>4, Lengths DEF ServerInv, Agreeing, Served
<1>5. QED
  BY <1>1, <1>2, <1>3, <1>4 DEF ServerInv

(* A chunk is the next part of the answer. *)
LEMMA SendChunkKeeps ==
    ASSUME ServerTypeOK, ServerInv, SendChunk
    PROVE  ServerTypeOK' /\ ServerInv'
<1> USE ServerAssumption
<1>1. /\ chain = "chunk" /\ pi = "data" /\ UNCHANGED <<root, used, body, file, size, announced>>
      /\ body \in Nat /\ start \in Nat /\ announced = body
      /\ got = (IF start < body THEN start ELSE body)
      /\ \/ /\ start < body /\ chain' = "chunk" /\ pi' = "data" /\ start' = start + MaxChunk
            /\ got' = got + (IF start + MaxChunk < body THEN MaxChunk ELSE body - start)
         \/ start >= body /\ chain' = "read" /\ pi' = "free" /\ UNCHANGED <<start, got>>
  BY DEF SendChunk, ServerMoves, ServerInv, Serving, ServerTypeOK
<1>2. got' \in Nat /\ start' \in Nat
  BY <1>1 DEF ServerTypeOK
<1>3. ServerTypeOK'
  BY <1>1, <1>2 DEF ServerTypeOK
<1>4. Serving'
  BY <1>1, <1>2 DEF Serving
<1>5. ASSUME used' = {root'}
      PROVE  Agreeing'
  BY <1>1, <1>5 DEF ServerInv, Agreeing, Served
<1>6. QED
  BY <1>1, <1>3, <1>4, <1>5 DEF ServerInv

(* What ends a request gives the Pi nothing. *)
LEMMA StopKeeps ==
    ASSUME ServerTypeOK, ServerInv,
           StartFileserver \/ CheckDone \/ ReadRejected \/ TransferFails \/ FetchUnanswered
    PROVE  ServerTypeOK' /\ ServerInv'
<1>1. /\ UNCHANGED <<root, used, body, start, file, size, announced, got>>
      /\ chain' \in {"read", "closed", "stopped", "failed", "lost"}
      /\ pi' \in {pi, "finished"}
  BY DEF StartFileserver, CheckDone, ReadRejected, TransferFails, FetchUnanswered,
         ServerMoves, ServerInv, Serving, piVars
<1>2. ServerTypeOK'
  BY <1>1 DEF ServerTypeOK
<1>3. Serving'
  BY <1>1 DEF ServerInv, Serving
<1>4. ASSUME used' = {root'}
      PROVE  Agreeing'
  BY <1>1, <1>4 DEF ServerInv, Agreeing, Served
<1>5. QED
  BY <1>1, <1>2, <1>3, <1>4 DEF ServerInv

(* The Pi asks for one thing at a time. *)
LEMMA PiKeeps ==
    ASSUME ServerTypeOK, ServerInv, Pi
    PROVE  ServerTypeOK' /\ ServerInv'
<1>1. CASE \E f \in Files : AskSize(f)
  <2>1. /\ pi = "free" /\ pi' = "askSize" /\ file' \in Files /\ size' = 0 /\ used' = {root}
        /\ UNCHANGED <<root, chain, body, start, announced, got>>
    BY <1>1 DEF AskSize, PiMoves, serverVars
  <2>2. ServerTypeOK'
    BY <2>1 DEF ServerTypeOK
  <2>3. Serving' /\ chain' \notin {"fetch", "answer"}
    BY <2>1 DEF ServerInv, Serving
  <2>4. QED
    BY <2>1, <2>2, <2>3 DEF ServerInv, Agreeing
<1>2. CASE AskRead \/ AskDone
  <2>1. /\ pi' \in {"askRead", "askDone"} /\ pi \in {"known", "free"}
        /\ pi' = "askRead" => pi = "known"
        /\ UNCHANGED <<root, chain, body, start, file, size, announced, got, used>>
    BY <1>2 DEF AskRead, AskDone, PiMoves, serverVars
  <2>2. ServerTypeOK'
    BY <2>1 DEF ServerTypeOK
  <2>3. Serving'
    BY <2>1 DEF ServerInv, Serving
  <2>4. ASSUME used' = {root'}
        PROVE  Agreeing'
    BY <2>1, <2>4 DEF ServerInv, Agreeing, Served
  <2>5. QED
    BY <2>1, <2>2, <2>3, <2>4 DEF ServerInv
<1>3. QED
  BY <1>1, <1>2 DEF Pi

(* Every step of the server and of the Pi keeps the invariant. *)
LEMMA ServerStep ==
    ASSUME ServerTypeOK, ServerInv, [ServerNext]_fsVars
    PROVE  ServerTypeOK' /\ ServerInv'
<1>1. CASE UNCHANGED fsVars
  <2>1. UNCHANGED <<root, chain, body, start, pi, file, size, announced, got, used>>
    BY <1>1 DEF fsVars, serverVars, piVars
  <2>2. QED
    BY <2>1 DEF ServerTypeOK, ServerInv, Serving, Agreeing, Served
<1>2. QED
  BY <1>1, UpdateRootKeeps, CheckRequestKeeps, FetchedKeeps, AnswerKeeps, SendChunkKeeps,
     StopKeeps, PiKeeps DEF ServerNext, Server

(* Nothing has been asked for at first. *)
LEMMA ServerInitial ==
    ASSUME ServerInit
    PROVE  ServerTypeOK /\ ServerInv
BY DEF ServerInit, ServerTypeOK, ServerInv, Serving, Agreeing

-----------------------------------------------------------------------------
(* The file server: what follows *)

(* The invariant has what was told of a size in it. *)
LEMMA InvGivesSize ==
    ASSUME ServerInv
    PROVE  SizeIsKept
BY DEF ServerInv, Agreeing, SizeIsKept

(* The only way from data to the next request is the last chunk. *)
LEMMA LastChunk ==
    ASSUME ServerTypeOK, ServerInv, [ServerNext]_fsVars, pi = "data", pi' = "free"
    PROVE  got' = announced
<1>1. SendChunk
  <2>1. ~UNCHANGED pi
    OBVIOUS
  <2>2. ~UNCHANGED fsVars /\ ~(\E r \in Roots : UpdateRoot(r)) /\ ~StartFileserver
        /\ ~TransferFails /\ ~FetchUnanswered
    BY <2>1 DEF UpdateRoot, StartFileserver, TransferFails, FetchUnanswered, fsVars, piVars
  <2>3. ~CheckRequest /\ ~AnswerSize /\ ~AnswerRead /\ ~CheckDone
    BY DEF CheckRequest, AnswerSize, AnswerRead, CheckDone
  <2>4. ~Fetched /\ ~ReadRejected
    <3>1. Fetched \/ ReadRejected => UNCHANGED piVars
      BY DEF Fetched, ReadRejected
    <3>2. QED
      BY <2>1, <3>1 DEF piVars
  <2>5. ~Pi
    BY DEF Pi, AskSize, AskRead, AskDone, PiMoves
  <2>6. QED
    BY <2>2, <2>3, <2>4, <2>5 DEF ServerNext, Server
<1>2. /\ chain = "chunk" /\ body \in Nat /\ start \in Nat
      /\ announced = body /\ got = (IF start < body THEN start ELSE body)
  <2>1. chain = "chunk"
    BY <1>1 DEF SendChunk, ServerMoves
  <2>2. QED
    BY <2>1 DEF ServerInv, Serving, ServerTypeOK
<1>3. start >= body /\ UNCHANGED <<got, announced>>
  BY <1>1, <1>2 DEF SendChunk
<1>4. QED
  BY <1>2, <1>3

(* By itself the server keeps its variables to their domains. *)
THEOREM ServerTypeCorrect == ServerSpec => []ServerTypeOK
<1>1. ServerInit => ServerTypeOK /\ ServerInv
  BY ServerInitial
<1>2. (ServerTypeOK /\ ServerInv) /\ [ServerNext]_fsVars => (ServerTypeOK /\ ServerInv)'
  BY ServerStep
<1>3. QED
  BY <1>1, <1>2, PTL DEF ServerSpec

(* Whatever the roots, files and overrides are: the size and the data agree. *)
THEOREM ServerSize == ServerSpec => []SizeIsKept
<1>1. ServerInit => ServerTypeOK /\ ServerInv
  BY ServerInitial
<1>2. (ServerTypeOK /\ ServerInv) /\ [ServerNext]_fsVars => (ServerTypeOK /\ ServerInv)'
  BY ServerStep
<1>3. ServerInv => SizeIsKept
  BY InvGivesSize
<1>4. QED
  BY <1>1, <1>2, <1>3, PTL DEF ServerSpec

(* A read ends with as many bytes as were announced, for every length of the
   file and of a chunk. *)
THEOREM ServerWhole == ServerSpec => ReadIsWhole
<1>1. ServerInit => ServerTypeOK /\ ServerInv
  BY ServerInitial
<1>2. (ServerTypeOK /\ ServerInv) /\ [ServerNext]_fsVars => (ServerTypeOK /\ ServerInv)'
  BY ServerStep
<1>3. (ServerTypeOK /\ ServerInv) /\ [ServerNext]_fsVars
          => [pi = "data" /\ pi' = "free" => got' = announced]_fsVars
  BY LastChunk
<1>4. QED
  BY <1>1, <1>2, <1>3, PTL DEF ServerSpec, ReadIsWhole

-----------------------------------------------------------------------------
(* The file server in the page *)

(* Nothing is under way on a device that is gone, at either end. *)
Quiet == usb = "out" => chain \notin {"read", "fetch", "answer", "chunk"} /\ pi # "data"

(* What a step of the page does to the server: one of its own, a new connection,
   or the end of the transfer there is. *)
Closed ==
    /\ \/ chain' = "stopped"
       \/ chain \notin {"read", "fetch", "answer", "chunk"} /\ UNCHANGED chain
    /\ pi' \in {pi, "gone"}
    /\ UNCHANGED <<root, body, start, file, size, announced, got, used>>
Anew == usb = "out" /\ NoServer /\ UNCHANGED root

(* A step of the page is one of the server, or ends or renews its device. *)
LEMMA PageServes ==
    ASSUME [PageNext]_pageVars
    PROVE  [ServerNext]_fsVars \/ Closed \/ Anew
<1>1. CASE PlugIn
  BY <1>1 DEF PlugIn, Anew
<1>2. CASE Disconnect
  BY <1>2 DEF Disconnect, TransfersEnd, Closed
<1>3. CASE RequestAccess \/ Select \/ Push \/ PushFails
  BY <1>3 DEF RequestAccess, Select, Push, PushFails
<1>4. ASSUME NEW l \in lookups, LookupAnswered(l)
      PROVE  Closed
  BY <1>4 DEF LookupAnswered, TransfersEnd, Closed
<1>5. ASSUME NEW l \in lookups, HandleNewDevice(l)
      PROVE  [ServerNext]_fsVars
  BY <1>5 DEF HandleNewDevice, ServerNext
<1>6. ASSUME NEW n \in DOMAIN entries, Click(n)
      PROVE  [ServerNext]_fsVars
  BY <1>6 DEF Click, ServerNext
<1>7. CASE Serve \/ ServeFails \/ SelectRoot \/ PiAsks
  BY <1>7 DEF Serve, ServeFails, SelectRoot, PiAsks, ServerNext
<1>8. CASE UNCHANGED pageVars
  BY <1>8 DEF pageVars
<1>9. QED
  BY <1>1, <1>2, <1>3, <1>4, <1>5, <1>6, <1>7, <1>8 DEF PageNext, Table

(* In the page the server keeps its invariant. *)
LEMMA ServerInPage ==
    ASSUME ServerTypeOK, ServerInv, [PageNext]_pageVars
    PROVE  ServerTypeOK' /\ ServerInv'
<1>1. CASE Closed
  <2>1. ServerTypeOK'
    BY <1>1 DEF Closed, ServerTypeOK
  <2>2. Serving'
    BY <1>1 DEF Closed, ServerInv, Serving
  <2>3. ASSUME used' = {root'}
        PROVE  Agreeing'
    BY <1>1, <2>3 DEF Closed, ServerInv, Agreeing, Served
  <2>4. QED
    BY <1>1, <2>1, <2>2, <2>3 DEF Closed, ServerInv
<1>2. CASE Anew
  BY <1>2 DEF Anew, NoServer, ServerTypeOK, ServerInv, Serving, Agreeing
<1>3. QED
  BY <1>1, <1>2, ServerStep, PageServes

(* In the page, where the root may be selected between any two callbacks and a
   device may come back: the size and the data agree. *)
THEOREM PageSize == PageSpec => []SizeIsKept
<1>1. PageInit => ServerTypeOK /\ ServerInv
  BY ServerInitial DEF PageInit
<1>2. (ServerTypeOK /\ ServerInv) /\ [PageNext]_pageVars => (ServerTypeOK /\ ServerInv)'
  BY ServerInPage
<1>3. ServerInv => SizeIsKept
  BY InvGivesSize
<1>4. QED
  BY <1>1, <1>2, <1>3, PTL DEF PageSpec

(* While no device is there no transfer is under way. *)
LEMMA QuietStep ==
    ASSUME ServerInv, Quiet, [PageNext]_pageVars
    PROVE  Quiet'
<1>1. CASE PlugIn
  BY <1>1 DEF PlugIn, Quiet
<1>2. CASE Disconnect \/ \E l \in lookups : LookupAnswered(l)
  BY <1>2 DEF Disconnect, LookupAnswered, TransfersEnd, Quiet
<1>3. CASE RequestAccess \/ Select \/ Push \/ PushFails
  BY <1>3 DEF RequestAccess, Select, Push, PushFails, Quiet, tableVars, fsVars, serverVars, piVars
<1>4. ASSUME NEW l \in lookups, HandleNewDevice(l)
      PROVE  Quiet'
  BY <1>4 DEF HandleNewDevice, CanServe, StartFileserver, Quiet, fsVars, serverVars, piVars
<1>5. ASSUME NEW n \in DOMAIN entries, Click(n)
      PROVE  Quiet'
  BY <1>5 DEF Click, CanServe, StartFileserver, Quiet, tableVars, fsVars, serverVars, piVars
<1>6. CASE Serve \/ ServeFails
  <2>1. UNCHANGED usb
    BY <1>6 DEF Serve, ServeFails, tableVars
  <2>2. usb = "out" => chain' \notin {"read", "fetch", "answer", "chunk"} /\ pi' # "data"
    BY <1>6 DEF Serve, ServeFails, Server, CheckRequest, Fetched, AnswerSize, AnswerRead,
                SendChunk, CheckDone, ReadRejected, TransferFails, FetchUnanswered,
                ServerMoves, piVars, ServerInv, Serving, Quiet
  <2>3. QED
    BY <2>1, <2>2 DEF Quiet
<1>7. CASE SelectRoot \/ PiAsks
  BY <1>7 DEF SelectRoot, PiAsks, UpdateRoot, Pi, AskSize, AskRead, AskDone, PiMoves, Quiet,
              tableVars, serverVars, piVars
<1>8. CASE UNCHANGED pageVars
  BY <1>8 DEF pageVars, fsVars, serverVars, piVars, tableVars, Quiet
<1>9. QED
  BY <1>1, <1>2, <1>3, <1>4, <1>5, <1>6, <1>7, <1>8 DEF PageNext, Table

(* In the page too, a read that ends has got what was announced: neither a
   closed device nor a new connection passes for an end. *)
THEOREM PageWhole == PageSpec => ReadIsWhole
<1> DEFINE Inv == ServerTypeOK /\ ServerInv /\ Quiet
<1>1. PageInit => Inv
  BY ServerInitial DEF PageInit, ServerInit, Quiet
<1>2. Inv /\ [PageNext]_pageVars => Inv'
  BY ServerInPage, QuietStep
<1>3. Inv /\ [PageNext]_pageVars => [pi = "data" /\ pi' = "free" => got' = announced]_fsVars
  <2> SUFFICES ASSUME Inv, [PageNext]_pageVars, pi = "data", pi' = "free"
               PROVE  got' = announced
    OBVIOUS
  <2>1. ~Closed /\ ~Anew
    BY DEF Closed, Anew, Quiet, ServerInv, Serving
  <2>2. QED
    BY <2>1, PageServes, LastChunk
<1>4. QED
  BY <1>1, <1>2, <1>3, PTL DEF PageSpec, ReadIsWhole
=============================================================================
