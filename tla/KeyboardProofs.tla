--------------------------- MODULE KeyboardProofs ---------------------------
(***************************************************************************)
(* Proofs about KeyboardProxy, for any keyboard and any size of a batch:   *)
(* the modifiers are right however the events fall into batches, and so is *)
(* the host, unless a key went down and up in the last batch.              *)
(***************************************************************************)
EXTENDS KeyboardProxy, TLAPS

(* The fold over the events of a batch. *)
F == INSTANCE FoldTheorems WITH Op <- HandleEvent

-----------------------------------------------------------------------------
(* The inductive invariants *)

IsKey(event, key) == event.type = "key" /\ event.code = key

(* What the first n events leave of a key that was down before them or not:
   the last event of that key says. *)
Down(events, n, key, before) ==
    \/ \E i \in 1..n : /\ IsKey(events[i], key) /\ events[i].value # 0
                       /\ \A j \in (i + 1)..n : ~IsKey(events[j], key)
    \/ before /\ \A i \in 1..n : ~IsKey(events[i], key)

(* The modifiers of main and the events that wait lead to the keys that are
   down now. *)
QueueLeadsToPressed ==
    \A key \in Modifiers :
        key \in pressed <=> Down(queue, Len(queue), key, key \in modifiers)

(* An event that puts a key in the report. *)
IsDown(event) == event.type = "key" /\ event.value # 0

(* A key that an event which waits puts in the report is down now, or an event
   behind that one lets go of it. *)
DownIsPressed ==
    \A i \in 1..Len(queue) :
        IsDown(queue[i]) =>
            \/ queue[i].code \in pressed
            \/ \E j \in (i + 1)..Len(queue) : queue[j] = KeyEvent(queue[i].code, 0)

(* What waits ends with the event of a key and the end of its packet. *)
EndsWithKey == Len(queue) > 1 => queue[Len(queue) - 1].type = "key"

HostInv == DownIsPressed /\ EndsWithKey /\ HostInStep

-----------------------------------------------------------------------------
(* Events *)

KeyEvents == [type : {"key"}, code : Keys, value : 0..2]
OtherEvents == [type : {"scan", "report"}]
Results == [modifiers : SUBSET Modifiers, mods : SUBSET Modifiers,
            keys : {s \in Seq(Keys \cup {Nothing}) : Len(s) <= MaxKeys}]

(* The events of a packet are events. *)
LEMMA PacketTypes ==
    ASSUME NEW key \in Keys
    PROVE  /\ \A v \in 0..2 : KeyEvent(key, v) \in Events
           /\ [type |-> "scan"] \in Events /\ [type |-> "report"] \in Events
           /\ \A v \in 0..2 : Moved(key, v) \in Seq(Events)
           /\ <<KeyEvent(key, 2), [type |-> "report"]>> \in Seq(Events)
<1>1. \A v \in 0..2 : KeyEvent(key, v) \in Events
  BY DEF KeyEvent, Events
<1>2. [type |-> "scan"] \in Events /\ [type |-> "report"] \in Events
  BY DEF Events
<1>3. QED
  BY <1>1, <1>2 DEF Moved

(* One event leaves a report that fits, and modifiers that are. *)
LEMMA HandleEventType ==
    ASSUME NEW acc \in Results, NEW event \in Events
    PROVE  HandleEvent(acc, event) \in Results
<1>1. CASE event.type # "key"
  BY <1>1 DEF HandleEvent
<1>2. CASE event.type = "key"
  <2>1. event.code \in Keys
    BY <1>2 DEF Events
  <2> DEFINE keys == IF event.value # 0 /\ Len(acc.keys) < MaxKeys
                       THEN Append(acc.keys, Usage(event.code)) ELSE acc.keys
             mod  == {event.code} \cap Modifiers
             mods == IF event.value # 0 THEN acc.modifiers \cup mod ELSE acc.modifiers \ mod
  <2>2. acc.modifiers \subseteq Modifiers /\ acc.keys \in Seq(Keys \cup {Nothing})
        /\ Len(acc.keys) <= MaxKeys /\ Len(acc.keys) \in Nat
    BY DEF Results
  <2>3. Usage(event.code) \in Keys \cup {Nothing}
    BY <2>1 DEF Usage
  <2>4. keys \in Seq(Keys \cup {Nothing}) /\ Len(keys) <= MaxKeys
    BY <2>2, <2>3, ConstantsAssumption
  <2>5. mods \in SUBSET Modifiers
    BY <2>2
  <2>6. HandleEvent(acc, event) = [modifiers |-> mods, mods |-> mods, keys |-> keys]
    BY <1>2 DEF HandleEvent
  <2> HIDE DEF keys, mods
  <2>7. QED
    BY <2>4, <2>5, <2>6 DEF Results
<1>3. QED
  BY <1>1, <1>2

(* One event moves one modifier to what it says, and the report with it. *)
LEMMA HandleEventModifier ==
    ASSUME NEW acc \in Results, NEW event \in Events, NEW key \in Modifiers
    PROVE  key \in HandleEvent(acc, event).modifiers <=>
               IF IsKey(event, key) THEN event.value # 0 ELSE key \in acc.modifiers
<1>1. CASE event.type # "key"
  BY <1>1 DEF HandleEvent, IsKey
<1>2. CASE event.type = "key"
  BY <1>2 DEF HandleEvent, IsKey
<1>3. QED
  BY <1>1, <1>2

-----------------------------------------------------------------------------
(* What the events of a key leave *)

(* One more event: it says, or what came before it. *)
LEMMA DownNext ==
    ASSUME NEW events, NEW n \in Nat, NEW key, NEW before \in BOOLEAN
    PROVE  Down(events, n + 1, key, before) <=>
               IF IsKey(events[n + 1], key) THEN events[n + 1].value # 0
               ELSE Down(events, n, key, before)
<1>1. 1..(n + 1) = 1..n \cup {n + 1} /\ n + 1 \notin 1..n
  OBVIOUS
<1>2. ASSUME NEW i \in 1..n
      PROVE  /\ (i + 1)..(n + 1) = (i + 1)..n \cup {n + 1}
             /\ i \in 1..(n + 1)
  OBVIOUS
<1>3. ((n + 1) + 1)..(n + 1) = {}
  OBVIOUS
<1>4. CASE IsKey(events[n + 1], key)
  <2>1. Down(events, n + 1, key, before) => events[n + 1].value # 0
    BY <1>1, <1>2, <1>4 DEF Down
  <2>2. events[n + 1].value # 0 => Down(events, n + 1, key, before)
    BY <1>1, <1>3, <1>4 DEF Down
  <2>3. QED
    BY <1>4, <2>1, <2>2
<1>5. CASE ~IsKey(events[n + 1], key)
  <2>1. Down(events, n + 1, key, before) => Down(events, n, key, before)
    BY <1>1, <1>2, <1>5 DEF Down
  <2>2. Down(events, n, key, before) => Down(events, n + 1, key, before)
    BY <1>1, <1>2, <1>5 DEF Down
  <2>3. QED
    BY <1>5, <2>1, <2>2
<1>6. QED
  BY <1>4, <1>5

(* Only the events count that are there. *)
LEMMA DownSame ==
    ASSUME NEW events, NEW others, NEW n \in Nat, NEW key, NEW before \in BOOLEAN,
           \A i \in 1..n : events[i] = others[i]
    PROVE  Down(events, n, key, before) <=> Down(others, n, key, before)
<1>1. ASSUME NEW i \in 1..n
      PROVE  (i + 1)..n \subseteq 1..n
  OBVIOUS
<1>2. QED
  BY <1>1 DEF Down

(* The events after the first m begin with what those leave. *)
LEMMA DownSplit ==
    ASSUME NEW events, NEW rest, NEW m \in Nat, NEW n \in Nat, NEW key,
           NEW before \in BOOLEAN,
           \A i \in 1..n : rest[i] = events[m + i]
    PROVE  Down(events, m + n, key, before) <=> Down(rest, n, key, Down(events, m, key, before))
<1> DEFINE S == {k \in 0..n : Down(events, m + k, key, before) <=>
                                Down(rest, k, key, Down(events, m, key, before))}
<1>1. 0 \in S
  BY DEF Down
<1>2. ASSUME NEW k \in 0..(n - 1), k \in S
      PROVE  k + 1 \in S
  <2>1. /\ k \in Nat /\ m + k \in Nat /\ (m + k) + 1 = m + (k + 1)
        /\ k + 1 \in 1..n /\ k + 1 \in 0..n
    OBVIOUS
  <2>2. rest[k + 1] = events[(m + k) + 1]
    BY <2>1
  <2>3. Down(events, m, key, before) \in BOOLEAN
    BY DEF Down
  <2>4. Down(events, (m + k) + 1, key, before) <=>
            IF IsKey(events[(m + k) + 1], key) THEN events[(m + k) + 1].value # 0
            ELSE Down(events, m + k, key, before)
    BY <2>1, DownNext
  <2>5. Down(rest, k + 1, key, Down(events, m, key, before)) <=>
            IF IsKey(rest[k + 1], key) THEN rest[k + 1].value # 0
            ELSE Down(rest, k, key, Down(events, m, key, before))
    BY <2>1, <2>3, DownNext
  <2>6. Down(events, m + k, key, before) <=>
            Down(rest, k, key, Down(events, m, key, before))
    BY <1>2
  <2>7. QED
    BY <2>1, <2>2, <2>4, <2>5, <2>6
<1> HIDE DEF S
<1>3. \A k \in 0..n : k \in S
  BY <1>1, <1>2, F!IntervalInduction
<1>4. QED
  BY <1>3 DEF S

-----------------------------------------------------------------------------
(* A batch *)

Start == [modifiers |-> modifiers, mods |-> {}, keys |-> <<>>]
Result == F!Fold(Start, Batch)

(* An iteration writes the result of the fold over its batch. *)
LEMMA ProxyWritesResult ==
    ASSUME Proxy
    PROVE  Writes(Result) /\ Takes
<1>1. FoldLeft(HandleEvent, Start, Batch) = Result
  BY DEF Result, F!Fold, F!FoldLeft, FoldLeft, MapThenFoldSet, F!MapThenFoldSet, Max, F!Max
<1>2. QED
  BY <1>1 DEF Proxy, Start, Batch

(* The batch is the beginning of the queue. *)
LEMMA BatchFacts ==
    ASSUME TypeOK
    PROVE  /\ BatchLength \in Nat /\ BatchLength <= Len(queue) /\ BatchLength <= MaxRead
           /\ Len(queue) \in Nat
           /\ Batch \in Seq(Events) /\ Len(Batch) = BatchLength
           /\ DOMAIN Batch = 1..BatchLength
           /\ \A i \in 1..BatchLength : Batch[i] = queue[i] /\ Batch[i] \in Events
<1>1. queue \in Seq(Events) /\ MaxRead \in Nat
  BY ConstantsAssumption DEF TypeOK
<1>2. /\ BatchLength \in Nat /\ BatchLength <= Len(queue) /\ BatchLength <= MaxRead
      /\ Len(queue) \in Nat
  BY <1>1 DEF BatchLength
<1>3. QED
  BY <1>1, <1>2 DEF Batch

(* The fold starts from what may be a result. *)
LEMMA StartType ==
    ASSUME TypeOK
    PROVE  Start \in Results
<1>1. /\ modifiers \in SUBSET Modifiers /\ {} \in SUBSET Modifiers
      /\ <<>> \in {s \in Seq(Keys \cup {Nothing}) : Len(s) <= MaxKeys}
  BY ConstantsAssumption DEF TypeOK
<1>2. QED
  BY <1>1 DEF Start, Results

(* What a batch writes fits in a report, and its modifiers are what its
   events leave. *)
LEMMA ResultOfBatch ==
    ASSUME TypeOK
    PROVE  /\ Result \in Results
           /\ \A key \in Modifiers : key \in Result.modifiers <=>
                  Down(queue, BatchLength, key, key \in modifiers)
<1> DEFINE n == BatchLength
<1>1. /\ n \in Nat /\ DOMAIN Batch = 1..n
      /\ \A i \in 1..n : Batch[i] = queue[i] /\ Batch[i] \in Events
  BY BatchFacts
<1> HIDE DEF n
<1>2. PICK g : F!Trace(g, Start, Batch, n) /\ Result = g[n]
  BY <1>1, F!FoldLeftTrace DEF Result
<1>3. /\ g[0] = Start
      /\ \A k \in 1..n : g[k] = HandleEvent(g[k - 1], Batch[k])
  BY <1>2 DEF F!Trace
<1> DEFINE S == {k \in 0..n : /\ g[k] \in Results
                              /\ \A key \in Modifiers : key \in g[k].modifiers <=>
                                     Down(queue, k, key, key \in modifiers)}
<1>4. 0 \in S
  <2>1. g[0] \in Results /\ g[0].modifiers = modifiers
    BY <1>3, StartType DEF Start
  <2>2. 0 \in 0..n
    BY <1>1
  <2>3. QED
    BY <2>1, <2>2 DEF Down
<1>5. ASSUME NEW k \in 0..(n - 1), k \in S
      PROVE  k + 1 \in S
  <2>1. k \in Nat /\ k + 1 \in 1..n /\ k + 1 \in 0..n /\ (k + 1) - 1 = k
    BY <1>1
  <2>2. /\ g[k + 1] = HandleEvent(g[k], Batch[k + 1])
        /\ Batch[k + 1] = queue[k + 1] /\ Batch[k + 1] \in Events
    BY <1>1, <1>3, <2>1
  <2>3. g[k] \in Results
    BY <1>5
  <2>4. g[k + 1] \in Results
    BY <2>2, <2>3, HandleEventType
  <2>5. ASSUME NEW key \in Modifiers
        PROVE  key \in g[k + 1].modifiers <=>
                   Down(queue, k + 1, key, key \in modifiers)
    <3>1. key \in g[k + 1].modifiers <=>
              IF IsKey(queue[k + 1], key) THEN queue[k + 1].value # 0
              ELSE key \in g[k].modifiers
      BY <2>2, <2>3, HandleEventModifier
    <3>2. key \in g[k].modifiers <=> Down(queue, k, key, key \in modifiers)
      BY <1>5
    <3>3. Down(queue, k + 1, key, key \in modifiers) <=>
              IF IsKey(queue[k + 1], key) THEN queue[k + 1].value # 0
              ELSE Down(queue, k, key, key \in modifiers)
      <4>1. (key \in modifiers) \in BOOLEAN
        OBVIOUS
      <4>2. QED
        BY <2>1, <4>1, DownNext
    <3>4. QED
      BY <3>1, <3>2, <3>3
  <2>6. QED
    BY <2>1, <2>4, <2>5
<1> HIDE DEF S
<1>6. \A k \in 0..n : k \in S
  BY <1>1, <1>4, <1>5, F!IntervalInduction
<1>7. n \in S
  BY <1>1, <1>6
<1>8. QED
  BY <1>2, <1>7 DEF S, n

-----------------------------------------------------------------------------
(* Types *)

(* A packet that is queued keeps the types. *)
LEMMA QueuesType ==
    ASSUME TypeOK, NEW packet \in Seq(Events), Queues(packet)
    PROVE  /\ queue' \in Seq(Events) /\ Len(queue') <= MaxQueue
           /\ folded' \in BOOLEAN
           /\ UNCHANGED <<modifiers, host, process>>
BY DEF Queues, TypeOK

(* The types are kept by every step. *)
LEMMA TypeStep ==
    ASSUME TypeOK, [Next]_vars
    PROVE  TypeOK'
<1>1. ASSUME NEW key \in Keys, Press(key) \/ Release(key) \/ Repeat(key)
      PROVE  TypeOK'
  <2>1. /\ Moved(key, 1) \in Seq(Events) /\ Moved(key, 0) \in Seq(Events)
        /\ <<KeyEvent(key, 2), [type |-> "report"]>> \in Seq(Events)
    BY PacketTypes
  <2>2. pressed' \subseteq Keys
    BY <1>1 DEF Press, Release, Repeat, TypeOK
  <2>3. PICK packet \in Seq(Events) : Queues(packet)
    BY <1>1, <2>1 DEF Press, Release, Repeat
  <2>4. QED
    BY <2>2, <2>3, QueuesType DEF TypeOK
<1>2. CASE Proxy
  <2>1. Result \in Results
    BY ResultOfBatch
  <2>2. /\ Result.modifiers \subseteq Modifiers /\ Result.mods \subseteq Keys
        /\ Result.keys \in Seq(Keys \cup {Nothing}) /\ Len(Result.keys) <= MaxKeys
    BY <2>1, ConstantsAssumption DEF Results
  <2>3. [mods |-> Result.mods, keys |-> Result.keys] \in Reports
    BY <2>2 DEF Reports
  <2>4. host' \in Reports /\ Len(host'.keys) <= MaxKeys
        /\ modifiers' \subseteq Modifiers /\ folded' \in BOOLEAN
    <3>1. [mods |-> Result.mods, keys |-> Result.keys].keys = Result.keys
      OBVIOUS
    <3>2. Writes(Result)
      BY <1>2, ProxyWritesResult
    <3>3. modifiers' = Result.modifiers
      BY <3>2 DEF Writes
    <3>4. CASE /\ host' = [mods |-> Result.mods, keys |-> Result.keys]
               /\ folded' = DownAndUp(Batch)
      <4>1. DownAndUp(Batch) \in BOOLEAN
        BY DEF DownAndUp
      <4>2. QED
        BY <2>2, <2>3, <3>1, <3>3, <3>4, <4>1 DEF TypeOK
    <3>5. CASE host' = host /\ folded' = TRUE
      BY <2>2, <3>3, <3>5 DEF TypeOK
    <3>6. QED
      BY <3>2, <3>4, <3>5 DEF Writes
  <2>5. queue' \in Seq(Events) /\ Len(queue') <= MaxQueue
    <3>1. queue' = SubSeq(queue, BatchLength + 1, Len(queue))
      BY <1>2, ProxyWritesResult DEF Takes
    <3>2. queue \in Seq(Events) /\ Len(queue) <= MaxQueue /\ MaxQueue \in Nat
      BY ConstantsAssumption DEF TypeOK
    <3>3. BatchLength \in Nat /\ BatchLength <= Len(queue) /\ Len(queue) \in Nat
      BY BatchFacts
    <3>4. /\ SubSeq(queue, BatchLength + 1, Len(queue)) \in Seq(Events)
          /\ Len(SubSeq(queue, BatchLength + 1, Len(queue))) <= Len(queue)
      BY <3>2, <3>3
    <3>5. QED
      BY <3>1, <3>2, <3>3, <3>4
  <2>6. QED
    BY <1>2, <2>4, <2>5, ProxyWritesResult DEF Takes, TypeOK
<1>3. CASE ProxyEnds
  BY <1>3 DEF ProxyEnds, TypeOK
<1>4. CASE UNCHANGED vars
  BY <1>4 DEF vars, TypeOK
<1>5. QED
  BY <1>1, <1>2, <1>3, <1>4 DEF Next

(* A report never holds more keys than it has room for, and modifiers holds
   modifiers only. *)
THEOREM TypeCorrect == Spec => []TypeOK
<1>1. Init => TypeOK
  <2> SUFFICES ASSUME Init PROVE TypeOK
    OBVIOUS
  <2>1. host \in Reports /\ host.keys = <<>>
    BY DEF Init, Reports
  <2>2. queue = <<>> /\ queue \in Seq(Events)
    BY DEF Init
  <2>3. MaxKeys \in Nat /\ MaxQueue \in Nat
    BY ConstantsAssumption
  <2>4. Len(host.keys) <= MaxKeys /\ Len(queue) <= MaxQueue
    BY <2>1, <2>2, <2>3
  <2>5. /\ pressed = {} /\ modifiers = {} /\ folded \in BOOLEAN
        /\ process \in {"running", "exited", "aborted"}
    BY DEF Init
  <2>6. QED
    BY <2>1, <2>2, <2>4, <2>5 DEF TypeOK
<1>2. TypeOK /\ [Next]_vars => TypeOK'
  BY TypeStep
<1>3. QED
  BY <1>1, <1>2, PTL DEF Spec

-----------------------------------------------------------------------------
(* The modifiers *)

(* A packet with one event of a key moves that key, and no other. *)
LEMMA PacketLeaves ==
    ASSUME TypeOK, NEW moved \in Keys, NEW v \in 0..2, NEW packet,
           packet = Moved(moved, v) \/ packet = <<KeyEvent(moved, v), [type |-> "report"]>>,
           NEW key, NEW before \in BOOLEAN
    PROVE  Down(queue \o packet, Len(queue \o packet), key, before) <=>
               IF key = moved THEN v # 0 ELSE Down(queue, Len(queue), key, before)
<1> DEFINE n == Len(queue)
           all == queue \o packet
<1>1. n \in Nat /\ queue \in Seq(Events)
  BY DEF TypeOK
<1>2. /\ ~IsKey([type |-> "scan"], key) /\ ~IsKey([type |-> "report"], key)
      /\ IsKey(KeyEvent(moved, v), key) <=> key = moved
      /\ KeyEvent(moved, v).value = v
  BY DEF IsKey, KeyEvent
<1>3. CASE packet = Moved(moved, v)
  <2>1. /\ Len(all) = ((n + 1) + 1) + 1
        /\ \A i \in 1..n : all[i] = queue[i]
        /\ all[n + 1] = [type |-> "scan"]
        /\ all[(n + 1) + 1] = KeyEvent(moved, v)
        /\ all[((n + 1) + 1) + 1] = [type |-> "report"]
    BY <1>1, <1>3 DEF Moved
  <2> HIDE DEF all, n
  <2>2. Down(all, n, key, before) <=> Down(queue, n, key, before)
    BY <1>1, <2>1, DownSame
  <2>3. Down(all, n + 1, key, before) <=> Down(all, n, key, before)
    BY <1>1, <1>2, <2>1, DownNext
  <2>4. Down(all, (n + 1) + 1, key, before) <=>
            IF key = moved THEN v # 0 ELSE Down(all, n + 1, key, before)
    BY <1>1, <1>2, <2>1, DownNext
  <2>5. Down(all, ((n + 1) + 1) + 1, key, before) <=> Down(all, (n + 1) + 1, key, before)
    BY <1>1, <1>2, <2>1, DownNext
  <2>6. QED
    BY <2>1, <2>2, <2>3, <2>4, <2>5 DEF all, n
<1>4. CASE packet = <<KeyEvent(moved, v), [type |-> "report"]>>
  <2>1. /\ Len(all) = (n + 1) + 1
        /\ \A i \in 1..n : all[i] = queue[i]
        /\ all[n + 1] = KeyEvent(moved, v)
        /\ all[(n + 1) + 1] = [type |-> "report"]
    BY <1>1, <1>4
  <2> HIDE DEF all, n
  <2>2. Down(all, n, key, before) <=> Down(queue, n, key, before)
    BY <1>1, <2>1, DownSame
  <2>3. Down(all, n + 1, key, before) <=>
            IF key = moved THEN v # 0 ELSE Down(all, n, key, before)
    BY <1>1, <1>2, <2>1, DownNext
  <2>4. Down(all, (n + 1) + 1, key, before) <=> Down(all, n + 1, key, before)
    BY <1>1, <1>2, <2>1, DownNext
  <2>5. QED
    BY <2>1, <2>2, <2>3, <2>4 DEF all, n
<1>5. QED
  BY <1>3, <1>4

(* A change of a key is queued, and the proxy takes from the other end. *)
LEMMA QueueStep ==
    ASSUME TypeOK, QueueLeadsToPressed, [Next]_vars
    PROVE  QueueLeadsToPressed'
<1>1. ASSUME NEW moved \in Keys, Press(moved) \/ Release(moved) \/ Repeat(moved)
      PROVE  QueueLeadsToPressed'
  <2> DEFINE Packets(v) == {Moved(moved, v), <<KeyEvent(moved, v), [type |-> "report"]>>}
  <2>0. PICK v \in 0..2 : \E packet \in Packets(v) :
            /\ Queues(packet)
            /\ pressed' = IF v # 0 THEN pressed \cup {moved} ELSE pressed \ {moved}
    BY <1>1 DEF Press, Release, Repeat
  <2>1. PICK packet :
            /\ packet = Moved(moved, v) \/ packet = <<KeyEvent(moved, v), [type |-> "report"]>>
            /\ Queues(packet)
            /\ pressed' = IF v # 0 THEN pressed \cup {moved} ELSE pressed \ {moved}
    BY <2>0
  <2>2. queue' = queue \o packet /\ UNCHANGED modifiers
    BY <2>1 DEF Queues
  <2>3. ASSUME NEW key \in Modifiers
        PROVE  key \in pressed' <=> Down(queue', Len(queue'), key, key \in modifiers)
    <3>1. (key \in modifiers) \in BOOLEAN
      OBVIOUS
    <3>2. Down(queue', Len(queue'), key, key \in modifiers) <=>
              IF key = moved THEN v # 0 ELSE Down(queue, Len(queue), key, key \in modifiers)
      <4> DEFINE before == key \in modifiers
      <4>1. before \in BOOLEAN
        BY <3>1
      <4> HIDE DEF before
      <4>2. Down(queue \o packet, Len(queue \o packet), key, before) <=>
                IF key = moved THEN v # 0 ELSE Down(queue, Len(queue), key, before)
        BY <2>1, <4>1, PacketLeaves
      <4>3. QED
        BY <2>2, <4>2 DEF before
    <3>3. key \in pressed <=> Down(queue, Len(queue), key, key \in modifiers)
      BY DEF QueueLeadsToPressed
    <3>4. QED
      BY <2>1, <3>2, <3>3
  <2>4. QED
    BY <2>2, <2>3 DEF QueueLeadsToPressed
<1>2. CASE Proxy
  <2> DEFINE m == BatchLength
             n == Len(queue) - BatchLength
             rest == SubSeq(queue, BatchLength + 1, Len(queue))
  <2>1. m \in Nat /\ n \in Nat /\ Len(queue) = m + n
    BY BatchFacts
  <2>2. Len(rest) = n /\ \A i \in 1..n : rest[i] = queue[m + i]
    BY BatchFacts DEF TypeOK
  <2>3. queue' = rest /\ UNCHANGED pressed /\ modifiers' = Result.modifiers
    BY <1>2, ProxyWritesResult DEF Takes, Writes
  <2>4. ASSUME NEW key \in Modifiers
        PROVE  key \in modifiers' <=> Down(queue, m, key, key \in modifiers)
    BY <2>3, ResultOfBatch
  <2> HIDE DEF m, n, rest
  <2>5. ASSUME NEW key \in Modifiers
        PROVE  key \in pressed <=> Down(rest, n, key, key \in modifiers')
    <3>1. (key \in modifiers) \in BOOLEAN
      OBVIOUS
    <3>2. Down(queue, m + n, key, key \in modifiers) <=>
              Down(rest, n, key, Down(queue, m, key, key \in modifiers))
      BY <2>1, <2>2, <3>1, DownSplit
    <3>3. Down(rest, n, key, Down(queue, m, key, key \in modifiers)) <=>
              Down(rest, n, key, key \in modifiers')
      BY <2>4 DEF Down
    <3>4. QED
      BY <2>1, <3>2, <3>3 DEF QueueLeadsToPressed
  <2>6. QED
    BY <2>2, <2>3, <2>5 DEF QueueLeadsToPressed
<1>3. CASE ProxyEnds \/ UNCHANGED vars
  BY <1>3 DEF ProxyEnds, vars, QueueLeadsToPressed
<1>4. QED
  BY <1>1, <1>2, <1>3 DEF Next

(* The modifiers of main and the events that wait lead to the keys that are
   down. *)
THEOREM QueueLeads == Spec => []QueueLeadsToPressed
<1>1. Init => QueueLeadsToPressed
  BY DEF Init, QueueLeadsToPressed, Down
<1>2. TypeOK /\ QueueLeadsToPressed /\ [Next]_vars => QueueLeadsToPressed'
  BY QueueStep
<1>3. QED
  BY <1>1, <1>2, TypeCorrect, PTL DEF Spec

(* Once all events are read, the modifiers are those that are down. *)
LEMMA AtRest ==
    ASSUME TypeOK, QueueLeadsToPressed
    PROVE  ModifiersAtRest
<1> SUFFICES ASSUME queue = <<>>
             PROVE  modifiers = pressed \cap Modifiers
  BY DEF ModifiersAtRest
<1>1. ASSUME NEW key \in Modifiers
      PROVE  key \in pressed <=> key \in modifiers
  BY DEF QueueLeadsToPressed, Down
<1>2. modifiers \subseteq Modifiers
  BY DEF TypeOK
<1>3. QED
  BY <1>1, <1>2

(* However the events fall into batches of whatever size, the modifiers
   remembered are those that are down once all events are read. *)
THEOREM ModifiersRight == Spec => []ModifiersAtRest
<1>1. TypeOK /\ QueueLeadsToPressed => ModifiersAtRest
  BY AtRest
<1>2. QED
  BY <1>1, TypeCorrect, QueueLeads, PTL

-----------------------------------------------------------------------------
(* The host *)

(* One event leaves in the report the modifiers of main, if it is the event of a
   key or they were there, and the keys that were there or its own. *)
LEMMA HandleEventReport ==
    ASSUME NEW acc \in Results, NEW event \in Events
    PROVE  /\ event.type = "key" \/ acc.mods = acc.modifiers =>
                  HandleEvent(acc, event).mods = HandleEvent(acc, event).modifiers
           /\ \A u \in ToSet(HandleEvent(acc, event).keys) :
                  u \in ToSet(acc.keys) \/ (IsDown(event) /\ u = Usage(event.code))
<1>1. CASE event.type # "key"
  BY <1>1 DEF HandleEvent
<1>2. CASE event.type = "key"
  <2>1. HandleEvent(acc, event).mods = HandleEvent(acc, event).modifiers
    BY <1>2 DEF HandleEvent
  <2>2. CASE event.value # 0 /\ Len(acc.keys) < MaxKeys
    <3>1. HandleEvent(acc, event).keys = Append(acc.keys, Usage(event.code))
      BY <1>2, <2>2 DEF HandleEvent
    <3>2. acc.keys \in Seq(Keys \cup {Nothing})
      BY DEF Results
    <3>3. ToSet(Append(acc.keys, Usage(event.code))) = ToSet(acc.keys) \cup {Usage(event.code)}
      <4> DEFINE n == Len(acc.keys)
                 more == Append(acc.keys, Usage(event.code))
      <4>1. /\ n \in Nat /\ DOMAIN acc.keys = 1..n /\ DOMAIN more = 1..(n + 1)
            /\ \A i \in 1..n : more[i] = acc.keys[i]
            /\ more[n + 1] = Usage(event.code)
        BY <3>2
      <4>2. 1..(n + 1) = 1..n \cup {n + 1}
        BY <4>1
      <4> HIDE DEF n, more
      <4>3. QED
        BY <4>1, <4>2 DEF ToSet, more
    <3>4. QED
      BY <1>2, <2>1, <2>2, <3>1, <3>3 DEF IsDown
  <2>3. CASE ~(event.value # 0 /\ Len(acc.keys) < MaxKeys)
    <3>1. HandleEvent(acc, event).keys = acc.keys
      BY <1>2, <2>3 DEF HandleEvent
    <3>2. QED
      BY <2>1, <3>1
  <2>4. QED
    BY <2>2, <2>3
<1>3. QED
  BY <1>1, <1>2

(* The report of a batch that takes all there is shows the modifiers of main,
   and only keys that an event of it puts there. *)
LEMMA ReportOfBatch ==
    ASSUME TypeOK, EndsWithKey, BatchLength = Len(queue), Len(queue) > 1
    PROVE  /\ Result.mods = Result.modifiers
           /\ \A u \in ToSet(Result.keys) :
                  \E i \in 1..Len(queue) : IsDown(queue[i]) /\ u = Usage(queue[i].code)
<1> DEFINE n == BatchLength
<1>1. /\ n \in Nat /\ DOMAIN Batch = 1..n /\ n = Len(queue) /\ n > 1
      /\ \A i \in 1..n : Batch[i] = queue[i] /\ Batch[i] \in Events
  BY BatchFacts
<1>2. queue[n - 1].type = "key"
  BY <1>1 DEF EndsWithKey
<1> HIDE DEF n
<1>3. PICK g : F!Trace(g, Start, Batch, n) /\ Result = g[n]
  BY <1>1, F!FoldLeftTrace DEF Result, n
<1>4. /\ g[0] = Start
      /\ \A k \in 1..n : g[k] = HandleEvent(g[k - 1], Batch[k])
  BY <1>3 DEF F!Trace
<1> DEFINE S == {k \in 0..n : /\ g[k] \in Results
                              /\ \A u \in ToSet(g[k].keys) : \E i \in 1..k :
                                     IsDown(queue[i]) /\ u = Usage(queue[i].code)}
<1>5. 0 \in S
  <2>1. g[0] \in Results /\ g[0].keys = <<>>
    BY <1>4, StartType DEF Start
  <2>2. 0 \in 0..n /\ ToSet(<<>>) = {}
    BY <1>1 DEF ToSet
  <2>3. QED
    BY <2>1, <2>2
<1>6. ASSUME NEW k \in 0..(n - 1), k \in S
      PROVE  k + 1 \in S
  <2>1. /\ k \in Nat /\ k + 1 \in 1..n /\ k + 1 \in 0..n /\ (k + 1) - 1 = k
        /\ 1..k \subseteq 1..(k + 1) /\ k + 1 \in 1..(k + 1)
    BY <1>1
  <2>2. /\ g[k + 1] = HandleEvent(g[k], queue[k + 1]) /\ queue[k + 1] \in Events
        /\ g[k] \in Results
    BY <1>1, <1>4, <1>6, <2>1
  <2>3. g[k + 1] \in Results
    BY <2>2, HandleEventType
  <2>4. \A u \in ToSet(g[k + 1].keys) :
            u \in ToSet(g[k].keys) \/ (IsDown(queue[k + 1]) /\ u = Usage(queue[k + 1].code))
    BY <2>2, HandleEventReport
  <2>5. \A u \in ToSet(g[k].keys) : \E i \in 1..k :
            IsDown(queue[i]) /\ u = Usage(queue[i].code)
    BY <1>6
  <2>6. ASSUME NEW u \in ToSet(g[k + 1].keys)
        PROVE  \E i \in 1..(k + 1) : IsDown(queue[i]) /\ u = Usage(queue[i].code)
    BY <2>1, <2>4, <2>5, Zenon
  <2>7. QED
    BY <2>1, <2>3, <2>6
<1> HIDE DEF S
<1>7. \A k \in 0..n : k \in S
  BY <1>1, <1>5, <1>6, F!IntervalInduction
<1>8. /\ g[n - 1] = HandleEvent(g[(n - 1) - 1], queue[n - 1])
      /\ g[n] = HandleEvent(g[n - 1], queue[n])
      /\ queue[n - 1] \in Events /\ queue[n] \in Events
  <2>1. n - 1 \in 1..n /\ n \in 1..n
    BY <1>1
  <2>2. QED
    BY <1>1, <1>4, <2>1
<1>9. g[(n - 1) - 1] \in Results /\ g[n - 1] \in Results
  <2>1. (n - 1) - 1 \in 0..n /\ n - 1 \in 0..n
    BY <1>1
  <2>2. QED
    BY <1>7, <2>1 DEF S
<1>10. g[n - 1].mods = g[n - 1].modifiers
  BY <1>2, <1>8, <1>9, HandleEventReport
<1>11. g[n].mods = g[n].modifiers
  BY <1>8, <1>9, <1>10, HandleEventReport
<1>12. n \in S
  BY <1>1, <1>7
<1>13. QED
  BY <1>1, <1>3, <1>11, <1>12 DEF S

(* A packet is queued: its event, if it puts its key in the report, is that of a
   key that is down, and a key that is let go of has its event behind all. *)
LEMMA QueuedStep ==
    ASSUME TypeOK, HostInv, NEW key \in Keys, Press(key) \/ Release(key) \/ Repeat(key)
    PROVE  HostInv'
<1> DEFINE n == Len(queue)
<1>1. PICK v \in 0..2 : \E packet \in {Moved(key, v), <<KeyEvent(key, v), [type |-> "report"]>>} :
          /\ Queues(packet)
          /\ pressed' = IF v # 0 THEN pressed \cup {key} ELSE pressed \ {key}
  BY DEF Press, Release, Repeat
<1>2. PICK packet : /\ packet = Moved(key, v) \/ packet = <<KeyEvent(key, v), [type |-> "report"]>>
                    /\ queue' = queue \o packet
                    /\ pressed' = IF v # 0 THEN pressed \cup {key} ELSE pressed \ {key}
  BY <1>1 DEF Queues
<1>3. PICK m \in {1, 2} :
          /\ Len(queue') = (n + m) + 1 /\ n \in Nat
          /\ \A i \in 1..n : queue'[i] = queue[i]
          /\ queue'[n + m] = KeyEvent(key, v)
          /\ \A i \in (n + 1)..((n + m) + 1) : i # n + m => ~IsDown(queue'[i])
  <2>1. queue \in Seq(Events) /\ n \in Nat
    BY DEF TypeOK
  <2>2. CASE packet = Moved(key, v)
    <3>1. /\ Len(queue') = (n + 2) + 1 /\ \A i \in 1..n : queue'[i] = queue[i]
          /\ queue'[n + 1] = [type |-> "scan"] /\ queue'[n + 2] = KeyEvent(key, v)
          /\ queue'[n + 3] = [type |-> "report"]
      BY <1>2, <2>1, <2>2 DEF Moved
    <3>2. ~IsDown([type |-> "scan"]) /\ ~IsDown([type |-> "report"])
      BY DEF IsDown
    <3>3. \A i \in (n + 1)..((n + 2) + 1) : i # n + 2 => i = n + 1 \/ i = n + 3
      BY <2>1
    <3>4. QED
      BY <2>1, <3>1, <3>2, <3>3
  <2>3. CASE packet = <<KeyEvent(key, v), [type |-> "report"]>>
    <3>1. /\ Len(queue') = (n + 1) + 1 /\ \A i \in 1..n : queue'[i] = queue[i]
          /\ queue'[n + 1] = KeyEvent(key, v) /\ queue'[n + 2] = [type |-> "report"]
      BY <1>2, <2>1, <2>3
    <3>2. ~IsDown([type |-> "report"])
      BY DEF IsDown
    <3>3. \A i \in (n + 1)..((n + 1) + 1) : i # n + 1 => i = n + 2
      BY <2>1
    <3>4. QED
      BY <2>1, <3>1, <3>2, <3>3
  <2>4. QED
    BY <1>2, <2>2, <2>3
<1> HIDE DEF n
<1>4. /\ KeyEvent(key, v).type = "key" /\ KeyEvent(key, v).code = key
      /\ KeyEvent(key, v).value = v
  BY DEF KeyEvent
<1>5. DownIsPressed'
  <2> SUFFICES ASSUME NEW i \in 1..Len(queue'), IsDown(queue'[i])
               PROVE  \/ queue'[i].code \in pressed'
                      \/ \E j \in (i + 1)..Len(queue') : queue'[j] = KeyEvent(queue'[i].code, 0)
    BY DEF DownIsPressed, IsDown
  <2>1. i \in 1..n \/ i = n + m
    BY <1>3
  <2>2. CASE i = n + m
    <3>1. v # 0 /\ queue'[i].code = key
      BY <1>3, <1>4, <2>2 DEF IsDown
    <3>2. QED
      BY <1>2, <3>1
  <2>3. CASE i \in 1..n
    <3>1. queue'[i] = queue[i]
      BY <1>3, <2>3
    <3>2. \/ queue[i].code \in pressed
          \/ \E j \in (i + 1)..n : queue[j] = KeyEvent(queue[i].code, 0)
      BY <2>3, <3>1 DEF HostInv, DownIsPressed, n
    <3>3. \A j \in (i + 1)..n : j \in 1..n /\ j \in (i + 1)..Len(queue')
      BY <1>3, <2>3
    <3>4. CASE \E j \in (i + 1)..n : queue[j] = KeyEvent(queue[i].code, 0)
      BY <1>3, <3>1, <3>3, <3>4
    <3>5. CASE queue[i].code \in pressed /\ queue[i].code \notin pressed'
      <4>1. queue[i].code = key /\ v = 0
        BY <1>2, <3>5
      <4>2. n + m \in (i + 1)..Len(queue')
        BY <1>3, <2>3
      <4>3. QED
        BY <1>3, <3>1, <4>1, <4>2
    <3>6. QED
      BY <3>1, <3>2, <3>4, <3>5
  <2>4. QED
    BY <2>1, <2>2, <2>3
<1>6. EndsWithKey'
  <2>1. Len(queue') - 1 = n + m
    BY <1>3
  <2>2. QED
    BY <1>3, <1>4, <2>1 DEF EndsWithKey
<1>7. HostInStep'
  <2>1. Len(queue') # 0
    BY <1>3
  <2>2. queue' # <<>>
    BY <2>1
  <2>3. QED
    BY <2>2 DEF HostInStep
<1>8. QED
  BY <1>5, <1>6, <1>7 DEF HostInv

(* A batch is taken: what is left of the queue is its end, and when nothing is,
   the report is that of all its keys that stay down. *)
LEMMA TakenStep ==
    ASSUME TypeOK, QueueLeadsToPressed, HostInv, Proxy
    PROVE  HostInv'
<1> DEFINE m == BatchLength
           n == Len(queue) - BatchLength
<1>1. /\ m \in Nat /\ n \in Nat /\ Len(queue) = m + n /\ m > 1
      /\ queue \in Seq(Events)
  BY BatchFacts DEF Proxy, TypeOK
<1>2. /\ Writes(Result) /\ UNCHANGED pressed
      /\ queue' = SubSeq(queue, BatchLength + 1, Len(queue))
  BY ProxyWritesResult DEF Takes
<1>3. Len(queue') = n /\ \A i \in 1..n : queue'[i] = queue[m + i]
  <2> DEFINE rest == SubSeq(queue, BatchLength + 1, Len(queue))
  <2>1. Len(rest) = n /\ \A i \in 1..n : rest[i] = queue[m + i]
    BY BatchFacts DEF TypeOK
  <2>2. queue' = rest
    BY <1>2
  <2> HIDE DEF rest
  <2>3. QED
    BY <2>1, <2>2
<1>4. /\ \A i \in 1..m : Batch[i] = queue[i]
      /\ Len(Batch) = m
  BY BatchFacts
<1> HIDE DEF m, n
<1>5. DownIsPressed'
  <2> SUFFICES ASSUME NEW i \in 1..n, IsDown(queue'[i])
               PROVE  \/ queue'[i].code \in pressed'
                      \/ \E j \in (i + 1)..n : queue'[j] = KeyEvent(queue'[i].code, 0)
    BY <1>3 DEF DownIsPressed, IsDown
  <2>1. m + i \in 1..Len(queue) /\ queue'[i] = queue[m + i]
    BY <1>1, <1>3
  <2>2. \/ queue[m + i].code \in pressed
        \/ \E j \in ((m + i) + 1)..Len(queue) : queue[j] = KeyEvent(queue[m + i].code, 0)
    BY <2>1 DEF HostInv, DownIsPressed
  <2>3. ASSUME NEW j \in ((m + i) + 1)..Len(queue)
        PROVE  j - m \in (i + 1)..n /\ j - m \in 1..n /\ m + (j - m) = j
    BY <1>1
  <2>4. ASSUME NEW j \in ((m + i) + 1)..Len(queue), queue[j] = KeyEvent(queue[m + i].code, 0)
        PROVE  queue'[j - m] = KeyEvent(queue'[i].code, 0)
    BY <1>3, <2>1, <2>3, <2>4
  <2>5. QED
    BY <1>2, <2>1, <2>2, <2>3, <2>4
<1>6. EndsWithKey'
  <2> SUFFICES ASSUME n > 1
               PROVE  queue'[n - 1].type = "key"
    BY <1>1, <1>3 DEF EndsWithKey
  <2>1. n - 1 \in 1..n /\ m + (n - 1) = Len(queue) - 1 /\ Len(queue) > 1
    BY <1>1
  <2>2. queue'[n - 1] = queue[Len(queue) - 1]
    BY <1>3, <2>1
  <2>3. QED
    BY <2>1, <2>2 DEF HostInv, EndsWithKey
<1>7. HostInStep'
  <2> SUFFICES ASSUME queue' = <<>>, ~folded'
               PROVE  /\ host'.mods = pressed' \cap Modifiers
                      /\ ToSet(host'.keys) \subseteq {Usage(key) : key \in pressed'}
    BY DEF HostInStep
  <2>1. n = 0 /\ m = Len(queue) /\ Len(queue) > 1
    <3>1. n = 0
      BY <1>3
    <3>2. QED
      BY <1>1, <3>1
  <2>2. /\ host' = [mods |-> Result.mods, keys |-> Result.keys]
        /\ ~DownAndUp(Batch) /\ modifiers' = Result.modifiers
    BY <1>2 DEF Writes
  <2>3. /\ Result.mods = Result.modifiers
        /\ \A u \in ToSet(Result.keys) :
               \E i \in 1..Len(queue) : IsDown(queue[i]) /\ u = Usage(queue[i].code)
    <3>1. EndsWithKey
      BY DEF HostInv
    <3>2. QED
      BY <2>1, <3>1, ReportOfBatch DEF m
  <2>4. ASSUME NEW i \in 1..Len(queue), IsDown(queue[i])
        PROVE  queue[i].code \in pressed
    <3>1. \A j \in (i + 1)..Len(queue) : queue[j] # KeyEvent(queue[i].code, 0)
      <4>1. \A j \in (i + 1)..m : j \in 1..m /\ i \in 1..m
        BY <1>1, <2>1
      <4>2. \A j \in (i + 1)..m : Batch[j] # KeyEvent(Batch[i].code, 0)
        BY <1>4, <2>1, <2>2, <2>4, <4>1 DEF DownAndUp, IsDown
      <4>3. QED
        BY <1>4, <2>1, <4>1, <4>2
    <3>2. QED
      BY <2>4, <3>1 DEF HostInv, DownIsPressed
  <2>5. ToSet(Result.keys) \subseteq {Usage(key) : key \in pressed}
    BY <2>3, <2>4
  <2>6. modifiers' = pressed' \cap Modifiers
    <3>1. Proxy => [Next]_vars
      BY DEF Next
    <3>2. QueueLeadsToPressed' /\ TypeOK'
      BY <3>1, QueueStep, TypeStep
    <3>3. ASSUME NEW held \in Modifiers
          PROVE  held \in pressed' <=> held \in modifiers'
      BY <3>2 DEF QueueLeadsToPressed, Down
    <3>4. modifiers' \subseteq Modifiers
      BY <3>2 DEF TypeOK
    <3>5. QED
      BY <3>3, <3>4
  <2>7. QED
    BY <1>2, <2>2, <2>3, <2>5, <2>6
<1>8. QED
  BY <1>5, <1>6, <1>7 DEF HostInv

(* The host follows the proxy. *)
LEMMA HostStep ==
    ASSUME TypeOK, QueueLeadsToPressed, HostInv, [Next]_vars
    PROVE  HostInv'
<1>1. CASE ProxyEnds
  BY <1>1 DEF ProxyEnds, HostInv, DownIsPressed, EndsWithKey, HostInStep
<1>2. CASE UNCHANGED vars
  BY <1>2 DEF vars, HostInv, DownIsPressed, EndsWithKey, HostInStep
<1>3. QED
  BY <1>1, <1>2, QueuedStep, TakenStep DEF Next

(* Whatever keyboard, batches and failing writes there are: the host shows the
   modifiers that are down and no key that is not, unless a key went down and up
   in the last batch or its write failed. *)
THEOREM HostRight == Spec => []HostInStep
<1>1. Init => HostInv
  <2> SUFFICES ASSUME Init
               PROVE  HostInv
    OBVIOUS
  <2>1. queue = <<>> /\ Len(queue) = 0 /\ ToSet(<<>>) = {}
    BY DEF Init, ToSet
  <2>2. DownIsPressed /\ EndsWithKey
    BY <2>1 DEF DownIsPressed, EndsWithKey
  <2>3. HostInStep
    BY <2>1 DEF Init, HostInStep
  <2>4. QED
    BY <2>2, <2>3 DEF HostInv
<1>2. TypeOK /\ QueueLeadsToPressed /\ HostInv /\ [Next]_vars => HostInv'
  BY HostStep
<1>3. HostInv => HostInStep
  BY DEF HostInv
<1>4. QED
  BY <1>1, <1>2, <1>3, TypeCorrect, QueueLeads, PTL DEF Spec
=============================================================================
