--------------------------- MODULE KeyboardProxy ---------------------------
(***************************************************************************)
(* keyboard-proxy/main.c: reads the events of a grabbed keyboard in        *)
(* batches, and writes one USB HID report per batch.  Only the modifiers   *)
(* are remembered from a batch to the next.  The keyboard with its event   *)
(* queue, and the USB host, are external.                                  *)
(***************************************************************************)
EXTENDS Naturals, Sequences, SequencesExt

CONSTANTS
    Keys, Modifiers,  \* the keys, and those that are modifiers
    Unmapped,         \* the keys whose key_mappings entry is 0
    MaxRead,          \* events one read returns: 64
    MaxKeys,          \* keys in a report: 6
    MaxQueue,         \* events the kernel queues, at most
    Faults            \* the system calls that may fail

Nothing == "0"   \* the usage code of an unmapped key
ASSUME ConstantsAssumption ==
    /\ Modifiers \subseteq Keys /\ Unmapped \subseteq Keys /\ Nothing \notin Keys
    /\ MaxRead \in Nat \ {0, 1} /\ MaxKeys \in Nat \ {0} /\ MaxQueue \in Nat
    /\ Faults \subseteq {"epoll", "read", "write"}

VARIABLES
    pressed,    \* the keys that are down
    queue,      \* the events that have not been read
    modifiers,  \* the variable of main
    host,       \* the last report the host got
    process,    \* "running", "exited" (main returned) or "aborted" (assert)
    folded      \* history: a key went down and up in the last batch, or its write failed
vars == <<pressed, queue, modifiers, host, process, folded>>

Events == [type : {"key"}, code : Keys, value : 0..2] \cup [type : {"scan", "report"}]
Reports == [mods : SUBSET Keys, keys : Seq(Keys \cup {Nothing})]

(* One type invariant: a report never holds more than MaxKeys keys. *)
TypeOK ==
    /\ pressed \subseteq Keys
    /\ queue \in Seq(Events) /\ Len(queue) <= MaxQueue
    /\ modifiers \subseteq Modifiers
    /\ host \in Reports /\ Len(host.keys) <= MaxKeys
    /\ process \in {"running", "exited", "aborted"}
    /\ folded \in BOOLEAN

Init ==
    /\ pressed = {} /\ queue = <<>>
    /\ modifiers = {}
    /\ host = [mods |-> {}, keys |-> <<>>]
    /\ process = "running"
    /\ folded = FALSE

-----------------------------------------------------------------------------
(* The keyboard: a packet of events for each key that moves or repeats. *)

KeyEvent(key, v) == [type |-> "key", code |-> key, value |-> v]
Queues(packet) ==
    /\ process = "running"
    /\ Len(queue) + Len(packet) <= MaxQueue
    /\ queue' = queue \o packet
    /\ UNCHANGED <<modifiers, host, process, folded>>
Moved(key, v) == <<[type |-> "scan"], KeyEvent(key, v), [type |-> "report"]>>

Press(key) == /\ key \notin pressed
              /\ pressed' = pressed \cup {key}
              /\ Queues(Moved(key, 1))
Release(key) == /\ key \in pressed
                /\ pressed' = pressed \ {key}
                /\ Queues(Moved(key, 0))
Repeat(key) == /\ key \in pressed
               /\ UNCHANGED pressed
               /\ Queues(<<KeyEvent(key, 2), [type |-> "report"]>>)

-----------------------------------------------------------------------------
(* The loop of main *)

Usage(key) == IF key \in Unmapped THEN Nothing ELSE key

(* mutant: a modifier replaces the others *)
HandleEventOverwrites(acc, event) ==
    IF event.type # "key" THEN acc
    ELSE LET mod  == {event.code} \cap Modifiers
             mods == IF event.value # 0 /\ mod # {} THEN mod ELSE acc.modifiers \ mod
         IN  [modifiers |-> mods, mods |-> mods,
              keys |-> IF event.value # 0 /\ Len(acc.keys) < MaxKeys
                         THEN Append(acc.keys, Usage(event.code)) ELSE acc.keys]

(* One event: only keys count, and only they set report[0]; a key that is
   down takes a slot, also when it is a modifier or unmapped. *)
HandleEvent(acc, event) ==
    IF event.type # "key" THEN acc
    ELSE LET mod  == {event.code} \cap Modifiers
             mods == IF event.value # 0 THEN acc.modifiers \cup mod ELSE acc.modifiers \ mod
         IN  [modifiers |-> mods, mods |-> mods,
              keys |-> IF event.value # 0 /\ Len(acc.keys) < MaxKeys
                         THEN Append(acc.keys, Usage(event.code)) ELSE acc.keys]

BatchLength == IF Len(queue) < MaxRead THEN Len(queue) ELSE MaxRead
Batch == SubSeq(queue, 1, BatchLength)

(* A key that goes down, or repeats, and then up: its slot in the report stays. *)
DownAndUp(events) ==
    \E i \in 1..Len(events) : \E j \in (i + 1)..Len(events) :
        /\ events[i].type = "key" /\ events[i].value # 0
        /\ events[j] = KeyEvent(events[i].code, 0)

Polls == process = "running" /\ queue # <<>>
Takes == queue' = SubSeq(queue, BatchLength + 1, Len(queue)) /\ UNCHANGED <<pressed, process>>

(* The report of the batch; a write that fails loses it. *)
Writes(result) ==
    /\ modifiers' = result.modifiers
    /\ \/ /\ host' = [mods |-> result.mods, keys |-> result.keys]
          /\ folded' = DownAndUp(Batch)
       \/ "write" \in Faults /\ UNCHANGED host /\ folded' = TRUE

(* mutant: the report is not cleared for each batch *)
ProxyKeepsReport ==
    /\ Polls /\ BatchLength > 1
    /\ Takes
    /\ Writes(FoldLeft(HandleEvent,
                       [modifiers |-> modifiers, mods |-> host.mods, keys |-> host.keys],
                       Batch))

(* epoll_wait, read, the report of the batch from zero, write. *)
Proxy ==
    /\ Polls /\ BatchLength > 1
    /\ Takes
    /\ Writes(FoldLeft(HandleEvent, [modifiers |-> modifiers, mods |-> {}, keys |-> <<>>],
                       Batch))

(* epoll_wait fails and main returns; a read fails, or returns one event,
   and so does the assert of line 138. *)
ProxyEnds ==
    /\ process = "running"
    /\ \/ "epoll" \in Faults /\ process' = "exited"
       \/ /\ Polls
          /\ BatchLength = 1 \/ "read" \in Faults
          /\ process' = "aborted"
    /\ UNCHANGED <<pressed, queue, modifiers, host, folded>>

Next == \/ \E key \in Keys : Press(key) \/ Release(key) \/ Repeat(key)
        \/ Proxy \/ ProxyEnds
Spec == Init /\ [][Next]_vars

-----------------------------------------------------------------------------
(* What must hold *)

(* However the events fall into batches, the modifiers remembered are those
   that are down once all events are read. *)
ModifiersAtRest == queue = <<>> => modifiers = pressed \cap Modifiers

(* Once all events are read the host shows the modifiers that are down, and no
   key that is not, whatever the batches were and whichever writes failed
   before: a report is made from its batch alone.  Not when a key went down and
   up in the last batch itself, which the report shows as down (lines 178-182)
   until the next event of any key, and not when its write failed. *)
HostInStep ==
    queue = <<>> /\ ~folded =>
        /\ host.mods = pressed \cap Modifiers
        /\ ToSet(host.keys) \subseteq {Usage(key) : key \in pressed}
=============================================================================
