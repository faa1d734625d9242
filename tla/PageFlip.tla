------------------------------- MODULE PageFlip -------------------------------
(***************************************************************************)
(* utils/tearing-test.cpp shows two frames in turn: it asks the kernel for *)
(* a page flip and reads the event of it, over and over.  The kernel's     *)
(* side is external: a flip is accepted while none is pending, or refused; *)
(* at the next vertical blank the screen changes and the event is queued.  *)
(***************************************************************************)
EXTENDS Integers

CONSTANT Rounds     \* 100

ASSUME RoundsAssumption == Rounds \in Nat

VARIABLES
    at,        \* where kms() is
    i,         \* the round
    frames,    \* what was drawn: "rows", or the rows "elsewhere"
    screen,    \* what the display shows
    pending,   \* the flip the kernel has accepted
    events,    \* flip events to be read
    refused    \* history: the kernel has refused a flip
flipVars == <<at, i, frames, screen, pending, events, refused>>

Buffers == {"fb0", "fb1"}
None == "none"
Gone == {"done", "exited", "crashed"}

FlipTypeOK ==
    /\ at \in {"create0", "create1", "draw", "first", "show0", "read0", "show1", "read1"}
              \cup Gone
    /\ i \in 0..Rounds
    /\ frames \in {"blank", "rows", "elsewhere"}
    /\ screen \in Buffers \cup {None} /\ pending \in Buffers \cup {None}
    /\ events \in Nat /\ refused \in BOOLEAN

FlipInit ==
    /\ at = "create0" /\ i = 0
    /\ frames = "blank"
    /\ screen = None /\ pending = None /\ events = 0 /\ refused = FALSE

(* Every failure before the loop ends the program. *)
Fatal == at' = "exited" /\ UNCHANGED <<i, frames, screen, pending, events, refused>>

(* createFrameBuffer: create, add, map; any of them may fail. *)
CreateFrameBuffer ==
    /\ at \in {"create0", "create1"}
    /\ \/ /\ at' = IF at = "create0" THEN "create1" ELSE "draw"
          /\ UNCHANGED <<i, frames, screen, pending, events, refused>>
       \/ Fatal

(* The rows are as far apart as an unassigned pitch says: where they belong,
   elsewhere in a buffer, or outside of both. *)
Draw ==
    /\ at = "draw"
    /\ \/ frames' \in {"rows", "elsewhere"} /\ at' = "first"
       \/ at' = "crashed" /\ UNCHANGED frames
    /\ UNCHANGED <<i, screen, pending, events, refused>>

(* showFirstFrame sets the mode, which waits for no event. *)
ShowFirstFrame ==
    /\ at = "first"
    /\ \/ /\ screen' = "fb1"
          /\ at' = IF Rounds > 0 THEN "show0" ELSE "done"
          /\ UNCHANGED <<i, frames, pending, events, refused>>
       \/ Fatal

(* mutant: the flip is asked for and its event is not *)
ShowFrameSilent(fb) ==
    /\ pending = None
    /\ screen' = fb
    /\ UNCHANGED <<pending, events, refused>>

(* show_frame does not look at what the kernel answers. *)
ShowFrame(fb) ==
    \/ pending = None /\ pending' = fb /\ UNCHANGED <<screen, events, refused>>
    \/ refused' = TRUE /\ UNCHANGED <<screen, pending, events>>
Show(from, fb, to) ==
    /\ at = from /\ at' = to
    /\ ShowFrame(fb)
    /\ UNCHANGED <<i, frames>>
Show0 == Show("show0", "fb0", "read0")
Show1 == Show("show1", "fb1", "read1")

(* mutant: the device was opened with O_NONBLOCK *)
ReadEventNow == events' = IF events > 0 THEN events - 1 ELSE 0

(* read() waits for an event. *)
ReadEvent == events > 0 /\ events' = events - 1
Read0 ==
    /\ at = "read0" /\ at' = "show1"
    /\ ReadEvent
    /\ UNCHANGED <<i, frames, screen, pending, refused>>
Read1 ==
    /\ at = "read1"
    /\ ReadEvent
    /\ i' = i + 1
    /\ at' = IF i' < Rounds THEN "show0" ELSE "done"
    /\ UNCHANGED <<frames, screen, pending, refused>>

VerticalBlank ==
    /\ pending # None
    /\ screen' = pending /\ pending' = None
    /\ events' = events + 1
    /\ UNCHANGED <<at, i, frames, refused>>

FlipNext ==
    \/ CreateFrameBuffer \/ Draw \/ ShowFirstFrame
    \/ Show0 \/ Read0 \/ Show1 \/ Read1 \/ VerticalBlank

-----------------------------------------------------------------------------
(* What must hold *)

(* When a flip is asked for, the one before it is on the screen and its event
   is read: none is asked for while another is pending, which the kernel would
   refuse, and no event is left that a later read would take for its own. *)
FlipsInTurn ==
    /\ at = "show0" => screen = "fb1" /\ pending = None /\ events = 0
    /\ at = "show1" => screen = "fb0" /\ pending = None /\ events = 0
    /\ at = "done" => screen = "fb1" /\ pending = None /\ events = 0

(* The test comes to its end unless the kernel refuses a flip, after which the
   read waits for an event that does not come: every other flip is followed by
   one event, and no read takes that of another. *)
FlipsEnd == <>(at \in Gone \/ refused)
=============================================================================
