------------------------------ MODULE LzStream ------------------------------
(***************************************************************************)
(* What decompression is: an output that grows by literal bytes, and by    *)
(* matches that repeat what was output a distance ago, byte by byte, so    *)
(* that a match may repeat its own output.  There is no ring buffer here:  *)
(* a distance counts from the end of the output.                           *)
(***************************************************************************)
EXTENDS Naturals, Sequences

CONSTANTS Bytes, Window, Undefined

VARIABLES output,
          match   \* the match under way
streamVars == <<output, match>>

Behind(d) == IF d <= Len(output) THEN output[Len(output) + 1 - d] ELSE Undefined

Init == output = <<>> /\ match = [distance |-> Window, left |-> 0]

Literal(c) == /\ match.left = 0
              /\ output' = Append(output, c)
              /\ UNCHANGED match

Match(d, n) == /\ match.left = 0
               /\ match' = [distance |-> d, left |-> n]
               /\ UNCHANGED output

Repeat == /\ match.left > 0
          /\ output' = Append(output, Behind(match.distance))
          /\ match' = [match EXCEPT !.left = @ - 1]

Next == \/ \E c \in Bytes : Literal(c)
        \/ \E d \in 1..Window, n \in 1..Window : Match(d, n)
        \/ Repeat

Spec == Init /\ [][Next]_streamVars
=============================================================================
