------------------------------- MODULE HvsList -------------------------------
(***************************************************************************)
(* dump_hvs of utils/pv_dumper.cc walks the display list of a channel in   *)
(* the memory of the video scaler, and says what each word of a plane is.  *)
(* A word is its bits that matter, and what the hardware takes it for.     *)
(***************************************************************************)
EXTENDS Integers, SequencesExt

CONSTANT ListWindow     \* 16 words of a list are looked at

Control(words, bit4, bit15) ==
    [end |-> FALSE, valid |-> TRUE, words |-> words, bit4 |-> bit4, bit15 |-> bit15,
     is |-> "control0"]

(* Bit 15 of a Pi before the 4 is a flip. *)
Unity(w, pi4) == IF pi4 THEN w.bit15 ELSE w.bit4

(* What the words from an index on are printed as: any word that the walk comes
   to is a control word, and a valid one has a plane behind it. *)
Scaling(w, pi4) ==
    (IF pi4 THEN <<"control2">> ELSE <<>>) \o (IF Unity(w, pi4) THEN <<>> ELSE <<"word1">>)
Printed(w, pi4) ==
    IF w.end \/ ~w.valid THEN <<"control0">>
    ELSE (<<"control0", "position0">> \o Scaling(w, pi4))
         \o <<"position2", "position3", "pointer0", "pointerctx0", "pitch0">>

(* mutant: the step over a plane forgets the loop's own *)
NextControlPast(w, i) == IF w.valid /\ w.words > 1 THEN i + w.words + 1 ELSE i + 1

NextControl(w, i) == IF w.valid /\ w.words > 1 THEN i + w.words ELSE i + 1

(* A round of the loop of dump_hvs: what is printed at its index, and the index
   of the next round; the word that ends the list ends the loop. *)
PrintedAt(w, pi4, at) ==
    [n \in DOMAIN Printed(w, pi4) |-> <<at + n - 1, Printed(w, pi4)[n]>>]
Visit(walk, d) ==
    LET w == d.list[walk.at]
    IN  IF walk.at >= d.stop THEN walk
        ELSE [at |-> IF w.end THEN d.stop ELSE NextControl(w, walk.at),
              said |-> walk.said \o PrintedAt(w, d.pi4, walk.at)]

(* dump_hvs from listStart: each word that is printed, with its index.  Every
   round goes on by a word or more.  A channel that is off has nothing. *)
DumpHvs(list, enabled, pi4, listStart) ==
    LET display == [list |-> list, pi4 |-> pi4, stop |-> listStart + ListWindow]
    IN  IF enabled
            THEN FoldLeft(Visit, [at |-> listStart, said |-> <<>>],
                          [round \in 1..ListWindow |-> display]).said
            ELSE <<>>

-----------------------------------------------------------------------------
(* The reference: a list as the hardware reads it. *)

ListWords == [end : BOOLEAN, valid : BOOLEAN, words : Nat, bit4 : BOOLEAN, bit15 : BOOLEAN,
              is : STRING]

(* A plane's words; those behind the first may look like anything. *)
PlaneLength(pi4, scaled) == 7 + (IF pi4 THEN 1 ELSE 0) + (IF scaled THEN 1 ELSE 0)
Placing == <<"position2", "position3", "pointer0", "pointerctx0", "pitch0">>
Ahead(pi4, scaled) ==
    CASE pi4 /\ scaled   -> <<"position0", "control2", "word1">>
      [] pi4 /\ ~scaled  -> <<"position0", "control2">>
      [] ~pi4 /\ scaled  -> <<"position0", "word1">>
      [] ~pi4 /\ ~scaled -> <<"position0">>
PlaneParts(pi4, scaled) == Ahead(pi4, scaled) \o Placing
PlaneWords(plane, pi4) ==
    <<Control(PlaneLength(pi4, plane.scaled),
              IF pi4 THEN plane.flip ELSE ~plane.scaled,
              IF pi4 THEN ~plane.scaled ELSE plane.flip)>>
    \o [n \in 1..(PlaneLength(pi4, plane.scaled) - 1) |->
            [plane.looks EXCEPT !.is = PlaneParts(pi4, plane.scaled)[n]]]
EndWord == [end |-> TRUE, valid |-> FALSE, words |-> 0, bit4 |-> FALSE, bit15 |-> FALSE,
            is |-> "control0"]
Beyond == [EndWord EXCEPT !.end = FALSE]

(* The list in memory from index start, and what is to be said of it: of its
   planes, and of its end, that begin within the window. *)
Parts(planes, pi4) == [n \in DOMAIN planes |-> PlaneWords(planes[n], pi4)] \o <<<<EndWord>>>>
ListAt(planes, pi4, start) ==
    LET words == FlattenSeq(Parts(planes, pi4))
    IN  [i \in start..(start + Len(words) + ListWindow) |->
            IF i < start + Len(words) THEN words[i - start + 1] ELSE Beyond]
WordsSeen(planes, pi4, start) ==
    LET parts == Parts(planes, pi4)
        from(n) == Len(FlattenSeq(SubSeq(parts, 1, n - 1)))
    IN  UNION {{<<start + from(n) + k - 1, parts[n][k].is>> : k \in DOMAIN parts[n]} :
               n \in {m \in DOMAIN parts : from(m) < ListWindow}}
=============================================================================
