---------------------------- MODULE LatestFrame ----------------------------
(***************************************************************************)
(* What the broadcaster's AsyncBuffer promises: a box that holds the frame *)
(* put in last, until it is taken.  A frame that was not taken in time is  *)
(* replaced, never queued, and what is taken is newer than all taken       *)
(* before it.                                                              *)
(***************************************************************************)
EXTENDS Naturals

CONSTANT Frames  \* the frames there may be; a later one is greater

VARIABLES
  box,    \* the frame in the box; 0: none
  taken   \* the frame taken last; 0: none yet

frameVars == <<box, taken>>

Init == box = 0 /\ taken = 0

Put(f) ==
  /\ f > box /\ f > taken
  /\ box' = f
  /\ UNCHANGED taken

Take ==
  /\ box # 0
  /\ taken' = box
  /\ box' = 0

(* The box is emptied when the broadcaster is configured again.            *)
Empty ==
  /\ box' = 0
  /\ UNCHANGED taken

Next == (\E f \in Frames : Put(f)) \/ Take \/ Empty

Spec == Init /\ [][Next]_frameVars
=============================================================================
