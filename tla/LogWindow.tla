----------------------------- MODULE LogWindow -----------------------------
(***************************************************************************)
(* What a RobotStateLogger promises: the log of a motion is the sequence   *)
(* of its last rows, at most LogSize of them, the oldest first.            *)
(***************************************************************************)
EXTENDS Naturals, Sequences

CONSTANT LogSize

VARIABLE window

Latest(rows) ==
  IF Len(rows) <= LogSize THEN rows ELSE SubSeq(rows, Len(rows) - LogSize + 1, Len(rows))

Init == window = <<>>

(* A row is added at the end, and what does not fit leaves at the front.   *)
Record ==
  /\ window' # <<>>
  /\ window' = Latest(Append(window, window'[Len(window')]))

Clear == window' = <<>>

Next == Record \/ Clear

Spec == Init /\ [][Next]_window
=============================================================================
