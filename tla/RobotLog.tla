------------------------------ MODULE RobotLog ------------------------------
(***************************************************************************)
(* RobotStateLogger: a ring of the last robot states and the commands that *)
(* preceded them, which a ControlException takes along.                    *)
(***************************************************************************)
LOCAL INSTANCE Naturals

CONSTANTS
  LogSize,   \* log_size_
  NoRow      \* what a slot holds before it is written

ASSUME LogAssumption == LogSize \in Nat

(* The ring after the constructor.                                         *)
EmptyRing == [rows |-> [i \in 0 .. LogSize - 1 |-> NoRow], front |-> 0, size |-> 0]

(* Mutant: the ring is full one row early.                                 *)
LogShort(ring, row) ==
  IF LogSize = 0 THEN ring
  ELSE [rows |-> [ring.rows EXCEPT ![ring.front] = row],
        front |-> (ring.front + 1) % LogSize,
        size |-> IF ring.size + 1 < LogSize THEN ring.size + 1 ELSE LogSize - 1]

(* A log of size zero keeps nothing.                                       *)
Log(ring, row) ==
  IF LogSize = 0 THEN ring
  ELSE [rows |-> [ring.rows EXCEPT ![ring.front] = row],
        front |-> (ring.front + 1) % LogSize,
        size |-> IF ring.size + 1 < LogSize THEN ring.size + 1 ELSE LogSize]

(* The rows flush() returns, the oldest first, and the ring it leaves.     *)
Flushed(ring) ==
  [i \in 1 .. ring.size |-> ring.rows[(ring.front + i - 1) % ring.size]]

Flush(ring) == [ring EXCEPT !.front = 0, !.size = 0]
=============================================================================
