---------------------------- MODULE SpineMotion ----------------------------
(***************************************************************************)
(* franka_spine_server: the MoveAbsolute action and the services of        *)
(* SpineActionServer, and SpineController, which starts a motion over the  *)
(* REST interface of the spine and polls position and state until the      *)
(* motion seems done.  A MultiThreadedExecutor with one reentrant group    *)
(* runs every callback; one lock makes the motions exclusive.              *)
(*                                                                         *)
(* The spine and its web server are external: the spine moves one position *)
(* at a time, may fault, and requests or their responses may be lost.      *)
(***************************************************************************)
EXTENDS Naturals, FiniteSets

CONSTANTS
  Goals,     \* the goals clients send
  NoGoal,    \* no goal
  Top,       \* the spine has the positions 0 .. Top
  None,      \* no position
  Lossy,     \* an HTTP request may fail, before or after it took effect
  Faulty     \* the spine may fault

Positions == 0 .. Top

VARIABLES
  running,    \* rclpy.ok()
  phase,      \* where the callbacks of each goal stand
  aim,        \* the position each goal asks for
  cancel,     \* goal_handle.is_cancel_requested
  result,     \* what the MotionResult of each goal says
  lock,       \* _motion_lock: the goal that holds it
  last,       \* last_position
  stable,     \* position_stable_count
  spine,      \* the state of the spine
  position,   \* where it is
  target      \* where it is moving to; None: it is not

goalVars == <<phase, aim, cancel, result, lock>>
pollVars == <<last, stable>>
spineVars == <<spine, position, target>>
vars == <<running, goalVars, pollVars, spineVars>>

FAULT_STATES == {"Fault", "FaultReactionActive"}

Init ==
  /\ running = TRUE
  /\ phase = [g \in Goals |-> "new"]
  /\ aim = [g \in Goals |-> 0]
  /\ cancel = [g \in Goals |-> FALSE]
  /\ result = [g \in Goals |-> "none"]
  /\ lock = NoGoal
  /\ last = None /\ stable = 0
  /\ spine = "SwitchedOff" /\ position = 0 /\ target = None

---------------------------------------------------------------------------
(* What the requests do when they reach the spine.                         *)

Halts ==
  /\ target' = None
  /\ UNCHANGED <<spine, position>>

Starts(p) ==
  /\ spine = "SwitchedOn"
  /\ target' = IF p = position THEN None ELSE p
  /\ UNCHANGED <<spine, position>>

(* A request whose outcome is not looked at: it may be lost.               *)
Sent(effect) == effect \/ (Lossy /\ UNCHANGED spineVars)

---------------------------------------------------------------------------
(* The MoveAbsolute action                                                 *)

(* _goal_callback()                                                        *)
Accept(g) ==
  /\ running /\ phase[g] = "new"
  /\ lock = NoGoal
  /\ phase' = [phase EXCEPT ![g] = "waiting"]
  /\ \E p \in Positions : aim' = [aim EXCEPT ![g] = p]
  /\ UNCHANGED <<running, cancel, result, lock, pollVars, spineVars>>

Reject(g) ==
  /\ running /\ phase[g] = "new"
  /\ lock # NoGoal
  /\ phase' = [phase EXCEPT ![g] = "rejected"]
  /\ UNCHANGED <<running, aim, cancel, result, lock, pollVars, spineVars>>

(* _cancel_callback(): accepted for every goal that has not ended.         *)
Cancel(g) ==
  /\ running
  /\ phase[g] \notin {"new", "rejected", "over"} /\ ~cancel[g]
  /\ cancel' = [cancel EXCEPT ![g] = TRUE]
  /\ UNCHANGED <<running, phase, aim, result, lock, pollVars, spineVars>>

(* Mutant: a goal that was accepted does not wait for the motion to end.   *)
LockShared(g) ==
  /\ phase[g] = "waiting"
  /\ lock' = g
  /\ phase' = [phase EXCEPT ![g] = "start"]
  /\ UNCHANGED <<running, aim, cancel, result, pollVars, spineVars>>

(* move_absolute()                                                         *)
Lock(g) ==
  /\ phase[g] = "waiting"
  /\ lock = NoGoal
  /\ lock' = g
  /\ phase' = [phase EXCEPT ![g] = "start"]
  /\ UNCHANGED <<running, aim, cancel, result, pollVars, spineVars>>

StartMotion(g) ==
  /\ phase[g] = "start"
  /\ Starts(aim[g])
  /\ phase' = [phase EXCEPT ![g] = "poll"]
  /\ last' = None /\ stable' = 0
  /\ UNCHANGED <<running, aim, cancel, result, lock>>

Returns(g, r) ==
  /\ lock' = NoGoal
  /\ result' = [result EXCEPT ![g] = r]
  /\ phase' = [phase EXCEPT ![g] = "ended"]

(* Refused by the spine, or the request or the response was lost.          *)
StartFails(g) ==
  /\ phase[g] = "start"
  /\ \/ (Lossy \/ spine # "SwitchedOn") /\ UNCHANGED spineVars
     \/ Lossy /\ Starts(aim[g])
  /\ Returns(g, "failed")
  /\ UNCHANGED <<running, aim, cancel, pollVars>>

(* _poll_position_until_done()                                             *)
PollInactive(g) ==
  /\ phase[g] = "poll"
  /\ ~running
  /\ Returns(g, "success")
  /\ UNCHANGED <<running, aim, cancel, pollVars, spineVars>>

PollCancelled(g) ==
  /\ phase[g] = "poll"
  /\ running /\ cancel[g]
  /\ Sent(Halts)
  /\ Returns(g, "cancelled")
  /\ UNCHANGED <<running, aim, cancel, pollVars>>

Counted == IF position = last THEN stable + 1 ELSE 0

(* get_position(): four equal readings in a row end the motion.            *)
PollPosition(g) ==
  /\ phase[g] = "poll"
  /\ running /\ ~cancel[g]
  /\ last' = position
  /\ stable' = Counted
  /\ IF Counted >= 3
     THEN Returns(g, "success")
     ELSE phase' = [phase EXCEPT ![g] = "state"] /\ UNCHANGED <<lock, result>>
  /\ UNCHANGED <<running, aim, cancel, spine, position, target>>

(* Mutant: the position is asked for again at once.                        *)
PollPositionRetries(g) ==
  /\ phase[g] = "poll"
  /\ running /\ ~cancel[g]
  /\ Lossy
  /\ phase' = [phase EXCEPT ![g] = "again"]
  /\ UNCHANGED <<running, aim, cancel, lock, result, pollVars, spineVars>>

PollPositionFails(g) ==
  /\ phase[g] = "poll"
  /\ running /\ ~cancel[g]
  /\ Lossy
  /\ phase' = [phase EXCEPT ![g] = "state"]
  /\ UNCHANGED <<running, aim, cancel, lock, result, pollVars, spineVars>>

(* Mutant: the caller takes what ended the motion for a cancellation.      *)
PollFaultCancels(g) ==
  /\ phase[g] = "state"
  /\ spine \in FAULT_STATES
  /\ Returns(g, "cancelled")
  /\ UNCHANGED <<running, aim, cancel, pollVars, spineVars>>

(* get_state(), then a sleep.  A fault ends the motion, and not as a       *)
(* cancelled one.                                                          *)
PollFault(g) ==
  /\ phase[g] = "state"
  /\ spine \in FAULT_STATES
  /\ Returns(g, "success")
  /\ UNCHANGED <<running, aim, cancel, pollVars, spineVars>>

PollState(g) ==
  /\ phase[g] = "state"
  /\ spine \notin FAULT_STATES \/ Lossy
  /\ phase' = [phase EXCEPT ![g] = "poll"]
  /\ UNCHANGED <<running, aim, cancel, lock, result, pollVars, spineVars>>

(* The goal is set to succeeded, canceled or aborted as the result says.   *)
Finish(g) ==
  /\ phase[g] = "ended"
  /\ phase' = [phase EXCEPT ![g] = "over"]
  /\ UNCHANGED <<running, aim, cancel, lock, result, pollVars, spineVars>>

---------------------------------------------------------------------------
(* The services; those that only ask the spine change nothing.             *)

Service(effect) ==
  /\ running
  /\ effect
  /\ UNCHANGED <<running, goalVars, pollVars>>

HaltService == Service(Halts)

SwitchOn ==
  /\ spine = "SwitchedOff"
  /\ Service(spine' = "SwitchedOn" /\ UNCHANGED <<position, target>>)

SwitchOff ==
  /\ spine = "SwitchedOn"
  /\ Service(spine' = "SwitchedOff" /\ target' = None /\ UNCHANGED position)

FaultReset ==
  /\ spine = "Fault"
  /\ Service(spine' = "SwitchedOff" /\ UNCHANGED <<position, target>>)

---------------------------------------------------------------------------
(* The spine, and the end of the process.                                  *)

SpineMoves ==
  /\ target # None
  /\ position' = IF position < target THEN position + 1 ELSE position - 1
  /\ target' = IF position' = target THEN None ELSE target
  /\ UNCHANGED <<running, goalVars, pollVars, spine>>

SpineFaults ==
  /\ Faulty
  /\ spine = "SwitchedOn"
  /\ spine' = "FaultReactionActive"
  /\ UNCHANGED <<running, goalVars, pollVars, position, target>>

SpineStops ==
  /\ spine = "FaultReactionActive"
  /\ spine' = "Fault" /\ target' = None
  /\ UNCHANGED <<running, goalVars, pollVars, position>>

Shutdown ==
  /\ running
  /\ running' = FALSE
  /\ UNCHANGED <<goalVars, pollVars, spineVars>>

---------------------------------------------------------------------------
GoalNext(g) ==
  \/ Accept(g) \/ Reject(g) \/ Cancel(g)
  \/ Lock(g) \/ StartMotion(g) \/ StartFails(g)
  \/ PollInactive(g) \/ PollCancelled(g) \/ PollPosition(g)
  \/ PollPositionFails(g) \/ PollFault(g) \/ PollState(g) \/ Finish(g)

SpineNext == SpineMoves \/ SpineFaults \/ SpineStops

Services == HaltService \/ SwitchOn \/ SwitchOff \/ FaultReset

Next == (\E g \in Goals : GoalNext(g)) \/ Services \/ SpineNext \/ Shutdown

Spec == Init /\ [][Next]_vars

(* The thread that executes a goal goes on, and so does the spine.         *)
Executes(g) ==
  \/ Lock(g) \/ StartMotion(g) \/ StartFails(g)
  \/ PollInactive(g) \/ PollCancelled(g) \/ PollPosition(g)
  \/ PollPositionFails(g) \/ PollFault(g) \/ PollState(g) \/ Finish(g)

FairSpec ==
  /\ Spec
  /\ \A g \in Goals : WF_vars(Executes(g))
  /\ WF_vars(SpineMoves) /\ WF_vars(SpineStops)

---------------------------------------------------------------------------
TypeOK ==
  /\ running \in BOOLEAN
  /\ phase \in [Goals -> {"new", "rejected", "waiting", "start", "poll", "state",
                          "ended", "over"}]
  /\ aim \in [Goals -> Positions]
  /\ cancel \in [Goals -> BOOLEAN]
  /\ result \in [Goals -> {"none", "success", "failed", "cancelled"}]
  /\ lock \in Goals \cup {NoGoal}
  /\ last \in Positions \cup {None} /\ stable \in 0 .. 3
  /\ spine \in {"SwitchedOff", "SwitchedOn"} \cup FAULT_STATES
  /\ position \in Positions /\ target \in Positions \cup {None}

Moving(g) == phase[g] \in {"start", "poll", "state"}

(* Two goals may be accepted before either takes the lock; still one at a  *)
(* time starts and polls a motion, and it holds the lock.                  *)
OneMotion == \A g \in Goals : Moving(g) => lock = g

(* MoveAbsolute.action: "success" is "True if the target position was      *)
(* reached"; looked at while the node runs.                                *)
SuccessIsReached ==
  [][\A g \in Goals :
       running /\ result[g] = "none" /\ result'[g] = "success" => position = aim[g]]_vars

(* Every goal that is accepted ends, if it is not so that from some time on*)
(* no position can be read: faults, halts and switching off end it too,    *)
(* and so does a position that stands still (_poll_position_until_done).   *)
GoalEnds ==
  (\A g \in Goals : SF_vars(PollPosition(g)))
    => \A g \in Goals : phase[g] = "waiting" ~> phase[g] = "over"

(* A cancel request ends the motion of its goal even if no request reaches *)
(* the spine any more.                                                     *)
CancelEnds == \A g \in Goals : cancel[g] /\ phase[g] # "waiting" ~> phase[g] = "over"

=============================================================================
