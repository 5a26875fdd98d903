--------------------------- MODULE ActionServers ---------------------------
(***************************************************************************)
(* The three action servers of the ROS nodes side by side: MoveAbsolute of *)
(* franka_spine_server, ptp_motion of franka_hardware, and the actions of  *)
(* franka_gripper.  They are processes of their own that share nothing, so *)
(* each behaviour is one of the servers alone, chosen at the start; what   *)
(* they have in common is what their clients rely on, the life of a goal   *)
(* (ActionGoal) and that every goal ends.                                  *)
(***************************************************************************)
EXTENDS Naturals, Sequences, FiniteSets

CONSTANTS
  Goals, NoGoal,                 \* of SpineMotion and GripperActions
  Top, None, Lossy, Faulty,      \* of SpineMotion
  StopFails, Checked,            \* of GripperActions
  MaxGoals, Targets, Start, WrongSizes \* of PTPMotion

ASSUME ConstantsAssumption ==
  /\ NoGoal \notin Goals
  /\ Top \in Nat /\ None \notin 0 .. Top
  /\ Lossy \in BOOLEAN /\ Faulty \in BOOLEAN
  /\ Checked \subseteq Goals
  /\ StopFails \in BOOLEAN
  /\ MaxGoals \in Nat \ {0}
  /\ Start \notin Targets
  /\ WrongSizes \in BOOLEAN

VARIABLES
  node,     \* the server that runs; the others stay as they began
  running,  \* of each of them: the node is up
  (* Of SpineMotion.                                                       *)
  phase, spineAim, cancel, result, lock, spineLast, stable, spine,
  spinePosition, spineTarget,
  (* Of PTPMotion.                                                         *)
  goal, aim, server, outcome, basis, motionId, handler, futures, last, thread,
  uses, report, control, failed, target, mode, sought, position, seen,
  (* Of GripperActions.                                                    *)
  status, gripperThread, future, stop, service, inbox, busy

Spine == INSTANCE SpineMotion
  WITH aim <- spineAim, last <- spineLast, position <- spinePosition, target <- spineTarget
PTP == INSTANCE PTPMotion
Gripper == INSTANCE GripperActions WITH thread <- gripperThread

spineVars == <<phase, spineAim, cancel, result, lock, spineLast, stable, spine,
               spinePosition, spineTarget>>
ptpVars == <<goal, aim, server, outcome, basis, motionId, handler, futures, last,
             thread, uses, report, control, failed, target, mode, sought, position, seen>>
gripperVars == <<status, gripperThread, future, stop, service, inbox, busy>>
vars == <<node, running, spineVars, ptpVars, gripperVars>>

Init ==
  /\ node \in {"spine", "ptp", "gripper"}
  /\ Spine!Init /\ PTP!Init /\ Gripper!Init

SpineDoes(step) ==
  /\ node = "spine"
  /\ step
  /\ UNCHANGED <<node, ptpVars, gripperVars>>

PtpDoes(step) ==
  /\ node = "ptp"
  /\ step
  /\ UNCHANGED <<node, spineVars, gripperVars>>

GripperDoes(step) ==
  /\ node = "gripper"
  /\ step
  /\ UNCHANGED <<node, spineVars, ptpVars>>

Next == SpineDoes(Spine!Next) \/ PtpDoes(PTP!Next) \/ GripperDoes(Gripper!Next)

Spec == Init /\ [][Next]_vars

(* The fairness of the three modules.                                      *)
FairSpec ==
  /\ Spec
  /\ \A g \in Goals :
       /\ WF_vars(SpineDoes(Spine!Executes(g)))
       /\ WF_vars(GripperDoes(Gripper!GoalNext(g)))
       /\ WF_vars(GripperDoes(Gripper!SendCommand(g)))
  /\ WF_vars(SpineDoes(Spine!SpineMoves)) /\ WF_vars(SpineDoes(Spine!SpineStops))
  /\ WF_vars(GripperDoes(Gripper!Gripper))
  /\ WF_vars(PtpDoes(PTP!Serves)) /\ WF_vars(PtpDoes(PTP!Joined))
  /\ WF_vars(PtpDoes(PTP!Reach)) /\ WF_vars(PtpDoes(PTP!ReadState))
  /\ \A g \in PTP!GoalIds : WF_vars(PtpDoes(PTP!Runs(g)))

---------------------------------------------------------------------------
(* The status of a goal as its clients see it.  Spine goals have one that  *)
(* follows from the result of the motion when the callback ends            *)
(* (_execute_move_absolute); a cancel request makes it canceling.          *)
SpineStatus(g) ==
  CASE phase[g] \in {"new", "rejected"} -> phase[g]
    [] phase[g] = "over" /\ result[g] = "success" -> "succeeded"
    [] phase[g] = "over" /\ result[g] = "failed" -> "aborted"
    [] phase[g] = "over" /\ result[g] = "cancelled" -> "canceled"
    [] OTHER -> IF cancel[g] THEN "canceling" ELSE "executing"

PtpStatus(g) ==
  IF outcome[g] # "none" THEN outcome[g] ELSE IF g <= goal THEN "executing" ELSE "new"

GoalStatus ==
  CASE node = "spine" -> [g \in Goals |-> SpineStatus(g)]
    [] node = "ptp" -> [g \in PTP!GoalIds |-> PtpStatus(g)]
    [] node = "gripper" -> status

(* The goals that no client can send to this server stay new.              *)
AllGoals == Goals \cup PTP!GoalIds

Life == [g \in AllGoals |-> IF g \in DOMAIN GoalStatus THEN GoalStatus[g] ELSE "new"]

Contract == INSTANCE ActionGoal WITH Goals <- AllGoals, status <- Life

(* The three servers implement ActionGoal: no goal is answered twice or    *)
(* changes once it has ended, and canceled() is called only for a goal     *)
(* that is canceling, since rclpy and rclcpp_action throw otherwise; a     *)
(* motion that a fault, a halt or a reflex ended is never called canceled. *)
LifeOfGoals == Contract!Spec

(* Two goals of the spine may be accepted before either takes the lock;    *)
(* still one at a time starts and polls a motion, and it holds the lock    *)
(* (move_absolute).                                                        *)
OneMotion == Spine!OneMotion

(* A ptp goal succeeds by the feedback of its own motion, and has given    *)
(* the control of the robot back by then (getFeedback).                    *)
SuccessIsOwn == PTP!SuccessIsOwn

(* A gripper goal that is over leaves no command or stop behind that could *)
(* hit the command of the next goal (executeCommand).                      *)
OverIsDone == Gripper!OverIsDone

(* Every goal ends, of the spine unless no position can be read any more,  *)
(* of the gripper unless the node does; and the destructor of the ptp node,*)
(* which joins the thread of a motion under way, returns.                  *)
GoalsEnd == Spine!GoalEnds /\ PTP!GoalEnds /\ PTP!DestroyEnds /\ Gripper!GoalEnds

(* A cancel request ends the motion of its goal even if no request reaches *)
(* the spine any more (_poll_position_until_done).                         *)
CancelEnds == Spine!CancelEnds

=============================================================================
