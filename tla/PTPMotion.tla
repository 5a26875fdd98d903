----------------------------- MODULE PTPMotion -----------------------------
(***************************************************************************)
(* franka_hardware: the ptp_motion and error_recovery actions of           *)
(* ActionServer, PTPMotionHandler behind them, and libfranka's             *)
(* AsyncPositionControlHandler behind that.  A goal is served by a         *)
(* callback that polls getFeedback() until the motion is over, while a     *)
(* thread started with std::async commands the target and computes the     *)
(* feedback.  The callbacks of the node share its default, mutually        *)
(* exclusive callback group, so one runs at a time.                        *)
(*                                                                         *)
(* The robot is external: it moves to the target, or stops with a reflex.  *)
(***************************************************************************)
EXTENDS Naturals, FiniteSets

CONSTANTS
  MaxGoals,  \* bound: goals the clients send
  Targets,   \* joint configurations
  Start,     \* where the robot is at first
  WrongSizes \* goals may have a wrong number of joints

GoalIds == 1 .. MaxGoals

(* No handler, motion or target.                                           *)
NoMotion == 0

VARIABLES
  goal,      \* the last goal accepted
  aim,       \* the target of each goal
  server,    \* where ptpMotionAction() stands; "gone": the node is destroyed
  outcome,   \* what became of each goal
  basis,     \* the motion whose feedback it was decided by
  motionId,  \* motion_id_
  handler,   \* position_control_handler_, named after the goal that made it
  futures,   \* the keys of feedback_futures_
  running,   \* running_
  last,      \* last_feedback_, and the motion it is of
  thread,    \* where the thread of each motion stands
  uses,      \* the handler it uses
  report,    \* the value of its future
  control,   \* the handlers with an active_robot_control_
  failed,    \* the handlers whose control_status_ is kAborted
  target,    \* target_position_ of each handler
  mode,      \* robot_mode
  sought,    \* the target the robot was last sent
  position,  \* where it is
  seen       \* current_state_ of franka_hardware::Robot

serverVars == <<goal, aim, server, outcome, basis>>
motionVars == <<motionId, handler, futures, running>>
threadVars == <<last, thread, uses, report>>
controlVars == <<control, failed, target>>
robotVars == <<mode, sought, position>>
vars == <<serverVars, motionVars, threadVars, controlVars, robotVars, seen>>

Feedback(status, motion) == [status |-> status, motion |-> motion]

Init ==
  /\ goal = 0 /\ aim = [g \in GoalIds |-> Start]
  /\ server = "idle"
  /\ outcome = [g \in GoalIds |-> "none"] /\ basis = [g \in GoalIds |-> NoMotion]
  /\ motionId = NoMotion /\ handler = NoMotion /\ futures = {} /\ running = TRUE
  /\ last = Feedback("idle", NoMotion)
  /\ thread = [g \in GoalIds |-> "none"] /\ uses = [g \in GoalIds |-> NoMotion]
  /\ report = [g \in GoalIds |-> Feedback("idle", NoMotion)]
  /\ control = {} /\ failed = {} /\ target = [g \in GoalIds |-> Start]
  /\ mode = "idle" /\ sought = NoMotion /\ position = Start
  /\ seen = [mode |-> "idle", position |-> Start]

---------------------------------------------------------------------------
(* A handler no one refers to any more is destroyed, which ends its        *)
(* control: h is position_control_handler_ and f the futures afterwards.   *)
(* std::async() keeps what the thread captured as long as its future.      *)
Referred(h, f) == {h} \cup {uses[g] : g \in f}

(* The robot leaves its motion when the control of it ends.                *)
ControlBecomes(c) ==
  /\ control' = c
  /\ mode' = IF c = {} /\ control # {} /\ mode = "move" THEN "idle" ELSE mode

Over(g, o, m) ==
  /\ outcome' = [outcome EXCEPT ![g] = o]
  /\ basis' = [basis EXCEPT ![g] = m]
  /\ server' = "idle"

---------------------------------------------------------------------------
(* ptpMotionAction() and startNewPTPMotion()                               *)

Accept ==
  /\ server = "idle"
  /\ goal < MaxGoals
  /\ goal' = goal + 1
  /\ \E t \in Targets : aim' = [aim EXCEPT ![goal + 1] = t]
  /\ server' = "start"
  /\ UNCHANGED <<outcome, basis, motionVars, threadVars, controlVars, robotVars, seen>>

(* AsyncPositionControlHandler::configure()                                *)
Configure ==
  /\ server = "start"
  /\ handler = NoMotion
  /\ control = {} /\ mode = "idle"
  /\ handler' = goal
  /\ control' = {goal}
  /\ mode' = "move" /\ sought' = NoMotion
  /\ server' = "execute"
  /\ UNCHANGED <<goal, aim, outcome, basis, motionId, futures, running, threadVars,
                 failed, target, position, seen>>

ConfigureFails ==
  /\ server = "start"
  /\ handler = NoMotion
  /\ Over(goal, "aborted", goal)
  /\ UNCHANGED <<goal, aim, motionVars, threadVars, controlVars, robotVars, seen>>

KeepHandler ==
  /\ server = "start"
  /\ handler # NoMotion
  /\ server' = "execute"
  /\ UNCHANGED <<goal, aim, outcome, basis, motionVars, threadVars, controlVars,
                 robotVars, seen>>

(* The goal has not as many joints as the robot.                           *)
WrongSize ==
  /\ WrongSizes
  /\ server = "execute"
  /\ Over(goal, "aborted", goal)
  /\ handler' = NoMotion
  /\ ControlBecomes(control \cap Referred(NoMotion, futures))
  /\ UNCHANGED <<goal, aim, motionId, futures, running, threadVars, failed, target,
                 sought, position, seen>>

(* executeMotion().  Clearing the map joins the threads of its futures.    *)
Execute ==
  /\ server = "execute"
  /\ motionId \in futures => \A g \in futures : thread[g] = "done"
  /\ futures' = IF motionId \in futures THEN {goal} ELSE futures \cup {goal}
  /\ motionId' = goal
  /\ thread' = [thread EXCEPT ![goal] = "set"]
  /\ uses' = [uses EXCEPT ![goal] = handler]
  /\ server' = "poll"
  /\ UNCHANGED <<goal, aim, outcome, basis, handler, running, last, report,
                 controlVars, robotVars, seen>>

---------------------------------------------------------------------------
(* The thread of a motion                                                  *)

Returns(g, f) ==
  /\ report' = [report EXCEPT ![g] = f]
  /\ thread' = [thread EXCEPT ![g] = "return"]

(* Its future is ready.                                                    *)
Done(g) ==
  /\ thread[g] = "return"
  /\ thread' = [thread EXCEPT ![g] = "done"]
  /\ UNCHANGED <<serverVars, motionVars, last, uses, report, controlVars, robotVars, seen>>

(* setJointPositionTarget()                                                *)
SetTarget(g) ==
  /\ thread[g] = "set"
  /\ uses[g] \in control \ failed
  /\ target' = [target EXCEPT ![uses[g]] = aim[g]]
  /\ sought' = aim[g]
  /\ thread' = [thread EXCEPT ![g] = "loop"]
  /\ UNCHANGED <<serverVars, motionVars, last, uses, report, control, failed, mode,
                 position, seen>>

SetTargetFails(g) ==
  /\ thread[g] = "set"
  /\ \/ uses[g] \notin control \ failed /\ UNCHANGED failed
     \/ uses[g] \in control \ failed /\ failed' = failed \cup {uses[g]}
  /\ Returns(g, Feedback("aborted", g))
  /\ UNCHANGED <<serverVars, motionVars, last, uses, control, target, robotVars, seen>>

(* getTargetFeedback(), by the state of the last Robot::readOnce().        *)
TargetFeedback(h) ==
  IF h \notin control \ failed THEN "aborted"
  ELSE CASE seen.mode = "move" -> IF seen.position = target[h] THEN "reached" ELSE "executing"
         [] seen.mode = "idle" -> "idle"
         [] OTHER -> "aborted"

Observe(g) ==
  /\ thread[g] = "loop"
  /\ running
  /\ TargetFeedback(uses[g]) \in {"idle", "executing"}
  /\ last' = Feedback(TargetFeedback(uses[g]), g)
  /\ UNCHANGED <<serverVars, motionVars, thread, uses, report, controlVars, robotVars, seen>>

ObserveAborted(g) ==
  /\ thread[g] = "loop"
  /\ running
  /\ TargetFeedback(uses[g]) = "aborted"
  /\ last' = Feedback("aborted", g)
  /\ Returns(g, Feedback("aborted", g))
  /\ UNCHANGED <<serverVars, motionVars, uses, controlVars, robotVars, seen>>

(* stopControl() too, which may fail and then leaves the control to the    *)
(* destructor.                                                             *)
ObserveReached(g) ==
  /\ thread[g] = "loop"
  /\ running
  /\ TargetFeedback(uses[g]) = "reached"
  /\ last' = Feedback("reached", g)
  /\ Returns(g, Feedback("reached", g))
  /\ ControlBecomes(control \ {uses[g]}) \/ UNCHANGED <<control, mode>>
  /\ UNCHANGED <<serverVars, motionVars, uses, failed, target, sought, position, seen>>

Leave(g) ==
  /\ thread[g] = "loop"
  /\ ~running
  /\ Returns(g, last)
  /\ UNCHANGED <<serverVars, motionVars, last, uses, controlVars, robotVars, seen>>

---------------------------------------------------------------------------
(* ptpMotionAction() polls getFeedback()                                   *)

(* Mutant: a target may be reached while the thread goes on.               *)
PollWorkingReached ==
  /\ server = "poll"
  /\ goal \in futures /\ thread[goal] # "done"
  /\ last.status \in {"aborted", "reached"}
  /\ Over(goal, IF last.status = "reached" THEN "succeeded" ELSE "aborted", last.motion)
  /\ UNCHANGED <<goal, aim, motionVars, threadVars, controlVars, robotVars, seen>>

(* The thread is still working: what last_feedback_ says decides, unless it*)
(* is kTargetReached.                                                      *)
PollWorking ==
  /\ server = "poll"
  /\ goal \in futures /\ thread[goal] # "done"
  /\ last.status = "aborted"
  /\ Over(goal, "aborted", last.motion)
  /\ UNCHANGED <<goal, aim, motionVars, threadVars, controlVars, robotVars, seen>>

(* The future is ready: it and the handler are given up.                   *)
PollReady ==
  /\ server = "poll"
  /\ goal \in futures /\ thread[goal] = "done"
  /\ futures' = futures \ {goal}
  /\ handler' = NoMotion
  /\ ControlBecomes(control \cap Referred(NoMotion, futures'))
  /\ CASE report[goal].status = "aborted" -> Over(goal, "aborted", report[goal].motion)
       [] report[goal].status = "reached" -> Over(goal, "succeeded", report[goal].motion)
  /\ UNCHANGED <<goal, aim, motionId, running, threadVars, failed, target, sought,
                 position, seen>>

---------------------------------------------------------------------------
(* The node is destroyed when no callback runs; cancelMotion().            *)
Destroy ==
  /\ server = "idle"
  /\ server' = "gone"
  /\ running' = FALSE
  /\ UNCHANGED <<goal, aim, outcome, basis, motionId, handler, futures, threadVars,
                 controlVars, robotVars, seen>>

Joined ==
  /\ server = "gone"
  /\ \A g \in futures : thread[g] = "done"
  /\ futures' = {}
  /\ handler' = NoMotion
  /\ ControlBecomes({})
  /\ server' = "ended"
  /\ UNCHANGED <<goal, aim, outcome, basis, motionId, running, threadVars, failed,
                 target, sought, position, seen>>

---------------------------------------------------------------------------
(* The robot                                                               *)

Reach ==
  /\ mode = "move" /\ sought # NoMotion
  /\ position' = sought /\ sought' = NoMotion
  /\ UNCHANGED <<serverVars, motionVars, threadVars, controlVars, mode, seen>>

Reflex ==
  /\ mode = "move"
  /\ mode' = "reflex"
  /\ sought' = NoMotion
  /\ UNCHANGED <<serverVars, motionVars, threadVars, controlVars, position, seen>>

(* errorRecoveryAction()                                                   *)
Recover ==
  /\ server = "idle"
  /\ mode = "reflex"
  /\ mode' = "idle"
  /\ UNCHANGED <<serverVars, motionVars, threadVars, controlVars, sought, position, seen>>

(* read() of the hardware calls Robot::readOnce().                         *)
ReadState ==
  /\ seen' = [mode |-> mode, position |-> position]
  /\ UNCHANGED <<serverVars, motionVars, threadVars, controlVars, robotVars>>

---------------------------------------------------------------------------
Serves ==
  \/ Accept \/ Configure \/ ConfigureFails \/ KeepHandler \/ WrongSize \/ Execute
  \/ PollWorking \/ PollReady

Runs(g) ==
  \/ SetTarget(g) \/ SetTargetFails(g) \/ Done(g)
  \/ Observe(g) \/ ObserveAborted(g) \/ ObserveReached(g) \/ Leave(g)

Robot == Reach \/ Reflex \/ Recover \/ ReadState

Next == Serves \/ (\E g \in GoalIds : Runs(g)) \/ Robot \/ Destroy \/ Joined

Spec == Init /\ [][Next]_vars

(* The callback and the threads go on, the robot moves, and its state is   *)
(* read from time to time.                                                 *)
FairSpec ==
  /\ Spec
  /\ WF_vars(Serves) /\ WF_vars(Joined) /\ WF_vars(Reach) /\ WF_vars(ReadState)
  /\ \A g \in GoalIds : WF_vars(Runs(g))

---------------------------------------------------------------------------
Statuses == {"idle", "executing", "reached", "aborted"}
Feedbacks == [status : Statuses, motion : GoalIds \cup {NoMotion}]
Places == Targets \cup {Start}

TypeOK ==
  /\ goal \in 0 .. MaxGoals /\ aim \in [GoalIds -> Places]
  /\ server \in {"idle", "start", "execute", "poll", "gone", "ended"}
  /\ outcome \in [GoalIds -> {"none", "succeeded", "aborted"}]
  /\ basis \in [GoalIds -> GoalIds \cup {NoMotion}]
  /\ motionId \in GoalIds \cup {NoMotion} /\ handler \in GoalIds \cup {NoMotion}
  /\ futures \subseteq GoalIds /\ running \in BOOLEAN
  /\ last \in Feedbacks
  /\ thread \in [GoalIds -> {"none", "set", "loop", "return", "done"}]
  /\ uses \in [GoalIds -> GoalIds \cup {NoMotion}] /\ report \in [GoalIds -> Feedbacks]
  /\ control \subseteq GoalIds /\ failed \subseteq GoalIds
  /\ target \in [GoalIds -> Places]
  /\ mode \in {"idle", "move", "reflex"}
  /\ sought \in Places \cup {NoMotion} /\ position \in Places
  /\ seen \in [mode : {"idle", "move", "reflex"}, position : Places]

(* A goal succeeds by the feedback of its own motion: last_feedback_ may   *)
(* still be the kTargetReached of the motion before while the new thread   *)
(* has not reported.  By then it has given the control of the robot back,  *)
(* also when stopControl() failed: the destructor ends it (getFeedback).   *)
SuccessIsOwn ==
  \A g \in GoalIds : outcome[g] = "succeeded" => basis[g] = g /\ uses[g] \notin control

(* A goal for which a handler is made is answered: it succeeds or is       *)
(* aborted, also after a reflex, with a wrong number of joints, or when its*)
(* control does not start (ptpMotionAction).                               *)
GoalEnds ==
  \A g \in GoalIds :
    goal = g /\ server = "start" /\ handler = NoMotion ~> outcome[g] # "none"

(* The destructor, which joins the thread of a motion under way, ends      *)
(* (cancelMotion).                                                         *)
DestroyEnds == server = "gone" ~> server = "ended"

=============================================================================
