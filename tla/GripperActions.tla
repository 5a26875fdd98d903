--------------------------- MODULE GripperActions ---------------------------
(***************************************************************************)
(* franka_gripper: the homing, move, grasp and gripper_action actions and  *)
(* the stop service of GripperActionServer.  Each goal has a detached      *)
(* thread, which starts the command of the goal with std::async and waits  *)
(* for it; a cancel request makes that thread stop the gripper.  All       *)
(* commands go over one connection of franka::Gripper (TcpResponses).      *)
(*                                                                         *)
(* The gripper is external.  It answers a command when it ends.  One that  *)
(* comes while another runs is refused or takes its place.                 *)
(***************************************************************************)
EXTENDS Naturals, Sequences, SequencesExt

CONSTANTS
  Goals,       \* the goals clients send, to any of the four actions
  NoGoal,      \* no goal
  StopFails,   \* Gripper::stop() may throw
  Checked      \* the goals of gripper_action

VARIABLES
  running,  \* rclcpp::ok()
  status,   \* of each goal, as its handle has it
  thread,   \* where the detached thread of each goal stands
  future,   \* where its command stands, or its result
  stop,     \* where the stop() of each goal stands
  service,  \* where the stop service stands
  inbox,    \* the requests the gripper has not read: whose, and if to stop
  busy      \* the goal whose command the gripper executes

goalVars == <<status, thread, future, stop>>
gripperVars == <<inbox, busy>>
vars == <<running, goalVars, service, gripperVars>>

Over == {"succeeded", "aborted", "canceled"}
Results == {"true", "false"}
Request(from, isStop) == [from |-> from, isStop |-> isStop]

Init ==
  /\ running = TRUE
  /\ status = [g \in Goals |-> "new"]
  /\ thread = [g \in Goals |-> "none"]
  /\ future = [g \in Goals |-> "none"]
  /\ stop = [g \in Goals |-> "none"]
  /\ service = "idle"
  /\ inbox = <<>> /\ busy = NoGoal

---------------------------------------------------------------------------
(* The callbacks of the action servers                                     *)

(* handleGoal() accepts every goal, whatever else is under way.            *)
Accept(g) ==
  /\ running
  /\ status[g] = "new"
  /\ status' = [status EXCEPT ![g] = "executing"]
  /\ thread' = [thread EXCEPT ![g] = IF g \in Checked THEN "check" ELSE "async"]
  /\ UNCHANGED <<running, future, stop, service, gripperVars>>

(* handleCancel() accepts every request.                                   *)
Cancel(g) ==
  /\ running
  /\ status[g] = "executing"
  /\ status' = [status EXCEPT ![g] = "canceling"]
  /\ UNCHANGED <<running, thread, future, stop, service, gripperVars>>

Ends(g, s) ==
  /\ status' = [status EXCEPT ![g] = s]
  /\ thread' = [thread EXCEPT ![g] = "end"]

---------------------------------------------------------------------------
(* The thread of a goal: executeCommand() or executeGripperCommand()       *)

(* onExecuteGripperCommand(): the width is out of range, or there already  *)
(* as far as the last state published tells.                               *)
CheckEnds(g) ==
  /\ thread[g] = "check"
  /\ \E s \in {"succeeded", "aborted"} : Ends(g, s)
  /\ UNCHANGED <<running, future, stop, service, gripperVars>>

CheckPasses(g) ==
  /\ thread[g] = "check"
  /\ thread' = [thread EXCEPT ![g] = "async"]
  /\ UNCHANGED <<running, status, future, stop, service, gripperVars>>

(* Mutant: std::launch::deferred, so that no thread sends the command.     *)
LaunchDeferred(g) ==
  /\ thread[g] = "async"
  /\ thread' = [thread EXCEPT ![g] = "loop"]
  /\ UNCHANGED <<running, status, future, stop, service, gripperVars>>

Launch(g) ==
  /\ thread[g] = "async"
  /\ future' = [future EXCEPT ![g] = "send"]
  /\ thread' = [thread EXCEPT ![g] = "loop"]
  /\ UNCHANGED <<running, status, stop, service, gripperVars>>

(* The thread of std::async(): executeCommand() of gripper.cpp.            *)
SendCommand(g) ==
  /\ future[g] = "send"
  /\ inbox' = Append(inbox, Request(g, FALSE))
  /\ future' = [future EXCEPT ![g] = "sent"]
  /\ UNCHANGED <<running, status, thread, stop, service, busy>>

(* resultIsReady() waits future_wait_timeout_ in vain.                     *)
NotReady(g) ==
  /\ thread[g] = "loop"
  /\ running
  /\ future[g] \notin Results
  /\ thread' = [thread EXCEPT ![g] = "waited"]
  /\ UNCHANGED <<running, status, future, stop, service, gripperVars>>

Feedback(g) ==
  /\ thread[g] = "waited"
  /\ status[g] # "canceling"
  /\ thread' = [thread EXCEPT ![g] = "loop"]
  /\ UNCHANGED <<running, status, future, stop, service, gripperVars>>

(* The goal is to be canceled: Gripper::stop(), though the result may have *)
(* come since it was waited for.                                           *)
StopCommand(g) ==
  /\ thread[g] = "waited"
  /\ status[g] = "canceling"
  /\ inbox' = Append(inbox, Request(g, TRUE))
  /\ stop' = [stop EXCEPT ![g] = "sent"]
  /\ thread' = [thread EXCEPT ![g] = "stop"]
  /\ UNCHANGED <<running, status, future, service, busy>>

(* Nothing catches an exception of stop() in a detached thread: the process*)
(* ends.                                                                   *)
StopThrows(g) ==
  /\ StopFails
  /\ thread[g] = "stop"
  /\ running' = FALSE
  /\ thread' = [t \in Goals |-> "end"]
  /\ UNCHANGED <<status, future, stop, service, gripperVars>>

Stopped(g) ==
  /\ thread[g] = "stop"
  /\ stop[g] = "answered"
  /\ thread' = [thread EXCEPT ![g] = "get"]
  /\ UNCHANGED <<running, status, future, stop, service, gripperVars>>

(* Mutant: the goal is canceled before its command has ended.              *)
CanceledAtOnce(g) ==
  /\ thread[g] = "get"
  /\ Ends(g, "canceled")
  /\ UNCHANGED <<running, future, stop, service, gripperVars>>

Canceled(g) ==
  /\ thread[g] = "get"
  /\ future[g] \in Results
  /\ Ends(g, "canceled")
  /\ UNCHANGED <<running, future, stop, service, gripperVars>>

Finished(g) ==
  /\ thread[g] = "loop"
  /\ future[g] \in Results
  /\ running
  /\ Ends(g, IF future[g] = "true" THEN "succeeded" ELSE "aborted")
  /\ UNCHANGED <<running, future, stop, service, gripperVars>>

(* The node is shut down: the destructor of the future still waits.        *)
Dropped(g) ==
  /\ thread[g] = "loop"
  /\ ~running
  /\ future[g] \in Results
  /\ thread' = [thread EXCEPT ![g] = "end"]
  /\ UNCHANGED <<running, status, future, stop, service, gripperVars>>

---------------------------------------------------------------------------
(* stopServiceCallback()                                                   *)

CallStop ==
  /\ running
  /\ service = "idle"
  /\ inbox' = Append(inbox, Request(NoGoal, TRUE))
  /\ service' = "sent"
  /\ UNCHANGED <<running, goalVars, busy>>

(* Success, or that stop() returned false or threw: callers see no more.   *)
StopReports ==
  /\ service = "answered"
  /\ service' = "idle"
  /\ UNCHANGED <<running, goalVars, gripperVars>>

Shutdown ==
  /\ running
  /\ running' = FALSE
  /\ UNCHANGED <<goalVars, service, gripperVars>>

---------------------------------------------------------------------------
(* The gripper                                                             *)

(* An exception of the command makes its result false.                     *)
Answered(g, results) == \E r \in results : future' = [future EXCEPT ![g] = r]

ServeCommand ==
  /\ inbox # <<>> /\ ~Head(inbox).isStop
  /\ inbox' = Tail(inbox)
  /\ LET g == Head(inbox).from IN
     IF busy = NoGoal THEN busy' = g /\ UNCHANGED future
     ELSE \/ Answered(g, {"false"}) /\ UNCHANGED busy
          \/ Answered(busy, {"false"}) /\ busy' = g
  /\ UNCHANGED <<running, status, thread, stop, service>>

ServeStop ==
  /\ inbox # <<>> /\ Head(inbox).isStop
  /\ inbox' = Tail(inbox)
  /\ busy' = NoGoal
  /\ IF busy = NoGoal THEN UNCHANGED future ELSE Answered(busy, {"false"})
  /\ IF Head(inbox).from = NoGoal
     THEN service' = "answered" /\ UNCHANGED stop
     ELSE stop' = [stop EXCEPT ![Head(inbox).from] = "answered"] /\ UNCHANGED service
  /\ UNCHANGED <<running, status, thread>>

CommandEnds ==
  /\ busy # NoGoal
  /\ Answered(busy, Results)
  /\ busy' = NoGoal
  /\ UNCHANGED <<running, status, thread, stop, service, inbox>>

---------------------------------------------------------------------------
GoalNext(g) ==
  \/ CheckEnds(g) \/ CheckPasses(g) \/ Launch(g) \/ SendCommand(g)
  \/ NotReady(g) \/ Feedback(g) \/ StopCommand(g) \/ Stopped(g)
  \/ Canceled(g) \/ Finished(g) \/ Dropped(g)

Service == CallStop \/ StopReports

Gripper == ServeCommand \/ ServeStop \/ CommandEnds

Next ==
  \/ \E g \in Goals : Accept(g) \/ Cancel(g) \/ GoalNext(g) \/ StopThrows(g)
  \/ Service \/ Shutdown \/ Gripper

Spec == Init /\ [][Next]_vars

(* The threads run, and the gripper answers and ends what it executes.     *)
FairSpec ==
  /\ Spec
  /\ \A g \in Goals : WF_vars(GoalNext(g)) /\ WF_vars(SendCommand(g))
  /\ WF_vars(Gripper)

---------------------------------------------------------------------------
TypeOK ==
  /\ running \in BOOLEAN
  /\ status \in [Goals -> {"new", "executing", "canceling"} \cup Over]
  /\ thread \in [Goals -> {"none", "check", "async", "loop", "waited", "stop",
                        "get", "end"}]
  /\ future \in [Goals -> {"none", "send", "sent"} \cup Results]
  /\ stop \in [Goals -> {"none", "sent", "answered"}]
  /\ service \in {"idle", "sent", "answered"}
  /\ inbox \in Seq([from : Goals \cup {NoGoal}, isStop : BOOLEAN])
  /\ busy \in Goals \cup {NoGoal}

(* The commands and the stops of goal g that the gripper has yet to answer.*)
Pending(g) ==
  busy = g \/ \E n \in DOMAIN inbox : inbox[n].from = g

(* A goal that is over, also one that was canceled, leaves nothing behind: *)
(* its command has ended, and no stop of its own is still to hit the       *)
(* command of the next goal.                                               *)
OverIsDone == \A g \in Goals : status[g] \in Over => ~Pending(g) /\ future[g] # "send"

(* A goal ends, unless the node does.                                      *)
GoalEnds ==
  \A g \in Goals : status[g] = "executing" ~> status[g] \in Over \/ ~running

=============================================================================
