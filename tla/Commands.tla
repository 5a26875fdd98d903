------------------------------ MODULE Commands ------------------------------
(***************************************************************************)
(* Commands of libfranka that are one request and one response: the        *)
(* parameters and the recovery of a robot, and all that a gripper or a     *)
(* vacuum gripper does.  They are called                                   *)
(*   - by franka_hardware: the services of FrankaParamServiceServer, one   *)
(*     at a time, and the error recovery of ActionServer, in the callbacks *)
(*     of a FrankaExecutor, beside the control loop, which reads and       *)
(*     writes, and the thread of a PTP motion, which looks at the state;   *)
(*   - by Python threads through pylibfranka, which keeps the interpreter's*)
(*     lock while a method runs;                                           *)
(*   - by threads of C++, such as those of franka_gripper's actions.       *)
(*                                                                         *)
(* How responses find their callers is the subject of TcpResponses: here   *)
(* each caller gets its own.  The devices, and the clients of the          *)
(* services, are external.                                                 *)
(***************************************************************************)
EXTENDS Integers, Sequences, FiniteSets

CONSTANTS
  Hosts,      \* who calls: "hardware", "python", "threads"
  Setters,    \* the services of FrankaParamServiceServer that are used
  Values,     \* the values parameters are set to
  MaxStates,  \* how many states a gripper publishes
  NumCallers, \* how many call at a time
  None        \* no caller, no status, no value

ASSUME CommandsAssumption ==
  /\ Hosts \subseteq {"hardware", "python", "threads"}
  /\ Setters \subseteq
       {"set_joint_stiffness", "set_cartesian_stiffness", "set_tcp_frame",
        "set_stiffness_frame", "set_load", "set_force_torque_collision_behavior",
        "set_full_collision_behavior"}
  /\ MaxStates \in Nat /\ NumCallers \in Nat
  /\ None \notin Values /\ None \notin {"services", "recovery", "loop", "ptp", "kSuccess"}
  /\ None \notin {"write_mutex_", "control_mutex_", "interpreter"}

VARIABLES
  host, device, \* who calls what
  callers,      \* the callers there are
  connection,   \* "new", "up", "down", or "refused" by the device
  executor,     \* FrankaExecutor: its thread spins, was cancelled, was joined
  mutex,        \* who has each lock
  pc,           \* where each caller stands
  call,         \* what it calls
  result,       \* how the last call ended, of those that are answered
  inbox,        \* the callers whose request the device has not looked at
  answers,      \* the status of the response to each caller
  done,         \* what the device did with the last call of each
  moving,       \* the caller whose movement the gripper executes
  parameters,   \* of the robot
  reported,     \* the values of the last calls that were reported successful
  states,       \* the gripper states in the UDP socket
  published,    \* how many have been published
  arrived,      \* the last that had arrived when each caller called
  read          \* what readOnce() returned to each caller

hostVars == <<host, device, callers, connection, executor>>
callVars == <<mutex, pc, call, result, reported>>
deviceVars == <<inbox, answers, done, moving, parameters>>
stateVars == <<states, published, arrived, read>>
vars == <<hostVars, callVars, deviceVars, stateVars>>

(* The callback groups of the two servers, the control loop and the thread *)
(* of a PTP motion; or two threads.                                        *)
Callers == {"services", "recovery", "loop", "ptp"}
Threads == {"services", "recovery"}
AllCallers == IF host = "hardware" THEN Callers ELSE Threads

(* Two of franka_hardware::Robot, and Python's global interpreter lock.    *)
Mutexes == {"write_mutex_", "control_mutex_", "interpreter"}

---------------------------------------------------------------------------
(* Requests.  A parameter stands for the fields that are set together, but *)
(* for the thresholds of collisions: these are of the same type for the    *)
(* lower and the upper bound and for both phases of a movement.            *)

Thresholds ==
  {"lower_torque_thresholds_acceleration", "upper_torque_thresholds_acceleration",
   "lower_torque_thresholds_nominal", "upper_torque_thresholds_nominal",
   "lower_force_thresholds_acceleration", "upper_force_thresholds_acceleration",
   "lower_force_thresholds_nominal", "upper_force_thresholds_nominal"}

Parameters == Thresholds \union {"K_theta", "K_x", "EE_T_K", "NE_T_EE", "load"}

(* The threshold of this name in a service's request that carries v: each  *)
(* has a value of its own.                                                 *)
Bound(name, v) == <<name, v>>

(* What the fields of a service's request name.  One of common thresholds  *)
(* has those of nominal movement only, which hold for both phases.         *)
Asked(service, v) ==
  CASE service = "set_joint_stiffness" -> [K_theta |-> v]
    [] service = "set_cartesian_stiffness" -> [K_x |-> v]
    [] service = "set_tcp_frame" -> [NE_T_EE |-> v]
    [] service = "set_stiffness_frame" -> [EE_T_K |-> v]
    [] service = "set_load" -> [load |-> v]
    [] service = "set_force_torque_collision_behavior" ->
         [lower_torque_thresholds_acceleration |-> Bound("lower_torque_thresholds_nominal", v),
          lower_torque_thresholds_nominal      |-> Bound("lower_torque_thresholds_nominal", v),
          upper_torque_thresholds_acceleration |-> Bound("upper_torque_thresholds_nominal", v),
          upper_torque_thresholds_nominal      |-> Bound("upper_torque_thresholds_nominal", v),
          lower_force_thresholds_acceleration  |-> Bound("lower_force_thresholds_nominal", v),
          lower_force_thresholds_nominal       |-> Bound("lower_force_thresholds_nominal", v),
          upper_force_thresholds_acceleration  |-> Bound("upper_force_thresholds_nominal", v),
          upper_force_thresholds_nominal       |-> Bound("upper_force_thresholds_nominal", v)]
    [] service = "set_full_collision_behavior" -> [p \in Thresholds |-> Bound(p, v)]

Command(name) ==
  CASE name = "set_joint_stiffness" -> "SetJointImpedance"
    [] name = "set_cartesian_stiffness" -> "SetCartesianImpedance"
    [] name = "set_tcp_frame" -> "SetNEToEE"
    [] name = "set_stiffness_frame" -> "SetEEToK"
    [] name = "set_load" -> "SetLoad"
    [] name \in {"set_force_torque_collision_behavior", "set_full_collision_behavior"} ->
         "SetCollisionBehavior"
    [] name = "recover" -> "AutomaticErrorRecovery"
    [] name = "load_model" -> "GetRobotModel"
    [] name = "stop" -> IF device = "robot" THEN "StopMove" ELSE "Stop"
    [] name = "move" -> IF device = "gripper" THEN "Move" ELSE "Vacuum"

(* The setters of franka_hardware::Robot give a request's fields to        *)
(* franka::Robot by their position.                                        *)
Arguments(c) ==
  CASE c.name = "set_full_collision_behavior" ->
         <<Bound("lower_torque_thresholds_acceleration", c.v),
           Bound("upper_torque_thresholds_acceleration", c.v),
           Bound("lower_torque_thresholds_nominal", c.v),
           Bound("upper_torque_thresholds_nominal", c.v),
           Bound("lower_force_thresholds_acceleration", c.v),
           Bound("upper_force_thresholds_acceleration", c.v),
           Bound("lower_force_thresholds_nominal", c.v),
           Bound("upper_force_thresholds_nominal", c.v)>>
    [] c.name = "set_force_torque_collision_behavior" ->
         <<Bound("lower_torque_thresholds_nominal", c.v),
           Bound("upper_torque_thresholds_nominal", c.v),
           Bound("lower_force_thresholds_nominal", c.v),
           Bound("upper_force_thresholds_nominal", c.v)>>
    [] OTHER -> <<c.v>>

(* Mutant: four thresholds are taken in the order of both phases' bounds.  *)
CompletedInPairs(command, arguments) ==
  IF command = "SetCollisionBehavior" /\ Len(arguments) = 4
    THEN <<arguments[1], arguments[1], arguments[2], arguments[2],
           arguments[3], arguments[3], arguments[4], arguments[4]>>
    ELSE arguments

(* setCollisionBehavior() of four thresholds takes them for both phases.   *)
Completed(command, arguments) ==
  IF command = "SetCollisionBehavior" /\ Len(arguments) = 4
    THEN <<arguments[1], arguments[2], arguments[1], arguments[2],
           arguments[3], arguments[4], arguments[3], arguments[4]>>
    ELSE arguments

(* Mutant: the upper bound of a force is taken for the lower one.          *)
RequestSwapped(command, arguments) ==
  CASE command = "SetCollisionBehavior" ->
         [lower_torque_thresholds_acceleration |-> arguments[1],
          upper_torque_thresholds_acceleration |-> arguments[2],
          lower_torque_thresholds_nominal      |-> arguments[3],
          upper_torque_thresholds_nominal      |-> arguments[4],
          lower_force_thresholds_acceleration  |-> arguments[5],
          upper_force_thresholds_acceleration  |-> arguments[6],
          lower_force_thresholds_nominal       |-> arguments[8],
          upper_force_thresholds_nominal       |-> arguments[7]]
    [] command = "SetJointImpedance" -> [K_theta |-> arguments[1]]
    [] command = "SetCartesianImpedance" -> [K_x |-> arguments[1]]
    [] command = "SetEEToK" -> [EE_T_K |-> arguments[1]]
    [] command = "SetNEToEE" -> [NE_T_EE |-> arguments[1]]
    [] command = "SetLoad" -> [load |-> arguments[1]]

(* The constructors of the requests, by position too.                      *)
Request(command, arguments) ==
  CASE command = "SetCollisionBehavior" ->
         [lower_torque_thresholds_acceleration |-> arguments[1],
          upper_torque_thresholds_acceleration |-> arguments[2],
          lower_torque_thresholds_nominal      |-> arguments[3],
          upper_torque_thresholds_nominal      |-> arguments[4],
          lower_force_thresholds_acceleration  |-> arguments[5],
          upper_force_thresholds_acceleration  |-> arguments[6],
          lower_force_thresholds_nominal       |-> arguments[7],
          upper_force_thresholds_nominal       |-> arguments[8]]
    [] command = "SetJointImpedance" -> [K_theta |-> arguments[1]]
    [] command = "SetCartesianImpedance" -> [K_x |-> arguments[1]]
    [] command = "SetEEToK" -> [EE_T_K |-> arguments[1]]
    [] command = "SetNEToEE" -> [NE_T_EE |-> arguments[1]]
    [] command = "SetLoad" -> [load |-> arguments[1]]

Requested(c) == Request(Command(c.name), Completed(Command(c.name), Arguments(c)))

---------------------------------------------------------------------------
(* Responses: the statuses each command may be answered with, and what     *)
(* handleCommandResponse() and executeCommand() make of them.  Unknown     *)
(* stands for a value that is not in the enumeration.                      *)

CommandStatuses == {"kSuccess", "kCommandNotPossibleRejected", "kRejectedDueToSafetyFunctions"}
SetterStatuses == CommandStatuses \union {"kInvalidArgumentRejected"}
StopMoveStatuses == CommandStatuses \union {"kEmergencyAborted", "kReflexAborted", "kAborted"}
RecoveryStatuses == StopMoveStatuses \union {"kManualErrorRecoveryRequiredRejected"}
GripperStatuses == {"kSuccess", "kFail", "kUnsuccessful", "kAborted"}

Unknown == "unknown"

(* Mutant: an invalid argument is let pass.                                *)
SetterResultLenient(status) ==
  CASE status \in {"kSuccess", "kInvalidArgumentRejected"} -> "success"
    [] status \in SetterStatuses \ {"kSuccess", "kInvalidArgumentRejected"} -> "CommandException"
    [] OTHER -> "ProtocolException"

SetterResult(status) ==
  CASE status = "kSuccess" -> "success"
    [] status \in SetterStatuses \ {"kSuccess"} -> "CommandException"
    [] OTHER -> "ProtocolException"

ModelResult(status) ==
  CASE status = "kSuccess" -> "success"
    [] status \in CommandStatuses \ {"kSuccess"} -> "CommandException"
    [] OTHER -> "ProtocolException"

StopMoveResult(status) ==
  CASE status = "kSuccess" -> "success"
    [] status \in StopMoveStatuses \ {"kSuccess"} -> "CommandException"
    [] OTHER -> "ProtocolException"

RecoveryResult(status) ==
  CASE status = "kSuccess" -> "success"
    [] status \in RecoveryStatuses \ {"kSuccess"} -> "CommandException"
    [] OTHER -> "ProtocolException"

GripperResult(status) ==
  CASE status = "kSuccess" -> "success"
    [] status = "kUnsuccessful" -> "unsuccessful"
    [] status \in {"kFail", "kAborted"} -> "CommandException"
    [] OTHER -> "ProtocolException"

VacuumGripperResult(status) ==
  CASE status = "kSuccess" -> "success"
    [] status = "kUnsuccessful" -> "unsuccessful"
    [] status \in {"kFail", "kAborted"} -> "CommandException"
    [] OTHER -> "ProtocolException"

Statuses(command) ==
  {Unknown} \union
  CASE command = "AutomaticErrorRecovery" -> RecoveryStatuses
    [] command = "GetRobotModel" -> CommandStatuses
    [] command = "StopMove" -> StopMoveStatuses
    [] command \in {"Stop", "Move", "Vacuum"} -> GripperStatuses
    [] OTHER -> SetterStatuses

Result(command, status) ==
  CASE command = "AutomaticErrorRecovery" -> RecoveryResult(status)
    [] command = "GetRobotModel" -> ModelResult(status)
    [] command = "StopMove" -> StopMoveResult(status)
    [] device = "gripper" -> GripperResult(status)
    [] device = "vacuum gripper" -> VacuumGripperResult(status)
    [] OTHER -> SetterResult(status)

---------------------------------------------------------------------------
Init ==
  /\ \/ host = "hardware" /\ device = "robot"
     \/ host = "python" /\ device \in {"robot", "gripper"}
     \/ host = "threads" /\ device \in {"gripper", "vacuum gripper"}
  /\ host \in Hosts
  /\ callers \in SUBSET AllCallers /\ Cardinality(callers) = NumCallers
  /\ connection = "new" /\ executor = "new"
  /\ mutex = [m \in Mutexes |-> None]
  /\ pc = [c \in Callers |-> "idle"]
  /\ call = [c \in Callers |-> [name |-> "none", v |-> None]]
  /\ result = [c \in Threads |-> "none"]
  /\ inbox = {} /\ answers = [c \in Callers |-> None]
  /\ done = [c \in Callers |-> "nothing"] /\ moving = None
  /\ parameters = [p \in Parameters |-> None] /\ reported = parameters
  /\ states = <<>> /\ published = 0
  /\ arrived = [c \in Callers |-> 0] /\ read = [c \in Callers |-> 0]

(* connect(), at the end of every constructor: the versions of the library *)
(* and the device match, or they do not.                                   *)
Connect ==
  /\ connection = "new"
  /\ connection' \in {"up", "refused"}
  /\ UNCHANGED <<host, device, callers, executor, callVars, deviceVars, stateVars>>

(* FrankaExecutor: the constructor starts the thread and waits until it    *)
(* spins; the destructor cancels it, which lets the callbacks under way    *)
(* finish, and joins it.                                                   *)
Spin ==
  /\ host = "hardware" /\ connection = "up" /\ executor = "new"
  /\ executor' = "spinning"
  /\ UNCHANGED <<host, device, callers, connection, callVars, deviceVars, stateVars>>

Shutdown ==
  /\ executor = "spinning"
  /\ executor' = "cancelled"
  /\ UNCHANGED <<host, device, callers, connection, callVars, deviceVars, stateVars>>

Join ==
  /\ executor = "cancelled"
  /\ \A c \in {"services", "recovery"}: pc[c] = "idle"
  /\ executor' = "joined"
  /\ UNCHANGED <<host, device, callers, connection, callVars, deviceVars, stateVars>>

---------------------------------------------------------------------------
(* The callers                                                             *)

Calls(c) ==
  CASE host = "hardware" -> (CASE c = "services" -> Setters
                               [] c = "recovery" -> {"recover"}
                               [] c = "loop" -> {"read", "write"}
                               [] c = "ptp" -> {"getCurrentState"})
    [] device = "gripper" -> {"move", "stop", "readOnce"}
    [] device = "vacuum gripper" -> {"move", "stop", "readOnce", "undefined profile"}
    [] OTHER -> (Setters \ {"set_full_collision_behavior"})
                  \union {"recover", "load_model", "stop"}

(* Mutant: every command is sent and answered under one lock.              *)
LockOfAll(c) == "interpreter"

(* The setters of franka_hardware::Robot lock write_mutex_; its readOnce(),*)
(* its writeOnce...() and getCurrentState() lock control_mutex_; the error *)
(* recovery locks nothing.  A Python method needs the interpreter's lock:  *)
(* no binding releases it.                                                 *)
LockOf(c) ==
  CASE host = "python" -> "interpreter"
    [] host = "hardware" /\ c = "services" -> "write_mutex_"
    [] host = "hardware" /\ c \in {"loop", "ptp"} -> "control_mutex_"
    [] OTHER -> None

Call(c) ==
  /\ pc[c] = "idle" /\ connection \in {"up", "down"}
  /\ host = "hardware" /\ c \in {"services", "recovery"} => executor = "spinning"
  /\ c = "ptp" => executor # "new"
  /\ \E name \in Calls(c), v \in Values:
       /\ name \notin Setters => v = CHOOSE value \in Values: TRUE
       /\ call' = [call EXCEPT ![c] = [name |-> name, v |-> v]]
  /\ pc' = [pc EXCEPT ![c] = "locking"]
  /\ result' = [d \in Threads |-> IF d = c THEN "none" ELSE result[d]]
  /\ done' = [done EXCEPT ![c] = "nothing"]
  /\ UNCHANGED <<hostVars, mutex, reported, inbox, answers, moving, parameters, stateVars>>

Report(c, outcome) ==
  IF outcome = "success" /\ call[c].name \in Setters
    THEN LET asked == Asked(call[c].name, call[c].v)
         IN  [p \in Parameters |-> IF p \in DOMAIN asked THEN asked[p] ELSE reported[p]]
    ELSE reported

(* Mutant: the lock is not released when an exception is thrown.           *)
ReturnLocked(c, outcome) ==
  /\ pc' = [pc EXCEPT ![c] = "idle"]
  /\ result' = [d \in Threads |-> IF d = c THEN outcome ELSE result[d]]
  /\ mutex' = [m \in Mutexes |->
                IF m = LockOf(c) /\ outcome = "success" THEN None ELSE mutex[m]]
  /\ reported' = Report(c, outcome)
  /\ call' = [call EXCEPT ![c] = [name |-> @.name, v |-> None]]

(* A call returns, or throws, and its lock_guard unlocks.  A service's     *)
(* response tells of its success.                                          *)
Return(c, outcome) ==
  /\ pc' = [pc EXCEPT ![c] = "idle"]
  /\ result' = [d \in Threads |-> IF d = c THEN outcome ELSE result[d]]
  /\ mutex' = [m \in Mutexes |-> IF m = LockOf(c) THEN None ELSE mutex[m]]
  /\ reported' = Report(c, outcome)
  /\ call' = [call EXCEPT ![c] = [name |-> @.name, v |-> None]]

(* Where a call goes on once it has its lock.                              *)
Begins(name) ==
  CASE name = "readOnce" -> "draining"
    [] name = "read" -> "blocking"
    [] OTHER -> "running"

Enter(c) ==
  /\ pc[c] = "locking"
  /\ LockOf(c) # None => mutex[LockOf(c)] = None
  /\ mutex' = [m \in Mutexes |-> IF m = LockOf(c) THEN c ELSE mutex[m]]
  /\ pc' = [pc EXCEPT ![c] = Begins(call[c].name)]
  /\ read' = [read EXCEPT ![c] = 0]
  /\ arrived' = [arrived EXCEPT ![c] =
       IF call[c].name # "readOnce" \/ states = <<>> THEN 0 ELSE states[Len(states)]]
  /\ UNCHANGED <<hostVars, call, result, reported, deviceVars, states, published>>

(* What is done without a request: a command of the control loop goes by   *)
(* UDP, if the TCP connection is not seen to be closed; the state read last*)
(* is a copy; a profile that is not defined is refused.                    *)
NoRequest == {"write", "getCurrentState", "undefined profile"}

(* tcpSendRequest()                                                        *)
Send(c) ==
  /\ pc[c] = "running" /\ call[c].name \notin NoRequest
  /\ IF connection = "up"
       THEN /\ inbox' = inbox \union {c}
            /\ pc' = [pc EXCEPT ![c] = "waiting"]
            /\ UNCHANGED <<mutex, call, result, reported, answers, done, moving, parameters>>
       ELSE Return(c, "NetworkException") /\ UNCHANGED deviceVars
  /\ UNCHANGED <<hostVars, stateVars>>

SendNothing(c) ==
  /\ pc[c] = "running" /\ call[c].name \in NoRequest
  /\ \/ call[c].name = "undefined profile" /\ Return(c, "CommandException")
     \/ call[c].name \in {"write", "getCurrentState"} /\ Return(c, "success")
     \/ call[c].name = "write" /\ connection = "down" /\ Return(c, "NetworkException")
  /\ UNCHANGED <<hostVars, deviceVars, stateVars>>

(* executeCommand(): the response arrives, and is looked at.               *)
Receive(c) ==
  /\ pc[c] = "waiting" /\ connection = "up" /\ answers[c] # None
  /\ Return(c, Result(Command(call[c].name), answers[c]))
  /\ answers' = [answers EXCEPT ![c] = None]
  /\ UNCHANGED <<hostVars, inbox, done, moving, parameters, stateVars>>

ReceiveThrows(c) ==
  /\ pc[c] = "waiting" /\ connection = "down"
  /\ Return(c, "NetworkException")
  /\ answers' = [answers EXCEPT ![c] = None]
  /\ UNCHANGED <<hostVars, inbox, done, moving, parameters, stateVars>>

(* Mutant: old states are not deleted.                                     *)
DrainOne(c) ==
  /\ pc[c] = "draining"
  /\ pc' = [pc EXCEPT ![c] = "blocking"]
  /\ UNCHANGED <<hostVars, mutex, call, result, reported, deviceVars, stateVars>>

(* readOnce() of both grippers deletes the states that have arrived, and   *)
(* waits for one more.                                                     *)
Drain(c) ==
  /\ pc[c] = "draining"
  /\ IF states = <<>> THEN pc' = [pc EXCEPT ![c] = "blocking"] /\ UNCHANGED states
     ELSE states' = Tail(states) /\ UNCHANGED pc
  /\ UNCHANGED <<hostVars, mutex, call, result, reported, deviceVars,
                 published, arrived, read>>

ReadState(c) ==
  /\ pc[c] = "blocking" /\ call[c].name = "readOnce" /\ states # <<>>
  /\ read' = [read EXCEPT ![c] = Head(states)]
  /\ states' = Tail(states)
  /\ Return(c, "success")
  /\ UNCHANGED <<hostVars, deviceVars, published, arrived>>

(* The control loop's read() waits for a state of the robot, and throws if *)
(* it shows that the motion has failed (RobotMotion).                      *)
ReadRobotState(c) ==
  /\ pc[c] = "blocking" /\ call[c].name = "read"
  /\ Return(c, "success") \/ Return(c, "ControlException")
  /\ UNCHANGED <<hostVars, deviceVars, stateVars>>

(* No state for a while: the TCP connection is shut down as well.          *)
ReadTimeout(c) ==
  /\ pc[c] = "blocking" /\ states = <<>>
  /\ connection' = "down"
  /\ Return(c, "NetworkException")
  /\ UNCHANGED <<host, device, callers, executor, deviceVars, stateVars>>

---------------------------------------------------------------------------
(* The devices                                                             *)

Answer(c, status) ==
  /\ answers' = [answers EXCEPT ![c] = status]
  /\ done' = [done EXCEPT ![c] = IF status = "kSuccess" THEN "done" ELSE "refused"]

(* A robot sets what a request says, or nothing.                           *)
Serve(c) ==
  /\ connection = "up" /\ c \in inbox /\ Command(call[c].name) \notin {"Move", "Vacuum", "Stop"}
  /\ \E status \in Statuses(Command(call[c].name)):
       /\ Answer(c, status)
       /\ parameters' = IF status = "kSuccess" /\ call[c].name \in Setters
                          THEN [p \in Parameters |->
                                  IF p \in DOMAIN Requested(call[c])
                                    THEN Requested(call[c])[p] ELSE parameters[p]]
                          ELSE parameters
  /\ inbox' = inbox \ {c}
  /\ UNCHANGED <<hostVars, callVars, moving, stateVars>>

(* A gripper has one movement at a time, which another one ends, or stop.  *)
Interrupt(c, status) ==
  /\ answers' = [a \in Callers |-> IF a = moving THEN "kAborted"
                                      ELSE IF a = c THEN status ELSE answers[a]]
  /\ done' = [a \in Callers |-> IF a = moving THEN "refused"
                                   ELSE IF a = c /\ status = "kSuccess" THEN "done"
                                   ELSE done[a]]

ServeMove(c) ==
  /\ connection = "up" /\ c \in inbox /\ Command(call[c].name) \in {"Move", "Vacuum"}
  /\ Interrupt(c, None)
  /\ moving' = c
  /\ inbox' = inbox \ {c}
  /\ UNCHANGED <<hostVars, callVars, parameters, stateVars>>

ServeStop(c) ==
  /\ connection = "up" /\ c \in inbox /\ Command(call[c].name) = "Stop"
  /\ Interrupt(c, "kSuccess")
  /\ moving' = None
  /\ inbox' = inbox \ {c}
  /\ UNCHANGED <<hostVars, callVars, parameters, stateVars>>

Finish ==
  /\ moving # None
  /\ IF pc[moving] = "waiting" /\ connection = "up"
       THEN \E status \in {"kSuccess", "kFail", "kUnsuccessful", Unknown}: Answer(moving, status)
       ELSE UNCHANGED <<answers, done>>
  /\ moving' = None
  /\ UNCHANGED <<hostVars, callVars, inbox, parameters, stateVars>>

Break ==
  /\ connection = "up"
  /\ connection' = "down"
  /\ UNCHANGED <<host, device, callers, executor, callVars, deviceVars, stateVars>>

(* A state is published, and arrives or is lost.                           *)
Publish ==
  /\ device # "robot" /\ published < MaxStates
  /\ published' = published + 1
  /\ states' \in {states, Append(states, published')}
  /\ UNCHANGED <<hostVars, callVars, deviceVars, arrived, read>>

---------------------------------------------------------------------------
Runs(c) ==
  \/ Enter(c) \/ Send(c) \/ SendNothing(c) \/ Receive(c) \/ ReceiveThrows(c)
  \/ Drain(c) \/ ReadState(c) \/ ReadRobotState(c) \/ ReadTimeout(c)
Serves(c) == Serve(c) \/ ServeMove(c) \/ ServeStop(c)

Next ==
  \/ Connect \/ Spin \/ Shutdown \/ Join
  \/ \E c \in callers: Call(c) \/ Runs(c) \/ Serves(c)
  \/ Finish \/ Break \/ Publish

Spec == Init /\ [][Next]_vars

(* Threads run, and get the lock, which the others do not take for ever;   *)
(* the device looks at requests.  A movement need not come to an end.      *)
FairSpec ==
  /\ Spec
  /\ \A c \in Callers: SF_vars(Runs(c)) /\ WF_vars(Serves(c))
  /\ WF_vars(Join)

---------------------------------------------------------------------------
(* Properties                                                              *)

(* From the status of a response, through handleCommandResponse() or       *)
(* executeCommand() and setGenericRobotParam(), to what a service or a     *)
(* method tells its caller: success if the device has done what it was     *)
(* asked to, and only then.  Only a broken connection leaves it open.      *)
AnswersAreTrue ==
  \A c \in Threads: pc[c] = "idle" /\ call[c].name \notin {"none", "readOnce"} =>
    /\ result[c] = "success" => done[c] = "done"
    /\ result[c] \in {"unsuccessful", "CommandException", "ProtocolException"} =>
         done[c] # "done"

(* Through three lists of arguments, every threshold, stiffness, frame and *)
(* load of a request reaches the parameter it is named for: while no call  *)
(* is under way, and none was cut off, the robot has what the last         *)
(* successful calls asked for.                                             *)
ParametersAsRequested ==
  (\A c \in Threads: pc[c] = "idle" /\ result[c] # "NetworkException") /\ connection = "up"
    => parameters = reported

(* readOnce() of a gripper: no state is returned that had arrived when it  *)
(* was called.                                                             *)
ReadIsNew ==
  \A c \in Threads:
    pc[c] = "idle" /\ call[c].name = "readOnce" /\ result[c] = "success" =>
      read[c] > arrived[c]

(* Every call ends, whoever calls, unless it waits for a movement.  The    *)
(* control loop's write() and the thread of a PTP motion get               *)
(* control_mutex_, which read() keeps while it waits for a state, the      *)
(* services write_mutex_ and Python threads the interpreter, also when a   *)
(* call before them threw; and so the destructor of FrankaExecutor returns.*)
EveryCallEnds ==
  /\ \A c \in Callers: pc[c] # "idle" ~> (pc[c] = "idle" \/ moving # None)
  /\ executor = "cancelled" ~> executor = "joined"

(* A stop that has been called and has not reached the gripper.            *)
Stops(c) ==
  call[c].name = "stop" /\ device # "robot" /\ (pc[c] \in {"locking", "running"} \/ c \in inbox)

(* stop() of a gripper, called by a thread while another one waits for the *)
(* end of a movement, does not wait for it too: the movement is ended.     *)
StopEndsMovement ==
  (host = "threads" /\ \E c \in Threads: Stops(c)) ~> (moving = None \/ connection = "down")

===========================================================================
