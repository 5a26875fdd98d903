--------------------------- MODULE CommandsProofs ---------------------------
(***************************************************************************)
(* Proofs about Commands: that what a caller is told is what the device    *)
(* has done, that parameters arrive as they were asked for, and that a     *)
(* gripper's readOnce() returns no state that had arrived before.          *)
(***************************************************************************)
EXTENDS Commands, TLAPS

---------------------------------------------------------------------------
(* Requests and results                                                    *)

(* The arguments of each setter, taken by their position, are the fields   *)
(* of its request, taken by their names (setGenericRobotParam).            *)
LEMMA RequestedIsAsked ==
  ASSUME NEW c, c.name \in Setters
  PROVE  Requested(c) = Asked(c.name, c.v)
<1>1. c.name \in {"set_joint_stiffness", "set_cartesian_stiffness", "set_tcp_frame",
        "set_stiffness_frame", "set_load", "set_force_torque_collision_behavior",
        "set_full_collision_behavior"}
  BY CommandsAssumption
<1> DEFINE arguments == Completed(Command(c.name), Arguments(c))
<1>2. CASE c.name = "set_full_collision_behavior"
  <2>1. Command(c.name) = "SetCollisionBehavior"
    BY <1>2 DEF Command
  <2>2. arguments = Arguments(c)
    BY <1>2 DEF Arguments, Completed
  <2>3. Requested(c) = Request("SetCollisionBehavior", Arguments(c))
    BY <2>1, <2>2 DEF Requested
  <2>4. Asked(c.name, c.v) = [p \in Thresholds |-> Bound(p, c.v)]
    BY <1>2 DEF Asked
  <2> QED BY <1>2, <2>3, <2>4 DEF Request, Arguments, Thresholds
<1>3. CASE c.name = "set_force_torque_collision_behavior"
  <2>1. Command(c.name) = "SetCollisionBehavior"
    BY <1>3 DEF Command
  <2>2. arguments = <<Arguments(c)[1], Arguments(c)[2], Arguments(c)[1], Arguments(c)[2],
                      Arguments(c)[3], Arguments(c)[4], Arguments(c)[3], Arguments(c)[4]>>
    BY <1>3, <2>1 DEF Arguments, Completed
  <2>3. Requested(c) = Request("SetCollisionBehavior", arguments)
    BY <2>1 DEF Requested
  <2> QED BY <1>3, <2>2, <2>3 DEF Request, Arguments, Asked
<1>4. CASE c.name = "set_joint_stiffness"
  <2>1. Command(c.name) = "SetJointImpedance"
    BY <1>4 DEF Command
  <2>2. arguments = <<c.v>>
    BY <1>4, <2>1 DEF Arguments, Completed
  <2> HIDE DEF arguments
  <2>3. Requested(c) = [K_theta |-> arguments[1]]
    BY <2>1 DEF Requested, Request, arguments
  <2>4. Asked(c.name, c.v) = [K_theta |-> c.v]
    BY <1>4 DEF Asked
  <2> QED BY <2>2, <2>3, <2>4
<1>5. CASE c.name = "set_cartesian_stiffness"
  <2>1. Command(c.name) = "SetCartesianImpedance"
    BY <1>5 DEF Command
  <2>2. arguments = <<c.v>>
    BY <1>5, <2>1 DEF Arguments, Completed
  <2> HIDE DEF arguments
  <2>3. Requested(c) = [K_x |-> arguments[1]]
    BY <2>1 DEF Requested, Request, arguments
  <2>4. Asked(c.name, c.v) = [K_x |-> c.v]
    BY <1>5 DEF Asked
  <2> QED BY <2>2, <2>3, <2>4
<1>6. CASE c.name = "set_tcp_frame"
  <2>1. Command(c.name) = "SetNEToEE"
    BY <1>6 DEF Command
  <2>2. arguments = <<c.v>>
    BY <1>6, <2>1 DEF Arguments, Completed
  <2> HIDE DEF arguments
  <2>3. Requested(c) = [NE_T_EE |-> arguments[1]]
    BY <2>1 DEF Requested, Request, arguments
  <2>4. Asked(c.name, c.v) = [NE_T_EE |-> c.v]
    BY <1>6 DEF Asked
  <2> QED BY <2>2, <2>3, <2>4
<1>7. CASE c.name = "set_stiffness_frame"
  <2>1. Command(c.name) = "SetEEToK"
    BY <1>7 DEF Command
  <2>2. arguments = <<c.v>>
    BY <1>7, <2>1 DEF Arguments, Completed
  <2> HIDE DEF arguments
  <2>3. Requested(c) = [EE_T_K |-> arguments[1]]
    BY <2>1 DEF Requested, Request, arguments
  <2>4. Asked(c.name, c.v) = [EE_T_K |-> c.v]
    BY <1>7 DEF Asked
  <2> QED BY <2>2, <2>3, <2>4
<1>8. CASE c.name = "set_load"
  <2>1. Command(c.name) = "SetLoad"
    BY <1>8 DEF Command
  <2>2. arguments = <<c.v>>
    BY <1>8, <2>1 DEF Arguments, Completed
  <2> HIDE DEF arguments
  <2>3. Requested(c) = [load |-> arguments[1]]
    BY <2>1 DEF Requested, Request, arguments
  <2>4. Asked(c.name, c.v) = [load |-> c.v]
    BY <1>8 DEF Asked
  <2> QED BY <2>2, <2>3, <2>4
<1> QED BY <1>1, <1>2, <1>3, <1>4, <1>5, <1>6, <1>7, <1>8

(* No command is reported successful but for the status kSuccess, and for  *)
(* that it is (handleCommandResponse, executeCommand).                     *)
LEMMA ResultIsTrue ==
  ASSUME NEW command, NEW status
  PROVE  /\ Result(command, status) \in
              {"success", "unsuccessful", "CommandException", "ProtocolException"}
         /\ Result(command, status) = "success" <=> status = "kSuccess"
<1>1. \A r \in {SetterResult(status), ModelResult(status), StopMoveResult(status),
               RecoveryResult(status), GripperResult(status), VacuumGripperResult(status)} :
        /\ r \in {"success", "unsuccessful", "CommandException", "ProtocolException"}
        /\ r = "success" <=> status = "kSuccess"
  BY DEF SetterResult, ModelResult, StopMoveResult, RecoveryResult, GripperResult,
     VacuumGripperResult
<1>2. Result(command, status) \in
        {SetterResult(status), ModelResult(status), StopMoveResult(status),
         RecoveryResult(status), GripperResult(status), VacuumGripperResult(status)}
  BY DEF Result
<1> QED BY <1>1, <1>2

---------------------------------------------------------------------------
(* The inductive invariant                                                 *)

Names ==
  Setters \cup {"none", "write", "recover", "load_model", "stop", "move", "readOnce",
                "undefined profile", "read", "getCurrentState"}

Outcomes ==
  {"none", "success", "unsuccessful", "CommandException", "ProtocolException",
   "NetworkException", "ControlException"}

AllStatuses == RecoveryStatuses \cup SetterStatuses \cup GripperStatuses \cup {Unknown}

Calling == [name : Names, v : Values \cup {None}]

Stages == {"idle", "locking", "running", "waiting", "draining", "blocking"}

CommandTypes ==
  /\ pc \in [Callers -> Stages]
  /\ call \in [Callers -> Calling]
  /\ result \in [Threads -> Outcomes]
  /\ answers \in [Callers -> AllStatuses \cup {None}]
  /\ done \in [Callers -> {"nothing", "done", "refused"}]
  /\ inbox \subseteq Callers /\ moving \in Callers \cup {None}

StateTypes ==
  /\ states \in Seq(Nat) /\ published \in Nat
  /\ arrived \in [Callers -> Nat] /\ read \in [Callers -> Nat]

(* Who calls what: all that are answered are calls of Threads.             *)
HostInv ==
  /\ \/ host = "hardware" /\ device = "robot"
     \/ host = "python" /\ device \in {"robot", "gripper"}
     \/ host = "threads" /\ device \in {"gripper", "vacuum gripper"}
  /\ callers \subseteq AllCallers

(* The calls that can be under way, and what each stage of one says of it. *)
CallsInv ==
  \A c \in Callers :
    /\ pc[c] # "idle" =>
         /\ c \in callers
         /\ connection \in {"up", "down"}
         /\ call[c].name \in Calls(c)
    /\ pc[c] \in {"running", "waiting"} => call[c].name \notin {"readOnce", "read"}
    /\ pc[c] = "draining" => call[c].name = "readOnce"
    /\ pc[c] = "blocking" => call[c].name \in {"readOnce", "read"}
    /\ LockOf(c) # None /\ pc[c] \in {"running", "waiting", "draining", "blocking"} =>
         mutex[LockOf(c)] = c

(* While the connection is up a request that was not looked at, or whose   *)
(* movement is executed, has no answer; and an answer says what was done.  *)
AnswerOf(c) ==
  /\ pc[c] \in {"locking", "running"} => done[c] = "nothing"
  /\ connection \in {"new", "refused"} => answers[c] = None /\ call[c].name = "none"
  /\ connection = "up" =>
       /\ c \in inbox \/ moving = c =>
            pc[c] = "waiting" /\ answers[c] = None /\ done[c] = "nothing"
       /\ c \in inbox => moving # c
       /\ moving = c => Command(call[c].name) \in {"Move", "Vacuum"}
       /\ pc[c] # "waiting" => answers[c] = None
       /\ pc[c] = "waiting" /\ answers[c] # None =>
            (answers[c] = "kSuccess" <=> done[c] = "done")
  /\ c \in Threads /\ pc[c] = "idle" /\ call[c].name \notin {"none", "readOnce"} =>
       /\ result[c] = "success" => done[c] = "done"
       /\ result[c] \in {"unsuccessful", "CommandException", "ProtocolException"} =>
            done[c] # "done"

AnswersInv ==
  /\ connection \in {"new", "refused"} => inbox = {} /\ moving = None
  /\ \A c \in Callers : AnswerOf(c)

(* The robot has set what the call c asked for, and c does not know it.    *)
SetFor(c) == call[c].name \in Setters /\ pc[c] = "waiting" /\ done[c] = "done"

Over(settings, asked) ==
  [p \in Parameters |-> IF p \in DOMAIN asked THEN asked[p] ELSE settings[p]]

(* The parameters are those that were reported, with what one setter asked *)
(* for on top while its response is on the way.                            *)
ParametersInv ==
  connection \in {"new", "up", "refused"} =>
    /\ \A c \in Callers : SetFor(c) =>
         parameters = Over(reported, Asked(call[c].name, call[c].v))
    /\ (\A c \in Callers : ~SetFor(c)) => parameters = reported

(* What a gripper's readOnce() waits for has not been published before it. *)
ReadInv ==
  /\ \A k \in 1 .. Len(states) : states[k] <= published
  /\ \A c \in Callers :
       /\ arrived[c] <= published
       /\ pc[c] = "blocking" /\ call[c].name = "readOnce" =>
            \A k \in 1 .. Len(states) : arrived[c] < states[k]
       /\ c \in Threads /\ pc[c] = "idle" /\ call[c].name = "readOnce" =>
            (result[c] = "success" => arrived[c] < read[c])

CommandsInv ==
  CommandTypes /\ StateTypes /\ HostInv /\ CallsInv /\ AnswersInv /\ ParametersInv /\ ReadInv

---------------------------------------------------------------------------
LEMMA CommandsInvInit == Init => CommandsInv
<1> SUFFICES ASSUME Init
             PROVE  CommandsInv
  OBVIOUS
<1> USE CommandsAssumption DEF Init
<1>1. CommandTypes
  BY DEF CommandTypes, Stages, Calling, Names, Outcomes
<1>2. /\ states = <<>> /\ published = 0
      /\ arrived = [c \in Callers |-> 0] /\ read = [c \in Callers |-> 0]
      /\ pc = [c \in Callers |-> "idle"]
      /\ call = [c \in Callers |-> [name |-> "none", v |-> None]]
  OBVIOUS
<1>3. CallsInv
  BY DEF CallsInv
<1>4. AnswersInv
  BY DEF AnswersInv, AnswerOf
<1>5. ParametersInv
  BY DEF ParametersInv, SetFor
<1>6. HostInv
  BY DEF HostInv, AllCallers, Threads, Callers
<1> HIDE DEF Init
<1>7. StateTypes /\ ReadInv
  BY <1>2 DEF StateTypes, ReadInv
<1> QED BY <1>1, <1>7, <1>3, <1>4, <1>5, <1>6 DEF CommandsInv

LEMMA TypesStep == CommandsInv /\ [Next]_vars => CommandTypes'
<1> SUFFICES ASSUME HostInv, CommandTypes, CallsInv, [Next]_vars
             PROVE  CommandTypes'
  BY DEF CommandsInv
<1>c. callers \subseteq Callers
  BY DEF HostInv, AllCallers, Threads, Callers
<1> USE DEF CommandTypes, Stages
<1>0. /\ {"none", "success", "CommandException", "NetworkException",
          "ControlException"} \subseteq Outcomes
      /\ {"kSuccess", "kAborted", "kFail", "kUnsuccessful", Unknown} \subseteq AllStatuses
  BY DEF Outcomes, AllStatuses, GripperStatuses
<1>1. ASSUME NEW c \in Callers, Call(c)
      PROVE  CommandTypes'
  <2>1. PICK name \in Calls(c), v \in Values :
          call' = [call EXCEPT ![c] = [name |-> name, v |-> v]]
    BY <1>1 DEF Call
  <2>2. name \in Names
    BY DEF Calls, Callers, Names
  <2>3. call' \in [Callers -> Calling]
    BY <2>1, <2>2 DEF Calling
  <2> QED BY <1>0, <1>1, <2>3 DEF Call
<1>2. ASSUME NEW c \in Callers, NEW outcome \in Outcomes, Return(c, outcome)
      PROVE  pc' \in [Callers -> Stages] /\ call' \in [Callers -> Calling]
             /\ result' \in [Threads -> Outcomes]
  <2>1. pc' \in [Callers -> Stages] /\ call' \in [Callers -> Calling]
    BY <1>2 DEF Return, Calling
  <2>2. result' = [d \in Threads |-> IF d = c THEN outcome ELSE result[d]]
    BY <1>2 DEF Return
  <2>3. result' \in [Threads -> Outcomes]
    BY <2>2
  <2> QED BY <2>1, <2>3
<1>3. ASSUME NEW c \in Callers, Enter(c)
      PROVE  CommandTypes'
  BY <1>3 DEF Enter, Begins, deviceVars
<1>4. ASSUME NEW c \in Callers, Send(c)
      PROVE  CommandTypes'
  <2>1. CASE connection = "up"
    BY <1>4, <2>1 DEF Send
  <2>2. CASE connection # "up"
    BY <1>0, <1>2, <1>4, <2>2 DEF Send, deviceVars
  <2> QED BY <2>1, <2>2
<1>5. ASSUME NEW c \in Callers, SendNothing(c)
      PROVE  CommandTypes'
  <2>1. PICK outcome \in Outcomes : Return(c, outcome)
    BY <1>0, <1>5 DEF SendNothing
  <2> QED BY <1>2, <1>5, <2>1 DEF SendNothing, deviceVars
<1>6. ASSUME NEW c \in Callers, Receive(c)
      PROVE  CommandTypes'
  <2>1. Result(Command(call[c].name), answers[c]) \in Outcomes
    BY ResultIsTrue DEF Outcomes
  <2> QED BY <1>2, <1>6, <2>1 DEF Receive
<1>7. ASSUME NEW c \in Callers, ReceiveThrows(c)
      PROVE  CommandTypes'
  BY <1>0, <1>2, <1>7 DEF ReceiveThrows
<1>8. ASSUME NEW c \in Callers, Drain(c)
      PROVE  CommandTypes'
  BY <1>8 DEF Drain, deviceVars
<1>9. ASSUME NEW c \in Callers, ReadState(c) \/ ReadRobotState(c) \/ ReadTimeout(c)
      PROVE  CommandTypes'
  BY <1>0, <1>2, <1>9 DEF ReadState, ReadRobotState, ReadTimeout, deviceVars
<1>10. ASSUME NEW c \in Callers, Serve(c)
       PROVE  CommandTypes'
  <2>1. PICK status \in Statuses(Command(call[c].name)) : Answer(c, status)
    BY <1>10 DEF Serve
  <2>2. status \in AllStatuses
    BY DEF Statuses, AllStatuses, RecoveryStatuses, StopMoveStatuses, SetterStatuses
  <2> QED BY <1>10, <2>1, <2>2 DEF Serve, Answer, callVars
<1>11. ASSUME NEW c \in Callers, NEW status \in AllStatuses \cup {None}, Interrupt(c, status)
       PROVE  /\ answers' \in [Callers -> AllStatuses \cup {None}]
              /\ done' \in [Callers -> {"nothing", "done", "refused"}]
  BY <1>0, <1>11 DEF Interrupt
<1>12. ASSUME NEW c \in Callers, ServeMove(c)
       PROVE  CommandTypes'
  BY <1>11, <1>12 DEF ServeMove, callVars
<1>13. ASSUME NEW c \in Callers, ServeStop(c)
       PROVE  CommandTypes'
  BY <1>0, <1>11, <1>13 DEF ServeStop, callVars
<1>14. CASE Finish
  BY <1>0, <1>14 DEF Finish, Answer, callVars
<1>15. CASE Publish \/ Connect \/ Spin \/ Shutdown \/ Join \/ Break \/ UNCHANGED vars
  BY <1>15 DEF Publish, Connect, Spin, Shutdown, Join, Break, vars, callVars, deviceVars
<1> QED
  BY <1>c, <1>1, <1>3, <1>4, <1>5, <1>6, <1>7, <1>8, <1>9, <1>10, <1>12, <1>13, <1>14, <1>15
  DEF Next, Runs, Serves, Threads, Callers

LEMMA StateTypesStep == CommandsInv /\ [Next]_vars => StateTypes'
<1> SUFFICES ASSUME HostInv, StateTypes, [Next]_vars
             PROVE  StateTypes'
  BY DEF CommandsInv
<1>c. callers \subseteq Callers
  BY DEF HostInv, AllCallers, Threads, Callers
<1> USE DEF StateTypes
<1>1. CASE UNCHANGED stateVars
  BY <1>1 DEF stateVars
<1>2. ASSUME NEW c \in Callers, Enter(c)
      PROVE  StateTypes'
  <2>1. states # <<>> => states[Len(states)] \in Nat
    OBVIOUS
  <2>2. read' \in [Callers -> Nat] /\ UNCHANGED <<states, published>>
    BY <1>2 DEF Enter, Begins
  <2>3. arrived' \in [Callers -> Nat]
    BY <1>2, <2>1 DEF Enter, Begins
  <2> QED BY <2>2, <2>3
<1>3. ASSUME NEW c \in Callers, Drain(c)
      PROVE  StateTypes'
  <2>1. states # <<>> => Tail(states) \in Seq(Nat)
    OBVIOUS
  <2> QED BY <1>3, <2>1 DEF Drain
<1>4. ASSUME NEW c \in Callers, ReadState(c)
      PROVE  StateTypes'
  <2>1. Tail(states) \in Seq(Nat) /\ Head(states) \in Nat
    BY <1>4 DEF ReadState
  <2> QED BY <1>4, <2>1 DEF ReadState
<1>5. CASE Publish
  <2>1. published + 1 \in Nat /\ \A n \in Nat : Append(states, n) \in Seq(Nat)
    OBVIOUS
  <2>2. published' = published + 1 /\ states' \in {states, Append(states, published + 1)}
        /\ UNCHANGED <<arrived, read>>
    BY <1>5 DEF Publish
  <2>3. Append(states, published + 1) \in Seq(Nat)
    BY <2>1
  <2> QED BY <2>1, <2>2, <2>3
<1> QED
  BY <1>c, <1>1, <1>2, <1>3, <1>4, <1>5
  DEF Next, Runs, Serves, Connect, Spin, Shutdown, Join, Call, Send, SendNothing, Receive,
      ReceiveThrows, ReadRobotState, ReadTimeout, Serve, ServeMove, ServeStop, Finish, Break,
      vars

(* Whoever needs the lock has it while it runs, and stays at its call.     *)
LEMMA CallsStep == CommandsInv /\ [Next]_vars => CallsInv'
<1> SUFFICES ASSUME HostInv, CommandTypes, CallsInv, AnswersInv, [Next]_vars
             PROVE  CallsInv'
  BY DEF CommandsInv
<1>c. callers \subseteq Callers
  BY DEF HostInv, AllCallers, Threads, Callers
<1> USE DEF CommandTypes, Stages, CallsInv
<1>1. ASSUME UNCHANGED callVars, UNCHANGED connection, UNCHANGED <<host, device, callers>>
      PROVE  CallsInv'
  BY <1>1 DEF callVars, Calls, LockOf
<1>2. ASSUME NEW c \in Callers, c \in callers, Call(c)
      PROVE  CallsInv'
  <2>1. /\ UNCHANGED <<host, device, callers, connection, mutex>>
        /\ connection \in {"up", "down"}
        /\ pc' = [pc EXCEPT ![c] = "locking"]
    BY <1>2 DEF Call, hostVars
  <2>2. PICK name \in Calls(c), v \in Values :
          /\ name \notin Setters => v = CHOOSE value \in Values: TRUE
          /\ call' = [call EXCEPT ![c] = [name |-> name, v |-> v]]
    BY <1>2, Zenon DEF Call
  <2>3. call'[c].name \in Calls(c)
    BY <2>2
  <2>4. \A d \in Callers \ {c} : call'[d] = call[d]
    BY <2>2
  <2>5. \A d \in Callers : Calls(d)' = Calls(d) /\ LockOf(d)' = LockOf(d)
    BY <2>1 DEF Calls, LockOf
  <2> QED BY <1>2, <2>1, <2>3, <2>4, <2>5
<1>3. ASSUME NEW c \in Callers, NEW outcome, Return(c, outcome),
             pc[c] \notin {"idle", "locking"}, connection' \in {"up", "down"},
             UNCHANGED <<host, device, callers>>
      PROVE  CallsInv'
  <2>1. \A d \in Callers : Calls(d)' = Calls(d) /\ LockOf(d)' = LockOf(d)
    BY <1>3 DEF Calls, LockOf
  <2>2. \A d \in Callers \ {c} : pc'[d] = pc[d] /\ call'[d] = call[d]
    BY <1>3 DEF Return
  <2>3. pc'[c] = "idle"
    BY <1>3 DEF Return
  <2>4. mutex' = [m \in Mutexes |-> IF m = LockOf(c) THEN None ELSE mutex[m]]
    BY <1>3 DEF Return
  <2>5. ASSUME NEW d \in Callers \ {c}, LockOf(d) # None,
               pc[d] \in {"running", "waiting", "draining", "blocking"}
        PROVE  mutex'[LockOf(d)] = d
    <3>1. LockOf(d) \in Mutexes /\ mutex[LockOf(d)] = d
      BY <2>5 DEF LockOf, Mutexes
    <3>2. LockOf(d) # LockOf(c)
      BY <1>3, <2>5, <3>1
    <3> QED BY <2>4, <3>1, <3>2
  <2> QED BY <1>3, <2>1, <2>2, <2>3, <2>5
<1>4. ASSUME NEW c \in Callers, Enter(c)
      PROVE  CallsInv'
  <2>1. /\ UNCHANGED <<host, device, callers, connection, call>> /\ pc[c] = "locking"
        /\ LockOf(c) # None => mutex[LockOf(c)] = None
        /\ mutex' = [m \in Mutexes |-> IF m = LockOf(c) THEN c ELSE mutex[m]]
        /\ pc' = [pc EXCEPT ![c] = Begins(call[c].name)]
    BY <1>4 DEF Enter, Begins, hostVars
  <2>2. \A d \in Callers : Calls(d)' = Calls(d) /\ LockOf(d)' = LockOf(d)
    BY <2>1 DEF Calls, LockOf
  <2>3. None \notin Callers
    BY CommandsAssumption DEF Callers
  <2>4. ASSUME NEW d \in Callers, LockOf(d) # None,
               d = c \/ pc[d] \in {"running", "waiting", "draining", "blocking"}
        PROVE  mutex'[LockOf(d)] = d
    <3>1. LockOf(d) \in Mutexes
      BY <2>4 DEF LockOf, Mutexes
    <3>2. d # c => mutex[LockOf(d)] = d
      BY <2>4
    <3> QED BY <2>1, <2>3, <2>4, <3>1, <3>2
  <2>5. \A d \in Callers \ {c} : pc'[d] = pc[d]
    BY <2>1
  <2>6. /\ call[c].name = "readOnce" => pc'[c] = "draining"
        /\ call[c].name = "read" => pc'[c] = "blocking"
        /\ call[c].name \notin {"readOnce", "read"} => pc'[c] = "running"
    BY <2>1 DEF Begins
  <2>7. /\ c \in callers /\ connection \in {"up", "down"} /\ call[c].name \in Calls(c)
    BY <2>1
  <2>8. /\ pc'[c] \in {"draining", "blocking", "running"}
        /\ pc'[c] = "running" => call[c].name \notin {"readOnce", "read"}
        /\ pc'[c] = "draining" => call[c].name = "readOnce"
        /\ pc'[c] = "blocking" => call[c].name = "read"
    BY <2>6
  <2>9. mutex'[LockOf(c)] = c \/ LockOf(c) = None
    BY <2>4
  <2>10. \A d \in Callers \ {c} :
           LockOf(d) # None /\ pc[d] \in {"running", "waiting", "draining", "blocking"} =>
             mutex'[LockOf(d)] = d
    BY <2>4
  <2> DEFINE Stands(d) ==
    /\ pc[d] # "idle" =>
         d \in callers /\ connection \in {"up", "down"} /\ call[d].name \in Calls(d)
    /\ pc[d] \in {"running", "waiting"} => call[d].name \notin {"readOnce", "read"}
    /\ pc[d] = "draining" => call[d].name = "readOnce"
    /\ pc[d] = "blocking" => call[d].name \in {"readOnce", "read"}
    /\ LockOf(d) # None /\ pc[d] \in {"running", "waiting", "draining", "blocking"} =>
         mutex[LockOf(d)] = d
  <2>11. Stands(c)'
    BY <2>1, <2>2, <2>7, <2>8, <2>9
  <2>12. ASSUME NEW d \in Callers \ {c}
         PROVE  Stands(d)'
    BY <2>1, <2>2, <2>5, <2>10
  <2> QED BY <2>11, <2>12
<1>5. ASSUME NEW c \in Callers, Send(c)
      PROVE  CallsInv'
  <2>1. connection \in {"up", "down"} /\ UNCHANGED hostVars
    BY <1>5 DEF Send
  <2>2. CASE connection = "up"
    <3>1. /\ UNCHANGED <<host, device, callers, connection, call, mutex>> /\ pc[c] = "running"
          /\ pc' = [pc EXCEPT ![c] = "waiting"]
      BY <1>5, <2>2 DEF Send, hostVars
    <3>2. \A d \in Callers : Calls(d)' = Calls(d) /\ LockOf(d)' = LockOf(d)
      BY <3>1 DEF Calls, LockOf
    <3> QED BY <2>1, <3>1, <3>2
  <2>3. CASE connection # "up"
    BY <1>3, <1>5, <2>1, <2>3 DEF Send, hostVars
  <2> QED BY <2>2, <2>3
<1>6. ASSUME NEW c \in Callers,
             \/ SendNothing(c) \/ Receive(c) \/ ReceiveThrows(c)
             \/ ReadState(c) \/ ReadRobotState(c)
      PROVE  CallsInv'
  <2>1. pc[c] \notin {"idle", "locking"} /\ UNCHANGED hostVars
    BY <1>6 DEF SendNothing, Receive, ReceiveThrows, ReadState, ReadRobotState
  <2>2. connection' \in {"up", "down"} /\ UNCHANGED <<host, device, callers>>
    BY <2>1 DEF hostVars
  <2>3. \E outcome : Return(c, outcome)
    BY <1>6 DEF SendNothing, Receive, ReceiveThrows, ReadState, ReadRobotState
  <2> QED BY <1>3, <2>1, <2>2, <2>3
<1>7. ASSUME NEW c \in Callers, ReadTimeout(c)
      PROVE  CallsInv'
  BY <1>3, <1>7 DEF ReadTimeout
<1>8. ASSUME NEW c \in Callers, Drain(c)
      PROVE  CallsInv'
  <2>1. /\ UNCHANGED <<host, device, callers, connection, call, mutex>> /\ pc[c] = "draining"
        /\ pc' = pc \/ pc' = [pc EXCEPT ![c] = "blocking"]
    BY <1>8 DEF Drain, hostVars
  <2>2. \A d \in Callers : Calls(d)' = Calls(d) /\ LockOf(d)' = LockOf(d)
    BY <2>1 DEF Calls, LockOf
  <2> QED BY <2>1, <2>2
<1>9. CASE Connect \/ Break
  <2>1. UNCHANGED <<host, device, callers>> /\ UNCHANGED callVars
    BY <1>9 DEF Connect, Break
  <2>2. \A d \in Callers : Calls(d)' = Calls(d) /\ LockOf(d)' = LockOf(d)
    BY <2>1 DEF Calls, LockOf
  <2>3. connection' \in {"up", "down"} \/ connection = "new"
    BY <1>9 DEF Connect, Break
  <2> QED BY <2>1, <2>2, <2>3 DEF callVars
<1>10. CASE \/ Spin \/ Shutdown \/ Join \/ Finish \/ Publish \/ UNCHANGED vars
            \/ \E c \in callers : Serves(c)
  <2>1. UNCHANGED callVars /\ UNCHANGED connection /\ UNCHANGED <<host, device, callers>>
    BY <1>10 DEF Spin, Shutdown, Join, Finish, Publish, Serves, Serve, ServeMove, ServeStop,
                 vars, hostVars
  <2> QED BY <1>1, <2>1
<1>11. ASSUME NEW c \in callers, Call(c) \/ Runs(c)
       PROVE  CallsInv'
  BY <1>c, <1>2, <1>4, <1>5, <1>6, <1>7, <1>8, <1>11 DEF Runs
<1> HIDE DEF CommandTypes, Stages, CallsInv
<1> QED
  BY <1>9, <1>10, <1>11 DEF Next

(* A state published after readOnce() was called is newer than all that    *)
(* had arrived before; none but such is left when its loop has ended.      *)
LEMMA ReadStep == CommandsInv /\ [Next]_vars => ReadInv'
<1> SUFFICES ASSUME HostInv, CommandTypes, StateTypes, CallsInv, ReadInv, [Next]_vars
             PROVE  ReadInv'
  BY DEF CommandsInv
<1>c. callers \subseteq Callers
  BY DEF HostInv, AllCallers, Threads, Callers
<1> USE DEF CommandTypes, Stages, StateTypes
<1>1. CASE UNCHANGED <<pc, call, result, stateVars>>
  BY <1>1 DEF stateVars, ReadInv
<1>2. ASSUME NEW c \in Callers, Call(c)
      PROVE  ReadInv'
  BY <1>2 DEF Call, stateVars, ReadInv
<1>3. ASSUME NEW c \in Callers, Enter(c)
      PROVE  ReadInv'
  <2>1. /\ UNCHANGED <<call, result, states, published>>
        /\ pc' = [pc EXCEPT ![c] = Begins(call[c].name)]
        /\ read' = [read EXCEPT ![c] = 0]
        /\ arrived' = [arrived EXCEPT ![c] =
             IF call[c].name # "readOnce" \/ states = <<>> THEN 0 ELSE states[Len(states)]]
    BY <1>3 DEF Enter
  <2>2. \A d \in Callers : arrived'[d] <= published
    <3>1. states # <<>> => Len(states) \in 1 .. Len(states)
      OBVIOUS
    <3>2. arrived'[c] <= published
      BY <2>1, <3>1 DEF ReadInv
    <3> QED BY <2>1, <3>2 DEF ReadInv
  <2>3. pc'[c] # "idle" /\ (call[c].name = "readOnce" => pc'[c] = "draining")
    BY <2>1 DEF Begins
  <2>4. \A d \in Callers \ {c} : pc'[d] = pc[d] /\ arrived'[d] = arrived[d] /\ read'[d] = read[d]
    BY <2>1
  <2> QED BY <2>1, <2>2, <2>3, <2>4 DEF ReadInv
<1>4. ASSUME NEW c \in Callers, NEW outcome, Return(c, outcome), UNCHANGED stateVars,
             outcome = "success" => call[c].name # "readOnce"
      PROVE  ReadInv'
  <2>1. call'[c].name = call[c].name /\ \A d \in Callers \ {c} : call'[d] = call[d]
    BY <1>4 DEF Return, Calling
  <2> QED BY <1>4, <2>1 DEF Return, stateVars, ReadInv
<1>5. ASSUME NEW c \in Callers, Send(c)
      PROVE  ReadInv'
  <2>1. CASE connection = "up"
    BY <1>5, <2>1 DEF Send, stateVars, ReadInv
  <2>2. CASE connection # "up"
    BY <1>4, <1>5, <2>2 DEF Send
  <2> QED BY <2>1, <2>2
<1>6. ASSUME NEW c \in Callers,
             \/ SendNothing(c) \/ Receive(c) \/ ReceiveThrows(c)
             \/ ReadRobotState(c) \/ ReadTimeout(c)
      PROVE  ReadInv'
  <2>1. /\ UNCHANGED stateVars
        /\ \/ pc[c] \in {"running", "waiting"} \/ call[c].name = "read"
           \/ Return(c, "NetworkException")
    BY <1>6 DEF SendNothing, Receive, ReceiveThrows, ReadRobotState, ReadTimeout
  <2>2. pc[c] \in {"running", "waiting"} => call[c].name # "readOnce"
    BY DEF CallsInv
  <2>3. \E outcome : Return(c, outcome)
    BY <1>6 DEF SendNothing, Receive, ReceiveThrows, ReadRobotState, ReadTimeout
  <2> QED BY <1>4, <2>1, <2>2, <2>3
<1>7. ASSUME NEW c \in Callers, Drain(c)
      PROVE  ReadInv'
  <2>1. CASE states = <<>>
    <3>1. Len(states) = 0
      BY <2>1
    <3> QED BY <1>7, <2>1, <3>1 DEF Drain, ReadInv
  <2>2. CASE states # <<>>
    <3>1. /\ states' = Tail(states) /\ UNCHANGED <<pc, call, result, published, arrived, read>>
      BY <1>7, <2>2 DEF Drain
    <3>2. /\ Len(states') = Len(states) - 1
          /\ \A k \in 1 .. Len(states') : states'[k] = states[k + 1]
      BY <2>2, <3>1
    <3>3. \A k \in 1 .. Len(states') : k + 1 \in 1 .. Len(states)
      BY <3>2
    <3> QED BY <3>1, <3>2, <3>3 DEF ReadInv
  <2> QED BY <2>1, <2>2
<1>8. ASSUME NEW c \in Callers, ReadState(c)
      PROVE  ReadInv'
  <2>1. /\ pc[c] = "blocking" /\ states # <<>> /\ UNCHANGED <<published, arrived>>
        /\ call[c].name = "readOnce"
        /\ read' = [read EXCEPT ![c] = Head(states)]
        /\ states' = Tail(states) /\ Return(c, "success")
    BY <1>8 DEF ReadState
  <2>2. /\ Len(states') = Len(states) - 1 /\ Len(states) \in Nat \ {0}
        /\ Head(states) = states[1]
        /\ \A k \in 1 .. Len(states') : states'[k] = states[k + 1]
    BY <2>1
  <2>3. (\A k \in 1 .. Len(states') : k + 1 \in 1 .. Len(states)) /\ 1 \in 1 .. Len(states)
    BY <2>2
  <2>4. arrived[c] < read'[c]
    BY <2>1, <2>2, <2>3 DEF ReadInv
  <2>5. /\ pc' = [pc EXCEPT ![c] = "idle"]
        /\ \A d \in Callers \ {c} : call'[d] = call[d] /\ read'[d] = read[d]
        /\ \A d \in Threads \ {c} : result'[d] = result[d]
    BY <2>1 DEF Return
  <2> QED BY <2>1, <2>2, <2>3, <2>4, <2>5 DEF ReadInv
<1>9. CASE Publish
  <2>1. /\ published' = published + 1 /\ states' \in {states, Append(states, published + 1)}
        /\ UNCHANGED <<pc, call, result, arrived, read>>
    BY <1>9 DEF Publish, callVars
  <2>2. /\ Len(Append(states, published + 1)) = Len(states) + 1
        /\ \A k \in 1 .. Len(states) : Append(states, published + 1)[k] = states[k]
        /\ Append(states, published + 1)[Len(states) + 1] = published + 1
    OBVIOUS
  <2>3. ASSUME NEW k \in 1 .. Len(states')
        PROVE  \/ k \in 1 .. Len(states) /\ states'[k] = states[k] /\ states[k] \in Nat
               \/ states'[k] = published + 1
    <3>1. CASE states' = states
      BY <3>1
    <3>2. CASE states' = Append(states, published + 1)
      <4>1. k \in 1 .. Len(states) \/ k = Len(states) + 1
        BY <2>2, <3>2
      <4> QED BY <2>2, <3>2, <4>1
    <3> QED BY <2>1, <3>1, <3>2
  <2>4. \A k \in 1 .. Len(states') : states'[k] <= published'
    BY SMTT(20), <2>1, <2>3 DEF ReadInv
  <2>5. ASSUME NEW d \in Callers
        PROVE  /\ arrived[d] <= published + 1
               /\ pc[d] = "blocking" /\ call[d].name = "readOnce" =>
                    \A k \in 1 .. Len(states') : arrived[d] < states'[k]
    <3>1. arrived[d] \in Nat /\ arrived[d] <= published
      BY DEF ReadInv
    <3>2. arrived[d] < published + 1
      BY <3>1
    <3>3. ASSUME pc[d] = "blocking", call[d].name = "readOnce", NEW k \in 1 .. Len(states')
          PROVE  arrived[d] < states'[k]
      <4>1. CASE states'[k] = published + 1
        BY <3>2, <4>1
      <4>2. CASE k \in 1 .. Len(states) /\ states'[k] = states[k]
        BY <3>3, <4>2 DEF ReadInv
      <4> QED BY <2>3, <4>1, <4>2
    <3> QED BY <3>1, <3>2, <3>3
  <2> QED BY <2>1, <2>4, <2>5 DEF ReadInv
<1> QED
  BY <1>c, <1>1, <1>2, <1>3, <1>5, <1>6, <1>7, <1>8, <1>9
  DEF Next, Runs, Serves, Threads, Callers, Connect, Spin, Shutdown, Join, Break, Serve,
      ServeMove, ServeStop, Finish, vars, callVars

LEMMA SettersOnly ==
  ASSUME NEW name \in Setters
  PROVE  /\ Command(name) \notin {"Move", "Vacuum", "Stop"}
         /\ name \notin {"none", "write", "recover", "load_model", "stop", "move", "readOnce",
                       "undefined profile", "read", "getCurrentState"}
<1>1. name \in {"set_joint_stiffness", "set_cartesian_stiffness", "set_tcp_frame",
        "set_stiffness_frame", "set_load", "set_force_torque_collision_behavior",
        "set_full_collision_behavior"}
  BY CommandsAssumption
<1> QED BY <1>1 DEF Command

(* The control loop and a PTP motion call what no service calls, and set   *)
(* nothing.                                                                *)
LEMMA LoopOnly ==
  ASSUME HostInv, CallsInv, NEW c \in Callers, pc[c] # "idle"
  PROVE  /\ call[c].name \in {"read", "write", "getCurrentState"} => c \notin Threads
         /\ call[c].name \in Setters => c \in Threads
<1>1. call[c].name \in Calls(c) /\ c \in AllCallers
  BY DEF CallsInv, HostInv
<1>2. CASE host = "hardware"
  BY <1>1, <1>2, SettersOnly DEF Calls, Threads, Callers
<1>3. CASE host # "hardware"
  <2>1. c \in Threads
    BY <1>1, <1>3 DEF AllCallers
  <2>2. call[c].name \in Setters \cup {"recover", "load_model", "stop", "move", "readOnce",
                                     "undefined profile"}
    BY <1>1, <1>3 DEF Calls
  <2> QED BY <2>1, <2>2, SettersOnly
<1> QED BY <1>2, <1>3

(* An answer is given once, to who waits for it, and says what was done.   *)
LEMMA AnswersStep == CommandsInv /\ [Next]_vars => AnswersInv'
<1> SUFFICES ASSUME HostInv, CommandTypes, CallsInv, AnswersInv, [Next]_vars
             PROVE  AnswersInv'
  BY DEF CommandsInv
<1>c. callers \subseteq Callers
  BY DEF HostInv, AllCallers, Threads, Callers
<1> USE DEF CommandTypes, Stages
<1>0. None \notin Callers /\ None # "kSuccess"
  BY CommandsAssumption DEF Callers
(* A caller that a step does not concern.                                  *)
<1>a. ASSUME NEW d \in Callers, UNCHANGED <<connection, device>>,
             pc'[d] = pc[d], call'[d] = call[d], d \in Threads => result'[d] = result[d],
             answers'[d] = answers[d], done'[d] = done[d],
             d \in inbox' <=> d \in inbox, moving' = d <=> moving = d
      PROVE  AnswerOf(d)'
  BY <1>a DEF AnswersInv, AnswerOf, Command
<1>1. CASE UNCHANGED <<connection, device, pc, call, result, inbox, moving, answers, done>>
  <2>1. \A d \in Callers : Command(call[d].name)' = Command(call[d].name)
    BY <1>1 DEF Command
  <2>2. \A d \in Callers : AnswerOf(d)' = AnswerOf(d)
    BY <1>1, <2>1 DEF AnswerOf
  <2> QED BY <1>1, <2>2 DEF AnswersInv
<1>2. ASSUME NEW c \in Callers, Call(c)
      PROVE  AnswersInv'
  <2>1. /\ pc[c] = "idle" /\ pc' = [pc EXCEPT ![c] = "locking"]
        /\ done' = [done EXCEPT ![c] = "nothing"]
        /\ connection \in {"up", "down"}
        /\ UNCHANGED <<connection, device, inbox, moving, answers>>
    BY <1>2 DEF Call, hostVars
  <2>2. /\ \A d \in Callers \ {c} : call'[d] = call[d]
        /\ \A d \in Threads \ {c} : result'[d] = result[d]
    BY <1>2 DEF Call
  <2>3. \A d \in Callers \ {c} : AnswerOf(d)'
    BY <1>a, <2>1, <2>2
  <2>4. AnswerOf(c)'
    BY <2>1 DEF AnswersInv, AnswerOf
  <2> QED BY <2>1, <2>3, <2>4 DEF AnswersInv
<1>3. ASSUME NEW c \in Callers, Enter(c)
      PROVE  AnswersInv'
  <2>1. /\ pc[c] = "locking"
        /\ \E stage \in {"draining", "blocking", "running"} : pc' = [pc EXCEPT ![c] = stage]
        /\ UNCHANGED <<connection, device, call, result, inbox, moving, answers, done>>
    BY <1>3 DEF Enter, Begins, hostVars, deviceVars
  <2>2. \A d \in Callers \ {c} : AnswerOf(d)'
    BY <1>a, <2>1
  <2>3. pc'[c] \in {"draining", "blocking", "running"}
    BY <2>1
  <2>4. AnswerOf(c)
    BY DEF AnswersInv
  <2>5. /\ done[c] = "nothing"
        /\ connection = "up" => c \notin inbox /\ moving # c /\ answers[c] = None
        /\ connection \in {"new", "refused"} => answers[c] = None /\ call[c].name = "none"
    <3>1. pc[c] = "locking"
      BY <2>1
    <3> QED BY <2>4, <3>1 DEF AnswerOf
  <2>6. AnswerOf(c)'
    <3> SUFFICES ASSUME UNCHANGED <<connection, call, inbox, moving, answers, done>>
                 PROVE  AnswerOf(c)'
      BY <2>1
    <3> QED BY <2>3, <2>5 DEF AnswerOf
  <2> QED BY <2>1, <2>2, <2>6 DEF AnswersInv
<1>4. ASSUME NEW c \in Callers, NEW outcome, Return(c, outcome), pc[c] # "idle",
             connection' \in {"up", "down"}, connection' = "up" => connection = "up",
             connection' = "up" => answers'[c] = None /\ c \notin inbox /\ moving # c,
             \A d \in Callers \ {c} : answers'[d] = answers[d],
             c \in Threads /\ call[c].name \notin {"none", "readOnce"} =>
               /\ outcome = "success" => done[c] = "done"
               /\ outcome \in {"unsuccessful", "CommandException", "ProtocolException"} =>
                    done[c] # "done",
             UNCHANGED <<device, inbox, moving, done>>
      PROVE  AnswersInv'
  <2>1. /\ pc' = [pc EXCEPT ![c] = "idle"]
        /\ result' = [result EXCEPT ![c] = outcome]
        /\ call'[c].name = call[c].name
        /\ \A d \in Callers \ {c} : call'[d] = call[d]
    BY <1>4 DEF Return, Calling
  <2>2. ASSUME NEW d \in Callers \ {c}
        PROVE  AnswerOf(d)'
    <3>1. pc'[d] = pc[d] /\ call'[d] = call[d] /\ result'[d] = result[d] /\ AnswerOf(d)
      BY <2>1 DEF AnswersInv
    <3>2. Command(call[d].name)' = Command(call[d].name)
      BY <1>4, <3>1 DEF Command
    <3> QED BY <1>4, <3>1, <3>2 DEF AnswerOf
  <2>3. AnswerOf(c)'
    BY <1>4, <2>1 DEF AnswersInv, AnswerOf
  <2> QED BY <1>4, <2>2, <2>3 DEF AnswersInv
<1>5. ASSUME NEW c \in Callers, Send(c)
      PROVE  AnswersInv'
  <2>1. pc[c] = "running" /\ connection \in {"up", "down"} /\ UNCHANGED <<connection, device>>
    BY <1>5 DEF Send, hostVars, CallsInv
  <2>2. CASE connection = "up"
    <3>1. /\ inbox' = inbox \union {c} /\ pc' = [pc EXCEPT ![c] = "waiting"]
          /\ UNCHANGED <<call, result, answers, done, moving>>
      BY <1>5, <2>2 DEF Send
    <3>2. ASSUME NEW d \in Callers \ {c}
          PROVE  AnswerOf(d)'
      BY <1>a, <2>1, <3>1
    <3>3. AnswerOf(c)'
      <4>1. done[c] = "nothing" /\ moving # c /\ answers[c] = None
        BY <2>1, <2>2 DEF AnswersInv, AnswerOf
      <4> QED BY <2>1, <2>2, <3>1, <4>1 DEF AnswerOf
    <3> QED BY <2>1, <2>2, <3>2, <3>3 DEF AnswersInv
  <2>3. CASE connection # "up"
    <3>1. Return(c, "NetworkException") /\ UNCHANGED <<inbox, answers, done, moving>>
      BY <1>5, <2>3 DEF Send, deviceVars
    <3> QED BY <1>4, <2>1, <2>3, <3>1
  <2> QED BY <2>2, <2>3
<1>6. ASSUME NEW c \in Callers, SendNothing(c)
      PROVE  AnswersInv'
  <2>1. /\ pc[c] = "running" /\ UNCHANGED <<connection, device, inbox, answers, done, moving>>
        /\ \/ /\ call[c].name \in {"write", "getCurrentState"}
              /\ \E outcome : Return(c, outcome)
           \/ Return(c, "CommandException")
    BY <1>6 DEF SendNothing, hostVars, deviceVars
  <2>4. call[c].name \in {"write", "getCurrentState"} => c \notin Threads
    BY <2>1, LoopOnly
  <2>2. connection \in {"up", "down"} /\ done[c] = "nothing"
    BY <2>1 DEF CallsInv, AnswersInv, AnswerOf
  <2>3. connection = "up" => answers[c] = None /\ c \notin inbox /\ moving # c
    BY <2>1 DEF AnswersInv, AnswerOf
  <2> QED BY <1>4, <2>1, <2>2, <2>3, <2>4
<1>7. ASSUME NEW c \in Callers, Receive(c)
      PROVE  AnswersInv'
  <2> DEFINE outcome == Result(Command(call[c].name), answers[c])
  <2>1. /\ pc[c] = "waiting" /\ connection = "up" /\ answers[c] # None
        /\ Return(c, outcome) /\ answers' = [answers EXCEPT ![c] = None]
        /\ UNCHANGED <<connection, device, inbox, done, moving>>
    BY <1>7 DEF Receive, hostVars
  <2>2. outcome = "success" <=> answers[c] = "kSuccess"
    BY ResultIsTrue
  <2> HIDE DEF outcome
  <2>3. (answers[c] = "kSuccess" <=> done[c] = "done") /\ c \notin inbox /\ moving # c
    BY <2>1 DEF AnswersInv, AnswerOf
  <2> QED BY <1>4, <2>1, <2>2, <2>3
<1>8. ASSUME NEW c \in Callers, ReceiveThrows(c)
      PROVE  AnswersInv'
  <2>1. /\ pc[c] = "waiting" /\ connection = "down" /\ Return(c, "NetworkException")
        /\ answers' = [answers EXCEPT ![c] = None]
        /\ UNCHANGED <<connection, device, inbox, done, moving>>
    BY <1>8 DEF ReceiveThrows, hostVars
  <2> QED BY <1>4, <2>1
<1>9. ASSUME NEW c \in Callers, Drain(c)
      PROVE  AnswersInv'
  <2>1. /\ pc[c] = "draining" /\ pc' \in {pc, [pc EXCEPT ![c] = "blocking"]}
        /\ UNCHANGED <<connection, device, call, result, inbox, moving, answers, done>>
    BY <1>9 DEF Drain, hostVars, deviceVars
  <2>2. \A d \in Callers \ {c} : AnswerOf(d)'
    BY <1>a, <2>1
  <2>3. AnswerOf(c)'
    BY <2>1 DEF AnswersInv, AnswerOf, Command
  <2> QED BY <2>1, <2>2, <2>3 DEF AnswersInv
<1>10. ASSUME NEW c \in Callers, ReadState(c) \/ ReadRobotState(c) \/ ReadTimeout(c)
       PROVE  AnswersInv'
  <2>1. /\ pc[c] = "blocking" /\ UNCHANGED <<device, inbox, answers, done, moving>>
        /\ connection' = connection \/ connection' = "down"
        /\ \E outcome : Return(c, outcome)
    BY <1>10 DEF ReadState, ReadRobotState, ReadTimeout, hostVars, deviceVars
  <2>2. /\ call[c].name = "readOnce" \/ c \notin Threads
        /\ connection \in {"up", "down"}
    BY <2>1, LoopOnly DEF CallsInv
  <2>3. connection = "up" => answers[c] = None /\ c \notin inbox /\ moving # c
    BY <2>1 DEF AnswersInv, AnswerOf
  <2> QED BY <1>4, <2>1, <2>2, <2>3
<1>11. ASSUME NEW c \in Callers, Serve(c)
       PROVE  AnswersInv'
  <2>1. /\ connection = "up" /\ c \in inbox /\ inbox' = inbox \ {c}
        /\ UNCHANGED <<connection, device, pc, call, result, moving>>
    BY <1>11 DEF Serve, hostVars, callVars
  <2>2. PICK status : Answer(c, status)
    BY <1>11 DEF Serve
  <2>3. ASSUME NEW d \in Callers \ {c}
        PROVE  AnswerOf(d)'
    BY <1>a, <2>1, <2>2 DEF Answer
  <2>4. AnswerOf(c)'
    <3>1. pc[c] = "waiting" /\ moving # c
      BY <2>1 DEF AnswersInv, AnswerOf
    <3>2. answers'[c] = status /\ (status = "kSuccess" <=> done'[c] = "done")
      BY <2>2 DEF Answer
    <3> QED BY <2>1, <3>1, <3>2 DEF AnswerOf
  <2> QED BY <2>1, <2>3, <2>4 DEF AnswersInv
<1>12. ASSUME NEW c \in Callers, NEW status, connection = "up", c \in inbox,
              Interrupt(c, status), inbox' = inbox \ {c},
              \/ status = None /\ moving' = c /\ Command(call[c].name) \in {"Move", "Vacuum"}
              \/ status = "kSuccess" /\ moving' = None,
              UNCHANGED <<connection, device, pc, call, result>>
       PROVE  AnswersInv'
  <2>1. \A d \in Callers :
          /\ answers'[d] = IF d = moving THEN "kAborted"
                            ELSE IF d = c THEN status ELSE answers[d]
          /\ done'[d] = IF d = moving THEN "refused"
                         ELSE IF d = c /\ status = "kSuccess" THEN "done" ELSE done[d]
    BY <1>12 DEF Interrupt
  <2>2. pc[c] = "waiting" /\ answers[c] = None /\ done[c] = "nothing" /\ moving # c
    BY <1>12 DEF AnswersInv, AnswerOf
  <2>3. \A d \in Callers : moving = d => pc[d] = "waiting"
    BY <1>12 DEF AnswersInv, AnswerOf
  <2>5. \A d \in Callers \ {c} : d # moving => AnswerOf(d)'
    BY <1>a, <1>0, <1>12, <2>1
  <2>6. \A d \in Callers : Command(call[d].name)' = Command(call[d].name)
    BY <1>12 DEF Command
  <2>7. answers'[c] = status /\ done'[c] = IF status = "kSuccess" THEN "done" ELSE "nothing"
    BY <2>1, <2>2
  <2>8. AnswerOf(c)'
    <3>1. c \notin inbox' /\ pc'[c] = "waiting" /\ connection' = "up"
      BY <1>12, <2>2
    <3>2. CASE status = None /\ moving' = c
      <4>1. Command(call[c].name)' \in {"Move", "Vacuum"} /\ answers'[c] = None
        BY <1>0, <1>12, <2>6, <2>7, <3>2
      <4>2. done'[c] = "nothing"
        BY <1>0, <2>7, <3>2
      <4> QED BY <3>1, <3>2, <4>1, <4>2 DEF AnswerOf
    <3>3. CASE status = "kSuccess" /\ moving' = None
      BY <1>0, <2>7, <3>1, <3>3 DEF AnswerOf
    <3> QED BY <1>12, <3>2, <3>3
  <2>9. ASSUME NEW d \in Callers, d = moving
        PROVE  AnswerOf(d)'
    <3>1. /\ pc'[d] = "waiting" /\ answers'[d] = "kAborted" /\ done'[d] = "refused" /\ d # c
          /\ d \notin inbox
      BY <1>12, <2>1, <2>2, <2>3, <2>9 DEF AnswersInv, AnswerOf
    <3> QED BY <1>0, <1>12, <3>1 DEF AnswerOf
  <2> QED BY <1>12, <2>5, <2>8, <2>9 DEF AnswersInv
<1>13. ASSUME NEW c \in Callers, ServeMove(c) \/ ServeStop(c)
       PROVE  AnswersInv'
  BY <1>12, <1>13 DEF ServeMove, ServeStop, hostVars, callVars
<1>14. CASE Finish
  <2>1. /\ moving \in Callers /\ moving' = None
        /\ UNCHANGED <<connection, device, pc, call, result, inbox>>
    BY <1>14 DEF Finish, hostVars, callVars
  <2>2. CASE connection = "up"
    <3>1. pc[moving] = "waiting"
      BY <2>1, <2>2 DEF AnswersInv, AnswerOf
    <3>2. PICK status : Answer(moving, status)
      BY <1>14, <2>2, <3>1 DEF Finish
    <3> QED BY <1>0, <2>1, <2>2, <3>1, <3>2 DEF AnswersInv, AnswerOf, Answer, Command
  <2>3. CASE connection # "up"
    <3>1. UNCHANGED <<answers, done>>
      BY <1>14, <2>3 DEF Finish
    <3> QED BY <1>0, <2>1, <2>3, <3>1 DEF AnswersInv, AnswerOf, Command
  <2> QED BY <2>2, <2>3
<1>15. CASE Connect \/ Break
  <2>1. /\ \/ connection = "new" /\ connection' \in {"up", "refused"}
           \/ connection' = "down"
        /\ UNCHANGED <<device, pc, call, result, inbox, moving, answers, done>>
    BY <1>15 DEF Connect, Break, callVars, deviceVars
  <2>2. connection = "new" => \A c \in Callers : pc[c] = "idle"
    BY DEF CallsInv
  <2> QED BY <1>0, <2>1, <2>2 DEF AnswersInv, AnswerOf, Command
<1> QED
  BY <1>c, <1>1, <1>2, <1>3, <1>5, <1>6, <1>7, <1>8, <1>9, <1>10, <1>11, <1>13, <1>14, <1>15
  DEF Next, Runs, Serves, Threads, Callers, Spin, Shutdown, Join, Publish, vars,
      hostVars, callVars, deviceVars

(* One setter is under way at a time: there is one callback for them, and  *)
(* Python threads have one lock.                                           *)
LEMMA OneSetter ==
  ASSUME HostInv, CallsInv, NEW c \in Callers, NEW d \in Callers,
         pc[c] = "waiting", pc[d] = "waiting", call[c].name \in Setters,
         call[d].name \in Setters
  PROVE  c = d
<1>1. call[c].name \in Calls(c) /\ call[d].name \in Calls(d)
  BY DEF CallsInv
<1>2. CASE host = "hardware"
  <2>1. c = "services" /\ d = "services"
    BY <1>1, <1>2, SettersOnly DEF Calls, Callers
  <2> QED BY <2>1
<1>3. CASE host = "python"
  <2>1. LockOf(c) = "interpreter" /\ LockOf(d) = "interpreter" /\ "interpreter" # None
    BY <1>3, CommandsAssumption DEF LockOf
  <2> QED BY <2>1 DEF CallsInv
<1>4. CASE host = "threads"
  <2>1. call[c].name \in {"move", "stop", "readOnce", "undefined profile"}
    <3>1. CASE device = "gripper"
      BY <1>1, <1>4, <3>1 DEF Calls
    <3>2. CASE device = "vacuum gripper"
      BY <1>1, <1>4, <3>2 DEF Calls
    <3> QED BY <1>4, <3>1, <3>2 DEF HostInv
  <2> QED BY <2>1, SettersOnly
<1> QED BY <1>2, <1>3, <1>4 DEF HostInv

LEMMA HostStep == CommandsInv /\ [Next]_vars => HostInv'
<1> SUFFICES ASSUME HostInv, [Next]_vars
             PROVE  HostInv'
  BY DEF CommandsInv
<1>1. UNCHANGED <<host, device, callers>>
  BY DEF Next, Runs, Serves, Connect, Spin, Shutdown, Join, Call, Enter, Send, SendNothing,
     Receive, ReceiveThrows, Drain, ReadState, ReadRobotState, ReadTimeout, Serve, ServeMove,
     ServeStop, Finish, Break, Publish, vars, hostVars
<1> QED BY <1>1 DEF HostInv, AllCallers

(* The robot sets what a setter asks for when it serves its request, and   *)
(* the caller reports it when it has the response.                         *)
LEMMA ParametersStep == CommandsInv /\ [Next]_vars => ParametersInv'
<1> SUFFICES ASSUME CommandTypes, HostInv, CallsInv, AnswersInv, ParametersInv, [Next]_vars
             PROVE  ParametersInv'
  BY DEF CommandsInv
<1>c. callers \subseteq Callers
  BY DEF HostInv, AllCallers, Threads, Callers
<1> USE DEF CommandTypes, Stages
<1>1. ASSUME UNCHANGED <<parameters, reported>>,
             connection' \in {"new", "up", "refused"} =>
               /\ connection \in {"new", "up", "refused"}
               /\ \A d \in Callers : SetFor(d)' <=> SetFor(d)
               /\ \A d \in Callers : SetFor(d) => call'[d] = call[d]
      PROVE  ParametersInv'
  BY <1>1 DEF ParametersInv, Over
<1>2. CASE UNCHANGED <<connection, pc, call, done, parameters, reported>>
  BY <1>1, <1>2 DEF SetFor
<1>3. ASSUME NEW c \in Callers, Call(c)
      PROVE  ParametersInv'
  <2>1. /\ pc[c] = "idle" /\ pc' = [pc EXCEPT ![c] = "locking"]
        /\ done' = [done EXCEPT ![c] = "nothing"]
        /\ UNCHANGED <<connection, parameters, reported>>
        /\ \A d \in Callers \ {c} : call'[d] = call[d]
    BY <1>3 DEF Call, hostVars
  <2> QED BY <1>1, <2>1 DEF SetFor
<1>4. ASSUME NEW c \in Callers, Enter(c)
      PROVE  ParametersInv'
  <2>1. /\ pc[c] = "locking"
        /\ \E stage \in {"draining", "blocking", "running"} : pc' = [pc EXCEPT ![c] = stage]
        /\ UNCHANGED <<connection, call, done, parameters, reported>>
    BY <1>4 DEF Enter, Begins, hostVars, deviceVars
  <2> QED BY <1>1, <2>1 DEF SetFor
<1>5. ASSUME NEW c \in Callers, NEW outcome, Return(c, outcome), ~SetFor(c),
             outcome # "success" \/ call[c].name \notin Setters,
             UNCHANGED <<connection, done, parameters>>
      PROVE  ParametersInv'
  <2>1. /\ pc' = [pc EXCEPT ![c] = "idle"] /\ reported' = reported
        /\ \A d \in Callers \ {c} : call'[d] = call[d]
    BY <1>5 DEF Return, Report
  <2> QED BY <1>1, <1>5, <2>1 DEF SetFor
<1>6. ASSUME NEW c \in Callers, Send(c)
      PROVE  ParametersInv'
  <2>1. CASE connection = "up"
    <3>1. /\ pc[c] = "running" /\ pc' = [pc EXCEPT ![c] = "waiting"]
          /\ UNCHANGED <<connection, call, reported, done, parameters>>
      BY <1>6, <2>1 DEF Send, hostVars
    <3>2. done[c] = "nothing"
      BY <3>1 DEF AnswersInv, AnswerOf
    <3> QED BY <1>1, <3>1, <3>2 DEF SetFor
  <2>2. CASE connection # "up"
    <3>1. /\ pc[c] = "running" /\ Return(c, "NetworkException")
          /\ UNCHANGED <<connection, done, parameters>>
      BY <1>6, <2>2 DEF Send, hostVars, deviceVars
    <3> QED BY <1>5, <3>1 DEF SetFor
  <2> QED BY <2>1, <2>2
<1>7. ASSUME NEW c \in Callers, SendNothing(c) \/ ReadState(c) \/ ReadRobotState(c)
      PROVE  ParametersInv'
  <2>1. /\ pc[c] \in {"running", "blocking"} /\ UNCHANGED <<connection, done, parameters>>
        /\ \/ \E outcome \in {"CommandException", "NetworkException", "ControlException"} :
                Return(c, outcome)
           \/ /\ Return(c, "success")
              /\ call[c].name \in {"write", "getCurrentState", "readOnce", "read"}
    BY <1>7 DEF SendNothing, ReadState, ReadRobotState, hostVars, deviceVars
  <2>2. {"write", "getCurrentState", "readOnce", "read"} \cap Setters = {}
    BY SettersOnly
  <2> QED BY <1>5, <2>1, <2>2 DEF SetFor
<1>8. ASSUME NEW c \in Callers, Receive(c)
      PROVE  ParametersInv'
  <2> DEFINE outcome == Result(Command(call[c].name), answers[c])
  <2>1. /\ pc[c] = "waiting" /\ connection = "up" /\ answers[c] # None /\ Return(c, outcome)
        /\ UNCHANGED <<connection, done, parameters>>
    BY <1>8 DEF Receive, hostVars
  <2>2. outcome = "success" <=> done[c] = "done"
    BY <2>1, ResultIsTrue DEF AnswersInv, AnswerOf
  <2> HIDE DEF outcome
  <2>3. CASE SetFor(c)
    <3>1. parameters = Over(reported, Asked(call[c].name, call[c].v))
      BY <2>1, <2>3 DEF ParametersInv
    <3>2. reported' = Over(reported, Asked(call[c].name, call[c].v))
      BY <2>1, <2>2, <2>3 DEF Return, Report, Over, SetFor
    <3>3. \A d \in Callers : ~SetFor(d)'
      BY <2>1, <2>3, OneSetter DEF SetFor, Return
    <3> QED BY <2>1, <3>1, <3>2, <3>3 DEF ParametersInv
  <2>4. CASE ~SetFor(c)
    BY <1>5, <2>1, <2>2, <2>4 DEF SetFor
  <2> QED BY <2>3, <2>4
<1>9. ASSUME NEW c \in Callers, ReceiveThrows(c) \/ ReadTimeout(c)
      PROVE  ParametersInv'
  BY <1>9 DEF ReceiveThrows, ReadTimeout, hostVars, ParametersInv
<1>10. ASSUME NEW c \in Callers, Drain(c)
       PROVE  ParametersInv'
  <2>1. /\ pc[c] = "draining" /\ pc' \in {pc, [pc EXCEPT ![c] = "blocking"]}
        /\ UNCHANGED <<connection, call, done, parameters, reported>>
    BY <1>10 DEF Drain, hostVars, deviceVars
  <2> QED BY <1>1, <2>1 DEF SetFor
<1>11. ASSUME NEW c \in Callers, Serve(c)
       PROVE  ParametersInv'
  <2>1. /\ connection = "up" /\ c \in inbox /\ UNCHANGED <<connection, pc, call, reported>>
    BY <1>11 DEF Serve, hostVars, callVars
  <2>2. pc[c] = "waiting" /\ done[c] = "nothing"
    BY <2>1 DEF AnswersInv, AnswerOf
  <2>3. PICK status :
          /\ Answer(c, status)
          /\ parameters' = IF status = "kSuccess" /\ call[c].name \in Setters
                             THEN [p \in Parameters |->
                                     IF p \in DOMAIN Requested(call[c])
                                       THEN Requested(call[c])[p] ELSE parameters[p]]
                             ELSE parameters
    BY <1>11 DEF Serve
  <2>4. done' = [done EXCEPT ![c] = IF status = "kSuccess" THEN "done" ELSE "refused"]
    BY <2>3 DEF Answer
  <2>5. CASE status = "kSuccess" /\ call[c].name \in Setters
    <3>2. parameters' = Over(parameters, Asked(call[c].name, call[c].v))
      BY <2>3, <2>5, RequestedIsAsked DEF Over
    <3>3. \A d \in Callers : ~SetFor(d)
      BY <2>2, <2>5, OneSetter DEF SetFor
    <3>4. parameters = reported
      BY <2>1, <3>3 DEF ParametersInv
    <3>5. SetFor(c)' /\ \A d \in Callers : SetFor(d)' => d = c
      BY <2>1, <2>2, <2>4, <2>5, <3>3 DEF SetFor
    <3> QED BY <2>1, <3>2, <3>4, <3>5 DEF ParametersInv, Over
  <2>6. CASE ~(status = "kSuccess" /\ call[c].name \in Setters)
    <3>1. parameters' = parameters
      BY <2>3, <2>6
    <3> QED BY <1>1, <2>1, <2>2, <2>4, <2>6, <3>1 DEF SetFor
  <2> QED BY <2>5, <2>6
<1>12. ASSUME NEW c \in Callers, ServeMove(c) \/ ServeStop(c)
       PROVE  ParametersInv'
  <2>1. /\ connection = "up" /\ Command(call[c].name) \in {"Move", "Vacuum", "Stop"}
        /\ UNCHANGED <<connection, pc, call, reported, parameters>>
        /\ \A d \in Callers : d # c /\ d # moving => done'[d] = done[d]
    BY <1>12 DEF ServeMove, ServeStop, Interrupt, hostVars, callVars
  <2>2. call[c].name \notin Setters
    BY <2>1, SettersOnly
  <2>3. moving \in Callers => call[moving].name \notin Setters
    BY <2>1, SettersOnly DEF AnswersInv, AnswerOf
  <2> QED BY <1>1, <2>1, <2>2, <2>3 DEF SetFor
<1>13. CASE Finish
  <2>1. /\ moving \in Callers /\ UNCHANGED <<connection, pc, call, reported, parameters>>
        /\ \/ done' = done
           \/ connection = "up" /\ \A d \in Callers \ {moving} : done'[d] = done[d]
    BY <1>13 DEF Finish, Answer, hostVars, callVars
  <2>2. connection = "up" => call[moving].name \notin Setters
    BY <2>1, SettersOnly DEF AnswersInv, AnswerOf
  <2> QED BY <1>1, <2>1, <2>2 DEF SetFor
<1>14. CASE Connect
  <2>1. connection = "new" /\ UNCHANGED <<pc, call, done, parameters, reported>>
    BY <1>14 DEF Connect, callVars, deviceVars
  <2> QED BY <1>1, <2>1 DEF SetFor
<1>15. CASE Break
  BY <1>15 DEF Break, ParametersInv
<1> QED
  BY <1>c, <1>2, <1>3, <1>4, <1>6, <1>7, <1>8, <1>9, <1>10, <1>11, <1>12, <1>13, <1>14, <1>15
  DEF Next, Runs, Serves, Threads, Callers, Spin, Shutdown, Join, Publish, vars,
      hostVars, callVars, deviceVars

LEMMA CommandsInvariant == Spec => []CommandsInv
<1>1. CommandsInv /\ [Next]_vars => CommandsInv'
  BY TypesStep, StateTypesStep, HostStep, CallsStep, AnswersStep, ParametersStep, ReadStep
  DEF CommandsInv
<1> QED BY CommandsInvInit, <1>1, PTL DEF Spec

---------------------------------------------------------------------------
(* A service, or a method of pylibfranka or of libfranka, reports success  *)
(* when the device has done what it was asked to, and only then: through   *)
(* the status of the response, handleCommandResponse() or executeCommand() *)
(* and setGenericRobotParam().                                             *)
THEOREM CallersAreToldTheTruth == Spec => []AnswersAreTrue
<1>1. CommandsInv => AnswersAreTrue
  BY DEF CommandsInv, AnswersInv, AnswerOf, AnswersAreTrue, Threads, Callers
<1> QED BY <1>1, CommandsInvariant, PTL

(* A parameter that was reported set has the value it was asked for, for   *)
(* every service of FrankaParamServiceServer and both collision behaviours:*)
(* no list of arguments on the way to the robot swaps two of them.         *)
THEOREM ParametersAreAsRequested == Spec => []ParametersAsRequested
<1>1. CommandsInv => ParametersAsRequested
  <2> SUFFICES ASSUME CommandsInv, connection = "up", \A c \in Threads : pc[c] = "idle"
               PROVE  parameters = reported
    BY DEF ParametersAsRequested
  <2>1. \A c \in Callers : ~SetFor(c)
    BY LoopOnly DEF SetFor, CommandsInv
  <2> QED BY <2>1 DEF CommandsInv, ParametersInv
<1> QED BY <1>1, CommandsInvariant, PTL

(* readOnce() of a gripper or a vacuum gripper returns a state that had    *)
(* not arrived when it was called, also when two threads read the socket.  *)
THEOREM GripperStateIsNew == Spec => []ReadIsNew
<1>1. CommandsInv => ReadIsNew
  BY DEF CommandsInv, ReadInv, ReadIsNew, StateTypes, Threads, Callers
<1> QED BY <1>1, CommandsInvariant, PTL

=============================================================================
