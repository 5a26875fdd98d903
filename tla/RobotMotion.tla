---------------------------- MODULE RobotMotion ----------------------------
(***************************************************************************)
(* One connection of libfranka to the robot's control interface (FCI): the *)
(* life of a motion in Robot::Impl, from startMotion to finishMotion or    *)
(* cancelMotion, driven by a control thread that owns the control mutex    *)
(* (a ControlLoop or an ActiveControl object), while another thread may    *)
(* call Robot::stop() and further threads may call Robot::readOnce().      *)
(*                                                                         *)
(* The robot is external: it is modelled from what the client expects of   *)
(* it.  Responses come over TCP, in order; robot states come over UDP and  *)
(* may be lost, delayed, duplicated or overtaken.                          *)
(***************************************************************************)
EXTENDS Naturals, Sequences, FiniteSets

CONSTANTS
  Kinds,        \* the kinds of motion the control thread asks for
  Apis,         \* "loop": Robot::control(); "active": an ActiveControl object
  Monitors,     \* threads that call Robot::readOnce()
  CanStop,      \* another thread may call Robot::stop()
  CanClose,     \* the robot may close the TCP connection
  RejectsStop,  \* the robot may reject StopMove when nothing is moving
  CommandBound, \* no call is started beyond this many TCP commands
  StateBound    \* number of robot states the robot publishes

AllKinds == {"motion", "torque", "both"}
AllApis == {"loop", "active"}

ASSUME ConstantsAssumption ==
  /\ Kinds \subseteq AllKinds
  /\ Apis \subseteq AllApis
  /\ "ctl" \notin Monitors
  /\ CanStop \in BOOLEAN /\ CanClose \in BOOLEAN /\ RejectsStop \in BOOLEAN
  /\ CommandBound \in Nat
  /\ StateBound \in Nat

VARIABLES
  conn,       \* the TCP connection: up, closed by the robot, or broken
  requests,   \* TCP requests on their way to the robot
  tcp,        \* TCP responses on their way to the client
  responses,  \* Network::received_responses_, by command id
  nextId,     \* Network::command_id_
  view,       \* motion_generator_mode_ and controller_mode_ of the last state
  messageId,  \* message_id_ of the last state
  move,       \* current_move_motion_generator_mode_ and ..controller_mode_
  snap,       \* a receiving thread's last_message_id; 0: not receiving
  pc,         \* where the control thread stands
  motion,     \* the command id of its motion
  callId,     \* the command id of its StopMove or AutomaticErrorRecovery
  kind,       \* the kind of its motion
  api,        \* how its motion is driven
  seen,       \* robot_mode of the state it received last
  stopId,     \* id of the StopMove that Robot::stop() waits for; 0: none
  srv,        \* the robot: phase, motion id and kind, robot mode
  owed,       \* final Move responses the robot still has to send
  published,  \* the robot states, by message id
  commands,   \* the robot commands sent over UDP
  ended,      \* how the robot ended each motion
  outcome     \* how the client saw each motion end

tcpVars == <<conn, requests, tcp, responses, nextId>>
viewVars == <<view, messageId>>
ctlVars == <<pc, motion, callId, kind, api, seen>>
srvVars == <<srv, owed, published, ended>>
vars == <<tcpVars, viewVars, move, snap, ctlVars, stopId, srvVars, commands, outcome>>

---------------------------------------------------------------------------
(* Modes.  "motion" runs a motion generator under an internal controller,  *)
(* "torque" an external controller alone, "both" the two together.         *)

Mode == [mg : {"idle", "none", "jointPosition"},
         ctl : {"other", "jointImpedance", "external"}]

IdleMode == [mg |-> "idle", ctl |-> "other"]

(* Mutant: the modes "none" and "other" swapped.                           *)
ModeOfSwapped(k) == [mg |-> IF k = "torque" THEN "other" ELSE "jointPosition",
                     ctl |-> IF k = "motion" THEN "jointImpedance" ELSE "external"]

ModeOf(k) == [mg |-> IF k = "torque" THEN "none" ELSE "jointPosition",
              ctl |-> IF k = "motion" THEN "jointImpedance" ELSE "external"]

MotionGeneratorRunning(v) == v.mg \notin {"idle", "none"}
ControllerRunning(v) == v.ctl = "external"
Running(v) == MotionGeneratorRunning(v) \/ ControllerRunning(v)

(* Robot::Impl::sendRobotCommand refuses a command whose parts do not fit  *)
(* the motion that was asked for; `k` says which parts are given.          *)
CommandFits(k) ==
  /\ k \in {"motion", "both"} => MotionGeneratorRunning(move)
  /\ k \in {"torque", "both"} => ControllerRunning(move)
  /\ MotionGeneratorRunning(move) /\ ControllerRunning(move) => k = "both"

Receivers == {"ctl"} \cup Monitors
MotionPcs == {"awaitStarted", "starting", "startRecv", "loopStart", "active",
              "reading", "readCheck", "awaitEnd", "finishing", "finishCheck",
              "awaitFinish", "failed", "awaitStop", "draining", "drainCheck"}
Pcs == MotionPcs \cup {"idle", "readIdle", "awaitRecover", "terminated"}

(* The calls that wait for a TCP response.                                 *)
TcpWaits == {"awaitStarted", "awaitEnd", "awaitFinish", "awaitStop", "awaitRecover"}
(* The calls that wait for a robot state.                                  *)
UdpWaits == {"startRecv", "reading", "finishing", "draining", "readIdle"}

(* Robot::control_mutex_ is held for as long as a motion is under way.     *)
ControlMutexHeld == pc \in MotionPcs

Statuses == {"started", "success", "aborted", "preempted", "rejected"}
Response == [id : Nat, status : Statuses]
Request == [cmd : {"move", "stop", "recover"}, id : Nat, kind : AllKinds]
Phases == {"idle", "starting", "running", "stopping"}
RobotModes == {"idle", "move", "reflex"}
RobotState == [robot : RobotModes, mode : Mode, motion : Nat]
Results == {"finished", "controlError", "startError", "networkError",
            "protocolError", "abandoned", "refused"}

TypeOK ==
  /\ conn \in {"up", "closed", "broken"}
  /\ requests \in Seq(Request)
  /\ tcp \in Seq(Response)
  /\ responses \subseteq Response
  /\ nextId \in Nat
  /\ view \in Mode
  /\ messageId \in Nat
  /\ move \in Mode
  /\ snap \in [Receivers -> Nat]
  /\ pc \in Pcs
  /\ motion \in Nat /\ callId \in Nat
  /\ kind \in AllKinds
  /\ api \in AllApis
  /\ seen \in RobotModes
  /\ stopId \in Nat
  /\ srv \in [phase : Phases, id : Nat, kind : AllKinds, reflex : BOOLEAN]
  /\ owed \subseteq Response
  /\ published \in Seq(RobotState)
  /\ commands \subseteq [motion : Nat, mid : Nat, finished : BOOLEAN]
  /\ ended \subseteq Response
  /\ outcome \subseteq [id : Nat, result : Results]

IdleState == [robot |-> "idle", mode |-> IdleMode, motion |-> 0]

(* The constructor of Robot::Impl has connected and received a state.      *)
Init ==
  /\ conn = "up" /\ requests = <<>> /\ tcp = <<>> /\ responses = {} /\ nextId = 1
  /\ view = IdleMode /\ messageId = 1 /\ move = IdleMode
  /\ snap = [t \in Receivers |-> 0]
  /\ pc = "idle" /\ motion = 0 /\ callId = 0 /\ kind = "motion" /\ api = "loop" /\ seen = "idle"
  /\ stopId = 0
  /\ srv = [phase |-> "idle", id |-> 0, kind |-> "motion", reflex |-> FALSE]
  /\ owed = {} /\ published = <<IdleState>> /\ ended = {}
  /\ commands = {} /\ outcome = {}

---------------------------------------------------------------------------
(* Network.                                                                *)

(* Network::tcpSendRequest on a connection that is not broken.  A request  *)
(* sent after the robot closed its end is answered by a reset.             *)
SendRequest(cmd, k) ==
  /\ conn # "broken"
  /\ conn' = IF conn = "up" THEN "up" ELSE "broken"
  /\ requests' = IF conn = "up"
                 THEN Append(requests, [cmd |-> cmd, id |-> nextId, kind |-> k])
                 ELSE requests
  /\ nextId' = nextId + 1

(* What std::try_to_lock on tcp_mutex_ may yield: a thread blocked in      *)
(* Robot::stop() holds it most of the time.                                *)
TcpTryLock == IF stopId = 0 THEN {TRUE} ELSE BOOLEAN

(* Network::tcpThrowIfConnectionClosed: nothing to read, and never again;  *)
(* without the mutex it does not look.                                     *)
ConnectionClosed(locked, stream) == locked /\ conn # "up" /\ stream = <<>>

(* Network::tcpReadFromBuffer puts a complete response under its command   *)
(* id; unordered_map::emplace keeps a response that is already there.      *)
Stored(stored, r) ==
  IF \E s \in stored : s.id = r.id THEN stored ELSE stored \cup {r}

(* One poll of the socket, as tcpReceiveResponse does it without blocking. *)
PolledStream == IF tcp = <<>> THEN tcp ELSE Tail(tcp)
PolledResponses == IF tcp = <<>> THEN responses ELSE Stored(responses, Head(tcp))

(* Mutant: cancelMotion waits for the motion's id, not for its StopMove's. *)
WaitIdsOfMotion ==
  (IF pc \notin TcpWaits THEN {} ELSE IF pc = "awaitRecover" THEN {callId} ELSE {motion})
  \cup (IF stopId = 0 THEN {} ELSE {stopId})

(* The ids whose responses the blocked threads are waiting for.            *)
WaitIds ==
  (IF pc \notin TcpWaits THEN {}
   ELSE IF pc \in {"awaitStop", "awaitRecover"} THEN {callId} ELSE {motion})
  \cup (IF stopId = 0 THEN {} ELSE {stopId})

(* One round of tcpBlockingReceiveResponse polls the socket, which may hold*)
(* another thread's response, and looks for its own.  This one finds none. *)
ReadSocket ==
  /\ conn # "broken" /\ tcp # <<>>
  /\ \E id \in WaitIds : \A r \in PolledResponses : r.id # id
  /\ tcp' = PolledStream
  /\ responses' = PolledResponses
  /\ UNCHANGED <<conn, requests, nextId, viewVars, move, snap, ctlVars, stopId,
                 srvVars, commands, outcome>>

(* This one finds `r`, the response to command `id`, and removes it.  (The *)
(* code erases it after it released the mutex; the response that another   *)
(* thread's emplace may lose meanwhile it may lose before, too.)           *)
Received(id, r) ==
  /\ conn # "broken"
  /\ r \in PolledResponses /\ r.id = id
  /\ tcp' = PolledStream
  /\ responses' = PolledResponses \ {r}
  /\ UNCHANGED <<conn, requests, nextId>>

Report(result) == outcome' = outcome \cup {[id |-> motion, result |-> result]}

---------------------------------------------------------------------------
(* Receiving a robot state: Robot::Impl::receiveRobotState reads the last  *)
(* message id under its mutex, releases it, and waits for a newer state.   *)

BeginReceive(t) == snap' = [snap EXCEPT ![t] = messageId]

AfterReceive ==
  CASE pc = "startRecv" -> "starting"
    [] pc = "reading" -> "readCheck"
    [] pc = "finishing" -> "finishCheck"
    [] pc = "draining" -> "drainCheck"
    [] OTHER -> "idle"

(* Mutant: any state that is not the last one passes for a newer one.      *)
AcceptableAnyOther(t) == {m \in DOMAIN published : m # snap[t]}

(* Which states a receiving thread may return: any state it has not seen,  *)
(* the ones in between having been drained or lost.                        *)
Acceptable(t) == {m \in DOMAIN published : m > snap[t]}

AcceptState(t, m) ==
  /\ snap[t] # 0 /\ m \in Acceptable(t)
  /\ view' = published[m].mode
  /\ messageId' = m
  /\ snap' = [snap EXCEPT ![t] = 0]
  /\ IF t = "ctl"
     THEN pc' = AfterReceive /\ seen' = published[m].robot
     ELSE UNCHANGED <<pc, seen>>
  /\ UNCHANGED <<tcpVars, move, motion, callId, kind, api, stopId, srvVars, commands, outcome>>

(* An exception leaves cancelMotion.  ControlLoop::loop swallows it, the   *)
(* destructor of ActiveControl does not and may not throw.                 *)
AfterFailedCancel == IF api = "loop" THEN "idle" ELSE "terminated"

(* The UDP socket timed out: the TCP connection is shut down, too.         *)
ReceiveTimeout(t) ==
  /\ snap[t] # 0
  /\ conn' = "broken"
  /\ snap' = [snap EXCEPT ![t] = 0]
  /\ IF t = "ctl"
     THEN /\ pc' = CASE pc \in {"startRecv", "readIdle"} -> "idle"
                     [] pc = "draining" -> AfterFailedCancel
                     [] OTHER -> "failed"
          /\ IF pc \in {"readIdle", "draining"} THEN UNCHANGED outcome
                                                ELSE Report("networkError")
     ELSE UNCHANGED <<pc, outcome>>
  /\ UNCHANGED <<requests, tcp, responses, nextId, viewVars, move, motion, callId, kind, api,
                 seen, stopId, srvVars, commands>>

---------------------------------------------------------------------------
(* The control thread: starting a motion.                                  *)

(* Robot::startTorqueControl and its siblings, Robot::control: take the    *)
(* control mutex, then Robot::Impl::startMotion up to the Move request.    *)
(* The modes are set before the request is known to have been sent.        *)
Start(k, a) ==
  /\ pc = "idle" /\ nextId < CommandBound
  /\ ~Running(view)
  /\ move' = ModeOf(k) /\ kind' = k /\ api' = a /\ motion' = nextId
  /\ SendRequest("move", k)
  /\ pc' = "awaitStarted"
  /\ UNCHANGED <<tcp, responses, viewVars, snap, callId, seen, stopId, srvVars, commands,
                 outcome>>

(* ... the last state still shows a motion: ControlException.              *)
StartRefused ==
  /\ pc = "idle" /\ nextId < CommandBound
  /\ Running(view)
  /\ Report("refused")
  /\ UNCHANGED <<tcpVars, viewVars, move, snap, ctlVars, stopId, srvVars, commands>>

(* executeCommand<Move> got the first response to Move.                    *)
MotionStarted ==
  /\ pc = "awaitStarted"
  /\ \E r \in PolledResponses :
       /\ Received(motion, r)
       /\ IF r.status = "started" /\ ~MotionGeneratorRunning(view)
          THEN pc' = "starting" /\ UNCHANGED outcome
          ELSE /\ pc' = "idle"
               /\ Report(IF r.status = "started" THEN "protocolError" ELSE "startError")
  /\ UNCHANGED <<viewVars, move, snap, motion, callId, kind, api, seen, stopId, srvVars, commands>>

(* startMotion returns; a ControlLoop starts by waiting for a fresh state. *)
StartReturned == IF api = "loop" THEN "loopStart" ELSE "active"

(* Mutant: a Move response that reports a failure is taken for success.    *)
AwaitModesAnyStatus ==
  /\ pc = "starting"
  /\ IF view = move
     THEN pc' = StartReturned /\ UNCHANGED <<tcpVars, snap, outcome>>
     ELSE LET arrived == {r \in PolledResponses : r.id = motion}
          IN /\ conn = "up"
             /\ tcp' = PolledStream /\ responses' = PolledResponses \ arrived
             /\ IF arrived # {} THEN pc' = StartReturned /\ UNCHANGED snap
                               ELSE pc' = "startRecv" /\ BeginReceive("ctl")
             /\ UNCHANGED <<conn, requests, nextId, outcome>>
  /\ UNCHANGED <<viewVars, move, motion, callId, kind, api, seen, stopId, srvVars, commands>>

(* The loop in startMotion that waits for the modes that were asked for.   *)
(* A response whose handler throws stays in received_responses_.           *)
AwaitModes ==
  /\ pc = "starting"
  /\ IF view = move
     THEN /\ pc' = StartReturned
          /\ UNCHANGED <<tcpVars, snap, outcome>>
     ELSE IF conn = "broken"
     THEN /\ pc' = "idle" /\ Report("networkError")
          /\ UNCHANGED <<tcpVars, snap>>
     ELSE \E locked \in TcpTryLock :
       LET stream == IF locked THEN PolledStream ELSE tcp
           stored == IF locked THEN PolledResponses ELSE responses
       IN /\ tcp' = stream
          /\ UNCHANGED <<conn, requests, nextId>>
          /\ \/ \E r \in stored :
                  /\ locked /\ r.id = motion
                  /\ UNCHANGED snap
                  /\ IF r.status \in {"started", "success"}
                     THEN /\ pc' = StartReturned /\ UNCHANGED outcome
                          /\ responses' = stored \ {r}
                     ELSE /\ pc' = "idle" /\ Report("startError")
                          /\ responses' = stored
             \/ /\ locked => \A r \in stored : r.id # motion
                /\ responses' = stored
                /\ IF ConnectionClosed(locked, stream)
                   THEN pc' = "idle" /\ Report("networkError") /\ UNCHANGED snap
                   ELSE pc' = "startRecv" /\ BeginReceive("ctl") /\ UNCHANGED outcome
  /\ UNCHANGED <<viewVars, move, motion, callId, kind, api, seen, stopId, srvVars, commands>>

---------------------------------------------------------------------------
(* The control thread: reading and writing while a motion is active.       *)

(* Robot::readOnce outside a motion.                                       *)
ReadIdle ==
  /\ pc = "idle"
  /\ pc' = "readIdle" /\ BeginReceive("ctl")
  /\ UNCHANGED <<tcpVars, viewVars, move, motion, callId, kind, api, seen, stopId, srvVars,
                 commands, outcome>>

(* The first updateMotion of ControlLoop::loop, which sends no command.    *)
LoopStart ==
  /\ pc = "loopStart"
  /\ \E locked \in TcpTryLock :
       IF ConnectionClosed(locked, tcp)
       THEN pc' = "failed" /\ Report("networkError") /\ UNCHANGED snap
       ELSE pc' = "reading" /\ BeginReceive("ctl") /\ UNCHANGED outcome
  /\ UNCHANGED <<tcpVars, viewVars, move, motion, callId, kind, api, seen, stopId, srvVars, commands>>

(* ActiveControl::readOnce up to the arrival of a state.                   *)
ReadOnce ==
  /\ pc = "active" /\ api = "active"
  /\ pc' = "reading" /\ BeginReceive("ctl")
  /\ UNCHANGED <<tcpVars, viewVars, move, motion, callId, kind, api, seen, stopId, srvVars,
                 commands, outcome>>

(* tcpThrowIfConnectionClosed and sendRobotCommand, then on to `next`.     *)
SendCommand(finished, next) ==
  \E locked \in TcpTryLock :
  IF ConnectionClosed(locked, tcp)
  THEN pc' = "failed" /\ Report("networkError") /\ UNCHANGED commands
  ELSE IF ~CommandFits(kind)
  THEN pc' = "failed" /\ Report("controlError") /\ UNCHANGED commands
  ELSE /\ pc' = next
       /\ commands' = commands \cup {[motion |-> motion, mid |-> messageId,
                                      finished |-> finished]}
       /\ UNCHANGED outcome

(* Robot::Impl::writeOnce, from ActiveTorqueControl or -MotionGenerator.   *)
WriteOnce ==
  /\ pc = "active" /\ api = "active"
  /\ SendCommand(FALSE, "active")
  /\ UNCHANGED <<tcpVars, viewVars, move, snap, motion, callId, kind, api, seen, stopId, srvVars>>

(* One round of ControlLoop::loop: updateMotion with the callbacks' output.*)
LoopUpdate ==
  /\ pc = "active" /\ api = "loop"
  /\ SendCommand(FALSE, "reading")
  /\ IF pc' = "reading" THEN BeginReceive("ctl") ELSE UNCHANGED snap
  /\ UNCHANGED <<tcpVars, viewVars, move, motion, callId, kind, api, seen, stopId, srvVars>>

(* throwOnMotionError: has the state that was received left the motion?    *)
CheckState ==
  /\ pc = "readCheck"
  /\ pc' = IF seen = "move" /\ view = move THEN "active" ELSE "awaitEnd"
  /\ UNCHANGED <<tcpVars, viewVars, move, snap, motion, callId, kind, api, seen, stopId,
                 srvVars, commands, outcome>>

(* ... then it waits for the Move response and throws.                     *)
MotionError ==
  /\ pc = "awaitEnd"
  /\ \E r \in PolledResponses :
       /\ Received(motion, r)
       /\ Report(IF r.status \in {"started", "success"} THEN "protocolError"
                                                         ELSE "controlError")
  /\ pc' = "failed"
  /\ UNCHANGED <<viewVars, move, snap, motion, callId, kind, api, seen, stopId, srvVars, commands>>

---------------------------------------------------------------------------
(* The control thread: finishing a motion.                                 *)

(* Robot::Impl::finishMotion, called for a finished command.               *)
Finish ==
  /\ pc = "active"
  /\ IF ~Running(view)
     THEN /\ move' = IdleMode /\ pc' = "idle" /\ Report("finished")
          /\ UNCHANGED <<snap, commands>>
     ELSE IF api = "active" /\ kind = "torque" /\ MotionGeneratorRunning(view)
     THEN /\ pc' = "failed" /\ Report("controlError")
          /\ UNCHANGED <<move, snap, commands>>
     ELSE /\ SendCommand(TRUE, "finishing")
          /\ IF pc' = "finishing" THEN BeginReceive("ctl") ELSE UNCHANGED snap
          /\ UNCHANGED move
  /\ UNCHANGED <<tcpVars, viewVars, motion, callId, kind, api, seen, stopId, srvVars>>

(* Its loop: repeat the finished command until the motion has stopped.     *)
FinishCheck ==
  /\ pc = "finishCheck"
  /\ IF Running(view)
     THEN /\ SendCommand(TRUE, "finishing")
          /\ IF pc' = "finishing" THEN BeginReceive("ctl") ELSE UNCHANGED snap
     ELSE pc' = "awaitFinish" /\ UNCHANGED <<snap, commands, outcome>>
  /\ UNCHANGED <<tcpVars, viewVars, move, motion, callId, kind, api, seen, stopId, srvVars>>

(* Mutant: any Move response counts as success.                            *)
FinishResponseAnyStatus ==
  /\ pc = "awaitFinish"
  /\ \E r \in PolledResponses : Received(motion, r)
  /\ move' = IdleMode /\ pc' = "idle" /\ Report("finished")
  /\ UNCHANGED <<viewVars, snap, motion, callId, kind, api, seen, stopId, srvVars, commands>>

(* Its end: the Move response.  Success resets the modes, errors do not.   *)
FinishResponse ==
  /\ pc = "awaitFinish"
  /\ \E r \in PolledResponses :
       /\ Received(motion, r)
       /\ IF r.status \in {"started", "success"}
          THEN move' = IdleMode /\ pc' = "idle" /\ Report("finished")
          ELSE pc' = "failed" /\ Report("controlError") /\ UNCHANGED move
  /\ UNCHANGED <<viewVars, snap, motion, callId, kind, api, seen, stopId, srvVars, commands>>

---------------------------------------------------------------------------
(* The control thread: cancelling a motion.                                *)

(* Mutant: StopMove is sent and its response not waited for.               *)
CancelMotionNoWait ==
  IF conn = "broken"
  THEN pc' = "idle" /\ UNCHANGED <<tcpVars, callId>>
  ELSE /\ pc' = "idle" /\ callId' = nextId
       /\ SendRequest("stop", kind)
       /\ UNCHANGED <<tcp, responses>>

(* The catch block of ControlLoop::loop and the destructor of              *)
(* ActiveControl call Robot::Impl::cancelMotion.                           *)
CancelMotion ==
  IF conn = "broken"
  THEN pc' = "idle" /\ UNCHANGED <<tcpVars, callId>>
  ELSE /\ pc' = "awaitStop" /\ callId' = nextId
       /\ SendRequest("stop", kind)
       /\ UNCHANGED <<tcp, responses>>

(* A call has thrown; the user of an ActiveControl lets go of it.          *)
CancelFailed ==
  /\ pc = "failed"
  /\ CancelMotion
  /\ UNCHANGED <<viewVars, move, snap, motion, kind, api, seen, stopId, srvVars, commands,
                 outcome>>

(* A callback throws, or an unfinished ActiveControl is destroyed.         *)
Abandon ==
  /\ pc = "active"
  /\ CancelMotion
  /\ Report("abandoned")
  /\ UNCHANGED <<viewVars, move, snap, motion, kind, api, seen, stopId, srvVars, commands>>

(* Mutant: the response to StopMove is taken for the one to Move.          *)
CancelAnsweredAsMove ==
  /\ pc = "awaitStop"
  /\ \E r \in PolledResponses :
       /\ Received(callId, r)
       /\ IF r.status = "preempted"
          THEN pc' = "draining" /\ BeginReceive("ctl")
          ELSE pc' = AfterFailedCancel /\ UNCHANGED snap
  /\ UNCHANGED <<viewVars, move, motion, callId, kind, api, seen, stopId, srvVars, commands, outcome>>

CancelAnswered ==
  /\ pc = "awaitStop"
  /\ \E r \in PolledResponses :
       /\ Received(callId, r)
       /\ IF r.status = "success"
          THEN pc' = "draining" /\ BeginReceive("ctl")
          ELSE pc' = AfterFailedCancel /\ UNCHANGED snap
  /\ UNCHANGED <<viewVars, move, motion, callId, kind, api, seen, stopId, srvVars, commands, outcome>>

(* Its loop over receiveRobotState; afterwards a Move response that is     *)
(* there already is dropped.                                               *)
DrainCheck ==
  /\ pc = "drainCheck"
  /\ IF Running(view)
     THEN /\ pc' = "draining" /\ BeginReceive("ctl")
          /\ UNCHANGED <<tcpVars, move>>
     ELSE \E locked \in TcpTryLock :
       IF locked /\ conn = "broken"
       THEN /\ pc' = AfterFailedCancel
            /\ UNCHANGED <<tcpVars, move, snap>>
       ELSE /\ pc' = "idle" /\ move' = IdleMode
            /\ tcp' = IF locked THEN PolledStream ELSE tcp
            /\ responses' = IF locked THEN {r \in PolledResponses : r.id # motion}
                            ELSE responses
            /\ UNCHANGED <<conn, requests, nextId, snap>>
  /\ UNCHANGED <<viewVars, motion, callId, kind, api, seen, stopId, srvVars, commands, outcome>>

(* A blocking wait for a TCP response finds the connection broken.         *)
WaitBroken ==
  /\ pc \in TcpWaits /\ conn = "broken"
  /\ pc' = CASE pc \in {"awaitStarted", "awaitRecover"} -> "idle"
             [] pc = "awaitStop" -> AfterFailedCancel
             [] OTHER -> "failed"
  /\ IF pc \in {"awaitStop", "awaitRecover"} THEN UNCHANGED outcome
                                             ELSE Report("networkError")
  /\ UNCHANGED <<tcpVars, viewVars, move, snap, motion, callId, kind, api, seen, stopId, srvVars,
                 commands>>

---------------------------------------------------------------------------
(* Calls that do not touch the control mutex.                              *)

(* Robot::automaticErrorRecovery by the control thread, and its answer.    *)
Recover ==
  /\ pc = "idle" /\ nextId < CommandBound
  /\ pc' = "awaitRecover" /\ callId' = nextId
  /\ SendRequest("recover", kind)
  /\ UNCHANGED <<tcp, responses, viewVars, move, snap, motion, kind, api, seen, stopId,
                 srvVars, commands, outcome>>

Recovered ==
  /\ pc = "awaitRecover"
  /\ \E r \in PolledResponses : Received(callId, r)
  /\ pc' = "idle"
  /\ UNCHANGED <<viewVars, move, snap, motion, callId, kind, api, seen, stopId, srvVars,
                 commands, outcome>>

(* Robot::stop() in another thread, its answer, and a broken connection.   *)
StopCall ==
  /\ CanStop /\ stopId = 0 /\ nextId < CommandBound
  /\ SendRequest("stop", kind)
  /\ stopId' = nextId
  /\ UNCHANGED <<tcp, responses, viewVars, move, snap, ctlVars, srvVars, commands, outcome>>

StopReturns ==
  /\ stopId # 0
  /\ \/ \E r \in PolledResponses : Received(stopId, r)
     \/ conn = "broken" /\ UNCHANGED tcpVars
  /\ stopId' = 0
  /\ UNCHANGED <<viewVars, move, snap, ctlVars, srvVars, commands, outcome>>

(* Robot::readOnce in another thread.                                      *)
MonitorRead(t) ==
  /\ t \in Monitors /\ snap[t] = 0
  /\ BeginReceive(t)
  /\ UNCHANGED <<tcpVars, viewVars, move, ctlVars, stopId, srvVars, commands, outcome>>

---------------------------------------------------------------------------
(* The robot (external).                                                   *)

clientVars == <<nextId, responses, viewVars, move, snap, ctlVars, stopId, commands, outcome>>

Final(id, status) == [id |-> id, status |-> status]

(* The robot decides how motion srv.id ends; its response is sent later.   *)
EndMotion(status, phase, reflex) ==
  /\ ended' = ended \cup {Final(srv.id, status)}
  /\ owed' = owed \cup {Final(srv.id, status)}
  /\ srv' = [srv EXCEPT !.phase = phase, !.reflex = reflex]

Moving == srv.phase \in {"starting", "running"}

ServeMove ==
  /\ conn = "up" /\ requests # <<>> /\ Head(requests).cmd = "move"
  /\ requests' = Tail(requests)
  /\ LET q == Head(requests) IN
       \/ /\ srv.phase = "idle" /\ ~srv.reflex
          /\ srv' = [phase |-> "starting", id |-> q.id, kind |-> q.kind, reflex |-> FALSE]
          /\ tcp' = Append(tcp, Final(q.id, "started"))
       \/ /\ tcp' = Append(tcp, Final(q.id, "rejected"))
          /\ UNCHANGED srv
  /\ UNCHANGED <<conn, owed, published, ended, clientVars>>

(* StopMove preempts a motion.  Without one the robot may refuse it.       *)
ServeStop ==
  /\ conn = "up" /\ requests # <<>> /\ Head(requests).cmd = "stop"
  /\ requests' = Tail(requests)
  /\ IF Moving
     THEN /\ EndMotion("preempted", "stopping", srv.reflex)
          /\ tcp' = Append(tcp, Final(Head(requests).id, "success"))
     ELSE /\ \E s \in {"success"} \cup (IF RejectsStop THEN {"rejected"} ELSE {}) :
               tcp' = Append(tcp, Final(Head(requests).id, s))
          /\ UNCHANGED <<srv, owed, ended>>
  /\ UNCHANGED <<conn, published, clientVars>>

(* AutomaticErrorRecovery is refused while something moves.                *)
ServeRecover ==
  /\ conn = "up" /\ requests # <<>> /\ Head(requests).cmd = "recover"
  /\ requests' = Tail(requests)
  /\ IF srv.phase = "idle"
     THEN /\ srv' = [srv EXCEPT !.reflex = FALSE]
          /\ tcp' = Append(tcp, Final(Head(requests).id, "success"))
     ELSE /\ tcp' = Append(tcp, Final(Head(requests).id, "rejected"))
          /\ UNCHANGED srv
  /\ UNCHANGED <<conn, owed, published, ended, clientVars>>

MotionRuns ==
  /\ srv.phase = "starting"
  /\ srv' = [srv EXCEPT !.phase = "running"]
  /\ UNCHANGED <<conn, requests, tcp, owed, published, ended, clientVars>>

(* A reflex: the controller is gone, the motion generator still stopping.  *)
Reflex ==
  /\ Moving
  /\ EndMotion("aborted", "stopping", TRUE)
  /\ UNCHANGED <<conn, requests, tcp, published, clientVars>>

(* A finished command of this motion has arrived.                          *)
MotionFinishes ==
  /\ srv.phase = "running"
  /\ \E c \in commands : c.motion = srv.id /\ c.finished
  /\ EndMotion("success", "idle", FALSE)
  /\ UNCHANGED <<conn, requests, tcp, published, clientVars>>

MotionStops ==
  /\ srv.phase = "stopping"
  /\ srv' = [srv EXCEPT !.phase = "idle"]
  /\ UNCHANGED <<conn, requests, tcp, owed, published, ended, clientVars>>

SendFinal ==
  /\ conn = "up"
  /\ \E o \in owed : owed' = owed \ {o} /\ tcp' = Append(tcp, o)
  /\ UNCHANGED <<conn, requests, srv, published, ended, clientVars>>

CurrentState ==
  [robot |-> CASE srv.phase \in {"running", "stopping"} -> "move"
               [] srv.reflex -> "reflex"
               [] OTHER -> "idle",
   mode |-> CASE srv.phase = "running" -> ModeOf(srv.kind)
              [] srv.phase = "stopping" -> [ModeOf(srv.kind) EXCEPT !.ctl = "other"]
              [] OTHER -> IdleMode,
   motion |-> IF srv.phase \in {"running", "stopping"} THEN srv.id ELSE 0]

(* The robot publishes its state.  A state that says nothing new is left   *)
(* out while the client has not yet seen the last one.                     *)
Publish ==
  /\ conn = "up" /\ Len(published) < StateBound
  /\ messageId = Len(published) \/ published[Len(published)] # CurrentState
  /\ published' = Append(published, CurrentState)
  /\ UNCHANGED <<conn, requests, tcp, srv, owed, ended, clientVars>>

(* The robot closes its end of the connection.  With a request unread that *)
(* resets the connection, otherwise the client can still read what is      *)
(* under way and then gets nothing more.                                   *)
CloseConnection ==
  /\ CanClose /\ conn = "up"
  /\ conn' = IF requests = <<>> THEN "closed" ELSE "broken"
  /\ requests' = <<>>
  /\ UNCHANGED <<tcp, srvVars, clientVars>>

(* Without its client the robot stops.                                     *)
LostClient ==
  /\ conn # "up" /\ Moving
  /\ EndMotion("aborted", "stopping", srv.reflex)
  /\ UNCHANGED <<conn, requests, tcp, published, clientVars>>

---------------------------------------------------------------------------

(* Steps the control thread takes by itself once a call is under way.      *)
ControlStep ==
  \/ MotionStarted \/ AwaitModes \/ LoopStart \/ CheckState \/ MotionError
  \/ FinishCheck \/ FinishResponse
  \/ CancelFailed \/ CancelAnswered \/ DrainCheck \/ WaitBroken \/ Recovered

(* Calls that the user of the library, or its callback, decides on.        *)
ControlCall ==
  \/ \E k \in Kinds, a \in Apis : Start(k, a)
  \/ StartRefused \/ ReadIdle \/ Recover
  \/ ReadOnce \/ WriteOnce \/ LoopUpdate \/ Finish \/ Abandon

Receive(t) == ReceiveTimeout(t) \/ \E m \in DOMAIN published : AcceptState(t, m)

OtherThreads ==
  \/ StopCall \/ StopReturns
  \/ \E t \in Monitors : MonitorRead(t)

RobotServes == ServeMove \/ ServeStop \/ ServeRecover \/ SendFinal
RobotMoves == MotionRuns \/ MotionFinishes \/ MotionStops \/ Publish
RobotFails == Reflex \/ CloseConnection \/ LostClient

Next ==
  \/ ControlStep \/ ControlCall \/ ReadSocket
  \/ \E t \in Receivers : Receive(t)
  \/ OtherThreads
  \/ RobotServes \/ RobotMoves \/ RobotFails

(* A robot that gets no commands ends the motion by itself (it reports a   *)
(* communication_constraints_violation).                                   *)
CommandsMissing == pc = "awaitEnd" /\ Reflex

(* The threads run, every receive ends (the UDP socket has a timeout), and *)
(* the robot answers requests and carries out what it was asked for.       *)
Fairness ==
  /\ WF_vars(ControlStep) /\ WF_vars(ReadSocket) /\ WF_vars(StopReturns)
  /\ \A t \in Receivers : WF_vars(Receive(t))
  /\ WF_vars(RobotServes)
  /\ WF_vars(MotionRuns) /\ WF_vars(MotionFinishes) /\ WF_vars(MotionStops)
  /\ WF_vars(CommandsMissing)

Spec == Init /\ [][Next]_vars
FairSpec == Spec /\ Fairness

---------------------------------------------------------------------------
(* Properties.                                                             *)

(* A motion that the client was told has finished is one that the robot    *)
(* ended successfully: an abort, a preemption by Robot::stop() or a lost   *)
(* connection never looks like success (finishMotion, throwOnMotionError). *)
FinishedMeansSuccess ==
  \A o \in outcome : o.result = "finished" => Final(o.id, "success") \in ended

(* When the control mutex is free again and the connection is up, however  *)
(* the motion ended for the client, no motion is left running on the robot.*)
RobotNotLeftMoving ==
  conn = "up" /\ ~ControlMutexHeld => ~Moving

(* throwOnMotionError and finishMotion wait without a timeout for the Move *)
(* response.  It must not have been consumed or dropped before: it is      *)
(* stored, or on its way, or the robot still has to send it.               *)
MoveResponseOwed ==
  pc \in {"awaitEnd", "awaitFinish"} /\ conn = "up" =>
    \/ \E r \in responses \cup owed : r.id = motion
    \/ \E i \in DOMAIN tcp : tcp[i].id = motion
    \/ srv.id = motion /\ Moving

AStartFailed == \E o \in outcome : o.result = "startError"

(* The robot can tell by the message id which motion a command is for: it  *)
(* names a state published while that motion was executed.  States do not  *)
(* name their motion, so after a start that failed a state of that motion, *)
(* still on its way, can pass for one of the next (startMotion).           *)
CommandAttributable ==
  \A c \in commands :
    /\ c.mid \in DOMAIN published
    /\ AStartFailed \/ published[c.mid].motion = c.motion

(* While the connection lasts, a start is refused on account of a view     *)
(* that still shows a motion only if some startMotion had thrown before:   *)
(* whoever finished or cancelled a motion has seen it stop.                *)
RefusedOnlyAfterFailedStart ==
  conn = "up" /\ (\E o \in outcome : o.result = "refused") => AStartFailed

(* The destructor of ActiveControl lets an exception escape, and so ends   *)
(* the process, only when the connection is lost while it waits, or when   *)
(* the robot is one that rejects StopMove.                                 *)
DestructorThrowsOnlyOnLoss ==
  pc = "terminated" => conn = "broken" \/ RejectsStop

(* So nothing fails without a cause of its own.                            *)
FailuresHaveCause == RefusedOnlyAfterFailedStart /\ DestructorThrowsOnlyOnLoss

(* message_id_ only ever grows: a state that was overtaken is not accepted *)
(* after the one that overtook it (receiveRobotState).                     *)
MessageIdGrows == [][messageId' > messageId]_messageId

(* Every call on a motion comes back: to the user with a result or with an *)
(* exception.                                                              *)
CallsReturn ==
  pc \in Pcs \ {"idle", "loopStart", "active", "terminated"}
    ~> pc \in {"idle", "loopStart", "active", "terminated"}

=============================================================================
