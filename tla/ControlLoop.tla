----------------------------- MODULE ControlLoop ----------------------------
(***************************************************************************)
(* The real-time side of a libfranka motion: what the callbacks of a       *)
(* ControlLoop, or the user of an ActiveControl, return is filtered,       *)
(* limited, checked, sent and logged once per robot state, until one of    *)
(* them finishes, throws, or the robot aborts the motion.                  *)
(*                                                                         *)
(* RobotMotion models the same calls for what they do to the connection;   *)
(* here the connection works, packets may be lost, and the data counts.    *)
(* The robot is external: a command it receives becomes its desired state, *)
(* and for a packet it misses it "assumes a constant acceleration model".  *)
(***************************************************************************)
EXTENDS RateLimits, RobotLog, Sequences

CONSTANTS
  Desired,     \* what a motion callback may ask for on an axis, in both directions
  Torques,     \* what a control callback may ask for, in both directions
  Starts,      \* where a joint, or the end effector on an axis, may stand at first
  MaxRounds,   \* bound: rounds of a loop
  MaxMotions,  \* bound: motions of a session
  MaxTime      \* bound: the robot stops at the latest at this time of a motion

ASSUME LoopAssumption ==
  /\ Desired \subseteq Nat /\ Torques \subseteq Nat /\ Starts \subseteq Int
  /\ MaxRounds \in Nat /\ MaxMotions \in Nat /\ MaxTime \in Nat

VARIABLES
  loop,         \* the parameters of the running ControlLoop or ActiveControl
  pc,           \* what the thread in the loop does next
  round,        \* how many robot states the callbacks have been given
  motions,      \* how many motions were started
  state,        \* the last received robot state
  initialized,  \* initialized_filter_
  motion,       \* motion_command
  torque,       \* control_command
  ended,        \* which callback set motion_finished in this round
  ring,         \* logger_
  packet,       \* the last packet that was sent in this motion, and its round
  thrown        \* the log a ControlException took along, and its lost packets

loopVars == <<loop, pc, round, motions, state, initialized, motion, torque, ended,
              ring, packet, thrown>>

Positions == {"position", "pose"}
Kinds == Positions \union {"velocity", "twist"}

(* The loops a caller can ask for: "none" is torque control without a      *)
(* motion generator.  An ActiveControl neither filters nor limits.  A      *)
(* cutoff frequency that is not positive makes the filter throw.           *)
Loops ==
  {l \in [api: {"loop", "active"}, kind: Kinds \union {"none"}, control: BOOLEAN,
          limit: BOOLEAN, filter: {"off", "on", "invalid"}]:
     /\ l.kind = "none" => l.control
     /\ l.api = "active" => ~l.limit /\ l.filter = "off"}

None == [value |-> Zero, valid |-> FALSE, round |-> 0]

(* MotionGeneratorCommand(): zeros, which are no transformation matrix.    *)
ZeroMotion(kind) == [None EXCEPT !.valid = kind # "pose"]

NoPacket == [round |-> 0, motion |-> None, torque |-> 0, last |-> FALSE, sends |-> {}]
NotThrown == [log |-> <<>>, lost |-> 0, motion |-> 0]

NoLoop == [api |-> "loop", kind |-> "none", control |-> FALSE, limit |-> FALSE, filter |-> "off"]

Standing(time, q) == [time |-> time, q |-> q, v |-> Zero, a |-> Zero, tau |-> 0]

Init ==
  /\ loop = NoLoop
  /\ pc = "connect" /\ round = 0 /\ motions = 0
  /\ \E q \in [Axes -> Starts]: state = Standing(1, q)
  /\ initialized = FALSE
  /\ motion = None /\ torque = 0 /\ ended = "nothing"
  /\ ring = EmptyRing /\ packet = NoPacket /\ thrown = NotThrown

---------------------------------------------------------------------------
(* The robot                                                               *)

Moved(s, v) == [s EXCEPT !.time = @ + 1, !.q = Plus(s.q, v), !.v = v, !.a = Minus(v, s.v)]

Extrapolated(s) == Moved(s, Plus(s.v, s.a))

(* The command as a velocity of one cycle.                                 *)
VelocityOf(m, s) == IF loop.kind \in Positions THEN Minus(m.value, s.q) ELSE m.value

(* The robot's state after it received the packet.                         *)
Obeyed(s) ==
  [(IF loop.kind # "none" /\ motion.valid /\ motion.value # NaN
      THEN Moved(s, VelocityOf(motion, s)) ELSE [s EXCEPT !.time = @ + 1])
     EXCEPT !.tau = IF loop.control /\ torque # NaN THEN torque ELSE @]

(* The states that may be received after the packet: of the next cycle,    *)
(* with the packet received or lost, or of the one after that.             *)
Answers(s) == {Obeyed(s), Extrapolated(s), Extrapolated(Obeyed(s))}

Stopped(s) == [s EXCEPT !.time = @ + 1, !.v = Zero, !.a = Zero]

---------------------------------------------------------------------------
(* Commands                                                                *)

Filtered == loop.filter = "on"
FilterThrows(value) == loop.filter = "invalid" \/ (Filtered /\ value = NaN)

LimitedPosition(kind, value, reference) ==
  IF kind = "pose" THEN LimitPose(value, reference, state.v, state.a)
  ELSE [i \in Axes |-> LimitPosition(UpperLimit(reference[i]), LowerLimit(reference[i]),
                                     value[i], reference[i], state.v[i], state.a[i])]

LimitedVelocity(kind, value) ==
  IF kind = "twist" THEN LimitTwist(value, state.v, state.a)
  ELSE [i \in Axes |-> LimitVelocity(UpperLimit(state.q[i]), LowerLimit(state.q[i]),
                                     value[i], state.v[i], state.a[i])]

(* The low-pass filter of each joint, or of each component of a twist.     *)
EachLowPass(value, last) == [i \in Axes |-> LowPass(value[i], last[i])]

(* convertMotion() of positions: the first command is its own reference.   *)
Reference(value) == IF initialized THEN state.q ELSE value

ConvertJointPositions(value) ==
  LET filtered == IF Filtered THEN EachLowPass(value, Reference(value)) ELSE value
  IN  IF loop.limit THEN LimitedPosition("position", filtered, Reference(value)) ELSE filtered

ConvertCartesianPose(value) ==
  LET filtered == IF Filtered THEN CartesianLowPass(value, Reference(value)) ELSE value
  IN  IF loop.limit THEN LimitedPosition("pose", filtered, Reference(value)) ELSE filtered

(* convertMotion() of velocities.                                          *)
ConvertJointVelocities(value) ==
  LET filtered == IF Filtered THEN EachLowPass(value, state.v) ELSE value
  IN  IF loop.limit THEN LimitedVelocity("velocity", filtered) ELSE filtered

ConvertCartesianVelocities(value) ==
  LET filtered == IF Filtered THEN EachLowPass(value, state.v) ELSE value
  IN  IF loop.limit THEN LimitedVelocity("twist", filtered) ELSE filtered

Converted(value) ==
  CASE value = NaN -> NaN
    [] loop.kind = "position" -> ConvertJointPositions(value)
    [] loop.kind = "pose" -> ConvertCartesianPose(value)
    [] loop.kind = "velocity" -> ConvertJointVelocities(value)
    [] loop.kind = "twist" -> ConvertCartesianVelocities(value)

(* The low-pass filter builds the rotation anew, so that the matrix of a   *)
(* filtered pose is valid even if the callback's was not.                  *)
ValidAfter(matrix) == matrix \/ (loop.kind = "pose" /\ Filtered)

(* Mutant: only what the limiter passes on is checked.                     *)
MotionThrowsLimited(output) == loop.limit /\ output.value = NaN

(* What makes convertMotion() throw: the filter, the limiter, checkFinite, *)
(* checkMatrix or checkElbow.                                              *)
MotionThrows(output) ==
  \/ FilterThrows(output.value)
  \/ output.value = NaN
  \/ ~ValidAfter(output.matrix)
  \/ ~output.elbow

ConvertTorque(value) ==
  LET filtered == IF Filtered THEN LowPass(value, state.tau) ELSE value
  IN  IF value = NaN THEN NaN
      ELSE IF loop.limit THEN LimitTorque(filtered, state.tau) ELSE filtered

TorqueThrows(value) == FilterThrows(value) \/ value = NaN

BothWays(values) == values \union {-x: x \in values}

(* What callbacks return: a value, or NaN for one with a component that is *)
(* infinite or not a number, whether the matrix of a pose is one, and      *)
(* whether the elbow is valid or left out.                                 *)
Outputs(kind) ==
  [value: [Axes -> BothWays(Desired)] \union {NaN},
   matrix: IF kind = "pose" THEN BOOLEAN ELSE {TRUE},
   elbow: IF kind \in {"pose", "twist"} THEN BOOLEAN ELSE {TRUE}]

---------------------------------------------------------------------------
(* Connecting                                                              *)

(* With RealtimeConfig::kEnforce, the thread must get the highest priority *)
(* and the kernel must be a real-time one.                                 *)
RealtimeRefused(enforced, scheduled, kernel) == enforced /\ ~(scheduled /\ kernel)

(* The URDF must have every joint, with both kinds of limits and all their *)
(* attributes.                                                             *)
ParseFails(joints) == \E j \in DOMAIN joints: joints[j] # "complete"

(* The constructor of Robot::Impl.                                         *)
Connect ==
  /\ pc = "connect"
  /\ \E enforced, scheduled, kernel \in BOOLEAN,
        joints \in [1 .. 2 -> {"complete", "incomplete", "missing"}]:
       pc' = IF RealtimeRefused(enforced, scheduled, kernel) \/ ParseFails(joints)
               THEN "unconnected" ELSE "idle"
  /\ UNCHANGED <<loop, round, motions, state, initialized, motion, torque, ended, ring,
                 packet, thrown>>

---------------------------------------------------------------------------
(* Starting                                                                *)

(* A callback is missing, or the controller mode is none a motion can use. *)
ConstructRefused ==
  /\ pc = "idle"
  /\ pc' = "over"
  /\ motions' = motions + 1
  /\ UNCHANGED <<loop, round, state, initialized, motion, torque, ended, ring, packet, thrown>>

(* The rows that updateMotion() logs while startMotion() waits for the     *)
(* modes of the motion: no command was sent.                               *)
Row(command, s) == [motion |-> motions, command |-> command, time |-> s.time]

Waited(s) == [s EXCEPT !.time = @ + 1]

(* startMotion() empties the log before it returns.                        *)
StartLog(r) == Flush(r)

Construct(l) ==
  /\ pc = "idle"
  /\ loop' = l
  /\ motions' = motions + 1
  /\ state' = Waited(state)
  /\ UNCHANGED <<round, initialized, motion, torque, ended, packet, thrown>>

(* The robot takes the motion on.                                          *)
Start ==
  /\ \E l \in Loops: Construct(l) /\ pc' = IF l.api = "loop" THEN "first" ELSE "read"
  /\ \E waits \in BOOLEAN:
       ring' = StartLog(IF waits THEN Log(ring, Row(0, state')) ELSE ring)

(* The robot refuses the motion: what was logged meanwhile stays.          *)
StartFails ==
  /\ \E l \in Loops: Construct(l)
  /\ pc' = "over"
  /\ ring' = Log(ring, Row(0, state'))

---------------------------------------------------------------------------
(* The log of an exception                                                 *)

(* The packets lost before the last row, in 64 bits.                       *)
LostPackets(log) ==
  IF Len(log) >= 2
    THEN (log[Len(log)].time - log[Len(log) - 1].time - 1) % (2 ^ 16)
    ELSE 0

(* A ControlException takes the log along.                                 *)
Throw(r) ==
  /\ thrown' = [log |-> Flushed(r), lost |-> LostPackets(Flushed(r)), motion |-> motions]
  /\ ring' = Flush(r)
  /\ pc' = "cancel"

---------------------------------------------------------------------------
(* ControlLoop::loop                                                       *)

FirstCommand == IF loop.control THEN "control" ELSE "motion"

(* The first state, for which nothing is sent.                             *)
FirstState ==
  /\ pc = "first"
  /\ state' = Waited(state)
  /\ LET logged == Log(ring, Row(0, state'))
     IN  \/ /\ pc' = FirstCommand /\ ring' = logged /\ round' = 1
            /\ motion' = ZeroMotion(loop.kind)
            /\ UNCHANGED thrown
         \/ Throw(logged) /\ UNCHANGED <<round, motion>>
  /\ UNCHANGED <<loop, motions, initialized, torque, ended, packet>>

Finishes == IF round < MaxRounds THEN BOOLEAN ELSE {TRUE}

CreateControlCommand ==
  /\ pc = "control"
  /\ \E value \in BothWays(Torques) \union {NaN}, finished \in Finishes \union {FALSE}:
       IF TorqueThrows(value)
         THEN pc' = "cancel" /\ UNCHANGED <<torque, ended>>
         ELSE /\ torque' = ConvertTorque(value)
              /\ (loop.kind = "none" /\ round = MaxRounds) => finished
              /\ ended' = IF finished THEN "control" ELSE "nothing"
              /\ pc' = IF finished THEN "finish"
                       ELSE IF loop.kind # "none" THEN "motion" ELSE "update"
  /\ UNCHANGED <<loop, round, motions, state, initialized, motion, ring, packet, thrown>>

(* A callback throws: by itself, or because it builds its command from a   *)
(* list of the wrong length.                                               *)
CallbackThrows ==
  /\ pc \in {"control", "motion", "write"}
  /\ pc' = "cancel"
  /\ UNCHANGED <<loop, round, motions, state, initialized, motion, torque, ended, ring,
                 packet, thrown>>

(* initialized_filter_ is set as soon as the reference is chosen, and only *)
(* for positions.                                                          *)
CreateMotionCommand ==
  /\ pc = "motion"
  /\ initialized' = (initialized \/ loop.kind \in Positions)
  /\ \E output \in Outputs(loop.kind), finished \in Finishes:
       IF MotionThrows(output)
         THEN pc' = "cancel" /\ UNCHANGED <<motion, ended>>
         ELSE /\ motion' = [value |-> Converted(output.value), valid |-> ValidAfter(output.matrix),
                            round |-> round]
              /\ ended' = IF finished THEN "motion" ELSE "nothing"
              /\ pc' = IF finished THEN "finish" ELSE "update"
  /\ UNCHANGED <<loop, round, motions, state, torque, ring, packet, thrown>>

Sends == (IF loop.control THEN {"torque"} ELSE {}) \union (IF loop.kind # "none" THEN {"motion"} ELSE {})

Packet(last) ==
  [round |-> round, motion |-> motion, torque |-> torque, last |-> last, sends |-> Sends]

(* The robot aborts a position motion that does not begin where it stands  *)
(* (start_pose_invalid).                                                   *)
Jumps == loop.kind \in Positions /\ round = 1 /\ motion.value # state.q

(* updateMotion() with the commands of this round.  The motion goes on, or *)
(* the state that comes back tells that the robot aborted it.              *)
UpdateMotion ==
  /\ pc = "update"
  /\ packet' = Packet(FALSE)
  /\ state' \in IF Jumps THEN {Stopped(state)} ELSE Answers(state)
  /\ LET logged == Log(ring, Row(state.time, state'))
     IN  \/ /\ ~Jumps
            /\ pc' = FirstCommand /\ ring' = logged /\ round' = round + 1
            /\ UNCHANGED thrown
         \/ Throw(logged) /\ UNCHANGED round
  /\ ended' = "nothing"
  /\ UNCHANGED <<loop, motions, initialized, motion, torque>>

---------------------------------------------------------------------------
(* Finishing and cancelling                                                *)

(* finishMotion() repeats the last commands with the finished flag until   *)
(* the robot stands still, then takes the response.                        *)
FinishMotion ==
  /\ pc = "finish"
  /\ packet' = Packet(TRUE)
  /\ state' = Stopped(state)
  /\ LET logged == Log(ring, Row(state.time, state'))
     IN  \/ state.time < MaxTime * (2 * motions - 1) /\ pc' = pc /\ ring' = logged /\ UNCHANGED thrown
         \/ pc' = "over" /\ ring' = logged /\ UNCHANGED thrown
         \/ Throw(logged)
  /\ UNCHANGED <<loop, round, motions, initialized, motion, torque, ended>>

(* cancelMotion(): the states that are awaited are not logged.             *)
CancelMotion ==
  /\ pc = "cancel"
  /\ state' = Stopped(state)
  /\ pc' = "over"
  /\ UNCHANGED <<loop, round, motions, initialized, motion, torque, ended, ring, packet, thrown>>

---------------------------------------------------------------------------
(* ActiveControl                                                           *)

(* readOnce() receives a state and logs nothing.                           *)
ReadOnce ==
  /\ pc = "read" /\ round < MaxRounds
  /\ state' \in (IF round = 0 THEN {Waited(state)}
                 ELSE IF Jumps THEN {Stopped(state)} ELSE Answers(state))
  /\ \/ ~(round = 1 /\ Jumps) /\ pc' = "write" /\ round' = round + 1 /\ UNCHANGED <<ring, thrown>>
     \/ Throw(ring) /\ UNCHANGED round
  /\ UNCHANGED <<loop, motions, initialized, motion, torque, ended, packet>>

(* writeOnce(): the commands are checked as they are, sent, or repeated by *)
(* finishMotion() if one of them is the last.  After an exception the user *)
(* lets go of the control, whose destructor cancels the motion.            *)
WriteOnce ==
  /\ pc = "write"
  /\ \E output \in Outputs(loop.kind), value \in BothWays(Torques) \union {NaN},
        finished \in Finishes:
       IF \/ loop.kind # "none" /\ MotionThrows(output)
          \/ loop.control /\ TorqueThrows(value)
         THEN /\ pc' = "cancel"
              /\ UNCHANGED <<motion, torque, ended, packet>>
         ELSE /\ motion' = IF loop.kind = "none" THEN None
                           ELSE [value |-> output.value, valid |-> output.matrix,
                                 round |-> round]
              /\ torque' = IF loop.control THEN value ELSE 0
              /\ IF finished
                   THEN pc' = "finish" /\ ended' = "motion" /\ UNCHANGED packet
                   ELSE /\ pc' = "read" /\ ended' = "nothing"
                        /\ packet' = [round |-> round, motion |-> motion', torque |-> torque',
                                      last |-> FALSE, sends |-> Sends]
  /\ UNCHANGED <<loop, round, motions, state, initialized, ring, thrown>>

(* The loop object is gone; time passes, and the joint may be moved by     *)
(* hand, before the next motion.                                           *)
Again ==
  /\ pc = "over" /\ motions < MaxMotions
  /\ pc' = "idle"
  /\ loop' = NoLoop /\ round' = 0 /\ initialized' = FALSE
  /\ motion' = None /\ torque' = 0 /\ ended' = "nothing"
  /\ packet' = NoPacket /\ thrown' = NotThrown
  /\ \E q \in [Axes -> Starts]: state' = Standing(1 + 2 * MaxTime * motions, q)
  /\ UNCHANGED <<motions, ring>>

Next ==
  \/ Connect \/ ConstructRefused \/ Start \/ StartFails \/ FirstState
  \/ CreateControlCommand \/ CallbackThrows \/ CreateMotionCommand \/ UpdateMotion
  \/ FinishMotion \/ CancelMotion
  \/ ReadOnce \/ WriteOnce \/ Again

Spec == Init /\ [][Next]_loopVars

---------------------------------------------------------------------------
(* Properties                                                              *)

(* What the commands of a joint may change to in one cycle, when the       *)
(* limiter is on: a velocity within its limits stays within them, and is   *)
(* accelerated no more than allowed; one beyond them, after packets were   *)
(* lost or when the joint has come near its end stop, goes no further,     *)
(* however hard it must be braked for that.                                *)
JointKept(last, v, lower, upper) ==
  /\ last >= lower => v >= lower
  /\ last <= upper => v <= upper
  /\ last < lower => v >= last
  /\ last > upper => v <= last
  /\ lower <= last /\ last <= upper => Norm(v - last) <= MaxAcceleration

(* The same of a vector, with one exception: if the velocity is beyond its *)
(* limit, and the line along the acceleration does not meet the ball of    *)
(* allowed velocities, only the jerk is limited.                           *)
TwistKept(last, lastAcceleration, v) ==
  LET a == Minus(v, last) IN
  IF Square(last) <= MaxVelocity * MaxVelocity
    THEN /\ Square(v) <= MaxVelocity * MaxVelocity
         /\ Square(a) <= MaxAcceleration * MaxAcceleration
    ELSE \/ Square(v) <= Square(last)
         \/ Misses(last, a) /\ Square(Minus(a, lastAcceleration)) <= MaxJerk * MaxJerk

VelocityKept(v) ==
  IF loop.kind \in {"pose", "twist"} THEN TwistKept(state.v, state.a, v)
  ELSE \A i \in Axes: JointKept(state.v[i], v[i], LowerLimit(state.q[i]), UpperLimit(state.q[i]))

(* The commands of this round are made, and not sent yet.  A control       *)
(* callback that finishes makes no motion command.                         *)
TorqueReady == pc = "update" \/ (pc = "finish" /\ packet.round # round)
MotionReady == TorqueReady /\ (pc = "finish" => ended = "motion")

(* ControlLoop::convertMotion() and createControlCommand() with limitRate: *)
(* whatever callbacks ask for, and whatever the robot extrapolated while   *)
(* packets were lost, the next command respects the limits of this cycle,  *)
(* with the exception of TwistKept.  Only the first command of a position  *)
(* motion, which is its own reference, may be anywhere; the robot sees to  *)
(* that one.                                                               *)
LimitsKept ==
  loop.limit =>
    /\ TorqueReady /\ loop.control => Norm(torque - state.tau) <= MaxTorqueRate
    /\ \/ ~MotionReady \/ loop.kind = "none"
       \/ loop.kind \in Positions /\ round = 1
       \/ VelocityKept(VelocityOf(motion, state))

(* sendRobotCommand(): a motion command is finite and valid and made in    *)
(* the round it is sent in.  Only when a control callback finishes a loop  *)
(* that has a motion generator too is it the one of the round before, and  *)
(* in the first round it is the zeros of MotionGeneratorCommand(), checked *)
(* by nobody: for a pose, no transformation matrix.                        *)
MotionIsCurrent ==
  "motion" \in packet.sends =>
    LET m == packet.motion IN
    IF m.round = packet.round
      THEN m.value # NaN /\ m.valid
      ELSE /\ packet.last /\ ended = "control" /\ loop.control
           /\ IF packet.round = 1 THEN m = ZeroMotion(loop.kind)
              ELSE m.round = packet.round - 1 /\ m.value # NaN /\ m.valid

(* throwOnMotionError() and finishMotion(): the log a ControlException     *)
(* takes along holds only rows of the motion that failed, each with the    *)
(* command sent for the state of the row before it, and it counts the      *)
(* packets lost before the last row without wrapping around.               *)
LogOfThisMotion ==
  LET log == thrown.log IN
  /\ \A i \in 1 .. Len(log): log[i].motion = thrown.motion
  /\ \A i \in 2 .. Len(log):
       /\ log[i].command \in {0, log[i - 1].time}
       /\ log[i].time > log[i - 1].time
  /\ thrown.lost < 2

(* RobotStateLogger: flush() would return the last rows that were logged   *)
(* since it was last called, the oldest first; and what it does return     *)
(* when a motion fails is that motion's.                                   *)
Window == INSTANCE LogWindow WITH window <- Flushed(ring)
LogKeepsLatest == Window!Spec /\ []LogOfThisMotion

=============================================================================
