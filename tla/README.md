# Formal models of franka-warehouse-sim

TLA+ models of the concurrent core of this repository, TLC runs that check them
on small instances, and TLAPS proofs of what matters most for every instance.
Paths below are relative to `src/`.  `PROJECT.json` says, for every definition
of every module, which lines of the source it stands for.

## 1. The system

The repository holds a C++ client of the robot's control interface
(`libfranka`), the ROS 2 packages built on it (`franka_ros2`), and descriptions
and worlds.  What decides about the robot is spread over a handful of
components that run in several threads each.

| component | state it keeps | operations | threads that meet there |
|---|---|---|---|
| motion session (`libfranka/src/robot_impl.cpp`, `robot.cpp`, `control_loop.cpp`, `active_*.cpp`) | the modes and message id of the last robot state, the modes of the motion it asked for, the command id | `startMotion`, `updateMotion`, `finishMotion`, `cancelMotion`, `throwOnMotionError`, `readOnce`, `stop`, `automaticErrorRecovery` | one control thread under the control mutex; `stop()` and `readOnce()` from any other |
| control loop (`control_loop.cpp`, `rate_limiting.cpp`, `lowpass_filter.cpp`, `logging/`) | the last state, the commands, whether the filter is initialised, a ring of states and commands | callbacks, filter, limiter, checks, `sendRobotCommand`, `log`, `flush` | the control thread |
| TCP responses (`libfranka/src/network.h`) | map of responses by command id, a half-read response, the next command id | `tcpSendRequest`, `tcpReceiveResponse` (polls), `tcpBlockingReceiveResponse`, `tcpReadFromBuffer` | every thread with a request; whoever holds `tcp_mutex_` reads for all |
| commands (`robot.cpp`, `gripper.cpp`, `vacuum_gripper.cpp`; `franka_param_service_server.cpp`, `franka_executor.cpp`, `pylibfranka/`) | the parameters of the robot, a UDP buffer of gripper states, `write_mutex_` and `control_mutex_` | setters, recovery, gripper movements, `stop`, `readOnce` | services, recovery action, control loop, PTP thread, Python threads |
| asynchronous position control (`libfranka/src/async_control`) | the active control, the target, a status | `configure`, `setJointPositionTarget`, `getTargetFeedback`, `stopControl`, destructor | the action callback and the thread of each motion |
| hardware interface (`franka_ros2/franka_hardware/src/franka_hardware_interface.cpp`, `robot.cpp`) | the active mode, seven claim flags, the command vectors, the control, one flag per kind of control | lifecycle callbacks, `prepare_` and `perform_command_mode_switch`, `read`, `write` | the controller manager's real-time thread and its mode switches |
| point-to-point motions (`actions_helper/ptp_motion_handler.cpp`, `franka_action_server.cpp`) | the handler, the last feedback, the futures | goal, error recovery, `startNewPTPMotion`, `getFeedback`, `cancelMotion` | a mutually exclusive callback group, and a `std::async` thread per motion |
| state broadcaster (`franka_robot_state_broadcaster`) | an atomic word of slot indices, three messages, two flags | lifecycle callbacks, `update`, `publishRunner` | the real-time thread and the publish thread |
| gripper server (`franka_gripper`, `libfranka/src/gripper.cpp`) | goal handles, futures | four actions, cancel, stop service | a detached thread and a `std::async` thread per goal |
| spine server (`franka_spine_server`) | a motion lock, the last position and how often it was read | `MoveAbsolute`, cancel, halt, switch on, switch off, fault reset | every callback, in a reentrant group |
| swerve drive (`franka_mobile`) | the last message, two last commands, limiters, steering angles | lifecycle callbacks, chained mode, `update`, `cmd_vel` | the real-time thread and a subscription |
| examples (`franka_example_controllers`, `franka_semantic_components`) | where a trajectory began, its time, bound interfaces | lifecycle callbacks, `update`, answers of services | the real-time thread, callbacks |
| robot model, Gazebo plug-in, launch files, descriptions, messages, worlds | – | – | – |

How they interact: controllers claim interfaces of the hardware interface, which
starts a libfranka control (a motion session behind an `ActiveControl`), reads
states and writes commands through it; the point-to-point action starts a
position control on the same robot; the parameter services and the recovery send
commands of their own beside it; all send their requests through the
`Network` of one connection, as `Gripper` does through its own.  The
broadcaster publishes what `read()` has left in the state interface.

What is hard to get right, and to test: responses that overtake states and the other
way round; cancelling in the middle of a start, a loop or a finish; states lost and
overtaken over UDP; one connection shared by threads of which only one reads; a
limiter that starts from extrapolated states; a lock that `read()` holds while it
waits, with `write()` and another thread behind it; a triple buffer without locks,
whose consumer is stopped and started again; a mode switch that overlaps `write()`;
goals whose thread, whose future and whose callback end at different times; polling
that must end though requests fail; controllers that keep state from one activation
to the next.  `PROJECT.json` lists these as hazards, at the line where they bite.

What makes each component correct:

* motion session: a motion is reported as finished only if the robot ended it so;
  none is left moving when the control mutex is free; commands can be attributed
  to their motion; ids of states grow; every call comes back.
* control loop: commands respect the limits of their cycle, and are checked and
  made in the round they are sent in; an exception takes along the log of its own motion.
* TCP and commands: each thread gets the response to its own request, none is lost,
  everybody is answered or told that the connection broke; an answer says what the
  device did; parameters arrive where they were meant to.
* hardware interface: mode, control, flags, claims and vectors fit each other
  whatever the order of switches, errors and reactivations; nothing is sent that
  was not set up for the new motion.
* point-to-point: success by the motion's own feedback; the control of the robot
  is given back; goals and the destructor end.
* broadcaster: whole frames, in order, each once, none forgotten.
* gripper, spine: one command at a time, nothing left behind by a goal that is
  over, every goal ends, once.
* swerve drive: it comes to rest when commands cease, keeps its ramp, and its
  wheels roll along their velocity.
* examples: an activation starts where the robot is; a motion called finished has arrived.

## 2. The modules

| module | models | abstract specification, proofs, composition |
|---|---|---|
| `RobotMotion` | the motion session: control thread, `stop()`, `readOnce()`, TCP and UDP channels, an external robot | `RobotMotionProofs` |
| `ControlLoop` | `ControlLoop` and `ActiveControl`, round by round, with their data | extends `RateLimits` (the limiters and filters) and `RobotLog` (the ring), which implements `LogWindow`; `ControlLoopProofs` |
| `Commands` | commands of one request and one response, and who calls them | `CommandsProofs` |
| `TcpResponses` | the TCP half of `Network` | in `HandOvers` |
| `StateBroadcaster` | `update()`, `publishRunner()`, the lifecycle and `AsyncBuffer` | implements `LatestFrame`; in `HandOvers` |
| `HardwareSwitch` | `FrankaHardwareInterface` and the part of `franka_hardware::Robot` below it | `SwitchSettings`: in turn and overlapped; `SwitchSettingsProofs` |
| `PTPMotion` | `ActionServer`, `PTPMotionHandler`, `AsyncPositionControlHandler` | in `ActionServers` |
| `GripperActions` | `GripperActionServer` and the commands of `franka::Gripper` | in `ActionServers` |
| `SpineMotion` | `SpineActionServer`, `SpineController`, requests to the spine | in `ActionServers` |
| `ActionServers` | the three servers, one in each behaviour | implements `ActionGoal`, the life of a goal as clients rely on it; `ActionServersProofs` |
| `HandOvers` | the broadcaster's buffer or the TCP responses, one in each behaviour | `HandOversProofs`, about both |
| `SwerveDrive` | `SwerveDriveController`, `SwerveKinematics`, `SwerveIKController` | `SwerveDriveProofs` |
| `ExampleControllers` | thirteen example controllers, `MotionGenerator`, the semantic components they use | `ControllersProofs` |

Every module takes its instance from CONSTANTS, which a `.cfg` gives values; the
assumptions on them are named in the module, or in the one that composes it.
Each definition that follows a comment "Mutant" is the one after it with one plausible
mistake, and takes no part in any specification: with the mistake in place of the
definition the property named in `PROJECT.json` fails, which shows that the property
speaks of the code.

### RobotMotion

State: `view` and `messageId` are what `updateState` keeps
(`motion_generator_mode_`, `controller_mode_`, `message_id_`), `move` what
`startMotion` asked for, `responses` the map of `Network`, `nextId` its
`command_id_`.  `pc` is where the control thread stands in `startMotion`
(`awaitStarted`, `starting`), in a loop or an `ActiveControl` (`loopStart`,
`active`, `readCheck`), in `finishMotion`, in `throwOnMotionError` (`awaitEnd`)
or in `cancelMotion` (`awaitStop`, `draining`).  A receive of a robot state is
two steps, as in `receiveRobotState`: it notes `message_id_` (`snap`), waits, and
accepts a later state; between the two other threads may do the same.
The action that follows a response or a state carries out the code up to the
next wait.  The robot answers in order over `tcp`; it ends a motion in one step
and sends the Move response in another (`owed`), before or after the states
that show it stopping: the ordering `finishMotion` must not depend on.

States are kept by message id in `published`; a receiver may take any one later
than what it has noted, so loss, delay and reordering are choices of the
receiver.  History variables `ended`, `outcome` and `commands` say how the robot
and the client saw each motion end and which commands were sent.

### ControlLoop, RateLimits, RobotLog and LogWindow

`RobotMotion` says what these calls do to the connection; `ControlLoop` says what
they do to the data, over a connection that works but loses packets.  Two joints
stand for seven, and two axes for the three of a translation.  Every number is
whole, a cycle is the unit of time, and velocities, accelerations and jerks are
differences per cycle; `NaN` is a value of its own.  The limiter of joints is exact.
That of a twist shortens a vector along its own line: the model takes the longest
vector of whole numbers on that line that the code's quadratic allows (`Steps`,
`StepsBack`), which is what the code computes, rounded toward the last command.
Where the line misses the ball of allowed velocities the root is not a number,
`std::min()` passes over it, and the acceleration is limited by the jerk alone
(`Misses`), as in `rate_limiting.cpp:36-50`; section 6 says what follows.  A packet
the robot misses is extrapolated with constant acceleration, as `libfranka/docs`
says, which is how a state gets beyond the limits.  Each of `createControlCommand`,
`createMotionCommand`, `updateMotion` and `finishMotion` is an action; `packet`
remembers the commands sent with the rounds they were made in, `thrown` the log that
a `ControlException` took along.  `RobotLog` is the ring with its index arithmetic;
mapped to its flattened rows it implements `LogWindow`, a sequence that keeps the
last `LogSize` rows.

### Commands

A caller locks, sends, waits and reports.  What it locks depends on who it is
(`LockOf`): the setters of `franka_hardware::Robot` take `write_mutex_`; its
`readOnce()`, its `writeOnce...()` and `getCurrentState()` take `control_mutex_`;
the recovery takes nothing; Python methods have the interpreter.  So services never
wait for the control loop, but the loop's write and the thread of a PTP
motion wait for a read; the device looks at requests, answers with any status of
the command's enumeration or one that is not in it, and carries out what it
accepts.  A gripper's answer to a movement comes when the movement ends.
`host` and `device` choose who calls what: `franka_hardware` a robot, Python
or C++ threads a gripper or a vacuum gripper.  `parameters` are the robot's,
`reported` those of the calls whose callers were told of success.  The eight
thresholds of a collision behaviour are parameters of their own and each field of a
request has its own value, so that the argument lists, by position as in the code,
may not confuse lower and upper bounds, or phases, unseen.

### StateBroadcaster and LatestFrame

`state` is the atomic word of `AsyncBuffer`: which slot is active, which in the
mailbox, which free, and whether the mailbox is new.  Load, failed and successful
exchange are separate steps of each side; a weak exchange may fail for no reason.
`update()` stamps the free slot in one step and fills it in another, after which it
may give up (`UpdateFails`); `publish()` copies the header in one step and the body
in another, so that a slot handed over too early would show as a torn message.
`KeepsLatestFrame` maps `box` to the mailbox's frame, when it is new, and `taken` to
that of the active slot.

### HardwareSwitch and SwitchSettings

`on_init()` accepts a description or not; it may hold a second robot, whose
interfaces appear in the requests too.  The seven steps of
`perform_command_mode_switch` (leave the mode, ask for an initial command, reset
the flags, reset the control, start, flag, enter) are actions of their own,
because a `write()` may come between; so are the steps of
`write()` (read the mode, choose the interface by the flags, send).  `Overlapped`
says whether a switch may run while the real-time thread does, as the comment at
`franka_hardware_interface.cpp:440` has it; `SwitchSettings` gives each behaviour
one of the two.  `ready` are the vectors zeroed or measured since the last switch.

### TcpResponses

A response arrives as a header and `Body` pieces, of which
`AfterRead` takes what is there; a thread takes its response after it has
unlocked the mutex.  Two threads in the map at once are undefined behaviour:
`torn` records it and the properties claim nothing afterwards.

### PTPMotion, GripperActions, SpineMotion; ActionServers and ActionGoal

`PTPMotion`: a goal's callback (`server`) and its thread (`thread[g]`) end
separately; a handler lives while `position_control_handler_` or the future of a
thread refers to it.  `seen` is the state of the last `readOnce()`, by which
targets are judged.

`GripperActions`: the goal's detached thread, its `std::async` thread and the
stop service put requests into the gripper's inbox in any order.

`SpineMotion`: accepting a goal asks whether the lock is free, executing it takes
it; between the two another goal may be accepted.  A request may be lost before
or after it took effect (`Lossy`).

The three belong to processes of their own, so `ActionServers` runs one in each
behaviour.  `GoalStatus` maps the state of each to the status of its goals, and
`LifeOfGoals` says that they implement `ActionGoal`.

### SwerveDrive

A twist has two axes, along the robot and around it; wheels are a pair in front
and behind; angles are eighths of a turn.  `message` is the last one received, whose
age grows up to `Timeout`; it may be old when it arrives.  `commands` is
`previous_two_commands_`.  `limits` is what `on_configure()` made the limiters
of: of velocity, acceleration and jerk, each a number or `Off`.  The limiter is that
of `diff_drive_controller`, external, and modelled by what it does to doubles, NaN
and the infinities included: a clamp turns an infinite value into its bound and
lets NaN pass.  A wheel no faster than `Threshold` is not steered and still
rolls.  The IK controller follows in the same cycle; its references are NaN until
they are written.

### ExampleControllers

A controller is a plan of `on_configure` (services it asks, a robot name it needs),
what it binds at activation, and an update.  A position is a pair of coordinates;
cosines are tables over a period; torques are the position they pull to.  The joints
of `move_to_start` have end times of their own: they are synchronized, but each is
computed from the joint's own way, and `late` are those whose end comes a unit after
the common one.  Between activations the robot is moved anywhere.  The gripper
example commands nothing; its goals are counted by action, and their results may
come whatever the controller has become.

## 3. The runs

| run | bounds | question |
|---|---|---|
| `motion_session` | motion generator and torque motions, both interfaces, no motion started beyond 4 commands, 5 published states | with no other thread interfering: attribution of commands, that failures have a cause, message ids |
| `motion_preempted` | motion generators and combined motions, both interfaces, `stop()`, a robot that rejects StopMove, a connection closed at any time; 4 commands, 4 states | outcomes and a robot at rest survive preemption and loss |
| `motion_monitored` | both interfaces, one thread in `readOnce()`; 3 commands, 3 states; fairness | the Move response waited for is never gone; every call comes back |
| `stop_loses_response` | one loop and one `stop()`; fairness | *violated*, see section 6 |
| `control_loop` | every kind of loop and `ActiveControl`, two joints or axes, two motions of three rounds, a ring of two rows | limits, checks, and whose log an exception carries |
| `commands` | three hosts, three devices, any two callers of four at a time, two services whose fields all differ, one published state; fairness | answers, parameters, fresh states, and every call ends |
| `hand_overs` | four frames, rates 4 and 2; two blocking callers, one that polls, responses of two pieces; fairness | whole frames in order, refinement of `LatestFrame`, no lost wake-up; own response, everyone answered |
| `switch_settings` | in turn: all six types of interface; overlapped: two types, malformed requests, infinite values | mode, control, flags, claims and vectors fit each other; no write begins in the middle of a switch |
| `action_servers` | two goals each, two positions, two targets, everything may fail; fairness | refinement of `ActionGoal`, one motion, success of its own, nothing left behind, goals and cancels end |
| `spine_success` | one goal, faults | *violated*, see section 6 |
| `swerve` | speed 3, turns, each limit there or off (velocity 3, acceleration 2, jerk 1), cycles of one and two units, timeout 2; fairness | rest for good when commands cease, ramp, wheels |
| `examples` | thirteen controllers, two places to start, one or two units per cycle, joints that end together or a unit apart, two gripper goals under way; fairness | no jump, bound as used, finished means reached |

Why the bounds are enough to meet the hard cases: two motions in a row need
three commands (a Move, its StopMove, a Move), so four admit a stale response of
the first one while the second starts; five states let one be lost and another
overtaken within one motion.  Four frames let all three slots of the buffer pass
through all three owners, with a deactivation in between, and the proofs have no
bound at all.  With all six types every line of the choice of mode is taken.  Two
goals are the least that can compete for a lock, a gripper or the last feedback,
and the second point-to-point goal meets the handler the first has kept.  Three
rounds of a loop have a first command, which is its own reference, one limited
against it and one after a lost packet; a ring of two rows overflows in the
second.  The two services of `commands` are those with arguments that can be
swapped: the thresholds for one phase or for two; two callers are enough for one
to hold what the other waits for, and every pair is taken.  A drive at its highest command
needs more cycles to stop than its timeout has units, and a velocity of three and a
jerk of one are the least with which a limiter that never comes to rest was seen
(section 6).  Two axes are the least with which the last velocity and the
acceleration of a twist can have different directions.  In every run but the two
that look for a disagreement the whole state space is explored.

A run says `CHECK_DEADLOCK FALSE` where the system may really stop: bounds
reached, the node down, a connection or a description refused.
`switch_settings` checks deadlock; that `on_init()` refused, or that an exception left
`write()`, is a step of its own there.

## 4. Fairness

Only what the code's scheduling gives.

* `RobotMotion`: the threads run; each receive ends, because the UDP socket has a
  timeout; the robot answers requests, carries out what it was asked for and ends
  a motion that gets no commands (`communication_constraints_violation`,
  `libfranka/docs/overview.rst:452`).  Publishing states is not fair, nor are the
  user's calls.
* `StateBroadcaster`: weak fairness of both threads; strong fairness of the two
  exchanges, since a weak compare-and-swap may fail but not for ever, and the
  other side does not change the word infinitely often between a load and an
  exchange.  Calls of `update()` and of the lifecycle are not fair.
* `TcpResponses`: threads run and the server answers; strong fairness of a thread
  that tries to get the mutex, since it must get it now and then.
* `Commands`: the same for callers that take a lock, which three of them may want
  again and again; the device looks at requests, a receive of the robot's state ends
  because of its timeout.  Movements need not end.
* `PTPMotion`: callbacks and threads run, the robot moves, and its state is read
  from time to time, as `read()` of the hardware does.
* `GripperActions`: threads run, the gripper answers and ends what it executes.
* `SpineMotion`: the thread of a goal runs and the spine moves.  `GoalEnds` names
  what else it needs in its own premise: a position that can be read again and
  again.  `CancelEnds` needs nothing of the kind.
* `SwerveDrive`, `ExampleControllers`: the controller manager updates an active
  controller.  `ControlLoop` states safety only.

## 5. What is proved

With TLAPS, for every value of the constants that the named assumptions allow:
every safety invariant and every safety action property of the passing runs.
Each section names the theorems, the inductive invariant they come from and why
the property alone would not do.

`RobotMotionProofs`

* `TypeCorrect`: every variable keeps its type.  One lemma per group of actions.
* `OneReceiverMessageIdGrows` (`Monitors = {}`): `message_id_` never goes back.
  The invariant `SnapFresh` says that a receiver that waits has noted the
  current id; it is what two receivers break.
* `FinishedIsSuccess` (`Monitors = {}`): a motion reported as finished was ended
  successfully by the robot, for any kinds, bounds, with `stop()`, rejected
  StopMoves and a lost connection.  `FinishedMeansSuccess` is not inductive: that a
  `success` response means the motion's end must be known of everything in
  flight.  `FinishInv` adds that ids in flight are old (`IdsAreOld`), that the
  responses of one id come as started and then final (`StreamInv`), that a final
  success is in `ended` (`SuccessIsEnd`), that no command names a motion not yet
  started (`NoCommandYet`), and that while a motion is driven the view shows it
  running (`ActiveIsRunning`), without which `finishMotion` would return early.
* `RobotLeftAtRest` (`Monitors = {}`): on a connection that is up, no way out of a
  motion leaves the robot moving, whether its start failed or it was cancelled.
  `RestInv` follows the one Move that can be on its way (`MoveIsOwn`), the motion
  it starts (`MovingIsOwn`), what the view must show once the thread lets go
  (`ViewAtRest`), and that a StopMove halts before it is answered (`StopIsServed`).
* `AwaitedResponseComes` (`~CanStop`, any `Monitors`): the Move response that is
  waited for without a limit of time has not been taken.  `OwedInv`: while the
  thread drives a motion no response of it is stored that was read in passing,
  and the final one is owed, or its Move is still to be served.  With `stop()` it is
  false, see section 6.
* `CommandsNameTheirMotion` (`Monitors = {}`): a command's message id is that of a
  state published while its motion was executed.  `RobotInv` relates the client's
  view to the whole history of states: those of a motion are contiguous
  (`StatesInOrder`, `RunsThrough`, `RunsUntilNow`), and as long as no start has failed
  nothing that is still to come shows another motion (`HistoryInv`).
* `NothingFailsWithoutCause` (`Monitors = {}`, `~RejectsStop`), from `RobotInv` too: a
  start is refused on a connection that is up only after an earlier start failed.

`HandOversProofs`, the broadcaster

* `BufferConsistent`: the inductive invariant `BufferInv`.  Its parts: the three
  slots have three owners (`OwnedApart`), only the writer's may be half written
  (`SlotsWhole`), stamps grow from the published message over the active slot
  and the mailbox to the free slot (`StampsOrdered`), and the publish thread
  exists exactly between activation and join (`RunnerOwned`, `RunnerFresh`).
* From it `TypeCorrect`, `FramesAreWhole`, `FramesAreFresh`, `OneConsumer`,
  `SlotsAlwaysSized` (the real-time thread never has to allocate), and
  `BufferIsLatestFrame`: every step of the broadcaster is a step of `LatestFrame` or
  leaves its box alone.

`HandOversProofs`, the TCP responses

* `EveryThreadItsResponse`: each thread takes the response to its own request, for
  any number of threads and of pieces, whoever read it.  `ResponsesInv` describes
  the stream: a response lies in one run of pieces, the first perhaps read in
  part and the last not yet sent (`Framed`); what is kept is kept under its own id
  (`KeptAsSent`); a response is in one place only (`OnePlace`), threads have different
  ids (`OwnIds`), and what a thread waits for exists (`Awaited`, `Answered`).

`ControlLoopProofs`

* `CommandsAreLimited`: a command changes velocity and torque by no more than the
  limits of its cycle, wherever the joint is, whatever was lost before.  The
  limits near an end stop need a square root; the proof shows that there is one
  (`LeastNumber`, from the well-ordering of Nat).  For a twist, `TwistIsLimited` goes
  through the three cases of the limiter: from inside the ball its line always meets
  the ball (`FromInsideMeets`, by the identity of `Lagrange`), and half the way to
  the sphere stays in it (`MiddleOfBall`); from outside, a step does not
  lengthen the velocity; and where the line misses, which only a velocity beyond the
  limit allows, what is left is the limit of the jerk: `LimitsKept` says just this of
  that case.
* `SentCommandsAreCurrent`: what is sent was checked and made in its round.  Both
  come from `LoopTypes` and `CurrentInv`, which says what has been limited and made
  at each place in a round (`LimitsInv`, `MotionInv`) and that nothing follows the
  finished flag (`PacketInv`).
* `LogIsLatestWindow`: the ring, of any size, keeps the last rows in order, and an
  exception carries rows of its own motion.  `RingOK` is the fact about the
  indices: until the ring is full its rows lie at its beginning, and from then on the
  oldest lies where the next one will.

`CommandsProofs`, all from `CommandsInv`

* `CallersAreToldTheTruth`: success is reported when the device did what it was
  asked to, and only then.  `AnswersInv` says it of the answer while it is on its way:
  a request not looked at, or whose movement goes on, has none.
* `ParametersAreAsRequested`: what was reported as set is set, for all values and
  all seven services; `RequestedIsAsked` follows each field through the three lists.
  `ParametersInv`: the parameters are those reported, with what one setter has asked
  for on top while its response is on the way; only one setter can be, because
  services share a callback group.
* `GripperStateIsNew` (`ReadInv`): `readOnce()` returns a state that had not arrived when
  it was called, with two readers too.

`SwitchSettingsProofs`

* `CommandsAreAsMeant` (`~Overlapped`): a command goes through the motion generator of
  its mode, from a vector set up since the mode was entered.  `TurnInv` says which
  of flag, control and vectors are there after each of the seven steps of a switch
  (`ControlInv`, `ReadyInv`), and that what `write()` has decided stays true until it
  sends (`WriteInv`), which holds only because calls take turns.
* `ControlIsOfClaims` (`~Overlapped`, `~Miscounted`, `SameAgain`): between switches mode,
  control and flag are those of the interfaces held.  `ClaimsInv` relates the seven
  claim flags to the interfaces.  Two hypotheses are about the caller: a request
  that names a type's interfaces only in part is refused after the flags of other
  types have been set, and `on_deactivate` keeps the flags of what an error took
  away, so that other controllers than those would find them set.
* `NoWriteBeginsInSwitch`: without any hypothesis, overlapped or not, no write
  begins to send in the middle of a switch; `NoModeInv` is all it takes.

`ActionServersProofs`, all from `ServersInv`, for any number of goals

* `OneSpineMotion` (`SpineInv`): one goal moves the spine, and it holds the lock.
* `PtpSuccessIsOwn` (`PtpInv`): success is by the feedback of the goal's own motion,
  whose control has been given back.  Only the last motion can have a future
  (`OneFuture`), a thread ends with its own feedback while the node is there
  (`OwnReport`), and a handler was made by an earlier goal or this one
  (`EarlierHandler`).
* `GripperOverIsDone` (`GripperInv`): a goal that is over leaves no command and no stop
  behind.  `ThreadAhead` bounds what its thread may still do by what its handle has
  become; `SentOnce` that nothing is sent twice.
* `ServersImplementActionGoal`: each step of a server is, for each goal, a step of
  `ActionGoal` or leaves that goal alone.

`ControllersProofs`, for all controllers and any number of activations

* `PartsAreBoundAsUsed` (`PartsInv`): components are bound while they are used and
  once (`BindInv`); only inverse kinematics reads a model that is gone (`ModelInv`) and it
  is not active without its collision behaviour (`IKInv`); the gripper example
  sends one goal at a time until it is deactivated (`OrdersInv`).
* `MoveToStartEndsAtTheGoal`: torques are given up only with every joint at its
  goal, though joints have ways of different lengths and end times of their own
  (`FinishedIsGoal`).
* `NoCommandJumps` (`PaceInv`): a command goes no further than the trajectory does in
  the time that has passed.  The invariant says for each kind of trajectory which
  point of it was commanded last; the lemmas `SwingPace`, `WavePace`, `DesiredPace`
  bound each trajectory's pace for every time, periods included.

`SwerveDriveProofs`

* `RampIsKept`: with any limits, from one command that is a number to the next no
  axis changes by more than the acceleration allows, unless a limit of the velocity
  has come down below it.  It needs the types (`SwerveTypes`), which hold the
  limits against what a configuration may choose, and the limiter's arithmetic on
  numbers, NaN and infinities (`ClampValues`, `AccelerationValues`, `LimitValues`):
  what the last step clips to the velocity is not moved away from the last command.
* `WheelsAreFollowing` (`WheelsInv`): from any angles, each wheel that is not slow
  rolls along its velocity, a slow one is not steered, and one stands only if it
  has no velocity (`WheelRolls`).

The assumptions used are the named `ASSUME`s of the modules: `ConstantsAssumption`
(one each in `RobotMotion`, `HardwareSwitch` and `ActionServers`), `RatesAssumption`,
`ResponsesAssumption`, `LoopAssumption`, `LimitsAssumption`, `LogAssumption`,
`CommandsAssumption`, `ExampleAssumption` and `SwerveAssumption`, which TLC
evaluates in each run; and the hypotheses given in brackets above, each of which a
run's constants satisfy.  They are limits of the code and not of the proofs: with
any one of them dropped, TLC finds a counterexample on an instance of the size of
the runs.

Only model-checked:

* Liveness (`CallsReturn`, `LastFramePublished`, `StopReturns`, `EveryoneAnswered`,
  `GoalsEnd`, `CancelEnds`, `EveryCallEnds`, `StopEndsMovement`, `StaleStops`,
  `MotionEnds`): it needs fairness and ENABLED, which are out of this prover's reach.
* The two runs of section 6 that end in a counterexample.

The models hold no recursive definition, so that no theorem needs an induction
over data.

## 6. Disagreements between the code and its documentation

Two have a run of their own, because a step-by-step trace says more than prose:

* `stop_loses_response`: `Robot::stop()` reads responses for the loop it
  preempts.  If it stores the final Move response while the started one with the
  same id is still in the map, `emplace()` (`libfranka/src/network.h:193`) drops
  it, and the loop waits for ever, although `robot.h:770-771` promises a
  `ControlException`.
* `spine_success`: `_poll_position_until_done` returns "not cancelled" for a fault
  too, and `move_absolute` reports success, although `MoveAbsolute.action:7`
  says "True if the target position was reached".

Others came up while modelling; the properties are stated so that they exclude
them, and say so.

Motion session, connection, commands:

* `Robot::readOnce()` takes no lock (`libfranka/src/robot.cpp:184`), although
  `robot.h:445` says it cannot be executed while a loop runs and
  `active_control.h:73` that the control lock prevents other reads.  With a second
  reader `message_id_` may go back, a start may fail with the robot moving, and an
  aborted motion may count as finished.
* A connection closed in order by the robot is readable and empty: the blocking
  receive asks again for ever (`network.h:170`, against `robot.h:174`).  A
  parameter service then keeps `write_mutex_` for ever, and with it every other
  parameter service waits; `read()` and `write()` use `control_mutex_` and go on.
* `getCurrentState()` takes `control_mutex_` and returns a reference, so that the lock
  is released before the state is read (`franka_hardware/robot.hpp:248-251`), while
  `readOnce()` may write it; `ptp_motion_handler.cpp:115` reads joint positions so.
* `tcpBlockingReceiveResponse` uses its iterator after unlocking
  (`network.h:260-278`), although `gripper.h:25` says "The members of this class
  are threadsafe."
* The Python gripper keeps the interpreter's lock in `move()` and `grasp()`
  (`pylibfranka/src/gripper.cpp`), so that no other Python thread can call `stop()`
  while the gripper moves.
* A timeout of UDP in a gripper's `readOnce()` shuts TCP down too
  (`network.h:137-149`): the gripper object cannot be used any more.

Control loop:

* A control callback that finishes a loop of both kinds sends the motion command
  of the round before, and zeros in the first round (`control_loop.cpp:126`).
* `limitRate` caps the lower bound of the acceleration from below only, so that a
  joint beyond its limits may be braked harder than `max_acceleration`
  (`rate_limiting.cpp:99-106`); `LimitsKept` says so.
* The limiter of a twist computes the distance to the greatest velocity by a square
  root (`rate_limiting.cpp:36-50`).  If the last velocity is beyond the limit, as after
  lost packets that the robot extrapolates, and the acceleration points past the ball
  of allowed velocities, the root is NaN, `std::min()` returns its first argument, and
  the acceleration is limited neither by `max_acceleration` nor by the velocity, although
  `rate_limiting.h:319` has the rate limited "considering the limits provided".
  `LimitsKept` makes an exception of exactly this case.
* `ActiveControl` never logs: the `ControlException` of such a motion carries an
  empty log, or rows of an earlier loop only if `startMotion` had not flushed it.
* The filter of a Cartesian pose orthonormalises, so that a matrix that is no
  transformation passes `checkMatrix` with the filter on.

Hardware interface and action servers:

* A `write()` that read the mode before a switch left it may use the control that
  is being reset, send the old mode's vector through the new control, or throw
  `std::invalid_argument` out of `write()` (`franka_hardware_interface.cpp:306-309`
  and `440-441`, `franka_hardware/src/robot.cpp:82,117`).
* A malformed version in the URDF throws `std::invalid_argument` out of
  `on_init()`, which catches only the `std::out_of_range` of a missing one
  (`franka_hardware_interface.cpp:48,348`).
* A point-to-point target is judged by the state of the last `readOnce()`
  (`async_position_control_handler.cpp:83`): without an active `read()` a goal may
  succeed by a position the robot has left (`PTPMotion.action:8-9`).  While a new
  thread has not reported, `getFeedback()` answers with the last motion's
  feedback (`ptp_motion_handler.cpp:174`, against `ptp_motion_handler.hpp:58`), so a new goal
  may be aborted for an old reason.  A handler kept after such an abort may have
  lost its control when the next goal is sent to it (`ptp_motion_handler.cpp:32-34`).
* The gripper's stop service may answer between the start of a goal's thread and
  its request (`gripper_action_server.hpp:158`): the gripper moves after it was
  stopped (`franka_gripper/doc/index.rst:17`).

Swerve drive and examples:

* Before the first message `update_reference_from_subscribers` returns early
  (`swerve_drive_controller.cpp:76`): references left by chained mode stay,
  whatever `cmd_vel_timeout` says.  `on_activate` resets neither the references nor
  `previous_two_commands_`.
* One NaN in `cmd_vel` stays in `previous_two_commands_` and so in every later
  command.
* "If no message is received within this time, the controller will stop"
  (`franka_mobile/config/swerve_drive_controller_parameters.yaml:24`) is not so
  with a limit of the jerk when cycles differ in length: the limiter takes the last
  acceleration from commands one cycle apart and the next over another length.
  With a velocity limit of 3, a jerk of 1 and cycles of one and two units commands can
  go 0, -2, -3, -3, 0, 2, 3, 0, -2 and so on while the reference is zero.
  `StaleStops` therefore asks, when the jerk is limited, for cycles of one length in
  the end.  The configurations in the repository switch that limit off
  (`controllers.yaml:149`, `franka_gazebo_controllers.yaml:73`).
* The wheels' angle is not taken modulo a full turn before it is compared, so the
  steering is not always the least possible (`swerve_kinematics.cpp:126`).  A wheel
  no faster than 1e-3 m/s keeps its angle and rolls forwards along it, whatever the
  direction of its velocity (`swerve_kinematics.cpp:113-124`).
* The examples that set the collision behaviour log success once there is an
  answer, whatever it says (`cartesian_pose_example_controller.cpp:105-109`).
* `joint_impedance_with_ik` keeps `joint_positions_desired_` across activations and
  does not release its model (`joint_impedance_with_ik_example_controller.cpp:318`).
* The gripper example orders the gripper open at first, says
  `gripper_example_controller.cpp:87`, but `ordered_gripper_state` is static and
  outlives an activation: the next one may order a grasp.  The grasp that
  `on_deactivate()` stops still has its result callback, which orders a move, so
  that the gripper moves on after the deactivation and a later activation has two
  goals under way.  A move that fails ends the turns, although the class is said
  to open and close repeatedly (`gripper_example_controller.hpp:63`).

## 7. What is not modelled, and why

* Rounding, rotations, the dynamic model, widths of the gripper: data that no
  property of the modules above depends on, and out of the reach of a finite model.
  Square roots are modelled where a property depends on them, rounded to whole
  numbers: the end stops and the vectors of the limiter.  The end times of
  `MotionGenerator`'s joints differ by one unit at most, for all that rounding does.
* The odometry of the drive controller: nothing here reads it.  It integrates only
  references that are finite (`swerve_drive_controller.cpp:102`).
* `cancelMotion()` in the callback that answers a cancel request of the PTP action
  (`franka_action_server.cpp:30-33`): the goal's callback blocks the same mutually
  exclusive group until its motion is over, so that it never finds one to cancel.
* The robot, gripper, spine, controller manager and ROS middleware are external:
  modelled from what the code in `src/` expects of them.
* `Robot::read()`, `setGuidingMode()` and moving a `Robot` object; the export of
  interfaces; the translation of states into messages; the names of errors.
* Sockets and keepalive, log sinks, formatting, launch files, descriptions, the
  Gazebo plug-in, the ptp and spine example clients, the C++ and Python examples
  of libfranka.
* The wrap-around of 32-bit command ids and 64-bit message ids, which no
  session reaches.

## 8. Plan

Done: all modules of section 2, and proofs of every safety property of the runs.
What could follow:

1. Weaker hypotheses: `OneReceiverMessageIdGrows` and its followers when a second
   reader only reads between motions; `ControlIsOfClaims` for controllers that
   start in another order after an error, if their interfaces do not meet.
2. The parts of an overlapped switch that do hold, as an invariant of `write()`
   and the seven steps together.
3. The roots of the vector limiter in the numbers of doubles, where a step may be
   longer than the limit by a rounding.
4. Liveness by hand from the invariants, where a ranking is short: a spine goal's
   polls, the drain of `cancelMotion`.
