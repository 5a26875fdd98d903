------------------------ MODULE ExampleControllers ------------------------
(***************************************************************************)
(* franka_example_controllers and the Cartesian interfaces of              *)
(* franka_semantic_components they command through: one controller in the  *)
(* hands of the controller manager, from its configuration, which asks     *)
(* services, over any number of activations, between which the robot is    *)
(* moved by something else.                                                *)
(*                                                                         *)
(* A position is a pair of coordinates: one that the example moves and one *)
(* that it moves the other way or holds.  A controller that commands       *)
(* torques is seen by the position its torques pull to.  The cosines are   *)
(* tables over a period of four, or eight, units of the robot's time, of   *)
(* which every value is taken modulo the period.  The controllers are not  *)
(* in Gazebo.  The controller manager, the services and the robot are      *)
(* external.                                                               *)
(***************************************************************************)
EXTENDS Integers, Sequences

CONSTANTS
  Kinds,      \* the controllers that may be loaded
  Top,        \* where the robot may stand when a controller is activated
  Goal,       \* start_joint_configuration, on both coordinates
  Skips,      \* the units of time that may pass from one update to the next
  MaxOrders   \* bound: goals of the gripper example under way

ASSUME ExampleAssumption ==
  /\ Top \in Nat /\ Goal \in Nat /\ Skips \subseteq Nat \ {0} /\ Skips # {}
  /\ MaxOrders \in Nat \ {0}

VARIABLES
  kind,       \* the controller
  life,       \* its lifecycle state
  plan,       \* what on_configure has still to do
  collision,  \* the robot has the examples' collision behaviour
  named,      \* robot_type_ is the name in the description
  fresh,      \* initialization_flag_
  start,      \* initial_q_, position_, or the measured pose or elbow kept
  time0,      \* initial_robot_time_
  elapsed,    \* elapsed_time_, or the time since start_time_
  late,       \* the joints whose t_f_sync_ is rounded to a unit more than the others'
  bound,      \* how often the component's command_interfaces_ hold its names
  model,      \* the model's first state_interfaces_: none, live, dead; or initialized_
  asked,      \* the last request to compute_ik, if it is not answered
  desired,    \* joint_positions_desired_
  target,     \* the position or velocity last commanded
  zero,       \* the torque commanded is 0, whatever the target
  refused,    \* setCommand returned FALSE
  dangling,   \* an interface of an earlier activation has been read
  issued,     \* a command has been written in this activation
  ordered,    \* ordered_gripper_state
  underway,   \* how many goals of each gripper action have been sent and not ended
  parted,     \* the gripper example has been deactivated since on_configure
  passed,     \* time since the last update
  q, clock    \* measured position, robot_time

setupVars == <<plan, collision, named>>
updateVars == <<fresh, start, time0, elapsed, late>>
partVars == <<bound, model, dangling>>
ikVars == <<asked, desired>>
outputVars == <<target, zero, refused, issued>>
gripperVars == <<ordered, underway, parted>>
robotVars == <<passed, q, clock>>
vars == <<kind, life, setupVars, updateVars, partVars, ikVars, outputVars, gripperVars,
          robotVars>>

None == <<>>
Positions == {<<0, 0>>, <<Top, Goal>>}
Swings ==
  {"joint_position", "cartesian_pose", "cartesian_orientation", "cartesian_elbow", "elbow"}
Waves == {"joint_velocity", "cartesian_velocity"}
Torques == {"joint_impedance", "joint_impedance_with_ik", "move_to_start"}
OfPose ==
  {"cartesian_pose", "cartesian_orientation", "cartesian_elbow", "joint_impedance_with_ik"}
OfVelocity == {"elbow", "cartesian_velocity"}

Init ==
  /\ kind \in Kinds /\ life = "unconfigured"
  /\ plan = <<>> /\ collision = FALSE /\ named = FALSE
  /\ fresh = TRUE /\ start = <<0, 0>> /\ time0 = 0 /\ elapsed = 0 /\ late = {}
  /\ bound = 0 /\ model = "none" /\ dangling = FALSE
  /\ asked = None /\ desired = None
  /\ target = <<0, 0>> /\ zero = FALSE /\ refused = FALSE /\ issued = FALSE
  /\ ordered = "closed" /\ underway = [move |-> 0, grasp |-> 0] /\ parted = FALSE
  /\ passed = 0 /\ q = <<0, 0>> /\ clock = 0

---------------------------------------------------------------------------
(* on_configure: what each controller does, in order.                      *)

JointPositionPlan == <<"description">>
CartesianPosePlan == <<"collision", "description">>
CartesianOrientationPlan == <<"collision", "description">>
CartesianElbowPlan == <<"collision", "description">>
ElbowPlan == <<"collision", "description">>
CartesianVelocityPlan == <<"collision">>
JointVelocityPlan == <<"filled description", "collision">>
JointImpedancePlan == <<"gains", "description">>
WithIKPlan == <<"gains", "services", "checked collision", "description">>
MoveToStartPlan == <<"gains">>
GravityCompensationPlan == <<>>
ModelPlan == <<>>
GripperPlan == <<>>

PlanOf(controller) ==
  CASE controller = "joint_position"          -> JointPositionPlan
    [] controller = "cartesian_pose"          -> CartesianPosePlan
    [] controller = "cartesian_orientation"   -> CartesianOrientationPlan
    [] controller = "cartesian_elbow"         -> CartesianElbowPlan
    [] controller = "elbow"                   -> ElbowPlan
    [] controller = "cartesian_velocity"      -> CartesianVelocityPlan
    [] controller = "joint_velocity"          -> JointVelocityPlan
    [] controller = "joint_impedance"         -> JointImpedancePlan
    [] controller = "joint_impedance_with_ik" -> WithIKPlan
    [] controller = "move_to_start"           -> MoveToStartPlan
    [] controller = "gravity_compensation"    -> GravityCompensationPlan
    [] controller = "model"                   -> ModelPlan
    [] controller = "gripper"                 -> GripperPlan

(* The components are made anew, bound to nothing, and so are the clients  *)
(* of the gripper: of the goals of earlier ones nothing is heard any more. *)
Configure ==
  /\ life = "unconfigured" /\ life' = "configuring"
  /\ plan' = PlanOf(kind) /\ bound' = 0 /\ model' = "none"
  /\ underway' = [move |-> 0, grasp |-> 0] /\ parted' = FALSE
  /\ UNCHANGED <<kind, collision, named, updateVars, dangling, ikVars, outputVars, ordered,
                 robotVars>>

Turn(step) == life = "configuring" /\ plan # <<>> /\ Head(plan) = step
OtherThanSetup == <<kind, updateVars, partVars, ikVars, outputVars, gripperVars, robotVars>>

(* k_gains and d_gains: FAILURE if one is empty or not of seven numbers.   *)
ReadGains ==
  /\ Turn("gains")
  /\ \/ plan' = Tail(plan) /\ UNCHANGED life
     \/ life' = "unconfigured" /\ plan' = <<>>
  /\ UNCHANGED <<collision, named, OtherThanSetup>>

(* wait_for_service of compute_ik and of the collision behaviour, for at   *)
(* most ten seconds.                                                       *)
WaitForServices ==
  /\ Turn("services")
  /\ \/ plan' = Tail(plan) /\ UNCHANGED life
     \/ life' = "failed" /\ plan' = <<>>
  /\ UNCHANGED <<collision, named, OtherThanSetup>>

(* set_full_collision_behavior answers.  Only the controller with inverse  *)
(* kinematics looks at success; the others test the pointer to the answer. *)
CollisionAnswered(success) ==
  /\ collision' = (collision \/ success)
  /\ \/ /\ Turn("collision")
        /\ plan' = Tail(plan) /\ UNCHANGED life
     \/ /\ Turn("checked collision")
        /\ IF success THEN plan' = Tail(plan) /\ UNCHANGED life
                      ELSE plan' = <<>> /\ life' = "failed"
  /\ UNCHANGED <<named, OtherThanSetup>>

(* robot_state_publisher answers with a description, with an empty one, in *)
(* which there is no name, or with none: robot_description_ is then that   *)
(* of an earlier on_configure().                                           *)
Described(answer) ==
  /\ named' = IF answer = "none" THEN named ELSE answer = "description"
  /\ \/ /\ Turn("description")
        /\ plan' = Tail(plan) /\ UNCHANGED life
     \/ /\ Turn("filled description")
        /\ IF answer = "empty" THEN plan' = <<>> /\ life' = "failed"
                               ELSE plan' = Tail(plan) /\ UNCHANGED life
  /\ UNCHANGED <<collision, OtherThanSetup>>

Configured ==
  /\ life = "configuring" /\ plan = <<>> /\ life' = "inactive"
  /\ UNCHANGED <<setupVars, OtherThanSetup>>

CleanUp ==
  /\ life = "inactive" /\ life' = "unconfigured"
  /\ UNCHANGED <<setupVars, OtherThanSetup>>

---------------------------------------------------------------------------
(* The semantic components.  get_ordered_interfaces appends.               *)

(* Mutant: release_interfaces forgets to clear.                            *)
ReleaseNothing == UNCHANGED <<bound, model>>

Assign == bound' = bound + 1 /\ UNCHANGED model
Release == bound' = 0 /\ UNCHANGED model

PoseSize(elbow) == IF elbow THEN 18 ELSE 16
VelocitySize(elbow) == IF elbow THEN 8 ELSE 6

(* set_values refuses values of which the capacity is not the number of    *)
(* interfaces.                                                             *)
SetValues(capacity, size) == capacity = bound * size

SetPose(elbow) == ~elbow /\ SetValues(16, PoseSize(elbow))
SetPoseAndElbow(elbow) == elbow /\ SetValues(18, PoseSize(elbow))
SetVelocities(elbow) == ~elbow /\ SetValues(6, VelocitySize(elbow))
SetVelocitiesAndElbow(elbow) == elbow /\ SetValues(8, VelocitySize(elbow))

(* The model looks its interfaces up when it is first used, the first ones *)
(* of the name; what they point to is kept.  Those of an earlier           *)
(* activation have been destroyed.                                         *)
ModelAssign == model' = IF model = "none" THEN "live" ELSE model
ModelRelease == model' = (IF model = "initialized" THEN model ELSE "none") /\ UNCHANGED bound
ModelRead == model' = "initialized" /\ dangling' = (dangling \/ model = "dead")

---------------------------------------------------------------------------
(* The gripper example opens and closes by turns, with one goal after      *)
(* another.  What it has ordered last outlives the activations.            *)

Orders(goals) == goals["move"] + goals["grasp"]

ToggleGripperState(goals) ==
  IF ordered = "closed"
    THEN ordered' = "open" /\ underway' = [goals EXCEPT !["move"] = @ + 1]
    ELSE ordered' = "closed" /\ underway' = [goals EXCEPT !["grasp"] = @ + 1]

(* The result callbacks, which are called whatever the controller has      *)
(* become: a move that failed is not followed by anything, a grasp always  *)
(* is.  A goal that the server rejects has no result.                      *)
OrderEnds(action, result) ==
  /\ underway[action] > 0
  /\ LET left == [underway EXCEPT ![action] = @ - 1] IN
       IF result = "succeeded" \/ (action = "grasp" /\ result = "failed")
         THEN ToggleGripperState(left)
         ELSE underway' = left /\ UNCHANGED ordered
  /\ UNCHANGED <<kind, life, setupVars, updateVars, partVars, ikVars, outputVars, parted,
                 robotVars>>

---------------------------------------------------------------------------
(* on_activate, at the start of an update of the controller manager.  It   *)
(* claims interfaces under the name in the description.                    *)

NeedsName == kind \in Swings \union {"joint_velocity", "joint_impedance_with_ik"}

(* Mutant: on_activate does not set initialization_flag_ again.            *)
StartsAsBefore == elapsed' = 0 /\ UNCHANGED <<fresh, start, time0, late, zero>>

StartsAnew == fresh' = TRUE /\ elapsed' = 0 /\ UNCHANGED <<start, time0, late, zero>>
StartsHere == start' = q /\ elapsed' = 0 /\ zero' = FALSE /\ UNCHANGED <<fresh, time0>>
StartsAtZero == elapsed' = 0 /\ UNCHANGED <<fresh, start, time0, late, zero>>
NoPart == UNCHANGED <<bound, model>>

JointPositionActivate == kind = "joint_position" /\ StartsAnew /\ NoPart
CartesianPoseActivate == kind = "cartesian_pose" /\ StartsAnew /\ Assign
CartesianOrientationActivate == kind = "cartesian_orientation" /\ StartsAnew /\ Assign
CartesianElbowActivate == kind = "cartesian_elbow" /\ StartsAnew /\ Assign
ElbowActivate == kind = "elbow" /\ StartsAnew /\ Assign
CartesianVelocityActivate == kind = "cartesian_velocity" /\ StartsAtZero /\ Assign
JointVelocityActivate == kind = "joint_velocity" /\ StartsAtZero /\ NoPart
JointImpedanceActivate ==
  kind = "joint_impedance" /\ StartsHere /\ NoPart /\ UNCHANGED late
WithIKActivate ==
  kind = "joint_impedance_with_ik" /\ StartsAnew /\ bound' = bound + 1 /\ ModelAssign
MoveToStartActivate ==
  kind = "move_to_start" /\ StartsHere /\ NoPart /\ late' \in SUBSET {1, 2}
GravityCompensationActivate ==
  kind = "gravity_compensation" /\ NoPart /\ UNCHANGED <<updateVars, zero>>
ModelActivate == kind = "model" /\ ModelAssign /\ UNCHANGED <<updateVars, bound, zero>>
GripperActivate ==
  /\ kind = "gripper" /\ Orders(underway) < MaxOrders /\ ToggleGripperState(underway)
  /\ NoPart /\ UNCHANGED <<updateVars, zero, parted>>

Activate ==
  /\ life = "inactive" /\ (NeedsName => named) /\ passed > 0 /\ q \in Positions
  /\ life' = "active" /\ issued' = FALSE
  /\ kind = "gripper" \/ UNCHANGED gripperVars
  /\ \/ JointPositionActivate \/ CartesianPoseActivate \/ CartesianOrientationActivate
     \/ CartesianElbowActivate \/ ElbowActivate \/ CartesianVelocityActivate
     \/ JointVelocityActivate \/ JointImpedanceActivate \/ WithIKActivate
     \/ MoveToStartActivate \/ GravityCompensationActivate \/ ModelActivate
     \/ GripperActivate
  /\ UNCHANGED <<kind, setupVars, dangling, ikVars, target, refused, robotVars>>

(* The gripper's servers do not answer within five seconds.                *)
NoServers ==
  /\ life = "inactive" /\ kind = "gripper" /\ passed > 0
  /\ life' = "failed"
  /\ UNCHANGED <<setupVars, OtherThanSetup>>

(* on_deactivate.  Then the controller manager destroys what it had lent,  *)
(* and the hardware forgets the command.                                   *)
CartesianPoseDeactivate == kind = "cartesian_pose" /\ Release
CartesianOrientationDeactivate == kind = "cartesian_orientation" /\ Release
CartesianElbowDeactivate == kind = "cartesian_elbow" /\ Release
ElbowDeactivate == kind = "elbow" /\ Release
CartesianVelocityDeactivate == kind = "cartesian_velocity" /\ Release
WithIKDeactivate ==
  /\ kind = "joint_impedance_with_ik" /\ bound' = 0
  /\ model' = IF model = "live" THEN "dead" ELSE model
ModelDeactivate == kind = "model" /\ ModelRelease
OtherDeactivate == kind \notin OfPose \union OfVelocity \union {"model", "gripper"} /\ NoPart

(* It waits for the stop service, by which a goal ends some time; the      *)
(* callbacks are not withdrawn.                                            *)
GripperDeactivate == kind = "gripper" /\ parted' = TRUE /\ NoPart

Deactivate ==
  /\ life = "active" /\ passed > 0 /\ life' = "inactive"
  /\ \/ CartesianPoseDeactivate \/ CartesianOrientationDeactivate \/ CartesianElbowDeactivate
     \/ ElbowDeactivate \/ CartesianVelocityDeactivate \/ WithIKDeactivate
     \/ ModelDeactivate \/ OtherDeactivate \/ GripperDeactivate
  /\ kind = "gripper" \/ UNCHANGED parted
  /\ target' = <<0, 0>> /\ zero' = FALSE /\ issued' = FALSE
  /\ UNCHANGED <<kind, setupVars, updateVars, dangling, ikVars, refused, ordered, underway,
                 robotVars>>

---------------------------------------------------------------------------
(* MotionGenerator, for two joints: each goes the way its coordinate has   *)
(* to in the time that the longer way takes at full speed, max_t_f.  Each  *)
(* computes an end time t_f_sync_ of its own from that, by a square root   *)
(* of which a negative argument is taken for 0: what is rounded there may  *)
(* bring it a cycle after the others.  The phases of acceleration and      *)
(* braking are drawn as part of a straight line.                           *)

Way(from, joint) == Goal - from[joint]
Norm(n) == IF n < 0 THEN -n ELSE n

SynchronizedTime(from) ==
  IF Norm(Way(from, 1)) > Norm(Way(from, 2)) THEN Norm(Way(from, 1)) ELSE Norm(Way(from, 2))

EndTime(from, joint) == SynchronizedTime(from) + (IF joint \in late THEN 1 ELSE 0)

DesiredWay(from, joint, time) ==
  IF time >= EndTime(from, joint) THEN Way(from, joint)
  ELSE LET gone == (Norm(Way(from, joint)) * time) \div EndTime(from, joint)
       IN  IF Way(from, joint) < 0 THEN -gone ELSE gone

(* Mutants: a joint is finished only if it had nowhere to go; or at        *)
(* max_t_f.                                                                *)
FinishedAtOnce(from, joint, time) == Way(from, joint) = 0
FinishedTogether(from, joint, time) ==
  Way(from, joint) = 0 \/ time >= SynchronizedTime(from)

JointFinished(from, joint, time) == Way(from, joint) = 0 \/ time >= EndTime(from, joint)

(* Mutant: any_of for all_of.                                              *)
AnyFinished(from, time) == JointFinished(from, 1, time) \/ JointFinished(from, 2, time)

MotionFinished(from, time) == JointFinished(from, 1, time) /\ JointFinished(from, 2, time)

DesiredPosition(from, time) ==
  <<from[1] + DesiredWay(from, 1, time), from[2] + DesiredWay(from, 2, time)>>

---------------------------------------------------------------------------
(* update.                                                                 *)

Period == 4
Swing(time) == <<0, 1, 2, 1>>[(time % Period) + 1]
Wave(time) == <<0, 1, 2, 1, 0, -1, -2, -1>>[(time % (2 * Period)) + 1]

(* The first update keeps what it measures; the others read the time.      *)
Begin ==
  /\ UNCHANGED late
  /\ IF fresh
       THEN start' = q /\ time0' = clock /\ elapsed' = 0 /\ fresh' = FALSE
       ELSE elapsed' = (clock - time0) % Period /\ UNCHANGED <<start, time0, fresh>>

Tick(length) ==
  elapsed' = (elapsed + passed) % length /\ UNCHANGED <<fresh, start, time0, late>>

(* What is written, and whether it was: update returns ERROR if not.       *)
Write(command, taken) ==
  /\ target' = IF taken THEN command ELSE target
  /\ refused' = (refused \/ ~taken) /\ issued' = taken
  /\ life' = IF taken THEN "active" ELSE "failed"

Plain == UNCHANGED <<model, dangling, asked, desired, zero>>

JointPositionUpdate ==
  /\ kind = "joint_position" /\ Begin /\ Plain
  /\ Write(<<start'[1] + Swing(elapsed'), start'[2] - Swing(elapsed')>>, TRUE)

CartesianPoseUpdate ==
  /\ kind = "cartesian_pose" /\ Begin /\ Plain
  /\ Write(<<start'[1] - Swing(elapsed'), start'[2] + Swing(elapsed')>>, SetPose(FALSE))

CartesianOrientationUpdate ==
  /\ kind = "cartesian_orientation" /\ Begin /\ Plain
  /\ Write(<<start'[1] + Swing(elapsed'), start'[2]>>, SetPose(FALSE))

CartesianElbowUpdate ==
  /\ kind = "cartesian_elbow" /\ Begin /\ Plain
  /\ Write(<<start'[1] + Swing(elapsed'), start'[2]>>, SetPoseAndElbow(TRUE))

ElbowUpdate ==
  /\ kind = "elbow" /\ Begin /\ Plain
  /\ Write(<<start'[1] + Swing(elapsed'), start'[2]>>, SetVelocitiesAndElbow(TRUE))

CartesianVelocityUpdate ==
  /\ kind = "cartesian_velocity" /\ Tick(2 * Period) /\ Plain
  /\ Write(<<Wave(elapsed'), -Wave(elapsed')>>, SetVelocities(FALSE))

JointVelocityUpdate ==
  /\ kind = "joint_velocity" /\ Tick(2 * Period) /\ Plain
  /\ Write(<<Wave(elapsed'), 0>>, TRUE)

JointImpedanceUpdate ==
  /\ kind = "joint_impedance" /\ Tick(Period) /\ Plain
  /\ Write(<<start[1] + Swing(elapsed'), start[2]>>, TRUE)

(* A request each time; torques once there has ever been a solution.  Of   *)
(* the requests that are not answered the last one is kept.                *)
WithIKUpdate ==
  /\ kind = "joint_impedance_with_ik" /\ Begin
  /\ asked' = <<start'[1] - Swing(elapsed'), start'[2] + Swing(elapsed')>>
  /\ \/ desired = None /\ UNCHANGED <<life, model, dangling, target, refused, issued>>
     \/ desired # None /\ ModelRead /\ Write(desired, TRUE)
  /\ UNCHANGED <<desired, zero>>

(* The time is counted no further than to where every joint has ended.     *)
MoveToStartUpdate ==
  /\ kind = "move_to_start"
  /\ elapsed' = IF elapsed > SynchronizedTime(start) THEN elapsed ELSE elapsed + passed
  /\ zero' = MotionFinished(start, elapsed')
  /\ Write(DesiredPosition(start, elapsed'), TRUE)
  /\ UNCHANGED <<fresh, start, time0, late, model, dangling, ikVars>>

GravityCompensationUpdate ==
  /\ kind = "gravity_compensation" /\ zero' = TRUE /\ issued' = TRUE
  /\ UNCHANGED <<life, updateVars, model, dangling, ikVars, target, refused>>

ModelUpdate ==
  /\ kind = "model" /\ ModelRead
  /\ UNCHANGED <<life, updateVars, ikVars, outputVars>>

GripperUpdate ==
  /\ kind = "gripper"
  /\ UNCHANGED <<life, updateVars, model, dangling, ikVars, outputVars>>

Update ==
  /\ life = "active" /\ passed > 0 /\ passed' = 0
  /\ \/ JointPositionUpdate \/ CartesianPoseUpdate \/ CartesianOrientationUpdate
     \/ CartesianElbowUpdate \/ ElbowUpdate \/ CartesianVelocityUpdate
     \/ JointVelocityUpdate \/ JointImpedanceUpdate \/ WithIKUpdate
     \/ MoveToStartUpdate \/ GravityCompensationUpdate \/ ModelUpdate
     \/ GripperUpdate
  /\ UNCHANGED <<kind, setupVars, bound, gripperVars, q, clock>>

---------------------------------------------------------------------------
(* What is around the controller.                                          *)

(* The server of compute_ik answers, with a solution or without, and       *)
(* whatever the controller has become: its callback is not withdrawn.      *)
SolutionArrives ==
  /\ asked # None /\ asked' = None
  /\ desired' \in {asked, desired}
  /\ UNCHANGED <<kind, life, setupVars, updateVars, partVars, outputVars, gripperVars,
                 robotVars>>

(* One cycle of the hardware: the robot follows the controller, or, while  *)
(* none is active, is moved by hand or by another one.                     *)
Read ==
  /\ life = "inactive" \/ (life = "active" /\ passed = 0)
  /\ passed' \in Skips /\ clock' = (clock + passed') % Period
  /\ \/ life = "active" /\ q' = q
     \/ life = "active" /\ kind \in Swings \union Torques /\ issued /\ ~zero /\ q' = target
     \/ life = "inactive" /\ q' \in Positions
  /\ UNCHANGED <<kind, life, setupVars, updateVars, partVars, ikVars, outputVars,
                 gripperVars>>

Next ==
  \/ Configure \/ ReadGains \/ WaitForServices \/ Configured \/ CleanUp
  \/ \E success \in BOOLEAN: CollisionAnswered(success)
  \/ \E answer \in {"description", "empty", "none"}: Described(answer)
  \/ Activate \/ NoServers \/ Update \/ Deactivate
  \/ \E action \in {"move", "grasp"}, result \in {"succeeded", "failed", "rejected"}:
       OrderEnds(action, result)
  \/ SolutionArrives \/ Read

Spec == Init /\ [][Next]_vars

(* The control loop of the controller manager goes on.                     *)
FairSpec == Spec /\ WF_vars(Read) /\ WF_vars(Update)

---------------------------------------------------------------------------
(* Properties.                                                             *)

Follows == Swings \union Waves \union {"joint_impedance", "move_to_start"}
Away(from, to) == Norm(to[1] - from[1]) <= passed /\ Norm(to[2] - from[2]) <= passed

(* The first command of an activation is as near to where the robot is, or *)
(* to standing still, as the trajectory is fast, wherever the robot was    *)
(* when the controller was active before; and each later one is as near to *)
(* the one before it.  Not so with inverse kinematics: joint_positions_    *)
(* desired_ is kept from one activation to the next.                       *)
NoJump ==
  [][Update /\ issued' /\ kind \in Follows =>
       Away(IF issued THEN target ELSE IF kind \in Waves THEN <<0, 0>> ELSE q, target')]_vars

(* The component takes each command, in every activation: it is bound once *)
(* and to as many interfaces as there are values, elbow or none.           *)
CommandTaken == ~refused

(* An interface that the controller manager has taken back is not read.    *)
(* Only inverse kinematics may: it does not release its model, which is    *)
(* first used when a solution has come, in a later activation perhaps.     *)
LiveModel == dangling => kind = "joint_impedance_with_ik"

(* Inverse kinematics looks at the answer to set_full_collision_behavior,  *)
(* the others only at whether there is one, and log that it is set.        *)
CollisionSet == life = "active" /\ kind = "joint_impedance_with_ik" => collision

(* The gripper example sends a goal when the last one has ended.  Not so   *)
(* once it has been deactivated: on_deactivate() leaves the goal it stops  *)
(* its callback, and on_activate() sends another beside it.                *)
OneOrder == Orders(underway) > 1 => parted

(* What on_configure() and on_activate() bind, and on_deactivate() releases*)
(* or not, is what update() and the callbacks find, however often they are *)
(* called.                                                                 *)
BoundAsUsed == CommandTaken /\ LiveModel /\ CollisionSet /\ OneOrder

(* MoveToStart gives its torques up only where it had to go, on every      *)
(* joint, however different their ways and their own end times are.        *)
FinishedMeansReached == kind = "move_to_start" /\ zero => target = <<Goal, Goal>>

(* And it gets there, if it is left active.                                *)
MotionEnds == (kind = "move_to_start" /\ life = "active") ~> (zero \/ life # "active")

===========================================================================
