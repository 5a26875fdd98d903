---------------------------- MODULE SwerveDrive ----------------------------
(***************************************************************************)
(* franka_mobile: the SwerveDriveController, which limits the velocities   *)
(* of ~/cmd_vel, or of a controller chained before it, and sends them on,  *)
(* and the SwerveIKController, which is chained behind it in Gazebo and    *)
(* turns them into two wheels' steering angles and speeds.  Built for      *)
(* Humble.                                                                 *)
(*                                                                         *)
(* A twist is a velocity along x and a rotation about z, with one set of   *)
(* limits for both; y is limited and sent as x is.  The wheels stand at    *)
(* (1, 0) and (-1, 0).  Steering angles are counted in eighths of a turn,  *)
(* to which atan2 is rounded, and of the speed of a wheel its sign is      *)
(* kept.  Time is counted in control cycles.  The odometry, which nothing  *)
(* here reads, is left out.  The controller manager, the limiter of        *)
(* diff_drive_controller, the senders of messages and the preceding        *)
(* controller are external.                                                *)
(***************************************************************************)
EXTENDS Integers, Sequences

CONSTANTS
  NaN, Inf, NegInf, \* the values of a double that are no finite number
  Off,              \* a limit that is switched off
  Speeds, Turns,    \* the velocities, both ways, and the rotations asked for
  Velocities,       \* of max_velocity and -min_velocity
  Accelerations,    \* of max_acceleration and -min_acceleration, in one cycle
  Jerks,            \* twice those of max_jerk and -min_jerk, in one cycle
  Retuned,          \* whether parameters may change between configurations
  Threshold,        \* eps: a wheel that is no faster is not steered
  Timeout,          \* cmd_vel_timeout
  Steps             \* how many cycles of time may pass between two updates

ASSUME SwerveAssumption ==
  /\ Speeds \subseteq Int /\ Turns \subseteq Int
  /\ Velocities \subseteq Nat
  /\ Accelerations \subseteq Nat \ {0} /\ Jerks \subseteq Nat \ {0}
  /\ Threshold \in Nat /\ Timeout \in Nat \ {0} /\ Steps \subseteq Nat \ {0}
  /\ Retuned \in BOOLEAN
  /\ {NaN, Inf, NegInf, Off} \cap Int = {}
  /\ NaN # Inf /\ NaN # NegInf /\ Inf # NegInf

VARIABLES
  stage,      \* the lifecycle state of the drive controller
  limits,     \* what the limiters were made with
  chained,    \* in_chained_mode_
  subscribed, \* cmd_vel_sub_ is there
  message,    \* received_velocity_msg_: its twist, and its age up to Timeout
  reference,  \* reference_interfaces_ of the drive controller
  commands,   \* previous_two_commands_
  wheelReference, \* reference_interfaces_ of the IK controller
  steering,   \* steering_angles_ of the wheels
  rolling     \* the sign of their speeds

driveVars == <<stage, limits, chained, subscribed, message, reference, commands,
               wheelReference, steering, rolling>>

(* The parameters of a limiter.  Those of the jerk and the acceleration    *)
(* come with that of the velocity, without which they would let commands   *)
(* grow without bound.                                                     *)
Limits ==
  {l \in [velocity: Velocities \union {Off}, acceleration: Accelerations \union {Off},
         jerk: Jerks \union {Off}]: l.velocity = Off => l.acceleration = Off /\ l.jerk = Off}

Twist(x, w) == [x |-> x, w |-> w]
Zero == Twist(0, 0)
Finite(twist) == {twist.x, twist.w} \cap {NaN, Inf, NegInf} = {}

NoMessage == [twist |-> Zero, age |-> -1]

(* A message of some age.  Of an outdated one the twist is no longer read. *)
Message(twist, age) ==
  IF age < Timeout THEN [twist |-> twist, age |-> age] ELSE [twist |-> Zero, age |-> Timeout]

(* What is sent to ~/cmd_vel, or written by a preceding controller.        *)
Messages == {Twist(x, w): x \in Speeds \union {-v: v \in Speeds} \union {NaN, Inf}, w \in Turns}

Wheels == {1, 2}
Sign(n) == IF n > 0 THEN 1 ELSE IF n < 0 THEN -1 ELSE 0
Norm(n) == IF n < 0 THEN -n ELSE n

---------------------------------------------------------------------------
(* The limiter, in the arithmetic of doubles.                              *)

Value == Int \union {NaN, Inf, NegInf}

Negate(a) == CASE a = NaN -> NaN [] a = Inf -> NegInf [] a = NegInf -> Inf [] OTHER -> -a

Sums ==
  [pair \in Value \X Value |->
     LET terms == {pair[1], pair[2]}
     IN  IF NaN \in terms \/ {Inf, NegInf} \subseteq terms THEN NaN
         ELSE IF Inf \in terms THEN Inf
         ELSE IF NegInf \in terms THEN NegInf
         ELSE pair[1] + pair[2]]
Plus(a, b) == Sums[<<a, b>>]

(* A NaN passes; an infinite value does not.                               *)
Clamp(bound) ==
  [v \in Value |->
     CASE v = NaN -> NaN
       [] v = Inf -> bound
       [] v = NegInf -> -bound
       [] OTHER -> IF v > bound THEN bound ELSE IF v < -bound THEN -bound ELSE v]

LimitJerk(last, secondToLast, dt) ==
  [velocity \in Value |->
     IF limits.jerk = Off THEN velocity
     ELSE LET before == Plus(last, Negate(secondToLast))
              change == Plus(Plus(velocity, Negate(last)), Negate(before))
          IN  Plus(Plus(last, before), Clamp(limits.jerk * dt * dt)[change])]

LimitAcceleration(last, dt) ==
  [velocity \in Value |->
     IF limits.acceleration = Off THEN velocity
     ELSE LET change == Plus(velocity, Negate(last))
          IN  Plus(last, Clamp(limits.acceleration * dt)[change])]

LimitVelocity ==
  [velocity \in Value |->
     IF limits.velocity = Off THEN velocity ELSE Clamp(limits.velocity)[velocity]]

Limit(velocity, last, secondToLast, dt) ==
  LET afterJerk == LimitJerk(last, secondToLast, dt)[velocity]
  IN  LimitVelocity[LimitAcceleration(last, dt)[afterJerk]]

(* Mutant: the two previous commands are taken in the wrong order.         *)
LimitedSwapped(twist, dt) ==
  Twist(Limit(twist.x, commands[1].x, commands[2].x, dt),
        Limit(twist.w, commands[1].w, commands[2].w, dt))

Limited(twist, dt) ==
  Twist(Limit(twist.x, commands[2].x, commands[1].x, dt),
        Limit(twist.w, commands[2].w, commands[1].w, dt))

---------------------------------------------------------------------------
(* SwerveKinematics                                                        *)

(* The direction of a wheel steered by -4 .. 4 eighths of a turn.          *)
Headings == <<<<-1, 0>>, <<-1, -1>>, <<0, -1>>, <<1, -1>>, <<1, 0>>, <<1, 1>>, <<0, 1>>,
              <<-1, 1>>, <<-1, 0>>>>
Heading(angle) == Headings[angle + 5]

(* std::atan2 of a velocity, and of its opposite, which turns a zero into  *)
(* a negative one: then -pi takes the place of pi.                         *)
Atan2(v) == CHOOSE angle \in -3 .. 4: Heading(angle) = <<Sign(v[1]), Sign(v[2])>>
Atan2Opposite(v) ==
  CHOOSE angle \in -4 .. 3: Heading(angle) = <<Sign(-v[1]), Sign(-v[2])>>

(* The velocity of a wheel in the base frame.                              *)
WheelVelocity(twist, i) == <<twist.x, IF i = 1 THEN twist.w ELSE -twist.w>>

(* Whether a wheel of that velocity is steered to it.                      *)
Fast(v) == v[1] * v[1] + v[2] * v[2] > Threshold * Threshold

(* Mutant: a wheel that is turned the other way rolls forwards.            *)
WheelForwards(v, angle) ==
  LET turned == IF Fast(v) THEN Atan2(v) ELSE angle
  IN  [steering |-> IF Norm(turned - angle) > 2 THEN Atan2Opposite(v) ELSE turned,
       rolling |-> IF v = <<0, 0>> THEN 0 ELSE 1]

(* A wheel that would turn by more than a quarter rolls backwards instead. *)
(* A slow one keeps its angle, and rolls along it whatever its direction.  *)
Wheel(v, angle) ==
  LET turned == IF Fast(v) THEN Atan2(v) ELSE angle
  IN  IF Norm(turned - angle) > 2 THEN [steering |-> Atan2Opposite(v), rolling |-> -1]
      ELSE [steering |-> turned, rolling |-> IF v = <<0, 0>> THEN 0 ELSE 1]

(* The IK controller's update: a reference that is not finite changes      *)
(* nothing.                                                                *)
InverseKinematics(twist) ==
  IF ~Finite(twist) THEN UNCHANGED <<steering, rolling>>
  ELSE /\ steering' = [i \in Wheels |-> Wheel(WheelVelocity(twist, i), steering[i]).steering]
       /\ rolling' = [i \in Wheels |-> Wheel(WheelVelocity(twist, i), steering[i]).rolling]

(* What the constructor refuses: a wheel without a radius, or a wheel in   *)
(* the middle of the robot.  A frame the description does not have is not  *)
(* noticed: its transform is the identity.                                 *)
KinematicsRefused(description) == description \in {"no radius", "no frame"}

(* The radius of a link that is not there throws; that of a wheel which is *)
(* no cylinder is read through a null pointer.                             *)
DescriptionRefused(description) == description \in {"no link", "no cylinder"}

---------------------------------------------------------------------------
(* The drive controller                                                    *)

Init ==
  /\ stage = "created"
  /\ limits \in Limits
  /\ chained = FALSE /\ subscribed = FALSE
  /\ message = NoMessage
  /\ reference = Zero
  /\ commands = <<Zero, Zero>>
  /\ wheelReference = Twist(NaN, NaN)
  /\ steering = [i \in Wheels |-> 0] /\ rolling = [i \in Wheels |-> 0]

(* on_init() and on_export_reference_interfaces().                         *)
OnInit ==
  /\ stage = "created"
  /\ \E description \in {"complete", "no radius", "no frame", "no link", "no cylinder"}:
       stage' = IF DescriptionRefused(description) \/ KinematicsRefused(description)
                  THEN "refused" ELSE "unconfigured"
  /\ UNCHANGED <<limits, chained, subscribed, message, reference, commands,
                 wheelReference, steering, rolling>>

(* on_configure() makes the limiters anew, with what the parameters are by *)
(* then; it leaves previous_two_commands_ alone.                           *)
OnConfigure ==
  /\ stage = "unconfigured"
  /\ stage' = "inactive"
  /\ IF Retuned THEN limits' \in Limits ELSE UNCHANGED limits
  /\ UNCHANGED <<chained, subscribed, message, reference, commands,
                 wheelReference, steering, rolling>>

(* The controller manager chains the controller to one that precedes it,   *)
(* or no longer: never while it is active.                                 *)
OnSetChainedMode ==
  /\ stage = "inactive"
  /\ \E mode \in BOOLEAN: chained' = mode /\ subscribed' = ~mode
  /\ UNCHANGED <<stage, limits, message, reference, commands,
                 wheelReference, steering, rolling>>

(* The IK controller, which changes its chained mode, is restarted: its    *)
(* references are NaN until the drive controller writes them.              *)
WheelsRestarted == wheelReference' = Twist(NaN, NaN) /\ UNCHANGED <<steering, rolling>>

OnActivate ==
  /\ stage = "inactive"
  /\ stage' = "active"
  /\ WheelsRestarted
  /\ UNCHANGED <<limits, chained, subscribed, message, reference, commands>>

OnDeactivate ==
  /\ stage = "active"
  /\ stage' = "inactive"
  /\ WheelsRestarted
  /\ UNCHANGED <<limits, chained, subscribed, message, reference, commands>>

(* A message is stamped when it is sent, so that it may be old already, or *)
(* older than the one before it.                                           *)
OnMessage ==
  /\ subscribed
  /\ \E twist \in Messages, age \in 0 .. Timeout: message' = Message(twist, age)
  /\ UNCHANGED <<stage, limits, chained, subscribed, reference, commands,
                 wheelReference, steering, rolling>>

(* The controller before this one writes its references.                   *)
WriteReference ==
  /\ stage = "active" /\ chained
  /\ reference' \in Messages
  /\ UNCHANGED <<stage, limits, chained, subscribed, message, commands,
                 wheelReference, steering, rolling>>

Older(msg, dt) == IF msg = NoMessage THEN msg ELSE Message(msg.twist, msg.age + dt)

(* Mutant: an outdated message leaves the reference as it is.              *)
ReferenceKept(msg) == IF msg # NoMessage /\ msg.age < Timeout THEN msg.twist ELSE reference

(* update_reference_from_subscribers()                                     *)
ReferenceFrom(msg) ==
  IF msg = NoMessage THEN reference
  ELSE IF msg.age < Timeout THEN msg.twist
  ELSE Zero

(* A cycle: update_reference_from_subscribers() unless chained, then       *)
(* update_and_write_commands(), whose topics nobody here reads, then the   *)
(* IK controller's.                                                        *)
Update(dt) ==
  /\ stage = "active"
  /\ message' = Older(message, dt)
  /\ reference' = IF chained THEN reference ELSE ReferenceFrom(message')
  /\ commands' = <<commands[2], Limited(reference', dt)>>
  /\ wheelReference' = commands'[2]
  /\ InverseKinematics(wheelReference')
  /\ UNCHANGED <<stage, limits, chained, subscribed>>

(* Time passes while the controller is inactive.                           *)
Idle ==
  /\ stage \in {"unconfigured", "inactive"}
  /\ message' = Older(message, 1)
  /\ UNCHANGED <<stage, limits, chained, subscribed, reference, commands,
                 wheelReference, steering, rolling>>

(* on_cleanup(), which the controllers do not override.                    *)
OnCleanup ==
  /\ stage = "inactive"
  /\ stage' = "unconfigured"
  /\ UNCHANGED <<limits, chained, subscribed, message, reference, commands,
                 wheelReference, steering, rolling>>

Next ==
  \/ OnInit \/ OnConfigure \/ OnSetChainedMode \/ OnActivate \/ OnDeactivate \/ OnCleanup
  \/ OnMessage \/ WriteReference \/ Idle
  \/ \E dt \in Steps: Update(dt)

Spec == Init /\ [][Next]_driveVars

(* The controller manager calls the active controllers at update_rate.     *)
FairSpec == Spec /\ WF_driveVars(\E dt \in Steps: Update(dt))

---------------------------------------------------------------------------
(* Properties                                                              *)

(* The timeout of update_reference_from_subscribers() and the limiter: a   *)
(* robot that obeys ~/cmd_vel, and hears of it no more, comes to rest and  *)
(* stays there, whatever the limits are.  With a limit of the jerk that    *)
(* takes cycles of one length, in the end: the limiter measures the last   *)
(* acceleration in one length and the next in another, and may swing to    *)
(* and fro for ever where they differ.  A command that is no number is     *)
(* the other exception: the limiter, which starts from the last command,   *)
(* never gets rid of it.                                                   *)
Stale == stage = "active" /\ ~chained /\ message.age = Timeout
StaleForEver == <>[](Stale /\ Finite(commands[1]) /\ Finite(commands[2]))
EvenlySpaced == \E d \in Steps: <>[][(\E dt \in Steps: Update(dt)) => Update(d)]_driveVars
StaleStops ==
  StaleForEver /\ (<>[](limits.jerk = Off) \/ EvenlySpaced) => <>[](commands[2] = Zero)

(* previous_two_commands_ outlives everything but the object: from one     *)
(* command that is sent to the next, no axis changes by more than the      *)
(* acceleration allows, even if the controller was inactive or chained in  *)
(* between.  A command beyond a limit of the velocity, of which an earlier *)
(* configuration did not know, is cut at once.                             *)
Within(a, b, bound) == Norm(a.x - b.x) <= bound /\ Norm(a.w - b.w) <= bound
InLimit(twist) == Finite(twist) /\ (limits.velocity # Off => Within(twist, Zero, limits.velocity))
Ramp(dt) ==
  Finite(commands'[2]) =>
    /\ InLimit(commands'[2])
    /\ limits.acceleration # Off /\ InLimit(commands[2]) =>
         Within(commands'[2], commands[2], limits.acceleration * dt)
RampKept == [][\A dt \in Steps: Ramp(dt) \/ ~Update(dt)]_driveVars

(* inverseKinematics() remembers the angles it has commanded, so that a    *)
(* wheel may roll backwards: after every cycle each wheel that is not slow *)
(* rolls along its velocity, a slow one is not steered, and only one       *)
(* without a velocity stands.                                              *)
Along(i) ==
  \A axis \in 1 .. 2:
    rolling[i] * Heading(steering[i])[axis] = Sign(WheelVelocity(wheelReference, i)[axis])
Rolls(i) ==
  LET v == WheelVelocity(wheelReference, i)
  IN  (Fast(v) => Along(i)) /\ (rolling[i] = 0 <=> v = <<0, 0>>)
WheelsFollow ==
  [][\A i \in Wheels:
       /\ Finite(wheelReference') => Rolls(i)'
       /\ steering'[i] # steering[i] => Fast(WheelVelocity(wheelReference', i))]_driveVars

===========================================================================
