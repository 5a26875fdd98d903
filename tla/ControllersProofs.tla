------------------------- MODULE ControllersProofs -------------------------
(***************************************************************************)
(* What holds of the example controllers, wherever the robot stands and    *)
(* the goal is, however the control cycles are spaced and however many     *)
(* goals of the gripper are under way, checked by TLAPS.                   *)
(***************************************************************************)
EXTENDS ExampleControllers, TLAPS

Pairs == Int \X Int

(* The positions and times are numbers.                                    *)
Numbers ==
  /\ start \in Pairs /\ target \in Pairs /\ q \in Pairs
  /\ asked \in Pairs \cup {None} /\ desired \in Pairs \cup {None}
  /\ time0 \in Nat /\ clock \in Nat /\ elapsed \in Nat /\ passed \in Nat
  /\ bound \in Nat /\ underway \in [{"move", "grasp"} -> Nat]

(* What is configured, activated and deactivated outside update().         *)
SetupStep ==
  \/ Configure \/ ReadGains \/ WaitForServices \/ Configured \/ CleanUp
  \/ \E success \in BOOLEAN: CollisionAnswered(success)
  \/ \E answer \in {"description", "empty", "none"}: Described(answer)
  \/ NoServers

GripperStep ==
  \E action \in {"move", "grasp"}, result \in {"succeeded", "failed", "rejected"}:
    OrderEnds(action, result)

LEMMA StepCases ==
  ASSUME [Next]_vars
  PROVE  \/ SetupStep \/ Activate \/ Deactivate \/ Update \/ GripperStep
         \/ SolutionArrives \/ Read \/ UNCHANGED vars
BY DEF Next, SetupStep, GripperStep

LEMMA SetupKeeps ==
  ASSUME SetupStep
  PROVE  /\ UNCHANGED <<kind, updateVars, dangling, ikVars, outputVars, ordered, robotVars>>
         /\ life # "active" /\ life' # "active"
         /\ UNCHANGED <<bound, model, underway, parted>> \/ Configure
         /\ UNCHANGED <<refused, issued, zero, target>> /\ bound' \in {bound, 0}
         /\ \/ UNCHANGED <<underway, parted>>
            \/ underway' = [move |-> 0, grasp |-> 0] /\ parted' = FALSE
<1>. USE DEF OtherThanSetup, updateVars, partVars, ikVars, outputVars, gripperVars, robotVars, Turn
<1>1. CASE Configure
  BY <1>1 DEF Configure
<1>2. CASE ReadGains \/ WaitForServices
  BY <1>2 DEF ReadGains, WaitForServices
<1>3. CASE \E success \in BOOLEAN: CollisionAnswered(success)
  BY <1>3 DEF CollisionAnswered
<1>4. CASE \E answer \in {"description", "empty", "none"}: Described(answer)
  BY <1>4 DEF Described
<1>5. CASE Configured \/ CleanUp \/ NoServers
  BY <1>5 DEF Configured, CleanUp, NoServers
<1>. QED  BY <1>1, <1>2, <1>3, <1>4, <1>5 DEF SetupStep

---------------------------------------------------------------------------
(* The trajectories.                                                       *)

LEMMA SwingValues ==
  ASSUME NEW t \in Int
  PROVE  /\ t % Period \in 0 .. 3
         /\ t % Period = 0 => Swing(t) = 0
         /\ t % Period = 1 => Swing(t) = 1
         /\ t % Period = 2 => Swing(t) = 2
         /\ t % Period = 3 => Swing(t) = 1
BY DEF Swing, Period

LEMMA WaveValues ==
  ASSUME NEW t \in Int
  PROVE  /\ t % (2 * Period) \in 0 .. 7
         /\ t % (2 * Period) \in {0, 4} => Wave(t) = 0
         /\ t % (2 * Period) \in {1, 3} => Wave(t) = 1
         /\ t % (2 * Period) = 2 => Wave(t) = 2
         /\ t % (2 * Period) \in {5, 7} => Wave(t) = -1
         /\ t % (2 * Period) = 6 => Wave(t) = -2
BY DEF Wave, Period

(* From one cycle to another none goes further than the time that passes.  *)
LEMMA SwingPace ==
  ASSUME NEW t \in Nat, NEW p \in Nat, NEW u \in Int, u % Period = (t + p) % Period
  PROVE  Norm(Swing(u) - Swing(t)) <= p /\ Swing(u) \in 0 .. 2 /\ Swing(t) \in 0 .. 2
<1>1. Swing(u) \in 0 .. 2 /\ Swing(t) \in 0 .. 2
  BY SwingValues
<1>2. CASE p = 0
  <2>1. u % Period = t % Period
    BY <1>2
  <2>. QED  BY <1>1, <1>2, <2>1 DEF Swing, Norm
<1>3. CASE p = 1
  <2>1. \/ t % Period = 0 /\ u % Period = 1
        \/ t % Period = 1 /\ u % Period = 2
        \/ t % Period = 2 /\ u % Period = 3
        \/ t % Period = 3 /\ u % Period = 0
    BY <1>3 DEF Period
  <2>2. \/ Swing(t) = 0 /\ Swing(u) = 1
        \/ Swing(t) = 1 /\ Swing(u) = 2
        \/ Swing(t) = 2 /\ Swing(u) = 1
        \/ Swing(t) = 1 /\ Swing(u) = 0
    BY <2>1, SwingValues
  <2>. QED  BY <1>1, <1>3, <2>2 DEF Norm
<1>4. CASE p >= 2
  BY <1>1, <1>4 DEF Norm
<1>. QED  BY <1>1, <1>2, <1>3, <1>4

LEMMA WaveStep ==
  ASSUME NEW t \in Nat  PROVE Norm(Wave(t + 1) - Wave(t)) <= 1 /\ Wave(t) \in -2 .. 2
<1>1. \/ t % (2 * Period) = 0 /\ (t + 1) % (2 * Period) = 1
      \/ t % (2 * Period) = 1 /\ (t + 1) % (2 * Period) = 2
      \/ t % (2 * Period) = 2 /\ (t + 1) % (2 * Period) = 3
      \/ t % (2 * Period) = 3 /\ (t + 1) % (2 * Period) = 4
      \/ t % (2 * Period) = 4 /\ (t + 1) % (2 * Period) = 5
      \/ t % (2 * Period) = 5 /\ (t + 1) % (2 * Period) = 6
      \/ t % (2 * Period) = 6 /\ (t + 1) % (2 * Period) = 7
      \/ t % (2 * Period) = 7 /\ (t + 1) % (2 * Period) = 0
  BY DEF Period
<1>2. \/ Wave(t) = 0 /\ Wave(t + 1) \in {1, -1}
      \/ Wave(t) = 1 /\ Wave(t + 1) \in {2, 0}
      \/ Wave(t) = 2 /\ Wave(t + 1) = 1
      \/ Wave(t) = -1 /\ Wave(t + 1) \in {-2, 0}
      \/ Wave(t) = -2 /\ Wave(t + 1) = -1
  BY <1>1, WaveValues
<1>. QED  BY <1>2 DEF Norm

LEMMA WavePace ==
  ASSUME NEW t \in Nat, NEW p \in Nat, NEW u \in Nat, u = (t + p) % (2 * Period)
  PROVE  Norm(Wave(u) - Wave(t)) <= p /\ Wave(u) \in -2 .. 2 /\ Wave(t) \in -2 .. 2
<1>1. Wave(u) \in -2 .. 2 /\ Wave(t) \in -2 .. 2
  BY WaveStep
<1>2. Wave(u) = Wave(t + p)
  <2>1. u % (2 * Period) = (t + p) % (2 * Period)
    BY DEF Period
  <2>. QED  BY <2>1 DEF Wave
<1>3. CASE p >= 4
  BY <1>1, <1>3 DEF Norm
<1>4. CASE p < 4
  <2>1. /\ Norm(Wave(t + 1) - Wave(t)) <= 1 /\ Norm(Wave((t + 1) + 1) - Wave(t + 1)) <= 1
        /\ Norm(Wave((t + 2) + 1) - Wave(t + 2)) <= 1
        /\ Wave(t + 1) \in Int /\ Wave(t + 2) \in Int /\ Wave(t + 3) \in Int
    BY WaveStep
  <2>2. (t + 1) + 1 = t + 2 /\ (t + 2) + 1 = t + 3 /\ t + 0 = t
    OBVIOUS
  <2>3. p \in {0, 1, 2, 3}
    BY <1>4
  <2>4. Norm(Wave(t + p) - Wave(t)) <= p
    BY <1>1, <2>1, <2>2, <2>3 DEF Norm
  <2>. QED  BY <1>1, <1>2, <2>4
<1>. QED  BY <1>3, <1>4

(* MotionGenerator: a quotient grows no faster than what is divided.       *)
LEMMA QuotientPace ==
  ASSUME NEW a \in Nat, NEW b \in Nat, NEW p \in Nat, NEW n \in Nat \ {0},
         a <= b, b <= a + n * p
  PROVE  a \div n <= b \div n /\ b \div n <= (a \div n) + p
<1>1. PICK c \in Int, d \in Int : c = a \div n /\ d = b \div n
  OBVIOUS
<1>2. /\ n * c <= a /\ a < n * (c + 1)
      /\ n * d <= b /\ b < n * (d + 1)
  BY <1>1
<1>3. n * c < n * (d + 1)
  BY <1>2
<1>4. n * d < n * (c + 1) + n * p
  BY <1>2
<1>5. n * (c + 1) + n * p = n * ((c + 1) + p)
  OBVIOUS
<1>6. \A x, y \in Int : n * x < n * y => x < y
  OBVIOUS
<1>. QED  BY <1>1, <1>3, <1>4, <1>5, <1>6

LEMMA WayTypes ==
  ASSUME NEW from \in Pairs, NEW j \in {1, 2}
  PROVE  /\ from[j] \in Int /\ Way(from, j) \in Int /\ from[j] + Way(from, j) = Goal
         /\ Norm(Way(from, j)) \in Nat /\ EndTime(from, j) \in Nat
         /\ Norm(Way(from, j)) <= EndTime(from, j)
         /\ Way(from, j) < 0 => Way(from, j) = -Norm(Way(from, j))
         /\ ~(Way(from, j) < 0) => Way(from, j) = Norm(Way(from, j))
<1>1. Goal \in Nat /\ from[1] \in Int /\ from[2] \in Int
  BY ExampleAssumption DEF Pairs
<1>2. Way(from, 1) \in Int /\ Way(from, 2) \in Int
  BY <1>1 DEF Way
<1>3. Norm(Way(from, 1)) \in Nat /\ Norm(Way(from, 2)) \in Nat
  BY <1>2 DEF Norm
<1>4. /\ SynchronizedTime(from) \in {Norm(Way(from, 1)), Norm(Way(from, 2))}
      /\ Norm(Way(from, 1)) <= SynchronizedTime(from)
      /\ Norm(Way(from, 2)) <= SynchronizedTime(from)
  BY <1>3 DEF SynchronizedTime
<1>5. EndTime(from, j) \in {SynchronizedTime(from) + 0, SynchronizedTime(from) + 1}
  BY DEF EndTime
<1>6. EndTime(from, j) \in Nat /\ Norm(Way(from, j)) <= EndTime(from, j)
  <2>1. PICK s \in Nat, n \in Nat : s = SynchronizedTime(from) /\ n = Norm(Way(from, j)) /\ n <= s
    BY <1>3, <1>4
  <2>2. EndTime(from, j) \in {s + 0, s + 1}
    BY <1>5, <2>1
  <2>. QED  BY <2>1, <2>2
<1>7. from[j] + Way(from, j) = Goal
  BY <1>1 DEF Way
<1>8. /\ Way(from, j) < 0 => Way(from, j) = -Norm(Way(from, j))
      /\ ~(Way(from, j) < 0) => Way(from, j) = Norm(Way(from, j))
  BY <1>2 DEF Norm
<1>. QED  BY <1>1, <1>2, <1>3, <1>6, <1>7, <1>8

(* How far a joint has gone, either way.                                   *)
Gone(from, j, time) ==
  IF time >= EndTime(from, j) THEN Norm(Way(from, j))
  ELSE (Norm(Way(from, j)) * time) \div EndTime(from, j)

LEMMA GonePace ==
  ASSUME NEW from \in Pairs, NEW j \in {1, 2}, NEW t \in Nat, NEW p \in Nat
  PROVE  /\ Gone(from, j, t) \in Nat /\ Gone(from, j, t + p) \in Nat
         /\ Gone(from, j, t) <= Gone(from, j, t + p)
         /\ Gone(from, j, t + p) <= Gone(from, j, t) + p
<1>1. PICK w \in Nat, s \in Nat :
        w = Norm(Way(from, j)) /\ s = EndTime(from, j) /\ w <= s
  BY WayTypes
<1>2. CASE t >= s
  BY <1>1, <1>2 DEF Gone
<1>3. CASE t < s /\ t + p < s
  <2>1. /\ w * t \in Nat /\ w * (t + p) \in Nat /\ s \in Nat \ {0}
        /\ w * (t + p) = w * t + w * p /\ w * p \in Nat /\ w * p <= s * p
    BY <1>1, <1>3
  <2>2. /\ (w * t) \div s <= (w * (t + p)) \div s
        /\ (w * (t + p)) \div s <= ((w * t) \div s) + p
    BY <2>1, QuotientPace
  <2>3. Gone(from, j, t) = (w * t) \div s /\ Gone(from, j, t + p) = (w * (t + p)) \div s
    BY <1>1, <1>3 DEF Gone
  <2>4. (w * t) \div s \in Nat /\ (w * (t + p)) \div s \in Nat
    BY <2>1
  <2>. QED  BY <2>2, <2>3, <2>4
<1>4. CASE t < s /\ t + p >= s
  <2>1. /\ w * t \in Nat /\ w * s \in Nat /\ s \in Nat \ {0}
        /\ w * t <= w * s /\ w * s <= w * (t + p)
        /\ w * (t + p) = w * t + w * p /\ w * p \in Nat /\ w * p <= s * p
    BY <1>1, <1>4
  <2>2. /\ (w * t) \div s <= (w * s) \div s
        /\ (w * s) \div s <= ((w * t) \div s) + p
    BY <2>1, QuotientPace
  <2>3. (w * s) \div s = w
    BY <2>1
  <2>4. Gone(from, j, t) = (w * t) \div s /\ Gone(from, j, t + p) = w
    BY <1>1, <1>4 DEF Gone
  <2>5. (w * t) \div s \in Nat
    BY <2>1
  <2>. QED  BY <2>2, <2>3, <2>4, <2>5
<1>. QED  BY <1>1, <1>2, <1>3, <1>4

LEMMA DesiredIsGone ==
  ASSUME NEW from \in Pairs, NEW j \in {1, 2}, NEW t \in Nat
  PROVE  /\ DesiredWay(from, j, t) \in Int
         /\ Way(from, j) < 0 => DesiredWay(from, j, t) = -Gone(from, j, t)
         /\ ~(Way(from, j) < 0) => DesiredWay(from, j, t) = Gone(from, j, t)
<1>1. t + 0 = t /\ Gone(from, j, t + 0) \in Nat
  BY GonePace
<1>2. /\ Way(from, j) < 0 => DesiredWay(from, j, t) = -Gone(from, j, t)
      /\ ~(Way(from, j) < 0) => DesiredWay(from, j, t) = Gone(from, j, t)
  BY WayTypes DEF DesiredWay, Gone
<1>. QED  BY <1>1, <1>2

LEMMA DesiredTypes ==
  ASSUME NEW from \in Pairs, NEW t \in Nat
  PROVE  DesiredPosition(from, t) \in Pairs
BY DesiredIsGone, WayTypes DEF DesiredPosition, Pairs

(* MoveToStart begins where the robot is, and goes no faster than time.    *)
LEMMA DesiredPace ==
  ASSUME NEW from \in Pairs, NEW j \in {1, 2}, NEW t \in Nat, NEW p \in Nat
  PROVE  /\ Norm(DesiredPosition(from, t + p)[j] - DesiredPosition(from, t)[j]) <= p
         /\ DesiredPosition(from, 0)[j] = from[j]
<1>1. /\ Gone(from, j, t) \in Nat /\ Gone(from, j, t + p) \in Nat
      /\ Gone(from, j, t) <= Gone(from, j, t + p)
      /\ Gone(from, j, t + p) <= Gone(from, j, t) + p
  BY GonePace
<1>2. Norm(DesiredWay(from, j, t + p) - DesiredWay(from, j, t)) <= p
  <2>1. t + p \in Nat
    OBVIOUS
  <2>. QED  BY <1>1, <2>1, DesiredIsGone DEF Norm
<1>3. /\ DesiredPosition(from, t)[j] = from[j] + DesiredWay(from, j, t)
      /\ DesiredPosition(from, t + p)[j] = from[j] + DesiredWay(from, j, t + p)
      /\ DesiredPosition(from, 0)[j] = from[j] + DesiredWay(from, j, 0)
  BY DEF DesiredPosition
<1>4. from[j] \in Int /\ DesiredWay(from, j, t) \in Int /\ DesiredWay(from, j, t + p) \in Int
  BY WayTypes, DesiredIsGone
<1>5. (from[j] + DesiredWay(from, j, t + p)) - (from[j] + DesiredWay(from, j, t))
        = DesiredWay(from, j, t + p) - DesiredWay(from, j, t)
  BY <1>4
<1>6. DesiredWay(from, j, 0) = 0
  <2>1. PICK w \in Nat, s \in Nat :
          w = Norm(Way(from, j)) /\ s = EndTime(from, j) /\ w <= s
    BY WayTypes
  <2>2. Gone(from, j, 0) = 0
    <3>1. CASE s = 0
      BY <2>1, <3>1 DEF Gone
    <3>2. CASE s # 0
      <4>1. w * 0 = 0 /\ 0 \div s = 0
        BY <3>2
      <4>. QED  BY <2>1, <3>2, <4>1 DEF Gone
    <3>. QED  BY <3>1, <3>2
  <2>. QED  BY <2>2, DesiredIsGone
<1>. QED  BY <1>2, <1>3, <1>4, <1>5, <1>6

(* Every joint is finished where it had to go.                             *)
LEMMA FinishedIsGoal ==
  ASSUME NEW from \in Pairs, NEW t \in Nat, MotionFinished(from, t)
  PROVE  DesiredPosition(from, t) = <<Goal, Goal>>
<1>1. ASSUME NEW j \in {1, 2}, JointFinished(from, j, t)  PROVE DesiredWay(from, j, t) = Way(from, j)
  <2>1. CASE t >= EndTime(from, j)
    BY <2>1 DEF DesiredWay
  <2>2. CASE Way(from, j) = 0 /\ ~(t >= EndTime(from, j))
    <3>1. /\ EndTime(from, j) \in Nat \ {0} /\ Norm(Way(from, j)) = 0
      BY <2>2, WayTypes DEF Norm
    <3>2. 0 * t = 0 /\ 0 \div EndTime(from, j) = 0
      BY <3>1
    <3>3. Gone(from, j, t) = 0
      BY <2>2, <3>1, <3>2 DEF Gone
    <3>. QED  BY <2>2, <3>3, DesiredIsGone
  <2>. QED  BY <1>1, <2>1, <2>2 DEF JointFinished
<1>2. from[1] + Way(from, 1) = Goal /\ from[2] + Way(from, 2) = Goal
  BY WayTypes
<1>. QED  BY <1>1, <1>2 DEF MotionFinished, DesiredPosition

---------------------------------------------------------------------------
(* The numbers.                                                            *)

(* What each update() of a swinging trajectory commands.                   *)
SwingTarget(controller, time, from) ==
  CASE controller = "joint_position" -> <<from[1] + Swing(time), from[2] - Swing(time)>>
    [] controller = "cartesian_pose" -> <<from[1] - Swing(time), from[2] + Swing(time)>>
    [] OTHER                         -> <<from[1] + Swing(time), from[2]>>

(* The updates of the controllers that command a trajectory of their own.  *)
SwingUpdate ==
  \/ JointPositionUpdate \/ CartesianPoseUpdate \/ CartesianOrientationUpdate
  \/ CartesianElbowUpdate \/ ElbowUpdate

LEMMA SwingUpdates ==
  ASSUME SwingUpdate, refused' = FALSE
  PROVE  /\ kind \in Swings /\ Begin /\ Plain /\ issued' /\ life' = "active"
         /\ target' = SwingTarget(kind, elapsed', start')
BY DEF SwingUpdate, JointPositionUpdate, CartesianPoseUpdate, CartesianOrientationUpdate,
   CartesianElbowUpdate, ElbowUpdate, Write, SwingTarget, Swings

LEMMA Remainders == \A n \in Int : n % Period \in Nat /\ n % (2 * Period) \in Nat
BY DEF Period

LEMMA BeginTypes ==
  ASSUME Numbers, Begin
  PROVE  start' \in Pairs /\ time0' \in Nat /\ elapsed' \in Nat
<1>1. clock - time0 \in Int
  BY DEF Numbers
<1>2. (clock - time0) % Period \in Nat
  BY <1>1, Remainders
<1>. QED  BY <1>2 DEF Begin, Numbers

LEMMA TrajectoryTypes ==
  ASSUME NEW from \in Pairs, NEW t \in Int
  PROVE  /\ <<from[1] + Swing(t), from[2] - Swing(t)>> \in Pairs
         /\ <<from[1] - Swing(t), from[2] + Swing(t)>> \in Pairs
         /\ <<from[1] + Swing(t), from[2]>> \in Pairs
         /\ <<Wave(t), -Wave(t)>> \in Pairs /\ <<Wave(t), 0>> \in Pairs
<1>1. Swing(t) \in Int /\ from[1] \in Int /\ from[2] \in Int
  BY SwingValues DEF Pairs
<1>2. Wave(t) \in Int
  BY WaveValues
<1>. QED  BY <1>1, <1>2 DEF Pairs

LEMMA SwingTargets ==
  ASSUME SwingUpdate
  PROVE  /\ Begin /\ UNCHANGED <<asked, desired>>
         /\ target' \in {target, <<start'[1] + Swing(elapsed'), start'[2] - Swing(elapsed')>>,
                        <<start'[1] - Swing(elapsed'), start'[2] + Swing(elapsed')>>,
                        <<start'[1] + Swing(elapsed'), start'[2]>>}
BY DEF SwingUpdate, JointPositionUpdate, CartesianPoseUpdate, CartesianElbowUpdate,
   CartesianOrientationUpdate, ElbowUpdate, Plain, Write

LEMMA TickTargets ==
  ASSUME Numbers, CartesianVelocityUpdate \/ JointVelocityUpdate \/ JointImpedanceUpdate
  PROVE  /\ UNCHANGED <<start, time0, asked, desired>> /\ elapsed' \in Nat
         /\ target' \in {target, <<Wave(elapsed'), -Wave(elapsed')>>, <<Wave(elapsed'), 0>>,
                        <<start[1] + Swing(elapsed'), start[2]>>}
<1>1. elapsed + passed \in Int
  BY DEF Numbers
<1>2. (elapsed + passed) % Period \in Nat /\ (elapsed + passed) % (2 * Period) \in Nat
  BY <1>1, Remainders
<1>. QED  BY <1>2 DEF CartesianVelocityUpdate, JointVelocityUpdate, JointImpedanceUpdate, Tick,
             Plain, Write

LEMMA UpdateNumbers ==
  ASSUME Numbers, Update  PROVE Numbers'
<1>0. UNCHANGED <<q, clock, bound, underway>> /\ passed' = 0
  BY DEF Update, gripperVars
<1>1. CASE SwingUpdate
  <2>1. start' \in Pairs /\ time0' \in Nat /\ elapsed' \in Nat
    BY <1>1, SwingTargets, BeginTypes DEF Numbers
  <2>2. PICK from \in Pairs, t \in Int : from = start' /\ t = elapsed'
    BY <2>1
  <2>3. target' \in {target, <<from[1] + Swing(t), from[2] - Swing(t)>>,
                     <<from[1] - Swing(t), from[2] + Swing(t)>>, <<from[1] + Swing(t), from[2]>>}
    BY <1>1, <2>2, SwingTargets
  <2>4. target' \in Pairs
    BY <2>3, TrajectoryTypes DEF Numbers
  <2>. QED  BY <1>0, <1>1, <2>1, <2>4, SwingTargets DEF Numbers
<1>2. CASE CartesianVelocityUpdate \/ JointVelocityUpdate \/ JointImpedanceUpdate
  <2>1. PICK from \in Pairs, t \in Int : from = start /\ t = elapsed'
    BY <1>2, TickTargets DEF Numbers
  <2>2. target' \in {target, <<Wave(t), -Wave(t)>>, <<Wave(t), 0>>,
                     <<from[1] + Swing(t), from[2]>>}
    BY <1>2, <2>1, TickTargets
  <2>3. target' \in Pairs
    BY <2>2, TrajectoryTypes DEF Numbers
  <2>. QED  BY <1>0, <1>2, <2>3, TickTargets DEF Numbers
<1>3. CASE WithIKUpdate
  <2>1. /\ Begin /\ UNCHANGED desired
        /\ asked' = <<start'[1] - Swing(elapsed'), start'[2] + Swing(elapsed')>>
        /\ target' = target \/ (desired # None /\ target' = desired)
    BY <1>3 DEF WithIKUpdate, Write
  <2>2. start' \in Pairs /\ time0' \in Nat /\ elapsed' \in Nat
    BY <2>1, BeginTypes
  <2>3. asked' \in Pairs
    <3>1. PICK from \in Pairs, t \in Int : from = start' /\ t = elapsed'
      BY <2>2
    <3>2. asked' = <<from[1] - Swing(t), from[2] + Swing(t)>>
      BY <2>1, <3>1
    <3>. QED  BY <3>2, TrajectoryTypes
  <2>. QED  BY <1>0, <2>1, <2>2, <2>3 DEF Numbers
<1>4. CASE MoveToStartUpdate
  <2>1. UNCHANGED <<start, time0, asked, desired>> /\ elapsed' \in Nat
        /\ target' = DesiredPosition(start, elapsed')
    BY <1>4 DEF MoveToStartUpdate, Numbers, Write, ikVars
  <2>2. PICK t \in Nat : t = elapsed'
    BY <2>1
  <2>3. target' \in Pairs
    BY <2>1, <2>2, DesiredTypes DEF Numbers
  <2>. QED  BY <1>0, <2>1, <2>3 DEF Numbers
<1>5. CASE GravityCompensationUpdate \/ ModelUpdate \/ GripperUpdate
  BY <1>0, <1>5 DEF GravityCompensationUpdate, ModelUpdate, GripperUpdate, Numbers, ikVars,
     outputVars, updateVars
<1>. QED  BY <1>1, <1>2, <1>3, <1>4, <1>5 DEF Update, SwingUpdate

LEMMA PositionsAreNumbers == Positions \subseteq Pairs
BY ExampleAssumption DEF Positions, Pairs

LEMMA NumbersStep ==
  ASSUME Numbers, [Next]_vars  PROVE Numbers'
<1>. USE DEF Numbers, updateVars, ikVars, outputVars, robotVars, gripperVars, partVars
<1>1. CASE SetupStep
  <2>1. UNCHANGED <<bound, underway>> \/ (bound' = 0 /\ underway' = [move |-> 0, grasp |-> 0])
    BY <1>1, SetupKeeps DEF Configure
  <2>. QED  BY <1>1, <2>1, SetupKeeps
<1>2. CASE Activate
  <2>1. UNCHANGED <<asked, desired, target, q, clock, passed>>
    BY <1>2 DEF Activate
  <2>2. bound' \in Nat
    BY <1>2 DEF Activate, JointPositionActivate, CartesianPoseActivate,
       CartesianOrientationActivate, CartesianElbowActivate, ElbowActivate,
       CartesianVelocityActivate, JointVelocityActivate, JointImpedanceActivate, WithIKActivate,
       MoveToStartActivate, GravityCompensationActivate, ModelActivate, GripperActivate, NoPart,
       Assign
  <2>3. start' \in {start, q} /\ time0' = time0 /\ elapsed' \in {0, elapsed}
    BY <1>2 DEF Activate, JointPositionActivate, CartesianPoseActivate,
       CartesianOrientationActivate, CartesianElbowActivate, ElbowActivate,
       CartesianVelocityActivate, JointVelocityActivate, JointImpedanceActivate, WithIKActivate,
       MoveToStartActivate, GravityCompensationActivate, ModelActivate, GripperActivate,
       StartsAnew, StartsHere, StartsAtZero
  <2>4. underway' \in [{"move", "grasp"} -> Nat]
    BY <1>2 DEF Activate, JointPositionActivate, CartesianPoseActivate,
       CartesianOrientationActivate, CartesianElbowActivate, ElbowActivate,
       CartesianVelocityActivate, JointVelocityActivate, JointImpedanceActivate, WithIKActivate,
       MoveToStartActivate, GravityCompensationActivate, ModelActivate, GripperActivate,
       ToggleGripperState
  <2>. QED  BY <2>1, <2>2, <2>3, <2>4
<1>3. CASE Deactivate
  <2>1. UNCHANGED <<updateVars, ikVars, underway, robotVars>> /\ target' = <<0, 0>>
    BY <1>3 DEF Deactivate
  <2>2. bound' \in {0, bound}
    BY <1>3 DEF Deactivate, CartesianPoseDeactivate, CartesianOrientationDeactivate,
       CartesianElbowDeactivate, ElbowDeactivate, CartesianVelocityDeactivate, WithIKDeactivate,
       ModelDeactivate, OtherDeactivate, GripperDeactivate, Release, ModelRelease, NoPart
  <2>. QED  BY <2>1, <2>2 DEF Pairs
<1>4. CASE GripperStep
  BY <1>4 DEF GripperStep, OrderEnds, ToggleGripperState
<1>5. CASE SolutionArrives
  BY <1>5 DEF SolutionArrives
<1>6. CASE Read
  <2>1. passed' \in Nat /\ clock' = (clock + passed') % Period
    BY <1>6, ExampleAssumption DEF Read
  <2>2. clock + passed' \in Int
    BY <2>1
  <2>3. clock' \in Nat
    BY <2>1, <2>2, Remainders
  <2>. QED  BY <1>6, <2>1, <2>3, PositionsAreNumbers DEF Read
<1>7. CASE UNCHANGED vars
  BY <1>7 DEF vars
<1>. QED  BY <1>1, <1>2, <1>3, <1>4, <1>5, <1>6, <1>7, UpdateNumbers, StepCases

LEMMA NumbersInit == Init => Numbers
BY DEF Init, Numbers, Pairs

---------------------------------------------------------------------------
(* What is bound, configured and ordered.                                  *)

Commanding == kind \in OfPose \union OfVelocity

(* The component is bound, once, while the controller is active.           *)
BindInv ==
  /\ refused = FALSE
  /\ Commanding /\ life = "active" => bound = 1
  /\ ~(Commanding /\ life = "active") => bound = 0

ModelInv == kind # "joint_impedance_with_ik" => ~dangling /\ model # "dead"

(* The collision behaviour is set before the description is read.          *)
IKInv ==
  kind = "joint_impedance_with_ik" =>
    /\ life \in {"inactive", "active"} => collision
    /\ life = "configuring" =>
         \/ plan \in {WithIKPlan, Tail(WithIKPlan), Tail(Tail(WithIKPlan))}
         \/ collision /\ plan \in {<<"description">>, <<>>}

(* Nothing has been ordered but by the gripper example, and one thing.     *)
OrdersInv ==
  /\ kind # "gripper" => underway["move"] = 0 /\ underway["grasp"] = 0
  /\ ~parted => Orders(underway) <= 1 /\ (life # "active" => Orders(underway) = 0)

PartsInv == BindInv /\ ModelInv /\ IKInv /\ OrdersInv

LEMMA BindStep ==
  ASSUME BindInv, [Next]_vars  PROVE BindInv'
<1>. USE DEF BindInv, Commanding, OfPose, OfVelocity
<1>1. CASE SetupStep
  BY <1>1, SetupKeeps
<1>2. CASE Activate
  BY <1>2 DEF Activate, JointPositionActivate, CartesianPoseActivate,
     CartesianOrientationActivate, CartesianElbowActivate, ElbowActivate,
     CartesianVelocityActivate, JointVelocityActivate, JointImpedanceActivate, WithIKActivate,
     MoveToStartActivate, GravityCompensationActivate, ModelActivate, GripperActivate, NoPart,
     Assign
<1>3. CASE Deactivate
  BY <1>3 DEF Deactivate, CartesianPoseDeactivate, CartesianOrientationDeactivate,
     CartesianElbowDeactivate, ElbowDeactivate, CartesianVelocityDeactivate, WithIKDeactivate,
     ModelDeactivate, OtherDeactivate, GripperDeactivate, Release, ModelRelease, NoPart
<1>4. CASE Update
  <2>1. life = "active" /\ UNCHANGED <<kind, bound>>
    BY <1>4 DEF Update
  <2>2. Commanding => /\ SetPose(FALSE) /\ SetPoseAndElbow(TRUE)
                      /\ SetVelocities(FALSE) /\ SetVelocitiesAndElbow(TRUE)
    BY <2>1 DEF SetPose, SetPoseAndElbow, SetVelocities, SetVelocitiesAndElbow, SetValues,
       PoseSize, VelocitySize
  <2>3. CASE CartesianPoseUpdate \/ CartesianOrientationUpdate
    BY <2>1, <2>2, <2>3 DEF CartesianPoseUpdate, CartesianOrientationUpdate, Write
  <2>4. CASE CartesianElbowUpdate
    BY <2>1, <2>2, <2>4 DEF CartesianElbowUpdate, Write
  <2>5. CASE ElbowUpdate
    BY <2>1, <2>2, <2>5 DEF ElbowUpdate, Write
  <2>6. CASE CartesianVelocityUpdate
    BY <2>1, <2>2, <2>6 DEF CartesianVelocityUpdate, Write
  <2>7. CASE \/ JointPositionUpdate \/ JointVelocityUpdate \/ JointImpedanceUpdate
             \/ WithIKUpdate \/ MoveToStartUpdate
    BY <2>1, <2>7 DEF JointPositionUpdate, JointVelocityUpdate, JointImpedanceUpdate,
       WithIKUpdate, MoveToStartUpdate, Write
  <2>8. CASE GravityCompensationUpdate \/ ModelUpdate \/ GripperUpdate
    BY <2>1, <2>8 DEF GravityCompensationUpdate, ModelUpdate, GripperUpdate, outputVars
  <2>. QED  BY <1>4, <2>3, <2>4, <2>5, <2>6, <2>7, <2>8 DEF Update
<1>5. CASE GripperStep \/ SolutionArrives \/ Read \/ UNCHANGED vars
  BY <1>5 DEF GripperStep, OrderEnds, SolutionArrives, Read, vars, partVars, outputVars
<1>. QED  BY <1>1, <1>2, <1>3, <1>4, <1>5, StepCases

LEMMA ModelStep ==
  ASSUME ModelInv, [Next]_vars  PROVE ModelInv'
<1>. USE DEF ModelInv
<1>1. CASE SetupStep
  BY <1>1, SetupKeeps DEF Configure
<1>2. CASE Activate
  BY <1>2 DEF Activate, JointPositionActivate, CartesianPoseActivate,
     CartesianOrientationActivate, CartesianElbowActivate, ElbowActivate,
     CartesianVelocityActivate, JointVelocityActivate, JointImpedanceActivate, WithIKActivate,
     MoveToStartActivate, GravityCompensationActivate, ModelActivate, GripperActivate, NoPart,
     Assign, ModelAssign
<1>3. CASE Deactivate
  BY <1>3 DEF Deactivate, CartesianPoseDeactivate, CartesianOrientationDeactivate,
     CartesianElbowDeactivate, ElbowDeactivate, CartesianVelocityDeactivate, WithIKDeactivate,
     ModelDeactivate, OtherDeactivate, GripperDeactivate, Release, ModelRelease, NoPart
<1>4. CASE Update
  BY <1>4 DEF Update, JointPositionUpdate, CartesianPoseUpdate, CartesianElbowUpdate,
     CartesianOrientationUpdate, ElbowUpdate, CartesianVelocityUpdate, JointVelocityUpdate,
     JointImpedanceUpdate, WithIKUpdate, MoveToStartUpdate, GravityCompensationUpdate,
     ModelUpdate, GripperUpdate, Plain, ModelRead
<1>5. CASE GripperStep \/ SolutionArrives \/ Read \/ UNCHANGED vars
  BY <1>5 DEF GripperStep, OrderEnds, SolutionArrives, Read, vars, partVars
<1>. QED  BY <1>1, <1>2, <1>3, <1>4, <1>5, StepCases

LEMMA TailsOfTuples ==
  /\ \A a, b, c, d : Tail(<<a, b, c, d>>) = <<b, c, d>>
  /\ \A a, b, c : Tail(<<a, b, c>>) = <<b, c>>
<1>1. \A a, b, c, d : Tail(<<a, b, c, d>>) = <<b, c, d>>
  BY SMTT(20)
<1>2. \A a, b, c : Tail(<<a, b, c>>) = <<b, c>>
  BY SMTT(20)
<1>. QED  BY <1>1, <1>2

LEMMA WithIKPlans ==
  /\ WithIKPlan # <<>> /\ Head(WithIKPlan) = "gains"
  /\ Tail(WithIKPlan) # <<>> /\ Head(Tail(WithIKPlan)) = "services"
  /\ Tail(Tail(WithIKPlan)) # <<>> /\ Head(Tail(Tail(WithIKPlan))) = "checked collision"
  /\ Tail(Tail(Tail(WithIKPlan))) = <<"description">>
  /\ <<"description">> # <<>>
  /\ Head(<<"description">>) = "description" /\ Tail(<<"description">>) = <<>>
<1>1. Tail(WithIKPlan) = <<"services", "checked collision", "description">>
  <2>1. \A b, c, d : Tail(<<"gains", b, c, d>>) = <<b, c, d>>
    BY TailsOfTuples, Zenon
  <2>2. Tail(<<"gains", "services", "checked collision", "description">>)
          = <<"services", "checked collision", "description">>
    BY <2>1, Zenon
  <2>. QED  BY <2>2, Zenon DEF WithIKPlan
<1>2. Tail(<<"services", "checked collision", "description">>)
        = <<"checked collision", "description">>
  BY TailsOfTuples, Zenon
<1>3. Tail(<<"checked collision", "description">>) = <<"description">>
  OBVIOUS
<1>4. /\ Head(<<"services", "checked collision", "description">>) = "services"
      /\ <<"services", "checked collision", "description">> # <<>>
      /\ Head(<<"checked collision", "description">>) = "checked collision"
      /\ <<"checked collision", "description">> # <<>>
  OBVIOUS
<1>5. <<"description">> # <<>> /\ Head(<<"description">>) = "description"
  OBVIOUS
<1>6. Tail(<<"description">>) = <<>>
  OBVIOUS
<1>7. WithIKPlan # <<>> /\ Head(WithIKPlan) = "gains"
  BY DEF WithIKPlan
<1>. QED  BY <1>1, <1>2, <1>3, <1>4, <1>5, <1>6, <1>7

LEMMA IKStep ==
  ASSUME IKInv, [Next]_vars  PROVE IKInv'
<1>. SUFFICES ASSUME kind' = "joint_impedance_with_ik"
              PROVE  /\ life' \in {"inactive", "active"} => collision'
                     /\ life' = "configuring" =>
                          \/ plan' \in {WithIKPlan, Tail(WithIKPlan), Tail(Tail(WithIKPlan))}
                          \/ collision' /\ plan' \in {<<"description">>, <<>>}
  BY DEF IKInv
<1>0. kind = "joint_impedance_with_ik"
  BY StepCases, SetupKeeps DEF Activate, Deactivate, Update, GripperStep, OrderEnds,
     SolutionArrives, Read, vars
<1>1. CASE Configure
  BY <1>0, <1>1 DEF Configure, PlanOf
<1>2. CASE ReadGains \/ WaitForServices
  BY <1>0, <1>2, WithIKPlans DEF ReadGains, WaitForServices, Turn, IKInv
<1>3. CASE \E success \in BOOLEAN: CollisionAnswered(success)
  <2>1. PICK success \in BOOLEAN: CollisionAnswered(success)
    BY <1>3
  <2>. QED  BY <1>0, <2>1, WithIKPlans DEF CollisionAnswered, Turn, IKInv
<1>4. CASE \E answer \in {"description", "empty", "none"}: Described(answer)
  <2>1. PICK answer \in {"description", "empty", "none"}: Described(answer)
    BY <1>4
  <2>2. UNCHANGED collision /\ life = "configuring" /\ Head(plan) \in
          {"description", "filled description"}
    BY <2>1 DEF Described, Turn
  <2>3. collision /\ plan = <<"description">>
    BY <1>0, <2>1, <2>2, WithIKPlans DEF IKInv, Described, Turn
  <2>4. plan' \in {Tail(plan), <<>>}
    BY <2>1 DEF Described
  <2>. QED  BY <2>2, <2>3, <2>4, WithIKPlans
<1>5. CASE Configured \/ CleanUp \/ NoServers
  BY <1>0, <1>5, WithIKPlans DEF Configured, CleanUp, NoServers, setupVars, OtherThanSetup, IKInv
<1>6. CASE Activate \/ Deactivate \/ Update
  <2>1. UNCHANGED collision /\ life \in {"inactive", "active"}
    BY <1>6 DEF Activate, Deactivate, Update, setupVars
  <2>2. life' # "configuring"
    BY <1>6 DEF Activate, Deactivate, Update, JointPositionUpdate, CartesianPoseUpdate,
       CartesianOrientationUpdate, CartesianElbowUpdate, ElbowUpdate, CartesianVelocityUpdate,
       JointVelocityUpdate, JointImpedanceUpdate, WithIKUpdate, MoveToStartUpdate,
       GravityCompensationUpdate, ModelUpdate, GripperUpdate, Write
  <2>. QED  BY <1>0, <2>1, <2>2 DEF IKInv
<1>7. CASE GripperStep \/ SolutionArrives \/ Read \/ UNCHANGED vars
  BY <1>0, <1>7 DEF GripperStep, OrderEnds, SolutionArrives, Read, vars, setupVars, IKInv
<1>. QED  BY <1>1, <1>2, <1>3, <1>4, <1>5, <1>6, <1>7, StepCases DEF SetupStep

LEMMA OrdersStep ==
  ASSUME Numbers, OrdersInv, [Next]_vars  PROVE OrdersInv'
<1>0. /\ underway \in [{"move", "grasp"} -> Nat]
      /\ underway["move"] \in Nat /\ underway["grasp"] \in Nat
  BY DEF Numbers
<1>. USE DEF OrdersInv, Orders
<1>1. CASE SetupStep
  <2>1. CASE UNCHANGED <<underway, parted>>
    BY <1>1, <2>1, SetupKeeps
  <2>2. CASE underway' = [move |-> 0, grasp |-> 0] /\ parted' = FALSE
    <3>1. underway'["move"] = 0 /\ underway'["grasp"] = 0
      BY <2>2
    <3>. QED  BY <3>1
  <2>. QED  BY <1>1, <2>1, <2>2, SetupKeeps
<1>2. CASE Activate
  <2>1. UNCHANGED kind /\ life = "inactive" /\ life' = "active"
    BY <1>2 DEF Activate
  <2>2. CASE kind # "gripper"
    BY <1>2, <2>1, <2>2, <1>0 DEF Activate, gripperVars
  <2>3. CASE kind = "gripper"
    <3>1. UNCHANGED parted /\ ToggleGripperState(underway)
      BY <1>2, <2>3 DEF Activate, JointPositionActivate, CartesianPoseActivate,
         CartesianOrientationActivate, CartesianElbowActivate, ElbowActivate,
         CartesianVelocityActivate, JointVelocityActivate, JointImpedanceActivate,
         WithIKActivate, MoveToStartActivate, GravityCompensationActivate, ModelActivate,
         GripperActivate
    <3>2. underway'["move"] + underway'["grasp"] = (underway["move"] + underway["grasp"]) + 1
      BY <1>0, <3>1 DEF ToggleGripperState
    <3>. QED  BY <1>0, <2>1, <2>3, <3>1, <3>2
  <2>. QED  BY <2>2, <2>3
<1>3. CASE Deactivate
  <2>1. UNCHANGED <<kind, underway>> /\ (parted' = TRUE \/ (kind # "gripper" /\ UNCHANGED parted))
    BY <1>3 DEF Deactivate, CartesianPoseDeactivate, CartesianOrientationDeactivate,
       CartesianElbowDeactivate, ElbowDeactivate, CartesianVelocityDeactivate,
       WithIKDeactivate, ModelDeactivate, OtherDeactivate, GripperDeactivate, OfPose, OfVelocity
  <2>. QED  BY <1>0, <2>1
<1>4. CASE Update
  <2>1. life = "active" /\ UNCHANGED <<kind, underway, parted>>
    BY <1>4 DEF Update, gripperVars
  <2>2. CASE kind # "gripper"
    BY <1>0, <2>1, <2>2
  <2>3. CASE kind = "gripper"
    <3>1. UNCHANGED life
      BY <1>4, <2>3 DEF Update, JointPositionUpdate, CartesianPoseUpdate,
         CartesianOrientationUpdate, CartesianElbowUpdate, ElbowUpdate, CartesianVelocityUpdate,
         JointVelocityUpdate, JointImpedanceUpdate, WithIKUpdate, MoveToStartUpdate,
         GravityCompensationUpdate, ModelUpdate, GripperUpdate
    <3>. QED  BY <2>1, <3>1
  <2>. QED  BY <2>2, <2>3
<1>5. CASE GripperStep
  <2>1. PICK action \in {"move", "grasp"}, result \in {"succeeded", "failed", "rejected"} :
          OrderEnds(action, result)
    BY <1>5 DEF GripperStep
  <2>2. underway[action] > 0 /\ UNCHANGED <<kind, life, parted>>
    BY <2>1 DEF OrderEnds
  <2>3. kind = "gripper"
    BY <1>0, <2>2
  <2>4. /\ underway'["move"] \in Nat /\ underway'["grasp"] \in Nat
        /\ underway'["move"] + underway'["grasp"] <= underway["move"] + underway["grasp"]
    BY <1>0, <2>1 DEF OrderEnds, ToggleGripperState
  <2>. QED  BY <1>0, <2>2, <2>3, <2>4
<1>6. CASE SolutionArrives \/ Read \/ UNCHANGED vars
  BY <1>6 DEF SolutionArrives, Read, vars, gripperVars
<1>. QED  BY <1>1, <1>2, <1>3, <1>4, <1>5, <1>6, StepCases

LEMMA PartsInit == Init => PartsInv
BY DEF Init, PartsInv, BindInv, Commanding, OfPose, OfVelocity, ModelInv, IKInv, OrdersInv, Orders

(* franka_example_controllers and franka_semantic_components, for all of   *)
(* the controllers, however often and in which order they are configured,  *)
(* activated and deactivated: no command is refused by a component that is *)
(* bound twice or not at all, only inverse kinematics reads the model's    *)
(* interfaces after they are gone, and only once it has its collision      *)
(* behaviour is it active, and the gripper example sends one goal at a time*)
(* until it is deactivated.                                                *)
THEOREM PartsAreBoundAsUsed == Spec => []BoundAsUsed
<1>1. Init => Numbers /\ PartsInv
  BY NumbersInit, PartsInit
<1>2. Numbers /\ PartsInv /\ [Next]_vars => (Numbers /\ PartsInv)'
  BY NumbersStep, BindStep, ModelStep, IKStep, OrdersStep DEF PartsInv
<1>3. Numbers /\ PartsInv => BoundAsUsed
  <2>. SUFFICES ASSUME Numbers, PartsInv  PROVE BoundAsUsed
    OBVIOUS
  <2>1. CommandTaken /\ LiveModel /\ CollisionSet
    BY DEF PartsInv, BindInv, ModelInv, IKInv, CommandTaken, LiveModel, CollisionSet
  <2>2. underway["move"] \in Nat /\ underway["grasp"] \in Nat
    BY DEF Numbers
  <2>3. OneOrder
    BY <2>2 DEF PartsInv, OrdersInv, OneOrder, Orders
  <2>. QED  BY <2>1, <2>3 DEF BoundAsUsed
<1>. QED  BY <1>1, <1>2, <1>3, PTL DEF Spec

---------------------------------------------------------------------------
(* MoveToStart's torques.                                                  *)

LEMMA FinishedStep ==
  ASSUME Numbers, FinishedMeansReached, [Next]_vars  PROVE FinishedMeansReached'
<1>. USE DEF FinishedMeansReached
<1>1. CASE SetupStep
  BY <1>1, SetupKeeps
<1>2. CASE Activate
  BY <1>2 DEF Activate, JointPositionActivate, CartesianPoseActivate,
     CartesianOrientationActivate, CartesianElbowActivate, ElbowActivate,
     CartesianVelocityActivate, JointVelocityActivate, JointImpedanceActivate, WithIKActivate,
     MoveToStartActivate, GravityCompensationActivate, ModelActivate, GripperActivate,
     StartsHere
<1>3. CASE Deactivate
  BY <1>3 DEF Deactivate
<1>4. CASE Update
  <2>. SUFFICES ASSUME kind' = "move_to_start", zero'  PROVE target' = <<Goal, Goal>>
    OBVIOUS
  <2>1. MoveToStartUpdate
    BY <1>4 DEF Update, JointPositionUpdate, CartesianPoseUpdate, CartesianOrientationUpdate,
       CartesianElbowUpdate, ElbowUpdate, CartesianVelocityUpdate, JointVelocityUpdate,
       JointImpedanceUpdate, WithIKUpdate, GravityCompensationUpdate, ModelUpdate, GripperUpdate
  <2>2. /\ MotionFinished(start, elapsed') /\ target' = DesiredPosition(start, elapsed')
        /\ elapsed' \in Nat /\ start \in Pairs
    BY <2>1 DEF MoveToStartUpdate, Write, Numbers
  <2>3. PICK t \in Nat : t = elapsed'
    BY <2>2
  <2>. QED  BY <2>2, <2>3, FinishedIsGoal
<1>5. CASE GripperStep \/ SolutionArrives \/ Read \/ UNCHANGED vars
  BY <1>5 DEF GripperStep, OrderEnds, SolutionArrives, Read, vars, outputVars
<1>. QED  BY <1>1, <1>2, <1>3, <1>4, <1>5, StepCases

(* MotionGenerator and MoveToStartExampleController, wherever the robot    *)
(* starts: the controller gives its torques up only with every joint where *)
(* it had to go, however different the ways of the joints are and however  *)
(* their end times are rounded.                                            *)
THEOREM MoveToStartEndsAtTheGoal == Spec => []FinishedMeansReached
<1>1. Init => Numbers /\ FinishedMeansReached
  BY NumbersInit DEF Init, FinishedMeansReached
<1>2. Numbers /\ FinishedMeansReached /\ [Next]_vars => (Numbers /\ FinishedMeansReached)'
  BY NumbersStep, FinishedStep
<1>. QED  BY <1>1, <1>2, PTL DEF Spec

---------------------------------------------------------------------------
(* From one command to the next.                                           *)

(* The time of a swing is that of the robot, since its first command.      *)
SwingInv ==
  kind \in Swings /\ life = "active" =>
    /\ issued => /\ fresh = FALSE /\ target = SwingTarget(kind, elapsed, start)
                 /\ (clock - time0) % Period = (elapsed + passed) % Period
    /\ ~issued => fresh = TRUE

WaveInv ==
  kind \in Waves /\ life = "active" =>
    /\ issued => target = <<Wave(elapsed), IF kind = "joint_velocity" THEN 0 ELSE -Wave(elapsed)>>
    /\ ~issued => elapsed = 0

(* What is kept by on_activate() is where the robot still is at the first  *)
(* update.                                                                 *)
FromHereInv ==
  kind \in {"joint_impedance", "move_to_start"} /\ life = "active" =>
    /\ issued => target = IF kind = "joint_impedance"
                            THEN <<start[1] + Swing(elapsed), start[2]>>
                            ELSE DesiredPosition(start, elapsed)
    /\ ~issued => elapsed = 0 /\ start = q /\ passed > 0

PaceInv == SwingInv /\ WaveInv /\ FromHereInv

LEMMA UpdateOfKind ==
  ASSUME Update
  PROVE  /\ kind \in Swings => SwingUpdate
         /\ kind = "cartesian_velocity" => CartesianVelocityUpdate
         /\ kind = "joint_velocity" => JointVelocityUpdate
         /\ kind = "joint_impedance" => JointImpedanceUpdate
         /\ kind = "move_to_start" => MoveToStartUpdate
BY DEF Update, SwingUpdate, JointPositionUpdate, CartesianPoseUpdate, CartesianOrientationUpdate,
   CartesianElbowUpdate, ElbowUpdate, CartesianVelocityUpdate, JointVelocityUpdate,
   JointImpedanceUpdate, WithIKUpdate, MoveToStartUpdate, GravityCompensationUpdate, ModelUpdate,
   GripperUpdate, Swings

LEMMA CycleTimes ==
  ASSUME NEW c \in Int, NEW t \in Int, NEW e \in Int, NEW p \in Int,
         (c - t) % Period = e % Period
  PROVE  (((c + p) % Period) - t) % Period = (e + p) % Period
BY DEF Period

LEMMA SwingStep ==
  ASSUME Numbers, BindInv', SwingInv, [Next]_vars  PROVE SwingInv'
<1>1. CASE SetupStep \/ Deactivate
  BY <1>1, SetupKeeps DEF Deactivate, SwingInv
<1>2. CASE Activate
  BY <1>2 DEF Activate, JointPositionActivate, CartesianPoseActivate,
     CartesianOrientationActivate, CartesianElbowActivate, ElbowActivate,
     CartesianVelocityActivate, JointVelocityActivate, JointImpedanceActivate, WithIKActivate,
     MoveToStartActivate, GravityCompensationActivate, ModelActivate, GripperActivate,
     StartsAnew, Swings, SwingInv
<1>3. CASE Update
  <2>. SUFFICES ASSUME kind' \in Swings
                PROVE  /\ issued' /\ fresh' = FALSE /\ target' = SwingTarget(kind, elapsed', start')
                       /\ (clock' - time0') % Period = (elapsed' + passed') % Period
    BY <1>3 DEF SwingInv, Update
  <2>1. UNCHANGED <<kind, clock>> /\ passed' = 0
    BY <1>3 DEF Update
  <2>2. Begin /\ issued' /\ target' = SwingTarget(kind, elapsed', start')
    BY <1>3, <2>1, UpdateOfKind, SwingUpdates DEF BindInv
  <2>3. fresh' = FALSE
    BY <1>3, <2>1, <2>2 DEF SwingInv, Begin, Update
  <2>4. (clock' - time0') % Period = (elapsed' + passed') % Period
    <3>1. CASE fresh
      <4>1. clock' - time0' = 0 /\ elapsed' + passed' = 0
        BY <2>1, <2>2, <3>1 DEF Begin, Numbers
      <4>. QED  BY <4>1
    <3>2. CASE ~fresh
      <4>1. /\ clock' - time0' = clock - time0 /\ elapsed' + passed' = (clock - time0) % Period
            /\ clock - time0 \in Int
        BY <2>1, <2>2, <3>2, BeginTypes DEF Begin, Numbers
      <4>2. \A n \in Int : (n % Period) % Period = n % Period
        BY DEF Period
      <4>. QED  BY <4>1, <4>2
    <3>. QED  BY <3>1, <3>2
  <2>. QED  BY <2>2, <2>3, <2>4
<1>4. CASE Read
  <2>. SUFFICES ASSUME kind \in Swings, life = "active", SwingInv
                PROVE  SwingInv'
    BY <1>4 DEF Read, SwingInv
  <2>1. /\ UNCHANGED <<kind, life, fresh, start, time0, elapsed, target, issued>> /\ passed = 0
        /\ passed' \in Nat /\ clock' = (clock + passed') % Period
    BY <1>4, ExampleAssumption DEF Read, updateVars, outputVars
  <2>2. issued => (clock' - time0) % Period = (elapsed + passed') % Period
    <3>. SUFFICES ASSUME issued
                  PROVE  (clock' - time0) % Period = (elapsed + passed') % Period
      OBVIOUS
    <3>1. elapsed + passed = elapsed
      BY <2>1 DEF Numbers
    <3>2. (clock - time0) % Period = elapsed % Period
      BY <3>1 DEF SwingInv
    <3>3. PICK p \in Int : p = passed'
      BY <2>1
    <3>4. clock \in Int /\ time0 \in Int /\ elapsed \in Int
      BY DEF Numbers
    <3>5. (((clock + p) % Period) - time0) % Period = (elapsed + p) % Period
      BY <3>2, <3>4, CycleTimes
    <3>. QED  BY <2>1, <3>3, <3>5
  <2>. QED  BY <2>1, <2>2 DEF SwingInv
<1>5. CASE GripperStep \/ SolutionArrives \/ UNCHANGED vars
  BY <1>5 DEF GripperStep, OrderEnds, SolutionArrives, vars, updateVars, outputVars, robotVars,
     SwingInv
<1>. QED  BY <1>1, <1>2, <1>3, <1>4, <1>5, StepCases

LEMMA WaveInvStep ==
  ASSUME BindInv', WaveInv, [Next]_vars  PROVE WaveInv'
<1>. USE DEF WaveInv, Waves
<1>1. CASE SetupStep \/ Deactivate
  BY <1>1, SetupKeeps DEF Deactivate
<1>2. CASE Activate
  BY <1>2 DEF Activate, JointPositionActivate, CartesianPoseActivate,
     CartesianOrientationActivate, CartesianElbowActivate, ElbowActivate,
     CartesianVelocityActivate, JointVelocityActivate, JointImpedanceActivate, WithIKActivate,
     MoveToStartActivate, GravityCompensationActivate, ModelActivate, GripperActivate,
     StartsAtZero
<1>3. CASE Update
  <2>1. UNCHANGED kind /\ refused' = FALSE
    BY <1>3 DEF Update, BindInv
  <2>2. CASE kind = "cartesian_velocity"
    BY <1>3, <2>1, <2>2, UpdateOfKind DEF CartesianVelocityUpdate, Write
  <2>3. CASE kind = "joint_velocity"
    BY <1>3, <2>1, <2>3, UpdateOfKind DEF JointVelocityUpdate, Write
  <2>. QED  BY <2>1, <2>2, <2>3
<1>4. CASE GripperStep \/ SolutionArrives \/ Read \/ UNCHANGED vars
  BY <1>4 DEF GripperStep, OrderEnds, SolutionArrives, Read, vars, updateVars, outputVars
<1>. QED  BY <1>1, <1>2, <1>3, <1>4, StepCases

(* The way of a motion is settled when it begins.                          *)
LEMMA SameWay ==
  ASSUME UNCHANGED <<start, late>>
  PROVE  DesiredPosition(start, elapsed)' = DesiredPosition(start, elapsed')
BY DEF DesiredPosition, DesiredWay, EndTime, SynchronizedTime, Way, Norm

LEMMA FromHereStep ==
  ASSUME FromHereInv, [Next]_vars  PROVE FromHereInv'
<1>. USE DEF FromHereInv
<1>1. CASE SetupStep \/ Deactivate
  BY <1>1, SetupKeeps DEF Deactivate
<1>2. CASE Activate
  BY <1>2 DEF Activate, JointPositionActivate, CartesianPoseActivate,
     CartesianOrientationActivate, CartesianElbowActivate, ElbowActivate,
     CartesianVelocityActivate, JointVelocityActivate, JointImpedanceActivate, WithIKActivate,
     MoveToStartActivate, GravityCompensationActivate, ModelActivate, GripperActivate,
     StartsHere, robotVars
<1>3. CASE Update
  <2>1. UNCHANGED kind
    BY <1>3 DEF Update
  <2>2. CASE kind = "joint_impedance"
    BY <1>3, <2>1, <2>2, UpdateOfKind DEF JointImpedanceUpdate, Write, Tick
  <2>3. CASE kind = "move_to_start"
    BY <1>3, <2>1, <2>3, UpdateOfKind, SameWay DEF MoveToStartUpdate, Write
  <2>. QED  BY <2>1, <2>2, <2>3
<1>4. CASE GripperStep \/ SolutionArrives \/ UNCHANGED vars
  BY <1>4, SameWay DEF GripperStep, OrderEnds, SolutionArrives, vars, updateVars, outputVars,
     robotVars
<1>5. CASE Read
  BY <1>5, SameWay DEF Read, updateVars, outputVars
<1>. QED  BY <1>1, <1>2, <1>3, <1>4, <1>5, StepCases

LEMMA PaceInit == Init => PaceInv
BY DEF Init, PaceInv, SwingInv, WaveInv, FromHereInv

(* The command of an update and what it follows, on both coordinates.      *)
LEMMA SwingNear ==
  ASSUME NEW from \in Pairs, NEW t \in Nat, NEW u \in Nat, NEW p \in Nat, NEW controller,
         u % Period = (t + p) % Period
  PROVE  /\ Norm(SwingTarget(controller, u, from)[1] - SwingTarget(controller, t, from)[1]) <= p
         /\ Norm(SwingTarget(controller, u, from)[2] - SwingTarget(controller, t, from)[2]) <= p
         /\ SwingTarget(controller, 0, from) = from
<1>1. Norm(Swing(u) - Swing(t)) <= p /\ Swing(u) \in 0 .. 2 /\ Swing(t) \in 0 .. 2
  BY SwingPace
<1>2. from[1] \in Int /\ from[2] \in Int /\ from = <<from[1], from[2]>>
  BY DEF Pairs
<1>3. Swing(0) = 0
  <2>1. 0 % Period = 0
    BY DEF Period
  <2>. QED  BY <2>1, SwingValues
<1>4. PICK a \in Int, b \in Int, x \in Int, y \in Int :
        a = Swing(u) /\ b = Swing(t) /\ x = from[1] /\ y = from[2]
  BY <1>1, <1>2
<1>5. /\ Norm((x + a) - (x + b)) <= p /\ Norm((y - a) - (y - b)) <= p
      /\ Norm((x - a) - (x - b)) <= p /\ Norm((y + a) - (y + b)) <= p
      /\ Norm(y - y) <= p
  BY <1>1, <1>4 DEF Norm
<1>6. CASE controller = "joint_position"
  <2>1. /\ SwingTarget(controller, u, from) = <<x + a, y - a>>
        /\ SwingTarget(controller, t, from) = <<x + b, y - b>>
        /\ SwingTarget(controller, 0, from) = <<x, y>>
    BY <1>2, <1>3, <1>4, <1>6 DEF SwingTarget
  <2>2. /\ Norm(SwingTarget(controller, u, from)[1] - SwingTarget(controller, t, from)[1]) <= p
        /\ Norm(SwingTarget(controller, u, from)[2] - SwingTarget(controller, t, from)[2]) <= p
    BY <1>5, <2>1
  <2>. QED  BY <1>2, <1>4, <2>1, <2>2
<1>7. CASE controller = "cartesian_pose"
  <2>1. /\ SwingTarget(controller, u, from) = <<x - a, y + a>>
        /\ SwingTarget(controller, t, from) = <<x - b, y + b>>
        /\ SwingTarget(controller, 0, from) = <<x, y>>
    BY <1>2, <1>3, <1>4, <1>7 DEF SwingTarget
  <2>2. /\ Norm(SwingTarget(controller, u, from)[1] - SwingTarget(controller, t, from)[1]) <= p
        /\ Norm(SwingTarget(controller, u, from)[2] - SwingTarget(controller, t, from)[2]) <= p
    BY <1>5, <2>1
  <2>. QED  BY <1>2, <1>4, <2>1, <2>2
<1>8. CASE controller \notin {"joint_position", "cartesian_pose"}
  <2>1. /\ SwingTarget(controller, u, from) = <<x + a, y>>
        /\ SwingTarget(controller, t, from) = <<x + b, y>>
        /\ SwingTarget(controller, 0, from) = <<x, y>>
    BY <1>2, <1>3, <1>4, <1>8 DEF SwingTarget
  <2>2. /\ Norm(SwingTarget(controller, u, from)[1] - SwingTarget(controller, t, from)[1]) <= p
        /\ Norm(SwingTarget(controller, u, from)[2] - SwingTarget(controller, t, from)[2]) <= p
    BY <1>5, <2>1
  <2>. QED  BY <1>2, <1>4, <2>1, <2>2
<1>. QED  BY <1>6, <1>7, <1>8

LEMMA SwingIsNear ==
  ASSUME Numbers, BindInv', SwingInv, Update, kind \in Swings
  PROVE  Away(IF issued THEN target ELSE q, target')
<1>1. Begin /\ target' = SwingTarget(kind, elapsed', start') /\ life = "active"
  BY UpdateOfKind, SwingUpdates DEF BindInv, Update
<1>2. passed \in Nat /\ elapsed \in Nat /\ start \in Pairs /\ q \in Pairs
  BY DEF Numbers
<1>3. PICK u \in Nat, from \in Pairs : u = elapsed' /\ from = start'
  BY <1>1, BeginTypes
<1>4. CASE issued
  <2>1. /\ fresh = FALSE /\ target = SwingTarget(kind, elapsed, start)
        /\ (clock - time0) % Period = (elapsed + passed) % Period
    BY <1>1, <1>4 DEF SwingInv
  <2>2. from = start /\ u = (elapsed + passed) % Period
    BY <1>1, <1>3, <2>1 DEF Begin
  <2>3. elapsed + passed \in Int
    BY <1>2
  <2>4. u % Period = (elapsed + passed) % Period
    BY <2>2, <2>3 DEF Period
  <2>. QED  BY <1>1, <1>2, <1>3, <1>4, <2>1, <2>2, <2>4, SwingNear DEF Away
<1>5. CASE ~issued
  <2>1. from = q /\ u = 0
    BY <1>1, <1>3, <1>5 DEF SwingInv, Begin
  <2>2. target' = q
    <3>1. 0 % Period = (0 + 0) % Period
      OBVIOUS
    <3>. QED  BY <1>1, <1>2, <1>3, <2>1, <3>1, SwingNear
  <2>3. q[1] - q[1] = 0 /\ q[2] - q[2] = 0
    BY <1>2 DEF Pairs
  <2>. QED  BY <1>2, <1>5, <2>2, <2>3 DEF Away, Norm
<1>. QED  BY <1>4, <1>5

LEMMA WaveIsNear ==
  ASSUME Numbers, BindInv', WaveInv, Update, kind \in Waves
  PROVE  Away(IF issued THEN target ELSE <<0, 0>>, target')
<1>1. /\ life = "active" /\ elapsed' = (elapsed + passed) % (2 * Period)
      /\ target' = <<Wave(elapsed'), IF kind = "joint_velocity" THEN 0 ELSE -Wave(elapsed')>>
  BY UpdateOfKind DEF BindInv, Update, Waves, CartesianVelocityUpdate, JointVelocityUpdate, Write,
     Tick
<1>2. passed \in Nat /\ elapsed \in Nat /\ elapsed + passed \in Int
  BY DEF Numbers
<1>3. PICK u \in Nat : u = elapsed'
  BY <1>1, <1>2, Remainders
<1>4. PICK a \in Int, b \in Int : /\ a = Wave(u) /\ b = Wave(elapsed)
                                  /\ Norm(a - b) <= passed
  <2>1. u = (elapsed + passed) % (2 * Period)
    BY <1>1, <1>3
  <2>2. /\ Norm(Wave(u) - Wave(elapsed)) <= passed
        /\ Wave(u) \in -2 .. 2 /\ Wave(elapsed) \in -2 .. 2
    BY <1>2, <2>1, WavePace
  <2>3. Wave(u) \in Int /\ Wave(elapsed) \in Int
    BY <2>2
  <2>. QED  BY <2>2, <2>3
<1>5. Norm((-a) - (-b)) <= passed /\ Norm(0 - 0) <= passed
  BY <1>2, <1>4 DEF Norm
<1>6. CASE issued
  <2>1. target = <<b, IF kind = "joint_velocity" THEN 0 ELSE -b>>
    BY <1>1, <1>4, <1>6 DEF WaveInv
  <2>2. target' = <<a, IF kind = "joint_velocity" THEN 0 ELSE -a>>
    BY <1>1, <1>3, <1>4
  <2>. QED  BY <1>4, <1>5, <1>6, <2>1, <2>2 DEF Away
<1>7. CASE ~issued
  <2>1. elapsed = 0
    BY <1>1, <1>7 DEF WaveInv
  <2>2. b = 0
    <3>1. 0 % (2 * Period) = 0
      BY DEF Period
    <3>. QED  BY <1>4, <2>1, <3>1, WaveValues
  <2>3. target' = <<a, IF kind = "joint_velocity" THEN 0 ELSE -a>>
    BY <1>1, <1>3, <1>4
  <2>4. Norm(a - 0) <= passed /\ Norm((-a) - 0) <= passed
    BY <1>4, <1>5, <2>2
  <2>. QED  BY <1>5, <1>7, <2>3, <2>4 DEF Away
<1>. QED  BY <1>6, <1>7

LEMMA FromHereIsNear ==
  ASSUME Numbers, BindInv', FromHereInv, Update, kind \in {"joint_impedance", "move_to_start"}
  PROVE  Away(IF issued THEN target ELSE q, target')
<1>1. /\ passed \in Nat /\ elapsed \in Nat /\ elapsed + passed \in Int
      /\ start \in Pairs /\ start[1] \in Int /\ start[2] \in Int
      /\ start = <<start[1], start[2]>>
  BY DEF Numbers, Pairs
<1>2. CASE kind = "joint_impedance"
  <2>1. /\ life = "active" /\ elapsed' = (elapsed + passed) % Period
        /\ target' = <<start[1] + Swing(elapsed'), start[2]>>
    BY <1>2, UpdateOfKind DEF Update, JointImpedanceUpdate, Write, Tick
  <2>2. PICK u \in Nat : u = elapsed'
    BY <1>1, <2>1, Remainders
  <2>3. u % Period = (elapsed + passed) % Period
    BY <1>1, <2>1, <2>2 DEF Period
  <2>4. /\ Norm(Swing(u) - Swing(elapsed)) <= passed
        /\ Swing(u) \in 0 .. 2 /\ Swing(elapsed) \in 0 .. 2
    BY <1>1, <2>3, SwingPace
  <2>5. Norm((start[1] + Swing(u)) - (start[1] + Swing(elapsed))) <= passed
    <3>1. (start[1] + Swing(u)) - (start[1] + Swing(elapsed)) = Swing(u) - Swing(elapsed)
      BY <1>1, <2>4
    <3>. QED  BY <2>4, <3>1
  <2>6. Norm(start[2] - start[2]) <= passed
    BY <1>1 DEF Norm
  <2>7. target' = <<start[1] + Swing(u), start[2]>>
    BY <2>1, <2>2
  <2>8. CASE issued
    <3>1. target = <<start[1] + Swing(elapsed), start[2]>>
      BY <1>2, <2>1, <2>8 DEF FromHereInv
    <3>. QED  BY <2>5, <2>6, <2>7, <2>8, <3>1 DEF Away
  <2>9. CASE ~issued
    <3>1. elapsed = 0 /\ q = start
      BY <1>2, <2>1, <2>9 DEF FromHereInv
    <3>2. Swing(elapsed) = 0
      <4>1. 0 % Period = 0
        BY DEF Period
      <4>. QED  BY <3>1, <4>1, SwingValues
    <3>3. start[1] + Swing(elapsed) = start[1]
      BY <1>1, <3>2
    <3>. QED  BY <2>5, <2>6, <2>7, <2>9, <3>1, <3>3 DEF Away
  <2>. QED  BY <2>8, <2>9
<1>3. CASE kind = "move_to_start"
  <2>1. /\ life = "active" /\ elapsed' \in {elapsed + 0, elapsed + passed}
        /\ target' = DesiredPosition(start, elapsed')
    <3>1. MoveToStartUpdate /\ life = "active"
      BY <1>3, UpdateOfKind DEF Update
    <3>2. elapsed' \in {elapsed, elapsed + passed}
      BY <3>1 DEF MoveToStartUpdate
    <3>3. target' = DesiredPosition(start, elapsed')
      BY <3>1 DEF MoveToStartUpdate, Write
    <3>4. elapsed + 0 = elapsed
      BY <1>1
    <3>. QED  BY <3>1, <3>2, <3>3, <3>4
  <2>2. PICK p \in Nat : p <= passed /\ elapsed' = elapsed + p
    BY <1>1, <2>1
  <2>3. \A j \in {1, 2} :
          /\ Norm(DesiredPosition(start, elapsed + p)[j] - DesiredPosition(start, elapsed)[j]) <= p
          /\ DesiredPosition(start, 0)[j] = start[j]
    BY <1>1, DesiredPace
  <2>4. (IF issued THEN target ELSE q) = DesiredPosition(start, elapsed)
    <3>1. CASE issued
      BY <1>3, <2>1, <3>1 DEF FromHereInv
    <3>2. CASE ~issued
      <4>1. elapsed = 0 /\ q = start
        BY <1>3, <2>1, <3>2 DEF FromHereInv
      <4>2. DesiredPosition(start, 0) = start
        BY <1>1, <2>3 DEF DesiredPosition
      <4>. QED  BY <3>2, <4>1, <4>2
    <3>. QED  BY <3>1, <3>2
  <2>5. /\ target' = DesiredPosition(start, elapsed + p)
        /\ DesiredPosition(start, elapsed + p) \in Pairs /\ DesiredPosition(start, elapsed) \in Pairs
    <3>1. elapsed + p \in Nat
      BY <1>1
    <3>. QED  BY <1>1, <2>1, <2>2, <3>1, DesiredTypes
  <2>6. \A n \in Int : Norm(n) <= p => Norm(n) <= passed
    BY <1>1, <2>2 DEF Norm
  <2>7. \A j \in {1, 2} :
          DesiredPosition(start, elapsed + p)[j] - DesiredPosition(start, elapsed)[j] \in Int
    BY <2>5 DEF Pairs
  <2>. QED  BY <2>3, <2>4, <2>5, <2>6, <2>7 DEF Away
<1>. QED  BY <1>2, <1>3

(* All example controllers that follow a trajectory of their own, wherever *)
(* the robot stood before and however long the cycles are: the first       *)
(* command of an activation goes no further from where the robot is, or    *)
(* from standing still, and each later one no further from the one before, *)
(* than the trajectory does in the time that has passed.                   *)
THEOREM NoCommandJumps == Spec => NoJump
<1>1. Init => Numbers /\ PartsInv /\ PaceInv
  BY NumbersInit, PartsInit, PaceInit
<1>2. ASSUME Numbers /\ PartsInv /\ PaceInv, [Next]_vars
      PROVE  /\ (Numbers /\ PartsInv /\ PaceInv)'
             /\ [Update /\ issued' /\ kind \in Follows =>
                   Away(IF issued THEN target ELSE IF kind \in Waves THEN <<0, 0>> ELSE q,
                        target')]_vars
  <2>1. Numbers' /\ PartsInv'
    BY <1>2, NumbersStep, BindStep, ModelStep, IKStep, OrdersStep DEF PartsInv
  <2>2. PaceInv'
    BY <1>2, <2>1, SwingStep, WaveInvStep, FromHereStep DEF PaceInv, PartsInv
  <2>3. ASSUME Update, kind \in Follows
        PROVE  Away(IF issued THEN target ELSE IF kind \in Waves THEN <<0, 0>> ELSE q, target')
    <3>1. CASE kind \in Swings
      <4>1. kind \notin Waves
        BY <3>1 DEF Swings, Waves
      <4>. QED  BY <1>2, <2>1, <2>3, <3>1, <4>1, SwingIsNear DEF PaceInv, PartsInv
    <3>2. CASE kind \in Waves
      BY <1>2, <2>1, <2>3, <3>2, WaveIsNear DEF PaceInv, PartsInv
    <3>3. CASE kind \in {"joint_impedance", "move_to_start"}
      <4>1. kind \notin Waves
        BY <3>3 DEF Waves
      <4>. QED  BY <1>2, <2>1, <2>3, <3>3, <4>1, FromHereIsNear DEF PaceInv, PartsInv
    <3>. QED  BY <2>3, <3>1, <3>2, <3>3 DEF Follows
  <2>. QED  BY <2>1, <2>2, <2>3
<1>. QED  BY <1>1, <1>2, PTL DEF Spec, NoJump

===========================================================================
