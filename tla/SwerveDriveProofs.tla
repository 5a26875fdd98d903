-------------------------- MODULE SwerveDriveProofs --------------------------
(***************************************************************************)
(* What holds of the swerve drive, whatever it is told and limited to and  *)
(* however its cycles are spaced, checked by TLAPS.                        *)
(***************************************************************************)
EXTENDS SwerveDrive, TLAPS

AnyTwist == [x : Value, w : Value]

SwerveTypes ==
  /\ limits \in Limits
  /\ message \in [twist : AnyTwist, age : Int]
  /\ reference \in AnyTwist /\ wheelReference \in AnyTwist
  /\ commands \in AnyTwist \X AnyTwist
  /\ steering \in [Wheels -> -4 .. 4] /\ rolling \in [Wheels -> {-1, 0, 1}]

---------------------------------------------------------------------------
(* The limiter                                                             *)

LEMMA NegateValues ==
  ASSUME NEW a \in Value
  PROVE  Negate(a) \in Value /\ (a \in Int => Negate(a) = -a)
<1>1. /\ {NaN, Inf, NegInf} \cap Int = {}
      /\ Negate(a) = CASE a = NaN -> NaN [] a = Inf -> NegInf [] a = NegInf -> Inf [] OTHER -> -a
  BY SwerveAssumption DEF Negate
<1>. QED  BY <1>1 DEF Value

LEMMA PlusValues ==
  ASSUME NEW a \in Value, NEW b \in Value
  PROVE  /\ Plus(a, b) \in Value
         /\ a \in Int /\ b \in Int => Plus(a, b) = a + b
         /\ b = NaN => Plus(a, b) = NaN
<1>1. /\ {NaN, Inf, NegInf} \cap Int = {}
      /\ Plus(a, b) = IF NaN \in {a, b} \/ {Inf, NegInf} \subseteq {a, b} THEN NaN
                     ELSE IF Inf \in {a, b} THEN Inf
                     ELSE IF NegInf \in {a, b} THEN NegInf
                     ELSE a + b
  BY SwerveAssumption DEF Plus, Sums
<1>. QED  BY <1>1 DEF Value

LEMMA ClampValues ==
  ASSUME NEW v \in Value, NEW bound \in Nat
  PROVE  /\ Clamp(bound)[v] \in Value
         /\ v = NaN => Clamp(bound)[v] = NaN
         /\ v # NaN => Clamp(bound)[v] \in Int /\ Norm(Clamp(bound)[v]) <= bound
         /\ v \in Int =>
              \A last \in Int : Norm(last) <= bound => Norm(Clamp(bound)[v] - last) <= Norm(v - last)
<1>1. /\ {NaN, Inf, NegInf} \cap Int = {} /\ NaN # Inf /\ NaN # NegInf /\ Inf # NegInf
      /\ Clamp(bound)[v] =
           CASE v = NaN -> NaN
             [] v = Inf -> bound
             [] v = NegInf -> -bound
             [] OTHER -> IF v > bound THEN bound ELSE IF v < -bound THEN -bound ELSE v
  BY SwerveAssumption DEF Clamp
<1>. QED  BY <1>1 DEF Norm, Value

LEMMA LimitsValues ==
  ASSUME limits \in Limits
  PROVE  /\ limits.velocity # Off => limits.velocity \in Nat
         /\ limits.acceleration # Off => limits.acceleration \in Nat
         /\ limits.jerk # Off => limits.jerk \in Nat
BY SwerveAssumption DEF Limits

(* Whatever the limit of the jerk makes of a velocity.                     *)
LEMMA JerkValues ==
  ASSUME limits \in Limits, NEW velocity \in Value, NEW last \in Value, NEW second \in Value,
         NEW dt \in Nat
  PROVE  LimitJerk(last, second, dt)[velocity] \in Value
<1>1. CASE limits.jerk = Off
  BY <1>1 DEF LimitJerk
<1>2. CASE limits.jerk # Off
  <2>1. PICK j \in Nat : j = limits.jerk * dt * dt
    BY <1>2, LimitsValues
  <2>2. PICK before \in Value : before = Plus(last, Negate(second))
    BY NegateValues, PlusValues
  <2>3. PICK change \in Value : change = Plus(Plus(velocity, Negate(last)), Negate(before))
    BY NegateValues, PlusValues
  <2>4. LimitJerk(last, second, dt)[velocity] = Plus(Plus(last, before), Clamp(j)[change])
    BY <1>2, <2>1, <2>2, <2>3 DEF LimitJerk
  <2>. QED  BY <2>4, ClampValues, PlusValues
<1>. QED  BY <1>1, <1>2

(* How the limit of the acceleration is applied to a velocity of any kind. *)
LEMMA AccelerationValues ==
  ASSUME limits \in Limits, NEW velocity \in Value, NEW last \in Value, NEW dt \in Nat
  PROVE  /\ LimitAcceleration(last, dt)[velocity] \in Value
         /\ limits.acceleration # Off /\ last \in Int =>
              \/ LimitAcceleration(last, dt)[velocity] = NaN
              \/ /\ LimitAcceleration(last, dt)[velocity] \in Int
                 /\ Norm(LimitAcceleration(last, dt)[velocity] - last) <= limits.acceleration * dt
<1>1. CASE limits.acceleration = Off
  BY <1>1 DEF LimitAcceleration
<1>2. CASE limits.acceleration # Off
  <2>1. PICK a \in Nat : a = limits.acceleration * dt
    BY <1>2, LimitsValues
  <2>2. PICK change \in Value : change = Plus(velocity, Negate(last))
    BY NegateValues, PlusValues
  <2>3. PICK c \in Value : c = Clamp(a)[change]
    BY <2>1, ClampValues
  <2>4. c = NaN \/ (c \in Int /\ Norm(c) <= a)
    BY <2>3, ClampValues
  <2>5. LimitAcceleration(last, dt)[velocity] = Plus(last, c)
    BY <1>2, <2>1, <2>2, <2>3 DEF LimitAcceleration
  <2>6. CASE last \in Int /\ c \in Int /\ Norm(c) <= a
    <3>1. LimitAcceleration(last, dt)[velocity] = last + c
      BY <2>5, <2>6, PlusValues
    <3>2. (last + c) - last = c /\ last + c \in Int
      BY <2>6
    <3>. QED  BY <2>1, <2>6, <3>1, <3>2 DEF Value
  <2>7. CASE c = NaN
    BY <2>5, <2>7, PlusValues DEF Value
  <2>8. CASE last \notin Int
    BY <2>5, <2>8, PlusValues
  <2>. QED  BY <2>4, <2>6, <2>7, <2>8
<1>. QED  BY <1>1, <1>2

LEMMA LimitValues ==
  ASSUME limits \in Limits, NEW velocity \in Value, NEW last \in Value, NEW second \in Value,
         NEW dt \in Nat, NEW limited, limited = Limit(velocity, last, second, dt)
  PROVE  /\ limited \in Value
         /\ limits.velocity # Off /\ limited \in Int => Norm(limited) <= limits.velocity
         /\ /\ limits.acceleration # Off /\ last \in Int /\ limited \in Int
            /\ limits.velocity # Off => Norm(last) <= limits.velocity
            => Norm(limited - last) <= limits.acceleration * dt
<1>1. PICK jerked \in Value : jerked = LimitJerk(last, second, dt)[velocity]
  BY JerkValues
<1>2. PICK a \in Value : a = LimitAcceleration(last, dt)[jerked]
  BY AccelerationValues
<1>3. limits.acceleration # Off /\ last \in Int =>
        a = NaN \/ (a \in Int /\ Norm(a - last) <= limits.acceleration * dt)
  BY <1>2, AccelerationValues
<1>4. limited = LimitVelocity[a]
  BY <1>1, <1>2 DEF Limit
<1>5. CASE limits.velocity = Off
  BY <1>3, <1>4, <1>5, SwerveAssumption DEF LimitVelocity
<1>6. CASE limits.velocity # Off
  <2>1. PICK v \in Nat : v = limits.velocity
    BY <1>6, LimitsValues
  <2>2. limited = Clamp(v)[a]
    BY <1>4, <1>6, <2>1 DEF LimitVelocity
  <2>3. /\ limited \in Value /\ NaN \notin Int
        /\ limited \in Int => a # NaN /\ Norm(limited) <= v
        /\ a \in Int /\ last \in Int /\ Norm(last) <= v => Norm(limited - last) <= Norm(a - last)
    BY <2>2, ClampValues, SwerveAssumption
  <2>4. ASSUME limits.acceleration # Off, last \in Int, limited \in Int, Norm(last) <= v
        PROVE  Norm(limited - last) <= limits.acceleration * dt
    <3>1. PICK bound \in Nat : bound = limits.acceleration * dt
      BY <2>4, LimitsValues
    <3>2. a \in Int /\ Norm(a - last) <= bound /\ Norm(limited - last) <= Norm(a - last)
      BY <1>3, <2>3, <2>4, <3>1
    <3>3. Norm(a - last) \in Int /\ Norm(limited - last) \in Int
      BY <2>4, <3>2 DEF Norm
    <3>. QED  BY <3>1, <3>2, <3>3
  <2>. QED  BY <1>6, <2>1, <2>3, <2>4
<1>. QED  BY <1>5, <1>6

---------------------------------------------------------------------------
(* The wheels                                                              *)

LEMMA HeadingValues ==
  /\ Heading(-4) = <<-1, 0>> /\ Heading(-3) = <<-1, -1>> /\ Heading(-2) = <<0, -1>>
  /\ Heading(-1) = <<1, -1>> /\ Heading(0) = <<1, 0>> /\ Heading(1) = <<1, 1>>
  /\ Heading(2) = <<0, 1>> /\ Heading(3) = <<-1, 1>> /\ Heading(4) = <<-1, 0>>
BY DEF Heading, Headings

LEMMA AnglesOf ==
  ASSUME NEW a \in {-1, 0, 1}, NEW b \in {-1, 0, 1}, a # 0 \/ b # 0
  PROVE  /\ \E angle \in -3 .. 4 : Heading(angle) = <<a, b>>
         /\ \E angle \in -4 .. 3 : Heading(angle) = <<a, b>>
<1>1. \/ a = -1 /\ b \in {-1, 0, 1}
      \/ a = 0 /\ b \in {-1, 1}
      \/ a = 1 /\ b \in {-1, 0, 1}
  OBVIOUS
<1>2. CASE a = -1 /\ b = 0
  <2>1. Heading(-4) = <<a, b>> /\ Heading(4) = <<a, b>>
    BY <1>2, HeadingValues
  <2>2. 4 \in -3 .. 4 /\ -4 \in -4 .. 3
    OBVIOUS
  <2>. QED  BY <2>1, <2>2
<1>3. ASSUME ~(a = -1 /\ b = 0)  PROVE \E angle \in -3 .. 3 : Heading(angle) = <<a, b>>
  <2>1. \/ Heading(-3) = <<a, b>> \/ Heading(-2) = <<a, b>> \/ Heading(-1) = <<a, b>>
        \/ Heading(0) = <<a, b>> \/ Heading(1) = <<a, b>> \/ Heading(2) = <<a, b>>
        \/ Heading(3) = <<a, b>>
    BY <1>1, <1>3, HeadingValues
  <2>2. /\ -3 \in -3 .. 3 /\ -2 \in -3 .. 3 /\ -1 \in -3 .. 3 /\ 0 \in -3 .. 3
        /\ 1 \in -3 .. 3 /\ 2 \in -3 .. 3 /\ 3 \in -3 .. 3
    OBVIOUS
  <2>. QED  BY <2>1, <2>2
<1>4. -3 .. 3 \subseteq -3 .. 4 /\ -3 .. 3 \subseteq -4 .. 3
  OBVIOUS
<1>. QED  BY <1>2, <1>3, <1>4

(* The angle that a wheel takes to a velocity, and to its opposite.        *)
LEMMA Atan2Values ==
  ASSUME NEW v \in Int \X Int, v # <<0, 0>>
  PROVE  /\ Atan2(v) \in -3 .. 4 /\ Heading(Atan2(v)) = <<Sign(v[1]), Sign(v[2])>>
         /\ Atan2Opposite(v) \in -4 .. 3
         /\ Heading(Atan2Opposite(v)) = <<-Sign(v[1]), -Sign(v[2])>>
<1>1. v[1] \in Int /\ v[2] \in Int /\ (v[1] # 0 \/ v[2] # 0)
  OBVIOUS
<1>2. /\ Sign(v[1]) \in {-1, 0, 1} /\ Sign(v[2]) \in {-1, 0, 1}
      /\ (Sign(v[1]) # 0 \/ Sign(v[2]) # 0)
      /\ -Sign(v[1]) \in {-1, 0, 1} /\ -Sign(v[2]) \in {-1, 0, 1}
      /\ (-Sign(v[1]) # 0 \/ -Sign(v[2]) # 0)
      /\ Sign(-v[1]) = -Sign(v[1]) /\ Sign(-v[2]) = -Sign(v[2])
  <2>1. \A n \in Int : /\ Sign(n) \in {-1, 0, 1} /\ (n # 0 => Sign(n) # 0)
                       /\ Sign(-n) = -Sign(n)
    BY DEF Sign
  <2>2. \A n \in {-1, 0, 1} : -n \in {-1, 0, 1} /\ (n # 0 => -n # 0)
    OBVIOUS
  <2>. QED  BY <1>1, <2>1, <2>2
<1>3. \E angle \in -3 .. 4 : Heading(angle) = <<Sign(v[1]), Sign(v[2])>>
  BY <1>2, AnglesOf
<1>4. \E angle \in -4 .. 3 : Heading(angle) = <<Sign(-v[1]), Sign(-v[2])>>
  BY <1>2, AnglesOf
<1>. QED  BY <1>2, <1>3, <1>4 DEF Atan2, Atan2Opposite

LEMMA WheelRolls ==
  ASSUME NEW v \in Int \X Int, NEW angle \in -4 .. 4
  PROVE  /\ Wheel(v, angle).steering \in -4 .. 4 /\ Wheel(v, angle).rolling \in {-1, 0, 1}
         /\ ~Fast(v) => Wheel(v, angle).steering = angle
         /\ Wheel(v, angle).rolling = 0 <=> v = <<0, 0>>
         /\ Fast(v) => \A axis \in 1 .. 2 :
              Wheel(v, angle).rolling * Heading(Wheel(v, angle).steering)[axis] = Sign(v[axis])
<1>1. v[1] \in Int /\ v[2] \in Int /\ Sign(v[1]) \in Int /\ Sign(v[2]) \in Int
  BY DEF Sign
<1>2. Fast(v) => v # <<0, 0>>
  <2>1. Threshold * Threshold \in Nat
    BY SwerveAssumption
  <2>2. ~(0 * 0 + 0 * 0 > Threshold * Threshold)
    BY <2>1
  <2>. QED  BY <2>2 DEF Fast
<1>3. CASE ~Fast(v)
  <2>1. ~(Norm(angle - angle) > 2)
    BY DEF Norm
  <2>2. Wheel(v, angle) = [steering |-> angle, rolling |-> IF v = <<0, 0>> THEN 0 ELSE 1]
    BY <1>3, <2>1 DEF Wheel
  <2>. QED  BY <1>3, <2>2
<1>4. CASE Fast(v) /\ Norm(Atan2(v) - angle) > 2
  <2>1. Wheel(v, angle) = [steering |-> Atan2Opposite(v), rolling |-> -1]
    BY <1>4 DEF Wheel
  <2>2. /\ Atan2Opposite(v) \in -4 .. 4
        /\ Heading(Atan2Opposite(v))[1] = -Sign(v[1])
        /\ Heading(Atan2Opposite(v))[2] = -Sign(v[2])
    BY <1>2, <1>4, Atan2Values
  <2>3. (-1) * (-Sign(v[1])) = Sign(v[1]) /\ (-1) * (-Sign(v[2])) = Sign(v[2])
    BY <1>1
  <2>. QED  BY <1>2, <1>4, <2>1, <2>2, <2>3
<1>5. CASE Fast(v) /\ ~(Norm(Atan2(v) - angle) > 2)
  <2>1. Wheel(v, angle) = [steering |-> Atan2(v), rolling |-> 1]
    BY <1>2, <1>5 DEF Wheel
  <2>2. /\ Atan2(v) \in -4 .. 4
        /\ Heading(Atan2(v))[1] = Sign(v[1]) /\ Heading(Atan2(v))[2] = Sign(v[2])
    BY <1>2, <1>5, Atan2Values
  <2>3. 1 * Sign(v[1]) = Sign(v[1]) /\ 1 * Sign(v[2]) = Sign(v[2])
    BY <1>1
  <2>. QED  BY <1>2, <1>5, <2>1, <2>2, <2>3
<1>. QED  BY <1>3, <1>4, <1>5

---------------------------------------------------------------------------
(* Types                                                                   *)

LEMMA TypesInit == Init => SwerveTypes
<1>1. Zero \in AnyTwist /\ Twist(NaN, NaN) \in AnyTwist
  BY DEF Zero, Twist, AnyTwist, Value
<1>2. NoMessage \in [twist : AnyTwist, age : Int]
  BY <1>1 DEF NoMessage
<1>. QED  BY <1>1, <1>2 DEF Init, SwerveTypes, Wheels

LEMMA MadeMessage ==
  ASSUME NEW twist \in AnyTwist, NEW age \in Int
  PROVE  Message(twist, age) \in [twist : AnyTwist, age : Int]
<1>1. Zero \in AnyTwist /\ Zero = [x |-> 0, w |-> 0]
  BY DEF Zero, Twist, AnyTwist, Value
<1>. QED  BY <1>1, SwerveAssumption DEF Message, Twist, Zero

LEMMA MessageTypes == Messages \subseteq AnyTwist
BY SwerveAssumption DEF Messages, AnyTwist, Value, Twist

(* What an update does to the commands, of which the last one is sent on.  *)
LEMMA UpdateTypes ==
  ASSUME SwerveTypes, NEW dt \in Steps, Update(dt)
  PROVE  /\ reference' \in AnyTwist /\ message' \in [twist : AnyTwist, age : Int]
         /\ commands' \in AnyTwist \X AnyTwist /\ commands'[1] = commands[2]
         /\ commands'[2] = Limited(reference', dt)
         /\ wheelReference' \in AnyTwist /\ wheelReference' = commands'[2]
<1>1. dt \in Nat
  BY SwerveAssumption
<1>2. message' \in [twist : AnyTwist, age : Int]
  <2>1. message' \in {message, Message(message.twist, message.age + dt)}
    BY DEF Update, Older
  <2>2. PICK twist \in AnyTwist, age \in Int : twist = message.twist /\ age = message.age + dt
    BY <1>1 DEF SwerveTypes
  <2>3. Message(twist, age) \in [twist : AnyTwist, age : Int]
    BY MadeMessage
  <2>. QED  BY <2>1, <2>2, <2>3 DEF SwerveTypes
<1>3. reference' \in AnyTwist
  <2>1. Zero \in AnyTwist
    BY DEF Zero, Twist, AnyTwist, Value
  <2>2. reference' \in {reference, message'.twist, Zero}
    BY DEF Update, ReferenceFrom
  <2>. QED  BY <1>2, <2>1, <2>2 DEF SwerveTypes
<1>4. /\ commands[1] \in AnyTwist /\ commands[2] \in AnyTwist
      /\ commands' = <<commands[2], Limited(reference', dt)>> /\ wheelReference' = commands'[2]
  BY DEF Update, SwerveTypes
<1>5. Limited(reference', dt) \in AnyTwist
  <2>1. PICK r \in AnyTwist, one \in AnyTwist, two \in AnyTwist :
          r = reference' /\ one = commands[1] /\ two = commands[2]
    BY <1>3, <1>4
  <2>2. Limit(r.x, two.x, one.x, dt) \in Value /\ Limit(r.w, two.w, one.w, dt) \in Value
    BY <1>1, LimitValues DEF AnyTwist, SwerveTypes
  <2>. QED  BY <2>1, <2>2 DEF Limited, Twist, AnyTwist
<1>. QED  BY <1>2, <1>3, <1>4, <1>5

(* What the wheels do in a cycle.                                          *)
LEMMA WheelsUpdated ==
  ASSUME SwerveTypes, NEW dt \in Steps, Update(dt)
  PROVE  /\ steering' \in [Wheels -> -4 .. 4] /\ rolling' \in [Wheels -> {-1, 0, 1}]
         /\ \A i \in Wheels :
              /\ Finite(wheelReference') => Rolls(i)'
              /\ steering'[i] # steering[i] => Fast(WheelVelocity(wheelReference', i))
         /\ ~Finite(wheelReference') => UNCHANGED <<steering, rolling>>
<1>1. wheelReference' \in AnyTwist /\ InverseKinematics(wheelReference')
  BY UpdateTypes DEF Update
<1>2. CASE ~Finite(wheelReference')
  BY <1>1, <1>2 DEF InverseKinematics, SwerveTypes
<1>3. CASE Finite(wheelReference')
  <2>1. wheelReference'.x \in Int /\ wheelReference'.w \in Int
    BY <1>1, <1>3 DEF Finite, AnyTwist, Value
  <2>2. PICK t \in AnyTwist : t = wheelReference'
    BY <1>1
  <2>3. ASSUME NEW i \in Wheels  PROVE WheelVelocity(t, i) \in Int \X Int
    BY <2>1, <2>2 DEF WheelVelocity
  <2>4. /\ steering' = [i \in Wheels |-> Wheel(WheelVelocity(t, i), steering[i]).steering]
        /\ rolling' = [i \in Wheels |-> Wheel(WheelVelocity(t, i), steering[i]).rolling]
    BY <1>1, <1>3, <2>2 DEF InverseKinematics
  <2>5. ASSUME NEW i \in Wheels
        PROVE  /\ steering'[i] \in -4 .. 4 /\ rolling'[i] \in {-1, 0, 1}
               /\ ~Fast(WheelVelocity(t, i)) => steering'[i] = steering[i]
               /\ rolling'[i] = 0 <=> WheelVelocity(t, i) = <<0, 0>>
               /\ Fast(WheelVelocity(t, i)) => \A axis \in 1 .. 2 :
                    rolling'[i] * Heading(steering'[i])[axis] = Sign(WheelVelocity(t, i)[axis])
    <3>1. steering[i] \in -4 .. 4
      BY DEF SwerveTypes
    <3>. QED  BY <2>3, <2>4, <3>1, WheelRolls
  <2>6. steering' \in [Wheels -> -4 .. 4] /\ rolling' \in [Wheels -> {-1, 0, 1}]
    BY <2>4, <2>5
  <2>7. ASSUME NEW i \in Wheels  PROVE Rolls(i)'
    BY <2>2, <2>5 DEF Rolls, Along, WheelVelocity, Fast
  <2>. QED  BY <1>3, <2>2, <2>5, <2>6, <2>7
<1>. QED  BY <1>2, <1>3

LEMMA TypesStep ==
  ASSUME SwerveTypes, [Next]_driveVars  PROVE SwerveTypes'
<1>. USE DEF SwerveTypes
<1>1. CASE OnInit \/ OnConfigure \/ OnSetChainedMode \/ OnCleanup
  BY <1>1 DEF OnInit, OnConfigure, OnSetChainedMode, OnCleanup
<1>2. CASE OnActivate \/ OnDeactivate
  <2>1. Twist(NaN, NaN) \in AnyTwist
    BY DEF Twist, AnyTwist, Value
  <2>. QED  BY <1>2, <2>1 DEF OnActivate, OnDeactivate, WheelsRestarted
<1>3. CASE OnMessage
  <2>1. PICK twist \in Messages, age \in 0 .. Timeout : message' = Message(twist, age)
    BY <1>3 DEF OnMessage
  <2>2. Message(twist, age) \in [twist : AnyTwist, age : Int]
    BY MadeMessage, MessageTypes
  <2>. QED  BY <1>3, <2>1, <2>2 DEF OnMessage
<1>4. CASE WriteReference
  BY <1>4, MessageTypes DEF WriteReference
<1>5. CASE Idle
  <2>1. message' \in {message, Message(message.twist, message.age + 1)}
    BY <1>5 DEF Idle, Older
  <2>2. PICK twist \in AnyTwist, age \in Int : twist = message.twist /\ age = message.age + 1
    OBVIOUS
  <2>3. Message(twist, age) \in [twist : AnyTwist, age : Int]
    BY MadeMessage
  <2>. QED  BY <1>5, <2>1, <2>2, <2>3 DEF Idle
<1>6. CASE \E dt \in Steps : Update(dt)
  BY <1>6, UpdateTypes, WheelsUpdated DEF Update
<1>7. CASE UNCHANGED driveVars
  BY <1>7 DEF driveVars
<1>. QED  BY <1>1, <1>2, <1>3, <1>4, <1>5, <1>6, <1>7 DEF Next

---------------------------------------------------------------------------
(* The ramp and the wheels.                                                *)

LEMMA RampOfUpdate ==
  ASSUME SwerveTypes, NEW dt \in Steps, Update(dt)  PROVE Ramp(dt)
<1>. SUFFICES ASSUME Finite(commands'[2])
              PROVE  /\ InLimit(commands'[2])
                     /\ limits.acceleration # Off /\ InLimit(commands[2]) =>
                          Within(commands'[2], commands[2], limits.acceleration * dt)
  BY DEF Ramp
<1>1. dt \in Nat /\ limits \in Limits
  BY SwerveAssumption DEF SwerveTypes
<1>2. PICK r \in AnyTwist, one \in AnyTwist, two \in AnyTwist :
        r = reference' /\ one = commands[1] /\ two = commands[2]
  BY UpdateTypes DEF SwerveTypes
<1>3. /\ commands'[2].x = Limit(r.x, two.x, one.x, dt)
      /\ commands'[2].w = Limit(r.w, two.w, one.w, dt)
  <2>1. commands'[2] = Limited(reference', dt)
    BY UpdateTypes
  <2>2. Limited(reference', dt) = Twist(Limit(r.x, two.x, one.x, dt), Limit(r.w, two.w, one.w, dt))
    BY <1>2 DEF Limited
  <2>. QED  BY <2>1, <2>2 DEF Twist
<1>4. /\ r.x \in Value /\ one.x \in Value /\ two.x \in Value
      /\ r.w \in Value /\ one.w \in Value /\ two.w \in Value
  BY DEF AnyTwist
<1>5. PICK x \in Value, w \in Value : x = commands'[2].x /\ w = commands'[2].w
  BY <1>1, <1>3, <1>4, LimitValues
<1>6. x \in Int /\ w \in Int
  BY <1>5 DEF Finite, Value
<1>7. Finite(two) => two.x \in Int /\ two.w \in Int
  BY <1>4 DEF Finite, Value
<1>8. /\ limits.velocity # Off => Norm(x) <= limits.velocity
      /\ /\ limits.acceleration # Off /\ two.x \in Int
         /\ limits.velocity # Off => Norm(two.x) <= limits.velocity
         => Norm(x - two.x) <= limits.acceleration * dt
  BY <1>1, <1>3, <1>4, <1>5, <1>6, LimitValues
<1>9. /\ limits.velocity # Off => Norm(w) <= limits.velocity
      /\ /\ limits.acceleration # Off /\ two.w \in Int
         /\ limits.velocity # Off => Norm(two.w) <= limits.velocity
         => Norm(w - two.w) <= limits.acceleration * dt
  BY <1>1, <1>3, <1>4, <1>5, <1>6, LimitValues
<1>10. /\ x - 0 = x /\ w - 0 = w
       /\ Finite(two) => two.x - 0 = two.x /\ two.w - 0 = two.w
  BY <1>6, <1>7
<1>11. Zero.x = 0 /\ Zero.w = 0
  BY DEF Zero, Twist
<1>12. InLimit(commands'[2])
  BY <1>5, <1>8, <1>9, <1>10, <1>11 DEF InLimit, Within
<1>13. ASSUME limits.acceleration # Off, InLimit(two)
       PROVE  Within(commands'[2], two, limits.acceleration * dt)
  BY <1>5, <1>7, <1>8, <1>9, <1>10, <1>11, <1>13 DEF InLimit, Within
<1>. QED  BY <1>2, <1>12, <1>13

(* The limiter of the swerve drive, for every limit, reference and length  *)
(* of a cycle: from one command to the next no axis changes by more than   *)
(* the acceleration allows, nor goes beyond the velocity's limit, whatever *)
(* on_deactivate(), on_set_chained_mode() and an on_configure() with other *)
(* limits left of the previous two commands.  A command from which the new *)
(* limits are exceeded is cut, and one that is no number is not limited.   *)
THEOREM RampIsKept == Spec => RampKept
<1>1. SwerveTypes /\ [Next]_driveVars =>
        [\A dt \in Steps : Ramp(dt) \/ ~Update(dt)]_driveVars
  BY RampOfUpdate
<1>. QED  BY <1>1, TypesInit, TypesStep, PTL DEF Spec, RampKept

(* Each wheel rolls along its velocity, if the reference is a number.      *)
WheelsInv == Finite(wheelReference) => \A i \in Wheels : Rolls(i)

LEMMA NoNumber == ~Finite(Twist(NaN, NaN))
BY DEF Finite, Twist

LEMMA WheelsStep ==
  ASSUME SwerveTypes, WheelsInv, [Next]_driveVars
  PROVE  /\ WheelsInv'
         /\ \A i \in Wheels : steering'[i] # steering[i] => Fast(WheelVelocity(wheelReference', i))
<1>1. CASE \E dt \in Steps : Update(dt)
  BY <1>1, WheelsUpdated DEF WheelsInv
<1>2. CASE OnActivate \/ OnDeactivate
  BY <1>2, NoNumber DEF OnActivate, OnDeactivate, WheelsRestarted, WheelsInv
<1>3. CASE \/ OnInit \/ OnConfigure \/ OnSetChainedMode \/ OnCleanup \/ OnMessage
           \/ WriteReference \/ Idle \/ UNCHANGED driveVars
  <2>1. UNCHANGED <<wheelReference, steering, rolling>>
    BY <1>3 DEF OnInit, OnConfigure, OnSetChainedMode, OnCleanup, OnMessage, WriteReference, Idle,
       driveVars
  <2>. QED  BY <2>1 DEF WheelsInv, Rolls, Along, Finite
<1>. QED  BY <1>1, <1>2, <1>3 DEF Next

(* inverseKinematics(), for any velocities and from any angles, though a   *)
(* wheel may roll backwards instead of turning: after every cycle a wheel  *)
(* above the threshold rolls along its velocity, and one below is not      *)
(* steered.                                                                *)
THEOREM WheelsAreFollowing == Spec => WheelsFollow
<1>1. Init => SwerveTypes /\ WheelsInv
  BY TypesInit, NoNumber DEF Init, WheelsInv
<1>2. ASSUME SwerveTypes, WheelsInv, [Next]_driveVars
      PROVE  /\ (SwerveTypes /\ WheelsInv)'
             /\ [\A i \in Wheels :
                   /\ Finite(wheelReference') => Rolls(i)'
                   /\ steering'[i] # steering[i] =>
                        Fast(WheelVelocity(wheelReference', i))]_driveVars
  <2>1. (SwerveTypes /\ WheelsInv)'
    BY <1>2, TypesStep, WheelsStep
  <2>2. ASSUME NEW i \in Wheels
        PROVE  /\ Finite(wheelReference') => Rolls(i)'
               /\ steering'[i] # steering[i] => Fast(WheelVelocity(wheelReference', i))
    BY <1>2, <2>1, WheelsStep DEF WheelsInv, Finite
  <2>. QED  BY <2>1, <2>2
<1>. QED  BY <1>1, <1>2, PTL DEF Spec, WheelsFollow

===========================================================================
