----------------------------- MODULE RateLimits -----------------------------
(***************************************************************************)
(* libfranka's rate limiter, low-pass filter and position-dependent joint  *)
(* velocity limits, on integers.  Two joints stand for the seven, and two  *)
(* axes for the three of a translation or a rotation; time is counted in   *)
(* control cycles, so that kDeltaT = 1 and a difference of two commands is *)
(* a velocity.                                                             *)
(*                                                                         *)
(* In every group of limits of rate_limiting.h, a jerk of one cycle is     *)
(* half the acceleration of one cycle: kMaxJointJerk * kDeltaT =           *)
(* kMaxJointAcceleration / 2, and so for translation, rotation and elbow.  *)
(* The model has this ratio; what the code computes between two integers   *)
(* is rounded toward the last command.  kLimitEps and the tolerance of the *)
(* velocity limits are left out.                                           *)
(***************************************************************************)
EXTENDS Integers

CONSTANTS
  MaxTorqueRate,  \* kMaxTorqueRate, per cycle
  MaxJerk,        \* the maximum jerk, per cycle
  MaxVelocity,    \* the maximum velocity: of a joint far from its end stops
  EndStop,        \* the joint moves within -EndStop .. EndStop
  Deceleration,   \* deceleration_limit of the URDF
  Offset,         \* velocity_offset of the URDF
  NaN             \* a value that is infinite or not a number

ASSUME LimitsAssumption ==
  /\ MaxTorqueRate \in Nat /\ MaxJerk \in Nat /\ MaxVelocity \in Nat
  /\ EndStop \in Nat /\ Deceleration \in Nat /\ Offset \in Nat
  /\ NaN \notin Int /\ NaN \notin [1 .. 2 -> Int]

Smaller(x, y) == IF x < y THEN x ELSE y
Larger(x, y) == IF x < y THEN y ELSE x

(* std::max(std::min(x, hi), lo): the lower bound wins.                    *)
Clamp(x, lo, hi) == Larger(Smaller(x, hi), lo)

(* Half of x, rounded toward zero: (max_jerk / max_acceleration) * kDeltaT *)
(* times x.                                                                *)
Half(x) == IF x >= 0 THEN x \div 2 ELSE -((-x) \div 2)

MaxAcceleration == 2 * MaxJerk

SquareRoot(n) == CHOOSE r \in 0 .. n : r * r <= n /\ n < (r + 1) * (r + 1)

---------------------------------------------------------------------------
(* Vectors                                                                 *)

Axes == 1 .. 2
Vectors == [Axes -> Int]
Zero == [i \in Axes |-> 0]

Plus(u, w) == [i \in Axes |-> u[i] + w[i]]
Minus(u, w) == [i \in Axes |-> u[i] - w[i]]
Dot(u, w) == u[1] * w[1] + u[2] * w[2]
Cross(u, w) == u[1] * w[2] - u[2] * w[1]
Square(u) == Dot(u, u)

Sign(x) == IF x > 0 THEN 1 ELSE IF x < 0 THEN -1 ELSE 0
Norm(x) == IF x < 0 THEN -x ELSE x

Box(r) == [Axes -> -r .. r]
Longest(S) == CHOOSE u \in S : \A w \in S : Square(w) <= Square(u)

---------------------------------------------------------------------------
(* The limiter                                                             *)

LimitTorque(torque, last) == last + Clamp(torque - last, -MaxTorqueRate, MaxTorqueRate)

(* Mutant: the acceleration is limited as if the velocity limits were far. *)
LimitVelocityFar(upper, lower, velocity, lastVelocity, lastAcceleration) ==
  LET jerk == velocity - lastVelocity - lastAcceleration
  IN  lastVelocity + Clamp(lastAcceleration + Clamp(jerk, -MaxJerk, MaxJerk),
                           -MaxAcceleration, MaxAcceleration)

(* The jerk is limited first, then the acceleration, the more the nearer   *)
(* the velocity has come to its limit.                                     *)
LimitVelocity(upper, lower, velocity, lastVelocity, lastAcceleration) ==
  LET jerk == velocity - lastVelocity - lastAcceleration
      acceleration == lastAcceleration + Clamp(jerk, -MaxJerk, MaxJerk)
      safeMax == Smaller(Half(upper - lastVelocity), MaxAcceleration)
      safeMin == Larger(Half(lower - lastVelocity), -MaxAcceleration)
  IN  lastVelocity + Clamp(acceleration, safeMin, safeMax)

LimitPosition(upper, lower, position, lastPosition, lastVelocity, lastAcceleration) ==
  lastPosition
    + LimitVelocity(upper, lower, position - lastPosition, lastVelocity, lastAcceleration)

(* A component of a jerk that is shortened to MaxJerk.                     *)
Share(x, jerk) == SquareRoot((x * x * MaxJerk * MaxJerk) \div Square(jerk))

(* commanded_acceleration: the last one, and a jerk of at most MaxJerk.    *)
LimitJerk(velocity, lastVelocity, lastAcceleration) ==
  LET jerk == Minus(Minus(velocity, lastVelocity), lastAcceleration)
  IN  Plus(lastAcceleration,
           IF Square(jerk) <= MaxJerk * MaxJerk THEN jerk
           ELSE [i \in Axes |-> Sign(jerk[i]) * Share(jerk[i], jerk)])

(* The line from v along a does not meet the ball of allowed velocities:   *)
(* the square root in distance_to_max_velocity is not a number.            *)
Misses(v, a) == Cross(v, a) * Cross(v, a) > MaxVelocity * MaxVelocity * Square(a)

(* It leaves the ball before v: distance_to_max_velocity is negative.      *)
Beyond(v, a) == Square(v) > MaxVelocity * MaxVelocity /\ Dot(v, a) > 0

(* Mutant: the acceleration is limited as if the velocity limit were far.  *)
StepsFar(v, a) ==
  {u \in Box(MaxAcceleration):
     /\ Cross(u, a) = 0 /\ Dot(u, a) >= 0
     /\ Square(u) <= Square(a) /\ Square(u) <= MaxAcceleration * MaxAcceleration}

(* The steps along a that are no longer than a, the maximum acceleration,  *)
(* and half the way to where the line leaves the ball.                     *)
Steps(v, a) ==
  {u \in Box(MaxAcceleration):
     /\ Cross(u, a) = 0 /\ Dot(u, a) >= 0
     /\ Square(u) <= Square(a) /\ Square(u) <= MaxAcceleration * MaxAcceleration
     /\ LET x == Plus(v, Plus(u, u)) IN Dot(x, a) <= 0 \/ Square(x) <= MaxVelocity * MaxVelocity}

(* The steps against a of at most half the way back to the ball.           *)
StepsBack(v, a) ==
  {u \in Box(Norm(v[1]) + Norm(v[2])):
     /\ Cross(u, a) = 0 /\ Dot(u, a) <= 0
     /\ LET x == Plus(v, Plus(u, u)) IN Dot(x, a) >= 0 /\ Square(x) >= MaxVelocity * MaxVelocity}

(* limitRate() of a vector.  std::min() passes over what is not a number:  *)
(* the acceleration is then limited by the jerk alone.                     *)
LimitTwist(velocity, lastVelocity, lastAcceleration) ==
  LET a == LimitJerk(velocity, lastVelocity, lastAcceleration)
  IN  Plus(lastVelocity,
           IF Misses(lastVelocity, a) THEN a
           ELSE IF Beyond(lastVelocity, a) THEN Longest(StepsBack(lastVelocity, a))
           ELSE Longest(Steps(lastVelocity, a)))

LimitPose(pose, lastPose, lastVelocity, lastAcceleration) ==
  Plus(lastPose, LimitTwist(Minus(pose, lastPose), lastVelocity, lastAcceleration))

---------------------------------------------------------------------------
(* The filter, with a cutoff frequency whose gain is one half              *)

LowPass(value, last) == last + Half(value - last)

CartesianLowPass(pose, last) == [i \in Axes |-> LowPass(pose[i], last[i])]

---------------------------------------------------------------------------
(* The velocity a joint may have at a position so that it can still stop   *)
(* before the end of its range                                             *)

StoppingSpeed(distance) ==
  Larger(0, SquareRoot(Larger(0, 2 * Deceleration * distance)) - Offset)

UpperLimit(position) == Smaller(MaxVelocity, StoppingSpeed(EndStop - position))
LowerLimit(position) == Larger(-MaxVelocity, -StoppingSpeed(EndStop + position))
=============================================================================
