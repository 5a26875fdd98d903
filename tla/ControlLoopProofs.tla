-------------------------- MODULE ControlLoopProofs --------------------------
(***************************************************************************)
(* Proofs about ControlLoop: that limited commands respect the limits of   *)
(* their cycle, that a motion command is sent in the round it was made in, *)
(* and that the log is a window of the last rows of one motion.            *)
(***************************************************************************)
EXTENDS ControlLoop, SequenceTheorems, WellFoundedInduction, TLAPS

---------------------------------------------------------------------------
(* The position-dependent limits                                           *)

LEMMA LeastNumber ==
  ASSUME NEW S \in SUBSET Nat, S # {}
  PROVE  \E m \in S : \A k \in S : m <= k
<1> DEFINE less == OpToRel(<, Nat)
<1>1. IsWellFoundedOn(less, Nat)
  BY NatLessThanWellFounded
<1>2. PICK m \in S : \A k \in S : ~ (<<k, m>> \in less)
  BY <1>1, WFMin
<1>3. \A k \in S : ~ (k < m)
  BY <1>2 DEF OpToRel
<1> HIDE DEF less
<1>4. \A k \in S : k \in Nat
  OBVIOUS
<1> QED BY <1>3, <1>4

(* There is a square root: the least number whose successor's square is    *)
(* above n.                                                                *)
LEMMA SquareRootIsNat ==
  ASSUME NEW n \in Nat
  PROVE  SquareRoot(n) \in Nat /\ SquareRoot(n) * SquareRoot(n) <= n
<1> DEFINE above == {k \in Nat : n < (k + 1) * (k + 1)}
<1>1. n \in above
  OBVIOUS
<1>2. PICK r \in above : \A k \in above : r <= k
  <2>1. above \in SUBSET Nat /\ above # {}
    BY <1>1
  <2> HIDE DEF above
  <2> QED BY <2>1, LeastNumber
<1>3. r * r <= n
  <2>1. CASE r = 0
    BY <2>1
  <2>2. CASE r # 0
    <3>1. r - 1 \in Nat /\ r - 1 \notin above
      BY <1>2, <2>2
    <3> QED BY <3>1
  <2> QED BY <2>1, <2>2
<1>4. r \in 0 .. n /\ n < (r + 1) * (r + 1)
  BY <1>1, <1>2
<1>5. \E m \in 0 .. n : m * m <= n /\ n < (m + 1) * (m + 1)
  BY <1>3, <1>4
<1>6. SquareRoot(n) \in 0 .. n /\ SquareRoot(n) * SquareRoot(n) <= n
  BY <1>5, Zenon DEF SquareRoot
<1> QED BY <1>6

LEMMA StoppingSpeedIsNat ==
  ASSUME NEW d \in Int
  PROVE  StoppingSpeed(d) \in Nat
<1> USE LimitsAssumption
<1>1. Larger(0, 2 * Deceleration * d) \in Nat
  <2>1. 2 * Deceleration * d \in Int
    OBVIOUS
  <2> QED BY <2>1 DEF Larger
<1>2. SquareRoot(Larger(0, 2 * Deceleration * d)) \in Nat
  BY <1>1, SquareRootIsNat
<1> QED BY <1>2 DEF StoppingSpeed, Larger

(* Standing still is always allowed.                                       *)
LEMMA BoundsAroundZero ==
  ASSUME NEW p \in Int
  PROVE  UpperLimit(p) \in Nat /\ LowerLimit(p) \in Int /\ LowerLimit(p) <= 0
<1> USE LimitsAssumption
<1>1. StoppingSpeed(EndStop - p) \in Nat /\ StoppingSpeed(EndStop + p) \in Nat
  <2>1. EndStop - p \in Int /\ EndStop + p \in Int
    OBVIOUS
  <2> QED BY <2>1, StoppingSpeedIsNat
<1> QED BY <1>1 DEF UpperLimit, LowerLimit, Smaller, Larger

---------------------------------------------------------------------------
(* The limiter                                                             *)

LEMMA HalfIsBetween ==
  ASSUME NEW x \in Int
  PROVE  /\ Half(x) \in Int
         /\ x >= 0 => 0 <= Half(x) /\ Half(x) <= x
         /\ x <= 0 => x <= Half(x) /\ Half(x) <= 0
BY DEF Half

LEMMA AccelerationIsTwiceJerk == MaxJerk \in Nat /\ MaxAcceleration \in Nat
BY LimitsAssumption DEF MaxAcceleration

LEMMA VelocityIsLimited ==
  ASSUME NEW upper \in Int, NEW lower \in Int, lower <= upper,
         NEW velocity \in Int, NEW last \in Int, NEW acceleration \in Int
  PROVE  /\ LimitVelocity(upper, lower, velocity, last, acceleration) \in Int
         /\ JointKept(last, LimitVelocity(upper, lower, velocity, last, acceleration), lower, upper)
<1> DEFINE jerk == velocity - last - acceleration
           a == acceleration + Clamp(jerk, -MaxJerk, MaxJerk)
           safeMax == Smaller(Half(upper - last), MaxAcceleration)
           safeMin == Larger(Half(lower - last), -MaxAcceleration)
           c == Clamp(a, safeMin, safeMax)
<1>1. MaxJerk \in Nat /\ MaxAcceleration \in Nat
  BY AccelerationIsTwiceJerk
<1>2. jerk \in Int /\ a \in Int
  BY <1>1 DEF Clamp, Smaller, Larger
<1>3. upper - last \in Int /\ lower - last \in Int
  OBVIOUS
<1>4. /\ Half(upper - last) \in Int
      /\ upper - last >= 0 => 0 <= Half(upper - last) /\ Half(upper - last) <= upper - last
      /\ upper - last <= 0 => upper - last <= Half(upper - last) /\ Half(upper - last) <= 0
  BY <1>3, HalfIsBetween
<1>5. /\ Half(lower - last) \in Int
      /\ lower - last >= 0 => 0 <= Half(lower - last) /\ Half(lower - last) <= lower - last
      /\ lower - last <= 0 => lower - last <= Half(lower - last) /\ Half(lower - last) <= 0
  BY <1>3, HalfIsBetween
<1>6. /\ safeMax \in Int /\ safeMax <= Half(upper - last) /\ safeMax <= MaxAcceleration
      /\ safeMin \in Int /\ safeMin >= Half(lower - last) /\ safeMin >= -MaxAcceleration
      /\ safeMin = Half(lower - last) \/ safeMin = -MaxAcceleration
  BY <1>1, <1>4, <1>5 DEF Smaller, Larger
<1> HIDE DEF a, safeMax, safeMin
<1>7. c \in Int /\ c >= safeMin /\ (c <= safeMax \/ c = safeMin)
  BY <1>2, <1>6 DEF Clamp, Smaller, Larger
<1>8. LimitVelocity(upper, lower, velocity, last, acceleration) = last + c
  BY DEF LimitVelocity, a, safeMax, safeMin
<1> HIDE DEF c, jerk
<1>9. /\ last >= lower => last + c >= lower
      /\ last <= upper => last + c <= upper
      /\ last < lower => last + c >= last
      /\ last > upper => last + c <= last
      /\ lower <= last /\ last <= upper => c <= MaxAcceleration /\ -c <= MaxAcceleration
  BY <1>1, <1>4, <1>5, <1>6, <1>7
<1>10. lower <= last /\ last <= upper => Norm((last + c) - last) <= MaxAcceleration
  BY <1>1, <1>7, <1>9 DEF Norm
<1> QED BY <1>7, <1>8, <1>9, <1>10 DEF JointKept

---------------------------------------------------------------------------
(* Vectors                                                                 *)

LEMMA VectorArithmetic ==
  ASSUME NEW u \in Vectors, NEW w \in Vectors
  PROVE  /\ u[1] \in Int /\ u[2] \in Int
         /\ Plus(u, w) \in Vectors /\ Minus(u, w) \in Vectors
         /\ Plus(u, w)[1] = u[1] + w[1] /\ Plus(u, w)[2] = u[2] + w[2]
         /\ Minus(u, w)[1] = u[1] - w[1] /\ Minus(u, w)[2] = u[2] - w[2]
         /\ Dot(u, w) \in Int /\ Cross(u, w) \in Int /\ Square(u) \in Nat
<1>1. u[1] \in Int /\ u[2] \in Int /\ w[1] \in Int /\ w[2] \in Int
  BY DEF Vectors, Axes
<1>2. Plus(u, w) \in Vectors /\ Minus(u, w) \in Vectors
  BY DEF Plus, Minus, Vectors
<1>3. /\ Plus(u, w)[1] = u[1] + w[1] /\ Plus(u, w)[2] = u[2] + w[2]
      /\ Minus(u, w)[1] = u[1] - w[1] /\ Minus(u, w)[2] = u[2] - w[2]
  BY DEF Plus, Minus, Axes
<1>4. Dot(u, w) \in Int /\ Cross(u, w) \in Int
  BY <1>1 DEF Dot, Cross
<1>5. u[1] * u[1] >= 0 /\ u[2] * u[2] >= 0
  BY <1>1
<1>6. Square(u) \in Nat
  BY <1>1, <1>5 DEF Square, Dot
<1> QED BY <1>1, <1>2, <1>3, <1>4, <1>6

LEMMA ZeroIsVector == Zero \in Vectors /\ Zero[1] = 0 /\ Zero[2] = 0
BY DEF Zero, Vectors, Axes

(* Adding a vector to a position and taking the position away.             *)
LEMMA ThereAndBack ==
  ASSUME NEW p \in Vectors, NEW v \in Vectors
  PROVE  Minus(Plus(p, v), p) = v /\ Plus(p, v) \in Vectors
<1>1. \A i \in Axes : p[i] \in Int /\ v[i] \in Int /\ (p[i] + v[i]) - p[i] = v[i]
  BY DEF Vectors
<1>2. Minus(Plus(p, v), p) = [i \in Axes |-> (p[i] + v[i]) - p[i]]
  BY DEF Minus, Plus
<1>3. [i \in Axes |-> (p[i] + v[i]) - p[i]] = [i \in Axes |-> v[i]]
  BY <1>1
<1> QED BY <1>2, <1>3, VectorArithmetic DEF Vectors

LEMMA TwoSteps ==
  ASSUME NEW v \in Vectors, NEW u \in Vectors
  PROVE  /\ Plus(v, Plus(u, u)) \in Vectors /\ Plus(v, u) \in Vectors
         /\ Plus(v, Plus(u, u))[1] = v[1] + (u[1] + u[1])
         /\ Plus(v, Plus(u, u))[2] = v[2] + (u[2] + u[2])
         /\ Plus(v, u)[1] = v[1] + u[1] /\ Plus(v, u)[2] = v[2] + u[2]
         /\ v[1] \in Int /\ v[2] \in Int /\ u[1] \in Int /\ u[2] \in Int
<1>1. Plus(u, u) \in Vectors /\ Plus(u, u)[1] = u[1] + u[1] /\ Plus(u, u)[2] = u[2] + u[2]
  BY VectorArithmetic
<1>2. /\ Plus(v, Plus(u, u)) \in Vectors
      /\ Plus(v, Plus(u, u))[1] = v[1] + Plus(u, u)[1]
      /\ Plus(v, Plus(u, u))[2] = v[2] + Plus(u, u)[2]
  BY <1>1, VectorArithmetic
<1>3. /\ Plus(v, u) \in Vectors /\ Plus(v, u)[1] = v[1] + u[1] /\ Plus(v, u)[2] = v[2] + u[2]
      /\ v[1] \in Int /\ v[2] \in Int /\ u[1] \in Int /\ u[2] \in Int
  BY VectorArithmetic
<1> QED BY <1>1, <1>2, <1>3

LEMMA NoLength ==
  ASSUME NEW u \in Vectors
  PROVE  Square(u) = 0 <=> (u[1] = 0 /\ u[2] = 0)
<1>1. u[1] \in Int /\ u[2] \in Int /\ Square(u) = u[1] * u[1] + u[2] * u[2]
  BY VectorArithmetic DEF Square, Dot
<1>2. ASSUME NEW x \in Int
      PROVE  x * x >= 0 /\ (x # 0 => x * x > 0) /\ (x = 0 => x * x = 0)
  <2>1. CASE x > 0
    BY <2>1
  <2>2. CASE x < 0
    BY <2>2
  <2>3. CASE x = 0
    BY <2>3
  <2> QED BY <2>1, <2>2, <2>3
<1>3. /\ u[1] * u[1] >= 0 /\ u[2] * u[2] >= 0
      /\ u[1] # 0 => u[1] * u[1] > 0
      /\ u[2] # 0 => u[2] * u[2] > 0
      /\ u[1] = 0 => u[1] * u[1] = 0
      /\ u[2] = 0 => u[2] * u[2] = 0
  BY <1>1, <1>2
<1> DEFINE p == u[1] * u[1]
           q == u[2] * u[2]
<1>4. p \in Int /\ q \in Int
  BY <1>1
<1> HIDE DEF p, q
<1>5. /\ p >= 0 /\ q >= 0 /\ Square(u) = p + q
      /\ u[1] # 0 => p > 0
      /\ u[2] # 0 => q > 0
      /\ u[1] = 0 => p = 0
      /\ u[2] = 0 => q = 0
  BY <1>1, <1>3 DEF p, q
<1> QED BY <1>4, <1>5

LEMMA SquareOfMiddle ==
  ASSUME NEW v1 \in Int, NEW v2 \in Int, NEW u1 \in Int, NEW u2 \in Int
  PROVE  2 * ((v1 + u1) * (v1 + u1) + (v2 + u2) * (v2 + u2)) =
           (v1 * v1 + v2 * v2)
             + ((v1 + (u1 + u1)) * (v1 + (u1 + u1)) + (v2 + (u2 + u2)) * (v2 + (u2 + u2)))
             - 2 * (u1 * u1 + u2 * u2)
OBVIOUS

(* The identities of Lagrange, on integers.                                *)
LEMMA Lagrange ==
  ASSUME NEW x1 \in Int, NEW x2 \in Int, NEW u1 \in Int, NEW u2 \in Int,
         NEW a1 \in Int, NEW a2 \in Int
  PROVE  (a1 * a1 + a2 * a2) * (x1 * u1 + x2 * u2) =
           (x1 * a1 + x2 * a2) * (u1 * a1 + u2 * a2) + (x1 * a2 - x2 * a1) * (u1 * a2 - u2 * a1)
OBVIOUS

LEMMA SignOfProduct ==
  ASSUME NEW p \in Int, NEW q \in Int, (p <= 0 /\ q >= 0) \/ (p >= 0 /\ q <= 0)
  PROVE  p * q <= 0
OBVIOUS

LEMMA SignOfFactor ==
  ASSUME NEW n \in Nat, n > 0, NEW d \in Int, n * d <= 0
  PROVE  d <= 0
OBVIOUS

(* A step u along a line, when twice the step does not pass the point of   *)
(* the line that is nearest to zero, leads no further away from zero.      *)
LEMMA StepTowardsZero ==
  ASSUME NEW v \in Vectors, NEW u \in Vectors, NEW a \in Vectors,
         Cross(u, a) = 0, Square(a) # 0,
         \/ Dot(u, a) >= 0 /\ Dot(Plus(v, Plus(u, u)), a) <= 0
         \/ Dot(u, a) <= 0 /\ Dot(Plus(v, Plus(u, u)), a) >= 0
  PROVE  Square(Plus(v, u)) <= Square(v)
<1> DEFINE x == Plus(v, Plus(u, u))
<1>1. /\ x \in Vectors /\ x[1] \in Int /\ x[2] \in Int
      /\ u[1] \in Int /\ u[2] \in Int /\ a[1] \in Int /\ a[2] \in Int
      /\ v[1] \in Int /\ v[2] \in Int
      /\ x[1] = v[1] + (u[1] + u[1]) /\ x[2] = v[2] + (u[2] + u[2])
      /\ Plus(v, u)[1] = v[1] + u[1] /\ Plus(v, u)[2] = v[2] + u[2]
  <2>1. x \in Vectors
    BY TwoSteps
  <2>2. x[1] \in Int /\ x[2] \in Int /\ a[1] \in Int /\ a[2] \in Int
    BY <2>1, VectorArithmetic
  <2> QED BY <2>1, <2>2, TwoSteps
<1>2. /\ Dot(x, a) \in Int /\ Dot(u, a) \in Int /\ Cross(x, a) \in Int /\ Dot(x, u) \in Int
      /\ Square(a) \in Nat /\ Square(u) \in Nat
  BY <1>1, VectorArithmetic
<1>3. Square(a) * Dot(x, u) = Dot(x, a) * Dot(u, a) + Cross(x, a) * Cross(u, a)
  BY <1>1, Lagrange DEF Square, Dot, Cross
<1>4. Dot(x, a) * Dot(u, a) <= 0
  BY <1>2, SignOfProduct
<1>5. Dot(x, u) <= 0
  <2>1. Square(a) * Dot(x, u) <= 0
    BY <1>2, <1>3, <1>4
  <2> QED BY <1>2, <2>1, SignOfFactor
<1>6. Square(Plus(v, u)) = Square(v) + 2 * Dot(x, u) - 3 * Square(u)
  BY <1>1 DEF Square, Dot
<1> QED BY <1>2, <1>5, <1>6, VectorArithmetic

(* The middle of two points of a ball is in the ball.                      *)
LEMMA MiddleOfBall ==
  ASSUME NEW v \in Vectors, NEW u \in Vectors, NEW n \in Nat,
         Square(v) <= n, Square(Plus(v, Plus(u, u))) <= n
  PROVE  Square(Plus(v, u)) <= n
<1> DEFINE x == Plus(v, Plus(u, u))
<1>1. /\ x \in Vectors /\ u[1] \in Int /\ u[2] \in Int
      /\ v[1] \in Int /\ v[2] \in Int
      /\ x[1] = v[1] + (u[1] + u[1]) /\ x[2] = v[2] + (u[2] + u[2])
      /\ Plus(v, u) \in Vectors
      /\ Plus(v, u)[1] = v[1] + u[1] /\ Plus(v, u)[2] = v[2] + u[2]
  BY TwoSteps
<1>2. /\ Square(v) \in Nat /\ Square(x) \in Nat /\ Square(u) \in Nat
      /\ Square(Plus(v, u)) \in Nat
  BY <1>1, VectorArithmetic
<1>4. Square(x) <= n
  OBVIOUS
<1> HIDE DEF x
<1>3. 2 * Square(Plus(v, u)) = Square(v) + Square(x) - 2 * Square(u)
  BY <1>1, SquareOfMiddle DEF Square, Dot
<1> QED BY <1>2, <1>3, <1>4

(* Every line through a point of the ball meets it.                        *)
LEMMA FromInsideMeets ==
  ASSUME NEW v \in Vectors, NEW a \in Vectors, Square(v) <= MaxVelocity * MaxVelocity
  PROVE  ~Misses(v, a) /\ ~Beyond(v, a)
<1> DEFINE n == MaxVelocity * MaxVelocity
<1>1. n \in Nat
  BY LimitsAssumption
<1>2. /\ v[1] \in Int /\ v[2] \in Int /\ a[1] \in Int /\ a[2] \in Int
      /\ Square(v) \in Nat /\ Square(a) \in Nat /\ Dot(v, a) \in Int /\ Cross(v, a) \in Int
  BY VectorArithmetic
<1>3. Square(v) * Square(a) = Dot(v, a) * Dot(v, a) + Cross(v, a) * Cross(v, a)
  BY <1>2 DEF Square, Dot, Cross
<1>4. Dot(v, a) * Dot(v, a) >= 0
  BY <1>2
<1>5. Cross(v, a) * Cross(v, a) <= Square(v) * Square(a)
  BY <1>2, <1>3, <1>4
<1> HIDE DEF n
<1>6. Square(v) * Square(a) <= n * Square(a)
  BY <1>1, <1>2 DEF n
<1>7. ~(Cross(v, a) * Cross(v, a) > n * Square(a))
  BY <1>1, <1>2, <1>5, <1>6
<1>8. ~(Square(v) > n)
  BY <1>1, <1>2 DEF n
<1> QED BY <1>7, <1>8 DEF Misses, Beyond, n

LEMMA LongestIsOne ==
  ASSUME NEW S \in SUBSET Vectors, S # {}, NEW bound \in Nat,
         \A u \in S : Square(u) <= bound
  PROVE  Longest(S) \in S
<1> DEFINE short == {k \in Nat : \E u \in S : k = bound - Square(u)}
<1>1. \A u \in S : Square(u) \in Nat /\ bound - Square(u) \in short
  BY VectorArithmetic
<1>2. PICK m \in short : \A k \in short : m <= k
  <2>1. short \in SUBSET Nat /\ short # {}
    BY <1>1
  <2> HIDE DEF short
  <2> QED BY <2>1, LeastNumber
<1>3. PICK u \in S : m = bound - Square(u)
  BY <1>2
<1>4. \A w \in S : Square(w) <= Square(u)
  <2> TAKE w \in S
  <2>1. bound - Square(w) \in short /\ Square(w) \in Nat /\ Square(u) \in Nat
    BY <1>1
  <2> HIDE DEF short
  <2> QED BY <1>2, <1>3, <2>1
<1>5. \E l \in S : \A w \in S : Square(w) <= Square(l)
  BY <1>4
<1> QED BY <1>5, Zenon DEF Longest

---------------------------------------------------------------------------
(* The limiter of a vector                                                 *)

LEMMA JerkIsLimited ==
  ASSUME NEW velocity \in Vectors, NEW last \in Vectors, NEW acceleration \in Vectors
  PROVE  /\ LimitJerk(velocity, last, acceleration) \in Vectors
         /\ Square(Minus(LimitJerk(velocity, last, acceleration), acceleration))
              <= MaxJerk * MaxJerk
<1> DEFINE jerk == Minus(Minus(velocity, last), acceleration)
           n == Square(jerk)
           short == [i \in Axes |-> Sign(jerk[i]) * Share(jerk[i], jerk)]
           j == IF n <= MaxJerk * MaxJerk THEN jerk ELSE short
<1>1. MaxJerk \in Nat /\ MaxJerk * MaxJerk \in Nat
  BY LimitsAssumption
<1>2. jerk \in Vectors /\ jerk[1] \in Int /\ jerk[2] \in Int /\ n \in Nat
  BY VectorArithmetic
<1>3. LimitJerk(velocity, last, acceleration) = Plus(acceleration, j)
  BY DEF LimitJerk
<1>4. j \in Vectors /\ Square(j) <= MaxJerk * MaxJerk
  <2>1. CASE n <= MaxJerk * MaxJerk
    BY <1>2, <2>1
  <2>2. CASE ~(n <= MaxJerk * MaxJerk)
    <3> DEFINE q(i) == (jerk[i] * jerk[i] * MaxJerk * MaxJerk) \div n
    <3>1. n > 0 /\ n \in Nat
      BY <1>1, <1>2, <2>2
    <3>2. ASSUME NEW i \in Axes
          PROVE  /\ q(i) \in Nat /\ n * q(i) <= jerk[i] * jerk[i] * MaxJerk * MaxJerk
                 /\ short[i] \in Int /\ short[i] * short[i] <= q(i)
      <4> DEFINE p == jerk[i] * jerk[i] * MaxJerk * MaxJerk
      <4>1. jerk[i] \in Int
        BY <1>2 DEF Vectors
      <4>2. p \in Nat
        <5>1. jerk[i] * jerk[i] \in Nat
          BY <4>1
        <5>2. jerk[i] * jerk[i] * MaxJerk \in Nat
          BY <1>1, <5>1
        <5> QED BY <1>1, <5>2
      <4> HIDE DEF p, n
      <4>3. p \div n \in Nat /\ n * (p \div n) <= p
        BY <3>1, <4>2
      <4>4. /\ SquareRoot(p \div n) \in Nat
            /\ SquareRoot(p \div n) * SquareRoot(p \div n) <= p \div n
        BY <4>3, SquareRootIsNat
      <4>5. Share(jerk[i], jerk) = SquareRoot(p \div n)
        BY DEF Share, p, n
      <4>6. Sign(jerk[i]) \in {-1, 0, 1}
        BY DEF Sign
      <4>7. short[i] = Sign(jerk[i]) * SquareRoot(p \div n)
        BY <4>5
      <4> HIDE DEF short, jerk
      <4>8. short[i] \in Int /\ short[i] * short[i] <= p \div n
        BY <4>3, <4>4, <4>6, <4>7
      <4> QED BY <4>3, <4>8 DEF p
    <3>3. short \in Vectors
      <4>1. short = [i \in Axes |-> short[i]]
        OBVIOUS
      <4> QED BY <3>2, <4>1 DEF Vectors
    <3>4. 1 \in Axes /\ 2 \in Axes
      BY DEF Axes
    <3> HIDE DEF short, q
    <3>5. /\ q(1) \in Nat /\ q(2) \in Nat
          /\ n * q(1) <= jerk[1] * jerk[1] * MaxJerk * MaxJerk
          /\ n * q(2) <= jerk[2] * jerk[2] * MaxJerk * MaxJerk
          /\ short[1] \in Int /\ short[2] \in Int
          /\ short[1] * short[1] <= q(1) /\ short[2] * short[2] <= q(2)
      BY <3>2, <3>4 DEF q
    <3>6. n = jerk[1] * jerk[1] + jerk[2] * jerk[2]
      BY DEF Square, Dot
    <3> HIDE DEF jerk, n
    <3>7. n * (q(1) + q(2)) <= n * (MaxJerk * MaxJerk)
      BY <1>1, <1>2, <3>1, <3>5, <3>6
    <3>8. q(1) + q(2) <= MaxJerk * MaxJerk
      BY <1>1, <3>1, <3>5, <3>7
    <3>9. Square(short) <= MaxJerk * MaxJerk
      BY <1>1, <3>5, <3>8 DEF Square, Dot
    <3> QED BY <2>2, <3>3, <3>9
  <2> QED BY <2>1, <2>2
<1> HIDE DEF j
<1>5. Plus(acceleration, j) \in Vectors
  BY <1>4, VectorArithmetic
<1>6. Minus(Plus(acceleration, j), acceleration) = j
  BY <1>4, ThereAndBack
<1> QED BY <1>3, <1>4, <1>5, <1>6

(* Between the last velocity and the next, there is a step of the vector   *)
(* limiter: along the acceleration, back, or all of it.                    *)
LEMMA TwistIsLimited ==
  ASSUME NEW velocity \in Vectors, NEW last \in Vectors, NEW acceleration \in Vectors
  PROVE  /\ LimitTwist(velocity, last, acceleration) \in Vectors
         /\ TwistKept(last, acceleration, LimitTwist(velocity, last, acceleration))
<1> DEFINE a == LimitJerk(velocity, last, acceleration)
           V == MaxVelocity * MaxVelocity
           A == MaxAcceleration * MaxAcceleration
           u == IF Misses(last, a) THEN a
                ELSE IF Beyond(last, a) THEN Longest(StepsBack(last, a))
                ELSE Longest(Steps(last, a))
           v == Plus(last, u)
<1>1. a \in Vectors /\ Square(Minus(a, acceleration)) <= MaxJerk * MaxJerk
  BY JerkIsLimited
<1>2. LimitTwist(velocity, last, acceleration) = v
  BY DEF LimitTwist
<1>3. V \in Nat /\ A \in Nat /\ MaxAcceleration \in Nat
  BY LimitsAssumption, AccelerationIsTwiceJerk
<1>4. Square(last) \in Nat /\ last[1] \in Int /\ last[2] \in Int
  BY VectorArithmetic
<1> HIDE DEF a
<1>5. CASE Misses(last, a)
  <2>1. u = a /\ u \in Vectors
    BY <1>1, <1>5
  <2>2. Square(last) > V
    BY <1>1, <1>3, <1>4, <1>5, FromInsideMeets
  <2> HIDE DEF u
  <2>3. v \in Vectors /\ Minus(v, last) = u
    BY <2>1, ThereAndBack
  <2> HIDE DEF v
  <2>4. ~(Square(last) <= V)
    BY <1>3, <1>4, <2>2
  <2> QED BY <1>1, <1>2, <1>5, <2>1, <2>3, <2>4 DEF TwistKept
<1>6. CASE ~Misses(last, a)
  <2>1. /\ u \in Vectors
        /\ Square(v) <= Square(last) \/ (Square(last) <= V /\ Square(v) <= V)
        /\ Square(last) <= V => Square(u) <= A
    <3>1. Zero \in Vectors /\ Square(Zero) = 0 /\ Dot(Zero, a) = 0 /\ Cross(Zero, a) = 0
          /\ Plus(last, Plus(Zero, Zero)) = last
      <4>1. Zero \in Vectors /\ Zero[1] = 0 /\ Zero[2] = 0 /\ a[1] \in Int /\ a[2] \in Int
        BY <1>1, ZeroIsVector, VectorArithmetic
      <4>2. Plus(last, Plus(Zero, Zero)) = [i \in Axes |-> last[i] + (0 + 0)]
        BY DEF Plus, Zero
      <4>3. [i \in Axes |-> last[i] + (0 + 0)] = [i \in Axes |-> last[i]]
        BY DEF Vectors
      <4> QED BY <4>1, <4>2, <4>3 DEF Square, Dot, Cross, Vectors
    <3>2. CASE Beyond(last, a)
      <4> DEFINE r == Norm(last[1]) + Norm(last[2])
      <4>1. r \in Nat
        BY <1>4 DEF Norm
      <4>2. Square(last) > V /\ Dot(last, a) > 0 /\ Dot(last, a) \in Int
        BY <1>1, <3>2, VectorArithmetic DEF Beyond
      <4>3. StepsBack(last, a) \in SUBSET Vectors
        BY <4>1 DEF StepsBack, Box, Vectors
      <4>4. Zero \in StepsBack(last, a)
        <5>1. Zero \in Box(r)
          BY <4>1 DEF Zero, Box
        <5> QED BY <1>3, <1>4, <3>1, <4>2, <5>1 DEF StepsBack
      <4>5. \A w \in StepsBack(last, a) : Square(w) <= 2 * (r * r)
        <5> TAKE w \in StepsBack(last, a)
        <5>1. w[1] \in -r .. r /\ w[2] \in -r .. r
          BY DEF StepsBack, Box, Axes
        <5> HIDE DEF r
        <5>2. w[1] * w[1] <= r * r /\ w[2] * w[2] <= r * r
          BY <4>1, <5>1
        <5>3. w[1] \in Int /\ w[2] \in Int
          BY <4>1, <5>1
        <5> QED BY <4>1, <5>2, <5>3 DEF Square, Dot
      <4>6. u \in StepsBack(last, a)
        <5>1. 2 * (r * r) \in Nat
          BY <4>1
        <5>2. Longest(StepsBack(last, a)) \in StepsBack(last, a)
          BY <4>3, <4>4, <4>5, <5>1, LongestIsOne
        <5> QED BY <1>6, <3>2, <5>2
      <4> HIDE DEF u, v
      <4>7. /\ u \in Vectors /\ Cross(u, a) = 0 /\ Dot(u, a) <= 0
            /\ Dot(Plus(last, Plus(u, u)), a) >= 0
        BY <4>3, <4>6 DEF StepsBack
      <4>8. Square(a) # 0
        <5>1. a[1] # 0 \/ a[2] # 0
          BY <1>4, <4>2 DEF Dot
        <5> QED BY <1>1, <5>1, NoLength
      <4>9. Square(v) <= Square(last)
        BY <1>1, <4>7, <4>8, StepTowardsZero DEF v
      <4> QED BY <1>3, <1>4, <4>2, <4>7, <4>9
    <3>3. CASE ~Beyond(last, a)
      <4>1. Square(last) <= V \/ Dot(last, a) <= 0
        BY <1>1, <1>3, <1>4, <3>3, VectorArithmetic DEF Beyond
      <4>2. Steps(last, a) \in SUBSET Vectors
        BY <1>3 DEF Steps, Box, Vectors
      <4>3. Zero \in Steps(last, a)
        <5>1. Zero \in Box(MaxAcceleration)
          BY <1>3 DEF Zero, Box
        <5>2. Square(a) \in Nat
          BY <1>1, VectorArithmetic
        <5> QED BY <1>3, <1>4, <3>1, <4>1, <5>1, <5>2 DEF Steps
      <4>4. \A w \in Steps(last, a) : Square(w) <= A
        BY DEF Steps
      <4>5. u \in Steps(last, a)
        <5>1. Longest(Steps(last, a)) \in Steps(last, a)
          BY <1>3, <4>2, <4>3, <4>4, LongestIsOne
        <5> QED BY <1>6, <3>3, <5>1
      <4> HIDE DEF u, v
      <4>6. /\ u \in Vectors /\ Cross(u, a) = 0 /\ Dot(u, a) >= 0
            /\ Square(u) <= Square(a) /\ Square(u) <= A
            /\ \/ Dot(Plus(last, Plus(u, u)), a) <= 0
               \/ Square(Plus(last, Plus(u, u))) <= V
        BY <4>2, <4>5 DEF Steps
      <4>7. CASE Dot(Plus(last, Plus(u, u)), a) <= 0 /\ Square(a) # 0
        <5>1. Square(v) <= Square(last)
          BY <1>1, <4>6, <4>7, StepTowardsZero DEF v
        <5> QED BY <4>6, <5>1
      <4>8. CASE Square(a) = 0
        <5>1. Square(u) = 0
          BY <4>6, <4>8, VectorArithmetic
        <5>2. u[1] = 0 /\ u[2] = 0
          BY <4>6, <5>1, NoLength
        <5>3. v[1] = last[1] /\ v[2] = last[2]
          BY <1>4, <4>6, <5>2, VectorArithmetic DEF v
        <5>4. Square(v) = Square(last)
          BY <5>3 DEF Square, Dot
        <5> QED BY <1>4, <4>6, <5>4
      <4>9. CASE Square(Plus(last, Plus(u, u))) <= V /\ Square(last) <= V
        <5>1. Square(v) <= V
          BY <1>3, <4>6, <4>9, MiddleOfBall DEF v
        <5> QED BY <4>6, <4>9, <5>1
      <4>10. CASE Square(Plus(last, Plus(u, u))) <= V /\ ~(Square(last) <= V)
        <5>1. Square(v) <= Square(last)
          <6>1. Square(last) \in Nat /\ Square(Plus(last, Plus(u, u))) <= Square(last)
            <7>1. Square(Plus(last, Plus(u, u))) \in Nat
              BY <4>6, TwoSteps, VectorArithmetic
            <7> QED BY <1>3, <1>4, <4>10, <7>1
          <6> QED BY <4>6, <6>1, MiddleOfBall DEF v
        <5> QED BY <4>6, <4>10, <5>1
      <4> QED BY <4>6, <4>7, <4>8, <4>9, <4>10
    <3> QED BY <3>2, <3>3
  <2> HIDE DEF u
  <2>2. v \in Vectors /\ Minus(v, last) = u
    BY <2>1, ThereAndBack
  <2> HIDE DEF v
  <2>3. Square(last) <= V => Square(v) <= V /\ Square(Minus(v, last)) <= A
    <3>1. Square(v) \in Nat
      BY <2>2, VectorArithmetic
    <3> QED BY <1>3, <1>4, <2>1, <2>2, <3>1
  <2>4. ~(Square(last) <= V) => Square(v) <= Square(last)
    BY <2>1
  <2> QED BY <1>2, <2>2, <2>3, <2>4 DEF TwistKept
<1> QED BY <1>5, <1>6

---------------------------------------------------------------------------
(* Torques                                                                 *)

LEMMA TorqueIsLimited ==
  ASSUME NEW t \in Int, NEW last \in Int
  PROVE  LimitTorque(t, last) \in Int /\ Norm(LimitTorque(t, last) - last) <= MaxTorqueRate
<1>1. MaxTorqueRate \in Nat
  BY LimitsAssumption
<1> QED BY <1>1 DEF LimitTorque, Clamp, Smaller, Larger, Norm

---------------------------------------------------------------------------
(* Types                                                                   *)

Value == Int \union {NaN}
VectorValue == Vectors \union {NaN}
AnyLoop == [api: {"loop", "active"}, kind: Kinds \union {"none"}, control: BOOLEAN,
            limit: BOOLEAN, filter: {"off", "on", "invalid"}]
AnyState == [time: Int, q: Vectors, v: Vectors, a: Vectors, tau: Int]
AnyMotion == [value: VectorValue, valid: BOOLEAN, round: Nat]
AnyPacket == [round: Nat, motion: AnyMotion, torque: Value, last: BOOLEAN,
              sends: SUBSET {"torque", "motion"}]

InLoop == {"control", "motion", "update"}
InActive == {"read", "write"}
Running == {"first", "finish"} \union InLoop \union InActive

LoopTypes ==
  /\ loop \in AnyLoop
  /\ pc \in Running \union {"connect", "unconnected", "idle", "cancel", "over"}
  /\ round \in Nat /\ motions \in Nat
  /\ state \in AnyState
  /\ initialized \in BOOLEAN
  /\ motion \in AnyMotion /\ torque \in Value
  /\ ended \in {"nothing", "control", "motion"}
  /\ packet \in AnyPacket
  /\ pc \in Running => loop \in Loops
  /\ pc = "control" => loop.control
  /\ pc = "motion" => loop.kind # "none"
  /\ pc \in InActive => loop.api = "active"

(* What a callback returns is a value, and so is its negative.             *)
LEMMA OutputsAreValues ==
  ASSUME NEW values \in SUBSET Nat
  PROVE  /\ BothWays(values) \union {NaN} \subseteq Value
         /\ [Axes -> BothWays(values)] \union {NaN} \subseteq VectorValue
<1>1. ASSUME NEW x \in values
      PROVE  x \in Int /\ -x \in Int
  OBVIOUS
<1>2. BothWays(values) \in SUBSET Int
  BY <1>1 DEF BothWays
<1>3. [Axes -> BothWays(values)] \subseteq Vectors
  BY <1>2 DEF Vectors
<1> QED BY <1>2, <1>3 DEF Value, VectorValue

LEMMA FilteredIsInt ==
  ASSUME NEW x \in Int, NEW last \in Int
  PROVE  LowPass(x, last) \in Int
<1>1. Half(x - last) \in Int
  BY HalfIsBetween
<1> QED BY <1>1 DEF LowPass

LEMMA FilteredIsVector ==
  ASSUME NEW x \in Vectors, NEW last \in Vectors
  PROVE  EachLowPass(x, last) \in Vectors /\ CartesianLowPass(x, last) \in Vectors
<1>1. \A i \in Axes : LowPass(x[i], last[i]) \in Int
  BY FilteredIsInt DEF Vectors
<1> QED BY <1>1 DEF EachLowPass, CartesianLowPass, Vectors

(* The limiter of two joints.                                              *)
LEMMA JointsAreLimited ==
  ASSUME NEW p \in Vectors, NEW x \in Vectors, NEW last \in Vectors, NEW a \in Vectors,
         NEW v, v = [i \in Axes |-> LimitVelocity(UpperLimit(p[i]), LowerLimit(p[i]), x[i],
                                                  last[i], a[i])]
  PROVE  /\ v \in Vectors
         /\ \A i \in Axes : JointKept(last[i], v[i], LowerLimit(p[i]), UpperLimit(p[i]))
<1>1. ASSUME NEW i \in Axes
      PROVE  v[i] \in Int /\ JointKept(last[i], v[i], LowerLimit(p[i]), UpperLimit(p[i]))
  <2>1. p[i] \in Int /\ x[i] \in Int /\ last[i] \in Int /\ a[i] \in Int
    BY DEF Vectors
  <2>2. UpperLimit(p[i]) \in Int /\ LowerLimit(p[i]) \in Int /\ LowerLimit(p[i]) <= UpperLimit(p[i])
    BY <2>1, BoundsAroundZero
  <2> QED BY <2>1, <2>2, VelocityIsLimited
<1> QED BY <1>1 DEF Vectors

(* The velocity of one cycle that a limited command stands for is kept.    *)
LEMMA ConvertedIsKept ==
  ASSUME LoopTypes, loop.kind # "none", NEW x \in Vectors,
         NEW valid, NEW r
  PROVE  /\ Converted(x) \in Vectors
         /\ loop.limit /\ (loop.kind \in Positions => initialized) =>
              VelocityKept(VelocityOf([value |-> Converted(x), valid |-> valid, round |-> r],
                                      state))
<1> DEFINE m == [value |-> Converted(x), valid |-> valid, round |-> r]
<1>1. /\ state.q \in Vectors /\ state.v \in Vectors /\ state.a \in Vectors
      /\ loop.limit \in BOOLEAN
      /\ loop.kind \in {"position", "pose", "velocity", "twist"}
  BY DEF LoopTypes, AnyState, AnyLoop, Kinds, Positions
<1>2. x # NaN
  BY LimitsAssumption DEF Vectors, Axes
<1>3. m.value = Converted(x)
  OBVIOUS
<1>4. Reference(x) \in Vectors /\ (initialized => Reference(x) = state.q)
  BY <1>1 DEF Reference
<1>6. CASE loop.kind = "position"
  <2> DEFINE ref == Reference(x)
             f == IF Filtered THEN EachLowPass(x, ref) ELSE x
             limited == LimitedPosition("position", f, ref)
             d == Minus(f, ref)
             v == [i \in Axes |-> LimitVelocity(UpperLimit(ref[i]), LowerLimit(ref[i]),
                                                d[i], state.v[i], state.a[i])]
  <2>1. f \in Vectors /\ d \in Vectors
    BY <1>4, FilteredIsVector, VectorArithmetic
  <2>2. Converted(x) = IF loop.limit THEN limited ELSE f
    BY <1>2, <1>6 DEF Converted, ConvertJointPositions
  <2>3. limited = Plus(ref, v)
    BY DEF LimitedPosition, LimitPosition, Plus, Minus
  <2> HIDE DEF f, d, ref
  <2>4. /\ v \in Vectors
        /\ \A i \in Axes : JointKept(state.v[i], v[i], LowerLimit(ref[i]), UpperLimit(ref[i]))
    BY <1>1, <1>4, <2>1, JointsAreLimited DEF ref
  <2> HIDE DEF v, limited, m
  <2>5. Converted(x) \in Vectors
    BY <1>1, <1>4, <2>1, <2>2, <2>3, <2>4, ThereAndBack DEF ref
  <2>6. ASSUME loop.limit, initialized
        PROVE  VelocityKept(VelocityOf(m, state))
    <3>1. VelocityOf(m, state) = Minus(Converted(x), state.q)
      BY <1>3, <1>6 DEF VelocityOf, Positions
    <3>2. VelocityOf(m, state) = v
      BY <1>1, <1>4, <2>2, <2>3, <2>4, <2>6, <3>1, ThereAndBack DEF ref
    <3> QED BY <1>4, <1>6, <2>4, <2>6, <3>2 DEF VelocityKept, ref
  <2> QED BY <1>6, <2>5, <2>6 DEF Positions, m
<1>7. CASE loop.kind = "pose"
  <2> DEFINE ref == Reference(x)
             f == IF Filtered THEN CartesianLowPass(x, ref) ELSE x
             limited == LimitedPosition("pose", f, ref)
             v == LimitTwist(Minus(f, ref), state.v, state.a)
  <2>1. f \in Vectors /\ Minus(f, ref) \in Vectors
    BY <1>4, FilteredIsVector, VectorArithmetic
  <2>2. Converted(x) = IF loop.limit THEN limited ELSE f
    BY <1>2, <1>7 DEF Converted, ConvertCartesianPose
  <2>3. limited = Plus(ref, v)
    BY DEF LimitedPosition, LimitPose
  <2> HIDE DEF f, ref
  <2>4. v \in Vectors /\ TwistKept(state.v, state.a, v)
    BY <1>1, <2>1, TwistIsLimited
  <2> HIDE DEF v, limited, m
  <2>5. Converted(x) \in Vectors
    BY <1>1, <1>4, <2>1, <2>2, <2>3, <2>4, ThereAndBack DEF ref
  <2>6. ASSUME loop.limit, initialized
        PROVE  VelocityKept(VelocityOf(m, state))
    <3>1. VelocityOf(m, state) = Minus(Converted(x), state.q)
      BY <1>3, <1>7 DEF VelocityOf, Positions
    <3>2. VelocityOf(m, state) = v
      BY <1>1, <1>4, <2>2, <2>3, <2>4, <2>6, <3>1, ThereAndBack DEF ref
    <3> QED BY <1>7, <2>4, <3>2 DEF VelocityKept
  <2> QED BY <1>7, <2>5, <2>6 DEF Positions, m
<1>8. CASE loop.kind = "velocity"
  <2> DEFINE f == IF Filtered THEN EachLowPass(x, state.v) ELSE x
             v == [i \in Axes |-> LimitVelocity(UpperLimit(state.q[i]), LowerLimit(state.q[i]),
                                                f[i], state.v[i], state.a[i])]
  <2>1. f \in Vectors
    BY <1>1, FilteredIsVector
  <2>2. Converted(x) = IF loop.limit THEN v ELSE f
    BY <1>2, <1>8 DEF Converted, ConvertJointVelocities, LimitedVelocity
  <2> HIDE DEF f
  <2>3. /\ v \in Vectors
        /\ \A i \in Axes : JointKept(state.v[i], v[i], LowerLimit(state.q[i]),
                                     UpperLimit(state.q[i]))
    BY <1>1, <2>1, JointsAreLimited
  <2> HIDE DEF v, m
  <2>4. VelocityOf(m, state) = Converted(x)
    BY <1>3, <1>8 DEF VelocityOf, Positions
  <2> QED BY <1>1, <1>8, <2>1, <2>2, <2>3, <2>4 DEF VelocityKept, m
<1>9. CASE loop.kind = "twist"
  <2> DEFINE f == IF Filtered THEN EachLowPass(x, state.v) ELSE x
             v == LimitTwist(f, state.v, state.a)
  <2>1. f \in Vectors
    BY <1>1, FilteredIsVector
  <2>2. Converted(x) = IF loop.limit THEN v ELSE f
    BY <1>2, <1>9 DEF Converted, ConvertCartesianVelocities, LimitedVelocity
  <2> HIDE DEF f
  <2>3. v \in Vectors /\ TwistKept(state.v, state.a, v)
    BY <1>1, <2>1, TwistIsLimited
  <2> HIDE DEF v, m
  <2>4. VelocityOf(m, state) = Converted(x)
    BY <1>3, <1>9 DEF VelocityOf, Positions
  <2> QED BY <1>1, <1>9, <2>1, <2>2, <2>3, <2>4 DEF VelocityKept, m
<1> QED BY <1>1, <1>6, <1>7, <1>8, <1>9

LEMMA TorqueIsKept ==
  ASSUME LoopTypes, NEW x \in Int
  PROVE  /\ ConvertTorque(x) \in Int
         /\ loop.limit => Norm(ConvertTorque(x) - state.tau) <= MaxTorqueRate
<1>1. state.tau \in Int
  BY DEF LoopTypes, AnyState
<1> DEFINE f == IF Filtered THEN LowPass(x, state.tau) ELSE x
<1>2. f \in Int
  BY <1>1, FilteredIsInt
<1>3. ConvertTorque(x) = IF loop.limit THEN LimitTorque(f, state.tau) ELSE f
  BY LimitsAssumption DEF ConvertTorque
<1> HIDE DEF f
<1> QED BY <1>1, <1>2, <1>3, TorqueIsLimited
(* What the robot does, with or without the packet, is a state.            *)
LEMMA AnswersAreStates ==
  ASSUME LoopTypes
  PROVE  /\ Answers(state) \subseteq AnyState
         /\ Stopped(state) \in AnyState /\ Waited(state) \in AnyState
         /\ \A s \in Answers(state) : s.time - state.time \in {1, 2}
         /\ Stopped(state).time = state.time + 1 /\ Waited(state).time = state.time + 1
<1>1. state \in AnyState
  BY DEF LoopTypes
<1>6. /\ state.time \in Int /\ state.q \in Vectors /\ state.v \in Vectors
      /\ state.a \in Vectors /\ state.tau \in Int
  BY <1>1 DEF AnyState
<1>9. ASSUME NEW s \in AnyState, NEW v \in Vectors
      PROVE  Moved(s, v) \in AnyState /\ Moved(s, v).time = s.time + 1
  <2> DEFINE t == s.time + 1
             q == Plus(s.q, v)
             a == Minus(v, s.v)
  <2>1. t \in Int /\ q \in Vectors /\ a \in Vectors
    <3>1. s.time \in Int /\ s.q \in Vectors /\ s.v \in Vectors
      BY DEF AnyState
    <3> QED BY <1>9, <3>1, VectorArithmetic
  <2>2. Moved(s, v) = [s EXCEPT !.time = t, !.q = q, !.v = v, !.a = a]
    BY Zenon DEF Moved
  <2> HIDE DEF t, q, a
  <2>3. Moved(s, v) \in AnyState /\ Moved(s, v).time = t
    BY <1>9, <2>1, <2>2 DEF AnyState
  <2> QED BY <2>3 DEF t
<1>2. ASSUME NEW s \in AnyState
      PROVE  Extrapolated(s) \in AnyState /\ Extrapolated(s).time = s.time + 1
  <2>1. s.v \in Vectors /\ s.a \in Vectors
    BY DEF AnyState
  <2>2. Plus(s.v, s.a) \in Vectors
    BY <2>1, VectorArithmetic
  <2> QED BY <1>9, <2>2 DEF Extrapolated
<1>3. Obeyed(state) \in AnyState /\ Obeyed(state).time = state.time + 1
  <2> DEFINE moves == loop.kind # "none" /\ motion.valid /\ motion.value # NaN
             moved == IF moves THEN Moved(state, VelocityOf(motion, state))
                      ELSE [state EXCEPT !.time = @ + 1]
  <2>1. moved \in AnyState /\ moved.time = state.time + 1
    <3>1. CASE moves
      <4>1. motion.value \in Vectors
        BY <3>1 DEF LoopTypes, AnyMotion, VectorValue
      <4>2. VelocityOf(motion, state) \in Vectors
        BY <1>6, <4>1, VectorArithmetic DEF VelocityOf
      <4> QED BY <1>1, <1>9, <3>1, <4>2
    <3>2. CASE ~moves
      BY <1>1, <3>2 DEF AnyState
    <3> QED BY <3>1, <3>2
  <2>2. Obeyed(state) = [moved EXCEPT !.tau = IF loop.control /\ torque # NaN THEN torque ELSE @]
    BY DEF Obeyed
  <2>3. torque # NaN => torque \in Int
    BY DEF LoopTypes, Value
  <2> HIDE DEF moved
  <2> QED BY <2>1, <2>2, <2>3 DEF AnyState
<1>4. Stopped(state) \in AnyState /\ Stopped(state).time = state.time + 1
  <2> DEFINE t == state.time + 1
             rest == Zero
  <2>1. t \in Int /\ rest \in Vectors
    BY <1>6, ZeroIsVector
  <2>2. Stopped(state) = [state EXCEPT !.time = t, !.v = rest, !.a = rest]
    BY Zenon DEF Stopped
  <2> HIDE DEF t, rest
  <2>3. Stopped(state) \in AnyState /\ Stopped(state).time = t
    BY <1>1, <2>1, <2>2 DEF AnyState
  <2> QED BY <2>3 DEF t
<1>5. Waited(state) \in AnyState /\ Waited(state).time = state.time + 1
  BY <1>1 DEF Waited, AnyState
<1>7. Extrapolated(state) \in AnyState /\ Extrapolated(state).time - state.time = 1
  BY <1>1, <1>2, <1>6
<1>8. /\ Extrapolated(Obeyed(state)) \in AnyState
      /\ Extrapolated(Obeyed(state)).time - state.time = 2
  BY <1>2, <1>3, <1>6
<1> QED BY <1>3, <1>4, <1>5, <1>6, <1>7, <1>8 DEF Answers

LEMMA StartingTypes ==
  /\ None \in AnyMotion /\ NoPacket \in AnyPacket /\ NoLoop \in AnyLoop
  /\ 0 \in Value
  /\ \A t \in Int, q \in [Axes -> Starts] : Standing(t, q) \in AnyState
<1>1. 0 \in Value /\ Zero \in VectorValue
  BY ZeroIsVector DEF Value, VectorValue
<1>2. None \in AnyMotion
  BY <1>1 DEF None, AnyMotion
<1>3. NoPacket \in AnyPacket
  BY <1>1, <1>2 DEF NoPacket, AnyPacket
<1>4. NoLoop \in AnyLoop
  BY DEF NoLoop, AnyLoop, Kinds, Positions
<1>5. \A t \in Int, q \in [Axes -> Starts] : Standing(t, q) \in AnyState
  <2>1. [Axes -> Starts] \subseteq Vectors
    BY LoopAssumption DEF Vectors
  <2> QED BY <2>1, ZeroIsVector DEF Standing, AnyState
<1> QED BY <1>1, <1>2, <1>3, <1>4, <1>5

LEMMA LoopInitTypes == Init => LoopTypes
<1> SUFFICES ASSUME Init
             PROVE  LoopTypes
  OBVIOUS
<1>1. state \in AnyState
  BY StartingTypes DEF Init
<1> QED BY <1>1, StartingTypes DEF Init, LoopTypes, Running, InLoop, InActive, Loops

LEMMA ZeroMotionIsMotion ==
  ASSUME NEW kind
  PROVE  /\ ZeroMotion(kind) = [value |-> Zero, valid |-> kind # "pose", round |-> 0]
         /\ ZeroMotion(kind) \in AnyMotion
<1>1. ZeroMotion(kind) = [value |-> Zero, valid |-> kind # "pose", round |-> 0]
  BY DEF ZeroMotion, None
<1>2. (kind # "pose") \in BOOLEAN
  OBVIOUS
<1> QED BY <1>1, <1>2, ZeroIsVector DEF AnyMotion, VectorValue

LEMMA LoopStepTypes == LoopTypes /\ [Next]_loopVars => LoopTypes'
<1> SUFFICES ASSUME LoopTypes, [Next]_loopVars
             PROVE  LoopTypes'
  OBVIOUS
<1> USE DEF Running, InLoop, InActive
<1>1. CASE Connect
  BY <1>1 DEF LoopTypes, Connect
<1>2. CASE ConstructRefused
  BY <1>2 DEF LoopTypes, ConstructRefused
<1>3. CASE Start
  BY <1>3, AnswersAreStates DEF LoopTypes, Start, Construct, Loops, AnyLoop
<1>4. CASE StartFails
  BY <1>4, AnswersAreStates DEF LoopTypes, StartFails, Construct, Loops, AnyLoop
<1>5. CASE FirstState
  <2>1. ZeroMotion(loop.kind) \in AnyMotion
    BY ZeroMotionIsMotion
  <2>2. pc' \in {FirstCommand, "cancel"} /\ round' \in {1, round}
        /\ motion' \in {ZeroMotion(loop.kind), motion}
    BY <1>5 DEF FirstState, Throw
  <2>3. loop \in Loops
    BY <1>5 DEF LoopTypes, FirstState
  <2> QED BY <1>5, <2>1, <2>2, <2>3, AnswersAreStates
          DEF LoopTypes, FirstState, FirstCommand, Loops
<1>6. CASE CreateControlCommand
  <2>1. ASSUME NEW value \in BothWays(Torques) \union {NaN}, ~TorqueThrows(value)
        PROVE  ConvertTorque(value) \in Value
    <3>1. value \in Int
      BY <2>1, OutputsAreValues, LoopAssumption DEF TorqueThrows, Value
    <3> QED BY <3>1, TorqueIsKept DEF Value
  <2>2. torque' \in Value /\ ended' \in {"nothing", "control", "motion"}
        /\ pc' \in {"cancel", "finish", "motion", "update"}
    BY <1>6, <2>1 DEF LoopTypes, CreateControlCommand
  <2> QED BY <1>6, <2>2 DEF LoopTypes, CreateControlCommand
<1>7. CASE CallbackThrows
  BY <1>7 DEF LoopTypes, CallbackThrows
<1>8. CASE CreateMotionCommand
  <2>1. PICK output \in Outputs(loop.kind), finished \in Finishes :
          IF MotionThrows(output)
            THEN pc' = "cancel" /\ UNCHANGED <<motion, ended>>
            ELSE /\ motion' = [value |-> Converted(output.value),
                               valid |-> ValidAfter(output.matrix), round |-> round]
                 /\ ended' = IF finished THEN "motion" ELSE "nothing"
                 /\ pc' = IF finished THEN "finish" ELSE "update"
    BY <1>8, Zenon DEF CreateMotionCommand
  <2>2. output.value \in VectorValue /\ output.matrix \in BOOLEAN
    BY OutputsAreValues, LoopAssumption DEF Outputs
  <2>3. CASE MotionThrows(output)
    BY <1>8, <2>1, <2>3 DEF LoopTypes, CreateMotionCommand
  <2>4. CASE ~MotionThrows(output)
    <3>1. output.value \in Vectors
      BY <2>2, <2>4 DEF MotionThrows, VectorValue
    <3>2. Converted(output.value) \in VectorValue
      <4>1. loop.kind # "none"
        BY <1>8 DEF LoopTypes, CreateMotionCommand
      <4> QED BY <3>1, <4>1, ConvertedIsKept DEF VectorValue
    <3>3. ValidAfter(output.matrix) \in BOOLEAN
      BY <2>2 DEF ValidAfter
    <3>4. motion' \in AnyMotion
      BY <2>1, <2>4, <3>2, <3>3 DEF AnyMotion, LoopTypes
    <3> QED BY <1>8, <2>1, <2>4, <3>4 DEF LoopTypes, CreateMotionCommand
  <2> QED BY <2>3, <2>4
<1>9. CASE UpdateMotion
  <2>1. packet' \in AnyPacket
    BY <1>9 DEF UpdateMotion, LoopTypes, Packet, Sends, AnyPacket
  <2>2. state' \in AnyState
    BY <1>9, AnswersAreStates DEF UpdateMotion
  <2>3. pc' \in {FirstCommand, "cancel"} /\ round' \in {round + 1, round}
    BY <1>9 DEF UpdateMotion, Throw
  <2>4. loop \in Loops
    BY <1>9 DEF LoopTypes, UpdateMotion
  <2>5. /\ pc' \in {"control", "motion", "cancel"} /\ round' \in Nat
        /\ pc' = "control" => loop.control
        /\ pc' = "motion" => loop.kind # "none"
    BY <2>3, <2>4 DEF LoopTypes, FirstCommand, Loops
  <2> QED BY <1>9, <2>1, <2>2, <2>4, <2>5 DEF LoopTypes, UpdateMotion
<1>10. CASE FinishMotion
  <2>1. packet' \in AnyPacket
    BY <1>10 DEF FinishMotion, LoopTypes, Packet, Sends, AnyPacket
  <2> QED BY <1>10, <2>1, AnswersAreStates DEF LoopTypes, FinishMotion, Throw
<1>11. CASE CancelMotion
  BY <1>11, AnswersAreStates DEF LoopTypes, CancelMotion
<1>12. CASE ReadOnce
  <2>1. state' \in AnyState
    BY <1>12, AnswersAreStates DEF ReadOnce
  <2> QED BY <1>12, <2>1 DEF LoopTypes, ReadOnce, Throw
<1>13. CASE WriteOnce
  <2>1. PICK output \in Outputs(loop.kind), value \in BothWays(Torques) \union {NaN},
          finished \in Finishes :
          IF \/ loop.kind # "none" /\ MotionThrows(output)
             \/ loop.control /\ TorqueThrows(value)
            THEN pc' = "cancel" /\ UNCHANGED <<motion, torque, ended, packet>>
            ELSE /\ motion' = IF loop.kind = "none" THEN None
                              ELSE [value |-> output.value, valid |-> output.matrix,
                                    round |-> round]
                 /\ torque' = IF loop.control THEN value ELSE 0
                 /\ IF finished
                      THEN pc' = "finish" /\ ended' = "motion" /\ UNCHANGED packet
                      ELSE /\ pc' = "read" /\ ended' = "nothing"
                           /\ packet' = [round |-> round, motion |-> motion', torque |-> torque',
                                         last |-> FALSE, sends |-> Sends]
    BY <1>13, Zenon DEF WriteOnce
  <2>2. output.value \in VectorValue /\ output.matrix \in BOOLEAN /\ value \in Value
    BY OutputsAreValues, LoopAssumption DEF Outputs
  <2>3. motion' \in AnyMotion /\ torque' \in Value
    <3>1. [value |-> output.value, valid |-> output.matrix, round |-> round] \in AnyMotion
      BY <2>2 DEF AnyMotion, LoopTypes
    <3> QED BY <2>1, <2>2, <3>1, StartingTypes DEF LoopTypes
  <2>4. packet' \in AnyPacket
    <3>1. Sends \in SUBSET {"torque", "motion"}
      BY DEF Sends
    <3>2. [round |-> round, motion |-> motion', torque |-> torque', last |-> FALSE,
           sends |-> Sends] \in AnyPacket
      BY <2>3, <3>1 DEF LoopTypes, AnyPacket
    <3>3. packet' \in {packet, [round |-> round, motion |-> motion', torque |-> torque',
                                last |-> FALSE, sends |-> Sends]}
      BY <2>1
    <3> QED BY <3>2, <3>3 DEF LoopTypes
  <2>5. /\ pc' \in {"cancel", "finish", "read"}
        /\ ended' \in {"nothing", "control", "motion"}
    BY <2>1 DEF LoopTypes
  <2> QED BY <1>13, <2>3, <2>4, <2>5 DEF LoopTypes, WriteOnce
<1>14. CASE Again
  <2>1. state' \in AnyState
    <3>1. 1 + 2 * MaxTime * motions \in Int
      BY LoopAssumption DEF LoopTypes
    <3> QED BY <1>14, <3>1, StartingTypes DEF Again
  <2> QED BY <1>14, <2>1, StartingTypes DEF LoopTypes, Again
<1>15. CASE UNCHANGED loopVars
  BY <1>15 DEF LoopTypes, loopVars
<1> QED BY <1>1, <1>2, <1>3, <1>4, <1>5, <1>6, <1>7, <1>8, <1>9, <1>10, <1>11, <1>12, <1>13,
        <1>14, <1>15 DEF Next
---------------------------------------------------------------------------
(* Limits                                                                  *)

TorqueKept == loop.control => Norm(torque - state.tau) <= MaxTorqueRate

MotionKept ==
  \/ loop.kind = "none"
  \/ loop.kind \in Positions /\ round = 1
  \/ VelocityKept(VelocityOf(motion, state))

(* A position is limited against the last one as soon as there was one,    *)
(* and the torque of a round was limited before its motion command.        *)
LimitsInv ==
  /\ pc \in InLoop => round # 0
  /\ loop.kind \in Positions /\ pc \in {"control", "motion"} /\ round # 1 => initialized
  /\ loop.kind \in Positions /\ pc = "update" => initialized
  /\ loop.limit /\ (pc = "motion" \/ TorqueReady) => TorqueKept
  /\ loop.limit /\ MotionReady => MotionKept

LEMMA LimitsStep == LoopTypes /\ LimitsInv /\ [Next]_loopVars => LimitsInv'
<1> SUFFICES ASSUME LoopTypes, LimitsInv, [Next]_loopVars
             PROVE  LimitsInv'
  OBVIOUS
<1>1. ASSUME pc' \notin InLoop, pc' = "finish" => packet'.round = round' \/ ~loop'.limit
      PROVE  LimitsInv'
  BY <1>1 DEF LimitsInv, InLoop, TorqueReady, MotionReady
<1>2. CASE Connect \/ ConstructRefused \/ Start \/ StartFails \/ CallbackThrows
           \/ CancelMotion \/ ReadOnce \/ Again
  <2>1. pc' \notin InLoop /\ pc' # "finish"
    BY <1>2 DEF Connect, ConstructRefused, Start, StartFails, CallbackThrows,
       CancelMotion, ReadOnce, Again, Throw, InLoop
  <2> QED BY <1>1, <2>1
<1>8. CASE FinishMotion
  <2>1. pc' \in {"finish", "over", "cancel"}
    BY <1>8 DEF FinishMotion, Throw
  <2>2. packet' = Packet(TRUE) /\ round' = round
    BY <1>8 DEF FinishMotion
  <2> QED BY <1>1, <2>1, <2>2 DEF InLoop, Packet
<1>9. CASE WriteOnce
  <2>1. pc' \in {"finish", "cancel", "read"} /\ pc = "write" /\ loop' = loop
    BY <1>9 DEF WriteOnce
  <2>2. ~loop.limit
    BY <2>1 DEF LoopTypes, Running, InActive, Loops
  <2> QED BY <1>1, <2>1, <2>2 DEF InLoop
<1>3. CASE FirstState
  <2>1. CASE pc' = "cancel"
    BY <1>1, <2>1 DEF InLoop
  <2>2. CASE pc' # "cancel"
    <3>1. pc' = FirstCommand /\ round' = 1 /\ loop' = loop
      BY <1>3, <2>2 DEF FirstState, Throw
    <3>2. pc' \in {"control", "motion"} /\ (pc' = "motion" => ~loop'.control)
      BY <3>1 DEF FirstCommand
    <3> QED BY <3>1, <3>2 DEF LimitsInv, TorqueKept, TorqueReady, MotionReady
  <2> QED BY <2>1, <2>2
<1>4. CASE CreateControlCommand
  <2>1. PICK value \in BothWays(Torques) \union {NaN}, finished \in Finishes \union {FALSE} :
          IF TorqueThrows(value)
            THEN pc' = "cancel" /\ UNCHANGED <<torque, ended>>
            ELSE /\ torque' = ConvertTorque(value)
                 /\ (loop.kind = "none" /\ round = MaxRounds) => finished
                 /\ ended' = IF finished THEN "control" ELSE "nothing"
                 /\ pc' = IF finished THEN "finish"
                          ELSE IF loop.kind # "none" THEN "motion" ELSE "update"
    BY <1>4, Zenon DEF CreateControlCommand
  <2>2. CASE TorqueThrows(value)
    BY <1>1, <2>1, <2>2 DEF InLoop
  <2>3. CASE ~TorqueThrows(value)
    <3>1. value \in Int
      BY <2>3, OutputsAreValues, LoopAssumption DEF TorqueThrows, Value
    <3>2. torque' = ConvertTorque(value)
          /\ (loop.limit => Norm(ConvertTorque(value) - state.tau) <= MaxTorqueRate)
      BY <2>1, <2>3, <3>1, TorqueIsKept
    <3>3. /\ pc' \in {"motion", "update", "finish"} /\ (pc' = "update" => loop.kind = "none")
          /\ pc' = "finish" => ended' = "control"
          /\ pc = "control" /\ round' = round /\ loop' = loop /\ state' = state
          /\ initialized' = initialized
      BY <1>4, <2>1, <2>3 DEF CreateControlCommand
    <3>4. loop'.limit => TorqueKept'
      BY <3>2, <3>3 DEF TorqueKept
    <3> QED BY <3>3, <3>4 DEF LimitsInv, MotionKept, MotionReady, TorqueReady, InLoop,
          Positions
  <2> QED BY <2>2, <2>3
<1>5. CASE CreateMotionCommand
  <2>1. PICK output \in Outputs(loop.kind), finished \in Finishes :
          IF MotionThrows(output)
            THEN pc' = "cancel" /\ UNCHANGED <<motion, ended>>
            ELSE /\ motion' = [value |-> Converted(output.value),
                               valid |-> ValidAfter(output.matrix), round |-> round]
                 /\ ended' = IF finished THEN "motion" ELSE "nothing"
                 /\ pc' = IF finished THEN "finish" ELSE "update"
    BY <1>5, Zenon DEF CreateMotionCommand
  <2>2. CASE MotionThrows(output)
    BY <1>1, <2>1, <2>2 DEF InLoop
  <2>3. CASE ~MotionThrows(output)
    <3>1. output.value \in Vectors
      <4>1. output.value \in VectorValue
        BY OutputsAreValues, LoopAssumption DEF Outputs
      <4> QED BY <2>3, <4>1 DEF MotionThrows, VectorValue
    <3>2. /\ pc = "motion" /\ pc' \in {"update", "finish"} /\ round' = round /\ loop' = loop /\ state' = state
          /\ torque' = torque /\ initialized' = (initialized \/ loop.kind \in Positions)
          /\ motion' = [value |-> Converted(output.value),
                        valid |-> ValidAfter(output.matrix), round |-> round]
      BY <1>5, <2>1, <2>3 DEF CreateMotionCommand
    <3>3. loop.kind # "none"
      BY <3>2 DEF LoopTypes
    <3>4. loop.limit /\ ~(loop.kind \in Positions /\ round = 1) =>
            VelocityKept(VelocityOf([value |-> Converted(output.value),
                                     valid |-> ValidAfter(output.matrix), round |-> round],
                                    state))
      BY <3>1, <3>2, <3>3, ConvertedIsKept DEF LimitsInv
    <3>5. VelocityKept(VelocityOf(motion, state))' =
            VelocityKept(VelocityOf([value |-> Converted(output.value),
                                     valid |-> ValidAfter(output.matrix), round |-> round],
                                    state))
      BY <3>2 DEF VelocityKept, VelocityOf
    <3>6. loop'.limit => MotionKept'
      BY <3>2, <3>4, <3>5 DEF MotionKept
    <3>7. loop'.limit => TorqueKept'
      BY <3>2 DEF LimitsInv, TorqueKept
    <3> QED BY <3>2, <3>6, <3>7 DEF LimitsInv, InLoop
  <2> QED BY <2>2, <2>3
<1>6. CASE UpdateMotion
  <2>1. CASE pc' = "cancel"
    BY <1>1, <2>1 DEF InLoop
  <2>2. CASE pc' # "cancel"
    <3>1. /\ pc = "update" /\ pc' = FirstCommand /\ round' = round + 1 /\ loop' = loop
          /\ initialized' = initialized
      BY <1>6, <2>2 DEF UpdateMotion, Throw
    <3>2. pc' \in {"control", "motion"} /\ (pc' = "motion" => ~loop'.control)
      BY <3>1 DEF FirstCommand
    <3>3. round' # 0
      BY <3>1 DEF LoopTypes
    <3> QED BY <3>1, <3>2, <3>3 DEF LimitsInv, TorqueKept, TorqueReady, MotionReady
  <2> QED BY <2>1, <2>2
<1>7. CASE UNCHANGED loopVars
  <2>1. /\ TorqueKept' = TorqueKept
        /\ MotionKept' = MotionKept
    BY <1>7 DEF loopVars, TorqueKept, MotionKept, VelocityKept, VelocityOf
  <2> QED BY <1>7, <2>1 DEF LimitsInv, loopVars, TorqueReady, MotionReady
<1> QED BY <1>2, <1>3, <1>4, <1>5, <1>6, <1>7, <1>8, <1>9 DEF Next
---------------------------------------------------------------------------
(* The age of what is sent                                                 *)

Checked(m) == m.value # NaN /\ m.valid

MadeNow == motion.round = round /\ Checked(motion)

MadeBefore ==
  /\ round = 1 => motion = ZeroMotion(loop.kind)
  /\ round # 1 => motion.round = round - 1 /\ Checked(motion)

(* A motion command is made after the control command of its round.        *)
MotionInv ==
  loop.kind # "none" =>
    /\ pc \in {"control", "motion"} => MadeBefore
    /\ pc = "update" => MadeNow
    /\ pc = "finish" /\ ended = "control" => loop.control /\ MadeBefore
    /\ pc = "finish" /\ ended # "control" => MadeNow

(* Nothing follows a packet with the finished flag but its repetition.     *)
PacketInv ==
  /\ pc \in {"connect", "unconnected", "idle"} => packet = NoPacket
  /\ packet.last => pc \in {"finish", "over", "cancel"}
  /\ MotionIsCurrent

CurrentInv == LimitsInv /\ MotionInv /\ PacketInv

LEMMA CheckedMotion ==
  ASSUME LoopTypes, NEW output \in Outputs(loop.kind), ~MotionThrows(output),
         loop.kind # "none"
  PROVE  /\ Converted(output.value) # NaN /\ ValidAfter(output.matrix)
         /\ loop.api = "active" /\ loop \in Loops => output.value # NaN /\ output.matrix
<1>1. output.value \in Vectors
  <2>1. output.value \in VectorValue
    BY OutputsAreValues, LoopAssumption DEF Outputs
  <2> QED BY <2>1 DEF MotionThrows, VectorValue
<1>2. Converted(output.value) # NaN
  BY <1>1, ConvertedIsKept, LimitsAssumption DEF Vectors, Axes
<1>3. ValidAfter(output.matrix) /\ output.value # NaN
  BY DEF MotionThrows
<1>4. ASSUME loop.api = "active", loop \in Loops
      PROVE  output.matrix
  BY <1>3, <1>4 DEF ValidAfter, Filtered, Loops
<1> QED BY <1>2, <1>3, <1>4

LEMMA MotionStep == LoopTypes /\ CurrentInv /\ [Next]_loopVars => MotionInv'
<1> SUFFICES ASSUME LoopTypes, CurrentInv, [Next]_loopVars
             PROVE  MotionInv'
  OBVIOUS
<1> USE DEF CurrentInv
<1>1. ASSUME pc' \notin {"control", "motion", "update", "finish"}
      PROVE  MotionInv'
  BY <1>1 DEF MotionInv
<1>2. CASE Connect \/ ConstructRefused \/ Start \/ StartFails \/ CallbackThrows \/ CancelMotion
           \/ ReadOnce \/ Again
  <2>1. pc' \notin {"control", "motion", "update", "finish"}
    BY <1>2 DEF Connect, ConstructRefused, Start, StartFails, CallbackThrows, CancelMotion,
       ReadOnce, Again, Throw
  <2> QED BY <1>1, <2>1
<1>3. CASE FirstState
  <2>1. CASE pc' = "cancel"
    BY <1>1, <2>1
  <2>2. CASE pc' # "cancel"
    <3>1. /\ pc' = FirstCommand /\ round' = 1 /\ loop' = loop
          /\ motion' = ZeroMotion(loop.kind)
      BY <1>3, <2>2 DEF FirstState, Throw
    <3>2. pc' \in {"control", "motion"}
      BY <3>1 DEF FirstCommand
    <3> QED BY <3>1, <3>2 DEF MotionInv, MadeBefore, ZeroMotion
  <2> QED BY <2>1, <2>2
<1>4. CASE CreateControlCommand
  <2>1. /\ pc' \in {"cancel", "finish", "motion", "update"}
        /\ pc' = "finish" => ended' = "control"
        /\ pc' = "update" => loop.kind = "none"
    BY <1>4 DEF CreateControlCommand
  <2>2. /\ pc = "control" /\ round' = round /\ loop' = loop /\ motion' = motion
    BY <1>4 DEF CreateControlCommand
  <2>3. MadeBefore' = MadeBefore
    BY <2>2 DEF MadeBefore, Checked, ZeroMotion
  <2>4. loop.control
    BY <2>2 DEF LoopTypes
  <2> QED BY <2>1, <2>2, <2>3, <2>4 DEF MotionInv
<1>5. CASE CreateMotionCommand
  <2>1. PICK output \in Outputs(loop.kind), finished \in Finishes :
          IF MotionThrows(output)
            THEN pc' = "cancel" /\ UNCHANGED <<motion, ended>>
            ELSE /\ motion' = [value |-> Converted(output.value),
                               valid |-> ValidAfter(output.matrix), round |-> round]
                 /\ ended' = IF finished THEN "motion" ELSE "nothing"
                 /\ pc' = IF finished THEN "finish" ELSE "update"
    BY <1>5, Zenon DEF CreateMotionCommand
  <2>2. CASE MotionThrows(output)
    BY <1>1, <2>1, <2>2
  <2>3. CASE ~MotionThrows(output)
    <3>1. pc = "motion" /\ round' = round /\ loop.kind # "none"
      BY <1>5 DEF CreateMotionCommand, LoopTypes
    <3>2. motion' = [value |-> Converted(output.value),
                     valid |-> ValidAfter(output.matrix), round |-> round]
          /\ ended' # "control" /\ pc' \in {"finish", "update"}
      BY <2>1, <2>3
    <3>3. MadeNow'
      BY <2>3, <3>1, <3>2, CheckedMotion DEF MadeNow, Checked
    <3> QED BY <3>2, <3>3 DEF MotionInv
  <2> QED BY <2>2, <2>3
<1>6. CASE UpdateMotion
  <2>1. CASE pc' = "cancel"
    BY <1>1, <2>1
  <2>2. CASE pc' # "cancel"
    <3>1. /\ pc = "update" /\ pc' = FirstCommand /\ round' = round + 1 /\ loop' = loop
          /\ motion' = motion
      BY <1>6, <2>2 DEF UpdateMotion, Throw
    <3>2. pc' \in {"control", "motion"}
      BY <3>1 DEF FirstCommand
    <3>3. round' # 1 /\ round' - 1 = round
      BY <3>1 DEF LoopTypes, LimitsInv, InLoop
    <3>4. loop.kind # "none" => MadeNow
      BY <3>1 DEF MotionInv
    <3> QED BY <3>1, <3>2, <3>3, <3>4 DEF MotionInv, MadeNow, MadeBefore, Checked
  <2> QED BY <2>1, <2>2
<1>7. CASE FinishMotion
  <2>1. CASE pc' # "finish"
    <3>1. pc' \in {"over", "cancel"}
      BY <1>7, <2>1 DEF FinishMotion, Throw
    <3> QED BY <1>1, <3>1
  <2>2. CASE pc' = "finish"
    <3>1. pc = "finish" /\ UNCHANGED <<loop, round, motion, ended>>
      BY <1>7 DEF FinishMotion
    <3>2. MadeBefore' = MadeBefore /\ MadeNow' = MadeNow
      BY <3>1 DEF MadeBefore, MadeNow, Checked, ZeroMotion
    <3> QED BY <2>2, <3>1, <3>2 DEF MotionInv
  <2> QED BY <2>1, <2>2
<1>8. CASE WriteOnce
  <2>1. CASE pc' # "finish"
    <3>1. pc' \in {"read", "cancel"}
      BY <1>8, <2>1 DEF WriteOnce
    <3> QED BY <1>1, <3>1
  <2>2. CASE pc' = "finish"
    <3>1. /\ pc = "write" /\ round' = round /\ loop' = loop /\ ended' = "motion"
          /\ \E output \in Outputs(loop.kind) :
               loop.kind # "none" =>
                 /\ ~MotionThrows(output)
                 /\ motion' = [value |-> output.value, valid |-> output.matrix, round |-> round]
      BY <1>8, <2>2 DEF WriteOnce
    <3>2. loop.api = "active" /\ loop \in Loops
      BY <3>1 DEF LoopTypes, InActive, Running
    <3>3. loop.kind # "none" => MadeNow'
      BY <3>1, <3>2, CheckedMotion DEF MadeNow, Checked
    <3> QED BY <2>2, <3>1, <3>3 DEF MotionInv
  <2> QED BY <2>1, <2>2
<1>9. CASE UNCHANGED loopVars
  <2>1. MadeBefore' = MadeBefore /\ MadeNow' = MadeNow
    BY <1>9 DEF loopVars, MadeBefore, MadeNow, Checked, ZeroMotion
  <2> QED BY <1>9, <2>1 DEF loopVars, MotionInv
<1> QED BY <1>2, <1>3, <1>4, <1>5, <1>6, <1>7, <1>8, <1>9 DEF Next

(* A packet that carries a motion command made now is current, whatever    *)
(* callback ends the loop next.                                            *)
LEMMA SentNow ==
  ASSUME packet'.motion.round = packet'.round, Checked(packet'.motion)
  PROVE  MotionIsCurrent'
BY DEF MotionIsCurrent, Checked

LEMMA PacketKept ==
  ASSUME LoopTypes, PacketInv, packet' = packet, ~packet.last
  PROVE  MotionIsCurrent'
BY DEF PacketInv, MotionIsCurrent

LEMMA PacketStep == LoopTypes /\ CurrentInv /\ [Next]_loopVars => PacketInv'
<1> SUFFICES ASSUME LoopTypes, CurrentInv, [Next]_loopVars
             PROVE  PacketInv'
  OBVIOUS
<1> USE DEF CurrentInv
<1>1. ~NoPacket.last /\ NoPacket.sends = {}
  BY DEF NoPacket
<1>2. CASE Connect \/ ConstructRefused \/ Start \/ StartFails \/ FirstState
           \/ CreateControlCommand \/ CallbackThrows \/ CreateMotionCommand \/ ReadOnce
  <2>1. /\ packet' = packet
        /\ pc \in {"connect", "idle", "first", "control", "motion", "read", "write"}
        /\ pc' \in {"connect", "unconnected", "idle"} => pc = "connect"
    BY <1>2 DEF Connect, ConstructRefused, Start, StartFails, FirstState, FirstCommand,
       CreateControlCommand, CallbackThrows, CreateMotionCommand, ReadOnce, Throw, Construct
  <2>2. ~packet.last
    BY <2>1 DEF PacketInv
  <2> QED BY <2>1, <2>2, PacketKept DEF PacketInv
<1>3. CASE UpdateMotion
  <2>1. /\ pc = "update" /\ packet' = Packet(FALSE)
        /\ pc' \in {FirstCommand, "cancel"}
    BY <1>3 DEF UpdateMotion, Throw
  <2>2. /\ packet'.motion = motion /\ packet'.round = round /\ ~packet'.last
        /\ packet'.sends = Sends
    BY <2>1 DEF Packet
  <2>3. "motion" \in Sends => loop.kind # "none"
    BY DEF Sends
  <2>4. MotionIsCurrent'
    <3>1. CASE "motion" \in Sends
      BY <2>1, <2>2, <2>3, <3>1, SentNow DEF MotionInv, MadeNow
    <3>2. CASE "motion" \notin Sends
      BY <2>2, <3>2 DEF MotionIsCurrent
    <3> QED BY <3>1, <3>2
  <2> QED BY <2>1, <2>2, <2>4 DEF PacketInv, FirstCommand
<1>4. CASE FinishMotion
  <2>1. /\ pc = "finish" /\ packet' = Packet(TRUE)
        /\ pc' \in {"finish", "over", "cancel"}
        /\ UNCHANGED <<loop, round, motion, ended>>
    BY <1>4 DEF FinishMotion, Throw
  <2>2. /\ packet'.motion = motion /\ packet'.round = round /\ packet'.last
        /\ packet'.sends = Sends
    BY <2>1 DEF Packet
  <2>3. "motion" \in Sends => loop.kind # "none"
    BY DEF Sends
  <2>4. MotionIsCurrent'
    <3>1. CASE "motion" \in Sends /\ ended = "control"
      <4>1. loop.control /\ MadeBefore
        BY <2>1, <2>3, <3>1 DEF MotionInv
      <4>2. CASE round = 1
        <5>1. motion = ZeroMotion(loop.kind) /\ motion.round = 0
          BY <4>1, <4>2, ZeroMotionIsMotion DEF MadeBefore
        <5>2. packet'.motion = ZeroMotion(loop.kind) /\ packet'.motion.round # packet'.round
          BY <2>2, <4>2, <5>1
        <5>3. packet'.last /\ ended' = "control" /\ loop'.control /\ packet'.round = 1
          BY <2>1, <2>2, <3>1, <4>1, <4>2
        <5>4. ZeroMotion(loop.kind)' = ZeroMotion(loop.kind)
          BY <2>1 DEF ZeroMotion
        <5> QED BY <5>2, <5>3, <5>4 DEF MotionIsCurrent
      <4>3. CASE round # 1
        <5>1. motion.round = round - 1 /\ Checked(motion) /\ round \in Nat
          BY <4>1, <4>3 DEF MadeBefore, LoopTypes
        <5>2. motion.round # round
          BY <5>1
        <5> QED BY <2>1, <2>2, <3>1, <4>1, <4>3, <5>1, <5>2 DEF MotionIsCurrent, Checked
      <4> QED BY <4>2, <4>3
    <3>2. CASE "motion" \in Sends /\ ended # "control"
      BY <2>1, <2>2, <2>3, <3>2, SentNow DEF MotionInv, MadeNow
    <3>3. CASE "motion" \notin Sends
      BY <2>2, <3>3 DEF MotionIsCurrent
    <3> QED BY <3>1, <3>2, <3>3
  <2> QED BY <2>1, <2>4 DEF PacketInv
<1>5. CASE CancelMotion
  <2>1. UNCHANGED <<loop, packet, ended>> /\ pc' = "over"
    BY <1>5 DEF CancelMotion
  <2> QED BY <2>1 DEF PacketInv, MotionIsCurrent, ZeroMotion
<1>6. CASE WriteOnce
  <2>1. pc = "write" /\ pc' \in {"cancel", "finish", "read"}
    BY <1>6 DEF WriteOnce
  <2>2. ~packet.last
    BY <2>1 DEF PacketInv
  <2>3. CASE packet' = packet
    BY <2>1, <2>2, <2>3, PacketKept DEF PacketInv
  <2>4. CASE packet' # packet
    <3>1. /\ packet' = [round |-> round, motion |-> motion', torque |-> torque',
                        last |-> FALSE, sends |-> Sends]
          /\ \E output \in Outputs(loop.kind) :
               loop.kind # "none" =>
                 /\ ~MotionThrows(output)
                 /\ motion' = [value |-> output.value, valid |-> output.matrix, round |-> round]
      BY <1>6, <2>4 DEF WriteOnce
    <3>2. loop.api = "active" /\ loop \in Loops
      BY <2>1 DEF LoopTypes, InActive, Running
    <3>3. loop.kind # "none" => motion'.round = round /\ Checked(motion')
      BY <3>1, <3>2, CheckedMotion DEF Checked
    <3>4. MotionIsCurrent'
      <4>1. CASE loop.kind # "none"
        BY <3>1, <3>3, <4>1, SentNow
      <4>2. CASE loop.kind = "none"
        BY <3>1, <4>2 DEF Sends, MotionIsCurrent
      <4> QED BY <4>1, <4>2
    <3> QED BY <2>1, <3>1, <3>4 DEF PacketInv
  <2> QED BY <2>3, <2>4
<1>7. CASE Again
  BY <1>7, <1>1 DEF Again, PacketInv, MotionIsCurrent
<1>8. CASE UNCHANGED loopVars
  BY <1>8 DEF loopVars, PacketInv, MotionIsCurrent, ZeroMotion
<1> QED BY <1>2, <1>3, <1>4, <1>5, <1>6, <1>7, <1>8 DEF Next

LoopInv == LoopTypes /\ CurrentInv

LEMMA LoopInvInit == Init => LoopInv
<1> SUFFICES ASSUME Init
             PROVE  LoopInv
  OBVIOUS
<1>1. ~NoPacket.last /\ NoPacket.sends = {}
  BY DEF NoPacket
<1>2. LimitsInv /\ MotionInv
  BY DEF Init, LimitsInv, TorqueReady, MotionReady, MotionInv, InLoop
<1>3. PacketInv
  BY <1>1 DEF Init, PacketInv, MotionIsCurrent
<1> QED BY <1>2, <1>3, LoopInitTypes DEF LoopInv, CurrentInv

LEMMA LoopInvStep == LoopInv /\ [Next]_loopVars => LoopInv'
BY LoopStepTypes, LimitsStep, MotionStep, PacketStep DEF LoopInv, CurrentInv

LEMMA LoopInvHolds == Spec => []LoopInv
<1>1. Spec => Init /\ [][Next]_loopVars
  BY DEF Spec
<1> QED BY <1>1, LoopInvInit, LoopInvStep, PTL

(* ControlLoop::convertMotion() and createControlCommand() with limitRate: *)
(* for any limits, any position of the joint, whatever callbacks return    *)
(* and whatever packets were lost before, the command of a round changes   *)
(* velocity and torque by no more than a cycle allows.  A twist or a pose  *)
(* is held to the limits of velocity and acceleration unless the line      *)
(* along its acceleration misses the ball of allowed velocities: then      *)
(* std::min() meets a NaN, and the limit of the jerk is the only one left. *)
THEOREM CommandsAreLimited == Spec => []LimitsKept
<1>1. LoopInv => LimitsKept
  BY DEF LoopInv, CurrentInv, LimitsInv, TorqueKept, MotionKept, LimitsKept, TorqueReady
<1> QED BY <1>1, LoopInvHolds, PTL

(* sendRobotCommand(): a motion command is checked and made in the round   *)
(* it is sent in, but for the last one of a loop that its control callback *)
(* ended.                                                                  *)
THEOREM SentCommandsAreCurrent == Spec => []MotionIsCurrent
<1>1. LoopInv => MotionIsCurrent
  BY DEF LoopInv, CurrentInv, PacketInv
<1> QED BY <1>1, LoopInvHolds, PTL
---------------------------------------------------------------------------
(* The ring of rows                                                        *)

AnyRow == [motion: Int, command: Int, time: Int]
Slot == AnyRow \union {NoRow}
AnyRing == [rows: [0 .. LogSize - 1 -> Slot], front: Nat, size: Nat]

(* Until the ring is full its rows lie at its beginning; from then on, the *)
(* oldest one lies where the next one will.                                *)
RingOK(r) ==
  /\ r \in AnyRing
  /\ r.size <= LogSize
  /\ r.size < LogSize => r.front = r.size
  /\ r.front < LogSize \/ r.front = 0

LEMMA EmptyFlushed ==
  ASSUME NEW r, r.size = 0
  PROVE  Flushed(r) = <<>>
BY DEF Flushed

LEMMA EmptyRingOK == RingOK(EmptyRing) /\ Flushed(EmptyRing) = <<>>
<1>1. EmptyRing.size = 0
  BY DEF EmptyRing
<1>2. [i \in 0 .. LogSize - 1 |-> NoRow] \in [0 .. LogSize - 1 -> Slot]
  BY DEF Slot
<1>3. EmptyRing \in AnyRing
  BY <1>2 DEF EmptyRing, AnyRing
<1> QED BY <1>1, <1>3, EmptyFlushed, LogAssumption DEF RingOK, EmptyRing

LEMMA FlushOK ==
  ASSUME NEW r, RingOK(r)
  PROVE  RingOK(Flush(r)) /\ Flushed(Flush(r)) = <<>>
<1>1. Flush(r) \in AnyRing /\ Flush(r).size = 0 /\ Flush(r).front = 0
  <2> DEFINE zero == 0
  <2>1. zero \in Nat
    OBVIOUS
  <2>2. Flush(r) = [r EXCEPT !.front = zero, !.size = zero]
    BY Zenon DEF Flush
  <2> HIDE DEF zero
  <2>3. Flush(r) \in AnyRing /\ Flush(r).size = zero /\ Flush(r).front = zero
    BY <2>1, <2>2 DEF AnyRing, RingOK
  <2> QED BY <2>3 DEF zero
<1> QED BY <1>1, EmptyFlushed, LogAssumption DEF RingOK

LEMMA Wraps ==
  ASSUME NEW n \in Nat, NEW l \in Nat, l # 0
  PROVE  /\ n < l => n % l = n
         /\ l <= n /\ n < 2 * l => n % l = n - l
OBVIOUS

(* Where the rows of the ring lie.                                         *)
LEMMA FlushedRows ==
  ASSUME NEW r, RingOK(r)
  PROVE  /\ Flushed(r) \in Seq(Slot) /\ Len(Flushed(r)) = r.size
         /\ \A i \in 1 .. r.size :
              /\ r.size < LogSize => Flushed(r)[i] = r.rows[i - 1]
              /\ r.size = LogSize /\ r.front + i - 1 < LogSize =>
                   Flushed(r)[i] = r.rows[r.front + i - 1]
              /\ r.size = LogSize /\ r.front + i - 1 >= LogSize =>
                   Flushed(r)[i] = r.rows[r.front + i - 1 - LogSize]
<1>1. /\ r.size \in Nat /\ r.front \in Nat /\ LogSize \in Nat
      /\ r.rows \in [0 .. LogSize - 1 -> Slot]
  BY LogAssumption DEF RingOK, AnyRing
<1>2. ASSUME NEW i \in 1 .. r.size
      PROVE  /\ r.size < LogSize => Flushed(r)[i] = r.rows[i - 1]
             /\ r.size = LogSize /\ r.front + i - 1 < LogSize =>
                  Flushed(r)[i] = r.rows[r.front + i - 1]
             /\ r.size = LogSize /\ r.front + i - 1 >= LogSize =>
                  Flushed(r)[i] = r.rows[r.front + i - 1 - LogSize]
             /\ Flushed(r)[i] \in Slot
  <2> DEFINE n == r.front + i - 1
  <2>1. n \in Nat /\ r.size # 0
    BY <1>1
  <2>2. /\ n < r.size => n % r.size = n
        /\ r.size <= n /\ n < 2 * r.size => n % r.size = n - r.size
    BY <1>1, <2>1, Wraps
  <2>3. Flushed(r)[i] = r.rows[n % r.size]
    BY DEF Flushed
  <2>4. n % r.size \in 0 .. r.size - 1
    BY <1>1, <2>1
  <2>5. r.size = LogSize => n < 2 * r.size
    BY <1>1, <2>1 DEF RingOK
  <2>6. r.size < LogSize => n % r.size = i - 1
    <3>1. r.size < LogSize => n = r.size + i - 1 /\ r.size <= n /\ n < 2 * r.size
      BY <1>1 DEF RingOK
    <3>2. r.size < LogSize => n - r.size = i - 1
      BY <1>1, <3>1
    <3> QED BY <2>2, <3>1, <3>2
  <2>7. n % r.size \in 0 .. LogSize - 1
    BY <1>1, <2>1, <2>4 DEF RingOK
  <2>8. /\ r.size = LogSize /\ n < LogSize => n % r.size = n
        /\ r.size = LogSize /\ n >= LogSize => n % r.size = n - LogSize
    BY <1>1, <2>1, <2>2, <2>5
  <2>9. n = r.front + i - 1 /\ n - LogSize = r.front + i - 1 - LogSize
    BY <1>1
  <2> HIDE DEF n
  <2>10. r.size < LogSize => Flushed(r)[i] = r.rows[i - 1]
    BY <2>3, <2>6
  <2>11. /\ r.size = LogSize /\ n < LogSize => Flushed(r)[i] = r.rows[n]
         /\ r.size = LogSize /\ n >= LogSize => Flushed(r)[i] = r.rows[n - LogSize]
    BY <2>3, <2>8
  <2>12. Flushed(r)[i] \in Slot
    BY <1>1, <2>3, <2>7
  <2> QED BY <2>9, <2>10, <2>11, <2>12
<1>3. \A i \in 1 .. r.size : Flushed(r)[i] \in Slot
  BY <1>1, <1>2
<1>4. Flushed(r) \in Seq(Slot) /\ Len(Flushed(r)) = r.size
  <2>1. Flushed(r) \in [1 .. r.size -> Slot]
    BY <1>3 DEF Flushed
  <2> QED BY <1>1, <2>1
<1> QED BY <1>2, <1>4

(* Rows are logged at the end of the window, which forgets the oldest one  *)
(* when it is full.                                                        *)
LEMMA LoggedRow ==
  ASSUME NEW r, RingOK(r), NEW row \in AnyRow, LogSize # 0
  PROVE  /\ RingOK(Log(r, row))
         /\ Flushed(Log(r, row)) = Window!Latest(Append(Flushed(r), row))
<1> DEFINE s == Log(r, row)
           w == Flushed(r)
           longer == Append(w, row)
<1>1. /\ r.size \in Nat /\ r.front \in Nat /\ LogSize \in Nat
      /\ r.front < LogSize /\ r.size <= LogSize /\ (r.size < LogSize => r.front = r.size)
      /\ r.rows \in [0 .. LogSize - 1 -> Slot]
  BY LogAssumption DEF RingOK, AnyRing
<1>2. /\ s.rows = [r.rows EXCEPT ![r.front] = row]
      /\ s.front = (r.front + 1) % LogSize
      /\ s.size = IF r.size + 1 < LogSize THEN r.size + 1 ELSE LogSize
      /\ s = [rows |-> s.rows, front |-> s.front, size |-> s.size]
  BY DEF Log
<1> HIDE DEF s
<1>3. /\ r.front + 1 < LogSize => s.front = r.front + 1
      /\ r.front + 1 >= LogSize => s.front = 0
  <2> DEFINE n == r.front + 1
  <2>1. n \in Nat /\ n <= LogSize /\ LogSize \in Nat
    BY <1>1
  <2> HIDE DEF n
  <2>2. /\ n < LogSize => n % LogSize = n
        /\ n = LogSize => n % LogSize = 0
    BY <2>1, Wraps
  <2> QED BY <1>2, <2>1, <2>2 DEF n
<1>4. /\ r.size + 1 < LogSize => s.size = r.size + 1
      /\ r.size + 1 >= LogSize => s.size = LogSize
  BY <1>1, <1>2
<1>5. /\ s.rows \in [0 .. LogSize - 1 -> Slot]
      /\ s.rows[r.front] = row
      /\ \A j \in 0 .. LogSize - 1 : j # r.front => s.rows[j] = r.rows[j]
  <2>1. row \in Slot /\ r.front \in 0 .. LogSize - 1
    BY <1>1 DEF Slot
  <2> QED BY <1>1, <1>2, <2>1
<1>6. RingOK(s)
  <2>1. s.front \in Nat /\ s.size \in Nat
    BY <1>1, <1>3, <1>4
  <2>2. s \in AnyRing
    BY <1>2, <1>5, <2>1 DEF AnyRing
  <2> QED BY <1>1, <1>3, <1>4, <2>2 DEF RingOK
<1>7. /\ w \in Seq(Slot) /\ Len(w) = r.size
      /\ longer \in Seq(Slot) /\ Len(longer) = r.size + 1 /\ longer[r.size + 1] = row
      /\ \A i \in 1 .. r.size : longer[i] = w[i]
  <2>1. w \in Seq(Slot) /\ Len(w) = r.size /\ row \in Slot
    BY FlushedRows DEF Slot
  <2> HIDE DEF w
  <2> QED BY <2>1
<1>8. Flushed(s) \in Seq(Slot) /\ Len(Flushed(s)) = s.size
  BY <1>6, FlushedRows
<1>9. CASE r.size < LogSize
  <2>1. Window!Latest(longer) = longer
    BY <1>1, <1>7, <1>9 DEF Window!Latest
  <2>2. s.size = r.size + 1 /\ r.front = r.size
    BY <1>1, <1>4, <1>9
  <2>3. ASSUME NEW i \in 1 .. s.size
        PROVE  Flushed(s)[i] = longer[i]
    <3>1. Flushed(s)[i] = s.rows[i - 1]
      <4>1. CASE s.size < LogSize
        BY <1>6, <4>1, FlushedRows
      <4>2. CASE s.size = LogSize
        <5>1. s.front = 0 /\ s.front + i - 1 = i - 1 /\ i - 1 < LogSize
          BY <1>1, <1>3, <2>2, <4>2
        <5> QED BY <1>6, <4>2, <5>1, FlushedRows
      <4> QED BY <1>1, <1>9, <2>2, <4>1, <4>2
    <3>2. CASE i = s.size
      BY <1>1, <1>5, <1>7, <2>2, <3>1, <3>2
    <3>3. CASE i # s.size
      <4>1. i \in 1 .. r.size /\ i - 1 \in 0 .. LogSize - 1 /\ i - 1 # r.front
        BY <1>1, <1>9, <2>2, <3>3
      <4>2. s.rows[i - 1] = r.rows[i - 1] /\ longer[i] = w[i]
        BY <1>5, <1>7, <4>1
      <4>3. w[i] = r.rows[i - 1]
        BY <1>9, <4>1, FlushedRows
      <4> QED BY <3>1, <4>2, <4>3
    <3> QED BY <3>2, <3>3
  <2> HIDE DEF longer
  <2>4. Flushed(s) = longer
    BY <1>7, <1>8, <2>2, <2>3, SeqEqual
  <2> QED BY <1>6, <2>1, <2>4 DEF longer, s
<1>10. CASE r.size = LogSize
  <2> DEFINE later == SubSeq(longer, 2, LogSize + 1)
  <2>1. Window!Latest(longer) = later
    <3>1. /\ ~(Len(longer) <= LogSize) /\ Len(longer) = LogSize + 1
          /\ Len(longer) - LogSize + 1 = 2
      BY <1>1, <1>7, <1>10
    <3> HIDE DEF longer
    <3> QED BY <3>1 DEF Window!Latest
  <2>2. /\ later \in Seq(Slot) /\ Len(later) = LogSize
        /\ \A i \in 1 .. LogSize : later[i] = longer[i + 1]
    <3>1. \A i \in 2 .. LogSize + 1 : longer[i] \in Slot
      <4> HIDE DEF longer
      <4> QED BY <1>1, <1>7, <1>10
    <3> HIDE DEF longer
    <3>2. /\ later \in Seq(Slot)
          /\ Len(later) = IF 2 <= LogSize + 1 THEN LogSize + 1 - 2 + 1 ELSE 0
          /\ \A i \in 1 .. LogSize + 1 - 2 + 1 : later[i] = longer[2 + i - 1]
      BY <1>1, <3>1, SubSeqProperties
    <3> HIDE DEF later
    <3>3. LogSize + 1 - 2 + 1 = LogSize /\ \A i \in 1 .. LogSize : 2 + i - 1 = i + 1
      BY <1>1
    <3> QED BY <1>1, <3>2, <3>3
  <2>3. s.size = LogSize
    BY <1>1, <1>4, <1>10
  <2>4. ASSUME NEW i \in 1 .. LogSize
        PROVE  Flushed(s)[i] = longer[i + 1]
    <3>1. /\ s.front + i - 1 < LogSize => Flushed(s)[i] = s.rows[s.front + i - 1]
          /\ s.front + i - 1 >= LogSize => Flushed(s)[i] = s.rows[s.front + i - 1 - LogSize]
      BY <1>6, <2>3, FlushedRows
    <3>2. CASE i = LogSize
      <4>1. Flushed(s)[i] = s.rows[r.front]
        <5>1. CASE r.front + 1 < LogSize
          BY <1>1, <1>3, <3>1, <3>2, <5>1
        <5>2. CASE r.front + 1 >= LogSize
          BY <1>1, <1>3, <3>1, <3>2, <5>2
        <5> QED BY <1>1, <5>1, <5>2
      <4> QED BY <1>5, <1>7, <1>10, <3>2, <4>1
    <3>3. CASE i # LogSize
      <4>1. i + 1 \in 1 .. r.size
        BY <1>1, <1>10, <3>3
      <4>2. /\ r.front + (i + 1) - 1 < LogSize => w[i + 1] = r.rows[r.front + (i + 1) - 1]
            /\ r.front + (i + 1) - 1 >= LogSize =>
                 w[i + 1] = r.rows[r.front + (i + 1) - 1 - LogSize]
        BY <1>10, <4>1, FlushedRows
      <4>3. longer[i + 1] = w[i + 1]
        BY <1>7, <4>1
      <4> HIDE DEF w, longer
      <4>4. CASE r.front + i < LogSize
        <5>1. s.front = r.front + 1
          BY <1>1, <1>3, <4>4
        <5>2. w[i + 1] = r.rows[r.front + i]
          <6>1. r.front + (i + 1) - 1 = r.front + i
            BY <1>1
          <6> QED BY <4>2, <4>4, <6>1
        <5>3. Flushed(s)[i] = s.rows[r.front + i]
          <6>1. s.front + i - 1 = r.front + i
            BY <1>1, <5>1
          <6> QED BY <3>1, <4>4, <6>1
        <5>4. r.front + i \in 0 .. LogSize - 1 /\ r.front + i # r.front
          BY <1>1, <4>4
        <5> QED BY <1>5, <4>3, <5>2, <5>3, <5>4
      <4>5. CASE r.front + i >= LogSize
        <5>1. w[i + 1] = r.rows[r.front + i - LogSize]
          <6>1. r.front + (i + 1) - 1 = r.front + i
            BY <1>1
          <6> QED BY <4>2, <4>5, <6>1
        <5>2. Flushed(s)[i] = s.rows[r.front + i - LogSize]
          <6>1. CASE r.front + 1 < LogSize
            <7>1. s.front + i - 1 = r.front + i
              BY <1>1, <1>3, <6>1
            <7>2. s.front + i - 1 >= LogSize
              BY <4>5, <7>1
            <7>3. s.front + i - 1 - LogSize = r.front + i - LogSize
              <8>1. i \in Int /\ r.front \in Int /\ LogSize \in Int
                BY <1>1
              <8>2. s.front = r.front + 1
                BY <1>1, <1>3, <6>1
              <8> QED BY <8>1, <8>2
            <7> QED BY <3>1, <7>2, <7>3
          <6>2. CASE r.front + 1 >= LogSize
            <7>1. s.front = 0 /\ r.front + 1 = LogSize
              BY <1>1, <1>3, <6>2
            <7>2. s.front + i - 1 = r.front + i - LogSize /\ s.front + i - 1 < LogSize
              BY <1>1, <7>1
            <7> QED BY <3>1, <7>2
          <6> QED BY <1>1, <6>1, <6>2
        <5>3. r.front + i - LogSize \in 0 .. LogSize - 1 /\ r.front + i - LogSize # r.front
          BY <1>1, <3>3, <4>5
        <5> QED BY <1>5, <4>3, <5>1, <5>2, <5>3
      <4> QED BY <1>1, <4>4, <4>5
    <3> QED BY <3>2, <3>3
  <2> HIDE DEF longer, later
  <2>5. Flushed(s) = later
    BY <1>8, <2>2, <2>3, <2>4, SeqEqual
  <2> QED BY <1>6, <2>1, <2>5 DEF longer, s
<1> QED BY <1>1, <1>9, <1>10
LEMMA SizeZeroLogsNothing ==
  ASSUME NEW r, NEW row, LogSize = 0
  PROVE  Log(r, row) = r
BY DEF Log

(* The rows of motion m, the last of them logged with the state of time t. *)
RowsOK(rows, m, t) ==
  /\ \A i \in 1 .. Len(rows) : rows[i] \in AnyRow /\ rows[i].motion = m
  /\ \A i \in 2 .. Len(rows) :
       /\ rows[i].command \in {0, rows[i - 1].time}
       /\ rows[i].time - rows[i - 1].time \in {1, 2}
  /\ Len(rows) > 0 => rows[Len(rows)].time = t

LEMMA NoRowsOK == \A m, t : RowsOK(<<>>, m, t)
BY DEF RowsOK

(* The window's rows are the last of the longer sequence.                  *)
LEMMA LatestRows ==
  ASSUME NEW rows \in Seq(Slot), Len(rows) <= LogSize, NEW row \in Slot, LogSize # 0
  PROVE  LET longer == Append(rows, row)
             latest == Window!Latest(longer)
         IN  /\ latest \in Seq(Slot) /\ Len(latest) > 0
             /\ latest[Len(latest)] = row
             /\ \E k \in {0, 1} :
                  /\ Len(latest) + k = Len(rows) + 1
                  /\ \A i \in 1 .. Len(latest) : latest[i] = longer[i + k]
<1> DEFINE longer == Append(rows, row)
           latest == Window!Latest(longer)
<1>1. LogSize \in Nat /\ Len(rows) \in Nat
  BY LogAssumption
<1>2. /\ longer \in Seq(Slot) /\ Len(longer) = Len(rows) + 1
      /\ longer[Len(rows) + 1] = row
  OBVIOUS
<1> HIDE DEF longer
<1>3. CASE Len(longer) <= LogSize
  <2>1. latest = longer
    BY <1>3 DEF Window!Latest
  <2>2. \A i \in 1 .. Len(latest) : i + 0 = i
    OBVIOUS
  <2>3. Len(latest) + 0 = Len(rows) + 1 /\ \A i \in 1 .. Len(latest) : latest[i] = longer[i + 0]
    BY <1>1, <1>2, <2>1, <2>2
  <2>4. latest \in Seq(Slot) /\ Len(latest) > 0 /\ latest[Len(latest)] = row
    BY <1>1, <1>2, <2>1
  <2> HIDE DEF latest
  <2> QED BY <2>3, <2>4 DEF latest, longer
<1>4. CASE ~(Len(longer) <= LogSize)
  <2>1. Len(longer) = LogSize + 1 /\ Len(longer) - LogSize + 1 = 2 /\ Len(rows) = LogSize
    BY <1>1, <1>2, <1>4
  <2>2. latest = SubSeq(longer, 2, LogSize + 1)
    BY <1>4, <2>1 DEF Window!Latest
  <2>3. \A i \in 2 .. LogSize + 1 : longer[i] \in Slot
    BY <1>1, <1>2, <2>1
  <2> HIDE DEF latest
  <2>4. /\ latest \in Seq(Slot)
        /\ Len(latest) = IF 2 <= LogSize + 1 THEN LogSize + 1 - 2 + 1 ELSE 0
        /\ \A i \in 1 .. LogSize + 1 - 2 + 1 : latest[i] = longer[2 + i - 1]
    BY <1>1, <2>2, <2>3, SubSeqProperties
  <2>5. LogSize + 1 - 2 + 1 = LogSize /\ \A i \in 1 .. LogSize : 2 + i - 1 = i + 1
    BY <1>1
  <2>6. Len(latest) = LogSize /\ \A i \in 1 .. LogSize : latest[i] = longer[i + 1]
    BY <1>1, <2>4, <2>5
  <2>7. Len(latest) + 1 = Len(rows) + 1 /\ \A i \in 1 .. Len(latest) : latest[i] = longer[i + 1]
    BY <2>1, <2>6
  <2>8. Len(latest) > 0 /\ latest[Len(latest)] = row
    BY <1>1, <1>2, <2>1, <2>6
  <2> QED BY <2>4, <2>7, <2>8 DEF latest, longer
<1> QED BY <1>3, <1>4

LEMMA RowsStayOK ==
  ASSUME NEW rows \in Seq(Slot), Len(rows) <= LogSize, LogSize # 0,
         NEW m, NEW t \in Int, RowsOK(rows, m, t),
         NEW row \in AnyRow, row.motion = m, row.command \in {0, t}, row.time - t \in {1, 2}
  PROVE  RowsOK(Window!Latest(Append(rows, row)), m, row.time)
<1> DEFINE longer == Append(rows, row)
           latest == Window!Latest(longer)
<1>1. row \in Slot
  BY DEF Slot
<1>2. /\ Len(rows) \in Nat
      /\ \A i \in 1 .. Len(rows) : longer[i] = rows[i]
      /\ longer[Len(rows) + 1] = row
  OBVIOUS
<1>3. PICK k \in {0, 1} :
        /\ Len(latest) + k = Len(rows) + 1
        /\ \A i \in 1 .. Len(latest) : latest[i] = longer[i + k]
  BY <1>1, LatestRows
<1>4. /\ latest \in Seq(Slot) /\ Len(latest) > 0 /\ latest[Len(latest)] = row
  BY <1>1, LatestRows
<1> HIDE DEF latest, longer
<1>5. ASSUME NEW i \in 1 .. Len(rows) + 1
      PROVE  longer[i] \in AnyRow /\ longer[i].motion = m
  BY <1>2 DEF RowsOK
<1>6. ASSUME NEW i \in 2 .. Len(rows) + 1
      PROVE  /\ longer[i].command \in {0, longer[i - 1].time}
             /\ longer[i].time - longer[i - 1].time \in {1, 2}
  <2>1. CASE i \in 2 .. Len(rows)
    <3>1. longer[i] = rows[i] /\ longer[i - 1] = rows[i - 1]
      BY <1>2, <2>1
    <3> QED BY <2>1, <3>1 DEF RowsOK
  <2>2. CASE i = Len(rows) + 1
    <3>1. longer[i] = row /\ longer[i - 1] = rows[Len(rows)]
      BY <1>2, <2>2
    <3>2. rows[Len(rows)].time = t
      BY <1>2, <2>2 DEF RowsOK
    <3> QED BY <3>1, <3>2
  <2> QED BY <1>2, <2>1, <2>2
<1>7. \A i \in 1 .. Len(latest) : latest[i] \in AnyRow /\ latest[i].motion = m
  <2> TAKE i \in 1 .. Len(latest)
  <2>1. i + k \in 1 .. Len(rows) + 1
    BY <1>2, <1>3
  <2> QED BY <1>3, <1>5, <2>1
<1>8. \A i \in 2 .. Len(latest) :
        /\ latest[i].command \in {0, latest[i - 1].time}
        /\ latest[i].time - latest[i - 1].time \in {1, 2}
  <2> TAKE i \in 2 .. Len(latest)
  <2>1. i + k \in 2 .. Len(rows) + 1 /\ (i - 1) + k = (i + k) - 1
    BY <1>2, <1>3
  <2>2. latest[i] = longer[i + k] /\ latest[i - 1] = longer[(i + k) - 1]
    BY <1>3, <2>1
  <2> QED BY <1>6, <2>1, <2>2
<1>9. RowsOK(latest, m, row.time)
  BY <1>4, <1>7, <1>8 DEF RowsOK
<1> QED BY <1>9 DEF latest, longer

---------------------------------------------------------------------------
(* The log                                                                 *)

LogInv ==
  /\ RingOK(ring)
  /\ pc \in Running => RowsOK(Flushed(ring), motions, state.time)
  /\ pc \in InActive => Flushed(ring) = <<>>
  /\ LogOfThisMotion

(* The ring that is left by a row of this motion, and its rows.            *)
LEMMA LoggedOK ==
  ASSUME NEW r, RingOK(r), NEW m, NEW t \in Int, RowsOK(Flushed(r), m, t),
         NEW row \in AnyRow, row.motion = m, row.command \in {0, t}, row.time - t \in {1, 2}
  PROVE  RingOK(Log(r, row)) /\ RowsOK(Flushed(Log(r, row)), m, row.time)
<1>1. CASE LogSize = 0
  <2>1. r.size = 0 /\ Flushed(r) = <<>>
    BY <1>1, EmptyFlushed DEF RingOK, AnyRing
  <2> QED BY <1>1, <2>1, SizeZeroLogsNothing, NoRowsOK
<1>2. CASE LogSize # 0
  <2>1. Flushed(r) \in Seq(Slot) /\ Len(Flushed(r)) <= LogSize
    BY FlushedRows DEF RingOK
  <2> QED BY <1>2, <2>1, LoggedRow, RowsStayOK
<1> QED BY <1>1, <1>2

LEMMA WindowLogs ==
  ASSUME RingOK(ring), NEW row \in AnyRow, ring' = Log(ring, row)
  PROVE  RingOK(ring') /\ [Window!Next]_(Flushed(ring))
<1>1. CASE LogSize = 0
  <2>1. ring' = ring
    BY <1>1, SizeZeroLogsNothing
  <2> QED BY <2>1
<1>2. CASE LogSize # 0
  <2> DEFINE w == Flushed(ring)
             v == Flushed(ring')
  <2>1. v = Window!Latest(Append(w, row)) /\ RingOK(ring')
    BY <1>2, LoggedRow
  <2>2. w \in Seq(Slot) /\ Len(w) <= LogSize /\ row \in Slot
    BY FlushedRows DEF RingOK, Slot
  <2>3. Len(v) > 0 /\ v[Len(v)] = row
    BY <1>2, <2>1, <2>2, LatestRows
  <2>4. v # <<>> /\ v = Window!Latest(Append(w, v[Len(v)]))
    BY <2>1, <2>3
  <2>5. Window!Record
    BY <2>4 DEF Window!Record
  <2> QED BY <2>1, <2>5 DEF Window!Next
<1> QED BY <1>1, <1>2

LEMMA WindowClears ==
  ASSUME NEW r, RingOK(r), ring' = Flush(r)
  PROVE  RingOK(ring') /\ Flushed(ring') = <<>> /\ [Window!Next]_(Flushed(ring))
<1>1. RingOK(ring') /\ Flushed(ring') = <<>>
  BY FlushOK
<1> QED BY <1>1 DEF Window!Next, Window!Clear

LEMMA ThrownLog ==
  ASSUME NEW r, RingOK(r), NEW t, RowsOK(Flushed(r), motions, t), Throw(r)
  PROVE  LogOfThisMotion'
<1> DEFINE log == Flushed(r)
<1>1. /\ thrown'.log = log /\ thrown'.lost = LostPackets(log)
      /\ thrown'.motion = motions
  BY DEF Throw
<1>2. log \in Seq(Slot) /\ Len(log) \in Nat
  BY FlushedRows
<1> HIDE DEF log
<1>3. \A i \in 1 .. Len(log) : log[i] \in AnyRow /\ log[i].motion = motions
  BY DEF RowsOK, log
<1>4. \A i \in 2 .. Len(log) :
        /\ log[i].command \in {0, log[i - 1].time}
        /\ log[i].time > log[i - 1].time
  <2> TAKE i \in 2 .. Len(log)
  <2>1. i \in 1 .. Len(log) /\ i - 1 \in 1 .. Len(log)
    BY <1>2
  <2>2. log[i].time \in Int /\ log[i - 1].time \in Int
    BY <1>3, <2>1 DEF AnyRow
  <2>3. log[i].command \in {0, log[i - 1].time} /\ log[i].time - log[i - 1].time \in {1, 2}
    BY DEF RowsOK, log
  <2> QED BY <2>2, <2>3
<1>5. LostPackets(log) < 2
  <2>1. CASE Len(log) >= 2
    <3> DEFINE lost == log[Len(log)].time - log[Len(log) - 1].time - 1
    <3>1. /\ Len(log) \in 2 .. Len(log) /\ Len(log) \in 1 .. Len(log)
          /\ Len(log) - 1 \in 1 .. Len(log)
      BY <1>2, <2>1
    <3>2. log[Len(log)].time \in Int /\ log[Len(log) - 1].time \in Int
      BY <1>3, <3>1 DEF AnyRow
    <3>3. log[Len(log)].time - log[Len(log) - 1].time \in {1, 2}
      BY <3>1 DEF RowsOK, log
    <3>4. lost \in {0, 1}
      BY <3>2, <3>3
    <3>5. LostPackets(log) = lost % (2 ^ 16)
      BY <2>1 DEF LostPackets
    <3> HIDE DEF lost
    <3>6. 2 ^ 16 = 65536
      OBVIOUS
    <3> QED BY <3>4, <3>5, <3>6
  <2>2. CASE ~(Len(log) >= 2)
    BY <2>2 DEF LostPackets
  <2> QED BY <2>1, <2>2
<1> QED BY <1>1, <1>3, <1>4, <1>5 DEF LogOfThisMotion
LEMMA ThrownKept ==
  ASSUME LogInv, thrown' = thrown
  PROVE  LogOfThisMotion'
BY DEF LogInv, LogOfThisMotion

(* updateMotion() logs the state it received with the command it sent for  *)
(* the state before, and throws the log or goes on.                        *)
LEMMA RowLogged ==
  ASSUME LoopTypes, LogInv, pc \in Running, motions' = motions,
         NEW command \in {0, state.time}, state'.time - state.time \in {1, 2},
         state'.time \in Int,
         \/ /\ ring' = Log(ring, Row(command, state')) /\ thrown' = thrown
            /\ pc' \in {"control", "motion", "finish", "over"}
         \/ Throw(Log(ring, Row(command, state')))
  PROVE  LogInv' /\ [Window!Next]_(Flushed(ring))
<1> DEFINE row == Row(command, state')
<1>1. state.time \in Int /\ motions \in Int
  BY DEF LoopTypes, AnyState
<1>2. row \in AnyRow /\ row.motion = motions /\ row.command = command /\ row.time = state'.time
  BY <1>1 DEF Row, AnyRow
<1> HIDE DEF row
<1>3. RingOK(ring) /\ RowsOK(Flushed(ring), motions, state.time)
  BY DEF LogInv
<1>4. RingOK(Log(ring, row)) /\ RowsOK(Flushed(Log(ring, row)), motions, state'.time)
  BY <1>1, <1>2, <1>3, LoggedOK
<1>5. CASE ring' = Log(ring, row) /\ thrown' = thrown
           /\ pc' \in {"control", "motion", "finish", "over"}
  <2>1. RingOK(ring') /\ [Window!Next]_(Flushed(ring))
    BY <1>2, <1>3, <1>5, WindowLogs
  <2>2. RowsOK(Flushed(ring'), motions', state'.time)
    BY <1>4, <1>5
  <2>3. LogOfThisMotion'
    BY <1>5, ThrownKept
  <2> QED BY <1>5, <2>1, <2>2, <2>3 DEF LogInv, InActive
<1>6. CASE Throw(Log(ring, row))
  <2>1. ring' = Flush(Log(ring, row)) /\ pc' = "cancel"
    BY <1>6 DEF Throw
  <2>2. RingOK(ring') /\ Flushed(ring') = <<>> /\ [Window!Next]_(Flushed(ring))
    BY <1>4, <2>1, WindowClears
  <2>3. LogOfThisMotion'
    BY <1>4, <1>6, ThrownLog
  <2> QED BY <2>1, <2>2, <2>3 DEF LogInv, Running, InLoop, InActive
<1> QED BY <1>5, <1>6 DEF row

LEMMA LogStep ==
  LoopTypes /\ LogInv /\ [Next]_loopVars => LogInv' /\ [Window!Next]_(Flushed(ring))
<1> SUFFICES ASSUME LoopTypes, LogInv, [Next]_loopVars
             PROVE  LogInv' /\ [Window!Next]_(Flushed(ring))
  OBVIOUS
<1> USE DEF Running, InLoop, InActive
(* Nothing is logged, and the state is the one of the last row.            *)
<1>1. ASSUME UNCHANGED <<ring, thrown>>,
             pc' \notin Running \/ (pc \in Running /\ UNCHANGED <<motions, state>>),
             pc' \in InActive => pc \in InActive
      PROVE  LogInv' /\ [Window!Next]_(Flushed(ring))
  <2>1. LogOfThisMotion' /\ Flushed(ring)' = Flushed(ring)
    BY <1>1, ThrownKept
  <2> QED BY <1>1, <2>1 DEF LogInv
<1>2. CASE Connect \/ ConstructRefused \/ CancelMotion
  <2>1. UNCHANGED ring /\ pc' \in {"unconnected", "idle", "over"} /\ UNCHANGED thrown
    BY <1>2 DEF Connect, ConstructRefused, CancelMotion
  <2> QED BY <1>1, <2>1
<1>3. CASE Start
  <2>1. PICK waits \in BOOLEAN :
          ring' = StartLog(IF waits THEN Log(ring, Row(0, state')) ELSE ring)
    BY <1>3, Zenon DEF Start
  <2> DEFINE r == IF waits THEN Log(ring, Row(0, state')) ELSE ring
  <2>2. thrown' = thrown
    BY <1>3 DEF Start, Construct
  <2>3. RingOK(r)
    <3>1. RingOK(ring)
      BY DEF LogInv
    <3>2. Row(0, state') \in AnyRow
      <4>1. state' = Waited(state)
        BY <1>3 DEF Start, Construct
      <4>2. state'.time \in Int
        BY <4>1, AnswersAreStates DEF AnyState
      <4> QED BY <4>2 DEF Row, AnyRow, LoopTypes
    <3>3. RingOK(Log(ring, Row(0, state')))
      BY <3>1, <3>2, SizeZeroLogsNothing, LoggedRow
    <3> QED BY <3>1, <3>3
  <2>4. RingOK(ring') /\ Flushed(ring') = <<>> /\ [Window!Next]_(Flushed(ring))
    BY <2>1, <2>3, WindowClears DEF StartLog
  <2>5. LogOfThisMotion'
    BY <2>2, ThrownKept
  <2> QED BY <2>4, <2>5, NoRowsOK DEF LogInv
<1>4. CASE StartFails
  <2>1. ring' = Log(ring, Row(0, state')) /\ thrown' = thrown /\ pc' = "over"
        /\ state' = Waited(state)
    BY <1>4 DEF StartFails, Construct
  <2>2. Row(0, state') \in AnyRow
    <3>1. state'.time \in Int
      BY <2>1, AnswersAreStates DEF AnyState
    <3> QED BY <3>1 DEF Row, AnyRow, LoopTypes
  <2>3. RingOK(ring') /\ [Window!Next]_(Flushed(ring))
    BY <2>1, <2>2, WindowLogs DEF LogInv
  <2> QED BY <2>1, <2>3, ThrownKept DEF LogInv
<1>5. CASE FirstState
  <2>1. /\ pc = "first" /\ state' = Waited(state) /\ motions' = motions
        /\ \/ /\ ring' = Log(ring, Row(0, state')) /\ thrown' = thrown
              /\ pc' \in {"control", "motion"}
           \/ Throw(Log(ring, Row(0, state')))
    BY <1>5 DEF FirstState, FirstCommand
  <2>2. state'.time \in Int /\ state'.time - state.time \in {1, 2}
    BY <2>1, AnswersAreStates DEF AnyState, LoopTypes
  <2> QED BY <2>1, <2>2, RowLogged
<1>6. CASE CreateControlCommand \/ CallbackThrows \/ CreateMotionCommand \/ WriteOnce
  <2>1. /\ UNCHANGED <<ring, thrown, motions, state>>
        /\ pc \in {"control", "motion", "write"}
        /\ pc' \in {"cancel", "finish", "motion", "update", "read"}
        /\ pc' = "read" => pc = "write"
    BY <1>6 DEF CreateControlCommand, CallbackThrows, CreateMotionCommand, WriteOnce
  <2> QED BY <1>1, <2>1
<1>7. CASE UpdateMotion
  <2>1. /\ pc = "update" /\ state' \in Answers(state) \union {Stopped(state)}
        /\ motions' = motions
        /\ \/ /\ ring' = Log(ring, Row(state.time, state')) /\ thrown' = thrown
              /\ pc' \in {"control", "motion"}
           \/ Throw(Log(ring, Row(state.time, state')))
    BY <1>7 DEF UpdateMotion, FirstCommand
  <2>2. state'.time \in Int /\ state'.time - state.time \in {1, 2}
    BY <2>1, AnswersAreStates DEF AnyState, LoopTypes
  <2> QED BY <2>1, <2>2, RowLogged
<1>8. CASE FinishMotion
  <2>1. /\ pc = "finish" /\ state' = Stopped(state) /\ motions' = motions
        /\ \/ /\ ring' = Log(ring, Row(state.time, state')) /\ thrown' = thrown
              /\ pc' \in {"finish", "over"}
           \/ Throw(Log(ring, Row(state.time, state')))
    BY <1>8 DEF FinishMotion
  <2>2. state'.time \in Int /\ state'.time - state.time \in {1, 2}
    BY <2>1, AnswersAreStates DEF AnyState, LoopTypes
  <2> QED BY <2>1, <2>2, RowLogged
<1>9. CASE ReadOnce
  <2>1. RingOK(ring) /\ Flushed(ring) = <<>>
    BY <1>9 DEF ReadOnce, LogInv
  <2>2. CASE Throw(ring)
    <3>1. ring' = Flush(ring) /\ pc' = "cancel"
      BY <2>2 DEF Throw
    <3>2. RingOK(ring') /\ [Window!Next]_(Flushed(ring))
      BY <2>1, <3>1, WindowClears
    <3>3. LogOfThisMotion'
      BY <2>1, <2>2, NoRowsOK, ThrownLog
    <3> QED BY <3>1, <3>2, <3>3 DEF LogInv
  <2>3. CASE UNCHANGED <<ring, thrown>>
    <3>1. Flushed(ring)' = Flushed(ring)
      BY <2>3
    <3>2. LogOfThisMotion'
      BY <2>3, ThrownKept
    <3> QED BY <2>1, <2>3, <3>1, <3>2, NoRowsOK DEF LogInv
  <2> QED BY <1>9, <2>2, <2>3 DEF ReadOnce
<1>10. CASE Again
  <2>1. UNCHANGED ring /\ pc' = "idle" /\ thrown' = NotThrown
    BY <1>10 DEF Again
  <2>2. LogOfThisMotion'
    BY <2>1 DEF LogOfThisMotion, NotThrown
  <2> QED BY <2>1, <2>2 DEF LogInv
<1>11. CASE UNCHANGED loopVars
  <2>1. UNCHANGED <<ring, thrown, motions, state, pc>>
    BY <1>11 DEF loopVars
  <2> QED BY <1>1, <2>1
<1> QED BY <1>2, <1>3, <1>4, <1>5, <1>6, <1>7, <1>8, <1>9, <1>10, <1>11 DEF Next

(* RobotStateLogger, updateMotion() and finishMotion(): whatever the size  *)
(* of the log, it is the window of the last rows since it was last         *)
(* flushed, and a ControlException takes along rows of its own motion, in  *)
(* the order of their states.                                              *)
THEOREM LogIsLatestWindow == Spec => LogKeepsLatest
<1>1. Init => LogInv /\ Window!Init
  <2> SUFFICES ASSUME Init
               PROVE  LogInv /\ Window!Init
    OBVIOUS
  <2>1. RingOK(ring) /\ Flushed(ring) = <<>>
    BY EmptyRingOK DEF Init
  <2>2. LogOfThisMotion
    BY DEF Init, NotThrown, LogOfThisMotion
  <2> QED BY <2>1, <2>2 DEF Init, LogInv, Window!Init, Running, InLoop, InActive
<1>2. Spec => Init /\ [][Next]_loopVars
  BY DEF Spec
<1>3. LoopInv => LoopTypes
  BY DEF LoopInv
<1>4. Spec => []LogInv
  BY <1>1, <1>2, <1>3, LoopInvHolds, LogStep, PTL
<1>5. LogInv => LogOfThisMotion
  BY DEF LogInv
<1>6. Spec => Window!Spec
  BY <1>1, <1>2, <1>3, <1>4, LoopInvHolds, LogStep, PTL DEF Window!Spec
<1> QED BY <1>4, <1>5, <1>6, PTL DEF LogKeepsLatest

=============================================================================
