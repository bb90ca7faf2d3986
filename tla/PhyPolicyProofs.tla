-------------------------- MODULE PhyPolicyProofs --------------------------
(***************************************************************************)
(* Lemmas about the policy engine and the limiter: what holds of the       *)
(* operators for every operating point, every admissible set of limits,    *)
(* every error rate and every security level.                              *)
(***************************************************************************)
EXTENDS PhyPolicy, TLAPS

\* All the proofs need of the C types' widths.  The numbers themselves stay
\* folded, for a literal interval is a large formula.
LEMMA Widths == U8Max \in Nat /\ U16Max \in Nat /\ 22 < U8Max /\ U8Max < U16Max
BY DEF U8Max, U16Max

\* The field names that the limiter tells apart.
LEMMA FieldSets ==
  /\ Limited \subseteq Fields /\ Timings \subseteq Fields
  /\ Hardened \subseteq Limited /\ Relaxable \subseteq Hardened
  /\ Fields = {"tRCD", "tCL", "tRP", "tRAS", "vswing_mv"}
  /\ \A f \in Hardened : Width(f) = U8Max + 1
  /\ "vswing_mv" \notin Timings
BY DEF Limited, Timings, Fields, Hardened, Relaxable, Width

\* A stored operating point is a function with values in its fields' widths.
LEMMA ConfigValue ==
  ASSUME NEW c \in phy_config, NEW f \in Fields
  PROVE  c[f] \in 0..U16Max /\ c[f] < Width(f) /\ Width(f) \in {U8Max + 1, U16Max + 1}
BY DEF phy_config, Width

\* The bounds of admissible limits, field by field.
LEMMA LimitValues ==
  ASSUME NEW l, LimitsOK(l), NEW f \in Limited
  PROVE  /\ l.min[f] \in 0..U16Max /\ l.max[f] \in 0..U16Max
         /\ l.min[f] <= l.max[f] /\ l.max[f] < Width(f)
         /\ f \in Hardened => 22 <= l.max[f] /\ l.max[f] < U8Max
BY DEF LimitsOK, jedec_limits, Nominal

\* The hard clamp of one value.
LEMMA ClampBounds ==
  ASSUME NEW v \in Nat, NEW lo \in Nat, NEW hi \in Nat, lo <= hi
  PROVE  /\ Smaller(Larger(v, lo), hi) \in lo..hi
         /\ v \in lo..hi => Smaller(Larger(v, lo), hi) = v
BY DEF Smaller, Larger

\* The relaxation of one value: it stays under the limit and, where one more
\* clock fits the byte, never moves down.
LEMMA RelaxBounds ==
  ASSUME NEW v \in Nat, NEW max \in Nat, v <= max, max < U8Max
  PROVE  /\ Relax(v, max) \in v..max
         /\ v < max => Relax(v, max) = v + 1
BY DEF Relax, Smaller, U8Max

\* The limiter, field by field.
LEMMA ClampedField ==
  ASSUME NEW p \in phy_config, NEW l, LimitsOK(l), NEW rate \in Nat, NEW sec \in Byte,
         NEW f \in Fields
  PROVE  LET hard == IF f \in Limited THEN Smaller(Larger(p[f], l.min[f]), l.max[f])
                                      ELSE p[f]
             ecc  == IF f \in Relaxable /\ rate > EccThreshold
                     THEN Relax(hard, l.max[f]) ELSE hard
         IN  safety_clamp(p, l, rate, sec)[f] =
               IF f \in Hardened /\ sec > 0 THEN Larger(ecc, Nominal) ELSE ecc
BY DEF safety_clamp

\* Every field the limiter returns is within the limits, if it has any, fits its
\* width, and is floored when it must be.
LEMMA LimiterField ==
  ASSUME NEW p \in phy_config, NEW l, LimitsOK(l), NEW rate \in Nat, NEW sec \in Byte,
         NEW f \in Fields
  PROVE  LET v == safety_clamp(p, l, rate, sec)[f]
         IN  /\ v \in Nat /\ v < Width(f)
             /\ f \in Limited => l.min[f] <= v /\ v <= l.max[f]
             /\ f \in Hardened /\ sec > 0 => 22 <= v
<1> DEFINE hard == IF f \in Limited THEN Smaller(Larger(p[f], l.min[f]), l.max[f])
                                    ELSE p[f]
           ecc  == IF f \in Relaxable /\ rate > EccThreshold
                   THEN Relax(hard, l.max[f]) ELSE hard
           v    == safety_clamp(p, l, rate, sec)[f]
<1>1. v = IF f \in Hardened /\ sec > 0 THEN Larger(ecc, 22) ELSE ecc
  BY ClampedField DEF Nominal
<1>2. p[f] \in Nat /\ p[f] < Width(f) /\ Width(f) \in Nat
  BY ConfigValue, Widths
<1>3. f \in Limited => /\ l.min[f] \in Nat /\ l.max[f] \in Nat
                       /\ l.min[f] <= l.max[f] /\ l.max[f] < Width(f)
                       /\ f \in Hardened => 22 <= l.max[f] /\ l.max[f] < U8Max
  BY LimitValues
<1>4. f \in Limited => hard \in l.min[f]..l.max[f]
  BY <1>2, <1>3, ClampBounds
<1>5. f \in Limited => ecc \in l.min[f]..l.max[f]
  <2>1. CASE f \in Relaxable /\ rate > EccThreshold
    <3>1. f \in Limited /\ f \in Hardened  BY <2>1, FieldSets
    <3>2. Relax(hard, l.max[f]) \in hard..l.max[f]
      BY <3>1, <1>3, <1>4, RelaxBounds
    <3> QED  BY <2>1, <3>1, <3>2, <1>3, <1>4
  <2>2. CASE ~(f \in Relaxable /\ rate > EccThreshold)
    BY <2>2, <1>4
  <2> QED  BY <2>1, <2>2
<1>6. CASE f \in Limited
  BY <1>1, <1>3, <1>5, <1>6, <1>2, FieldSets DEF Larger
<1>7. CASE f \notin Limited
  BY <1>1, <1>2, <1>7, FieldSets
<1> QED  BY <1>6, <1>7

\* The limiter returns an operating point within the limits, with the security
\* floor in force when it was asked for.
LEMMA LimiterIsSafe ==
  ASSUME NEW p \in phy_config, NEW l, LimitsOK(l), NEW rate \in Nat, NEW sec \in Byte
  PROVE  /\ safety_clamp(p, l, rate, sec) \in phy_config
         /\ Within(safety_clamp(p, l, rate, sec), l)
         /\ sec > 0 => Floored(safety_clamp(p, l, rate, sec))
<1> DEFINE c == safety_clamp(p, l, rate, sec)
<1>1. \A f \in Fields : /\ c[f] \in Nat /\ c[f] < Width(f)
                        /\ f \in Limited => l.min[f] <= c[f] /\ c[f] <= l.max[f]
                        /\ f \in Hardened /\ sec > 0 => 22 <= c[f]
  BY LimiterField
<1>2. \A f \in Fields : Width(f) \in {U8Max + 1, U16Max + 1}
  BY DEF Width
<1>3. c = [f \in Fields |-> c[f]]
  BY DEF safety_clamp
<1>4. c \in phy_config
  <2>1. \A f \in Fields : c[f] \in 0..U16Max  BY <1>1, <1>2, Widths
  <2>2. c \in [Fields -> 0..U16Max]  BY <2>1, <1>3
  <2> QED  BY <2>2, <1>1 DEF phy_config
<1>5. Within(c, l)  BY <1>1, FieldSets DEF Within
<1>6. sec > 0 => Floored(c)  BY <1>1, FieldSets DEF Floored, Nominal
<1> QED  BY <1>4, <1>5, <1>6

\* What the limiter makes of a proposal within the limits while ECC is healthy: the
\* security floor is all that is left of it.
WithFloor(p, sec) ==
  [f \in Fields |-> IF f \in Hardened /\ sec > 0 THEN Larger(p[f], Nominal) ELSE p[f]]

LEMMA FloorOnly ==
  ASSUME NEW p \in phy_config, NEW l, LimitsOK(l), NEW rate \in Nat, NEW sec \in Byte,
         rate <= EccThreshold, Within(p, l)
  PROVE  /\ safety_clamp(p, l, rate, sec) = WithFloor(p, sec)
         /\ \A f \in Fields : safety_clamp(p, l, rate, sec)[f]
              = IF f \in Hardened /\ sec > 0 THEN Larger(p[f], Nominal) ELSE p[f]
<1>1. ASSUME NEW f \in Fields
      PROVE  safety_clamp(p, l, rate, sec)[f]
               = IF f \in Hardened /\ sec > 0 THEN Larger(p[f], Nominal) ELSE p[f]
  <2>1. p[f] \in Nat
    BY ConfigValue, Widths
  <2>2. ~(rate > EccThreshold)
    BY DEF EccThreshold
  <2>3. f \in Limited => /\ l.min[f] \in Nat /\ l.max[f] \in Nat /\ l.min[f] <= l.max[f]
                         /\ p[f] \in l.min[f]..l.max[f]
    BY <2>1, LimitValues, Widths DEF Within
  <2>4. f \in Limited => Smaller(Larger(p[f], l.min[f]), l.max[f]) = p[f]
    BY <2>1, <2>3, ClampBounds
  <2> QED  BY <2>2, <2>4, ClampedField
<1>2. safety_clamp(p, l, rate, sec) = [f \in Fields |-> safety_clamp(p, l, rate, sec)[f]]
  BY DEF safety_clamp
<1> QED  BY <1>1, <1>2 DEF WithFloor

\* phase_to_phy_config: the priority scaling is cut to a byte.
LEMMA PolicyType ==
  ASSUME NEW p \in Byte, NEW k \in Byte
  PROVE  phase_to_phy_config(p, k) \in phy_config
<1> DEFINE c == phase_to_phy_config(p, k)
<1>1. U8Max = 255 /\ U16Max = 65535
  BY DEF U8Max, U16Max
<1>2. Smaller(k, 7) \in Int
  BY <1>1 DEF Byte, Smaller
<1>3. \A f \in Fields : BestMode(p)[f] \in Int /\ NominalRow[f] \in Int
  BY DEF BestMode, NominalRow, Row, Nominal, Fields, Timings
<1>4. \A b, n \in Int : Scaled(b, n, Smaller(k, 7)) \in Byte
  <2> TAKE b, n \in Int
  <2>1. (b - n) * Smaller(k, 7) \in Int
    BY <1>2
  <2>2. n + CDiv((b - n) * Smaller(k, 7), 7) \in Int
    BY <2>1 DEF CDiv
  <2>3. \A i \in Int : 0 <= i % 256 /\ i % 256 <= 255
    OBVIOUS
  <2> QED  BY <2>2, <2>3, <1>1 DEF Scaled, Byte
<1>5. \A f \in Fields : c[f] = IF f \in Timings
                               THEN Scaled(BestMode(p)[f], NominalRow[f], Smaller(k, 7))
                               ELSE BestMode(p)[f]
  BY DEF phase_to_phy_config
<1>6. \A f \in Timings : c[f] \in Byte
  BY <1>3, <1>4, <1>5, FieldSets
<1>7. c["vswing_mv"] \in 0..U16Max
  <2>1. c["vswing_mv"] = BestMode(p)["vswing_mv"]
    BY <1>5, FieldSets
  <2>2. BestMode(p)["vswing_mv"] \in {240, 280, 290, 300}
    BY DEF BestMode, NominalRow, Row, Fields, Timings
  <2> HIDE DEF c
  <2>3. c["vswing_mv"] \in Int /\ 0 <= c["vswing_mv"] /\ c["vswing_mv"] <= U16Max
    BY <1>1, <2>1, <2>2
  <2>4. U16Max \in Int
    BY <1>1
  <2> QED  BY <2>3, <2>4
<1>8. \A f \in Fields : c[f] \in 0..U16Max /\ c[f] < Width(f)
  <2> TAKE f \in Fields
  <2>1. CASE f \in Timings
    BY <2>1, <1>6, Widths, FieldSets DEF Width, Byte
  <2>2. CASE f = "vswing_mv"
    BY <2>2, <1>7, Widths DEF Width
  <2> QED  BY <2>1, <2>2 DEF Fields
<1>9. c \in [Fields -> 0..U16Max]
  BY <1>8 DEF phase_to_phy_config
<1> QED  BY <1>8, <1>9 DEF phy_config

\* The limits of the module are admissible.
LEMMA PlatformLimits == LimitsOK(platform_limits)
<1>1. U8Max = 255 /\ U16Max = 65535
  BY DEF U8Max, U16Max
<1>2. platform_limits \in jedec_limits
  BY <1>1 DEF platform_limits, jedec_limits
<1>3. \A f \in Limited : /\ platform_limits.min[f] <= platform_limits.max[f]
                         /\ platform_limits.max[f] < Width(f)
  BY <1>1, FieldSets DEF platform_limits, Width
<1>4. \A f \in Hardened : Nominal <= platform_limits.max[f] /\ platform_limits.max[f] < U8Max
  BY <1>1, FieldSets DEF platform_limits, Nominal, Hardened, Timings
<1> QED  BY <1>2, <1>3, <1>4 DEF LimitsOK
-----------------------------------------------------------------------------
(* The priority scaling.  Every two bytes and every priority up to 7 are   *)
(* covered, not only those of the phase table.                             *)

\* C's division by 7 of a product with a factor up to 7 keeps the sign of the
\* deviation, never exceeds it, and is exact at both ends.
LEMMA SevenParts ==
  ASSUME NEW d \in Int, NEW k \in 0..7
  PROVE  /\ CDiv(d * k, 7) \in Int
         /\ d >= 0 => 0 <= CDiv(d * k, 7) /\ CDiv(d * k, 7) <= d
         /\ d <= 0 => d <= CDiv(d * k, 7) /\ CDiv(d * k, 7) <= 0
         /\ k = 0 => CDiv(d * k, 7) = 0
         /\ k = 7 => CDiv(d * k, 7) = d
<1> DEFINE x == d * k
<1>1. /\ x \in Int /\ -x \in Int
      /\ d >= 0 => 0 <= x /\ x <= 7 * d
      /\ d <= 0 => 7 * d <= x /\ x <= 0
      /\ k = 0 => x = 0
      /\ k = 7 => x = 7 * d
  <2>1. k \in {0, 1, 2, 3, 4, 5, 6, 7}
    OBVIOUS
  <2>2. CASE k \in {0, 1}  BY <2>2
  <2>3. CASE k \in {2, 3}  BY <2>3
  <2>4. CASE k \in {4, 5}  BY <2>4
  <2>5. CASE k \in {6, 7}  BY <2>5
  <2> QED  BY <2>1, <2>2, <2>3, <2>4, <2>5
<1> HIDE DEF x
<1>2. CDiv(x, 7) = IF x >= 0 THEN x \div 7 ELSE -((-x) \div 7)
  BY DEF CDiv
<1>3. CASE x >= 0
  <2>1. CDiv(x, 7) = x \div 7 /\ x \div 7 \in Int
    BY <1>1, <1>2, <1>3
  <2>2. 7 * (x \div 7) <= x /\ x < 7 * (x \div 7) + 7
    BY <1>1
  <2> QED  BY <1>1, <1>3, <2>1, <2>2 DEF x
<1>4. CASE x < 0
  <2> DEFINE y == (-x) \div 7
  <2>1. CDiv(x, 7) = -y /\ y \in Int
    BY <1>1, <1>2, <1>4
  <2>2. 7 * y <= -x /\ -x < 7 * y + 7
    BY <1>1
  <2> HIDE DEF y
  <2> QED  BY <1>1, <1>4, <2>1, <2>2 DEF x
<1> QED  BY <1>1, <1>3, <1>4

\* The scaled value lies between the nominal one and the table's, so that the u8 it
\* is stored in never wraps, and reaches both ends.
LEMMA ScaledBetween ==
  ASSUME NEW b \in Byte, NEW n \in Byte, NEW k \in 0..7
  PROVE  /\ Scaled(b, n, k) = n + CDiv((b - n) * k, 7)
         /\ Scaled(b, n, k) \in Byte
         /\ n <= b => n <= Scaled(b, n, k) /\ Scaled(b, n, k) <= b
         /\ b <= n => b <= Scaled(b, n, k) /\ Scaled(b, n, k) <= n
         /\ k = 0 => Scaled(b, n, k) = n
         /\ k = 7 => Scaled(b, n, k) = b
<1> DEFINE part == CDiv((b - n) * k, 7)
<1>1. U8Max + 1 = 256 /\ b \in 0..255 /\ n \in 0..255
  BY DEF U8Max, Byte
<1>2. b - n \in Int /\ (n <= b <=> b - n >= 0) /\ (b <= n <=> b - n <= 0)
  BY <1>1
<1>3. /\ part \in Int
      /\ n <= b => 0 <= part /\ part <= b - n
      /\ b <= n => b - n <= part /\ part <= 0
      /\ k = 0 => part = 0
      /\ k = 7 => part = b - n
  BY <1>2, SevenParts
<1>4. Scaled(b, n, k) = (n + part) % 256
  BY <1>1 DEF Scaled
<1> HIDE DEF part
<1>5. n + part \in 0..255
  BY <1>1, <1>3
<1>6. Scaled(b, n, k) = n + part
  BY <1>4, <1>5
<1> QED  BY <1>1, <1>3, <1>5, <1>6 DEF part, Byte, U8Max

\* A higher priority is never closer to nominal than a lower one.
LEMMA ScaledMonotone ==
  ASSUME NEW b \in Byte, NEW n \in Byte, NEW k \in 0..7, NEW m \in 0..7, k <= m
  PROVE  /\ n <= b => Scaled(b, n, k) <= Scaled(b, n, m)
         /\ b <= n => Scaled(b, n, m) <= Scaled(b, n, k)
<1> DEFINE d == b - n
<1>1. b \in Int /\ n \in Int /\ d \in Int /\ (n <= b <=> d >= 0) /\ (b <= n <=> d <= 0)
  BY DEF Byte
<1>2. /\ Scaled(b, n, k) = n + CDiv(d * k, 7)
      /\ Scaled(b, n, m) = n + CDiv(d * m, 7)
  BY ScaledBetween
<1> HIDE DEF d
<1>3. PICK j \in 0..7 : m = k + j
  BY m - k \in 0..7
<1>4. /\ d * k \in Int /\ d * j \in Int /\ d * m = d * k + d * j
      /\ d >= 0 => d * k >= 0 /\ d * j >= 0
      /\ d <= 0 => d * k <= 0 /\ d * j <= 0
  BY <1>1, <1>3
<1>5. \A x, y \in Int : x <= y => x \div 7 <= y \div 7
  OBVIOUS
<1>6. CASE d >= 0
  <2>1. d * k >= 0 /\ d * m >= 0 /\ d * k <= d * m /\ d * m \in Int
    BY <1>4, <1>6
  <2>2. CDiv(d * k, 7) = (d * k) \div 7 /\ CDiv(d * m, 7) = (d * m) \div 7
    BY <2>1 DEF CDiv
  <2> QED  BY <1>1, <1>2, <1>4, <1>5, <1>6, <2>1, <2>2
<1>7. CASE d < 0
  <2> DEFINE x == d * k
             y == d * m
  <2>1. x \in Int /\ y \in Int /\ x <= 0 /\ y <= x
    BY <1>1, <1>4, <1>7
  <2>2. Scaled(b, n, k) = n + CDiv(x, 7) /\ Scaled(b, n, m) = n + CDiv(y, 7)
    BY <1>2
  <2> HIDE DEF x, y
  <2>3. /\ -x \in Int /\ -y \in Int /\ -x <= -y
        /\ CDiv(x, 7) = -((-x) \div 7) /\ CDiv(y, 7) = -((-y) \div 7)
    BY <2>1 DEF CDiv
  <2>4. (-x) \div 7 <= (-y) \div 7
    BY <1>5, <2>3
  <2> QED  BY <1>1, <1>7, <2>2, <2>3, <2>4
<1> QED  BY <1>1, <1>6, <1>7

\* What phase_to_phy_config does to a timing, and the range the table's rows are in.
LEMMA PolicyTiming ==
  ASSUME NEW p \in Byte, NEW q \in Byte, NEW f \in Timings
  PROVE  /\ BestMode(p)[f] \in Byte /\ NominalRow[f] \in Byte /\ Smaller(q, 7) \in 0..7
         /\ phase_to_phy_config(p, q)[f]
              = Scaled(BestMode(p)[f], NominalRow[f], Smaller(q, 7))
         /\ f \in Hardened => BestMode(p)[f] \in 18..24 /\ NominalRow[f] = 22
<1>1. f \in Fields /\ f \in {"tRCD", "tCL", "tRP", "tRAS"}
  BY FieldSets DEF Timings
<1>2. BestMode(p) \in {Row(18, 42, 280), Row(18, 38, 280), Row(20, 48, 290),
                       Row(24, 56, 240), Row(22, 52, 300)}
  BY DEF BestMode, NominalRow, Nominal
<1>3. \A rcd, ras, mv \in Nat : Row(rcd, ras, mv)[f] = IF f = "tRAS" THEN ras ELSE rcd
  BY <1>1 DEF Row
<1>4. PICK rcd \in {18, 20, 22, 24}, ras \in {38, 42, 48, 52, 56}, mv \in Nat :
         BestMode(p) = Row(rcd, ras, mv)
  BY <1>2
<1>5. BestMode(p)[f] = IF f = "tRAS" THEN ras ELSE rcd
  <2>1. rcd \in Nat /\ ras \in Nat /\ mv \in Nat
    OBVIOUS
  <2> QED  BY <1>3, <1>4, <2>1
<1>6. NominalRow[f] = IF f = "tRAS" THEN 52 ELSE 22
  BY <1>3 DEF NominalRow, Nominal
<1>7. f \in Hardened => f # "tRAS"
  BY DEF Hardened
<1>8. Smaller(q, 7) \in 0..7
  BY DEF Smaller, Byte
<1>9. phase_to_phy_config(p, q)[f] = Scaled(BestMode(p)[f], NominalRow[f], Smaller(q, 7))
  BY <1>1 DEF phase_to_phy_config
<1>10. BestMode(p)[f] \in Byte /\ NominalRow[f] \in Byte
  BY <1>5, <1>6 DEF Byte, U8Max
<1>11. f \in Hardened => BestMode(p)[f] \in 18..24 /\ NominalRow[f] = 22
  BY <1>5, <1>6, <1>7
<1> QED  BY <1>8, <1>9, <1>10, <1>11

\* Whatever the phase and the priority, the operating point that the policy engine asks
\* for is within the limits of the module.
LEMMA PolicyWithin ==
  ASSUME NEW p \in Byte, NEW q \in Byte
  PROVE  Within(phase_to_phy_config(p, q), platform_limits)
<1> DEFINE c == phase_to_phy_config(p, q)
<1>1. ASSUME NEW f \in Hardened
      PROVE  platform_limits.min[f] <= c[f] /\ c[f] <= platform_limits.max[f]
  <2>1. f \in Timings /\ f \in Limited /\ f # "vswing_mv"
    BY FieldSets DEF Hardened
  <2>2. platform_limits.min[f] = 14 /\ platform_limits.max[f] \in {32, 36}
    BY <2>1 DEF platform_limits
  <2>3. c[f] \in 18..24
    <3>1. /\ BestMode(p)[f] \in Byte /\ NominalRow[f] \in Byte /\ Smaller(q, 7) \in 0..7
          /\ c[f] = Scaled(BestMode(p)[f], NominalRow[f], Smaller(q, 7))
          /\ BestMode(p)[f] \in 18..24 /\ NominalRow[f] = 22
      BY <2>1, PolicyTiming
    <3>2. c[f] \in Byte
      BY <3>1, ScaledBetween
    <3>3. CASE NominalRow[f] <= BestMode(p)[f]
      <4>1. NominalRow[f] <= c[f] /\ c[f] <= BestMode(p)[f]
        BY <3>1, <3>3, ScaledBetween
      <4> HIDE DEF c
      <4> QED  BY <3>1, <3>2, <4>1 DEF Byte
    <3>4. CASE BestMode(p)[f] <= NominalRow[f]
      <4>1. BestMode(p)[f] <= c[f] /\ c[f] <= NominalRow[f]
        BY <3>1, <3>4, ScaledBetween
      <4> HIDE DEF c
      <4> QED  BY <3>1, <3>2, <4>1 DEF Byte
    <3> QED  BY <3>1, <3>3, <3>4
  <2> HIDE DEF c
  <2> QED  BY <2>2, <2>3
<1>2. /\ platform_limits.min["vswing_mv"] <= c["vswing_mv"]
      /\ c["vswing_mv"] <= platform_limits.max["vswing_mv"]
  <2>1. "vswing_mv" \in Fields /\ "vswing_mv" \in Limited /\ "vswing_mv" \notin Timings
    BY FieldSets DEF Limited
  <2>2. c["vswing_mv"] = BestMode(p)["vswing_mv"]
    BY <2>1 DEF phase_to_phy_config
  <2>3. BestMode(p)["vswing_mv"] \in {240, 280, 290, 300}
    BY <2>1 DEF BestMode, NominalRow, Row
  <2>4. /\ platform_limits.min["vswing_mv"] = 200
        /\ platform_limits.max["vswing_mv"] = 400
    BY <2>1 DEF platform_limits
  <2> HIDE DEF c
  <2> QED  BY <2>2, <2>3, <2>4
<1> QED  BY <1>1, <1>2 DEF Within, Limited

\* Hence the limiter's clamp and its ECC stage never touch a point of the table: what
\* reaches the hardware is the table's row at the hint's priority, with the security
\* floor where the hint asks for it.
LEMMA PolicyFloorOnly ==
  ASSUME NEW p \in Byte, NEW q \in Byte, NEW sec \in Byte
  PROVE  safety_clamp(phase_to_phy_config(p, q), platform_limits, 0, sec)
           = WithFloor(phase_to_phy_config(p, q), sec)
<1>1. 0 \in Nat /\ 0 <= EccThreshold
  BY DEF EccThreshold
<1> QED  BY <1>1, PolicyType, PlatformLimits, PolicyWithin, FloorOnly
=============================================================================
