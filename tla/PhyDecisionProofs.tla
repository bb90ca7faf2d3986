------------------------- MODULE PhyDecisionProofs -------------------------
(***************************************************************************)
(* The limiter's guarantees for every admissible request: that it is safe, *)
(* that it leaves safe proposals alone, and that it never turns a slower   *)
(* proposal into a faster operating point.                                 *)
(***************************************************************************)
EXTENDS PhyDecision, PhyPolicyProofs

\* Every proposal is an admissible request: the arbitrary ones by assumption, those
\* of the policy engine and of the self-test because they fit their types.
LEMMA RequestValues ==
  ASSUME NEW r \in Proposals
  PROVE  /\ r.p \in phy_config /\ LimitsOK(r.l)
         /\ r.rate \in Nat /\ r.sec \in Byte
<1>1. 0 \in Byte /\ 1 \in Byte
  BY DEF Byte, U8Max
<1>2. CASE r \in Requests
  BY <1>2, RequestsAssumption DEF Request
<1>3. CASE \E ph \in Phases, q \in Priorities : r = Asked(ph, q)
  <2>1. PICK ph \in Phases, q \in Priorities : r = Asked(ph, q)
    BY <1>3
  <2>2. phase_to_phy_config(ph, q) \in phy_config
    BY LookupAssumption, PolicyType
  <2> QED  BY <1>1, <2>1, <2>2, PlatformLimits DEF Asked
<1>4. CASE \E test \in Selftest : r = Tried(test)
  <2>1. PICK test \in Selftest : r = Tried(test)
    BY <1>4
  <2>2. test.p \in phy_config /\ test.rate \in Nat /\ test.sec \in Byte
    <3>1. PICK rcd \in {8, 40, 22, 16, 18}, mv \in {300, 100} :
                 test.p = [Row(Nominal, 52, mv) EXCEPT !["tRCD"] = rcd]
      BY DEF Selftest
    <3>2. test.rate \in {0, 200} /\ test.sec \in {0, 1}
      BY DEF Selftest
    <3>3. 52 < U8Max /\ 300 < U16Max
      BY DEF U8Max, U16Max
    <3>4. \A f \in Fields : test.p[f] \in 0..U16Max /\ test.p[f] < Width(f)
      <4> TAKE f \in Fields
      <4>1. test.p[f] = IF f = "tRCD" THEN rcd ELSE Row(Nominal, 52, mv)[f]
        BY <3>1 DEF Row
      <4>2. CASE f \in Timings
        <5>1. Row(Nominal, 52, mv)[f] \in {22, 52}
          BY <4>2 DEF Row, Nominal, Timings
        <5>2. test.p[f] \in {8, 40, 22, 16, 18, 52}
          BY <4>1, <5>1
        <5>3. Width(f) = U8Max + 1
          BY <4>2, FieldSets DEF Width
        <5> QED  BY <5>2, <5>3, <3>3, Widths
      <4>3. CASE f = "vswing_mv"
        <5>1. Row(Nominal, 52, mv)[f] = mv
          BY <4>3 DEF Row, Fields, Timings
        <5>2. test.p[f] \in {100, 300}
          BY <4>1, <4>3, <5>1
        <5>3. Width(f) = U16Max + 1
          BY <4>3 DEF Width
        <5> QED  BY <5>2, <5>3, <3>3, Widths
      <4> QED  BY <4>2, <4>3 DEF Fields
    <3>5. test.p = [f \in Fields |-> test.p[f]]
      BY <3>1 DEF Row
    <3>6. test.p \in [Fields -> 0..U16Max]
      BY <3>4, <3>5
    <3> QED  BY <1>1, <3>2, <3>4, <3>6 DEF phy_config
  <2> QED  BY <2>1, <2>2, PlatformLimits DEF Tried
<1> QED  BY <1>2, <1>3, <1>4 DEF Proposals

\* What is needed besides the types: the point is the proposal until it is
\* limited, and what the limiter made of it from then on.
Inv == /\ TypeOK
       /\ point = IF limited
                  THEN safety_clamp(request.p, request.l, request.rate, request.sec)
                  ELSE request.p

LEMMA InvInductive == Spec => []Inv
<1>1. Init => Inv
  BY RequestValues DEF Init, Inv, TypeOK
<1>2. Inv /\ [Next]_vars => Inv'
  <2> SUFFICES ASSUME Inv, [Next]_vars  PROVE Inv'
    OBVIOUS
  <2>1. CASE Limit
    <3>1. /\ request \in Proposals /\ point = request.p
      BY <2>1 DEF Inv, TypeOK, Limit
    <3>2. /\ point' = safety_clamp(request.p, request.l, request.rate, request.sec)
          /\ limited' = TRUE /\ request' = request
      BY <2>1, <3>1 DEF Limit
    <3>3. point' \in phy_config
      BY <3>1, <3>2, RequestValues, LimiterIsSafe
    <3> QED  BY <3>1, <3>2, <3>3 DEF Inv, TypeOK
  <2>2. CASE UNCHANGED vars
    BY <2>2 DEF Inv, TypeOK, vars
  <2> QED  BY <2>1, <2>2 DEF Next
<1> QED  BY <1>1, <1>2, PTL DEF Spec

\* Stored operating points fit struct phy_config before and after the limiter.
THEOREM TypeCorrect == Spec => []TypeOK
<1>1. Inv => TypeOK
  BY DEF Inv
<1> QED  BY <1>1, InvInductive, PTL

\* safety_clamp keeps every proposal within the module's limits and keeps the
\* security floor, whatever the limits, the error rate and the proposal.
THEOREM LimiterSafety == Spec => []LimitedIsSafe
<1>1. Inv => LimitedIsSafe
  BY RequestValues, LimiterIsSafe DEF Inv, TypeOK, LimitedIsSafe
<1> QED  BY <1>1, InvInductive, PTL

-----------------------------------------------------------------------------
\* With healthy ECC the limiter leaves a safe proposal alone.
LEMMA SafeFieldUnchanged ==
  ASSUME NEW p \in phy_config, NEW l, LimitsOK(l), NEW rate \in Nat, NEW sec \in Byte,
         rate <= EccThreshold, Within(p, l), sec > 0 => Floored(p),
         NEW f \in Fields
  PROVE  safety_clamp(p, l, rate, sec)[f] = p[f]
<1>1. p[f] \in Nat
  BY ConfigValue, Widths
<1>2. safety_clamp(p, l, rate, sec)[f] = IF f \in Hardened /\ sec > 0
                                         THEN Larger(p[f], Nominal) ELSE p[f]
  BY FloorOnly
<1>3. f \in Hardened /\ sec > 0 => Larger(p[f], Nominal) = p[f]
  BY <1>1 DEF Floored, Larger, Nominal
<1> QED  BY <1>2, <1>3

LEMMA SafeUnchanged == Inv => SafeIsUnchanged
<1> SUFFICES ASSUME Inv, limited, request.rate <= EccThreshold,
                    Within(request.p, request.l),
                    request.sec > 0 => Floored(request.p)
             PROVE  point = request.p
  BY DEF SafeIsUnchanged
<1>1. /\ request.p \in phy_config /\ LimitsOK(request.l)
      /\ request.rate \in Nat /\ request.sec \in Byte
  BY RequestValues DEF Inv, TypeOK
<1>2. point = safety_clamp(request.p, request.l, request.rate, request.sec)
  BY DEF Inv
<1>3. \A f \in Fields : point[f] = request.p[f]
  BY <1>1, <1>2, SafeFieldUnchanged
<1>4. /\ point \in [Fields -> 0..U16Max]
      /\ request.p \in [Fields -> 0..U16Max]
  BY <1>1 DEF Inv, TypeOK, phy_config
<1> QED  BY <1>3, <1>4

\* The limiter is no stricter than it has to be.
THEOREM LimiterIsTransparent == Spec => []SafeIsUnchanged
BY SafeUnchanged, InvInductive, PTL

-----------------------------------------------------------------------------
\* Each stage of the limiter is monotone, so their composition is.  The u8
\* addition of the ECC stage is, because the limits keep it from wrapping.
LEMMA MonotoneField ==
  ASSUME NEW p \in phy_config, NEW q \in phy_config, NEW l, LimitsOK(l),
         NEW rate \in Nat, NEW sec \in Byte, NEW f \in Fields, p[f] <= q[f]
  PROVE  safety_clamp(p, l, rate, sec)[f] <= safety_clamp(q, l, rate, sec)[f]
<1> DEFINE hard(c) == IF f \in Limited THEN Smaller(Larger(c[f], l.min[f]), l.max[f])
                                       ELSE c[f]
           ecc(c)  == IF f \in Relaxable /\ rate > EccThreshold
                      THEN Relax(hard(c), l.max[f]) ELSE hard(c)
<1>1. /\ safety_clamp(p, l, rate, sec)[f]
           = IF f \in Hardened /\ sec > 0 THEN Larger(ecc(p), Nominal) ELSE ecc(p)
      /\ safety_clamp(q, l, rate, sec)[f]
           = IF f \in Hardened /\ sec > 0 THEN Larger(ecc(q), Nominal) ELSE ecc(q)
  BY ClampedField
<1>2. p[f] \in Nat /\ q[f] \in Nat
  BY ConfigValue, Widths
<1>3. f \in Limited => /\ l.min[f] \in Nat /\ l.max[f] \in Nat /\ l.min[f] <= l.max[f]
                       /\ f \in Hardened => l.max[f] < U8Max
  BY LimitValues, Widths
<1>4. /\ hard(p) \in Nat /\ hard(q) \in Nat /\ hard(p) <= hard(q)
      /\ f \in Limited => hard(p) <= l.max[f] /\ hard(q) <= l.max[f]
  BY <1>2, <1>3 DEF Smaller, Larger
<1>5. ecc(p) \in Nat /\ ecc(q) \in Nat /\ ecc(p) <= ecc(q)
  <2>1. CASE f \in Relaxable /\ rate > EccThreshold
    <3>1. f \in Limited /\ f \in Hardened  BY <2>1, FieldSets
    <3>2. /\ l.max[f] \in Nat /\ l.max[f] < U8Max
          /\ hard(p) \in Nat /\ hard(q) \in Nat /\ hard(p) <= hard(q)
          /\ hard(p) <= l.max[f] /\ hard(q) <= l.max[f]
      BY <3>1, <1>3, <1>4
    <3>3. /\ Relax(hard(p), l.max[f]) \in hard(p)..l.max[f]
          /\ Relax(hard(q), l.max[f]) \in hard(q)..l.max[f]
          /\ hard(p) < l.max[f] => Relax(hard(p), l.max[f]) = hard(p) + 1
          /\ hard(q) < l.max[f] => Relax(hard(q), l.max[f]) = hard(q) + 1
      BY <3>2, RelaxBounds
    <3> HIDE DEF hard
    <3>4. Relax(hard(p), l.max[f]) <= Relax(hard(q), l.max[f])
      BY <3>2, <3>3
    <3> QED  BY <2>1, <3>2, <3>3, <3>4
  <2>2. CASE ~(f \in Relaxable /\ rate > EccThreshold)
    BY <2>2, <1>4
  <2> QED  BY <2>1, <2>2
<1> HIDE DEF ecc, hard
<1> QED  BY <1>1, <1>5 DEF Larger, Nominal

\* A slower proposal never yields a faster operating point.
THEOREM LimiterMonotone == Spec => []LimiterIsMonotone
<1>1. Inv => LimiterIsMonotone
  <2> DEFINE slower == [f \in Fields |-> IF f \in Timings
                                         THEN Smaller(request.p[f] + 1, U8Max)
                                         ELSE request.p[f]]
  <2> SUFFICES ASSUME Inv, limited, NEW f \in Fields
               PROVE  point[f] <= safety_clamp(slower, request.l, request.rate,
                                               request.sec)[f]
    BY DEF LimiterIsMonotone
  <2>1. /\ request.p \in phy_config /\ LimitsOK(request.l)
        /\ request.rate \in Nat /\ request.sec \in Byte
    BY RequestValues DEF Inv, TypeOK
  <2>2. \A g \in Fields : /\ request.p[g] \in 0..U16Max /\ request.p[g] < Width(g)
                          /\ g \in Timings => Width(g) = U8Max + 1
    BY <2>1, ConfigValue, FieldSets DEF Width, Timings
  <2>3. \A g \in Fields : /\ slower[g] \in 0..U16Max /\ slower[g] < Width(g)
                          /\ request.p[g] <= slower[g]
    BY <2>2, Widths DEF Smaller
  <2>4. slower \in phy_config
    BY <2>3 DEF phy_config
  <2> HIDE DEF slower
  <2> QED  BY <2>1, <2>3, <2>4, MonotoneField DEF Inv
<1> QED  BY <1>1, InvInductive, PTL
-----------------------------------------------------------------------------
\* The ECC stage against no ECC stage, field by field.
LEMMA RelaxedField ==
  ASSUME NEW p \in phy_config, NEW l, LimitsOK(l), NEW rate \in Nat, NEW sec \in Byte,
         NEW f \in Fields, rate > EccThreshold
  PROVE  LET healthy == safety_clamp(p, l, 0, sec)[f]
             relaxed == safety_clamp(p, l, rate, sec)[f]
         IN  /\ healthy <= relaxed
             /\ (f \in Relaxable /\ sec = 0 /\ healthy < l.max[f]) => healthy < relaxed
<1> DEFINE hard == IF f \in Limited THEN Smaller(Larger(p[f], l.min[f]), l.max[f]) ELSE p[f]
           ecc  == IF f \in Relaxable THEN Relax(hard, l.max[f]) ELSE hard
<1>1. /\ safety_clamp(p, l, rate, sec)[f]
           = IF f \in Hardened /\ sec > 0 THEN Larger(ecc, Nominal) ELSE ecc
      /\ safety_clamp(p, l, 0, sec)[f]
           = IF f \in Hardened /\ sec > 0 THEN Larger(hard, Nominal) ELSE hard
  <2>1. ~(0 > EccThreshold)
    BY DEF EccThreshold
  <2> QED  BY <2>1, ClampedField
<1>2. p[f] \in Nat
  BY ConfigValue, Widths
<1>3. f \in Limited => /\ l.min[f] \in Nat /\ l.max[f] \in Nat /\ l.min[f] <= l.max[f]
                       /\ f \in Hardened => l.max[f] < U8Max
  BY LimitValues, Widths
<1>4. hard \in Nat /\ (f \in Limited => hard <= l.max[f])
  BY <1>2, <1>3 DEF Smaller, Larger
<1> HIDE DEF hard
<1>5. /\ ecc \in Nat /\ hard <= ecc
      /\ (f \in Relaxable /\ hard < l.max[f]) => ecc = hard + 1
  BY <1>3, <1>4, RelaxBounds, FieldSets
<1> HIDE DEF ecc
<1>6. f \in Relaxable /\ sec = 0 => ~(f \in Hardened /\ sec > 0)
  OBVIOUS
<1> QED  BY <1>1, <1>4, <1>5, <1>6 DEF Larger, Nominal

\* Errors only ever slow the module down (safety_clamp's ECC stage), whatever the
\* limits, and do so while there is room.
THEOREM ErrorsSlowDown == Spec => []ErrorsRelax
<1>1. Inv => ErrorsRelax
  <2> SUFFICES ASSUME Inv, limited, request.rate > EccThreshold, NEW f \in Fields
               PROVE  LET healthy == safety_clamp(request.p, request.l, 0, request.sec)
                      IN  /\ healthy[f] <= point[f]
                          /\ (f \in Relaxable /\ request.sec = 0 /\ healthy[f] < request.l.max[f])
                               => healthy[f] < point[f]
    BY DEF ErrorsRelax
  <2>1. /\ request.p \in phy_config /\ LimitsOK(request.l)
        /\ request.rate \in Nat /\ request.sec \in Byte
    BY RequestValues DEF Inv, TypeOK
  <2>2. point = safety_clamp(request.p, request.l, request.rate, request.sec)
    BY DEF Inv
  <2> QED  BY <2>1, <2>2, RelaxedField
<1> QED  BY <1>1, InvInductive, PTL
-----------------------------------------------------------------------------
(* What the limiter is fed with: the phase table and the self-test.        *)

\* The policy engine's scaling (phase_to_phy_config): priority 0 is nominal, 7 and more
\* the table's row, and each step up leads from the one to the other without ever
\* turning back or wrapping its u8, for every phase and priority a byte can hold.
THEOREM PriorityScaling == Spec => []PriorityScales
<1>1. ASSUME NEW ph \in Phases, NEW q \in Priorities, request = Asked(ph, q),
             NEW f \in Timings, NEW k \in 0..Smaller(q, 7)
      PROVE  LET c(j) == phase_to_phy_config(ph, j)
             IN  /\ c(0)[f] = NominalRow[f]
                 /\ q >= 7 => request.p[f] = BestMode(ph)[f]
                 /\ \/ NominalRow[f] <= c(k)[f] /\ c(k)[f] <= request.p[f]
                    \/ request.p[f] <= c(k)[f] /\ c(k)[f] <= NominalRow[f]
  <2> DEFINE b == BestMode(ph)[f]
             n == NominalRow[f]
             top == Smaller(q, 7)
  <2>1. ph \in Byte /\ q \in Byte
    BY LookupAssumption
  <2>2. q \in Nat /\ top \in 0..7 /\ (q >= 7 => top = 7) /\ top <= q
    BY <2>1 DEF Smaller, Byte
  <2>3. k \in 0..7 /\ k <= top /\ Smaller(k, 7) = k /\ Smaller(0, 7) = 0
    BY <2>2 DEF Smaller
  <2>4. k \in Byte /\ 0 \in Byte
    BY <2>3 DEF Byte, U8Max
  <2>5. b \in Byte /\ n \in Byte
    BY <2>1, PolicyTiming
  <2>6. /\ phase_to_phy_config(ph, 0)[f] = Scaled(b, n, 0)
        /\ phase_to_phy_config(ph, k)[f] = Scaled(b, n, k)
        /\ request.p[f] = Scaled(b, n, top)
    BY <1>1, <2>1, <2>3, <2>4, PolicyTiming DEF Asked
  <2> HIDE DEF b, n, top
  <2>7. /\ Scaled(b, n, 0) = n
        /\ top = 7 => Scaled(b, n, top) = b
    BY <2>2, <2>5, ScaledBetween
  <2>8. CASE n <= b
    <3>1. n <= Scaled(b, n, k) /\ Scaled(b, n, k) <= Scaled(b, n, top)
      BY <2>2, <2>3, <2>5, <2>8, ScaledBetween, ScaledMonotone
    <3> QED  BY <2>2, <2>6, <2>7, <3>1 DEF b, n
  <2>9. CASE b <= n
    <3>1. Scaled(b, n, top) <= Scaled(b, n, k) /\ Scaled(b, n, k) <= n
      BY <2>2, <2>3, <2>5, <2>9, ScaledBetween, ScaledMonotone
    <3> QED  BY <2>2, <2>6, <2>7, <3>1 DEF b, n
  <2> QED  BY <2>5, <2>8, <2>9 DEF Byte
<1>2. ASSUME NEW q \in Priorities PROVE 0 \in 0..Smaller(q, 7)
  BY LookupAssumption DEF Smaller, Byte
<1>3. PriorityScales
  BY <1>1, <1>2 DEF PriorityScales
<1> QED  BY <1>3, PTL

\* No row of the phase table needs the limiter: at every priority the proposal is within
\* the module's limits, and without errors and security it leaves safety_clamp unchanged.
THEOREM TableIsWithinLimits == Spec => []TableNeedsNoLimiting
<1>1. Inv => TableNeedsNoLimiting
  <2> SUFFICES ASSUME Inv, NEW ph \in Phases, NEW q \in Priorities,
                      request = Asked(ph, q)
               PROVE  Within(request.p, request.l) /\ (limited => point = request.p)
    BY DEF TableNeedsNoLimiting
  <2>1. Within(request.p, request.l)
    BY LookupAssumption, PolicyWithin DEF Asked
  <2>2. request.rate = 0 /\ request.sec = 0
    BY DEF Asked
  <2>3. request.rate <= EccThreshold /\ ~(request.sec > 0)
    BY <2>2 DEF EccThreshold
  <2>4. Inv => SafeIsUnchanged
    BY SafeUnchanged
  <2> QED  BY <2>1, <2>3, <2>4 DEF SafeIsUnchanged
<1> QED  BY <1>1, InvInductive, PTL

\* The self-test that runs at load (safety_limiter_selftest) passes: each of its calls of
\* the limiter yields the value it compares the field with.
THEOREM SelftestSucceeds == Spec => []SelftestPasses
<1>1. Inv => SelftestPasses
  <2> SUFFICES ASSUME Inv, NEW test \in Selftest, limited, request = Tried(test)
               PROVE  point[test.field] = test.want
    BY DEF SelftestPasses
  <2> DEFINE f    == test.field
             v    == test.p[f]
             lo   == platform_limits.min[f]
             hi   == platform_limits.max[f]
             hard == Smaller(Larger(v, lo), hi)
             ecc  == IF f \in Relaxable /\ test.rate > EccThreshold
                     THEN Relax(hard, hi) ELSE hard
  <2>1. \/ /\ f = "tRCD"
           /\ \/ v =  8 /\ test.rate = 0 /\ test.sec = 0 /\ test.want = 14
              \/ v = 40 /\ test.rate = 0 /\ test.sec = 0 /\ test.want = 32
              \/ v = 16 /\ test.rate = 0 /\ test.sec = 1 /\ test.want = 22
              \/ v = 18 /\ test.rate = 200 /\ test.sec = 0 /\ test.want = 19
        \/ f = "vswing_mv" /\ v = 100 /\ test.rate = 0 /\ test.sec = 0 /\ test.want = 200
    <3>1. PICK rcd \in {8, 40, 22, 16, 18}, mv \in {300, 100} :
            /\ test.p = [Row(Nominal, 52, mv) EXCEPT !["tRCD"] = rcd]
            /\ \/ /\ f = "tRCD"
                  /\ \/ rcd =  8 /\ test.rate = 0 /\ test.sec = 0 /\ test.want = 14
                     \/ rcd = 40 /\ test.rate = 0 /\ test.sec = 0 /\ test.want = 32
                     \/ rcd = 16 /\ test.rate = 0 /\ test.sec = 1 /\ test.want = 22
                     \/ rcd = 18 /\ test.rate = 200 /\ test.sec = 0 /\ test.want = 19
               \/ f = "vswing_mv" /\ mv = 100 /\ test.rate = 0 /\ test.sec = 0 /\ test.want = 200
      BY DEF Selftest
    <3>2. test.p["tRCD"] = rcd /\ test.p["vswing_mv"] = mv
      BY <3>1, FieldSets DEF Row
    <3> QED  BY <3>1, <3>2
  <2>2. f \in Fields /\ f \in Limited /\ (f = "tRCD" => f \in Relaxable /\ f \in Hardened)
    BY <2>1, FieldSets DEF Relaxable, Hardened, Limited, Timings
  <2>3. point[f] = IF f \in Hardened /\ test.sec > 0 THEN Larger(ecc, Nominal) ELSE ecc
    <3>1. /\ request.p \in phy_config /\ LimitsOK(request.l)
          /\ request.rate \in Nat /\ request.sec \in Byte
      BY RequestValues DEF Inv, TypeOK
    <3>2. point = safety_clamp(test.p, platform_limits, test.rate, test.sec)
      BY DEF Inv, Tried
    <3>3. /\ test.p \in phy_config /\ LimitsOK(platform_limits)
          /\ test.rate \in Nat /\ test.sec \in Byte
      BY <3>1 DEF Tried
    <3> QED  BY <2>2, <3>2, <3>3, ClampedField
  <2>4. CASE f = "tRCD"
    <3>1. lo = 14 /\ hi = 32
      BY <2>4, <2>2 DEF platform_limits
    <3>2. hard = Smaller(Larger(v, 14), 32)
      BY <3>1
    <3>3. point[f] = IF test.sec > 0 THEN Larger(ecc, 22) ELSE ecc
      BY <2>2, <2>3, <2>4 DEF Nominal
    <3>4. CASE test.rate = 0
      <4>1. ecc = hard
        BY <3>4 DEF EccThreshold
      <4> HIDE DEF ecc, hard, f, v
      <4> QED  BY <2>1, <2>4, <3>2, <3>3, <3>4, <4>1 DEF Smaller, Larger, f
    <3>5. CASE test.rate = 200
      <4>1. ecc = Relax(hard, 32) /\ v = 18 /\ test.sec = 0 /\ test.want = 19
        BY <2>1, <2>2, <2>4, <3>1, <3>5 DEF EccThreshold
      <4>2. hard = 18
        BY <3>2, <4>1 DEF Smaller, Larger
      <4>3. ecc = 19
        BY <4>1, <4>2, RelaxBounds DEF U8Max
      <4> HIDE DEF ecc, hard, f, v
      <4> QED  BY <3>3, <4>1, <4>3 DEF f
    <3> QED  BY <2>1, <2>4, <3>4, <3>5
  <2>5. CASE f = "vswing_mv"
    <3>1. lo = 200 /\ hi = 400 /\ v = 100 /\ test.rate = 0 /\ test.sec = 0 /\ test.want = 200
      BY <2>1, <2>2, <2>5 DEF platform_limits
    <3>2. ecc = hard /\ hard = 200
      BY <3>1 DEF EccThreshold, Smaller, Larger
    <3> QED  BY <2>3, <3>1, <3>2
  <2> QED  BY <2>1, <2>4, <2>5
<1> QED  BY <1>1, InvInductive, PTL
=============================================================================
