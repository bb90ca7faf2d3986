----------------------------- MODULE PhyPolicy -----------------------------
(***************************************************************************)
(* The policy engine and the safety limiter of the mem_hint kernel module: *)
(* which operating point a workload phase asks for (phase_to_phy_config)   *)
(* and what the limiter leaves of it (safety_clamp).  Both are pure        *)
(* functions of their arguments, so this module has no variables.          *)
(*                                                                         *)
(* An operating point maps the four timings and the voltage swing to       *)
(* numbers.  The equalisation and refresh fields (dfe_tap, ctle_gain_db,   *)
(* refresh_mode) are table data that nothing scales, clamps or reads, and  *)
(* are left out.                                                           *)
(***************************************************************************)
EXTENDS MemHintTypes

\* Priority scales the four timings; the limiter bounds three of them (not
\* tRAS) and the swing; only two of them give way to ECC errors.
Timings   == {"tRCD", "tCL", "tRP", "tRAS"}
Hardened  == Timings \ {"tRAS"}
Relaxable == {"tRCD", "tCL"}
Limited   == Hardened \cup {"vswing_mv"}
Fields    == Timings \cup {"vswing_mv"}

\* The swing is a u16, the timings are u8.
Width(f) == IF f = "vswing_mv" THEN U16Max + 1 ELSE U8Max + 1

phy_config    == {c \in [Fields -> 0..U16Max] : \A f \in Fields : c[f] < Width(f)}
jedec_limits  == [min : [Limited -> 0..U16Max], max : [Limited -> 0..U16Max]]
Nominal       == 22

\* C's integer division by a positive divisor truncates toward zero.
CDiv(a, b) == IF a >= 0 THEN a \div b ELSE -((-a) \div b)

-----------------------------------------------------------------------------
(* The policy engine: phase -> operating point.                            *)

\* One row of the phase table; tRCD, tCL and tRP share one value in every row.
Row(rcd, ras, mv) ==
  [f \in Fields |-> CASE f = "vswing_mv" -> mv
                      [] f = "tRAS"      -> ras
                      [] OTHER           -> rcd]

NominalRow == Row(Nominal, 52, 300)

\* Mutant: a decode row typed below the shortest tRCD the limits allow.
BestModeMutTight(phase_id) ==
  IF phase_id = PHASE_DECODE THEN Row(12, 42, 280) ELSE NominalRow

\* Each phase at full priority; an unknown phase keeps the nominal row.
BestMode(phase_id) ==
  CASE phase_id = PHASE_DECODE   -> Row(18, 42, 280)
    [] phase_id = PHASE_BACKWARD -> Row(18, 38, 280)
    [] phase_id = PHASE_AGENTIC  -> Row(20, 48, 290)
    [] phase_id = PHASE_IDLE     -> Row(24, 56, 240)
    [] OTHER                     -> NominalRow

\* Mutant: the deviation is divided before it is multiplied.
ScaledMutOrder(best, nom, priority) ==
  (nom + CDiv(best - nom, 7) * priority) % (U8Max + 1)

\* Mutant: unsigned arithmetic, so that a phase tighter than nominal wraps.
ScaledMutUnsigned(best, nom, priority) ==
  (nom + (((best - nom) * priority) % (U16Max + 1)) \div 7) % (U8Max + 1)

\* delta = (param - nominal) * priority / 7 in int arithmetic, added to nominal
\* and stored in a u8.
Scaled(best, nom, priority) ==
  (nom + CDiv((best - nom) * priority, 7)) % (U8Max + 1)

phase_to_phy_config(phase_id, priority) ==
  [f \in Fields |->
     IF f \in Timings
     THEN Scaled(BestMode(phase_id)[f], NominalRow[f], Smaller(priority, 7))
     ELSE BestMode(phase_id)[f]]

-----------------------------------------------------------------------------
(* The safety limiter.                                                     *)

platform_limits ==
  [min |-> [f \in Limited |-> IF f = "vswing_mv" THEN 200 ELSE 14],
   max |-> [f \in Limited |-> CASE f = "vswing_mv" -> 400
                                [] f = "tCL"       -> 36
                                [] OTHER           -> 32]]

\* Errors per 10^8 accesses above which the limiter relaxes by one clock.
EccThreshold == 100

\* Mutant: the relaxed value is not bounded by the limit again.
RelaxMutUnbounded(v, max) == (v + 1) % (U8Max + 1)

\* min_t(u8, v + 1, max): the sum is cut to a byte before the comparison.
Relax(v, max) == Smaller((v + 1) % (U8Max + 1), max)

\* Mutant: the relaxation comes before the hard clamp.
safety_clampMutEccFirst(p, l, correctable_rate, security_level) ==
  LET ecc  == [f \in Fields |->
                 IF f \in Relaxable /\ correctable_rate > EccThreshold
                 THEN (p[f] + 1) % (U8Max + 1) ELSE p[f]]
      hard == [f \in Fields |->
                 IF f \in Limited THEN Smaller(Larger(ecc[f], l.min[f]), l.max[f])
                                  ELSE ecc[f]]
  IN  [f \in Fields |->
         IF f \in Hardened /\ security_level > 0
         THEN Larger(hard[f], Nominal) ELSE hard[f]]

\* Mutant: the swing is left out of the hard clamp.
safety_clampMutNoSwing(p, l, correctable_rate, security_level) ==
  [f \in Fields |->
     IF f \in Hardened THEN Smaller(Larger(p[f], l.min[f]), l.max[f]) ELSE p[f]]

\* Mutant: the security floor is always in force.
safety_clampMutAlwaysFloor(p, l, correctable_rate, security_level) ==
  [f \in Fields |->
     IF f \in Hardened THEN Larger(Smaller(p[f], l.max[f]), Nominal) ELSE p[f]]

\* Mutant: errors also slow tRAS, which no limit cuts to its byte.
safety_clampMutRelaxTras(p, l, correctable_rate, security_level) ==
  [f \in Fields |->
     IF f \in Limited THEN Smaller(Larger(p[f], l.min[f]), l.max[f])
     ELSE IF correctable_rate > EccThreshold THEN p[f] + 1 ELSE p[f]]

\* Hard clamp to the limits; then relax; then the security floor, in this order.
safety_clamp(p, l, correctable_rate, security_level) ==
  LET hard == [f \in Fields |->
                 IF f \in Limited THEN Smaller(Larger(p[f], l.min[f]), l.max[f])
                                  ELSE p[f]]
      ecc  == [f \in Fields |->
                 IF f \in Relaxable /\ correctable_rate > EccThreshold
                 THEN Relax(hard[f], l.max[f]) ELSE hard[f]]
  IN  [f \in Fields |->
         IF f \in Hardened /\ security_level > 0
         THEN Larger(ecc[f], Nominal) ELSE ecc[f]]

\* safety_limiter_selftest: five calls of the limiter, each with the field that is
\* looked at and the value it must have.
Selftest ==
  LET Test(rcd, mv, rate, sec, field, want) ==
        [p |-> [Row(Nominal, 52, mv) EXCEPT !["tRCD"] = rcd], rate |-> rate, sec |-> sec,
         field |-> field, want |-> want]
  IN  {Test(8, 300, 0, 0, "tRCD", 14),  Test(40, 300, 0, 0, "tRCD", 32),
       Test(22, 100, 0, 0, "vswing_mv", 200),
       Test(16, 300, 0, 1, "tRCD", 22), Test(18, 300, 200, 0, "tRCD", 19)}

-----------------------------------------------------------------------------
(* What the limiter relies on.                                             *)

\* Limits the limiter can honour: each range is not empty, the security floor
\* lies under the maximum, and a relaxed timing still fits its byte.
LimitsOK(l) ==
  /\ l \in jedec_limits
  /\ \A f \in Limited : l.min[f] <= l.max[f] /\ l.max[f] < Width(f)
  /\ \A f \in Hardened : Nominal <= l.max[f] /\ l.max[f] < U8Max

Within(c, l) == \A f \in Limited : l.min[f] <= c[f] /\ c[f] <= l.max[f]

Floored(c) == \A f \in Hardened : Nominal <= c[f]

=============================================================================
