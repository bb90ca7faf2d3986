---------------------------- MODULE MemHintSysfs ----------------------------
(***************************************************************************)
(* The tuning surface of the platform device: thirteen writable attributes *)
(* in the groups policy and thresholds.  The store functions are all one:  *)
(* parse a number, refuse it outside the attribute's range, cast it to the *)
(* type of the variable behind the attribute.  They differ in the tables   *)
(* below.  The show functions print the variable.                          *)
(***************************************************************************)
EXTENDS PhyPolicy, FiniteSets

PolicyAttrs == {"decode_trcd", "decode_vswing_mv", "decode_dfe_tap1",
                "prefill_vswing_mv", "prefill_ctle_gain_db", "agentic_priority",
                "idle_pll_reduction", "idle_vswing_mv"}
ThresholdAttrs == {"prefill_wr_bw", "decode_wr_ceil", "decode_llc_floor",
                   "agentic_var_pct", "idle_cmd_floor"}
Attrs  == PolicyAttrs \cup ThresholdAttrs
Swings == {"decode_vswing_mv", "prefill_vswing_mv", "idle_vswing_mv"}

CONSTANTS
  StoredValues,  \* The numbers that are written to each attribute.
  MaxTuned       \* Bound: how many attributes are off their defaults at once.

ASSUME StoresAssumption == /\ StoredValues \in [Attrs -> SUBSET Int]
                           /\ MaxTuned \in Nat

\* The value of each variable at load.
Default(a) ==
  CASE a = "decode_trcd"          -> 18
    [] a = "decode_vswing_mv"     -> 280
    [] a = "decode_dfe_tap1"      -> 20
    [] a = "prefill_vswing_mv"    -> 300
    [] a = "prefill_ctle_gain_db" -> 2
    [] a = "agentic_priority"     -> 5
    [] a = "idle_pll_reduction"   -> 1
    [] a = "idle_vswing_mv"       -> 240
    [] a = "prefill_wr_bw"        -> 10
    [] a = "decode_wr_ceil"       -> 1
    [] a = "decode_llc_floor"     -> 5000
    [] a = "agentic_var_pct"      -> 50
    [] a = "idle_cmd_floor"       -> 1000

\* Mutant: upper bounds are off by one.
AcceptedMutOffByOne(a) ==
  CASE a \in Swings          -> 200..401
    [] a = "decode_dfe_tap1" -> 0..256
    [] OTHER                 -> 1..100

\* The largest floor that can be stored, for LLC misses and for commands.
FloorMax == 1000000

\* What each store function accepts.  The unsigned parser accepts no number
\* below 0.
Accepted(a) ==
  CASE a = "decode_trcd"          -> 14..32
    [] a \in Swings               -> 200..400
    [] a = "decode_dfe_tap1"      -> 0..255
    [] a = "prefill_ctle_gain_db" -> (-12)..12
    [] a = "agentic_priority"     -> 0..7
    [] a = "idle_pll_reduction"   -> 0..1
    [] a = "prefill_wr_bw"        -> 1..1024
    [] a = "decode_wr_ceil"       -> 0..64
    [] a = "decode_llc_floor"     -> 1..FloorMax
    [] a = "agentic_var_pct"      -> 1..100
    [] a = "idle_cmd_floor"       -> 0..FloorMax

\* Mutant: the gain is cast to an unsigned byte.
CastMutUnsigned(a, v) ==
  CASE a \in Swings         -> v % (U16Max + 1)
    [] a \in ThresholdAttrs -> v
    [] OTHER                -> v % (U8Max + 1)

\* The cast to the variable's type: s8 for the gain, u16 for the swings, u32 for
\* the thresholds (nothing accepted comes near its end), u8 for the others.
Cast(a, v) ==
  CASE a = "prefill_ctle_gain_db" -> ((v + 128) % 256) - 128
    [] a \in Swings               -> v % (U16Max + 1)
    [] a \in ThresholdAttrs       -> v
    [] OTHER                      -> v % (U8Max + 1)

VARIABLES
  tuned,     \* The variable behind each attribute.
  written    \* Auxiliary: the number last accepted for each attribute.

sysfs_vars == <<tuned, written>>

SysfsInit == /\ tuned = [a \in Attrs |-> Default(a)]
             /\ written = tuned

OffDefault == {a \in Attrs : tuned[a] # Default(a)}

\* One of the store functions, on a number that parsed; the range check alone
\* decides.  The bound only keeps the instance small.
Store(a, v) == /\ v \in Accepted(a)
               /\ Cardinality(OffDefault \ {a}) < MaxTuned
               /\ tuned' = [tuned EXCEPT ![a] = Cast(a, v)]
               /\ written' = [written EXCEPT ![a] = v]

Refuse(a, v) == v \notin Accepted(a) /\ UNCHANGED sysfs_vars

SysfsNext == \E a \in Attrs : \E v \in StoredValues[a] : Store(a, v) \/ Refuse(a, v)

SysfsSpec == SysfsInit /\ [][SysfsNext]_sysfs_vars

-----------------------------------------------------------------------------

\* The C types that the variables have besides u8.
S8  == (-128)..127
U16 == 0..U16Max

\* Type invariant: every variable holds a value of its C type.
SysfsTypeOK ==
  /\ tuned \in [Attrs -> Int]
  /\ \A a \in Attrs : tuned[a] \in
       CASE a = "prefill_ctle_gain_db" -> S8
         [] a \in Swings               -> U16
         [] a \in ThresholdAttrs       -> Nat
         [] OTHER                      -> Byte

\* The ranges are typed a second time here, apart from the limiter's: whatever is
\* stored, in whatever order, a tuned timing or swing needs no limiting and a
\* tuned priority no cutting.
PolicyWithinLimits ==
  /\ platform_limits.min["tRCD"] <= tuned["decode_trcd"]
  /\ tuned["decode_trcd"] <= platform_limits.max["tRCD"]
  /\ \A a \in Swings : /\ platform_limits.min["vswing_mv"] <= tuned[a]
                       /\ tuned[a] <= platform_limits.max["vswing_mv"]
  /\ tuned["agentic_priority"] <= 7

\* A number that is accepted reads back as it was written, sign and all: the
\* range check of each store leaves its cast nothing to cut.
ReadsBackAsWritten == tuned = written
=============================================================================
