--------------------------- MODULE PmuClassifier ---------------------------
(***************************************************************************)
(* The PMU phase classifier: which phase a counter sample is taken for     *)
(* (classify_phase) and the hint that is built from it (phase_to_hint).    *)
(* Both are pure, so this module has no variables.                         *)
(***************************************************************************)
EXTENDS PhyPolicy

CONSTANTS
  U64,   \* The number of values of a u64 counter.
  U32    \* The number of values of an unsigned int threshold.

\* The default thresholds fit, and twice a threshold fits a counter.
ASSUME WidthAssumption == /\ U64 \in Nat /\ U32 \in Nat
                          /\ 5000 < U32 /\ 2 * U32 <= U64

Counters == {"write_bw_gbps", "read_bw_gbps", "llc_miss_rate",
             "bw_variance_pct", "dram_cmd_rate"}
pmu_sample == [Counters -> 0..(U64 - 1)]

\* The classifier's module parameters and the values they are loaded with.
ThresholdNames == {"prefill_wr_thresh", "decode_wr_ceil", "decode_llc_floor",
                   "agentic_var_thresh", "idle_cmd_thresh"}
Thresholds     == [ThresholdNames -> 0..(U32 - 1)]
DefaultOf(t) == CASE t = "prefill_wr_thresh"  -> 10
                  [] t = "decode_wr_ceil"     -> 1
                  [] t = "decode_llc_floor"   -> 5000
                  [] t = "agentic_var_thresh" -> 50
                  [] t = "idle_cmd_thresh"    -> 1000
DefaultThresholds == [t \in ThresholdNames |-> DefaultOf(t)]

-----------------------------------------------------------------------------
\* The first four rules are tried in order and each names a phase; the fifth
\* holds the previous phase.
Rules == 1..4

RulePhase(r) == CASE r = 1 -> PHASE_PREFILL
                  [] r = 2 -> PHASE_DECODE
                  [] r = 3 -> PHASE_AGENTIC
                  [] r = 4 -> PHASE_IDLE

\* Mutant: the decode rule has no ceiling for the write bandwidth.
RuleMatchesMutNoCeiling(r, s, thr) ==
  CASE r = 1 -> /\ s["write_bw_gbps"] > thr["prefill_wr_thresh"]
                /\ s["write_bw_gbps"] > s["read_bw_gbps"]
    [] r = 2 -> /\ s["read_bw_gbps"] > (2 * s["write_bw_gbps"]) % U64
                /\ s["llc_miss_rate"] > thr["decode_llc_floor"]
    [] r = 3 -> s["bw_variance_pct"] > thr["agentic_var_thresh"]
    [] r = 4 -> s["dram_cmd_rate"] < thr["idle_cmd_thresh"]

RuleMatches(r, s, thr) ==
  CASE r = 1 -> /\ s["write_bw_gbps"] > thr["prefill_wr_thresh"]
                /\ s["write_bw_gbps"] > s["read_bw_gbps"]
    [] r = 2 -> /\ s["read_bw_gbps"] > (2 * s["write_bw_gbps"]) % U64
                /\ s["write_bw_gbps"] < thr["decode_wr_ceil"]
                /\ s["llc_miss_rate"] > thr["decode_llc_floor"]
    [] r = 3 -> s["bw_variance_pct"] > thr["agentic_var_thresh"]
    [] r = 4 -> s["dram_cmd_rate"] < thr["idle_cmd_thresh"]

\* What the rules from r on make of a sample.
ClassifyFrom(r, s, thr, prev) ==
  LET Matches(q) == r <= q /\ RuleMatches(q, s, thr)
  IN  IF Matches(1) THEN RulePhase(1)
      ELSE IF Matches(2) THEN RulePhase(2)
      ELSE IF Matches(3) THEN RulePhase(3)
      ELSE IF Matches(4) THEN RulePhase(4)
      ELSE prev

classify_phase(s, thr, prev) == ClassifyFrom(1, s, thr, prev)

\* Latency and bandwidth targets of a phase; the priority is 5, for idle 3, and
\* an inferred hint never asks for security.
phase_to_hint(phase_id) ==
  LET Hint(ns, gbps, prio) ==
        [phase_id |-> phase_id, latency_target_ns |-> ns, bw_target_gbps |-> gbps,
         security_level |-> 0, priority |-> prio, reserved |-> 0]
  IN  CASE phase_id \in {PHASE_PREFILL, PHASE_FORWARD} -> Hint(200, 400, 5)
        [] phase_id = PHASE_DECODE                     -> Hint(90, 150, 5)
        [] phase_id = PHASE_AGENTIC                    -> Hint(120, 200, 5)
        [] phase_id = PHASE_BACKWARD                   -> Hint(90, 300, 5)
        [] OTHER                                       -> Hint(0, 0, 3)
=============================================================================
