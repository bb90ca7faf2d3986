-------------------------- MODULE MCMemHintDriver --------------------------
(***************************************************************************)
(* TLC instances of MemHintDriver.  The sample is the one the driver's     *)
(* collect_pmu_sample returns, so the classifier changes its mind when     *)
(* root moves the thresholds of its last two rules across the sample.      *)
(* Counters and thresholds are scaled down to 17 and 16 bits.              *)
(***************************************************************************)
EXTENDS MemHintDriver

CONSTANTS w1, w2

MCU64 == 131072
MCU32 == 65536

StubSample ==
  [c \in Counters |-> CASE c = "write_bw_gbps"   -> 5
                        [] c = "read_bw_gbps"    -> 8
                        [] c = "llc_miss_rate"   -> 6000
                        [] c = "bw_variance_pct" -> 20
                        [] c = "dram_cmd_rate"   -> 50000]

Hint(phase, ns, sec, prio, res) ==
  [phase_id |-> phase, latency_target_ns |-> ns, bw_target_gbps |-> 300,
   security_level |-> sec, priority |-> prio, reserved |-> res]

\* A decode hint with too high a priority, a hardened backward hint with a
\* reserved byte, and the two phases just outside the valid range.
MCWriteHints == {Hint(PHASE_DECODE, 90, 0, 9, 0), Hint(PHASE_BACKWARD, 90, 1, 7, 255),
                 Hint(0, 0, 0, 0, 0), Hint(7, 0, 0, 0, 0)}
OneHint      == {Hint(PHASE_DECODE, 90, 0, 7, 0), Hint(0, 0, 0, 0, 0)}

Setting(t, v) == [name |-> t, value |-> v]
MCSettings == {Setting("agentic_var_thresh", 50), Setting("agentic_var_thresh", 10),
               Setting("idle_cmd_thresh", 1000), Setting("idle_cmd_thresh", 60000)}
OneSetting == {Setting("agentic_var_thresh", 10)}
NoSetting  == {}
=============================================================================
