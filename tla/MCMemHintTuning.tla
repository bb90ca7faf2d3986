-------------------------- MODULE MCMemHintTuning --------------------------
(***************************************************************************)
(* TLC instance of MemHintTuning: one thread writes, and the operator      *)
(* tunes the variance threshold through sysfs across the driver's sample.  *)
(***************************************************************************)
EXTENDS MemHintTuning

MCU64 == 131072
MCU32 == 65536

StubSample ==
  [c \in Counters |-> CASE c = "write_bw_gbps"   -> 5
                        [] c = "read_bw_gbps"    -> 8
                        [] c = "llc_miss_rate"   -> 6000
                        [] c = "bw_variance_pct" -> 20
                        [] c = "dram_cmd_rate"   -> 50000]

MCWriteHints == {[phase_id |-> PHASE_DECODE, latency_target_ns |-> 90,
                  bw_target_gbps |-> 150, security_level |-> 0,
                  priority |-> 7, reserved |-> 0]}

MCStoredValues == [a \in Attrs |-> IF a = "agentic_var_pct" THEN {10, 50} ELSE {}]
=============================================================================
