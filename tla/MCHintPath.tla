----------------------------- MODULE MCHintPath -----------------------------
(***************************************************************************)
(* TLC instance of HintPath: proposals at and around every boundary of the *)
(* limiter, for the platform's limits, for a module whose maximum is the   *)
(* security floor and for the widest limits LimitsOK admits; samples around *)
(* the thresholds and at the end of the counters, which are 17 bits wide   *)
(* here; arguments around the ends of the bytes and the halves.            *)
(***************************************************************************)
EXTENDS HintPath

UniformLimits(lo, hi, mvlo, mvhi) ==
  [min |-> [f \in Limited |-> IF f = "vswing_mv" THEN mvlo ELSE lo],
   max |-> [f \in Limited |-> IF f = "vswing_mv" THEN mvhi ELSE hi]]

MCProposals ==
  [p : {[Row(t, ras, mv) EXCEPT !["tRP"] = rp] : t \in {0, 13, 14, 21, 22, 31, 32, 36, 253, 254, 255},
                          rp \in {0, 16, 40}, ras \in {0, 52, 255}, mv \in {0, 199, 300, 401, 65535}},
   l : {platform_limits, UniformLimits(10, 22, 250, 250),
        UniformLimits(0, 254, 0, 65535)},
   rate : {0, 100, 101},
   sec : {0, 1}]

MCPhases     == PhaseIds \cup {0, 7, 255}
MCPriorities == 0..8 \cup {255}

MCU64 == 131072
MCU32 == 65536

\* The thresholds at load, and the largest ones.
MCThresholds == {DefaultThresholds,
                 [DefaultThresholds EXCEPT !["prefill_wr_thresh"] = MCU32 - 1,
                                           !["decode_wr_ceil"] = MCU32 - 1]}

MCTicks ==
  [sample : {[c \in Counters |-> CASE c = "write_bw_gbps"   -> w
                                   [] c = "read_bw_gbps"    -> r
                                   [] c = "llc_miss_rate"   -> llc
                                   [] c = "bw_variance_pct" -> var
                                   [] c = "dram_cmd_rate"   -> cmd] :
               w \in {0, 5, 11, 65534, 65536, 131071}, r \in {0, 8, 10, 12, 131071},
               llc \in {5000, 5001}, var \in {50, 51}, cmd \in {999, 1000}},
   thresholds : MCThresholds,
   prev : {PHASE_IDLE, PHASE_DECODE}]

MCCalls ==
  [via : FrontEnds, method : Methods,
   args : [latency_ns : {-1, 90, 65536}, bw_gbps : {-1, 400, 65536},
           priority : {-256, -1, 0, 5, 8, 255, 256}]]

MCRaw ==
  {<<ph, 90, 0, ns, 1, sec, pr, res>> :
     ph \in {1, 6}, ns \in {0, 255}, sec \in {0, 255}, pr \in {0, 7, 255}, res \in {0, 255}}

MCRequests == MCProposals \cup {AskedBy(HintFrom([kind |-> "raw", of |-> w])) : w \in MCRaw}
=============================================================================
