--------------------------- MODULE MCMemHintTools ---------------------------
(***************************************************************************)
(* TLC instances of MemHintTools.  To each attribute root stores the ends  *)
(* of the range its store function accepts, the numbers next to them, and  *)
(* numbers that a narrow type would wrap; the tuner asks for two policies, *)
(* within and beyond their ranges.  uint64_t is scaled down.               *)
(***************************************************************************)
EXTENDS MemHintTools

Ends(lo, hi) == {lo - 1, lo, hi, hi + 1}

MCStoredValues ==
  [a \in Attrs |->
    CASE a = "decode_trcd"          -> Ends(14, 32) \cup {256 + 18}
      [] a \in Swings               -> Ends(200, 400) \cup {65536 + 300}
      [] a = "decode_dfe_tap1"      -> Ends(0, 255)
      [] a = "prefill_ctle_gain_db" -> Ends(-12, 12) \cup {-256, 244}
      [] a = "agentic_priority"     -> Ends(0, 7)
      [] a = "idle_pll_reduction"   -> Ends(0, 1)
      [] a = "prefill_wr_bw"        -> Ends(1, 1024)
      [] a = "decode_wr_ceil"       -> Ends(0, 64)
      [] a = "decode_llc_floor"     -> Ends(1, 1000000)
      [] a = "agentic_var_pct"      -> Ends(1, 100)
      [] a = "idle_cmd_floor"       -> Ends(0, 1000000)]

NoStores == [a \in Attrs |-> {}]

MCPolicyCalls == [attr : {"prefill_ctle_gain_db", "decode_vswing_mv"}, value : {-5, 5, 290}]
MCSent == {0, PHASE_DECODE, PHASE_IDLE}
MCU64  == 131072
=============================================================================
