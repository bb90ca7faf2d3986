--------------------------- MODULE MemHintTuning ---------------------------
(***************************************************************************)
(* The driver with its tuning surface: the threads, the timer and the      *)
(* module parameters of MemHintDriver, next to the store functions of      *)
(* MemHintSysfs.  The two keep separate variables, and no function of the  *)
(* driver reads those of the tuning surface.                               *)
(***************************************************************************)
EXTENDS MemHintDriver, MemHintSysfs

TuningInit == Init /\ SysfsInit

TuningNext == \/ Next /\ UNCHANGED sysfs_vars
              \/ SysfsNext /\ UNCHANGED vars

\* The fairness of MemHintDriver; nothing makes an operator store anything.
TuningSpec == /\ TuningInit /\ [][TuningNext]_<<vars, sysfs_vars>>
              /\ \A a \in Agents : WF_vars(Apply(a))
              /\ WF_vars(Classify)

\* What the classifier would use if the tuned thresholds were its own.
TunedThresholds ==
  [t \in ThresholdNames |->
     tuned[CASE t = "prefill_wr_thresh"  -> "prefill_wr_bw"
             [] t = "decode_wr_ceil"     -> "decode_wr_ceil"
             [] t = "decode_llc_floor"   -> "decode_llc_floor"
             [] t = "agentic_var_thresh" -> "agentic_var_pct"
             [] t = "idle_cmd_thresh"    -> "idle_cmd_floor"]]

-----------------------------------------------------------------------------
\* What the documentation says: a threshold stored through sysfs is the one the
\* classifier goes by.  Once the operator is done, the classifier rests on the
\* phase that the tuned thresholds give the sample.
TuningTakesEffect ==
  <>[][UNCHANGED <<tuned, thresholds>>]_<<tuned, thresholds>>
    => <>[](pc[Timer] \in {"idle", "classify"} =>
              pmu_last_phase = classify_phase(PmuSample, TunedThresholds, pmu_last_phase))
=============================================================================
