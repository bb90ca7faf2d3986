------------------------- MODULE MCMemHintScheduler -------------------------
(* TLC instances of MemHintScheduler: two threads, three calls besides the *)
(* exit, two phases besides idle, two descriptors.                         *)
EXTENDS MemHintScheduler

MCPhases == {PHASE_PREFILL, PHASE_DECODE, PHASE_IDLE}
MCDescriptors == {1, 2}
=============================================================================
