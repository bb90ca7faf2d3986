---------------------------- MODULE MemHintTypes ----------------------------
(***************************************************************************)
(* What the parts of mem_hint share: the phases, the hint record and the   *)
(* widths of the C types its fields have.                                  *)
(***************************************************************************)
EXTENDS Integers

PHASE_PREFILL  == 1
PHASE_DECODE   == 2
PHASE_AGENTIC  == 3
PHASE_IDLE     == 4
PHASE_FORWARD  == 5
PHASE_BACKWARD == 6
PhaseIds       == PHASE_PREFILL..PHASE_BACKWARD

\* The largest u8 and u16.
U8Max  == 255
U16Max == 65535
Byte   == 0..U8Max
Half   == 0..U16Max

mem_workload_hint ==
  [phase_id : Byte, latency_target_ns : Half, bw_target_gbps : Half,
   security_level : Byte, priority : Byte, reserved : Byte]

Smaller(a, b) == IF a <= b THEN a ELSE b
Larger(a, b)  == IF a >= b THEN a ELSE b
=============================================================================
