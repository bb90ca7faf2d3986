------------------------------ MODULE HintWire ------------------------------
(***************************************************************************)
(* The workload hint on its two wires: the packed 8-byte record that a     *)
(* program writes to /dev/mem_hint, and the 64-bit word the kernel module  *)
(* sends over the hardware channel (encode_hint).  A word is the sequence  *)
(* of its eight bytes, least significant first: byte i holds bits          *)
(* [8i-1 : 8i-8].                                                          *)
(***************************************************************************)
EXTENDS MemHintTypes, Sequences

HintWord == Seq(Byte)

\* Mutant: a field is shifted into place without its mask.
encode_hintMutUnmasked(h) ==
  << h.phase_id, h.latency_target_ns, h.latency_target_ns \div 256,
     h.bw_target_gbps, h.bw_target_gbps \div 256, h.security_level, h.priority, 0 >>

\* Mutant: security level and phase trade places.
encode_hintMutSwapped(h) ==
  << h.security_level, h.latency_target_ns % 256, h.latency_target_ns \div 256,
     h.bw_target_gbps % 256, h.bw_target_gbps \div 256, h.phase_id, h.priority, 0 >>

encode_hint(h) ==
  << h.phase_id,
     h.latency_target_ns % 256, h.latency_target_ns \div 256,
     h.bw_target_gbps % 256,    h.bw_target_gbps \div 256,
     h.security_level,
     h.priority,
     0 >>

\* Where the fields of a word are found again.
WordPhase(w)    == w[1]
WordSecurity(w) == w[6]
WordPriority(w) == w[7]
WordReserved(w) == w[8]
=============================================================================
