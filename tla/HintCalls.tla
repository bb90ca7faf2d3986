------------------------------ MODULE HintCalls ------------------------------
(***************************************************************************)
(* The calls by which a program asks for a phase, and the bytes they write *)
(* to /dev/mem_hint.  The C library and the Python client offer the same   *)
(* six methods.  C converts each argument to the width of its parameter;   *)
(* Python takes any integer, cuts the priority to 7 and then masks every   *)
(* field.  The driver reads the bytes back as a record.                    *)
(***************************************************************************)
EXTENDS HintWire

Methods    == {"prefill", "decode", "agentic", "idle", "forward_pass", "backward_pass"}
FrontEnds  == {"library", "client"}

\* Which fields a method fills from its arguments and which are fixed; none asks
\* for security.  Only the client's idle takes a priority.
MethodFields(via, method, a) ==
  LET F(phase, ns, gbps, prio) ==
        [phase_id |-> phase, latency_ns |-> ns, bw_gbps |-> gbps, priority |-> prio]
  IN  CASE method = "prefill"       -> F(PHASE_PREFILL, 200, a.bw_gbps, a.priority)
        [] method = "decode"        -> F(PHASE_DECODE, a.latency_ns, 150, a.priority)
        [] method = "agentic"       -> F(PHASE_AGENTIC, 120, 200, a.priority)
        [] method = "idle"          -> F(PHASE_IDLE, 0, 0, IF via = "client" THEN a.priority ELSE 3)
        [] method = "forward_pass"  -> F(PHASE_FORWARD, 200, a.bw_gbps, 7)
        [] method = "backward_pass" -> F(PHASE_BACKWARD, 90, 300, 7)

\* The 8 bytes of the packed record, both 16-bit fields little-endian.
Packed(phase_id, ns, gbps, security, priority) ==
  << phase_id, ns % 256, ns \div 256, gbps % 256, gbps \div 256, security, priority, 0 >>

\* mem_hint_send_phase: its parameters are uint8_t and uint16_t.
library_wire(f) ==
  Packed(f.phase_id, f.latency_ns % (U16Max + 1), f.bw_gbps % (U16Max + 1), 0,
         f.priority % (U8Max + 1))

\* Mutant: the 16-bit fields are packed big-endian.
client_wireMutBigEndian(f) ==
  LET ns == f.latency_ns % (U16Max + 1)  gbps == f.bw_gbps % (U16Max + 1)
  IN  << f.phase_id, ns \div 256, ns % 256, gbps \div 256, gbps % 256, 0,
         Smaller(f.priority, 7) % (U8Max + 1), 0 >>

\* Mutant: the priority is masked before it is cut to 7.
client_wireMutMaskFirst(f) ==
  Packed(f.phase_id, f.latency_ns % (U16Max + 1), f.bw_gbps % (U16Max + 1), 0,
         Smaller(f.priority % (U8Max + 1), 7))

\* MemHintClient.send: the masks make a negative number a large one.
client_wire(f) ==
  Packed(f.phase_id, f.latency_ns % (U16Max + 1), f.bw_gbps % (U16Max + 1), 0,
         Smaller(f.priority, 7) % (U8Max + 1))

WireOf(call) ==
  LET f == MethodFields(call.via, call.method, call.args)
  IN  IF call.via = "library" THEN library_wire(f) ELSE client_wire(f)

\* The record that mem_hint_write makes of the bytes: copied into the struct, the
\* priority cut to 7.
ReadHint(wire) ==
  [phase_id          |-> wire[1],
   latency_target_ns |-> wire[2] + 256 * wire[3],
   bw_target_gbps    |-> wire[4] + 256 * wire[5],
   security_level    |-> wire[6],
   priority          |-> Smaller(wire[7], 7),
   reserved          |-> wire[8]]
=============================================================================
