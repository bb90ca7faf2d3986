------------------------------ MODULE HintPath ------------------------------
(***************************************************************************)
(* Where a decision of the limiter comes from.  A proposal is made of a    *)
(* hint, and the hint either was inferred by the PMU classifier from a     *)
(* sample of the counters, or was asked for by a call of the C library or  *)
(* of the Python client, or is eight bytes that some program wrote.  The   *)
(* module adds the source to PhyDecision, so that one decision can be      *)
(* followed from the counters or the call to the operating point and to    *)
(* the word for the hardware.                                              *)
(***************************************************************************)
EXTENDS PhyDecision, PmuClassifier, HintCalls

CONSTANTS
  Ticks,   \* Records of sample, thresholds and prev.
  Calls,   \* Records of via, method and args.
  Raw      \* Sequences of eight bytes with a phase that mem_hint_write accepts.

Arguments == [latency_ns : Int, bw_gbps : Int, priority : Int]
Wires     == {w \in [1..8 -> Byte] : w[1] \in PhaseIds}

ASSUME SourcesAssumption ==
  /\ Ticks \subseteq [sample : pmu_sample, thresholds : Thresholds, prev : PhaseIds]
  /\ Calls \subseteq [via : FrontEnds, method : Methods, args : Arguments]
  /\ Raw \subseteq Wires

Sources == [kind : {"tick"}, of : Ticks] \cup [kind : {"call"}, of : Calls]
           \cup [kind : {"raw"}, of : Raw]

\* The source of a decision whose proposal does not stem from a hint.
Direct == [kind |-> "direct"]

Inferred(t) == classify_phase(t.sample, t.thresholds, t.prev)
WireFrom(s) == IF s.kind = "call" THEN WireOf(s.of) ELSE s.of
HintFrom(s) == IF s.kind = "tick" THEN phase_to_hint(Inferred(s.of))
                                  ELSE ReadHint(WireFrom(s))

\* What mem_hint_apply proposes to the limiter for a hint.
AskedBy(h) == [p |-> phase_to_phy_config(h.phase_id, h.priority), l |-> platform_limits,
               rate |-> 0, sec |-> h.security_level]

\* The proposals under decision include those that stem from the sources.
ASSUME ProposedAssumption == \A s \in Sources : AskedBy(HintFrom(s)) \in Proposals

VARIABLE source

PathInit == \/ Init /\ source = Direct
            \/ /\ source \in Sources
               /\ request = AskedBy(HintFrom(source))
               /\ point = request.p
               /\ limited = FALSE

PathNext == Next /\ UNCHANGED source

PathSpec == PathInit /\ [][PathNext]_<<vars, source>>

-----------------------------------------------------------------------------

\* Twice the write bandwidth may wrap in its u64, but never in a way that is taken
\* for decode: a phase that is newly inferred is true of the counters in unbounded
\* arithmetic, and one further down the list of rules never hides heavy writes.
InferredPhaseIsEarned ==
  source.kind = "tick" =>
    LET t == source.of  write == t.sample["write_bw_gbps"]  read == t.sample["read_bw_gbps"]
    IN  Inferred(t) # t.prev =>
          /\ Inferred(t) = PHASE_DECODE => read > 2 * write
          /\ (write > read /\ write > t.thresholds["prefill_wr_thresh"])
               => Inferred(t) = PHASE_PREFILL

\* The word for the hardware is the record that was written, byte for byte, but for
\* the priority, cut to 7, and the reserved byte, cleared: no field loses a bit or
\* runs into another on its way through the struct and the shifts.
WordIsTheRecord ==
  source.kind \in {"call", "raw"} =>
    LET wire == WireFrom(source)
    IN  encode_hint(HintFrom(source)) =
          [wire EXCEPT ![7] = Smaller(wire[7], 7), ![8] = 0]

\* A call means the same from C and from Python, for every argument of both, wrapped
\* ones included, as long as the priority does not exceed a byte; only idle, whose
\* priority the library fixes, may differ, in the priority.
FrontEndsAgree ==
  (source.kind = "call" /\ source.of.args.priority <= U8Max) =>
    LET other == [source.of EXCEPT !.via = CHOOSE v \in FrontEnds : v # source.of.via]
        mine  == HintFrom(source)
        its   == ReadHint(WireOf(other))
    IN  IF source.of.method = "idle" THEN [mine EXCEPT !.priority = 0] = [its EXCEPT !.priority = 0]
                                     ELSE mine = its

\* No front end lowers a priority, except to the highest one there is: a negative
\* number comes out as some priority, a number above 7 as 7.  The library's byte
\* makes an exception of numbers above 255.
PriorityIsNotLowered ==
  source.kind = "call" =>
    LET c == source.of
        asked == MethodFields(c.via, c.method, c.args).priority
    IN  (c.via = "client" \/ asked <= U8Max) => Smaller(asked, 7) <= HintFrom(source).priority
=============================================================================
