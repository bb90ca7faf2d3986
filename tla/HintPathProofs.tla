--------------------------- MODULE HintPathProofs ---------------------------
(***************************************************************************)
(* The way of a hint for any counters, thresholds, arguments and bytes:    *)
(* what the classifier infers, what the front ends write and what becomes  *)
(* of it.  A source never changes, so that its properties are facts about  *)
(* the operators; the decision itself is one of PhyDecision.               *)
(***************************************************************************)
EXTENDS HintPath, PhyDecisionProofs

SourceOK == source \in Sources \cup {Direct}

LEMMA SourceHolds == PathSpec => []SourceOK
<1>1. PathInit => SourceOK
  BY DEF PathInit, SourceOK
<1>2. SourceOK /\ [PathNext]_<<vars, source>> => SourceOK'
  BY DEF SourceOK, PathNext
<1> QED  BY <1>1, <1>2, PTL DEF PathSpec

\* What a source is made of.
LEMMA SourceValues ==
  ASSUME SourceOK
  PROVE  /\ source.kind = "tick" => source.of \in Ticks
         /\ source.kind = "call" => source.of \in Calls
         /\ source.kind = "raw" => source.of \in Raw
BY DEF SourceOK, Sources, Direct

\* Decisions that stem from hints are decisions: what PhyDecision guarantees holds
\* of them, whoever asked for the phase.
THEOREM PathImplementsDecision == PathSpec => Spec
<1>1. PathInit => Init
  BY ProposedAssumption DEF PathInit, Init
<1>2. [PathNext]_<<vars, source>> => [Next]_vars
  BY DEF PathNext
<1> QED  BY <1>1, <1>2, PTL DEF PathSpec, Spec

-----------------------------------------------------------------------------
(* The classifier (mem_hint_pmu.c).                                        *)

\* The rules name different phases.
LEMMA RulePhases ==
  /\ RulePhase(1) = PHASE_PREFILL /\ RulePhase(2) = PHASE_DECODE
  /\ RulePhase(3) # PHASE_DECODE /\ RulePhase(4) # PHASE_DECODE
  /\ PHASE_PREFILL # PHASE_DECODE
BY DEF RulePhase, PHASE_PREFILL, PHASE_DECODE, PHASE_AGENTIC, PHASE_IDLE

\* A new phase is decode only when the decode rule matched, and prefill whenever
\* its rule did.
LEMMA NewPhase ==
  ASSUME NEW s, NEW thr, NEW prev
  PROVE  /\ (classify_phase(s, thr, prev) = PHASE_DECODE /\ prev # PHASE_DECODE)
              => RuleMatches(2, s, thr)
         /\ RuleMatches(1, s, thr) => classify_phase(s, thr, prev) = PHASE_PREFILL
BY RulePhases DEF classify_phase, ClassifyFrom

\* The ceiling for the write bandwidth keeps its double from wrapping.
LEMMA DecodeRuleIsTrue ==
  ASSUME NEW s \in pmu_sample, NEW thr \in Thresholds, RuleMatches(2, s, thr)
  PROVE  s["read_bw_gbps"] > 2 * s["write_bw_gbps"]
<1> DEFINE write == s["write_bw_gbps"]  read == s["read_bw_gbps"]  ceil == thr["decode_wr_ceil"]
<1>1. /\ write \in 0..(U64 - 1) /\ read \in 0..(U64 - 1) /\ ceil \in 0..(U32 - 1)
  BY DEF pmu_sample, Counters, Thresholds, ThresholdNames
<1>2. read > (2 * write) % U64 /\ write < ceil
  BY DEF RuleMatches
<1> HIDE DEF write, read, ceil
<1>3. 2 * write \in 0..(U64 - 1)
  BY <1>1, <1>2, WidthAssumption
<1>4. (2 * write) % U64 = 2 * write
  BY <1>3, WidthAssumption
<1>5. read > 2 * write
  BY <1>2, <1>4
<1> QED  BY <1>5 DEF read, write

\* A phase that the classifier newly infers is true of the counters although their
\* arithmetic wraps (mem_hint_pmu.c, classify_phase).
THEOREM InferenceIsEarned == PathSpec => []InferredPhaseIsEarned
<1>1. SourceOK => InferredPhaseIsEarned
  <2> SUFFICES ASSUME SourceOK, source.kind = "tick", Inferred(source.of) # source.of.prev
               PROVE  LET t == source.of
                          write == t.sample["write_bw_gbps"]
                          read  == t.sample["read_bw_gbps"]
                      IN  /\ Inferred(t) = PHASE_DECODE => read > 2 * write
                          /\ (write > read /\ write > t.thresholds["prefill_wr_thresh"])
                               => Inferred(t) = PHASE_PREFILL
    BY DEF InferredPhaseIsEarned
  <2>1. source.of.sample \in pmu_sample /\ source.of.thresholds \in Thresholds
    BY SourceValues, SourcesAssumption
  <2>2. Inferred(source.of) = PHASE_DECODE
          => RuleMatches(2, source.of.sample, source.of.thresholds)
    BY NewPhase DEF Inferred
  <2>3. /\ source.of.sample["write_bw_gbps"] \in Int /\ source.of.sample["read_bw_gbps"] \in Int
        /\ source.of.thresholds["prefill_wr_thresh"] \in Int
    BY <2>1 DEF pmu_sample, Counters, Thresholds, ThresholdNames
  <2>4. (/\ source.of.sample["write_bw_gbps"] > source.of.sample["read_bw_gbps"]
         /\ source.of.sample["write_bw_gbps"] > source.of.thresholds["prefill_wr_thresh"])
          => RuleMatches(1, source.of.sample, source.of.thresholds)
    BY <2>3 DEF RuleMatches
  <2> QED  BY <2>1, <2>2, <2>4, DecodeRuleIsTrue, NewPhase DEF Inferred
<1> QED  BY <1>1, SourceHolds, PTL

-----------------------------------------------------------------------------
(* The record's bytes (mem_hint.c, encode_hint and mem_hint_write).        *)

\* Cutting a half-word into bytes and putting it together again.
LEMMA HalfOfBytes ==
  ASSUME NEW lo \in Byte, NEW hi \in Byte
  PROVE  (lo + 256 * hi) % 256 = lo /\ (lo + 256 * hi) \div 256 = hi
BY SMT DEF Byte, U8Max

LEMMA BytesOfHalf ==
  ASSUME NEW n \in Int
  PROVE  LET half == n % (U16Max + 1)
         IN  half % 256 \in Byte /\ half \div 256 \in Byte
BY SMT DEF Byte, U8Max, U16Max

LEMMA ByteValues == 0 \in Byte /\ PhaseIds \subseteq Byte /\ 7 < U8Max /\ U8Max \in Nat
BY SMT DEF Byte, U8Max, PhaseIds, PHASE_PREFILL, PHASE_BACKWARD

\* The priority on its way through either front end is a byte.
LEMMA PriorityBytes ==
  ASSUME NEW n \in Int
  PROVE  n % (U8Max + 1) \in Byte /\ Smaller(n, 7) % (U8Max + 1) \in Byte
BY SMT DEF Byte, U8Max, Smaller

\* Eight bytes are a wire.
LEMMA EightBytes ==
  ASSUME NEW a \in PhaseIds, NEW b \in Byte, NEW c \in Byte, NEW d \in Byte, NEW e \in Byte,
         NEW f \in Byte, NEW g \in Byte, NEW h \in Byte
  PROVE  <<a, b, c, d, e, f, g, h>> \in Wires
<1>1. a \in Byte
  BY ByteValues
<1> QED  BY <1>1 DEF Wires

\* The fields that a method fills.
LEMMA FieldValues ==
  ASSUME NEW via \in FrontEnds, NEW m \in Methods, NEW a \in Arguments
  PROVE  LET f == MethodFields(via, m, a)
         IN  /\ f.phase_id \in PhaseIds
             /\ f.latency_ns \in Int /\ f.bw_gbps \in Int /\ f.priority \in Int
<1>1. a.latency_ns \in Int /\ a.bw_gbps \in Int /\ a.priority \in Int
  BY DEF Arguments
<1>2. {PHASE_PREFILL, PHASE_DECODE, PHASE_AGENTIC, PHASE_IDLE, PHASE_FORWARD, PHASE_BACKWARD}
        \subseteq PhaseIds
  BY SMT DEF PhaseIds, PHASE_PREFILL, PHASE_DECODE, PHASE_AGENTIC, PHASE_IDLE, PHASE_FORWARD,
             PHASE_BACKWARD
<1> QED  BY <1>1, <1>2 DEF MethodFields, Methods, FrontEnds

LEMMA WireType ==
  ASSUME NEW c \in Calls
  PROVE  WireOf(c) \in Wires
<1> DEFINE f == MethodFields(c.via, c.method, c.args)
<1>1. c.via \in FrontEnds /\ c.method \in Methods /\ c.args \in Arguments
  BY SourcesAssumption
<1>2. /\ f.phase_id \in PhaseIds
      /\ f.latency_ns \in Int /\ f.bw_gbps \in Int /\ f.priority \in Int
  BY <1>1, FieldValues
<1> HIDE DEF f
<1>3. library_wire(f) \in Wires /\ client_wire(f) \in Wires
  <2> DEFINE ns == f.latency_ns % (U16Max + 1)  gbps == f.bw_gbps % (U16Max + 1)
  <2>1. /\ ns % 256 \in Byte /\ ns \div 256 \in Byte
        /\ gbps % 256 \in Byte /\ gbps \div 256 \in Byte
    BY <1>2, BytesOfHalf
  <2> HIDE DEF ns, gbps
  <2>2. ASSUME NEW g \in Byte PROVE Packed(f.phase_id, ns, gbps, 0, g) \in Wires
    <3> DEFINE b == ns % 256  c2 == ns \div 256  d == gbps % 256  e == gbps \div 256
    <3>1. b \in Byte /\ c2 \in Byte /\ d \in Byte /\ e \in Byte
      BY <2>1
    <3>2. Packed(f.phase_id, ns, gbps, 0, g) = <<f.phase_id, b, c2, d, e, 0, g, 0>>
      BY DEF Packed
    <3> HIDE DEF b, c2, d, e
    <3>3. <<f.phase_id, b, c2, d, e, 0, g, 0>> \in Wires
      BY <1>2, <3>1, EightBytes, ByteValues
    <3> QED  BY <3>2, <3>3
  <2> QED  BY <1>2, <2>2, PriorityBytes DEF library_wire, client_wire, ns, gbps
<1> QED  BY <1>3 DEF WireOf, f

\* Through the struct and the shifts no byte changes but the priority and the
\* reserved one.
LEMMA WordOfWire ==
  ASSUME NEW w \in Wires
  PROVE  encode_hint(ReadHint(w)) = [w EXCEPT ![7] = Smaller(w[7], 7), ![8] = 0]
<1>1. w \in [1..8 -> Byte]
  BY DEF Wires
<1>2. /\ w[1] \in Byte /\ w[2] \in Byte /\ w[3] \in Byte /\ w[4] \in Byte
      /\ w[5] \in Byte /\ w[6] \in Byte
  BY <1>1
<1>3. encode_hint(ReadHint(w)) = <<w[1], w[2], w[3], w[4], w[5], w[6], Smaller(w[7], 7), 0>>
  BY <1>2, HalfOfBytes DEF encode_hint, ReadHint
<1> QED  BY <1>1, <1>3

\* The word for the hardware is the record that was written, but for the priority,
\* cut to 7, and the reserved byte, cleared (mem_hint_write, encode_hint).
THEOREM WordRepeatsRecord == PathSpec => []WordIsTheRecord
<1>1. SourceOK => WordIsTheRecord
  <2> SUFFICES ASSUME SourceOK, source.kind \in {"call", "raw"}
               PROVE  WireFrom(source) \in Wires /\ HintFrom(source) = ReadHint(WireFrom(source))
    BY WordOfWire DEF WordIsTheRecord
  <2>1. WireFrom(source) \in Wires
    BY SourceValues, SourcesAssumption, WireType DEF WireFrom
  <2> QED  BY <2>1 DEF HintFrom
<1> QED  BY <1>1, SourceHolds, PTL

-----------------------------------------------------------------------------
(* The C library and the Python client.                                    *)

\* What becomes of a priority on its way into the driver's record.
LEMMA PriorityArrives ==
  ASSUME NEW n \in Int
  PROVE  /\ n <= U8Max => Smaller(n % (U8Max + 1), 7) = Smaller(Smaller(n, 7) % (U8Max + 1), 7)
         /\ Smaller(n, 7) <= Smaller(Smaller(n, 7) % (U8Max + 1), 7)
BY SMT DEF Smaller, U8Max

\* The front ends differ in the priority byte at most.
LEMMA RecordsDiffer ==
  ASSUME NEW f
  PROVE  /\ ReadHint(client_wire(f)) = [ReadHint(library_wire(f)) EXCEPT !.priority =
                                          Smaller(Smaller(f.priority, 7) % (U8Max + 1), 7)]
         /\ ReadHint(library_wire(f)).priority = Smaller(f.priority % (U8Max + 1), 7)
         /\ ReadHint(client_wire(f)).priority = Smaller(Smaller(f.priority, 7) % (U8Max + 1), 7)
BY DEF ReadHint, client_wire, library_wire, Packed

\* A call means the same from C and from Python, unless its priority exceeds a byte
\* (mem_hint_prefill and its kin, MemHintClient.prefill and its kin).
THEOREM FrontEndsMeanTheSame == PathSpec => []FrontEndsAgree
<1>1. SourceOK => FrontEndsAgree
  <2> SUFFICES ASSUME SourceOK, source.kind = "call", source.of.args.priority <= U8Max
               PROVE  LET other == [source.of EXCEPT !.via =
                                      CHOOSE v \in FrontEnds : v # source.of.via]
                          mine  == HintFrom(source)
                          its   == ReadHint(WireOf(other))
                      IN  IF source.of.method = "idle"
                          THEN [mine EXCEPT !.priority = 0] = [its EXCEPT !.priority = 0]
                          ELSE mine = its
    BY DEF FrontEndsAgree
  <2> DEFINE c == source.of
             v == CHOOSE v \in FrontEnds : v # c.via
             lib == MethodFields("library", c.method, c.args)
             cli == MethodFields("client", c.method, c.args)
  <2>1. c \in [via : FrontEnds, method : Methods, args : Arguments]
    BY SourceValues, SourcesAssumption
  <2>2. c.via \in FrontEnds /\ v \in FrontEnds /\ v # c.via
    BY <2>1 DEF FrontEnds
  <2> DEFINE fromC == ReadHint(library_wire(lib))  fromPython == ReadHint(client_wire(cli))
  <2>3. c.method # "idle" => fromC = fromPython
    <3> SUFFICES ASSUME c.method # "idle" PROVE fromC = fromPython
      OBVIOUS
    <3>1. lib = cli
      BY <2>1 DEF MethodFields, Methods
    <3>2. lib.priority \in {c.args.priority, 7}
      BY <2>1 DEF MethodFields, Methods
    <3>3. lib.priority \in Int /\ lib.priority <= U8Max
      BY <2>1, <3>2, ByteValues DEF Arguments
    <3> HIDE DEF lib, cli
    <3>4. fromC.priority = Smaller(Smaller(lib.priority, 7) % (U8Max + 1), 7)
      BY <3>3, PriorityArrives, RecordsDiffer
    <3>5. fromPython = [fromC EXCEPT !.priority = fromC.priority]
      BY <3>1, <3>4, RecordsDiffer
    <3> QED  BY <3>5 DEF ReadHint
  <2>4. c.method = "idle" =>
          [fromC EXCEPT !.priority = 0] = [fromPython EXCEPT !.priority = 0]
    BY DEF MethodFields, ReadHint, library_wire, client_wire, Packed
  <2>5. IF c.via = "library"
        THEN HintFrom(source) = fromC /\ ReadHint(WireOf([c EXCEPT !.via = v])) = fromPython
        ELSE HintFrom(source) = fromPython /\ ReadHint(WireOf([c EXCEPT !.via = v])) = fromC
    <3>1. WireOf(c) = IF c.via = "library" THEN library_wire(lib) ELSE client_wire(cli)
      BY <2>2 DEF WireOf, FrontEnds
    <3>2. WireOf([c EXCEPT !.via = v]) = IF v = "library" THEN library_wire(lib)
                                                          ELSE client_wire(cli)
      <4>1. LET o == [c EXCEPT !.via = v]
            IN  o.via = v /\ o.method = c.method /\ o.args = c.args
        BY <2>1
      <4> QED  BY <2>2, <4>1 DEF WireOf, FrontEnds
    <3>3. HintFrom(source) = ReadHint(WireOf(c))
      BY DEF HintFrom, WireFrom
    <3> QED  BY <2>2, <3>1, <3>2, <3>3 DEF FrontEnds
  <2> HIDE DEF fromC, fromPython
  <2> QED  BY <2>3, <2>4, <2>5
<1> QED  BY <1>1, SourceHolds, PTL

\* No front end lowers a priority except to 7 (MemHintClient.send, mem_hint_send_phase
\* and mem_hint_write).
THEOREM PriorityNeverLowered == PathSpec => []PriorityIsNotLowered
<1>1. SourceOK => PriorityIsNotLowered
  <2> SUFFICES ASSUME SourceOK, source.kind = "call"
               PROVE  LET c == source.of
                          asked == MethodFields(c.via, c.method, c.args).priority
                      IN  (c.via = "client" \/ asked <= U8Max)
                            => Smaller(asked, 7) <= HintFrom(source).priority
    BY DEF PriorityIsNotLowered
  <2> DEFINE f == MethodFields(source.of.via, source.of.method, source.of.args)
  <2>1. source.of.via \in FrontEnds /\ f.priority \in Int
    BY SourceValues, SourcesAssumption, FieldValues
  <2>2. HintFrom(source).priority = IF source.of.via = "library"
                                    THEN Smaller(f.priority % (U8Max + 1), 7)
                                    ELSE Smaller(Smaller(f.priority, 7) % (U8Max + 1), 7)
    <3>1. HintFrom(source) = IF source.of.via = "library" THEN ReadHint(library_wire(f))
                                                          ELSE ReadHint(client_wire(f))
      BY DEF HintFrom, WireFrom, WireOf
    <3> HIDE DEF f
    <3> QED  BY <3>1, RecordsDiffer
  <2> HIDE DEF f
  <2>3. /\ f.priority <= U8Max
             => Smaller(f.priority, 7) <= Smaller(f.priority % (U8Max + 1), 7)
        /\ Smaller(f.priority, 7) <= Smaller(Smaller(f.priority, 7) % (U8Max + 1), 7)
    BY <2>1, PriorityArrives
  <2> QED  BY <2>1, <2>2, <2>3 DEF FrontEnds, f
<1> QED  BY <1>1, SourceHolds, PTL

\* What a call asks for is what the driver reads: phase and both targets, modulo the
\* width of their fields, and every priority there is, from either front end, and
\* neither security nor a reserved bit (mem_hint_send_phase, MemHintClient.send).
ArgumentsArrive ==
  source.kind = "call" =>
    LET f == MethodFields(source.of.via, source.of.method, source.of.args)
        h == HintFrom(source)
    IN  /\ h.phase_id = f.phase_id
        /\ h.latency_target_ns = f.latency_ns % (U16Max + 1)
        /\ h.bw_target_gbps = f.bw_gbps % (U16Max + 1)
        /\ f.priority \in 0..7 => h.priority = f.priority
        /\ h.security_level = 0 /\ h.reserved = 0

\* A half-word is put together again from its bytes.
LEMMA HalfRestored ==
  ASSUME NEW n \in Int
  PROVE  (n % 256) + 256 * (n \div 256) = n
BY SMT

THEOREM CallsAreUnderstood == PathSpec => []ArgumentsArrive
<1>1. SourceOK => ArgumentsArrive
  <2> SUFFICES ASSUME SourceOK, source.kind = "call"
               PROVE  LET f == MethodFields(source.of.via, source.of.method, source.of.args)
                          h == HintFrom(source)
                      IN  /\ h.phase_id = f.phase_id
                          /\ h.latency_target_ns = f.latency_ns % (U16Max + 1)
                          /\ h.bw_target_gbps = f.bw_gbps % (U16Max + 1)
                          /\ f.priority \in 0..7 => h.priority = f.priority
                          /\ h.security_level = 0 /\ h.reserved = 0
    BY DEF ArgumentsArrive
  <2> DEFINE f == MethodFields(source.of.via, source.of.method, source.of.args)
             ns == f.latency_ns % (U16Max + 1)
             gbps == f.bw_gbps % (U16Max + 1)
             asked == IF source.of.via = "library" THEN f.priority % (U8Max + 1)
                                                   ELSE Smaller(f.priority, 7) % (U8Max + 1)
  <2>1. f.latency_ns \in Int /\ f.bw_gbps \in Int /\ f.priority \in Int
    BY SourceValues, SourcesAssumption, FieldValues
  <2>2. ns \in Int /\ gbps \in Int
    BY <2>1 DEF U16Max
  <2>3. f.priority \in 0..7 => Smaller(asked, 7) = f.priority
    <3> HIDE DEF f
    <3> QED  BY <2>1, SMT DEF Smaller, U8Max
  <2>4. HintFrom(source) = ReadHint(Packed(f.phase_id, ns, gbps, 0, asked))
    BY DEF HintFrom, WireFrom, WireOf, library_wire, client_wire
  <2> HIDE DEF f, ns, gbps, asked
  <2>5. HintFrom(source) =
          [phase_id |-> f.phase_id, latency_target_ns |-> (ns % 256) + 256 * (ns \div 256),
           bw_target_gbps |-> (gbps % 256) + 256 * (gbps \div 256), security_level |-> 0,
           priority |-> Smaller(asked, 7), reserved |-> 0]
    BY <2>4 DEF ReadHint, Packed
  <2>6. (ns % 256) + 256 * (ns \div 256) = ns /\ (gbps % 256) + 256 * (gbps \div 256) = gbps
    BY <2>2, HalfRestored
  <2> QED  BY <2>3, <2>5, <2>6 DEF f, ns, gbps
<1> QED  BY <1>1, SourceHolds, PTL

-----------------------------------------------------------------------------
(* From the source to the operating point.                                 *)

\* The fields of a hint that the policy engine and the limiter look at are bytes, and
\* only a raw record asks for security.
LEMMA HintBytes ==
  ASSUME SourceOK, source # Direct
  PROVE  LET h == HintFrom(source)
         IN  /\ h.phase_id \in Byte /\ h.priority \in Byte /\ h.security_level \in Byte
             /\ source.kind # "raw" => h.security_level = 0
<1>1. source \in Sources
  BY DEF SourceOK
<1>2. CASE source.kind = "tick"
  <2>1. {0, 3, 5} \subseteq Byte
    BY ByteValues DEF Byte
  <2>2. Inferred(source.of) \in PhaseIds
    <3>1. source.of.prev \in PhaseIds
      BY <1>2, SourceValues, SourcesAssumption
    <3>2. \A r \in 1..4 : RulePhase(r) \in PhaseIds
      BY SMT DEF RulePhase, PhaseIds, PHASE_PREFILL, PHASE_DECODE, PHASE_AGENTIC, PHASE_IDLE,
                 PHASE_BACKWARD
    <3> QED  BY <3>1, <3>2 DEF Inferred, classify_phase, ClassifyFrom
  <2>3. HintFrom(source) = phase_to_hint(Inferred(source.of))
    BY <1>2 DEF HintFrom
  <2> HIDE DEF Inferred
  <2>4. Inferred(source.of) \in Byte
    BY <2>2, ByteValues
  <2>5. /\ HintFrom(source).phase_id = Inferred(source.of)
        /\ HintFrom(source).priority \in {3, 5}
        /\ HintFrom(source).security_level = 0
    BY <2>3 DEF phase_to_hint
  <2> QED  BY <2>1, <2>4, <2>5
<1>3. CASE source.kind \in {"call", "raw"}
  <2>1. WireFrom(source) \in Wires
    BY <1>3, SourceValues, SourcesAssumption, WireType DEF WireFrom
  <2>2. /\ WireFrom(source)[1] \in Byte /\ WireFrom(source)[6] \in Byte
        /\ WireFrom(source)[7] \in Byte
    BY <2>1 DEF Wires
  <2>3. HintFrom(source) = ReadHint(WireFrom(source))
    BY <1>3 DEF HintFrom
  <2>4. \A n \in Byte : Smaller(n, 7) \in Byte
    BY SMT DEF Smaller, Byte, U8Max
  <2>5. source.kind = "call" => WireFrom(source)[6] = 0
    BY DEF WireFrom, WireOf, library_wire, client_wire, Packed
  <2> HIDE DEF WireFrom
  <2> QED  BY <1>3, <2>2, <2>3, <2>4, <2>5 DEF ReadHint
<1> QED  BY <1>1, <1>2, <1>3 DEF Sources

\* Whoever asked, in whatever way, gets the row of the phase and the priority that
\* arrived, with the security floor when the record asked for it and with nothing
\* else changed; a call or the classifier gets just the row (mem_hint_apply).
ArrivesAsAsked ==
  source # Direct =>
    /\ request = AskedBy(HintFrom(source))
    /\ limited => point = WithFloor(request.p, request.sec)
    /\ source.kind # "raw" => point = request.p

THEOREM PathEndsAsAsked == PathSpec => []ArrivesAsAsked
<1> DEFINE Stems == source # Direct => request = AskedBy(HintFrom(source))
<1>1. PathInit => Stems
  BY DEF PathInit
<1>2. Stems /\ [PathNext]_<<vars, source>> => Stems'
  BY DEF PathNext, Next, Limit, vars
<1>3. SourceOK /\ Inv /\ Stems => ArrivesAsAsked
  <2> SUFFICES ASSUME SourceOK, Inv, Stems, source # Direct
               PROVE  /\ request = AskedBy(HintFrom(source))
                      /\ limited => point = WithFloor(request.p, request.sec)
                      /\ source.kind # "raw" => point = request.p
    BY DEF ArrivesAsAsked
  <2> DEFINE h == HintFrom(source)
  <2>1. /\ h.phase_id \in Byte /\ h.priority \in Byte /\ h.security_level \in Byte
        /\ source.kind # "raw" => h.security_level = 0
    BY HintBytes
  <2> HIDE DEF h
  <2>2. /\ request.p = phase_to_phy_config(h.phase_id, h.priority)
        /\ request.l = platform_limits /\ request.rate = 0 /\ request.sec = h.security_level
    BY DEF AskedBy, h
  <2>3. limited => point = WithFloor(request.p, request.sec)
    BY <2>1, <2>2, PolicyFloorOnly DEF Inv
  <2>4. request.p \in phy_config
    BY <2>1, <2>2, PolicyType
  <2>5. request.sec = 0 => WithFloor(request.p, request.sec) = request.p
    BY <2>4 DEF WithFloor, phy_config
  <2> QED  BY <2>1, <2>2, <2>3, <2>5 DEF Inv
<1> QED  BY <1>1, <1>2, <1>3, SourceHolds, PathImplementsDecision, InvInductive, PTL DEF PathSpec

\* The word for the hardware tells any two hints apart, whatever their fields, but for
\* the reserved byte, which it drops (encode_hint).
THEOREM WordsTellHintsApart ==
  ASSUME NEW g \in mem_workload_hint, NEW h \in mem_workload_hint
  PROVE  encode_hint(g) = encode_hint(h) <=> [g EXCEPT !.reserved = 0] = [h EXCEPT !.reserved = 0]
<1>1. ASSUME encode_hint(g) = encode_hint(h)
      PROVE  [g EXCEPT !.reserved = 0] = [h EXCEPT !.reserved = 0]
  <2>1. /\ g.phase_id = h.phase_id /\ g.security_level = h.security_level
        /\ g.priority = h.priority
        /\ g.latency_target_ns % 256 = h.latency_target_ns % 256
        /\ g.latency_target_ns \div 256 = h.latency_target_ns \div 256
        /\ g.bw_target_gbps % 256 = h.bw_target_gbps % 256
        /\ g.bw_target_gbps \div 256 = h.bw_target_gbps \div 256
    BY <1>1 DEF encode_hint
  <2>2. /\ g.latency_target_ns \in Int /\ h.latency_target_ns \in Int
        /\ g.bw_target_gbps \in Int /\ h.bw_target_gbps \in Int
    BY DEF mem_workload_hint, Half
  <2>3. g.latency_target_ns = h.latency_target_ns /\ g.bw_target_gbps = h.bw_target_gbps
    BY <2>1, <2>2, HalfRestored
  <2> QED  BY <2>1, <2>3 DEF mem_workload_hint
<1>2. ASSUME [g EXCEPT !.reserved = 0] = [h EXCEPT !.reserved = 0]
      PROVE  encode_hint(g) = encode_hint(h)
  <2>1. /\ g.phase_id = h.phase_id /\ g.latency_target_ns = h.latency_target_ns
        /\ g.bw_target_gbps = h.bw_target_gbps /\ g.security_level = h.security_level
        /\ g.priority = h.priority
    BY <1>2 DEF mem_workload_hint
  <2> QED  BY <2>1 DEF encode_hint
<1> QED  BY <1>1, <1>2
=============================================================================
