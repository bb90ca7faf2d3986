------------------------ MODULE MemHintDriverProofs ------------------------
(***************************************************************************)
(* The hint path for any number of writing threads, any hints, any stored  *)
(* thresholds and channels, any counter sample and either build.  First    *)
(* lemmas about the pure operators it calls, then the invariants, each on  *)
(* top of the one before, then the refinement of HintRegister; last, that  *)
(* the driver next to its tuning surface is still the driver.              *)
(***************************************************************************)
EXTENDS MemHintTuning, PhyPolicyProofs

\* The phases, and that they are bytes.
LEMMA PhaseFacts ==
  /\ PhaseIds \subseteq Byte /\ 0 \notin PhaseIds /\ 0 \in Byte
  /\ {PHASE_PREFILL, PHASE_DECODE, PHASE_AGENTIC, PHASE_IDLE} \subseteq PhaseIds
<1>1. PhaseIds = 1..6
  BY DEF PhaseIds, PHASE_PREFILL, PHASE_BACKWARD
<1> QED
  BY <1>1, Widths DEF Byte, PHASE_PREFILL, PHASE_DECODE, PHASE_AGENTIC, PHASE_IDLE

LEMMA EncodedField ==
  ASSUME NEW x \in Half
  PROVE  x % 256 \in Byte /\ x \div 256 \in Byte
<1>1. U16Max = 65535 /\ U8Max = 255
  BY DEF U16Max, U8Max
<1>2. U16Max \in Int /\ U8Max \in Int
  BY <1>1
<1>3. x \in Int /\ 0 <= x /\ x <= U16Max
  BY <1>2 DEF Half
<1>4. /\ x % 256 \in Int /\ 0 <= x % 256 /\ x % 256 <= U8Max
      /\ x \div 256 \in Int /\ 0 <= x \div 256 /\ x \div 256 <= U8Max
  BY <1>1, <1>3
<1> QED  BY <1>2, <1>4 DEF Byte

\* encode_hint: a word has eight bytes, of which the phase, the priority and
\* the reserved one are found where they were put.
LEMMA EncodedHint ==
  ASSUME NEW h \in mem_workload_hint
  PROVE  /\ encode_hint(h) \in HintWord
         /\ WordPhase(encode_hint(h)) = h.phase_id
         /\ WordPriority(encode_hint(h)) = h.priority
         /\ WordReserved(encode_hint(h)) = 0
<1>1. /\ h.phase_id \in Byte /\ h.security_level \in Byte /\ h.priority \in Byte
      /\ h.latency_target_ns \in Half /\ h.bw_target_gbps \in Half
  BY DEF mem_workload_hint
<1>2. /\ h.latency_target_ns % 256 \in Byte /\ h.latency_target_ns \div 256 \in Byte
      /\ h.bw_target_gbps % 256 \in Byte /\ h.bw_target_gbps \div 256 \in Byte
  BY <1>1, EncodedField
<1>3. 0 \in Byte
  BY PhaseFacts
<1> QED
  BY <1>1, <1>2, <1>3
  DEF encode_hint, HintWord, WordPhase, WordPriority, WordReserved

\* phase_to_hint: an inferred hint carries the phase it was built for.
LEMMA InferredHint ==
  ASSUME NEW p \in Byte
  PROVE  /\ phase_to_hint(p) \in mem_workload_hint
         /\ phase_to_hint(p).phase_id = p
         /\ phase_to_hint(p).priority <= 7
         /\ phase_to_hint(p).security_level = 0
<1>1. {0, 3, 5} \subseteq Byte /\ {0, 90, 120, 150, 200, 300, 400} \subseteq Half
  <2>1. U16Max = 65535 /\ U8Max = 255  BY DEF U16Max, U8Max
  <2> QED  BY <2>1 DEF Byte, Half
<1> QED  BY <1>1 DEF phase_to_hint, mem_workload_hint

LEMMA NoHintType == NoHint \in mem_workload_hint
<1>1. 0 \in Byte /\ 0 \in Half
  BY Widths DEF Byte, Half
<1> QED  BY <1>1 DEF NoHint, mem_workload_hint

\* Hence mem_hint_apply reports a safe operating point for every hint.
LEMMA ClampedIsSafe ==
  ASSUME NEW h \in mem_workload_hint
  PROVE  /\ Clamped(h) \in phy_config
         /\ Within(Clamped(h), platform_limits)
         /\ h.security_level > 0 => Floored(Clamped(h))
<1>1. h.phase_id \in Byte /\ h.priority \in Byte /\ h.security_level \in Byte
  BY DEF mem_workload_hint
<1> QED  BY <1>1, PolicyType, PlatformLimits, LimiterIsSafe DEF Clamped

-----------------------------------------------------------------------------
(* Type correctness: the type invariant is inductive by itself.            *)

LEMMA InitType == Init => TypeOK
<1>1. PHASE_IDLE \in Byte
  BY PhaseFacts
<1>2. DefaultThresholds \in Thresholds
  <2>1. \A t \in ThresholdNames : DefaultOf(t) \in {10, 1, 5000, 50, 1000}
    BY DEF DefaultOf, ThresholdNames
  <2>2. \A n \in {10, 1, 5000, 50, 1000} : n \in 0..(U32 - 1)
    BY WidthAssumption
  <2> QED  BY <2>1, <2>2 DEF DefaultThresholds, Thresholds
<1> SUFFICES ASSUME Init  PROVE TypeOK
  OBVIOUS
<1>3. current_phase_id \in Byte /\ pmu_last_phase \in Byte
  BY <1>1 DEF Init
<1>4. active_channel \in ChannelValues \cup {CH_MSR} /\ msr \in HintWord \cup {NoWord}
  BY DEF Init
<1>5. thresholds \in Thresholds
  BY <1>2 DEF Init
<1>6. pc \in [Agents -> AgentStates] /\ \A w \in Writers : pc[w] # "classify"
  BY DEF Init, AgentStates, Agents
<1>7. hint \in [Agents -> mem_workload_hint]
  BY NoHintType DEF Init
<1>8. rule \in 1..5
  BY DEF Init
<1>9. stable \in BOOLEAN /\ unison \in BOOLEAN
  BY DEF Init
<1> QED  BY <1>3, <1>4, <1>5, <1>6, <1>7, <1>8, <1>9 DEF TypeOK

\* An agent that is a writer is not the timer.
LEMMA AgentFacts ==
  /\ Timer \in Agents /\ Writers \subseteq Agents /\ Timer \notin Writers
BY AgentsAssumption DEF Agents

\* What a thread hands to mem_hint_apply.
LEMMA AcceptedHint ==
  ASSUME NEW h \in WriteHints, ValidPhase(h)
  PROVE  LET g == [h EXCEPT !.priority = Smaller(@, 7)]
         IN  /\ g \in mem_workload_hint
             /\ g.phase_id \in PhaseIds /\ g.priority <= 7
<1>1. h \in mem_workload_hint
  BY InputsAssumption
<1>2. h.priority \in Byte
  BY <1>1 DEF mem_workload_hint
<1>3. Smaller(h.priority, 7) \in Byte /\ Smaller(h.priority, 7) <= 7
  BY <1>2, Widths DEF Byte, Smaller
<1> QED  BY <1>1, <1>3 DEF ValidPhase, mem_workload_hint

LEMMA StepType == TypeOK /\ [Next]_vars => TypeOK'
<1> SUFFICES ASSUME TypeOK, [Next]_vars  PROVE TypeOK'
  OBVIOUS
<1> USE AgentFacts
<1>1. ASSUME NEW w \in Writers, RejectWrite(w)  PROVE TypeOK'
  BY <1>1 DEF RejectWrite, TypeOK, vars, globals
<1>2. ASSUME NEW w \in Writers, AcceptWrite(w)  PROVE TypeOK'
  <2>1. hint' \in [Agents -> mem_workload_hint]
    BY <1>2, AcceptedHint DEF AcceptWrite, TypeOK
  <2>2. pc' \in [Agents -> AgentStates] /\ \A v \in Writers : pc'[v] # "classify"
    BY <1>2 DEF AcceptWrite, TypeOK, AgentStates
  <2> QED  BY <1>2, <2>1, <2>2 DEF AcceptWrite, TypeOK, globals
<1>3. ASSUME Tick  PROVE TypeOK'
  <2>1. pc' \in [Agents -> AgentStates] /\ \A v \in Writers : pc'[v] # "classify"
    BY <1>3 DEF Tick, TypeOK, AgentStates
  <2>2. rule' \in 1..5 /\ stable' \in BOOLEAN
    BY <1>3 DEF Tick
  <2> QED  BY <1>3, <2>1, <2>2 DEF Tick, TypeOK, globals
<1>4. ASSUME RuleFails  PROVE TypeOK'
  <2>1. rule' \in 1..5
    BY <1>4 DEF RuleFails, Rules
  <2> QED  BY <1>4, <2>1 DEF RuleFails, TypeOK, globals
<1>5. ASSUME Settle  PROVE TypeOK'
  <2>1. (IF rule \in Rules THEN RulePhase(rule) ELSE pmu_last_phase) \in Byte
    BY PhaseFacts DEF TypeOK, Rules, RulePhase
  <2>2. hint' \in [Agents -> mem_workload_hint]
    BY <1>5, <2>1, InferredHint DEF Settle, TypeOK
  <2>3. pc' \in [Agents -> AgentStates] /\ \A v \in Writers : pc'[v] # "classify"
    BY <1>5 DEF Settle, TypeOK, AgentStates
  <2>4. rule' \in 1..5
    BY <1>5 DEF Settle
  <2> QED  BY <1>5, <2>2, <2>3, <2>4 DEF Settle, TypeOK, globals
<1>6. ASSUME NEW a \in Agents, Dispatch(a)  PROVE TypeOK'
  <2>1. hint[a] \in mem_workload_hint
    BY DEF TypeOK
  <2>2. msr' \in HintWord \cup {NoWord}
    BY <1>6, <2>1, EncodedHint DEF Dispatch, TypeOK
  <2>3. pc' \in [Agents -> AgentStates] /\ \A v \in Writers : pc'[v] # "classify"
    BY <1>6 DEF Dispatch, TypeOK, AgentStates
  <2>4. unison' \in BOOLEAN
    BY <1>6 DEF Dispatch
  <2> QED  BY <1>6, <2>2, <2>3, <2>4 DEF Dispatch, TypeOK
<1>7. ASSUME NEW a \in Agents, Publish(a)  PROVE TypeOK'
  <2>1. hint[a].phase_id \in Byte
    BY DEF TypeOK, mem_workload_hint
  <2>2. pc' \in [Agents -> AgentStates] /\ \A v \in Writers : pc'[v] # "classify"
    BY <1>7 DEF Publish, TypeOK, AgentStates
  <2> QED  BY <1>7, <2>1, <2>2 DEF Publish, TypeOK
<1>8. ASSUME NEW a \in Agents, Return(a)  PROVE TypeOK'
  <2>1. hint[a] \in mem_workload_hint /\ hint[a].phase_id \in Byte
    BY DEF TypeOK, mem_workload_hint
  <2>2. pmu_last_phase' \in Byte
    BY <1>8, <2>1 DEF Return, TypeOK
  <2>3. pc' \in [Agents -> AgentStates] /\ \A v \in Writers : pc'[v] # "classify"
    BY <1>8 DEF Return, TypeOK, AgentStates
  <2>4. hint' \in [Agents -> mem_workload_hint]
    BY <1>8, NoHintType DEF Return, TypeOK
  <2> QED  BY <1>8, <2>2, <2>3, <2>4 DEF Return, TypeOK
<1>9. CASE SetThreshold
  <2>1. thresholds' \in Thresholds
    BY <1>9, InputsAssumption DEF SetThreshold, TypeOK, Thresholds
  <2> QED  BY <1>9, <2>1 DEF SetThreshold, TypeOK
<1>10. CASE SetChannel
  BY <1>10 DEF SetChannel, TypeOK
<1>11. CASE UNCHANGED vars
  BY <1>11 DEF TypeOK, vars, globals
<1> QED
  BY <1>1, <1>2, <1>3, <1>4, <1>5, <1>6, <1>7, <1>8, <1>9, <1>10, <1>11
  DEF Next, Write, Classify, Apply

\* The hint path's state has its types, whatever is written or stored.
THEOREM TypeCorrect == Spec => []TypeOK
BY InitType, StepType, PTL DEF Spec

-----------------------------------------------------------------------------
(* Only validated hints.  The register's contents are what an agent was    *)
(* applying, so the invariant has to follow the hints on their way there.  *)

HintsValidated ==
  /\ OnlyValidatedHints
  /\ \A a \in Agents : Applying(a) => hint[a].phase_id \in PhaseIds /\ hint[a].priority <= 7

LEMMA ValidatedStep == TypeOK /\ HintsValidated /\ [Next]_vars => HintsValidated'
<1> SUFFICES ASSUME TypeOK, HintsValidated, [Next]_vars  PROVE HintsValidated'
  OBVIOUS
<1> USE AgentFacts
<1>1. ASSUME NEW w \in Writers, RejectWrite(w)  PROVE HintsValidated'
  BY <1>1 DEF RejectWrite, HintsValidated, OnlyValidatedHints, Applying, vars, globals
<1>2. ASSUME NEW w \in Writers, AcceptWrite(w)  PROVE HintsValidated'
  BY <1>2, AcceptedHint
  DEF AcceptWrite, TypeOK, HintsValidated, OnlyValidatedHints, Applying, globals
<1>3. ASSUME Tick  PROVE HintsValidated'
  BY <1>3 DEF Tick, TypeOK, HintsValidated, OnlyValidatedHints, Applying, globals
<1>4. ASSUME RuleFails  PROVE HintsValidated'
  BY <1>4 DEF RuleFails, HintsValidated, OnlyValidatedHints, Applying, globals
<1>5. ASSUME Settle  PROVE HintsValidated'
  <2> DEFINE phase == IF rule \in Rules THEN RulePhase(rule) ELSE pmu_last_phase
  <2>1. phase \in PhaseIds
    BY PhaseFacts DEF HintsValidated, OnlyValidatedHints, Rules, RulePhase
  <2>2. phase_to_hint(phase).phase_id \in PhaseIds /\ phase_to_hint(phase).priority <= 7
    BY <2>1, PhaseFacts, InferredHint
  <2>3. \A a \in Agents : Applying(a)' =>
          hint'[a].phase_id \in PhaseIds /\ hint'[a].priority <= 7
    BY <1>5, <2>2 DEF Settle, TypeOK, HintsValidated, Applying
  <2> QED  BY <1>5, <2>3 DEF Settle, HintsValidated, OnlyValidatedHints, globals
<1>6. ASSUME NEW a \in Agents, Dispatch(a)  PROVE HintsValidated'
  <2>1. /\ hint[a] \in mem_workload_hint
        /\ hint[a].phase_id \in PhaseIds /\ hint[a].priority <= 7
    BY <1>6 DEF TypeOK, HintsValidated, Applying, Dispatch
  <2>2. msr' \in {msr, encode_hint(hint[a])}
    BY <1>6 DEF Dispatch
  <2>3. msr' # NoWord => /\ WordPhase(msr') \in PhaseIds
                         /\ WordPriority(msr') <= 7
                         /\ WordReserved(msr') = 0
    BY <2>1, <2>2, EncodedHint DEF HintsValidated, OnlyValidatedHints
  <2> QED
    BY <1>6, <2>3 DEF Dispatch, TypeOK, HintsValidated, OnlyValidatedHints, Applying
<1>7. ASSUME NEW a \in Agents, Publish(a)  PROVE HintsValidated'
  BY <1>7 DEF Publish, TypeOK, HintsValidated, OnlyValidatedHints, Applying
<1>8. ASSUME NEW a \in Agents, Return(a)  PROVE HintsValidated'
  BY <1>8 DEF Return, TypeOK, HintsValidated, OnlyValidatedHints, Applying
<1>9. CASE SetThreshold
  BY <1>9 DEF SetThreshold, HintsValidated, OnlyValidatedHints, Applying
<1>10. CASE SetChannel
  BY <1>10 DEF SetChannel, HintsValidated, OnlyValidatedHints, Applying
<1>11. CASE UNCHANGED vars
  BY <1>11 DEF HintsValidated, OnlyValidatedHints, Applying, vars, globals
<1> QED
  BY <1>1, <1>2, <1>3, <1>4, <1>5, <1>6, <1>7, <1>8, <1>9, <1>10, <1>11
  DEF Next, Write, Classify, Apply

LEMMA Validated == Spec => []HintsValidated
<1>1. Init => HintsValidated
  BY PhaseFacts DEF Init, HintsValidated, OnlyValidatedHints, Applying
<1> QED  BY <1>1, ValidatedStep, TypeCorrect, PTL DEF Spec

\* No thread and no tick ever brings an unknown phase, an excessive priority or a
\* reserved bit to the status file or to the register.
THEOREM OnlyValidHintsApplied == Spec => []OnlyValidatedHints
<1>1. HintsValidated => OnlyValidatedHints
  BY DEF HintsValidated
<1> QED  BY <1>1, Validated, PTL

-----------------------------------------------------------------------------
(* Safe operating points.                                                  *)

\* Every operating point that a hint under way asks for respects the limits, and the
\* floor wherever security is asked for.
THEOREM OperatingPointsSafe == Spec => []SafeOperatingPoints
<1>1. TypeOK => SafeOperatingPoints
  BY ClampedIsSafe DEF TypeOK, SafeOperatingPoints
<1> QED  BY <1>1, TypeCorrect, PTL

\* The way through mem_hint_apply never changes what the policy chose for a hint: of
\* the limiter's stages only the security floor ever does anything (safety_clamp).
RowIsApplied ==
  \A a \in Agents : Applying(a) =>
    Clamped(hint[a]) = WithFloor(phase_to_phy_config(hint[a].phase_id, hint[a].priority),
                                 hint[a].security_level)

THEOREM RowApplied == Spec => []RowIsApplied
<1>1. ASSUME NEW h \in mem_workload_hint
      PROVE  Clamped(h) = WithFloor(phase_to_phy_config(h.phase_id, h.priority), h.security_level)
  <2>1. h.phase_id \in Byte /\ h.priority \in Byte /\ h.security_level \in Byte
    BY DEF mem_workload_hint
  <2> QED  BY <2>1, PolicyFloorOnly DEF Clamped
<1>2. TypeOK => RowIsApplied
  BY <1>1 DEF TypeOK, RowIsApplied
<1> QED  BY <1>2, TypeCorrect, PTL

-----------------------------------------------------------------------------
(* Ticks.  TickIsAtomicWhenStable is inductive because classification is   *)
(* idempotent: taking its own outcome for the previous phase changes       *)
(* nothing, so a phase that was just applied is settled.                   *)

LEMMA ClassifyIdempotent ==
  ASSUME NEW s, NEW thr, NEW prev
  PROVE  classify_phase(s, thr, classify_phase(s, thr, prev)) = classify_phase(s, thr, prev)
BY DEF classify_phase, ClassifyFrom

\* One rule further: what RuleFails and Settle do to the rest of a classification.
LEMMA ClassifySteps ==
  ASSUME NEW r \in 1..5, NEW s, NEW thr, NEW prev
  PROVE  /\ (r \in Rules /\ ~RuleMatches(r, s, thr))
              => ClassifyFrom(r + 1, s, thr, prev) = ClassifyFrom(r, s, thr, prev)
         /\ (r \in Rules /\ RuleMatches(r, s, thr))
              => ClassifyFrom(r, s, thr, prev) = RulePhase(r)
         /\ r \notin Rules => ClassifyFrom(r, s, thr, prev) = prev
<1>1. CASE r = 1  BY <1>1 DEF ClassifyFrom, Rules
<1>2. CASE r = 2  BY <1>2 DEF ClassifyFrom, Rules
<1>3. CASE r = 3  BY <1>3 DEF ClassifyFrom, Rules
<1>4. CASE r = 4  BY <1>4 DEF ClassifyFrom, Rules
<1>5. CASE r = 5  BY <1>5 DEF ClassifyFrom, Rules
<1> QED  BY <1>1, <1>2, <1>3, <1>4, <1>5

\* The timer's steps are the only ones that move its locals, its program counter
\* and its last phase; a stored threshold clears stable.
LEMMA TimerLocals ==
  ASSUME TypeOK, [Next]_vars
  PROVE  \/ Tick \/ RuleFails \/ Settle
         \/ Dispatch(Timer) \/ Publish(Timer) \/ Return(Timer)
         \/ ~stable'
         \/ /\ stable' = stable /\ thresholds' = thresholds
            /\ pmu_last_phase' = pmu_last_phase /\ rule' = rule
            /\ pc'[Timer] = pc[Timer] /\ hint'[Timer] = hint[Timer]
<1> USE AgentFacts
<1> DEFINE Same == /\ stable' = stable /\ thresholds' = thresholds
                   /\ pmu_last_phase' = pmu_last_phase /\ rule' = rule
                   /\ pc'[Timer] = pc[Timer] /\ hint'[Timer] = hint[Timer]
<1>1. ASSUME NEW w \in Writers, RejectWrite(w) \/ AcceptWrite(w)  PROVE Same
  BY <1>1 DEF RejectWrite, AcceptWrite, TypeOK, vars, globals
<1>2. ASSUME NEW a \in Agents \ {Timer}, Apply(a)  PROVE Same
  BY <1>2 DEF Apply, Dispatch, Publish, Return, TypeOK
<1>3. SetThreshold => ~stable'
  BY DEF SetThreshold
<1>4. SetChannel \/ UNCHANGED vars => Same
  BY DEF SetChannel, vars, globals
<1> QED  BY <1>1, <1>2, <1>3, <1>4 DEF Next, Write, Classify, Apply

LEMMA TickStep ==
  TypeOK /\ TickIsAtomicWhenStable /\ [Next]_vars => TickIsAtomicWhenStable'
<1> SUFFICES ASSUME TypeOK, TickIsAtomicWhenStable, [Next]_vars, stable'
             PROVE  TickIsAtomicWhenStable'
  BY DEF TickIsAtomicWhenStable
<1> USE AgentFacts
<1> DEFINE phase == classify_phase(PmuSample, thresholds, pmu_last_phase)
           Rest  == ClassifyFrom(rule, PmuSample, thresholds, pmu_last_phase)
<1>1. pc[Timer] \in AgentStates
  BY DEF TypeOK
<1>2. rule \in 1..5 /\ pmu_last_phase \in Byte
  BY DEF TypeOK
<1>3. CASE Tick
  <2>1. pc'[Timer] = "classify" /\ rule' = 1
        /\ thresholds' = thresholds /\ pmu_last_phase' = pmu_last_phase
    BY <1>3 DEF Tick, TypeOK, globals
  <2> QED  BY <2>1 DEF TickIsAtomicWhenStable, classify_phase
<1>4. CASE RuleFails
  <2>1. /\ stable /\ pc[Timer] = "classify" /\ pc'[Timer] = "classify"
        /\ rule \in Rules /\ ~RuleMatches(rule, PmuSample, thresholds)
        /\ rule' = rule + 1
        /\ thresholds' = thresholds /\ pmu_last_phase' = pmu_last_phase
    BY <1>4 DEF RuleFails, TypeOK, globals
  <2>2. Rest = phase
    BY <2>1 DEF TickIsAtomicWhenStable
  <2>3. ClassifyFrom(rule + 1, PmuSample, thresholds, pmu_last_phase) = Rest
    BY <1>2, <2>1, ClassifySteps
  <2> QED  BY <2>1, <2>2, <2>3 DEF TickIsAtomicWhenStable
<1>5. CASE Settle
  <2> DEFINE found == IF rule \in Rules THEN RulePhase(rule) ELSE pmu_last_phase
  <2>1. /\ stable /\ pc[Timer] = "classify"
        /\ rule \in Rules => RuleMatches(rule, PmuSample, thresholds)
        /\ thresholds' = thresholds /\ pmu_last_phase' = pmu_last_phase
    BY <1>5 DEF Settle, TypeOK, globals
  <2>2. found = phase
    BY <1>2, <2>1, ClassifySteps DEF TickIsAtomicWhenStable
  <2>3. found \in Byte
    BY PhaseFacts DEF TypeOK, Rules, RulePhase
  <2>4. CASE found = pmu_last_phase
    <3>1. pc'[Timer] = "idle"
      BY <1>5, <2>4 DEF Settle, TypeOK
    <3> QED  BY <2>1, <2>2, <2>4, <3>1 DEF TickIsAtomicWhenStable
  <2>5. CASE found # pmu_last_phase
    <3>1. pc'[Timer] = "dispatch" /\ hint'[Timer] = phase_to_hint(found)
      BY <1>5, <2>5 DEF Settle, TypeOK
    <3>2. hint'[Timer].phase_id = found
      BY <2>3, <3>1, InferredHint
    <3> QED  BY <2>1, <2>2, <2>5, <3>1, <3>2 DEF TickIsAtomicWhenStable
  <2> QED  BY <2>4, <2>5
<1>6. CASE Dispatch(Timer) \/ Publish(Timer)
  <2>1. /\ stable /\ pc[Timer] \in {"dispatch", "publish"}
        /\ pc'[Timer] \in {"publish", "report"} /\ hint' = hint
        /\ thresholds' = thresholds /\ pmu_last_phase' = pmu_last_phase
    BY <1>6 DEF Dispatch, Publish, TypeOK
  <2> QED  BY <2>1 DEF TickIsAtomicWhenStable
<1>7. CASE Return(Timer)
  <2>1. /\ stable /\ pc[Timer] = "report" /\ pc'[Timer] = "idle"
        /\ thresholds' = thresholds /\ pmu_last_phase' = hint[Timer].phase_id
    BY <1>7 DEF Return, TypeOK
  <2>2. pmu_last_phase' = phase
    BY <2>1 DEF TickIsAtomicWhenStable
  <2>3. classify_phase(PmuSample, thresholds', pmu_last_phase') = pmu_last_phase'
    BY <2>1, <2>2, ClassifyIdempotent
  <2> QED  BY <2>1, <2>3 DEF TickIsAtomicWhenStable
<1>8. CASE /\ stable' = stable /\ thresholds' = thresholds
           /\ pmu_last_phase' = pmu_last_phase /\ rule' = rule
           /\ pc'[Timer] = pc[Timer] /\ hint'[Timer] = hint[Timer]
  BY <1>8 DEF TickIsAtomicWhenStable
<1> QED  BY <1>3, <1>4, <1>5, <1>6, <1>7, <1>8, TimerLocals

\* A tick that overlaps no store of a threshold decides as if it were one step,
\* applies only a new phase, and leaves nothing for the next tick to do.
THEOREM TicksAtomic == Spec => []TickIsAtomicWhenStable
<1>1. Init => TickIsAtomicWhenStable
  BY DEF Init, TickIsAtomicWhenStable
<1> QED  BY <1>1, TickStep, TypeCorrect, PTL DEF Spec

-----------------------------------------------------------------------------
(* Coming to rest.  That ClassifierSettles is liveness, which stays with   *)
(* TLC; that what has settled stays is not.                                *)

\* The timer has nothing to apply: the last phase is what the thresholds make of the
\* sample, and so is what the rules still to be tried make of it.
Settled ==
  /\ pmu_last_phase = classify_phase(PmuSample, thresholds, pmu_last_phase)
  /\ \/ pc[Timer] = "idle"
     \/ /\ pc[Timer] = "classify"
        /\ ClassifyFrom(rule, PmuSample, thresholds, pmu_last_phase) = pmu_last_phase

\* Whatever the writers do and wherever in a tick it came to rest, a classifier that
\* has settled applies no hint and keeps its phase until root stores a threshold
\* (classify_phase, pmu_timer_callback).
SettledStays ==
  [][(Settled /\ UNCHANGED thresholds) => Settled' /\ UNCHANGED pmu_last_phase]_vars

LEMMA SettledStep ==
  TypeOK /\ Settled /\ [Next]_vars /\ UNCHANGED thresholds
    => Settled' /\ UNCHANGED pmu_last_phase
<1> SUFFICES ASSUME TypeOK, Settled, [Next]_vars, UNCHANGED thresholds
             PROVE  Settled' /\ UNCHANGED pmu_last_phase
  OBVIOUS
<1> USE AgentFacts
<1> DEFINE Same == /\ pmu_last_phase' = pmu_last_phase /\ rule' = rule
                   /\ pc'[Timer] = pc[Timer]
<1>1. Same => Settled' /\ UNCHANGED pmu_last_phase
  BY DEF Settled
<1>2. rule \in 1..5
  BY DEF TypeOK
<1>3. CASE Tick
  BY <1>3 DEF Tick, TypeOK, globals, Settled, classify_phase
<1>4. CASE RuleFails
  <2>1. /\ pc[Timer] = "classify" /\ pc'[Timer] = "classify"
        /\ rule \in Rules /\ ~RuleMatches(rule, PmuSample, thresholds)
        /\ rule' = rule + 1 /\ pmu_last_phase' = pmu_last_phase
    BY <1>4 DEF RuleFails, TypeOK, globals
  <2>2. ClassifyFrom(rule + 1, PmuSample, thresholds, pmu_last_phase)
          = ClassifyFrom(rule, PmuSample, thresholds, pmu_last_phase)
    BY <1>2, <2>1, ClassifySteps
  <2> QED  BY <2>1, <2>2 DEF Settled
<1>5. CASE Settle
  <2>1. /\ pc[Timer] = "classify" /\ pmu_last_phase' = pmu_last_phase
        /\ rule \in Rules => RuleMatches(rule, PmuSample, thresholds)
    BY <1>5 DEF Settle, TypeOK, globals
  <2>2. (IF rule \in Rules THEN RulePhase(rule) ELSE pmu_last_phase) = pmu_last_phase
    BY <1>2, <2>1, ClassifySteps DEF Settled
  <2>3. pc'[Timer] = "idle"
    BY <1>5, <2>2 DEF Settle, TypeOK
  <2> QED  BY <2>1, <2>3 DEF Settled
<1>6. ~(Dispatch(Timer) \/ Publish(Timer) \/ Return(Timer))
  BY DEF Settled, Dispatch, Publish, Return
<1>7. ASSUME NEW w \in Writers, RejectWrite(w) \/ AcceptWrite(w)  PROVE Same
  BY <1>7 DEF RejectWrite, AcceptWrite, TypeOK, vars, globals
<1>8. ASSUME NEW a \in Agents \ {Timer}, Apply(a)  PROVE Same
  BY <1>8 DEF Apply, Dispatch, Publish, Return, TypeOK
<1>9. SetThreshold \/ SetChannel \/ UNCHANGED vars => Same
  BY DEF SetThreshold, SetChannel, vars, globals
<1> QED
  BY <1>1, <1>3, <1>4, <1>5, <1>6, <1>7, <1>8, <1>9 DEF Next, Write, Classify, Apply

THEOREM ClassifierStaysSettled == Spec => SettledStays
<1>1. TypeOK /\ [Next]_vars
        => [(Settled /\ UNCHANGED thresholds) => Settled' /\ UNCHANGED pmu_last_phase]_vars
  BY SettledStep
<1> QED  BY <1>1, TypeCorrect, PTL DEF Spec, SettledStays

-----------------------------------------------------------------------------
(* Register and status file.  InStep speaks of the moments when nobody is  *)
(* about to publish; in between, what is published next must be what the   *)
(* register already holds.                                                 *)

InStepInv ==
  unison => /\ msr # NoWord
            /\ \A a \in Agents : pc[a] = "publish" => WordPhase(msr) = hint[a].phase_id
            /\ (\A a \in Agents : pc[a] # "publish") => WordPhase(msr) = current_phase_id

LEMMA InStepStep == TypeOK /\ InStepInv /\ [Next]_vars => InStepInv'
<1> SUFFICES ASSUME TypeOK, InStepInv, [Next]_vars, unison'
             PROVE  InStepInv'
  BY DEF InStepInv
<1> USE AgentFacts
<1>1. ASSUME NEW w \in Writers, RejectWrite(w) \/ AcceptWrite(w)  PROVE InStepInv'
  BY <1>1 DEF RejectWrite, AcceptWrite, TypeOK, InStepInv, vars, globals
<1>2. ASSUME Tick \/ RuleFails \/ Settle  PROVE InStepInv'
  BY <1>2 DEF Tick, RuleFails, Settle, TypeOK, InStepInv, globals
<1>3. ASSUME NEW a \in Agents, Dispatch(a)  PROVE InStepInv'
  <2>1. hint[a] \in mem_workload_hint
    BY DEF TypeOK
  <2>2. /\ msr' = encode_hint(hint[a]) /\ hint' = hint
        /\ \A b \in Agents \ {a} : pc'[b] # "publish"
        /\ pc'[a] = "publish"
    BY <1>3 DEF Dispatch, TypeOK
  <2> QED  BY <2>1, <2>2, EncodedHint, InputsAssumption DEF InStepInv
<1>4. ASSUME NEW a \in Agents, Publish(a)  PROVE InStepInv'
  BY <1>4 DEF Publish, TypeOK, InStepInv
<1>5. ASSUME NEW a \in Agents, Return(a)  PROVE InStepInv'
  BY <1>5 DEF Return, TypeOK, InStepInv
<1>6. CASE SetThreshold \/ SetChannel \/ UNCHANGED vars
  BY <1>6 DEF SetThreshold, SetChannel, InStepInv, vars, globals
<1> QED
  BY <1>1, <1>2, <1>3, <1>4, <1>5, <1>6 DEF Next, Write, Classify, Apply

\* The register and the status file disagree only through a dispatch that did not
\* reach the register or that overlapped another agent's.
THEOREM RegisterInStep == Spec => []InStep
<1>1. Init => InStepInv
  BY DEF Init, InStepInv
<1>2. InStepInv => InStep
  BY DEF InStepInv, InStep
<1> QED  BY <1>1, <1>2, InStepStep, TypeCorrect, PTL DEF Spec

-----------------------------------------------------------------------------
(* The hint path implements the abstract register.  Accepting a hint and   *)
(* settling on a new phase submit, publishing commits, and every other     *)
(* step changes nothing that the abstract register sees.                   *)

Pending == [a \in Agents |-> IF pc[a] \in {"dispatch", "publish"}
                             THEN hint[a].phase_id ELSE 0]

\* An agent's step moves at most its own entry of Pending.
LEMMA PendingUpdate ==
  ASSUME NEW a \in Agents, NEW p,
         \A b \in Agents \ {a} : pc'[b] = pc[b] /\ hint'[b] = hint[b],
         (IF pc'[a] \in {"dispatch", "publish"} THEN hint'[a].phase_id ELSE 0) = p
  PROVE  Pending' = [Pending EXCEPT ![a] = p]
BY DEF Pending

LEMMA StepRefines ==
  TypeOK /\ HintsValidated /\ [Next]_vars => [Register!Next]_(Register!vars)
<1> SUFFICES ASSUME TypeOK, HintsValidated, [Next]_vars
             PROVE  \/ \E a \in Agents : Register!Submit(a) \/ Register!Commit(a)
                    \/ current_phase_id' = current_phase_id /\ Pending' = Pending
  BY DEF Register!Next, Register!vars, Pending
<1> USE AgentFacts
<1> DEFINE Stutter == current_phase_id' = current_phase_id /\ Pending' = Pending
<1>1. ASSUME NEW w \in Writers, RejectWrite(w)  PROVE Stutter
  BY <1>1 DEF RejectWrite, Pending, vars, globals
<1>2. ASSUME NEW w \in Writers, AcceptWrite(w)  PROVE Register!Submit(w)
  <2>1. Pending[w] = 0
    BY <1>2 DEF AcceptWrite, Pending
  <2>2. hint'[w].phase_id \in PhaseIds /\ pc'[w] = "dispatch"
    BY <1>2, AcceptedHint DEF AcceptWrite, TypeOK
  <2>3. \A b \in Agents \ {w} : pc'[b] = pc[b] /\ hint'[b] = hint[b]
    BY <1>2 DEF AcceptWrite, TypeOK
  <2>4. Pending' = [Pending EXCEPT ![w] = hint'[w].phase_id]
    BY <2>2, <2>3, PendingUpdate
  <2>5. current_phase_id' = current_phase_id
    BY <1>2 DEF AcceptWrite, globals
  <2> QED  BY <2>1, <2>2, <2>4, <2>5 DEF Register!Submit, Pending
<1>3. ASSUME Tick \/ RuleFails  PROVE Stutter
  <2>1. /\ hint' = hint /\ current_phase_id' = current_phase_id
        /\ \A a \in Agents : pc'[a] \in {"dispatch", "publish"}
                              <=> pc[a] \in {"dispatch", "publish"}
    BY <1>3 DEF Tick, RuleFails, TypeOK, globals
  <2> QED  BY <2>1 DEF Pending
<1>4. ASSUME Settle  PROVE Register!Submit(Timer) \/ Stutter
  <2> DEFINE found == IF rule \in Rules THEN RulePhase(rule) ELSE pmu_last_phase
  <2>1. found \in PhaseIds
    BY PhaseFacts DEF HintsValidated, OnlyValidatedHints, Rules, RulePhase
  <2>2. /\ Pending[Timer] = 0 /\ current_phase_id' = current_phase_id
        /\ \A b \in Agents \ {Timer} : pc'[b] = pc[b] /\ hint'[b] = hint[b]
    BY <1>4 DEF Settle, Pending, TypeOK, globals
  <2>3. CASE found # pmu_last_phase
    <3>1. pc'[Timer] = "dispatch" /\ hint'[Timer] = phase_to_hint(found)
      BY <1>4, <2>3 DEF Settle, TypeOK
    <3>2. hint'[Timer].phase_id = found
      BY <2>1, <3>1, PhaseFacts, InferredHint
    <3>3. Pending' = [Pending EXCEPT ![Timer] = found]
      BY <2>2, <3>1, <3>2, PendingUpdate
    <3> QED  BY <2>1, <2>2, <3>3 DEF Register!Submit, Pending
  <2>4. CASE found = pmu_last_phase
    <3>1. pc'[Timer] = "idle" /\ hint' = hint
      BY <1>4, <2>4 DEF Settle, TypeOK
    <3>2. pc[Timer] = "classify"
      BY <1>4 DEF Settle
    <3>3. \A a \in Agents : pc'[a] \in {"dispatch", "publish"}
                              <=> pc[a] \in {"dispatch", "publish"}
      BY <2>2, <3>1, <3>2
    <3> QED  BY <2>2, <3>1, <3>3 DEF Pending
  <2> QED  BY <2>3, <2>4
<1>5. ASSUME NEW a \in Agents, Dispatch(a)  PROVE Stutter
  <2>1. /\ hint' = hint /\ current_phase_id' = current_phase_id
        /\ \A b \in Agents : pc'[b] \in {"dispatch", "publish"}
                              <=> pc[b] \in {"dispatch", "publish"}
    BY <1>5 DEF Dispatch, TypeOK
  <2> QED  BY <2>1 DEF Pending
<1>6. ASSUME NEW a \in Agents, Publish(a)  PROVE Register!Commit(a)
  <2>1. Pending[a] = hint[a].phase_id /\ Pending[a] # 0
    BY <1>6, PhaseFacts DEF Publish, Pending, HintsValidated, Applying
  <2>2. /\ pc'[a] = "report"
        /\ \A b \in Agents \ {a} : pc'[b] = pc[b] /\ hint'[b] = hint[b]
    BY <1>6 DEF Publish, TypeOK
  <2>3. Pending' = [Pending EXCEPT ![a] = 0]
    BY <2>2, PendingUpdate
  <2>4. current_phase_id' = hint[a].phase_id
    BY <1>6 DEF Publish
  <2> QED  BY <2>1, <2>3, <2>4 DEF Register!Commit, Pending
<1>7. ASSUME NEW a \in Agents, Return(a)  PROVE Stutter
  <2>1. /\ current_phase_id' = current_phase_id
        /\ pc[a] = "report" /\ pc'[a] = "idle"
        /\ \A b \in Agents \ {a} : pc'[b] = pc[b] /\ hint'[b] = hint[b]
    BY <1>7 DEF Return, TypeOK
  <2>2. \A b \in Agents : (IF pc'[b] \in {"dispatch", "publish"} THEN hint'[b].phase_id ELSE 0)
                          = (IF pc[b] \in {"dispatch", "publish"} THEN hint[b].phase_id ELSE 0)
    BY <2>1
  <2> QED  BY <2>1, <2>2 DEF Pending
<1>8. SetThreshold \/ SetChannel \/ UNCHANGED vars => Stutter
  BY DEF SetThreshold, SetChannel, Pending, vars, globals
<1> QED
  BY <1>1, <1>2, <1>3, <1>4, <1>5, <1>6, <1>7, <1>8 DEF Next, Write, Classify, Apply

\* Every hint that the driver accepts or infers moves the current phase exactly
\* once and in one step, and nothing else moves it.
THEOREM HintsTakeEffectOnce == Spec => TakesEffectOnce
<1>1. Init => Register!Init
  BY DEF Init, Register!Init
<1> QED
  BY <1>1, StepRefines, TypeCorrect, Validated, PTL
  DEF Spec, TakesEffectOnce, Register!Spec

-----------------------------------------------------------------------------
(* The tuning surface.                                                     *)

\* The attributes take no part in the driver's steps, and the driver takes none in theirs.
LEMMA TuningIsDriver == TuningSpec => Spec
<1>1. TuningInit => Init
  BY DEF TuningInit
<1>2. [TuningNext]_<<vars, sysfs_vars>> => [Next]_vars
  BY DEF TuningNext
<1> QED  BY <1>1, <1>2, PTL DEF TuningSpec, Spec

\* Hence, with the tuning surface in place, every hint still moves the current phase
\* exactly once, and no store to it moves the phase (mem_hint_sysfs.c).
THEOREM TunedHintsTakeEffectOnce == TuningSpec => TakesEffectOnce
BY TuningIsDriver, HintsTakeEffectOnce, PTL
=============================================================================
