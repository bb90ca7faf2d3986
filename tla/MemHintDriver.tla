--------------------------- MODULE MemHintDriver ---------------------------
(***************************************************************************)
(* The hint path of the loaded kernel module.  Threads write hints to      *)
(* /dev/mem_hint, the PMU timer infers hints of its own, and both apply    *)
(* them through mem_hint_apply, which takes no lock: it sends the encoded  *)
(* hint over whichever hardware channel is selected at that instant, then  *)
(* publishes the phase, then logs the limited operating point.  Root    *)
(* changes the module's parameters at any time.                            *)
(*                                                                         *)
(* A step is one access to state that others touch.  The rule of the       *)
(* classifier that reads two thresholds reads them in one step: the sample *)
(* of collect_pmu_sample is constant and fails that rule before it reads   *)
(* either.                                                                 *)
(***************************************************************************)
EXTENDS PmuClassifier, HintWire

CONSTANTS
  Writers,        \* The threads that write to the device.
  Timer,          \* The PMU timer.
  WriteHints,     \* The records that are written, valid ones and others.
  ThresholdSettings,  \* What root stores: pairs of a threshold and a value.
  ChannelValues,  \* What root stores into active_channel.
  PmuSample,      \* The counters collect_pmu_sample returns.
  RealHw,         \* MEM_HINT_REAL_HW: whether the build writes the MSR.
  NoWord          \* Not a word: the MSR has not been written.

CH_MSR       == 0
CH_MMIO      == 1
CH_CXL_DVSEC == 2

ASSUME AgentsAssumption == Timer \notin Writers
ASSUME InputsAssumption ==
  /\ WriteHints \subseteq mem_workload_hint
  /\ \A st \in ThresholdSettings : /\ st.name \in ThresholdNames
                                   /\ st.value \in 0..(U32 - 1)
  /\ ChannelValues \subseteq Int
  /\ PmuSample \in pmu_sample
  /\ RealHw \in BOOLEAN
  /\ NoWord \notin HintWord

Agents == Writers \cup {Timer}

VARIABLES
  current_phase_id,  \* The phase that the status file reports.
  active_channel,    \* Module parameter: the selected channel.
  thresholds,        \* Module parameters of the classifier.
  pmu_last_phase,    \* The last phase the classifier settled on.
  msr,               \* The hardware's hint register.
  pc,                \* Where each agent is.
  hint,              \* The hint each agent is applying (its stack frame).
  rule,              \* The rule the running tick tries next.
  stable,            \* Auxiliary: no threshold changed since the last tick began.
  unison             \* Auxiliary: the latest dispatch reached the MSR, and no
                     \* other agent was between dispatch and publication.

globals == <<current_phase_id, active_channel, thresholds, pmu_last_phase, msr>>
vars == <<globals, pc, hint, rule, stable, unison>>

NoHint == [phase_id |-> 0, latency_target_ns |-> 0, bw_target_gbps |-> 0,
           security_level |-> 0, priority |-> 0, reserved |-> 0]

\* Mutant: the operating point is not limited.
ClampedMutRaw(h) == phase_to_phy_config(h.phase_id, h.priority)

\* The two locals mem_hint_apply computes on entry: the limited operating point
\* and the word.  Nothing ever writes ecc_state, so its error rate is 0.
Clamped(h) == safety_clamp(phase_to_phy_config(h.phase_id, h.priority),
                           platform_limits, 0, h.security_level)

Init ==
  /\ current_phase_id = PHASE_IDLE
  /\ active_channel = CH_MSR
  /\ thresholds = DefaultThresholds
  /\ pmu_last_phase = PHASE_IDLE
  /\ msr = NoWord
  /\ pc = [a \in Agents |-> "idle"]
  /\ hint = [a \in Agents |-> NoHint]
  /\ rule = 1
  /\ stable = FALSE
  /\ unison = FALSE

-----------------------------------------------------------------------------
(* mem_hint_write *)

ValidPhase(h) == h.phase_id \in PhaseIds

\* A short write, a buffer that cannot be read and a phase that does not exist
\* are refused before anything is touched; only the error code differs.
RejectWrite(w) ==
  /\ pc[w] = "idle"
  /\ \E h \in WriteHints : ~ValidPhase(h)
  /\ UNCHANGED vars

\* Mutant: the priority is not cut.
AcceptWriteMutNoCut(w) ==
  /\ pc[w] = "idle"
  /\ \E h \in WriteHints : ValidPhase(h) /\ hint' = [hint EXCEPT ![w] = h]
  /\ pc' = [pc EXCEPT ![w] = "dispatch"]
  /\ UNCHANGED <<globals, rule, stable, unison>>

\* Mutant: the phase is published on acceptance, and again when it is applied.
AcceptWriteMutEarly(w) ==
  /\ pc[w] = "idle"
  /\ \E h \in WriteHints :
       /\ ValidPhase(h)
       /\ hint' = [hint EXCEPT ![w] = [h EXCEPT !.priority = Smaller(@, 7)]]
       /\ current_phase_id' = h.phase_id
  /\ pc' = [pc EXCEPT ![w] = "dispatch"]
  /\ UNCHANGED <<active_channel, thresholds, pmu_last_phase, msr,
                 rule, stable, unison>>

\* The hint is copied once and validated; an excessive priority is cut to 7.
AcceptWrite(w) ==
  /\ pc[w] = "idle"
  /\ \E h \in WriteHints :
       /\ ValidPhase(h)
       /\ hint' = [hint EXCEPT ![w] = [h EXCEPT !.priority = Smaller(@, 7)]]
  /\ pc' = [pc EXCEPT ![w] = "dispatch"]
  /\ UNCHANGED <<globals, rule, stable, unison>>

-----------------------------------------------------------------------------
(* pmu_timer_callback *)

\* The timer fires and takes a sample.
Tick ==
  /\ pc[Timer] = "idle"
  /\ pc' = [pc EXCEPT ![Timer] = "classify"]
  /\ rule' = 1
  /\ stable' = TRUE
  /\ UNCHANGED <<globals, hint, unison>>

\* A rule that does not match hands over to the next one.
RuleFails ==
  /\ pc[Timer] = "classify"
  /\ rule \in Rules
  /\ ~RuleMatches(rule, PmuSample, thresholds)
  /\ rule' = rule + 1
  /\ UNCHANGED <<globals, pc, hint, stable, unison>>

\* The sample is classified: by the rule that matches, or, past the last rule,
\* as the phase before.  Only a new phase is applied; otherwise the tick is over.
Settle ==
  /\ pc[Timer] = "classify"
  /\ rule \in Rules => RuleMatches(rule, PmuSample, thresholds)
  /\ LET phase == IF rule \in Rules THEN RulePhase(rule) ELSE pmu_last_phase
     IN  IF phase # pmu_last_phase
         THEN /\ hint' = [hint EXCEPT ![Timer] = phase_to_hint(phase)]
              /\ pc' = [pc EXCEPT ![Timer] = "dispatch"]
         ELSE /\ pc' = [pc EXCEPT ![Timer] = "idle"]
              /\ UNCHANGED hint
  /\ rule' = 1
  /\ UNCHANGED <<globals, stable, unison>>

-----------------------------------------------------------------------------
(* mem_hint_apply *)

\* Mutant: the apply path waits until the channel that works is selected.
DispatchMutWaits(a) ==
  /\ pc[a] = "dispatch"
  /\ active_channel = CH_MSR /\ RealHw
  /\ msr' = encode_hint(hint[a])
  /\ unison' = \A b \in Agents \ {a} : pc[b] # "publish"
  /\ pc' = [pc EXCEPT ![a] = "publish"]
  /\ UNCHANGED <<current_phase_id, active_channel, thresholds, pmu_last_phase,
                 hint, rule, stable>>

\* The switch over active_channel.  Only the MSR case of a MEM_HINT_REAL_HW build
\* reaches hardware: the MMIO window is never mapped, the DVSEC case is a stub,
\* and any other value is ignored.
Dispatch(a) ==
  /\ pc[a] = "dispatch"
  /\ msr' = IF active_channel = CH_MSR /\ RealHw THEN encode_hint(hint[a]) ELSE msr
  /\ unison' = /\ active_channel = CH_MSR /\ RealHw
               /\ \A b \in Agents \ {a} : pc[b] # "publish"
  /\ pc' = [pc EXCEPT ![a] = "publish"]
  /\ UNCHANGED <<current_phase_id, active_channel, thresholds, pmu_last_phase,
                 hint, rule, stable>>

\* atomic_set(&current_phase_id, ...)
Publish(a) ==
  /\ pc[a] = "publish"
  /\ current_phase_id' = hint[a].phase_id
  /\ pc' = [pc EXCEPT ![a] = "report"]
  /\ UNCHANGED <<active_channel, thresholds, pmu_last_phase, msr,
                 hint, rule, stable, unison>>

\* Mutant: the timer forgets the phase it applied.
ReturnMutForgets(a) ==
  /\ pc[a] = "report"
  /\ pc' = [pc EXCEPT ![a] = "idle"]
  /\ hint' = [hint EXCEPT ![a] = NoHint]
  /\ UNCHANGED <<globals, rule, stable, unison>>

\* The log line, the return to the caller, and what is left of the caller: the
\* timer remembers the phase it applied.
Return(a) ==
  /\ pc[a] = "report"
  /\ pmu_last_phase' = IF a = Timer THEN hint[a].phase_id ELSE pmu_last_phase
  /\ pc' = [pc EXCEPT ![a] = "idle"]
  /\ hint' = [hint EXCEPT ![a] = NoHint]
  /\ UNCHANGED <<current_phase_id, active_channel, thresholds, msr,
                 rule, stable, unison>>

-----------------------------------------------------------------------------
(* /sys/module/mem_hint/parameters: stores of any value, at any time.      *)

SetThreshold ==
  /\ \E st \in ThresholdSettings :
       /\ thresholds[st.name] # st.value
       /\ thresholds' = [thresholds EXCEPT ![st.name] = st.value]
  /\ stable' = FALSE
  /\ UNCHANGED <<current_phase_id, active_channel, pmu_last_phase, msr,
                 pc, hint, rule, unison>>

SetChannel ==
  /\ active_channel' \in ChannelValues \ {active_channel}
  /\ UNCHANGED <<current_phase_id, thresholds, pmu_last_phase, msr,
                 pc, hint, rule, stable, unison>>

-----------------------------------------------------------------------------

Write(w) == RejectWrite(w) \/ AcceptWrite(w)
Classify == Tick \/ RuleFails \/ Settle
Apply(a) == Dispatch(a) \/ Publish(a) \/ Return(a)

Next == \/ \E w \in Writers : Write(w)
        \/ Classify
        \/ \E a \in Agents : Apply(a)
        \/ SetThreshold
        \/ SetChannel

Spec == Init /\ [][Next]_vars

\* The kernel runs every thread that is inside write(), and the timer re-arms
\* itself on every expiry.  Nothing makes a thread write or root store.
FairSpec == /\ Spec
            /\ \A a \in Agents : WF_vars(Apply(a))
            /\ WF_vars(Classify)

-----------------------------------------------------------------------------
(* Safety.                                                                 *)

AgentStates == {"idle", "classify", "dispatch", "publish", "report"}
Applying(a) == pc[a] \in {"dispatch", "publish", "report"}

\* Type invariant.
TypeOK ==
  /\ current_phase_id \in Byte
  /\ active_channel \in ChannelValues \cup {CH_MSR}
  /\ thresholds \in Thresholds
  /\ pmu_last_phase \in Byte
  /\ msr \in HintWord \cup {NoWord}
  /\ pc \in [Agents -> AgentStates]
  /\ \A w \in Writers : pc[w] # "classify"
  /\ hint \in [Agents -> mem_workload_hint]
  /\ rule \in 1..5
  /\ stable \in BOOLEAN
  /\ unison \in BOOLEAN

\* mem_hint_apply checks nothing, and the timer calls it without the checks of
\* mem_hint_write: still only a phase that exists is ever published, and the
\* register never holds an unknown phase, an excessive priority or a reserved bit.
OnlyValidatedHints ==
  /\ current_phase_id \in PhaseIds
  /\ pmu_last_phase \in PhaseIds
  /\ msr # NoWord => /\ WordPhase(msr) \in PhaseIds
                     /\ WordPriority(msr) <= 7
                     /\ WordReserved(msr) = 0

\* Whatever is written or inferred, the operating point of every hint that is
\* being applied is within the platform's limits, and no faster than nominal when
\* its hint asks for security.
SafeOperatingPoints ==
  \A a \in Agents : Applying(a) =>
    /\ Within(Clamped(hint[a]), platform_limits)
    /\ hint[a].security_level > 0 => Floored(Clamped(hint[a]))

\* A tick reads the thresholds one by one while root may store them.  If none
\* changed since it began, then at every point of the tick the outcome is the
\* one of a classification in a single step, a hint is applied only for a phase
\* that is new, and a finished tick leaves nothing for the next one to do.
TickIsAtomicWhenStable ==
  stable =>
    LET phase == classify_phase(PmuSample, thresholds, pmu_last_phase)
    IN  CASE pc[Timer] = "classify" ->
               ClassifyFrom(rule, PmuSample, thresholds, pmu_last_phase) = phase
          [] pc[Timer] = "idle" -> pmu_last_phase = phase
          [] OTHER -> hint[Timer].phase_id = phase /\ phase # pmu_last_phase

\* The register and the status file agree whenever nobody is between sending
\* and publishing, provided the latest dispatch reached the register and did not
\* overlap another one.
InStep ==
  (unison /\ \A a \in Agents : pc[a] # "publish")
    => msr # NoWord /\ WordPhase(msr) = current_phase_id

\* The hint path implements the abstract register: a submission is under way
\* from its acceptance to its publication.
Register == INSTANCE HintRegister WITH
  Phases     <- PhaseIds,
  StartPhase <- PHASE_IDLE,
  NoPhase    <- 0,
  phase      <- current_phase_id,
  pending    <- [a \in Agents |-> IF pc[a] \in {"dispatch", "publish"}
                                  THEN hint[a].phase_id ELSE 0]

\* Every accepted hint, written or inferred, takes effect exactly once and in
\* one step, and nothing else moves the current phase.
TakesEffectOnce == Register!Spec

-----------------------------------------------------------------------------
(* Liveness, under FairSpec.                                               *)

\* As TakesEffectOnce, and no accepted hint is left without effect.
TakesEffectEventually == Register!FairSpec

ThresholdsSettle == <>[][UNCHANGED thresholds]_thresholds

\* Once root leaves the thresholds alone, the classifier comes to rest on the
\* phase that they give the sample, whatever set of thresholds a tick saw before.
ClassifierSettles ==
  ThresholdsSettle
    => <>[](pc[Timer] \in {"idle", "classify"} =>
              pmu_last_phase = classify_phase(PmuSample, thresholds, pmu_last_phase))

-----------------------------------------------------------------------------
(* What the documentation says of the hint path and the code does not do.  *)

\* The status file follows the hints in lockstep: with one channel and everyone
\* done, it names the phase that the hardware was told last.
StatusInLockstep ==
  (\A a \in Agents : pc[a] = "idle")
    => (msr # NoWord => WordPhase(msr) = current_phase_id)

\* An explicit hint is authoritative: the PMU replaces no phase but its own.
ExplicitIsAuthoritative ==
  [][Publish(Timer) => current_phase_id = pmu_last_phase]_vars

=============================================================================
