------------------------- MODULE MemHintHooksProofs -------------------------
(***************************************************************************)
(* Proofs about the runtime hooks, for any number of requests, engines and *)
(* tokens.  QueueIsNeverIdle needs the fact that only the vLLM hook has a  *)
(* queue and only the other two have a script: the three programs never    *)
(* run in one process.                                                     *)
(***************************************************************************)
EXTENDS MemHintHooks, TLAPS

Separate == IF hook = "vllm" THEN script = <<>> ELSE pending = {}

HooksInv == TypeOK /\ Separate /\ QueueIsNeverIdle /\ DrainedIsIdle /\ ClosedMeansIdle

-----------------------------------------------------------------------------
(* Facts about the phases and the scripts.                                 *)

\* The phases are told apart by their numbers.
LEMMA PhaseFacts ==
  /\ {PHASE_PREFILL, PHASE_DECODE, PHASE_IDLE, PHASE_FORWARD, PHASE_BACKWARD} \subseteq PhaseIds
  /\ PHASE_IDLE \notin {PHASE_PREFILL, PHASE_DECODE}
BY DEF PhaseIds, PHASE_PREFILL, PHASE_DECODE, PHASE_AGENTIC, PHASE_IDLE, PHASE_FORWARD,
       PHASE_BACKWARD

\* A script is a sequence of phases, and the vLLM hook has none.
LEMMA Scripts ==
  /\ \A h \in Hooks : Script(h) \in Seq(PhaseIds)
  /\ Script("vllm") = <<>>
<1>1. <<PHASE_PREFILL, PHASE_DECODE, PHASE_IDLE>> \in Seq(PhaseIds)
  BY PhaseFacts
<1>2. <<PHASE_FORWARD, PHASE_BACKWARD, PHASE_FORWARD, PHASE_BACKWARD, PHASE_IDLE>>
        \in Seq(PhaseIds)
  BY PhaseFacts
<1>3. <<>> \in Seq(PhaseIds)
  OBVIOUS
<1> QED  BY <1>1, <1>2, <1>3 DEF Hooks, Script

-----------------------------------------------------------------------------
(* The invariant.                                                          *)

LEMMA InitHolds == Init => HooksInv
<1> SUFFICES ASSUME Init PROVE HooksInv  OBVIOUS
<1>1. TypeOK
  <2>1. tokens \in [Engines -> 0..TokenSteps]
    BY HooksAssumption DEF Init
  <2>2. script \in Seq(PhaseIds)
    BY Scripts DEF Init
  <2>3. pending \in SUBSET Requests /\ told \in PhaseIds
    BY PhaseFacts DEF Init
  <2> QED  BY <2>1, <2>2, <2>3 DEF Init, TypeOK
<1>2. Separate
  BY Scripts DEF Init, Separate
<1> QED  BY <1>1, <1>2 DEF Init, HooksInv, QueueIsNeverIdle, DrainedIsIdle, ClosedMeansIdle

\* Neither a call that returns nor one that raises puts a variable out of its type.
LEMMA CallTypes ==
  ASSUME told \in PhaseIds, raised \in BOOLEAN, NEW phase \in PhaseIds, Announce(phase) \/ Fail
  PROVE  told' \in PhaseIds /\ raised' \in BOOLEAN
BY DEF Announce, Fail

LEMMA StepTypes == TypeOK /\ [Next]_vars => TypeOK'
<1> SUFFICES ASSUME TypeOK, [Next]_vars PROVE TypeOK'  OBVIOUS
<1> USE PhaseFacts
<1>1. ASSUME NEW r \in Requests, GenerateStart(r) PROVE TypeOK'
  BY <1>1, CallTypes DEF TypeOK, GenerateStart, Goto, MayRun, Tasks, Announce, Fail
<1>2. ASSUME NEW r \in Requests, GenerateReturn(r) PROVE TypeOK'
  BY <1>2, CallTypes DEF TypeOK, GenerateReturn, TaskCall, Goto, Tasks, Announce, Fail
<1>3. ASSUME NEW e \in Engines, EngineStep(e) PROVE TypeOK'
  <2>1. tokens' \in [Engines -> 0..TokenSteps]
    BY <1>3, HooksAssumption DEF TypeOK, EngineStep
  <2> QED  BY <2>1, <1>3 DEF TypeOK, EngineStep, TaskCall, Goto, Tasks, Announce, Fail
<1>4. ASSUME NEW e \in Engines, EngineEnd(e) PROVE TypeOK'
  BY <1>4 DEF TypeOK, EngineEnd, TaskCall, Goto, Tasks, Announce, Fail
<1>5. CASE NextPhase
  <2>1. Head(script) \in PhaseIds /\ Tail(script) \in Seq(PhaseIds) /\ <<>> \in Seq(PhaseIds)
    BY <1>5 DEF TypeOK, NextPhase
  <2> QED  BY <2>1, <1>5 DEF TypeOK, NextPhase, Announce, Fail
<1>6. CASE Leave
  BY <1>6 DEF TypeOK, Leave, Announce, Fail
<1>7. CASE UNCHANGED vars
  BY <1>7 DEF TypeOK, vars
<1> QED  BY <1>1, <1>2, <1>3, <1>4, <1>5, <1>6, <1>7 DEF Next

LEMMA StepHolds == HooksInv /\ [Next]_vars => HooksInv'
<1> SUFFICES ASSUME HooksInv, [Next]_vars PROVE HooksInv'  OBVIOUS
<1> USE PhaseFacts DEF HooksInv
<1> DEFINE Rest == Separate' /\ QueueIsNeverIdle' /\ DrainedIsIdle' /\ ClosedMeansIdle'
<1> SUFFICES Rest
  BY StepTypes
<1>1. ASSUME NEW r \in Requests, GenerateStart(r) PROVE Rest
  <2>1. CASE Announce(PHASE_PREFILL) /\ pending' = pending \cup {r}
    BY <2>1, <1>1 DEF GenerateStart, MayRun, Announce, Separate, QueueIsNeverIdle,
                      DrainedIsIdle, ClosedMeansIdle
  <2>2. CASE Fail /\ UNCHANGED pending
    BY <2>2, <1>1 DEF GenerateStart, MayRun, Fail, Separate, QueueIsNeverIdle,
                      DrainedIsIdle, ClosedMeansIdle
  <2> QED  BY <2>1, <2>2, <1>1 DEF GenerateStart
<1>2. ASSUME NEW r \in Requests, GenerateReturn(r) PROVE Rest
  <2>1. CASE pending = {}
    BY <2>1, <1>2 DEF GenerateReturn, TaskCall, MayRun, Announce, Fail, Separate,
                      QueueIsNeverIdle, DrainedIsIdle, ClosedMeansIdle
  <2>2. CASE pending # {}
    BY <2>2, <1>2 DEF GenerateReturn, MayRun, Separate, QueueIsNeverIdle, DrainedIsIdle,
                      ClosedMeansIdle
  <2> QED  BY <2>1, <2>2
<1>3. ASSUME NEW e \in Engines, EngineStep(e) PROVE Rest
  <2>1. CASE Announce(PHASE_DECODE) /\ Goto(e, "waiting")
    <3>1. e \in Tasks /\ pc'[e] = "waiting"
      BY <2>1 DEF Goto, TypeOK, Tasks
    <3> QED  BY <3>1, <2>1, <1>3 DEF EngineStep, MayRun, Announce, Separate, QueueIsNeverIdle,
                                     DrainedIsIdle, ClosedMeansIdle
  <2>2. CASE Fail
    BY <2>2, <1>3 DEF EngineStep, MayRun, Fail, Separate, QueueIsNeverIdle, DrainedIsIdle,
                      ClosedMeansIdle
  <2> QED  BY <2>1, <2>2, <1>3 DEF EngineStep, TaskCall
<1>4. ASSUME NEW e \in Engines, EngineEnd(e) PROVE Rest
  BY <1>4 DEF EngineEnd, TaskCall, MayRun, Announce, Fail, Separate, QueueIsNeverIdle,
              DrainedIsIdle, ClosedMeansIdle
<1>5. CASE NextPhase
  <2>1. hook # "vllm" /\ pending = {}
    BY <1>5 DEF NextPhase, Separate
  <2>2. hook' # "vllm" /\ pending' = {} /\ block' # "closed"
    BY <2>1, <1>5 DEF NextPhase
  <2> QED  BY <2>2 DEF Separate, QueueIsNeverIdle, DrainedIsIdle, ClosedMeansIdle
<1>6. CASE Leave
  BY <1>6 DEF Leave, Announce, Fail, Separate, QueueIsNeverIdle, DrainedIsIdle, ClosedMeansIdle
<1>7. CASE UNCHANGED vars
  BY <1>7 DEF vars, Separate, QueueIsNeverIdle, DrainedIsIdle, ClosedMeansIdle
<1> QED  BY <1>1, <1>2, <1>3, <1>4, <1>5, <1>6, <1>7 DEF Next

\* The parts of the invariant hold together in every reachable state.
LEMMA InvHolds == Spec => []HooksInv
BY InitHolds, StepHolds, PTL DEF Spec

-----------------------------------------------------------------------------
(* The theorems.                                                           *)

\* Type correctness of the hooks (vllm_hook.py, tensorrt_hook.py, training_hook.py).
THEOREM TypeCorrect == Spec => []TypeOK
<1>1. HooksInv => TypeOK
  BY DEF HooksInv
<1> QED  BY InvHolds, <1>1, PTL

\* Idle is never the driver's last word while the vLLM hook has a request queued.
THEOREM NeverIdleWhileQueued == Spec => []QueueIsNeverIdle
<1>1. HooksInv => QueueIsNeverIdle
  BY DEF HooksInv
<1> QED  BY InvHolds, <1>1, PTL

\* Once the vLLM hook has nothing under way, the driver knows that it is idle,
\* whichever of generate and _run_engine ended last.
THEOREM IdleOnceDrained == Spec => []DrainedIsIdle
<1>1. HooksInv => DrainedIsIdle
  BY DEF HooksInv
<1> QED  BY InvHolds, <1>1, PTL

\* No hook closes the device (__exit__) on a phase other than idle.
THEOREM IdleWhenClosed == Spec => []ClosedMeansIdle
<1>1. HooksInv => ClosedMeansIdle
  BY DEF HooksInv
<1> QED  BY InvHolds, <1>1, PTL

-----------------------------------------------------------------------------
(* The order of a script.                                                  *)

\* The phase that comes before the n-th of the script of a hook.
Before(h, n) == IF n = 1 THEN PHASE_IDLE ELSE Script(h)[n - 1]

\* While a script has a rest, that is the rest of the hook's script from some phase on,
\* and the one before that phase was told last: no exception was survived so far.
Remains ==
  (script # <<>>) =>
    \E n \in 1..Len(Script(hook)) :
      /\ Len(script) = Len(Script(hook)) - (n - 1)
      /\ \A i \in 1..Len(script) : script[i] = Script(hook)[n - 1 + i]
      /\ told = Before(hook, n)

\* A sequential hook announces its phases one after the other: each is told only right
\* after the one before it, so that there is no backward pass without its forward pass
\* and no decode without its prefill, and an exception leads to idle and to nothing else
\* (tensorrt_hook.py, training_hook.py).
ScriptInTurn ==
  [][(hook # "vllm" /\ told' # told) =>
       \/ told' = PHASE_IDLE
       \/ \E n \in 1..Len(Script(hook)) : /\ told' = Script(hook)[n]
                                          /\ told = Before(hook, n)]_vars

LEMMA RemainsHolds == Spec => []Remains
<1>1. Init => Remains
  <2> SUFFICES ASSUME Init, script # <<>> PROVE Remains
    BY DEF Remains
  <2>1. script = Script(hook) /\ told = PHASE_IDLE /\ script \in Seq(PhaseIds)
    BY Scripts DEF Init
  <2> DEFINE s == Script(hook)
  <2>2. s \in Seq(PhaseIds) /\ s # <<>> /\ script = s
    BY <2>1
  <2> HIDE DEF s
  <2>3. 1 \in 1..Len(s) /\ Len(script) = Len(s) - (1 - 1)
        /\ \A i \in 1..Len(script) : script[i] = s[1 - 1 + i]
    BY <2>2
  <2>4. told = Before(hook, 1)
    BY <2>1 DEF Before
  <2> QED  BY <2>3, <2>4 DEF Remains, s
<1>2. HooksInv /\ Remains /\ [Next]_vars => Remains'
  <2> SUFFICES ASSUME HooksInv, Remains, [Next]_vars, script' # <<>> PROVE Remains'
    BY DEF Remains
  <2>1. script # <<>> /\ hook' = hook
    BY DEF Next, GenerateStart, GenerateReturn, EngineStep, EngineEnd, NextPhase, Leave, vars
  <2>2. NextPhase \/ UNCHANGED <<script, told>>
    BY <2>1 DEF HooksInv, Separate, Next, GenerateStart, GenerateReturn, EngineStep, EngineEnd,
                NextPhase, Leave, MayRun, TypeOK, vars
  <2>3. CASE UNCHANGED <<script, told>>
    BY <2>1, <2>3 DEF Remains
  <2>4. CASE NextPhase
    <3>1. told' = Head(script) /\ script' = Tail(script)
      BY <2>4 DEF NextPhase, Announce
    <3> DEFINE s == Script(hook)
    <3>2. PICK n \in 1..Len(s) : /\ Len(script) = Len(s) - (n - 1)
                                 /\ \A i \in 1..Len(script) : script[i] = s[n - 1 + i]
      BY <2>1 DEF Remains
    <3>3. script \in Seq(PhaseIds) /\ s \in Seq(PhaseIds)
      BY Scripts DEF HooksInv, TypeOK
    <3> HIDE DEF s
    <3>4. /\ Len(script') = Len(s) - ((n + 1) - 1) /\ n + 1 \in 1..Len(s)
          /\ \A i \in 1..Len(script') : script'[i] = s[(n + 1) - 1 + i]
          /\ told' = s[(n + 1) - 1]
      <4>1. Len(script) # 0 /\ Len(script') = Len(script) - 1 /\ Len(script') # 0
        BY <2>1, <3>1, <3>3
      <4>2. \A i \in 1..Len(script') : script'[i] = script[i + 1]
        BY <2>1, <3>1, <3>3
      <4>3. told' = script[1]
        BY <3>1
      <4>4. Len(script) \in Nat /\ Len(s) \in Nat
        BY <3>3
      <4>5. \A i \in 1..Len(script') : i + 1 \in 1..Len(script)
        BY <4>1, <4>4
      <4>6. \A i \in 1..Len(script') : script'[i] = s[(n + 1) - 1 + i]
        <5>1. \A i \in 1..Len(script') : n - 1 + (i + 1) = (n + 1) - 1 + i
          BY <4>4
        <5> QED  BY <3>2, <4>2, <4>5, <5>1
      <4>7. told' = s[(n + 1) - 1]
        <5>1. 1 \in 1..Len(script) /\ n - 1 + 1 = (n + 1) - 1
          BY <4>1, <4>4
        <5> QED  BY <3>2, <4>3, <5>1
      <4>8. Len(script') = Len(s) - ((n + 1) - 1) /\ n + 1 \in 1..Len(s)
        BY <3>2, <4>1, <4>4
      <4> QED  BY <4>6, <4>7, <4>8
    <3>5. told' = Before(hook, n + 1)
      BY <3>4 DEF Before, s
    <3>6. hook' = hook
      BY <2>1
    <3> QED  BY <3>4, <3>5, <3>6 DEF Remains, s
  <2> QED  BY <2>2, <2>3, <2>4
<1> QED  BY <1>1, <1>2, InvHolds, PTL DEF Spec

THEOREM ScriptsInTurn == Spec => ScriptInTurn
<1>1. HooksInv /\ Remains /\ [Next]_vars =>
        [(hook # "vllm" /\ told' # told) =>
           \/ told' = PHASE_IDLE
           \/ \E n \in 1..Len(Script(hook)) : /\ told' = Script(hook)[n]
                                              /\ told = Before(hook, n)]_vars
  <2> SUFFICES ASSUME HooksInv, Remains, Next, hook # "vllm", told' # told
               PROVE  \/ told' = PHASE_IDLE
                      \/ \E n \in 1..Len(Script(hook)) : /\ told' = Script(hook)[n]
                                                         /\ told = Before(hook, n)
    OBVIOUS
  <2>1. NextPhase \/ told' = PHASE_IDLE
    BY DEF Next, GenerateStart, GenerateReturn, EngineStep, EngineEnd, MayRun, Leave, Announce,
           Fail
  <2>2. CASE NextPhase
    <3>1. script # <<>> /\ told' = Head(script)
      BY <2>2 DEF NextPhase, Announce, Fail
    <3>2. script \in Seq(PhaseIds)
      BY DEF HooksInv, TypeOK
    <3>3. told' = script[1] /\ 1 \in 1..Len(script)
      BY <3>1, <3>2
    <3>4. PICK n \in 1..Len(Script(hook)) :
            /\ \A i \in 1..Len(script) : script[i] = Script(hook)[n - 1 + i]
            /\ told = Before(hook, n)
      BY <3>1 DEF Remains
    <3>5. n - 1 + 1 = n
      OBVIOUS
    <3> QED  BY <3>3, <3>4, <3>5
  <2> QED  BY <2>1, <2>2
<1> QED  BY <1>1, InvHolds, RemainsHolds, PTL DEF Spec, ScriptInTurn
=============================================================================
