---------------------------- MODULE MemHintHooks ----------------------------
(***************************************************************************)
(* The runtime hooks: how an inference or training process announces its   *)
(* phases through one MemHintScheduler inside a `with' block.              *)
(*                                                                         *)
(* The vLLM hook runs as tasks of one event loop: generate and _run_engine *)
(* change places only where they await.  The TensorRT and the training     *)
(* hook are straight sequences of announcements.  One thread calls the     *)
(* scheduler, so that a call is one step (MemHintScheduler has the steps   *)
(* of several threads): it tells the driver, or raises, as when the device *)
(* cannot be opened, and ends the caller there.                            *)
(***************************************************************************)
EXTENDS MemHintTypes, Sequences

CONSTANTS
  Requests,    \* The calls of generate.
  Engines,     \* The calls of _run_engine.
  TokenSteps   \* How often _run_engine announces decode.

ASSUME HooksAssumption == Requests \cap Engines = {} /\ TokenSteps \in Nat \ {0}

Tasks == Requests \cup Engines
Hooks == {"vllm", "tensorrt", "training"}

\* What the sequential hooks announce, in turn; the vLLM hook has tasks instead.
Script(h) ==
  CASE h = "tensorrt" -> <<PHASE_PREFILL, PHASE_DECODE, PHASE_IDLE>>
    [] h = "training" -> <<PHASE_FORWARD, PHASE_BACKWARD, PHASE_FORWARD, PHASE_BACKWARD,
                           PHASE_IDLE>>
    [] h = "vllm"     -> <<>>

VARIABLES
  hook,      \* The hook that the process uses.
  pc,        \* Where each task is.
  tokens,    \* How often each engine has announced decode.
  pending,   \* The requests in the queue of the engine object.
  script,    \* What a sequential hook has still to announce.
  told,      \* The phase that the driver was told last by this process.
  block,     \* The `with' block: inside, left with the client closed, or left by an
             \* exception of __exit__.
  raised     \* History: whether a call raised after the last one that told idle.

vars == <<hook, pc, tokens, pending, script, told, block, raised>>

Init ==
  /\ hook \in Hooks
  /\ pc = [t \in Tasks |-> "new"]
  /\ tokens = [e \in Engines |-> 0]
  /\ pending = {}
  /\ script = Script(hook)
  /\ told = PHASE_IDLE
  /\ block = "inside"
  /\ raised = FALSE

Goto(t, there) == pc' = [pc EXCEPT ![t] = there]

\* A call of the scheduler that returns, and one that raises.
Announce(phase) == /\ told' = phase
                   /\ raised' = (raised /\ phase # PHASE_IDLE)
Fail == raised' = TRUE /\ UNCHANGED told

\* A task's call: it goes on, or the exception ends it.
TaskCall(t, phase, there) == \/ Announce(phase) /\ Goto(t, there)
                             \/ Fail /\ Goto(t, "ended")

-----------------------------------------------------------------------------
(* The vLLM hook.                                                          *)

MayRun == hook = "vllm" /\ block = "inside"

\* generate up to its await: prefill is announced, then the request is queued.
GenerateStart(r) ==
  /\ MayRun
  /\ pc[r] = "new"
  /\ \/ /\ Announce(PHASE_PREFILL)
        /\ pending' = pending \cup {r}
        /\ Goto(r, "waiting")
     \/ Fail /\ Goto(r, "ended") /\ UNCHANGED pending
  /\ UNCHANGED <<hook, tokens, script, block>>

\* Mutant: every request that returns announces idle.
GenerateReturnMutAlwaysIdle(r) ==
  /\ MayRun
  /\ pc[r] = "waiting"
  /\ TaskCall(r, PHASE_IDLE, "ended")
  /\ UNCHANGED <<hook, tokens, pending, script, block>>

\* generate after its await: idle, if the queue is empty by now.
GenerateReturn(r) ==
  /\ MayRun
  /\ pc[r] = "waiting"
  /\ \/ pending = {} /\ TaskCall(r, PHASE_IDLE, "ended")
     \/ pending # {} /\ Goto(r, "ended") /\ UNCHANGED <<told, raised>>
  /\ UNCHANGED <<hook, tokens, pending, script, block>>

\* _run_engine from one await to the next: decode for every token.
EngineStep(e) ==
  /\ MayRun
  /\ pc[e] \in {"new", "waiting"}
  /\ tokens[e] < TokenSteps
  /\ TaskCall(e, PHASE_DECODE, "waiting")
  /\ tokens' = [tokens EXCEPT ![e] = @ + 1]
  /\ UNCHANGED <<hook, pending, script, block>>

\* Mutant: idle is left to the requests that find the queue empty.
EngineEndMutSilent(e) ==
  /\ MayRun
  /\ pc[e] = "waiting"
  /\ tokens[e] = TokenSteps
  /\ pending' = {}
  /\ Goto(e, "ended")
  /\ UNCHANGED <<hook, tokens, script, told, block, raised>>

\* After the last token the whole queue is dropped, also requests that came during
\* the run and are still waiting, and idle announced.
EngineEnd(e) ==
  /\ MayRun
  /\ pc[e] = "waiting"
  /\ tokens[e] = TokenSteps
  /\ pending' = {}
  /\ TaskCall(e, PHASE_IDLE, "ended")
  /\ UNCHANGED <<hook, tokens, script, block>>

-----------------------------------------------------------------------------
(* The sequential hooks, and the end of the `with' block of all three.     *)

\* The next announcement; an exception, of the call or of the work, ends the body.
NextPhase ==
  /\ block = "inside"
  /\ script # <<>>
  /\ \/ Announce(Head(script)) /\ script' = Tail(script)
     \/ Fail /\ script' = <<>>
  /\ UNCHANGED <<hook, pc, tokens, pending, block>>

\* Mutant: the client is closed whatever becomes of the idle hint (try and finally).
LeaveMutFinally ==
  /\ block = "inside"
  /\ script = <<>> /\ \A t \in Tasks : pc[t] # "waiting"
  /\ Announce(PHASE_IDLE) \/ Fail
  /\ block' = "closed"
  /\ UNCHANGED <<hook, pc, tokens, pending, script>>

\* Once the body is done, __exit__ announces idle and closes the client; when the
\* idle hint raises, it closes nothing.
Leave ==
  /\ block = "inside"
  /\ script = <<>> /\ \A t \in Tasks : pc[t] # "waiting"
  /\ \/ Announce(PHASE_IDLE) /\ block' = "closed"
     \/ Fail /\ block' = "raised"
  /\ UNCHANGED <<hook, pc, tokens, pending, script>>

Next == \/ \E r \in Requests : GenerateStart(r) \/ GenerateReturn(r)
        \/ \E e \in Engines : EngineStep(e) \/ EngineEnd(e)
        \/ NextPhase \/ Leave

Spec == Init /\ [][Next]_vars

-----------------------------------------------------------------------------

\* Type invariant.
TypeOK ==
  /\ hook \in Hooks
  /\ pc \in [Tasks -> {"new", "waiting", "ended"}]
  /\ tokens \in [Engines -> 0..TokenSteps]
  /\ pending \in SUBSET Requests
  /\ script \in Seq(PhaseIds)
  /\ told \in PhaseIds
  /\ block \in {"inside", "closed", "raised"}
  /\ raised \in BOOLEAN

\* on_idle is "called when no requests are queued": however requests and engines take
\* turns and whatever raises, idle is never the last word while a request is queued.
QueueIsNeverIdle ==
  (block = "inside" /\ pending # {}) => told \in {PHASE_PREFILL, PHASE_DECODE}

\* When nothing is under way and the queue is empty, the driver has been told idle,
\* whichever task ended last: the idle of a request that outlives its engine and the
\* idle of the engine leave no gap, unless a call raised since.
DrainedIsIdle ==
  (hook = "vllm" /\ pending = {} /\ ~raised /\ \A t \in Tasks : pc[t] # "waiting")
    => told = PHASE_IDLE

\* A process that closed the device has told it idle: no working phase is left behind
\* by a hook whose body was ended by an exception.
ClosedMeansIdle == block = "closed" => told = PHASE_IDLE
=============================================================================
