---------------------------- MODULE HintRegister ----------------------------
(***************************************************************************)
(* What the hint interface promises, without threads, channels or timers:  *)
(* agents submit a phase each, and every accepted submission takes effect  *)
(* on the current phase exactly once, in one step.  Nothing else moves the *)
(* phase.  An agent has at most one submission under way.                  *)
(***************************************************************************)
CONSTANTS
  Agents,      \* The threads inside write() and the PMU timer.
  Phases,      \* The phases that may be submitted.
  StartPhase,  \* The phase at load.
  NoPhase      \* Not a phase: the agent has nothing under way.

VARIABLES
  phase,       \* The current phase, as the status file reports it.
  pending      \* The submission under way of each agent.

vars == <<phase, pending>>

Init == /\ phase = StartPhase
        /\ pending = [a \in Agents |-> NoPhase]

Submit(a) == /\ pending[a] = NoPhase
             /\ \E p \in Phases : pending' = [pending EXCEPT ![a] = p]
             /\ UNCHANGED phase

Commit(a) == /\ pending[a] # NoPhase
             /\ phase' = pending[a]
             /\ pending' = [pending EXCEPT ![a] = NoPhase]

Next == \E a \in Agents : Submit(a) \/ Commit(a)

Spec == Init /\ [][Next]_vars

\* Every submission takes effect eventually.
FairSpec == Spec /\ \A a \in Agents : WF_vars(Commit(a))
=============================================================================
