---------------------------- MODULE HintDelivery ----------------------------
(***************************************************************************)
(* What a caller of the scheduler may rely on, without locks, descriptors  *)
(* or the close: a call announces one phase, and the driver is told that   *)
(* phase once, in one step, or never.  Nothing else tells the driver       *)
(* anything.  A caller has at most one hint under way.                     *)
(***************************************************************************)
CONSTANTS
  Callers,   \* The threads that share the scheduler.
  Phases,    \* The phases they announce.
  NoPhase    \* Not a phase: nothing told, or nothing under way.

VARIABLES
  told,      \* The phase that the driver was told last.
  pending    \* The hint under way of each caller.

vars == <<told, pending>>

Init == /\ told = NoPhase
        /\ pending = [c \in Callers |-> NoPhase]

Begin(c) == /\ pending[c] = NoPhase
            /\ \E p \in Phases : pending' = [pending EXCEPT ![c] = p]
            /\ UNCHANGED told

Tell(c) == /\ pending[c] # NoPhase
           /\ told' = pending[c]
           /\ pending' = [pending EXCEPT ![c] = NoPhase]

\* A dry run, a client that was closed meanwhile, an exception.
Lose(c) == /\ pending[c] # NoPhase
           /\ pending' = [pending EXCEPT ![c] = NoPhase]
           /\ UNCHANGED told

Next == \E c \in Callers : Begin(c) \/ Tell(c) \/ Lose(c)

Spec == Init /\ [][Next]_vars
=============================================================================
