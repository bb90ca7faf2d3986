-------------------------- MODULE MemHintScheduler --------------------------
(***************************************************************************)
(* MemHintScheduler, the Python object that the threads of a runtime       *)
(* share, and the MemHintClient it wraps.                                  *)
(*                                                                         *)
(* A call on_X takes the scheduler's lock, sends its hint through the      *)
(* client, lets go of the lock and only then notes the phase.  Leaving the *)
(* `with' block sends the idle hint and closes the client without the      *)
(* lock.  What the client reads and writes, its dry_run, its _fd and the   *)
(* process's descriptor table, changes in the steps in which Python can    *)
(* switch threads.  A hint is reduced to its phase.                        *)
(***************************************************************************)
EXTENDS MemHintTypes, FiniteSets

CONSTANTS
  NoThread,    \* A value that is not a thread.
  Threads,     \* The threads that share the scheduler.
  Phases,      \* The phases they announce.
  Descriptors, \* The descriptors of the process that are of interest.
  MaxCalls     \* How many calls the runtime makes, all threads together.

ASSUME SchedulerAssumption ==
  /\ Threads # {} /\ NoThread \notin Threads
  /\ Phases \subseteq PhaseIds /\ PHASE_IDLE \in Phases
  /\ Descriptors \subseteq Nat \ {0} /\ IsFiniteSet(Descriptors) /\ Descriptors # {}
  /\ MaxCalls \in Nat

None == 0          \* Python's None as a descriptor, and no phase at all.

VARIABLES
  pc,            \* Where each thread is.
  req,           \* The phase that each thread's call announces.
  local_fd,      \* The descriptor that each thread's os.write was called with.
  then,          \* What each thread does after its call: nothing, or the close.
  left,          \* Whether the `with' block was left.
  calls,         \* How many calls have begun.
  lock,          \* The thread that holds _lock, or NoThread.
  _current_phase,
  dry_run,
  _fd,
  table,         \* What each descriptor of the process refers to.
  node,          \* Whether /dev/mem_hint exists.
  device_phase,  \* The phase of the last hint the driver got, None before the first.
  stray,         \* History: whether a hint went to a file that is not the device.
  overlapped,    \* History: whether the last hint got to the driver before the
                 \* phase of an earlier one was noted.
  rushed         \* History: whether a call was under way while the client closed.

vars == <<pc, req, local_fd, then, left, calls, lock, _current_phase, dry_run,
          _fd, table, node, device_phase, stray, overlapped, rushed>>
caller  == <<req, then, left, calls>>
client  == <<dry_run, _fd, local_fd>>
history == <<device_phase, stray, overlapped, rushed>>

\* The descriptor that the system hands out: the lowest that is free.
Free == {n \in Descriptors : table[n] = "free"}
IsNext(n) == n \in Free /\ \A m \in Free : n <= m

\* The constructor: with dry_run, or with a node to open, or without one, which
\* makes it a dry run.
Init ==
  /\ pc = [t \in Threads |-> "idle"]
  /\ req = [t \in Threads |-> PHASE_IDLE]
  /\ local_fd = [t \in Threads |-> None]
  /\ then = [t \in Threads |-> "idle"]
  /\ left = FALSE
  /\ calls = 0
  /\ lock = NoThread
  /\ _current_phase = PHASE_IDLE
  /\ node \in BOOLEAN
  /\ dry_run \in BOOLEAN
  /\ ~dry_run => node
  /\ \E first \in Descriptors :
       /\ \A n \in Descriptors : first <= n
       /\ _fd = IF dry_run THEN None ELSE first
       /\ table = [n \in Descriptors |-> IF ~dry_run /\ n = first THEN "device" ELSE "free"]
  /\ device_phase = None
  /\ stray = FALSE
  /\ overlapped = FALSE
  /\ rushed = FALSE

Goto(t, there) == pc' = [pc EXCEPT ![t] = there]
AllIdle == \A t \in Threads : pc[t] = "idle"
OthersIdle(t) == \A u \in Threads \ {t} : pc[u] = "idle"

-----------------------------------------------------------------------------
(* The calls of the runtime.                                               *)

\* on_prefill_start, on_decode_start, on_tool_call, on_idle, on_forward_pass and
\* on_backward_pass.
BeginCall(t, p) ==
  /\ pc[t] = "idle"
  /\ calls < MaxCalls
  /\ calls' = calls + 1
  /\ req' = [req EXCEPT ![t] = p]
  /\ rushed' = (rushed \/ \E u \in Threads : pc[u] = "unset")
  /\ then' = [then EXCEPT ![t] = "idle"]
  /\ Goto(t, "lock")
  /\ UNCHANGED <<left, lock, _current_phase, client, table, node,
                 device_phase, stray, overlapped>>

\* __exit__ calls on_idle first.
BeginExit(t) ==
  /\ pc[t] = "idle"
  /\ ~left
  /\ left' = TRUE
  /\ then' = [then EXCEPT ![t] = "close"]
  /\ req' = [req EXCEPT ![t] = PHASE_IDLE]
  /\ Goto(t, "lock")
  /\ UNCHANGED <<calls, lock, _current_phase, client, table, node, history>>

\* Mutant: nobody waits for the lock.
AcquireMutNoLock(t) ==
  /\ pc[t] = "lock"
  /\ lock' = t
  /\ Goto(t, "send")
  /\ UNCHANGED <<caller, _current_phase, client, table, node, history>>

Acquire(t) ==
  /\ pc[t] = "lock"
  /\ lock = NoThread
  /\ lock' = t
  /\ Goto(t, "send")
  /\ UNCHANGED <<caller, _current_phase, client, table, node, history>>

\* The client's method returns: the lock is let go of, the phase not yet noted.
Sent(t) == lock' = NoThread /\ Goto(t, "note")

\* Mutant: the lock is taken and let go of by hand, and an exception keeps it.
RaiseMutKeepsLock(t) == UNCHANGED lock /\ Goto(t, "idle")

\* Mutant: the phase is noted also when the client raised (try and finally).
RaiseMutNotes(t) == lock' = NoThread /\ Goto(t, "note")

\* The client raises: `with' lets go of the lock, and the call, or __exit__,
\* ends there.
Raise(t) == lock' = NoThread /\ Goto(t, "idle")

NotePhase(t) ==
  /\ pc[t] = "note"
  /\ _current_phase' = req[t]
  /\ Goto(t, then[t])
  /\ UNCHANGED <<caller, lock, client, table, node, history>>

-----------------------------------------------------------------------------
(* MemHintClient.send, under the lock.                                     *)

\* A dry run is over.  Without a descriptor the node is looked for, and a client
\* that does not find it makes only dry runs from then on.
Look(t) ==
  /\ pc[t] = "send"
  /\ \/ /\ dry_run \/ (_fd = None /\ ~node)
        /\ dry_run' = TRUE
        /\ Sent(t)
     \/ /\ ~dry_run /\ (_fd # None \/ node)
        /\ Goto(t, IF _fd = None THEN "open" ELSE "check")
        /\ UNCHANGED <<dry_run, lock>>
  /\ UNCHANGED <<caller, _current_phase, _fd, local_fd, table, node, history>>

\* os.open, which fails without the privilege and when the node is gone again.
Open(t) ==
  /\ pc[t] = "open"
  /\ \/ /\ node
        /\ \E n \in Descriptors : /\ IsNext(n)
                                  /\ _fd' = n
                                  /\ table' = [table EXCEPT ![n] = "device"]
        /\ Goto(t, "check")
        /\ UNCHANGED lock
     \/ Raise(t) /\ UNCHANGED <<_fd, table>>
  /\ UNCHANGED <<caller, _current_phase, dry_run, local_fd, node, history>>

\* The second look at _fd.  A descriptor that was closed since the first one drops
\* the hint without a word.
Check(t) ==
  /\ pc[t] = "check"
  /\ \/ _fd = None /\ Sent(t)
     \/ _fd # None /\ Goto(t, "load") /\ UNCHANGED lock
  /\ UNCHANGED <<caller, _current_phase, client, table, node, history>>

\* The argument of os.write reads _fd again; None is a TypeError.
LoadFd(t) ==
  /\ pc[t] = "load"
  /\ local_fd' = [local_fd EXCEPT ![t] = _fd]
  /\ \/ _fd = None /\ Raise(t)
     \/ _fd # None /\ Goto(t, "write") /\ UNCHANGED lock
  /\ UNCHANGED <<caller, _current_phase, dry_run, _fd, table, node, history>>

\* os.write, to whatever the descriptor refers to by now; one that is closed is an
\* OSError.
Write(t) ==
  /\ pc[t] = "write"
  /\ \/ /\ table[local_fd[t]] = "device"
        /\ device_phase' = req[t]
        /\ overlapped' = \E u \in Threads \ {t} : pc[u] = "note"
        /\ Sent(t)
        /\ UNCHANGED <<stray, rushed>>
     \/ /\ table[local_fd[t]] = "other"
        /\ stray' = TRUE
        /\ Sent(t)
        /\ UNCHANGED <<device_phase, overlapped, rushed>>
     \/ /\ table[local_fd[t]] = "free"
        /\ Raise(t)
        /\ UNCHANGED history
  /\ UNCHANGED <<caller, _current_phase, client, table, node>>

-----------------------------------------------------------------------------
(* MemHintClient.close, without the lock.                                  *)

CloseFd(t) ==
  /\ pc[t] = "close"
  /\ IF _fd = None
     THEN Goto(t, "idle") /\ UNCHANGED table
     ELSE Goto(t, "unset") /\ table' = [table EXCEPT ![_fd] = "free"]
  /\ rushed' = (rushed \/ ~OthersIdle(t))
  /\ UNCHANGED <<caller, lock, _current_phase, client, node,
                 device_phase, stray, overlapped>>

\* Mutant: close leaves the descriptor's number behind.
UnsetFdMutKeeps(t) ==
  /\ pc[t] = "unset"
  /\ Goto(t, "idle")
  /\ UNCHANGED <<caller, lock, _current_phase, client, table, node, history>>

\* Mutant: a closed descriptor is marked as in C, by -1, which is not None.
UnsetFdMutMinusOne(t) ==
  /\ pc[t] = "unset"
  /\ _fd' = -1
  /\ Goto(t, "idle")
  /\ UNCHANGED <<caller, lock, _current_phase, dry_run, local_fd, table, node, history>>

UnsetFd(t) ==
  /\ pc[t] = "unset"
  /\ _fd' = None
  /\ Goto(t, "idle")
  /\ UNCHANGED <<caller, lock, _current_phase, dry_run, local_fd, table, node, history>>

-----------------------------------------------------------------------------
(* The rest of the process opens and closes files; the module is loaded    *)
(* and, while nobody has its device open, unloaded.                        *)

OtherFiles ==
  /\ \E n \in Descriptors :
       \/ IsNext(n) /\ table' = [table EXCEPT ![n] = "other"]
       \/ table[n] = "other" /\ table' = [table EXCEPT ![n] = "free"]
  /\ UNCHANGED <<pc, caller, lock, _current_phase, client, node, history>>

LoadOrUnload ==
  /\ node => \A n \in Descriptors : table[n] # "device"
  /\ node' = ~node
  /\ UNCHANGED <<pc, caller, lock, _current_phase, client, table, history>>

Step(t) == \/ Acquire(t) \/ NotePhase(t)
           \/ Look(t) \/ Open(t) \/ Check(t) \/ LoadFd(t) \/ Write(t)
           \/ CloseFd(t) \/ UnsetFd(t)

Next == \/ \E t \in Threads : \/ BeginExit(t) \/ Step(t)
                              \/ \E p \in Phases : BeginCall(t, p)
        \/ OtherFiles \/ LoadOrUnload

Spec == Init /\ [][Next]_vars

\* A thread that can take its next step takes it at last.  Whether a waiting thread
\* gets a lock that others keep taking is left to threading.Lock, which promises
\* nothing; the calls are bounded, so that the others stop asking.
FairSpec == Spec /\ \A t \in Threads : WF_vars(Step(t))

-----------------------------------------------------------------------------

\* Type invariant.
TypeOK ==
  /\ pc \in [Threads -> {"idle", "lock", "send", "open", "check", "load", "write",
                         "note", "close", "unset"}]
  /\ req \in [Threads -> Phases]
  /\ local_fd \in [Threads -> Descriptors \cup {None}]
  /\ then \in [Threads -> {"idle", "close"}]
  /\ left \in BOOLEAN
  /\ calls \in 0..MaxCalls
  /\ lock \in Threads \cup {NoThread}
  /\ _current_phase \in Phases
  /\ dry_run \in BOOLEAN
  /\ _fd \in Descriptors \cup {None}
  /\ table \in [Descriptors -> {"free", "device", "other"}]
  /\ node \in BOOLEAN
  /\ device_phase \in Phases \cup {None}
  /\ stray \in BOOLEAN
  /\ overlapped \in BOOLEAN
  /\ rushed \in BOOLEAN

\* The client never loses track of a device it has open: _fd refers to it, also when
\* hints and the close of the client run into each other and when a client that was
\* closed is used, and so opened, again.
OpenDeviceIsKnown ==
  \A n \in Descriptors :
    table[n] = "device" <=> n = _fd /\ \A t \in Threads : pc[t] # "unset"

\* A hint goes to another file of the process only when a call was under way while
\* the client closed: used one after the other, calls, closes and calls after the
\* close never write to a descriptor that has changed hands.
StraysOnlyWhenRushed == stray => rushed

\* Once every call has returned, current_phase is the phase the driver was told last,
\* whatever the calls ran into, unless two of them overlapped or one was under way
\* while the client closed.
AgreesUnlessOverlapped ==
  (AllIdle /\ ~dry_run /\ ~overlapped /\ ~rushed /\ device_phase # None)
    => _current_phase = device_phase

\* Every call returns, whatever the client raises: no exception leaves the lock taken.
CallsReturn == \A t \in Threads : pc[t] # "idle" ~> pc[t] = "idle"

-----------------------------------------------------------------------------
(* What the scheduler says of itself, "thread-safe", and does not keep.    *)

\* While the scheduler is open and once every call has returned, current_phase is
\* the phase the driver was told last.
PhaseIsThreadSafe ==
  (AllIdle /\ ~left /\ ~dry_run /\ device_phase # None)
    => _current_phase = device_phase

\* A hint goes to the driver and to no other file of the process.
HintsGoToTheDevice == ~stray
=============================================================================
