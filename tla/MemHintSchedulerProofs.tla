----------------------- MODULE MemHintSchedulerProofs -----------------------
(***************************************************************************)
(* What MemHintScheduler keeps to, for any number of threads and calls.    *)
(*                                                                         *)
(* SchedulerInv is the invariant that a step preserves.  The lock keeps    *)
(* the client's send to one thread (Exclusion) and `left' keeps the close  *)
(* to one (OneCloser); what a thread has found out about _fd then stays    *)
(* true until it acts on it (Looked), and, as long as no call was under    *)
(* way while the client closed, to the very write (Unrushed).  Noted says  *)
(* which phase the threads between write and note have still to note.      *)
(***************************************************************************)
EXTENDS MemHintScheduler, TLAPS

Sending == {"send", "open", "check", "load", "write"}

Exclusion == \A t \in Threads : pc[t] \in Sending => lock = t

OneCloser ==
  /\ \A t \in Threads : pc[t] \in {"close", "unset"} => then[t] = "close"
  /\ \A t \in Threads : then[t] = "close" => left
  /\ \A t, u \in Threads : then[t] = "close" /\ then[u] = "close" => t = u

Looked ==
  /\ \A t \in Threads : pc[t] = "open" => _fd = None
  /\ \A t \in Threads : pc[t] = "unset" => _fd # None

Unrushed ==
  ~rushed =>
    /\ ~stray
    /\ \A t \in Threads : pc[t] \in {"check", "load", "write"} => _fd # None
    /\ \A t \in Threads : pc[t] = "write" => local_fd[t] = _fd
    /\ \A t \in Threads : pc[t] = "unset" => OthersIdle(t)

Noted ==
  (~dry_run /\ ~rushed /\ ~overlapped) =>
    /\ \A t \in Threads : pc[t] = "note" => req[t] = device_phase
    /\ device_phase # None =>
         _current_phase = device_phase \/ \E t \in Threads : pc[t] = "note"

SchedulerInv ==
  TypeOK /\ Exclusion /\ OneCloser /\ Looked /\ OpenDeviceIsKnown /\ Unrushed /\ Noted

LEMMA InitHolds == Init => SchedulerInv
<1> SUFFICES ASSUME Init PROVE SchedulerInv
  OBVIOUS
<1> USE SchedulerAssumption
<1>1. PICK first \in Descriptors :
        /\ _fd = IF dry_run THEN None ELSE first
        /\ table = [n \in Descriptors |-> IF ~dry_run /\ n = first THEN "device" ELSE "free"]
  BY DEF Init
<1>2. pc = [t \in Threads |-> "idle"] /\ then = [t \in Threads |-> "idle"]
  BY DEF Init
<1>3. TypeOK
  <2>1. left \in BOOLEAN /\ dry_run \in BOOLEAN /\ node \in BOOLEAN
    BY Zenon DEF Init
  <2>2. stray \in BOOLEAN /\ overlapped \in BOOLEAN /\ rushed \in BOOLEAN
    BY Zenon DEF Init
  <2>3. _fd \in Descriptors \cup {None} /\ table \in [Descriptors -> {"free", "device", "other"}]
    BY <1>1
  <2>4. /\ calls \in 0..MaxCalls
        /\ lock \in Threads \cup {NoThread}
        /\ _current_phase \in Phases
        /\ device_phase \in Phases \cup {None}
    BY DEF Init
  <2>5. /\ req \in [Threads -> Phases]
        /\ local_fd \in [Threads -> Descriptors \cup {None}]
    BY DEF Init
  <2> QED  BY <1>2, <2>1, <2>2, <2>3, <2>4, <2>5 DEF TypeOK
<1>4. Exclusion /\ OneCloser /\ Looked
  BY <1>2 DEF Exclusion, Sending, OneCloser, Looked
<1>5. OpenDeviceIsKnown
  BY <1>1, <1>2 DEF OpenDeviceIsKnown, None
<1>6. Unrushed
  BY <1>2 DEF Init, Unrushed
<1>7. Noted
  BY <1>2 DEF Init, Noted
<1> QED  BY <1>3, <1>4, <1>5, <1>6, <1>7 DEF SchedulerInv

\* A hint that leaves os.write, wherever it went, moves only its own thread.
LEMMA WriteMoves ==
  \A t \in Threads : Write(t) =>
    /\ pc[t] = "write"
    /\ pc' = [pc EXCEPT ![t] = "note"] \/ pc' = [pc EXCEPT ![t] = "idle"]
    /\ UNCHANGED <<caller, _current_phase, client, table, node>>
BY DEF Write, Sent, Raise, Goto

LEMMA StepType == TypeOK /\ [Next]_vars => TypeOK'
<1> SUFFICES ASSUME TypeOK, [Next]_vars PROVE TypeOK'
  OBVIOUS
<1> USE SchedulerAssumption DEF TypeOK
<1>1. ASSUME NEW t \in Threads, NEW p \in Phases, BeginCall(t, p) PROVE TypeOK'
  BY <1>1 DEF BeginCall, client, Goto
<1>2. ASSUME NEW t \in Threads, BeginExit(t) PROVE TypeOK'
  BY <1>2 DEF BeginExit, client, history, Goto
<1>3. ASSUME NEW t \in Threads, Acquire(t) PROVE TypeOK'
  BY <1>3 DEF Acquire, caller, client, history, Goto
<1>4. ASSUME NEW t \in Threads, NotePhase(t) PROVE TypeOK'
  BY <1>4 DEF NotePhase, caller, client, history, Goto
<1>5. ASSUME NEW t \in Threads, Look(t) PROVE TypeOK'
  BY <1>5 DEF Look, caller, history, Sent, Goto
<1>6. ASSUME NEW t \in Threads, Open(t) PROVE TypeOK'
  BY <1>6 DEF Open, caller, history, Raise, Goto, IsNext, Free
<1>7. ASSUME NEW t \in Threads, Check(t) PROVE TypeOK'
  BY <1>7 DEF Check, caller, client, history, Sent, Goto
<1>8. ASSUME NEW t \in Threads, LoadFd(t) PROVE TypeOK'
  BY <1>8 DEF LoadFd, caller, history, Raise, Goto
<1>9. ASSUME NEW t \in Threads, Write(t) PROVE TypeOK'
  <2>1. /\ pc[t] = "write"
        /\ pc' = [pc EXCEPT ![t] = "note"] \/ pc' = [pc EXCEPT ![t] = "idle"]
        /\ UNCHANGED <<caller, _current_phase, client, table, node>>
    BY <1>9, WriteMoves
  <2>2. lock' \in Threads \cup {NoThread}
    BY <1>9 DEF Write, Sent, Raise
  <2>3. stray' \in BOOLEAN
    BY <1>9, Zenon DEF Write, history
  <2>4. rushed' \in BOOLEAN
    BY <1>9, Zenon DEF Write, history
  <2>5. device_phase' \in Phases \cup {None}
    <3>1. device_phase' = req[t] \/ device_phase' = device_phase
      BY <1>9, Zenon DEF Write, history
    <3> QED  BY <3>1
  <2>6. overlapped' \in BOOLEAN
    <3>1. \/ overlapped' = \E u \in Threads \ {t} : pc[u] = "note"
          \/ overlapped' = overlapped
      BY <1>9, Zenon DEF Write, history
    <3>2. overlapped \in BOOLEAN
      OBVIOUS
    <3> QED  BY <3>1, <3>2, Zenon
  <2> QED  BY <2>1, <2>2, <2>3, <2>4, <2>5, <2>6 DEF caller, client
<1>10. ASSUME NEW t \in Threads, CloseFd(t) PROVE TypeOK'
  BY <1>10 DEF CloseFd, caller, client, Goto, OthersIdle
<1>11. ASSUME NEW t \in Threads, UnsetFd(t) PROVE TypeOK'
  BY <1>11 DEF UnsetFd, caller, history, Goto
<1>12. CASE OtherFiles
  BY <1>12 DEF OtherFiles, caller, client, history, IsNext, Free
<1>13. CASE LoadOrUnload
  BY <1>13 DEF LoadOrUnload, caller, client, history
<1>14. CASE UNCHANGED vars
  BY <1>14 DEF vars, caller, client, history
<1> QED  BY <1>1, <1>2, <1>3, <1>4, <1>5, <1>6, <1>7, <1>8,
            <1>9, <1>10, <1>11, <1>12, <1>13, <1>14
     DEF Next, Step

LEMMA StepExclusion == TypeOK /\ Exclusion /\ [Next]_vars => Exclusion'
<1> SUFFICES ASSUME TypeOK /\ Exclusion, [Next]_vars PROVE Exclusion'
  OBVIOUS
<1> USE SchedulerAssumption DEF TypeOK, Exclusion, Sending
<1>1. ASSUME NEW t \in Threads, NEW p \in Phases, BeginCall(t, p) PROVE Exclusion'
  BY <1>1 DEF BeginCall, client, Goto
<1>2. ASSUME NEW t \in Threads, BeginExit(t) PROVE Exclusion'
  BY <1>2 DEF BeginExit, client, history, Goto
<1>3. ASSUME NEW t \in Threads, Acquire(t) PROVE Exclusion'
  BY <1>3 DEF Acquire, caller, client, history, Goto
<1>4. ASSUME NEW t \in Threads, NotePhase(t) PROVE Exclusion'
  BY <1>4 DEF NotePhase, caller, client, history, Goto
<1>5. ASSUME NEW t \in Threads, Look(t) PROVE Exclusion'
  BY <1>5 DEF Look, caller, history, Sent, Goto
<1>6. ASSUME NEW t \in Threads, Open(t) PROVE Exclusion'
  BY <1>6 DEF Open, caller, history, Raise, Goto, IsNext, Free
<1>7. ASSUME NEW t \in Threads, Check(t) PROVE Exclusion'
  BY <1>7 DEF Check, caller, client, history, Sent, Goto
<1>8. ASSUME NEW t \in Threads, LoadFd(t) PROVE Exclusion'
  BY <1>8 DEF LoadFd, caller, history, Raise, Goto
<1>9. ASSUME NEW t \in Threads, Write(t) PROVE Exclusion'
  <2>1. /\ pc[t] = "write"
        /\ pc' = [pc EXCEPT ![t] = "note"] \/ pc' = [pc EXCEPT ![t] = "idle"]
        /\ UNCHANGED <<caller, _current_phase, client, table, node>>
    BY <1>9, WriteMoves
  <2> QED  BY <2>1 DEF caller, client
<1>10. ASSUME NEW t \in Threads, CloseFd(t) PROVE Exclusion'
  BY <1>10 DEF CloseFd, caller, client, Goto, OthersIdle
<1>11. ASSUME NEW t \in Threads, UnsetFd(t) PROVE Exclusion'
  BY <1>11 DEF UnsetFd, caller, history, Goto
<1>12. CASE OtherFiles
  BY <1>12 DEF OtherFiles, caller, client, history, IsNext, Free
<1>13. CASE LoadOrUnload
  BY <1>13 DEF LoadOrUnload, caller, client, history
<1>14. CASE UNCHANGED vars
  BY <1>14 DEF vars, caller, client, history
<1> QED  BY <1>1, <1>2, <1>3, <1>4, <1>5, <1>6, <1>7, <1>8,
            <1>9, <1>10, <1>11, <1>12, <1>13, <1>14
     DEF Next, Step

LEMMA StepCloser == TypeOK /\ OneCloser /\ [Next]_vars => OneCloser'
<1> SUFFICES ASSUME TypeOK /\ OneCloser, [Next]_vars PROVE OneCloser'
  OBVIOUS
<1> USE SchedulerAssumption DEF TypeOK, OneCloser
<1>1. ASSUME NEW t \in Threads, NEW p \in Phases, BeginCall(t, p) PROVE OneCloser'
  BY <1>1 DEF BeginCall, client, Goto
<1>2. ASSUME NEW t \in Threads, BeginExit(t) PROVE OneCloser'
  BY <1>2 DEF BeginExit, client, history, Goto
<1>3. ASSUME NEW t \in Threads, Acquire(t) PROVE OneCloser'
  BY <1>3 DEF Acquire, caller, client, history, Goto
<1>4. ASSUME NEW t \in Threads, NotePhase(t) PROVE OneCloser'
  BY <1>4 DEF NotePhase, caller, client, history, Goto
<1>5. ASSUME NEW t \in Threads, Look(t) PROVE OneCloser'
  BY <1>5 DEF Look, caller, history, Sent, Goto
<1>6. ASSUME NEW t \in Threads, Open(t) PROVE OneCloser'
  BY <1>6 DEF Open, caller, history, Raise, Goto, IsNext, Free
<1>7. ASSUME NEW t \in Threads, Check(t) PROVE OneCloser'
  BY <1>7 DEF Check, caller, client, history, Sent, Goto
<1>8. ASSUME NEW t \in Threads, LoadFd(t) PROVE OneCloser'
  BY <1>8 DEF LoadFd, caller, history, Raise, Goto
<1>9. ASSUME NEW t \in Threads, Write(t) PROVE OneCloser'
  <2>1. /\ pc[t] = "write"
        /\ pc' = [pc EXCEPT ![t] = "note"] \/ pc' = [pc EXCEPT ![t] = "idle"]
        /\ UNCHANGED <<caller, _current_phase, client, table, node>>
    BY <1>9, WriteMoves
  <2> QED  BY <2>1 DEF caller, client
<1>10. ASSUME NEW t \in Threads, CloseFd(t) PROVE OneCloser'
  BY <1>10 DEF CloseFd, caller, client, Goto, OthersIdle
<1>11. ASSUME NEW t \in Threads, UnsetFd(t) PROVE OneCloser'
  BY <1>11 DEF UnsetFd, caller, history, Goto
<1>12. CASE OtherFiles
  BY <1>12 DEF OtherFiles, caller, client, history, IsNext, Free
<1>13. CASE LoadOrUnload
  BY <1>13 DEF LoadOrUnload, caller, client, history
<1>14. CASE UNCHANGED vars
  BY <1>14 DEF vars, caller, client, history
<1> QED  BY <1>1, <1>2, <1>3, <1>4, <1>5, <1>6, <1>7, <1>8,
            <1>9, <1>10, <1>11, <1>12, <1>13, <1>14
     DEF Next, Step

LEMMA StepLooked == TypeOK /\ Exclusion /\ OneCloser /\ Looked /\ [Next]_vars => Looked'
<1> SUFFICES ASSUME TypeOK /\ Exclusion /\ OneCloser /\ Looked, [Next]_vars PROVE Looked'
  OBVIOUS
<1> USE SchedulerAssumption DEF TypeOK, Exclusion, Sending, OneCloser, Looked, None
<1>1. ASSUME NEW t \in Threads, NEW p \in Phases, BeginCall(t, p) PROVE Looked'
  BY <1>1 DEF BeginCall, client, Goto
<1>2. ASSUME NEW t \in Threads, BeginExit(t) PROVE Looked'
  BY <1>2 DEF BeginExit, client, history, Goto
<1>3. ASSUME NEW t \in Threads, Acquire(t) PROVE Looked'
  BY <1>3 DEF Acquire, caller, client, history, Goto
<1>4. ASSUME NEW t \in Threads, NotePhase(t) PROVE Looked'
  BY <1>4 DEF NotePhase, caller, client, history, Goto
<1>5. ASSUME NEW t \in Threads, Look(t) PROVE Looked'
  BY <1>5 DEF Look, caller, history, Sent, Goto
<1>6. ASSUME NEW t \in Threads, Open(t) PROVE Looked'
  BY <1>6 DEF Open, caller, history, Raise, Goto, IsNext, Free
<1>7. ASSUME NEW t \in Threads, Check(t) PROVE Looked'
  BY <1>7 DEF Check, caller, client, history, Sent, Goto
<1>8. ASSUME NEW t \in Threads, LoadFd(t) PROVE Looked'
  BY <1>8 DEF LoadFd, caller, history, Raise, Goto
<1>9. ASSUME NEW t \in Threads, Write(t) PROVE Looked'
  <2>1. /\ pc[t] = "write"
        /\ pc' = [pc EXCEPT ![t] = "note"] \/ pc' = [pc EXCEPT ![t] = "idle"]
        /\ UNCHANGED <<caller, _current_phase, client, table, node>>
    BY <1>9, WriteMoves
  <2> QED  BY <2>1 DEF caller, client
<1>10. ASSUME NEW t \in Threads, CloseFd(t) PROVE Looked'
  BY <1>10 DEF CloseFd, caller, client, Goto, OthersIdle
<1>11. ASSUME NEW t \in Threads, UnsetFd(t) PROVE Looked'
  BY <1>11 DEF UnsetFd, caller, history, Goto
<1>12. CASE OtherFiles
  BY <1>12 DEF OtherFiles, caller, client, history, IsNext, Free
<1>13. CASE LoadOrUnload
  BY <1>13 DEF LoadOrUnload, caller, client, history
<1>14. CASE UNCHANGED vars
  BY <1>14 DEF vars, caller, client, history
<1> QED  BY <1>1, <1>2, <1>3, <1>4, <1>5, <1>6, <1>7, <1>8,
            <1>9, <1>10, <1>11, <1>12, <1>13, <1>14
     DEF Next, Step

LEMMA StepKnown == TypeOK /\ Looked /\ OneCloser /\ OpenDeviceIsKnown /\ [Next]_vars => OpenDeviceIsKnown'
<1> SUFFICES ASSUME TypeOK /\ Looked /\ OneCloser /\ OpenDeviceIsKnown, [Next]_vars PROVE OpenDeviceIsKnown'
  OBVIOUS
<1> USE SchedulerAssumption DEF TypeOK, Looked, OneCloser, OpenDeviceIsKnown, None
<1>1. ASSUME NEW t \in Threads, NEW p \in Phases, BeginCall(t, p) PROVE OpenDeviceIsKnown'
  BY <1>1 DEF BeginCall, client, Goto
<1>2. ASSUME NEW t \in Threads, BeginExit(t) PROVE OpenDeviceIsKnown'
  BY <1>2 DEF BeginExit, client, history, Goto
<1>3. ASSUME NEW t \in Threads, Acquire(t) PROVE OpenDeviceIsKnown'
  BY <1>3 DEF Acquire, caller, client, history, Goto
<1>4. ASSUME NEW t \in Threads, NotePhase(t) PROVE OpenDeviceIsKnown'
  BY <1>4 DEF NotePhase, caller, client, history, Goto
<1>5. ASSUME NEW t \in Threads, Look(t) PROVE OpenDeviceIsKnown'
  BY <1>5 DEF Look, caller, history, Sent, Goto
<1>6. ASSUME NEW t \in Threads, Open(t) PROVE OpenDeviceIsKnown'
  BY <1>6 DEF Open, caller, history, Raise, Goto, IsNext, Free
<1>7. ASSUME NEW t \in Threads, Check(t) PROVE OpenDeviceIsKnown'
  BY <1>7 DEF Check, caller, client, history, Sent, Goto
<1>8. ASSUME NEW t \in Threads, LoadFd(t) PROVE OpenDeviceIsKnown'
  BY <1>8 DEF LoadFd, caller, history, Raise, Goto
<1>9. ASSUME NEW t \in Threads, Write(t) PROVE OpenDeviceIsKnown'
  <2>1. /\ pc[t] = "write"
        /\ pc' = [pc EXCEPT ![t] = "note"] \/ pc' = [pc EXCEPT ![t] = "idle"]
        /\ UNCHANGED <<caller, _current_phase, client, table, node>>
    BY <1>9, WriteMoves
  <2> QED  BY <2>1 DEF caller, client
<1>10. ASSUME NEW t \in Threads, CloseFd(t) PROVE OpenDeviceIsKnown'
  BY <1>10 DEF CloseFd, caller, client, Goto, OthersIdle
<1>11. ASSUME NEW t \in Threads, UnsetFd(t) PROVE OpenDeviceIsKnown'
  BY <1>11 DEF UnsetFd, caller, history, Goto
<1>12. CASE OtherFiles
  <2>1. /\ \A n \in Descriptors : table'[n] = "device" <=> table[n] = "device"
        /\ UNCHANGED <<pc, _fd>>
    <3>1. PICK n \in Descriptors : \/ table[n] = "free" /\ table' = [table EXCEPT ![n] = "other"]
                                   \/ table[n] = "other" /\ table' = [table EXCEPT ![n] = "free"]
      BY <1>12 DEF OtherFiles, IsNext, Free
    <3>2. UNCHANGED <<pc, _fd>>
      BY <1>12 DEF OtherFiles, client
    <3> QED  BY <3>1, <3>2
  <2> QED  BY <2>1
<1>13. CASE LoadOrUnload
  BY <1>13 DEF LoadOrUnload, caller, client, history
<1>14. CASE UNCHANGED vars
  BY <1>14 DEF vars, caller, client, history
<1> QED  BY <1>1, <1>2, <1>3, <1>4, <1>5, <1>6, <1>7, <1>8,
            <1>9, <1>10, <1>11, <1>12, <1>13, <1>14
     DEF Next, Step

LEMMA StepRushed == TypeOK /\ OneCloser /\ Looked /\ OpenDeviceIsKnown /\ Unrushed /\ [Next]_vars => Unrushed'
<1> SUFFICES ASSUME TypeOK /\ OneCloser /\ Looked /\ OpenDeviceIsKnown /\ Unrushed, [Next]_vars PROVE Unrushed'
  OBVIOUS
<1> USE SchedulerAssumption DEF TypeOK, OneCloser, Looked, OpenDeviceIsKnown, Unrushed, OthersIdle, None
<1>1. ASSUME NEW t \in Threads, NEW p \in Phases, BeginCall(t, p) PROVE Unrushed'
  BY <1>1 DEF BeginCall, client, Goto
<1>2. ASSUME NEW t \in Threads, BeginExit(t) PROVE Unrushed'
  BY <1>2 DEF BeginExit, client, history, Goto
<1>3. ASSUME NEW t \in Threads, Acquire(t) PROVE Unrushed'
  BY <1>3 DEF Acquire, caller, client, history, Goto
<1>4. ASSUME NEW t \in Threads, NotePhase(t) PROVE Unrushed'
  BY <1>4 DEF NotePhase, caller, client, history, Goto
<1>5. ASSUME NEW t \in Threads, Look(t) PROVE Unrushed'
  BY <1>5 DEF Look, caller, history, Sent, Goto
<1>6. ASSUME NEW t \in Threads, Open(t) PROVE Unrushed'
  BY <1>6 DEF Open, caller, history, Raise, Goto, IsNext, Free
<1>7. ASSUME NEW t \in Threads, Check(t) PROVE Unrushed'
  BY <1>7 DEF Check, caller, client, history, Sent, Goto
<1>8. ASSUME NEW t \in Threads, LoadFd(t) PROVE Unrushed'
  BY <1>8 DEF LoadFd, caller, history, Raise, Goto
<1>9. ASSUME NEW t \in Threads, Write(t) PROVE Unrushed'
  <2>1. /\ pc[t] = "write"
        /\ pc' = [pc EXCEPT ![t] = "note"] \/ pc' = [pc EXCEPT ![t] = "idle"]
        /\ UNCHANGED <<caller, _current_phase, client, table, node>>
    BY <1>9, WriteMoves
  <2>2. rushed' = rushed
    BY <1>9 DEF Write, history
  <2>3. ASSUME ~rushed PROVE ~stray'
    <3>1. \A u \in Threads : pc[u] # "unset"
      BY <1>9, <2>3 DEF Write
    <3>2. table[local_fd[t]] = "device"
      BY <1>9, <2>3, <3>1 DEF Write
    <3> QED  BY <1>9, <2>3, <3>2 DEF Write
  <2>4. ASSUME ~rushed, NEW u \in Threads PROVE pc[u] # "unset"
    BY <2>1, <2>4
  <2> QED  BY <2>1, <2>2, <2>3, <2>4 DEF caller, client
<1>10. ASSUME NEW t \in Threads, CloseFd(t) PROVE Unrushed'
  BY <1>10 DEF CloseFd, caller, client, Goto, OthersIdle
<1>11. ASSUME NEW t \in Threads, UnsetFd(t) PROVE Unrushed'
  BY <1>11 DEF UnsetFd, caller, history, Goto
<1>12. CASE OtherFiles
  BY <1>12 DEF OtherFiles, caller, client, history, IsNext, Free
<1>13. CASE LoadOrUnload
  BY <1>13 DEF LoadOrUnload, caller, client, history
<1>14. CASE UNCHANGED vars
  BY <1>14 DEF vars, caller, client, history
<1> QED  BY <1>1, <1>2, <1>3, <1>4, <1>5, <1>6, <1>7, <1>8,
            <1>9, <1>10, <1>11, <1>12, <1>13, <1>14
     DEF Next, Step

LEMMA StepNoted == TypeOK /\ Unrushed /\ OpenDeviceIsKnown /\ Noted /\ [Next]_vars => Noted'
<1> SUFFICES ASSUME TypeOK /\ Unrushed /\ OpenDeviceIsKnown /\ Noted, [Next]_vars PROVE Noted'
  OBVIOUS
<1> USE SchedulerAssumption DEF TypeOK, Unrushed, OpenDeviceIsKnown, OthersIdle, Noted, None
<1>1. ASSUME NEW t \in Threads, NEW p \in Phases, BeginCall(t, p) PROVE Noted'
  BY <1>1 DEF BeginCall, client, Goto
<1>2. ASSUME NEW t \in Threads, BeginExit(t) PROVE Noted'
  BY <1>2 DEF BeginExit, client, history, Goto
<1>3. ASSUME NEW t \in Threads, Acquire(t) PROVE Noted'
  BY <1>3 DEF Acquire, caller, client, history, Goto
<1>4. ASSUME NEW t \in Threads, NotePhase(t) PROVE Noted'
  BY <1>4 DEF NotePhase, caller, client, history, Goto
<1>5. ASSUME NEW t \in Threads, Look(t) PROVE Noted'
  BY <1>5 DEF Look, caller, history, Sent, Goto
<1>6. ASSUME NEW t \in Threads, Open(t) PROVE Noted'
  BY <1>6 DEF Open, caller, history, Raise, Goto, IsNext, Free
<1>7. ASSUME NEW t \in Threads, Check(t) PROVE Noted'
  BY <1>7 DEF Check, caller, client, history, Sent, Goto
<1>8. ASSUME NEW t \in Threads, LoadFd(t) PROVE Noted'
  BY <1>8 DEF LoadFd, caller, history, Raise, Goto
<1>9. ASSUME NEW t \in Threads, Write(t) PROVE Noted'
  <2> SUFFICES ASSUME ~dry_run', ~rushed', ~overlapped' PROVE Noted'
    OBVIOUS
  <2>1. ~dry_run /\ ~rushed
    BY <1>9 DEF Write, client, history
  <2>2. table[local_fd[t]] = "device"
    <3>1. \A u \in Threads : pc[u] # "unset"
      BY <1>9, <2>1 DEF Write
    <3> QED  BY <1>9, <2>1, <3>1 DEF Write
  <2>3. /\ device_phase' = req[t] /\ req' = req
        /\ overlapped' = \E u \in Threads \ {t} : pc[u] = "note"
    BY <1>9, <2>2, Zenon DEF Write, caller
  <2>4. pc' = [pc EXCEPT ![t] = "note"]
    BY <1>9, <2>2 DEF Write, Sent, Goto
  <2>5. \A u \in Threads \ {t} : pc[u] # "note"
    BY <2>3
  <2> QED  BY <2>3, <2>4, <2>5
<1>10. ASSUME NEW t \in Threads, CloseFd(t) PROVE Noted'
  BY <1>10 DEF CloseFd, caller, client, Goto, OthersIdle
<1>11. ASSUME NEW t \in Threads, UnsetFd(t) PROVE Noted'
  BY <1>11 DEF UnsetFd, caller, history, Goto
<1>12. CASE OtherFiles
  BY <1>12 DEF OtherFiles, caller, client, history, IsNext, Free
<1>13. CASE LoadOrUnload
  BY <1>13 DEF LoadOrUnload, caller, client, history
<1>14. CASE UNCHANGED vars
  BY <1>14 DEF vars, caller, client, history
<1> QED  BY <1>1, <1>2, <1>3, <1>4, <1>5, <1>6, <1>7, <1>8,
            <1>9, <1>10, <1>11, <1>12, <1>13, <1>14
     DEF Next, Step

LEMMA Inductive == Spec => []SchedulerInv
<1>1. SchedulerInv /\ [Next]_vars => SchedulerInv'
  BY StepType, StepExclusion, StepCloser, StepLooked, StepKnown, StepRushed, StepNoted
     DEF SchedulerInv
<1> QED  BY InitHolds, <1>1, PTL DEF Spec

-----------------------------------------------------------------------------

\* Whatever the threads, the phases and the number of calls, every variable of the
\* scheduler, the client and the process keeps to its type.
THEOREM TypeCorrect == Spec => []TypeOK
<1>1. SchedulerInv => TypeOK
  BY DEF SchedulerInv
<1> QED  BY Inductive, <1>1, PTL

\* However hints, the close and hints after the close run into each other, _fd refers
\* to the one device that is open: the client leaks no descriptor.
THEOREM NoDeviceForgotten == Spec => []OpenDeviceIsKnown
<1>1. SchedulerInv => OpenDeviceIsKnown
  BY DEF SchedulerInv
<1> QED  BY Inductive, <1>1, PTL

\* Only a call that was under way while the client closed can write its hint into
\* another file of the process.
THEOREM NoStrayUnlessRushed == Spec => []StraysOnlyWhenRushed
<1>1. SchedulerInv => StraysOnlyWhenRushed
  BY DEF SchedulerInv, Unrushed, StraysOnlyWhenRushed
<1> QED  BY Inductive, <1>1, PTL

\* Calls that neither overlap at the end nor meet the close leave current_phase on the
\* phase that the driver was told last, also when the client raised.
THEOREM PhaseAgrees == Spec => []AgreesUnlessOverlapped
<1>1. SchedulerInv => AgreesUnlessOverlapped
  BY DEF SchedulerInv, Noted, AgreesUnlessOverlapped, AllIdle
<1> QED  BY Inductive, <1>1, PTL

-----------------------------------------------------------------------------
(* The lock and the way of a call.  That calls return is liveness, which   *)
(* stays with TLC; that a call only moves on, and that the lock it waits   *)
(* for is held by a call that moves on, is not.                            *)

\* The lock is held by the thread that is inside the client's send, and by nobody when
\* there is none: no early return and no exception of the client leaves it taken.  And
\* the None that the close leaves in _fd never gets as far as os.write.
LockIsPaired ==
  \A t \in Threads : /\ pc[t] \in Sending <=> lock = t
                     /\ pc[t] = "write" => local_fd[t] \in Descriptors

LEMMA StepPaired == TypeOK /\ LockIsPaired /\ [Next]_vars => LockIsPaired'
<1> SUFFICES ASSUME TypeOK /\ LockIsPaired, [Next]_vars PROVE LockIsPaired'
  OBVIOUS
<1> USE SchedulerAssumption DEF TypeOK, LockIsPaired, Sending
<1>1. ASSUME NEW t \in Threads, NEW p \in Phases, BeginCall(t, p) PROVE LockIsPaired'
  BY <1>1 DEF BeginCall, client, Goto
<1>2. ASSUME NEW t \in Threads, BeginExit(t) PROVE LockIsPaired'
  BY <1>2 DEF BeginExit, client, history, Goto
<1>3. ASSUME NEW t \in Threads, Acquire(t) PROVE LockIsPaired'
  BY <1>3 DEF Acquire, caller, client, history, Goto
<1>4. ASSUME NEW t \in Threads, NotePhase(t) PROVE LockIsPaired'
  BY <1>4 DEF NotePhase, caller, client, history, Goto
<1>5. ASSUME NEW t \in Threads, Look(t) PROVE LockIsPaired'
  BY <1>5 DEF Look, caller, history, Sent, Goto
<1>6. ASSUME NEW t \in Threads, Open(t) PROVE LockIsPaired'
  BY <1>6 DEF Open, caller, history, Raise, Goto, IsNext, Free
<1>7. ASSUME NEW t \in Threads, Check(t) PROVE LockIsPaired'
  BY <1>7 DEF Check, caller, client, history, Sent, Goto
<1>8. ASSUME NEW t \in Threads, LoadFd(t) PROVE LockIsPaired'
  BY <1>8 DEF LoadFd, caller, history, Raise, Goto
<1>9. ASSUME NEW t \in Threads, Write(t) PROVE LockIsPaired'
  <2>1. /\ pc[t] = "write"
        /\ pc' = [pc EXCEPT ![t] = "note"] \/ pc' = [pc EXCEPT ![t] = "idle"]
        /\ UNCHANGED <<caller, _current_phase, client, table, node>>
    BY <1>9, WriteMoves
  <2>2. lock' = NoThread
    BY <1>9 DEF Write, Sent, Raise
  <2> QED  BY <2>1, <2>2 DEF caller, client
<1>10. ASSUME NEW t \in Threads, CloseFd(t) PROVE LockIsPaired'
  BY <1>10 DEF CloseFd, caller, client, Goto, OthersIdle
<1>11. ASSUME NEW t \in Threads, UnsetFd(t) PROVE LockIsPaired'
  BY <1>11 DEF UnsetFd, caller, history, Goto
<1>12. CASE OtherFiles
  BY <1>12 DEF OtherFiles, caller, client, history, IsNext, Free
<1>13. CASE LoadOrUnload
  BY <1>13 DEF LoadOrUnload, caller, client, history
<1>14. CASE UNCHANGED vars
  BY <1>14 DEF vars, caller, client, history
<1> QED  BY <1>1, <1>2, <1>3, <1>4, <1>5, <1>6, <1>7, <1>8,
            <1>9, <1>10, <1>11, <1>12, <1>13, <1>14
     DEF Next, Step

THEOREM LockAlwaysReleased == Spec => []LockIsPaired
<1>1. Init => LockIsPaired
  BY SchedulerAssumption DEF Init, LockIsPaired, Sending
<1> QED  BY <1>1, StepPaired, TypeCorrect, PTL DEF Spec

\* How far a call still has to go.
Rank(place) ==
  CASE place = "lock" -> 9 [] place = "send" -> 8 [] place = "open"  -> 7
    [] place = "check" -> 6 [] place = "load" -> 5 [] place = "write" -> 4
    [] place = "note" -> 3 [] place = "close" -> 2 [] place = "unset" -> 1
    [] place = "idle" -> 0

\* A call that is under way never goes back, whatever the client finds or raises: it
\* tries nothing again, and nobody but its own thread moves it on.
CallsOnlyAdvance ==
  [][\A t \in Threads : pc[t] # "idle" =>
       \/ pc'[t] = pc[t]
       \/ /\ Rank(pc'[t]) < Rank(pc[t])
          /\ \A u \in Threads \ {t} : pc'[u] = pc[u]]_vars

LEMMA StepAdvances ==
  ASSUME TypeOK, [Next]_vars, NEW t \in Threads, pc[t] # "idle", pc'[t] # pc[t]
  PROVE  /\ Rank(pc'[t]) < Rank(pc[t])
         /\ \A u \in Threads \ {t} : pc'[u] = pc[u]
<1> USE DEF TypeOK
<1>1. ASSUME NEW u \in Threads, BeginExit(u) \/ \E p \in Phases : BeginCall(u, p) PROVE FALSE
  BY <1>1 DEF BeginExit, BeginCall, Goto
<1>2. ASSUME NEW u \in Threads, Step(u)
      PROVE  u = t /\ Rank(pc'[t]) < Rank(pc[t]) /\ \A v \in Threads \ {t} : pc'[v] = pc[v]
  <2>1. CASE Acquire(u)
    BY <2>1 DEF Acquire, Goto, Rank
  <2>2. CASE NotePhase(u)
    BY <2>2 DEF NotePhase, Goto, Rank
  <2>3. CASE Look(u)
    BY <2>3 DEF Look, Sent, Goto, Rank
  <2>4. CASE Open(u)
    BY <2>4 DEF Open, Raise, Goto, Rank
  <2>5. CASE Check(u)
    BY <2>5 DEF Check, Sent, Goto, Rank
  <2>6. CASE LoadFd(u)
    BY <2>6 DEF LoadFd, Raise, Goto, Rank
  <2>7. CASE Write(u)
    BY <2>7, WriteMoves DEF Rank
  <2>8. CASE CloseFd(u)
    BY <2>8 DEF CloseFd, Goto, Rank
  <2>9. CASE UnsetFd(u)
    BY <2>9 DEF UnsetFd, Goto, Rank
  <2> QED  BY <1>2, <2>1, <2>2, <2>3, <2>4, <2>5, <2>6, <2>7, <2>8, <2>9 DEF Step
<1>3. ~(OtherFiles \/ LoadOrUnload \/ UNCHANGED vars)
  BY DEF OtherFiles, LoadOrUnload, vars
<1> QED  BY <1>1, <1>2, <1>3 DEF Next

THEOREM CallsAdvance == Spec => CallsOnlyAdvance
<1>1. TypeOK /\ [Next]_vars =>
        [\A t \in Threads : pc[t] # "idle" =>
           \/ pc'[t] = pc[t]
           \/ /\ Rank(pc'[t]) < Rank(pc[t])
              /\ \A u \in Threads \ {t} : pc'[u] = pc[u]]_vars
  BY StepAdvances
<1> QED  BY <1>1, TypeCorrect, PTL DEF Spec, CallsOnlyAdvance

-----------------------------------------------------------------------------
(* The scheduler implements HintDelivery: a hint is under way from the     *)
(* call to the write, which delivers it, or to the point where it is lost. *)

UnderWay == [t \in Threads |-> IF pc[t] \in {"lock"} \cup Sending THEN req[t] ELSE None]

Delivery == INSTANCE HintDelivery WITH
  Callers <- Threads,
  NoPhase <- None,
  told    <- device_phase,
  pending <- UnderWay

\* A step that moves one thread moves at most that thread's entry of UnderWay.
LEMMA UnderWayUpdate ==
  ASSUME TypeOK, NEW t \in Threads, NEW place, NEW p, req' = [req EXCEPT ![t] = p],
         pc' = [pc EXCEPT ![t] = place]
  PROVE  UnderWay' = [UnderWay EXCEPT ![t] = IF place \in {"lock"} \cup Sending
                                             THEN p ELSE None]
BY DEF UnderWay, TypeOK

LEMMA StepDelivers ==
  TypeOK /\ [Next]_vars => [Delivery!Next]_(Delivery!vars)
<1> SUFFICES ASSUME TypeOK, [Next]_vars
             PROVE  \/ \E t \in Threads : \/ Delivery!Begin(t) \/ Delivery!Tell(t)
                                          \/ Delivery!Lose(t)
                    \/ device_phase' = device_phase /\ UnderWay' = UnderWay
  BY DEF Delivery!Next, Delivery!vars
<1> DEFINE Stutter == device_phase' = device_phase /\ UnderWay' = UnderWay
<1>1. PHASE_IDLE \in Phases /\ None \notin Phases
  BY SchedulerAssumption DEF None, PhaseIds, PHASE_PREFILL, PHASE_BACKWARD
<1>2. \A t \in Threads : req[t] \in Phases /\ pc[t] \in {"lock"} \cup Sending
                           => UnderWay[t] = req[t] /\ UnderWay[t] # None
  BY <1>1 DEF UnderWay
<1>3. \A t \in Threads : pc[t] \notin {"lock"} \cup Sending => UnderWay[t] = None
  BY DEF UnderWay
<1>4. \A t \in Threads : req[t] \in Phases
  BY DEF TypeOK
<1>5. ASSUME NEW t \in Threads, NEW p \in Phases, pc[t] = "idle",
             req' = [req EXCEPT ![t] = p], pc' = [pc EXCEPT ![t] = "lock"],
             device_phase' = device_phase
      PROVE  Delivery!Begin(t)
  <2>1. UnderWay[t] = None
    BY <1>3, <1>5 DEF Sending
  <2>2. UnderWay' = [UnderWay EXCEPT ![t] = p]
    BY <1>5, UnderWayUpdate
  <2> QED  BY <1>5, <2>1, <2>2 DEF Delivery!Begin
<1>6. ASSUME NEW t \in Threads, NEW place, pc' = [pc EXCEPT ![t] = place],
             req' = req, device_phase' = device_phase,
             pc[t] \in {"lock"} \cup Sending
      PROVE  IF place \in {"lock"} \cup Sending THEN Stutter ELSE Delivery!Lose(t)
  <2>1. UnderWay' = [UnderWay EXCEPT ![t] = IF place \in {"lock"} \cup Sending
                                            THEN req[t] ELSE None]
    BY <1>6 DEF UnderWay, TypeOK
  <2>2. UnderWay[t] = req[t] /\ UnderWay[t] # None
    BY <1>2, <1>4, <1>6
  <2>3. [UnderWay EXCEPT ![t] = UnderWay[t]] = UnderWay
    BY DEF UnderWay
  <2> QED  BY <1>6, <2>1, <2>2, <2>3 DEF Delivery!Lose
<1>7. ASSUME NEW t \in Threads, NEW place, pc' = [pc EXCEPT ![t] = place],
             place \notin {"lock"} \cup Sending, req' = req, device_phase' = device_phase,
             pc[t] \notin {"lock"} \cup Sending
      PROVE  Stutter
  BY <1>7 DEF UnderWay, TypeOK
<1>8. ASSUME NEW t \in Threads, NEW p \in Phases, BeginCall(t, p) PROVE Delivery!Begin(t)
  BY <1>5, <1>8 DEF BeginCall, Goto
<1>9. ASSUME NEW t \in Threads, BeginExit(t) PROVE Delivery!Begin(t)
  BY <1>1, <1>5, <1>9 DEF BeginExit, Goto, history
<1>10. ASSUME NEW t \in Threads, Acquire(t) \/ Look(t) \/ Open(t) \/ Check(t) \/ LoadFd(t)
       PROVE  Delivery!Lose(t) \/ Stutter
  <2>1. /\ req' = req /\ device_phase' = device_phase /\ pc[t] \in {"lock"} \cup Sending
        /\ \E place \in {"send", "open", "check", "load", "write", "note", "idle"} :
             pc' = [pc EXCEPT ![t] = place]
    BY <1>10 DEF Acquire, Look, Open, Check, LoadFd, Sent, Raise, Goto, caller, history, Sending
  <2> QED  BY <1>6, <2>1
<1>11. ASSUME NEW t \in Threads, Write(t)
       PROVE  Delivery!Tell(t) \/ Delivery!Lose(t)
  <2>1. /\ pc[t] = "write" /\ req' = req
        /\ pc' = [pc EXCEPT ![t] = "note"] \/ pc' = [pc EXCEPT ![t] = "idle"]
    BY <1>11, WriteMoves DEF caller
  <2>2. device_phase' = req[t] \/ device_phase' = device_phase
    BY <1>11, Zenon DEF Write, history
  <2>3. UnderWay' = [UnderWay EXCEPT ![t] = None]
    BY <2>1 DEF UnderWay, TypeOK, Sending
  <2>4. UnderWay[t] = req[t] /\ UnderWay[t] # None
    BY <1>2, <1>4, <2>1 DEF Sending
  <2> QED  BY <2>2, <2>3, <2>4 DEF Delivery!Tell, Delivery!Lose
<1>12. ASSUME NEW t \in Threads, NotePhase(t) \/ CloseFd(t) \/ UnsetFd(t)
       PROVE  Stutter
  <2>1. /\ req' = req /\ device_phase' = device_phase
        /\ pc[t] \in {"note", "close", "unset"}
        /\ \E place \in {"idle", "close", "unset"} : pc' = [pc EXCEPT ![t] = place]
    BY <1>12 DEF NotePhase, CloseFd, UnsetFd, Goto, caller, history, TypeOK
  <2> QED  BY <1>7, <2>1 DEF Sending
<1>13. OtherFiles \/ LoadOrUnload \/ UNCHANGED vars => Stutter
  BY DEF OtherFiles, LoadOrUnload, vars, caller, history, UnderWay
<1> QED  BY <1>8, <1>9, <1>10, <1>11, <1>12, <1>13 DEF Next, Step

\* However threads, the lock, the close and other files run into each other, the driver
\* is told the phase of a call once or not at all, in one step of that call, and is told
\* nothing else (MemHintScheduler.on_prefill_start and its kin, MemHintClient.send).
THEOREM HintsToldAtMostOnce == Spec => Delivery!Spec
<1>1. Init => Delivery!Init
  BY DEF Init, Delivery!Init, UnderWay, Sending
<1> QED  BY <1>1, StepDelivers, TypeCorrect, PTL DEF Spec, Delivery!Spec
=============================================================================
