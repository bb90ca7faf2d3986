---------------------------- MODULE MemHintTools ----------------------------
(***************************************************************************)
(* Programs on top of the C library: basic_hint, phase_monitor, a session  *)
(* that keeps the device open and sends hints, and a tuner that sets       *)
(* policies.  Each library function is the steps between which the world   *)
(* can change: the module is loaded and unloaded, others announce phases   *)
(* and store attributes.                                                   *)
(*                                                                         *)
(* The library looks for the attributes under the path that the README     *)
(* gives.  Whether they are there is up to the variable attrs: with the    *)
(* module of this repository, which registers a platform device and no     *)
(* driver, they never are, so that attrs stays FALSE; with a kernel that   *)
(* keeps to the README they come and go with the module.                   *)
(***************************************************************************)
EXTENDS MemHintSysfs, Sequences

CONSTANTS
  Procs,        \* The processes.
  Sent,         \* The phases that sessions and others send, valid or not.
  PolicyCalls,  \* What tuners ask for: pairs of a policy and a number.
  U64           \* The number of values of a uint64_t.

ASSUME ToolsAssumption ==
  /\ Sent \subseteq Byte
  /\ \A c \in PolicyCalls : c.attr \in PolicyAttrs /\ c.value \in Int
  /\ U64 \in Nat \ {0}

EPERM  == 1
ENOENT == 2
EIO    == 5
EBADF  == 9
ENODEV == 19
EINVAL == 22

Programs   == {"basic_hint", "phase_monitor", "session", "tuner"}
DeviceFd   == 3     \* The first descriptor after stdin, stdout and stderr.
Unread     == -1    \* What a buffer on the stack holds before it is filled.
NotThere   == -2    \* The text N/A.

\* The attributes in the order in which the programs read them.
Monitored   == <<"current_phase", "p99_latency_ns", "ecc_correctable_rate", "active_channel">>
ReadBack    == <<"current_phase", "p99_latency_ns">>
StatusAttrs == {Monitored[i] : i \in 1..4}
Echoed      == {ReadBack[i] : i \in 1..2}

VARIABLES
  node,     \* Whether /dev/mem_hint exists.
  attrs,    \* Whether the attributes exist where the library looks for them.
  phase,    \* The driver's current phase.
  prog,     \* The program that each process runs.
  pc,       \* Where it is.
  fd,       \* What mem_hint_open returned to it: a descriptor, or minus an error.
  file,     \* The attribute it has open: none, live, or dead since an unload.
  todo,     \* The attributes it has still to read.
  ret,      \* What the library returned last; the monitor adds its reads up.
  buf,      \* Its buffers for attributes.
  call,     \* The tuner's call.
  printed,  \* What basic_hint printed of its buffers.
  stray,    \* History: whether a hint was written to something else than the device.
  seen,     \* History: the phases in force since the monitor's poll began.
  stored    \* History: whether the tuner's number was stored.

kernel  == <<node, attrs, phase>>
io      == <<fd, file, todo, ret, buf, call, printed>>
history == <<stray, seen, stored>>
tools_vars == <<kernel, prog, pc, io, history, sysfs_vars>>

NoCall == [attr |-> "decode_trcd", value |-> 0]
Fresh  == [a \in StatusAttrs |-> Unread]

ToolsInit ==
  /\ SysfsInit
  /\ node = FALSE
  /\ attrs = FALSE
  /\ phase = PHASE_IDLE
  /\ prog = [p \in Procs |-> "session"]
  /\ pc = [p \in Procs |-> "idle"]
  /\ fd = [p \in Procs |-> -EBADF]
  /\ file = [p \in Procs |-> "none"]
  /\ todo = [p \in Procs |-> <<>>]
  /\ ret = [p \in Procs |-> 0]
  /\ buf = [p \in Procs |-> Fresh]
  /\ call = [p \in Procs |-> NoCall]
  /\ printed = [p \in Procs |-> Fresh]
  /\ stray = FALSE
  /\ seen = [p \in Procs |-> {}]
  /\ stored = [p \in Procs |-> FALSE]

Goto(p, there) == pc' = [pc EXCEPT ![p] = there]

-----------------------------------------------------------------------------
(* Processes come and go.                                                  *)

Start(p) ==
  /\ pc[p] = "idle"
  /\ \E g \in Programs :
       /\ prog' = [prog EXCEPT ![p] = g]
       /\ Goto(p, CASE g = "phase_monitor" -> "poll"
                    [] g = "tuner"         -> "policy"
                    [] OTHER               -> "open")
       /\ IF g = "tuner" THEN \E c \in PolicyCalls : call' = [call EXCEPT ![p] = c]
                         ELSE UNCHANGED call
  /\ UNCHANGED <<kernel, fd, file, todo, ret, buf, printed, history, sysfs_vars>>

\* The process exits; its stack is gone.
Exit(p) ==
  /\ pc[p] \in {"answered", "end"}
  /\ Goto(p, "idle")
  /\ prog' = [prog EXCEPT ![p] = "session"]
  /\ fd' = [fd EXCEPT ![p] = -EBADF]
  /\ todo' = [todo EXCEPT ![p] = <<>>]
  /\ ret' = [ret EXCEPT ![p] = 0]
  /\ buf' = [buf EXCEPT ![p] = Fresh]
  /\ call' = [call EXCEPT ![p] = NoCall]
  /\ printed' = [printed EXCEPT ![p] = Fresh]
  /\ seen' = [seen EXCEPT ![p] = {}]
  /\ stored' = [stored EXCEPT ![p] = FALSE]
  /\ UNCHANGED <<kernel, file, stray, sysfs_vars>>

-----------------------------------------------------------------------------
(* The device: mem_hint_open, mem_hint_send, mem_hint_close.               *)

\* Mutant: the error number is returned without its sign.
OpenResultsMutPositive == IF node THEN {DeviceFd, EPERM} ELSE {ENOENT}

\* The driver opens for the privileged only.
OpenResults == IF node THEN {DeviceFd, -EPERM} ELSE {-ENOENT}

\* A session goes on whatever it got; basic_hint gives up.
OpenDevice(p) ==
  /\ pc[p] = "open"
  /\ \E r \in OpenResults :
       /\ fd' = [fd EXCEPT ![p] = r]
       /\ Goto(p, IF prog[p] = "session" THEN "session" ELSE IF r < 0 THEN "end" ELSE "send")
  /\ UNCHANGED <<kernel, prog, file, todo, ret, buf, call, printed, history, sysfs_vars>>

\* mem_hint_send: refused without a descriptor or for a phase that does not exist;
\* otherwise the bytes go to the descriptor, and the driver takes them.
Send(p, ph) ==
  IF fd[p] < 0 \/ ph \notin PhaseIds
  THEN ret' = [ret EXCEPT ![p] = -EINVAL] /\ UNCHANGED <<phase, stray, seen>>
  ELSE /\ ret' = [ret EXCEPT ![p] = 0]
       /\ IF fd[p] = DeviceFd
          THEN /\ phase' = ph
               /\ seen' = [q \in Procs |-> seen[q] \cup {ph}]
               /\ UNCHANGED stray
          ELSE stray' = TRUE /\ UNCHANGED <<phase, seen>>

SessionSend(p) ==
  /\ pc[p] = "session"
  /\ \E ph \in Sent : Send(p, ph)
  /\ UNCHANGED <<node, attrs, prog, pc, fd, file, todo, buf, call, printed, stored, sysfs_vars>>

\* basic_hint sends its decode hint and goes on to read back what became of it.
BasicSend(p) ==
  /\ pc[p] = "send"
  /\ Send(p, PHASE_DECODE)
  /\ todo' = [todo EXCEPT ![p] = ReadBack]
  /\ Goto(p, IF ret'[p] < 0 THEN "close" ELSE "read")
  /\ UNCHANGED <<node, attrs, prog, fd, file, buf, call, printed, stored, sysfs_vars>>

\* mem_hint_close, on what mem_hint_open returned.
CloseDevice(p) ==
  /\ pc[p] \in {"session", "close"}
  /\ fd' = [fd EXCEPT ![p] = -EBADF]
  /\ Goto(p, "end")
  /\ UNCHANGED <<kernel, prog, file, todo, ret, buf, call, printed, history, sysfs_vars>>

-----------------------------------------------------------------------------
(* mem_hint_read_status and its readers.                                   *)

\* Mutant: each read overwrites what the monitor knows of the ones before.
ResultMutLast(p, r) == ret' = [ret EXCEPT ![p] = r]

\* basic_hint looks at each result; the monitor ORs them, so that one error makes
\* the sum negative.
Result(p, r) ==
  ret' = [ret EXCEPT ![p] = IF prog[p] = "phase_monitor" /\ r = 0 THEN @ ELSE r]

\* A read returns; a buffer keeps what it held unless the read succeeded.
ReadReturns(p, r) ==
  /\ Result(p, r)
  /\ buf' = IF r = 0 THEN [buf EXCEPT ![p][Head(todo[p])] =
                             IF Head(todo[p]) = "current_phase" THEN phase ELSE 0]
                     ELSE buf
  /\ todo' = [todo EXCEPT ![p] = Tail(@)]
  /\ Goto(p, IF Len(todo[p]) = 1 THEN "show" ELSE "read")

\* fopen
ReadOpen(p) ==
  /\ pc[p] = "read"
  /\ \/ attrs /\ file' = [file EXCEPT ![p] = "live"] /\ Goto(p, "gets")
              /\ UNCHANGED <<todo, ret, buf>>
     \/ ~attrs /\ ReadReturns(p, -ENOENT) /\ UNCHANGED file
  /\ UNCHANGED <<kernel, prog, fd, call, printed, history, sysfs_vars>>

\* fgets, for which the attribute's show function runs, and fclose.  Of what the
\* attributes show, only the phase is followed.
ReadLine(p) ==
  /\ pc[p] = "gets"
  /\ ReadReturns(p, IF file[p] = "live" THEN 0 ELSE -EIO)
  /\ file' = [file EXCEPT ![p] = "none"]
  /\ UNCHANGED <<kernel, prog, fd, call, printed, history, sysfs_vars>>

\* The top of the monitor's loop; a signal that has arrived ends it here.
Poll(p) ==
  /\ pc[p] = "poll"
  /\ \/ /\ todo' = [todo EXCEPT ![p] = Monitored]
        /\ ret' = [ret EXCEPT ![p] = 0]
        /\ seen' = [seen EXCEPT ![p] = {phase}]
        /\ Goto(p, "read")
     \/ Goto(p, "end") /\ UNCHANGED <<todo, ret, seen>>
  /\ UNCHANGED <<kernel, prog, fd, file, buf, call, printed, stray, stored, sysfs_vars>>

\* The monitor gives up, or draws its table and sleeps.
Draw(p) ==
  /\ pc[p] = "show"
  /\ prog[p] = "phase_monitor"
  /\ Goto(p, IF ret[p] < 0 THEN "end" ELSE "poll")
  /\ UNCHANGED <<kernel, prog, io, history, sysfs_vars>>

\* basic_hint's last line, N/A for an empty buffer.  A buffer that was not filled
\* holds whatever the stack held: an empty string, or some other.
Report(p) ==
  /\ pc[p] = "show"
  /\ prog[p] = "basic_hint"
  /\ \E empty \in SUBSET {a \in Echoed : buf[p][a] = Unread} :
       printed' = [printed EXCEPT ![p] =
                     [a \in StatusAttrs |-> IF a \in empty THEN NotThere ELSE buf[p][a]]]
  /\ Goto(p, "close")
  /\ UNCHANGED <<kernel, prog, fd, file, todo, ret, buf, call, history, sysfs_vars>>

-----------------------------------------------------------------------------
(* mem_hint_set_policy.                                                    *)

PolicyOpen(p) ==
  /\ pc[p] = "policy"
  /\ \/ attrs /\ file' = [file EXCEPT ![p] = "live"] /\ Goto(p, "flush") /\ UNCHANGED ret
     \/ /\ ~attrs
        /\ ret' = [ret EXCEPT ![p] = -ENOENT] /\ Goto(p, "answered") /\ UNCHANGED file
  /\ UNCHANGED <<kernel, prog, fd, todo, buf, call, printed, history, sysfs_vars>>

\* Mutant: what fclose returns is not looked at.
PolicyAnswersMutZero(p, r) == ret' = [ret EXCEPT ![p] = 0] /\ Goto(p, "answered")

PolicyAnswers(p, r) == ret' = [ret EXCEPT ![p] = r] /\ Goto(p, "answered")

\* fprintf only fills stdio's buffer; fclose writes it, for which the store function
\* runs, and returns the store's error.  The number is printed as a uint64_t.
PolicyClose(p) ==
  /\ pc[p] = "flush"
  /\ LET a == call[p].attr  v == call[p].value % U64 IN
       \/ /\ file[p] = "live" /\ Store(a, v)
          /\ PolicyAnswers(p, 0)
          /\ stored' = [stored EXCEPT ![p] = TRUE]
       \/ /\ file[p] = "live" /\ Refuse(a, v)
          /\ PolicyAnswers(p, -EINVAL)
          /\ UNCHANGED stored
       \/ /\ file[p] = "dead"
          /\ PolicyAnswers(p, -ENODEV)
          /\ UNCHANGED <<stored, sysfs_vars>>
  /\ file' = [file EXCEPT ![p] = "none"]
  /\ UNCHANGED <<kernel, prog, fd, todo, buf, call, printed, stray, seen>>

-----------------------------------------------------------------------------
(* The rest of the world.                                                  *)

Load ==
  /\ ~node
  /\ node' = TRUE
  /\ phase' = PHASE_IDLE
  /\ tuned' = [a \in Attrs |-> Default(a)]
  /\ written' = tuned'
  /\ seen' = [p \in Procs |-> seen[p] \cup {PHASE_IDLE}]
  /\ UNCHANGED <<attrs, prog, pc, io, stray, stored>>

\* The groups come after the node, and not at all if the kernel cannot make them.
CreateAttrs ==
  /\ node /\ ~attrs
  /\ attrs' = TRUE
  /\ UNCHANGED <<node, phase, prog, pc, io, history, sysfs_vars>>

\* Not while somebody has the device open.  Attributes that are open do not keep the
\* module, but die.
Unload ==
  /\ node /\ \A p \in Procs : fd[p] # DeviceFd
  /\ node' = FALSE
  /\ attrs' = FALSE
  /\ file' = [p \in Procs |-> IF file[p] = "live" THEN "dead" ELSE file[p]]
  /\ UNCHANGED <<phase, prog, pc, fd, todo, ret, buf, call, printed, history, sysfs_vars>>

\* Another process's hint, or the classifier's.
Announce ==
  /\ node
  /\ phase' \in Sent \cap PhaseIds
  /\ seen' = [p \in Procs |-> seen[p] \cup {phase'}]
  /\ UNCHANGED <<node, attrs, prog, pc, io, stray, stored, sysfs_vars>>

\* Root stores attributes by hand.
Shell == attrs /\ SysfsNext /\ UNCHANGED <<kernel, prog, pc, io, history>>

Step(p) == \/ Start(p) \/ Exit(p)
           \/ OpenDevice(p) \/ SessionSend(p) \/ BasicSend(p) \/ CloseDevice(p)
           \/ ReadOpen(p) \/ ReadLine(p) \/ Poll(p) \/ Draw(p) \/ Report(p)
           \/ PolicyOpen(p) \/ PolicyClose(p)

ToolsNext == \/ \E p \in Procs : Step(p)
             \/ Load \/ CreateAttrs \/ Unload \/ Announce \/ Shell

ToolsSpec == ToolsInit /\ [][ToolsNext]_tools_vars

-----------------------------------------------------------------------------

\* An error that mem_hint_open returned is never taken for a descriptor: a session
\* that goes on after a failed open writes nothing anywhere, although the errors
\* have the numbers of its standard output and standard error.
HintsGoWhereOpened == ~stray

\* mem_hint_set_policy returns 0 if and only if the kernel took the number, also
\* when the module is unloaded between its fopen and its fclose, and when a negative
\* number has become a large one.
PolicyAnswerIsTrue ==
  \A p \in Procs : pc[p] = "answered" => (ret[p] = 0 <=> stored[p])

\* The monitor never draws a row of an earlier poll or of no poll: when it comes to
\* draw, all four attributes were read in this poll, and the phase was in force at
\* some time during it, whatever was loaded, unloaded and announced in between.
RowIsOfThisPoll ==
  \A p \in Procs : (pc[p] = "show" /\ prog[p] = "phase_monitor" /\ ret[p] >= 0) =>
    /\ buf[p]["current_phase"] \in seen[p]
    /\ \A a \in StatusAttrs : buf[p][a] # Unread

-----------------------------------------------------------------------------
(* What basic_hint means to print and does not.                            *)

\* The last line shows what was read, and N/A for what was not.
ReportIsReadOrNA ==
  \A p \in Procs : (pc[p] = "close" /\ prog[p] = "basic_hint") =>
    \A a \in Echoed : printed[p][a] # Unread
=============================================================================
