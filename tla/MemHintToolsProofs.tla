------------------------ MODULE MemHintToolsProofs ------------------------
(***************************************************************************)
(* What the tuning surface guarantees for any sequence of stores of any    *)
(* numbers, and the programs on top of the C library for any number of     *)
(* processes.                                                              *)
(***************************************************************************)
EXTENDS MemHintTools, TLAPS

\* The range of each store function, by the type of the variable behind it.
LEMMA Ranges ==
  ASSUME NEW a \in Attrs
  PROVE  /\ a = "prefill_ctle_gain_db" => Accepted(a) = (-12)..12
         /\ a \in Swings => Accepted(a) = 200..400
         /\ a \in ThresholdAttrs => Accepted(a) \subseteq Nat
         /\ a \in Attrs \ (Swings \cup ThresholdAttrs \cup {"prefill_ctle_gain_db"})
              => Accepted(a) \subseteq 0..255
<1>1. FloorMax \in Nat
  BY SMT DEF FloorMax
<1>2. a = "prefill_ctle_gain_db" => Accepted(a) = (-12)..12
  BY DEF Accepted, Swings
<1>3. a \in Swings => Accepted(a) = 200..400
  BY DEF Accepted, Swings
<1>4. a \in ThresholdAttrs => Accepted(a) \subseteq Nat
  BY <1>1 DEF Accepted, ThresholdAttrs, Swings
<1>5. a \in {"decode_trcd", "decode_dfe_tap1", "agentic_priority", "idle_pll_reduction"}
        => Accepted(a) \subseteq 0..255
  BY DEF Accepted, Swings
<1> QED
  BY <1>2, <1>3, <1>4, <1>5 DEF Attrs, PolicyAttrs, Swings

\* What every store function accepts is a set of integers that its cast leaves
\* alone.
LEMMA CastIsHarmless ==
  ASSUME NEW a \in Attrs, NEW v \in Accepted(a)
  PROVE  v \in Int /\ Cast(a, v) = v
<1> DEFINE Bytes == Attrs \ (Swings \cup ThresholdAttrs \cup {"prefill_ctle_gain_db"})
<1>1. CASE a = "prefill_ctle_gain_db"
  <2>1. v \in (-12)..12
    BY <1>1, Ranges
  <2>2. (v + 128) % 256 = v + 128
    BY <2>1
  <2>3. Cast(a, v) = ((v + 128) % 256) - 128
    BY <1>1 DEF Cast, Swings, ThresholdAttrs
  <2> QED  BY <2>1, <2>2, <2>3
<1>2. CASE a \in Swings
  <2>1. v \in 200..400
    BY <1>2, Ranges
  <2>2. v % (U16Max + 1) = v
    BY <2>1, SMT DEF U16Max
  <2> QED  BY <1>2, <2>1, <2>2 DEF Cast, Swings
<1>3. CASE a \in ThresholdAttrs
  <2>1. v \in Nat
    BY <1>3, Ranges
  <2> QED  BY <1>3, <2>1 DEF Cast, ThresholdAttrs, Swings
<1>4. CASE a \in Bytes
  <2>1. v \in 0..255
    BY <1>4, Ranges
  <2>2. v % (U8Max + 1) = v
    BY <2>1, SMT DEF U8Max
  <2> QED  BY <1>4, <2>1, <2>2 DEF Cast
<1> QED  BY <1>1, <1>2, <1>3, <1>4

\* The value each variable has at load is one that its store would accept.
LEMMA DefaultIsAccepted ==
  ASSUME NEW a \in Attrs
  PROVE  Default(a) \in Accepted(a)
<1>1. CASE a \in Swings
  <2>1. Default(a) \in {240, 280, 300}
    BY <1>1 DEF Default, Swings
  <2> QED  BY <1>1, <2>1, Ranges
<1>2. CASE a = "prefill_ctle_gain_db"
  <2>1. Default(a) = 2
    BY <1>2 DEF Default
  <2> QED  BY <1>2, <2>1, Ranges
<1>3. CASE a \in PolicyAttrs \ (Swings \cup {"prefill_ctle_gain_db"})
  <2>1. \/ Default(a) = 18 /\ Accepted(a) = 14..32
        \/ Default(a) = 20 /\ Accepted(a) = 0..255
        \/ Default(a) = 5 /\ Accepted(a) = 0..7
        \/ Default(a) = 1 /\ Accepted(a) = 0..1
    BY <1>3 DEF Default, Accepted, PolicyAttrs, Swings
  <2> QED  BY <2>1
<1>4. CASE a \in ThresholdAttrs
  <2>1. \/ Default(a) = 10 /\ Accepted(a) = 1..1024
        \/ Default(a) = 1 /\ Accepted(a) = 0..64
        \/ Default(a) = 5000 /\ Accepted(a) = 1..FloorMax
        \/ Default(a) = 50 /\ Accepted(a) = 1..100
        \/ Default(a) = 1000 /\ Accepted(a) = 0..FloorMax
    <3>1. a = "prefill_wr_bw" => Default(a) = 10 /\ Accepted(a) = 1..1024
      BY DEF Default, Accepted, Swings
    <3>2. a = "decode_wr_ceil" => Default(a) = 1 /\ Accepted(a) = 0..64
      BY DEF Default, Accepted, Swings
    <3>3. a = "decode_llc_floor" => Default(a) = 5000 /\ Accepted(a) = 1..FloorMax
      BY DEF Default, Accepted, Swings
    <3>4. a = "agentic_var_pct" => Default(a) = 50 /\ Accepted(a) = 1..100
      BY DEF Default, Accepted, Swings
    <3>5. a = "idle_cmd_floor" => Default(a) = 1000 /\ Accepted(a) = 0..FloorMax
      BY DEF Default, Accepted, Swings
    <3> QED  BY <1>4, <3>1, <3>2, <3>3, <3>4, <3>5 DEF ThresholdAttrs
  <2>2. FloorMax \in Nat /\ 5000 < FloorMax
    BY SMT DEF FloorMax
  <2> QED  BY <2>1, <2>2
<1> QED  BY <1>1, <1>2, <1>3, <1>4 DEF Attrs

\* The inductive invariant: every variable holds a number that its own store
\* accepts, the one written last.
InRange == /\ tuned \in [Attrs -> Int]
           /\ tuned = written
           /\ \A a \in Attrs : tuned[a] \in Accepted(a)

LEMMA StoreInRange ==
  ASSUME InRange, NEW a \in Attrs, NEW v, Store(a, v)
  PROVE  InRange'
<1>1. v \in Int /\ Cast(a, v) = v /\ v \in Accepted(a)
  BY CastIsHarmless DEF Store
<1>2. /\ tuned' = [tuned EXCEPT ![a] = v]
      /\ written' = [written EXCEPT ![a] = v]
  BY <1>1 DEF Store
<1> QED  BY <1>1, <1>2 DEF InRange

LEMMA DefaultsInRange ==
  ASSUME tuned = [a \in Attrs |-> Default(a)], written = tuned
  PROVE  InRange
BY DefaultIsAccepted, CastIsHarmless DEF InRange

LEMMA SysfsStepInRange == InRange /\ [SysfsNext]_sysfs_vars => InRange'
<1> SUFFICES ASSUME InRange, [SysfsNext]_sysfs_vars  PROVE InRange'
  OBVIOUS
<1>1. CASE \E a \in Attrs : \E v \in StoredValues[a] : Store(a, v)
  BY <1>1, StoreInRange
<1>2. CASE UNCHANGED sysfs_vars
  BY <1>2 DEF InRange, sysfs_vars
<1> QED  BY <1>1, <1>2 DEF SysfsNext, Refuse

LEMMA InRangeHolds == SysfsSpec => []InRange
<1>1. SysfsInit => InRange
  BY DefaultsInRange DEF SysfsInit
<1> QED  BY <1>1, SysfsStepInRange, PTL DEF SysfsSpec

-----------------------------------------------------------------------------
(* Programs on top of the C library: types.                                *)

Places == {"idle", "open", "session", "send", "close", "read", "gets", "poll", "show",
           "policy", "flush", "answered", "end"}

ToolsTypeOK ==
  /\ prog \in [Procs -> Programs]
  /\ pc \in [Procs -> Places]
  /\ fd \in [Procs -> Int]
  /\ file \in [Procs -> {"none", "live", "dead"}]
  /\ todo = [p \in Procs |-> todo[p]]
  /\ ret \in [Procs -> Int]
  /\ buf \in [Procs -> [StatusAttrs -> Int]]
  /\ call \in [Procs -> PolicyCalls \cup {NoCall}]
  /\ phase \in PhaseIds
  /\ seen \in [Procs -> SUBSET PhaseIds]
  /\ stored \in [Procs -> BOOLEAN]

LEMMA PhaseFacts ==
  /\ PHASE_IDLE \in PhaseIds /\ PHASE_DECODE \in PhaseIds
  /\ PhaseIds \subseteq Nat
BY DEF PhaseIds, PHASE_PREFILL, PHASE_DECODE, PHASE_IDLE, PHASE_BACKWARD

\* Every error is reported as a negative number, none as a descriptor.
LEMMA ErrorFacts ==
  \A e \in {EPERM, ENOENT, EIO, EBADF, ENODEV, EINVAL} : -e \in Int /\ -e < 0
BY DEF EPERM, ENOENT, EIO, EBADF, ENODEV, EINVAL

\* Whatever is done of a send, it returns 0 or -EINVAL and tells a known phase.
LEMMA SendTypes ==
  ASSUME ToolsTypeOK, NEW p \in Procs, NEW ph, Send(p, ph)
  PROVE  /\ ret' \in [Procs -> Int]
         /\ phase' \in PhaseIds
         /\ seen' \in [Procs -> SUBSET PhaseIds]
BY PhaseFacts DEF ToolsTypeOK, Send, EINVAL

LEMMA ReadTypes ==
  ASSUME ToolsTypeOK, NEW p \in Procs, NEW r \in Int, ReadReturns(p, r)
  PROVE  /\ ret' \in [Procs -> Int]
         /\ buf' \in [Procs -> [StatusAttrs -> Int]]
         /\ todo' = [q \in Procs |-> todo'[q]]
         /\ pc' \in [Procs -> Places]
<1>1. ret' \in [Procs -> Int]
  BY DEF ToolsTypeOK, ReadReturns, Result
<1>2. buf' \in [Procs -> [StatusAttrs -> Int]]
  <2>2. CASE r = 0
    <3> DEFINE n == IF Head(todo[p]) = "current_phase" THEN phase ELSE 0
    <3>1. buf' = [buf EXCEPT ![p] = [buf[p] EXCEPT ![Head(todo[p])] = n]] /\ n \in Int
      BY <2>2, PhaseFacts DEF ToolsTypeOK, ReadReturns
    <3> HIDE DEF n
    <3>2. [buf[p] EXCEPT ![Head(todo[p])] = n] \in [StatusAttrs -> Int]
      BY <3>1 DEF ToolsTypeOK
    <3> QED  BY <3>1, <3>2 DEF ToolsTypeOK
  <2>3. CASE r # 0
    BY <2>3 DEF ToolsTypeOK, ReadReturns
  <2> QED  BY <2>2, <2>3
<1>3. todo' = [q \in Procs |-> todo'[q]]
  BY DEF ToolsTypeOK, ReadReturns
<1>4. pc' \in [Procs -> Places]
  BY DEF ToolsTypeOK, ReadReturns, Goto, Places
<1> QED  BY <1>1, <1>2, <1>3, <1>4

LEMMA InitTools == ToolsInit => ToolsTypeOK
BY PhaseFacts DEF ToolsInit, ToolsTypeOK, Programs, Places, EBADF, Fresh, Unread

LEMMA StepTypes == ToolsTypeOK /\ [ToolsNext]_tools_vars => ToolsTypeOK'
<1> SUFFICES ASSUME ToolsTypeOK, [ToolsNext]_tools_vars PROVE ToolsTypeOK'
  OBVIOUS
<1> USE PhaseFacts DEF ToolsTypeOK, kernel, io, history
<1>1. ASSUME NEW p \in Procs, Start(p) PROVE ToolsTypeOK'
  <2>1. prog' \in [Procs -> Programs] /\ pc' \in [Procs -> Places]
    BY <1>1 DEF Start, Goto, Places, Programs
  <2>2. call' \in [Procs -> PolicyCalls \cup {NoCall}]
    BY <1>1 DEF Start
  <2> QED  BY <1>1, <2>1, <2>2 DEF Start
<1>2. ASSUME NEW p \in Procs, Exit(p) PROVE ToolsTypeOK'
  <2>1. -EBADF \in Int /\ Fresh \in [StatusAttrs -> Int]
    BY ErrorFacts DEF Fresh, Unread
  <2>2. prog' \in [Procs -> Programs] /\ pc' \in [Procs -> Places]
    BY <1>2 DEF Exit, Goto, Places, Programs
  <2>3. fd' \in [Procs -> Int] /\ ret' \in [Procs -> Int] /\ buf' \in [Procs -> [StatusAttrs -> Int]]
    BY <1>2, <2>1 DEF Exit
  <2>4. /\ todo' = [q \in Procs |-> todo'[q]]
        /\ call' \in [Procs -> PolicyCalls \cup {NoCall}]
        /\ seen' \in [Procs -> SUBSET PhaseIds] /\ stored' \in [Procs -> BOOLEAN]
    BY <1>2 DEF Exit
  <2> QED  BY <1>2, <2>2, <2>3, <2>4 DEF Exit
<1>3. ASSUME NEW p \in Procs, OpenDevice(p) PROVE ToolsTypeOK'
  BY <1>3 DEF OpenDevice, OpenResults, Goto, Places, DeviceFd, EPERM, ENOENT
<1>4. ASSUME NEW p \in Procs, SessionSend(p) PROVE ToolsTypeOK'
  BY <1>4, SendTypes DEF SessionSend
<1>5. ASSUME NEW p \in Procs, BasicSend(p) PROVE ToolsTypeOK'
  BY <1>5, SendTypes DEF BasicSend, Goto, Places
<1>6. ASSUME NEW p \in Procs, CloseDevice(p) PROVE ToolsTypeOK'
  BY <1>6 DEF CloseDevice, Goto, Places, EBADF
<1>7. ASSUME NEW p \in Procs, ReadOpen(p) PROVE ToolsTypeOK'
  BY <1>7, ErrorFacts, ReadTypes DEF ReadOpen, Goto, Places
<1>8. ASSUME NEW p \in Procs, ReadLine(p) PROVE ToolsTypeOK'
  BY <1>8, ErrorFacts, ReadTypes DEF ReadLine
<1>9. ASSUME NEW p \in Procs, Poll(p) PROVE ToolsTypeOK'
  BY <1>9 DEF Poll, Goto, Places
<1>10. ASSUME NEW p \in Procs, Draw(p) \/ Report(p) PROVE ToolsTypeOK'
  BY <1>10 DEF Draw, Report, Goto, Places
<1>11. ASSUME NEW p \in Procs, PolicyOpen(p) PROVE ToolsTypeOK'
  <2>1. \/ ret' = ret /\ pc' = [pc EXCEPT ![p] = "flush"]
        \/ ret' = [ret EXCEPT ![p] = -ENOENT] /\ pc' = [pc EXCEPT ![p] = "answered"]
    BY <1>11 DEF PolicyOpen, Goto
  <2>3. ret' \in [Procs -> Int]
    BY <2>1, ErrorFacts
  <2>4. pc' \in [Procs -> Places]
    BY <2>1 DEF Places
  <2>2. file' \in [Procs -> {"none", "live", "dead"}]
    BY <1>11 DEF PolicyOpen
  <2> QED  BY <1>11, <2>2, <2>3, <2>4 DEF PolicyOpen
<1>12. ASSUME NEW p \in Procs, PolicyClose(p) PROVE ToolsTypeOK'
  <2>1. PICK r \in {0, -EINVAL, -ENODEV} : PolicyAnswers(p, r)
    BY <1>12 DEF PolicyClose
  <2>3. ret' \in [Procs -> Int] /\ pc' \in [Procs -> Places]
    BY <2>1, ErrorFacts DEF PolicyAnswers, Goto, Places
  <2>2. file' \in [Procs -> {"none", "live", "dead"}] /\ stored' \in [Procs -> BOOLEAN]
    BY <1>12 DEF PolicyClose
  <2> QED  BY <1>12, <2>2, <2>3 DEF PolicyClose
<1>13. CASE Load \/ CreateAttrs \/ Unload
  BY <1>13 DEF Load, CreateAttrs, Unload
<1>14. CASE Announce
  BY <1>14 DEF Announce
<1>15. CASE Shell
  BY <1>15 DEF Shell
<1>16. CASE UNCHANGED tools_vars
  BY <1>16 DEF tools_vars
<1> QED  BY <1>1, <1>2, <1>3, <1>4, <1>5, <1>6, <1>7, <1>8, <1>9, <1>10, <1>11, <1>12,
            <1>13, <1>14, <1>15, <1>16 DEF ToolsNext, Step

LEMMA ToolsTypes == ToolsSpec => []ToolsTypeOK
BY InitTools, StepTypes, PTL DEF ToolsSpec

-----------------------------------------------------------------------------
(* The tuning surface, alone and under its tools.                          *)

LEMMA InRangeInTools == ToolsSpec => []InRange
<1>1. ToolsInit => InRange
  BY DefaultsInRange DEF ToolsInit, SysfsInit
<1>2. ToolsTypeOK /\ InRange /\ [ToolsNext]_tools_vars => InRange'
  <2> SUFFICES ASSUME ToolsTypeOK, InRange, [ToolsNext]_tools_vars PROVE InRange'
    OBVIOUS
  <2>1. ASSUME NEW p \in Procs, PolicyClose(p) PROVE InRange'
    <3>1. call[p].attr \in Attrs
      BY ToolsAssumption DEF ToolsTypeOK, NoCall, Attrs, PolicyAttrs
    <3>2. CASE UNCHANGED sysfs_vars
      BY <3>2 DEF InRange, sysfs_vars
    <3>3. CASE Store(call[p].attr, call[p].value % U64)
      BY <3>1, <3>3, StoreInRange
    <3> QED  BY <2>1, <3>2, <3>3 DEF PolicyClose, Refuse
  <2>2. CASE Load
    <3>1. InRange'
      BY <2>2, DefaultIsAccepted, CastIsHarmless DEF Load, InRange
    <3> QED  BY <3>1
  <2>3. CASE Shell
    BY <2>3, SysfsStepInRange DEF Shell
  <2>4. CASE UNCHANGED sysfs_vars
    BY <2>4 DEF InRange, sysfs_vars
  <2> QED
    BY <2>1, <2>2, <2>3, <2>4
    DEF ToolsNext, Step, Start, Exit, OpenDevice, SessionSend, BasicSend, CloseDevice, ReadOpen,
        ReadLine, Poll, Draw, Report, PolicyOpen, CreateAttrs, Unload, Announce, tools_vars
<1> QED  BY <1>1, <1>2, ToolsTypes, PTL DEF ToolsSpec

\* Every variable keeps a value of its C type: no store sequence overflows one.
THEOREM TypeCorrect == (SysfsSpec => []SysfsTypeOK) /\ (ToolsSpec => []SysfsTypeOK)
<1>1. InRange => SysfsTypeOK
  <2> SUFFICES ASSUME InRange, NEW a \in Attrs
               PROVE  tuned[a] \in CASE a = "prefill_ctle_gain_db" -> S8
                                     [] a \in Swings               -> U16
                                     [] a \in ThresholdAttrs       -> Nat
                                     [] OTHER                      -> Byte
    BY DEF InRange, SysfsTypeOK
  <2>1. tuned[a] \in Accepted(a)
    BY DEF InRange
  <2>2. CASE a = "prefill_ctle_gain_db"
    <3>1. tuned[a] \in S8
      BY <2>1, <2>2, Ranges DEF S8
    <3> QED  BY <2>2, <3>1 DEF Swings, ThresholdAttrs
  <2>3. CASE a \in Swings
    <3>1. tuned[a] \in 200..400
      BY <2>1, <2>3, Ranges
    <3>2. U16Max \in Nat /\ 400 < U16Max
      BY DEF U16Max
    <3>3. tuned[a] \in U16
      BY <3>1, <3>2 DEF U16
    <3> QED  BY <2>3, <3>3 DEF Swings, ThresholdAttrs
  <2>4. CASE a \in ThresholdAttrs
    <3>1. tuned[a] \in Nat
      BY <2>1, <2>4, Ranges
    <3> QED  BY <2>4, <3>1 DEF ThresholdAttrs, Swings
  <2>5. CASE a \in Attrs \ (Swings \cup ThresholdAttrs \cup {"prefill_ctle_gain_db"})
    <3>1. tuned[a] \in 0..255
      BY <2>1, <2>5, Ranges
    <3>2. tuned[a] \in Byte
      BY <3>1, SMT DEF Byte, U8Max
    <3> QED  BY <2>5, <3>2
  <2> QED  BY <2>2, <2>3, <2>4, <2>5
<1> QED  BY <1>1, InRangeHolds, InRangeInTools, PTL

\* The ranges of the store functions lie within the limiter's, whatever is stored
\* and in whatever order.
THEOREM TunedWithinLimits == (SysfsSpec => []PolicyWithinLimits) /\ (ToolsSpec => []PolicyWithinLimits)
<1>1. InRange => PolicyWithinLimits
  <2> SUFFICES ASSUME InRange  PROVE PolicyWithinLimits
    OBVIOUS
  <2>1. \A a \in Attrs : tuned[a] \in Accepted(a)
    BY DEF InRange
  <2>2. tuned["decode_trcd"] \in 14..32 /\ tuned["agentic_priority"] \in 0..7
    <3>1. "decode_trcd" \in Attrs /\ "agentic_priority" \in Attrs
      BY DEF Attrs, PolicyAttrs
    <3>2. Accepted("decode_trcd") = 14..32 /\ Accepted("agentic_priority") = 0..7
      BY DEF Accepted, Swings
    <3> QED  BY <2>1, <3>1, <3>2
  <2>3. \A a \in Swings : tuned[a] \in 200..400
    BY <2>1, Ranges DEF Attrs, PolicyAttrs, Swings
  <2>4. /\ platform_limits.min["tRCD"] = 14 /\ platform_limits.max["tRCD"] = 32
        /\ platform_limits.min["vswing_mv"] = 200 /\ platform_limits.max["vswing_mv"] = 400
    BY DEF platform_limits, Limited, Hardened, Timings
  <2> QED  BY <2>2, <2>3, <2>4 DEF PolicyWithinLimits
<1> QED  BY <1>1, InRangeHolds, InRangeInTools, PTL

\* What is accepted reads back as it was written.
THEOREM AcceptedReadsBack == (SysfsSpec => []ReadsBackAsWritten) /\ (ToolsSpec => []ReadsBackAsWritten)
<1>1. InRange => ReadsBackAsWritten
  BY DEF InRange, ReadsBackAsWritten
<1> QED  BY <1>1, InRangeHolds, InRangeInTools, PTL

-----------------------------------------------------------------------------
(* The device.                                                             *)

\* Every process has the device open, or an error in place of a descriptor.
Descriptors == ~stray /\ \A p \in Procs : fd[p] = DeviceFd \/ fd[p] < 0

LEMMA DescriptorsHold == ToolsSpec => []Descriptors
<1>1. ToolsInit => Descriptors
  BY ErrorFacts DEF ToolsInit, Descriptors
<1>2. ToolsTypeOK /\ Descriptors /\ [ToolsNext]_tools_vars => Descriptors'
  <2> SUFFICES ASSUME ToolsTypeOK, Descriptors, [ToolsNext]_tools_vars PROVE Descriptors'
    OBVIOUS
  <2>1. ASSUME NEW p \in Procs, Exit(p) \/ CloseDevice(p) PROVE Descriptors'
    <3>1. fd' = [fd EXCEPT ![p] = -EBADF] /\ stray' = stray
      BY <2>1 DEF Exit, CloseDevice, history
    <3>2. -EBADF < 0
      BY ErrorFacts
    <3> QED  BY <3>1, <3>2 DEF Descriptors, ToolsTypeOK
  <2>2. ASSUME NEW p \in Procs, OpenDevice(p) PROVE Descriptors'
    <3>1. \A r \in OpenResults : r = DeviceFd \/ r < 0
      BY ErrorFacts DEF OpenResults
    <3> QED  BY <2>2, <3>1 DEF OpenDevice, Descriptors, ToolsTypeOK, history
  <2>3. ASSUME NEW p \in Procs, NEW ph, Send(p, ph), UNCHANGED fd PROVE Descriptors'
    BY <2>3 DEF Send, Descriptors
  <2>4. CASE UNCHANGED <<fd, stray>>
    BY <2>4 DEF Descriptors
  <2> QED
    BY <2>1, <2>2, <2>3, <2>4
    DEF ToolsNext, Step, Start, SessionSend, BasicSend, ReadOpen, ReadLine, Poll, Draw, Report,
        PolicyOpen, PolicyClose, Load, CreateAttrs, Unload, Announce, Shell, tools_vars, io, history
<1> QED  BY <1>1, <1>2, ToolsTypes, PTL DEF ToolsSpec

\* A hint is written to the device or nowhere, also by a program that goes on after
\* mem_hint_open failed (lib/mem_hint.c).
THEOREM NoStrayHints == ToolsSpec => []HintsGoWhereOpened
<1>1. Descriptors => HintsGoWhereOpened
  BY DEF Descriptors, HintsGoWhereOpened
<1> QED  BY <1>1, DescriptorsHold, PTL

-----------------------------------------------------------------------------
(* mem_hint_set_policy.                                                    *)

\* Until it has its answer, nothing was stored for a tuner.
Answers == \A p \in Procs : IF pc[p] = "answered" THEN ret[p] = 0 <=> stored[p] ELSE ~stored[p]

LEMMA AnswersHold == ToolsSpec => []Answers
<1>1. ToolsInit => Answers
  BY DEF ToolsInit, Answers
<1>2. ToolsTypeOK /\ Answers /\ [ToolsNext]_tools_vars => Answers'
  <2> SUFFICES ASSUME ToolsTypeOK, Answers, [ToolsNext]_tools_vars, NEW q \in Procs
               PROVE  IF pc'[q] = "answered" THEN ret'[q] = 0 <=> stored'[q] ELSE ~stored'[q]
    BY DEF Answers
  <2> DEFINE Good == IF pc'[q] = "answered" THEN ret'[q] = 0 <=> stored'[q] ELSE ~stored'[q]
  <2>1. CASE pc'[q] = pc[q] /\ ret'[q] = ret[q] /\ stored'[q] = stored[q]
    BY <2>1 DEF Answers
  <2>2. CASE pc[q] # "answered" /\ pc'[q] # "answered" /\ stored'[q] = stored[q]
    BY <2>2 DEF Answers
  <2>3. ASSUME NEW p \in Procs, Exit(p) PROVE Good
    BY <2>3 DEF Exit, Goto, ToolsTypeOK, Answers
  <2>4. ASSUME NEW p \in Procs, PolicyClose(p) PROVE Good
    <3>1. CASE p = q
      <4>1. ~stored[q]
        BY <2>4, <3>1 DEF PolicyClose, Answers
      <4>2. pc'[q] = "answered"
        BY <2>4, <3>1 DEF PolicyClose, PolicyAnswers, Goto, ToolsTypeOK
      <4>3. \/ ret'[q] = 0 /\ stored'[q]
            \/ ret'[q] \in {-EINVAL, -ENODEV} /\ stored'[q] = stored[q]
        BY <2>4, <3>1 DEF PolicyClose, PolicyAnswers, ToolsTypeOK
      <4> QED  BY <4>1, <4>2, <4>3, ErrorFacts
    <3>2. CASE p # q
      BY <2>4, <3>2, <2>1 DEF PolicyClose, PolicyAnswers, Goto, ToolsTypeOK
    <3> QED  BY <3>1, <3>2
  <2>5. ASSUME NEW p \in Procs, PolicyOpen(p) PROVE Good
    <3>1. CASE p = q
      <4>1. ~stored[q] /\ stored' = stored
        BY <2>5, <3>1 DEF PolicyOpen, Answers, history
      <4>2. pc'[q] # "answered" \/ ret'[q] = -ENOENT
        BY <2>5, <3>1 DEF PolicyOpen, Goto, ToolsTypeOK
      <4> QED  BY <4>1, <4>2, ErrorFacts
    <3>2. CASE p # q
      BY <2>5, <3>2, <2>1 DEF PolicyOpen, Goto, ToolsTypeOK, history
    <3> QED  BY <3>1, <3>2
  <2>6. ASSUME NEW p \in Procs, NEW ph, Send(p, ph), pc[p] # "answered", UNCHANGED stored,
               UNCHANGED pc \/ Goto(p, "close") \/ Goto(p, "read")
        PROVE Good
    BY <2>6, <2>1, <2>2 DEF Send, Goto, ToolsTypeOK
  <2>7. ASSUME NEW p \in Procs, NEW r, ReadReturns(p, r), pc[p] # "answered", UNCHANGED stored
        PROVE Good
    BY <2>7, <2>1, <2>2 DEF ReadReturns, Result, Goto, ToolsTypeOK
  <2>8. ASSUME NEW p \in Procs, pc[p] # "answered", UNCHANGED <<ret, stored>>,
               NEW there, Goto(p, there), there # "answered"
        PROVE Good
    BY <2>8, <2>1, <2>2 DEF Goto, ToolsTypeOK
  <2>9. ASSUME NEW p \in Procs, Start(p) \/ OpenDevice(p) \/ CloseDevice(p) \/ Draw(p) \/ Report(p)
        PROVE Good
    BY <2>9, <2>8 DEF Start, OpenDevice, CloseDevice, Draw, Report, io, history
  <2>10. ASSUME NEW p \in Procs, Poll(p) PROVE Good
    BY <2>10, <2>1, <2>2 DEF Poll, Goto, ToolsTypeOK
  <2>11. ASSUME NEW p \in Procs, ReadOpen(p) \/ ReadLine(p) PROVE Good
    BY <2>11, <2>7, <2>8 DEF ReadOpen, ReadLine, history
  <2>12. ASSUME NEW p \in Procs, SessionSend(p) \/ BasicSend(p) PROVE Good
    BY <2>12, <2>6 DEF SessionSend, BasicSend
  <2>13. CASE UNCHANGED <<pc, ret, stored>>
    BY <2>13, <2>1
  <2> QED
    BY <2>3, <2>4, <2>5, <2>9, <2>10, <2>11, <2>12, <2>13
    DEF ToolsNext, Step, Load, CreateAttrs, Unload, Announce, Shell, tools_vars, io, history
<1> QED  BY <1>1, <1>2, ToolsTypes, PTL DEF ToolsSpec

\* mem_hint_set_policy returns 0 if and only if the kernel took the number
\* (lib/mem_hint.c), for any policies and numbers.
THEOREM AnswerIsTrue == ToolsSpec => []PolicyAnswerIsTrue
<1>1. Answers => PolicyAnswerIsTrue
  BY DEF Answers, PolicyAnswerIsTrue
<1> QED  BY <1>1, AnswersHold, PTL

-----------------------------------------------------------------------------
(* The phase monitor.                                                      *)

\* What the monitor has still to read, and what it has read, when k are left.
Left(k) == CASE k = 4 -> Monitored
             [] k = 3 -> <<"p99_latency_ns", "ecc_correctable_rate", "active_channel">>
             [] k = 2 -> <<"ecc_correctable_rate", "active_channel">>
             [] k = 1 -> <<"active_channel">>
             [] k = 0 -> <<>>

Read(k) == {Monitored[i] : i \in 1..(4 - k)}

LEMMA LeftFacts ==
  ASSUME NEW k \in 1..4
  PROVE  /\ Left(k) # <<>>
         /\ Tail(Left(k)) = Left(k - 1)
         /\ Len(Left(k)) = 1 <=> k = 1
         /\ Head(Left(k)) \in StatusAttrs
         /\ Read(k - 1) = Read(k) \cup {Head(Left(k))}
         /\ Read(k) \subseteq StatusAttrs
<1>1. CASE k = 4
  BY <1>1 DEF Left, Read, Monitored, StatusAttrs
<1>2. CASE k = 3
  BY <1>2 DEF Left, Read, Monitored, StatusAttrs
<1>3. CASE k = 2
  BY <1>3 DEF Left, Read, Monitored, StatusAttrs
<1>4. CASE k = 1
  BY <1>4 DEF Left, Read, Monitored, StatusAttrs
<1> QED  BY <1>1, <1>2, <1>3, <1>4

LEMMA ReadFacts == Read(4) = {} /\ Read(0) = StatusAttrs /\ "current_phase" \in StatusAttrs
BY DEF Read, Monitored, StatusAttrs

\* A poll under way: the phase in force is among those seen, and unless a read has
\* failed, all that was read was read in this poll.
InPoll(p, k) ==
  /\ phase \in seen[p]
  /\ todo[p] = Left(k) /\ (pc[p] = "show" <=> k = 0)
  /\ ret[p] >= 0 => /\ \A a \in Read(k) : buf[p][a] # Unread
                    /\ "current_phase" \in Read(k) => buf[p]["current_phase"] \in seen[p]

Polling(p) == prog[p] = "phase_monitor" /\ pc[p] \in {"read", "gets", "show"}

Polls == \A p \in Procs : Polling(p) => \E k \in 0..4 : InPoll(p, k)

\* A step that does not concern a poll but for the phases it makes known.
LEMMA PollGoesOn ==
  ASSUME NEW q \in Procs, Polling(q) => \E k \in 0..4 : InPoll(q, k),
         prog'[q] = prog[q], pc'[q] = pc[q] \/ {pc'[q], pc[q]} \subseteq {"read", "gets"},
         todo'[q] = todo[q], ret'[q] = ret[q], buf'[q] = buf[q],
         seen[q] \subseteq seen'[q], phase' \in seen'[q] \/ phase' = phase
  PROVE  Polling(q)' => \E k \in 0..4 : InPoll(q, k)'
BY DEF Polling, InPoll

\* A read that returns: one less is left.
LEMMA PollReads ==
  ASSUME ToolsTypeOK, NEW p \in Procs, Polling(p), NEW k \in 0..4, InPoll(p, k),
         pc[p] # "show", NEW r \in Int, r <= 0, ReadReturns(p, r),
         UNCHANGED <<prog, phase, seen>>
  PROVE  InPoll(p, k - 1)' /\ k - 1 \in 0..4
<1>1. k \in 1..4 /\ k - 1 \in 0..4
  BY DEF InPoll
<1>2. todo'[p] = Left(k - 1)
  BY <1>1, LeftFacts DEF InPoll, ReadReturns, ToolsTypeOK
<1>3. pc'[p] = "show" <=> k - 1 = 0
  BY <1>1, LeftFacts DEF InPoll, ReadReturns, Goto, ToolsTypeOK
<1>4. ret'[p] = IF r = 0 THEN ret[p] ELSE r
  BY DEF ReadReturns, Result, Polling, ToolsTypeOK
<1>5. ASSUME ret'[p] >= 0
      PROVE  /\ \A a \in Read(k - 1) : buf'[p][a] # Unread
             /\ "current_phase" \in Read(k - 1) => buf'[p]["current_phase"] \in seen[p]
  <2> DEFINE x == Head(Left(k))
             n == IF x = "current_phase" THEN phase ELSE 0
  <2>1. r = 0 /\ ret[p] >= 0
    BY <1>4, <1>5
  <2>2. buf'[p] = [buf[p] EXCEPT ![x] = n]
    BY <2>1 DEF ReadReturns, InPoll, ToolsTypeOK
  <2>3. n # Unread /\ (x = "current_phase" => n \in seen[p])
    BY PhaseFacts DEF ToolsTypeOK, InPoll, Unread
  <2>4. buf[p] \in [StatusAttrs -> Int]
    BY DEF ToolsTypeOK
  <2>5. /\ \A a \in Read(k) : buf[p][a] # Unread
        /\ "current_phase" \in Read(k) => buf[p]["current_phase"] \in seen[p]
    BY <2>1 DEF InPoll
  <2>6. x \in StatusAttrs /\ Read(k - 1) = Read(k) \cup {x} /\ Read(k) \subseteq StatusAttrs
    BY <1>1, LeftFacts
  <2> HIDE DEF x, n
  <2>7. \A a \in StatusAttrs : buf'[p][a] = IF a = x THEN n ELSE buf[p][a]
    BY <2>2, <2>4
  <2> QED  BY <2>3, <2>5, <2>6, <2>7, ReadFacts
<1> QED  BY <1>1, <1>2, <1>3, <1>5 DEF InPoll

\* Where a monitor can be.
MonitorPlaces ==
  \A p \in Procs : prog[p] = "phase_monitor" => pc[p] \in {"poll", "read", "gets", "show", "end"}

LEMMA MonitorPlacesHold == ToolsSpec => []MonitorPlaces
<1>1. ToolsInit => MonitorPlaces
  BY DEF ToolsInit, MonitorPlaces
<1>2. ToolsTypeOK /\ MonitorPlaces /\ [ToolsNext]_tools_vars => MonitorPlaces'
  <2> SUFFICES ASSUME ToolsTypeOK, MonitorPlaces, [ToolsNext]_tools_vars PROVE MonitorPlaces'
    OBVIOUS
  <2>1. CASE UNCHANGED <<prog, pc>>
    BY <2>1 DEF MonitorPlaces
  <2>2. ASSUME NEW p \in Procs, NEW there, Goto(p, there), UNCHANGED prog,
               there \in {"poll", "read", "gets", "show", "end"} \/ prog[p] # "phase_monitor"
        PROVE  MonitorPlaces'
    BY <2>2 DEF MonitorPlaces, Goto, ToolsTypeOK
  <2>3. ASSUME NEW p \in Procs, Start(p) \/ Exit(p) PROVE MonitorPlaces'
    BY <2>3 DEF MonitorPlaces, Start, Exit, Goto, ToolsTypeOK
  <2>4. ASSUME NEW p \in Procs, pc[p] \notin {"poll", "read", "gets", "show", "end"}
        PROVE  prog[p] # "phase_monitor"
    BY <2>4 DEF MonitorPlaces
  <2>5. ASSUME NEW p \in Procs, OpenDevice(p) \/ CloseDevice(p) \/ PolicyOpen(p)
        PROVE  MonitorPlaces'
    BY <2>2, <2>4, <2>5 DEF OpenDevice, CloseDevice, PolicyOpen
  <2>6. ASSUME NEW p \in Procs, BasicSend(p) \/ PolicyClose(p) PROVE MonitorPlaces'
    BY <2>2, <2>4, <2>6 DEF BasicSend, PolicyClose, PolicyAnswers
  <2>7. ASSUME NEW p \in Procs, ReadOpen(p) \/ ReadLine(p) \/ Poll(p) PROVE MonitorPlaces'
    BY <2>2, <2>7 DEF ReadOpen, ReadLine, Poll, ReadReturns
  <2>8. ASSUME NEW p \in Procs, Draw(p) \/ Report(p) PROVE MonitorPlaces'
    BY <2>2, <2>8 DEF Draw, Report
  <2> QED
    BY <2>1, <2>3, <2>5, <2>6, <2>7, <2>8
    DEF ToolsNext, Step, SessionSend, Load, CreateAttrs, Unload, Announce, Shell, tools_vars
<1> QED  BY <1>1, <1>2, ToolsTypes, PTL DEF ToolsSpec

LEMMA PollsHold == ToolsSpec => []Polls
<1>1. ToolsInit => Polls
  BY DEF ToolsInit, Polls, Polling
<1>2. ToolsTypeOK /\ MonitorPlaces /\ Polls /\ [ToolsNext]_tools_vars => Polls'
  <2> SUFFICES ASSUME ToolsTypeOK, MonitorPlaces, Polls, [ToolsNext]_tools_vars,
                      NEW q \in Procs
               PROVE  Polling(q)' => \E k \in 0..4 : InPoll(q, k)'
    BY DEF Polls
  <2> DEFINE Good == Polling(q)' => \E k \in 0..4 : InPoll(q, k)'
  <2>0. Polling(q) => \E k \in 0..4 : InPoll(q, k)
    BY DEF Polls
  <2>1. ASSUME prog'[q] = prog[q], pc'[q] = pc[q] \/ {pc'[q], pc[q]} \subseteq {"read", "gets"},
               todo'[q] = todo[q], ret'[q] = ret[q], buf'[q] = buf[q],
               seen[q] \subseteq seen'[q], phase' \in seen'[q] \/ phase' = phase
        PROVE  Good
    BY <2>0, <2>1, PollGoesOn
  <2>2. CASE pc'[q] \notin {"read", "gets", "show"} \/ prog'[q] # "phase_monitor"
    BY <2>2 DEF Polling
  <2>3. ASSUME NEW p \in Procs, Start(p) \/ Exit(p) PROVE Good
    <3>1. CASE p = q
      BY <2>2, <2>3, <3>1 DEF Start, Exit, Goto, ToolsTypeOK
    <3>2. CASE p # q
      BY <2>1, <2>3, <3>2 DEF Start, Exit, Goto, ToolsTypeOK, kernel, history
    <3> QED  BY <3>1, <3>2
  <2>4. ASSUME NEW p \in Procs, OpenDevice(p) \/ CloseDevice(p) \/ PolicyOpen(p) PROVE Good
    <3>1. CASE p = q
      BY <2>2, <2>4, <3>1 DEF OpenDevice, CloseDevice, PolicyOpen, Goto, ToolsTypeOK
    <3>2. CASE p # q
      BY <2>1, <2>4, <3>2 DEF OpenDevice, CloseDevice, PolicyOpen, Goto, ToolsTypeOK, kernel, history
    <3> QED  BY <3>1, <3>2
  <2>5. ASSUME NEW p \in Procs, PolicyClose(p) PROVE Good
    <3>1. CASE p = q
      BY <2>2, <2>5, <3>1 DEF PolicyClose, PolicyAnswers, Goto, ToolsTypeOK
    <3>2. CASE p # q
      BY <2>1, <2>5, <3>2 DEF PolicyClose, PolicyAnswers, Goto, ToolsTypeOK, kernel
    <3> QED  BY <3>1, <3>2
  <2>6. ASSUME NEW p \in Procs, SessionSend(p) PROVE Good
    <3>1. PICK ph : Send(p, ph)
      BY <2>6 DEF SessionSend
    <3>2. CASE p = q
      BY <2>2, <2>6, <3>2 DEF SessionSend
    <3>3. CASE p # q
      BY <2>1, <2>6, <3>1, <3>3 DEF SessionSend, Send, ToolsTypeOK
    <3> QED  BY <3>2, <3>3
  <2>7. ASSUME NEW p \in Procs, BasicSend(p) PROVE Good
    <3>1. CASE p = q
      <4>1. prog[q] # "phase_monitor"
        BY <2>7, <3>1 DEF BasicSend, MonitorPlaces
      <4> QED  BY <2>2, <2>7, <3>1, <4>1 DEF BasicSend
    <3>2. CASE p # q
      BY <2>1, <2>7, <3>2 DEF BasicSend, Send, Goto, ToolsTypeOK
    <3> QED  BY <3>1, <3>2
  <2>8. ASSUME NEW p \in Procs, NEW r \in Int, r <= 0, ReadReturns(p, r),
               pc[p] \in {"read", "gets"}, UNCHANGED <<prog, phase, seen>>
        PROVE  Good
    <3>1. CASE p = q /\ prog[q] = "phase_monitor"
      <4>1. Polling(q)
        BY <2>8, <3>1 DEF Polling
      <4>2. PICK k \in 0..4 : InPoll(q, k)
        BY <2>0, <4>1
      <4> QED  BY <2>8, <3>1, <4>1, <4>2, PollReads
    <3>2. CASE p = q /\ prog[q] # "phase_monitor"
      BY <2>2, <2>8, <3>2
    <3>3. CASE p # q
      BY <2>1, <2>8, <3>3 DEF ReadReturns, Result, Goto, ToolsTypeOK
    <3> QED  BY <3>1, <3>2, <3>3
  <2>9. ASSUME NEW p \in Procs, ReadOpen(p) PROVE Good
    <3>1. CASE attrs
      <4>1. /\ pc'[q] = pc[q] \/ {pc'[q], pc[q]} \subseteq {"read", "gets"}
            /\ UNCHANGED <<prog, todo, ret, buf, seen, phase>>
        BY <2>9, <3>1 DEF ReadOpen, Goto, ToolsTypeOK, kernel, history
      <4> QED  BY <4>1, <2>1
    <3>2. CASE ~attrs
      <4>1. -ENOENT \in Int /\ -ENOENT <= 0
        BY ErrorFacts
      <4> QED  BY <2>8, <2>9, <3>2, <4>1 DEF ReadOpen, kernel, history
    <3> QED  BY <3>1, <3>2
  <2>10. ASSUME NEW p \in Procs, ReadLine(p) PROVE Good
    <3>1. PICK r \in {0, -EIO} : ReadReturns(p, r)
      BY <2>10 DEF ReadLine
    <3>2. r \in Int /\ r <= 0
      BY <3>1, ErrorFacts
    <3> QED  BY <2>8, <2>10, <3>1, <3>2 DEF ReadLine, kernel, history
  <2>11. ASSUME NEW p \in Procs, Poll(p) PROVE Good
    <3>1. CASE p = q /\ pc'[p] = "read"
      <4>1. /\ todo'[q] = Monitored /\ ret'[q] = 0 /\ seen'[q] = {phase} /\ phase' = phase
            /\ pc'[q] = "read"
        BY <2>11, <3>1 DEF Poll, Goto, ToolsTypeOK, kernel
      <4>2. InPoll(q, 4)'
        BY <4>1, ReadFacts DEF InPoll, Left
      <4> QED  BY <4>2
    <3>2. CASE p = q /\ pc'[p] # "read"
      BY <2>2, <2>11, <3>2 DEF Poll, Goto, ToolsTypeOK
    <3>3. CASE p # q
      BY <2>1, <2>11, <3>3 DEF Poll, Goto, ToolsTypeOK, kernel
    <3> QED  BY <3>1, <3>2, <3>3
  <2>12. ASSUME NEW p \in Procs, Draw(p) \/ Report(p) PROVE Good
    <3>1. CASE p = q
      BY <2>2, <2>12, <3>1 DEF Draw, Report, Goto, ToolsTypeOK
    <3>2. CASE p # q
      BY <2>1, <2>12, <3>2 DEF Draw, Report, Goto, ToolsTypeOK, kernel, io, history
    <3> QED  BY <3>1, <3>2
  <2>13. CASE Load
    <3>1. seen[q] \subseteq seen'[q] /\ phase' \in seen'[q]
      BY <2>13 DEF Load, ToolsTypeOK
    <3> QED  BY <2>1, <2>13, <3>1 DEF Load, io
  <2>14. CASE Announce
    <3>1. seen[q] \subseteq seen'[q] /\ phase' \in seen'[q]
      BY <2>14 DEF Announce, ToolsTypeOK
    <3> QED  BY <2>1, <2>14, <3>1 DEF Announce, io
  <2>15. CASE UNCHANGED <<prog, pc, todo, ret, buf, seen, phase>>
    BY <2>1, <2>15
  <2> QED
    BY <2>3, <2>4, <2>5, <2>6, <2>7, <2>9, <2>10, <2>11, <2>12, <2>13, <2>14, <2>15
    DEF ToolsNext, Step, CreateAttrs, Unload, Shell, tools_vars, kernel, io, history
<1> QED  BY <1>1, <1>2, ToolsTypes, MonitorPlacesHold, PTL DEF ToolsSpec

\* The monitor draws what it read in this poll, and a phase that was in force during
\* it (phase_monitor.c), for any number of processes and any announcements.
THEOREM RowOfThisPoll == ToolsSpec => []RowIsOfThisPoll
<1>1. Polls => RowIsOfThisPoll
  <2> SUFFICES ASSUME Polls, NEW p \in Procs, pc[p] = "show", prog[p] = "phase_monitor",
                      ret[p] >= 0
               PROVE  /\ buf[p]["current_phase"] \in seen[p]
                      /\ \A a \in StatusAttrs : buf[p][a] # Unread
    BY DEF RowIsOfThisPoll
  <2>1. InPoll(p, 0)
    BY DEF Polls, Polling, InPoll
  <2> QED  BY <2>1, ReadFacts DEF InPoll
<1> QED  BY <1>1, PollsHold, PTL

-----------------------------------------------------------------------------
(* The tools and the life of the module.                                   *)

\* Who has the device open has it open in a module that is loaded, and an attribute
\* that is open and not dead belongs to one.
OpenMeansLoaded ==
  /\ attrs => node
  /\ \A p \in Procs : /\ fd[p] = DeviceFd => node
                      /\ file[p] = "live" => attrs

LEMMA OpenMeansLoadedHolds == ToolsSpec => []OpenMeansLoaded
<1>1. ToolsInit => OpenMeansLoaded
  BY DEF ToolsInit, OpenMeansLoaded, EBADF, DeviceFd
<1>2. ToolsTypeOK /\ OpenMeansLoaded /\ [ToolsNext]_tools_vars => OpenMeansLoaded'
  <2> SUFFICES ASSUME ToolsTypeOK, OpenMeansLoaded, [ToolsNext]_tools_vars
               PROVE  OpenMeansLoaded'
    OBVIOUS
  <2> USE DEF ToolsTypeOK, OpenMeansLoaded, kernel, io
  <2>1. ASSUME NEW p \in Procs, Exit(p) \/ CloseDevice(p) PROVE OpenMeansLoaded'
    <3>1. fd' = [fd EXCEPT ![p] = -EBADF] /\ UNCHANGED <<node, attrs, file>>
      BY <2>1 DEF Exit, CloseDevice
    <3>2. -EBADF # DeviceFd
      BY DEF EBADF, DeviceFd
    <3> QED  BY <3>1, <3>2
  <2>2. ASSUME NEW p \in Procs, OpenDevice(p) PROVE OpenMeansLoaded'
    <3>1. PICK r \in OpenResults : fd' = [fd EXCEPT ![p] = r]
      BY <2>2 DEF OpenDevice
    <3>2. r = DeviceFd => node
      BY DEF OpenResults, DeviceFd, ENOENT
    <3> QED  BY <2>2, <3>1, <3>2 DEF OpenDevice
  <2>3. ASSUME NEW p \in Procs, ReadOpen(p) \/ PolicyOpen(p) PROVE OpenMeansLoaded'
    BY <2>3 DEF ReadOpen, PolicyOpen
  <2>4. ASSUME NEW p \in Procs, ReadLine(p) \/ PolicyClose(p) PROVE OpenMeansLoaded'
    BY <2>4 DEF ReadLine, PolicyClose
  <2>5. CASE Load \/ CreateAttrs \/ Unload
    BY <2>5 DEF Load, CreateAttrs, Unload
  <2>6. CASE UNCHANGED <<node, attrs, fd, file>>
    BY <2>6
  <2> QED
    BY <2>1, <2>2, <2>3, <2>4, <2>5, <2>6
    DEF ToolsNext, Step, Start, SessionSend, BasicSend, Poll, Draw, Report, Announce, Shell,
        tools_vars
<1> QED  BY <1>1, <1>2, ToolsTypes, PTL DEF ToolsSpec

\* A hint and a number reach only a module that is loaded, also when it was unloaded
\* between the steps of a library function: neither the phase nor an attribute moves
\* while there is none, and one store moves one attribute, within its range, while the
\* attributes are there.  Only a load brings every attribute back to its default.
MovedOnlyWhileLoaded ==
  [][/\ phase' # phase => node'
     /\ tuned' # tuned =>
          \/ Load
          \/ /\ attrs /\ node'
             /\ \E a \in Attrs : /\ tuned'[a] \in Accepted(a)
                                /\ \A b \in Attrs \ {a} : tuned'[b] = tuned[b]]_tools_vars

LEMMA StoreMovesOne ==
  ASSUME InRange, NEW a \in Attrs, NEW v, Store(a, v)
  PROVE  /\ tuned'[a] \in Accepted(a)
         /\ \A b \in Attrs \ {a} : tuned'[b] = tuned[b]
<1>1. Cast(a, v) = v /\ v \in Accepted(a)
  BY CastIsHarmless DEF Store
<1> QED  BY <1>1 DEF Store, InRange

LEMMA MoveStep ==
  ASSUME ToolsTypeOK, InRange, OpenMeansLoaded, [ToolsNext]_tools_vars
  PROVE  /\ phase' # phase => node'
         /\ tuned' # tuned =>
              \/ Load
              \/ /\ attrs /\ node'
                 /\ \E a \in Attrs : /\ tuned'[a] \in Accepted(a)
                                    /\ \A b \in Attrs \ {a} : tuned'[b] = tuned[b]
<1> DEFINE OneStored == \E a \in Attrs : /\ tuned'[a] \in Accepted(a)
                                        /\ \A b \in Attrs \ {a} : tuned'[b] = tuned[b]
<1>1. ASSUME NEW p \in Procs, NEW ph, Send(p, ph), UNCHANGED node PROVE phase' # phase => node'
  <2>1. phase' # phase => fd[p] = DeviceFd
    BY <1>1 DEF Send
  <2> QED  BY <1>1, <2>1 DEF OpenMeansLoaded
<1>2. ASSUME NEW p \in Procs, SessionSend(p) \/ BasicSend(p)
      PROVE  (phase' # phase => node') /\ tuned' = tuned
  BY <1>1, <1>2 DEF SessionSend, BasicSend, sysfs_vars
<1>3. ASSUME NEW p \in Procs, PolicyClose(p)
      PROVE  phase' = phase /\ (tuned' # tuned => attrs /\ node' /\ OneStored)
  <2>1. call[p].attr \in Attrs
    BY ToolsAssumption DEF ToolsTypeOK, NoCall, Attrs, PolicyAttrs
  <2>2. tuned' # tuned => file[p] = "live" /\ Store(call[p].attr, call[p].value % U64)
    BY <1>3 DEF PolicyClose, Refuse, sysfs_vars
  <2>3. phase' = phase /\ node' = node
    BY <1>3 DEF PolicyClose, kernel
  <2>4. tuned' # tuned => OneStored
    BY <2>1, <2>2, StoreMovesOne
  <2>5. tuned' # tuned => attrs /\ node'
    BY <2>2, <2>3 DEF OpenMeansLoaded
  <2> QED  BY <2>3, <2>4, <2>5
<1>4. ASSUME Shell PROVE phase' = phase /\ (tuned' # tuned => attrs /\ node' /\ OneStored)
  <2>1. phase' = phase /\ node' = node /\ attrs /\ SysfsNext
    BY <1>4 DEF Shell, kernel
  <2>2. ASSUME tuned' # tuned PROVE OneStored
    <3>1. PICK a \in Attrs : \E v \in StoredValues[a] : Store(a, v)
      BY <2>1, <2>2 DEF SysfsNext, Refuse, sysfs_vars
    <3> QED  BY <3>1, StoreMovesOne
  <2> QED  BY <2>1, <2>2 DEF OpenMeansLoaded
<1>5. Load \/ Announce => node' /\ (tuned' # tuned => Load)
  BY DEF Load, Announce, sysfs_vars
<1>6. CASE UNCHANGED <<phase, tuned>>
  BY <1>6
<1> QED
  BY <1>2, <1>3, <1>4, <1>5, <1>6
  DEF ToolsNext, Step, Start, Exit, OpenDevice, CloseDevice, ReadOpen, ReadLine, Poll, Draw,
      Report, PolicyOpen, CreateAttrs, Unload, tools_vars, kernel, sysfs_vars

THEOREM MovesAreLoaded == ToolsSpec => MovedOnlyWhileLoaded
<1>1. ToolsTypeOK /\ InRange /\ OpenMeansLoaded /\ [ToolsNext]_tools_vars =>
        [/\ phase' # phase => node'
         /\ tuned' # tuned =>
              \/ Load
              \/ /\ attrs /\ node'
                 /\ \E a \in Attrs : /\ tuned'[a] \in Accepted(a)
                                    /\ \A b \in Attrs \ {a} : tuned'[b] = tuned[b]]_tools_vars
  BY MoveStep
<1> QED
  BY <1>1, ToolsTypes, InRangeInTools, OpenMeansLoadedHolds, PTL
  DEF ToolsSpec, MovedOnlyWhileLoaded
=============================================================================
