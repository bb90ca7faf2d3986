------------------------ MODULE MemHintModuleProofs ------------------------
(***************************************************************************)
(* The life of the module for any number of files and sysfs operations.    *)
(* The invariant says what is registered at each step of init and exit     *)
(* (Stages) and at which steps somebody may be inside (Inside); the        *)
(* properties follow from it.                                              *)
(***************************************************************************)
EXTENDS MemHintModule, TLAPS

\* The first n attribute groups.
Below(n) == {Groups[i] : i \in 1..n}

LEMMA BelowFacts ==
  /\ Below(0) = {} /\ Below(3) = GroupNames
  /\ \A n \in 1..3 : /\ Below(n) = Below(n - 1) \cup {Groups[n]}
                     /\ Groups[n] \notin Below(n - 1)
                     /\ Groups[n] \in GroupNames /\ Below(n) \subseteq GroupNames
<1>1. Groups[1] = "policy" /\ Groups[2] = "thresholds" /\ Groups[3] = "status"
  BY DEF Groups
<1>2. GroupNames = {Groups[i] : i \in 1..3}
  BY DEF GroupNames, Groups
<1>3. /\ Below(0) = {} /\ Below(1) = {Groups[1]} /\ Below(2) = {Groups[1], Groups[2]}
      /\ Below(3) = {Groups[1], Groups[2], Groups[3]}
  BY DEF Below
<1>4. 1..3 = {1, 2, 3}
  OBVIOUS
<1> QED  BY <1>1, <1>2, <1>3, <1>4

\* The names of groups are none of the other things that are registered.
LEMMA NamesApart ==
  /\ GroupNames \cap Registered = {} /\ "none" \notin GroupNames
  /\ GroupNames = {"policy", "thresholds", "status"}
<1>1. GroupNames = {"policy", "thresholds", "status"}
  BY DEF GroupNames, Groups
<1> QED  BY <1>1 DEF Registered

\* The steps that register, by number.
LEMMA RegisterFacts ==
  /\ RegisterSteps[1] = "chrdev" /\ RegisterSteps[2] = "class" /\ RegisterSteps[3] = "node"
  /\ 1..3 = {1, 2, 3}
BY DEF RegisterSteps

-----------------------------------------------------------------------------
(* The invariant.                                                          *)

Loading == {"chrdev", "class", "node"}
Grouped == {"groups", "unwind", "unwind_drain", "ungroup", "drain"}
Working == Grouped \cup {"live", "cancel"}     \* The timer is armed.

Stages ==
  /\ "chrdev" \in held <=> life \notin {"unloaded", "chrdev"}
  /\ "class" \in held => life \notin {"unloaded", "chrdev", "class"}
  /\ "node" \in held => life \notin {"unloaded", "chrdev", "class", "node"}
  /\ life \in Working \cup {"pdev", "timer"} => {"class", "node"} \subseteq held
  /\ life = "node" => "class" \in held
  /\ "node" \in held => "class" \in held
  /\ "timer" \in held <=> life \in Working
  /\ "pdev" \in held => life \notin Loading \cup {"unloaded", "pdev"}
  /\ life \in Working \cup {"timer"} => ("pdev" \in held <=> has_pdev)
  /\ life \in Grouped => has_pdev
  /\ life \notin Grouped => group = 1

GroupStages ==
  LET there == held \cap GroupNames IN
  /\ life \in {"groups", "unwind_drain"} => there = Below(group - 1)
  /\ life = "unwind" => there = Below(group)
  /\ life = "ungroup" => there \subseteq Below(group)
  /\ life = "drain" => there \subseteq Below(group - 1)
  /\ life = "live" => there = {} \/ (has_pdev /\ there = GroupNames)
  /\ life \notin Grouped \cup {"live"} => there = {}

Inside ==
  /\ open_files # {} => life \in {"pdev", "timer", "groups", "unwind", "unwind_drain", "live"}
  /\ callback => "timer" \in held
  /\ \A o \in Ops : op_in[o] # "none" =>
       \/ op_in[o] \in held
       \/ life \in {"unwind_drain", "drain"} /\ op_in[o] = Groups[group]

ModuleInv == TypeOK /\ Stages /\ GroupStages /\ Inside

LEMMA InitHolds == Init => ModuleInv
<1> SUFFICES ASSUME Init PROVE ModuleInv
  OBVIOUS
<1>1. TypeOK
  <2>1. group \in 1..3
    BY DEF Init
  <2>2. has_pdev \in BOOLEAN /\ callback \in BOOLEAN
    <3>1. has_pdev = FALSE /\ callback = FALSE
      BY Zenon DEF Init
    <3> QED  BY <3>1, Zenon
  <2>3. op_in \in [Ops -> GroupNames \cup {"none"}]
    BY DEF Init
  <2> QED  BY <2>1, <2>2, <2>3 DEF Init, TypeOK
<1>2. Stages
  <2>1. life = "unloaded" /\ held = {} /\ group = 1
    BY DEF Init
  <2> QED  BY <2>1 DEF Stages, Working, Grouped, Loading
<1>3. GroupStages
  BY DEF Init, GroupStages, Grouped
<1>4. Inside
  BY DEF Init, Inside
<1> QED  BY <1>1, <1>2, <1>3, <1>4 DEF ModuleInv

LEMMA StepType == TypeOK /\ [Next]_vars => TypeOK'
<1> SUFFICES ASSUME TypeOK, [Next]_vars PROVE TypeOK'
  OBVIOUS
<1> USE DEF TypeOK, kernel_side
<1>1. CASE BeginInit \/ (\E i \in 1..3 : RegisterStep(i) \/ RegisterFails(i))
  <2>1. life' \in InitSteps \cup {"unloaded"}
    BY <1>1, RegisterFacts DEF BeginInit, RegisterStep, RegisterFails, InitSteps
  <2>2. held' \subseteq Registered \cup GroupNames
    BY <1>1, RegisterFacts DEF BeginInit, RegisterStep, RegisterFails, Registered
  <2> QED  BY <1>1, <2>1, <2>2 DEF BeginInit, RegisterStep, RegisterFails
<1>2. CASE RegisterPdev \/ StartTimer
  BY <1>2 DEF RegisterPdev, StartTimer, InitSteps, Registered
<1>3. CASE CreateGroup \/ CreateGroupFails
  <2>1. Groups[group] \in GroupNames
    BY BelowFacts
  <2> QED  BY <1>3, <2>1 DEF CreateGroup, CreateGroupFails, InitSteps
<1>4. CASE BeginExit \/ RemoveGroup
  BY <1>4 DEF BeginExit, RemoveGroup, InitSteps, ExitSteps
<1>5. CASE GroupDrained
  BY <1>5 DEF GroupDrained, InitSteps, ExitSteps
<1>6. CASE CancelTimer \/ Unregister
  BY <1>6 DEF CancelTimer, Unregister, ExitSteps
<1>7. CASE Use
  BY <1>7 DEF Use, OpenFile, CloseFile, TimerFires, CallbackEnds, BeginOp, EndOp
<1>8. CASE UNCHANGED vars
  BY <1>8 DEF vars
<1> QED  BY <1>1, <1>2, <1>3, <1>4, <1>5, <1>6, <1>7, <1>8 DEF Next, Load, Unload

\* What is registered depends on nobody who is inside.
LEMMA StepStages == TypeOK /\ Stages /\ [Next]_vars => Stages'
<1> SUFFICES ASSUME TypeOK, Stages, [Next]_vars PROVE Stages'
  OBVIOUS
<1> USE DEF Stages, Working, Grouped, Loading
<1>1. CASE BeginInit
  BY <1>1 DEF BeginInit
<1>2. ASSUME NEW i \in 1..3, RegisterStep(i) \/ RegisterFails(i) PROVE Stages'
  <2>1. i \in {1, 2, 3}
    OBVIOUS
  <2>2. CASE i = 1
    BY <1>2, <2>2, RegisterFacts DEF RegisterStep, RegisterFails
  <2>3. CASE i = 2
    BY <1>2, <2>3, RegisterFacts DEF RegisterStep, RegisterFails
  <2>4. CASE i = 3
    BY <1>2, <2>4, RegisterFacts DEF RegisterStep, RegisterFails
  <2> QED  BY <2>1, <2>2, <2>3, <2>4
<1>3. CASE RegisterPdev
  BY <1>3 DEF RegisterPdev
<1>4. CASE StartTimer
  BY <1>4 DEF StartTimer
<1>5. CASE CreateGroup
  BY <1>5 DEF CreateGroup, TypeOK, Registered
<1>6. CASE CreateGroupFails
  BY <1>6 DEF CreateGroupFails
<1>7. CASE BeginExit
  BY <1>7 DEF BeginExit
<1>8. CASE RemoveGroup
  <2>1. Groups[group] \notin Registered
    BY BelowFacts, NamesApart DEF TypeOK
  <2> QED  BY <1>8, <2>1 DEF RemoveGroup, Registered
<1>9. CASE GroupDrained
  BY <1>9 DEF GroupDrained, TypeOK
<1>10. CASE CancelTimer
  BY <1>10 DEF CancelTimer
<1>11. CASE Unregister
  BY <1>11 DEF Unregister
<1>12. CASE Use \/ UNCHANGED vars
  BY <1>12 DEF Use, OpenFile, CloseFile, TimerFires, CallbackEnds, BeginOp, EndOp, vars
<1> QED  BY <1>1, <1>2, <1>3, <1>4, <1>5, <1>6, <1>7, <1>8, <1>9, <1>10, <1>11, <1>12
         DEF Next, Load, Unload

LEMMA StepGroups == TypeOK /\ Stages /\ GroupStages /\ [Next]_vars => GroupStages'
<1> SUFFICES ASSUME TypeOK, Stages, GroupStages, [Next]_vars PROVE GroupStages'
  OBVIOUS
<1> USE NamesApart DEF GroupStages, Grouped
<1>1. CASE BeginInit
  BY <1>1 DEF BeginInit
<1>2. ASSUME NEW i \in 1..3, RegisterStep(i) \/ RegisterFails(i) PROVE GroupStages'
  <2>1. i \in {1, 2, 3}
    OBVIOUS
  <2>2. held \cap GroupNames = {} /\ held' \cap GroupNames = {}
    BY <1>2, <2>1, RegisterFacts DEF RegisterStep, RegisterFails, Registered
  <2>3. life' \in {"class", "node", "pdev", "unloaded"}
    BY <1>2, <2>1, RegisterFacts DEF RegisterStep, RegisterFails
  <2> QED  BY <2>2, <2>3
<1>3. CASE RegisterPdev \/ StartTimer
  <2>1. held' \cap GroupNames = {} /\ held \cap GroupNames = {}
    BY <1>3 DEF RegisterPdev, StartTimer, Registered
  <2>2. life' \in {"timer", "live"} \/ (life' = "groups" /\ group' = 1)
    BY <1>3 DEF RegisterPdev, StartTimer, Stages
  <2> QED  BY <2>1, <2>2, BelowFacts
<1>4. CASE CreateGroup
  <2>1. group \in 1..3 /\ has_pdev
    BY <1>4 DEF CreateGroup, TypeOK, Stages
  <2>2. held' \cap GroupNames = Below(group)
    BY <1>4, <2>1, BelowFacts DEF CreateGroup
  <2>3. CASE group = 3
    BY <1>4, <2>1, <2>2, <2>3, BelowFacts DEF CreateGroup
  <2>4. CASE group # 3
    <3>1. life' = "groups" /\ group' - 1 = group
      BY <1>4, <2>1, <2>4 DEF CreateGroup
    <3> QED  BY <2>2, <3>1
  <2> QED  BY <2>3, <2>4
<1>5. CASE CreateGroupFails
  <2>1. group \in 1..3 /\ held' = held /\ held \cap GroupNames = Below(group - 1)
    BY <1>5 DEF CreateGroupFails, TypeOK
  <2>2. CASE group = 1
    BY <1>5, <2>1, <2>2, BelowFacts DEF CreateGroupFails
  <2>3. CASE group # 1
    BY <1>5, <2>1, <2>3 DEF CreateGroupFails
  <2> QED  BY <2>2, <2>3
<1>6. CASE BeginExit
  BY <1>6, BelowFacts DEF BeginExit, InUse, Stages
<1>7. CASE RemoveGroup
  <2>1. group \in 1..3 /\ group' = group /\ held' = held \ {Groups[group]}
    BY <1>7 DEF RemoveGroup, TypeOK
  <2>2. CASE life = "unwind"
    BY <1>7, <2>1, <2>2, BelowFacts DEF RemoveGroup
  <2>3. CASE life = "ungroup"
    BY <1>7, <2>1, <2>3, BelowFacts DEF RemoveGroup
  <2> QED  BY <1>7, <2>2, <2>3 DEF RemoveGroup
<1>8. CASE GroupDrained
  <2>1. group \in 1..3 /\ held' = held
    BY <1>8 DEF GroupDrained, TypeOK
  <2>2. CASE group = 1
    <3>1. held \cap GroupNames = {}
      BY <1>8, <2>1, <2>2, BelowFacts DEF GroupDrained
    <3> QED  BY <1>8, <2>1, <2>2, <3>1 DEF GroupDrained
  <2>3. CASE group # 1
    <3>1. group' = group - 1 /\ life' = IF life = "drain" THEN "ungroup" ELSE "unwind"
      BY <1>8, <2>1, <2>3 DEF GroupDrained
    <3> QED  BY <1>8, <2>1, <3>1 DEF GroupDrained
  <2> QED  BY <2>2, <2>3
<1>9. CASE CancelTimer \/ Unregister
  <2>1. held' \subseteq held /\ held \cap GroupNames = {}
    BY <1>9 DEF CancelTimer, Unregister
  <2>2. life' \in {"unregister", "unloaded"}
    BY <1>9 DEF CancelTimer, Unregister
  <2> QED  BY <2>1, <2>2
<1>10. CASE Use \/ UNCHANGED vars
  BY <1>10 DEF Use, OpenFile, CloseFile, TimerFires, CallbackEnds, BeginOp, EndOp, vars
<1> QED  BY <1>1, <1>2, <1>3, <1>4, <1>5, <1>6, <1>7, <1>8, <1>9, <1>10 DEF Next, Load, Unload

LEMMA StepInside == ModuleInv /\ [Next]_vars => Inside'
<1> SUFFICES ASSUME TypeOK, Stages, GroupStages, Inside, [Next]_vars PROVE Inside'
  BY DEF ModuleInv
<1> USE DEF Inside, kernel_side
\* Nobody is inside a group while there is none.
<1>0. life \notin Grouped \cup {"live"} => \A o \in Ops : op_in[o] = "none"
  BY DEF GroupStages, TypeOK, Grouped
<1>1. CASE BeginInit
  BY <1>0, <1>1 DEF BeginInit, Grouped
<1>2. ASSUME NEW i \in 1..3, RegisterStep(i) \/ RegisterFails(i) PROVE Inside'
  <2>1. i \in {1, 2, 3}
    OBVIOUS
  <2>2. life \in {"chrdev", "class", "node"}
    BY <1>2, <2>1, RegisterFacts DEF RegisterStep, RegisterFails
  <2>3. open_files = {} /\ ~callback /\ \A o \in Ops : op_in[o] = "none"
    BY <1>0, <2>2 DEF Stages, Working, Grouped
  <2> QED  BY <1>2, <2>3 DEF RegisterStep, RegisterFails
<1>3. CASE RegisterPdev \/ StartTimer
  <2>1. held \subseteq held' /\ \A o \in Ops : op_in[o] = "none"
    BY <1>0, <1>3 DEF RegisterPdev, StartTimer, Grouped
  <2> QED  BY <1>3, <2>1 DEF RegisterPdev, StartTimer
<1>4. CASE CreateGroup \/ CreateGroupFails
  BY <1>4 DEF CreateGroup, CreateGroupFails
<1>5. CASE BeginExit
  BY <1>5 DEF BeginExit, InUse
<1>6. CASE RemoveGroup
  <2>1. "timer" # Groups[group]
    BY BelowFacts, NamesApart DEF TypeOK, Registered
  <2> QED  BY <1>6, <2>1 DEF RemoveGroup
<1>7. CASE GroupDrained
  BY <1>7 DEF GroupDrained, TypeOK
<1>8. CASE CancelTimer \/ Unregister
  BY <1>0, <1>8 DEF CancelTimer, Unregister, Grouped
<1>9. CASE Use
  <2>1. ASSUME NEW f \in Files, OpenFile(f) PROVE Inside'
    BY <2>1 DEF OpenFile, Leaving, Stages, TypeOK, InitSteps, ExitSteps
  <2>2. ASSUME NEW f \in Files, CloseFile(f) PROVE Inside'
    BY <2>2 DEF CloseFile
  <2>3. CASE TimerFires \/ CallbackEnds
    BY <2>3 DEF TimerFires, CallbackEnds
  <2>4. ASSUME NEW o \in Ops, BeginOp(o) \/ EndOp(o) PROVE Inside'
    BY <2>4 DEF BeginOp, EndOp, TypeOK
  <2> QED  BY <1>9, <2>1, <2>2, <2>3, <2>4 DEF Use
<1>10. CASE UNCHANGED vars
  BY <1>10 DEF vars
<1> QED  BY <1>1, <1>2, <1>3, <1>4, <1>5, <1>6, <1>7, <1>8, <1>9, <1>10 DEF Next, Load, Unload

LEMMA InvHolds == Spec => []ModuleInv
<1>1. ModuleInv /\ [Next]_vars => ModuleInv'
  BY StepType, StepStages, StepGroups, StepInside DEF ModuleInv
<1> QED  BY InitHolds, <1>1, PTL DEF Spec

-----------------------------------------------------------------------------
(* The theorems.                                                           *)

\* Type correctness of the module's life (mem_hint_init, mem_hint_exit).
THEOREM TypeCorrect == Spec => []TypeOK
<1>1. ModuleInv => TypeOK
  BY DEF ModuleInv
<1> QED  BY <1>1, InvHolds, PTL

\* No code of the module runs without what it was entered through, for any number of
\* open files and attribute operations.
THEOREM UsersAreHeld == Spec => []UsersHaveTheirHolds
<1>1. ModuleInv => UsersHaveTheirHolds
  BY DEF ModuleInv, UsersHaveTheirHolds, Inside, Stages, Working, Grouped
<1> QED  BY <1>1, InvHolds, PTL

\* What is registered never hangs on what is gone, in init, its unwinding and exit.
THEOREM HoldsNest == Spec => []HoldsAreNested
<1>1. ModuleInv => HoldsAreNested
  <2> SUFFICES ASSUME ModuleInv PROVE HoldsAreNested
    OBVIOUS
  <2>1. /\ "node" \in held => "class" \in held
        /\ "timer" \in held => "node" \in held
    BY DEF ModuleInv, Stages, Working, Grouped
  <2>2. "class" \in held => "chrdev" \in held
    BY DEF ModuleInv, Stages
  <2>3. held \cap GroupNames # {} => "pdev" \in held
    BY DEF ModuleInv, Stages, GroupStages, Working, Grouped
  <2> QED  BY <2>1, <2>2, <2>3 DEF HoldsAreNested
<1> QED  BY <1>1, InvHolds, PTL

\* A module that is not there has left nothing behind, and one that is live is
\* complete, whatever failed during init.
THEOREM LoadsWhollyOrNot == Spec => []AllOrNothing
<1>1. ModuleInv => AllOrNothing
  <2> SUFFICES ASSUME ModuleInv PROVE AllOrNothing
    OBVIOUS
  <2>1. ASSUME life = "unloaded" PROVE held = {}
    <3>1. held \cap Registered = {}
      BY <2>1 DEF ModuleInv, Stages, Registered, Working, Grouped, Loading
    <3>2. held \cap GroupNames = {}
      BY <2>1 DEF ModuleInv, GroupStages, Grouped
    <3> QED  BY <3>1, <3>2 DEF ModuleInv, TypeOK
  <2>2. ASSUME life = "live"
        PROVE  /\ {"chrdev", "class", "node", "timer"} \subseteq held
               /\ "pdev" \in held <=> has_pdev
    BY <2>2 DEF ModuleInv, Stages, Working, Grouped
  <2>3. life = "live" => held \cap GroupNames \in {{}, GroupNames}
    BY DEF ModuleInv, GroupStages
  <2> QED  BY <2>1, <2>2, <2>3 DEF AllOrNothing
<1> QED  BY <1>1, InvHolds, PTL

-----------------------------------------------------------------------------
(* Why loads and unloads end.  That they do is liveness, which stays with  *)
(* TLC; that they go round in no circle and that nobody new gets in the    *)
(* way of a removal is not.                                                *)

One(b) == IF b THEN 1 ELSE 0

\* How many steps init or exit has left at most: init its registrations and its groups,
\* or the groups still to be unwound; exit its groups, the timer and what is registered.
Left ==
  CASE life = "chrdev" -> 13 [] life = "class" -> 12 [] life = "node" -> 11
    [] life = "pdev" -> 10 [] life = "timer" -> 9
    [] life = "groups"       -> 9 - group
    [] life = "unwind"       -> 2 * group
    [] life = "unwind_drain" -> 2 * group - 1
    [] life = "ungroup"      -> 5 + 2 * group
    [] life = "drain"        -> 4 + 2 * group
    [] life = "cancel"       -> 5
    [] life = "unregister"   -> 1 + One("pdev" \in held) + One("node" \in held)
                                  + One("class" \in held)
    [] OTHER -> 0

\* Whatever fails and whoever is inside, every step of init and exit brings its end
\* nearer, unwinding included, and an exit never turns back into an init.
LifeOnlyAdvances ==
  [][Running => \/ UNCHANGED <<life, held, has_pdev, group>>
                \/ /\ Left' < Left
                   /\ life \in ExitSteps => life' \in ExitSteps \cup {"unloaded"}]_vars

\* A step of init or exit, and its rank before and after.
LEMMA StepShortens ==
  ASSUME TypeOK, Running, Load \/ Unload
  PROVE  /\ Left' < Left
         /\ life \in ExitSteps => life' \in ExitSteps \cup {"unloaded"}
<1> USE DEF ExitSteps, Running
<1>0. group \in 1..3
  BY DEF TypeOK
<1>1. ~BeginInit /\ ~BeginExit
  BY DEF BeginInit, BeginExit
<1>2. ASSUME NEW i \in 1..3, RegisterStep(i) \/ RegisterFails(i)
      PROVE  Left' < Left /\ life \notin ExitSteps
  <2>1. i \in {1, 2, 3}
    OBVIOUS
  <2>2. CASE i = 1
    BY <1>2, <2>2, RegisterFacts DEF RegisterStep, RegisterFails, Left
  <2>3. CASE i = 2
    BY <1>2, <2>3, RegisterFacts DEF RegisterStep, RegisterFails, Left
  <2>4. CASE i = 3
    BY <1>2, <2>4, RegisterFacts DEF RegisterStep, RegisterFails, Left
  <2> QED  BY <2>1, <2>2, <2>3, <2>4
<1>3. CASE RegisterPdev
  BY <1>3 DEF RegisterPdev, Left
<1>4. CASE StartTimer
  BY <1>0, <1>4 DEF StartTimer, Left
<1>5. CASE CreateGroup
  BY <1>0, <1>5 DEF CreateGroup, Left
<1>6. CASE CreateGroupFails
  BY <1>0, <1>6 DEF CreateGroupFails, Left
<1>7. CASE RemoveGroup
  BY <1>0, <1>7 DEF RemoveGroup, Left
<1>8. CASE GroupDrained
  <2>1. CASE group = 1
    BY <1>8, <2>1 DEF GroupDrained, Left
  <2>2. CASE group > 1
    <3>1. group' = group - 1 /\ life' = IF life = "drain" THEN "ungroup" ELSE "unwind"
      BY <1>0, <1>8, <2>2 DEF GroupDrained
    <3> QED  BY <1>0, <1>8, <3>1 DEF GroupDrained, Left
  <2> QED  BY <1>0, <2>1, <2>2
<1>9. CASE CancelTimer
  BY <1>9 DEF CancelTimer, Left, One
<1>10. CASE Unregister
  <2>1. CASE held \cap {"pdev", "node", "class"} = {}
    BY <1>10, <2>1 DEF Unregister, Left, One
  <2>2. CASE held \cap {"pdev", "node", "class"} # {}
    <3>1. /\ life = "unregister" /\ life' = "unregister"
          /\ held' = held \ {IF "pdev" \in held THEN "pdev"
                             ELSE IF "node" \in held THEN "node" ELSE "class"}
      BY <1>10, <2>2 DEF Unregister
    <3> QED  BY <2>2, <3>1 DEF Left, One
  <2> QED  BY <2>1, <2>2
<1> QED  BY <1>1, <1>2, <1>3, <1>4, <1>5, <1>6, <1>7, <1>8, <1>9, <1>10 DEF Load, Unload

THEOREM LifeAdvances == Spec => LifeOnlyAdvances
<1>1. Use \/ UNCHANGED vars => UNCHANGED <<life, held, has_pdev, group>>
  BY DEF Use, OpenFile, CloseFile, TimerFires, CallbackEnds, BeginOp, EndOp, vars
<1>2. TypeOK /\ [Next]_vars =>
        [Running => \/ UNCHANGED <<life, held, has_pdev, group>>
                    \/ /\ Left' < Left
                       /\ life \in ExitSteps => life' \in ExitSteps \cup {"unloaded"}]_vars
  BY <1>1, StepShortens DEF Next
<1> QED  BY <1>2, TypeCorrect, PTL DEF Spec, LifeOnlyAdvances

\* While the removal of a group waits, no operation enters that group, and once exit
\* has begun no file is opened: those it waits for only get fewer.
RemovalIsNotOvertaken ==
  [][/\ life \in {"unwind_drain", "drain"} =>
          \A o \in Ops : op_in'[o] = Groups[group] => op_in[o] = Groups[group]
     /\ life \in ExitSteps => open_files = {} /\ open_files' = {}]_vars

THEOREM RemovalProceeds == Spec => RemovalIsNotOvertaken
<1>1. ModuleInv /\ [Next]_vars =>
        /\ life \in {"unwind_drain", "drain"} =>
             \A o \in Ops : op_in'[o] = Groups[group] => op_in[o] = Groups[group]
        /\ life \in ExitSteps => open_files = {} /\ open_files' = {}
  <2> SUFFICES ASSUME ModuleInv, [Next]_vars
               PROVE  /\ life \in {"unwind_drain", "drain"} =>
                            \A o \in Ops : op_in'[o] = Groups[group] => op_in[o] = Groups[group]
                      /\ life \in ExitSteps => open_files = {} /\ open_files' = {}
    OBVIOUS
  <2>1. life \in {"unwind_drain", "drain"} => Groups[group] \notin held
    <3>1. life \in {"unwind_drain", "drain"} => held \cap GroupNames \subseteq Below(group - 1)
      BY DEF ModuleInv, GroupStages
    <3> QED  BY <3>1, BelowFacts DEF ModuleInv, TypeOK
  <2>2. life \in ExitSteps => open_files = {}
    BY DEF ModuleInv, Inside, ExitSteps
  <2>3. CASE Load \/ Unload \/ UNCHANGED vars
    <3>1. UNCHANGED <<open_files, op_in>>
      BY <2>3 DEF Load, Unload, BeginInit, RegisterStep, RegisterFails, RegisterPdev, StartTimer,
                  CreateGroup, CreateGroupFails, BeginExit, InUse, RemoveGroup, GroupDrained,
                  CancelTimer, Unregister, kernel_side, vars
    <3> QED  BY <2>2, <3>1
  <2>4. ASSUME NEW f \in Files, OpenFile(f) \/ CloseFile(f)
        PROVE  op_in' = op_in /\ (life \in ExitSteps => open_files' = {})
    BY <2>2, <2>4 DEF OpenFile, CloseFile, Leaving, ExitSteps
  <2>5. CASE TimerFires \/ CallbackEnds
    BY <2>2, <2>5 DEF TimerFires, CallbackEnds
  <2>6. ASSUME NEW o \in Ops, BeginOp(o)
        PROVE  /\ open_files' = open_files
               /\ Groups[group] \notin held =>
                    \A q \in Ops : op_in'[q] = Groups[group] => op_in[q] = Groups[group]
    BY <2>6 DEF BeginOp, ModuleInv, TypeOK
  <2>7. ASSUME NEW o \in Ops, EndOp(o)
        PROVE  /\ open_files' = open_files
               /\ \A q \in Ops : op_in'[q] = Groups[group] => op_in[q] = Groups[group]
    <3>1. Groups[group] # "none"
      BY BelowFacts, NamesApart DEF ModuleInv, TypeOK
    <3> QED  BY <2>7, <3>1 DEF EndOp, ModuleInv, TypeOK
  <2> QED  BY <2>1, <2>2, <2>3, <2>4, <2>5, <2>6, <2>7 DEF Next, Use
<1> QED  BY <1>1, InvHolds, PTL DEF Spec, RemovalIsNotOvertaken
=============================================================================
