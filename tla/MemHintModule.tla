--------------------------- MODULE MemHintModule ---------------------------
(***************************************************************************)
(* The life of the kernel module: what mem_hint_init registers and in what *)
(* order, what it takes back when a step fails, what mem_hint_exit takes   *)
(* down, and what runs inside the module meanwhile: open files, the PMU    *)
(* timer's callback and readers and writers of the sysfs attributes.       *)
(*                                                                         *)
(* The kernel is modelled by what it guarantees its modules: an open file  *)
(* holds a reference, rmmod is refused while one is held, hrtimer_cancel   *)
(* waits for the callback, and the removal of an attribute group waits for *)
(* the operations on its attributes.                                       *)
(***************************************************************************)
EXTENDS Integers, FiniteSets

CONSTANTS
  Files,     \* The files a privileged program may have open.
  Ops        \* The sysfs operations that may be under way.

Groups == <<"policy", "thresholds", "status">>

\* What the module registers, besides its attribute groups.
Registered == {"chrdev", "class", "node", "pdev", "timer"}
GroupNames == {Groups[i] : i \in DOMAIN Groups}

VARIABLES
  life,       \* Where the module is: unloaded, a step of init or exit, live.
  held,       \* What is registered at the moment.
  has_pdev,   \* Whether mem_hint_pdev is not NULL.
  group,      \* The next group that sysfs_init creates or sysfs_exit removes.
  open_files, \* The files that are open.
  callback,   \* Whether the timer's callback is running.
  op_in       \* The group in which each sysfs operation runs, or "none".

vars == <<life, held, has_pdev, group, open_files, callback, op_in>>
kernel_side == <<open_files, callback, op_in>>

Init == /\ life = "unloaded"
        /\ held = {}
        /\ has_pdev = FALSE
        /\ group = 1
        /\ open_files = {}
        /\ callback = FALSE
        /\ op_in = [o \in Ops |-> "none"]

-----------------------------------------------------------------------------
(* mem_hint_init.  The steps that fail unwind and leave; the failure of    *)
(* the platform device and of the attribute groups is survived.            *)

\* register_chrdev, then class_create, then device_create.  The unwinding of a
\* failed step is one step: nothing can enter the module through what it takes
\* back, as the node does not exist before device_create returns.
RegisterSteps == <<"chrdev", "class", "node">>

BeginInit ==
  /\ life = "unloaded"
  /\ life' = "chrdev"
  /\ UNCHANGED <<held, has_pdev, group, kernel_side>>

RegisterStep(i) ==
  /\ life = RegisterSteps[i]
  /\ held' = held \cup {RegisterSteps[i]}
  /\ life' = IF i = 3 THEN "pdev" ELSE RegisterSteps[i + 1]
  /\ UNCHANGED <<has_pdev, group, kernel_side>>

\* Mutant: the unwinding forgets the character device.
RegisterFailsMutLeaks(i) ==
  /\ life = RegisterSteps[i]
  /\ held' = held \ {"class"}
  /\ life' = "unloaded"
  /\ UNCHANGED <<has_pdev, group, kernel_side>>

RegisterFails(i) ==
  /\ life = RegisterSteps[i]
  /\ held' = held \ {"chrdev", "class"}
  /\ life' = "unloaded"
  /\ UNCHANGED <<has_pdev, group, kernel_side>>

\* platform_device_register_simple, whose failure is only logged.
RegisterPdev ==
  /\ life = "pdev"
  /\ \E ok \in BOOLEAN : /\ has_pdev' = ok
                         /\ held' = IF ok THEN held \cup {"pdev"} ELSE held
  /\ life' = "timer"
  /\ UNCHANGED <<group, kernel_side>>

\* mem_hint_pmu_init
StartTimer ==
  /\ life = "timer"
  /\ held' = held \cup {"timer"}
  /\ life' = IF has_pdev THEN "groups" ELSE "live"
  /\ UNCHANGED <<has_pdev, group, kernel_side>>

\* Mutant: the loop over the groups runs one step too far.
CreateGroupMutOffByOne ==
  /\ life = "groups"
  /\ held' = held \cup {Groups[group]}
  /\ IF group > 3 THEN /\ group' = 1 /\ life' = "live"
                  ELSE /\ group' = group + 1 /\ UNCHANGED life
  /\ UNCHANGED <<has_pdev, kernel_side>>

\* mem_hint_sysfs_init
CreateGroup ==
  /\ life = "groups"
  /\ held' = held \cup {Groups[group]}
  /\ IF group = 3 THEN /\ group' = 1 /\ life' = "live"
                  ELSE /\ group' = group + 1 /\ UNCHANGED life
  /\ UNCHANGED <<has_pdev, kernel_side>>

\* A group cannot be created: those before it are removed again, last one first,
\* and the error that mem_hint_sysfs_init returns is ignored.
CreateGroupFails ==
  /\ life = "groups"
  /\ IF group = 1 THEN life' = "live" /\ UNCHANGED group
                  ELSE life' = "unwind" /\ group' = group - 1
  /\ UNCHANGED <<held, has_pdev, kernel_side>>

\* The removal of a group, in init's unwinding or in exit: nobody enters it any
\* more, and then those who are inside leave.
RemoveGroup ==
  /\ life \in {"unwind", "ungroup"}
  /\ held' = held \ {Groups[group]}
  /\ life' = IF life = "unwind" THEN "unwind_drain" ELSE "drain"
  /\ UNCHANGED <<has_pdev, group, kernel_side>>

GroupDrained ==
  /\ life \in {"unwind_drain", "drain"}
  /\ \A o \in Ops : op_in[o] # Groups[group]
  /\ group' = IF group = 1 THEN 1 ELSE group - 1
  /\ life' = CASE group > 1 -> IF life = "drain" THEN "ungroup" ELSE "unwind"
               [] group = 1 -> IF life = "drain" THEN "cancel" ELSE "live"
  /\ UNCHANGED <<held, has_pdev, kernel_side>>

-----------------------------------------------------------------------------
(* mem_hint_exit *)

\* Mutant: the file operations name no owner, so that files hold no reference.
InUseMutNoOwner == FALSE

\* fops.owner is the module: an open file holds a reference to it.
InUse == open_files # {}

\* rmmod: refused while the module is in use.
BeginExit ==
  /\ life = "live"
  /\ ~InUse
  /\ life' = IF has_pdev THEN "ungroup" ELSE "cancel"
  /\ group' = IF has_pdev THEN 3 ELSE 1
  /\ UNCHANGED <<held, has_pdev, kernel_side>>

\* mem_hint_sysfs_exit then removes all three groups, the last one first, also
\* those that mem_hint_sysfs_init failed to create.

\* mem_hint_pmu_exit: hrtimer_cancel waits for a callback that runs.
CancelTimer ==
  /\ life = "cancel"
  /\ ~callback
  /\ held' = held \ {"timer"}
  /\ life' = "unregister"
  /\ UNCHANGED <<has_pdev, group, kernel_side>>

\* Mutant: the class is destroyed before its device.
UnregisterMutOrder ==
  /\ life = "unregister"
  /\ IF held \cap {"pdev", "node", "class"} = {}
     THEN /\ held' = held \ {"chrdev"}
          /\ life' = "unloaded"
          /\ has_pdev' = FALSE
     ELSE /\ held' = held \ {IF "pdev" \in held THEN "pdev"
                             ELSE IF "class" \in held THEN "class" ELSE "node"}
          /\ UNCHANGED <<life, has_pdev>>
  /\ UNCHANGED <<group, kernel_side>>

\* The platform device, the node, the class and the character device.
Unregister ==
  /\ life = "unregister"
  /\ IF held \cap {"pdev", "node", "class"} = {}
     THEN /\ held' = held \ {"chrdev"}
          /\ life' = "unloaded"
          /\ has_pdev' = FALSE
     ELSE /\ held' = held \ {IF "pdev" \in held THEN "pdev"
                             ELSE IF "node" \in held THEN "node" ELSE "class"}
          /\ UNCHANGED <<life, has_pdev>>
  /\ UNCHANGED <<group, kernel_side>>

-----------------------------------------------------------------------------
(* What runs inside the module meanwhile.                                  *)

\* Opening the node takes a reference, which fails once the module is leaving.
Leaving == life \in {"ungroup", "drain", "cancel", "unregister", "unloaded"}

OpenFile(f) ==
  /\ "node" \in held /\ ~Leaving
  /\ f \notin open_files
  /\ open_files' = open_files \cup {f}
  /\ UNCHANGED <<life, held, has_pdev, group, callback, op_in>>

CloseFile(f) ==
  /\ f \in open_files
  /\ open_files' = open_files \ {f}
  /\ UNCHANGED <<life, held, has_pdev, group, callback, op_in>>

\* The callback re-arms the timer when it ends, so it may run again at any time
\* until the timer is cancelled.
TimerFires ==
  /\ "timer" \in held /\ ~callback
  /\ callback' = TRUE
  /\ UNCHANGED <<life, held, has_pdev, group, open_files, op_in>>

\* Mutant: the callback takes a lock that mem_hint_exit holds while it cancels.
CallbackEndsMutLocked ==
  /\ callback /\ life # "cancel"
  /\ callback' = FALSE
  /\ UNCHANGED <<life, held, has_pdev, group, open_files, op_in>>

CallbackEnds ==
  /\ callback
  /\ callback' = FALSE
  /\ UNCHANGED <<life, held, has_pdev, group, open_files, op_in>>

BeginOp(o) ==
  /\ op_in[o] = "none"
  /\ \E g \in GroupNames \cap held : op_in' = [op_in EXCEPT ![o] = g]
  /\ UNCHANGED <<life, held, has_pdev, group, open_files, callback>>

\* Mutant: the stores take a lock that mem_hint_sysfs_init holds while it unwinds.
EndOpMutLocked(o) ==
  /\ op_in[o] # "none" /\ life # "unwind_drain"
  /\ op_in' = [op_in EXCEPT ![o] = "none"]
  /\ UNCHANGED <<life, held, has_pdev, group, open_files, callback>>

\* A show or a store prints or assigns its variable and waits for nothing.
EndOp(o) ==
  /\ op_in[o] # "none"
  /\ op_in' = [op_in EXCEPT ![o] = "none"]
  /\ UNCHANGED <<life, held, has_pdev, group, open_files, callback>>

-----------------------------------------------------------------------------

Load   == BeginInit \/ (\E i \in 1..3 : RegisterStep(i) \/ RegisterFails(i))
          \/ RegisterPdev \/ StartTimer \/ CreateGroup \/ CreateGroupFails
Unload == BeginExit \/ RemoveGroup \/ GroupDrained \/ CancelTimer \/ Unregister
Use    == \/ \E f \in Files : OpenFile(f) \/ CloseFile(f)
          \/ TimerFires \/ CallbackEnds
          \/ \E o \in Ops : BeginOp(o) \/ EndOp(o)

Next == Load \/ Unload \/ Use

Spec == Init /\ [][Next]_vars

\* init and exit run to their end once begun, callbacks and operations return,
\* and hrtimer_cancel finds the timer between two callbacks, which lie 100 ms
\* apart, at one of its attempts.  Nobody has to load, unload, open or close.
Running == ~(life \in {"unloaded", "live"})
FairSpec == /\ Spec
            /\ WF_vars(Running /\ (Load \/ Unload))
            /\ SF_vars(CancelTimer)
            /\ WF_vars(CallbackEnds)
            /\ \A o \in Ops : WF_vars(EndOp(o))

-----------------------------------------------------------------------------

InitSteps == {"chrdev", "class", "node", "pdev", "timer", "groups", "unwind", "unwind_drain"}
ExitSteps == {"ungroup", "drain", "cancel", "unregister"}

\* Type invariant.
TypeOK ==
  /\ life \in InitSteps \cup ExitSteps \cup {"unloaded", "live"}
  /\ held \subseteq Registered \cup GroupNames
  /\ has_pdev \in BOOLEAN
  /\ group \in 1..3
  /\ open_files \subseteq Files
  /\ callback \in BOOLEAN
  /\ op_in \in [Ops -> GroupNames \cup {"none"}]

\* No code of the module runs without what it was entered through: not while init
\* unwinds, not while exit takes the module down step by step, not afterwards.
UsersHaveTheirHolds ==
  /\ open_files # {} => "chrdev" \in held /\ "node" \in held
  /\ callback => "timer" \in held
  /\ \A o \in Ops : op_in[o] # "none" =>
       \/ op_in[o] \in held
       \/ life \in {"unwind_drain", "drain"} /\ op_in[o] = Groups[group]

\* What is registered never hangs on what is gone: the node on its class and the
\* device number, the attribute groups on the platform device.
HoldsAreNested ==
  /\ "node" \in held => "class" \in held
  /\ "class" \in held => "chrdev" \in held
  /\ held \cap GroupNames # {} => "pdev" \in held
  /\ "timer" \in held => "node" \in held

\* Whatever fails during init, a module that is not there has left nothing behind,
\* and one that came up has its node and its timer, and its attributes complete or
\* not at all.
AllOrNothing ==
  /\ life = "unloaded" => held = {}
  /\ life = "live" => /\ {"chrdev", "class", "node", "timer"} \subseteq held
                      /\ "pdev" \in held <=> has_pdev
                      /\ held \cap GroupNames \in {{}, GroupNames}

\* A load and an unload that have begun come to their end, however often the timer
\* fires and whoever reads and writes attributes meanwhile.
LoadFinishes   == life \in InitSteps ~> life \in {"live", "unloaded"}
UnloadFinishes == life \in ExitSteps ~> life = "unloaded"
=============================================================================
