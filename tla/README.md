# Verification of mem_hint

TLA+ models, model-checking runs and machine-checked proofs for the `mem_hint`
kernel module and the Python package that feeds it hints. Every definition is
translated from the source; where the documentation says something else, a run
shows it (section 5).

## 1. The system

`mem_hint` lets a runtime tell the memory system which phase of a workload is
running. A privileged program writes an 8-byte record to `/dev/mem_hint`; the
kernel module validates it, looks up an operating point for the phase, limits
it, sends the encoded hint over a hardware channel and publishes the phase in
sysfs. A timer in the module classifies PMU counters and applies hints of its
own. Root tunes module parameters and sysfs attributes.

| Component | State it keeps | Operations | Talks to |
|---|---|---|---|
| policy engine (`kernel/mem_hint.c`) | none | phase and priority -> operating point | called by the hint path |
| safety limiter (`kernel/mem_hint_safety.c`) | none | clamp, ECC relaxation, security floor; self-test | called by the hint path, at load |
| hint path (`kernel/mem_hint.c`) | `current_phase_id`, `active_channel`, the MSR | `write`, `mem_hint_apply` | called by threads and by the timer; read by sysfs |
| PMU classifier (`kernel/mem_hint_pmu.c`) | thresholds, `pmu_last_phase`, the timer | tick every 100 ms | `mem_hint_apply` |
| sysfs attributes (`kernel/mem_hint_sysfs.c`) | 8 policy and 5 threshold variables of its own | stores, shows | reads the hint path's globals |
| module lifecycle | what is registered | init, exit, unwinding | the kernel |
| Python client and scheduler (`userspace/python/mem_hint`) | `_fd`, `dry_run`, `_lock`, `_current_phase` | `on_*`, `send`, `close` | the device |
| C library (`userspace/lib`) | none; the caller keeps the descriptor | `mem_hint_open`, `send`, `close`, `read_status`, `set_policy` | device and sysfs files |
| C examples `basic_hint`, `phase_monitor` | buffers on the stack | one run; one poll after the other | the library |
| runtime hooks (`userspace/python/examples`) | the engine's queue | `generate` and `_run_engine` as tasks; two sequential programs | the scheduler |
| CLI (`mem_hint_cli.py`) | none | sends, reads and prints | client, sysfs files |

What is hard about it:

* `mem_hint_apply` takes no lock and has two kinds of callers; its effects are
  several separate accesses.
* The classifier reads thresholds one at a time while root stores them, and
  decides on `pmu_last_phase`, which follows only its own hints.
* The limiter's three stages interfere, in 8-bit arithmetic.
* Init can fail at each step and exit meets callbacks and operations under way.
* The scheduler holds its lock for part of what it does only.
* Arguments pass through conversions that wrap: C parameters, Python masks, a cut
  before or after the mask, 16-bit fields, shifts.
* The library's calls are several steps between which the module comes and goes,
  and errors travel in the same int as descriptors, or surface at `fclose`.
* A request can outlive the engine run that emptied the queue under it.

`PROJECT.json` lists these and the other hazards at their lines.

What makes each component correct: the limiter never leaves the module's limits
whatever is proposed; the hint path applies each accepted hint exactly once and
never an invalid one; the classifier behaves as if each tick were one step; the
attributes store only what reads back; the lifecycle leaves nothing behind and
no code runs in what was taken down; the scheduler's calls return and its hints
go to the device; a call means the same whichever front end makes it, and arrives
in the word unchanged; the library's answers are true and the monitor's rows are of
one poll; the hooks never announce idle while a request is queued, nor leave a
phase behind when the work is done.

## 2. Modules

| Module | Stands for | Notes |
|---|---|---|
| `MemHintTypes` | the phase numbers, the hint record, the C widths | |
| `PhyPolicy` | `phase_to_phy_config`, `safety_clamp`, the self-test | pure; an operating point is a function from fields to numbers, wraps are `%` |
| `PhyDecision` | one pass of a proposal through the limiter | proposals: arbitrary ones, those of the policy engine, those of the self-test |
| `HintWire` | `encode_hint` | a word is the sequence of its bytes |
| `HintCalls` | the six methods of library and client, the packed record, its reading in `mem_hint_write` | pure |
| `PmuClassifier` | `classify_phase`, `phase_to_hint` | pure; the rules are separate so that a tick can try them one by one |
| `HintPath` | where a decision comes from: a tick, a call or raw bytes | extends `PhyDecision`, `PmuClassifier` and `HintCalls`; its specification implies that of `PhyDecision` |
| `HintRegister` | abstract: agents submit a phase, and commit it in one step | what the hint path promises |
| `HintDelivery` | abstract: callers begin a hint, the driver is told it once or never | what the scheduler promises |
| `MemHintDriver` | `mem_hint_write`, `mem_hint_apply`, `pmu_timer_callback`, parameter stores | one action per access to shared state; refines `HintRegister` |
| `MemHintSysfs` | the store functions | one table per thing in which they differ |
| `MemHintTuning` | driver and attributes side by side | |
| `MemHintTools` | the C library under `basic_hint`, `phase_monitor`, a program that keeps the device open, and a tuner | extends `MemHintSysfs`, whose stores it makes |
| `MemHintModule` | `mem_hint_init`, `mem_hint_exit`, `mem_hint_sysfs_init/exit` | with what the kernel guarantees a module |
| `MemHintScheduler` | `MemHintScheduler` and `MemHintClient` | one action per point at which Python can switch threads; implements `HintDelivery` (proved) |
| `MemHintHooks` | the vLLM, TensorRT and training hooks | one action per stretch between two awaits |
| `PhyPolicyProofs`, `PhyDecisionProofs`, `HintPathProofs`, `MemHintDriverProofs`, `MemHintToolsProofs`, `MemHintModuleProofs`, `MemHintSchedulerProofs`, `MemHintHooksProofs` | | proofs only |
| `MC...` | TLC instances | constants only |

How state and actions correspond to the code:

* **Hint path, data.** `source` is fixed at the start: a sample with thresholds and
  the phase inferred before, a call with its arguments, or eight bytes. `HintFrom`
  is the hint the driver makes of it, `AskedBy` what `mem_hint_apply` proposes to the
  limiter. C's conversion of an argument to its parameter's type and Python's masks
  are `%`; `min(priority, 7) & 0xFF` is a cut and then a `%`, in that order.
* **Driver.** `pc[a]` is where thread or timer `a` is; `hint[a]` is its stack
  frame's hint. `AcceptWrite` is `mem_hint_write` up to its call of
  `mem_hint_apply` (no shared state is touched before); `Dispatch` is the switch
  over `active_channel`; `Publish` the `atomic_set`; `Return` the log line and,
  for the timer, the assignment of `pmu_last_phase`. `Tick`, `RuleFails` and
  `Settle` are `classify_phase` rule by rule: each reads thresholds that root
  may store in between. The rule that reads two thresholds reads them in one
  step; `collect_pmu_sample` returns a constant that fails that rule before
  either is read. `stable` and `unison` are auxiliary and guard no action: `TickIsAtomicWhenStable` is
  about ticks without stores, as a mixture of thresholds is possible in the others and
  what follows is left to `ClassifierSettles`; `InStep` is about applications that did
  not overlap, as `driver_lockstep` shows what happens to the others.
* **Module.** `held` is what is registered; `life` is the next step of init or
  exit. Removing an attribute group takes two steps: no new operation enters,
  then those inside are waited for.
* **Tools.** `fd`, `ret` and `buf` are what the library returned and filled.
  `ReadOpen` and `ReadLine` are `fopen` and `fgets` of `mem_hint_read_status`,
  `PolicyOpen` and `PolicyClose` the `fopen` and `fclose` of `mem_hint_set_policy`:
  the number only reaches the kernel at the latter. An attribute that is open when
  the module goes is `dead` and gives an error. A buffer that was never filled is
  `Unread`. `attrs` says whether the attributes are where the library looks. With the
  module of this repository it is FALSE for ever, as only a platform device is
  registered and no driver of that name; with a kernel that keeps to the README's
  path it comes and goes with the module. The properties are about both.
  `stray`, `seen` and `stored` are history variables and guard no action.
* **Scheduler.** `Look`, `Check`, `LoadFd` and `Write` are the successive
  accesses of `send` to `dry_run`, `_fd` and the descriptor table, `NotePhase`
  the assignment after the `with` statement, `CloseFd` and `UnsetFd` the two
  statements of `close`. `table` is the process's descriptor table, in which
  the lowest free number is handed out. `stray`, `overlapped` and `rushed` are
  history variables and guard no action.
* **Hooks.** `pending` is the engine's queue, `pc` where each task awaits. A call of
  the scheduler is one step, as one event loop makes them all, and may raise.
  `told` is the last phase this process told the driver; `raised` is a history variable.

## 3. Runs

Passing runs:

| Run | What it shows | Bounds |
|---|---|---|
| `phy` | limiter and phase table; what becomes of a sample, a call or raw bytes on the way to operating point and word (12 invariants) | proposals at and next to every bound of the limiter, byte ends included; platform limits, limits whose maximum is the floor, and the widest; all phases and three unknown ones; priorities 0..8 and 255; samples on both sides of each rule and at the end of the counters, where twice the write bandwidth wraps; arguments around the ends of bytes and halves, negative ones included |
| `driver` | safety, refinement of `HintRegister` with its fairness, the classifier settles | two writers and the timer; valid hints (priority too high, security, reserved byte set) and the two phases next to the valid range; two thresholds moved across the sample; MSR and DVSEC |
| `tools` | ranges and casts of the stores agree; the library's errors, answers and reads | one process that runs one program after the other; stores on both sides of each bound and numbers that wrap, at most one attribute off its default at a time (`MaxTuned`), as each store function touches its own variable only (the theorems hold for any `MaxTuned`); a negative, a small and a fitting number for two policies |
| `module` | lifecycle | two files, two operations |
| `scheduler` | calls return, open descriptors are not forgotten, hints reach no other file unless a call and the close overlapped, the noted phase agrees unless calls overlapped | two threads, three calls and the exit (`MaxCalls`), two descriptors |
| `hooks` | idle and the queue | three requests, two engine runs, three tokens as in the code; the two sequential hooks |

Why these bounds are enough: agents of one kind are interchangeable and an
overlap is between two of them, with the timer as the third. Thresholds matter
only through which side of the sample they are on. The limiter is a function of
each field apart, and the proposals hit each of its comparisons from both sides.
Programs on the library share only the driver's phase and the attributes, which in
`tools` the rest of the world changes at any time. The proofs then cover all values
and all numbers of agents. Counters and thresholds are scaled to 17 and 16 bits: the
model uses their widths (`U64`, `U32`) and only that twice a threshold fits a counter.
`uint64_t` in `tools` is scaled to 17 bits too, above every range.

`phy` may stop, as it makes one decision, and `hooks`, as its programs end
(`CHECK_DEADLOCK FALSE`); the other passing runs check deadlock.

## 4. Fairness

* `MemHintDriver`: an agent inside `mem_hint_apply` goes on (a thread in the
  kernel is scheduled, and no step waits), and so does the timer, which always
  returns `HRTIMER_RESTART`. Nothing makes a thread write or root store.
* `MemHintModule`: init and exit go on once begun, callbacks and attribute
  operations end. Cancelling the timer has strong fairness: `hrtimer_cancel`
  tries again while the callback runs, and two callbacks lie 100 ms apart.
* `MemHintScheduler`: each thread goes on when it can. `threading.Lock` promises
  no order among those who wait, so `CallsReturn` says that a call returns when
  the other threads stop asking at last; the bound on calls makes them.

No other specification states fairness: their properties are safety.

## 5. What the documentation says and the code does not

Each is a run that TLC refutes, and a finding in `PROJECT.json`.

| Run | Claim | What happens |
|---|---|---|
| `driver_lockstep` | `current_phase` moves in lockstep (`docs/deployment-modes.md:83`) | hints A and B: A is dispatched, B dispatched and published, A published: the register says B, the file A. The register is only written in a build with `MEM_HINT_REAL_HW` (`mem_hint.c:38-44`), which is off by default |
| `driver_authority` | an explicit hint is authoritative (`:92`) | root moves a threshold, the next tick overrides the explicit phase |
| `tuning` | thresholds are tuned through sysfs (`:45`) | the attributes have variables of their own, which the classifier never reads |
| `scheduler_threads` | "Thread-safe scheduler" (`scheduler.py:16`) | the phase is noted after the lock is let go of; two calls note in the other order |
| `tools_report` | "Print formatted status", N/A for what was not read (`basic_hint.c:74-78`) | both reads fail, as they do with this kernel; the buffers are printed without having been filled |
| `scheduler_close` | the same as `scheduler_threads` | `__exit__` closes without the lock; a call under way writes to a number that is another file by now |

Other disagreements, met while reading and not the subject of a run: the polling
period is 100 ms in the code and 100 us in `README.md:104`; the threat model
lets the clamp precede dispatch (`docs/threat-model.md:19-22`), but the word that
is dispatched carries the hint as written and the limited values are only
logged; `/sys/bus/platform/drivers/mem_hint`, which README, library, client and
CLI use, does not exist, as only a platform device is registered; the MMIO channel
would write 32 of 64 bits and is unreachable, as its window is never mapped;
`ecc_state` is never written; there is no `last_transition_ms`, which
`docs/deployment-modes.md:79` tells the operator to check and without which the
CLI's status and monitor commands always report that the interface is missing;
"PMU classification provides a fallback" (`docs/deployment-modes.md:93`) fails
when hints stop while the classifier goes on inferring what it inferred last, as it
then applies nothing (`mem_hint_pmu.c:147`); and a kernel that "clamps priority to
[0,7]" (`docs/demo-output.md:105`) sees a negative priority as a byte above 7
and makes it 7, the highest: `PriorityIsNotLowered` states that direction.

## 6. Proofs

TLAPS proves, for every value of the constants that satisfies the named
assumptions:

* **Limiter** (`PhyDecisionProofs`): `TypeCorrect`, `LimiterSafety`,
  `LimiterIsTransparent`, `LimiterMonotone`, `ErrorsSlowDown`, and of what it is fed
  with `PriorityScaling`, `TableIsWithinLimits`, `SelftestSucceeds`. `PhyPolicyProofs`
  bounds the clamp and the relaxation of one number (`ClampBounds`, `RelaxBounds`),
  lifts them to a field (`LimiterField`) and to an operating point
  (`LimiterIsSafe`). Assumption: the limits satisfy `LimitsOK` (ranges are not
  empty, the floor of 22 lies under the maxima, a maximum is below 255, so that one
  more still fits a byte). `platform_limits` does (`PlatformLimits`), and what the
  policy engine proposes always fits its fields (`PolicyType`), so that only the
  arbitrary proposals rest on an assumption. `ScaledBetween` and `ScaledMonotone` are
  the arithmetic of the priority scaling, and `PolicyFloorOnly` says that of the
  limiter's stages only the security floor ever acts on the policy engine's proposals. The invariants are inductive with the
  fact that a limited point is `safety_clamp` of its request.
* **Hint path, data** (`HintPathProofs`): `PathImplementsDecision` carries the
  theorems about the limiter over to every hint; it rests on `ProposedAssumption`,
  that the proposals under decision include those of the sources, which TLC
  evaluates. `InferenceIsEarned` shows that the wrap of `write_bw_gbps * 2` is
  harmless, from `WidthAssumption` alone: twice a threshold fits a counter.
  `WordRepeatsRecord`, `FrontEndsMeanTheSame` and `PriorityNeverLowered` hold for all
  bytes and all integer arguments; `CallsAreUnderstood` says which arguments the driver
  reads, `PathEndsAsAsked` which operating point comes of them in the end, and
  `WordsTellHintsApart` that the hardware word loses the reserved byte and nothing else.
  The invariant is that the source never changes; the rest is arithmetic of `%` and
  `\div`.
* **Driver** (`MemHintDriverProofs`): `TypeCorrect`, `OnlyValidHintsApplied`,
  `OperatingPointsSafe`, `TicksAtomic`, `RegisterInStep`, and that the hint path
  implements `HintRegister` (`HintsTakeEffectOnce`), for any writers, hints,
  thresholds, channel values and sample. Each invariant is strengthened by what
  holds of agents under way: an applying agent's hint is valid, cut and without
  reserved bits set; the rules that a tick has passed do not match;
  while the latest dispatch was in unison, the one agent between dispatch and
  publication, if any, carries the phase in the register.
  For the refinement each action maps to a submission, a commit or a stutter.
  `RowApplied` says that the limiter leaves the driver's own proposals as they are but
  for the floor. `ClassifierStaysSettled` is the part of `ClassifierSettles` that is
  safety: at rest it stays at rest, from any place in a tick.
  `TunedHintsTakeEffectOnce` carries the refinement over to `MemHintTuning`, where root
  stores into the attributes meanwhile; as the two keep separate variables, each of its
  steps is one of the driver or none.
* **Attributes and library** (`MemHintToolsProofs`): `TypeCorrect`,
  `TunedWithinLimits`, `AcceptedReadsBack`, for stores by root and through the
  library and for any `MaxTuned`; the inductive invariant `InRange` says that each
  variable holds the number last written to it, and that its own store function would
  accept that number. `Ranges` and `CastIsHarmless` compare range check and cast
  attribute by attribute. `NoStrayHints` needs that a descriptor is the device's or
  negative (`Descriptors`), `AnswerIsTrue` that nothing is stored before the answer
  (`Answers`), `RowOfThisPoll` that what the monitor has still to read is an end of its
  list and what it has read holds a value of this poll (`Polls`, with `MonitorPlaces`
  for where a monitor can be). `MovesAreLoaded` is an action property: whichever step of
  a library function the module goes at, neither phase nor attribute moves without it.
  It needs that what is open belongs to a module that is loaded (`OpenMeansLoaded`).
* **Lifecycle** (`MemHintModuleProofs`): `TypeCorrect`, `UsersAreHeld`, `HoldsNest`,
  `LoadsWhollyOrNot`, for any files and operations. The inductive invariant says what
  is registered at each step of init and exit (`Stages`, `GroupStages`) and at which
  steps somebody may be inside (`Inside`). `LifeAdvances` gives init and exit a rank
  (`Left`) that every step of theirs lowers, through failures and unwinding, and
  `RemovalProceeds` says that nobody new comes in the way of a removal that waits.
* **Scheduler** (`MemHintSchedulerProofs`): `TypeCorrect`, `NoDeviceForgotten`,
  `NoStrayUnlessRushed`, `PhaseAgrees`, for any threads, calls and descriptors.
  `SchedulerInv`: one thread sends at a time (`Exclusion`), one closes (`OneCloser`);
  what a thread found out about `_fd` stays true until it acts on it (`Looked`), to
  the very write unless a call was under way while the client closed (`Unrushed`);
  a thread between write and note carries the phase the driver has (`Noted`).
  `LockAlwaysReleased` and `CallsAdvance` say that the lock is held by a call under way
  and that a call only moves on. `HintsToldAtMostOnce` is a refinement: scheduler and
  client implement `HintDelivery`, where a caller's hint is under way from the call to
  the write (`UnderWay`) and reaches the driver in one step or never, whatever the
  threads and the close do. The close, dry runs and exceptions map to losing a hint or
  to a stutter. It justifies that `MemHintHooks` takes a call of the scheduler as one
  step that may raise.
* **Hooks** (`MemHintHooksProofs`): `TypeCorrect`, `NeverIdleWhileQueued`,
  `IdleOnceDrained`, `IdleWhenClosed`, for any requests, engines and tokens. The
  strengthening is that only the vLLM hook has a queue and only the others a script.
  `ScriptsInTurn`: the sequential hooks tell each phase right after the one before it;
  its invariant is that what is left of a script is the end of it that follows the phase
  told last (`Remains`).

Every safety invariant and the safety part of every refinement that a passing run
checks is proved. Model-checked only: liveness, which is out of the prover's reach,
together with the fairness part of the refinement. What can be proved about it is its
safety core:

| Checked by TLC | Proved |
|---|---|
| `LoadFinishes`, `UnloadFinishes` | each step lowers a rank (`LifeAdvances`), and nobody overtakes a removal (`RemovalProceeds`) |
| `CallsReturn` | a call only moves on (`CallsAdvance`), and so does whoever has the lock (`LockAlwaysReleased`) |
| `ClassifierSettles` | what has settled stays (`ClassifierStaysSettled`) |
| `TakesEffectEventually` | no hint takes effect twice, out of nothing or in part (`HintsTakeEffectOnce`) |

The further invariants and action properties of the proof modules (`RowIsApplied`,
`LockIsPaired`, `LifeOnlyAdvances` and so on) are in no run; each was checked by TLC on
the instance of its component's run before it was proved.

## 7. Not modelled

The CLI, which keeps no state and whose status commands stop at a file that does not
exist; the client's sysfs helpers; the demonstration sequence; build files,
validation script, site. Of modelled components: equalisation and refresh fields of
an operating point, log texts, parsing of numbers in sysfs stores, the library's
refusals of NULL and of names too long for its path buffer. Three easings: the node is
openable only once `device_create` has made it, so no node for major 240 is left from
elsewhere; the tasks of the hooks are never cancelled, as nothing in them cancels; and
the MSR is one register, although `wrmsrl` writes that of the CPU it runs on.

Two programs that
announce phases to one device overwrite each other, last writer wins: nothing in
the code arbitrates, and the orders are those of the two writers in `driver`.

## 8. What is left

The liveness properties stay with TLC, at the bounds of section 3. A composition of
`MemHintHooks` with the steps of `MemHintScheduler` would add nothing while the
hooks run in one thread; it becomes worth having with a runtime that announces
phases from several, and would then build on `HintDelivery`. `MemHintTools` with more
than one process is left to the proofs, which hold for any number. Worth proving next:
that the phase noted by the scheduler is one that `HintDelivery` told, and that what the
monitor draws was published by the driver between its poll's first and last read.
