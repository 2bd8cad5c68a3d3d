# TLA+ models of the CS370 programs

This directory holds TLA+ specifications of the code that this repository adds
to Linux 2.6.22.19 (`src/linux-2.6.22.19-cs543`, below `L/`), of the kernel
primitives that code stands on, of the FAT12 programs (`src/FAT12`) and of the
lexer of CS720 (`src/CS720/parser`), the TLC configurations that check them on
small instances, and TLAPS proofs that hold for every instance.

## 1. The system

The repository is a vendored kernel with an operating-systems course's work in
it, and two small user-space programs.

| component | code | state | operations | interacts with |
|---|---|---|---|---|
| kernel semaphore | `L/include/asm-x86_64/semaphore.h`, `L/lib/semaphore-sleepers.c` | `count`, `sleepers`, wait queue | `down`, `up` | scheduler (sleep, wake-up); used by the next two |
| mailbox | `L/ipc/mailbox.c` | 128 list heads, messages on the heap, a semaphore | `sys_mysend`, `sys_myreceive` | semaphore, `list_head`, kmalloc |
| join | `L/kernel/sched.c:7351-7376`, `exit.c:921-934`, `fork.c:1271-1276` | `joined_processes`, `join_semaphore`, `pi_lock`, `PF_EXITING` | `sys_myjoin`, `do_exit`, `copy_process` | pid hash, RCU freeing of tasks, PI futexes |
| scheduler calls | `L/kernel/sched.c:7282-7349` | `time_slice`, `uid`, `exit_state` | steal, quad, swipe, zombify, mygetpid | timer tick, `schedule`, `sched_fork`, `sched_exit`, `wait4` |
| forcewrite | `L/fs/read_write.c` | file position | `sys_forcewrite` | VFS |
| printme, boot parameter | `L/init/main.c` | a flag | prints | - |
| FAT12 reader | `src/FAT12/src` | the image, the FAT, directory entries | list, extract | file system calls |
| CS720 lexer | `src/CS720/parser/src` | stream position, current token | `lex_get_next_token`, the loop of `main` | stdio's `getc`/`ungetc`; a parser that is still empty |
| wrappers | `L/wrappers` | - | one system call each | the system calls |

What is hard here, and a test would hardly reach:

* **Semaphore.** The value is spread over `count`, `sleepers` and the processes
  on their way to the queue; `up()` sends a wake-up only when it sees a value
  that was negative, and one wake-up may reach a process that needs none. The
  property is that permits are neither made nor lost and that no free permit
  meets only sleepers.
* **Mailbox.** Sends and receives interleave at the semaphore, a received
  message is copied and freed outside the lock, and addresses are reused. The
  properties: lists stay well formed, memory has one owner, no message is lost,
  a receive gets what it asked for, the lock is given back.
* **Join.** A joiner races with the target's `do_exit`, with its reaping and the
  freeing of the structure the joiner sleeps in, with `fork` making the target,
  and with the other users of the borrowed `pi_lock`. The properties: a join
  returns 0 only for an exiting target, every registered joiner gets its `up()`,
  memory is valid when used, locks are released.
* **Scheduler calls.** `time_slice` and `exit_state` are written without the
  locks and the bounds their other users rely on: the tick decrements an
  unsigned number and waits for zero, `sched_fork` and `sched_exit` move parts
  of it between tasks, `wait4` takes `exit_state` for the truth. The properties:
  fork and exit neither make time nor leave a task without, swipe moves what the
  victim had, only dead tasks are released, and no slice starves the others.
* **Lexer.** Every gap is skipped by reading one character too many and putting
  it back, EOF is a `char`, and comments have no other end than a newline. The
  properties: what is printed is in the grammar and in the file, nothing between
  is lost, only what is not a token is rejected, the program ends and frees.
* **FAT12.** The volume is read front to back through one unchecked file
  position, three bytes at a time; loops trust the directory and the chains. The
  properties: the position is where the layout says, array accesses stay inside,
  what is in memory is what the kernel's own FAT driver would read, files come
  out complete and in order, the programs end.

`PROJECT.json` lists the hazards one by one at their lines.

## 2. Modules

| module | models | kind |
|---|---|---|
| `CountingSemaphore` | what a semaphore promises | abstract |
| `SemaphoreSleepers` | `down`/`up`, `__down`/`__up`, wait queue, `schedule` | detailed |
| `MyJoin` | `sys_myjoin`, the join parts of fork and exit, release and RCU | detailed |
| `MailboxSlots` | the mailbox seen from outside | abstract |
| `Mailbox` | `sys_mysend`, `sys_myreceive` on pointers | detailed |
| `Fat12Volume` | layout, entry unpacking, entry tests, stamps; the kernel's versions as reference | operators |
| `Fat12Read` | `read_fat12` and the ends of both `main`s | detailed |
| `Fat12Files` | `print_fat12`, `extract_files` | detailed |
| `TimeSlice` | quad, swipe, zombify; tick, `schedule`, fork, exit, `wait4` | detailed |
| `Lexer` | `lex.c` and the loop of `main.c`; the tokens of `parse.h` as reference | detailed |
| `SemaphoreProofs`, `MyJoinProofs`, `MailboxProofs`, `Fat12ReadProofs`, `Fat12FilesProofs`, `TimeSliceProofs`, `LexerProofs` | theorems about the module of that name | proofs |
| `Summation` | induction over the naturals, sums over finite sets | lemmas |
| `MCSemaphore`, `MCMyJoin`, `MCMailbox`, `MCFat12Read`, `MCFat12Files`, `MCTimeSlice`, `MCLexer` | instances for TLC | |

`Mailbox` and `MyJoin` use their semaphores as one-step counters (`Down`, `Up`,
`TakePermit`). That is justified by `SemaphoreSleepers`, whose refinement of
`CountingSemaphore` is checked for the first and proved for both uses: the mutex
(`InitPermits = 1`, only holders release) and the join semaphore
(`InitPermits = 0`, the exiting task posts, joiners consume).

Definitions whose comment begins with *Fault* are not part of any specification.
Each is a plausible mistake in the definition that follows it; putting it in
that definition's place must violate the property `PROJECT.json` pairs it with.

### SemaphoreSleepers

A step is one atomic instruction on `count` or one critical section of
`wait.lock` (the section that contains `atomic_add_negative` is two steps,
because `up()` on `count` does not take the lock). `pc` says where a process is:
`dec` before the decrement, `enq` after a negative one, `add` and `leave` inside
the lock, `sched` and `asleep` around `schedule()`, `relock` after a wake-up,
`wake` inside `__up`. `state` is the task state that `schedule()` looks at, so
that a wake-up between unlock and `schedule()` is modelled. `WakeUp` is
`__wake_up_common` with `try_to_wake_up`: it passes over queued processes that
are still running and stops after the first it really wakes. `holders` is a
history variable. `MaxPermits` bounds posters that would post for ever.

### MyJoin

`life` is what has become of a `task_struct`: copied by `dup_task_struct`,
hashed by `attach_pid` while its join fields are still the parent's, alive,
exiting (`PF_EXITING`), zombie, released (unhashed, `call_rcu`), freed. `gp[u]`
is the set of tasks the grace period of `u` still waits for: those that were in
the kernel when `release_task(u)` ran, each until it next sleeps or returns to
user mode. `NCPU` bounds how many tasks are in kernel mode at once; a task that
spins keeps its CPU. The kernel is configured without preemption and without SMP
(`L/.config:133-136`), so `NCPU = 1` is the repository's build and `NCPU = 2` a
build with `CONFIG_SMP`. The early return of `sys_myjoin` without an unlock is
modelled as it is (`JoinTooLate`). `Free` leaves some of the joiners that are
still on the semaphore `"woken"` and the others asleep: `up()` wakes one when the
count was negative, every further one is woken by the joiner before it
(`semaphore-sleepers.c:88`). A woken joiner of a freed task may go on as if nothing
had happened and wake the next one or none, or be lost in foreign memory
(`JoinWakeFreed`, label `"wild"`); one that is not woken sleeps for ever. On
several CPUs a joiner can meet the semaphore that `dup_task_struct` copied from the
parent, before `sema_init`: there is no permit in it, and it goes to `__down`
(`JoinSlow`), where the copied wait queue is linked to the parent's and
`__list_add` calls `BUG()` (`CONFIG_DEBUG_LIST`, `L/.config:990`), unless `sema_init`
has come between and lost its decrement: then `down()` returns 0 at once
(`JoinSlowEnd`). What a task does after a `BUG()` or in freed memory is not
followed. Every `task_struct` is used for one pid: reuse of the memory is what
"freed" stands for. Time in `do_exit` that has no effect on joining is
one step.

### Mailbox

`next` and `prev` are the pointers of all list heads, buckets and messages
alike; `list_add_tail` is called with its arguments swapped, as in the code.
`heap` says which addresses kmalloc has handed out; `sender` and `receiver` are
the fields of the live ones. Contents and lengths are left out: nothing but the
returned number depends on them. A kmalloc that fails kills the caller
(`SendNoMemory`). Pids are non-negative; a negative destination would index
outside the array and is not modelled.

`MailboxSlots` is what this code implements: each bucket remembers the last
message sent to it. It is *not* what a mailbox should be, see the findings; it
is stated because it is exact, and because it contains what does hold: a receive
takes only a message for the caller from the sender asked for, takes it once,
and comes back empty only if the bucket's message does not match.

### Fat12Volume, Fat12Read, Fat12Files

`Fat12Read` is one run of `read_fat12`: a phase for each of its parts, `pos` the
file position of the descriptor, one step for each turn of its two loops. An
image is its boot fields, the bytes of a FAT, its root directory and its length.
A byte or entry that a read cannot take from there, because the image is short
or because the position is off, is chosen from `GarbageBytes`/`GarbageEntries`.
`Fail` is an I/O error, a seek on something that cannot seek, or `malloc`. Boot
sectors are those a formatted volume can have (at least one reserved sector, one
FAT copy, a FAT of three bytes or more): with zeros there the sizes wrap. `boot`
is what the fields hold after the reads. If the file ends inside the boot sector
that is partly what was in memory before; files of that length are checked with
every boot sector of the instance, but fields that no boot sector has are not.

`Fat12Files` starts from the `fat12_t` in memory. Its volumes include damaged
ones; reads outside an array crash or give `JunkEntries`/`JunkClusters`. `vol`'s
label is the one `RootRead` of `Fat12Read` describes. `out` records for each
file the pieces written, by disk address and length. `short` marks files for
which an ignored error occurred in `write_cluster`. Bounds: `Overscan` entries
are read past a full directory, `MaxCopies` pieces are remembered of a cyclic
chain, `UINT` stands for 2^32. A volume has a cluster size above zero, a FAT of
at least one pair of entries, 16 bits for the size of its directory, and a data
area below 2^32 bytes, as every FAT12 volume with clusters of up to 32K has
(`VolumeAssumption`); `MaxCopies` is at least the length of every chain without a
cycle (`BoundAssumption`), so that the bound forgets nothing of a sound file.

The definitions named `Kernel...` are translated from `L/fs/fat` and are what
the programs are compared with. `Files`, `SoundVolume` and `SizeFits` say what a
volume contains without using the programs' tests.

### TimeSlice

One CPU without kernel preemption: `curr` is the only task in the kernel, `pc`
and `reg` say where it is and what its registers hold, and the timer (`Tick`) is
all that comes between. `array` is the run-queue array a task is in; `schedule`
swaps the arrays when the active one is empty and picks any active task, since
priorities are not modelled. `Ticked` is `task_running_tick`, used by the timer
and by `sched_fork` for a parent left with nothing. A fork may fail after
`sched_fork`, may use `CLONE_PARENT` or `CLONE_VM`. Slices count modulo `UINT`.
`QuadStore` and `SwipeAdd` use the value in memory or one loaded before a tick:
the code says neither. In `sys_swipe` the walk over the victim's children is the
one the code makes: `list_for_each_entry` is given the member `children` where
the list is linked through `sibling`, so `child_task` is off by the distance of
the two and `child_task->pid` never is the target; and what is added is the
victim's slice again, which is 0 unless a tick has wrapped it. A task that was
zombified and then released by `wait4` runs on until its next fork, wait or exit
finds no `signal_struct` and ends in `do_exit`'s recursive-fault branch (`Oops`).

### Lexer

A step is one character read, with `pos` the position in the stream. `NextChar`
is what the code sees of it: a `char`, so that the byte 0xFF (`"ff"`) equals EOF
at the end of the file; `Unread` is `ungetc`, which does nothing for EOF, so
that a 0xFF read in a gap is dropped. `tok` has the position its text starts at
as a history field. `out` is what `tok_print` printed; `owned` is what has been
allocated or opened and not given back. Letters are a constant set, and the
reserved words are a constant set of words that all have the type
`"INSTRUCTION"`. `TypesOf` is the token grammar of `parse.h:59-91`, with its
registers R1 to R8 and its instructions (`Mnemonics`); it shares nothing with the
scanner but the character classes. The scanner has R0 to R7 (`lex.c:237`) and
lacks `not` among its `reserved_words`: these texts are `Disputed`. `TokensMatch`
gives them the scanner's types and all other texts the grammar's.

## 3. Runs

| run | instance | shows |
|---|---|---|
| `semaphore_mutex` | 3 processes, 1 permit | the mutex use: mutual exclusion, refinement, no lost wake-up, progress |
| `myjoin_smp` | 3 tasks, one of them forked, 2 CPUs, one PI futex owner | with real overlap: sound results, valid pointers, lock discipline, no joiner of an old task forgotten, joiners released, `do_exit` gets its lock; the behaviours of one CPU are among these |
| `mailbox_smp` | pids 1, 2, 3 in 2 buckets, 2 addresses, 2 CPUs | list, memory, refinement and lock properties with a contended lock; the behaviours of one CPU are among these |
| `fat12_read` | sectors of 4 or 8 bytes, FATs of 4 to 24 bytes (all remainders by 3), 1 or 2 copies, 1 or 2 reserved sectors, up to 3 entries, three truncations, files of 0 and 3 bytes with every boot sector | reading: position, bounds, unpacking, directory, frees, end |
| `fat12_files` | all 7^4 tables for one file; all directories of 3 entries of 8 kinds; every bit of a stamp | listing and extracting |
| `time_slice` | 3 tasks, two of them forked, slices of 2 jiffies modulo 16, one call of quad, swipe or zombify | slices, time, releases and the CPU under every interleaving with the tick |
| `lexer` | all files of up to 4 of 17 pieces (88741 files) | tokens, gaps, rejections, end |

Why the bounds are enough to be interesting: three semaphore users are the
fewest with a holder, a sleeper and a newcomer that overtakes.
Three tasks give a target, two joiners of it or
a joiner and a reaper; the third task of `myjoin_smp` is made by fork. Pids 1 and 3 share a bucket, so a scan meets a
message for somebody else, and two addresses are enough for a message to be
overwritten and for an address to be freed and used again. The FATs are the
smallest with each remainder by 3 and at least one pair after the two marks;
their bytes are real bytes and the entries real 12-bit numbers. Four clusters
give chains of every length up to four, cycles, dangling and foreign ends. With a full slice of 2 a parent can have an
odd jiffy, none left after halving, and more than a full slice after recovering
a child's; one added call is enough for a product, a slice of 0, its wrap to 15
and a zombie that lives; `Tick` comes at most once inside a call, which takes
less than a jiffy. Four pieces are a number with its separator and a neighbour,
or a newline, a comment, a newline and what follows; the pieces 65535 and 65536
are on both sides of the 16-bit limit, R0, R7 and R8 on both sides of the
registers' limits.

In `semaphore_mutex` and `time_slice` deadlock is checked. In the others it is not: tasks may all
have exited or been killed, or sleep for ever in a join of themselves, and the
FAT12 programs and the lexer end.

Runs that are expected to fail, each stating a sentence of the repository and
showing that the code does otherwise:

| run | property | what happens |
|---|---|---|
| `myjoin_leaked_lock` | `ExitHoldsNoLock` | join of an exiting task returns with its `pi_lock` held; the caller exits with it |
| `myjoin_freed_semaphore` | `SleeperHasTarget` | the target exits, is reaped and freed before the woken joiner runs |
| `mailbox_lost_message` | `NoMessageLost` | two sends to one bucket; the first message is unreachable |
| `fat12_skew` | `RootFollowsCopies` | a FAT whose bytes 3 does not divide (1, 2, 4, 5, 7... sectors of 512) puts the root directory one byte off; with remainder 2 the last pair of entries is also written past the array |
| `fat12_whole_clusters` | `FilesComplete` | a file of exactly n clusters comes out with n - 1 |

Two behaviours exist only in a build with `CONFIG_SMP`, which the repository does
not configure, and are therefore not runs: a child joined after `attach_pid` and
before `sema_init` forgets its joiner, lets it return at once or stops it with a
`BUG()` (`Unraced` excepts such children in `JoinSound`, `JoinersAccounted` and
`JoinerReleased`), and `sys_mysend` can read the length of a message its
receiver has freed (`SendReturnsOwnLength` fails with two CPUs). For one CPU
`JoinSound`, `JoinersAccounted` and `SendReturnsOwnLength` are proved without
exception.

The passing runs say what holds in spite of these: `RootAligned` and
`ArraysInBounds` for FATs that 3 divides (3 or 9 sectors, as on 720K and 1.44M
disks), `SizesKept` for files that do not fill their last cluster, `ReadsInside`
for directories with a free entry and chains that end with the volume's own
mark, `StampsAgree` for stamps without the bits that `MINUTES_MASK` and
`YEAR_MASK` drop; `SliceInRange` and `TimeIsShared` until one of the added calls
is made, the latter but for a jiffy at nice 19, `JoinerReleased` until
the target is freed, `LivingNotReleased` for tasks nobody zombified, `SwipeMovesTime` without
a tick that hits target or victim; `NothingLost` and `NewlinesCollapsed` but for
the byte 0xFF, `EndsCleanly` but for a file that ends in a comment.

What these exceptions stand for, seen in the models and not runs of their own:

* At nice 19 a full slice is one jiffy (`sched.c:97-102` with HZ=250). If a tick
  comes between the entry to fork and `sched_fork`, the caller has been refilled
  and expired; `sched_fork` gives the child a jiffy, and the `task_running_tick`
  that should charge the parent returns at once (`sched.c:1733-1740`, `3420-3424`).
  Both have a jiffy, though "the total amount of pending timeslices in the system
  doesn't change" (`sched.c:1719-1722`). `TimeIsShared` allows exactly this one; it
  is proved for every full slice, that of one jiffy included, and TLC finds it
  true, and false without the allowance, if `Full` is set to 1 and `MaxCalls` to 0
  in `MCTimeSlice.cfg`.
* `R0` is printed as a REGISTER, `R8` and `not` as an IDENT, where the grammar has
  `R[1-8]` (`parse.h:67`) and `not` (`parse.h:84`). `TokensMatch` says so of these
  three texts and holds all others to the grammar.
* After `swipe` the victim has a slice of 0; its next tick makes that 2^32 - 1,
  and it may run for months ("maximum timeslice is 800 msecs", `sched.c:97-99`).
  `EveryoneRuns` still holds: the slice does run out. Sixteen calls of `quad`
  on a slice of 25 jiffies make it 0, with the same effect.
* `quad` on a forked child that then exits gives the parent time it never had,
  against `sched.c:1833-1835`. A tick in `swipe` after line 7324 adds the wrapped
  slice once for every child of the victim.
* After `zombify` a `wait4` of the parent releases a living task; its remaining
  first slice is recovered by the parent and still used by the task.
* The lexer rejects a blank or a comment at the beginning of a file, and an
  identifier or number at its very end: EOF is no separator.
* `EveryoneRuns` holds because the tasks of the model are finitely many: a task
  that keeps forking children which exit before a tick hits it gets its halves
  back and is never charged.

### Fairness

Weak fairness of the steps a process takes once it is inside a call: a runnable
process that stays able to go on is eventually run, which the O(1) scheduler
guarantees for equal priorities. Nobody is obliged to make a call. No fairness
is assumed between competitors for a spin lock or a semaphore: `down()` can be
overtaken, so the liveness properties say that *some* waiter proceeds
(`PermitIsTaken`), that the lock comes back (`LockReleased`), or follow from
there being a permit for everybody (`JoinerReleased`). The FAT12 programs
and the lexer are single threads that run until they exit. In `TimeSlice` the
timer keeps ticking, the current task goes on once it is in the kernel, and a
pending reschedule is done on the return to user mode. `JoinerReleased` promises a
return with 0 and excepts the state `Hung`, in which every CPU spins on a `pi_lock`
left behind by the early return, and a joiner still in `down()` when its target is
freed (`Abandoned`), which is the violation of `myjoin_freed_semaphore`: being
lost in freed memory is no release. `ExitGetsLock` shows that `do_exit` itself never gets into it at
its first lock.

## 4. Proofs

For every finite set of processes or tasks, every number of buckets, messages
and CPUs unless said otherwise. The assumptions are the named ASSUMEs of the
modules: finiteness, distinct "no value" constants, non-negative pids, at least
one bucket and one CPU.

* `SemaphoreProofs`. The type invariant and `QueueConsistent` are inductive
  together with the facts that a process between the decrement and the queue
  owes a unit. `ImplementsCounting` maps `Permits = count + sleepers + |enq|` to
  the abstract value; the proof needs that the unit `sleepers - 1` folded back
  by `atomic_add_negative` is conserved, and finite-set lemmas for the
  cardinality of `enq`. `SemaphoreIsMutex` is the abstract invariant carried
  over for `InitPermits = 1`. `WakeupsAreNotLost` needs the second conjunct of
  `NoLostWakeup`: with a sleeper and `sleepers = 0` somebody is contending.
* `MyJoinProofs`. `Inv1` ties a task's place in the code to the life of its
  structure; it gives `TypeCorrect`. With `OldTasks`, `UpInv` (below) and
  `SlowRaced` (only raced targets are met half made) it gives `JoinIsSound`.
  `GraceCovers` (a pointer
  in use belongs to a task the grace period waits for) gives `PointerIsValid`;
  `LockInv` (who can own a `pi_lock`) gives `LocksAreDisciplined`.
  `NoJoinerForgotten` counts for every number of CPUs: the permits never exceed
  the waiting joiners, and equal them for a task of the start (`OldTasks`: it
  was never half made) or, on one CPU, for every task, because of `UpInv`: there
  nobody is in `sys_myjoin` while a child is hashed but not initialised.
* `MailboxProofs`. `RingInv`: a bucket is empty or a ring with one live message
  whose receiver hashes to it. `ShapeInv`, `HandsInv`: a message points to
  itself, to a bucket or nowhere, and which of these tells whose hands it is in.
  `CursorInv`: a scan is on its ring, and is past it only if nothing matched.
  With `LockInv` they are inductive and give the list, ownership and memory
  theorems and `ImplementsSlots`. `SendReturnIsOwn` assumes one CPU.
* `Fat12ReadProofs`. `PosInv` gives the file position before each step in terms
  of the layout; `Layout` has the products of boot fields it needs, so that the
  steps are linear arithmetic with division by 2 and 3. `CountInv` (the counter
  is even, and does not pass the number of entries if 3 divides the FAT) makes
  it inductive and gives `ArraysAreInBounds`. `TripleIsKernels` compares the
  unpacking of three bytes with the kernel's by entry number, and gives
  `TableIsTheKernels` for every FAT, skewed or not. `PtrInv` gives the frees.
  Boot fields are natural numbers, sector size at least `BootSize`.

  `RootInv` says what the loop has read so far and which label it has seen last,
  and with `PosInv` gives `DirectoryIsRead`.
* `Fat12FilesProofs`, for every set of volumes, sound or not, and every content
  of the memory around the arrays. `Base` has the types (`FilesTypeCorrect`) and
  that `i` has an output while it is copied. `Walk` says what the walk over the
  directory has done: nothing free was passed, the entries handled are the files
  before `i`, the totals are theirs; `OneMoreEntry` and `NoMoreFiles` compare the
  programs' tests with `Files`, and `FilesAreHandled` follows. `Copies` says that
  while a file is copied `cluster` is the p-th of its chain and p - 1 pieces are
  written, and that finished files have the whole chain; on a sound volume an
  end mark is not inside a chain, so the loop stops at its last cluster.
  `FreeEntryAhead` is why the counter that nobody compares stays inside. These
  give `ReadsStayInside`, `ChainsAreCopied` (with `AddressAgrees`: no 32-bit
  wrap) and `SizesAreKept` (with `LastClusterSize` and `BytesOfPieces`).
  `ChainFacts` is what the recursive `KernelChain` computes.
  `StampsArePrinted` covers all dates and times.
* `TimeSliceProofs`, for every finite set of tasks, every full slice of at least
  1 and every unsigned range above twice that (`SliceAssumption`: a full slice is
  at most 200 jiffies of 2^32). `Base` is the type invariant with where `reg`
  points at each `pc`. `SlicesSound` adds that a child between `sched_fork` and
  `wake_up_new_task` already has its share, and gives `SlicesStayInRange`.
  `ReleaseInv` gives `ReleasedHaveExited`; `SwipeInv` follows an undisturbed swipe
  through its stages. `SharingInv` (a task that expires inside fork has just been
  refilled; who forks, exits or is waited for is not released) makes every step's
  change of the sum computable, and gives `TimeNotGenerated`, for a full slice of 1
  with the jiffy a fork after an expiry makes.
* `LexerProofs`, for every file and alphabet and all sets of reserved words and
  instructions. `TokInv` ties
  `tok.value` to the text from `tok.from` to `pos` at each place in the code,
  `GapInv` does so for what is skipped, `OutInv` and `LineInv` for the printed
  tokens; together they are inductive and give `NothingIsLost` and
  `NewlinesAreCollapsed`, and with `SpacedInv` (a separator stands after every number
  and word that was accepted) `TokensAreTexts`. For `RejectionsDeserved` each `UNEXPECTED_CHAR` is
  shown to be at a place where every candidate text, up to any separator, fails
  `TypesOf`; `SepInv` says what has been read when the separator is looked for.

The library's induction theorems take an operator as a parameter, which the
provers used cannot instantiate. `Summation` therefore proves induction over the
naturals for a *set* (`NatSetInduction`, from well-foundedness), and with it that
the folds behind `SumFunction` are sums: any element can be taken off. `Iterate`
of `Fat12FilesProofs` uses it in the same way for functions defined by recursion.

Model-checked only: the liveness properties `PermitIsTaken`, `JoinerReleased`,
`ExitGetsLock`, `LockReleased`, `ReadEnds`, `ProgramsEnd`, `EveryoneRuns` and
`EndsCleanly` (fairness is beyond the provers used), and the properties that are
false. Every invariant of a passing run is also a theorem. The type
invariants of the semaphore, of join, of the mailbox and of `Fat12Read`, and the
join use of the semaphore, are proved and not part of a run.

## 5. Not modelled

* `down_interruptible`, `down_trylock`: not called by the code of interest.
* Message contents and lengths, copying to user space, partial copies.
* Negative pids in the mailbox; kernel memory outside what the code owns.
* The rest of the kernel, kdb, drivers; `wrappers/`; `printme`.
* FAT12: file names (`fat12.c:375-399`), permissions and the bytes of files;
  boot sectors with zero fields; memory that `write_cluster` never frees.
* `sys_steal` and `sys_mygetpid`: one stores zeros in `uid` and `euid`, the other
  reads the pid. `sys_forcewrite`: all it does happens in the VFS.
* TimeSlice: priorities, sleep averages, real-time tasks, ptrace, several CPUs,
  the blocking form of `wait4`.
* Lexer: the hash map of the reserved words, a macro of a library that is not in
  the repository; the strings' memory; `parse.c`, which is empty.
* Linux itself is more than 99% of the lines of the repository and is modelled
  only where the author's code touches it.

## 6. Plan

1. The composition of `Mailbox` with `SemaphoreSleepers` instead of its counter,
   and that the lock it then has implements the one-step `Down` and `Up`.
2. Lexer and FAT12 reader: that a run which ends has given back what it owns, as
   an invariant of its own beside the liveness property that TLC checks.
