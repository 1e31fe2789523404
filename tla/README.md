# Verification of the EC440 course works

The repository holds six C programs that grew in sequence: a shell parser
(`challenge_0`), a shell (`challenge_1`), a user-level thread library
(`challenge_2`), its mutexes and barriers (`challenge_3`), thread-local storage
with copy on write (`challenge_4`) and a file system on a virtual disk
(`challenge_5`).  This directory holds TLA+ models of all six, the TLC
runs that check them, and TLAPS proofs of the safety properties for instances of any size.

Paths below leave out the common suffix: `threads.c` is
`src/challenge_2-AShLiX-main/ch2/threads.c` (the same file as in `challenge_3`),
`tls.c` is `src/challenge_4-AShLiX-main/ch4/tls.c`, `fs.c` and `disk.c` are in
`src/challenge_5-AShLiX-main/`, `myshell.c` in
`src/challenge_1-AShLiX-main/simple_shell/`, and so are `myshell_parser.c` and its
header, unless `challenge_0` is named.

## 1. Inventory

| component | state it keeps | operations | what is hard about it |
|---|---|---|---|
| scheduler (`threads.c` 16-370) | `thread_id_available`, one control block per id (saved registers, status, blocked flag), `current_running_thread`; the process's signal mask | `pthread_create`, `pthread_exit`, `pthread_self`, `schedule()` | `schedule()` is both a function the library calls and the handler of a 50 ms SIGALRM, so it may interrupt itself and every other call; `longjmp` does not restore the signal mask |
| mutexes (372-736) | a linked list of elements with an in-use flag; the global sets `new_set`, `old_set` | init, destroy, lock, unlock | each call blocks SIGALRM, but through two *global* signal sets; lock polls and restores the mask in the middle |
| barriers (1147-1292) | four parallel arrays, grown by every init; an index in each `pthread_barrier_t` | init, destroy, wait | the last of a party unblocks the others; destroying or initialising again while threads wait |
| thread-local storage (`tls.c`) | `tls_array`, `tls_exist_array`; reference-counted pages, kept `PROT_NONE` between calls | create, destroy, read, write, clone, the SIGSEGV handler | real threads; only clone takes the mutex, everything else relies on its clients; clones share pages until one writes |
| file system (`fs.c`) | owner and page number per block, name/size/free flag per file, file and pointer per descriptor; a copy of the tables on the disk | make, mount, umount, create, delete, open, close, read, write, lseek, truncate, get_filesize, listfiles | tables live in memory and are converted to bytes at umount; disk-full paths; boundaries between pages |
| virtual disk (`disk.c`) | one host file, open or not | make, open, close, block read and write | `make_disk` does not look whether the disk is open |
| shell (`myshell.c`) | processes, descriptor tables and pipes; per pipeline the pipes made so far and the stage it is at | read and parse a line, run a pipeline in the foreground or in a forked leader | each stage is waited for before the next is started; background leaders are never reaped, read ends never closed; descriptors are closed by numbers that have been given again |
| parser (`myshell_parser.c`, twice) | none between calls | `pipeline_build`, `pipeline_free` | one scan with a mode and flags; early returns that free a half-built pipeline; what has been set when a line ends without a newline |

How they interact:

* Mutexes and barriers call `schedule(0)` to give up the processor and set the
  blocked flag the scheduler reads; a barrier also writes the status of the
  threads it releases.  All three share the process's signal mask.  The signal may land between any two
  instructions of any of them while it is unblocked.
* `tls.c` uses the system's pthreads, not `threads.c`; threads interact through shared
  pages, page protection and the two arrays.
* `fs.c` calls `disk.c` under its own mutex.
* `myshell.c` calls the parser and otherwise only the kernel.  Its programs may read the
  input the shell itself reads its lines from.

What makes each correct: the scheduler resumes each thread exactly where it left
it and passes nobody for ever; at most one thread holds a mutex, and a free mutex
does not stay free while somebody wants it; a barrier lets its party through
together, early for nobody; thread-local storage behaves like
private memory although it is shared, loses no page and frees none early; the
file system behaves like a set of byte sequences, takes no block for a file that does not exist and
brings every file back after a remount; a pipeline ends when its commands do, and the
parser builds what the grammar says.

`PROJECT.json` lists the hazards at their lines, with the properties that watch them.
Hazards known and not listed there because nothing in the models can show them: stacks
are allocated at every `pthread_create` and never freed (`threads.c` 343); `malloc`
may be interrupted by the scheduler; mutex keys are random bytes and may
coincide (457); `offset + length` may wrap in `tls_read` (`tls.c` 244); a thread that
ends keeps its storage slot; the page number -1 of a free block is saved as
255 (`fs.c` 271); tables reach the disk only at umount, so a crash loses all files made
since the mount (249); whether the mutex of `fs.c` is initialised is kept in unguarded static flags (44); a mount that fails on a disk without tables
leaves the disk open (`fs.c` 182); `fs_truncate` takes a negative length (1004);
the last runnable thread exits while others are blocked (`threads.c` 369); `pthread_mutex_destroy` frees an element
that a waiting lock points to (568), which the models exclude as a rule of the clients;
a child whose `execvp` fails flushes its copy of the prompt, still buffered by stdio, into its output (`myshell.c` 39);
`pthread_barrier_init` asks `malloc` for one byte more than the entries so far and not for one entry more
(`threads.c` 1193-1196), which the rounding of `malloc` covers; `Barrier` gives the new entry its room.

Where the models can show a hazard and the code falls to it, a run that is expected to be violated or one of the
configurations beside the runs shows it (sections 3 and 6).

## 2. The modules

| module | what it models | extends |
|---|---|---|
| `ThreadSched` | the scheduler | |
| `RoundRobin` | `ThreadSched` with a history variable counting how often a runnable thread is passed | `ThreadSched` |
| `CriticalSection` | the `new_set`/`old_set` protocol of the mutex and barrier calls | `ThreadSched` |
| `Mutex`, `Barrier` | the calls themselves | `CriticalSection` |
| `Threads` | the composition of all of these, with the properties that need several | `Mutex`, `Barrier` |
| `PrivateMemory` | **abstract**: every thread has a memory of its own | |
| `TLS` | `tls.c`; implements `PrivateMemory` | |
| `FlatFiles` | **abstract**: named byte sequences and descriptors with a position | |
| `Disk` | `disk.c` | |
| `FileSystem` | `fs.c`; implements `FlatFiles` | `Disk` |
| `Parser` | `pipeline_build` and `pipeline_free` of both versions as operators, and what a line means without scanning it | |
| `Shell` | `myshell.c` with the part of the kernel it uses | `Parser` |
| `ThreadSchedProofs`, `RoundRobinProofs` | proofs about the scheduler | `ThreadSched`, `RoundRobin` |
| `ThreadsProofs` | proofs about the calls on mutexes and barriers: where each suspended thread stands, the signal mask, the locks and the parties | `Threads`, `ThreadSchedProofs` |
| `TLSProofs`, `FileSystemProofs` | proofs about thread-local storage and the file system | `TLS`, `FileSystem` |
| `PrivateMemoryProofs` | proof that `TLS` implements `PrivateMemory` | `TLSProofs` |
| `ParserProofs` | proofs about both scans and both ways of freeing | `Parser` |
| `ShellProofs` | proofs about the shell, its processes and descriptors, and the line it has read | `Shell`, `ParserProofs` |
| `MC...` | values for constants that a `.cfg` cannot write, symmetry, views | |

Operators preceded by a comment `Defect:` are wrong on purpose.  Each stands for a
plausible slip in the code and shows that a property notices it; no action uses them.

### Threads

One kernel thread runs everything.  The state therefore has one executing
*continuation* `run` (whose stack, at which label, with which locals of the
library call) and one mask bit `sigalrm_blocked`.  A control block's `jump_buf`
holds a continuation, or `NoCtx` when nothing was saved there or it was resumed
already: resuming that is undefined behaviour, modelled by `process = "undefined"`.

* `schedule()` called by the library takes three steps (choose, assign
  `current_running_thread`, setjmp/longjmp), because the signal may land between them.  As the
  signal handler it is one step, `Alarm`, since SIGALRM is blocked while it runs.  A context
  suspended in the handler unblocks the signal when it is resumed (sigreturn);
  any other resumption leaves the mask as it is.
* `pthread_create` is split where it matters: finding the id, claiming it
  (the flag is *negated*), publishing the control block.
* `AlarmPoints` says at which labels the signal may land; where it may not, the run
  or theorem says so.  Nothing in the code keeps it out of the windows of `pthread_create`
  (`claimed`, `picked`) and `schedule()` (`switch`): the run `sched_create` and the configurations
  `MCThreadSched_pick`, `MCThreadSched_switch` show what happens there, and `MCThreads_mask_window` and the run `lock_window` do so
  for the windows of the calls (`fill`; `first_set`, `elem_set`).
* A call on a mutex or barrier enters through `Enter`, `FillSet`, `BlockAlarm`, and its body is one step
  with the signal blocked, except the waiting loop of lock, whose test and set are apart.
* The clients unlock only what they hold, do not exit holding a mutex and do not
  destroy a mutex another call is using.  `InitWhileLocking` says whether any mutex may be initialised while any
  thread is inside a lock, `TouchInUse` whether a barrier may be initialised again or destroyed while threads wait on it.
* Every thread, main included, may wait and exit.  When nobody else can run, `schedule(0)` comes back to a
  waiting thread at once; the history variable `alone` of `Threads` records that this has happened.
* `pthread_self` is `current_running_thread`; registers, stacks, printing are not modelled.

### Thread-local storage

A thread is in at most one call, whose locals are its `frame`.  Each call is a
sequence of steps, one per access to what other threads can see: find and claim a slot, open a
page, copy a piece, seal it, count down a page, replace it.  Pages are ids with a reference count,
bytes and protection.  A forbidden access runs the SIGSEGV handler, which ends the
thread if the page belongs to some storage and the process otherwise; `Touch`
is client code that strays into a page between calls.

`Overlap` lists which operations clients let run concurrently.  In the passing run clones
overlap, and a read overlaps a destroy; everything else is serialised by the clients,
as `test_tls.c` does with `create`.

`tls_read` copies into a `buffer` that has one entry more than the caller's: `ReadStaysInBuffer` says that the entry
is left alone, which a read ending one byte before a page boundary violates (`MCTLS_buffer`).  `EmptyWrites` says whether
clients write nothing: such a write seals the page of a number that was never set (`WriteStray`), which may end the process (`MCTLS_empty`)
and, where calls are serialised as in the run `tls`, does no other harm.

`FreshPages` chooses the lowest free ids relative to the slot, so that histories that
differ only in addresses coincide; `mmap` does not fail, and `MaxPages` is large enough for every storage.

### File system

Every call holds one mutex from its first access to its last and is one step; only
`fs_get_filesize` reads the size after giving the mutex back and is two.
A call that is refused before it changed anything is no step.  The eleven blocks in front of the disk
are one record, `meta`, of what `umount_fs` writes into them, byte conversions
included: sizes through a signed char (`CharOf`), the first half of the owner table twice, page -1 as 255.
`file_block_count_list`, which nothing reads, is left out, and so are failures of
the host file.  `call` and `result` record the last call, so that the refinement covers
what clients are told and not only what is stored.

`FlatFiles` says what the comments of `fs.c` say: a write extends a file and changes nothing behind what it overwrites,
the position moves by the bytes written or read, a call that fails changes nothing.
The file system does not behave like that for every client.  `Care` names the
rules clients follow; each is needed, and a configuration without it shows the violation:

| rule | what goes wrong without it | `MCFileSystem_...` |
|---|---|---|
| `in_order`: the descriptor opened has the number of the file, as in `test_fs.c` | `fs_read` and `fs_write` look up the size under the descriptor (`fs.c` 673, 718) | `descriptors` |
| `not_at_end`: no read with the pointer at the end | one byte past the end is read and the pointer moves past it (605-677) | `at_end` |
| `to_end`: a write reaches the end of the file | what is behind the last byte written is cut off (858) | `inside` |
| `whole_writes`: no write that the full disk cuts short | bytes are added and the pointer stays (846) | `short` |
| `small_files`: umount only while sizes fit a signed char | a file comes back with another size (300) | `sizes` |
| `low_blocks`: umount only while the blocks of files lie in the first half of the disk | a file comes back without a block (255) | `remount`, a run |
| `format_empty`: no `make_fs` on the mounted disk while there are files | the disk is emptied and the call then fails (66-78) | `format` |
| `keep_asked`: a descriptor is not closed while `fs_get_filesize` is about to answer for it | the answer is the size of a deleted file (895) | `filesize` |

A write that takes no block at all on the full disk changes nothing and is left to clients under `whole_writes`.
Blocks past the size of a file that has been cut stay with the file until it is deleted: they are lost to others,
and `BlocksBelongToFiles` does not object.

### Parser and shell

The scan is a fold over the line.  The only thing said of an ordinary character is
that it is not special, so a line is a sequence over seven characters and a word is the pair of
indices between which it is copied.  `heap` collects the blocks allocated, so
that they can be compared with those `pipeline_free` gives back.  The entries of a command's arguments past the last
word are set to NULL only when a bar or the newline is reached: after a refused line, or one without newline,
`pipeline_free` frees pointers that were never set (361), which `FreeUnset` lets end the shell.
`CommandArgs` is the array with its words, its NULLs and the entries nobody has written (`Unset`).
`Meaning` and `Refused` say what a line means by what stands where, the last word of a line without newline
included.  `BuildIsMeaning` compares the two for lines that end in a newline; for others they
differ (`MCShell_lines`).

| action of `Shell` | code (`myshell.c`) |
|---|---|
| `ReadLine`, `EndOfInput` | `fgets` (42) |
| `ParseLine`, `NothingToRun` | `pipeline_build`; the loop is left out for a refused line |
| `ForkLeader` | the fork of a background pipeline (56): the leader runs the same loop and exits after it |
| `MakePipe`, `PipeFails`, `ForkStage` | one turn of the loop over commands up to `fork` |
| `WaitStage`, `WaitLast`, `LeaderEnds` | `waitpid`, closing the write end, going on to the next stage |
| `Redirect`, `OpenFails`, `Exec`, `ExecFails` | a stage from `fork` to `execvp` |
| `StartWrite` ... `Finish` | the program: reads, writes and ends as it likes |
| `FreePipeline`, `FreeUnset` | `pipeline_free` at the end of a turn |

The shell is process 0; leaders and stages are copies of whoever forked them, descriptor tables
included.  A descriptor is the lowest free number, and `close` and `dup` act on numbers, as in the code:
a stage closes a number that its parent has closed already and that may stand for something else by then.
A failing `fork` leaves its caller in the branch of the child, because the test is
`fork() > 0`; a failing `pipe`, `open`, `creat` or `execvp` is modelled where it is called.  A
pipe exists while somebody has a descriptor of it and holds `Capacity` units.
The three background and three foreground branches of the code for one, first or later
commands are the same steps with different conditions, and are mapped to the same actions.

## 3. What the runs check

| run | bounds | states (time) | what it shows |
|---|---|---|---|
| `sched` | 4 ids | 2 255 (2 s) | with the signal outside the windows and finite user code: types, every thread resumable and itself, bounded wait, every thread runs |
| `sched_busy` (violation) | 3 ids, endless user code | | a thread first started by the handler keeps SIGALRM blocked and starves the others |
| `sched_create` (violation) | signal also at `claimed` | | an uninitialised context is resumed |
| `mutex` | 3 threads, 2 mutexes | 612 248 (10 s) | mutual exclusion; a held mutex is listed and marked |
| `lock_live` | 3 threads, 1 mutex | 21 203 (7 s) | a free mutex that somebody polls is taken |
| `lock_window` (violation) | signal also between test and set | | two threads hold one mutex |
| `barrier` | 3 threads, 1 barrier of two, 2 inits, finite user code | 56 678 (60 s) | contexts are whole, the array of waiting threads is not overrun, nobody comes back early unless somebody was alone, some call can release every blocked thread, and a released thread comes back |
| `tls` | 3 threads, 2 slots, 4 pages of 3 bytes, storages of 5 bytes | 167 816 (60 s) | refinement of `PrivateMemory`, exact reference counts, sealed pages, reads return the contents, nobody is ended for a read or a write of at least one byte of his own storage |
| `tls_overlap` (violation) | 2 threads that read at once | | the reader that finishes first seals the page under the other |
| `fs` | 2 files, 3 data blocks of 2 bytes, files up to 3 bytes, careful clients | 29 571 (35 s) | refinement of `FlatFiles`, files come back after a remount, no block for a file that does not exist, no open file deleted, pointers within files |
| `fs_remount` (violation) | blocks anywhere when clients unmount | | a remount loses a file's block |
| `shell` | every line of up to 5 characters, with or without newline; sequences of up to three pipelines with `&`, bars and redirections; 4 processes, 6 descriptors, pipes of one unit | 85 170 (50 s) | the parser builds what a line says and gives back what it allocated; stages are connected to their neighbours and to nothing else; readers see the end of their input; pipelines end unless a stage fills its pipe |

What the code does where a run leaves something out is shown by further configurations, whose property
TLC finds violated (`tlc -config X.cfg M`, in seconds):

| configuration | property violated | what happens |
|---|---|---|
| `MCThreadSched_pick` | `OnlyExitFreesId` | the signal between finding and claiming an id: two creators take one id, and the second frees it |
| `MCThreadSched_switch` | `OwnContextSaved` | the signal between `threads.c` 171 and 177: a thread's context is saved as another's |
| `MCThreads_mask_window` | `CriticalSectionMasked` | the signal while `new_set` is empty: the body of a call runs with the signal unblocked |
| `MCThreads_mutex_init` | `MutualExclusion` | a mutex initialised while a thread waits in a lock: the thread takes the flag of the new first mutex |
| `MCThreads_barrier_in_use` | `BlockedIsReleasable` | a barrier destroyed or initialised again under its waiters: no call can release them |
| `MCThreads_barrier_alone` | `WaitsForParty` | a thread with nobody else to run comes back before its party is complete |
| `MCTLS_empty` | `EmptyWritesSurvive` | a write of length 0 uses a page number that was never set |
| `MCTLS_buffer` | `ReadStaysInBuffer` | a read that ends one byte before a page boundary writes one byte too many |
| `MCTLS_refused` | `ClonesReturn` | after a refused clone the next clone never returns |
| `MCFileSystem_...` | | see the table of `Care` |
| `MCShell_lines` | `UnendedIsMeaning` | a line without newline loses its last word |
| the same | `FirstBlocksGivenBack` | `pipeline_free` of `challenge_0` keeps the pipeline, its last command and the names of files |
| the same | `FreedIsSet` | a line that was refused or has no newline: pointers that were never set are freed |
| `MCShell_background` | `BackgroundBesideShell` | leaders nobody waits for use up the processes, `fork` fails and the shell becomes a leader |

Why the bounds are enough.

* *Scheduler.*  Four ids are the least at which a runnable thread can be passed by two others; the
  proofs remove the bound.  Three threads and two mutexes have a holder, a waiter and a third
  who creates or destroys beside them; both the branch of the first list element and that of later ones occur.
* *Barrier.*  A party of two among three threads fills, releases and fills again, with one
  thread outside; two inits allow the barrier to be destroyed and initialised again.  That the array is not overrun and nobody let through early
  when this is done under the waiters, or with several barriers, is proved (section 4) without a bound.
* *TLS.*  A storage of 5 bytes on pages of 3 has a full and a partial page, and the
  requests cross the boundary, end just before one, are refused and are empty.  With two slots and three threads, a
  clone, a writer that copies, a destroyer and a thread that finds no slot occur together.
  Threads are symmetric.
* *File system.*  Two-byte writes at offsets 0 and 1 and writes of nothing extend a file,
  cross a page, and run out of blocks at each point, and truncation cuts it; one data block lies in the saved half of the
  owner table and two in the other.  `CharHalf` is 4, so that sizes fit in the passing run; `MCFileSystem_sizes` takes a smaller one.
  Names are symmetric.  The `VIEW` leaves out what no later step depends on: tables in memory
  while the disk is closed, those on disk while it is open, pages of free blocks, and bytes outside files
  (nothing reads them, as pages are cleared when claimed).
* *Parser.*  The scan remembers a mode, two flags, whether a word has begun and whether
  it is past the first command; five characters are enough for any two redirections with a word between them, a
  bar before or after either, and a line that breaks off in each state.  `MaxLine` is 11: a line of five
  words and spaces fills all entries but the one for NULL, so that `ArgumentsFit` meets the end of the array.
* *Shell.*  Three stages have a first, a middle and a last command, hence a number used again and a read end nobody closes.  With
  six descriptors the read ends of a foreground pipeline of three stages use up the table, and with four processes the
  leaders, which are not reaped, use up the processes, so every system call that may fail does.
  One unit is enough to fill a pipe.

Deadlock is checked everywhere except in the `tls` runs: the error returns of `tls_clone` leave the mutex
locked (`tls.c` 458, 467, 485), so all threads can come to wait for it, as `MCTLS_refused` shows.
In `shell` the step `Stopped` names the states where nothing is left to do: every process has ended, is
stuck on a full pipe, or waits for one that is.  `FullPipeStays` and `PipelinesEnd` say that only the full pipe makes
a pipeline stay.

### Fairness

* `SchedFairness`: library code that is running goes on, and an unblocked SIGALRM arrives
  (weak fairness): there is one processor and a periodic timer.  `FiniteUserCode` adds that a running
  thread comes to its exit; without it `EveryThreadRuns` fails (`sched_busy`).
* `FairSpec` of `Threads` uses strong fairness for each thread's library steps: a
  thread is preempted again and again, so its steps are not continuously enabled, but the 50 ms
  between two signals outlast any step.  Unlocking and exiting are strongly fair in the same sense: user code is finite.
* `TLSFairSpec`: strong fairness for the steps of each thread.  The kernel schedules every pthread, and a mutex that
  is unlocked again and again is got at last.  The counterexample of `MCTLS_refused` is a mutex that is never unlocked.
* `FairSpec` of `Shell`: whatever step some process can take is eventually taken (weak), and some
  program that can end does (strong).  The kernel schedules every process, and programs that read and
  write for ever are not what `PipelinesEnd` is about.  Nothing is assumed of which lines are typed, nor that one
  is.  A script is finite, so finitely many processes are ever started and each ends at most once: fairness for
  processes together implies it for each.

## 4. What is proved

Every theorem holds for every value of the constants that the named assumptions of the modules
allow: any number of threads, mutexes, barriers, slots, pages, files, blocks, processes and descriptors, and
lines of any length.

| theorem (module) | states | clients and signals assumed |
|---|---|---|
| `SchedTypeCorrect`, `ContextIntegrityHolds` (`ThreadSchedProofs`) | types; every thread that exists and does not execute has its own live context and nothing undefined is resumed | `Quiet` |
| `BoundedWaitHolds` (`RoundRobinProofs`) | a runnable thread is passed at most `MaxThreads - 2` times | `Quiet` |
| `TypeCorrect`, `CallsKeepContextIntegrity` (`ThreadsProofs`) | the same types and contexts when threads give up the processor inside calls | `Calm` |
| `MutualExclusionHolds`, `HeldIsInUseHolds` (`ThreadsProofs`) | at most one thread holds a mutex; a held mutex is listed and in use | `Careful` |
| `WithinCapacityHolds` (`ThreadsProofs`) | the array of waiting threads is never overrun | `Calm` |
| `ReturnsReleasedHolds` (`ThreadsProofs`) | a wait returns only when released, unless some thread has come back for want of another to run (`alone`) | `Calm` |
| `BlockedIsReleasableHolds` (`ThreadsProofs`) | each blocked thread is in exactly one waiting array, that of a barrier as it is now, which is not destroyed; unless `alone` | `Calm`, no `TouchInUse` |
| `TLSTypeCorrect`, `ReferenceCountsExactHolds`, `PagesSealedHolds`, `ReadReturnsContentsHolds`, `CallsSurviveHolds` (`TLSProofs`) | types; counts are exact; pages are sealed between calls; a read returns the contents; nobody is ended for a call on his own storage | `Orderly` |
| `IsPrivateMemoryHolds` (`PrivateMemoryProofs`) | the refinement: every step of `TLS` is a step of `PrivateMemory` or changes no thread's memory | `Orderly` |
| `OpenFilesExistHolds`, `BlocksBelongToFilesHolds` (`FileSystemProofs`) | no descriptor without file, no block without file | none |
| `FsTypeCorrect` (`FileSystemProofs`) | types | `Unmounts` |
| `SeekWithinFileHolds`, `RemountKeepsFilesHolds` (`FileSystemProofs`) | pointers within files; a remount brings every file back | `KnowTheLimits` |
| `LineIsBuilt` (`ParserProofs`) | either scan of a line makes what its words say that something follows (all of them when it ends in a newline) or refuses it, and what it allocates is what `pipeline_free` gives back | `Whole` |
| `BuildIsMeaningHolds`, `ParsersAgreeHolds`, `BlocksGivenBackHolds`, `ArgumentsFitHolds` (`ShellProofs`) | the same of every line the shell reads; in every line that ends in a newline the arguments are ended by NULL inside the array | `ScriptsAssumption` |
| `ShellInvariant`, `ShellTypeCorrect`, `PlumbedHolds`, `HoldsReadEndsHolds`, `ReaderSeesEndHolds`, `PromptMeansDoneHolds` (`ShellProofs`) | the inductive invariant; types; stages are connected to their neighbours and nothing else; who runs a pipeline holds its read ends and one write end at most; readers see the end; nothing in the foreground is left at the prompt | `ScriptsAssumption` |
| `FullPipeStaysHolds` (`ShellProofs`) | a stage that has filled its pipe stays stuck | `ScriptsAssumption` |

The assumptions are on constants that say where the signal lands or what clients do.  The code does not enforce them, and
for each of them a run or a configuration of section 3 shows what happens without it:

* `Quiet`: the signal does not land in the windows `picked` (`MCThreadSched_pick`), `claimed` (`sched_create`),
  `assign` and `switch` (`MCThreadSched_switch`; nothing shows `assign` apart).  `Calm` adds `fill`, between the call's entry and the
  blocking of the signal (`MCThreads_mask_window`).
* `Careful`: `Calm`, no signal between test and set of a lock that has waited (`lock_window`), and no mutex at all is
  initialised while any thread is inside a lock (`MCThreads_mutex_init`).  The tests initialise their mutexes before they create threads.
* No `TouchInUse`: no barrier is initialised again or destroyed while threads wait on it (`MCThreads_barrier_in_use`).
* `alone` is not an assumption but part of what is said: `MCThreads_barrier_alone` shows that it comes about.
* `Orderly`: clients let clones overlap, and a read and a destroy, and serialise the rest (`tls_overlap`); they write
  no empty data (`MCTLS_empty`).
* `Unmounts`: `small_files` and `low_blocks`; `KnowTheLimits` adds `in_order` and `not_at_end` (see the table of `Care`).
* `ScriptsAssumption`: what `fgets` gives: a line is shorter than the buffer and has no character after a
  newline.  `Whole` is the second half.  A line given to `pipeline_build` by somebody else may go on after its newline; the
  scan stops there and `Meaning` does not.

*The arguments.*

* *Scheduler.*  The invariant is `SchedInv == SchedTypeOK /\ RunningInv /\ SwitchInv /\
  CreateInv /\ SavedInv`.  `ContextIntegrity` alone is not inductive.  `RunningInv` says who executes (the current
  thread, unless it is between choice and longjmp) and that it exists or is leaving through `pthread_exit`;
  `SwitchInv` fixes the locals of a `schedule()` in progress, so that its longjmp goes to an existing thread
  other than itself; `CreateInv` does it for a `pthread_create`;
  `SavedInv` says that a saved context belongs to its id and stands outside the windows, which
  is what keeps the other parts true when it is resumed.  There is one lemma for each group of actions.
* *Bounded wait.*  `RRInv` bounds `turns[t]` plus the distance from the current thread to `t` along the
  rotation by `MaxThreads - 1`: a hand-over goes to the *next* runnable id, so it cannot jump over `t`, and the distance shrinks by at
  least one (`DistanceShrinks`).  The bound is tight: with four ids TLC finds a thread passed twice.
* *Calls.*  `CallsInv` adds to `SchedInv` where each thread stands (`PlaceInv`: the label of its continuation,
  running or saved, is one its call can have brought it to), what it left behind if it stands inside a `schedule(0)`
  (`YieldInv`), and what the mask is by label (`MaskInv`).
  The scheduler's steps are disposed of by one fact, that scheduling moves nobody: the place of every thread is the
  same before and after, wherever the continuation is kept.
* *Mutexes.*  `HoldInv` is the property; `LockInv` says what a lock about to take a mutex knows (the mutex is free and
  listed), and `RulesInv` that no destroy or other use of that mutex is going on meanwhile.  They need each other.
* *Barriers.*  As long as nobody has come back alone, `RegisterInv` ties each blocked thread to one array and one place in it, `AwakeInv` says who is
  never blocked, `WaitRules` who may be in which call.  `HandlesInv` adds, for barriers not touched while in use, that a slot
  with waiting threads is that of a barrier (`SlotsInv`), which needs that no init or destroy is under way on one (`UseRules`).
* *Thread-local storage.*  A page counts its holders: the slots that list it, the copy a writer has
  made and not yet put in, minus those a destroy has let go already.  `TLSInv` states that equation for every moment (counts are exact
  only between calls), with which pages are open for whom, which calls may coincide, and what frames refer to; a
  page is opened by the one call that may.  `ReadInv` says of a read how much it has copied, and that what is ahead has not changed.
* *The refinement of `PrivateMemory`.*  `Contents(t)`, the abstract memory, is read from a storage that has pages and is
  not being destroyed.  `PrivInv` adds to `TLSInv` that a thread has one such storage at most and none while it makes
  one (so that making one does not change what it had), that the copy a write is about to put in place holds the
  same bytes, and that a page being written is not shared (so that one memory changes and no other).
  From it follows which step is which: filling in a new storage is `Create` or `Clone`, storing a byte is `Write`,
  finding the storage to destroy is `Destroy`, and every other step changes no memory (`MemoryStep`).  `NoStorage`,
  which stands for having no memory, must not itself be a memory (`NoStorageAssumption`).
* *File system.*  `OwnersInv` says of the tables in memory and of those on the disk that owners are files that exist.  It
  survives half of the owner table being saved.  `FsTypeInv` and `SeekInv` add what a whole save needs (`Whole`):
  sizes survive a signed char, and the number of blocks a file has follows from its size.

Induction is replaced by the least-number principle (`LeastNatural`), proved from the well-ordering of the naturals:
a claim that fails somewhere fails at a least place.

* *Parser.*  The scan is a fold, and a fold over sequences is a recursive function, so a property of a scan is carried from
  each place in the line to the next (`ScanCarries`, by `LeastNatural`).  What is carried is `Outcomes(text, k)`: after the first
  `k` characters the scan has been refused, and then the line is one to be refused, or it stands `Under(text, k, s)`:
  a word is being read from `begin_index`, the mode is the role a word beginning there would have, the commands hold
  the words that have ended, each where its command and role say (`Said`, at the end of the line), and `heap` holds one block for each of them.  The
  meaning of a line looks ahead (a redirection is refused for a bar that comes later) and the scan does not, so
  `Allowed` says which lines are still not refused after `k` characters.  Arguments are the words of a set in the order they
  stand in: there is one such order only (`Unmoved`, `Ordered`).  The two versions of the scan differ by `strict`, which the lines
  that are not refused never notice.
* *Shell.*  The invariant is `ShellInv == LinesInv /\ ProcInv /\ RolesInv /\ TogetherInv /\ DataInv`.  `ProcInv` looks at
  one process at a time and says for each label what its descriptors stand for (`Sound`): the recorded pipes are where `pipe_list` says
  (`PipeShape`), no write end is open but that of the current stage (`Writes`), a stage past its
  redirections has the input and output its place in the pipeline asks for (`Connected`, `Directed`), and whoever will
  need the terminal still has it (`Standard`).  The last is why closing a number that stands for something else
  by then does no harm.  `RolesInv` says that only the shell is at the prompt and that leaders are in the background.
  `TogetherInv` relates processes: who waits has a child of the same job and stage (`WaitInv`), what is in the foreground
  is waited for by the shell (`ForegroundInv`), two processes have the same job only as
  parent and child, or as leader and shell (`NumberInv`), and who has a read end of an earlier pipeline
  outlives it (`ReadsInv`).  `Plumbed` and `HoldsReadEnds` follow from `ProcInv`; `ReaderSeesEnd` needs `NumberInv`,
  as the write end it excludes could be in any process.  `DataInv` says which pipes exist, and
  that nobody has written into a pipe before its stage runs (`FreshInv`), so that a failing `execvp` finds room for its message.
* *Action properties of the shell.*  Whoever acts leaves everybody else's label and descriptors alone (`ActsAlone`).
  Only who waits for a stuck stage can have the read end of its pipe (`ReadersOfWriter`), and it
  cannot act.

*Only model-checked*: liveness (`EveryThreadRuns`, `FreeMutexIsTaken`, `ReleasedThreadReturns`, `PipelinesEnd`),
which is out of TLAPS's reach, and the refinement `IsFlatFiles`, of which
`FsTypeInv` with `SeekInv` are the invariants a proof would start from.

## 5. What is not modelled

* Signals sent to the shell, `SIGPIPE` other than as the end of a program that writes to a pipe nobody reads,
  and exit codes, which `myshell.c` does not look at.
* The buffers of stdio in the shell.  A program without redirected input reads whole lines that the shell
  would have read; which part of them `fgets` has already buffered is left out.
* The C library: `malloc`, `setjmp`'s pointer mangling, the kernel's own pthreads.
* The earlier barrier designs, which are commented out in `threads.c`.
* Test programs and makefiles; comments in tests are where several expected behaviours come from.

## 6. Findings

Five runs show the code doing something other than its comments or tests say, each quoted in `PROJECT.json`:

* `sched_busy`: a thread first started by the signal handler is never preempted, so the
  others starve;
* `sched_create`: a thread is visible to the scheduler before it is initialised;
* `lock_window`: a lock that has waited can be preempted between test and set;
* `tls_overlap`: a reader seals a shared page under another reader;
* `fs_remount`: half of the owner table is lost at umount.

The configurations beside the runs (section 3, and the table of `Care`) show more of them:

* `pthread_create` finds an id (`threads.c` 328) that another creator may claim before it does; `schedule()` is to "update your
  currently-active thread's jmp_buf" (133) and may save it into another's control block; the tests suggest blocking the signal to
  "pause" the scheduler (`test_busy_threads.c` 45), and the calls may fail to block it.
* "error on destroying barrier in use" (1226) and "error on repeated initialization" (1192) are no errors, and a thread that
  is to wait "on the barrier" (`barrier_test_1.c` 10) does not when it is alone.
* "copy fully aligned sections" (`tls.c` 304) copies one that is not; "error if the target thread has no LSA" (441) leaves the
  mutex locked; a write of nothing is not an "attempt to write more data than the LSA can hold" (366), but is no use either.
* "File automatically extended if nbytes exceed end of file" (`fs.c` 743): a write inside the file cuts it.  "Implicitly
  increments the file pointer by number of byes actually written" (745): a short write does not.  "If opened multiple
  times, provide multiple independent file descriptors" (387): they go by the size of another file.  "If nbytes exceed end of file, read until
  end of file" (678): a read at the end goes past it.  "-1 if the disk disk_name could not be opened" (73), and the disk is empty.
  "size = 4 BYTE * MAX_FILE_COUNT" (27): one byte is saved.  "Fail when fildes is not valid" (880): a valid one may fail.
* "ls -al" is to be "ls", "-al" and NULL (`myshell_parser.h` 19-25) and is "ls" without NULL when no newline follows.
  "The created structure must be freed by pipeline_free()" (`challenge_0`, 56), which keeps part of it, or, in `challenge_1`, frees more than was set.
  A pipeline that "should execute in the background" (42-43) replaces the shell when `fork` fails.

## 7. Plan

Done, in this order: scheduler, mutexes and barriers with their composition, scheduler
proofs, thread-local storage with `PrivateMemory`, file system with `FlatFiles`,
parser, shell, proofs of the safety properties of threads, storage, files, parser and shell.

Next: that every step of `FileSystem` is a step of `FlatFiles` or changes nothing of it.
