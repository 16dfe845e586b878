# TLA+ models of the CSAPP experiments

The repository holds the programs written for the labs of *Computer Systems: A
Programmer's Perspective*: a Unix shell with job control (`shlab-handout`), a
cache simulator and blocked matrix transposes (`cachelab-handout`), a memory
allocator with its driver (`malloclab-handout`), bit puzzles with their checker
(`datalab-handout`) and binary exercises (`attacklab`). This directory holds
TLA+ models of them, TLC runs over small instances, and TLAPS proofs.
`PROJECT.json` lists the runs, the code each definition models, the seeded
faults that each property is known to catch, and the findings.

## The system

| part | state it keeps | operations | what is hard about it |
|---|---|---|---|
| **shell: job list** (`tsh.c` 476-592) | `jobs[MAXJOBS]`, `nextjid` | `addjob`, `deletejob`, `maxjid`, `fgpid`, `getjobpid`, `getjobjid` | called from the main flow and from handlers; `nextjid` wraps in one place and is reset in another |
| **shell: main flow** (165-375) | `eval`'s locals, the signal mask, `do_bgfg`'s `job_ptr` | `eval`, `builtin_cmd`, `do_bgfg`, `waitfg` | races with the handlers; `sigsuspend`; what is blocked when |
| **shell: handlers** (377-470) | the handler stack, pending signals | `sigchld_handler`, `sigint_handler`, `sigtstp_handler`, `sigquit_handler` | interrupt everything, and each other; signals coalesce; `kill` on a group that is not there yet, or no longer |
| **processes and kernel** (external; `myint.c`, `myspin.c`, `mystop.c` as jobs) | a state per pid | fork, setpgid, exec, exit, stop, signals | run at their own pace |
| **cache simulator** (`cache.c`, `csim.c`) | sets of lines in recency order; hits, misses, evictions | `splitAddr`, `accessMem`, `analyseOneLine` | the order of the lines is the LRU state; widths of tags |
| **transposes** (`trans.c`) | two matrices, a few locals | blocked loops with unrolled bodies | index arithmetic at block borders; misses |
| **transpose tester** (`test-trans.c`, `tracegen.c`, `cachelab.c`) | `results`, the files the programs leave for each other | `eval_perf`, `validate`, `sigalrm_handler` | files of an earlier run; a simulator that does not run; an alarm that is never taken back |
| **allocator** (`mm.c`, `memlib.c`) | `mem_brk`, block headers | `mm_malloc`, `mm_free`, `mm_realloc`, `mem_sbrk` | contents across a realloc; the end of the heap; 32-bit pointers |
| **malloc driver** (`mdriver.c`) | range list, blocks of a trace, utilisation counters | `add_range`, `remove_range`, `eval_mm_valid`, `eval_mm_util`, `eval_mm_speed` | the checker must itself be right; each trace is run again on a used heap |
| **measurement** (`fcyc.c`, `fsecs.c`) | the K smallest samples, the parameters, a buffer to clear the cache with | `fcyc`, `add_sample`, `has_converged`, the setters, `init_fsecs`, `fsecs` | samples that may be negative; two reasons to stop; a buffer older than its size |
| **counters and timers** (`clock.c`, `ftimer.c`) | the last reading of the counter, `cyc_per_tick`, `start_tick`; the interval timer | `get_counter`, `callibrate`, `get_comp_counter`, `ftimer_*` | two-word arithmetic; timer interrupts between any two readings |
| **bit puzzles** (`bits.c`, `tests.c`) | none | one function per puzzle and its reference | overflow and sign at the edges of the word |
| **checker** (`btest.c`, `decl.c`) | argument values, loop indices, an alarm and a jump buffer | `gen_vals`, `test_function`, `run_tests` | an alarm that outlives its test; which corners get tried |

Interaction. In the shell everything meets in one thread: `main` calls `eval`,
which forks, adds the job and calls `waitfg`; the handlers run on top of
whatever was interrupted and share `jobs` and `nextjid` with it; the kernel
turns what children do and what the user types into pending signals. The
simulator is a loop over a trace; `test-trans` runs `tracegen` and feeds the
trace of a transpose to a simulator. The malloc driver calls the allocator,
which calls `memlib`; the speed phase is timed through `fsecs` and `fcyc`.

What makes each part correct: the job list agrees with the processes and its
ids name jobs; the shell waits exactly as long as its foreground job runs, is
never asleep with nobody to wake it, passes keys to the foreground job only and
reaps every child; the simulator counts what an LRU cache would; the allocator
returns aligned, disjoint blocks within the heap and keeps their contents; the
driver accepts exactly those; a transpose transposes; a puzzle equals its
reference function on every word.

## Modules

| module | models | extends |
|---|---|---|
| `JobTable` | the functions on the job list, as operators on `<<jobs, nextjid>>` | |
| `JobList` | every legal sequence of calls on the list, alone | `JobTable` |
| `JobControl` | what the user of a shell is promised of jobs (abstract) | |
| `Tsh` | main flow, handlers, processes, kernel; the map to `JobControl` | `JobTable` |
| `Cache` | the simulator: `cache.c` and the loop of `csim.c` | |
| `LruCache` | what a simulator of an LRU cache has to report (abstract) | |
| `CacheLru` | `Cache` with the history that maps it to `LruCache` | `Cache` |
| `Trans` | `transpose_submit`, each access also through `Cache`; `tracegen`'s validation | uses `Cache` |
| `TestTrans` | `test-trans.c` with `tracegen`, the simulator and the alarm | `Trans` |
| `Memlib` | `memlib.c`: the break and `mem_sbrk` | |
| `Mm` | `mm.c`: the allocator on a heap of cells | `Memlib` |
| `Allocator` | what a malloc package promises (abstract) | |
| `Mdriver` | `mdriver.c` replaying traces on `Mm` and on libc's malloc; the map to `Allocator` | `Mm` |
| `Clock` | `clock.c`: the cycle counter, its calibration, timer interrupts | |
| `Fcyc` | `fcyc.c`: the K-best sampler | `Clock` |
| `Fsecs` | `fsecs.c` and `ftimer.c`: the three ways of timing | `Fcyc` |
| `Bits` | `bits.c` and its reference functions in `tests.c` | |
| `Btest` | `btest.c` and `decl.c`: the checker running the puzzles | `Bits` |
| `JobTableProofs`, `JobListProofs`, `TshProofs`, `CacheProofs`, `MdriverProofs`, `FsecsProofs`, `TestTransProofs` | theorems | the modules they name (`CacheProofs`: `CacheLru`), TLAPS |
| `DataLemmas` | lemmas about minima, division, sums and sequences that the proofs share | TLAPS |
| `MCJobList`, `MCTsh`, `MCCache`, `MCTestTrans`, `MCMdriver`, `MCFsecs`, `MCBtest` | instances for TLC | the above |

Operators named `X_Something` under the comment "seeded fault" are faulty forms
of `X`: nothing uses them unless a run puts them in the place of `X` to see that
a property notices.

### The shell

*One thread, many flows.* `main` is the program counter of the main flow. Its
values name the code about to run: `read` (the prompt), `fork` and `maskall`
(195, 213), `addjob` (216-224), `announce` (225-230), `sendcont`, `setstate`
and `waitarg` (346-351), `waitfg` (366), `sigsuspend` (368) and `suspended`
(asleep in it). `handler[s]` is the frame of the handler of signal `s`: its
program counter, the handlers beneath it on the stack (`beneath`), the mask to
be restored when it returns, and the pid it has in hand. `Deliver(s)` pushes a
frame when `s` is pending and not blocked; only what is on top of the stack
takes steps. `sa_mask` is empty, so a handler blocks its own signal only and the
others nest, which the code allows and the model keeps.

*Steps.* What is protected by a block of all signals (`eval` around `addjob`,
`sigchld_handler` around `deletejob`) is one step, and so is code that touches
only locals. Everywhere else a delivery fits between two steps: between
`waitpid` and `deletejob`; between `fgpid` and `kill`; between `kill(SIGCONT)`,
the write of the state and the read of the pid in `do_bgfg`; between the test of
`waitfg` and `sigsuspend`.

*Processes.* A child is first a copy of the shell in the shell's process group
(`forked`), then in its own group but still with the shell's handlers
(`ownpgrp`), then the job's program: `running`, `stopped`, `reported` (stopped
and known to `waitpid`), or a zombie. A keyboard signal that meets `ownpgrp` is
swallowed by the inherited handler. `kill` on a group with no member fails, and
`unix_error` exits. A listed job that stops or ends raises SIGCHLD, which
coalesces with one that is pending. A stopped process keeps a SIGINT pending
until it is continued.

*What ends the shell* is kept as `shell`: quit, a failing fork or kill, SIGQUIT,
or the NULL job that `sigchld_handler` prints through.

*The view of the user* is `JobControl`: for each process whether it is alive,
stopped, ended or gone, what the list says of it (nothing, FG, BG, ST), and what
the shell has heard of it and not yet acted on; and whether the prompt is there.
`Tsh` maps its children to the first, the slot with that pid to the second, the
pid that `sigchld_handler` has from `waitpid` to the third, and `main = "read"`
to the last. The steps of `JobControl` say what may follow what: an entry
becomes ST, or goes, only by what was heard of its own process; it is made FG or
BG only at its launch or by fg or bg, while nobody is in the foreground; a
stopped process is continued only then; a pid is used again only when no job has
it; the prompt comes back only when nobody is in the foreground. It does not say
that a job listed as running is running: fg and bg may write their state over a
stop that came first (see Findings). Nor does it see the free slot
that a stale `job_ptr` makes FG, since no process is in it.

### The cache simulator

A set is an array of lines and its size, as in `cache.h`. `hitCacheLine` and
`addCacheLine` are the two rotations, stated by what they leave in each line;
the loop of the first stops at the first line with the tag, which is why the
properties care about duplicates. `INVALID` is, as in the code, an `int` that a
tag may equal. Tags are cut to `IntBits` bits, as the assignment to `int` does.
One step is one line of the trace. `CacheLru` adds the blocks used so far in
each set, most recent first; with it the simulator refines `LruCache`, which
knows only that history: a use hits when fewer than `linePerSet` other blocks of
the set were used since.

### The transposes and their tester

`Trans` executes `transpose_submit` access by access. The loads and stores of
one round of an inner loop are a sequence of instructions on the locals `a0` to
`a7` and `tmp`, written by their addresses; `transpose_round` runs one such
sequence, and `i`, `j`, `k` say which block and round is next. A cell of A holds
its own index, so that what lands in B tells where it came from. Each access
goes through the simulator's `accessMem` at the address it has in `tracegen`
(the two static arrays follow each other); the matrices are flat, as in C, so an
access past the end of a row reads its neighbour and one past the matrix sets
`outside`. `TestTrans` is the tester around it: register, trace between the two
markers, validate, simulate, read the counts back from `.csim_results`, print
the verdict, with `sigalrm_handler` at any point. The processes it starts with
`system` are steps of their own, because what they leave in files is all that
comes back. `system`'s result is not looked at, so a simulator that does not run
leaves the counts of an earlier run, which are then reported: `VerdictsAccounted`
says that this is the one case in which a figure is not of its own run, and which
figure it is.

### The allocator and its driver

A heap is a record of the break and of what each cell holds. Pointers, sizes and
ints are numbers of `WordBits` bits that wrap and change sign as on the machine:
`mm_malloc` rounds a size up and passes it to `mem_sbrk` as an int, and
`mem_sbrk` compares `mem_brk + incr` after the addition, which may wrap. The
region may lie anywhere below the largest address. Whether a request wraps then
depends on its size and on where malloc has put the region; `NoRequestWraps`
says that no request of the traces does, and what is said of the replays is said
of such traces. One cell holds a header's number; a payload cell holds the byte
written to it. `Mdriver` goes through `main`: it reads the traces (any request a
program could have made), evaluates libc first if asked, and replays each trace
for validity, utilization and speed. A request that `eval_mm_valid` checks takes
two steps, the call and `add_range`, then the comparison and the fill; that is
where an allocator's mistakes would show. `phase` names the function at work,
`i` the next request. `Owned` reads off what the client owns at each moment, and
under that map every replay is a behaviour of `Allocator`: aligned, disjoint
payloads inside the heap, realloc carrying contents over, and nothing but the
client's writes changing them.

### Measurement

`Clock` keeps the hardware counter only while it is measuring and lets it start
anywhere in its range. `Tick` is a timer interrupt: it costs cycles, any of
`TickCosts`, and adds to the user time, and may come between any two readings.
`callibrate` is followed from its first readings (`ReadOldc`, `ReadOldt`) and
then from one reading of the counter (`ReadNewt`) to the reading of the user
time (`ReadNewc`), because an interrupt in between is what its thresholds are
for. Times are relative to the code's last reading, as it only uses differences.
`Fcyc` takes the sampler apart into clear, start, run, stop, sample; a failing
malloc in `clear` ends the program. `samples`, `truth`, `own`, `cheapest` and
`over` are history variables: the last two are the cheapest interrupt that
`callibrate` has timed, and what those of the measurement cost beyond it.

The code keeps the smallest cost per tick of a hundred events and takes it off
once per tick. So a compensated time is not the function's own: an interrupt
that is dearer than the cheapest stays in it in part. What the minimum does
guarantee is that no interrupt is taken off at less than the cheapest timed cost,
so that the time exceeds the function's own by at most that excess (`over`):
`CompensationTakesEveryTick`. `Fsecs` adds the interval timer and
gettimeofday, with seconds and microseconds kept apart. The insertion sort of
`add_sample` is one operator, `Sink`, which says where the new value ends up and
which values move.

### The puzzles and their checker

`Bits` writes each puzzle with the operators of C on words of `Width` bits (`+`
wraps, `>>` is arithmetic, `!` gives 0 or 1), and each reference function of
`tests.c` by what it computes. The float puzzles work on patterns of 1,
`ExpBits` and `FracBits` bits; `f2u` and `Magnitude` stand for the machine's
floating-point arithmetic in the reference functions. `Btest` is the run of the
checker over the whole of `decl.c`: the options that fix arguments, the values
`gen_vals` makes up, the nested loops, the jump out of a test when the alarm
goes off. `sigsetjmp` and `alarm` are two steps (`SetJmp`, `SetAlarm`): an old
alarm in between times out a puzzle that has not begun. A value drawn at random
is a set of numbers, and the test takes any.

## Runs

| run | instance | shows |
|---|---|---|
| `job_list` | 4 slots, 4 pids, ids up to 7 | no pid listed twice, free slots clean, numbering restarts with an empty list, the next id is fresh unless the wrap has happened |
| `tsh_jobs` | 2 slots, 2 pids, fg and bg, ctrl-c and ctrl-z | list and processes agree; one foreground job; clean prompt; keys spare background jobs; refinement of `JobControl` |
| `tsh_eval` | 2 slots, 2 pids, ctrl-c, ctrl-z, SIGQUIT, no fg or bg | types; a reported stop is recorded; no wakeup is lost in `waitfg` |
| `tsh_live` | 1 slot, 2 pids | zombies are reaped and the prompt comes back, even for a job that found the list full |
| `tsh_lost_wakeup` | fg typed | *violated*: `do_bgfg` loses a wakeup |
| `cache` | 2 sets of 2 lines, 7 addresses, traces of 7 lines | sets well formed and in recency order; every miss fills or evicts; refinement of `LruCache` |
| `trans` | the real cache (32 direct-mapped lines of 32 bytes) and real matrices: 32x32, 64x64, 61x67, six other shapes, and all of 32 or 64 columns with rows shorter than a block | no access outside a matrix; correct exactly in the shapes the code is written for; the misses `driver.py` gives full marks for; where each verdict comes from, whatever alarm or simulator do |
| `malloc` | every pair of trace files with up to 4 requests between them on 2 ids, sizes 1, 8 and the largest int, with and without libc first, 2 timed replays | where no request wraps `mem_brk`: refinement of `Allocator`; the break never leaves the region; the range list names the live payloads; a trace is found invalid only if the heap is too small for it; the later replays never fail; utilization at most one; nothing is freed that is not live |
| `mdriver_sign` | an id with the top bit of its byte set | *violated*: a correct realloc is found wrong |
| `timing` | counter words of 2 bits, K = 2, at most 3 samples, one interrupt per measurement, which costs 5 or 9 | counter and timers measure what passed; the samples kept are the smallest; the result is the agreed minimum; compensation takes off every interrupt at no less than the cheapest timed; clear stays in its buffer; every measurement ends or the program exits |
| `datalab` | words of 8 bits, floats of 1, 4 and 3 bits, all thirteen puzzles | every error is a timeout; a puzzle that passes was tried at all corners; the values fit their array |
| `btest_alarm` | same | *violated*: an alarm goes off after its test |

*Bounds.* Two processes and two slots are enough for every race listed: each is
between the main flow, one handler or two, and one process, with a second
process as the background job that must stay untouched. A third process only
repeats the second. `JidBound` stops reading commands once `nextjid` passes it;
it lets the ids wrap, be reset and be reused. `JobList` takes the larger list,
where wraps and gaps combine. In the cache, three blocks contend for two lines
of a set while the second set is used too, and one of the tags equals `INVALID`;
seven accesses fill, reorder, evict and bring back. `trans` has no bound: sizes
and cache are the lab's, and the shapes the theorems leave out (32 or 64
columns, rows of one to seven) are all there. In `malloc` the region holds 20
cells, two large blocks do not fit, one is exactly large enough to make the
rounded size negative as an int, and four requests are enough to allocate,
reallocate to more or to less, free and allocate again in the second file.
Addresses and headers are words of 6 bits, and the region takes the cells 32 to
51, in the upper half of the words: a block of 12 cells asked for at its end
would wrap, and none of the run's sizes is one (`MCMdriver` lets TLC check
that). In `timing` a measurement may carry across both words of the counter, one
interrupt may fall anywhere in it, and the third sample may replace either kept
one. An interrupt costs 5 or 9, the function 3: calibrated with the cheaper and
measured with the dearer, 4 of it stay in the result, and "at most the
function's own" is false in this run. `callibrate` sees at most one interrupt
between two of its readings, which is what its thresholds presume, and stops
after one event instead of a hundred (the events are alike). In `datalab` eight
bits are the least in which an ASCII digit has a place; `TEST_RANGE` and
`MAX_TEST_VALS` keep the proportions of `btest.c` (the values of thirteen per
round of the range fit exactly).

*Deadlock* is checked in every run of the shell, the job list, the allocator
and the transposes: each can always go on. It is off in the cache run, where a
trace ends, in the measurement, where the program exits if there is no memory
for the buffer, and in the checker's, which exits.

*Fairness* of the shell (`FairSpec` of `Tsh`). The shell's thread runs whenever
it can: strong fairness for the main flow, for each delivery, and for each
handler, because each is disabled again and again while another handler is on
top; the kernel returns to it every time. The forked copy reaches `setpgid` and
`exec` (weak fairness; nothing disables them but the process's end). Nothing is
assumed of the job's program or of the user: jobs may run for ever, never stop,
and no key need be pressed. *Fairness* of a measurement (`FairSpec` of `Fsecs`):
the thread goes on, the measured function returns, and timer interrupts keep
coming while `callibrate` waits for them, as the kernel's periodic timer sees to.

## Findings

Counterexamples of runs, with the lines they contradict in `PROJECT.json`:

* `do_bgfg` calls `waitfg` with nothing blocked: the SIGCHLD can come between
  test and `sigsuspend`, and the prompt is gone until another signal arrives.
* `eval_mm_valid` compares a signed `char` with `index & 0xFF`: with an id whose
  low byte is 128 or more every realloc is found not to preserve its data.
* `btest` never takes back its alarm: it may go off when `test_function` has
  returned, and the handler jumps to a frame that is gone.

Others that the models show and no run keeps (each is a counterexample of the
model named to the sentence given here):

* `Tsh`: "the list calls a reported job stopped" fails once `fg` or `bg` is
  typed: `do_bgfg` (347-350) continues the job first and writes its state
  afterwards, over the ST of a job that stopped at once.
* `Tsh`: "`waitfg` waits for a process" fails: `do_bgfg` writes through a
  `job_ptr` whose slot a handler may have cleared. The free slot becomes FG, and
  `waitfg(0)` never returns.
* `Tsh`: "the shell survives a key" fails: ctrl-c or ctrl-z forwarded to a group
  that does not exist yet, or no longer, ends the shell through `unix_error`.
* `Tsh`: "the handler survives" fails: a child that was not listed because the
  list was full makes it print through NULL when it stops or is killed.
* `JobList`: "ids are unique" fails after a wrap of `nextjid` (516).
* `Mdriver`: "heap cannot be shrunk" (`memlib.c` 56) fails where a request
  makes `mem_brk + incr` (62) wrap: the sum is not beyond the region, so it is
  accepted, and the break falls below the region. `SbrkKeepsRegion` proves that
  this happens exactly then.
* `TestTrans`: "the misses reported were simulated in this run" fails if the
  simulator does not run and an earlier run has left its counts (142).
* `Fsecs`: "a compensated time is at most the function's own" fails if an
  interrupt costs more than the cheapest that `callibrate` timed (`clock.c` 233).
* `Btest`: an alarm left over from a puzzle that has returned may go off between
  `sigsetjmp` and `alarm` (350, 357) and time out the next one.
* `Cache`: the refinement of `LruCache` fails with a tag wider than the `int` it
  is stored in (`cache.c` 111): two blocks pass for one.

## Proofs

`JobTableProofs` has the lemmas on the list: what `maxjid`, the lookups,
`addjob` and `deletejob` return, and that each changes one slot at most.
`JobListProofs` proves the four invariants of `JobList` (`ListTypes`,
`SlotsAreConsistent`, `NumberingRestarts`, `NextIsFresh`) for every list size,
every set of processes and every bound on the ids. Together with the range of
the ids they are inductive, and one needs the other: that an empty list restarts
at 1 holds because a free slot is clear, id included; that the next id is fresh
after `addjob` holds because the slot it fills had no id that could have been the
greatest, so an id that has reached `MAXJOBS` is still there.

`TshProofs` proves, for every number of slots and processes, every bound on the
ids, and every choice of commands and keys:

* `TypeCorrect`: `Spec => []TypeOK`. The types alone are not inductive:
  `TypeInv` adds `LocalsOK` (where `do_bgfg` holds a slot, and where `eval` and
  `sigchld_handler` hold a process) and `CriticalSection` (from before the fork
  until after `addjob`, `sigchld_handler` neither runs nor can be started by a
  handler that returns, so `nextjid` stays where the prompt found it).
* `MaskInvariant`: a handler that has started is blocked, in the mask itself and
  in every mask a handler above it will restore, and the unprotected parts of
  the main flow get an empty mask back. This is what later steps need to say
  which handlers can be on the stack.
* `OneForeground`: `Spec => []AtMostOneForeground`. It is not inductive alone:
  `ForegroundInv` adds that there is no FG entry wherever the main flow is
  about to create one, that after `setstate` the only one is the slot in
  `job_ptr`, and that inside `waitfg` it belongs to the pid waited for.
* `PromptIsClean`: `Spec => []PromptHasNoForeground`, from `ForegroundInv` and
  `MaskInv`.
* `ListTracksChildren`: `Spec => []JobsTrackChildren`. `ListInv` adds that no pid
  is listed twice and that the process `eval` is about to list is alive and not
  listed yet, which is where SIGCHLD must have been blocked before the fork.
* `KeysAvoidBackground`: `Spec => []KeysSpareBackground`, from `ListInv`: the
  slot that `fgpid` stopped at is the only one with its pid, and while a handler
  is active nothing writes BG.

* `NoChildIsLost`: `Spec => []ChildrenAreTracked`, if there are no more processes
  than slots (`SlotsSuffice`). `TrackInv` adds that what `sigchld_handler` is
  about to delete has been reaped. The one step that needs the hypothesis is
  `addjob`: the process is not listed, the pids of the list differ (`ListInv`),
  so by the pigeonhole principle a slot is free. With fewer slots the property
  is false, because `addjob` drops the job.
* `StopsAreRecorded`: `Spec => []StoppedIsRecorded`, if the user types neither fg
  nor bg (`NoBuiltins`). `StopInv` adds that the process `eval` is about to list
  has not been reported as stopped. The slot that the handler marks is the only
  one with that pid, again by `ListInv`.
* `NoWakeupIsLost`: `Spec => []SleepsOnlyForForeground`, if fg is not typed
  (`NoFg`). `WaitInv` says what protects `waitfg`: from `addjob` on everything is
  blocked whenever no handler is active, and the bottom handler of the stack
  will restore that mask; so between the test of the loop and the sleep nothing
  runs that could change the list. The counterexample of `tsh_lost_wakeup` is
  what happens when `waitfg` is called from fg instead.

* `ShellImplementsJobControl`: `Spec => ImplementsJobControl`, with no
  hypothesis on commands, keys or sizes. `ControlStep` takes each step of the
  shell to a step of `JobControl`, or to one the user does not see, from
  `TypeInv`, `MaskInv`, `ForegroundInv` and `ListInv`. That no pid is listed
  twice makes the slot a step writes the whole of what the list says of that
  process (`ListedIs`, `SlotChange`); that SIGCHLD is blocked from before the
  fork makes the new process unlisted and the handler without news;
  `ForegroundInv` gives the prompt.

The two hypotheses on commands are those of the run `tsh_eval`; both properties
fail without them (see Findings). The conjunction of these invariants was checked
by TLC on the instances of `tsh_jobs` and `tsh_eval` before it was proved. The
assumptions are those named in `JobTable` and `Tsh`: there is at least one slot,
`NoPid` is no process id, the commands and keys are among those of the code, and
`JidBound`, the bound of the model on ids, is at least the number of slots.

`CacheProofs`, for every geometry and every trace: `IInv` is `TypeOK`,
`SetsWellFormed` and `MissesFillOrEvict` together, and these are inductive;
`accessMem` finds the first line with the tag, and the lemma that this is a line
in use, although a tag may equal `INVALID`, is where one needs the other.
`CountsAreLru` (`HSpec => ImplementsLru`) is the refinement of `LruCache`.
`LruInv` ties each set to its history: the blocks of the history differ, and the
lines in use hold the tags of the first `size` of them in order; so moving a line
to the front and moving its block to the front of the history are the same step,
and a block hits exactly if it is among the first `linePerSet`. The hypothesis
`TagsFit` (a tag fits the `int` it is stored in) is the one the findings show to
be needed.

`MdriverProofs`, for every heap, word width, set of ids and sizes and every
collection of traces none of whose requests wraps (`NoRequestWraps`, a premise
of each theorem about the replays, and nothing the code checks):

* `SbrkKeepsRegion` needs no such premise. It says of every break and increment
  that `mem_sbrk` keeps the break where it was or above, and in the region,
  exactly if the sum does not wrap. So the premise is not there for convenience:
  where a request wraps, what the other theorems say is false.
* A replay, whichever of the driver's functions makes it, is seen as the number
  of requests done, the payloads held, where they are, how large they are, and
  the heap. `StepKinds` shows that every step of the driver is of one of six
  kinds: a block is cut for the next request (`Take`), a block is freed (`Drop`),
  a block is filled (`Fill`), a replay starts on an empty heap (`Enter`), nothing
  happens to it (`Idle`), or it is over (`Leave`). What an allocator has to keep
  is then proved once per kind, not once per function.
* The inductive invariant `IInv`: the premise; `Types`; `TraceInv` (the traces
  are such as a program could have made, and where in them the driver is);
  `LayoutInv` (blocks aligned, below the break, apart, each behind a header with
  its size); `DemandInv` (the break has risen by exactly what the requests
  needed, and what reaches the later phases fits the heap); `RangesInv` (the
  range list names the payloads, each once); `FilledInv` (what was written is
  still there, also across the copy of realloc); `UtilInv` (the totals are those
  of the payloads); `LibcInv` (libc's blocks of this replay are allocated and
  differ).
* From it follow `TypesHold` (the break stays in the region also for the sizes
  that are negative as an int, which `mem_sbrk` refuses wherever the region
  lies), `AcceptedTracesReplay`, `OnlyLiveIsFreed`, `TotalsAreRight` and
  `ListIsOfTheLive`, which state the invariants of the run `malloc`, and
  `ReplaysImplementAllocator` (`Spec => ImplementsAllocator`): under the map
  `Owned`, a `Take` is the allocator's malloc or realloc, a `Drop` its free, a
  `Fill` the client's write, and every other step a stutter or a new heap.
* `VerdictsAreDeserved` (`Spec => []VerdictsRight`) adds `VerdictInv`, which
  connects the verdicts passed so far with the demand of their traces. It assumes
  `CharsFit`: the low byte of every id fits a signed char. Without it the verdict
  is wrong, as the run `mdriver_sign` shows.

The constants of the memory model carry assumptions that the code and the C
library justify: the region starts aligned and ends below the largest address,
as malloc sees to; a header and its rounding are far smaller than the largest
int; a byte fits in a word; what a heap cell holds is a word. That no request
wraps is not among them. It holds of the lab's traces unless malloc, in the
32-bit build, places the region within a trace's largest request of the top of
the address space, and is stated where it is used.

`FsecsProofs`, for every width of the counter's words, every cost of the
measured function, every set of costs that interrupts may have (each interrupt
its own), and every setting of the scheme: the inductive invariant has a part
per concern. `SamplerInv`: the array holds the smallest samples in order
(`Holds`, by counting the samples below and up to each value, so that equal
samples are counted right) and measuring goes on while there are fewer than
`maxsamples`. `BufferInv`: a buffer, if there is one, has the size last set, and
`clear` has made one before it is needed. `CalibrationInv`: what `callibrate`
has seen and not yet seen of the gap is either short or contains an interrupt,
so the estimate is never below the cheapest interrupt timed. `StopwatchInv`: the
counter has advanced by `span`, modulo its range, and `span` is at most the
function's own cost, `cheapest` for each tick, and `over`, what the interrupts
cost beyond that. `TimerInv`: the timers have advanced by what the runs took.
Together with the types they give the six invariants of the run `timing`
(`TypesHold`, `ElapsedIsMeasured`, `SmallestAreKept`, `MinimumIsReturned`,
`TicksAreTakenOff`, `ClearIsSafe`). `SpanAssumption` says that no measurement
outlasts the counter, which has 64 bits; without it the counter's difference
would be the time modulo its range.

`TestTransProofs`, for every shape and every cache:

* *What a piece of code does.* The state after a sequence of loads and stores is
  defined by recursion over it; that the recursion has a solution is proved first
  (`RunExists`). What a cell holds in the end is then found by the last store to
  it and the last load of the register stored (`WhatACellHolds`), so the order of
  loads and stores in the code matters in each proof. Four patterns make up
  `transpose_submit`: eight loads and eight stores, exchanges of pairs, single
  copies, and the exchange of quarter rows in width 64; each has a lemma on its
  effect, and each inner loop is shown to be one of them (`RowToRowCode`,
  `ColumnToRowCode`, `Top64Code`, `Swap32Code`, `Edge61Code`, `Low64Code`).
* `TypesHold` and `StaysInsideHolds`. `Position` says where the loops can be: at
  a multiple of eight rows and of the block width, in a round of the block.
* `CorrectWhenSupportedHolds`. `BlockInv` is the invariant of the rounds of a
  block: in width 32 the rows copied so far, then the rows and columns already
  turned over; in width 64 the columns of the upper half with the quarter that
  waits in the wrong place, then the quarter rows already exchanged; in width 61
  the rows of B, or its columns where the block is cut off. `RoundEffect` shows
  that each round does its part and keeps every cell outside the block,
  `BlockDone` that the block is transposed in the end. `TraceInv` puts the blocks
  together: those passed are transposed (`BlocksDone`), or, if rows do not fill
  the blocks, the last block of the first rows has overrun into the first cell of
  the second row of B, where nothing mends it (`RowOverrun`).

  `BlockInv` needs rows at least as long as a block (`LongRows`). In shorter ones
  (`ShortRows`: 32 or 64 columns, one to seven rows) the cells of a block overlap
  and a round undoes parts of an earlier one, so what B holds is not followed
  cell by cell. `StraysInB` follows only numbers from past the end of A, which
  validation cannot accept: in width 32 the last row copied brings in eight of
  them, the exchanges lose none of them even where cells coincide
  (`SwapsLoseNothing`), and at most seven fit past the end of B, so by the
  pigeonhole principle one stays in it (`ScatteredIsWrong`); in width 64 one cell
  is followed from the round that fills it to the end.
* `VerdictsAccountedHolds` follows the results from there to the verdicts
  (`VerdictInv`): that the function was credited by this run's validation, whose
  misses are reported, also when the simulator failed, and that nothing but the
  alarm's verdict follows the first.

`Junk`, what B holds before, is no cell of A (`JunkAssumption`).

`DataLemmas` holds what these proofs share. tlapm knows no exponentiation, so
that a power of two is a positive natural number, and twice the power before it,
are assumptions on the constants, which TLC evaluates. Induction over the natural
numbers is needed in a few lemmas (sums over finite sets, for instance); it is
stated for sets (`NatSetInduction`: a set that contains 0 and with each number
the next contains all), because the library's theorem takes an operator as its
parameter.

Only model-checked: the liveness properties (liveness under fairness is outside
the prover's reach); `FullMarks`, the misses of three fixed shapes, which have
to be counted one by one; and the checker of the puzzles. What the puzzles
compute is defined with the bitwise operators of the community modules, which no
installed prover can use, so `Bits` and `Btest` stay with TLC, which tries every
word.

## Not modelled

* Parsing (`parseline`, options, trace lines) and printing: inputs and outputs of
  the models. Parsing has no state that outlives a call; what it may return is
  enumerated instead.
* In the shell: `jobs` and blank lines change no state; the announcement of a
  background job is a step, what it prints is not modelled (a job that has ended
  by then is announced as job 0). A job is its group's only member, so `mysplit`
  appears as one process. stdio's locks, which a handler's `printf` may find
  held. The shell at the end of its input exits from the prompt as `quit` does.
  `sdriver.pl` only types at it.
* In the cache, `linePerSet` is positive, as in every use; the text of a trace
  line is taken as parsed; access sizes are ignored, as the code ignores them.
* `test-trans`: the unregistered baseline `trans`, tracegen without `-F`, a
  negative dimension (its arrays would be undefined behaviour). The
  trace file is taken to be written whole.
* `mdriver`: options, the tables it prints and the performance index. A header
  that announces too few requests makes `read_trace` write past its array, which
  is undefined; such a file is left out. What the driver does once a request has
  wrapped `mem_brk` is left out as well (see Findings and Proofs). `mem_deinit`
  and `mem_pagesize` are not called.
* Measurement: `mhz`, whose estimate of the clock rate only changes the unit of
  a result; `ovhd`, which nothing calls; the Alpha counter, which is not
  compiled. The interval timer is assumed to outlast a measurement, the clock
  not to be set, and a cache block to hold an int.
* `btest`: `-f`, `-g`, `-r`, `-h`, points and messages. Signed overflow is taken
  to wrap, except in `floatPower2` (see its comment).
* `fshow.c` and `ishow.c` print one value and keep no state. `attacklab` is a
  set of binaries and a farm of instruction bytes that never run as a program.

## Plan

The modules above were written in this order: the job list and the shell with
their proofs; the cache and its abstract specification; the allocator, its
driver and `Allocator`; the measurement; the transposes on the cache; the
puzzles and their checker.

Last came `JobControl`, what a user is promised of jobs, with `Tsh` shown to
implement it. Nothing of the plan is left; what is not proved is named under
Proofs with the reason.
