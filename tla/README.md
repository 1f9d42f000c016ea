# Tpool in TLA+

Tpool is a C++ thread pool library on POSIX threads: a pool of worker threads
that pop tasks from a blocking queue, tasks and threads that can be cancelled, a
timer, and a few synchronization classes. Its Makefile also carries a lint target,
whose checker, `src/cpplint.py`, is the repository's largest program. This directory
models the concurrent core of the library and the stateful core of the checker, checks
both with TLC on small instances, and proves with TLAPS, for instances of any size, the
safety properties of the library and three of the checker's. Paths are those of the repository; `include/` and `src/`
are its library, `unittest/` its tests.

## The system

| component | state it keeps | operations | what is hard about it |
|---|---|---|---|
| `ConditionVariable` and the RAII lockers | the waiters | `Wait`, `TimedWait`, `Notify`, `NotifyAll`; `ConditionWaitLocker`, `ConditionNotifyAllLocker` | notifications are conditional and precede the change they announce |
| `BlockingQueue`, `LinearTaskQueue` | `m_queue`, `m_mutexCond` | `Push`, `Pop`, `Front`, `NonblockingPop`, `NonblockingFront`, `Size` | `Push` notifies only on the transition from empty |
| `TaskBase` | `m_state`, `m_isRequestCancel`, `m_cancelCondition` | `Run`, `Cancel`, `CancelAsync` | the flag is read four times without the mutex; user code may throw |
| `CancelableThread` | `m_state`, `m_isRequestCancel`, `m_stateGuard` | `Cancel`, `CancelAsync`, the thread itself | same, between the work function, a finish action and the exit |
| `WorkerThread` | `m_runningTask`, `m_runningTaskGuard` | `Cancel`, `CancelAsync`, `CancelNow`, the work loop | sleeps in `Pop()` holding a mutex that `CancelNow()` takes |
| `FixedThreadPool` | the queue, the workers, `m_stoppedThreadNum`, `m_state`, `m_isRequestStop`, `m_timer` | `AddTask`, `AddTimerTask`, `AddIntervalTask`, `StopAsync`, `Stop`, `StopNow`, destructor | all of the above at once, in a stop that any thread may ask for |
| `Timer` | a heap of `TimerTask`s, a `CancelableThread` | `RunLater`, `RunEvery`, `StopAsync`, `Stop` | checks made outside the lock, a clock, tasks run again |
| `BoundedBlockingQueue` | a queue, two conditions on one mutex | blocking and non-blocking `Push`, `Pop`, `Front` | two conditional notifications |
| `CountDownLatch`, `CyclicBarrier` | counters | `Wait`, `CountDown`; `Wait`, `Reset` | late wakers see later rounds |
| `FutureTask` | a result, a condition | `GetResult`, `TryGetResult`, `DoRun` | `DoRun` notifies before it has the result, and holds the mutex during the user's `Call` |
| `cpplint.py` | filters, counts and NOLINT suppressions of the process; include, function and class state of a file | `main`: parse the command line, lint each file line by line, exit | state that outlives a line or a file; a loop that may not end |

They interact as follows. A client calls `AddTask`, which tests
`m_isRequestStop` and then pushes into the queue shared by the workers. A worker is
a `CancelableThread` whose work function polls its cancel flag, pops a task, polls
again, and calls `Run()` of the task or leaves on an `EndTask`. `StopAsync` sets
`m_isRequestStop` and pushes one `EndTask` per worker. The finish action of every
worker counts the worker; the last one sets the pool `FINISHED` and wakes the
`Stop()`s. `StopNow` sets the cancel flag of all workers, then cancels what each
runs and waits for its thread. The destructor is `StopAsync` followed by the
destructors of the members, which join the threads. `AddTimerTask` and
`AddIntervalTask` make the pool's timer when they are first called and put in it a
`ThreadPoolTimerTask`, whose run, in the timer thread, calls `AddTask` of the pool or,
if the task was cancelled while it waited, runs the task at once. Every stop method
stops the timer; `Stop` and the destructor also wait for its thread, `Stop` with
`m_stateGuard` held.

`cpplint.py` runs alone. `main` parses the options, then `ProcessFile` reads each file,
`ProcessFileData` blanks its comments and calls `ProcessLine` for each line, whose checks
report to `Error`; `Error` prints what the options and the NOLINT comments let through.

What makes each component correct: the queue is a FIFO that loses neither elements
nor wakeups; a `Cancel()` returns, and only when the task (the thread) is over; a
cancelled task does not start; a stop of the pool returns, and only when no worker
works any more; a stop drains what came in before it; exactly one worker is the last
one out; a stop leaves no timer thread behind; a getter gets its result. `cpplint` is
correct when what it prints about a file depends on the file and the options only, and
what its line-to-line state means can be said without the state. `PROJECT.json` lists the hazards behind these, at their lines, with the
properties that cover them.

## The modules

| module | models | notes |
|---|---|---|
| `ConditionVariable` | the lockers | a condition variable is the set of its waiters; spurious wakeups are steps |
| `BlockingQueue` | `include/BlockingQueue.h` as an object | no program counters, so that other modules can instantiate it |
| `BlockingQueueClients` | threads calling every method of one queue | `MCBlockingQueue` is its instance |
| `FifoQueue` | what a task queue promises | abstract: each call takes effect at one instant |
| `TaskBase` | `src/TaskBase.cpp` | callers of `Run` and of `Cancel`; instance `MCTaskBase` |
| `CancelableThread` | `src/CancelableThread.cpp` | instance `MCCancelableThread` |
| `WorkerThread` | `src/WorkerThread.cpp` | composes one `BlockingQueue`, the tasks and the threads; a layer without a specification of its own |
| `FutureTask` | `include/FutureTask.h` | extends `TaskBase`, which it is shown to implement; instance `MCFutureTask` |
| `FixedThreadPool` | `include/FixedThreadPool.h`, a pool whose `m_timer` is null | extends `WorkerThread`; instance `MCFixedThreadPool` |
| `Executor` | what a pool promises | abstract: a task is accepted or rejected, and started at most once; the pool closes, and retires when nothing is left |
| `PoolTimer` | `include/FixedThreadPool.h` with its timer | extends `FixedThreadPool`; instance `MCPoolTimer` |
| `Timer` | `src/Timer.cpp` | composes the tasks and one thread; instance `MCTimer` |
| `Clock` | `GetCurrentTime()` and the timeout that `TimedWait()` computes | functions only |
| `BoundedBlockingQueue` | `include/BoundedBlockingQueue.h` and threads calling it | instance `MCBoundedBlockingQueue` |
| `BoundedFifoQueue` | what a bounded task queue promises | abstract |
| `CyclicBarrier`, `CountDownLatch` | the classes of the same names as objects | |
| `SyncClients` | threads that use one barrier and one latch | instance `MCSyncClients` |
| `LintErrors` | `cpplint.py`: suppressions, verbosity, filters, counts | the state of the process |
| `LintLines` | what the checks see of a file: comments blanked, strings collapsed | a line is a sequence of tokens |
| `LintIncludes` | order, repetition and lack of includes; header guards | |
| `LintStructure` | functions, classes, sections, blank lines, braces | |
| `Cpplint` | `main`, `ProcessFile`, `ProcessFileData`, `ProcessLine` | the actions; instance `MCCpplint` |
| `*Proofs` | | the theorems about the module they are named after; `PoolProofs` is of `FixedThreadPool` and `PoolTimer`, `SyncProofs` of `SyncClients`, `TaskProofs` of `TaskBase` and `FutureTask` |

Nearly every critical section of the library either runs to its end or blocks in a
`Wait()` at its end, so a critical section is one step, and the mutex needs no
variable. The exceptions are modelled: `m_runningTaskGuard`, held across
`Pop()`, is the place `wpc[w] = "pop"` of a worker, and `CancelRunningTask` is
disabled there; `m_queue_guard` of the timer, held by the timer thread from its
`checkFunc()` to its test of the first task (both read flags that others set without
the mutex), is the variable `locked`; the mutex of a future's condition, held during
the user's `Call()`, is `resultMutex`; and `m_stateGuard`, which `Stop()` keeps while it
joins the timer thread, is `StateGuardHeld` of `PoolTimer`. `Atomic` is a value under a
mutex: each access is a step of its own, so `if (m_isRequestStop) ... Push` is two steps and
`++m_stoppedThreadNum` one. Conditions evaluated inside a critical section (`ConditionNotifyAllLocker`) belong to
its step. A thread that has been notified, or woken spuriously, leaves the set of
waiters and evaluates its condition again in a later step.

A client of the pool makes one call at a time. `job[c]` is its position in a pool
method, `task_cancel[c]` and `thread_cancel[c]` its position in the `Cancel()` of a
task or thread; all three keep the last call after its return, which is what the
properties about returned calls read. `fate[k]` records when task `k` was pushed:
`"early"` before `m_isRequestStop` was set, `"late"` after. It is read by properties
only. `DoRun()` takes any time, may return, throw the cancellation, or, where
`MayThrow` is true, let another exception escape. A task object is added to the pool
once. The destructor is called when no other client is in a method of the pool, and
no method is called after.

Definitions whose comment says what they get wrong (`PushSignalsOne`,
`StopReturnsAnyhow`, ...) are mutations of the definition that follows them. No
specification uses them; they record, for each property, a bug it detects
(`PROJECT.json`, `mutants`).

The heap of `Timer` is a bag (`m_queue[k]` is how often task `k` is in it) and
`GetMin()` any of the tasks with the least deadline, which is all that an
`std::priority_queue` says. `now` is the clock; `Tick` moves it between any two steps,
so a thread may be arbitrarily late. A task of `Timer` is put by one client, except in
`timer_shared`: two clients that put one task beside others would change a deadline
inside the heap, and what the heap does then is not modelled (`TimerAssumption`).
`StopAsync` and the first part of `Stop` are `CallStop` and `Clear`; `Stop` goes on with
the `Cancel()` of the thread, which is that of `CancelableThread`.

`PoolTimer` does not repeat `Timer`: its timer is what `Timer` promises and the run
`timer` checks, a set of tasks of which one at a time is fired, none after the set was
cleared (`NothingFiresAfterStop`), every due one in the end (`DueTasksFire`), and a
thread that ends after a stop (`StopMeansOver`, `EveryCallReturns`). There is no clock,
so any task of the set may be the next. The `ThreadPoolTimerTask`s are known to the
timer alone; a task of `heap` stands for the one that wraps it. What is modelled in full
is the code of the pool about `m_timer`: the three separate sections of
`DoAddTimerTask` (test, make, put), the three of a stop (read, clear, join), and the
timer thread between them. A client is in one of them when `call[c]` says so, and the
steps of `FixedThreadPool` that lead into them are given by `TimerSection`.

The state of `cpplint` is that of the Python process. One action is one call of
`ProcessLine`; it gathers the reports of the line's checks in their order as a sequence
and passes them through `Report`. A line is its indentation and a sequence of tokens
(words, punctuation, `/*`, `*/`, `//`, `"`); a category is the sequence of its words, so
that a filter is a prefix. The category of a line's NOLINT is part of the line. The
errors of the checks that are regular expressions over one line's characters (spacing,
casts, TODOs, most of `CheckLanguage`) are an input, `own`: what the model follows is
what happens to them. The history `raised` holds every report before it is filtered.
A file name is its directories, its base name cut into pieces, of which `-`, `_` and `.`
are pieces of their own, and its extension: the functions that drop suffixes tell the
separators apart. `pc` says how a run ended: `"usage"`, `"raised"`, `"exited"`, of which only
the last prints the total, or `"looping"`.
`Marker` is the line cpplint appends to a file.

The history variables `arrived`, `round` and `full` of `SyncClients` record who has
arrived in which round of the barrier, and are read by properties only.

## The runs

| run | instance | shows |
|---|---|---|
| `queue` | 3 threads, 2 values, at most 2 elements | `NoLostWakeup`; `BlockingQueue` implements `FifoQueue`, its fairness included |
| `bounded_queue` | 3 threads, 2 values, bounds 1 and 2 | the same for `BoundedBlockingQueue` and `BoundedFifoQueue`, with two conditions |
| `task` | a future that is run once and a task run again and again, 2 runners, a canceller, a getter; `Call()` may throw | no canceller and no getter is forgotten; `Cancel()` returns unless the user's code threw, and only when a task that is run once is over; a cancellation stops every later run; `GetResult()` returns if there is a result; `FutureTask` implements `TaskBase`, its fairness included |
| `thread` | 2 threads, 2 cancellers | `Cancel()` returns, and only after the finish action |
| `pool_stop` | 2 workers, 2 tasks that may throw; a client that adds tasks and calls `StopAsync`, one that cancels tasks and calls any of `Stop`, `StopNow` and the destructor | the stop is quiescent, drains, loses no wakeup and has an `EndTask` for every worker; the pool is an `Executor` |
| `pool_serves` | a worker and the timer; a client that puts a task in the timer, once or at intervals, and cancels it; one that calls any of `Stop`, `StopNow` and the destructor | every call returns and no stop leaves the timer thread behind; a late timer adds nothing; a task that came in time is run or cancelled; the `Cancel()` of a task that waits in the timer returns |
| `timer` | 2 clients: one puts an interval task and cancels, one puts another task and stops | the timer thread oversleeps nothing, runs nothing early and nothing after a stop, holds each task once; due tasks are fired and all calls return |
| `sync` | 3 threads at a barrier of 2 that is also reset, and at a latch of 2 | a `Wait()` that returns 0 has met all parties of its round, and released threads return |
| `lint` | some 10000 command lines and files, of up to 5 lines over the tokens one group of checks tells apart | what is printed and counted is what the options and NOLINTs ask for; reports of include order, missing includes, long functions and the stack of classes are what declarative definitions say; the total is printed in the end, but for the three exceptions below |

Three runs look for, and find, a violation; each contradicts a line of the repository
(`PROJECT.json`, `findings`).

| run | what TLC finds |
|---|---|
| `task_periodic` | `Cancel()` of a periodic task returns on the `FINISHED` of the previous run while the next one executes |
| `pool_drops` | `Cancel()` of a task that `StopNow` left in the queue, or that its worker popped and dropped, never returns |
| `timer_shared` | two clients that put one task both find its deadline unset, and the task is in the heap twice |

That a `DoRun()` which throws another exception than the cancellation leaves the task
`RUNNING`, and its cancellers waiting for ever, is the exception that
`CancelReturnsUnlessAbandoned` makes; that `Clear()` of a stopped timer does the same to
the tasks it drops is the exception of `TimerCancelReturns` and `EveryCallReturns`.

The type invariants are proved (below) and not repeated in the runs.

The bounds. Lost wakeups of a conditional notification need two waiters and two
notifications in a row: three threads on the queue and two cancellers of a thread have
them. `task` has one canceller, beside a getter: cancellers do not touch each other's
state, and `NoCancelWakeupIsLost` is proved for any number. The last one out needs two workers to race through the counter. Two tasks and
two `EndTask`s in one queue give every order of early tasks, late tasks and
`EndTask`s that two workers can tell apart. `QueueBound` keeps callers of `Push`
from filling the queue without limit; 2 suffices because every test of the queue is
of emptiness. The timer needs two tasks for an earlier deadline to overtake the one it
sleeps for, an interval of one tick and a clock of two instants, so that a task can be
due, not yet due, or fired and put back; delays of 0 and 1 give all orders of two
deadlines. The properties of a task of the timer that must happen are stated of
deadlines that the clock reaches. A barrier of two parties and three threads has a
third one that begins the next round, or resets it, before a released thread wakes;
two rounds are enough for that, and `MaxBelow` lets the latch be counted below zero
once.

`pool_serves` has one worker, a task and at most one element in the queue when the timer
fires (`MaxQueue`): what is new in it is the order of the sections of one adder, one
stopper and the timer thread, and its liveness needs the whole graph. Two workers racing
each other out are the business of `pool_stop`, whose module it extends, and of the
proofs.

`lint` lowers the numbers the code counts to: functions of more than 1 line
(`NORMAL_TRIGGER`; 250), test functions of more than 2 (`TEST_TRIGGER`; 400), classes of
up to 3 lines exempt from section spacing (`SmallClass`; 24), copyright in the first 2
lines (`CopyrightLines`; 10). `Capitals` and `TestNames` are the words of the families
that are all capitals and those that begin with `TEST` or `Test`: the two macros, a
decoration of a class and the name of an ordinary function, which the code gives the
limit of a test too (648). A function twice as long as `NORMAL_TRIGGER` then fits in
five lines, with a second function after it. The files come in families, each all files
over a handful of lines: `Functions`, `Comments`, `Classes`, `Sections`, `Includes`,
`OwnHeaders` (a `.cc` file, its test with either separator, or the test of a file whose
name ends alike, with the headers they may belong to), `Braces`,
`Heads` (function heads over several lines), `Guards`, `Several` (files and options:
skipped, unreadable and standard input) and `Nothing`. No check relates lines of two
families.

`pool_stop` identifies states that differ by a permutation of the tasks: no definition
of the pool tells one task from another, and the run checks invariants only.

`threadNum = 0` is a value the constructor accepts and the runs avoid: no worker ever
sets the pool `FINISHED`, and `Stop()` waits for ever. The proofs include it, and name the theorems that do not.

Runs whose system may rightly stop (a task that nobody cancels, a stopped pool) do not
check deadlock; the liveness properties do that work for the calls that must return.

## Fairness

Weak fairness of each thread's steps: a thread that can run is scheduled in the end.
It is what pthreads promise in practice, and nothing in the library can ensure more.
Condition variables wake every waiter on `NotifyAll`, so weak fairness suffices
mostly. Two assumptions are strong: a thread that waits for `m_queue_guard` of the
timer, which the timer thread takes again and again, gets it in the end; and the first
run of a task begins although it shares its runners with tasks that are run again and
again. In `PoolTimer` the timer thread fires
every task in its turn, strongly, because a task of the timer is due again and again
while the other tasks are served. The clock of `Timer` goes on up to its bound.
`Cpplint` is one process, and only assumed to keep running; its fairness, `Advance`, is
stated of the position in the file alone, which every step moves, because it is enabled
exactly when `Next` is and much cheaper to evaluate. Calls are never
fair: a client need not call anything. In `TaskBase` the owner of a task runs it at
least once, without which `Cancel()` has nothing to wait for; in the pool that
assumption is gone, and the properties speak of tasks that entered the queue in time.
`DoRun()` and `Call()` terminate: tasks that do not terminate and do not poll keep a stop
waiting, which the code intends. `CancelableThread` assumes instead that its work
function polls, and not that it ends.

## The proofs

All by TLAPS, from the assumption of each module on its constants (`QueueAssumption`,
`BoundAssumption`, `TaskAssumption`, `FutureAssumption`, `ThreadAssumption`,
`PoolAssumption`, `SyncAssumption`, `TimerAssumption` of `Timer` and of `PoolTimer`,
`TriggerAssumption`, `NamesAssumption` and `InvocationAssumption` of `Cpplint`) and, for some theorems, a
hypothesis named below. Every safety property of the passing runs of the library is the
statement of one of the theorems, and three of the five invariants of `lint` are.

* `BlockingQueueProofs`: `TypeCorrect`; `NoWakeupIsLost`; `QueueIsFifo`, that every
  step is a step of `FifoQueue` or leaves its state alone. `NoLostWakeup` is
  inductive: a thread blocks only on an empty queue, and the push that ends the
  emptiness wakes all.
* `BoundedBlockingQueueProofs`: the same three for the bounded queue. That a push
  finds room in `BoundedFifoQueue` needs the bound of `TypeOK`; `NoLostWakeup` is
  inductive as it stands, because the step that makes one of its premises true wakes
  every thread it speaks of.
* `TaskProofs`, of `TaskBase`: `TypeCorrect`, `NoCancelWakeupIsLost`,
  `CancellationsStick`, and `CancelEndsTheRun` for every task that is run once
  (`Tasks \ Periodic`). The last needs more than itself (`OnceInv`): that a task that
  runs is not in a stop state and runs in one runner only. For a periodic task it is
  false, as `task_periodic` shows.
  Of `FutureTask`: `FutureIsATask`, that every step of a future is a step of `TaskBase`
  or leaves its state alone, so that `NoCancelOfAFutureIsLost` follows; and
  `NoResultWakeupIsLost`. The notification is sent before `Call()`, so
  `NoLostResultWakeup` is not inductive: `FutureInv` adds that nobody is blocked while a
  run holds the mutex (`HeldMeansNobodyBlocked`), which is why one notification is enough.
* `CancelableThreadProofs`: `TypeCorrect`, `NoFinishWakeupIsLost`,
  `CancelOutlastsTheWork`, from "`FINISHED` exactly when exited".
* `SyncProofs`: `TypeCorrect`, `NoWakeupIsLost`, and `ZeroMeansFull`, the meaning of a 0
  from the barrier. The inductive invariant says that the threads that have arrived wait
  in the round that is on (`ArrivedWait`), that a `Wait()` has noted the indexes of its
  own round and never those of one to come (`RoundsStarted`), and that a round that is
  over without a reset had all its parties (`EndedRoundsAreFull`): a released thread may
  wake when later rounds are over, and concludes from the two indexes it has noted.
* `TimerProofs`, for every use of the timer: `TypeCorrect`; `StopOutlastsTheThread`
  (`StopMeansOver`); `StopFiresNothing` (`NothingFiresAfterStop`). Their invariant `AInv`
  says where the thread is when it runs a task, sleeps or holds the mutex (`AtWork`),
  which method a client is in (`OpInv`), and that a stop which the thread sleeps through
  has its `Clear()`, and so its notification, still before it (`StopInv`).
  `OwnTasksArePutOnce` (`PutOnce`), `NoWakeupIsLost` and `NothingRunsEarly` have the
  hypothesis `PutsAreDisjoint`, that no two clients put the same task: `timer_shared`
  shows `PutOnce` false without it, and it is what the tests do. Their invariant `HInv`
  adds that a task which is being put is neither in the heap nor run (`PutInv`,
  `FreshInv`), so that no deadline changes inside the heap, and that what was fired was
  due (`DueInv`).
  `TimeoutIsExact` and `TimedOutIsDue` are about `Clock`: `TimedWait()` sleeps for its
  delay to the nanosecond, and a timer thread whose sleep times out finds the task due
  although `GetCurrentTime()` rounds down. The second is what the action `TimedOut` of
  `Timer` takes for granted.
* `PoolProofs`, of `FixedThreadPool`, for every number of workers (zero included), clients and
  tasks: `TypeCorrect`, `StopIsQuiescent`, `NoWakeupIsLost`. The inductive
  invariant `IInv` has, beside the types: a run belongs to the worker that executes it
  (`RunsAtWork`); a thread is `FINISHED` exactly when it has exited
  (`FinishedIsExited`); the counter equals the number of workers that have gone
  through it, so that the worker that reads `threadNum` is unique and finds all others
  past their work (`CountInv`, with the cardinality lemmas of `FiniteSetTheorems`);
  where a client can be in which method (`OpInv`); the loops of `StopNow` and of the
  destructor have seen the exit of every worker before the one they are at
  (`JoinInv`); `Stop` has seen `FINISHED` (`StopInv`). None of the last four can be
  dropped: without `CountInv` the state `FINISHED` says nothing about the workers,
  without `JoinInv` the end of a loop says nothing about its earlier rounds.
  `NoWakeupIsLost` adds that a waiting `Stop()` has requested the stop (`AwaitInv`).
  - `StopDrainsTheQueue` (`StopDrains`), of pools with a worker: `StopNow()` and the
    destructor of a pool without one return at once. `DrainInv` says that, unless a worker was lost to `StopNow()`
    or an exception, an early task is ahead of every `EndTask` in the queue, is in the hands
    of a worker, or is over; so workers that leave on an `EndTask` leave no early task behind.
  - `NoWorkerLacksAnEndTask` (`EnoughEndTasks`), for any number of stop methods. It is
    inductive beside `IInv`: only the first stop pushes, what it pushes and what it still
    has to push add up, and a pop that takes an `EndTask` takes a worker with it.
  - `NoWorkerSleepsThroughAStop`: once a stop is requested and its `EndTask`s are pushed, no
    worker is blocked in `Pop()`, so nobody who waits for `m_runningTaskGuard` or for the
    end of a worker waits for a worker that waits for a task. It follows from
    `EnoughEndTasks`, `NoLostWakeup` and that who sleeps is in `Pop()` (`SleepsInPop`).
    `FinishedMeansAllCounted`, of pools with a worker: the state is `FINISHED` exactly when
    every worker is past its part of the count, so that a `Stop()` that waits has a worker
    to wait for; beside `CountInv` it needs that a full count leaves a worker on its way
    to set the state (`LastIsOut`). Together they are what safety says of
    `EveryPoolCallReturns`: a stop is left waiting only for tasks that do not end, or for
    a client that has yet to push.
  - `PoolIsAnExecutor` (`ImplementsExecutor`): each step of the pool is a step of
    `Executor` or a stutter. `ExecInv` is the bookkeeping of a task that waits: it is in
    the queue or in a worker's hands, once in all, and has not been run, which is what
    makes `PerformTask` the `Start` of an accepted task; `IInv` and `DrainInv` make
    `SetPoolFinished` the `Retire` of a pool in which nothing runs and nothing early waits.
* `PoolProofs`, of `PoolTimer`: `LateTimersAddNothing`. `LateInv` adds that a timer made
  late has a stop request before it, which nothing withdraws (`RequestSticks`), and that the timer
  thread does not exist before the timer. `StopMethodsEndTheTimer` (`StopEndsTheTimer`),
  from where a stop method is in its section about the timer (`StopTimerInv`). And what
  holds of the pool still holds with the timer thread among its users:
  `StopIsQuiescentWithTimer`, `NoWakeupIsLostWithTimer`,
  `NoWorkerLacksAnEndTaskWithTimer`, `StopDrainsTheQueueWithTimer`,
  `NoWorkerSleepsThroughAStopWithTimer` and `FinishedMeansAllCountedWithTimer`, because a
  step of `PoolTimer` is a step of the pool, a note of a task's fate, a push, or a step of the
  one run that the timer thread makes, which only cancels (`StepKinds`).
  `ImplementsExecutor` is not among them: an interval task is started again and again.
* `CpplintProofs`, for every list of files, every file and every command line whose
  `--verbose` is a number the usage text allows (`InvocationAssumption`), and any values of
  the numbers the code counts to. None of the three properties is inductive: each speaks of
  a file that has been read, or of the stack, and what holds meanwhile must be said of the
  part of the file above `linenum`.
  - `IncludesAreOrderedByKind` (`IncludeOrderByKind`) and `LongFunctionsAreReported`
    (`LongFunctionsReported`) rest on `Inv`. It says that what was reported of a file in the
    two categories is what the file's lines call for, and that of the file at hand everything
    above `linenum` has been reported (`OrderInv`, `SizeInv`); that the section is the
    highest rank of an include above, and the set of includes that of the headers above
    (`SectionInv`); and that the function state is that of the last function above
    (`FunctionInv`): its lines of code so far, or, after its end, the count that `End()`
    leaves, which is why a second `}` at column 0 reports it again. A file that is named
    twice, or was skipped, is why the reports of the files already read are in it. That
    nothing but the checks of includes and of functions reports in the two categories is
    proved of every other check (`Quiet`); that a line's own errors are in other categories
    is `FileLines`.
  - `ClassesFollowTheNesting` (`ClassStackIsTheNesting`). The property names the classes on
    the stack and their order, and is not inductive: whether a class is popped is its
    `brace_depth`. `StackInv` adds what each has counted, the braces from its `{` to the
    declaration of the next class on the stack, the innermost to the line above `linenum`,
    and that all but the innermost have seen their `{`. Popping a class hands the next one
    its count without the lines of the class popped; these are balanced when it is popped,
    because a tidy line closes one block at most, so nothing is missing. Looking for the
    invariant showed that the precondition must also exclude a `}` on a line between a
    declaration and its `{`, which moves the outer class's depth while nobody counts, and
    TLC confirmed it with a class of five lines (`ClassLines`); `IsTidy` does.

The components are proved apart and composed. `PoolProofs` and `TimerProofs` instantiate the proofs of their parts: the workers, `StopNow()` and
`Stop()` make no steps but those of `CancelableThread` (`WorkersAreCancelable`), so no
`StopNow()` is left asleep (`StopNowIsWoken`, `StopNowIsWokenWithTimer`, `StopIsWoken` of
the timer) and each outlasts its thread (`StopNowOutlastsTheWorker`). `WorkerThread`
instantiates `TaskBase` with every task periodic, as nothing in a worker keeps it from
running a task twice. That a pool without a timer runs each task once is a theorem
(`TasksAreRunOnce`, by `ExecInv`), and with it the guarantees of `Cancel()` that
`TaskBase` gives for such tasks (`TaskCancelIsWoken`, `TaskCancelEndsTheRun`,
`CancelledTasksAreNotExecuted`). With a timer, the workers and the timer thread together
are the runners of one `TaskBase` (`RunAgain`, whose `run` is that of both), of which
`TaskCancelIsWokenWithTimer` and `CancelledIntervalTasksAreNotExecuted` still hold, and
`TaskCancelEndsTheRun` does not.

Only model-checked: the liveness properties and the fairness part of `ImplementsFifo`,
`ImplementsBoundedFifo` and `ImplementsTaskBase`, which the provers do not handle; and two
properties of `Cpplint`. `PrintedAsAsked` equates the reports that were printed one by one,
under suppressions that grow between them, with a selection from the sequence of all
reports, and sums the counts of all categories (`SelectSeq`, `MapThenSumSet`): an
induction over the reports. It also has an exception that the files of the run do not meet:
the header guard is read before the comments are removed (`cpplint.py:1093`), so a NOLINT
on a guard inside a comment of several lines silences what a reader would not expect.
`OwnHeaderCounts` compares suffixes and joined directories of paths (`IsSuffix`,
`FlattenSeq`), an induction over the path. The provers have no induction over data. The
three that are proved need none, because what they compare are sets of lines and numbers
of elements: `Error`'s sequences are written with `Ascending`, and `AscendingLists` shows
that it lists its set once each.

## What the models of cpplint found

Each is a place where a property had to make an exception, or a definition reads oddly.
The first three contradict a text of the program; the properties that meet them say so in
their comments and leave them out, so that these runs pass beside the contradiction.

* A filter without a sign is legal by the usage text, `"-FOO" and "FOO" means "do not
  print categories that start with FOO"` (`cpplint.py:126`, with the example
  `--filter=whitespace,runtime/printf,...` of 130), but `SetFilters` raises `ValueError` on
  it (541-544) and no file is read. `ParseArguments` then ends in `"raised"`;
  `PrintedAsAsked` and `TotalIsPrinted` speak of signed filters only, although the run has
  an unsigned one.
* `The total number of errors found is always printed` (137). Besides the `ValueError` two
  kinds of file break this, `SearchesForEver` and `NeverCloses` of `TotalIsPrinted`. With
  an indented line `{ x };` and nothing above it but blank lines, or lines that begin with
  an indented `{`, `CheckBraces` stays in its loop (2052), `"looping"`. With an
  `} else if (` whose parenthesis is never closed, `CloseExpression` raises `IndexError`
  (996-998). Neither reaches `PrintErrorCounts`.
* `CloseExpression` (986-1004) looks one line too far: in the last case the comment above
  it promises `(line, len, -1)` (975-978).

The others contradict nothing that the program or its documents say.

* The count of a function survives `End`: each later `}` at column 0 reports it again.
* The report of a comment without end is made before the NOLINTs of the file are read, so
  nothing silences it, and it stands one line below the comment's beginning.
* Only the innermost class sees a line's braces. `class In { int x;` on one line leaves
  the stack at once, and a head of several lines gets its own line as `last_line`.
* The two notions of a file's own header differ in the suffixes, separators and
  directories they drop: `x/foo-test.cc` is likely to own `x/foo.h` when includes are put in
  order (2292-2296), and not of its module when they are looked up (2950-2953), so the
  file is not checked for missing includes at all. `OwnHeaderCounts` names these suffixes
  (`OneSidedSuffixes`). A `.cpp` file never gets the includes of its header.
* Any function whose name begins with `TEST` or `Test` may be as long as a test (648).
* Only a line that ends with `*/` ends a comment of several lines.
* A malformed NOLINT on a line of the header guard is reported twice.
* Without `--counting` the style becomes `''`, which counts like `total`.

## Not modelled

* `PriorityTaskQueue` is unfinished (its `Push` is empty) and unused.
  `MakeFunctorFutureTask` calls itself only, so `AddFutureTask` never returns.
* `Mutex`, `Atomic`, `Thread`, `ThisThread` and `ThreadLocal` wrap pthread primitives;
  what the models use of them is atomicity and the join. The retries of the constructors
  when `pthread_create` fails end in the same state as a first success.
* The examples are demonstrations of the library and short socket clients.
* Of `cpplint.py`: the checks that are regular expressions over one line (their errors are
  the input `own`), the wording and format of messages, and `FileInfo`'s search for a
  repository root (paths are relative to it).
* A task that calls `Stop()` of its own pool waits for itself in every schedule; `Cancel()`
  of a `WorkerThread` without a pool has no user; `threadNum = 0` is above.
* An `OnCancel()` that throws. The hook (`TaskBase.cpp:50`) does nothing unless the user
  overrides it, those of the tests set a flag, and it is taken to return. If it threw, the
  task would be `CANCELLED` and its cancellers not notified, as an exception of `DoRun()`,
  which is modelled, leaves it `RUNNING`.
* Two workers with the timer in one liveness run exceed the time a run may take. That
  several workers may run one interval task at once is in `task`, whose periodic task two
  runners run at the same time.

## Coverage

`PROJECT.json` maps every definition to the lines it stands for. Of the Python code,
nearly all of it `cpplint.py`, that is about half; the rest are the one-line checks
and texts. Of the library's C++ it is every function of the components listed as modelled.

## Plan

Done: the queue, the tasks, the threads, the pool, its timer, `Timer`,
`BoundedBlockingQueue`, `SyncClients`, `FutureTask`, `Executor` and `cpplint`; the proofs
of every safety property that the passing runs of the library check, that what is
proved of tasks and threads holds where the pool and the timer use them, and three of the
five invariants of `cpplint`. Left:

1. `Timer` under `PoolTimer`'s abstraction of it, as a refinement; the promises that
   `PoolTimer` takes from it are proved of `Timer` one by one (`StopFiresNothing`,
   `StopOutlastsTheThread`).
2. `PoolTimer` as an `Executor` of the tasks that are not put at intervals.
3. What of the timer's invariants survives two clients that put the same task, the case
   that `PutsAreDisjoint` excludes.
