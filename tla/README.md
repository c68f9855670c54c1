# A verification of Ithon

Ithon is a fork of CPython (3.15 alpha) that adds a statically checked
language, `.pi` files, to the interpreter and runs it in the same process as
Python.  This directory holds TLA+ models of parts of it, TLC configurations
that check them on small instances, and theorems that TLAPS checks for every
value of the constants.

Contents: [1 The system](#1-the-system) ·
[2 Order and layers](#2-order-and-layers) ·
[3 Modules and their code](#3-modules-and-their-code) ·
[4 What the runs show](#4-what-the-runs-show) ·
[5 Bounds](#5-bounds) · [6 Fairness](#6-fairness) ·
[7 What is proved](#7-what-is-proved) ·
[8 What is only model-checked](#8-what-is-only-model-checked) ·
[9 What is not modelled](#9-what-is-not-modelled) ·
[10 How to run it](#10-how-to-run-it)

Paths of the code are below `src/`.

## 1 The system

The tree has two layers with logic of their own.  The first is what the fork
adds: a checker that must accept a module as a whole before a statement of it
runs, and a runner with an importer.  The second is what CPython brings and the
fork relies on: synchronisation, thread states, reclamation, the import system,
and the libraries of queues, executors and asynchronous tasks above them.  The
bulk of the other files is data structures, I/O, generated tables and tests.

### Components

| Component | Code | State | Operations |
|---|---|---|---|
| Ithon runner and importer | `Lib/ithon_run.py`, `check_source` of `Lib/ithon_frontend.py`, the load and find functions of `Lib/importlib/_bootstrap.py` | `sys.meta_path`, `sys.path`, `sys.modules`, the loads under way, the receipt file | start, refuse, read, check, record, compile, execute, import, fail, finish |
| Ithon static checker | `Lib/ithon_static.py`, `IthonChecker` of `Lib/ithon_frontend.py` | a stack of scopes, a stack of expected results, the statements left | one visit function per kind of statement; `infer` |
| Ithon types | `IType`, `is_assignable`, `_union` of `Lib/ithon_static.py` | none | assignability, unions |
| Lowering | `lower_source` of `Lib/ithon_frontend.py` | none | rewrites tokens of Ithon to Python |
| Launcher and host | `ithon`, `ithon_host.py` | none | choose an interpreter and call the runner |
| Raw mutex | `_PyRawMutex` in `Python/lock.c` | one word: lock bit and list of waiters; a record and a semaphore per waiter | lock, unlock |
| Parking lot | `Python/parking_lot.c` | hash table of buckets, each with a raw mutex and a queue of entries | park, unpark, unpark all, after fork |
| PyMutex | `PyMutex` in `Python/lock.c` | one byte: locked, has-parked | lock (timed, interruptible), try-unlock, unlock |
| threading.Lock | `Modules/_threadmodule.c` | a PyMutex | acquire, release |
| PyEvent, once flag, RW mutex, recursive mutex | `Python/lock.c` | a byte or word each, waiters in the parking lot | set/wait, call once, read/write lock |
| Import module locks | `_ModuleLock` in `Lib/importlib/_bootstrap.py` | owner, count, waiters, the table of who blocks on what | acquire with deadlock detection, release |
| Thread states, stop-the-world | `Python/pystate.c` | per thread: detached, attached, suspended, shutting down; a countdown and a requester | attach, detach, suspend, stop, start |
| QSBR | `Python/qsbr.c` | global write and read sequence, one sequence per thread | advance, attach, detach, quiescent state, poll |
| Critical sections | `Python/critical_section.c` | a stack of held locks per thread | begin, end, suspend all, resume |
| GIL | `Python/ceval_gil.c` | locked, last holder, switch number, drop requests | take, drop, request a drop, pending calls |
| Biased reference counts | `Python/brc.c` | a queue of objects per thread | queue, merge, thread exit |
| Index pool | `Python/index_pool.c` | a heap of free indices | alloc, free |
| Thread handles, RLock | `Modules/_threadmodule.c` | handle state; owner and count | start, join, acquire, release |
| Threading primitives | `Lib/threading.py` | waiters of conditions; states of barriers | wait, notify, reset, abort |
| Queues | `Lib/queue.py`, `Modules/_queuemodule.c` | items, unfinished tasks, shutdown | put, get, task_done, join, shutdown |
| Executors | `Lib/concurrent/futures/` | work queue, idle count, states of futures | submit, run, cancel, shutdown |
| asyncio synchronisation | `Lib/asyncio/` | futures of waiters, counters | acquire, release, cancel, time out |

### How they interact

The raw mutex guards the buckets of the parking lot.  PyMutex, and the other
locks of `lock.c`, park in it: the byte of the lock is compared with an expected
value under the bucket mutex before a thread is queued, and is stored again by a
callback under the same mutex when a thread is dequeued.  The wakeup itself is
posted to a semaphore on the waiter's stack outside of the bucket mutex.
`threading.Lock`, critical sections and the runtime's own locks are PyMutexes;
stop-the-world uses events and the parking lot.

The runner installs an importer in front of `sys.meta_path`, loads the program,
and from then on is called back by the import system, in the middle of the
execution of another module, for each module that is imported.  Each `.pi` source goes
through the lowering, the checker, the receipt, `compile()` and `exec`; a
Python module skips the first three.  A failure unwinds through all loads under
way and is seen by Python code that catches it.

### What is hard

- *Interleavings of lock-free steps.*  The slow paths of the raw mutex and of
  PyMutex are loops of loads and compare-exchanges on stale local copies, and
  anyone may take a free lock ahead of those who were woken for it.
- *Pointers into other threads' stacks.*  Unlockers read and post records that
  live on the stack of the waiter, which may be about to return.
- *Timeouts and signals.*  A wait may end while somebody has just dequeued the
  waiter, and may have handed it the lock.
- *Collisions.*  Waiters of different locks share buckets, and whether to keep
  the has-parked bit is decided by the number of entries in the bucket.
- *Releases by others.*  `threading.Lock` may be released by any thread, and by
  several at once.
- *Failure in the middle of imports.*  Modules import each other in circles,
  fail, are caught and retried, while files are edited and the receipt may be
  impossible to write.
- *Long programs.*  The type of a name is decided by the first statement that
  binds it; whether it stays true depends on loops, branches, functions that
  run later, and imports.

- *State of others that moves while it is looked at.*  The search for a deadlock
  among importing threads, the scan of the QSBR sequence numbers and the scan of
  stop-the-world read one thread after the other while all of them go on.
- *Threads that end or hang in the middle of it.*  A thread leaves memory behind
  that it has still to free, is counted by a stop that waits for it, or is told
  that the runtime shuts down while it sleeps.
- *Notifications and time.*  A wait on a condition times out while somebody
  notifies it.

`PROJECT.json` lists the hazards with the lines where they bite, and the
properties that cover them.  Those without one belong to components that are not
modelled, or to constructs of Ithon that the checker accepts and that break its
promise (section 4): they are kept out of the programs that `ithon_program` runs, or,
as the list of a foreign result, nothing is claimed of them there.

### What makes each component correct

| Component | Correct when |
|---|---|
| Raw mutex | implements one owner and a stack of waiters; no waiter lost or touched outside its lifetime; every lock call returns |
| Parking lot | the queues hold exactly the parked threads, once each; nobody sleeps through an unpark |
| PyMutex | implements an abstract mutex; waiters are announced in the byte; no wakeup lost; no starvation |
| threading.Lock | queue, byte and wakeups stay right although anybody may release it |
| Runner and importer | what runs was checked, compiled and recorded as this very text; receipts are about accepted sources; Ithon shadows Python; failed loads leave nothing behind; every run ends |
| Checker and types | names hold values of their static type; accepted programs have no TypeError; calls give what the signature says; no name of a known type gets a foreign result without a declaration |
| Events, once flags, RW and recursive mutexes | a set event releases all; one thread runs a once function; readers and writers exclude each other and a waiting writer gets its turn; a recursive mutex knows its owner and depth |
| Module locks | one load of a module at a time; no circle of waiting threads; no waiter forgotten; partial modules only in circles of imports |
| Stop-the-world | no thread runs Python code while the world is stopped; the countdown is exact; all go on afterwards; every stop comes about |
| QSBR | nothing is freed that a thread may still read, nothing twice, nothing forgotten |
| Critical sections | a section holds its locks whenever the thread is attached and inside |
| GIL | one thread evaluates; a waiter is served |
| Queues and conditions | no item or notification lost; unfinished tasks counted exactly; a shutdown frees everybody |
| Executors, asyncio | no permit, wakeup or cancellation lost or used twice |

## 2 Order and layers

What other things rest on comes first, and the fork's own promises beside it.

1. **Locks**: `RawMutex` and its abstract specification `RawMutexSpec`;
   `ParkingLot`; `PyMutex`, which composes the lot with the byte, and its abstract specification `MutexSpec`; `ThreadingLock`, which
   extends `PyMutex`.  Proofs: `RawMutexProofs`, and `PyMutexProofs` for
   `PyMutex` and `ThreadingLock`.
2. **Ithon runner**: `IthonRun`, `IthonRunProofs`.
3. **Ithon types and checker**: `IthonTypes`, `IthonChecker`, and
   `IthonProgram`, which composes the checker with the execution of what it
   accepted.
4. **The other locks of `lock.c`**: `LockWords`, what they share, on
   `ParkingLot`; `PyEvent`, `OnceFlag`, `RWMutex`, `RecursiveMutex`;
   `LockPrimitives`, which composes them, and their abstract specification
   `PrimitivesSpec`.  Proofs: `LockPrimitivesProofs`.
5. **Module locks**: `ImportLocks`, many threads that import, and their abstract
   specification `ModuleLocksSpec`.  Proofs: `ImportLocksProofs`.
6. **Thread states**: `StopTheWorld` over abstract locks, and its abstract
   specification `WorldSpec`; `QSBR` over what that promises of a stopped
   world, and its abstract specification `ReclamationSpec`.  Proofs:
   `StopTheWorldProofs`, `QSBRProofs`.
7. **Queues**: `Condition`; `Queue`, which extends it, and its abstract
   specification `BufferSpec`.  Proofs: `QueueProofs`.

A lower layer is used by an upper one in one of two forms.  Where its
interleavings matter it is composed (`EXTENDS`): the parking lot with all locks,
the conditions with the queue.  Where a promise of it has been checked or proved
the upper layer uses the promise: a bucket's critical section is one step
(`RawMutexProofs`), the PyMutex in a recursive mutex is a lock bit
(`ImplementsMutex`), a thread that wants a mutex gets it (`NoStarvation`), in a
stopped world nobody else is attached (`ImplementsWorld`).

Every safety property of a passing run is proved, but for those of layer 3 and
one of the module locks (section 8).  What is left, in the order in which it
would be added: critical sections inside of attach and detach; biased reference
counts on thread states; executors on `Queue`; the GIL of the default build;
asyncio.

## 3 Modules and their code

### RawMutex

`word` is `m->v` split into the lock bit and the head of the list; `next`,
`sema` and `alive` are the waiter records, named by their thread since a thread
is in at most one slow path; `v` and `after` are the locals of the two slow
paths.  One action is one atomic operation on the word with the thread-local
work after it: `Lock` and `Unlock` are the fast paths, `LoadForLock`, `Grab`,
`Enlist`, `Woken`, `Interrupted` the loop of `_PyRawMutex_LockSlow`,
`LoadForUnlock`, `ReadNextWaiter`, `Release`, `Wakeup` that of
`_PyRawMutex_UnlockSlow`.  `alive` is no variable of the code: it marks when a
record may be touched, and the property `RecordsAlive` is about it.  Memory is
sequentially consistent: the operations on the word are seq-cst or
acquire/release on one location, and `waiter->next` is published by the
compare-exchange.  `_PySemaphore` is the platform's semaphore, external here.

`RawMutexSpec` says what the callers see: `owner`, a stack of sleeping threads
`waiters`, and `awake`, those that have a call open and do not sleep.  An unlock
takes the top off the stack and makes it awake; the mutex is not handed to it,
anybody who is awake may take it first, and only a thread that finds no sleepers
may do so in its first step.  The mapping (`ImplementsLock`) takes as `waiters` the
one list that can be read from the word and the records, and as awake whoever
is in the slow path and has not gone to sleep or has a wakeup coming.

### ParkingLot

The lot's state and what a critical section of a bucket does to it: `Enqueue`,
`Withdraw`, `Dequeue`; around them the semaphore (`ParkOK`, `WaitExpires`,
`MustDrain`, `Wakeup`).  A critical section is one step.  That is justified
because it reads or writes the lock's byte once, and all else that it touches is
only touched under the bucket's raw mutex, whose exclusion `RawMutexProofs`
proves.  `is_unparking` is read under the bucket mutex as well.  The wait ends
for a cause (`timeout`, `intr`) at any moment, a wakeup that was posted in the
meantime included.  `DequeueAll` is the critical
section of `UnparkAll`, whose posts are steps of their own in `LockWords`; it
divides the list of the bucket with `Among`, which keeps the order.
`AfterFork` is left out, hence the status "partly".

### PyMutex, MutexSpec

`word` is the byte, `v`, `spin`, `handed` (`entry.handed_off`) and `aged` (the
time of `entry.time_to_be_fair` has passed) the locals of `_PyMutex_LockTimed`,
`call` its arguments: how long (`zero`, `finite`, `forever`), what to do about a
signal (`ignore`, `fail`, `handle`), and whether Python calls.  A finite
deadline turns into `zero` when the thread looks at the clock (`Reload`) and
its time is over, as `_PyDeadline_Get` makes it.  `Lock` to `Reload` are the
stations of the loop, `Unlock`, `UnlockFast`, `Unpark`, `Wake` those of
`_PyMutex_TryUnlock` with `mutex_unpark` as `HandOver`.  `FastPath` is the one
try before the loop; the inline compare-exchange of `PyMutex_Lock` is one more
try of the same kind.  A `handle` call that was interrupted may find that the
handler raised.  `finalizing` is `Py_IsFinalizing()`, which makes a Python
caller fail with `PythonFinalizationError`; in the model it may become true at
any time and all threads go on, which is more than the runtime allows (there,
threads other than the finalizing one hang when they attach).

`MutexSpec` knows only who owns a mutex and who has asked for it.  The
refinement takes a waiter that was handed the mutex for its owner from the
moment of the hand-off, before it wakes up: this is what makes a timeout that
races with a hand-off visible, since `MutexSpec` has no step by which an owner
that never returned from its request gives up.

### ThreadingLock

Extends `PyMutex` with locks that may be released by a thread that did not
acquire them (`Locks`), beside mutexes that only their owners unlock.  This is
the free-threaded build, in which `threading.Lock` is a PyMutex released by
`_PyMutex_TryUnlock`.  `MutexesUndisturbed` says what the other mutexes may
expect of such neighbours: one owner, and no `Py_FatalError` in their unlock.
`ImplementsMutexes` says it in full: seen alone they are still mutexes of
`MutexSpec`.

### IthonRun

A source is a sequence of statements of which only what matters to the runner is
kept: some effect, an exception, an import, an import whose failure is caught
(Python only), a statement that the checker rejects, and one that the checker
accepts but `compile()` refuses.  `stack` has the loads under way: the module,
its file, the text as it was read, how far the load has come, and the statement
it is at.  `Read`, `Check`, `Record`, `Compile`, `Effect`, `Raise`, `Import`,
`Finish` are the steps of the innermost load; `Fail` takes every module whose
load an exception leaves out of `sys.modules`, up to the load that catches it.
The finders follow `_find_spec`, `IthonFinder.find_spec` and the path finder:
the first finder that has the module anywhere on the path wins, `leaf.pi` before
`leaf/__init__.pi`.  `Edit` is somebody who saves a file.  `lines` and `ran` are
the receipt file and a history of what was executed.

### IthonTypes

The types, `Union`, `Assignable`, and a meaning: the values that a type may
hold, `Conforms`.

### IthonChecker, IthonProgram

`IthonChecker` is the checker as a machine: one statement a step, over `scopes`
and `returns`, with `declare` entries for what a block declares up front, and
`leave` entries where the code pops its stacks.  Expressions are inferred by the
recursive `Infer`, each statement has an action.  `IthonProgram` runs what was
accepted: frames with environments, calls, loops, branches, classes, imports
that give an unknown value, and the class of the result of each operation.

The two were compared with the program itself: from a pool of 42 statements all
programs of one and two statements and many of three, about 26,000, were given
to the real `check_source` and, when accepted (about 3,800), executed; verdicts
and outcomes agreed with the model in every case.

### LockWords, PyEvent, OnceFlag, RWMutex, RecursiveMutex, LockPrimitives, PrimitivesSpec

`word` is the byte or word of each primitive, as a lock bit, a parked bit and a
count (readers; or 1 for `_Py_ONCE_INITIALIZED`).  `doing` is the function a
thread is in, `v` its local copy, `posts` the entries that its `UnparkAll` has
dequeued and has still to post: they lie on the stacks of their threads, which
is why each post is a step.  The loops of `PyEvent_WaitTimed`,
`_PyOnceFlag_CallOnceSlow`, `_PyRWMutex_RLock` and `_PyRWMutex_Lock` are the
actions `EventLoop`, `OnceLoop`, `RLockLoop`, `LockLoop`: one pass decides on
`v` and makes one compare-exchange, which may fail (`Retry`).  `UnlockOnce` has
the once function succeed or fail.

In `RecursiveMutex` the owner is read without the mutex; `TakeMutex` and `Stamp`
are two steps, as are clearing the owner and unlocking.  `ReleaseSave` with the
second branch of `Stamp` is what a condition variable does to an RLock,
`_release_save` and `_acquire_restore`.

`PrimitivesSpec` is what their callers see: which call a thread is in, who has
entered, how often a recursive mutex is locked, which events and once flags are
settled.  Words, waiting and waking do not occur in it.  An outer unlock of a
recursive mutex is over there when the code clears the owner, although the mutex
inside is freed by a later step: nobody can tell the difference but by getting
the mutex later.

### ImportLocks

`modules` is `sys.modules` (which load made the module), `initializing` the
specs with `_initializing`, `owner`, `count`, `waiters`, `wakeup` the fields of
each `_ModuleLock`.  A thread's `stack` has its imports: the body of a module
that is loaded imports others.  `Import`, `Ensure`, `Check` are the import
statement (`import.c`); `Find`, `Examine`, `Recheck`, `Load` are
`_find_and_load`; `Finish`, `Put`, `Fail`, `Clear` are `_load_unlocked`, which pops the
module from `sys.modules` and puts it back in two steps; `Enter` to `Release` are
`_ModuleLock`.  What runs under a lock's own RLock is one step, with one
exception: the search for a deadlock (`Follow`, `Peek`) reads the entries and
owners of other locks, one thread at a time, while the others go on.
`_blocking_on` is no variable: `BlockingOn` gives the lock of a thread that is
between the two ends of `_BlockingOnManager`.

`ModuleLocksSpec` is what the import system needs of them: the owner and the
depth of each lock, for whose lock each thread waits, and the modules that are
being loaded.  There a thread begins to wait only if that closes no circle,
which it decides in one step; a load begins and ends under the lock, which is
not given up in between.  In the mapping `depth` is `count`, a thread waits
between `QueueUp` and `WakeupAcquire`, and a module is being loaded while it is
in `initializing`; searches, the counts of waiters and the wakeups do not occur.

### StopTheWorld

`state` is the state word, `linked` the lists of thread states, `please` the
bit of the eval breaker; `requested`, `stopped`, `countdown`, `event`,
`requester` are `struct _stoptheworld_state` of each interpreter and of the
runtime.  A thread detaches when it has to wait for the rwmutex or for the mutex
of the stop, and may be suspended there (`LockRW`, `RetryRW`, `LockMutex`,
`RetryMutex`); `HEAD_LOCK` is waited for attached.  `Request` counts the others,
`Scan` looks at one thread state at a time while threads attach and detach,
`EventSet`, `TimedOut`, `ScanAgain` are the loop that waits.  `RemoveExcept` and
`SetShuttingDown` are finalization; a thread that finds itself shutting down
hangs.  Thread states are made, deleted by their own thread (`Exit`) and by
others (`Drop`) at any time.

`WorldSpec` is what the rest of the interpreter relies on: who is `attached`, who
is the `stopper` of a stopped world, and who is `removed` for good.  A world
stops in one step, taken by an attached thread with nobody else attached of those
concerned; until it starts again nobody attaches to it.  A requester is the
stopper from the moment `stopped` is set, and a thread is removed once it is on
no list any more (`ImplementsWorld`).

### QSBR, ReclamationSpec

One shared pointer stands for all data that is read without a lock: `Read`
gives a thread the current node, `Replace` publishes a new one, `Retire` gives
the old one to `free_delayed` with its goal, or frees it at once (`RetireNow`: in a
stopped world, at finalization, or without memory for a chunk).  `Poll` reads
`rd_seq`, `ScanBegin` reads `wr_seq`, `Scan` one slot a step, `Publish` and
`Swap` are the end of `qsbr_poll_scan`, and `Free` frees.
`interpQueue` is what ended threads have left; `Abandon` hands a queue over,
`AbandonOther` that of a thread state which another thread deletes.
`LookForWork`, `TryLock`, `Unlock` are `maybe_process_interp_queue`; `Collect`
is the collector in a stopped world.  Memory is sequentially consistent here:
the code has a fence in `qsbr_poll_scan` and seq-cst stores in attach for this.
A node that is not `Live` may be allocated again at once, so that using it is
what `HeldIsLive` forbids.

`ReclamationSpec` is what readers without a lock rely on: `Replace` turns the
current node into garbage and takes memory that is free, `Free` frees some
garbage at any time, but nothing that a thread has `held` since it read it.  The
mapping (`ImplementsReclamation`) takes as garbage the nodes that wait in a queue
or are about to be put there.

### Condition, Queue

What a thread does with the shared lock held is one action.  A thread stands for
the waiter lock of its wait; `notified` are the waiter locks that notify has
released.  `TimeOut` is the end of the acquire of a waiter lock without the
condition's lock, and `Waiters` the removal from the list afterwards: a
notification that falls between the two goes to a thread that no longer waits.
`Queue` has the methods of `queue.Queue`, items counted.  A thread that has got
an item calls `task_done` for it before it gets another or joins, and may put
meanwhile.

`BufferSpec` is the queue as its callers know it: the number of items, who works
on one, whether it is closed, and the call in which a thread waits.  A call is
answered in one step, for a reason that holds in that step, or begins to wait
for what is not there; `join()` returns when there is no item and nobody works
on one.  Conditions, notifications, timeouts and `unfinished_tasks` do not occur.

## 4 What the runs show

A run that ends in "violation" shows a disagreement between the code and what a
document of the repository says of it; it is listed under "findings" in
`PROJECT.json`.

| Run | Question and answer |
|---|---|
| `raw_mutex` | 3 threads, 2 rounds each, in every order of the atomic operations: they implement one owner and a stack of waiters (`RawMutexSpec`), the list in the word holds exactly the sleepers without a wakeup coming, records are alive when touched, every lock call returns |
| `py_mutex_live` | 3 threads lock and unlock one PyMutex for ever, waits cut short by timeouts and signals: PyMutex implements `MutexSpec`, a parked thread that has waited for `TIME_TO_BE_FAIR_NS` gets the mutex, every timed call returns |
| `threading_lock` | a `threading.Lock` that any thread releases, several at once, and a mutex of the interpreter in one bucket, with spinning, timeouts, signals and finalization: the queue holds exactly who waits, entries are alive when touched, has-parked bits and wakeups are right |
| `lock_primitives` | an event with a once flag, an RW mutex, a recursive mutex: they implement `PrimitivesSpec`, no wakeup is lost or posted to a dead entry, a waiting writer gets its turn against readers without end, every call returns |
| `import_locks` | 3 threads and 3 modules in a circle of imports, a load that fails once: one load of a module at a time, every waiter has a waker, partial modules only in circles of imports, and an implementation of `ModuleLocksSpec`: no circle of waiting threads, no lock given up during a load |
| `import_locks_acyclic` | *violation*: with acyclic imports a thread is given a half initialised module, since the search for a deadlock follows an edge that is no longer there |
| `stop_the_world` | 2 interpreters, 3 threads that attach, detach, end and are made, local and global stops, finalization: it implements worlds that stop and start at once (`WorldSpec`), the countdown is exact, whoever is suspended has a waker, who hangs holds nothing, every request is answered |
| `qsbr` | 2 threads, 3 blocks of memory: only garbage that nobody holds is freed (`ReclamationSpec`), nothing twice, and what ended threads leave is announced |
| `queue` | 3 threads, 2 places, calls that block, time out or do not wait: an implementation of `BufferSpec`, in which `join()` waits for exactly what is in the queue and in hands; no notification is lost, a shutdown frees everybody |
| `ithon_run` | programs that import, fail, catch, retry and import in circles, from two directories with Ithon and Python files of the same names, while a file is edited: only checked and recorded texts run, receipts are about accepted texts, Ithon shadows Python, failed loads leave nothing behind, every run ends |
| `ithon_program` | all programs of up to three statements from a pool of 30 that cover every action of checker and execution: names hold values of their types (a foreign result, by itself or as a loop variable, only what it was declared as), no TypeError, calls give what signatures say |
| `ithon_signatures` | *violation*: a function that declares a result and falls off its end is accepted; its call gives `None` |

Every property of a passing run has a mutant in `PROJECT.json`: a change of the
kind a bug would make (a dropped comparison, a lost reset, a swapped order)
under which TLC finds the property violated.  The mutants' bodies stand in the
modules next to the definition they change, marked "Mutant" or "as if".

### Remarks from the modelling

None of these is a run of its own.

- Two threads that release one acquisition of a `threading.Lock` at the same
  time may both succeed: `_PyMutex_TryUnlock` decides on a load (`lock.c:201`)
  and the callback of the path with waiters stores the byte without looking.
  `Doc/library/threading.rst:802` has a RuntimeError for a release of an
  unlocked lock.  The queue, the bits and the wakeups survive it.
- A writer of the RW mutex that was woken competes with all who come: nothing
  bounds how often it loses while the parked bit is clear.
  `WritersNotStarved` holds once it has set the bit again and readers park
  behind it.
- `_ModuleLock` says of `waiters` that it counts the threads that block; the
  code counts one of them, the one that found `wakeup` free, and the others pass
  the wakeup on (`WaitersWoken`).  Under weak fairness alone they could pass it
  among each other for ever.
- The search for a deadlock may report a circle that never existed at one time,
  since the owners it follows change while it runs.  In
  `import_locks_acyclic`, t3 loads c and imports b, whose lock t2 holds while it is
  blocked on a, which t1 loads; t1 finishes a and goes on to import c, and the
  search of t3 passes from a's former owner to itself.
- `rd_seq` may be larger than the sequence of a thread that has just attached
  with an older `wr_seq`.  It has read nothing yet, and `HeldIsLive` holds.

### The fragment of `ithon_program`

The checker keeps its promise for the statements of `SoundStatements`.  Outside
of it the following was seen with the real checker: functions that fall off
their end (a finding), unions with an unknown member (`x ← 1 if a == b else m.f()`
binds a half unknown type without a declaration, since the test at
`ithon_static.py:245` compares with `UNKNOWN` only; `ITHON-TYPING.md:51` asks for
a type boundary; `xs ← [m.f()]` passes the same way), imports that
bind a typed name again, arithmetic that leaves the class of its operands (`True + True`
into a `bool`, a negative exponent, `<` and `%` of complex numbers), a function
defined twice with different signatures, arguments of constructors, iterating
over a function, `1 ∈ int` as an expression, attributes that change a list
behind its type, and decorators.  Statements that meet one of these are left out
of `SoundStatements`, so that `ValuesHaveTypes` is a statement about the
rest.  The one that stays in is the list of a foreign result: `xs` gets the type
`list[unknown]`, of whose members `ValuesHaveTypes` asks nothing, so this run does
not speak of that disagreement; what it shows is that nothing comes out of such a
list, as a loop variable, to a name without a declaration.  The ones that come from the checker's own rules, rather than from a
construct it passes by, are findings or hazards of `PROJECT.json`.

## 5 Bounds

| Bound | Value | Why it is enough |
|---|---|---|
| `Threads` | 3 (2 in `qsbr`) | an owner, a waiter, and one that barges or releases in between; a second waiter for the has-parked bit; in `qsbr` a reader and a writer, who both scan, end and start again |
| `MaxRounds`, `MaxCalls` | 2 in `raw_mutex`, 0 (unbounded) elsewhere | a thread comes back to a mutex whose state it has seen stale |
| `Addrs`, `Buckets` | 1 or 2 mutexes, or 4 primitives; 1 bucket | a collision; without one, locks are independent |
| `MaxSpin` | 0 or 1 | spinning only delays the thread and refreshes its local copy; the code's 40 or 0 (`lock.c:29`, `lock.c:32`) differ by how often |
| `Ends` | timeout and signal in `py_mutex_live` and `threading_lock`, signal in `lock_primitives` | all ends of a wait but the wakeup; of the primitives only an event has a timed wait, and `PyEvent_WaitTimed` answers the same after either |
| `MayFinalize` | true in `threading_lock` | finalization only makes Python callers give up |
| `MaxLevel`, `Workloads` | 2 levels; all threads on the RW mutex, on the recursive mutex, or on an event and a once flag | a level to save and restore; the waiters of two kinds of primitives meet in a bucket |
| `Imports`, `Wanted`, `MaxLoads` | a circle of 3 modules, or a chain; one module fails once | a circle of three threads; a stale owner in the middle of a search; a module that is replaced |
| `Interps`, `Stoppers`, `Started` | 2 interpreters; each thread stops its own, one of them all; one thread is made later | local stops of both side by side, and a global one beside them; a thread that comes during a stop |
| `Nodes`, `MaxSeq`, `DEFERRED_LIMIT` | 3, 7 (4 write sequences), 1 | a node in use, one that waits, one that is published; goals that two scans answer differently; frees that share a goal |
| `maxsize`, `Kinds` | 2; all kinds of calls | a full, an empty and a half full queue; two items with one sleeper |
| `Modules`, `Dirs` | 2 and 2 in `ithon_run` | a circle, and a Python file in an earlier directory than the Ithon file |
| `MaxEdits` | 1 | an edit between any two steps of a load |
| `MaxLength`, `MaxDepth` | 3 statements (blocks have their own), 3 frames | bind, redefine or loop, use; a function that calls its parameter from a call |

Symmetry under permutation of threads is used in safety runs only.  The
theorems of section 7 do not depend on any of these bounds.

Deadlock checking is off in runs that may really stop: threads after their last
call (`raw_mutex`), a program that is over, everybody waiting for an event that
nobody sets or for an item that nobody puts, the bound of the write sequences.  That nobody is
stuck otherwise is what the liveness properties, `NoLostWaiter`,
`SleepersCared` and `NobodyForgotten` state.

## 6 Fairness

- *Locks.*  A thread that is inside a call or a critical section goes on:
  the operating system schedules every runnable thread.  Time passes (`Age`).
  Nothing makes an idle thread call, a wait end early, or the runtime finalize.
  Weak fairness per thread is enough: each thread's next step, once enabled,
  stays enabled until it takes it or its wait ends.
- *Who wants a mutex gets it.*  The locks that `ImportLocks`, `StopTheWorld` and
  `Queue` take as abstract are PyMutexes, which starve nobody (`NoStarvation`).
  Hence strong fairness for `Enter`, `WakeupAcquire` and `Release` of a module
  lock, for the steps that need `HEAD_LOCK`, and weak fairness for a thread that
  wants the lock of a queue.  A thread that is asked to stop and runs again and
  again looks at its eval breaker some time (`HandlePending`).
- *The environment.*  The body of a module ends, and who has got a task does it.
  Nobody has to put, to set an event, to shut down or to edit a file.  The call
  of a lock primitive returns unless threads start new calls for ever
  (`EveryCallReturns` of `LockPrimitives`); the progress of a writer is stated
  without this.
- *Runner.*  One thread that never waits: weak fairness of its next step.

## 7 What is proved

All theorems hold for every value of the constants that satisfies the
assumptions of the modules, in particular for any number of threads, mutexes,
buckets, files, modules, nodes, interpreters and edits.  The assumptions say
that constants have their types, that `NULL` is no thread, address or module,
that each address has a bucket, and, in the modules of locks, conditions and
stop-the-world, that threads are a finite set.  `QSBRProofs` and
`ImportLocksProofs` do not need the last one.

Each module has the same plan: the inductive invariant `Inv` of the component
(it stands at the end of the component's module, where TLC checked it before it was
proved), one lemma for each of its parts that every step keeps, with one case per
action, the theorem `Invariance`, and a theorem for each property of the runs.

### RawMutexProofs

`Inv` is inductive: types, `MutualExclusion`, `NoLostWaiter`, `SomeoneWillTake`,
and two strengthenings.  `WakeupsInv` says that a record is alive exactly in the
slow path and has one wakeup coming at most, and only while its thread sleeps.
`UnlockInv` says that what the owner has seen on its way through the unlock
is still true of the list.  Without it `Release` could not be shown to take the
first waiter and only that one off: its compare-exchange compares the head, and
`after` was read earlier.  It holds because only the owner pops, and a push
changes the head.  The list itself is a witness, a sequence of threads, that
each action extends or shortens.

`Implementation` is the refinement of `RawMutexSpec`.  Its stack is *the* list
of the word, so that it has to be shown that there is only one: two sequences
that start at the same head and follow the same links agree (`OneChain`, by
counting the positions up to which they do, since induction over data is out of
reach).  Each step then leaves that list alone, pushes its own thread or pops the
head (`Kept`, `Pushed`, `Popped` in `StepList`), and the change of the word makes
it a step of the stack (`AskStep` to `LeaveStep`) or nothing that callers see.

### PyMutexProofs

`WaitInv` joins `QueuesExact`, `WaitersAnnounced`, `NoLostWakeup`,
`EntriesAlive` with `EntryInv` (an entry exists exactly
while its thread is in `Park`, for the mutex of its call; only a dequeued entry
is handed the mutex, posted or drained) and `CallInv` (threads that are about to
post have different waiters).  `EntryInv` is what excludes the leak when a
timeout meets a hand-off: `Withdraw` requires that the entry is not dequeued,
and only dequeued ones are handed the mutex.  `NoLostWakeup` names the
thread that is going to try; a thread that tries and fails has seen the byte
locked again, and one that gives up has looked at the byte after it was woken.

None of this depends on who unlocks.  The lemmas about `WaitInv` are stated for
the steps of `PyMutex` and of `ThreadingLock` together, and the two invariants
add what does depend on it: `Inv` has `MutualExclusion` and `NeverFatal`, `LockInv`
has `MutexesUndisturbed`, the same for the mutexes that do not belong to a
`threading.Lock`.  Exclusion is proved for one mutex at a time, from its own
exclusion only (`StepExclusive`), hence nothing that happens to a lock of the
same bucket can break it.  The theorems `Lock...` are those about `LockSpec`.

`Implements` is the refinement of `MutexSpec`: each step is an `Ask`, `Take`,
`GiveUp`, `Release`, `Pass` or a stutter, under the invariant.  `StepImplements`
shows it for the mutexes of any set that are exclusive, and `LockImplements` uses
it for those of the interpreter beside `threading.Lock`s: what strangers do to
the latter are stutters (`StrangerImplements`).

### IthonRunProofs

The invariant adds `StackOK` with `FrameOK`: how far a load has come
determines what is known of its text (checked, recorded, compiled), only the
innermost load is not yet executing, the program lies at the bottom, and nothing
runs before `sys.path` is final.  The last part is what `IthonFirst` needs, since
that property looks at the path as it is while the finder looked at it
earlier.  One lemma per action and conjunct, `Fail` shared by all that fail.

### LockPrimitivesProofs

The properties `QueuesExact`, `HoldersAgree`, `SleepersCared` and `PostsAlive`
are parts of the invariant.  `PlaceInv` says where in the code a thread may be
while it does what, `EntryInv` is the one of `PyMutexProofs`, and `DepthInv` ties
what a condition has saved of a recursive mutex to the level that it restores.
Two parts carry the argument that nobody sleeps for ever.  `ReasonInv`: a thread
about to park has seen the parked bit and a reason to wait, so that the
comparison in `Park` puts it to sleep only while both still hold.  `WriterInv`:
the parked bit of an RW mutex that no writer holds was set for a writer, which is
awake once the readers are gone and everybody has been unparked.  Without it, a
reader that goes to sleep behind the bit of an unlocked RW mutex would have
nobody to rely on.  The steps are divided by what they touch (the lot, a word,
the fields of a recursive mutex), each kind with a lemma about its effect, so that a
property is shown for a few kinds of effects rather than for each action.

`Implementation` is the refinement of `PrimitivesSpec`.  That a call enters only
where nobody excludes it follows from `HoldersAgree`, which relates words to sets
of threads.  What the invariant lacks is about the past: a thread returns from an event
or a once flag by a copy of the word, which it may have read long ago.
`SettledInv` says that such a copy is not out of date where it matters, since what is set
or done stays so (`Lasts`): nobody takes a once flag that has a count, and a
thread that announces itself does so on a word that it compares.

### ImportLocksProofs

`HoldInv` counts: the imports of a thread that hold a lock are as many as the
count of the lock, with the thread as its owner.  `LoadInv` is `OneLoader` with
the marks of the loads: every mark has a load and every load its mark.
`WakeupInv` has the three forms of `wakeup` (free, kept for one waiter, passed
on), which give `WaitersWoken`.

`NoCircleOfWaits` is about searches that look at one thread at a time while the
others go on.  `CircleInv` says more than the property: in every set of threads
that are all held up by each other, waiting or still searching, some thread is
going to find the circle.  What it is going to find is a way back to itself along
threads that it has not seen, which cannot run for ever since a measure shrinks
along it.  When a lock changes hands a set may stop being circular, but it never
starts being so without a thread that has just begun to search, which has seen
nobody.  `SearchInv` keeps the lock that a thread searches for from being
released meanwhile: `_ModuleLock.acquire` holds the lock's own mutex.

`Implementation` has one lemma per kind of step.  `QueueUp` is the abstract wait,
whose guard is about the state after it: no circle there, which is
`NoCircleOfWaits` in the invariant's next state.  That a load begins with none
under way and ends with its own mark follows from `LoadInv`; that the last
release of a lock comes after the load from counting, since a frame that still
loads would hold the lock a second time.

### StopTheWorldProofs

`HeadInv`, `MutexInv`, `RWInv`: who holds which lock of the protocol, by the
place in the code.  `NextInv`: where a thread goes on after a wait.
`RequestInv`: the fields of a stop say how far its requester is; hence only one
stop concerns a thread at a time, which is where the RW lock enters (a global
stop excludes all others).  `StateInv` ties the state word and the list of
thread states to the place of a thread.  `TodoInv` and `LateInv` are about what
is on the way: those that a scan or a restart has still to look at, and threads
that have suspended themselves and not said so.  `CountdownExact` and
`SuspendedHasWaker` are parts of the invariant.  `WorldStands`, that nobody
concerned but the requester is attached while the world is stopped, then follows from
`EventInv`, since the countdown of a stopped world is 0 and
`CountdownExact` leaves nobody who is not suspended.

`Implementation` is the refinement of `WorldSpec`.  `WorldStands` after a step gives
the guards of the abstract `Stop` and `Attach`; `StateInv` and `TodoInv` say that
a thread that finalization has taken off the lists is suspended until it is told
to hang.

### QSBRProofs

`GoalsInv` is the heart: the goal of a node that a thread still holds is larger
than `rd_seq`, larger than the sequence of that thread, and larger than what any scan
that has passed the thread's slot has computed.  The last part is
needed because a scan reads one slot after the other and publishes its minimum
afterwards.  With it `HeldIsLive` is inductive: a poll that frees has found the
goal reached.  `OnlineInv` says that a thread holds a node only from its attach to
its next quiescent state, `ProcessInv` who works on the queue that ended threads
have left, `NodesInv` that the nodes just replaced differ, `SequenceInv` that
nobody has seen a sequence that was not written yet.  `FreedOnce` is part of the
invariant, with the queues of the threads and that of the interpreter as one map
from owners to sequences.

`Implementation` is the refinement of `ReclamationSpec`.  A step that replaces
nothing makes no garbage (`GarbageShrinks`, by the origin of each item of a
queue); what it frees nobody holds, since `HeldIsLive` and `FreedOnce` are true
before and after it.

### QueueProofs

`ConditionInv` says for each condition which threads are in its list, with
whom a notification is on its way, and that lists have no repetitions.
`DebtInv` strengthens `NobodyForgotten` to a count: as long as somebody waits for
items without having been told, there are at most as many items as threads that have been
told, and likewise for places.  Counting is what makes it inductive: a notified thread takes one
item, a `put` adds one and tells one more, and a thread that timed out and was told
all the same finds the item and takes it, or finds that there is none.
`UnfinishedExact` counts the items in the queue and those in hands.

`Implementation` is the refinement of `BufferSpec`.  That the counter is zero
exactly when the queue is empty and nobody works is `UnfinishedExact` (`ReadyFacts`),
through shutdowns that drain the queue too; that a thread goes on with the call
in which it waited is `IdleInv`.  Waking up, and being late, are stutters.

The theorems `MutualExclusionHolds`, `NoLostWaiterHolds`, ... state the
properties of the runs under the specification, `Invariance` the invariant.

## 8 What is only model-checked

- Liveness (`EveryLockSucceeds`, `NoStarvation`, `EveryCallReturns`,
  `WritersNotStarved`, `StopsEnd`, `ShutdownFrees`, `RunEnds`): it needs fairness
  and `ENABLED`, which the prover does not handle.
- `IthonTypes`, `IthonChecker`, `IthonProgram`: expressions are trees, inferred
  and evaluated by recursive operators, and induction over them is out of the
  prover's reach.
- `PartialOnlyInCircles` of `ImportLocks`: it is true of some graphs of imports
  only; `import_locks_acyclic` violates it, so there is nothing to prove for all.
- The bounds `MaxSeq`, `MaxLoads` and the like only cut counters off in the runs;
  the proofs hold for all their values.

The type invariants (`TypeOK`) of the modules with proofs are conjuncts of the
proved invariants; those of the other modules document the state
and were checked with TLC while the modules were written.  No run spends its
time on either.

## 9 What is not modelled

`PROJECT.json` lists every component with the reason.  In short: critical
sections, biased reference counts, the GIL, executors, barriers and asyncio,
which would be modules of their own on top of the present ones; the index pool,
a sequential data structure; the launcher and the host, straight-line code; the
lowering, a text conversion without state; the compiler, the evaluation loop,
the collector and the object library, which are inherited, sequential or far
larger than a model that could be checked.

The executors come first among those to add.  Reading `Lib/concurrent/futures/`
for them raised three questions that no model answers yet, so they are listed
as a hazard and not as findings: `_initializer_failed` (`thread.py:246`) empties
the work queue, with the `None` that `shutdown()` put there "to prevent threads
calling `_work_queue.get(block=True)` from permanently blocking"; it stops at the
first future that was cancelled meanwhile, on which `set_exception` raises; and
`shutdown(cancel_futures=True)` leaves the futures it drains `CANCELLED`, which
`wait()` and `as_completed()` do not take for done (`_base.py:286`).

Inside the modelled parts these are abstracted:

- *Locks*: the hash of addresses (any function to buckets); the number of spins;
  the clock (a deadline, and the fairness time, may have passed at any moment);
  the detach and attach of the thread around a wait, which takes time and no
  lock of these modules; fork.
- *Runner and checker*: the text of errors and receipts; `PYTHONPATH` beyond the order of
  directories; packages and relative imports; files that cannot be read or
  decoded (`ithon_run.py:26`, `36`, `115`).  Such a read ends a load before anything was
  checked, recorded or executed, as a rejected text does.
- *Module locks*: the registry of locks by name, parents of dotted names, lazy
  imports, imports started by a collection or a signal handler in the middle of a step.
- *Stop-the-world*: the rwmutex, the mutexes and `HEAD_LOCK` are what their
  modules promise; the GIL, QSBR and critical sections inside of attach and
  detach; a requester without a thread state.  A compare-exchange of the scan that
  fails leaves the thread to the next scan.  `Wake` and `SetShuttingDown` store a
  state word and wake who sleeps on it in one step (`pystate.c:2512`, `2375`), where
  the code has a store and an `_PyParkingLot_UnparkAll`.  In between only the
  thread itself can be asleep there, nobody can begin to sleep, since the word no
  longer says "suspended", and a thread that a signal wakes finds the word as
  it is after both.
- *QSBR*: growth of the array and fork, which happen in a stopped world; chunks
  of the queues (a full one processes the queue at once); frees that free more;
  a queue with one empty chunk, which its thread drops instead of handing it
  over; the page goals of mimalloc; wrap-around of the sequences.
- *Condition and Queue*: an interrupt in the middle of `wait` or `notify`;
  unbounded queues; the order of items; the ValueErrors for a `task_done` too many
  (`queue.py:89`) and for a negative timeout (`queue.py:163`, `203`), which change
  nothing.  Threads in the model call `task_done` once for each item.

## 10 How to run it

    tlc -config RawMutex.cfg MCRawMutex.tla
    tlapm RawMutexProofs.tla

The pairs of module and configuration are the "runs" of `PROJECT.json`.
