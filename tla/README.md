# A verification project for SynchroTr

SynchroTr is a C++ library for threads and synchronisation.  It offers the
MS-Windows threading interface on every platform: on Windows its classes call
the system, on Linux and Mac OS X they run on an emulation of `HANDLE`s,
semaphores, mutexes, events, threads and `Interlocked` operations over POSIX
threads.  This directory holds TLA+ models of its protocols, the TLC
configurations that check them and the TLAPS proofs about them.

Paths below are relative to the repository; `X:n` is line n of file X.

## Inventory

| component | where | state | operations | what is hard |
|---|---|---|---|---|
| CritSectEx lock | `CritSectEx/CritSectEx.h:258-460`, `CritSectEx.cpp:37-122` | `m.nLocker`, `m.nWaiters`, `m.bIsLocked`, `m.bTimedOut`, `m.hSemaphore` | Lock, Unlock, PerfLock, PerfLockKernel, AllocateKernelSemaphore | every field is shared and changed without a lock; wake-ups by counting; timed waits; an exception on the way out |
| Interlocked primitives | `msemul.h:499-593, 689-716`, `CritSectEx.h:195-248` | one word each | compare-and-exchange, increment, decrement, set true, set false, and | the emulated exchange returns a value read before it; `addl` on a 64-bit word; check-then-act |
| CritSectEx::Scope, CritSectRec, MutexEx | `CritSectEx.h:440-1335` | lock flags of the scope, recursion count, a sticky time-out flag | Lock, Unlock, Enter, Leave, constructors and destructors | a flag that says who must unlock; nesting; time-outs |
| C glue | `CritSectEx.h:1337-1460`, `CritSectEx.cpp` | cached lock state | Create, Lock, Unlock, scoped lock | a cached `IsLocked` |
| semaphore HANDLE | `msemul.h:643-672`, `msemul.cpp:445-465, 587-607, 773-895` | POSIX semaphore, `curCount`, `maxCount`, reference count | Create, Open, Wait, Release, Close | the count beside the semaphore is changed without a lock |
| mutex HANDLE | `msemul.h:674-683`, `msemul.cpp:467-504, 610-623` | POSIX mutex, owner | Create, Wait, Release | errors reported through `errno` |
| event HANDLE | `msemul.h:718-744`, `msemul.cpp:510-560, 625-656` | `isSignalled`, condition variable and its mutex | Create, Set, Reset, Wait | a flag outside the mutex of its condition variable |
| thread HANDLE, timed join | `msemul.h`, `msemul.cpp:1000-1500` | exit flags, detached flag, suspend count | CreateThread, Wait, Resume, Suspend, Terminate | cancellation, detach, signals |
| handle registry | `msemul.cpp:100-350, 690-770, 1722-1830` | open handles, list of semaphores | Register, Unregister, CloseHandle | double close, source and copies |
| Thread class | `Thread/Thread.hpp`, `Thread/Thread.cpp` | start locks, suspended flag, exit code | Start, Stop, Join, Suspend, Continue, synchronisation points | start and stop handshakes with time-outs |
| SharedValue, SharedArray | `Thread/Thread.hpp` | a value and its lock | assignment, arithmetic | two locks taken by one operator |
| shared-memory allocator | `msemul.cpp:100-348` | registry of mapped blocks | MSEreallocShared, MSEfreeShared | a registry that allocates from itself |
| priority mapping | `msemul.cpp:1515-1620` | none | two conversions | rounding, platform ranges |
| NSCriticalSection, timer, tests, build files | - | - | - | wrappers, clocks and demonstrations |

How they interact: CritSectEx calls CreateSemaphore, WaitForSingleObject,
ReleaseSemaphore and CloseHandle, which are system calls on Windows and the
emulation elsewhere; the emulation protects its own lists with a CritSectEx
(`semaListCSE` and others); the Thread class uses events for its start locks and
a CritSectEx inside SharedValue; every emulated wait goes through
`WaitForSingleObject`, which dispatches on the type of the handle.

What makes each component correct, and what is hard to test about it, is listed
under `hazards` in `PROJECT.json`, each at its line with the properties that
cover it.

## Plan

Done, in this order:

1. `CritSectEx`, the lock, and `CritSectExProofs`.  Every other component rests on
   it.
2. `MSSemaphore`: the semaphore HANDLE as the lock uses it on gcc; the count
   beside the semaphore against the semaphore itself.
3. `MSEvent`: SetEvent, ResetEvent and waits on events, `_InterlockedSetTrue`
   and `_InterlockedSetFalse`.
4. `ScopedLock`: the classes around the lock and their scopes, shown to
   implement the abstract `ReentrantLock`.
5. `ThreadHandle`: threads as HANDLEs; suspension, timed joins, cancellation,
   CloseHandle.
6. `WorkerThread`: the Thread class, composed with `ThreadHandle`, which it
   extends.
7. `HandleRegistry`: the lists of HANDLEs; sources and copies of semaphores.
8. `SharedValue` and `ThreadPriority`.
9. `LockOwnership`, `EventWakeUps` and `ExitCodes`: what remains of a promise that the
   code breaks.  Each extends a module above by a history variable and says by
   which one interleaving the promise is broken, and by no other.  `LockOwnership`
   also refines `OwnedLock`, a lock with an owner.

Each has its runs, and proofs in a module of their own, which it shares in the case
of `ThreadHandle` and `WorkerThread`.  Type correctness is stated by a theorem
everywhere, the safety invariants by a run and a theorem.  Left:

10. The lock composed with the emulated semaphore, whose errors `CSGcc32` has in
    the form of refused posts and tokens nobody needs.
11. The shared-memory allocator.

## CritSectEx

`CritSectEx.tla` models the lock with one action per access to a shared field,
so that TLC explores the interleavings the program has.

| model | code |
|---|---|
| `nLocker`, `nWaiters`, `bIsLocked`, `bTimedOut`, `hSemaphore` | the fields of `CritSectEx::m` |
| `tokens`, `handles` | the kernel: the count of the installed semaphore, the semaphores that are open |
| `pc`, `site`, `old`, `spin`, `tmo` | where a thread is, and its locals |
| `flags` | the `bUnlockFlag` results a caller has yet to pass to Unlock, latest first: callers pair calls like nested scopes |
| `lost` | auxiliary: the waiters an exception left in `nWaiters`, less the posts that failed |
| `LockAgain`, `CallLock`, `Test` | `Lock` (CritSectEx.h:378-400) |
| `CASRead`, `CASXchg`, `CASWon` | `PerfLockImmediate` and the exchange (CritSectEx.h:286-295, msemul.h:499-514) |
| `Spin`, `Alloc`, `AllocRead`, `AllocXchg`, `Minus` | `PerfLock`, `AllocateKernelSemaphore` (CritSectEx.cpp:37-74) |
| `Enter`, `Plus`, `Check`, `TakeToken`, `TimeOut`, `WaitFails` | `PerfLockKernel` (CritSectEx.cpp:76-122) |
| `CallUnlock`, `Release`, ..., `ReleaseDone` | `Unlock`, `PerfUnlock` (CritSectEx.h:308-335, 401-413) |

Two constants select the build.  `StaleCAS` is the gcc emulation, which returns a
value it read before the locked instruction; without it the exchange is the
Windows intrinsic.  `Wide` is x86_64 gcc, where `addl` changes the low half of a
64-bit `nWaiters` and a negative count reads as a large positive one.

Time is abstract: a finite wait may end at any moment, and its caller may find
its time elapsed at any test.  An infinite wait ends only with a token, or with
an error (`WaitFails`, at most `MaxFailures` times): `sem_wait` returns EINTR
when a signal arrives, and SuspendThread works by signals.  The semaphore refuses a
post at `MaxCount`, and then `PerfUnlock` throws.

### Runs

| run | instance | what it shows |
|---|---|---|
| CSWindows | `LockOwnership`, 3 threads, nested calls, all time-outs, maximum count 2 | no lost wake-up; no orphaned lock; Unlock never throws; one semaphore, there when it is used; IsLocked is not left set; the lock is shared only with who has been robbed of it |
| CSWindowsLive | `LockOwnership`, 2 threads, 1 spin, all time-outs, calls not nested, fairness | a sleeper is woken; a refinement of `OwnedLock` |
| CSGcc32 | 3 threads, stale exchange, finite waits, 1 failing wait, maximum count 1 | the balance of `nWaiters`, also when posts are refused; the bound on wake-ups |

`CSGcc32` turns deadlock checking off, because on that build an orphaned lock
really stops every thread (see CSGccOrphan.cfg).

Three threads are an owner, a waiter and a thread that comes in between; the
counts (`nWaiters` -1, a token nobody needs) all occur with three.  A maximum count
of 2 is the least that three threads may fill, so `UnlockNeverThrows` is checked
where it is tight.  The spin loop changes no shared state that the exchange
alone does not, so one spin is enough.  Threads are interchangeable, hence the
symmetry; the liveness run does not use it.

Fairness: a thread that can run does, and a caller that holds the lock releases it
(`WF` on `Run`: the steps inside Lock and Unlock and `CallUnlock`), and a semaphore
that is posted again and again does not pass over a sleeper for ever (`SF` on
`TakeToken`), as the kernels' queues ensure.  Nothing is assumed of time-outs,
failures or new calls.  That every caller gets the lock is not claimed: a thread
that is woken may lose the exchange each time.

A thread with nested calls may lock again for ever and never release, so the run with
fairness has none; that the refinement holds with them too is what the
theorem adds.

`CSMutualExclusion` is the run that refutes a promise: after the releasing exchange
PerfUnlock stores `m.nLocker = 0` again (CritSectEx.h:320); if another thread took
the lock in between, the store frees it and a third call succeeds, so that there
are two holders.

`LockOwnership.tla` says what is left of the promise.  Its history variable `robbed`
has the threads that will release the lock (they are to pass a flag of true to
Unlock, or are inside such an Unlock before its exchange) and whose id another
thread has removed from `m.nLocker`.  `SharedOnlyIfRobbed`: of two holders one has been
robbed.  `OwnedLock.tla` is the abstract specification: a lock that is taken when it is
free and given back by its owner, where a thread that has given it back frees it once
more, later, and so may rob its next owner; a robbed thread can free the lock of
somebody else in turn.  The refinement maps the owner to `m.nLocker`, the holders
to the threads that will release the lock, and `leaving` to those between the
exchange and the store.  It shows that nothing else in Lock, PerfLock and Unlock, in
particular no time-out, no spinning and no nesting, takes the lock from its owner.

The exchange that installs the semaphore returns a stale value on gcc like the
one that takes the lock (msemul.h:527): of two threads that allocate at once both
may keep their own, and one is never closed.  `OneSemaphore` is therefore checked
on the Windows build.

### Proofs

`CritSectExProofs.tla` proves, for every finite set of threads and every value of
the parameters, on the assumptions named in `CritSectEx.tla`:

| theorem | says | assumes |
|---|---|---|
| TypeCorrect | `[]TypeOK` | - |
| BalanceCorrect | `[]WaiterBalance` | - |
| WakeUpsCorrect | `[]WakeUpsBounded` | `~Wide` |
| UnlockCorrect | `[]UnlockNeverThrows` | `~Wide`, a maximum count of at least the other threads plus `MaxFailures` |
| NoStrandedCorrect | `[]NoStrandedWaiter` | the same |
| NoOrphanedCorrect | `[]NoOrphanedLock` | `~StaleCAS` |
| OneSemaphoreCorrect | `[]OneSemaphore` | `~StaleCAS` |
| IsLockedCorrect | `[]IsLockedHasLocker` | `~Wide`, a maximum count as above |
| SharedOnlyIfRobbedCorrect | `OwnerSpec => []SharedOnlyIfRobbed` | `~StaleCAS` |
| LockHasOwnerCorrect | `OwnerSpec => LockHasOwner`, the refinement | `~StaleCAS` |
| ExclusionWithoutLateStores | `OwnerSpec /\ StoresAreHarmless => []MutualExclusion` | `~StaleCAS` |

The argument.  `nWaiters` alone says nothing: it is changed by waiters that come,
give up or succeed, and by unlockers that take somebody off it before they post.
What is invariant is the *balance*: it equals the threads between their
WaiterPlus and the event that cancels it, less the wake-ups under way (tokens,
and unlockers about to post).  With `SiteOK`, which ties the call site of
PerfLockImmediate to the place of its thread, the balance is inductive; each
action changes both sides alike.  From it follows the bound on wake-ups: a new
one starts only where `nWaiters > 0` was seen, hence where counted threads
outnumber the wake-ups, and the unlocker is not one of them.  The bound gives
that posts have room, and so that no post fails and `lost` stays within
`MaxFailures`.  With that, the absence of lost wake-ups is inductive: an unlocker
that does not post saw `nWaiters <= 0`, so each thread about to sleep is matched
by a wake-up under way.  `NoOrphanedLock` needs another strengthening,
`ComparandOK`: the value the owner read for its releasing exchange is its own id.

`OneSemaphore` needs `SemaphoreInv`: the installed semaphore is open, nobody is
counted before there is one, and every other open semaphore belongs to a thread
that is about to install it or to close it again.  `IsLockedHasLocker` needs
`ClearingInv`: while the flag is set some thread owes an `Unlock(true)` or is inside
one before it clears the flag; posts have room, so that no exception skips the
clearing.

The three last theorems rest on `OwnershipInv`.  `OwnershipOK` is the statement itself,
made inductive: a thread that will release the lock and is not in `robbed` is the
value of `m.nLocker`, and owes one Unlock(true) only, the last of its nested ones.  It
needs `LastFlagTrue` (the outermost of a thread's pending flags is
true, because only an owner is told that it need not unlock), `NotOwnerYet` (who
calls Lock is not the owner before its exchange succeeds) and `ComparandOK` as above.
A lemma sorts the steps into nine kinds by what they do to `m.nLocker` and to the
flags (`OwnerMove`), and both the invariant and the steps of the refinement are
checked once for each kind.  `ExclusionWithoutLateStores` closes the circle of the
finding: in every behaviour in which the second store of each Unlock finds the lock
free, there is one holder at most.  `StoresAreHarmless` speaks of the store alone
(CritSectEx.h:320), so that removing that line would be enough.  On gcc (`StaleCAS`) a
successful exchange may be reported as a failure and `OwnershipInv` does not hold.

Only model-checked: liveness (`SleeperWakes`, which TLAPS cannot prove).

## MSSemaphore

The emulated semaphore is a POSIX semaphore with a count of its own beside it,
because not every platform can ask a semaphore for its value.  `MSSemaphore.tla`
has one action per access to that count.

| model | code |
|---|---|
| `sem` | the value of `d.s.sem` |
| `curCount`, `MaxCount` | `d.s.counter->curCount`, `d.s.counter->maxCount` |
| `reg`, `amount`, `target` | the value of `curCount` a thread read last, `lReleaseCount` on entry, and after `curCount` was added to it |
| `posts`, `clean` | auxiliary: the posts of a call; whether no two calls used the count at once so far |
| `CallRelease` ... `Loop` | `ReleaseSemaphore` (msemul.h:643-672) |
| `CallWait` ... `TakenWrite` | `WaitForSingleObject` on a semaphore (msemul.cpp:445-451, 586-608) |

The count is not volatile: where an expression reads it a second time, the
compiler may use what it read before, so `Reread` offers both values.  `sem_post`
does not fail in the model: it does so only at `SEM_VALUE_MAX`.  The bounds are
`MaxReleases` and `MaxTakes`, the calls of each kind.

| run | instance | what it shows |
|---|---|---|
| MSSemClean | 2 threads, releases of 1 and 2, maximum 3, 3 calls of each kind | while calls do not overlap, the count is the value of the semaphore, the maximum is kept, and releases are exact |

Once calls overlap nothing bounds the error: a wait that falls between the post and the
addition sees 0, takes nothing off, and leaves the count too high for good; other
orders leave it too low.  That matters for CritSectEx on gcc: a count that is too high
makes posts fail (the refused posts of `CSGcc32`), and one post too many is
a wake-up nobody needs, which the lock survives; MutexEx on a Mac, a semaphore
that starts at 1, does not.

`MSSemaphoreProofs.tla` proves, on the assumptions of `MSSemaphore.tla` alone:

| theorem | says |
|---|---|
| SemTypeCorrect | `[]TypeOK` |
| CleanExactCorrect | `[]CleanExact` |

`CleanExact` speaks of the states between calls; inside a call the count lags
behind.  The inductive `CleanInv` says by how much: while no calls have
overlapped, at most one thread is past its first access to the count, and its
place (`Alone`) determines the difference between the count, the semaphore, the target
and the posts done.  A second thread that starts ends `clean`, so each step of
the lone thread is checked against its own place only.

## MSEvent

An emulated event is a flag that `_InterlockedSetTrue` and `_InterlockedSetFalse`
change, and a condition variable with its mutex.  `MSEvent.tla` has one action per
access.

| model | code |
|---|---|
| `isSignalled` | `d.e.isSignalled`: the bits that `addl` changes, `Modulus` of them standing for 2^32 |
| `Wide` | x86_64 gcc: a `long` of 64 bits, in which a -1 of 32 bits is positive |
| `mutex`, `queue` | `d.e.mutex` and who sleeps on `d.e.cond` |
| `isManual` | `d.e.isManual`, either of its values from the start |
| `calm` | auxiliary: whether a SetEvent has met no clearing |
| `CallSet`, `SetTest`, `SetInc`, `Signal` | `SetEvent`, `_InterlockedSetTrue` (msemul.h:689-696, 718-730) |
| `CallReset`, `Clear` ... `ClearInc` | `ResetEvent`, `_InterlockedSetFalse` (msemul.h:702-716, 732-743) |
| `CallWait` ... `UnlockMutex` | `WaitForSingleObject` on an event (msemul.cpp:512-547, 629-656) |

Setters, resetters and waiters are different threads, as in the library's own use
of events; a waiter of an auto-reset event also clears.  A wait may time out
whenever it sleeps.  Spurious wake-ups of the condition variable and errors of
the pthread calls are left out; both would only add to the disagreements below.  The
`Modulus` of EvRaces, 20, is within `Room` (below), so that nothing wraps there
that does not wrap with 2^32.

| run | instance | what it shows |
|---|---|---|
| EvRaces | `EventWakeUps`, 2 setters, 2 resetters, 2 waiters | an undisturbed SetEvent leaves the event set; the errors of racing operations do not add up; a wake-up is lost in one window only |

`FlagBounded` is the statement that matters for the repair of a race: whatever
overlaps, once the clearings have ended the flag is neither negative nor larger
than the number of setters, so that the error is gone after the next reset.  It
says no more than that: a ResetEvent that has returned may still be undone by
another one that read the flag earlier.

A SetEvent can miss a waiter (known disagreements, below).  `EventWakeUps.tla` extends
MSEvent by a history variable `missed`: the waiters that found the flag clear and had
not reached `pthread_cond_wait` when the event was signalled.  `SleepsOnlyIfMissed`
says that these are the only ones that sleep on a set event, once nobody is at work on it
(`Settled`: no call is clearing the flag or about to signal, and of an auto-reset
event nobody is awake who will reset it).  Two waiters are needed to tell a
broadcast from a signal.

`MSEventProofs.tla` proves, for every finite set of threads:

| theorem | says | assumes |
|---|---|---|
| EventTypeCorrect | `[]TypeOK` | - |
| FlagBoundedCorrect | `[]FlagBounded` | `~Wide`, at least one setter, `Room` |
| SetSticksCorrect | `[]SetSticks` | the same |
| SleepsOnlyIfMissedCorrect | `WakeUpSpec => []SleepsOnlyIfMissed` | - |
| NoWakeUpLostOutsideTheWindow | the same with nobody asleep at all | every SetEvent signals while no waiter is in the window |

`Room` says that the flag has more values than twice the threads and setters
together, plus two, as 2^32 has; without it the arithmetic wraps, and with `Wide` it
does so at once (EvWide.cfg).  The argument counts the changes that are decided on
but not yet made.  Every addition is by a thread that saw the flag at most 0 (a
setter) or below 0 (a clearing), every subtraction by a clearing that saw it above
0.  `UpperOK` bounds a positive flag plus the additions to come by the setters plus
the clearings under way, `LowerOK` a negative flag plus the subtractions to come
by the clearings; when the last clearing ends only the setters are left.  A lemma
sorts the steps into those that add, subtract, decide or do neither, and the two
bounds are checked once for each kind.  For `SetSticks`, `CalmOK` adds that while a
SetEvent stays calm no clearing is under way, so nothing subtracts, and that
after its test or its addition the flag is positive.

`SleepsOnlyIfMissed` needs no arithmetic, and so holds for `Wide` too.  `WakeUpOK`
extends it to the waiters on their way to sleep, who do not look at the flag again,
and `QueueOK` says that who is on the condition variable is asleep.  A step that
leaves a set event settled either found it so and puts nobody new on the way to
sleep, or is the signal, after which only those are left whom `missed` records; a step
of a clearing leaves its own thread at work.

## ThreadHandle

`ThreadHandle.tla` is one thread behind a HANDLE, as the emulation makes it outside
Mac OS X: a POSIX thread, a record of its own (`pthread_timed_t`) that lets others
wait for its end with a time limit, and a mutex, here the *gate*, that suspends it.
Whoever suspends the thread locks the gate and sends SIGUSR2; the thread locks the
gate in its handler and so waits until the gate is unlocked.

| model | code |
|---|---|
| `life`, `registered` | the HANDLE and its place in the list of open HANDLEs |
| `gate`, `suspendCount` | `d.t.threadLock`, `d.t.suspendCount` |
| `joinable`, `pThread`, `tt` | what pthreads know; `d.t.pThread # NULL`; the record `d.t.theThread` |
| `wpc`, `signal`, `inHandler`, `cancelled` | the thread: its place, SIGUSR2 pending, in the handler, `pthread_cancel` called |
| `code`, `timedOut` | auxiliary: what the thread ended with; whether some wait on it timed out |
| `StartWorker`, `CallCreate`, `CreateDone` | `pthread_create_suspendable`, `CreateThread` and the constructor (msemul.cpp:1293-1434) |
| `TakeGate`, `DropGate`, `Deliver`, `LeaveHandler` | `ThreadFunStart`, `pthread_u2_handler`, `ThreadSuspender` (msemul.cpp:1222-1282) |
| `Announce`, `BeCancelled`, `Exit` | `pthread_timedexit`, `threadCancelHandler` (msemul.cpp:1024-1042, 1076-1094) |
| `CallSuspend` ... `ResumeUnlock` | `SuspendThread`, `ResumeThread` (msemul.cpp:1436-1494) |
| `CallTimed` ... `JoinTimeOut` | `pthread_timedjoin` in a finite wait (msemul.cpp:1143-1199) |
| `CallJoin`, `JoinDone` | an infinite wait (msemul.cpp:657-670) |
| `CallGetExitCode`, `CallTerminate`, `JoinReturn`, `Sigterm`, `SetForced` | `GetExitCodeThread`, `TerminateThread` (msemul.h:432-482) |
| `CallClose`, `CloseJoin`, `CloseFree` | `CloseHandle`, `~MSHANDLE` (msemul.cpp:1769-1827) |

Everything under the mutex of the record is one step.  The signal of the exit wakes
one sleeper, any of them.  Where a C library may answer either way, as
`pthread_kill` may for a thread that has ended, both answers are in the model.  SIGTERM, the last resort of
TerminateThread, ends the whole process, since the library installs no handler for
it: `killed`.

Any number of callers wait for the thread and read its exit code.  One of them, the
controller, also suspends, resumes, terminates and closes it; that two threads do so
at once is not modelled, and nobody uses a HANDLE that is being closed.

| run | instance | what it shows |
|---|---|---|
| THandle | 2 callers, a suspend count of up to 2, a TerminateThread that waits twice | no exit code is believed too early or lost; the gate follows the count; an exit wakes somebody; CloseHandle waits; who is resumed goes on |

Two callers are the controller and one that waits beside it; with two a signal that
wakes one of several sleepers matters.  A count of 2 distinguishes a nested from a
first suspension, and two waits are enough for the loop of TerminateThread to
repeat.

Fairness: the thread's own steps and calls in progress go on, and time-outs elapse;
nothing is assumed of the start routine or of new calls.  `ResumedRuns` is
claimed of a thread in its routine.  Before it gets there SIGUSR2 may arrive while
`ThreadFunStart` has the gate (a resume and a suspend, and another resume before the
signal is delivered), and then the thread waits for itself for good
(ThreadSelfWait.cfg).

`StatusKept` is claimed of threads that were created suspended: a thread that is not and
that ends at once has its exit code overwritten by the constructor
(msemul.cpp:1373).  `CloseIsClean` is claimed while no wait has timed out: a
timed wait detaches the thread, and then CloseHandle can no longer join it.

`ThreadProofs.tla` proves, for any callers, exit codes, depth of suspensions and
number of waits in TerminateThread:

| theorem | says |
|---|---|
| HandleTypes | `[]TypeOK` |
| NullMeansEnded | `[]JoinedHasEnded` |
| StatusIsKept | `[]StatusKept` |
| GateFollowsCount | `[]GateMatchesCount` |
| ExitWakes | `[]ExitWakesOne` |
| CloseHandleIsClean | `[]CloseIsClean` |

The inductive `HandleInv` joins four parts to the types and to the properties that are
inductive beside them.  `LifeOK` says which calls can be in progress in which state of
the HANDLE: one that creates or closes it is alone.  `RecordOK` ties the record's
flags, `pThread` and `joinable` to the thread's end, in states in which the
HANDLE is opening too, where the properties say nothing.  `GateOK` adds to
`GateMatchesCount` what holds inside the controller's calls, between a change
of the count and the step that locks or unlocks the gate.  `JoinOK` says that a join
that pthreads have under way, or a detached thread nobody's wait on which has timed
out, has its caller, so that CloseHandle, which finds nobody else at the HANDLE, can
rely on the join.  `ResumedRuns` is only model-checked.

## WorkerThread

`WorkerThread.tla` extends ThreadHandle by the Thread class: a method of the class that
works on the HANDLE takes the HANDLE's own steps, so that the composition has all
interleavings of the owner's method, the HANDLE's operations and the worker.

| model | code |
|---|---|
| `epc` | the worker's place in `EntryPoint` and `StartLocks::Wait` (Thread.cpp:239-298, Thread.hpp:392-425) |
| `mpc`, `site`, `force`, `destroying` | the owner's place in a method, and for whom Continue runs |
| `isLocked`, `isNotified`, `lockEvent` | `startLock` (Thread.hpp:352-380) |
| `suspendOption`, `isSuspended`, `hasBeenStarted`, `threadShouldExit` | the fields of Thread |
| `hThread`, `dwExitCode`, `bExitCodeSet` | `m_ThreadCtx` |
| `Start...` | `Start` (Thread.cpp:300-342) |
| `CallContinue`, `Continue...`, `Notify`, `NotifyEvent` | `Continue`, `StartLocks::Notify` (Thread.cpp:344-362, Thread.hpp:381-391) |
| `Suspend`, `SuspendDone`, `Join`, `JoinEnds`, `GetExitCode`, `ExitCodeRead` | the methods of these names (Thread.cpp:364-395, 452-468) |
| `CallStop` ... `Stopped`, `Destroy` | `Stop`, `~Thread` (Thread.cpp:217-237, 397-450) |

The owner calls one method at a time, and an object is used once: a second Start
after Stop is not modelled.  The event of the start lock is a flag here; the wake-up
that MSEvent shows can be missed is made up for by StartLocks::Wait itself, which
waits in slices of 0.1 s and looks at `isNotified` after each.

| run | instance | what it shows |
|---|---|---|
| Worker | `ExitCodes`, one owner, three sets of synchronisation points, a suspend count of up to 2, one wait in TerminateThread | synchronisation points hold and let go; the object outlives its worker; it knows when the worker is suspended; it keeps the worker's exit code but for one race |

The sets are none, one with both points before the worker's own work, and one with
both points around it, so that each point occurs with and without its neighbour.

Fairness: the worker, the methods and the HANDLE's operations go on; `Run` need not
return, and nobody need call a method.  `ContinueReleases` follows a Continue that
has found its worker at a synchronisation point.

The exit code has two writers.  The worker stores what `Run` returned and then sets
`m_bExitCodeSet` (Thread.cpp:271-275); Stop and GetExitCode test that flag and then store
what the HANDLE has, which is STILL_ACTIVE while the worker runs (Thread.cpp:415-418,
452-468), and the worker returns `m_dwExitCode`, whatever it holds by then.
`ExitCodes.tla` extends WorkerThread by what Run returned, `result`, and by
`raced`: the owner has been between its test and its store while the worker was
between its two stores.  `ExitCodeSurvives`: unless that happened, the object keeps
`result` until a Stop(true) has ended, and the worker ends with it.

`ThreadProofs.tla` proves for any set of synchronisation points, exit codes, depth of
suspensions and number of waits in TerminateThread:

| theorem | says |
|---|---|
| ThreadTypes | `[]ThreadTypeOK` |
| WaitersAreNotified | `[]SyncPointsHold` |
| DestructorStops | `[]ObjectOutlivesWorker` |
| SuspendedHasCount | `[]SuspendedIsTrue` |
| ResultIsKept | `CodeSpec => []ExitCodeSurvives` |

Since every method takes the HANDLE's own steps, `HandleInv` carries over, and
`WorkerInv` adds to it what a method knows at each of its places: which call of the
HANDLE it is in (`OwnerOK`); what the results Stop has read say of the worker, so that
it closes the HANDLE only of one that has ended or goes with the process (`StopOK`); when
the object has a HANDLE (`LinkOK`); when `isSuspended` can be believed (`SuspendOK`);
that a set flag or event has been notified (`NotifiedOK`).  `CodeInv` adds for
`ResultIsKept` that a code that has been stored is flagged once the worker has gone
on, and that an owner which is about to store over it has raced (`StoresOK`); that an
object which has lost its HANDLE to Stop(true) has no worker that could still end with the
code Stop gave it, for which `StopOK` is needed (`ForceOK`); and that a worker has no
code before it ends (`UnendedOK`).  `ContinueReleases` is only model-checked.

## HandleRegistry

`HandleRegistry.tla` is what the emulation knows of all HANDLEs: the list of open
HANDLEs, the list of semaphores, in which OpenSemaphore looks for a name, and the
sources and copies of semaphores.  A copy shares the counter of its source.

| model | code |
|---|---|
| `status`, `type`, `openList` | the HANDLEs, `theOpenHandleList` |
| `name`, `sem`, `source`, `refs`, `drained` | of a semaphore: name, `sem_t`, `counter->refHANDLEp`, `refHANDLEs`, `curCount = 0` |
| `semaList`, `scan`, `linked` | `theSemaList`, a scan of it, the names the kernel knows |
| `current` | the HANDLE `GetCurrentThread` keeps under `currentThreadKey` |
| `OpenCopy`, `CreateSource`, `CreatePlain`, `GetCurrentThread` | the constructors (msemul.cpp:773-986, 1384-1412) |
| `AddSemaListEntry`, `RemoveSemaListEntry`, `FindSemaphoreHANDLE` | the functions of these names (msemul.cpp:709-771) |
| `RegisterHANDLE`, `UnregisterHANDLE` | the functions of these names (msemul.cpp:1646-1707) |
| `CloseSemaphore`, `ClosePlain`, `ForceCloseHandle` | `CloseHandle`, `~MSHANDLE`, the destructor of `currentThreadKey` (msemul.cpp:1709-1840) |
| `Exit`, `FreeNext`, `FreeDone` | `FreeAllSemaHandles`, in the one thread that is left (msemul.cpp:676-707) |

A section under the lock of a list is one step; a turn of the loop of
RemoveSemaListEntry is one, because the lock is released between turns.  Callers
take turns on one name and on one HANDLE; otherwise they run freely.

| run | instance | what it shows |
|---|---|---|
| Handles | 3 HANDLEs, 2 callers, 2 names | the registry is exact; counters outlive copies; the list of semaphores is true; the clean-up at exit ends |

Three HANDLEs make two sources with different names, one behind the other in the
list, or a source with two copies.

What is claimed has two premises, both kept as auxiliary variables.  `raced`: the
removals of two threads have crossed in the list, one shifting the entries under the
other's scan; an entry may then survive its HANDLE.  `copyClosed`: a copy has been
closed; the removal then takes the first entry with the `sem_t` of the copy, which is
that of its source, and later opens by name do not find the source.

`HandleRegistryProofs.tla` proves, for every set of callers, HANDLEs and names:

| theorem | says |
|---|---|
| RegistryTypeCorrect | `[]TypeOK` |
| RegistryExactCorrect | `[]RegistryExact` |
| CountersCorrect | `[]CountersOutliveCopies` |
| ListTrueCorrect | `[]ListTrue` |

The invariant `RegistryInv` has five parts beside the properties.  `Control` says
who is at which HANDLE and in which state that is; `Forms` that a `sem_t` belongs to
one name and copies refer to sources; `Listed` that the list has sources only, and
one for a `sem_t`; `Uncrossed` what a scan knows of the entries it has passed, as long as
nothing has crossed; `Sources` that until a copy is closed every source is in the
list.  `ExitEnds` is only model-checked.

## ScopedLock

`ScopedLock.tla` models the classes around the lock, CritSectEx::Scope, CritSectRec,
CritSect and MutexEx, with their scopes.  For CritSectEx it takes what Lock and
Unlock promise: one owner; an owner that locks again gets no unlock flag.  That is
what `LockHasOwnerCorrect` shows of the Windows build as long as nobody is robbed,
which is what the finding of CSMutualExclusion is about.  A MutexEx on a system whose mutexes have a timed wait is a kind of its own,
`TimedMutexEx`: only there can a wait time out.

| model | code |
|---|---|
| `owner`, `depth`, `nest`, `isLocked`, `timedOut` | the lock: its owner, how often it is locked, `m_nRecursion`, `m.bIsLocked`, `m.bTimedOut` |
| `scope` | of each scope whether it exists, `m_bLocked` and `m_bUnlockFlag` |
| `MakeScope`, `LockScope`, `UnlockScope`, `ResetScope` | the Scope classes (CritSectEx.h:477-551, 643-748, 872-971, 1250-1319) |
| `LockAgain`, `LockFree`, `LockFails` | `CritSectEx::Lock` (CritSectEx.h:377-400) |
| `EnterRec`, `LeaveRec` | `CritSectRec::Enter`, `Leave` (CritSectEx.h:608-639) |
| `EnterMutex`, `MutexTimesOut`, `Inc`, `Dec`, `SetFlag`, `Free` | `MutexEx::PerfLock`, `PerfUnlock`, `Lock`, `Unlock` (CritSectEx.h:1029-1124, 1175-1194), `CritSect` (782-855) |

`m.bIsLocked += 1` is a load and a store, and the decrement comes after the mutex has
been released, so that the updates of two threads can cross (`crossed`).

| run | instance | what it shows |
|---|---|---|
| Scopes | 2 threads, 2 scopes each, all kinds of lock, counts modulo 4, a mutex entered up to 3 times | a refinement of `ReentrantLock`; no scope says it is locked when it is not; nothing is left locked; the counts are right |

Two scopes nest and can be unlocked in the wrong order; a third entry without
release occurs on a MutexEx whose flag was lost to a time-out.

`ReentrantLock.tla` is the abstract specification: a set of scopes that hold the
lock, all of one thread.  The refinement maps it to the scopes that will release the
lock.  `ScopedLockProofs.tla` proves, for all threads, scopes, kinds and widths:

| theorem | says |
|---|---|
| ScopesImplementLock | `Spec => ScopesAreALock`, the refinement |
| LockedScopesOwn | `[]LockedIsTrue` |
| LockNeverLeaked | `[]NothingLeaked` |
| RecursionAgrees | `[]RecursionAsserted` |
| ScopedTypes | `[]TypeOK` |
| CountIsExact | `[]CountIsDepth` |

The invariant `ScopeInv` is a balance: the lock is held once for each scope that will
release it, as each class counts it (`Level`), so that it becomes free exactly when
the last such scope goes.  `CountInv` says how far the count of a MutexEx lags behind
its depth: by one for a thread that counts up, who is the owner, and by one for
a thread that counts down; there is at most one of each while updates have not crossed.

## SharedValue

`SharedValue.tla` models objects, the cells of shared memory they point to, and the
operations on them.

| model | code |
|---|---|
| `value`, `freeMemory`, `master`, `copies` | the fields of SharedValue (Thread.hpp:637-657) |
| `lock` | the object as a CritSectEx |
| `MakeEmpty`, `Make`, `Copy`, `AssignToEmpty`, `Destroy` | constructors, `operator=`, destructor (Thread.hpp:677-761, 877-892) |
| `Begin`, `Enter`, `TimeOut`, `Use`, `Store`, `Leave` | `Value`, `Read`, `operator=`, `operator+=` and the like (Thread.hpp:763-871, 945-996) |
| `EnterOther`, `LoadOther`, `LeaveOther` | the second lock of `=`, `==`, `!=` between two objects (Thread.hpp:877-944) |
| `SetValues` | `SharedArray::SetValues`, which moves the memory (Thread.hpp:1088-1133) |

The list of copies has no lock, so that construction, copying and destruction are
single steps and callers owe what the module's heading says: no object is destroyed
in use, nor a master while a copy of it is in use.

| run | instance | what it shows |
|---|---|---|
| SharedValues | 3 objects, 2 cells, 2 threads, 2 values | masters and copies know each other; each cell has one object that frees it; updates through the master are not lost; only crossings block |

Three objects are a master and two copies, or a copy of a copy; two cells are needed
to move memory; two threads to cross.

`SharedValueProofs.tla` proves the four properties and the types for every set of
objects, cells and threads (CopiesKnownCorrect, CellsOwnedCorrect,
UpdatesAtomicCorrect, OnlyCrossingsBlockCorrect, SharedTypeCorrect).  `SharedInv`
says that a master, its copies and their cell belong together (`Families`,
`Owners`), and which lock each operation has at each place (`Locks`): from the two
follows that only `stray` cells, those changed through a copy or after a time-out,
have two writers.

## ThreadPriority

The seven levels of Windows against the priorities of a POSIX policy.  `SchedPriority`
and `ThreadPriorityOf` are the two conversions (msemul.cpp:1524-1594), `GetRead` and
`Adjust` GetThreadPriority, which moves the thread to the priority its level stands
for, `SetCopied` and `SetThreadPriority` the setter.

| run | instance | what it shows |
|---|---|---|
| Priority | 2 threads, 2 callers, every policy with priorities in 0 .. 7 | copying a priority gives identical ones; reading does not make one drift |

`ThreadPriorityProofs.tla` proves both for every policy whose range has neither five nor
six priorities, with no bound on the priorities but `MaxPriority` itself
(CopiesAreIdentical, ReadingIsStable, PriorityTypeCorrect).  A level reads as itself
again: ranges of up to eight priorities are told one by one (`SmallStable`), in
larger ones the borders between the levels are far enough apart (`Marks`).

## Known disagreements

What the code does differently from what a comment says or from what one would
expect.  The first is a run that TLC refutes; those with a cfg file beside the runs are
refuted by `tlc -config <cfg>` on the module named, in seconds.

| where | what | shown by |
|---|---|---|
| CritSectEx.h:320 | two threads hold the lock: the store of 0 after the releasing exchange | run CSMutualExclusion; by nothing else: ExclusionWithoutLateStores |
| CritSectEx.cpp:89 | an infinite Lock returns false, because another caller's time-out has set `m.bTimedOut`; CritSectEx.h:442-443 | CSInfiniteLock.cfg, MCCritSectEx |
| msemul.h:575 | on x86_64 gcc a negative `nWaiters` reads as 2^32 - 1, and Unlock posts until it throws | CSGcc64Unlock.cfg, MCCritSectEx |
| msemul.h:502 | a compare-and-exchange that succeeded reports failure: nobody owns the lock, nobody gets it | CSGccOrphan.cfg, MCCritSectEx |
| msemul.h:655 | a ReleaseSemaphore that overlaps another one posts more often than asked, or less | MSSemPosts.cfg, MCMSSemaphore |
| msemul.cpp:639 | SetEvent's signal falls between a wait's test and its sleep: the waiter sleeps on a set event | EvLostWakeUp.cfg, MCMSEvent; by nothing else: SleepsOnlyIfMissedCorrect |
| msemul.h:705 | on x86_64 gcc ResetEvent leaves a flag that was negative set | EvWide.cfg, MCMSEvent |
| msemul.cpp:1232 | a thread that is suspended again just as it starts may wait for its own gate | ThreadSelfWait.cfg, MCThreadHandle |
| Thread.cpp:370 | Thread::Suspend takes a previous count of 0 for a failure; the worker is suspended, `isSuspended` is not, and Stop, which "unlocks the worker if it is suspended" (Thread.hpp:217), leaves it so | WorkerStop.cfg, MCWorkerThread |
| CritSectEx.h:1179 | `MutexEx::m.bTimedOut` stays set: after one time-out all later calls report that there is nothing to unlock | premises of `LockedIsTrue`, `NothingLeaked` |
| msemul.cpp:1578 | with five or six priorities a level does not read as itself, and a thread drifts each time its priority is read | premise `LevelsApart` |
| msemul.cpp:732, 740 | removals from the list of semaphores that cross, and the removal of a source's entry with its copy | premises `raced`, `copyClosed` |
| msemul.cpp:1373 | the exit code of a thread that was not created suspended is overwritten | premise `startedAs` of `StatusKept` |
| Thread.cpp:416 | Stop, or GetExitCode (457), stores STILL_ACTIVE over the code that Run has just returned, and the worker ends with it | premise `raced` of `ExitCodeSurvives` |
| msemul.cpp:1167 | a timed wait detaches the thread for good: later joins fail, its HANDLE stays registered | premise `timedOut` of `CloseIsClean` |

## Not modelled

- NSCriticalSection (wrappers), the timer (clock reads; elapsed time is a
  nondeterministic choice above), the test programs and build files.
- The shared-memory allocator (msemul.cpp:100-348) and the shared-memory variant of
  the emulation on Windows (msemul.cpp:1944-2143): one critical section around the
  calls of the system and a map of sizes.  What SharedValue needs of it, that a cell
  is not handed out twice, is a guard of `Make` and `SetValues`.
- Of Thread: the Windows build's `Cancel` and `HandleCancel` (Thread.cpp:466-527), which
  change the instruction pointer of a suspended thread; a second Start of an
  object; BackgroundFunction, which has one method of its own; back traces.
- Of the thread HANDLE: two controllers at once, and the build for Mac OS X, which
  suspends with Mach calls.
- Spurious wake-ups of condition variables, and failing pthread calls where the code does
  not look at the result.
- `Scope::Lock(cs2)`, which moves a scope to another lock: an unlock, and a lock of a
  new scope.  The cached `IsLocked` of the C interface, which nothing reads.
- The time-outs of 5 s some builds give the locks of the library's own lists.
- Sizes and indices of SharedArray.
- SetSpinMax on a lock in use and destroying a lock somebody waits for are outside the
  protocol the library's users follow.
- Weak memory: every access takes effect in program order, as on x86 for the accesses
  concerned, which are volatile and separated by locked instructions.  The one store
  that is not, `m.nLocker = 0` after the releasing exchange, is the subject of the
  finding: a store buffer can only delay it further.
