----------------------------- MODULE CritSectEx -----------------------------
(***************************************************************************)
(* The CritSectEx critical section: a lock word claimed by compare-and-    *)
(* exchange, backed by a spin loop and then by a kernel semaphore.  Every  *)
(* access to a shared field of CritSectEx::m is a step of its own, so that *)
(* the interleavings of Lock and Unlock calls are those of the program.    *)
(***************************************************************************)
EXTENDS Integers, Sequences, FiniteSets

CONSTANTS
    Threads,      (* the threads that share one CritSectEx                  *)
    NoThread,     (* the 0 of m.nLocker and the NULL of m.hSemaphore        *)
    SpinMax,      (* m.dwSpinMax                                            *)
    Timeouts,     (* the dwTimeout classes that callers use                 *)
    MaxNest,      (* bound: Lock calls a thread has not yet paired          *)
    MaxFailures,  (* bound: WaitForSingleObject calls that fail             *)
    MaxCount,     (* the maximum count of the kernel semaphore              *)
    StaleCAS,     (* the gcc emulation: the value that a compare-and-       *)
                  (* exchange returns is read before the exchange           *)
    Wide          (* the x86_64 gcc build: addl changes the low 32 bits of  *)
                  (* a 64-bit nWaiters, so that -1 is read as 2^32 - 1      *)

TimeoutClasses == {"zero", "finite", "infinite"}

ASSUME ThreadsAssumption ==
    /\ IsFiniteSet(Threads)
    /\ Threads # {}
    /\ NoThread \notin Threads

ASSUME ParameterAssumption ==
    /\ SpinMax \in Nat
    /\ Timeouts \subseteq TimeoutClasses
    /\ MaxNest \in Nat
    /\ MaxFailures \in Nat
    /\ MaxCount \in Nat
    /\ StaleCAS \in BOOLEAN
    /\ Wide \in BOOLEAN

VARIABLES
    nLocker,      (* m.nLocker: the id of the owner, or 0                   *)
    nWaiters,     (* m.nWaiters, as the signed value of its low 32 bits     *)
    bIsLocked,    (* m.bIsLocked                                            *)
    bTimedOut,    (* m.bTimedOut                                            *)
    hSemaphore,   (* m.hSemaphore: the thread that created it, or NULL      *)
    handles,      (* the semaphores open in the kernel, by their creators   *)
    tokens,       (* the count of the semaphore m.hSemaphore                *)
    pc,           (* the next shared access of each thread                  *)
    site,         (* the PerfLockImmediate call a thread is in              *)
    old,          (* the value read before an exchange                      *)
    spin,         (* dwSpin                                                 *)
    tmo,          (* dwTimeout                                              *)
    flags,        (* the unlock flags of the Lock calls that returned true  *)
                  (* and are not yet paired with an Unlock, latest first    *)
    lost          (* auxiliary: waiters that a WAIT_FAILED exception left   *)
                  (* counted, less the posts that failed                    *)

word     == <<nLocker, bIsLocked, bTimedOut>>
sema     == <<hSemaphore, handles>>
counts   == <<nWaiters, tokens, lost>>
locals   == <<site, spin, tmo>>
vars     == <<word, sema, counts, locals, old, pc, flags>>

PCs == {"idle", "test", "casRead", "casXchg", "casWon", "spin",
        "alloc", "allocRead", "allocXchg", "enter", "plus", "check", "wait",
        "minusTrue", "minusFalse", "release", "relXchg", "relStore", "relCheck", "relMinus",
        "relPost", "relDone"}

Sites == {"try", "spin", "kernel"}

-----------------------------------------------------------------------------

Init ==
    /\ nLocker = NoThread
    /\ nWaiters = 0
    /\ bIsLocked = FALSE
    /\ bTimedOut = FALSE
    /\ hSemaphore = NoThread
    /\ handles = {}
    /\ tokens = 0
    /\ pc = [t \in Threads |-> "idle"]
    /\ site = [t \in Threads |-> "try"]
    /\ old = [t \in Threads |-> NoThread]
    /\ spin = [t \in Threads |-> 0]
    /\ tmo = [t \in Threads |-> "zero"]
    /\ flags = [t \in Threads |-> <<>>]
    /\ lost = 0

At(t, label) == pc[t] = label

Goto(t, label) == pc' = [pc EXCEPT ![t] = label]

(* The first step of a compare-and-exchange: the emulation reads the        *)
(* destination first, the intrinsic of Windows has nothing to read.        *)
CASEntry   == IF StaleCAS THEN "casRead" ELSE "casXchg"
AllocEntry == IF StaleCAS THEN "allocRead" ELSE "allocXchg"

(* Mutant of CASResult: the value after the exchange is returned.          *)
CASResultAfter(t, destination) ==
    IF destination = NoThread THEN t ELSE destination

(* The value the compare-and-exchange of t returns.                        *)
CASResult(t, destination) == IF StaleCAS THEN old[t] ELSE destination

(* Lock returns true, with bUnlockFlag = flag.                             *)
UnlockFlags == {"true", "false"}

ReturnLocked(t, flag) ==
    /\ flags' = [flags EXCEPT ![t] = <<flag>> \o @]
    /\ Goto(t, "idle")

ResetLocals(t) ==
    /\ site' = [site EXCEPT ![t] = "try"]
    /\ spin' = [spin EXCEPT ![t] = 0]
    /\ tmo'  = [tmo  EXCEPT ![t] = "zero"]

-----------------------------------------------------------------------------
(* CritSectEx::Lock                                                        *)

(* The caller owns the lock word already: bUnlockFlag = false.             *)
LockAgain(t) ==
    /\ At(t, "idle")
    /\ Len(flags[t]) < MaxNest
    /\ nLocker = t
    /\ ReturnLocked(t, "false")
    /\ UNCHANGED <<word, sema, counts, old, locals>>

CallLock(t) ==
    /\ At(t, "idle")
    /\ Len(flags[t]) < MaxNest
    /\ nLocker # t
    /\ bTimedOut' = FALSE
    /\ \E d \in Timeouts : tmo' = [tmo EXCEPT ![t] = d]
    /\ Goto(t, "test")
    /\ UNCHANGED <<nLocker, bIsLocked, sema, counts, site, old, spin, flags>>

(* Lock returns false when the first attempt failed and dwTimeout is 0;    *)
(* otherwise it goes on to PerfLock.                                       *)
FirstAttemptFailed(t) ==
    IF tmo[t] = "zero"
    THEN Goto(t, "idle") /\ ResetLocals(t)
    ELSE Goto(t, "spin") /\ UNCHANGED locals

Test(t) ==
    /\ At(t, "test")
    /\ IF nLocker = NoThread
       THEN Goto(t, CASEntry) /\ UNCHANGED locals
       ELSE FirstAttemptFailed(t)
    /\ UNCHANGED <<word, sema, counts, old, flags>>

-----------------------------------------------------------------------------
(* CritSectEx::PerfLockImmediate, called from Lock, PerfLock and           *)
(* PerfLockKernel                                                          *)

CASRead(t) ==
    /\ At(t, "casRead")
    /\ old' = [old EXCEPT ![t] = nLocker]
    /\ Goto(t, "casXchg")
    /\ UNCHANGED <<word, sema, counts, site, spin, tmo, flags>>

CASFailed(t) ==
    CASE site[t] = "try"    -> FirstAttemptFailed(t)
      [] site[t] = "spin"   -> /\ spin' = [spin EXCEPT ![t] = @ + 1]
                               /\ Goto(t, "spin")
                               /\ UNCHANGED <<site, tmo>>
      [] site[t] = "kernel" -> Goto(t, "check") /\ UNCHANGED locals

CASXchg(t) ==
    /\ At(t, "casXchg")
    /\ nLocker' = IF nLocker = NoThread THEN t ELSE nLocker
    /\ old' = [old EXCEPT ![t] = NoThread]
    /\ IF CASResult(t, nLocker) = NoThread
       THEN Goto(t, "casWon") /\ UNCHANGED locals
       ELSE CASFailed(t)
    /\ UNCHANGED <<bIsLocked, bTimedOut, sema, counts, flags>>

CASWon(t) ==
    /\ At(t, "casWon")
    /\ bIsLocked' = TRUE
    /\ \/ /\ site[t] # "kernel"
          /\ ReturnLocked(t, "true")
          /\ ResetLocals(t)
       \/ /\ site[t] = "kernel"
          /\ Goto(t, "minusTrue")
          /\ UNCHANGED <<locals, flags>>
    /\ UNCHANGED <<nLocker, bTimedOut, sema, counts, old>>

-----------------------------------------------------------------------------
(* CritSectEx::PerfLock and AllocateKernelSemaphore                        *)

Spin(t) ==
    /\ At(t, "spin")
    /\ \/ /\ spin[t] < SpinMax
          /\ site' = [site EXCEPT ![t] = "spin"]
          /\ Goto(t, CASEntry)
       \/ /\ spin[t] >= SpinMax
          /\ Goto(t, "alloc")
          /\ UNCHANGED site
    /\ UNCHANGED <<word, sema, counts, old, spin, tmo, flags>>

Alloc(t) ==
    /\ At(t, "alloc")
    /\ \/ /\ hSemaphore # NoThread
          /\ Goto(t, "enter")
          /\ UNCHANGED handles
       \/ /\ hSemaphore = NoThread
          /\ handles' = handles \cup {t}
          /\ Goto(t, AllocEntry)
    /\ UNCHANGED <<word, hSemaphore, counts, old, locals, flags>>

AllocRead(t) ==
    /\ At(t, "allocRead")
    /\ old' = [old EXCEPT ![t] = hSemaphore]
    /\ Goto(t, "allocXchg")
    /\ UNCHANGED <<word, sema, counts, site, spin, tmo, flags>>

(* Mutant of AllocXchg: the late thread keeps its semaphore open.          *)
AllocXchgNoClose(t) ==
    /\ At(t, "allocXchg")
    /\ hSemaphore' = IF hSemaphore = NoThread THEN t ELSE hSemaphore
    /\ old' = [old EXCEPT ![t] = NoThread]
    /\ Goto(t, "enter")
    /\ UNCHANGED <<word, handles, counts, locals, flags>>

(* A thread that finds another's semaphore installed closes its own.       *)
AllocXchg(t) ==
    /\ At(t, "allocXchg")
    /\ hSemaphore' = IF hSemaphore = NoThread THEN t ELSE hSemaphore
    /\ handles' = IF CASResult(t, hSemaphore) # NoThread
                  THEN handles \ {t} ELSE handles
    /\ old' = [old EXCEPT ![t] = NoThread]
    /\ Goto(t, "enter")
    /\ UNCHANGED <<word, counts, locals, flags>>

(* WaiterMinus at the end of PerfLock, then the return of Lock; the label   *)
(* says what PerfLockKernel returned.                                      *)
Minus(t) ==
    /\ \/ At(t, "minusTrue") /\ ReturnLocked(t, "true")
       \/ At(t, "minusFalse") /\ Goto(t, "idle") /\ UNCHANGED flags
    /\ nWaiters' = nWaiters - 1
    /\ ResetLocals(t)
    /\ UNCHANGED <<word, sema, tokens, lost, old>>

-----------------------------------------------------------------------------
(* CritSectEx::PerfLockKernel                                              *)

Enter(t) ==
    /\ At(t, "enter")
    /\ bTimedOut' = FALSE
    /\ Goto(t, "plus")
    /\ UNCHANGED <<nLocker, bIsLocked, sema, counts, old, locals, flags>>

(* The head of the loop; after a timeout bWaiter is set and the loop       *)
(* starts at the compare-and-exchange instead.                             *)
Plus(t) ==
    /\ At(t, "plus")
    /\ nWaiters' = nWaiters + 1
    /\ site' = [site EXCEPT ![t] = "kernel"]
    /\ Goto(t, CASEntry)
    /\ UNCHANGED <<word, sema, tokens, lost, old, spin, tmo, flags>>

(* PerfLockKernel returns false when m.bTimedOut is set or the time of a   *)
(* finite dwTimeout has elapsed, which it may have at any moment.          *)
Check(t) ==
    /\ At(t, "check")
    /\ \/ /\ bTimedOut \/ tmo[t] = "finite"
          /\ Goto(t, "minusFalse")
       \/ /\ ~bTimedOut
          /\ Goto(t, "wait")
    /\ UNCHANGED <<word, sema, counts, old, locals, flags>>

(* WAIT_OBJECT_0                                                           *)
TakeToken(t) ==
    /\ At(t, "wait")
    /\ tokens > 0
    /\ tokens' = tokens - 1
    /\ Goto(t, "plus")
    /\ UNCHANGED <<word, sema, nWaiters, lost, old, locals, flags>>

(* Mutant of TimeOut: bWaiter is not set, the waiter is counted again.     *)
TimeOutNoWaiter(t) ==
    /\ At(t, "wait")
    /\ tmo[t] = "finite"
    /\ bTimedOut' = TRUE
    /\ Goto(t, "plus")
    /\ UNCHANGED <<nLocker, bIsLocked, sema, counts, old, locals, flags>>

(* WAIT_TIMEOUT                                                            *)
TimeOut(t) ==
    /\ At(t, "wait")
    /\ tmo[t] = "finite"
    /\ bTimedOut' = TRUE
    /\ Goto(t, CASEntry)
    /\ UNCHANGED <<nLocker, bIsLocked, sema, counts, old, locals, flags>>

(* WAIT_FAILED: cseAssertEx throws out of Lock, past PerfLock's            *)
(* WaiterMinus.                                                            *)
WaitFails(t) ==
    /\ At(t, "wait")
    /\ lost < MaxFailures
    /\ lost' = lost + 1
    /\ Goto(t, "idle")
    /\ ResetLocals(t)
    /\ UNCHANGED <<word, sema, nWaiters, tokens, old, flags>>

-----------------------------------------------------------------------------
(* CritSectEx::Unlock and PerfUnlock                                       *)

(* Mutant of CallUnlock: bUnlockFlag is ignored.                           *)
CallUnlockAlways(t) ==
    /\ At(t, "idle")
    /\ flags[t] # <<>>
    /\ flags' = [flags EXCEPT ![t] = Tail(@)]
    /\ Goto(t, "release")
    /\ UNCHANGED <<word, sema, counts, old, locals>>

CallUnlock(t) ==
    /\ At(t, "idle")
    /\ flags[t] # <<>>
    /\ flags' = [flags EXCEPT ![t] = Tail(@)]
    /\ IF Head(flags[t]) = "true" THEN Goto(t, "release") ELSE UNCHANGED pc
    /\ UNCHANGED <<word, sema, counts, old, locals>>

(* The comparand of the releasing compare-and-exchange is read first.      *)
Release(t) ==
    /\ At(t, "release")
    /\ old' = [old EXCEPT ![t] = nLocker]
    /\ Goto(t, "relXchg")
    /\ UNCHANGED <<word, sema, counts, site, spin, tmo, flags>>

ReleaseXchg(t) ==
    /\ At(t, "relXchg")
    /\ nLocker' = IF nLocker = old[t] THEN NoThread ELSE nLocker
    /\ old' = [old EXCEPT ![t] = NoThread]
    /\ Goto(t, "relStore")
    /\ UNCHANGED <<bIsLocked, bTimedOut, sema, counts, site, spin, tmo, flags>>

ReleaseStore(t) ==
    /\ At(t, "relStore")
    /\ nLocker' = NoThread
    /\ Goto(t, "relCheck")
    /\ UNCHANGED <<bIsLocked, bTimedOut, sema, counts, old, locals, flags>>

(* Mutants of HasWaiters: a comparison with the wrong bound; a test for    *)
(* non-zero, which wakes for a negative count too.                         *)
HasWaitersOffByOne == nWaiters > 1
HasWaitersNonZero  == nWaiters # 0

(* m.nWaiters > 0, on a field whose upper half addl never touches.         *)
HasWaiters == IF Wide THEN nWaiters # 0 ELSE nWaiters > 0

ReleaseCheck(t) ==
    /\ At(t, "relCheck")
    /\ Goto(t, IF HasWaiters THEN "relMinus" ELSE "relDone")
    /\ UNCHANGED <<word, sema, counts, old, locals, flags>>

ReleaseMinus(t) ==
    /\ At(t, "relMinus")
    /\ nWaiters' = nWaiters - 1
    /\ Goto(t, "relPost")
    /\ UNCHANGED <<word, sema, tokens, lost, old, locals, flags>>

(* ReleaseSemaphore refuses a count above the maximum, and then the        *)
(* assertion around it throws out of Unlock.                               *)
ReleasePost(t) ==
    /\ At(t, "relPost")
    /\ \/ /\ tokens < MaxCount
          /\ tokens' = tokens + 1
          /\ Goto(t, "relDone")
          /\ UNCHANGED lost
       \/ /\ tokens >= MaxCount
          /\ lost' = lost - 1
          /\ Goto(t, "idle")
          /\ UNCHANGED tokens
    /\ UNCHANGED <<word, sema, nWaiters, old, locals, flags>>

(* Mutant of ReleaseDone: m.bIsLocked is not reset.                        *)
ReleaseDoneNoReset(t) ==
    /\ At(t, "relDone")
    /\ Goto(t, "idle")
    /\ UNCHANGED <<word, sema, counts, old, locals, flags>>

ReleaseDone(t) ==
    /\ At(t, "relDone")
    /\ bIsLocked' = FALSE
    /\ Goto(t, "idle")
    /\ UNCHANGED <<nLocker, bTimedOut, sema, counts, old, locals, flags>>

-----------------------------------------------------------------------------

LockStep(t) ==
    \/ Test(t) \/ CASRead(t) \/ CASXchg(t) \/ CASWon(t)
    \/ Spin(t) \/ Alloc(t) \/ AllocRead(t) \/ AllocXchg(t) \/ Minus(t)
    \/ Enter(t) \/ Plus(t) \/ Check(t)

UnlockStep(t) ==
    \/ Release(t) \/ ReleaseXchg(t) \/ ReleaseStore(t) \/ ReleaseCheck(t)
    \/ ReleaseMinus(t) \/ ReleasePost(t) \/ ReleaseDone(t)

WaitStep(t) == TakeToken(t) \/ TimeOut(t) \/ WaitFails(t)

Step(t) ==
    \/ LockAgain(t) \/ CallLock(t) \/ CallUnlock(t)
    \/ LockStep(t) \/ UnlockStep(t) \/ WaitStep(t)

Next == \E t \in Threads : Step(t)

Spec == Init /\ [][Next]_vars

(* A thread inside a call runs and a caller that holds the lock releases   *)
(* it; a semaphore that is posted again and again does not pass over a     *)
(* waiter for ever.  Nothing makes a caller lock, or a wait time out or    *)
(* fail.                                                                   *)
Run(t) == LockStep(t) \/ UnlockStep(t) \/ CallUnlock(t)

Fairness == \A t \in Threads : WF_vars(Run(t)) /\ SF_vars(TakeToken(t))

FairSpec == Spec /\ Fairness
-----------------------------------------------------------------------------
(* Properties                                                              *)

(* Every variable has its type.                                            *)
BooleansOK ==
    /\ bIsLocked \in BOOLEAN
    /\ bTimedOut \in BOOLEAN

SharedOK ==
    /\ nLocker \in Threads \cup {NoThread}
    /\ nWaiters \in Int
    /\ hSemaphore \in Threads \cup {NoThread}
    /\ handles \subseteq Threads
    /\ tokens \in Nat
    /\ lost \in Int

LocalsOK ==
    /\ site \in [Threads -> Sites]
    /\ spin \in [Threads -> Nat]
    /\ tmo \in [Threads -> TimeoutClasses]

ControlOK ==
    /\ pc \in [Threads -> PCs]
    /\ old \in [Threads -> Threads \cup {NoThread}]
    /\ flags \in [Threads -> Seq(UnlockFlags)]

TypeOK == BooleansOK /\ SharedOK /\ LocalsOK /\ ControlOK

(* The threads whose WaiterPlus is not yet matched: neither by a token that *)
(* they took nor by their own WaiterMinus.                                 *)
InKernelCAS(t) == site[t] = "kernel" /\ pc[t] \in {"casRead", "casXchg", "casWon"}
Counted   == {t \in Threads : InKernelCAS(t) \/ pc[t] \in {"check", "wait", "minusTrue", "minusFalse"}}

(* Unlockers that decided to wake a waiter, and those that have taken it   *)
(* off nWaiters but not yet posted the semaphore.                          *)
Committed == {t \in Threads : pc[t] = "relMinus"}
Posting   == {t \in Threads : pc[t] = "relPost"}

(* nWaiters, which every thread changes without a lock, is exactly the      *)
(* number of counted waiters, less the wake-ups already under way: a token  *)
(* of the semaphore or an unlocker about to post one.  PerfUnlock relies on *)
(* it to decide whether to post.                                           *)
WaiterBalance ==
    nWaiters = Cardinality(Counted) + lost - tokens - Cardinality(Posting)

(* Wake-ups do not pile up although waiters that grab the lock on their own *)
(* leave theirs behind: there are never more of them than other threads     *)
(* (and waiters lost to an exception), so ReleaseSemaphore cannot reach the *)
(* maximum count and Unlock cannot throw.                                  *)
WakeUpsBounded ==
    tokens + Cardinality(Posting) + Cardinality(Committed)
        <= Cardinality(Threads) + lost - 1

(* The assertion around ReleaseSemaphore in PerfUnlock holds.              *)
UnlockNeverThrows == \A t \in Threads : pc[t] = "relPost" => tokens < MaxCount

(* No lost wake-up: while a thread sleeps on the semaphore, or has failed   *)
(* its last attempt and is about to, a free lock means that a wake-up is    *)
(* under way: an unlocker has yet to look at nWaiters or to post, a token   *)
(* is there, or a thread that was awoken has yet to try for the lock.       *)
AboutToSleep == {t \in Threads : pc[t] \in {"check", "wait"}}
Unlocking    == {t \in Threads : pc[t] \in {"relStore", "relCheck", "relMinus", "relPost"}}
Retrying     == {t \in Threads : pc[t] = "plus"
                    \/ (site[t] = "kernel" /\ pc[t] \in {"casRead", "casXchg"})}

NoStrandedWaiter ==
    nLocker = NoThread /\ AboutToSleep # {}
        => tokens > 0 \/ Unlocking # {} \/ Retrying # {}

(* The lock word never names a thread that will not give it back: one that  *)
(* has no Unlock(true) to make, is not making it and is not about to return *)
(* true from Lock.  (The gcc compare-and-exchange may take the lock and     *)
(* report that it failed.)                                                 *)
OwesUnlock(t) == \E i \in DOMAIN flags[t] : flags[t][i] = "true"
WillRelease(t) ==
    \/ OwesUnlock(t)
    \/ pc[t] \in {"casWon", "minusTrue", "release", "relXchg"}

NoOrphanedLock == nLocker # NoThread => WillRelease(nLocker)

(* Racing AllocateKernelSemaphore calls leave one open semaphore: the others *)
(* are closed by the threads that came late; and the assertions on         *)
(* m.hSemaphore before a wait and before a post hold.                      *)
OneSemaphore ==
    /\ \A t \in handles : t = hSemaphore \/ pc[t] \in {"allocRead", "allocXchg"}
    /\ \A t \in Threads : pc[t] \in {"wait", "relPost"} => hSemaphore \in handles

(* Two threads are never both between a Lock that returned true and its     *)
(* Unlock.                                                                 *)
Holds(t) == flags[t] # <<>>
MutualExclusion == \A s, t \in Threads : Holds(s) /\ Holds(t) => s = t

(* A Lock call without a time limit does not give up.                      *)
InfiniteLockSucceeds ==
    \A t \in Threads : pc[t] = "minusFalse" => tmo[t] # "infinite"

(* A lock that reports IsLocked() has somebody who will clear it: a caller  *)
(* that holds it or whose Unlock is not complete.  (The converse does not   *)
(* hold: a late bIsLocked = false overwrites the true of the next owner.)   *)
IsLockedHasLocker ==
    bIsLocked => \E t \in Threads :
        \/ OwesUnlock(t)
        \/ pc[t] \in {"minusTrue", "release", "relXchg", "relStore", "relCheck",
                       "relMinus", "relPost", "relDone"}

(* A thread asleep on the semaphore is woken, when every owner releases.    *)
SleeperWakes == \A t \in Threads : pc[t] = "wait" ~> pc[t] # "wait"
=============================================================================
