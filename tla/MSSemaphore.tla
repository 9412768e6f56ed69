---------------------------- MODULE MSSemaphore ----------------------------
(***************************************************************************)
(* The emulated semaphore HANDLE: a POSIX semaphore, and beside it a count *)
(* that ReleaseSemaphore and WaitForSingleObject keep in plain shared      *)
(* memory, because not every platform can ask the semaphore for its value. *)
(* The count is not volatile: wherever an expression reads it a second     *)
(* time, the compiler may use the value of the first read.                 *)
(***************************************************************************)
EXTENDS Integers, FiniteSets

CONSTANTS
    Threads,      (* the threads that share the HANDLE                      *)
    Initial,      (* lInitialCount                                          *)
    MaxCount,     (* counter->maxCount                                      *)
    Amounts,      (* the lReleaseCount values that callers use              *)
    MaxReleases,  (* bound: ReleaseSemaphore calls                          *)
    MaxTakes      (* bound: waits that end with the semaphore taken         *)

ASSUME ThreadsAssumption == IsFiniteSet(Threads) /\ Threads # {}

ASSUME CountAssumption ==
    /\ Initial \in Nat
    /\ MaxCount \in Nat \ {0}
    /\ Amounts \subseteq Nat \ {0}
    /\ MaxReleases \in Nat
    /\ MaxTakes \in Nat

VARIABLES
    sem,          (* the value of the POSIX semaphore                       *)
    curCount,     (* counter->curCount                                      *)
    pc,           (* the next access of each thread                         *)
    reg,          (* the value of curCount a thread has read last           *)
    amount,       (* lReleaseCount on entry                                 *)
    target,       (* lReleaseCount after curCount was added                 *)
    posts,        (* auxiliary: sem_post calls of the current or last       *)
                  (* ReleaseSemaphore call of a thread                      *)
    releases,     (* auxiliary: ReleaseSemaphore calls so far               *)
    takes,        (* auxiliary: waits that have taken the semaphore so far  *)
    clean         (* auxiliary: no two calls have changed the count at once *)

calls  == <<amount, posts, releases, takes>>
locals == <<reg, target>>
vars   == <<sem, curCount, pc, locals, calls, clean>>

PCs == {"idle", "target", "post", "countRead", "countWrite", "loop",
        "wait", "takenTest", "takenRead", "takenWrite"}

Init ==
    /\ sem = Initial
    /\ curCount = Initial
    /\ pc = [t \in Threads |-> "idle"]
    /\ reg = [t \in Threads |-> 0]
    /\ amount = [t \in Threads |-> 0]
    /\ target = [t \in Threads |-> 0]
    /\ posts = [t \in Threads |-> 0]
    /\ releases = 0
    /\ takes = 0
    /\ clean = TRUE

At(t, label) == pc[t] = label

Goto(t, label) == pc' = [pc EXCEPT ![t] = label]

(* The threads inside the part of a call that uses the count.              *)
Counting == {t \in Threads : pc[t] \notin {"idle", "wait"}}

Enter(t) == clean' = (clean /\ Counting \subseteq {t})

(* What a second read of curCount by t yields.                             *)
Reread(t) == {curCount, reg[t]}

-----------------------------------------------------------------------------
(* ReleaseSemaphore                                                        *)

Fits(n) == curCount + n <= MaxCount

(* A call that does not fit returns false and changes nothing.             *)
CallRelease(t) ==
    /\ At(t, "idle")
    /\ releases < MaxReleases
    /\ \E n \in Amounts :
        /\ Fits(n)
        /\ amount' = [amount EXCEPT ![t] = n]
    /\ reg' = [reg EXCEPT ![t] = curCount]
    /\ posts' = [posts EXCEPT ![t] = 0]
    /\ releases' = releases + 1
    /\ Goto(t, "target")
    /\ Enter(t)
    /\ UNCHANGED <<sem, curCount, target, takes>>

SetTarget(t) ==
    /\ At(t, "target")
    /\ \E v \in Reread(t) : target' = [target EXCEPT ![t] = amount[t] + v]
    /\ Goto(t, "post")
    /\ UNCHANGED <<sem, curCount, reg, calls, clean>>

Post(t) ==
    /\ At(t, "post")
    /\ sem' = sem + 1
    /\ posts' = [posts EXCEPT ![t] = @ + 1]
    /\ Goto(t, "countRead")
    /\ UNCHANGED <<curCount, locals, amount, releases, takes, clean>>

CountRead(t) ==
    /\ At(t, "countRead")
    /\ reg' = [reg EXCEPT ![t] = curCount]
    /\ Goto(t, "countWrite")
    /\ UNCHANGED <<sem, curCount, target, calls, clean>>

CountWrite(t) ==
    /\ At(t, "countWrite")
    /\ curCount' = reg[t] + 1
    /\ reg' = [reg EXCEPT ![t] = @ + 1]
    /\ Goto(t, "loop")
    /\ UNCHANGED <<sem, target, calls, clean>>

(* Mutant of Again: one post too many.                                     *)
AgainAtTarget(t, v) == v <= target[t]

(* The loop goes on while the count is below the target.                   *)
Again(t, v) == v < target[t]

Loop(t) ==
    /\ At(t, "loop")
    /\ \E v \in Reread(t) : Goto(t, IF Again(t, v) THEN "post" ELSE "idle")
    /\ UNCHANGED <<sem, curCount, locals, calls, clean>>

-----------------------------------------------------------------------------
(* WaitForSingleObject                                                     *)

CallWait(t) ==
    /\ At(t, "idle")
    /\ Goto(t, "wait")
    /\ UNCHANGED <<sem, curCount, locals, calls, clean>>

TimeOut(t) ==
    /\ At(t, "wait")
    /\ Goto(t, "idle")
    /\ UNCHANGED <<sem, curCount, locals, calls, clean>>

(* sem_wait or sem_timedwait succeeds.                                     *)
Take(t) ==
    /\ At(t, "wait")
    /\ sem > 0
    /\ takes < MaxTakes
    /\ sem' = sem - 1
    /\ takes' = takes + 1
    /\ Goto(t, "takenTest")
    /\ Enter(t)
    /\ UNCHANGED <<curCount, locals, amount, posts, releases>>

(* The count is taken down only if it is positive.                         *)
TakenTest(t) ==
    /\ At(t, "takenTest")
    /\ reg' = [reg EXCEPT ![t] = curCount]
    /\ Goto(t, IF curCount > 0 THEN "takenRead" ELSE "idle")
    /\ UNCHANGED <<sem, curCount, target, calls, clean>>

TakenRead(t) ==
    /\ At(t, "takenRead")
    /\ \E v \in Reread(t) : reg' = [reg EXCEPT ![t] = v]
    /\ Goto(t, "takenWrite")
    /\ UNCHANGED <<sem, curCount, target, calls, clean>>

TakenWrite(t) ==
    /\ At(t, "takenWrite")
    /\ curCount' = reg[t] - 1
    /\ Goto(t, "idle")
    /\ UNCHANGED <<sem, locals, calls, clean>>

-----------------------------------------------------------------------------

ReleaseStep(t) ==
    \/ CallRelease(t) \/ SetTarget(t) \/ Post(t)
    \/ CountRead(t) \/ CountWrite(t) \/ Loop(t)

WaitStep(t) ==
    \/ CallWait(t) \/ TimeOut(t) \/ Take(t)
    \/ TakenTest(t) \/ TakenRead(t) \/ TakenWrite(t)

Next == \E t \in Threads : ReleaseStep(t) \/ WaitStep(t)

Spec == Init /\ [][Next]_vars

-----------------------------------------------------------------------------
(* Properties                                                              *)

(* Every variable has its type.                                            *)
TypeOK ==
    /\ sem \in Nat
    /\ curCount \in Int
    /\ pc \in [Threads -> PCs]
    /\ reg \in [Threads -> Int]
    /\ amount \in [Threads -> Nat]
    /\ target \in [Threads -> Int]
    /\ posts \in [Threads -> Nat]
    /\ releases \in 0 .. MaxReleases
    /\ takes \in 0 .. MaxTakes
    /\ clean \in BOOLEAN

(* As long as no two calls have changed the count at once, it is the value *)
(* of the semaphore between calls, the semaphore keeps to its maximum, and *)
(* every ReleaseSemaphore posts as often as it was asked to.               *)
CleanExact ==
    clean /\ Counting = {} =>
        /\ curCount = sem
        /\ sem <= MaxCount \/ sem <= Initial
        /\ \A t \in Threads : posts[t] = amount[t]

(* ReleaseSemaphore increases the semaphore by the number it was given.    *)
ReleaseExact == \A t \in Threads : At(t, "idle") => posts[t] = amount[t]
=============================================================================
