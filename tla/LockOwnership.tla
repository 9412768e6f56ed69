---------------------------- MODULE LockOwnership ----------------------------
(***************************************************************************)
(* CritSectEx with a history variable that records whom another thread's   *)
(* Unlock has deprived of the lock.                                        *)
(***************************************************************************)
EXTENDS CritSectEx

VARIABLE robbed  (* auxiliary: the threads that will release the lock and   *)
                 (* whose id another thread has removed from m.nLocker      *)

ownerVars == <<vars, robbed>>

OwnerInit == Init /\ robbed = {}

(* The thread whose id a step of t removes.                                *)
Victims(t) == IF nLocker' = NoThread THEN {nLocker} \ {t, NoThread} ELSE {}

Record(t) == robbed' = {s \in robbed \cup Victims(t) : WillRelease(s)'}

OwnerNext == \E t \in Threads : Step(t) /\ Record(t)

OwnerSpec == OwnerInit /\ [][OwnerNext]_ownerVars

FairOwnerSpec == OwnerSpec /\ Fairness

-----------------------------------------------------------------------------
(* Properties                                                              *)

(* The lock is shared for one reason only: of two threads that are both     *)
(* between a Lock that returned true and its Unlock, one at least has had   *)
(* its id removed from the lock word by the Unlock of another thread.      *)
SharedOnlyIfRobbed ==
    \A s, t \in Threads : Holds(s) /\ Holds(t) /\ s # t => s \in robbed \/ t \in robbed

(* Whether the second store of every Unlock finds the lock free already.    *)
HarmlessStore == \A t \in Threads : ReleaseStore(t) => nLocker = NoThread
StoresAreHarmless == [][HarmlessStore]_ownerVars

Owned == INSTANCE OwnedLock WITH
             owner   <- nLocker,
             holders <- {t \in Threads : WillRelease(t)},
             leaving <- {t \in Threads : pc[t] = "relStore"}

(* Lock, PerfLock and Unlock are a lock with an owner: it is taken when it  *)
(* is free, whoever has not been robbed gives back what is its own, and    *)
(* only a thread that is past the releasing exchange, or that has itself   *)
(* been robbed, takes the lock from somebody else.                         *)
LockHasOwner == Owned!Spec
=============================================================================
