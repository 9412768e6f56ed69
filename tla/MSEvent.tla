------------------------------ MODULE MSEvent ------------------------------
(***************************************************************************)
(* The emulated event HANDLE: a flag changed by _InterlockedSetTrue and    *)
(* _InterlockedSetFalse, and a condition variable with its mutex.  Set and *)
(* Reset never take the mutex, and a wait looks at the flag before it      *)
(* does.                                                                   *)
(***************************************************************************)
EXTENDS Integers, FiniteSets

CONSTANTS
    Setters,      (* the threads that call SetEvent                         *)
    Resetters,    (* the threads that call ResetEvent                       *)
    Waiters,      (* the threads that call WaitForSingleObject              *)
    NoThread,     (* nobody owns the mutex                                  *)
    Modulus,      (* 2 to the width of the addl instruction                 *)
    Wide          (* the x86_64 gcc build: isSignalled is wider than addl,  *)
                  (* so that its value is never negative                    *)

Threads == Setters \cup Resetters \cup Waiters

ASSUME ThreadsAssumption ==
    /\ IsFiniteSet(Threads)
    /\ NoThread \notin Threads

ASSUME FlagAssumption ==
    /\ Modulus \in Nat \ {0, 1}
    /\ Wide \in BOOLEAN

VARIABLES
    isManual,     (* d.e.isManual, which CreateEvent sets for good          *)
    isSignalled,  (* the bits of d.e.isSignalled that addl changes          *)
    mutex,        (* the owner of d.e.mutex                                 *)
    queue,        (* the waiters of the condition variable d.e.cond         *)
    pc,           (* the next access of each thread                         *)
    calm          (* auxiliary: nobody has cleared the flag since SetEvent  *)
                  (* was called                                             *)

vars == <<isManual, isSignalled, mutex, queue, pc, calm>>

PCs == {"idle", "setTest", "setInc", "signal",
        "clear", "clearTest", "clearDec", "clearInc",
        "waitTest", "lock", "condWait", "sleep", "timedOut", "unlock"}

Init ==
    /\ isManual \in BOOLEAN
    /\ isSignalled \in {0, 1}
    /\ mutex = NoThread
    /\ queue = {}
    /\ pc = [t \in Threads |-> "idle"]
    /\ calm = [t \in Threads |-> FALSE]

At(t, label) == pc[t] = label

Goto(t, label) == pc' = [pc EXCEPT ![t] = label]

Add(n) == isSignalled' = (isSignalled + n) % Modulus

Clearing == {t \in Threads : pc[t] \in {"clear", "clearTest", "clearDec", "clearInc"}}

(* A call that starts to clear the flag, or one that does not.             *)
StartClearing(t) ==
    /\ Goto(t, "clear")
    /\ calm' = [s \in Threads |-> FALSE]

Return(t) ==
    /\ Goto(t, "idle")
    /\ UNCHANGED calm

-----------------------------------------------------------------------------
(* SetEvent                                                                *)

CallSet(t) ==
    /\ t \in Setters
    /\ At(t, "idle")
    /\ Goto(t, "setTest")
    /\ calm' = [calm EXCEPT ![t] = (Clearing = {})]
    /\ UNCHANGED <<isSignalled, mutex, queue>>

(* Mutant of SetTest: the test is inverted.                                *)
SetTestInverted(t) ==
    /\ At(t, "setTest")
    /\ Goto(t, IF isSignalled # 0 THEN "setInc" ELSE "signal")
    /\ UNCHANGED <<isSignalled, mutex, queue, calm>>

(* _InterlockedSetTrue                                                     *)
SetTest(t) ==
    /\ At(t, "setTest")
    /\ Goto(t, IF isSignalled = 0 THEN "setInc" ELSE "signal")
    /\ UNCHANGED <<isSignalled, mutex, queue, calm>>

SetInc(t) ==
    /\ At(t, "setInc")
    /\ Add(1)
    /\ Goto(t, "signal")
    /\ UNCHANGED <<mutex, queue, calm>>

(* Mutant of Signal: pthread_cond_signal whatever the kind of the event.   *)
SignalOne(t) ==
    /\ At(t, "signal")
    /\ \/ queue = {} /\ UNCHANGED queue
       \/ \E w \in queue : queue' = queue \ {w}
    /\ Return(t)
    /\ UNCHANGED <<isSignalled, mutex>>

(* pthread_cond_broadcast or pthread_cond_signal                           *)
Signal(t) ==
    /\ At(t, "signal")
    /\ \/ /\ isManual \/ queue = {}
          /\ queue' = {}
       \/ /\ ~isManual
          /\ \E w \in queue : queue' = queue \ {w}
    /\ Return(t)
    /\ UNCHANGED <<isSignalled, mutex>>

-----------------------------------------------------------------------------
(* ResetEvent, and _InterlockedSetFalse, which a wait on an auto-reset      *)
(* event calls too                                                         *)

CallReset(t) ==
    /\ t \in Resetters
    /\ At(t, "idle")
    /\ StartClearing(t)
    /\ UNCHANGED <<isSignalled, mutex, queue>>

Clear(t) ==
    /\ At(t, "clear")
    /\ \/ /\ isSignalled = 0
          /\ Return(t)
       \/ /\ isSignalled # 0
          /\ Goto(t, "clearTest")
          /\ UNCHANGED calm
    /\ UNCHANGED <<isSignalled, mutex, queue>>

(* *atomic > 0                                                             *)
Positive ==
    /\ isSignalled # 0
    /\ Wide \/ 2 * isSignalled < Modulus

ClearTest(t) ==
    /\ At(t, "clearTest")
    /\ Goto(t, IF Positive THEN "clearDec" ELSE "clearInc")
    /\ UNCHANGED <<isSignalled, mutex, queue, calm>>

(* Mutant of ClearDec: an if in place of the while.                        *)
ClearDecOnce(t) ==
    /\ At(t, "clearDec")
    /\ Add(-1)
    /\ Return(t)
    /\ UNCHANGED <<mutex, queue>>

ClearDec(t) ==
    /\ At(t, "clearDec")
    /\ Add(-1)
    /\ Goto(t, "clear")
    /\ UNCHANGED <<mutex, queue, calm>>

ClearInc(t) ==
    /\ At(t, "clearInc")
    /\ Add(1)
    /\ Goto(t, "clear")
    /\ UNCHANGED <<mutex, queue, calm>>

-----------------------------------------------------------------------------
(* WaitForSingleObject on the event                                        *)

(* WAIT_OBJECT_0: an auto-reset event is reset.                            *)
Signalled(t) == IF isManual THEN Return(t) ELSE StartClearing(t)

CallWait(t) ==
    /\ t \in Waiters
    /\ At(t, "idle")
    /\ Goto(t, "waitTest")
    /\ UNCHANGED <<isSignalled, mutex, queue, calm>>

WaitTest(t) ==
    /\ At(t, "waitTest")
    /\ IF isSignalled # 0
       THEN Signalled(t)
       ELSE Goto(t, "lock") /\ UNCHANGED calm
    /\ UNCHANGED <<isSignalled, mutex, queue>>

LockMutex(t) ==
    /\ At(t, "lock")
    /\ mutex = NoThread
    /\ mutex' = t
    /\ Goto(t, "condWait")
    /\ UNCHANGED <<isSignalled, queue, calm>>

(* pthread_cond_wait gives up the mutex and sleeps, in one step.           *)
CondWait(t) ==
    /\ At(t, "condWait")
    /\ mutex' = NoThread
    /\ queue' = queue \cup {t}
    /\ Goto(t, "sleep")
    /\ UNCHANGED <<isSignalled, calm>>

(* A signalled waiter, or one whose time is up, takes the mutex again.     *)
Wake(t) ==
    /\ At(t, "sleep")
    /\ t \notin queue
    /\ mutex = NoThread
    /\ mutex' = t
    /\ Goto(t, "unlock")
    /\ UNCHANGED <<isSignalled, queue, calm>>

TimeOut(t) ==
    /\ At(t, "sleep")
    /\ t \in queue
    /\ mutex = NoThread
    /\ mutex' = t
    /\ queue' = queue \ {t}
    /\ Goto(t, "timedOut")
    /\ UNCHANGED <<isSignalled, calm>>

UnlockMutex(t) ==
    /\ mutex' = NoThread
    /\ \/ At(t, "unlock") /\ Signalled(t)
       \/ At(t, "timedOut") /\ Return(t)
    /\ UNCHANGED <<isSignalled, queue>>

-----------------------------------------------------------------------------

SetStep(t)   == CallSet(t) \/ SetTest(t) \/ SetInc(t) \/ Signal(t)
ClearStep(t) == Clear(t) \/ ClearTest(t) \/ ClearDec(t) \/ ClearInc(t)
WaitStep(t)  ==
    \/ CallWait(t) \/ WaitTest(t) \/ LockMutex(t) \/ CondWait(t)
    \/ Wake(t) \/ TimeOut(t) \/ UnlockMutex(t)

Next ==
    /\ \E t \in Threads :
        SetStep(t) \/ CallReset(t) \/ ClearStep(t) \/ WaitStep(t)
    /\ UNCHANGED isManual

Spec == Init /\ [][Next]_vars

-----------------------------------------------------------------------------
(* Properties                                                              *)

(* Every variable has its type.                                            *)
TypeOK ==
    /\ isSignalled \in 0 .. Modulus - 1
    /\ mutex \in Threads \cup {NoThread}
    /\ queue \subseteq Waiters
    /\ pc \in [Threads -> PCs]
    /\ calm \in [Threads -> BOOLEAN]
    /\ isManual \in BOOLEAN

(* A SetEvent that no ResetEvent and no auto-reset interfered with leaves   *)
(* the event set, whatever earlier clearings did to the flag.              *)
SetSticks == \A t \in Threads : At(t, "signal") /\ calm[t] => isSignalled # 0

(* The flag as the signed number that addl makes of it.                    *)
Signed == IF 2 * isSignalled < Modulus THEN isSignalled ELSE isSignalled - Modulus

(* The errors of racing SetTrue and SetFalse calls do not add up: the flag, *)
(* as a signed number, is below 0 by at most one for each thread that is   *)
(* clearing it, so never once they have ended, and above 0 by at most one  *)
(* for each thread that may set it or is clearing it.                      *)
FlagBounded ==
    /\ Signed <= Cardinality(Setters) + Cardinality(Clearing)
    /\ Signed >= 0 - Cardinality(Clearing)

(* The event is set for whoever tests it: no waiter of a manual-reset event *)
(* sleeps while the flag is set, unless a setter is about to wake it.      *)
NoSleeperOnSetEvent ==
    isManual /\ isSignalled # 0 /\ queue # {} => \E t \in Threads : At(t, "signal")
=============================================================================
