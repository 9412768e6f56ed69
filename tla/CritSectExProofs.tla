-------------------------- MODULE CritSectExProofs --------------------------
(***************************************************************************)
(* What CritSectEx guarantees for every number of threads and every value  *)
(* of its parameters.                                                      *)
(***************************************************************************)
EXTENDS LockOwnership, FiniteSetTheorems, TLAPS

-----------------------------------------------------------------------------
(* The helpers of the actions keep the types of what they change.          *)

(* Goto only moves a thread to a label of the program.                     *)
LEMMA GotoType ==
    ASSUME ControlOK, NEW t \in Threads, NEW label \in PCs, Goto(t, label)
    PROVE  pc' \in [Threads -> PCs]
BY DEF ControlOK, Goto

(* A Lock that returns true pushes one unlock flag and leaves the call.    *)
LEMMA ReturnLockedType ==
    ASSUME ControlOK, NEW t \in Threads, NEW f \in UnlockFlags, ReturnLocked(t, f)
    PROVE  /\ pc' \in [Threads -> PCs]
           /\ flags' \in [Threads -> Seq(UnlockFlags)]
BY DEF ControlOK, ReturnLocked, Goto, PCs

(* Unlock takes the latest flag off the stack of its thread.               *)
LEMMA PopType ==
    ASSUME ControlOK, NEW t \in Threads, flags[t] # <<>>,
           flags' = [flags EXCEPT ![t] = Tail(@)]
    PROVE  flags' \in [Threads -> Seq(UnlockFlags)]
BY DEF ControlOK

(* Steps that leave the locals of Lock alone keep their types.             *)
LEMMA UnchangedLocalsType ==
    ASSUME LocalsOK, UNCHANGED locals
    PROVE  LocalsOK'
BY DEF LocalsOK, locals

(* The end of a Lock call resets its locals to values of their types.      *)
LEMMA ResetLocalsType ==
    ASSUME LocalsOK, NEW t \in Threads, ResetLocals(t)
    PROVE  LocalsOK'
BY DEF LocalsOK, ResetLocals, Sites, TimeoutClasses

(* After a failed first attempt Lock returns false or goes on to PerfLock; *)
(* either way the locals and the control state are well typed.             *)
LEMMA FirstAttemptFailedType ==
    ASSUME LocalsOK, ControlOK, NEW t \in Threads, FirstAttemptFailed(t)
    PROVE  LocalsOK' /\ pc' \in [Threads -> PCs]
<1>1. CASE tmo[t] = "zero"
  BY <1>1, ResetLocalsType, GotoType DEF FirstAttemptFailed, PCs
<1>2. CASE tmo[t] # "zero"
  BY <1>2, UnchangedLocalsType, GotoType DEF FirstAttemptFailed, PCs
<1>3. QED
  BY <1>1, <1>2

(* Whichever PerfLockImmediate call fails, its thread goes on with well-   *)
(* typed locals and control state.                                         *)
LEMMA CASFailedType ==
    ASSUME LocalsOK, ControlOK, NEW t \in Threads, CASFailed(t)
    PROVE  LocalsOK' /\ pc' \in [Threads -> PCs]
<1>1. CASE site[t] = "try"
  BY <1>1, FirstAttemptFailedType DEF CASFailed
<1>2. CASE site[t] = "spin"
  BY <1>2, GotoType DEF CASFailed, LocalsOK, PCs
<1>3. CASE site[t] = "kernel"
  BY <1>3, UnchangedLocalsType, GotoType DEF CASFailed, PCs
<1>4. QED
  BY <1>1, <1>2, <1>3 DEF LocalsOK, Sites

-----------------------------------------------------------------------------
(* Type correctness                                                        *)

(* Every step of the lock keeps m.bIsLocked and m.bTimedOut Booleans.      *)
LEMMA BooleansStep ==
    ASSUME BooleansOK, [Next]_vars
    PROVE  BooleansOK'
<1> USE DEF BooleansOK, word
<1>1. CASE UNCHANGED vars
  BY <1>1 DEF vars
<1>2. ASSUME NEW t \in Threads, Step(t)
      PROVE  BooleansOK'
  <2>1. CASE LockAgain(t) \/ CallLock(t) \/ CallUnlock(t)
    BY <2>1, Zenon DEF LockAgain, CallLock, CallUnlock
  <2>2. CASE LockStep(t)
    BY <2>2, Zenon DEF LockStep, Test, CASRead, CASXchg, CASWon, Spin, Alloc,
                AllocRead, AllocXchg, Minus, Enter, Plus, Check
  <2>3. CASE UnlockStep(t)
    BY <2>3, Zenon DEF UnlockStep, Release, ReleaseXchg, ReleaseStore,
                ReleaseCheck, ReleaseMinus, ReleasePost, ReleaseDone
  <2>4. CASE WaitStep(t)
    BY <2>4, Zenon DEF WaitStep, TakeToken, TimeOut, WaitFails
  <2>5. QED
    BY <1>2, <2>1, <2>2, <2>3, <2>4 DEF Step
<1>3. QED
  BY <1>1, <1>2 DEF Next

(* Every step keeps the types of the lock word, the waiter count, the      *)
(* semaphore handles and its count: in particular a wait never takes the   *)
(* count below 0.                                                          *)
LEMMA SharedStep ==
    ASSUME SharedOK, ControlOK, [Next]_vars
    PROVE  SharedOK'
<1> USE DEF SharedOK, ControlOK, word, sema, counts
<1>1. CASE UNCHANGED vars
  BY <1>1 DEF vars
<1>2. ASSUME NEW t \in Threads, Step(t)
      PROVE  SharedOK'
  <2>1. CASE LockAgain(t) \/ CallLock(t) \/ CallUnlock(t)
    BY <2>1 DEF LockAgain, CallLock, CallUnlock
  <2>2. CASE LockStep(t)
    BY <2>2 DEF LockStep, Test, CASRead, CASXchg, CASWon, Spin, Alloc,
                AllocRead, AllocXchg, Minus, Enter, Plus, Check
  <2>3. CASE UnlockStep(t)
    BY <2>3 DEF UnlockStep, Release, ReleaseXchg, ReleaseStore,
                ReleaseCheck, ReleaseMinus, ReleasePost, ReleaseDone
  <2>4. CASE WaitStep(t)
    BY <2>4 DEF WaitStep, TakeToken, TimeOut, WaitFails
  <2>5. QED
    BY <1>2, <2>1, <2>2, <2>3, <2>4 DEF Step
<1>3. QED
  BY <1>1, <1>2 DEF Next

(* Every step keeps the types of the locals of Lock and PerfLock.          *)
LEMMA LocalsStep ==
    ASSUME LocalsOK, ControlOK, [Next]_vars
    PROVE  LocalsOK'
<1>1. CASE UNCHANGED vars
  BY <1>1, UnchangedLocalsType DEF vars
<1>2. ASSUME NEW t \in Threads, Step(t)
      PROVE  LocalsOK'
  <2>1. CASE LockAgain(t)  BY <2>1, UnchangedLocalsType DEF LockAgain
  <2>2. CASE CallLock(t)
    BY <2>2, ParameterAssumption DEF CallLock, LocalsOK
  <2>3. CASE CallUnlock(t)  BY <2>3, UnchangedLocalsType DEF CallUnlock
  <2>4. CASE Test(t)
    BY <2>4, UnchangedLocalsType, FirstAttemptFailedType DEF Test
  <2>5. CASE CASRead(t)  BY <2>5 DEF CASRead, LocalsOK
  <2>6. CASE CASXchg(t)
    BY <2>6, UnchangedLocalsType, CASFailedType DEF CASXchg
  <2>7. CASE CASWon(t)
    BY <2>7, UnchangedLocalsType, ResetLocalsType DEF CASWon
  <2>8. CASE Spin(t)  BY <2>8 DEF Spin, LocalsOK, Sites
  <2>9. CASE Alloc(t)  BY <2>9, UnchangedLocalsType DEF Alloc
  <2>10. CASE AllocRead(t)  BY <2>10 DEF AllocRead, LocalsOK
  <2>11. CASE AllocXchg(t)  BY <2>11, UnchangedLocalsType DEF AllocXchg
  <2>12. CASE Minus(t)  BY <2>12, ResetLocalsType DEF Minus
  <2>13. CASE Enter(t)  BY <2>13, UnchangedLocalsType DEF Enter
  <2>14. CASE Plus(t)  BY <2>14 DEF Plus, LocalsOK, Sites
  <2>15. CASE Check(t)  BY <2>15, UnchangedLocalsType DEF Check
  <2>16. CASE Release(t)  BY <2>16 DEF Release, LocalsOK
  <2>17. CASE ReleaseXchg(t)  BY <2>17 DEF ReleaseXchg, LocalsOK
  <2>18. CASE ReleaseStore(t)  BY <2>18, UnchangedLocalsType DEF ReleaseStore
  <2>19. CASE ReleaseCheck(t)  BY <2>19, UnchangedLocalsType DEF ReleaseCheck
  <2>20. CASE ReleaseMinus(t)  BY <2>20, UnchangedLocalsType DEF ReleaseMinus
  <2>21. CASE ReleasePost(t)  BY <2>21, UnchangedLocalsType DEF ReleasePost
  <2>22. CASE ReleaseDone(t)  BY <2>22, UnchangedLocalsType DEF ReleaseDone
  <2>23. CASE TakeToken(t)  BY <2>23, UnchangedLocalsType DEF TakeToken
  <2>24. CASE TimeOut(t)  BY <2>24, UnchangedLocalsType DEF TimeOut
  <2>25. CASE WaitFails(t)  BY <2>25, ResetLocalsType DEF WaitFails
  <2>26. QED
    BY <1>2, <2>1, <2>2, <2>3, <2>4, <2>5, <2>6, <2>7, <2>8, <2>9, <2>10, <2>11,
       <2>12, <2>13, <2>14, <2>15, <2>16, <2>17, <2>18, <2>19, <2>20, <2>21,
       <2>22, <2>23, <2>24, <2>25
       DEF Step, LockStep, UnlockStep, WaitStep
<1>3. QED
  BY <1>1, <1>2 DEF Next

(* Every step keeps the types of the control state, the value read before  *)
(* an exchange and the unlock flags of the callers.                        *)
LEMMA ControlStep ==
    ASSUME LocalsOK, ControlOK, SharedOK, [Next]_vars
    PROVE  ControlOK'
<1> USE DEF ControlOK, SharedOK, PCs
<1>1. CASE UNCHANGED vars
  BY <1>1 DEF vars
<1>2. ASSUME NEW t \in Threads, Step(t)
      PROVE  ControlOK'
  <2>1. CASE LockAgain(t)
    BY <2>1, ReturnLockedType DEF LockAgain, UnlockFlags
  <2>2. CASE CallLock(t)  BY <2>2, GotoType DEF CallLock
  <2>3. CASE CallUnlock(t)  BY <2>3, PopType, GotoType DEF CallUnlock
  <2>4. CASE Test(t)
    BY <2>4, GotoType, FirstAttemptFailedType DEF Test, CASEntry
  <2>5. CASE CASRead(t)  BY <2>5, GotoType DEF CASRead
  <2>6. CASE CASXchg(t)
    BY <2>6, GotoType, CASFailedType, ThreadsAssumption DEF CASXchg
  <2>7. CASE CASWon(t)
    BY <2>7, GotoType, ReturnLockedType DEF CASWon, UnlockFlags
  <2>8. CASE Spin(t)  BY <2>8, GotoType DEF Spin, CASEntry
  <2>9. CASE Alloc(t)  BY <2>9, GotoType DEF Alloc, AllocEntry
  <2>10. CASE AllocRead(t)  BY <2>10, GotoType DEF AllocRead
  <2>11. CASE AllocXchg(t)  BY <2>11, GotoType DEF AllocXchg
  <2>12. CASE Minus(t)
    BY <2>12, GotoType, ReturnLockedType DEF Minus, UnlockFlags
  <2>13. CASE Enter(t)  BY <2>13, GotoType DEF Enter
  <2>14. CASE Plus(t)  BY <2>14, GotoType DEF Plus, CASEntry
  <2>15. CASE Check(t)  BY <2>15, GotoType DEF Check
  <2>16. CASE Release(t)  BY <2>16, GotoType DEF Release
  <2>17. CASE ReleaseXchg(t)  BY <2>17, GotoType DEF ReleaseXchg
  <2>18. CASE ReleaseStore(t)  BY <2>18, GotoType DEF ReleaseStore
  <2>19. CASE ReleaseCheck(t)  BY <2>19, GotoType DEF ReleaseCheck
  <2>20. CASE ReleaseMinus(t)  BY <2>20, GotoType DEF ReleaseMinus
  <2>21. CASE ReleasePost(t)  BY <2>21, GotoType DEF ReleasePost
  <2>22. CASE ReleaseDone(t)  BY <2>22, GotoType DEF ReleaseDone
  <2>23. CASE TakeToken(t)  BY <2>23, GotoType DEF TakeToken
  <2>24. CASE TimeOut(t)  BY <2>24, GotoType DEF TimeOut, CASEntry
  <2>25. CASE WaitFails(t)  BY <2>25, GotoType DEF WaitFails
  <2>26. QED
    BY <1>2, <2>1, <2>2, <2>3, <2>4, <2>5, <2>6, <2>7, <2>8, <2>9, <2>10, <2>11,
       <2>12, <2>13, <2>14, <2>15, <2>16, <2>17, <2>18, <2>19, <2>20, <2>21,
       <2>22, <2>23, <2>24, <2>25
       DEF Step, LockStep, UnlockStep, WaitStep
<1>3. QED
  BY <1>1, <1>2 DEF Next

(* TypeOK is inductive.                                                    *)
LEMMA TypeStep ==
    ASSUME TypeOK, [Next]_vars
    PROVE  TypeOK'
BY BooleansStep, SharedStep, LocalsStep, ControlStep DEF TypeOK

(* Every variable keeps its type, whatever the threads do.                 *)
THEOREM TypeCorrect == Spec => []TypeOK
<1>1. Init => TypeOK
  <2>1. Init => BooleansOK
    BY Zenon DEF Init, BooleansOK
  <2>2. QED
    BY <2>1 DEF Init, TypeOK, SharedOK, LocalsOK, ControlOK, PCs, Sites,
                TimeoutClasses
<1>2. TypeOK /\ [Next]_vars => TypeOK'
  BY TypeStep
<1>3. QED
  BY <1>1, <1>2, PTL DEF Spec

-----------------------------------------------------------------------------
(* The counts of PerfLock and PerfUnlock                                   *)

(* Which PerfLockImmediate call a thread can be in.                        *)
SiteOK ==
    \A t \in Threads :
        /\ pc[t] \in {"idle", "test", "release", "relXchg", "relStore", "relCheck",
                      "relMinus", "relPost", "relDone"} => site[t] = "try"
        /\ pc[t] \in {"check", "wait"} => site[t] = "kernel"

(* SiteOK is inductive: the call site of PerfLockImmediate agrees with the *)
(* place where its thread is.                                              *)
LEMMA SiteStep ==
    ASSUME TypeOK, SiteOK, [Next]_vars
    PROVE  SiteOK'
<1> USE DEF SiteOK, At, Goto, CASEntry, AllocEntry, locals
<1>0. pc \in [Threads -> PCs] /\ site \in [Threads -> Sites]
  BY DEF TypeOK, LocalsOK, ControlOK
<1>1. CASE UNCHANGED vars
  BY <1>0, <1>1 DEF vars
<1>2. ASSUME NEW t \in Threads, Step(t)
      PROVE  SiteOK'
  <2>1. CASE LockAgain(t)  BY <1>0, <2>1 DEF LockAgain, ReturnLocked
  <2>2. CASE CallLock(t)  BY <1>0, <2>2 DEF CallLock
  <2>3. CASE CallUnlock(t)  BY <1>0, <2>3 DEF CallUnlock
  <2>4. CASE Test(t)  BY <1>0, <2>4 DEF Test, FirstAttemptFailed, ResetLocals
  <2>5. CASE CASRead(t)  BY <1>0, <2>5 DEF CASRead
  <2>6. CASE CASXchg(t)
    <3>1. CASE CASResult(t, nLocker) = NoThread
      BY <1>0, <2>6, <3>1 DEF CASXchg
    <3>2. CASE FirstAttemptFailed(t)
      <4>1. CASE tmo[t] = "zero"
        BY <1>0, <3>2, <4>1 DEF FirstAttemptFailed, ResetLocals
      <4>2. CASE tmo[t] # "zero"
        BY <1>0, <2>6, <3>2, <4>2 DEF CASXchg, FirstAttemptFailed
      <4>3. QED
        BY <4>1, <4>2
    <3>3. CASE UNCHANGED site /\ Goto(t, "spin")
      BY <1>0, <3>3
    <3>4. CASE site[t] = "kernel" /\ UNCHANGED site /\ Goto(t, "check")
      BY <1>0, <3>4
    <3>5. QED
      BY <1>0, <2>6, <3>1, <3>2, <3>3, <3>4 DEF CASXchg, CASFailed, Sites
  <2>7. CASE CASWon(t)  BY <1>0, <2>7 DEF CASWon, ReturnLocked, ResetLocals
  <2>8. CASE Spin(t)  BY <1>0, <2>8 DEF Spin
  <2>9. CASE Alloc(t)  BY <1>0, <2>9 DEF Alloc
  <2>10. CASE AllocRead(t)  BY <1>0, <2>10 DEF AllocRead
  <2>11. CASE AllocXchg(t)  BY <1>0, <2>11 DEF AllocXchg
  <2>12. CASE Minus(t)  BY <1>0, <2>12 DEF Minus, ReturnLocked, ResetLocals
  <2>13. CASE Enter(t)  BY <1>0, <2>13 DEF Enter
  <2>14. CASE Plus(t)  BY <1>0, <2>14 DEF Plus
  <2>15. CASE Check(t)  BY <1>0, <2>15 DEF Check
  <2>16. CASE Release(t)  BY <1>0, <2>16 DEF Release
  <2>17. CASE ReleaseXchg(t)  BY <1>0, <2>17 DEF ReleaseXchg
  <2>18. CASE ReleaseStore(t)  BY <1>0, <2>18 DEF ReleaseStore
  <2>19. CASE ReleaseCheck(t)  BY <1>0, <2>19 DEF ReleaseCheck
  <2>20. CASE ReleaseMinus(t)  BY <1>0, <2>20 DEF ReleaseMinus
  <2>21. CASE ReleasePost(t)  BY <1>0, <2>21 DEF ReleasePost
  <2>22. CASE ReleaseDone(t)  BY <1>0, <2>22 DEF ReleaseDone
  <2>23. CASE TakeToken(t)  BY <1>0, <2>23 DEF TakeToken
  <2>24. CASE TimeOut(t)  BY <1>0, <2>24 DEF TimeOut
  <2>25. CASE WaitFails(t)  BY <1>0, <2>25 DEF WaitFails, ResetLocals
  <2>26. QED
    BY <1>2, <2>1, <2>2, <2>3, <2>4, <2>5, <2>6, <2>7, <2>8, <2>9, <2>10, <2>11,
       <2>12, <2>13, <2>14, <2>15, <2>16, <2>17, <2>18, <2>19, <2>20, <2>21,
       <2>22, <2>23, <2>24, <2>25
       DEF Step, LockStep, UnlockStep, WaitStep
<1>3. QED
  BY <1>1, <1>2 DEF Next

(* The steps that no count takes part in.                                  *)
QuietStep(t) ==
    \/ LockAgain(t) \/ CallLock(t) \/ CallUnlock(t) \/ Test(t)
    \/ CASRead(t) \/ CASXchg(t) \/ CASWon(t) \/ Spin(t) \/ Alloc(t)
    \/ AllocRead(t) \/ AllocXchg(t) \/ Enter(t) \/ Check(t) \/ Release(t)
    \/ ReleaseXchg(t) \/ ReleaseStore(t) \/ ReleaseDone(t) \/ TimeOut(t)

(* A quiet step changes none of the counters, and moves no thread in or out*)
(* of the sets that WaiterBalance and WakeUpsBounded count.                *)
LEMMA QuietStepSets ==
    ASSUME TypeOK, SiteOK, NEW t \in Threads, QuietStep(t)
    PROVE  /\ Counted' = Counted
           /\ Committed' = Committed
           /\ Posting' = Posting
           /\ UNCHANGED counts
<1> USE DEF SiteOK, TypeOK, LocalsOK, ControlOK, PCs, Sites, At, Goto, CASEntry,
            AllocEntry, locals, counts, Counted, Committed, Posting, InKernelCAS
<1>1. CASE LockAgain(t)
  BY <1>1 DEF LockAgain, ReturnLocked
<1>2. CASE CallLock(t)
  BY <1>2 DEF CallLock
<1>3. CASE CallUnlock(t)
  BY <1>3 DEF CallUnlock
<1>4. CASE Test(t)
  BY <1>4 DEF Test, FirstAttemptFailed, ResetLocals
<1>5. CASE CASRead(t)
  BY <1>5 DEF CASRead
<1>6. CASE CASXchg(t)
  <2>1. UNCHANGED counts
    BY <1>6 DEF CASXchg
  <2>2. CASE CASResult(t, nLocker) = NoThread
    BY <1>6, <2>2 DEF CASXchg
  <2>3. CASE CASResult(t, nLocker) # NoThread
    <3>1. pc[t] = "casXchg" /\ CASFailed(t)
      BY <1>6, <2>3 DEF CASXchg
    <3>2. CASE site[t] = "try"
      BY <2>1, <3>1, <3>2 DEF CASFailed, FirstAttemptFailed, ResetLocals
    <3>3. CASE site[t] = "spin"
      BY <2>1, <3>1, <3>3 DEF CASFailed
    <3>4. CASE site[t] = "kernel"
      BY <2>1, <3>1, <3>4 DEF CASFailed
    <3>5. QED
      BY <3>2, <3>3, <3>4
  <2>4. QED
    BY <2>2, <2>3
<1>7. CASE CASWon(t)
  BY <1>7 DEF CASWon, ReturnLocked, ResetLocals
<1>8. CASE Spin(t)
  BY <1>8 DEF Spin
<1>9. CASE Alloc(t)
  BY <1>9 DEF Alloc
<1>10. CASE AllocRead(t)
  BY <1>10 DEF AllocRead
<1>11. CASE AllocXchg(t)
  BY <1>11 DEF AllocXchg
<1>12. CASE Enter(t)
  BY <1>12 DEF Enter
<1>13. CASE Check(t)
  BY <1>13 DEF Check
<1>14. CASE Release(t)
  BY <1>14 DEF Release
<1>15. CASE ReleaseXchg(t)
  BY <1>15 DEF ReleaseXchg
<1>16. CASE ReleaseStore(t)
  BY <1>16 DEF ReleaseStore
<1>17. CASE ReleaseDone(t)
  BY <1>17 DEF ReleaseDone
<1>18. CASE TimeOut(t)
  BY <1>18 DEF TimeOut
<1>19. QED
  BY <1>1, <1>2, <1>3, <1>4, <1>5, <1>6, <1>7, <1>8, <1>9, <1>10, <1>11,
     <1>12, <1>13, <1>14, <1>15, <1>16, <1>17, <1>18
     DEF QuietStep

(* The steps that move a thread in or out of a counted set.                *)
LEMMA CountingStepSets ==
    ASSUME TypeOK, SiteOK, NEW t \in Threads
    PROVE  /\ Plus(t) =>
               /\ t \notin Counted /\ Counted' = Counted \cup {t}
               /\ Committed' = Committed /\ Posting' = Posting
           /\ TakeToken(t) \/ Minus(t) \/ WaitFails(t) =>
               /\ t \in Counted /\ Counted' = Counted \ {t}
               /\ Committed' = Committed /\ Posting' = Posting
           /\ ReleaseCheck(t) /\ HasWaiters =>
               /\ t \notin Counted /\ Counted' = Counted
               /\ t \notin Committed /\ Committed' = Committed \cup {t}
               /\ Posting' = Posting
           /\ ReleaseCheck(t) /\ ~HasWaiters =>
               Counted' = Counted /\ Committed' = Committed /\ Posting' = Posting
           /\ ReleaseMinus(t) =>
               /\ Counted' = Counted
               /\ t \in Committed /\ Committed' = Committed \ {t}
               /\ t \notin Posting /\ Posting' = Posting \cup {t}
           /\ ReleasePost(t) =>
               /\ Counted' = Counted /\ Committed' = Committed
               /\ t \in Posting /\ Posting' = Posting \ {t}
<1> USE DEF SiteOK, TypeOK, LocalsOK, ControlOK, PCs, Sites, At, Goto, CASEntry,
            locals, Counted, Committed, Posting, InKernelCAS
<1>1. CASE Plus(t)
  BY <1>1 DEF Plus, TakeToken, Minus, WaitFails, ReleaseCheck, ReleaseMinus, ReleasePost
<1>2. CASE TakeToken(t)
  BY <1>2 DEF Plus, TakeToken, Minus, WaitFails, ReleaseCheck, ReleaseMinus, ReleasePost
<1>3. CASE Minus(t)
  BY <1>3 DEF Plus, TakeToken, Minus, WaitFails, ReleaseCheck, ReleaseMinus, ReleasePost,
              ReturnLocked, ResetLocals
<1>4. CASE WaitFails(t)
  BY <1>4 DEF Plus, WaitFails, ReleaseCheck, ReleaseMinus, ReleasePost, ResetLocals
<1>5. CASE ReleaseCheck(t)
  BY <1>5 DEF Plus, TakeToken, Minus, WaitFails, ReleaseCheck, ReleaseMinus, ReleasePost
<1>6. CASE ReleaseMinus(t)
  BY <1>6 DEF Plus, TakeToken, Minus, WaitFails, ReleaseCheck, ReleaseMinus, ReleasePost
<1>7. CASE ReleasePost(t)
  BY <1>7 DEF Plus, TakeToken, Minus, WaitFails, ReleaseCheck, ReleaseMinus, ReleasePost
<1>8. QED
  BY <1>1, <1>2, <1>3, <1>4, <1>5, <1>6, <1>7

(* The counted sets are finite, so their cardinalities are numbers.        *)
LEMMA Cardinalities ==
    /\ IsFiniteSet(Counted)   /\ Cardinality(Counted) \in Nat
    /\ IsFiniteSet(Committed) /\ Cardinality(Committed) \in Nat
    /\ IsFiniteSet(Posting)   /\ Cardinality(Posting) \in Nat
<1>1. Counted \subseteq Threads /\ Committed \subseteq Threads /\ Posting \subseteq Threads
  BY DEF Counted, Committed, Posting
<1>2. \A S \in SUBSET Threads : IsFiniteSet(S) /\ Cardinality(S) \in Nat
  BY ThreadsAssumption, FS_Subset, FS_CardinalityType
<1>3. QED
  BY <1>1, <1>2

(* Every step keeps the balance of m.nWaiters: a WaiterPlus, WaiterMinus,  *)
(* wait or post changes both sides of it alike.                            *)
LEMMA BalanceStep ==
    ASSUME TypeOK, SiteOK, WaiterBalance, [Next]_vars
    PROVE  WaiterBalance'
<1> USE Cardinalities DEF WaiterBalance, TypeOK, SharedOK
<1>1. CASE UNCHANGED vars
  <2>1. Counted' = Counted /\ Posting' = Posting
    BY <1>1 DEF vars, locals, Counted, Posting, InKernelCAS
  <2>2. QED
    BY <1>1, <2>1 DEF vars, counts
<1>2. ASSUME NEW t \in Threads, Step(t)
      PROVE  WaiterBalance'
  <2>1. CASE QuietStep(t)
    BY <2>1, QuietStepSets DEF counts
  <2>2. CASE Plus(t)
    <3>1. Cardinality(Counted') = Cardinality(Counted) + 1
      BY <2>2, CountingStepSets, FS_AddElement
    <3>2. Posting' = Posting
      BY <2>2, CountingStepSets
    <3>3. nWaiters' = nWaiters + 1 /\ tokens' = tokens /\ lost' = lost
      BY <2>2 DEF Plus
    <3>4. QED
      BY <3>1, <3>2, <3>3
  <2>3. CASE TakeToken(t) \/ Minus(t) \/ WaitFails(t)
    <3>1. Cardinality(Counted') = Cardinality(Counted) - 1
      BY <2>3, CountingStepSets, FS_RemoveElement
    <3>2. Posting' = Posting
      BY <2>3, CountingStepSets
    <3>3. CASE TakeToken(t)
      BY <3>1, <3>2, <3>3 DEF TakeToken
    <3>4. CASE Minus(t)
      BY <3>1, <3>2, <3>4 DEF Minus
    <3>5. CASE WaitFails(t)
      BY <3>1, <3>2, <3>5 DEF WaitFails
    <3>6. QED
      BY <2>3, <3>3, <3>4, <3>5
  <2>4. CASE ReleaseCheck(t)
    BY <2>4, CountingStepSets DEF ReleaseCheck, counts
  <2>5. CASE ReleaseMinus(t)
    <3>1. Cardinality(Posting') = Cardinality(Posting) + 1
      BY <2>5, CountingStepSets, FS_AddElement
    <3>2. QED
      BY <2>5, <3>1, CountingStepSets DEF ReleaseMinus
  <2>6. CASE ReleasePost(t)
    <3>1. Cardinality(Posting') = Cardinality(Posting) - 1
      BY <2>6, CountingStepSets, FS_RemoveElement
    <3>2. QED
      BY <2>6, <3>1, CountingStepSets DEF ReleasePost
  <2>7. QED
    BY <1>2, <2>1, <2>2, <2>3, <2>4, <2>5, <2>6
       DEF Step, LockStep, UnlockStep, WaitStep, QuietStep
<1>3. QED
  BY <1>1, <1>2 DEF Next

BalanceInv == TypeOK /\ SiteOK /\ WaiterBalance

(* A new CritSectEx has no waiters, no wake-ups and no counted thread.     *)
LEMMA BalanceInit == Init => BalanceInv
<1> SUFFICES ASSUME Init PROVE BalanceInv
  OBVIOUS
<1>1. TypeOK
  <2>1. BooleansOK
    BY Zenon DEF Init, BooleansOK
  <2>2. QED
    BY <2>1 DEF Init, TypeOK, SharedOK, LocalsOK, ControlOK, PCs, Sites,
                TimeoutClasses
<1>2. SiteOK
  BY DEF Init, SiteOK
<1>3. Counted = {} /\ Posting = {}
  BY DEF Init, Counted, Posting, InKernelCAS
<1>4. QED
  BY <1>1, <1>2, <1>3, FS_EmptySet DEF Init, BalanceInv, WaiterBalance

(* The balance of m.nWaiters (WaiterPlus, WaiterMinus, waits and posts)    *)
(* holds in every reachable state, for any number of threads, either build *)
(* and any maximum count.                                                  *)
THEOREM BalanceCorrect == Spec => []WaiterBalance
<1>1. BalanceInv /\ [Next]_vars => BalanceInv'
  BY TypeStep, SiteStep, BalanceStep DEF BalanceInv
<1>2. BalanceInv => WaiterBalance
  BY DEF BalanceInv
<1>3. QED
  BY BalanceInit, <1>1, <1>2, PTL DEF Spec

-----------------------------------------------------------------------------
(* Wake-ups                                                                *)

(* Every step keeps the bound on wake-ups.  A new one starts only in       *)
(* ReleaseCheck, which saw nWaiters > 0: by WaiterBalance there are then   *)
(* more counted threads than tokens and posts, and the unlocker itself is  *)
(* not one of them.                                                        *)
LEMMA WakeUpsStep ==
    ASSUME ~Wide, BalanceInv, WakeUpsBounded, [Next]_vars
    PROVE  WakeUpsBounded'
<1> USE Cardinalities DEF WakeUpsBounded, BalanceInv, TypeOK, SharedOK
<1>0. Cardinality(Threads) \in Nat
  BY ThreadsAssumption, FS_CardinalityType
<1> USE <1>0
<1>1. CASE UNCHANGED vars
  <2>1. Committed' = Committed /\ Posting' = Posting
    BY <1>1 DEF vars, Committed, Posting
  <2>2. QED
    BY <1>1, <2>1 DEF vars, counts
<1>2. ASSUME NEW t \in Threads, Step(t)
      PROVE  WakeUpsBounded'
  <2>1. CASE QuietStep(t)
    BY <2>1, QuietStepSets DEF counts
  <2>2. CASE Plus(t)
    BY <2>2, CountingStepSets DEF Plus
  <2>3. CASE TakeToken(t)
    BY <2>3, CountingStepSets DEF TakeToken
  <2>4. CASE Minus(t)
    BY <2>4, CountingStepSets DEF Minus
  <2>5. CASE WaitFails(t)
    BY <2>5, CountingStepSets DEF WaitFails
  <2>6. CASE ReleaseCheck(t) /\ HasWaiters
    <3>1. Cardinality(Committed') = Cardinality(Committed) + 1
      BY <2>6, CountingStepSets, FS_AddElement
    <3>2. tokens + Cardinality(Posting) <= Cardinality(Counted) + lost - 1
      BY <2>6 DEF HasWaiters, WaiterBalance
    <3>3. Cardinality(Counted) + Cardinality(Committed') <= Cardinality(Threads)
      <4>1. Counted \cap Committed' = {}
        BY <2>6, CountingStepSets DEF Counted, Committed, InKernelCAS
      <4>2. IsFiniteSet(Committed')
        BY <2>6, CountingStepSets, FS_AddElement
      <4>3. Cardinality(Counted \cup Committed')
              = Cardinality(Counted) + Cardinality(Committed')
        <5>1. Cardinality(Counted \cap Committed') = 0
          BY <4>1, FS_EmptySet
        <5>2. Cardinality(Counted \cup Committed')
                = Cardinality(Counted) + Cardinality(Committed')
                  - Cardinality(Counted \cap Committed')
          BY <4>2, FS_Union
        <5>3. QED
          BY <3>1, <5>1, <5>2
      <4>4. Counted \cup Committed' \subseteq Threads
        BY DEF Counted, Committed
      <4>5. Cardinality(Counted \cup Committed') <= Cardinality(Threads)
        BY <4>4, ThreadsAssumption, FS_Subset
      <4>6. QED
        BY <4>3, <4>5
    <3>4. QED
      BY <2>6, <3>1, <3>2, <3>3, CountingStepSets DEF ReleaseCheck, counts
  <2>7. CASE ReleaseCheck(t) /\ ~HasWaiters
    BY <2>7, CountingStepSets DEF ReleaseCheck, counts
  <2>8. CASE ReleaseMinus(t)
    <3>1. Cardinality(Posting') = Cardinality(Posting) + 1
      BY <2>8, CountingStepSets, FS_AddElement
    <3>2. Cardinality(Committed') = Cardinality(Committed) - 1
      BY <2>8, CountingStepSets, FS_RemoveElement
    <3>3. QED
      BY <2>8, <3>1, <3>2 DEF ReleaseMinus
  <2>9. CASE ReleasePost(t)
    <3>1. Cardinality(Posting') = Cardinality(Posting) - 1
      BY <2>9, CountingStepSets, FS_RemoveElement
    <3>2. QED
      BY <2>9, <3>1, CountingStepSets DEF ReleasePost
  <2>10. QED
    BY <1>2, <2>1, <2>2, <2>3, <2>4, <2>5, <2>6, <2>7, <2>8, <2>9
       DEF Step, LockStep, UnlockStep, WaitStep, QuietStep
<1>3. QED
  BY <1>1, <1>2 DEF Next

WakeUpsInv == BalanceInv /\ WakeUpsBounded

(* WakeUpsInv holds initially and every step keeps it.                     *)
LEMMA WakeUpsInvariant ==
    ASSUME ~Wide
    PROVE  /\ Init => WakeUpsInv
           /\ WakeUpsInv /\ [Next]_vars => WakeUpsInv'
<1>1. ASSUME Init
      PROVE  WakeUpsInv
  <2>1. Committed = {} /\ Posting = {}
    BY <1>1 DEF Init, Committed, Posting
  <2>2. Cardinality(Threads) \in Nat /\ Cardinality(Threads) # 0
    BY ThreadsAssumption, FS_CardinalityType, FS_EmptySet
  <2>3. QED
    BY <1>1, <2>1, <2>2, FS_EmptySet, BalanceInit
       DEF Init, WakeUpsInv, WakeUpsBounded
<1>2. WakeUpsInv /\ [Next]_vars => WakeUpsInv'
  BY TypeStep, SiteStep, BalanceStep, WakeUpsStep DEF WakeUpsInv, BalanceInv
<1>3. QED
  BY <1>1, <1>2

(* On a build whose nWaiters is as wide as its atomic operations,          *)
(* PerfUnlock never piles up more wake-ups than there are other threads and*)
(* lost waiters.                                                           *)
THEOREM WakeUpsCorrect ==
    ASSUME ~Wide
    PROVE  Spec => []WakeUpsBounded
<1>1. WakeUpsInv => WakeUpsBounded
  BY DEF WakeUpsInv
<1>2. QED
  BY WakeUpsInvariant, <1>1, PTL DEF Spec

-----------------------------------------------------------------------------
(* Unlock                                                                  *)

(* A maximum count that the wake-ups of all the other threads, and of the  *)
(* waiters lost to exceptions, cannot exceed.                              *)
Ample ==
    /\ ~Wide
    /\ MaxCount >= Cardinality(Threads) - 1 + MaxFailures

LostBounded == lost \in 0 .. MaxFailures

AmpleInv == WakeUpsInv /\ LostBounded

(* With an ample maximum count the post of an unlocker has room.           *)
LEMMA PostSucceeds ==
    ASSUME Ample, AmpleInv
    PROVE  UnlockNeverThrows
<1> SUFFICES ASSUME NEW t \in Threads, pc[t] = "relPost"
             PROVE  tokens < MaxCount
  BY DEF UnlockNeverThrows
<1>1. t \in Posting
  BY DEF Posting
<1>2. Cardinality(Posting) >= 1
  BY <1>1, Cardinalities, FS_EmptySet
<1>3. Cardinality(Threads) \in Nat
  BY ThreadsAssumption, FS_CardinalityType
<1>4. QED
  BY <1>2, <1>3, Cardinalities, ParameterAssumption
     DEF Ample, AmpleInv, WakeUpsInv, WakeUpsBounded, LostBounded, BalanceInv,
         TypeOK, SharedOK

(* Nothing but a failing wait changes the number of lost waiters, because  *)
(* no post fails; and failing waits are bounded.                           *)
LEMMA LostStep ==
    ASSUME Ample, AmpleInv, [Next]_vars
    PROVE  LostBounded'
<1> USE ParameterAssumption DEF LostBounded, counts
<1>1. LostBounded
  BY DEF AmpleInv
<1>2. CASE UNCHANGED vars
  BY <1>1, <1>2 DEF vars
<1>3. ASSUME NEW t \in Threads, Step(t)
      PROVE  LostBounded'
  <2>1. CASE QuietStep(t)
    BY <1>1, <2>1, QuietStepSets DEF AmpleInv, WakeUpsInv, BalanceInv
  <2>2. CASE Plus(t) \/ TakeToken(t) \/ Minus(t) \/ ReleaseCheck(t) \/ ReleaseMinus(t)
    BY <1>1, <2>2 DEF Plus, TakeToken, Minus, ReleaseCheck, ReleaseMinus
  <2>3. CASE WaitFails(t)
    BY <1>1, <2>3 DEF WaitFails
  <2>4. CASE ReleasePost(t)
    <3>1. tokens < MaxCount
      BY <2>4, PostSucceeds DEF ReleasePost, At, UnlockNeverThrows
    <3>2. ~(tokens >= MaxCount)
      BY <3>1 DEF AmpleInv, WakeUpsInv, BalanceInv, TypeOK, SharedOK
    <3>3. QED
      BY <1>1, <2>4, <3>2 DEF ReleasePost
  <2>5. QED
    BY <1>3, <2>1, <2>2, <2>3, <2>4
       DEF Step, LockStep, UnlockStep, WaitStep, QuietStep
<1>4. QED
  BY <1>2, <1>3 DEF Next

(* AmpleInv holds initially and every step keeps it.                       *)
LEMMA AmpleInvariant ==
    ASSUME Ample
    PROVE  /\ Init => AmpleInv
           /\ AmpleInv /\ [Next]_vars => AmpleInv'
<1>1. ASSUME Init
      PROVE  AmpleInv
  <2>1. LostBounded
    BY <1>1, ParameterAssumption DEF Init, LostBounded
  <2>2. WakeUpsInv
    BY <1>1, WakeUpsInvariant DEF Ample
  <2>3. QED
    BY <2>1, <2>2 DEF AmpleInv
<1>2. AmpleInv /\ [Next]_vars => AmpleInv'
  BY WakeUpsInvariant, LostStep DEF Ample, AmpleInv
<1>3. QED
  BY <1>1, <1>2

(* The assertion around ReleaseSemaphore in PerfUnlock never fails, for any*)
(* number of threads, when the semaphore counts that far.                  *)
THEOREM UnlockCorrect ==
    ASSUME Ample
    PROVE  Spec => []UnlockNeverThrows
<1>1. AmpleInv => UnlockNeverThrows
  BY PostSucceeds
<1>2. QED
  BY AmpleInvariant, <1>1, PTL DEF Spec

-----------------------------------------------------------------------------
(* No lost wake-up                                                         *)

(* Every step keeps NoStrandedWaiter.  The case that matters is an unlocker*)
(* that sees nWaiters <= 0 and posts nothing: by WaiterBalance, a thread   *)
(* about to sleep then implies a token or another unlocker about to post   *)
(* one.                                                                    *)
LEMMA NoStrandedStep ==
    ASSUME Ample, AmpleInv, NoStrandedWaiter, [Next]_vars
    PROVE  NoStrandedWaiter'
<1> USE ThreadsAssumption DEF NoStrandedWaiter, AboutToSleep, Unlocking, Retrying
<1>1. TypeOK /\ SiteOK /\ WaiterBalance /\ lost >= 0
  BY DEF AmpleInv, WakeUpsInv, BalanceInv, LostBounded
<1>2. CASE UNCHANGED vars
  BY <1>2 DEF vars, word, counts, locals
<1>3. ASSUME NEW t \in Threads, Step(t)
      PROVE  NoStrandedWaiter'
  <2> USE <1>1 DEF TypeOK, SharedOK, LocalsOK, ControlOK, SiteOK, Sites, PCs, At, Goto,
                   CASEntry, AllocEntry, word, counts, locals
  <2>1. CASE LockAgain(t)
    BY <2>1 DEF LockAgain, ReturnLocked
  <2>2. CASE CallLock(t)
    BY <2>2 DEF CallLock
  <2>3. CASE CallUnlock(t)
    BY <2>3 DEF CallUnlock
  <2>4. CASE Test(t)
    BY <2>4 DEF Test, FirstAttemptFailed, ResetLocals
  <2>5. CASE CASRead(t)
    BY <2>5 DEF CASRead
  <2>6. CASE CASXchg(t)
    <3>1. nLocker' # NoThread
      BY <2>6 DEF CASXchg
    <3>2. QED
      BY <3>1
  <2>7. CASE CASWon(t)
    <3>1. nLocker' = nLocker /\ tokens' = tokens
      BY <2>7 DEF CASWon
    <3>2. /\ pc[t] \in {"casWon", "minusTrue", "minusFalse", "spin"}
          /\ pc'[t] \notin {"check", "wait"}
          /\ \A s \in Threads : s # t => pc'[s] = pc[s]
      BY <2>7 DEF CASWon, ReturnLocked
    <3>3. \A s \in Threads : s # t => site'[s] = site[s]
      BY <2>7 DEF CASWon, ResetLocals
    <3>4. /\ AboutToSleep' \subseteq AboutToSleep
          /\ Unlocking \subseteq Unlocking'
          /\ Retrying \subseteq Retrying'
      BY <3>2, <3>3
    <3>5. QED
      BY <3>1, <3>4
  <2>8. CASE Spin(t)
    <3>1. nLocker' = nLocker /\ tokens' = tokens
      BY <2>8 DEF Spin
    <3>2. /\ pc[t] \in {"casWon", "minusTrue", "minusFalse", "spin"}
          /\ pc'[t] \notin {"check", "wait"}
          /\ \A s \in Threads : s # t => pc'[s] = pc[s]
      BY <2>8 DEF Spin, ReturnLocked
    <3>3. \A s \in Threads : s # t => site'[s] = site[s]
      BY <2>8 DEF Spin, ResetLocals
    <3>4. /\ AboutToSleep' \subseteq AboutToSleep
          /\ Unlocking \subseteq Unlocking'
          /\ Retrying \subseteq Retrying'
      BY <3>2, <3>3
    <3>5. QED
      BY <3>1, <3>4
  <2>9. CASE Alloc(t)
    BY <2>9 DEF Alloc
  <2>10. CASE AllocRead(t)
    BY <2>10 DEF AllocRead
  <2>11. CASE AllocXchg(t)
    BY <2>11 DEF AllocXchg
  <2>12. CASE Minus(t)
    <3>1. nLocker' = nLocker /\ tokens' = tokens
      BY <2>12 DEF Minus
    <3>2. /\ pc[t] \in {"casWon", "minusTrue", "minusFalse", "spin"}
          /\ pc'[t] \notin {"check", "wait"}
          /\ \A s \in Threads : s # t => pc'[s] = pc[s]
      BY <2>12 DEF Minus, ReturnLocked
    <3>3. \A s \in Threads : s # t => site'[s] = site[s]
      BY <2>12 DEF Minus, ResetLocals
    <3>4. /\ AboutToSleep' \subseteq AboutToSleep
          /\ Unlocking \subseteq Unlocking'
          /\ Retrying \subseteq Retrying'
      BY <3>2, <3>3
    <3>5. QED
      BY <3>1, <3>4
  <2>13. CASE Enter(t)
    BY <2>13 DEF Enter
  <2>14. CASE Plus(t)
    BY <2>14 DEF Plus
  <2>15. CASE Check(t)
    BY <2>15 DEF Check
  <2>16. CASE Release(t)
    BY <2>16 DEF Release
  <2>17. CASE ReleaseXchg(t)
    BY <2>17 DEF ReleaseXchg
  <2>18. CASE ReleaseStore(t)
    BY <2>18 DEF ReleaseStore
  <2>19. CASE ReleaseCheck(t)
    <3>1. CASE HasWaiters
      BY <2>19, <3>1 DEF ReleaseCheck
    <3>2. CASE ~HasWaiters
      <4>1. CASE AboutToSleep = {}
        BY <2>19, <3>2, <4>1 DEF ReleaseCheck
      <4>2. CASE AboutToSleep # {}
        <5>1. Cardinality(Counted) >= 1
          <6>1. Counted # {}
            BY <4>2 DEF Counted
          <6>2. QED
            BY <6>1, Cardinalities, FS_EmptySet
        <5>2. tokens + Cardinality(Posting) >= 1
          BY <3>2, <5>1, Cardinalities DEF HasWaiters, WaiterBalance, Ample
        <5>3. tokens > 0 \/ Posting # {}
          <6>1. Posting = {} => Cardinality(Posting) = 0
            BY FS_EmptySet
          <6>2. QED
            BY <5>2, <6>1
        <5>4. QED
          BY <2>19, <5>3 DEF ReleaseCheck, Posting
      <4>3. QED
        BY <4>1, <4>2
    <3>3. QED
      BY <3>1, <3>2
  <2>20. CASE ReleaseMinus(t)
    BY <2>20 DEF ReleaseMinus
  <2>21. CASE ReleasePost(t)
    <3>1. tokens < MaxCount
      BY <2>21, PostSucceeds DEF ReleasePost, UnlockNeverThrows
    <3>2. tokens' > 0
      BY <2>21, <3>1, ParameterAssumption DEF ReleasePost
    <3>3. QED
      BY <3>2
  <2>22. CASE ReleaseDone(t)
    BY <2>22 DEF ReleaseDone
  <2>23. CASE TakeToken(t)
    BY <2>23 DEF TakeToken
  <2>24. CASE TimeOut(t)
    BY <2>24 DEF TimeOut
  <2>25. CASE WaitFails(t)
    BY <2>25 DEF WaitFails, ResetLocals
  <2>26. QED
    BY <1>3, <2>1, <2>2, <2>3, <2>4, <2>5, <2>6, <2>7, <2>8, <2>9, <2>10, <2>11,
       <2>12, <2>13, <2>14, <2>15, <2>16, <2>17, <2>18, <2>19, <2>20, <2>21,
       <2>22, <2>23, <2>24, <2>25
       DEF Step, LockStep, UnlockStep, WaitStep
<1>4. QED
  BY <1>2, <1>3 DEF Next

(* PerfLockKernel and PerfUnlock lose no wake-up, for any number of threads*)
(* and with either compare-and-exchange: no thread sleeps on the semaphore *)
(* of a free lock unless a wake-up is under way.                           *)
THEOREM NoStrandedCorrect ==
    ASSUME Ample
    PROVE  Spec => []NoStrandedWaiter
<1> DEFINE Inv == AmpleInv /\ NoStrandedWaiter
<1>1. Init => Inv
  BY AmpleInvariant DEF Init, NoStrandedWaiter, AboutToSleep
<1>2. Inv /\ [Next]_vars => Inv'
  BY AmpleInvariant, NoStrandedStep
<1>3. Inv => NoStrandedWaiter
  OBVIOUS
<1>4. QED
  BY <1>1, <1>2, <1>3, PTL DEF Spec

-----------------------------------------------------------------------------
(* No orphaned lock                                                        *)

(* A Lock call that returns leaves the flags of the enclosing Lock calls on*)
(* the stack.                                                              *)
LEMMA PushKeeps ==
    ASSUME NEW s \in Seq(UnlockFlags), NEW f \in UnlockFlags,
           NEW i \in DOMAIN s, s[i] = "true"
    PROVE  \E j \in DOMAIN (<<f>> \o s) : (<<f>> \o s)[j] = "true"
<1>1. i + 1 \in DOMAIN (<<f>> \o s) /\ (<<f>> \o s)[i + 1] = s[i]
  OBVIOUS
<1>2. QED
  BY <1>1

(* A Lock call that returns with bUnlockFlag = true owes an Unlock(true).  *)
LEMMA PushTrue ==
    ASSUME NEW s \in Seq(UnlockFlags)
    PROVE  \E j \in DOMAIN (<<"true">> \o s) : (<<"true">> \o s)[j] = "true"
<1>1. 1 \in DOMAIN (<<"true">> \o s) /\ (<<"true">> \o s)[1] = "true"
  OBVIOUS
<1>2. QED
  BY <1>1

(* An Unlock(false) leaves the enclosing Unlock(true) owed.                *)
LEMMA PopKeeps ==
    ASSUME NEW s \in Seq(UnlockFlags), s # <<>>, Head(s) # "true",
           NEW i \in DOMAIN s, s[i] = "true"
    PROVE  \E j \in DOMAIN Tail(s) : Tail(s)[j] = "true"
<1>1. i # 1
  OBVIOUS
<1>2. i - 1 \in DOMAIN Tail(s) /\ Tail(s)[i - 1] = s[i]
  BY <1>1
<1>3. QED
  BY <1>2

(* Where a thread goes when PerfLockImmediate fails.                       *)
LEMMA CASFailedControl ==
    ASSUME LocalsOK, NEW t \in Threads, CASFailed(t)
    PROVE  \E label \in {"idle", "spin", "check"} : Goto(t, label)
<1>1. CASE site[t] = "try"
  BY <1>1 DEF CASFailed, FirstAttemptFailed
<1>2. CASE site[t] = "spin"
  BY <1>2 DEF CASFailed
<1>3. CASE site[t] = "kernel"
  BY <1>3 DEF CASFailed
<1>4. QED
  BY <1>1, <1>2, <1>3 DEF LocalsOK, Sites

(* A releasing owner compares the lock word with its own id.               *)
ComparandOK ==
    \A t \in Threads : pc[t] = "relXchg" /\ nLocker = t => old[t] = t

OrphanInv == TypeOK /\ ComparandOK /\ NoOrphanedLock

(* A step writes the lock word only with 0 or with the id of the thread    *)
(* that takes it, and touches only the state of that thread.               *)
LEMMA LockWordStep ==
    ASSUME ~StaleCAS, TypeOK, NEW t \in Threads, Step(t)
    PROVE  /\ \/ nLocker' = nLocker
              \/ nLocker' = NoThread
              \/ nLocker' = t /\ pc'[t] = "casWon"
           /\ \A s \in Threads : s # t => /\ pc'[s] = pc[s]
                                         /\ flags'[s] = flags[s]
                                         /\ old'[s] = old[s]
<1> USE DEF TypeOK, SharedOK, ControlOK, PCs, At, Goto, word
<1>1. CASE LockAgain(t)
  BY <1>1 DEF LockAgain, ReturnLocked
<1>2. CASE CallLock(t)
  BY <1>2 DEF CallLock
<1>3. CASE CallUnlock(t)
  BY <1>3 DEF CallUnlock
<1>4. CASE Test(t)
  BY <1>4 DEF Test, FirstAttemptFailed
<1>5. CASE CASRead(t)
  BY <1>5 DEF CASRead
<1>6. CASE CASXchg(t)
  <2>1. flags' = flags /\ (\A s \in Threads : s # t => old'[s] = old[s])
    BY <1>6 DEF CASXchg
  <2>2. \/ CASResult(t, nLocker) = NoThread /\ Goto(t, "casWon")
        \/ CASResult(t, nLocker) # NoThread /\ CASFailed(t)
    BY <1>6 DEF CASXchg
  <2>3. \E label \in {"casWon", "idle", "spin", "check"} : Goto(t, label)
    BY <2>2, CASFailedControl
  <2>4. \A s \in Threads : s # t => pc'[s] = pc[s]
    BY <2>3
  <2>5. nLocker = NoThread => pc'[t] = "casWon" /\ nLocker' = t
    BY <1>6, <2>2 DEF CASXchg, CASResult
  <2>6. nLocker # NoThread => nLocker' = nLocker
    BY <1>6 DEF CASXchg
  <2>7. QED
    BY <2>1, <2>4, <2>5, <2>6
<1>7. CASE CASWon(t)
  BY <1>7 DEF CASWon, ReturnLocked
<1>8. CASE Spin(t)
  BY <1>8 DEF Spin
<1>9. CASE Alloc(t)
  BY <1>9 DEF Alloc
<1>10. CASE AllocRead(t)
  BY <1>10 DEF AllocRead
<1>11. CASE AllocXchg(t)
  BY <1>11 DEF AllocXchg
<1>12. CASE Minus(t)
  BY <1>12 DEF Minus, ReturnLocked
<1>13. CASE Enter(t)
  BY <1>13 DEF Enter
<1>14. CASE Plus(t)
  BY <1>14 DEF Plus
<1>15. CASE Check(t)
  BY <1>15 DEF Check
<1>16. CASE Release(t)
  BY <1>16 DEF Release
<1>17. CASE ReleaseXchg(t)
  BY <1>17 DEF ReleaseXchg
<1>18. CASE ReleaseStore(t)
  BY <1>18 DEF ReleaseStore
<1>19. CASE ReleaseCheck(t)
  BY <1>19 DEF ReleaseCheck
<1>20. CASE ReleaseMinus(t)
  BY <1>20 DEF ReleaseMinus
<1>21. CASE ReleasePost(t)
  BY <1>21 DEF ReleasePost
<1>22. CASE ReleaseDone(t)
  BY <1>22 DEF ReleaseDone
<1>23. CASE TakeToken(t)
  BY <1>23 DEF TakeToken
<1>24. CASE TimeOut(t)
  BY <1>24 DEF TimeOut
<1>25. CASE WaitFails(t)
  BY <1>25 DEF WaitFails
<1>26. QED
  BY <1>1, <1>2, <1>3, <1>4, <1>5, <1>6, <1>7, <1>8, <1>9, <1>10, <1>11,
     <1>12, <1>13, <1>14, <1>15, <1>16, <1>17, <1>18, <1>19, <1>20, <1>21,
     <1>22, <1>23, <1>24, <1>25
     DEF Step, LockStep, UnlockStep, WaitStep

(* A thread that owns the lock word goes on owing its release until it has *)
(* released it.                                                            *)
LEMMA OwnerStep ==
    ASSUME ~StaleCAS, OrphanInv, NEW t \in Threads, Step(t), nLocker = t, nLocker' = t
    PROVE  WillRelease(t)'
<1> USE DEF OrphanInv, TypeOK, SharedOK, LocalsOK, ControlOK, PCs, At, Goto,
            WillRelease, word
<1>1. WillRelease(t) /\ t # NoThread
  BY ThreadsAssumption DEF NoOrphanedLock
<1>2. flags[t] \in Seq(UnlockFlags)
  OBVIOUS
<1>3. CASE LockAgain(t)
  <2>1. OwesUnlock(t)
    BY <1>1, <1>3 DEF LockAgain
  <2>2. flags'[t] = <<"false">> \o flags[t]
    BY <1>3 DEF LockAgain, ReturnLocked
  <2>3. QED
    BY <1>2, <2>1, <2>2, PushKeeps DEF OwesUnlock, UnlockFlags
<1>4. CASE CallLock(t)
  BY <1>1, <1>4 DEF CallLock, OwesUnlock
<1>5. CASE CallUnlock(t)
  <2>1. CASE Head(flags[t]) = "true"
    BY <1>5, <2>1 DEF CallUnlock
  <2>2. CASE Head(flags[t]) # "true"
    <3>1. OwesUnlock(t)
      BY <1>1, <1>5 DEF CallUnlock
    <3>2. flags'[t] = Tail(flags[t]) /\ flags[t] # <<>>
      BY <1>5 DEF CallUnlock
    <3>3. QED
      BY <1>2, <2>2, <3>1, <3>2, PopKeeps DEF OwesUnlock
  <2>3. QED
    BY <2>1, <2>2
<1>6. CASE Test(t)
  BY <1>1, <1>6 DEF Test, OwesUnlock
<1>7. CASE CASRead(t)
  BY <1>1, <1>7 DEF CASRead, OwesUnlock
<1>8. CASE CASXchg(t)
  BY <1>1, <1>8 DEF CASXchg, OwesUnlock
<1>9. CASE CASWon(t)
  <2>1. CASE site[t] # "kernel"
    <3>1. flags'[t] = <<"true">> \o flags[t]
      BY <1>9, <2>1 DEF CASWon, ReturnLocked
    <3>2. QED
      BY <1>2, <3>1, PushTrue DEF OwesUnlock
  <2>2. CASE site[t] = "kernel"
    BY <1>9, <2>2 DEF CASWon
  <2>3. QED
    BY <2>1, <2>2
<1>10. CASE Spin(t)
  BY <1>1, <1>10 DEF Spin, OwesUnlock
<1>11. CASE Alloc(t)
  BY <1>1, <1>11 DEF Alloc, OwesUnlock
<1>12. CASE AllocRead(t)
  BY <1>1, <1>12 DEF AllocRead, OwesUnlock
<1>13. CASE AllocXchg(t)
  BY <1>1, <1>13 DEF AllocXchg, OwesUnlock
<1>14. CASE Minus(t)
  <2>1. CASE pc[t] = "minusTrue"
    <3>1. flags'[t] = <<"true">> \o flags[t]
      BY <1>14, <2>1 DEF Minus, ReturnLocked
    <3>2. QED
      BY <1>2, <3>1, PushTrue DEF OwesUnlock
  <2>2. CASE pc[t] # "minusTrue"
    <3>1. flags' = flags /\ OwesUnlock(t)
      BY <1>1, <1>14, <2>2 DEF Minus
    <3>2. QED
      BY <3>1 DEF OwesUnlock
  <2>3. QED
    BY <2>1, <2>2
<1>15. CASE Enter(t)
  BY <1>1, <1>15 DEF Enter, OwesUnlock
<1>16. CASE Plus(t)
  BY <1>1, <1>16 DEF Plus, OwesUnlock
<1>17. CASE Check(t)
  BY <1>1, <1>17 DEF Check, OwesUnlock
<1>18. CASE Release(t)
  BY <1>18 DEF Release
<1>19. CASE ReleaseXchg(t)
  BY <1>1, <1>19 DEF ReleaseXchg, ComparandOK
<1>20. CASE ReleaseStore(t)
  BY <1>1, <1>20 DEF ReleaseStore
<1>21. CASE ReleaseCheck(t)
  BY <1>1, <1>21 DEF ReleaseCheck, OwesUnlock
<1>22. CASE ReleaseMinus(t)
  BY <1>1, <1>22 DEF ReleaseMinus, OwesUnlock
<1>23. CASE ReleasePost(t)
  BY <1>1, <1>23 DEF ReleasePost, OwesUnlock
<1>24. CASE ReleaseDone(t)
  BY <1>1, <1>24 DEF ReleaseDone, OwesUnlock
<1>25. CASE TakeToken(t)
  BY <1>1, <1>25 DEF TakeToken, OwesUnlock
<1>26. CASE TimeOut(t)
  BY <1>1, <1>26 DEF TimeOut, OwesUnlock
<1>27. CASE WaitFails(t)
  BY <1>1, <1>27 DEF WaitFails, OwesUnlock
<1>28. QED
  BY <1>3, <1>4, <1>5, <1>6, <1>7, <1>8, <1>9, <1>10, <1>11, <1>12, <1>13,
     <1>14, <1>15, <1>16, <1>17, <1>18, <1>19, <1>20, <1>21, <1>22, <1>23,
     <1>24, <1>25, <1>26, <1>27
     DEF Step, LockStep, UnlockStep, WaitStep

(* ComparandOK is inductive: nobody but its owner takes the lock word away *)
(* from a thread between the two halves of its releasing exchange.         *)
LEMMA ComparandStep ==
    ASSUME ~StaleCAS, OrphanInv, NEW t \in Threads, Step(t)
    PROVE  ComparandOK'
<1> SUFFICES ASSUME NEW s \in Threads, pc'[s] = "relXchg", nLocker' = s
             PROVE  old'[s] = s
  BY DEF ComparandOK
<1>1. s # NoThread
  BY ThreadsAssumption
<1>2. CASE s # t
  BY <1>1, <1>2, LockWordStep DEF OrphanInv, ComparandOK
<1>3. CASE s = t
  <2>1. Release(t) \/ pc[t] = "relXchg"
    <3> USE <1>3 DEF OrphanInv, TypeOK, ControlOK, PCs, At, Goto
    <3>1. CASE LockAgain(t)
      BY <3>1 DEF LockAgain, ReturnLocked
    <3>2. CASE CallLock(t)
      BY <3>2 DEF CallLock
    <3>3. CASE CallUnlock(t)
      BY <3>3 DEF CallUnlock
    <3>4. CASE Test(t)
      BY <3>4 DEF Test, FirstAttemptFailed, CASEntry
    <3>5. CASE CASRead(t)
      BY <3>5 DEF CASRead
    <3>6. CASE CASXchg(t)
      <4>1. Goto(t, "casWon") \/ CASFailed(t)
        BY <3>6 DEF CASXchg
      <4>2. \E label \in {"casWon", "idle", "spin", "check"} : Goto(t, label)
        BY <4>1, CASFailedControl
      <4>3. QED
        BY <4>2
    <3>7. CASE CASWon(t)
      BY <3>7 DEF CASWon, ReturnLocked
    <3>8. CASE Spin(t)
      BY <3>8 DEF Spin, CASEntry
    <3>9. CASE Alloc(t)
      BY <3>9 DEF Alloc, AllocEntry
    <3>10. CASE AllocRead(t)
      BY <3>10 DEF AllocRead
    <3>11. CASE AllocXchg(t)
      BY <3>11 DEF AllocXchg
    <3>12. CASE Minus(t)
      BY <3>12 DEF Minus, ReturnLocked
    <3>13. CASE Enter(t)
      BY <3>13 DEF Enter
    <3>14. CASE Plus(t)
      BY <3>14 DEF Plus, CASEntry
    <3>15. CASE Check(t)
      BY <3>15 DEF Check
    <3>16. CASE ReleaseXchg(t)
      BY <3>16 DEF ReleaseXchg
    <3>17. CASE ReleaseStore(t)
      BY <3>17 DEF ReleaseStore
    <3>18. CASE ReleaseCheck(t)
      BY <3>18 DEF ReleaseCheck
    <3>19. CASE ReleaseMinus(t)
      BY <3>19 DEF ReleaseMinus
    <3>20. CASE ReleasePost(t)
      BY <3>20 DEF ReleasePost
    <3>21. CASE ReleaseDone(t)
      BY <3>21 DEF ReleaseDone
    <3>22. CASE TakeToken(t)
      BY <3>22 DEF TakeToken
    <3>23. CASE TimeOut(t)
      BY <3>23 DEF TimeOut, CASEntry
    <3>24. CASE WaitFails(t)
      BY <3>24 DEF WaitFails
    <3>25. QED
      BY <3>1, <3>2, <3>3, <3>4, <3>5, <3>6, <3>7, <3>8, <3>9, <3>10, <3>11,
         <3>12, <3>13, <3>14, <3>15, <3>16, <3>17, <3>18, <3>19, <3>20,
         <3>21, <3>22, <3>23, <3>24
         DEF Step, LockStep, UnlockStep, WaitStep
  <2>2. CASE Release(t)
    BY <1>3, <2>2 DEF Release, OrphanInv, TypeOK, ControlOK, word
  <2>3. CASE pc[t] = "relXchg"
    <3>1. ReleaseXchg(t)
      BY <2>3 DEF Step, LockStep, UnlockStep, WaitStep, LockAgain, CallLock,
           CallUnlock, Test, CASRead, CASXchg, CASWon, Spin, Alloc, AllocRead,
           AllocXchg, Minus, Enter, Plus, Check, Release, ReleaseStore,
           ReleaseCheck, ReleaseMinus, ReleasePost, ReleaseDone, TakeToken,
           TimeOut, WaitFails, At
    <3>2. QED
      BY <1>3, <3>1 DEF ReleaseXchg, Goto, OrphanInv, TypeOK, ControlOK, PCs
  <2>4. QED
    BY <2>1, <2>2, <2>3
<1>4. QED
  BY <1>2, <1>3

(* OrphanInv holds at first.                                               *)
LEMMA OrphanInit == Init => OrphanInv
<1>1. Init => BalanceInv
  BY BalanceInit
<1>2. QED
  BY <1>1 DEF Init, OrphanInv, BalanceInv, ComparandOK, NoOrphanedLock

(* OrphanInv is inductive.                                                 *)
LEMMA OrphanStep ==
    ASSUME ~StaleCAS, OrphanInv, [Next]_vars
    PROVE  OrphanInv'
<1>1. TypeOK'
  BY TypeStep DEF OrphanInv
<1>2. CASE UNCHANGED vars
  BY <1>1, <1>2 DEF vars, word, OrphanInv, ComparandOK, NoOrphanedLock,
                          WillRelease, OwesUnlock
<1>3. ASSUME NEW t \in Threads, Step(t)
      PROVE  OrphanInv'
  <2>1. ComparandOK'
    BY <1>3, ComparandStep
  <2>2. ASSUME NEW o \in Threads, nLocker' = o
        PROVE  WillRelease(o)'
    <3>1. CASE o = t /\ pc'[t] = "casWon"
      BY <3>1 DEF WillRelease
    <3>2. CASE o = t /\ nLocker = t
      BY <1>3, <2>2, <3>2, OwnerStep
    <3>3. CASE o # t /\ nLocker = o
      <4>1. WillRelease(o)
        BY <3>3, ThreadsAssumption DEF OrphanInv, NoOrphanedLock
      <4>2. pc'[o] = pc[o] /\ flags'[o] = flags[o]
        BY <1>3, <3>3, LockWordStep DEF OrphanInv
      <4>3. QED
        BY <4>1, <4>2 DEF WillRelease, OwesUnlock
    <3>4. QED
      BY <1>3, <2>2, <3>1, <3>2, <3>3, LockWordStep, ThreadsAssumption
         DEF OrphanInv
  <2>3. nLocker' \in Threads \cup {NoThread}
    BY <1>1 DEF TypeOK, SharedOK
  <2>4. NoOrphanedLock'
    BY <2>2, <2>3 DEF NoOrphanedLock
  <2>5. QED
    BY <1>1, <2>1, <2>4 DEF OrphanInv
<1>4. QED
  BY <1>2, <1>3 DEF Next

(* With a compare-and-exchange that returns what it found, a CritSectEx is *)
(* never left locked by a thread that will not unlock it, for any number of*)
(* threads and any nesting.                                                *)
THEOREM NoOrphanedCorrect ==
    ASSUME ~StaleCAS
    PROVE  Spec => []NoOrphanedLock
<1>1. OrphanInv => NoOrphanedLock
  BY DEF OrphanInv
<1>2. QED
  BY <1>1, OrphanInit, OrphanStep, PTL DEF Spec

-----------------------------------------------------------------------------
(* One semaphore                                                           *)

(* The places of PerfLockKernel and of PerfUnlock that rely on m.hSemaphore.*)
NeedsSemaphore(t) ==
    \/ pc[t] \in {"enter", "plus", "check", "wait", "minusTrue", "minusFalse",
                  "relMinus", "relPost"}
    \/ InKernelCAS(t)

(* The semaphore that is installed is open, nobody is counted before it is *)
(* there, and a semaphore besides it belongs to a thread that is about to  *)
(* install its own or to close it.                                         *)
SemaphoreInv ==
    /\ hSemaphore # NoThread => hSemaphore \in handles
    /\ hSemaphore = NoThread => nWaiters = 0
    /\ \A t \in Threads :
        /\ t \in handles => t = hSemaphore \/ pc[t] \in {"allocRead", "allocXchg"}
        /\ pc[t] \in {"allocRead", "allocXchg"} => t \in handles /\ t # hSemaphore
        /\ NeedsSemaphore(t) => hSemaphore # NoThread

SemaphoreIInv == TypeOK /\ SiteOK /\ SemaphoreInv

(* A step outside AllocateKernelSemaphore that moves its thread to a place *)
(* that relies on the semaphore only if the semaphore is there, and that   *)
(* changes nWaiters only then, keeps SemaphoreInv.                         *)
LEMMA SemaphoreKept ==
    ASSUME SemaphoreIInv, NEW t \in Threads, UNCHANGED sema,
           pc[t] \notin {"allocRead", "allocXchg"},
           pc'[t] \notin {"allocRead", "allocXchg"},
           \A s \in Threads \ {t} : pc'[s] = pc[s] /\ site'[s] = site[s],
           NeedsSemaphore(t)' => hSemaphore # NoThread,
           nWaiters' = nWaiters \/ hSemaphore # NoThread
    PROVE  SemaphoreInv'
<1>1. ASSUME NEW s \in Threads, s # t
      PROVE  NeedsSemaphore(s)' = NeedsSemaphore(s)
  BY <1>1 DEF NeedsSemaphore, InKernelCAS
<1>2. QED
  BY <1>1 DEF SemaphoreIInv, SemaphoreInv, sema

(* Every step of the lock keeps SemaphoreInv: of the threads that find no  *)
(* semaphore one installs its own, the others close theirs.                *)
LEMMA SemaphoreStep ==
    ASSUME ~StaleCAS, SemaphoreIInv, NEW t \in Threads, Step(t)
    PROVE  SemaphoreInv'
<1> USE DEF At, Goto, CASEntry, AllocEntry
<1>t. TypeOK /\ SiteOK /\ SemaphoreInv
  BY DEF SemaphoreIInv
<1>p. pc \in [Threads -> PCs] /\ site \in [Threads -> Sites]
  BY <1>t DEF TypeOK, LocalsOK, ControlOK
<1>n. NeedsSemaphore(t) => hSemaphore # NoThread
  BY <1>t DEF SemaphoreInv
<1>s. /\ pc[t] \in {"idle", "test", "release", "relXchg", "relStore", "relCheck",
                    "relMinus", "relPost", "relDone"} => site[t] = "try"
      /\ pc[t] \in {"check", "wait"} => site[t] = "kernel"
  BY <1>t DEF SiteOK
<1>1. CASE LockAgain(t)
  BY <1>1, <1>p, <1>s, SemaphoreKept
     DEF LockAgain, ReturnLocked, NeedsSemaphore, InKernelCAS, sema, counts, locals
<1>2. CASE CallLock(t)
  BY <1>2, <1>p, <1>s, SemaphoreKept
     DEF CallLock, NeedsSemaphore, InKernelCAS, sema, counts
<1>3. CASE CallUnlock(t)
  BY <1>3, <1>p, <1>s, SemaphoreKept
     DEF CallUnlock, NeedsSemaphore, InKernelCAS, sema, counts, locals
<1>4. CASE Test(t)
  BY <1>4, <1>p, <1>s, SemaphoreKept
     DEF Test, FirstAttemptFailed, ResetLocals, NeedsSemaphore, InKernelCAS,
         sema, counts, locals
<1>5. CASE CASRead(t)
  BY <1>5, <1>p, <1>n, SemaphoreKept
     DEF CASRead, NeedsSemaphore, InKernelCAS, sema, counts
<1>6. CASE CASXchg(t)
  <2>1. UNCHANGED sema /\ nWaiters' = nWaiters /\ pc[t] = "casXchg"
    BY <1>6 DEF CASXchg, counts
  <2>2. CASE CASResult(t, nLocker) = NoThread
    BY <1>6, <2>1, <2>2, <1>p, <1>n, SemaphoreKept
       DEF CASXchg, NeedsSemaphore, InKernelCAS, locals
  <2>3. CASE CASResult(t, nLocker) # NoThread
    <3>1. CASFailed(t)
      BY <1>6, <2>3 DEF CASXchg
    <3>2. CASE site[t] = "try"
      BY <2>1, <3>1, <3>2, <1>p, SemaphoreKept
         DEF CASFailed, FirstAttemptFailed, ResetLocals, NeedsSemaphore,
             InKernelCAS, locals
    <3>3. CASE site[t] = "spin"
      BY <2>1, <3>1, <3>3, <1>p, SemaphoreKept
         DEF CASFailed, NeedsSemaphore, InKernelCAS
    <3>4. CASE site[t] = "kernel"
      BY <2>1, <3>1, <3>4, <1>p, <1>n, SemaphoreKept
         DEF CASFailed, NeedsSemaphore, InKernelCAS, locals
    <3>5. QED
      BY <3>2, <3>3, <3>4, <1>p DEF Sites
  <2>4. QED
    BY <2>2, <2>3
<1>7. CASE CASWon(t)
  BY <1>7, <1>p, <1>n, SemaphoreKept
     DEF CASWon, ReturnLocked, ResetLocals, NeedsSemaphore, InKernelCAS, sema,
         counts, locals
<1>8. CASE Spin(t)
  BY <1>8, <1>p, SemaphoreKept DEF Spin, NeedsSemaphore, InKernelCAS, sema, counts
<1>9. CASE Alloc(t)
  <2>1. pc[t] = "alloc" /\ hSemaphore' = hSemaphore /\ nWaiters' = nWaiters
    BY <1>9 DEF Alloc, counts
  <2>2. \A s \in Threads \ {t} : pc'[s] = pc[s] /\ site'[s] = site[s]
    BY <1>9, <1>p DEF Alloc, locals
  <2>3. CASE hSemaphore # NoThread
    BY <1>9, <2>1, <2>2, <2>3, <1>p, SemaphoreKept DEF Alloc, sema
  <2>4. CASE hSemaphore = NoThread
    <3>1. handles' = handles \cup {t} /\ pc'[t] = "allocXchg"
      BY <1>9, <2>4, <1>p DEF Alloc
    <3>2. ~NeedsSemaphore(t)'
      BY <3>1 DEF NeedsSemaphore, InKernelCAS
    <3>3. \A s \in Threads \ {t} : NeedsSemaphore(s)' = NeedsSemaphore(s)
      BY <2>2 DEF NeedsSemaphore, InKernelCAS
    <3>4. ASSUME NEW s \in Threads \ {t}
          PROVE  /\ s \in handles' => pc'[s] \in {"allocRead", "allocXchg"}
                 /\ pc'[s] \in {"allocRead", "allocXchg"} => s \in handles'
                 /\ ~NeedsSemaphore(s)'
      <4>1. pc'[s] = pc[s] /\ (s \in handles' <=> s \in handles) /\ s # NoThread
        BY <2>2, <3>1, ThreadsAssumption
      <4>2. QED
        BY <2>4, <3>3, <4>1, <1>t DEF SemaphoreInv
    <3>5. t # NoThread /\ nWaiters' = 0 /\ hSemaphore' = NoThread
      BY <2>1, <2>4, <1>t, ThreadsAssumption DEF SemaphoreInv
    <3>6. t \in handles' /\ pc'[t] \in {"allocRead", "allocXchg"}
      BY <3>1
    <3>7. ASSUME NEW s \in Threads
          PROVE  /\ s \in handles' => pc'[s] \in {"allocRead", "allocXchg"}
                 /\ pc'[s] \in {"allocRead", "allocXchg"} => s \in handles'
                 /\ s # NoThread /\ ~NeedsSemaphore(s)'
      <4>1. CASE s = t
        BY <4>1, <3>2, <3>5, <3>6
      <4>2. CASE s # t
        BY <4>2, <3>4, ThreadsAssumption
      <4>3. QED
        BY <4>1, <4>2
    <3>8. QED
      BY <3>5, <3>7, Zenon DEF SemaphoreInv
  <2>5. QED
    BY <2>3, <2>4
<1>10. CASE AllocRead(t)
  <2>1. /\ UNCHANGED <<sema, nWaiters>>
        /\ pc[t] = "allocRead" /\ pc'[t] = "allocXchg"
        /\ \A s \in Threads \ {t} : pc'[s] = pc[s] /\ site'[s] = site[s]
    BY <1>10, <1>p DEF AllocRead, counts
  <2>2. ~NeedsSemaphore(t)'
    BY <2>1 DEF NeedsSemaphore, InKernelCAS
  <2>3. \A s \in Threads \ {t} : NeedsSemaphore(s)' = NeedsSemaphore(s)
    BY <2>1 DEF NeedsSemaphore, InKernelCAS
  <2>4. QED
    BY <2>1, <2>2, <2>3, <1>t DEF SemaphoreInv, sema
<1>11. CASE AllocXchg(t)
  <2>1. /\ pc[t] = "allocXchg" /\ pc'[t] = "enter" /\ nWaiters' = nWaiters
        /\ \A s \in Threads \ {t} : pc'[s] = pc[s] /\ site'[s] = site[s]
    BY <1>11, <1>p DEF AllocXchg, counts, locals
  <2>2. t \in handles /\ t # hSemaphore
    BY <2>1, <1>t DEF SemaphoreInv
  <2>3. \A s \in Threads \ {t} : NeedsSemaphore(s)' = NeedsSemaphore(s)
    BY <2>1 DEF NeedsSemaphore, InKernelCAS
  <2>4. CASE hSemaphore = NoThread
    <3>1. hSemaphore' = t /\ handles' = handles
      BY <1>11, <2>4 DEF AllocXchg, CASResult
    <3>2. \A s \in Threads : s # NoThread
      BY ThreadsAssumption
    <3>3. QED
      BY <2>1, <2>2, <2>3, <2>4, <3>1, <3>2, <1>t DEF SemaphoreInv
  <2>5. CASE hSemaphore # NoThread
    <3>1. hSemaphore' = hSemaphore /\ handles' = handles \ {t}
      BY <1>11, <2>5 DEF AllocXchg, CASResult
    <3>2. QED
      BY <2>1, <2>2, <2>3, <2>5, <3>1, <1>t DEF SemaphoreInv
  <2>6. QED
    BY <2>4, <2>5
<1>12. CASE Minus(t)
  BY <1>12, <1>p, <1>n, SemaphoreKept
     DEF Minus, ReturnLocked, ResetLocals, NeedsSemaphore, InKernelCAS, sema
<1>13. CASE Enter(t)
  BY <1>13, <1>p, <1>n, SemaphoreKept DEF Enter, NeedsSemaphore, sema, counts, locals
<1>14. CASE Plus(t)
  BY <1>14, <1>p, <1>n, SemaphoreKept DEF Plus, NeedsSemaphore, sema
<1>15. CASE Check(t)
  BY <1>15, <1>p, <1>n, SemaphoreKept DEF Check, NeedsSemaphore, sema, counts, locals
<1>16. CASE Release(t)
  BY <1>16, <1>p, SemaphoreKept DEF Release, NeedsSemaphore, InKernelCAS, sema, counts
<1>17. CASE ReleaseXchg(t)
  BY <1>17, <1>p, SemaphoreKept
     DEF ReleaseXchg, NeedsSemaphore, InKernelCAS, sema, counts
<1>18. CASE ReleaseStore(t)
  BY <1>18, <1>p, SemaphoreKept
     DEF ReleaseStore, NeedsSemaphore, InKernelCAS, sema, counts, locals
<1>19. CASE ReleaseCheck(t)
  <2>1. nWaiters = 0 => ~HasWaiters
    BY DEF HasWaiters
  <2>2. hSemaphore = NoThread => nWaiters = 0
    BY <1>t DEF SemaphoreInv
  <2>3. QED
    BY <1>19, <2>1, <2>2, <1>p, SemaphoreKept
       DEF ReleaseCheck, NeedsSemaphore, InKernelCAS, sema, counts, locals
<1>20. CASE ReleaseMinus(t)
  BY <1>20, <1>p, <1>n, SemaphoreKept DEF ReleaseMinus, NeedsSemaphore, sema, locals
<1>21. CASE ReleasePost(t)
  BY <1>21, <1>p, SemaphoreKept
     DEF ReleasePost, NeedsSemaphore, InKernelCAS, sema, locals
<1>22. CASE ReleaseDone(t)
  BY <1>22, <1>p, SemaphoreKept
     DEF ReleaseDone, NeedsSemaphore, InKernelCAS, sema, counts, locals
<1>23. CASE TakeToken(t)
  BY <1>23, <1>p, <1>n, SemaphoreKept DEF TakeToken, NeedsSemaphore, sema, locals
<1>24. CASE TimeOut(t)
  BY <1>24, <1>p, <1>n, SemaphoreKept DEF TimeOut, NeedsSemaphore, sema, counts, locals
<1>25. CASE WaitFails(t)
  BY <1>25, <1>p, SemaphoreKept
     DEF WaitFails, ResetLocals, NeedsSemaphore, InKernelCAS, sema
<1>26. QED
  BY <1>1, <1>2, <1>3, <1>4, <1>5, <1>6, <1>7, <1>8, <1>9, <1>10, <1>11,
     <1>12, <1>13, <1>14, <1>15, <1>16, <1>17, <1>18, <1>19, <1>20, <1>21,
     <1>22, <1>23, <1>24, <1>25
     DEF Step, LockStep, UnlockStep, WaitStep

(* Racing first waiters leave one open semaphore, and it is there whenever *)
(* PerfLockKernel waits on it or PerfUnlock posts it, for any number of    *)
(* threads.                                                                *)
THEOREM OneSemaphoreCorrect ==
    ASSUME ~StaleCAS
    PROVE  Spec => []OneSemaphore
<1>1. Init => SemaphoreIInv
  <2>1. Init => BalanceInv
    BY BalanceInit
  <2>2. QED
    BY <2>1, Zenon DEF Init, BalanceInv, SemaphoreIInv, SemaphoreInv,
                       NeedsSemaphore, InKernelCAS
<1>2. ASSUME SemaphoreIInv, [Next]_vars
      PROVE  SemaphoreIInv'
  <2>1. TypeOK' /\ SiteOK'
    BY <1>2, TypeStep, SiteStep DEF SemaphoreIInv
  <2>2. CASE UNCHANGED vars
    BY <1>2, <2>1, <2>2 DEF vars, sema, counts, locals, SemaphoreIInv, SemaphoreInv,
                            NeedsSemaphore, InKernelCAS
  <2>3. QED
    BY <1>2, <2>1, <2>2, SemaphoreStep DEF Next, SemaphoreIInv
<1>3. SemaphoreIInv => OneSemaphore
  <2>1. SUFFICES ASSUME SemaphoreIInv
                 PROVE  OneSemaphore
    OBVIOUS
  <2>2. handles \subseteq Threads
    BY <2>1 DEF SemaphoreIInv, TypeOK, SharedOK
  <2>3. QED
    BY <2>1, <2>2 DEF SemaphoreIInv, SemaphoreInv, OneSemaphore, NeedsSemaphore
<1>4. QED
  BY <1>1, <1>2, <1>3, PTL DEF Spec

-----------------------------------------------------------------------------
(* IsLocked                                                                *)

(* The callers that hold the lock, and those whose Unlock is not complete. *)
Clearing(t) ==
    \/ OwesUnlock(t)
    \/ pc[t] \in {"minusTrue", "release", "relXchg", "relStore", "relCheck",
                  "relMinus", "relPost", "relDone"}

(* Somebody will clear m.bIsLocked while it is set.                        *)
ClearingInv == bIsLocked => \E t \in Threads : Clearing(t)

(* A step that leaves the unlock flags and m.bIsLocked alone, and moves no  *)
(* thread away from the places of Clearing, keeps ClearingInv.             *)
LEMMA ClearingKept ==
    ASSUME ClearingInv, NEW t \in Threads, UNCHANGED <<bIsLocked, flags>>,
           \A s \in Threads \ {t} : pc'[s] = pc[s],
           Clearing(t) => OwesUnlock(t) \/ Clearing(t)'
    PROVE  ClearingInv'
<1>1. OwesUnlock(t) => Clearing(t)'
  BY DEF Clearing, OwesUnlock
<1>2. \A s \in Threads \ {t} : Clearing(s) => Clearing(s)'
  BY DEF Clearing, OwesUnlock
<1>3. QED
  BY <1>1, <1>2 DEF ClearingInv

(* A step that leaves m.bIsLocked alone and whose thread goes on clearing  *)
(* it, as far as it did, keeps ClearingInv, whatever it does to its flags. *)
LEMMA ClearingMoved ==
    ASSUME ClearingInv, NEW t \in Threads,
           \A s \in Threads \ {t} : pc'[s] = pc[s] /\ flags'[s] = flags[s],
           bIsLocked' = bIsLocked, Clearing(t) => Clearing(t)'
    PROVE  ClearingInv'
<1>1. \A s \in Threads \ {t} : Clearing(s) => Clearing(s)'
  BY DEF Clearing, OwesUnlock
<1>2. QED
  BY <1>1 DEF ClearingInv

(* A Lock call that returns true keeps what its thread owed, and owes an   *)
(* Unlock(true) if it is the one that took the lock.                       *)
LEMMA ReturnLockedOwes ==
    ASSUME TypeOK, NEW t \in Threads, NEW f \in UnlockFlags, ReturnLocked(t, f)
    PROVE  /\ OwesUnlock(t) => OwesUnlock(t)'
           /\ f = "true" => OwesUnlock(t)'
           /\ \A s \in Threads \ {t} : pc'[s] = pc[s] /\ flags'[s] = flags[s]
<1>1. pc \in [Threads -> PCs] /\ flags \in [Threads -> Seq(UnlockFlags)]
  BY DEF TypeOK, ControlOK
<1>2. flags'[t] = <<f>> \o flags[t] /\ flags[t] \in Seq(UnlockFlags)
  BY <1>1 DEF ReturnLocked
<1>3. ASSUME OwesUnlock(t)
      PROVE  OwesUnlock(t)'
  <2>1. PICK i \in DOMAIN flags[t] : flags[t][i] = "true"
    BY <1>3 DEF OwesUnlock
  <2>2. QED
    BY <1>2, <2>1, PushKeeps DEF OwesUnlock
<1>4. f = "true" => OwesUnlock(t)'
  BY <1>2, PushTrue DEF OwesUnlock
<1>5. QED
  BY <1>1, <1>3, <1>4 DEF ReturnLocked, Goto

(* Every step keeps ClearingInv: who sets the flag owes an Unlock(true),   *)
(* and who owes one clears the flag at its end, because its post does not  *)
(* fail.                                                                   *)
LEMMA ClearingStep ==
    ASSUME TypeOK, SiteOK, UnlockNeverThrows, ClearingInv,
           NEW t \in Threads, Step(t)
    PROVE  ClearingInv'
<1> USE DEF At, Goto, word
<1>p. pc \in [Threads -> PCs] /\ flags \in [Threads -> Seq(UnlockFlags)]
  BY DEF TypeOK, ControlOK
<1>1. CASE LockAgain(t)
  <2>1. ReturnLocked(t, "false") /\ pc[t] = "idle" /\ bIsLocked' = bIsLocked
    BY <1>1 DEF LockAgain
  <2>2. Clearing(t) => Clearing(t)'
    BY <2>1, ReturnLockedOwes DEF Clearing, UnlockFlags
  <2>3. QED
    BY <2>1, <2>2, ReturnLockedOwes, ClearingMoved DEF UnlockFlags
<1>2. CASE CallLock(t)
  BY <1>2, <1>p, ClearingKept DEF CallLock, Clearing
<1>3. CASE CallUnlock(t)
  <2>1. /\ flags[t] # <<>> /\ flags[t] \in Seq(UnlockFlags)
        /\ flags'[t] = Tail(flags[t]) /\ pc[t] = "idle" /\ bIsLocked' = bIsLocked
        /\ \A s \in Threads \ {t} : pc'[s] = pc[s] /\ flags'[s] = flags[s]
    BY <1>3, <1>p DEF CallUnlock
  <2>2. CASE Head(flags[t]) = "true"
    <3>1. pc'[t] = "release"
      BY <1>3, <2>2, <1>p DEF CallUnlock
    <3>2. QED
      BY <2>1, <3>1, ClearingMoved DEF Clearing
  <2>3. CASE Head(flags[t]) # "true"
    <3>1. ASSUME OwesUnlock(t)
          PROVE  OwesUnlock(t)'
      <4>1. PICK i \in DOMAIN flags[t] : flags[t][i] = "true"
        BY <3>1 DEF OwesUnlock
      <4>2. QED
        BY <2>1, <2>3, <4>1, PopKeeps DEF OwesUnlock
    <3>2. QED
      BY <2>1, <3>1, ClearingMoved DEF Clearing
  <2>4. QED
    BY <2>2, <2>3
<1>4. CASE Test(t)
  BY <1>4, <1>p, ClearingKept DEF Test, FirstAttemptFailed, Clearing
<1>5. CASE CASRead(t)
  BY <1>5, <1>p, ClearingKept DEF CASRead, Clearing
<1>6. CASE CASXchg(t)
  <2>1. pc[t] = "casXchg" /\ UNCHANGED <<bIsLocked, flags>>
    BY <1>6 DEF CASXchg
  <2>2. Goto(t, "casWon") \/ CASFailed(t)
    BY <1>6 DEF CASXchg
  <2>3. \E label \in {"casWon", "idle", "spin", "check"} : Goto(t, label)
    BY <2>2, CASFailedControl DEF TypeOK
  <2>4. \A s \in Threads \ {t} : pc'[s] = pc[s]
    BY <2>3, <1>p
  <2>5. QED
    BY <2>1, <2>4, ClearingKept DEF Clearing
<1>7. CASE CASWon(t)
  <2>1. CASE site[t] # "kernel"
    <3>1. ReturnLocked(t, "true")
      BY <1>7, <2>1 DEF CASWon
    <3>2. Clearing(t)'
      BY <3>1, ReturnLockedOwes DEF Clearing, UnlockFlags
    <3>3. QED
      BY <3>2 DEF ClearingInv
  <2>2. CASE site[t] = "kernel"
    <3>1. pc'[t] = "minusTrue"
      BY <1>7, <2>2, <1>p DEF CASWon
    <3>2. QED
      BY <3>1 DEF ClearingInv, Clearing
  <2>3. QED
    BY <2>1, <2>2
<1>8. CASE Spin(t)
  BY <1>8, <1>p, ClearingKept DEF Spin, Clearing, CASEntry
<1>9. CASE Alloc(t)
  BY <1>9, <1>p, ClearingKept DEF Alloc, Clearing
<1>10. CASE AllocRead(t)
  BY <1>10, <1>p, ClearingKept DEF AllocRead, Clearing
<1>11. CASE AllocXchg(t)
  BY <1>11, <1>p, ClearingKept DEF AllocXchg, Clearing
<1>12. CASE Minus(t)
  <2>1. bIsLocked' = bIsLocked
    BY <1>12 DEF Minus
  <2>2. CASE pc[t] = "minusTrue"
    <3>1. ReturnLocked(t, "true")
      BY <1>12, <2>2 DEF Minus
    <3>2. Clearing(t)'
      BY <3>1, ReturnLockedOwes DEF Clearing, UnlockFlags
    <3>3. QED
      BY <2>1, <3>1, <3>2, ReturnLockedOwes, ClearingMoved DEF UnlockFlags
  <2>3. CASE pc[t] = "minusFalse"
    BY <1>12, <2>1, <2>3, <1>p, ClearingKept DEF Minus, Clearing
  <2>4. QED
    BY <1>12, <2>2, <2>3 DEF Minus
<1>13. CASE Enter(t)
  BY <1>13, <1>p, ClearingKept DEF Enter, Clearing
<1>14. CASE Plus(t)
  BY <1>14, <1>p, ClearingKept DEF Plus, Clearing
<1>15. CASE Check(t)
  BY <1>15, <1>p, ClearingKept DEF Check, Clearing
<1>16. CASE Release(t)
  BY <1>16, <1>p, ClearingKept DEF Release, Clearing
<1>17. CASE ReleaseXchg(t)
  BY <1>17, <1>p, ClearingKept DEF ReleaseXchg, Clearing
<1>18. CASE ReleaseStore(t)
  BY <1>18, <1>p, ClearingKept DEF ReleaseStore, Clearing
<1>19. CASE ReleaseCheck(t)
  BY <1>19, <1>p, ClearingKept DEF ReleaseCheck, Clearing
<1>20. CASE ReleaseMinus(t)
  BY <1>20, <1>p, ClearingKept DEF ReleaseMinus, Clearing
<1>21. CASE ReleasePost(t)
  <2>1. tokens < MaxCount /\ tokens \in Nat
    BY <1>21 DEF ReleasePost, UnlockNeverThrows, TypeOK, SharedOK
  <2>2. ~(tokens >= MaxCount)
    BY <2>1, ParameterAssumption
  <2>3. pc[t] = "relPost" /\ Goto(t, "relDone") /\ UNCHANGED <<bIsLocked, flags>>
    BY <1>21, <2>2, Zenon DEF ReleasePost
  <2>4. QED
    BY <2>3, <1>p, ClearingKept DEF Clearing
<1>22. CASE ReleaseDone(t)
  BY <1>22, Zenon DEF ReleaseDone, ClearingInv
<1>23. CASE TakeToken(t)
  BY <1>23, <1>p, ClearingKept DEF TakeToken, Clearing
<1>24. CASE TimeOut(t)
  BY <1>24, <1>p, ClearingKept DEF TimeOut, Clearing, CASEntry
<1>25. CASE WaitFails(t)
  BY <1>25, <1>p, ClearingKept DEF WaitFails, Clearing
<1>26. QED
  BY <1>1, <1>2, <1>3, <1>4, <1>5, <1>6, <1>7, <1>8, <1>9, <1>10, <1>11,
     <1>12, <1>13, <1>14, <1>15, <1>16, <1>17, <1>18, <1>19, <1>20, <1>21,
     <1>22, <1>23, <1>24, <1>25
     DEF Step, LockStep, UnlockStep, WaitStep

(* IsLocked() does not stay set on a lock that nobody will unlock, for any *)
(* number of threads, when the semaphore counts as far as UnlockCorrect    *)
(* needs.                                                                  *)
THEOREM IsLockedCorrect ==
    ASSUME Ample
    PROVE  Spec => []IsLockedHasLocker
<1> DEFINE I == AmpleInv /\ ClearingInv
<1>1. Init => I
  <2>1. Init => ~bIsLocked
    BY Zenon DEF Init
  <2>2. QED
    BY <2>1, AmpleInvariant DEF ClearingInv
<1>2. ASSUME I, [Next]_vars
      PROVE  I'
  <2>1. AmpleInv'
    BY <1>2, AmpleInvariant
  <2>2. UnlockNeverThrows
    BY <1>2, PostSucceeds
  <2>3. TypeOK /\ SiteOK
    BY <1>2 DEF AmpleInv, WakeUpsInv, BalanceInv
  <2>4. CASE UNCHANGED vars
    BY <1>2, <2>1, <2>4 DEF vars, word, ClearingInv, Clearing, OwesUnlock
  <2>5. CASE Next
    <3>1. PICK t \in Threads : Step(t)
      BY <2>5 DEF Next
    <3>2. ClearingInv'
      BY <1>2, <2>2, <2>3, <3>1, ClearingStep
    <3>3. QED
      BY <2>1, <3>2
  <2>6. QED
    BY <1>2, <2>1, <2>4, <2>5
<1>3. I => IsLockedHasLocker
  BY DEF ClearingInv, Clearing, IsLockedHasLocker
<1>4. QED
  BY <1>1, <1>2, <1>3, PTL DEF Spec

-----------------------------------------------------------------------------
(* Ownership                                                               *)

(* The places of a Lock call that has not got the lock.                    *)
LockLabels == {"test", "casRead", "casXchg", "spin", "alloc", "allocRead",
               "allocXchg", "enter", "plus", "check", "wait", "minusFalse"}

(* The places of Unlock after the second store to the lock word.           *)
WakeLabels == {"relCheck", "relMinus", "relPost", "relDone"}

(* What a step of t does to the lock word, to the place of t and to its    *)
(* flags: it tries for the lock,                                           *)
Keeps(t) == nLocker' = nLocker /\ flags'[t] = flags[t]

Tries(t) ==
    /\ Keeps(t)
    /\ \/ pc[t] \in LockLabels /\ pc'[t] \in LockLabels \cup {"idle"}
       \/ pc[t] = "idle" /\ nLocker # t /\ pc'[t] = "test"

(* or takes it,                                                            *)
Takes(t) ==
    /\ pc[t] = "casXchg" /\ nLocker = NoThread
    /\ pc'[t] = "casWon" /\ nLocker' = t /\ flags'[t] = flags[t]

(* or returns true from Lock, at once or after WaiterMinus,                *)
Returns(t) ==
    /\ pc[t] \in {"casWon", "minusTrue"} /\ nLocker' = nLocker
    /\ \/ pc'[t] = "idle" /\ flags'[t] = <<"true">> \o flags[t]
       \/ pc'[t] = "minusTrue" /\ flags'[t] = flags[t]

(* or locks what it owns, or calls Unlock,                                 *)
Nests(t) ==
    /\ pc[t] = "idle" /\ pc'[t] = "idle" /\ nLocker = t /\ nLocker' = t
    /\ flags'[t] = <<"false">> \o flags[t]

Pops(t) ==
    /\ pc[t] = "idle" /\ nLocker' = nLocker
    /\ flags[t] # <<>> /\ flags'[t] = Tail(flags[t])
    /\ pc'[t] = IF Head(flags[t]) = "true" THEN "release" ELSE "idle"

(* or reads the lock word, releases it, and frees it again,                *)
Reads(t) == Keeps(t) /\ pc[t] = "release" /\ pc'[t] = "relXchg"

Gives(t) ==
    /\ pc[t] = "relXchg" /\ pc'[t] = "relStore" /\ flags'[t] = flags[t]
    /\ nLocker' = IF nLocker = old[t] THEN NoThread ELSE nLocker

Frees(t) ==
    /\ pc[t] = "relStore" /\ pc'[t] = "relCheck" /\ flags'[t] = flags[t]
    /\ nLocker' = NoThread

(* or goes on to wake somebody.                                            *)
Wakes(t) ==
    Keeps(t) /\ pc[t] \in WakeLabels /\ pc'[t] \in WakeLabels \cup {"idle"}

OwnerMove(t) ==
    \/ Tries(t) \/ Takes(t) \/ Returns(t) \/ Nests(t) \/ Pops(t)
    \/ Reads(t) \/ Gives(t) \/ Frees(t) \/ Wakes(t)

(* Every step of a thread is one of these.                                 *)
LEMMA OwnerMoves ==
    ASSUME ~StaleCAS, TypeOK, NEW t \in Threads, Step(t)
    PROVE  OwnerMove(t)
<1> USE DEF TypeOK, ControlOK, PCs, At, Goto, word, Keeps, LockLabels, WakeLabels
<1>1. CASE LockAgain(t)
  <2>1. Nests(t)
    BY <1>1 DEF LockAgain, ReturnLocked, Nests
  <2>2. QED
    BY <2>1 DEF OwnerMove
<1>2. CASE CallUnlock(t)
  <2>1. Pops(t)
    BY <1>2 DEF CallUnlock, Pops
  <2>2. QED
    BY <2>1 DEF OwnerMove
<1>3. CASE CASXchg(t)
  <2>1. CASE nLocker = NoThread
    <3>1. Takes(t)
      BY <1>3, <2>1 DEF CASXchg, CASResult, Takes
    <3>2. QED
      BY <3>1 DEF OwnerMove
  <2>2. CASE nLocker # NoThread
    <3>1. CASFailed(t) /\ Keeps(t) /\ pc[t] = "casXchg"
      BY <1>3, <2>2 DEF CASXchg, CASResult
    <3>2. \E label \in {"idle", "spin", "check"} : Goto(t, label)
      BY <3>1, CASFailedControl
    <3>3. pc'[t] \in {"idle", "spin", "check"}
      BY <3>2
    <3>4. Tries(t)
      BY <3>1, <3>3 DEF Tries
    <3>5. QED
      BY <3>4 DEF OwnerMove
  <2>3. QED
    BY <2>1, <2>2
<1>4. CASE CASWon(t)
  <2>1. Returns(t)
    BY <1>4 DEF CASWon, ReturnLocked, Returns
  <2>2. QED
    BY <2>1 DEF OwnerMove
<1>5. CASE Minus(t)
  <2>1. CASE pc[t] = "minusTrue"
    BY <1>5, <2>1 DEF Minus, ReturnLocked, Returns, OwnerMove
  <2>2. CASE pc[t] = "minusFalse"
    BY <1>5, <2>2 DEF Minus, Tries, OwnerMove
  <2>3. QED
    BY <1>5, <2>1, <2>2 DEF Minus
<1>6. CASE Release(t)
  BY <1>6 DEF Release, Reads, OwnerMove
<1>7. CASE ReleaseXchg(t)
  BY <1>7 DEF ReleaseXchg, Gives, OwnerMove
<1>8. CASE ReleaseStore(t)
  BY <1>8 DEF ReleaseStore, Frees, OwnerMove
<1>9. CASE ReleaseCheck(t) \/ ReleaseMinus(t) \/ ReleasePost(t) \/ ReleaseDone(t)
  <2>1. Wakes(t)
    BY <1>9 DEF ReleaseCheck, ReleaseMinus, ReleasePost, ReleaseDone, Wakes
  <2>2. QED
    BY <2>1 DEF OwnerMove
<1>10. CASE CallLock(t)
  BY <1>10 DEF CallLock, Tries, OwnerMove
<1>11. CASE Test(t)
  <2>1. Tries(t)
    BY <1>11 DEF Test, FirstAttemptFailed, CASEntry, Tries
  <2>2. QED
    BY <2>1 DEF OwnerMove
<1>12. CASE CASRead(t) \/ Spin(t) \/ Plus(t) \/ TimeOut(t)
  <2>1. Tries(t)
    BY <1>12 DEF CASRead, Spin, Plus, TimeOut, CASEntry, Tries
  <2>2. QED
    BY <2>1 DEF OwnerMove
<1>13. CASE Alloc(t) \/ AllocRead(t) \/ AllocXchg(t) \/ Enter(t)
  <2>1. Tries(t)
    BY <1>13 DEF Alloc, AllocRead, AllocXchg, Enter, AllocEntry, Tries
  <2>2. QED
    BY <2>1 DEF OwnerMove
<1>14. CASE Check(t) \/ TakeToken(t) \/ WaitFails(t)
  <2>1. Tries(t)
    BY <1>14 DEF Check, TakeToken, WaitFails, Tries
  <2>2. QED
    BY <2>1 DEF OwnerMove
<1>15. QED
  BY <1>1, <1>2, <1>3, <1>4, <1>5, <1>6, <1>7, <1>8, <1>9, <1>10, <1>11,
     <1>12, <1>13, <1>14 DEF Step, LockStep, UnlockStep, WaitStep

(* The flags of a thread, the latest first: the outermost Lock returned     *)
(* true.                                                                   *)
LastTrue(s) == s # <<>> => s[Len(s)] = "true"

LEMMA PushLast ==
    ASSUME NEW s \in Seq(UnlockFlags), NEW f \in UnlockFlags, LastTrue(s),
           f = "true" \/ s # <<>>
    PROVE  LastTrue(<<f>> \o s)
<1>1. Len(<<f>> \o s) = Len(s) + 1
  OBVIOUS
<1>2. CASE s = <<>>
  <2>1. <<f>> \o s = <<f>>
    BY <1>2
  <2>2. QED
    BY <1>2, <2>1 DEF LastTrue
<1>3. CASE s # <<>>
  <2>1. (<<f>> \o s)[Len(s) + 1] = s[Len(s)]
    BY <1>3
  <2>2. QED
    BY <1>1, <1>3, <2>1 DEF LastTrue
<1>4. QED
  BY <1>2, <1>3

LEMMA PopLast ==
    ASSUME NEW s \in Seq(UnlockFlags), s # <<>>, LastTrue(s)
    PROVE  LastTrue(Tail(s))
<1>1. Len(s) \in Nat /\ Len(Tail(s)) = Len(s) - 1 /\ Tail(s) \in Seq(UnlockFlags)
  OBVIOUS
<1>2. ASSUME Tail(s) # <<>>
      PROVE  Tail(s)[Len(Tail(s))] = "true"
  <2>1. Len(s) > 1
    BY <1>1, <1>2
  <2>2. Tail(s)[Len(s) - 1] = s[Len(s)]
    BY <2>1
  <2>3. QED
    BY <1>1, <2>2 DEF LastTrue
<1>3. QED
  BY <1>2 DEF LastTrue

LastFlagTrue == \A t \in Threads : LastTrue(flags[t])

(* A Lock call is not made by the owner, and does not become the owner     *)
(* before it knows.                                                        *)
NotOwnerYet == \A t \in Threads : pc[t] \in LockLabels => nLocker # t

(* A thread that will release the lock and has not been robbed is the owner,*)
(* by one Lock call that returned true, and in no second call.             *)
OnlyLastTrue(t) ==
    \A i \in DOMAIN flags[t] : flags[t][i] = "true" => pc[t] = "idle" /\ i = Len(flags[t])

OwnershipOK ==
    /\ robbed \subseteq {t \in Threads : WillRelease(t)}
    /\ \A t \in Threads \ robbed : WillRelease(t) => nLocker = t /\ OnlyLastTrue(t)

OwnershipInv == OrphanInv /\ LastFlagTrue /\ NotOwnerYet /\ OwnershipOK

(* LastFlagTrue is inductive: a flag of false is pushed by an owner, and an *)
(* owner outside a call has an Unlock(true) to make.                       *)
LEMMA LastFlagStep ==
    ASSUME ~StaleCAS, OwnershipInv, NEW t \in Threads, Step(t)
    PROVE  LastFlagTrue'
<1> USE DEF OwnershipInv, OrphanInv
<1> SUFFICES ASSUME NEW s \in Threads
             PROVE  LastTrue(flags[s])'
  BY DEF LastFlagTrue
<1>1. LastTrue(flags[s]) /\ flags[s] \in Seq(UnlockFlags)
  BY DEF LastFlagTrue, TypeOK, ControlOK
<1>2. CASE flags'[s] = flags[s]
  BY <1>1, <1>2 DEF LastTrue
<1>3. CASE flags'[s] # flags[s]
  <2>1. s = t
    BY <1>3, LockWordStep
  <2>2. OwnerMove(t)
    BY OwnerMoves
  <2>3. Returns(t) \/ Nests(t) \/ Pops(t)
    BY <1>3, <2>1, <2>2 DEF OwnerMove, Tries, Takes, Reads, Gives, Frees, Wakes, Keeps
  <2>4. CASE Returns(t)
    <3>1. flags'[s] = <<"true">> \o flags[s]
      BY <1>3, <2>1, <2>4 DEF Returns
    <3>2. LastTrue(<<"true">> \o flags[s])
      BY <1>1, PushLast DEF UnlockFlags
    <3>3. QED
      BY <3>1, <3>2 DEF LastTrue
  <2>5. CASE Nests(t)
    <3>1. WillRelease(t) /\ pc[t] = "idle"
      BY <2>5, ThreadsAssumption DEF Nests, NoOrphanedLock
    <3>2. flags[t] # <<>>
      BY <3>1 DEF WillRelease, OwesUnlock
    <3>3. flags'[s] = <<"false">> \o flags[s]
      BY <2>1, <2>5 DEF Nests
    <3>4. LastTrue(<<"false">> \o flags[s])
      BY <1>1, <2>1, <3>2, PushLast DEF UnlockFlags
    <3>5. QED
      BY <3>3, <3>4 DEF LastTrue
  <2>6. CASE Pops(t)
    <3>1. flags[s] # <<>> /\ flags'[s] = Tail(flags[s])
      BY <2>1, <2>6 DEF Pops
    <3>2. LastTrue(Tail(flags[s]))
      BY <1>1, <3>1, PopLast
    <3>3. QED
      BY <3>1, <3>2 DEF LastTrue
  <2>7. QED
    BY <2>3, <2>4, <2>5, <2>6
<1>4. QED
  BY <1>2, <1>3

(* NotOwnerYet is inductive: a thread's id gets into the lock word only by  *)
(* its own exchange, which ends the search.                                *)
LEMMA NotOwnerStep ==
    ASSUME ~StaleCAS, OwnershipInv, NEW t \in Threads, Step(t)
    PROVE  NotOwnerYet'
<1> USE DEF OwnershipInv, OrphanInv
<1> SUFFICES ASSUME NEW s \in Threads, pc'[s] \in LockLabels
             PROVE  nLocker' # s
  BY DEF NotOwnerYet
<1>1. s # NoThread
  BY ThreadsAssumption
<1>2. CASE s # t
  <2>1. pc'[s] = pc[s]
    BY <1>2, LockWordStep
  <2>2. nLocker # s
    BY <2>1 DEF NotOwnerYet
  <2>3. QED
    BY <1>1, <1>2, <2>2, LockWordStep
<1>3. CASE s = t
  <2>1. OwnerMove(t)
    BY OwnerMoves
  <2>2. Tries(t)
    BY <1>3, <2>1 DEF OwnerMove, Takes, Returns, Nests, Pops, Reads, Gives, Frees, Wakes,
                      LockLabels, WakeLabels
  <2>3. QED
    BY <1>3, <2>2 DEF Tries, Keeps, NotOwnerYet, LockLabels
<1>4. QED
  BY <1>2, <1>3

(* What a Lock of the owner and an Unlock do to the last true flag.         *)
LEMMA PushOnlyLast ==
    ASSUME NEW s \in Seq(UnlockFlags), \A i \in DOMAIN s : s[i] = "true" => i = Len(s)
    PROVE  \A i \in DOMAIN (<<"false">> \o s) :
               (<<"false">> \o s)[i] = "true" => i = Len(<<"false">> \o s)
<1> SUFFICES ASSUME NEW i \in DOMAIN (<<"false">> \o s), (<<"false">> \o s)[i] = "true"
             PROVE  i = Len(<<"false">> \o s)
  OBVIOUS
<1>1. Len(<<"false">> \o s) = Len(s) + 1 /\ Len(s) \in Nat /\ i \in 1 .. Len(s) + 1
  OBVIOUS
<1>2. i # 1
  OBVIOUS
<1>3. i - 1 \in DOMAIN s /\ s[i - 1] = "true"
  BY <1>1, <1>2
<1>4. QED
  BY <1>1, <1>3

LEMMA PopOnlyLast ==
    ASSUME NEW s \in Seq(UnlockFlags), s # <<>>,
           \A i \in DOMAIN s : s[i] = "true" => i = Len(s)
    PROVE  \A i \in DOMAIN Tail(s) :
               Tail(s)[i] = "true" => i = Len(Tail(s)) /\ Head(s) # "true"
<1> SUFFICES ASSUME NEW i \in DOMAIN Tail(s), Tail(s)[i] = "true"
             PROVE  i = Len(Tail(s)) /\ Head(s) # "true"
  OBVIOUS
<1>1. Len(s) \in Nat /\ Len(Tail(s)) = Len(s) - 1 /\ Tail(s) \in Seq(UnlockFlags)
  OBVIOUS
<1>2. i \in 1 .. Len(Tail(s))
  BY <1>1
<1>3. i + 1 \in DOMAIN s /\ s[i + 1] = "true"
  BY <1>1, <1>2
<1>4. i + 1 = Len(s)
  BY <1>3
<1>5. 1 \in DOMAIN s /\ Head(s) = s[1] /\ Len(s) # 1
  BY <1>1, <1>2, <1>4
<1>6. QED
  BY <1>1, <1>2, <1>4, <1>5

(* A thread that is in a call and has not been robbed has no true flag, and *)
(* so, if it will release the lock, none at all.                           *)
LEMMA InCallOwesNothing ==
    ASSUME OwnershipInv, NEW t \in Threads \ robbed, pc[t] # "idle"
    PROVE  ~OwesUnlock(t) /\ flags[t] = <<>>
<1>1. ~OwesUnlock(t)
  BY DEF OwnershipInv, OwnershipOK, OnlyLastTrue, WillRelease, OwesUnlock
<1>2. flags[t] \in Seq(UnlockFlags) /\ LastTrue(flags[t])
  BY DEF OwnershipInv, OrphanInv, TypeOK, ControlOK, LastFlagTrue
<1>3. CASE flags[t] # <<>>
  <2>1. Len(flags[t]) \in DOMAIN flags[t]
    BY <1>2, <1>3
  <2>2. QED
    BY <1>1, <1>2, <1>3, <2>1 DEF LastTrue, OwesUnlock
<1>4. QED
  BY <1>1, <1>3

(* What holds of a thread that is not robbed after a step of its own.       *)
LEMMA OwnStep ==
    ASSUME ~StaleCAS, OwnershipInv, NEW t \in Threads \ robbed, Step(t), WillRelease(t)'
    PROVE  nLocker' = t /\ OnlyLastTrue(t)'
<1> USE DEF OwnershipInv, OrphanInv
<1>1. OwnerMove(t) /\ flags[t] \in Seq(UnlockFlags) /\ pc[t] \in PCs
  BY OwnerMoves DEF TypeOK, ControlOK
<1>2. WillRelease(t) => nLocker = t /\ OnlyLastTrue(t)
  BY DEF OwnershipOK
<1>3. CASE Tries(t)
  <2>1. WillRelease(t)' => OwesUnlock(t)
    BY <1>3 DEF Tries, Keeps, WillRelease, OwesUnlock, LockLabels
  <2>2. WillRelease(t)
    BY <2>1 DEF WillRelease
  <2>3. pc[t] = "idle"
    BY <2>1, InCallOwesNothing
  <2>4. nLocker # t
    BY <1>3, <2>3 DEF Tries, LockLabels
  <2>5. QED
    BY <1>2, <2>2, <2>4
<1>4. CASE Takes(t)
  <2>1. flags[t] = <<>>
    BY <1>4, InCallOwesNothing DEF Takes
  <2>2. QED
    BY <1>4, <2>1 DEF Takes, OnlyLastTrue
<1>5. CASE Returns(t)
  <2>1. flags[t] = <<>> /\ nLocker' = t
    BY <1>2, <1>5, InCallOwesNothing DEF Returns, WillRelease
  <2>2. flags'[t] = flags[t] \/ (pc'[t] = "idle" /\ flags'[t] = <<"true">>)
    BY <1>5, <2>1 DEF Returns
  <2>3. CASE flags'[t] = flags[t]
    BY <2>1, <2>3 DEF OnlyLastTrue
  <2>4. CASE pc'[t] = "idle" /\ flags'[t] = <<"true">>
    BY <2>1, <2>4 DEF OnlyLastTrue
  <2>5. QED
    BY <2>2, <2>3, <2>4
<1>6. CASE Nests(t)
  <2>1. nLocker = t /\ nLocker' = t /\ pc[t] = "idle" /\ pc'[t] = "idle"
        /\ flags'[t] = <<"false">> \o flags[t]
    BY <1>6 DEF Nests
  <2>2. OnlyLastTrue(t)
    BY <1>2, <2>1, ThreadsAssumption DEF NoOrphanedLock
  <2>3. \A i \in DOMAIN flags[t] : flags[t][i] = "true" => i = Len(flags[t])
    BY <2>2 DEF OnlyLastTrue
  <2>4. QED
    BY <1>1, <2>1, <2>3, PushOnlyLast DEF OnlyLastTrue
<1>7. CASE Pops(t)
  <2>1. nLocker' = nLocker /\ flags[t] # <<>> /\ flags'[t] = Tail(flags[t])
    BY <1>7 DEF Pops
  <2>2. OwesUnlock(t)
    <3>1. 1 \in DOMAIN flags[t] /\ flags[t][1] = Head(flags[t])
      BY <1>1, <2>1
    <3>2. CASE Head(flags[t]) = "true"
      BY <3>1, <3>2 DEF OwesUnlock
    <3>3. CASE Head(flags[t]) # "true"
      <4>1. \E i \in DOMAIN Tail(flags[t]) : Tail(flags[t])[i] = "true"
        BY <1>7, <2>1, <3>3 DEF Pops, WillRelease, OwesUnlock
      <4>2. \A i \in DOMAIN Tail(flags[t]) :
                i + 1 \in DOMAIN flags[t] /\ Tail(flags[t])[i] = flags[t][i + 1]
        BY <1>1, <2>1
      <4>3. QED
        BY <4>1, <4>2 DEF OwesUnlock
    <3>4. QED
      BY <3>2, <3>3
  <2>3. nLocker = t /\ OnlyLastTrue(t)
    BY <1>2, <2>2 DEF WillRelease
  <2>4. \A i \in DOMAIN flags[t] : flags[t][i] = "true" => i = Len(flags[t])
    BY <2>3 DEF OnlyLastTrue
  <2>5. \A i \in DOMAIN Tail(flags[t]) :
            Tail(flags[t])[i] = "true"
                => i = Len(Tail(flags[t])) /\ Head(flags[t]) # "true"
    BY <1>1, <2>1, <2>4, PopOnlyLast
  <2>6. Head(flags[t]) # "true" => pc'[t] = "idle"
    BY <1>7 DEF Pops
  <2>7. QED
    BY <2>1, <2>3, <2>5, <2>6 DEF OnlyLastTrue
<1>8. CASE Reads(t)
  <2>1. WillRelease(t) /\ flags[t] = <<>>
    BY <1>8, InCallOwesNothing DEF Reads, WillRelease
  <2>2. QED
    BY <1>2, <1>8, <2>1 DEF Reads, Keeps, OnlyLastTrue
<1>9. CASE Gives(t) \/ Frees(t) \/ Wakes(t)
  <2>1. pc[t] # "idle" /\ flags'[t] = flags[t]
        /\ pc'[t] \notin {"casWon", "minusTrue", "release", "relXchg"}
    BY <1>9 DEF Gives, Frees, Wakes, Keeps, WakeLabels
  <2>2. OwesUnlock(t)
    BY <2>1 DEF WillRelease, OwesUnlock
  <2>3. QED
    BY <2>1, <2>2, InCallOwesNothing
<1>10. QED
  BY <1>1, <1>3, <1>4, <1>5, <1>6, <1>7, <1>8, <1>9 DEF OwnerMove

(* OwnershipOK is inductive.                                               *)
LEMMA OwnershipStep ==
    ASSUME ~StaleCAS, OwnershipInv, NEW t \in Threads, Step(t), Record(t)
    PROVE  OwnershipOK'
<1> USE DEF OwnershipInv, OrphanInv
<1>1. robbed' = {s \in robbed \cup Victims(t) : WillRelease(s)'}
  BY DEF Record
<1>2. robbed \subseteq Threads /\ nLocker \in Threads \cup {NoThread}
  BY DEF OwnershipOK, TypeOK, SharedOK
<1>3. (robbed \subseteq {s \in Threads : WillRelease(s)})'
  BY <1>1, <1>2 DEF Victims
<1>4. ASSUME NEW s \in Threads \ robbed', WillRelease(s)'
      PROVE  nLocker' = s /\ OnlyLastTrue(s)'
  <2>1. s \notin robbed /\ s \notin Victims(t)
    BY <1>1, <1>4
  <2>2. CASE s = t
    BY <1>4, <2>1, <2>2, OwnStep
  <2>3. CASE s # t
    <3>1. pc'[s] = pc[s] /\ flags'[s] = flags[s]
      BY <2>3, LockWordStep
    <3>2. nLocker = s /\ OnlyLastTrue(s)
      BY <1>4, <2>1, <3>1 DEF OwnershipOK, WillRelease, OwesUnlock
    <3>3. nLocker # NoThread
      BY <3>2, ThreadsAssumption
    <3>4. nLocker' # NoThread
      BY <2>1, <2>3, <3>2, <3>3 DEF Victims
    <3>5. nLocker' = nLocker
      <4>1. OwnerMove(t)
        BY OwnerMoves
      <4>2. QED
        BY <3>3, <3>4, <4>1
           DEF OwnerMove, Tries, Takes, Returns, Nests, Pops, Reads, Gives, Frees, Wakes, Keeps
    <3>6. QED
      BY <3>1, <3>2, <3>5 DEF OnlyLastTrue
  <2>4. QED
    BY <2>2, <2>3
<1>5. QED
  BY <1>3, <1>4 DEF OwnershipOK

(* OwnershipInv is inductive.                                              *)
LEMMA OwnershipInvariant ==
    ASSUME ~StaleCAS
    PROVE  OwnerSpec => []OwnershipInv
<1>1. OwnerInit => OwnershipInv
  <2> SUFFICES ASSUME OwnerInit
               PROVE  OwnershipInv
    OBVIOUS
  <2>1. OrphanInv
    BY OrphanInit DEF OwnerInit
  <2>2. LastFlagTrue /\ NotOwnerYet
    BY DEF OwnerInit, Init, LastFlagTrue, LastTrue, NotOwnerYet, LockLabels
  <2>3. OwnershipOK
    BY DEF OwnerInit, Init, OwnershipOK, WillRelease, OwesUnlock
  <2>4. QED
    BY <2>1, <2>2, <2>3 DEF OwnershipInv
<1>2. ASSUME OwnershipInv, [OwnerNext]_ownerVars
      PROVE  OwnershipInv'
  <2>1. [Next]_vars
    BY <1>2 DEF OwnerNext, ownerVars, Next
  <2>2. OrphanInv'
    BY <1>2, <2>1, OrphanStep DEF OwnershipInv
  <2>3. CASE UNCHANGED ownerVars
    <3>1. UNCHANGED <<pc, flags, nLocker, robbed>>
      BY <2>3 DEF ownerVars, vars, word
    <3>2. (LastFlagTrue /\ NotOwnerYet)'
      BY <1>2, <3>1 DEF OwnershipInv, LastFlagTrue, LastTrue, NotOwnerYet
    <3>3. OwnershipOK'
      BY <1>2, <3>1 DEF OwnershipInv, OwnershipOK, OnlyLastTrue, WillRelease, OwesUnlock
    <3>4. QED
      BY <2>2, <3>2, <3>3 DEF OwnershipInv
  <2>4. ASSUME NEW t \in Threads, Step(t), Record(t)
        PROVE  OwnershipInv'
    <3>1. LastFlagTrue' /\ NotOwnerYet' /\ OwnershipOK'
      BY <1>2, <2>4, LastFlagStep, NotOwnerStep, OwnershipStep
    <3>2. QED
      BY <2>2, <3>1 DEF OwnershipInv
  <2>5. QED
    BY <1>2, <2>3, <2>4 DEF OwnerNext
<1>3. QED
  BY <1>1, <1>2, PTL DEF OwnerSpec

(* Two threads between Lock and Unlock at once: on every build with a       *)
(* compare-and-exchange that returns what it found, for any number of      *)
(* threads and any nesting, one of them has been robbed by the Unlock of   *)
(* another thread.                                                         *)
THEOREM SharedOnlyIfRobbedCorrect ==
    ASSUME ~StaleCAS
    PROVE  OwnerSpec => []SharedOnlyIfRobbed
<1>1. OwnershipInv => SharedOnlyIfRobbed
  <2> SUFFICES ASSUME OwnershipInv, NEW s \in Threads, NEW t \in Threads,
                      Holds(s), Holds(t), s # t, s \notin robbed, t \notin robbed
               PROVE  FALSE
    BY DEF SharedOnlyIfRobbed
  <2>1. ASSUME NEW u \in {s, t}
        PROVE  nLocker = u
    <3>1. flags[u] # <<>> /\ flags[u] \in Seq(UnlockFlags) /\ LastTrue(flags[u])
      BY DEF Holds, OwnershipInv, OrphanInv, TypeOK, ControlOK, LastFlagTrue
    <3>2. Len(flags[u]) \in DOMAIN flags[u]
      BY <3>1
    <3>3. WillRelease(u)
      BY <3>1, <3>2 DEF LastTrue, WillRelease, OwesUnlock
    <3>4. QED
      BY <3>3 DEF OwnershipInv, OwnershipOK
  <2>2. QED
    BY <2>1
<1>2. QED
  BY <1>1, OwnershipInvariant, PTL

-----------------------------------------------------------------------------
(* The lock with an owner                                                  *)

(* The sets of threads that the lock with an owner knows.                  *)
Holders == {s \in Threads : WillRelease(s)}
Leaving == {s \in Threads : pc[s] = "relStore"}

(* What a step of t leaves of the sets of the other threads.               *)
LEMMA OthersKept ==
    ASSUME ~StaleCAS, OwnershipInv, NEW t \in Threads, Step(t)
    PROVE  /\ \A s \in Threads \ {t} : WillRelease(s)' <=> WillRelease(s)
           /\ Holders' = IF WillRelease(t)' THEN Holders \cup {t} ELSE Holders \ {t}
           /\ Leaving' = IF pc'[t] = "relStore" THEN Leaving \cup {t} ELSE Leaving \ {t}
<1>1. \A s \in Threads \ {t} : pc'[s] = pc[s] /\ flags'[s] = flags[s]
  BY LockWordStep DEF OwnershipInv, OrphanInv
<1>2. \A s \in Threads \ {t} : WillRelease(s)' <=> WillRelease(s)
  BY <1>1 DEF WillRelease, OwesUnlock
<1>3. Holders' = IF WillRelease(t)' THEN Holders \cup {t} ELSE Holders \ {t}
  BY <1>2 DEF Holders
<1>4. Leaving' = IF pc'[t] = "relStore" THEN Leaving \cup {t} ELSE Leaving \ {t}
  BY <1>1 DEF Leaving
<1>5. QED
  BY <1>2, <1>3, <1>4

(* The record is what the abstract lock calls robbing.                     *)
LEMMA RecordIsRobbing ==
    ASSUME OwnershipInv, NEW t \in Threads, Step(t), Record(t)
    PROVE  /\ nLocker' = NoThread =>
                  robbed' = (robbed \cup ({nLocker} \ {t, NoThread})) \cap Holders'
           /\ nLocker' # NoThread => robbed' = robbed \cap Holders'
<1>1. robbed' = {s \in robbed \cup Victims(t) : WillRelease(s)'}
  BY DEF Record
<1>2. robbed \subseteq Threads /\ nLocker \in Threads \cup {NoThread}
  BY DEF OwnershipInv, OwnershipOK, OrphanInv, TypeOK, SharedOK
<1>3. Holders' = {s \in Threads : WillRelease(s)'}
  BY DEF Holders
<1>4. QED
  BY <1>1, <1>2, <1>3 DEF Victims

(* A step that moves nobody into or out of the lock is none of its steps.   *)
LEMMA OwnedStutter ==
    ASSUME ~StaleCAS, OwnershipInv, NEW t \in Threads, Step(t), Record(t),
           nLocker' = nLocker, WillRelease(t)' <=> WillRelease(t),
           pc[t] # "relStore", pc'[t] # "relStore"
    PROVE  UNCHANGED Owned!vars
<1>1. Holders' = Holders /\ Leaving' = Leaving
  BY OthersKept DEF Holders, Leaving
<1>2. robbed \subseteq Holders
  BY DEF OwnershipInv, OwnershipOK, Holders
<1>3. robbed' = robbed
  BY <1>1, <1>2, RecordIsRobbing
<1>4. QED
  BY <1>1, <1>3 DEF Owned!vars, Holders, Leaving

(* Every step of a CritSectEx is a step of the lock with an owner, or one   *)
(* that it does not see.                                                   *)
LEMMA OwnedStep ==
    ASSUME ~StaleCAS, OwnershipInv, NEW t \in Threads, Step(t), Record(t)
    PROVE  [Owned!Next]_(Owned!vars)
<1> USE DEF OwnershipInv, OrphanInv
<1>1. OwnerMove(t) /\ flags[t] \in Seq(UnlockFlags) /\ t # NoThread
  BY OwnerMoves, ThreadsAssumption DEF TypeOK, ControlOK
<1>2. /\ Holders' = IF WillRelease(t)' THEN Holders \cup {t} ELSE Holders \ {t}
      /\ Leaving' = IF pc'[t] = "relStore" THEN Leaving \cup {t} ELSE Leaving \ {t}
  BY OthersKept
<1>3. robbed \subseteq Holders
  BY DEF OwnershipOK, Holders
<1>4. flags[t] # <<>> => OwesUnlock(t)
  <2>1. flags[t] # <<>> => Len(flags[t]) \in DOMAIN flags[t]
    BY <1>1
  <2>2. QED
    BY <2>1 DEF LastFlagTrue, LastTrue, OwesUnlock
<1>5. CASE Tries(t) \/ Reads(t) \/ Wakes(t)
  <2>1. WillRelease(t)' <=> WillRelease(t)
    BY <1>5 DEF Tries, Reads, Wakes, Keeps, LockLabels, WakeLabels, WillRelease, OwesUnlock
  <2>2. nLocker' = nLocker /\ pc[t] # "relStore" /\ pc'[t] # "relStore"
    BY <1>5 DEF Tries, Reads, Wakes, Keeps, LockLabels, WakeLabels
  <2>3. QED
    BY <2>1, <2>2, OwnedStutter
<1>6. CASE Takes(t)
  <2>1. WillRelease(t)' /\ pc'[t] # "relStore" /\ pc[t] # "relStore"
    BY <1>6 DEF Takes, WillRelease
  <2>2. nLocker = NoThread /\ nLocker' = t /\ Holders' = Holders \cup {t} /\ Leaving' = Leaving
    BY <1>2, <1>6, <2>1 DEF Takes, Leaving
  <2>3. t \notin Holders \ robbed
    BY <1>1, <2>2 DEF OwnershipOK, Holders
  <2>4. robbed' = robbed
    BY <1>1, <1>3, <2>2, RecordIsRobbing
  <2>5. Owned!Take(t)
    BY <2>2, <2>3, <2>4 DEF Owned!Take, Holders, Leaving
  <2>6. QED
    BY <2>5 DEF Owned!Next
<1>7. CASE Returns(t)
  <2>1. WillRelease(t) /\ WillRelease(t)'
    BY <1>1, <1>7, PushTrue DEF Returns, WillRelease, OwesUnlock
  <2>2. QED
    BY <1>7, <2>1, OwnedStutter DEF Returns
<1>8. CASE Nests(t)
  <2>1. WillRelease(t) /\ pc[t] = "idle" /\ flags'[t] = <<"false">> \o flags[t]
    BY <1>1, <1>8 DEF Nests, NoOrphanedLock
  <2>2. OwesUnlock(t)
    BY <2>1 DEF WillRelease
  <2>3. OwesUnlock(t)'
    BY <1>1, <2>1, <2>2, PushKeeps DEF OwesUnlock, UnlockFlags
  <2>4. WillRelease(t)'
    BY <2>3 DEF WillRelease
  <2>5. QED
    BY <1>8, <2>1, <2>4, OwnedStutter DEF Nests
<1>9. CASE Pops(t)
  <2>1. OwesUnlock(t) /\ flags[t] # <<>> /\ flags'[t] = Tail(flags[t])
    BY <1>4, <1>9 DEF Pops
  <2>2. CASE Head(flags[t]) = "true"
    BY <1>9, <2>1, <2>2, OwnedStutter DEF Pops, WillRelease
  <2>3. CASE Head(flags[t]) # "true"
    <3>1. OwesUnlock(t)'
      BY <1>1, <2>1, <2>3, PopKeeps DEF OwesUnlock
    <3>2. QED
      BY <1>9, <2>1, <2>3, <3>1, OwnedStutter DEF Pops, WillRelease
  <2>4. QED
    BY <2>2, <2>3
<1>10. CASE Gives(t)
  <2>1. t \in Holders /\ Leaving' = Leaving \cup {t}
    BY <1>2, <1>10 DEF Gives, Holders, WillRelease
  <2>2. CASE t \notin robbed
    <3>1. nLocker = t /\ flags[t] = <<>>
      BY <1>10, <2>1, <2>2, InCallOwesNothing DEF Gives, OwnershipOK, Holders
    <3>2. nLocker' = NoThread /\ ~WillRelease(t)'
      BY <1>10, <3>1 DEF Gives, ComparandOK, WillRelease, OwesUnlock
    <3>3. Holders' = Holders \ {t}
      BY <1>2, <3>2
    <3>4. robbed' = robbed
      BY <1>3, <2>2, <3>1, <3>2, <3>3, RecordIsRobbing
    <3>5. Owned!Give(t)
      BY <2>1, <2>2, <3>1, <3>2, <3>3, <3>4 DEF Owned!Give, Holders, Leaving
    <3>6. QED
      BY <3>5 DEF Owned!Next
  <2>3. CASE t \in robbed
    <3>1. Holders' \in {Holders, Holders \ {t}}
      BY <1>2, <2>1
    <3>2. CASE nLocker' = NoThread
      <4>1. Owned!Robbing(t)
        BY <3>2, RecordIsRobbing DEF Owned!Robbing, Holders
      <4>2. Owned!GiveRobbed(t)
        BY <2>1, <2>3, <3>1, <3>2, <4>1 DEF Owned!GiveRobbed, Holders, Leaving
      <4>3. QED
        BY <4>2 DEF Owned!Next
    <3>3. CASE nLocker' # NoThread
      <4>1. nLocker' = nLocker /\ nLocker # t
        BY <1>10, <3>3 DEF Gives, ComparandOK
      <4>2. robbed' = robbed \cap Holders'
        BY <3>3, RecordIsRobbing
      <4>3. Owned!GiveRobbed(t)
        BY <2>1, <2>3, <3>1, <4>1, <4>2 DEF Owned!GiveRobbed, Holders, Leaving
      <4>4. QED
        BY <4>3 DEF Owned!Next
    <3>4. QED
      BY <3>2, <3>3
  <2>4. QED
    BY <2>2, <2>3
<1>11. CASE Frees(t)
  <2>1. WillRelease(t)' <=> WillRelease(t)
    BY <1>11 DEF Frees, WillRelease, OwesUnlock
  <2>2. Holders' = Holders /\ nLocker' = NoThread
    BY <1>2, <1>11, <2>1 DEF Frees, Holders
  <2>3. t \in Leaving /\ Leaving' = Leaving \ {t}
    BY <1>2, <1>11 DEF Frees, Leaving
  <2>4. Owned!Robbing(t)
    BY <2>2, RecordIsRobbing DEF Owned!Robbing, Holders
  <2>5. Owned!FreeAgain(t)
    BY <2>2, <2>3, <2>4 DEF Owned!FreeAgain, Holders, Leaving
  <2>6. QED
    BY <2>5 DEF Owned!Next
<1>12. QED
  BY <1>1, <1>5, <1>6, <1>7, <1>8, <1>9, <1>10, <1>11 DEF OwnerMove

(* CritSectEx is a lock with an owner, for any number of threads, any       *)
(* nesting and every kind of time-out: the abstract lock is taken when it   *)
(* is free and given back by its owner, but for the threads that are robbed.*)
THEOREM LockHasOwnerCorrect ==
    ASSUME ~StaleCAS
    PROVE  OwnerSpec => LockHasOwner
<1>1. OwnerInit => Owned!Init
  BY DEF OwnerInit, Init, Owned!Init, WillRelease, OwesUnlock
<1>2. ASSUME OwnershipInv, [OwnerNext]_ownerVars
      PROVE  [Owned!Next]_(Owned!vars)
  <2>1. CASE UNCHANGED ownerVars
    <3>1. UNCHANGED <<pc, flags, nLocker, robbed>>
      BY <2>1 DEF ownerVars, vars, word
    <3>2. UNCHANGED Owned!vars
      BY <3>1 DEF Owned!vars, WillRelease, OwesUnlock
    <3>3. QED
      BY <3>2
  <2>2. QED
    BY <1>2, <2>1, OwnedStep DEF OwnerNext
<1>3. QED
  BY <1>1, <1>2, OwnershipInvariant, PTL DEF OwnerSpec, LockHasOwner, Owned!Spec

(* The store after the releasing exchange is the only cause: in a run in    *)
(* which it never hits the lock of somebody else, two threads are never     *)
(* both between a Lock that returned true and its Unlock.                  *)
THEOREM ExclusionWithoutLateStores ==
    ASSUME ~StaleCAS
    PROVE  OwnerSpec /\ StoresAreHarmless => []MutualExclusion
<1>1. OwnerInit => robbed = {}
  BY DEF OwnerInit
<1>2. ASSUME OwnershipInv, robbed = {}, [OwnerNext]_ownerVars, [HarmlessStore]_ownerVars
      PROVE  (robbed = {})'
  <2>1. CASE UNCHANGED ownerVars
    BY <1>2, <2>1 DEF ownerVars
  <2>2. ASSUME NEW t \in Threads, Step(t), Record(t), ReleaseStore(t) => nLocker = NoThread
        PROVE  robbed' = {}
    <3>1. OwnerMove(t)
      BY <1>2, <2>2, OwnerMoves DEF OwnershipInv, OrphanInv
    <3>2. nLocker' = NoThread => nLocker \in {t, NoThread}
      <4>1. CASE Gives(t)
        <5>1. WillRelease(t)
          BY <4>1 DEF Gives, WillRelease
        <5>2. QED
          BY <1>2, <5>1 DEF OwnershipInv, OwnershipOK
      <4>2. CASE Frees(t)
        <5>1. ReleaseStore(t)
          BY <2>2, <4>2 DEF Frees, Step, LockStep, UnlockStep, WaitStep, LockAgain, CallLock,
               CallUnlock, Test, CASRead, CASXchg, CASWon, Spin, Alloc, AllocRead,
               AllocXchg, Minus, Enter, Plus, Check, Release, ReleaseXchg,
               ReleaseCheck, ReleaseMinus, ReleasePost, ReleaseDone, TakeToken,
               TimeOut, WaitFails, At
        <5>2. QED
          BY <2>2, <5>1
      <4>3. CASE ~Gives(t) /\ ~Frees(t)
        BY <3>1, <4>3, ThreadsAssumption
           DEF OwnerMove, Tries, Takes, Returns, Nests, Pops, Reads, Wakes, Keeps
      <4>4. QED
        BY <4>1, <4>2, <4>3
    <3>3. Victims(t) = {}
      BY <3>2 DEF Victims
    <3>4. QED
      BY <1>2, <2>2, <3>3 DEF Record
  <2>3. QED
    <3>1. CASE ~UNCHANGED ownerVars
      BY <1>2, <2>2, <3>1 DEF OwnerNext, HarmlessStore
    <3>2. QED
      BY <2>1, <3>1
<1>3. SharedOnlyIfRobbed /\ robbed = {} => MutualExclusion
  BY DEF SharedOnlyIfRobbed, MutualExclusion
<1>4. OwnerSpec /\ StoresAreHarmless => [](robbed = {})
  BY <1>1, <1>2, OwnershipInvariant, PTL DEF OwnerSpec, StoresAreHarmless
<1>5. QED
  BY <1>3, <1>4, SharedOnlyIfRobbedCorrect, PTL
=============================================================================
