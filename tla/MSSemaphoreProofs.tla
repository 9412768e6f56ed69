------------------------- MODULE MSSemaphoreProofs -------------------------
(***************************************************************************)
(* What the emulated semaphore guarantees for every number of threads and  *)
(* every value of its parameters.                                          *)
(***************************************************************************)
EXTENDS MSSemaphore, TLAPS

Step(t) == ReleaseStep(t) \/ WaitStep(t)

-----------------------------------------------------------------------------
(* Type correctness                                                        *)

(* Every step of a thread keeps the types; in particular the semaphore is  *)
(* never taken below 0.                                                    *)
LEMMA TypeThreadStep ==
    ASSUME TypeOK, NEW t \in Threads, Step(t)
    PROVE  TypeOK'
<1> USE CountAssumption
        DEF TypeOK, PCs, At, Goto, Enter, Reread, calls, locals
<1>1. CASE CallRelease(t)  BY <1>1 DEF CallRelease, Fits
<1>2. CASE SetTarget(t)  BY <1>2 DEF SetTarget
<1>3. CASE Post(t)  BY <1>3 DEF Post
<1>4. CASE CountRead(t)  BY <1>4 DEF CountRead
<1>5. CASE CountWrite(t)  BY <1>5 DEF CountWrite
<1>6. CASE Loop(t)  BY <1>6 DEF Loop
<1>7. CASE CallWait(t)  BY <1>7 DEF CallWait
<1>8. CASE TimeOut(t)  BY <1>8 DEF TimeOut
<1>9. CASE Take(t)  BY <1>9 DEF Take
<1>10. CASE TakenTest(t)  BY <1>10 DEF TakenTest
<1>11. CASE TakenRead(t)  BY <1>11 DEF TakenRead
<1>12. CASE TakenWrite(t)  BY <1>12 DEF TakenWrite
<1>13. QED
  BY <1>1, <1>2, <1>3, <1>4, <1>5, <1>6, <1>7, <1>8, <1>9, <1>10, <1>11, <1>12
     DEF Step, ReleaseStep, WaitStep

(* TypeOK is inductive.                                                    *)
LEMMA TypeStep ==
    ASSUME TypeOK, [Next]_vars
    PROVE  TypeOK'
<1>1. CASE UNCHANGED vars
  BY <1>1 DEF TypeOK, vars, calls, locals
<1>2. CASE Next
  BY <1>2, TypeThreadStep DEF Next, Step
<1>3. QED
  BY <1>1, <1>2

(* Every variable keeps its type: the value of the semaphore, which only a *)
(* wait that finds it positive takes down, stays a natural number.         *)
THEOREM SemTypeCorrect == Spec => []TypeOK
<1>1. Init => TypeOK
  BY CountAssumption DEF Init, TypeOK, PCs
<1>2. TypeOK /\ [Next]_vars => TypeOK'
  BY TypeStep
<1>3. QED
  BY <1>1, <1>2, PTL DEF Spec

-----------------------------------------------------------------------------
(* Calls that do not overlap                                               *)

(* The maximum the semaphore keeps to.                                     *)
Kept(n) == n <= MaxCount \/ n <= Initial

(* A thread that does not use the count has posted what it was asked to.   *)
Done(t) == posts[t] = amount[t]

(* What holds of a thread that uses the count alone, by its place:         *)
(* ReleaseSemaphore has posted what the count says, or one more between    *)
(* the post and the addition; a wait has taken one that the count has yet  *)
(* to lose.                                                                *)
Releasing(t) ==
    /\ target[t] <= MaxCount
    /\ posts[t] = sem - (target[t] - amount[t])
    /\ \/ /\ pc[t] = "post"
          /\ sem = curCount /\ reg[t] = curCount /\ curCount < target[t]
       \/ /\ pc[t] = "countRead"
          /\ sem = curCount + 1 /\ reg[t] = curCount /\ sem <= target[t]
       \/ /\ pc[t] = "countWrite"
          /\ sem = curCount + 1 /\ reg[t] = curCount /\ sem <= target[t]
       \/ /\ pc[t] = "loop"
          /\ sem = curCount /\ reg[t] = curCount /\ sem <= target[t]

Alone(t) ==
    \/ /\ pc[t] = "target"
       /\ sem = curCount /\ reg[t] = curCount
       /\ posts[t] = 0 /\ amount[t] > 0 /\ curCount + amount[t] <= MaxCount
    \/ Releasing(t)
    \/ /\ pc[t] = "takenTest"
       /\ curCount = sem + 1 /\ Kept(curCount) /\ Done(t)
    \/ /\ pc[t] \in {"takenRead", "takenWrite"}
       /\ curCount = sem + 1 /\ reg[t] = curCount /\ Kept(curCount) /\ Done(t)

(* The inductive form of CleanExact.                                       *)
CleanInv ==
    clean =>
        /\ \A t \in Threads : t \in Counting => Alone(t)
        /\ \A t \in Threads \ Counting : Done(t)
        /\ \A t, u \in Counting : t = u
        /\ Counting = {} => curCount = sem /\ Kept(sem)

(* A call that starts to use the count while nobody else does finds it     *)
(* equal to the semaphore.                                                 *)
LEMMA EnterStep ==
    ASSUME TypeOK, CleanInv, clean', NEW t \in Threads,
           CallRelease(t) \/ Take(t)
    PROVE  CleanInv'
<1>1. Counting = {} /\ clean
  BY DEF Enter, CallRelease, Take, At, Counting
<1>2. /\ curCount = sem /\ Kept(sem)
      /\ \A u \in Threads : Done(u)
  BY <1>1 DEF CleanInv
<1>3. CASE CallRelease(t)
  <2>1. Counting' = {t}
    BY <1>1, <1>3 DEF CallRelease, Goto, Counting, TypeOK
  <2>2. Alone(t)'
    BY <1>2, <1>3, CountAssumption DEF CallRelease, Goto, Fits, TypeOK, Alone
  <2>3. \A u \in Threads \ {t} : Done(u)'
    BY <1>2, <1>3 DEF CallRelease, TypeOK, Done
  <2>4. QED
    BY <2>1, <2>2, <2>3 DEF CleanInv
<1>4. CASE Take(t)
  <2>1. Counting' = {t}
    BY <1>1, <1>4 DEF Take, Goto, Counting, TypeOK
  <2>2. \A u \in Threads : Done(u)'
    BY <1>2, <1>4 DEF Take, Done
  <2>3. Alone(t)'
    BY <1>2, <1>4, <2>2 DEF Take, Goto, TypeOK, Alone, Kept
  <2>4. QED
    BY <2>1, <2>2, <2>3 DEF CleanInv
<1>5. QED
  BY <1>3, <1>4

(* The only thread that uses the count keeps its relation to the semaphore *)
(* until it is done, and then the two are equal.                           *)
LEMMA AloneStep ==
    ASSUME TypeOK, NEW t \in Threads, Alone(t), t \in Counting,
           Step(t), ~CallRelease(t), ~Take(t)
    PROVE  \/ Alone(t)'
           \/ pc'[t] = "idle" /\ curCount' = sem' /\ Kept(sem)' /\ Done(t)'
<1> USE DEF TypeOK, At, Goto, Reread, Again, calls, locals, Alone, Releasing,
            Kept, Done
<1>1. CASE SetTarget(t)  BY <1>1 DEF SetTarget
<1>2. CASE Post(t)  BY <1>2 DEF Post
<1>3. CASE CountRead(t)  BY <1>3 DEF CountRead
<1>4. CASE CountWrite(t)  BY <1>4 DEF CountWrite
<1>5. CASE Loop(t)  BY <1>5 DEF Loop
<1>6. CASE TakenTest(t)  BY <1>6 DEF TakenTest
<1>7. CASE TakenRead(t)  BY <1>7 DEF TakenRead
<1>8. CASE TakenWrite(t)  BY <1>8, CountAssumption DEF TakenWrite
<1>9. CASE CallWait(t) \/ TimeOut(t)
  BY <1>9 DEF CallWait, TimeOut, Counting
<1>10. QED
  BY <1>1, <1>2, <1>3, <1>4, <1>5, <1>6, <1>7, <1>8, <1>9
     DEF Step, ReleaseStep, WaitStep

(* CleanInv is inductive.                                                  *)
LEMMA CleanThreadStep ==
    ASSUME TypeOK, CleanInv, clean', NEW t \in Threads, Step(t)
    PROVE  CleanInv'
<1>1. CASE CallRelease(t) \/ Take(t)
  BY <1>1, EnterStep
<1>2. CASE CallWait(t) \/ TimeOut(t)
  <2>1. Counting' = Counting
    BY <1>2 DEF CallWait, TimeOut, At, Goto, Counting, TypeOK
  <2>2. \A u \in Threads : u \in Counting => pc'[u] = pc[u]
    BY <1>2 DEF CallWait, TimeOut, At, Goto, Counting, TypeOK
  <2>3. UNCHANGED <<sem, curCount, reg, target, amount, posts, clean>>
    BY <1>2 DEF CallWait, TimeOut, calls, locals
  <2>4. QED
    BY <2>1, <2>2, <2>3 DEF CleanInv, Alone, Releasing, Done
<1>3. CASE ~CallRelease(t) /\ ~Take(t) /\ ~CallWait(t) /\ ~TimeOut(t)
  <2>1. t \in Counting /\ UNCHANGED clean
    BY <1>3 DEF Step, ReleaseStep, WaitStep, SetTarget, Post, CountRead,
       CountWrite, Loop, TakenTest, TakenRead, TakenWrite, At, Counting
  <2>2. /\ Counting = {t} /\ Alone(t)
        /\ \A u \in Threads \ {t} : Done(u)
    BY <2>1 DEF CleanInv
  <2>3. \A u \in Threads \ {t} : Done(u)' /\ pc'[u] = pc[u]
    BY <1>3, <2>2 DEF Step, ReleaseStep, WaitStep, SetTarget, Post, CountRead,
       CountWrite, Loop, TakenTest, TakenRead, TakenWrite, Goto, TypeOK, Done,
       calls
  <2>4. Counting' \subseteq {t}
    BY <2>2, <2>3 DEF Counting
  <2>5. CASE Alone(t)'
    <3>1. Counting' = {t}
      BY <2>4, <2>5 DEF Counting, Alone, Releasing
    <3>2. QED
      BY <2>3, <2>5, <3>1 DEF CleanInv
  <2>6. CASE pc'[t] = "idle" /\ curCount' = sem' /\ Kept(sem)' /\ Done(t)'
    <3>1. Counting' = {}
      BY <2>4, <2>6 DEF Counting
    <3>2. QED
      BY <2>3, <2>6, <3>1 DEF CleanInv
  <2>7. QED
    BY <1>3, <2>1, <2>2, <2>5, <2>6, AloneStep
<1>4. QED
  BY <1>1, <1>2, <1>3

(* Once two calls have overlapped, CleanInv claims nothing any more.       *)
LEMMA CleanStep ==
    ASSUME TypeOK, CleanInv, [Next]_vars
    PROVE  CleanInv'
<1>1. CASE UNCHANGED vars
  BY <1>1 DEF CleanInv, Counting, Alone, Releasing, Done, vars, calls, locals
<1>2. ASSUME NEW t \in Threads, Step(t)
      PROVE  CleanInv'
  <2>1. CASE clean'
    BY <1>2, <2>1, CleanThreadStep
  <2>2. CASE ~clean'
    BY <2>2 DEF CleanInv
  <2>3. QED
    BY <2>1, <2>2
<1>3. QED
  BY <1>1, <1>2 DEF Next, Step

(* As long as calls do not overlap, the count is the value of the          *)
(* semaphore between calls, the maximum is kept, and every                 *)
(* ReleaseSemaphore posts as often as it was asked to.                     *)
THEOREM CleanExactCorrect == Spec => []CleanExact
<1>1. Init => CleanInv
  <2>1. SUFFICES ASSUME Init PROVE CleanInv
    OBVIOUS
  <2>2. Counting = {}
    BY <2>1 DEF Init, Counting
  <2>3. curCount = sem /\ Kept(sem)
    BY <2>1, CountAssumption DEF Init, Kept
  <2>4. \A t \in Threads : Done(t)
    BY <2>1 DEF Init, Done
  <2>5. QED
    BY <2>2, <2>3, <2>4 DEF CleanInv
<1>2. TypeOK /\ CleanInv /\ [Next]_vars => CleanInv'
  BY CleanStep
<1>3. CleanInv => CleanExact
  BY DEF CleanInv, CleanExact, Kept, Done
<1>4. QED
  BY <1>1, <1>2, <1>3, SemTypeCorrect, PTL DEF Spec
=============================================================================
