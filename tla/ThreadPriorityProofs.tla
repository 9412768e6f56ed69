----------------------- MODULE ThreadPriorityProofs -----------------------
(***************************************************************************)
(* What GetThreadPriority and SetThreadPriority guarantee for every policy *)
(* but those with five or six priorities, and for every number of threads  *)
(* and callers.                                                            *)
(***************************************************************************)
EXTENDS ThreadPriority, TLAPS

-----------------------------------------------------------------------------
(* The two scales                                                          *)

(* The middle of two priorities, rounded down.                             *)
LEMMA Halves ==
    ASSUME NEW x \in Nat, NEW y \in Nat, x <= y
    PROVE  /\ (x + y) \div 2 \in x .. y
           /\ 2 * ((x + y) \div 2) <= x + y /\ x + y <= 2 * ((x + y) \div 2) + 1
OBVIOUS

(* The levels are in order, and far enough apart in a wide range.          *)
LEMMA Marks ==
    ASSUME pmin \in Nat, pmax \in Nat, pmin <= pmax
    PROVE  /\ Normal \in pmin .. pmax /\ Below \in pmin .. Normal /\ Above \in Normal .. pmax
           /\ pmax - pmin >= 8 => /\ pmin + 2 <= Below /\ Below + 2 <= Normal
                                 /\ Normal + 1 <= Above /\ Above + 1 <= pmax
<1>1. Normal \in pmin .. pmax /\ 2 * Normal <= pmin + pmax /\ pmin + pmax <= 2 * Normal + 1
  BY Halves DEF Normal
<1>2. Below \in pmin .. Normal /\ 2 * Below <= pmin + Normal /\ pmin + Normal <= 2 * Below + 1
  BY <1>1, Halves DEF Below
<1>3. Above \in Normal .. pmax /\ 2 * Above <= Normal + pmax /\ Normal + pmax <= 2 * Above + 1
  BY <1>1, Halves DEF Above
<1>4. QED
  BY <1>1, <1>2, <1>3

(* A level that has a name stands for a priority of the policy.            *)
LEMMA SchedInRange ==
    ASSUME pmin \in Nat, pmax \in Nat, pmin <= pmax, NEW n \in Levels
    PROVE  SchedPriority(n) \in pmin .. pmax
BY Marks DEF SchedPriority, Levels

Stable(n) == ThreadPriorityOf(SchedPriority(n)) = n

(* In a small range the marks, the borders between the levels and so the   *)
(* levels can be told one by one.                                          *)
LEMMA SmallStable ==
    ASSUME pmin \in Nat, pmax \in Nat, pmin <= pmax, pmax - pmin < 8, LevelsApart,
           NEW p \in pmin .. pmax
    PROVE  Stable(ThreadPriorityOf(p))
<1> DEFINE b1 == (pmin + Below) \div 2  b2 == (Below + Normal) \div 2
           b3 == (Normal + Above) \div 2  b4 == (Above + pmax) \div 2
<1>1. \A q \in Nat : ThreadPriorityOf(q) =
          IF q < b1 THEN -2 ELSE IF q < b2 THEN -1
          ELSE IF q <= b3 THEN 0 ELSE IF q <= b4 THEN 1 ELSE 2
  BY DEF ThreadPriorityOf
<1>2. CASE pmax = pmin
  <2>1. Normal = pmin
    BY <1>2 DEF Normal
  <2>2. Below = pmin /\ Above = pmin
    BY <1>2, <2>1 DEF Below, Above
  <2>3. b1 = pmin /\ b2 = pmin /\ b3 = pmin /\ b4 = pmin
    BY <1>2, <2>1, <2>2
  <2> HIDE DEF b1, b2, b3, b4
  <2>4. QED
    BY <1>2, <1>1, <2>1, <2>2, <2>3 DEF Stable, SchedPriority
<1>3. CASE pmax = pmin + 1
  <2>1. Normal = pmin
    BY <1>3 DEF Normal
  <2>2. Below = pmin /\ Above = pmin
    BY <1>3, <2>1 DEF Below, Above
  <2>3. b1 = pmin /\ b2 = pmin /\ b3 = pmin /\ b4 = pmin
    BY <1>3, <2>1, <2>2
  <2> HIDE DEF b1, b2, b3, b4
  <2>4. QED
    BY <1>3, <1>1, <2>1, <2>2, <2>3 DEF Stable, SchedPriority
<1>4. CASE pmax = pmin + 2
  <2>1. Normal = pmin + 1
    BY <1>4 DEF Normal
  <2>2. Below = pmin /\ Above = pmin + 1
    BY <1>4, <2>1 DEF Below, Above
  <2>3. b1 = pmin /\ b2 = pmin /\ b3 = pmin + 1 /\ b4 = pmin + 1
    BY <1>4, <2>1, <2>2
  <2> HIDE DEF b1, b2, b3, b4
  <2>4. QED
    BY <1>4, <1>1, <2>1, <2>2, <2>3 DEF Stable, SchedPriority
<1>5. CASE pmax = pmin + 3
  <2>1. Normal = pmin + 1
    BY <1>5 DEF Normal
  <2>2. Below = pmin /\ Above = pmin + 2
    BY <1>5, <2>1 DEF Below, Above
  <2>3. b1 = pmin /\ b2 = pmin /\ b3 = pmin + 1 /\ b4 = pmin + 2
    BY <1>5, <2>1, <2>2
  <2> HIDE DEF b1, b2, b3, b4
  <2>4. QED
    BY <1>5, <1>1, <2>1, <2>2, <2>3 DEF Stable, SchedPriority
<1>6. CASE pmax = pmin + 6
  <2>1. Normal = pmin + 3
    BY <1>6 DEF Normal
  <2>2. Below = pmin + 1 /\ Above = pmin + 4
    BY <1>6, <2>1 DEF Below, Above
  <2>3. b1 = pmin /\ b2 = pmin + 2 /\ b3 = pmin + 3 /\ b4 = pmin + 5
    BY <1>6, <2>1, <2>2
  <2> HIDE DEF b1, b2, b3, b4
  <2>4. QED
    BY <1>6, <1>1, <2>1, <2>2, <2>3 DEF Stable, SchedPriority
<1>7. CASE pmax = pmin + 7
  <2>1. Normal = pmin + 3
    BY <1>7 DEF Normal
  <2>2. Below = pmin + 1 /\ Above = pmin + 5
    BY <1>7, <2>1 DEF Below, Above
  <2>3. b1 = pmin /\ b2 = pmin + 2 /\ b3 = pmin + 4 /\ b4 = pmin + 6
    BY <1>7, <2>1, <2>2
  <2> HIDE DEF b1, b2, b3, b4
  <2>4. QED
    BY <1>7, <1>1, <2>1, <2>2, <2>3 DEF Stable, SchedPriority
<1>8. QED
  BY <1>2, <1>3, <1>4, <1>5, <1>6, <1>7 DEF LevelsApart

(* The priority a level stands for is read as that level again, whatever   *)
(* priority it was read from.                                              *)
LEMMA LevelsStable ==
    ASSUME pmin \in Nat, pmax \in Nat, pmin <= pmax, LevelsApart, NEW p \in pmin .. pmax
    PROVE  ThreadPriorityOf(p) \in -2 .. 2 /\ Stable(ThreadPriorityOf(p))
<1> DEFINE n == ThreadPriorityOf(p)
<1>1. n \in -2 .. 2
  BY DEF ThreadPriorityOf
<1>2. CASE pmax - pmin < 8
  BY <1>1, <1>2, SmallStable
<1>3. CASE pmax - pmin >= 8
  <2>1. /\ pmin + 2 <= Below /\ Below + 2 <= Normal /\ Normal + 1 <= Above /\ Above + 1 <= pmax
        /\ Normal \in Nat /\ Below \in Nat /\ Above \in Nat
    BY <1>3, Marks
  <2> DEFINE b1 == (pmin + Below) \div 2  b2 == (Below + Normal) \div 2
             b3 == (Normal + Above) \div 2  b4 == (Above + pmax) \div 2
  <2>2. pmin < b1 /\ b1 < Below
    BY <2>1, Halves
  <2>3. Below < b2 /\ b2 < Normal
    BY <2>1, Halves
  <2>4. Normal <= b3 /\ b3 < Above
    BY <2>1, Halves
  <2>5. Above <= b4 /\ b4 < pmax
    BY <2>1, Halves
  <2>6. b1 \in Nat /\ b2 \in Nat /\ b3 \in Nat /\ b4 \in Nat
    BY <2>1, Halves
  <2>7. \A q \in Nat : ThreadPriorityOf(q) =
            IF q < b1 THEN -2 ELSE IF q < b2 THEN -1
            ELSE IF q <= b3 THEN 0 ELSE IF q <= b4 THEN 1 ELSE 2
    BY DEF ThreadPriorityOf
  <2> HIDE DEF b1, b2, b3, b4
  <2>8. ThreadPriorityOf(pmin) = -2
    BY <2>1, <2>2, <2>6, <2>7
  <2>9. ThreadPriorityOf(Below) = -1
    BY <2>1, <2>2, <2>3, <2>6, <2>7
  <2>10. ThreadPriorityOf(Normal) = 0
    BY <2>1, <2>2, <2>3, <2>4, <2>6, <2>7
  <2>11. ThreadPriorityOf(Above) = 1
    BY <2>1, <2>2, <2>3, <2>4, <2>5, <2>6, <2>7
  <2>12. ThreadPriorityOf(pmax) = 2
    BY <2>1, <2>2, <2>3, <2>4, <2>5, <2>6, <2>7
  <2>13. \A k \in -2 .. 2 : Stable(k)
    BY <2>8, <2>9, <2>10, <2>11, <2>12 DEF Stable, SchedPriority
  <2>14. QED
    BY <1>1, <2>13
<1>4. QED
  BY <1>1, <1>2, <1>3

-----------------------------------------------------------------------------
(* Types                                                                   *)

(* What a step needs of the types to use the lemmas above.                 *)
LEMMA Policy ==
    ASSUME TypeOK
    PROVE  pmin \in Nat /\ pmax \in Nat /\ pmin <= pmax /\ LevelsApart
BY PriorityAssumption DEF TypeOK

(* The level of a priority of the policy is one of the seven.              *)
LEMMA LevelKnown ==
    ASSUME TypeOK, NEW p \in pmin .. pmax
    PROVE  ThreadPriorityOf(p) \in Levels
BY Policy, LevelsStable DEF Levels

(* Every step keeps the types; in particular no thread is moved out of the *)
(* range of its policy.                                                    *)
LEMMA TypeStep ==
    ASSUME TypeOK, [Next]_vars
    PROVE  TypeOK'
<1> USE DEF TypeOK
<1>1. \A n \in Levels : SchedPriority(n) \in pmin .. pmax
  BY Policy, SchedInRange
<1>2. CASE UNCHANGED vars
  BY <1>2 DEF vars, policy, LevelsApart
<1>3. ASSUME NEW c \in Callers, Adjust(c)
      PROVE  TypeOK'
  <2>1. SchedPriority(level[c]) \in pmin .. pmax
    BY <1>1
  <2> HIDE DEF SchedPriority
  <2>2. QED
    BY <1>3, <2>1 DEF Adjust, Change, Disturbs, Goto, policy, LevelsApart
<1>4. ASSUME NEW c \in Callers, SetCopied(c)
      PROVE  TypeOK'
  BY <1>1, <1>4 DEF SetCopied, Change, Disturbs, Goto, policy, LevelsApart
<1>5. ASSUME NEW c \in Callers, Return(c)
      PROVE  TypeOK'
  BY <1>5 DEF Return, Goto, policy, LevelsApart
<1>6. ASSUME NEW c \in Callers, NEW h \in Threads, NEW to \in Threads, GetRead(c, h, to)
      PROVE  TypeOK'
  <2>1. ThreadPriorityOf(prio[h]) \in Levels /\ prio[h] \in Int
    BY LevelKnown, Policy
  <2>2. QED
    BY <1>6, <2>1 DEF GetRead, Goto, policy, LevelsApart
<1>7. ASSUME NEW c \in Callers, NEW h \in Threads, NEW n \in Levels, SetThreadPriority(c, h, n)
      PROVE  TypeOK'
  BY <1>1, <1>7 DEF SetThreadPriority, Change, Disturbs, policy, LevelsApart
<1>8. QED
  BY <1>2, <1>3, <1>4, <1>5, <1>6, <1>7 DEF Next

(* Whatever callers do, every thread has a priority its policy knows.      *)
THEOREM PriorityTypeCorrect == Spec => []TypeOK
<1>1. Init => TypeOK
  BY PriorityAssumption DEF Init, TypeOK, LevelsApart, Levels
<1>2. TypeOK /\ [Next]_vars => TypeOK'
  BY TypeStep
<1>3. QED
  BY <1>1, <1>2, PTL DEF Spec

-----------------------------------------------------------------------------
(* Copying a priority                                                      *)

(* How far an undisturbed copy has come: the thread that is read has the   *)
(* priority that was seen, then the one its level stands for, and at last  *)
(* the other thread has it, too; the level is one that is read again.      *)
CopyOf(c) ==
    /\ pc[c] # "idle" => Stable(level[c])
    /\ c \notin disturbed =>
           /\ pc[c] = "adjust" => prio[a[c]] = seen[c]
           /\ pc[c] \in {"have", "done"} => prio[a[c]] = SchedPriority(level[c])
           /\ pc[c] = "done" => prio[b[c]] = SchedPriority(level[c])

CopyInv == TypeOK /\ \A c \in Callers : CopyOf(c)

(* The two scales do not change.                                           *)
LEMMA ScalesFixed ==
    ASSUME UNCHANGED policy, NEW c \in Callers, UNCHANGED level[c]
    PROVE  UNCHANGED SchedPriority(level[c]) /\ (Stable(level[c])' <=> Stable(level[c]))
<1>1. UNCHANGED SchedPriority(level[c])
  BY DEF SchedPriority, Normal, Below, Above, policy
<1>2. UNCHANGED ThreadPriorityOf(SchedPriority(level[c]))
  <2> DEFINE s == SchedPriority(level[c])
  <2>1. UNCHANGED s
    BY <1>1
  <2> HIDE DEF s
  <2>2. UNCHANGED ThreadPriorityOf(s)
    BY <2>1 DEF ThreadPriorityOf, Normal, Below, Above, policy
  <2>3. QED
    BY <2>2 DEF s
<1>3. QED
  BY <1>1, <1>2 DEF Stable

(* A change of one thread's priority leaves the copies of other callers    *)
(* as they are, or disturbs them.                                          *)
LEMMA OthersCopy ==
    ASSUME CopyInv, NEW c \in Callers, NEW h \in Threads, NEW p, Change(c, h, p), UNCHANGED policy,
           NEW d \in Callers, d # c,
           pc'[d] = pc[d], a'[d] = a[d], b'[d] = b[d], seen'[d] = seen[d], level'[d] = level[d]
    PROVE  CopyOf(d)'
<1>1. UNCHANGED SchedPriority(level[d]) /\ (Stable(level[d])' <=> Stable(level[d]))
  BY ScalesFixed
<1>2. d \notin disturbed' /\ pc[d] # "idle" => d \notin disturbed /\ prio'[a[d]] = prio[a[d]] /\ prio'[b[d]] = prio[b[d]]
  BY DEF Change, Disturbs, CopyInv, TypeOK
<1>3. QED
  BY <1>1, <1>2 DEF CopyInv, CopyOf

(* Steps that change no priority leave the copies of other callers alone.  *)
LEMMA QuietCopy ==
    ASSUME CopyInv, UNCHANGED <<policy, prio>>, NEW d \in Callers, d \notin disturbed' => d \notin disturbed,
           pc'[d] = pc[d], a'[d] = a[d], b'[d] = b[d], seen'[d] = seen[d], level'[d] = level[d]
    PROVE  CopyOf(d)'
<1>1. UNCHANGED SchedPriority(level[d]) /\ (Stable(level[d])' <=> Stable(level[d]))
  BY ScalesFixed
<1>2. QED
  BY <1>1 DEF CopyInv, CopyOf

(* Every step brings its copy further.                                     *)
LEMMA CopyStep ==
    ASSUME CopyInv, [Next]_vars
    PROVE  CopyInv'
<1> USE DEF CopyInv
<1>1. TypeOK'
  BY TypeStep
<1>2. CASE UNCHANGED vars
  BY <1>1, <1>2, QuietCopy DEF vars
<1>3. ASSUME NEW c \in Callers, Adjust(c)
      PROVE  \A d \in Callers : CopyOf(d)'
  <2>1. UNCHANGED <<policy, a, b, seen, level>> /\ pc[c] = "adjust" /\ pc'[c] = "have"
    BY <1>3 DEF Adjust, Goto, TypeOK
  <2>2. UNCHANGED SchedPriority(level[c]) /\ (Stable(level[c])' <=> Stable(level[c]))
    BY <2>1, ScalesFixed
  <2> DEFINE s == SchedPriority(level[c])
  <2>3. (s = seen[c] /\ UNCHANGED <<prio, disturbed>>) \/ Change(c, a[c], s)
    BY <1>3 DEF Adjust
  <2>4. a[c] \in Threads
    BY DEF TypeOK
  <2> HIDE DEF s
  <2>5. c \notin disturbed' => prio'[a[c]] = s
    BY <2>1, <2>3, <2>4 DEF Change, Disturbs, CopyOf, TypeOK
  <2>6. CopyOf(c)'
    BY <2>1, <2>2, <2>5 DEF CopyOf, s
  <2>7. ASSUME NEW d \in Callers, d # c
        PROVE  CopyOf(d)'
    <3>1. pc'[d] = pc[d] /\ a'[d] = a[d] /\ b'[d] = b[d] /\ seen'[d] = seen[d] /\ level'[d] = level[d]
      BY <1>3, <2>7 DEF Adjust, Goto, TypeOK
    <3>2. CASE UNCHANGED <<prio, disturbed>>
      BY <2>1, <3>1, <3>2, QuietCopy
    <3>3. CASE Change(c, a[c], s)
      BY <2>1, <2>4, <2>7, <3>1, <3>3, OthersCopy
    <3>4. QED
      BY <2>3, <3>2, <3>3
  <2>8. QED
    BY <2>6, <2>7
<1>4. ASSUME NEW c \in Callers, SetCopied(c)
      PROVE  \A d \in Callers : CopyOf(d)'
  <2>1. UNCHANGED <<policy, a, b, seen, level>> /\ pc[c] = "have" /\ pc'[c] = "done"
    BY <1>4 DEF SetCopied, Goto, TypeOK
  <2>2. UNCHANGED SchedPriority(level[c]) /\ (Stable(level[c])' <=> Stable(level[c]))
    BY <2>1, ScalesFixed
  <2> DEFINE s == SchedPriority(level[c])
  <2>3. Change(c, b[c], s)
    BY <1>4 DEF SetCopied
  <2>4. a[c] \in Threads /\ b[c] \in Threads
    BY DEF TypeOK
  <2> HIDE DEF s
  <2>5. c \notin disturbed' => c \notin disturbed /\ prio' = [prio EXCEPT ![b[c]] = s]
    BY <2>3 DEF Change
  <2>6. c \notin disturbed => prio[a[c]] = s
    BY <2>1 DEF CopyOf, s
  <2>7. c \notin disturbed' => prio'[b[c]] = s /\ prio'[a[c]] = s
    BY <2>4, <2>5, <2>6 DEF TypeOK
  <2>8. CopyOf(c)'
    BY <2>1, <2>2, <2>7 DEF CopyOf, s
  <2>9. ASSUME NEW d \in Callers, d # c
        PROVE  CopyOf(d)'
    <3>1. pc'[d] = pc[d] /\ a'[d] = a[d] /\ b'[d] = b[d] /\ seen'[d] = seen[d] /\ level'[d] = level[d]
      BY <1>4, <2>9 DEF SetCopied, Goto, TypeOK
    <3>2. QED
      BY <2>1, <2>3, <2>4, <2>9, <3>1, OthersCopy
  <2>10. QED
    BY <2>8, <2>9
<1>5. ASSUME NEW c \in Callers, Return(c)
      PROVE  \A d \in Callers : CopyOf(d)'
  <2>1. CopyOf(c)'
    BY <1>5 DEF Return, Goto, CopyOf, TypeOK
  <2>2. ASSUME NEW d \in Callers, d # c
        PROVE  CopyOf(d)'
    BY <1>5, <2>2, QuietCopy DEF Return, Goto, TypeOK
  <2>3. QED
    BY <2>1, <2>2
<1>6. ASSUME NEW c \in Callers, NEW h \in Threads, NEW to \in Threads, GetRead(c, h, to)
      PROVE  \A d \in Callers : CopyOf(d)'
  <2>1. ASSUME NEW d \in Callers, d # c
        PROVE  CopyOf(d)'
    <3>1. pc'[d] = pc[d] /\ a'[d] = a[d] /\ b'[d] = b[d] /\ seen'[d] = seen[d] /\ level'[d] = level[d]
      BY <1>6, <2>1 DEF GetRead, Goto, TypeOK
    <3>2. UNCHANGED <<policy, prio>> /\ (d \notin disturbed' => d \notin disturbed)
      BY <1>6, <2>1 DEF GetRead
    <3>3. QED
      BY <3>1, <3>2, QuietCopy
  <2>2. CopyOf(c)'
    <3> DEFINE n == ThreadPriorityOf(prio[h])
    <3>1. prio[h] \in pmin .. pmax
      BY DEF TypeOK
    <3>2. Stable(n)
      BY <3>1, Policy, LevelsStable
    <3>3. pc'[c] = "adjust" /\ level'[c] = n /\ a'[c] = h /\ seen'[c] = prio[h] /\ prio' = prio
      BY <1>6 DEF GetRead, Goto, TypeOK
    <3>4. UNCHANGED policy
      BY <1>6 DEF GetRead
    <3> HIDE DEF n
    <3>5. Stable(level[c])' <=> Stable(n)
      BY <3>3, <3>4 DEF Stable, ThreadPriorityOf, SchedPriority, Normal, Below, Above, policy
    <3>6. QED
      BY <3>2, <3>3, <3>5 DEF CopyOf
  <2>3. QED
    BY <2>1, <2>2
<1>7. ASSUME NEW c \in Callers, NEW h \in Threads, NEW n \in Levels, SetThreadPriority(c, h, n)
      PROVE  \A d \in Callers : CopyOf(d)'
  <2>1. UNCHANGED <<policy, pc, a, b, seen, level>> /\ pc[c] = "idle"
    BY <1>7 DEF SetThreadPriority
  <2> DEFINE s == SchedPriority(n)
  <2>2. Change(c, h, s)
    BY <1>7 DEF SetThreadPriority
  <2> HIDE DEF s
  <2>3. CopyOf(c)'
    BY <2>1 DEF CopyOf
  <2>4. ASSUME NEW d \in Callers, d # c
        PROVE  CopyOf(d)'
    BY <2>1, <2>2, <2>4, OthersCopy
  <2>5. QED
    BY <2>3, <2>4
<1>8. QED
  BY <1>1, <1>2, <1>3, <1>4, <1>5, <1>6, <1>7 DEF Next

(* CopyInv holds in every behaviour.                                       *)
LEMMA CopyInvariant == Spec => []CopyInv
<1>1. Init => CopyInv
  BY PriorityAssumption DEF Init, TypeOK, LevelsApart, Levels, CopyInv, CopyOf
<1>2. CopyInv /\ [Next]_vars => CopyInv'
  BY CopyStep
<1>3. QED
  BY <1>1, <1>2, PTL DEF Spec

(* SetThreadPriority(B, GetThreadPriority(A)) leaves A and B with the same *)
(* priority, in every policy, unless others interfere.                     *)
THEOREM CopiesAreIdentical == Spec => []CopiesIdentical
<1>1. CopyInv => CopiesIdentical
  BY DEF CopyInv, CopyOf, CopiesIdentical
<1>2. QED
  BY <1>1, CopyInvariant, PTL

(* GetThreadPriority returns a level that it would return again.           *)
THEOREM ReadingIsStable == Spec => []ReadingKeepsLevel
<1>1. CopyInv => ReadingKeepsLevel
  BY DEF CopyInv, CopyOf, ReadingKeepsLevel, Stable
<1>2. QED
  BY <1>1, CopyInvariant, PTL
=============================================================================
