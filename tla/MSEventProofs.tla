--------------------------- MODULE MSEventProofs ---------------------------
(***************************************************************************)
(* What the emulated event guarantees for every number of threads.         *)
(***************************************************************************)
EXTENDS EventWakeUps, FiniteSetTheorems, TLAPS

-----------------------------------------------------------------------------
(* Type correctness                                                        *)

(* Reduction modulo the width of the flag keeps it in its range.           *)
LEMMA AddType ==
    ASSUME isSignalled \in 0 .. Modulus - 1, NEW n \in {-1, 1}, Add(n)
    PROVE  isSignalled' \in 0 .. Modulus - 1
<1>1. Modulus \in Nat /\ Modulus > 1
  BY FlagAssumption
<1>2. QED
  BY <1>1 DEF Add

(* Adding 1 wraps at the largest value only, subtracting 1 at 0 only.      *)
LEMMA AddValue ==
    ASSUME isSignalled \in 0 .. Modulus - 1
    PROVE  /\ Add(1) => isSignalled' =
                 IF isSignalled = Modulus - 1 THEN 0 ELSE isSignalled + 1
           /\ Add(-1) => isSignalled' =
                 IF isSignalled = 0 THEN Modulus - 1 ELSE isSignalled - 1
<1>1. Modulus \in Nat /\ Modulus > 1
  BY FlagAssumption
<1>2. ASSUME isSignalled = Modulus - 1, Add(1)  PROVE isSignalled' = 0
  <2>1. Modulus % Modulus = 0
    BY <1>1
  <2>2. isSignalled + 1 = Modulus
    BY <1>1, <1>2
  <2>3. QED
    BY <1>2, <2>1, <2>2 DEF Add
<1>3. ASSUME isSignalled # Modulus - 1, Add(1)
      PROVE  isSignalled' = isSignalled + 1
  BY <1>1, <1>3 DEF Add
<1>4. ASSUME isSignalled = 0, Add(-1)  PROVE isSignalled' = Modulus - 1
  BY <1>1, <1>4 DEF Add
<1>5. ASSUME isSignalled # 0, Add(-1)  PROVE isSignalled' = isSignalled - 1
  BY <1>1, <1>5 DEF Add
<1>6. QED
  BY <1>2, <1>3, <1>4, <1>5

(* The part of TypeOK about the handle.                                    *)
HandleOK ==
    /\ isManual \in BOOLEAN
    /\ isSignalled \in 0 .. Modulus - 1
    /\ mutex \in Threads \cup {NoThread}

(* The part of TypeOK about the threads.                                   *)
ControlOK ==
    /\ queue \subseteq Waiters
    /\ pc \in [Threads -> PCs]
    /\ calm \in [Threads -> BOOLEAN]

(* A thread is only ever in the calls of its role.                         *)
RolesOK ==
    \A t \in Threads :
        /\ pc[t] \in {"setTest", "setInc", "signal"} => t \in Setters
        /\ pc[t] \in {"waitTest", "lock", "condWait", "sleep", "timedOut", "unlock"}
               => t \in Waiters

(* Every step of a thread keeps the flag and the mutex well typed.         *)
LEMMA HandleStep ==
    ASSUME HandleOK, NEW t \in Threads,
           SetStep(t) \/ CallReset(t) \/ ClearStep(t) \/ WaitStep(t),
           UNCHANGED isManual
    PROVE  HandleOK'
<1> USE DEF HandleOK
<1>1. CASE CallSet(t) \/ SetTest(t) \/ Signal(t) \/ CallReset(t)
           \/ Clear(t) \/ ClearTest(t)
  BY <1>1 DEF CallSet, SetTest, Signal, CallReset, Clear, ClearTest
<1>2. CASE SetInc(t) \/ ClearInc(t)
  BY <1>2, AddType DEF SetInc, ClearInc
<1>3. CASE ClearDec(t)
  BY <1>3, AddType DEF ClearDec
<1>4. CASE WaitStep(t)
  BY <1>4 DEF WaitStep, CallWait, WaitTest, LockMutex, CondWait, Wake, TimeOut,
              UnlockMutex
<1>5. QED
  BY <1>1, <1>2, <1>3, <1>4 DEF SetStep, ClearStep

(* Every step of a thread keeps the control state well typed, and the      *)
(* thread in its role.                                                     *)
LEMMA ControlStep ==
    ASSUME ControlOK, RolesOK, NEW t \in Threads,
           SetStep(t) \/ CallReset(t) \/ ClearStep(t) \/ WaitStep(t)
    PROVE  ControlOK' /\ RolesOK'
<1> USE DEF ControlOK, RolesOK, PCs, At, Goto, Return, StartClearing
<1>1. CASE CallSet(t)  BY <1>1 DEF CallSet
<1>2. CASE SetTest(t)  BY <1>2 DEF SetTest
<1>3. CASE SetInc(t)  BY <1>3 DEF SetInc
<1>4. CASE Signal(t)  BY <1>4 DEF Signal
<1>5. CASE CallReset(t)  BY <1>5 DEF CallReset
<1>6. CASE Clear(t)  BY <1>6 DEF Clear
<1>7. CASE ClearTest(t)  BY <1>7 DEF ClearTest
<1>8. CASE ClearDec(t)  BY <1>8 DEF ClearDec
<1>9. CASE ClearInc(t)  BY <1>9 DEF ClearInc
<1>10. CASE CallWait(t)  BY <1>10 DEF CallWait
<1>11. CASE WaitTest(t)  BY <1>11 DEF WaitTest, Signalled
<1>12. CASE LockMutex(t)  BY <1>12 DEF LockMutex
<1>13. CASE CondWait(t)  BY <1>13 DEF CondWait
<1>14. CASE Wake(t)  BY <1>14 DEF Wake
<1>15. CASE TimeOut(t)  BY <1>15 DEF TimeOut
<1>16. CASE UnlockMutex(t)  BY <1>16 DEF UnlockMutex, Signalled
<1>17. QED
  BY <1>1, <1>2, <1>3, <1>4, <1>5, <1>6, <1>7, <1>8, <1>9, <1>10, <1>11, <1>12,
     <1>13, <1>14, <1>15, <1>16 DEF SetStep, ClearStep, WaitStep

TypeInv == TypeOK /\ RolesOK

(* TypeOK with the roles of the threads is inductive.                      *)
LEMMA TypeStep ==
    ASSUME TypeInv, [Next]_vars
    PROVE  TypeInv'
<1>1. HandleOK /\ ControlOK /\ RolesOK
  BY DEF TypeInv, TypeOK, HandleOK, ControlOK
<1>2. CASE UNCHANGED vars
  BY <1>2 DEF TypeInv, TypeOK, RolesOK, vars
<1>3. ASSUME NEW t \in Threads, UNCHANGED isManual,
             SetStep(t) \/ CallReset(t) \/ ClearStep(t) \/ WaitStep(t)
      PROVE  TypeInv'
  <2>1. HandleOK'
    BY <1>1, <1>3, HandleStep
  <2>2. ControlOK' /\ RolesOK'
    BY <1>1, <1>3, ControlStep
  <2>3. QED
    BY <2>1, <2>2 DEF TypeInv, TypeOK, HandleOK, ControlOK
<1>4. QED
  BY <1>2, <1>3 DEF Next

(* The invariant TypeInv of the specification, from which TypeCorrect      *)
(* follows at once.                                                        *)
LEMMA TypeInvariant == Spec => []TypeInv
<1>1. Init => TypeInv
  BY FlagAssumption DEF Init, TypeInv, TypeOK, RolesOK, PCs
<1>2. TypeInv /\ [Next]_vars => TypeInv'
  BY TypeStep
<1>3. QED
  BY <1>1, <1>2, PTL DEF Spec

(* Every variable keeps its type; in particular the flag stays within the  *)
(* width of the instruction that changes it.                               *)
THEOREM EventTypeCorrect == Spec => []TypeOK
<1>1. TypeInv => TypeOK
  BY DEF TypeInv
<1>2. QED
  BY <1>1, TypeInvariant, PTL

-----------------------------------------------------------------------------
(* The bounds of the flag                                                  *)

(* The threads about to add 1 to the flag, and to take 1 off it.           *)
Raising  == {t \in Threads : pc[t] \in {"setInc", "clearInc"}}
Lowering == {t \in Threads : pc[t] = "clearDec"}

(* The width leaves room for every thread on either side of 0.             *)
Room == Modulus > 2 * (Cardinality(Setters) + Cardinality(Threads)) + 2

(* Counting threads that are in nested sets.                               *)
LEMMA Counts ==
    ASSUME NEW R, NEW L, NEW C, R \subseteq Setters \cup C, L \subseteq C,
           C \subseteq Threads
    PROVE  /\ IsFiniteSet(R) /\ IsFiniteSet(L) /\ IsFiniteSet(C)
           /\ Cardinality(R) <= Cardinality(Setters) + Cardinality(C)
           /\ Cardinality(L) <= Cardinality(C)
           /\ Cardinality(C) <= Cardinality(Threads)
           /\ Cardinality(R) \in Nat /\ Cardinality(L) \in Nat
           /\ Cardinality(C) \in Nat /\ Cardinality(Setters) \in Nat
           /\ Cardinality(Threads) \in Nat
<1>1. IsFiniteSet(Threads) /\ Setters \subseteq Threads
  BY ThreadsAssumption DEF Threads
<1>2. IsFiniteSet(Setters) /\ IsFiniteSet(C)
  BY <1>1, FS_Subset
<1>3. /\ IsFiniteSet(Setters \cup C)
      /\ Cardinality(Setters \cup C)
             = Cardinality(Setters) + Cardinality(C) - Cardinality(Setters \cap C)
  BY <1>2, FS_Union
<1>4. IsFiniteSet(Setters \cap C)
  BY <1>2, FS_Intersection
<1>5. /\ Cardinality(Setters) \in Nat /\ Cardinality(C) \in Nat
      /\ Cardinality(Setters \cap C) \in Nat /\ Cardinality(Threads) \in Nat
  BY <1>1, <1>2, <1>4, FS_CardinalityType
<1>6. /\ IsFiniteSet(R) /\ IsFiniteSet(L)
      /\ Cardinality(R) <= Cardinality(Setters \cup C)
      /\ Cardinality(L) <= Cardinality(C)
      /\ Cardinality(C) <= Cardinality(Threads)
  BY <1>1, <1>2, <1>3, FS_Subset
<1>7. Cardinality(R) \in Nat /\ Cardinality(L) \in Nat
  BY <1>6, FS_CardinalityType
<1>8. QED
  BY <1>2, <1>3, <1>5, <1>6, <1>7

(* Whoever is about to change the flag is in one of the calls that do.     *)
LEMMA RoleSets ==
    ASSUME TypeInv
    PROVE  /\ Raising \subseteq Setters \cup Clearing
           /\ Lowering \subseteq Clearing
           /\ Clearing \subseteq Threads
BY DEF TypeInv, RolesOK, Raising, Lowering, Clearing

(* Hence there are no more of them than the bounds of the flag allow.      *)
LEMMA SetBounds ==
    ASSUME TypeInv
    PROVE  /\ IsFiniteSet(Raising) /\ IsFiniteSet(Lowering)
           /\ Cardinality(Raising) <= Cardinality(Setters) + Cardinality(Clearing)
           /\ Cardinality(Lowering) <= Cardinality(Clearing)
           /\ Cardinality(Clearing) <= Cardinality(Threads)
           /\ Cardinality(Raising) \in Nat /\ Cardinality(Lowering) \in Nat
           /\ Cardinality(Clearing) \in Nat /\ Cardinality(Setters) \in Nat
           /\ Cardinality(Threads) \in Nat
BY RoleSets, Counts

(* What a step can do to the flag and to the threads about to change it:   *)
(* nothing but end or start calls; move a thread while the flag is 0; add  *)
(* 1 or take 1 off; decide to take 1 off a positive flag; decide to add 1  *)
(* to one that is not.                                                     *)
QuietShape ==
    /\ UNCHANGED isSignalled
    /\ Raising' = Raising
    /\ Lowering' = Lowering
    /\ Clearing \subseteq Clearing'

ZeroShape == isSignalled = 0 /\ isSignalled' = 0

RaiseShape(t) ==
    /\ Add(1)
    /\ t \in Raising
    /\ Raising' = Raising \ {t}
    /\ Lowering' = Lowering
    /\ Clearing' = Clearing

LowerShape(t) ==
    /\ Add(-1)
    /\ t \in Lowering
    /\ Raising' = Raising
    /\ Lowering' = Lowering \ {t}
    /\ Clearing' = Clearing

DecideShape ==
    /\ isSignalled # 0
    /\ UNCHANGED isSignalled
    /\ Clearing' = Clearing
    /\ \/ Positive /\ Raising' = Raising
       \/ ~Positive /\ Lowering' = Lowering

Shape(t) ==
    QuietShape \/ ZeroShape \/ RaiseShape(t) \/ LowerShape(t) \/ DecideShape

(* Every step has one of these shapes.                                     *)
LEMMA StepShape ==
    ASSUME TypeInv, NEW t \in Threads,
           SetStep(t) \/ CallReset(t) \/ ClearStep(t) \/ WaitStep(t)
    PROVE  Shape(t)
<1> USE DEF TypeInv, TypeOK, PCs, At, Goto, Return, StartClearing, Raising,
            Lowering, Clearing, Shape
<1>1. CASE CallSet(t)  BY <1>1 DEF CallSet, QuietShape
<1>2. CASE SetTest(t)
  <2>1. CASE isSignalled = 0  BY <1>2, <2>1 DEF SetTest, ZeroShape
  <2>2. CASE isSignalled # 0  BY <1>2, <2>2 DEF SetTest, QuietShape
  <2>3. QED  BY <2>1, <2>2
<1>3. CASE SetInc(t)  BY <1>3 DEF SetInc, RaiseShape
<1>4. CASE Signal(t)  BY <1>4 DEF Signal, QuietShape
<1>5. CASE CallReset(t)  BY <1>5 DEF CallReset, QuietShape
<1>6. CASE Clear(t)
  <2>1. CASE isSignalled = 0  BY <1>6, <2>1 DEF Clear, ZeroShape
  <2>2. CASE isSignalled # 0  BY <1>6, <2>2 DEF Clear, QuietShape
  <2>3. QED  BY <2>1, <2>2
<1>7. CASE ClearTest(t)
  <2>1. CASE isSignalled = 0  BY <1>7, <2>1 DEF ClearTest, ZeroShape
  <2>2. CASE isSignalled # 0 /\ Positive
    BY <1>7, <2>2 DEF ClearTest, DecideShape
  <2>3. CASE isSignalled # 0 /\ ~Positive
    BY <1>7, <2>3 DEF ClearTest, DecideShape
  <2>4. QED  BY <2>1, <2>2, <2>3
<1>8. CASE ClearDec(t)  BY <1>8 DEF ClearDec, LowerShape
<1>9. CASE ClearInc(t)  BY <1>9 DEF ClearInc, RaiseShape
<1>10. CASE CallWait(t)  BY <1>10 DEF CallWait, QuietShape
<1>11. CASE WaitTest(t)  BY <1>11 DEF WaitTest, Signalled, QuietShape
<1>12. CASE LockMutex(t)  BY <1>12 DEF LockMutex, QuietShape
<1>13. CASE CondWait(t)  BY <1>13 DEF CondWait, QuietShape
<1>14. CASE Wake(t)  BY <1>14 DEF Wake, QuietShape
<1>15. CASE TimeOut(t)  BY <1>15 DEF TimeOut, QuietShape
<1>16. CASE UnlockMutex(t)  BY <1>16 DEF UnlockMutex, Signalled, QuietShape
<1>17. QED
  BY <1>1, <1>2, <1>3, <1>4, <1>5, <1>6, <1>7, <1>8, <1>9, <1>10, <1>11, <1>12,
     <1>13, <1>14, <1>15, <1>16 DEF SetStep, ClearStep, WaitStep

(* The inductive form of FlagBounded: the changes still to come count.     *)
UpperOK ==
    Signed <= 0 \/
    Signed + Cardinality(Raising) <= Cardinality(Setters) + Cardinality(Clearing)

LowerOK ==
    Signed >= 0 \/
    Cardinality(Lowering) - Signed <= Cardinality(Clearing)

(* Within the bounds, addl is plain addition.                              *)
LEMMA SignedAdd ==
    ASSUME TypeInv, UpperOK, LowerOK, Room
    PROVE  /\ Signed \in Int
           /\ \A t \in Threads : RaiseShape(t) => Signed' = Signed + 1
           /\ \A t \in Threads : LowerShape(t) => Signed' = Signed - 1
<1> DEFINE s == Cardinality(Setters)
           c == Cardinality(Clearing)
           n == Cardinality(Threads)
<1>1. /\ Modulus \in Nat /\ Modulus > 2 * (s + n) + 2
      /\ isSignalled \in 0 .. Modulus - 1
      /\ s \in Nat /\ c \in Nat /\ n \in Nat /\ c <= n
      /\ Cardinality(Raising) \in Nat /\ Cardinality(Lowering) \in Nat
  BY SetBounds, FlagAssumption DEF Room, TypeInv, TypeOK
<1>2. Signed \in Int
  BY <1>1 DEF Signed
<1>3. Signed <= s + n /\ 0 - Signed <= n
  BY <1>1, <1>2 DEF UpperOK, LowerOK
<1>4. ASSUME NEW t \in Threads, RaiseShape(t)  PROVE Signed' = Signed + 1
  <2>1. isSignalled' = IF isSignalled = Modulus - 1 THEN 0 ELSE isSignalled + 1
    BY <1>1, <1>4, AddValue DEF RaiseShape
  <2>2. QED
    BY <1>1, <1>3, <2>1 DEF Signed
<1>5. ASSUME NEW t \in Threads, LowerShape(t)  PROVE Signed' = Signed - 1
  <2>1. isSignalled' = IF isSignalled = 0 THEN Modulus - 1 ELSE isSignalled - 1
    BY <1>1, <1>5, AddValue DEF LowerShape
  <2>2. QED
    BY <1>1, <1>3, <2>1 DEF Signed
<1>6. QED
  BY <1>2, <1>4, <1>5

(* Both bounds survive every step of a thread.                             *)
LEMMA BoundsThreadStep ==
    ASSUME TypeInv, TypeInv', UpperOK, LowerOK, Room, ~Wide,
           NEW t \in Threads, Shape(t)
    PROVE  UpperOK' /\ LowerOK'
<1> DEFINE s == Cardinality(Setters)
           c == Cardinality(Clearing)
           r == Cardinality(Raising)
           l == Cardinality(Lowering)
<1>1. /\ s \in Nat /\ c \in Nat /\ r \in Nat /\ l \in Nat
      /\ r <= s + c /\ l <= c
  BY SetBounds
<1>2. /\ c' \in Nat /\ r' \in Nat /\ l' \in Nat
      /\ r' <= s + c' /\ l' <= c' /\ IsFiniteSet(Clearing')
  <2>1. /\ Raising' \subseteq Setters \cup Clearing'
        /\ Lowering' \subseteq Clearing'
        /\ Clearing' \subseteq Threads
    BY DEF TypeInv, RolesOK, Raising, Lowering, Clearing
  <2>2. QED
    BY <2>1, Counts
<1>3. Signed \in Int
  BY SignedAdd
<1>4. ASSUME UNCHANGED isSignalled  PROVE Signed' = Signed
  BY <1>4 DEF Signed
<1>5. CASE QuietShape
  <2>1. Signed' = Signed /\ r' = r /\ l' = l
    BY <1>4, <1>5 DEF QuietShape
  <2>2. c <= c'
    BY <1>2, <1>5, FS_Subset DEF QuietShape
  <2>3. QED
    BY <1>1, <1>2, <1>3, <2>1, <2>2 DEF UpperOK, LowerOK
<1>6. CASE ZeroShape
  <2>1. Signed' = 0
    BY <1>6, FlagAssumption DEF ZeroShape, Signed
  <2>2. QED
    BY <2>1 DEF UpperOK, LowerOK
<1>7. CASE RaiseShape(t)
  <2>1. Signed' = Signed + 1 /\ c' = c /\ l' = l
    BY <1>7, SignedAdd DEF RaiseShape
  <2>2. r' = r - 1
    BY <1>7, SetBounds, FS_RemoveElement DEF RaiseShape
  <2>3. QED
    BY <1>1, <1>2, <1>3, <2>1, <2>2 DEF UpperOK, LowerOK
<1>8. CASE LowerShape(t)
  <2>1. Signed' = Signed - 1 /\ c' = c /\ r' = r
    BY <1>8, SignedAdd DEF LowerShape
  <2>2. l' = l - 1
    BY <1>8, SetBounds, FS_RemoveElement DEF LowerShape
  <2>3. QED
    BY <1>1, <1>2, <1>3, <2>1, <2>2 DEF UpperOK, LowerOK
<1>9. CASE DecideShape
  <2>1. Signed' = Signed /\ c' = c
    BY <1>4, <1>9 DEF DecideShape
  <2>2. CASE Positive /\ Raising' = Raising
    <3>1. Signed > 0
      BY <2>2 DEF Positive, Signed, TypeInv, TypeOK
    <3>2. QED
      BY <1>1, <1>3, <2>1, <2>2, <3>1 DEF UpperOK, LowerOK
  <2>3. CASE ~Positive /\ Lowering' = Lowering
    <3>1. Signed < 0
      BY <1>9, <2>3, FlagAssumption DEF DecideShape, Positive, Signed, TypeInv, TypeOK
    <3>2. QED
      BY <1>1, <1>3, <2>1, <2>3, <3>1 DEF UpperOK, LowerOK
  <2>4. QED
    BY <1>9, <2>2, <2>3 DEF DecideShape
<1>10. QED
  BY <1>5, <1>6, <1>7, <1>8, <1>9 DEF Shape

BoundsInv == TypeInv /\ UpperOK /\ LowerOK

(* Whatever Init chooses, the flag starts within the bounds.               *)
LEMMA BoundsInit ==
    ASSUME Room, Setters # {}, Init
    PROVE  BoundsInv
<1>1. TypeInv
  BY FlagAssumption DEF Init, TypeInv, TypeOK, RolesOK, PCs
<1>2. Raising = {} /\ Clearing = {}
  BY DEF Init, Raising, Clearing
<1>3. Cardinality(Raising) = 0 /\ Cardinality(Clearing) = 0
  BY <1>2, FS_EmptySet
<1>4. Cardinality(Setters) \in Nat /\ Cardinality(Setters) # 0
  <2>1. IsFiniteSet(Threads) /\ Setters \subseteq Threads
    BY ThreadsAssumption DEF Threads
  <2>2. IsFiniteSet(Setters)
    BY <2>1, FS_Subset
  <2>3. QED
    BY <1>1, <2>2, SetBounds, FS_EmptySet
<1>5. Modulus \in Nat /\ Modulus > 2 /\ isSignalled \in {0, 1}
  BY <1>1, SetBounds, FlagAssumption DEF Init, Room
<1>6. Signed \in {0, 1}
  BY <1>5 DEF Signed
<1>7. QED
  BY <1>1, <1>3, <1>4, <1>6 DEF BoundsInv, UpperOK, LowerOK

(* The bounds are inductive on the 32-bit build, given the room.           *)
LEMMA BoundsStep ==
    ASSUME Room, ~Wide, BoundsInv, [Next]_vars
    PROVE  BoundsInv'
<1>1. TypeInv'
  BY TypeStep DEF BoundsInv
<1>2. CASE UNCHANGED vars
  BY <1>1, <1>2 DEF BoundsInv, UpperOK, LowerOK, Signed, Raising, Lowering,
                    Clearing, vars
<1>3. ASSUME NEW t \in Threads,
             SetStep(t) \/ CallReset(t) \/ ClearStep(t) \/ WaitStep(t)
      PROVE  BoundsInv'
  <2>1. Shape(t)
    BY <1>3, StepShape DEF BoundsInv
  <2>2. QED
    BY <1>1, <2>1, BoundsThreadStep DEF BoundsInv
<1>4. QED
  BY <1>2, <1>3 DEF Next

(* The bounds are an invariant.                                            *)
LEMMA BoundsInvariant ==
    ASSUME Room, ~Wide, Setters # {}
    PROVE  Spec => []BoundsInv
<1>1. Init => BoundsInv
  BY BoundsInit
<1>2. BoundsInv /\ [Next]_vars => BoundsInv'
  BY BoundsStep
<1>3. QED
  BY <1>1, <1>2, PTL DEF Spec

(* Where the flag is no wider than the instruction that changes it and the *)
(* width has room for the threads, the errors of racing set and clear      *)
(* operations stay within one for each thread, in either direction.        *)
THEOREM FlagBoundedCorrect ==
    ASSUME Room, ~Wide, Setters # {}
    PROVE  Spec => []FlagBounded
<1>1. BoundsInv => FlagBounded
  <2>1. SUFFICES ASSUME BoundsInv PROVE FlagBounded
    OBVIOUS
  <2>2. TypeInv /\ UpperOK /\ LowerOK /\ Signed \in Int
    BY <2>1, SignedAdd DEF BoundsInv
  <2>3. QED
    BY <2>2, SetBounds DEF UpperOK, LowerOK, FlagBounded
<1>2. QED
  BY <1>1, BoundsInvariant, PTL

-----------------------------------------------------------------------------
(* SetEvent                                                                *)

(* While a SetEvent is calm nobody is clearing the flag, and once it has   *)
(* set the flag it stays positive.                                         *)
CalmOK ==
    \A t \in Threads :
        pc[t] \in {"setTest", "setInc", "signal"} /\ calm[t] =>
            /\ Clearing = {}
            /\ pc[t] = "signal" => Signed > 0

(* A step that starts a clearing leaves no SetEvent calm.                  *)
LEMMA CalmControl ==
    ASSUME TypeInv, NEW t \in Threads,
           SetStep(t) \/ CallReset(t) \/ ClearStep(t) \/ WaitStep(t)
    PROVE  \/ \A u \in Threads : ~calm'[u]
           \/ /\ Clearing' \subseteq Clearing
              /\ \A u \in Threads \ {t} : calm'[u] = calm[u] /\ pc'[u] = pc[u]
              /\ calm'[t] /\ pc'[t] \in {"setTest", "setInc", "signal"} =>
                    \/ calm[t] /\ pc[t] \in {"setTest", "setInc", "signal"}
                    \/ Clearing = {} /\ pc'[t] = "setTest"
<1> USE DEF TypeInv, TypeOK, PCs, At, Goto, Return, StartClearing, Clearing
<1>1. CASE CallSet(t)  BY <1>1 DEF CallSet
<1>2. CASE SetTest(t)  BY <1>2 DEF SetTest
<1>3. CASE SetInc(t)  BY <1>3 DEF SetInc
<1>4. CASE Signal(t)  BY <1>4 DEF Signal
<1>5. CASE CallReset(t)  BY <1>5 DEF CallReset
<1>6. CASE Clear(t)  BY <1>6 DEF Clear
<1>7. CASE ClearTest(t)  BY <1>7 DEF ClearTest
<1>8. CASE ClearDec(t)  BY <1>8 DEF ClearDec
<1>9. CASE ClearInc(t)  BY <1>9 DEF ClearInc
<1>10. CASE CallWait(t)  BY <1>10 DEF CallWait
<1>11. CASE WaitTest(t)  BY <1>11 DEF WaitTest, Signalled
<1>12. CASE LockMutex(t)  BY <1>12 DEF LockMutex
<1>13. CASE CondWait(t)  BY <1>13 DEF CondWait
<1>14. CASE Wake(t)  BY <1>14 DEF Wake
<1>15. CASE TimeOut(t)  BY <1>15 DEF TimeOut
<1>16. CASE UnlockMutex(t)  BY <1>16 DEF UnlockMutex, Signalled
<1>17. QED
  BY <1>1, <1>2, <1>3, <1>4, <1>5, <1>6, <1>7, <1>8, <1>9, <1>10, <1>11, <1>12,
     <1>13, <1>14, <1>15, <1>16 DEF SetStep, ClearStep, WaitStep

(* While nobody is clearing it the flag does not fall, and a thread that   *)
(* comes to signal the event has seen it set or has set it.                *)
LEMMA CalmFlag ==
    ASSUME BoundsInv, Room, ~Wide, Clearing = {}, NEW t \in Threads,
           SetStep(t) \/ CallReset(t) \/ ClearStep(t) \/ WaitStep(t)
    PROVE  /\ Signed \in Int /\ Signed' \in Int
           /\ Signed' >= Signed
           /\ pc'[t] = "signal" => Signed' > 0
<1>1. TypeInv /\ UpperOK /\ LowerOK
  BY DEF BoundsInv
<1>2. Signed \in Int /\ Signed >= 0
  <2>1. Cardinality(Clearing) = 0 /\ Cardinality(Lowering) \in Nat
    BY <1>1, SetBounds, FS_EmptySet
  <2>2. QED
    BY <1>1, <2>1, SignedAdd DEF LowerOK
<1>3. CASE SetInc(t)
  <2>1. RaiseShape(t)
    BY <1>1, <1>3 DEF TypeInv, TypeOK, SetInc, At, Goto, PCs, RaiseShape,
                      Raising, Lowering, Clearing
  <2>2. QED
    BY <1>1, <1>2, <2>1, SignedAdd
<1>4. CASE SetTest(t)
  <2>1. Signed' = Signed
    BY <1>4 DEF SetTest, Signed
  <2>2. isSignalled # 0 => Signed > 0
    BY <1>1, <1>2, FlagAssumption DEF Signed, TypeInv, TypeOK
  <2>3. pc'[t] = "signal" => isSignalled # 0
    BY <1>1, <1>4 DEF SetTest, Goto, TypeInv, TypeOK
  <2>4. QED
    BY <1>2, <2>1, <2>2, <2>3
<1>5. CASE CallSet(t) \/ Signal(t) \/ CallReset(t) \/ WaitStep(t)
  <2>1. UNCHANGED isSignalled
    BY <1>5 DEF CallSet, Signal, CallReset, WaitStep, CallWait, WaitTest,
                LockMutex, CondWait, Wake, TimeOut, UnlockMutex
  <2>2. pc'[t] # "signal"
    BY <1>1, <1>5 DEF TypeInv, TypeOK, CallSet, Signal, CallReset, WaitStep,
       CallWait, WaitTest, LockMutex, CondWait, Wake, TimeOut, UnlockMutex,
       Goto, Return, StartClearing, Signalled
  <2>3. QED
    BY <1>2, <2>1, <2>2 DEF Signed
<1>6. CASE ClearStep(t)
  BY <1>6 DEF ClearStep, Clear, ClearTest, ClearDec, ClearInc, At, Clearing
<1>7. QED
  BY <1>3, <1>4, <1>5, <1>6 DEF SetStep

(* CalmOK is inductive.                                                    *)
LEMMA CalmStep ==
    ASSUME BoundsInv, CalmOK, Room, ~Wide, [Next]_vars
    PROVE  CalmOK'
<1>1. TypeInv
  BY DEF BoundsInv
<1>2. CASE UNCHANGED vars
  BY <1>2 DEF CalmOK, Clearing, Signed, vars
<1>3. ASSUME NEW t \in Threads,
             SetStep(t) \/ CallReset(t) \/ ClearStep(t) \/ WaitStep(t)
      PROVE  CalmOK'
  <2>1. SUFFICES ASSUME NEW u \in Threads, calm'[u],
                        pc'[u] \in {"setTest", "setInc", "signal"}
                 PROVE  /\ Clearing' = {}
                        /\ pc'[u] = "signal" => Signed' > 0
    BY DEF CalmOK
  <2>2. /\ Clearing' \subseteq Clearing
        /\ \A v \in Threads \ {t} : calm'[v] = calm[v] /\ pc'[v] = pc[v]
        /\ calm'[t] /\ pc'[t] \in {"setTest", "setInc", "signal"} =>
              \/ calm[t] /\ pc[t] \in {"setTest", "setInc", "signal"}
              \/ Clearing = {} /\ pc'[t] = "setTest"
    BY <1>1, <1>3, <2>1, CalmControl
  <2>3. Clearing = {}
    BY <2>1, <2>2 DEF CalmOK
  <2>4. /\ Signed \in Int /\ Signed' \in Int /\ Signed' >= Signed
        /\ pc'[t] = "signal" => Signed' > 0
    BY <1>3, <2>3, CalmFlag
  <2>5. CASE u = t
    BY <2>2, <2>3, <2>4, <2>5
  <2>6. CASE u # t
    BY <2>1, <2>2, <2>3, <2>4, <2>6 DEF CalmOK
  <2>7. QED
    BY <2>5, <2>6
<1>4. QED
  BY <1>2, <1>3 DEF Next

(* On the 32-bit build with room for the threads, a SetEvent that nobody   *)
(* interfered with leaves the event set, whatever the races before it did. *)
THEOREM SetSticksCorrect ==
    ASSUME Room, ~Wide, Setters # {}
    PROVE  Spec => []SetSticks
<1>1. Init => CalmOK
  BY DEF Init, CalmOK
<1>2. BoundsInv /\ CalmOK /\ [Next]_vars => CalmOK'
  BY CalmStep
<1>3. BoundsInv /\ CalmOK => SetSticks
  BY FlagAssumption DEF BoundsInv, CalmOK, SetSticks, At, Signed
<1>4. QED
  BY <1>1, <1>2, <1>3, BoundsInvariant, PTL DEF Spec

-----------------------------------------------------------------------------
(* Lost wake-ups                                                           *)

(* The waiters of the condition variable are asleep.                       *)
QueueOK == \A w \in queue : pc[w] = "sleep"

(* Whoever is on the way to sleep counts as well as who sleeps: it does not *)
(* look at the flag again.                                                 *)
WakeUpOK == Settled /\ isSignalled # 0 => FallingAsleep \cup queue \subseteq missed

WakeUpInv == TypeInv /\ QueueOK /\ WakeUpOK

(* QueueOK is inductive.                                                   *)
LEMMA QueueStep ==
    ASSUME TypeInv, QueueOK, NEW t \in Threads,
           SetStep(t) \/ CallReset(t) \/ ClearStep(t) \/ WaitStep(t)
    PROVE  QueueOK'
<1> USE DEF TypeInv, TypeOK, QueueOK, Threads, At, Goto, Return, StartClearing
<1>1. CASE SetStep(t)
  BY <1>1 DEF SetStep, CallSet, SetTest, SetInc, Signal
<1>2. CASE CallReset(t)
  BY <1>2 DEF CallReset
<1>3. CASE ClearStep(t)
  BY <1>3 DEF ClearStep, Clear, ClearTest, ClearDec, ClearInc
<1>4. CASE CallWait(t) \/ WaitTest(t) \/ LockMutex(t) \/ CondWait(t)
  BY <1>4 DEF CallWait, WaitTest, Signalled, LockMutex, CondWait
<1>5. CASE Wake(t) \/ TimeOut(t) \/ UnlockMutex(t)
  BY <1>5 DEF Wake, TimeOut, UnlockMutex, Signalled
<1>6. QED
  BY <1>1, <1>2, <1>3, <1>4, <1>5 DEF WaitStep

(* After a step that leaves a set event settled, the event was settled and *)
(* set before and nobody new goes to sleep, or the event was signalled and *)
(* only those sleep who were not asleep yet.                               *)
SettledStep(t) ==
    \/ /\ Settled /\ isSignalled # 0
       /\ FallingAsleep' \cup queue' \subseteq FallingAsleep \cup queue
    \/ /\ At(t, "signal")
       /\ FallingAsleep' \cup queue' \subseteq FallingAsleep

(* Setting and signalling the event.                                       *)
LEMMA SettledBySetting ==
    ASSUME TypeInv, QueueOK, NEW t \in Threads, SetStep(t), UNCHANGED isManual,
           Settled', isSignalled' # 0
    PROVE  SettledStep(t)
<1> USE DEF TypeInv, TypeOK, Settled, Clearing, At, Goto, Return, SettledStep,
            FallingAsleep, Awakened
<1>1. CASE CallSet(t)
  BY <1>1 DEF CallSet
<1>2. CASE SetTest(t)
  BY <1>2 DEF SetTest
<1>3. CASE SetInc(t)
  BY <1>3 DEF SetInc
<1>4. CASE Signal(t)
  <2>1. FallingAsleep' = FallingAsleep
    BY <1>4 DEF Signal
  <2>2. CASE queue' = {}
    BY <1>4, <2>1, <2>2 DEF Signal
  <2>3. ASSUME ~isManual, NEW w \in queue, queue' = queue \ {w}  PROVE FALSE
    <3>1. w \in Threads /\ w # t /\ pc[w] = "sleep"
      BY <1>4, <2>3 DEF QueueOK, Signal, Threads
    <3>2. pc'[w] = "sleep" /\ w \notin queue'
      BY <1>4, <2>3, <3>1 DEF Signal
    <3>3. w \in Awakened' /\ Awakened' = {}
      BY <2>3, <3>1, <3>2
    <3>4. QED
      BY <3>3
  <2>4. QED
    BY <1>4, <2>2, <2>3 DEF Signal
<1>5. QED
  BY <1>1, <1>2, <1>3, <1>4 DEF SetStep

(* Whoever clears the flag is at work on the event until it finds it clear. *)
LEMMA SettledByClearing ==
    ASSUME TypeInv, NEW t \in Threads, CallReset(t) \/ ClearStep(t),
           Settled', isSignalled' # 0
    PROVE  FALSE
<1> USE DEF TypeInv, TypeOK, Goto, StartClearing
<1>1. t \in Clearing'
  <2>1. CASE CallReset(t)
    BY <2>1 DEF CallReset, Clearing
  <2>2. CASE Clear(t)
    BY <2>2 DEF Clear, Clearing
  <2>3. CASE ClearTest(t)
    BY <2>3 DEF ClearTest, Clearing
  <2>4. CASE ClearDec(t) \/ ClearInc(t)
    BY <2>4 DEF ClearDec, ClearInc, Clearing
  <2>5. QED
    BY <2>1, <2>2, <2>3, <2>4 DEF ClearStep
<1>2. QED
  BY <1>1 DEF Settled

(* A waiter goes to sleep only if it finds the flag clear, and resets an    *)
(* auto-reset event when it has been woken.                                *)
LEMMA SettledByWaiting ==
    ASSUME TypeInv, NEW t \in Threads, WaitStep(t), UNCHANGED isManual,
           Settled', isSignalled' # 0
    PROVE  SettledStep(t)
<1> USE DEF TypeInv, TypeOK, Settled, Clearing, At, Goto, Return, SettledStep,
            FallingAsleep, Awakened
<1>1. CASE CallWait(t)
  BY <1>1 DEF CallWait
<1>2. CASE WaitTest(t)
  BY <1>2 DEF WaitTest, Signalled, StartClearing
<1>3. CASE LockMutex(t)
  BY <1>3 DEF LockMutex
<1>4. CASE CondWait(t)
  BY <1>4 DEF CondWait
<1>5. CASE Wake(t)
  BY <1>5 DEF Wake
<1>6. CASE TimeOut(t)
  BY <1>6 DEF TimeOut
<1>7. CASE UnlockMutex(t)
  BY <1>7 DEF UnlockMutex, Signalled, StartClearing
<1>8. QED
  BY <1>1, <1>2, <1>3, <1>4, <1>5, <1>6, <1>7 DEF WaitStep

(* WakeUpOK is inductive.                                                  *)
LEMMA WakeUpStep ==
    ASSUME WakeUpInv, [WakeUpNext]_wakeUpVars
    PROVE  WakeUpInv'
<1>1. TypeInv'
  BY TypeStep DEF WakeUpInv, WakeUpNext, Next, wakeUpVars, vars
<1>2. CASE UNCHANGED wakeUpVars
  BY <1>1, <1>2 DEF WakeUpInv, QueueOK, WakeUpOK, Settled, Clearing, Awakened,
                    FallingAsleep, At, wakeUpVars, vars
<1>3. ASSUME NEW t \in Threads, Miss(t), UNCHANGED isManual,
             SetStep(t) \/ CallReset(t) \/ ClearStep(t) \/ WaitStep(t)
      PROVE  QueueOK' /\ WakeUpOK'
  <2>1. QueueOK'
    BY <1>3, QueueStep DEF WakeUpInv
  <2>2. ASSUME Settled', isSignalled' # 0
        PROVE  FallingAsleep' \cup queue' \subseteq missed'
    <3>1. SettledStep(t)
      BY <1>3, <2>2, SettledBySetting, SettledByClearing, SettledByWaiting
         DEF WakeUpInv
    <3>2. FallingAsleep' \cup queue'
              \subseteq missed \cup (IF At(t, "signal") THEN FallingAsleep ELSE {})
      BY <3>1 DEF SettledStep, WakeUpInv, WakeUpOK
    <3>3. QED
      BY <1>3, <3>2 DEF Miss
  <2>3. QED
    BY <2>1, <2>2 DEF WakeUpOK
<1>4. QED
  BY <1>1, <1>2, <1>3 DEF WakeUpNext, WakeUpInv

(* WakeUpInv is an invariant.                                              *)
LEMMA WakeUpInvariant == WakeUpSpec => []WakeUpInv
<1>1. WakeUpInit => WakeUpInv
  BY FlagAssumption DEF WakeUpInit, Init, WakeUpInv, TypeInv, TypeOK, RolesOK, PCs,
                        QueueOK, WakeUpOK, FallingAsleep
<1>2. WakeUpInv /\ [WakeUpNext]_wakeUpVars => WakeUpInv'
  BY WakeUpStep
<1>3. QED
  BY <1>1, <1>2, PTL DEF WakeUpSpec

(* For any threads, any width of the flag and either kind of event, a       *)
(* waiter sleeps on a set event only if the signal passed between its test *)
(* of the flag and its pthread_cond_wait.                                  *)
THEOREM SleepsOnlyIfMissedCorrect == WakeUpSpec => []SleepsOnlyIfMissed
<1>1. WakeUpInv => SleepsOnlyIfMissed
  BY DEF WakeUpInv, WakeUpOK, SleepsOnlyIfMissed
<1>2. QED
  BY <1>1, WakeUpInvariant, PTL

(* Hence, where no SetEvent signals while a waiter is between the two,      *)
(* nobody sleeps on an event that is set and that nobody is at work on.    *)
THEOREM NoWakeUpLostOutsideTheWindow ==
    WakeUpSpec /\ SignalsArePrompt => [](Settled /\ isSignalled # 0 => queue = {})
<1> DEFINE NoneMissed == missed = {}
<1>1. WakeUpInit => NoneMissed
  BY DEF WakeUpInit
<1>2. NoneMissed /\ WakeUpInv /\ [WakeUpNext]_wakeUpVars /\ [PromptSignal]_wakeUpVars
          => NoneMissed'
  <2>1. SUFFICES ASSUME NoneMissed, WakeUpInv, [PromptSignal]_wakeUpVars,
                        NEW t \in Threads, Miss(t),
                        SetStep(t) \/ CallReset(t) \/ ClearStep(t) \/ WaitStep(t)
                 PROVE  missed' = {}
    BY DEF WakeUpNext, wakeUpVars
  <2>2. CASE At(t, "signal")
    <3>1. Signal(t)
      BY <2>1, <2>2 DEF At, SetStep, CallSet, SetTest, SetInc, CallReset, ClearStep,
         Clear, ClearTest, ClearDec, ClearInc, WaitStep, CallWait, WaitTest,
         LockMutex, CondWait, Wake, TimeOut, UnlockMutex
    <3>2. pc' # pc
      BY <2>1, <2>2, <3>1 DEF Signal, Return, Goto, At, WakeUpInv, TypeInv, TypeOK
    <3>3. FallingAsleep = {}
      BY <2>1, <3>1, <3>2 DEF PromptSignal, wakeUpVars, vars
    <3>4. QED
      BY <2>1, <3>3 DEF Miss
  <2>3. CASE ~At(t, "signal")
    BY <2>1, <2>3 DEF Miss
  <2>4. QED
    BY <2>2, <2>3
<1>3. NoneMissed /\ SleepsOnlyIfMissed => (Settled /\ isSignalled # 0 => queue = {})
  BY DEF SleepsOnlyIfMissed
<1> HIDE DEF NoneMissed
<1>4. QED
  BY <1>1, <1>2, <1>3, WakeUpInvariant, SleepsOnlyIfMissedCorrect, PTL
     DEF WakeUpSpec, SignalsArePrompt
=============================================================================
