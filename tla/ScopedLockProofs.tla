------------------------- MODULE ScopedLockProofs -------------------------
(***************************************************************************)
(* Proofs about the scoped locks.  The invariant is a balance: the lock is *)
(* held once for each scope that will release it, so that it becomes free  *)
(* only when no scope of its owner will.                                   *)
(***************************************************************************)
EXTENDS ScopedLock, Integers, FiniteSetTheorems, TLAPS

Places == {"idle", "lock", "enter", "flag", "leave", "free", "reset",
           "inc", "incStore", "dec", "decLoad", "decStore"}

Mark == [made : BOOLEAN, locked : BOOLEAN, flag : BOOLEAN]

(* What the proofs need of the types; nothing depends on isLocked.         *)
Types ==
    /\ kind \in AllKinds /\ owner \in Threads \cup {NoThread}
    /\ depth \in Int /\ nest \in Int /\ timedOut \in BOOLEAN /\ disorder \in BOOLEAN
    /\ scope \in [Threads -> [Slots -> Mark]]
    /\ pc \in [Threads -> Places]
    /\ slot \in [Threads -> Slots]
    /\ timedOut => kind = "TimedMutexEx"

(* The scopes for which a thread has the lock: those that hold it, and the *)
(* one of a Lock that has got the mutex and will return a flag.            *)
Owned(t) ==
    {s \in Slots : \/ Holds(t, s)
                   \/ slot[t] = s /\ pc[t] \in {"inc", "incStore"}
                   \/ slot[t] = s /\ pc[t] = "flag" /\ ~timedOut}

(* How often the lock is held, as the class counts it.                     *)
Level == IF kind = "CritSectEx" THEN IF owner = NoThread THEN 0 ELSE 1
         ELSE IF kind = "CritSectRec" THEN nest ELSE depth

(* The lock is held once for each scope that will release it; a MutexEx    *)
(* that has timed out may have been locked more often.                     *)
Balance ==
    /\ \A t \in Threads : Owned(t) # {} => owner = t
    /\ \A t \in Threads : owner = t => Cardinality(Owned(t)) <= Level
    /\ \A t \in Threads : owner = t /\ ~timedOut => Cardinality(Owned(t)) = Level
    /\ owner = NoThread => Level = 0
    /\ Recursive => depth = 0
    /\ owner # NoThread /\ ~Recursive => depth > 0

(* What a thread knows at its place of the scope it works on.              *)
Place(t) ==
    /\ pc[t] = "lock"  => ~Mine(t).locked /\ (kind # "CritSectRec" => ~Mine(t).flag)
    /\ pc[t] = "enter" => kind = "CritSectRec" /\ owner = t /\ Mine(t).made /\ ~Mine(t).locked
    /\ pc[t] = "leave" => kind = "CritSectRec" /\ Mine(t).locked
    /\ pc[t] = "free"  => Releases(t, slot[t]) /\ owner = t /\ (kind = "CritSectRec" => nest = 0)
    /\ pc[t] \in Updating \cup {"flag"} => ~Recursive
    /\ pc[t] \in {"inc", "incStore", "flag"} => ~Mine(t).locked /\ ~Mine(t).flag

(* A locked scope has the flag unless the lock is recursive or has timed   *)
(* out; one that is not locked has none, but for the leavings of a         *)
(* CritSectRec.                                                            *)
Marks(t) ==
    \A s \in Slots :
        /\ ~scope[t][s].made => ~scope[t][s].locked /\ ~scope[t][s].flag
        /\ scope[t][s].flag /\ kind # "CritSectRec" => scope[t][s].locked
        /\ scope[t][s].locked /\ ~Recursive /\ ~timedOut => scope[t][s].flag

(* CritSectRec: the recursion count agrees with the flag of m_cs.          *)
Nesting(t) ==
    kind = "CritSectRec" =>
        /\ pc[t] = "enter" => (Mine(t).flag <=> nest = 0)
        /\ owner = t /\ pc[t] \notin {"enter", "free"} => nest > 0

(* CritSectEx: while no outer scope has been unlocked before an inner one, *)
(* locked scopes belong to the owner.                                      *)
Order(t) ==
    kind = "CritSectEx" /\ ~disorder =>
        /\ \A s \in Slots : scope[t][s].locked /\ ~ (slot[t] = s /\ pc[t] # "idle") => owner = t
        /\ pc[t] = "free" => \A s \in Slots \ {slot[t]} : ~scope[t][s].locked

ScopeInv ==
    Types /\ Balance /\ \A t \in Threads : Place(t) /\ Marks(t) /\ Nesting(t) /\ Order(t)

(* A step of a thread works on one of its scopes and ends at a place. It   *)
(* takes a free lock or gives up its own, and may not change the count of  *)
(* another owner.                                                          *)
Works(t, s, p) ==
    /\ kind' = kind /\ timedOut' \in BOOLEAN
    /\ (timedOut => timedOut') /\ (timedOut' => kind = "TimedMutexEx")
    /\ disorder' \in BOOLEAN /\ (disorder => disorder')
    /\ owner' = owner \/ (owner \in {NoThread, t} /\ owner' \in {NoThread, t})
    /\ depth' \in Int /\ nest' \in Int /\ (nest' # nest => owner = t)
    /\ s \in Slots /\ p \in Places
    /\ pc' \in [Threads -> Places] /\ pc'[t] = p
    /\ slot' \in [Threads -> Slots]
    /\ scope' \in [Threads -> [Slots -> Mark]]
    /\ \A x \in Slots \ {s} : scope'[t][x] = scope[t][x]
    /\ \A u \in Threads \ {t} : scope'[u] = scope[u] /\ pc'[u] = pc[u] /\ slot'[u] = slot[u]

-----------------------------------------------------------------------------
(* What the helpers of the actions change.                                 *)
LEMMA OneScope ==
    ASSUME Types, NEW t \in Threads, NEW s \in Slots, NEW r \in Mark, SetScope(t, s, r)
    PROVE  /\ scope' \in [Threads -> [Slots -> Mark]] /\ scope'[t][s] = r
           /\ \A x \in Slots \ {s} : scope'[t][x] = scope[t][x]
           /\ \A u \in Threads \ {t} : scope'[u] = scope[u]
  <1>1. scope \in [Threads -> [Slots -> Mark]] /\ scope[t] \in [Slots -> Mark]
    BY DEF Types
  <1>2. scope' = [scope EXCEPT ![t] = [scope[t] EXCEPT ![s] = r]]
    BY DEF SetScope
  <1>3. [scope[t] EXCEPT ![s] = r] \in [Slots -> Mark]
    BY <1>1
  <1> QED
    BY <1>1, <1>2, <1>3

LEMMA OnePlace ==
    ASSUME Types, NEW t \in Threads, NEW p \in Places, Goto(t, p)
    PROVE  /\ pc' \in [Threads -> Places] /\ pc'[t] = p
           /\ \A u \in Threads \ {t} : pc'[u] = pc[u]
  BY DEF Types, Goto

LEMMA Stays ==
    ASSUME Types, NEW t \in Threads, NEW q, NEW p \in Places, At(t, q, p)
    PROVE  /\ pc[t] = q /\ pc' \in [Threads -> Places] /\ pc'[t] = p
           /\ \A u \in Threads \ {t} : pc'[u] = pc[u]
           /\ slot' = slot /\ kind' = kind
  BY OnePlace DEF At

LEMMA Fields ==
    ASSUME Types, NEW t \in Threads
    PROVE  /\ slot[t] \in Slots /\ Mine(t) \in Mark /\ pc[t] \in Places
           /\ Mine(t) = scope[t][slot[t]]
           /\ \A x \in Slots : scope[t][x] \in Mark /\ scope[t][x].locked \in BOOLEAN
                               /\ scope[t][x].made \in BOOLEAN /\ scope[t][x].flag \in BOOLEAN
  <1>1. slot[t] \in Slots /\ pc[t] \in Places
    BY DEF Types
  <1>2. \A x \in Slots : scope[t][x] \in Mark
    BY DEF Types
  <1> QED
    BY <1>1, <1>2 DEF Mine, Mark

-----------------------------------------------------------------------------
(* The balance.                                                            *)

LEMMA OwnedFinite ==
    ASSUME ScopeInv, NEW u \in Threads
    PROVE  IsFiniteSet(Owned(u)) /\ Cardinality(Owned(u)) \in Nat
  <1>1. IsFiniteSet(Slots) /\ Owned(u) \subseteq Slots
    BY ScopedLockAssumption DEF Owned
  <1> QED
    BY <1>1, FS_Subset, FS_CardinalityType

LEMMA OthersOwn ==
    ASSUME ScopeInv, NEW t \in Threads, NEW s, NEW p, Works(t, s, p),
           NEW u \in Threads \ {t}
    PROVE  /\ Owned(u)' \subseteq Owned(u)
           /\ timedOut' = timedOut => Owned(u)' = Owned(u)
           /\ \A x \in Slots : Holds(u, x)' = Holds(u, x)
  <1>1. kind' = kind /\ scope'[u] = scope[u] /\ pc'[u] = pc[u] /\ slot'[u] = slot[u]
    BY DEF Works
  <1>2. \A x \in Slots : Holds(u, x)' = Holds(u, x)
    BY <1>1 DEF Holds, Releases
  <1>3. timedOut => timedOut'
    BY DEF Works
  <1> QED
    BY <1>1, <1>2, <1>3 DEF Owned

(* A step by which its thread comes to own no more, and that takes or      *)
(* gives up nothing, keeps the balance.                                    *)
LEMMA BalanceKept ==
    ASSUME ScopeInv, NEW t \in Threads, NEW s, NEW p, Works(t, s, p),
           owner' = owner, nest' = nest, depth' = depth,
           Owned(t)' \subseteq Owned(t), ~timedOut' => Owned(t)' = Owned(t)
    PROVE  Balance'
  <1>1. Level' = Level /\ kind' = kind /\ Level \in Int
    BY DEF Level, Works, ScopeInv, Types
  <1>2. ~timedOut' => ~timedOut /\ timedOut' = timedOut
    BY DEF Works, ScopeInv, Types
  <1>3. ASSUME NEW u \in Threads
        PROVE  /\ Owned(u)' \subseteq Owned(u)
               /\ ~timedOut' => Owned(u)' = Owned(u)
    BY <1>2, <1>3, OthersOwn
  <1>4. ASSUME NEW u \in Threads
        PROVE  /\ Cardinality(Owned(u)') <= Cardinality(Owned(u))
               /\ Cardinality(Owned(u)') \in Nat /\ Cardinality(Owned(u)) \in Nat
    <2>1. IsFiniteSet(Owned(u)) /\ Owned(u)' \subseteq Owned(u)
      BY <1>3, OwnedFinite
    <2> QED
      BY <2>1, FS_Subset, FS_CardinalityType
  <1>5. \A u \in Threads : Owned(u)' # {} => owner' = u
    BY <1>3 DEF ScopeInv, Balance
  <1>6. \A u \in Threads : owner' = u => Cardinality(Owned(u)') <= Level'
    BY <1>1, <1>4 DEF ScopeInv, Balance
  <1>7. \A u \in Threads : owner' = u /\ ~timedOut' => Cardinality(Owned(u)') = Level'
    BY <1>1, <1>2, <1>3 DEF ScopeInv, Balance
  <1> QED
    BY <1>1, <1>5, <1>6, <1>7 DEF ScopeInv, Balance, Recursive

(* So does one that counts one more and owns one more ...                  *)
LEMMA BalanceUp ==
    ASSUME ScopeInv, NEW t \in Threads, NEW s \in Slots, NEW p, Works(t, s, p),
           owner \in {NoThread, t}, owner' = t, timedOut' = timedOut, Level' = Level + 1,
           s \notin Owned(t), Owned(t)' = Owned(t) \cup {s},
           Recursive => depth' = 0, ~Recursive => depth' > 0
    PROVE  Balance'
  <1>1. kind' = kind /\ Level \in Int /\ t # NoThread
    BY ScopedLockAssumption DEF Level, Works, ScopeInv, Types
  <1>2. Cardinality(Owned(t)') = Cardinality(Owned(t)) + 1 /\ Cardinality(Owned(t)) \in Nat
    BY OwnedFinite, FS_AddElement
  <1>3. Cardinality(Owned(t)) <= Level /\ (~timedOut => Cardinality(Owned(t)) = Level)
    <2>1. CASE owner = t
      BY <2>1 DEF ScopeInv, Balance
    <2>2. CASE owner = NoThread
      <3>1. Owned(t) = {} /\ Level = 0
        BY <2>2, <1>1 DEF ScopeInv, Balance
      <3> QED
        BY <3>1, FS_EmptySet
    <2> QED
      BY <2>1, <2>2
  <1>4. \A u \in Threads \ {t} : Owned(u)' = {}
    BY OthersOwn, <1>1, ScopedLockAssumption DEF ScopeInv, Balance
  <1> QED
    BY <1>1, <1>2, <1>3, <1>4 DEF Balance, Recursive

(* ... and one that counts one less and owns one less.                     *)
LEMMA BalanceDown ==
    ASSUME ScopeInv, NEW t \in Threads, NEW s \in Slots, NEW p, Works(t, s, p),
           owner = t, timedOut' = timedOut, Level' = Level - 1,
           s \in Owned(t), Owned(t)' = Owned(t) \ {s},
           \/ owner' = t /\ (Recursive => depth' = 0) /\ (~Recursive => depth' > 0)
           \/ owner' = NoThread /\ Level' = 0 /\ (Recursive => depth' = 0)
    PROVE  Balance'
  <1>1. kind' = kind /\ Level \in Int /\ t # NoThread
    BY ScopedLockAssumption DEF Level, Works, ScopeInv, Types
  <1>2. /\ Cardinality(Owned(t)') = Cardinality(Owned(t)) - 1
        /\ Cardinality(Owned(t)) \in Nat /\ IsFiniteSet(Owned(t)') /\ Cardinality(Owned(t)') \in Nat
    BY OwnedFinite, FS_RemoveElement, FS_CardinalityType
  <1>3. Cardinality(Owned(t)) <= Level /\ (~timedOut => Cardinality(Owned(t)) = Level)
    BY DEF ScopeInv, Balance
  <1>4. \A u \in Threads \ {t} : Owned(u)' = {}
    BY OthersOwn, <1>1, ScopedLockAssumption DEF ScopeInv, Balance
  <1>5. owner' = NoThread => Owned(t)' = {}
    <2>1. owner' = NoThread => Cardinality(Owned(t)') = 0
      BY <1>1, <1>2, <1>3
    <2> QED
      BY <2>1, <1>2, FS_EmptySet
  <1>6. \A u \in Threads : Owned(u)' # {} => owner' = u
    BY <1>1, <1>4, <1>5
  <1>7. \A u \in Threads : owner' = u => u = t
    BY <1>1, ScopedLockAssumption
  <1>8. Cardinality(Owned(t)') <= Level' /\ (~timedOut' => Cardinality(Owned(t)') = Level')
    BY <1>1, <1>2, <1>3
  <1>9. Recursive' <=> Recursive
    BY <1>1 DEF Recursive
  <1> QED
    BY <1>1, <1>6, <1>7, <1>8, <1>9 DEF Balance

-----------------------------------------------------------------------------
(* The other threads, and the abstract lock.                               *)

LEMMA OthersKeep ==
    ASSUME ScopeInv, NEW t \in Threads, NEW s, NEW p, Works(t, s, p),
           NEW u \in Threads \ {t}
    PROVE  Place(u)' /\ Marks(u)' /\ Nesting(u)' /\ Order(u)'
  <1>1. kind' = kind /\ scope'[u] = scope[u] /\ pc'[u] = pc[u] /\ slot'[u] = slot[u]
    BY DEF Works
  <1>2. /\ owner = u => owner' = u /\ nest' = nest
        /\ owner' = u => owner = u
        /\ disorder => disorder'
        /\ ~timedOut' => ~timedOut
    BY ScopedLockAssumption DEF Works, ScopeInv, Types
  <1>3. Place(u) /\ Marks(u) /\ Nesting(u) /\ Order(u)
    BY DEF ScopeInv
  <1>4. Place(u)'
    BY <1>1, <1>2, <1>3 DEF Place, Mine, Releases, Recursive
  <1>5. Marks(u)'
    BY <1>1, <1>2, <1>3 DEF Marks, Recursive
  <1>6. Nesting(u)'
    BY <1>1, <1>2, <1>3 DEF Nesting, Place, Mine
  <1>7. Order(u)'
    BY <1>1, <1>2, <1>3 DEF Order
  <1> QED
    BY <1>4, <1>5, <1>6, <1>7

LEMMA InvKept ==
    ASSUME ScopeInv, NEW t \in Threads, NEW s, NEW p, Works(t, s, p),
           Balance', Place(t)', Marks(t)', Nesting(t)', Order(t)'
    PROVE  ScopeInv'
  <1>1. /\ kind' \in AllKinds /\ depth' \in Int /\ nest' \in Int
        /\ pc' \in [Threads -> Places] /\ slot' \in [Threads -> Slots]
        /\ scope' \in [Threads -> [Slots -> Mark]]
    BY DEF Types, Works, ScopeInv
  <1>2. owner' \in Threads \cup {NoThread}
    BY DEF Types, Works, ScopeInv
  <1>3. timedOut' \in BOOLEAN /\ disorder' \in BOOLEAN /\ (timedOut' => kind' = "TimedMutexEx")
    BY DEF Types, Works, ScopeInv
  <1>4. Types'
    BY <1>1, <1>2, <1>3 DEF Types
  <1> QED
    BY <1>4, OthersKeep DEF ScopeInv

(* The abstract lock sees a step only when a scope comes to hold the lock  *)
(* or holds it no more.                                                    *)
Held == {h \in Threads \X Slots : Holds(h[1], h[2])}

Simulates == Lock!Next \/ Held' = Held

LEMMA NoChange ==
    ASSUME ScopeInv, NEW t \in Threads, NEW s, NEW p, Works(t, s, p),
           \A x \in Slots : Holds(t, x)' <=> Holds(t, x)
    PROVE  Simulates
  <1>1. \A u \in Threads, x \in Slots : Holds(u, x)' <=> Holds(u, x)
    BY OthersOwn
  <1> QED
    BY <1>1 DEF Held, Simulates

LEMMA Takes ==
    ASSUME ScopeInv, NEW t \in Threads, NEW s \in Slots, NEW p, Works(t, s, p),
           owner \in {NoThread, t}, ~Holds(t, s), Holds(t, s)',
           \A x \in Slots \ {s} : Holds(t, x)' <=> Holds(t, x)
    PROVE  Simulates
  <1>1. \A u \in Threads \ {t}, x \in Slots : (Holds(u, x)' <=> Holds(u, x)) /\ ~Holds(u, x)
    BY OthersOwn, ScopedLockAssumption DEF ScopeInv, Balance, Owned
  <1>2. <<t, s>> \notin Held /\ Held \subseteq {t} \X Slots
    BY <1>1 DEF Held
  <1>3. Held' = Held \cup {<<t, s>>}
    BY <1>1 DEF Held
  <1> QED
    BY <1>2, <1>3 DEF Held, Simulates, Lock!Next, Lock!Take

LEMMA Drops ==
    ASSUME ScopeInv, NEW t \in Threads, NEW s \in Slots, NEW p, Works(t, s, p),
           Holds(t, s), ~Holds(t, s)',
           \A x \in Slots \ {s} : Holds(t, x)' <=> Holds(t, x)
    PROVE  Simulates
  <1>1. \A u \in Threads \ {t}, x \in Slots : Holds(u, x)' <=> Holds(u, x)
    BY OthersOwn
  <1>2. <<t, s>> \in Held /\ Held' = Held \ {<<t, s>>}
    BY <1>1 DEF Held
  <1> QED
    BY <1>2 DEF Held, Simulates, Lock!Next, Lock!Drop

-----------------------------------------------------------------------------
(* The actions.                                                            *)

LEMMA LockAgainStep ==
    ASSUME ScopeInv, NEW t \in Threads, LockAgain(t)
    PROVE  ScopeInv' /\ Simulates
  <1> DEFINE p == GotLock
             r == [made |-> TRUE, locked |-> kind = "CritSectEx", flag |-> FALSE]
  <1>0. PICK s \in Slots : s = slot[t]
    BY Fields DEF ScopeInv
  <1>1. Types /\ Place(t) /\ Marks(t) /\ Nesting(t) /\ Order(t) /\ s \in Slots /\ s = slot[t]
    BY <1>0 DEF ScopeInv
  <1>2. p \in Places /\ r \in Mark
    BY <1>1, Fields DEF Places, Mark, Types, Mine, NoScope, GotLock
  <1>3. /\ pc[t] = "lock" /\ pc' \in [Threads -> Places] /\ pc'[t] = p
        /\ \A u \in Threads \ {t} : pc'[u] = pc[u]
        /\ slot' = slot /\ kind' = kind
    <2>1. At(t, "lock", p)
      BY DEF LockAgain, GotLock
    <2> HIDE DEF p
    <2> QED
      BY <1>1, <1>2, <2>1, Stays
  <1>4. /\ scope' \in [Threads -> [Slots -> Mark]] /\ scope'[t][s] = r
        /\ \A x \in Slots \ {s} : scope'[t][x] = scope[t][x]
        /\ \A u \in Threads \ {t} : scope'[u] = scope[u]
    <2>1. SetScope(t, s, r)
      BY <1>1 DEF LockAgain
    <2> HIDE DEF r
    <2> QED
      BY <1>1, <1>2, <2>1, OneScope
  <1>5. /\ owner' = owner /\ depth' = depth /\ nest' = nest /\ disorder' = disorder
        /\ timedOut' = timedOut /\ Recursive /\ owner = t
    BY <1>1, <1>3, ScopedLockAssumption DEF LockAgain, Types
  <1>6. Works(t, s, p)
    BY <1>1, <1>2, <1>3, <1>4, <1>5 DEF Works, Types
  <1>. HIDE DEF r
  <1>mark. /\ pc[t] = "lock" /\ s = slot[t]
         /\ scope'[t][s].made /\ ~scope'[t][s].flag /\ (scope'[t][s].locked <=> kind = "CritSectEx")
    <2>1. scope'[t][s].made = TRUE /\ scope'[t][s].flag = FALSE
      BY <1>4 DEF r
    <2>2. scope'[t][s].locked = (kind = "CritSectEx")
      BY <1>4 DEF r
    <2> QED
      BY <1>1, <1>3, <2>1, <2>2
  <1>7. Place(t)'
    BY <1>1, <1>3, <1>4, <1>5, <1>mark, Fields, ScopedLockAssumption
    DEF Place, Mine, Releases, Recursive, Updating, AllKinds, Types, NoScope, GotLock
  <1>8. Marks(t)'
    BY <1>1, <1>3, <1>4, <1>5, <1>mark, Fields, ScopedLockAssumption
    DEF Marks, Place, Mine, Recursive, AllKinds, Types, NoScope, GotLock
  <1>9. Nesting(t)'
    BY <1>1, <1>3, <1>4, <1>5, <1>mark, Fields, ScopedLockAssumption
    DEF Nesting, Place, Mine, Recursive, AllKinds, Types, NoScope, GotLock
  <1>10. Order(t)'
    BY <1>1, <1>3, <1>4, <1>5, <1>mark, Fields, ScopedLockAssumption
    DEF Order, Place, Mine, Recursive, AllKinds, Types, NoScope, GotLock
  <1>11. \A x \in Slots : Holds(t, x)' <=> Holds(t, x)
    BY <1>1, <1>3, <1>4, <1>5, <1>mark, Fields
    DEF Holds, Releases, Place, Mine, Recursive, Marks, AllKinds, Types, Updating, NoScope, GotLock
  <1>12. Owned(t)' \subseteq Owned(t) /\ (~timedOut' => Owned(t)' = Owned(t))
    BY <1>1, <1>3, <1>5, <1>11 DEF Owned, Types, GotLock
  <1>13. Balance'
    BY <1>5, <1>6, <1>12, BalanceKept
  <1>14. Simulates
    BY <1>6, <1>11, NoChange
  <1> QED
    BY <1>6, <1>7, <1>8, <1>9, <1>10, <1>13, <1>14, InvKept

LEMMA LockFailsStep ==
    ASSUME ScopeInv, NEW t \in Threads, LockFails(t)
    PROVE  ScopeInv' /\ Simulates
  <1> DEFINE p == "idle"
  <1>0. PICK s \in Slots : s = slot[t]
    BY Fields DEF ScopeInv
  <1>1. Types /\ Place(t) /\ Marks(t) /\ Nesting(t) /\ Order(t) /\ s \in Slots /\ s = slot[t]
    BY <1>0 DEF ScopeInv
  <1>2. p \in Places
    BY <1>1, Fields DEF Places, Mark, Types, Mine, NoScope
  <1>3. /\ pc[t] = "lock" /\ pc' \in [Threads -> Places] /\ pc'[t] = p
        /\ \A u \in Threads \ {t} : pc'[u] = pc[u]
        /\ slot' = slot /\ kind' = kind
    <2>1. At(t, "lock", p)
      BY DEF LockFails
    <2> HIDE DEF p
    <2> QED
      BY <1>1, <1>2, <2>1, Stays
  <1>4. scope' = scope /\ scope \in [Threads -> [Slots -> Mark]]
    BY <1>1 DEF LockFails, Types
  <1>5. /\ owner' = owner /\ depth' = depth /\ nest' = nest /\ disorder' = disorder
        /\ timedOut' = timedOut /\ Recursive
    BY <1>1, <1>3, ScopedLockAssumption DEF LockFails, Types
  <1>6. Works(t, s, p)
    BY <1>1, <1>2, <1>3, <1>4, <1>5 DEF Works, Types
  <1>7. Place(t)'
    BY <1>1, <1>2, <1>3, <1>4, <1>5, Fields, ScopedLockAssumption
    DEF Place, Mine, Releases, Recursive, Updating, AllKinds, Types, NoScope
  <1>8. Marks(t)'
    BY <1>1, <1>2, <1>3, <1>4, <1>5, Fields, ScopedLockAssumption
    DEF Marks, Place, Mine, Recursive, AllKinds, Types, NoScope
  <1>9. Nesting(t)'
    BY <1>1, <1>2, <1>3, <1>4, <1>5, Fields, ScopedLockAssumption
    DEF Nesting, Place, Mine, Recursive, AllKinds, Types, NoScope
  <1>10. Order(t)'
    BY <1>1, <1>2, <1>3, <1>4, <1>5, Fields, ScopedLockAssumption
    DEF Order, Place, Mine, Recursive, AllKinds, Types, NoScope
  <1>11. \A x \in Slots : Holds(t, x)' <=> Holds(t, x)
    BY <1>1, <1>2, <1>3, <1>4, <1>5, Fields
    DEF Holds, Releases, Place, Mine, Recursive, Marks, AllKinds, Types, Updating, NoScope
  <1>12. Owned(t)' \subseteq Owned(t) /\ (~timedOut' => Owned(t)' = Owned(t))
    BY <1>1, <1>3, <1>5, <1>11 DEF Owned, Types
  <1>13. Balance'
    BY <1>5, <1>6, <1>12, BalanceKept
  <1>14. Simulates
    BY <1>6, <1>11, NoChange
  <1> QED
    BY <1>6, <1>7, <1>8, <1>9, <1>10, <1>13, <1>14, InvKept

LEMMA MutexTimesOutStep ==
    ASSUME ScopeInv, NEW t \in Threads, MutexTimesOut(t)
    PROVE  ScopeInv' /\ Simulates
  <1> DEFINE p == "flag"
  <1>0. PICK s \in Slots : s = slot[t]
    BY Fields DEF ScopeInv
  <1>1. Types /\ Place(t) /\ Marks(t) /\ Nesting(t) /\ Order(t) /\ s \in Slots /\ s = slot[t]
    BY <1>0 DEF ScopeInv
  <1>2. p \in Places
    BY <1>1, Fields DEF Places, Mark, Types, Mine, NoScope
  <1>3. /\ pc[t] = "lock" /\ pc' \in [Threads -> Places] /\ pc'[t] = p
        /\ \A u \in Threads \ {t} : pc'[u] = pc[u]
        /\ slot' = slot /\ kind' = kind
    <2>1. At(t, "lock", p)
      BY DEF MutexTimesOut
    <2> HIDE DEF p
    <2> QED
      BY <1>1, <1>2, <2>1, Stays
  <1>4. scope' = scope /\ scope \in [Threads -> [Slots -> Mark]]
    BY <1>1 DEF MutexTimesOut, Types
  <1>5. /\ owner' = owner /\ depth' = depth /\ nest' = nest /\ disorder' = disorder
        /\ timedOut' = TRUE /\ kind = "TimedMutexEx" /\ ~Recursive
    BY <1>1, <1>3, ScopedLockAssumption DEF MutexTimesOut, Types, Recursive
  <1>6. Works(t, s, p)
    BY <1>1, <1>2, <1>3, <1>4, <1>5 DEF Works, Types
  <1>7. Place(t)'
    BY <1>1, <1>2, <1>3, <1>4, <1>5, Fields, ScopedLockAssumption
    DEF Place, Mine, Releases, Recursive, Updating, AllKinds, Types, NoScope
  <1>8. Marks(t)'
    BY <1>1, <1>2, <1>3, <1>4, <1>5, Fields, ScopedLockAssumption
    DEF Marks, Place, Mine, Recursive, AllKinds, Types, NoScope
  <1>9. Nesting(t)'
    BY <1>1, <1>2, <1>3, <1>4, <1>5, Fields, ScopedLockAssumption
    DEF Nesting, Place, Mine, Recursive, AllKinds, Types, NoScope
  <1>10. Order(t)'
    BY <1>1, <1>2, <1>3, <1>4, <1>5, Fields, ScopedLockAssumption
    DEF Order, Place, Mine, Recursive, AllKinds, Types, NoScope
  <1>11. \A x \in Slots : Holds(t, x)' <=> Holds(t, x)
    BY <1>1, <1>2, <1>3, <1>4, <1>5, Fields
    DEF Holds, Releases, Place, Mine, Recursive, Marks, AllKinds, Types, Updating, NoScope
  <1>12. Owned(t)' \subseteq Owned(t) /\ (~timedOut' => Owned(t)' = Owned(t))
    BY <1>1, <1>3, <1>5, <1>11 DEF Owned, Types
  <1>13. Balance'
    BY <1>5, <1>6, <1>12, BalanceKept
  <1>14. Simulates
    BY <1>6, <1>11, NoChange
  <1> QED
    BY <1>6, <1>7, <1>8, <1>9, <1>10, <1>13, <1>14, InvKept

LEMMA SetFlagStep ==
    ASSUME ScopeInv, NEW t \in Threads, SetFlag(t)
    PROVE  ScopeInv' /\ Simulates
  <1> DEFINE p == "idle"
             r == [made |-> TRUE, locked |-> TRUE, flag |-> kind = "CritSect" \/ ~timedOut]
  <1>0. PICK s \in Slots : s = slot[t]
    BY Fields DEF ScopeInv
  <1>1. Types /\ Place(t) /\ Marks(t) /\ Nesting(t) /\ Order(t) /\ s \in Slots /\ s = slot[t]
    BY <1>0 DEF ScopeInv
  <1>2. p \in Places /\ r \in Mark
    BY <1>1, Fields DEF Places, Mark, Types, Mine, NoScope
  <1>3. /\ pc[t] = "flag" /\ pc' \in [Threads -> Places] /\ pc'[t] = p
        /\ \A u \in Threads \ {t} : pc'[u] = pc[u]
        /\ slot' = slot /\ kind' = kind
    <2>1. At(t, "flag", p)
      BY DEF SetFlag
    <2> HIDE DEF p
    <2> QED
      BY <1>1, <1>2, <2>1, Stays
  <1>4. /\ scope' \in [Threads -> [Slots -> Mark]] /\ scope'[t][s] = r
        /\ \A x \in Slots \ {s} : scope'[t][x] = scope[t][x]
        /\ \A u \in Threads \ {t} : scope'[u] = scope[u]
    <2>1. SetScope(t, s, r)
      BY <1>1 DEF SetFlag
    <2> HIDE DEF r
    <2> QED
      BY <1>1, <1>2, <2>1, OneScope
  <1>5. /\ owner' = owner /\ depth' = depth /\ nest' = nest /\ disorder' = disorder
        /\ timedOut' = timedOut
    BY <1>1, <1>3, ScopedLockAssumption DEF SetFlag, Types
  <1>6. Works(t, s, p)
    BY <1>1, <1>2, <1>3, <1>4, <1>5 DEF Works, Types
  <1>. HIDE DEF r
  <1>mark. /\ pc[t] = "flag" /\ s = slot[t]
         /\ scope'[t][s].made /\ scope'[t][s].locked /\ (scope'[t][s].flag <=> ~timedOut) /\ ~Recursive
    <2>1. scope'[t][s].made = TRUE /\ scope'[t][s].locked = TRUE
      BY <1>4 DEF r
    <2>2. scope'[t][s].flag = (kind = "CritSect" \/ ~timedOut)
      BY <1>4 DEF r
    <2>3. ~Recursive
      BY <1>1, <1>3 DEF Place, Updating
    <2>4. kind = "CritSect" => ~timedOut
      BY <1>1 DEF Types
    <2> QED
      BY <1>1, <1>3, <2>1, <2>2, <2>3, <2>4
  <1>7. Place(t)'
    BY <1>1, <1>3, <1>4, <1>5, <1>mark, Fields, ScopedLockAssumption
    DEF Place, Mine, Releases, Recursive, Updating, AllKinds, Types, NoScope
  <1>8. Marks(t)'
    BY <1>1, <1>3, <1>4, <1>5, <1>mark, Fields, ScopedLockAssumption
    DEF Marks, Place, Mine, Recursive, AllKinds, Types, NoScope
  <1>9. Nesting(t)'
    BY <1>1, <1>3, <1>4, <1>5, <1>mark, Fields, ScopedLockAssumption
    DEF Nesting, Place, Mine, Recursive, AllKinds, Types, NoScope
  <1>10. Order(t)'
    BY <1>1, <1>3, <1>4, <1>5, <1>mark, Fields, ScopedLockAssumption
    DEF Order, Place, Mine, Recursive, AllKinds, Types, NoScope
  <1>11. \A x \in Slots :
            /\ x = s => ~Holds(t, x) /\ (Holds(t, x)' <=> ~timedOut)
            /\ x # s => (Holds(t, x)' <=> Holds(t, x))
    BY <1>1, <1>3, <1>4, <1>5, <1>mark, Fields
    DEF Holds, Releases, Place, Mine, Recursive, Marks, AllKinds, Types, Updating, NoScope
  <1>12. Owned(t)' = Owned(t)
    BY <1>1, <1>3, <1>4, <1>5, <1>mark, Fields
    DEF Owned, Holds, Releases, Place, Mine, Recursive, Types, Updating
  <1>13. Balance'
    BY <1>5, <1>6, <1>12, BalanceKept
  <1>14. Simulates
    <2>1. CASE timedOut
      BY <1>1, <1>5, <1>6, <1>11, <2>1, NoChange DEF Types
    <2>2. CASE ~timedOut
      <3>1. owner \in {NoThread, t}
        BY <1>1, <1>3, <2>2 DEF Owned, ScopeInv, Balance
      <3> QED
        BY <1>1, <1>6, <1>11, <2>2, <3>1, Takes
    <2> QED
      BY <2>1, <2>2
  <1> QED
    BY <1>6, <1>7, <1>8, <1>9, <1>10, <1>13, <1>14, InvKept

LEMMA ResetScopeStep ==
    ASSUME ScopeInv, NEW t \in Threads, ResetScope(t)
    PROVE  ScopeInv' /\ Simulates
  <1> DEFINE p == "idle"
             r == [NoScope EXCEPT !.made = ~dying[t]]
  <1>0. PICK s \in Slots : s = slot[t]
    BY Fields DEF ScopeInv
  <1>1. Types /\ Place(t) /\ Marks(t) /\ Nesting(t) /\ Order(t) /\ s \in Slots /\ s = slot[t]
    BY <1>0 DEF ScopeInv
  <1>2. p \in Places /\ r \in Mark
    BY <1>1, Fields DEF Places, Mark, Types, Mine, NoScope
  <1>3. /\ pc[t] = "reset" /\ pc' \in [Threads -> Places] /\ pc'[t] = p
        /\ \A u \in Threads \ {t} : pc'[u] = pc[u]
        /\ slot' = slot /\ kind' = kind
    <2>1. At(t, "reset", p)
      BY DEF ResetScope
    <2> HIDE DEF p
    <2> QED
      BY <1>1, <1>2, <2>1, Stays
  <1>4. /\ scope' \in [Threads -> [Slots -> Mark]] /\ scope'[t][s] = r
        /\ \A x \in Slots \ {s} : scope'[t][x] = scope[t][x]
        /\ \A u \in Threads \ {t} : scope'[u] = scope[u]
    <2>1. SetScope(t, s, r)
      BY <1>1 DEF ResetScope
    <2> HIDE DEF r
    <2> QED
      BY <1>1, <1>2, <2>1, OneScope
  <1>5. /\ owner' = owner /\ depth' = depth /\ nest' = nest /\ disorder' = disorder
        /\ timedOut' = timedOut
    BY <1>1, <1>3, ScopedLockAssumption DEF ResetScope, Types
  <1>6. Works(t, s, p)
    BY <1>1, <1>2, <1>3, <1>4, <1>5 DEF Works, Types
  <1>7. Place(t)'
    BY <1>1, <1>2, <1>3, <1>4, <1>5, Fields, ScopedLockAssumption
    DEF Place, Mine, Releases, Recursive, Updating, AllKinds, Types, NoScope
  <1>8. Marks(t)'
    BY <1>1, <1>2, <1>3, <1>4, <1>5, Fields, ScopedLockAssumption
    DEF Marks, Place, Mine, Recursive, AllKinds, Types, NoScope
  <1>9. Nesting(t)'
    BY <1>1, <1>2, <1>3, <1>4, <1>5, Fields, ScopedLockAssumption
    DEF Nesting, Place, Mine, Recursive, AllKinds, Types, NoScope
  <1>10. Order(t)'
    BY <1>1, <1>2, <1>3, <1>4, <1>5, Fields, ScopedLockAssumption
    DEF Order, Place, Mine, Recursive, AllKinds, Types, NoScope
  <1>11. \A x \in Slots : Holds(t, x)' <=> Holds(t, x)
    BY <1>1, <1>2, <1>3, <1>4, <1>5, Fields
    DEF Holds, Releases, Place, Mine, Recursive, Marks, AllKinds, Types, Updating, NoScope
  <1>12. Owned(t)' \subseteq Owned(t) /\ (~timedOut' => Owned(t)' = Owned(t))
    BY <1>1, <1>3, <1>5, <1>11 DEF Owned, Types
  <1>13. Balance'
    BY <1>5, <1>6, <1>12, BalanceKept
  <1>14. Simulates
    BY <1>6, <1>11, NoChange
  <1> QED
    BY <1>6, <1>7, <1>8, <1>9, <1>10, <1>13, <1>14, InvKept

LEMMA LockFreeStep ==
    ASSUME ScopeInv, NEW t \in Threads, LockFree(t)
    PROVE  ScopeInv' /\ Simulates
  <1> DEFINE p == GotLock
             r == [made |-> TRUE, locked |-> kind = "CritSectEx", flag |-> TRUE]
  <1>0. PICK s \in Slots : s = slot[t]
    BY Fields DEF ScopeInv
  <1>1. Types /\ Place(t) /\ Marks(t) /\ Nesting(t) /\ Order(t) /\ s \in Slots /\ s = slot[t]
    BY <1>0 DEF ScopeInv
  <1>2. p \in Places /\ r \in Mark
    BY <1>1, Fields DEF Places, Mark, Types, Mine, NoScope, GotLock
  <1>3. /\ pc[t] = "lock" /\ pc' \in [Threads -> Places] /\ pc'[t] = p
        /\ \A u \in Threads \ {t} : pc'[u] = pc[u]
        /\ slot' = slot /\ kind' = kind
    <2>1. At(t, "lock", p)
      BY DEF LockFree, GotLock
    <2> HIDE DEF p
    <2> QED
      BY <1>1, <1>2, <2>1, Stays
  <1>4. /\ scope' \in [Threads -> [Slots -> Mark]] /\ scope'[t][s] = r
        /\ \A x \in Slots \ {s} : scope'[t][x] = scope[t][x]
        /\ \A u \in Threads \ {t} : scope'[u] = scope[u]
    <2>1. SetScope(t, s, r)
      BY <1>1 DEF LockFree
    <2> HIDE DEF r
    <2> QED
      BY <1>1, <1>2, <2>1, OneScope
  <1>5. /\ owner = NoThread /\ owner' = t /\ depth' = depth /\ depth = 0 /\ nest' = nest
        /\ disorder' = disorder /\ timedOut' = timedOut /\ Recursive /\ Level = 0
        /\ (kind = "CritSectRec" => nest = 0)
    BY <1>1, <1>3, ScopedLockAssumption DEF LockFree, Types, ScopeInv, Balance, Level
  <1>6. Works(t, s, p)
    BY <1>1, <1>2, <1>3, <1>4, <1>5 DEF Works, Types
  <1>. HIDE DEF r
  <1>mark. /\ pc[t] = "lock" /\ s = slot[t]
         /\ scope'[t][s].made /\ scope'[t][s].flag /\ (scope'[t][s].locked <=> kind = "CritSectEx")
    <2>1. scope'[t][s].made = TRUE /\ scope'[t][s].flag = TRUE
      BY <1>4 DEF r
    <2>2. scope'[t][s].locked = (kind = "CritSectEx")
      BY <1>4 DEF r
    <2> QED
      BY <1>1, <1>3, <2>1, <2>2
  <1>7. Place(t)'
    BY <1>1, <1>3, <1>4, <1>5, <1>mark, Fields, ScopedLockAssumption
    DEF Place, Mine, Releases, Recursive, Updating, AllKinds, Types, NoScope, GotLock
  <1>8. Marks(t)'
    BY <1>1, <1>3, <1>4, <1>5, <1>mark, Fields, ScopedLockAssumption
    DEF Marks, Place, Mine, Recursive, AllKinds, Types, NoScope, GotLock
  <1>9. Nesting(t)'
    BY <1>1, <1>3, <1>4, <1>5, <1>mark, Fields, ScopedLockAssumption
    DEF Nesting, Place, Mine, Recursive, AllKinds, Types, NoScope, GotLock
  <1>10. Order(t)'
    BY <1>1, <1>3, <1>4, <1>5, <1>mark, Fields, ScopedLockAssumption
    DEF Order, Place, Mine, Recursive, AllKinds, Types, NoScope, GotLock
  <1>11. \A x \in Slots :
            /\ x = s => (Holds(t, x)' <=> kind = "CritSectEx")
            /\ x # s => (Holds(t, x)' <=> Holds(t, x))
    BY <1>1, <1>3, <1>4, <1>5, <1>mark, Fields
    DEF Holds, Releases, Place, Mine, Recursive, Marks, AllKinds, Types, Updating, NoScope, GotLock
  <1>12. \A u \in Threads : ~Holds(u, s) /\ Owned(u) = {}
    BY <1>1, <1>5, ScopedLockAssumption DEF Owned, ScopeInv, Balance
  <1>13. Balance'
    <2>1. CASE kind = "CritSectEx"
      <3>1. Owned(t)' = Owned(t) \cup {s} /\ s \notin Owned(t)
        BY <1>1, <1>3, <1>5, <1>11, <1>12, <2>1 DEF Owned, GotLock
      <3>2. Level' = Level + 1
        BY <1>3, <1>5, <2>1, ScopedLockAssumption DEF Level
      <3> QED
        BY <1>1, <1>5, <1>6, <3>1, <3>2, BalanceUp
    <2>2. CASE kind = "CritSectRec"
      <3>1. Owned(t)' = {}
        BY <1>3, <1>5, <1>11, <1>12, <2>2 DEF Owned, GotLock, Recursive
      <3>2. \A u \in Threads : Owned(u)' = {}
        BY <1>6, <1>12, <3>1, OthersOwn
      <3>3. Level' = 0 /\ kind' = kind
        BY <1>3, <1>5, <2>2 DEF Level
      <3> QED
        BY <1>5, <2>2, <3>2, <3>3, FS_EmptySet, ScopedLockAssumption DEF Balance, Recursive
    <2> QED
      BY <1>5, <2>1, <2>2 DEF Recursive
  <1>14. Simulates
    <2>1. CASE kind = "CritSectEx"
      <3>1. Holds(t, s)' /\ \A x \in Slots \ {s} : Holds(t, x)' <=> Holds(t, x)
        BY <1>1, <1>11, <2>1
      <3> QED
        BY <1>1, <1>5, <1>6, <1>12, <3>1, Takes
    <2>2. CASE kind = "CritSectRec"
      <3>1. \A x \in Slots : Holds(t, x)' <=> Holds(t, x)
        BY <1>1, <1>11, <1>12, <2>2
      <3> QED
        BY <1>6, <3>1, NoChange
    <2> QED
      BY <1>5, <2>1, <2>2 DEF Recursive
  <1> QED
    BY <1>6, <1>7, <1>8, <1>9, <1>10, <1>13, <1>14, InvKept

LEMMA EnterRecStep ==
    ASSUME ScopeInv, NEW t \in Threads, EnterRec(t)
    PROVE  ScopeInv' /\ Simulates
  <1> DEFINE p == "idle"
             r == [Mine(t) EXCEPT !.locked = TRUE]
  <1>0. PICK s \in Slots : s = slot[t]
    BY Fields DEF ScopeInv
  <1>1. Types /\ Place(t) /\ Marks(t) /\ Nesting(t) /\ Order(t) /\ s \in Slots /\ s = slot[t]
    BY <1>0 DEF ScopeInv
  <1>2. p \in Places /\ r \in Mark
    BY <1>1, Fields DEF Places, Mark, Types, Mine, NoScope
  <1>3. /\ pc[t] = "enter" /\ pc' \in [Threads -> Places] /\ pc'[t] = p
        /\ \A u \in Threads \ {t} : pc'[u] = pc[u]
        /\ slot' = slot /\ kind' = kind
    <2>1. At(t, "enter", p)
      BY DEF EnterRec
    <2> HIDE DEF p
    <2> QED
      BY <1>1, <1>2, <2>1, Stays
  <1>4. /\ scope' \in [Threads -> [Slots -> Mark]] /\ scope'[t][s] = r
        /\ \A x \in Slots \ {s} : scope'[t][x] = scope[t][x]
        /\ \A u \in Threads \ {t} : scope'[u] = scope[u]
    <2>1. SetScope(t, s, r)
      BY <1>1 DEF EnterRec
    <2> HIDE DEF r
    <2> QED
      BY <1>1, <1>2, <2>1, OneScope
  <1>5. /\ owner' = owner /\ owner = t /\ depth' = depth /\ depth = 0 /\ nest' = nest + 1
        /\ nest >= 0 /\ disorder' = disorder /\ timedOut' = timedOut /\ kind = "CritSectRec"
    <2>1. kind = "CritSectRec" /\ owner = t /\ Recursive
      BY <1>1, <1>3 DEF Place, Recursive
    <2>2. Level = nest /\ depth = 0 /\ Cardinality(Owned(t)) <= Level
      BY <2>1 DEF Level, ScopeInv, Balance
    <2>3. nest >= 0
      BY <1>1, <2>2, OwnedFinite DEF Types
    <2> QED
      BY <2>1, <2>2, <2>3 DEF EnterRec
  <1>6. Works(t, s, p)
    BY <1>1, <1>2, <1>3, <1>4, <1>5 DEF Works, Types
  <1>. HIDE DEF r
  <1>mark. /\ pc[t] = "enter" /\ s = slot[t]
         /\ scope'[t][s].locked /\ scope'[t][s].made /\ scope'[t][s].flag = scope[t][s].flag
         /\ ~scope[t][s].locked
    <2>1. Mine(t) \in Mark /\ Mine(t) = scope[t][s] /\ Mine(t).made /\ ~Mine(t).locked
      BY <1>1, <1>3, Fields DEF Place, Mine
    <2>2. r.made = Mine(t).made /\ r.locked = TRUE /\ r.flag = Mine(t).flag
      BY <2>1 DEF r, Mark
    <2> QED
      BY <1>1, <1>3, <1>4, <2>1, <2>2
  <1>7. Place(t)'
    BY <1>1, <1>3, <1>4, <1>5, <1>mark, Fields, ScopedLockAssumption
    DEF Place, Mine, Releases, Recursive, Updating, AllKinds, Types, NoScope
  <1>8. Marks(t)'
    BY <1>1, <1>3, <1>4, <1>5, <1>mark, Fields, ScopedLockAssumption
    DEF Marks, Place, Mine, Recursive, AllKinds, Types, NoScope
  <1>9. Nesting(t)'
    BY <1>1, <1>3, <1>4, <1>5, <1>mark, Fields, ScopedLockAssumption
    DEF Nesting, Place, Mine, Recursive, AllKinds, Types, NoScope
  <1>10. Order(t)'
    BY <1>1, <1>3, <1>4, <1>5, <1>mark, Fields, ScopedLockAssumption
    DEF Order, Place, Mine, Recursive, AllKinds, Types, NoScope
  <1>11. \A x \in Slots :
            /\ x = s => ~Holds(t, x) /\ Holds(t, x)'
            /\ x # s => (Holds(t, x)' <=> Holds(t, x))
    BY <1>1, <1>3, <1>4, <1>5, <1>mark, Fields
    DEF Holds, Releases, Place, Mine, Recursive, Marks, AllKinds, Types, Updating, NoScope
  <1>12. Owned(t)' = Owned(t) \cup {s} /\ s \notin Owned(t)
    BY <1>1, <1>3, <1>5, <1>11 DEF Owned
  <1>13. Balance'
    BY <1>1, <1>3, <1>5, <1>6, <1>12, BalanceUp DEF Level, Recursive
  <1>14. Simulates
    BY <1>1, <1>5, <1>6, <1>11, Takes
  <1> QED
    BY <1>6, <1>7, <1>8, <1>9, <1>10, <1>13, <1>14, InvKept

LEMMA LeaveRecStep ==
    ASSUME ScopeInv, NEW t \in Threads, LeaveRec(t)
    PROVE  ScopeInv' /\ Simulates
  <1> DEFINE p == IF nest = 1 THEN "free" ELSE "reset"
  <1>0. PICK s \in Slots : s = slot[t]
    BY Fields DEF ScopeInv
  <1>1. Types /\ Place(t) /\ Marks(t) /\ Nesting(t) /\ Order(t) /\ s \in Slots /\ s = slot[t]
    BY <1>0 DEF ScopeInv
  <1>2. p \in Places
    BY <1>1, Fields DEF Places, Mark, Types, Mine, NoScope
  <1>3. /\ pc[t] = "leave" /\ pc' \in [Threads -> Places] /\ pc'[t] = p
        /\ \A u \in Threads \ {t} : pc'[u] = pc[u]
        /\ slot' = slot /\ kind' = kind
    <2>1. At(t, "leave", p)
      BY DEF LeaveRec
    <2> HIDE DEF p
    <2> QED
      BY <1>1, <1>2, <2>1, Stays
  <1>4. scope' = scope /\ scope \in [Threads -> [Slots -> Mark]]
    BY <1>1 DEF LeaveRec, Types
  <1>5. /\ owner' = owner /\ owner = t /\ depth' = depth /\ depth = 0 /\ nest' = nest - 1
        /\ nest > 0 /\ disorder' = disorder /\ timedOut' = timedOut /\ kind = "CritSectRec"
        /\ Holds(t, s)
    <2>1. kind = "CritSectRec" /\ Recursive /\ Holds(t, s)
      BY <1>1, <1>3 DEF Place, Recursive, Holds, Releases, Mine
    <2>2. owner = t /\ depth = 0
      BY <1>1, <2>1 DEF Owned, ScopeInv, Balance
    <2>3. nest > 0
      BY <1>1, <1>3, <2>1, <2>2 DEF Nesting
    <2> QED
      BY <2>1, <2>2, <2>3 DEF LeaveRec
  <1>6. Works(t, s, p)
    BY <1>1, <1>2, <1>3, <1>4, <1>5 DEF Works, Types
  <1>7. Place(t)'
    BY <1>1, <1>2, <1>3, <1>4, <1>5, Fields, ScopedLockAssumption
    DEF Place, Mine, Releases, Recursive, Updating, AllKinds, Types, NoScope
  <1>8. Marks(t)'
    BY <1>1, <1>2, <1>3, <1>4, <1>5, Fields, ScopedLockAssumption
    DEF Marks, Place, Mine, Recursive, AllKinds, Types, NoScope
  <1>9. Nesting(t)'
    BY <1>1, <1>2, <1>3, <1>4, <1>5, Fields, ScopedLockAssumption
    DEF Nesting, Place, Mine, Recursive, AllKinds, Types, NoScope
  <1>10. Order(t)'
    BY <1>1, <1>2, <1>3, <1>4, <1>5, Fields, ScopedLockAssumption
    DEF Order, Place, Mine, Recursive, AllKinds, Types, NoScope
  <1>11. \A x \in Slots :
            /\ x = s => ~Holds(t, x)'
            /\ x # s => (Holds(t, x)' <=> Holds(t, x))
    BY <1>1, <1>2, <1>3, <1>4, <1>5, Fields
    DEF Holds, Releases, Place, Mine, Recursive, Marks, AllKinds, Types, Updating, NoScope
  <1>12. Owned(t)' = Owned(t) \ {s} /\ s \in Owned(t)
    BY <1>1, <1>3, <1>5, <1>11 DEF Owned
  <1>13. Balance'
    BY <1>1, <1>3, <1>5, <1>6, <1>12, BalanceDown DEF Level, Recursive
  <1>14. Simulates
    BY <1>1, <1>5, <1>6, <1>11, Drops
  <1> QED
    BY <1>6, <1>7, <1>8, <1>9, <1>10, <1>13, <1>14, InvKept

LEMMA EnterMutexStep ==
    ASSUME ScopeInv, NEW t \in Threads, EnterMutex(t)
    PROVE  ScopeInv' /\ Simulates
  <1> DEFINE p == "inc"
  <1>0. PICK s \in Slots : s = slot[t]
    BY Fields DEF ScopeInv
  <1>1. Types /\ Place(t) /\ Marks(t) /\ Nesting(t) /\ Order(t) /\ s \in Slots /\ s = slot[t]
    BY <1>0 DEF ScopeInv
  <1>2. p \in Places
    BY <1>1, Fields DEF Places, Mark, Types, Mine, NoScope
  <1>3. /\ pc[t] = "lock" /\ pc' \in [Threads -> Places] /\ pc'[t] = p
        /\ \A u \in Threads \ {t} : pc'[u] = pc[u]
        /\ slot' = slot /\ kind' = kind
    <2>1. At(t, "lock", p)
      BY DEF EnterMutex
    <2> HIDE DEF p
    <2> QED
      BY <1>1, <1>2, <2>1, Stays
  <1>4. scope' = scope /\ scope \in [Threads -> [Slots -> Mark]]
    BY <1>1 DEF EnterMutex, Types
  <1>5. /\ owner \in {NoThread, t} /\ owner' = t /\ depth' = depth + 1 /\ depth >= 0
        /\ nest' = nest /\ disorder' = disorder /\ timedOut' = timedOut /\ ~Recursive
        /\ (owner = NoThread => depth = 0)
    BY <1>1, <1>3, ScopedLockAssumption
    DEF EnterMutex, Types, ScopeInv, Balance, Level, Recursive
  <1>6. Works(t, s, p)
    BY <1>1, <1>2, <1>3, <1>4, <1>5 DEF Works, Types
  <1>7. Place(t)'
    BY <1>1, <1>2, <1>3, <1>4, <1>5, Fields, ScopedLockAssumption
    DEF Place, Mine, Releases, Recursive, Updating, AllKinds, Types, NoScope
  <1>8. Marks(t)'
    BY <1>1, <1>2, <1>3, <1>4, <1>5, Fields, ScopedLockAssumption
    DEF Marks, Place, Mine, Recursive, AllKinds, Types, NoScope
  <1>9. Nesting(t)'
    BY <1>1, <1>2, <1>3, <1>4, <1>5, Fields, ScopedLockAssumption
    DEF Nesting, Place, Mine, Recursive, AllKinds, Types, NoScope
  <1>10. Order(t)'
    BY <1>1, <1>2, <1>3, <1>4, <1>5, Fields, ScopedLockAssumption
    DEF Order, Place, Mine, Recursive, AllKinds, Types, NoScope
  <1>11. \A x \in Slots : Holds(t, x)' <=> Holds(t, x)
    BY <1>1, <1>2, <1>3, <1>4, <1>5, Fields
    DEF Holds, Releases, Place, Mine, Recursive, Marks, AllKinds, Types, Updating, NoScope
  <1>12. Owned(t)' = Owned(t) \cup {s} /\ s \notin Owned(t)
    BY <1>1, <1>3, <1>5, <1>11 DEF Owned, Holds, Releases, Place, Mine, Recursive
  <1>13. Balance'
    <2>1. Level' = Level + 1 /\ ~Recursive /\ depth' > 0
      BY <1>1, <1>3, <1>5 DEF Level, Recursive, Types
    <2> QED
      BY <1>1, <1>5, <1>6, <1>12, <2>1, BalanceUp
  <1>14. Simulates
    BY <1>6, <1>11, NoChange
  <1> QED
    BY <1>6, <1>7, <1>8, <1>9, <1>10, <1>13, <1>14, InvKept

(* The steps that count up, and those that count down.                      *)
LEMMA CountUpStep ==
    ASSUME ScopeInv, NEW t \in Threads, NEW q0 \in {"inc", "incStore"},
           NEW p0 \in {"incStore", "flag"}, Count(t, q0, p0)
    PROVE  ScopeInv' /\ Simulates
  <1> DEFINE p == p0
  <1>0. PICK s \in Slots : s = slot[t]
    BY Fields DEF ScopeInv
  <1>1. Types /\ Place(t) /\ Marks(t) /\ Nesting(t) /\ Order(t) /\ s \in Slots /\ s = slot[t]
    BY <1>0 DEF ScopeInv
  <1>2. p \in Places
    BY <1>1, Fields DEF Places, Mark, Types, Mine, NoScope
  <1>3. /\ pc[t] = q0 /\ pc' \in [Threads -> Places] /\ pc'[t] = p
        /\ \A u \in Threads \ {t} : pc'[u] = pc[u]
        /\ slot' = slot /\ kind' = kind
    <2>1. At(t, q0, p)
      BY DEF Count
    <2> HIDE DEF p
    <2> QED
      BY <1>1, <1>2, <2>1, Stays
  <1>4. scope' = scope /\ scope \in [Threads -> [Slots -> Mark]]
    BY <1>1 DEF Count, Types
  <1>5. /\ owner' = owner /\ depth' = depth /\ nest' = nest /\ disorder' = disorder
        /\ timedOut' = timedOut /\ ~Recursive
    BY <1>1, <1>3, ScopedLockAssumption DEF Count, Types, Place, Updating
  <1>6. Works(t, s, p)
    BY <1>1, <1>2, <1>3, <1>4, <1>5 DEF Works, Types
  <1>7. Place(t)'
    BY <1>1, <1>2, <1>3, <1>4, <1>5, Fields, ScopedLockAssumption
    DEF Place, Mine, Releases, Recursive, Updating, AllKinds, Types, NoScope
  <1>8. Marks(t)'
    BY <1>1, <1>2, <1>3, <1>4, <1>5, Fields, ScopedLockAssumption
    DEF Marks, Place, Mine, Recursive, AllKinds, Types, NoScope
  <1>9. Nesting(t)'
    BY <1>1, <1>2, <1>3, <1>4, <1>5, Fields, ScopedLockAssumption
    DEF Nesting, Place, Mine, Recursive, AllKinds, Types, NoScope
  <1>10. Order(t)'
    BY <1>1, <1>2, <1>3, <1>4, <1>5, Fields, ScopedLockAssumption
    DEF Order, Place, Mine, Recursive, AllKinds, Types, NoScope
  <1>11. \A x \in Slots : Holds(t, x)' <=> Holds(t, x)
    BY <1>1, <1>2, <1>3, <1>4, <1>5, Fields
    DEF Holds, Releases, Place, Mine, Recursive, Marks, AllKinds, Types, Updating, NoScope
  <1>12. Owned(t)' \subseteq Owned(t) /\ (p = "incStore" \/ ~timedOut => Owned(t)' = Owned(t))
    BY <1>1, <1>3, <1>5, <1>11 DEF Owned, Types
  <1>13. Balance'
    BY <1>5, <1>6, <1>12, BalanceKept
  <1>14. Simulates
    BY <1>6, <1>11, NoChange
  <1> QED
    BY <1>6, <1>7, <1>8, <1>9, <1>10, <1>13, <1>14, InvKept

LEMMA CountDownStep ==
    ASSUME ScopeInv, NEW t \in Threads, NEW q0 \in {"dec", "decLoad", "decStore"},
           NEW p0 \in {"decLoad", "decStore", "reset"}, Count(t, q0, p0)
    PROVE  ScopeInv' /\ Simulates
  <1> DEFINE p == p0
  <1>0. PICK s \in Slots : s = slot[t]
    BY Fields DEF ScopeInv
  <1>1. Types /\ Place(t) /\ Marks(t) /\ Nesting(t) /\ Order(t) /\ s \in Slots /\ s = slot[t]
    BY <1>0 DEF ScopeInv
  <1>2. p \in Places
    BY <1>1, Fields DEF Places, Mark, Types, Mine, NoScope
  <1>3. /\ pc[t] = q0 /\ pc' \in [Threads -> Places] /\ pc'[t] = p
        /\ \A u \in Threads \ {t} : pc'[u] = pc[u]
        /\ slot' = slot /\ kind' = kind
    <2>1. At(t, q0, p)
      BY DEF Count
    <2> HIDE DEF p
    <2> QED
      BY <1>1, <1>2, <2>1, Stays
  <1>4. scope' = scope /\ scope \in [Threads -> [Slots -> Mark]]
    BY <1>1 DEF Count, Types
  <1>5. /\ owner' = owner /\ depth' = depth /\ nest' = nest /\ disorder' = disorder
        /\ timedOut' = timedOut /\ ~Recursive
    BY <1>1, <1>3, ScopedLockAssumption DEF Count, Types, Place, Updating
  <1>6. Works(t, s, p)
    BY <1>1, <1>2, <1>3, <1>4, <1>5 DEF Works, Types
  <1>7. Place(t)'
    BY <1>1, <1>2, <1>3, <1>4, <1>5, Fields, ScopedLockAssumption
    DEF Place, Mine, Releases, Recursive, Updating, AllKinds, Types, NoScope
  <1>8. Marks(t)'
    BY <1>1, <1>2, <1>3, <1>4, <1>5, Fields, ScopedLockAssumption
    DEF Marks, Place, Mine, Recursive, AllKinds, Types, NoScope
  <1>9. Nesting(t)'
    BY <1>1, <1>2, <1>3, <1>4, <1>5, Fields, ScopedLockAssumption
    DEF Nesting, Place, Mine, Recursive, AllKinds, Types, NoScope
  <1>10. Order(t)'
    BY <1>1, <1>2, <1>3, <1>4, <1>5, Fields, ScopedLockAssumption
    DEF Order, Place, Mine, Recursive, AllKinds, Types, NoScope
  <1>11. \A x \in Slots : Holds(t, x)' <=> Holds(t, x)
    BY <1>1, <1>2, <1>3, <1>4, <1>5, Fields
    DEF Holds, Releases, Place, Mine, Recursive, Marks, AllKinds, Types, Updating, NoScope
  <1>12. Owned(t)' \subseteq Owned(t) /\ (~timedOut' => Owned(t)' = Owned(t))
    BY <1>1, <1>3, <1>5, <1>11 DEF Owned, Types
  <1>13. Balance'
    BY <1>5, <1>6, <1>12, BalanceKept
  <1>14. Simulates
    BY <1>6, <1>11, NoChange
  <1> QED
    BY <1>6, <1>7, <1>8, <1>9, <1>10, <1>13, <1>14, InvKept

LEMMA FreeStep ==
    ASSUME ScopeInv, NEW t \in Threads, Free(t)
    PROVE  ScopeInv' /\ Simulates
  <1> DEFINE p == IF Recursive THEN "reset" ELSE "dec"
  <1>0. PICK s \in Slots : s = slot[t]
    BY Fields DEF ScopeInv
  <1>1. Types /\ Place(t) /\ Marks(t) /\ Nesting(t) /\ Order(t) /\ s \in Slots /\ s = slot[t]
    BY <1>0 DEF ScopeInv
  <1>2. p \in Places
    BY <1>1, Fields DEF Places, Mark, Types, Mine, NoScope
  <1>3. /\ pc[t] = "free" /\ pc' \in [Threads -> Places] /\ pc'[t] = p
        /\ \A u \in Threads \ {t} : pc'[u] = pc[u]
        /\ slot' = slot /\ kind' = kind
    <2>1. At(t, "free", p)
      BY DEF Free
    <2> HIDE DEF p
    <2> QED
      BY <1>1, <1>2, <2>1, Stays
  <1>4. scope' = scope /\ scope \in [Threads -> [Slots -> Mark]]
    BY <1>1 DEF Free, Types
  <1>5. /\ owner = t /\ owner' = (IF depth > 1 THEN owner ELSE NoThread) /\ nest' = nest
        /\ disorder' = disorder /\ timedOut' = timedOut
        /\ depth' = (IF Recursive THEN depth ELSE depth - 1) /\ depth \in Int
        /\ (Recursive => depth = 0) /\ (~Recursive => depth > 0)
        /\ (kind = "CritSectRec" => nest = 0)
    BY <1>1, <1>3, ScopedLockAssumption DEF Free, Types, ScopeInv, Balance, Place
  <1>6. Works(t, s, p)
    BY <1>1, <1>2, <1>3, <1>4, <1>5 DEF Works, Types
  <1>7. Place(t)'
    BY <1>1, <1>2, <1>3, <1>4, <1>5, Fields, ScopedLockAssumption
    DEF Place, Mine, Releases, Recursive, Updating, AllKinds, Types, NoScope
  <1>8. Marks(t)'
    BY <1>1, <1>2, <1>3, <1>4, <1>5, Fields, ScopedLockAssumption
    DEF Marks, Place, Mine, Recursive, AllKinds, Types, NoScope
  <1>9. Nesting(t)'
    BY <1>1, <1>2, <1>3, <1>4, <1>5, Fields, ScopedLockAssumption
    DEF Nesting, Place, Mine, Recursive, AllKinds, Types, NoScope
  <1>10. Order(t)'
    BY <1>1, <1>2, <1>3, <1>4, <1>5, Fields, ScopedLockAssumption
    DEF Order, Place, Mine, Recursive, AllKinds, Types, NoScope
  <1>11. \A x \in Slots :
            /\ x = s => ~Holds(t, x)' /\ (Holds(t, x) <=> kind # "CritSectRec")
            /\ x # s => (Holds(t, x)' <=> Holds(t, x))
    BY <1>1, <1>2, <1>3, <1>4, <1>5, Fields
    DEF Holds, Releases, Place, Mine, Recursive, Marks, AllKinds, Types, Updating, NoScope
  <1>12. kind # "CritSectRec" => Owned(t)' = Owned(t) \ {s} /\ s \in Owned(t)
    BY <1>1, <1>3, <1>5, <1>11 DEF Owned, Recursive
  <1>13. Balance'
    <2>1. CASE kind = "CritSectRec"
      <3>1. Level = 0 /\ Level' = 0 /\ kind' = kind
        BY <1>3, <1>5, <2>1 DEF Level
      <3>2. Cardinality(Owned(t)) = 0
        BY <1>5, <3>1, OwnedFinite DEF ScopeInv, Balance
      <3>3. Owned(t) = {}
        BY <3>2, OwnedFinite, FS_EmptySet
      <3>4. Owned(t)' = {}
        BY <1>3, <1>5, <1>11, <2>1, <3>3 DEF Owned, Recursive
      <3>5. \A u \in Threads : Owned(u)' = {}
        BY <1>5, <1>6, <3>4, OthersOwn DEF ScopeInv, Balance
      <3> QED
        BY <1>5, <2>1, <3>1, <3>5, FS_EmptySet DEF Balance, Recursive
    <2>2. CASE kind = "CritSectEx"
      <3>1. Level = 1 /\ Level' = 0 /\ owner' = NoThread
        BY <1>3, <1>5, <2>2, ScopedLockAssumption DEF Level, Recursive
      <3> QED
        BY <1>1, <1>5, <1>6, <1>12, <2>2, <3>1, BalanceDown DEF Recursive
    <2>3. CASE ~Recursive
      <3>1. Level' = Level - 1
        BY <1>3, <1>5, <2>3 DEF Level, Recursive
      <3>2. owner' = NoThread => Level' = 0
        BY <1>3, <1>5, <2>3, ScopedLockAssumption DEF Level, Recursive
      <3>3. kind # "CritSectRec"
        BY <2>3 DEF Recursive
      <3> QED
        BY <1>1, <1>5, <1>6, <1>12, <2>3, <3>1, <3>2, <3>3, BalanceDown
    <2> QED
      BY <2>1, <2>2, <2>3 DEF Recursive
  <1>14. Simulates
    <2>1. CASE kind = "CritSectRec"
      <3>1. \A x \in Slots : Holds(t, x)' <=> Holds(t, x)
        BY <1>11, <2>1
      <3> QED
        BY <1>6, <3>1, NoChange
    <2>2. CASE kind # "CritSectRec"
      <3>1. Holds(t, s) /\ ~Holds(t, s)' /\ \A x \in Slots \ {s} : Holds(t, x)' <=> Holds(t, x)
        BY <1>1, <1>11, <2>2
      <3> QED
        BY <1>1, <1>6, <3>1, Drops
    <2> QED
      BY <2>1, <2>2
  <1> QED
    BY <1>6, <1>7, <1>8, <1>9, <1>10, <1>13, <1>14, InvKept

LEMMA IncStep ==
    ASSUME ScopeInv, NEW t \in Threads, Inc(t)
    PROVE  ScopeInv' /\ Simulates
  <1>1. PICK q \in {"inc", "incStore"}, p \in {"incStore", "flag"} : Count(t, q, p)
    BY DEF Inc
  <1> QED
    BY <1>1, CountUpStep

LEMMA DecStep ==
    ASSUME ScopeInv, NEW t \in Threads, Dec(t)
    PROVE  ScopeInv' /\ Simulates
  <1>1. PICK q \in {"dec", "decLoad", "decStore"}, p \in {"decLoad", "decStore", "reset"} : Count(t, q, p)
    BY DEF Dec
  <1> QED
    BY <1>1, CountDownStep

(* A Lock begins on a scope that is not locked.                            *)
LEMMA BeginStep ==
    ASSUME ScopeInv, NEW t \in Threads, NEW s \in Slots, NEW d \in Timeouts,
           BeginLock(t, s, d), pc[t] = "idle",
           scope' \in [Threads -> [Slots -> Mark]], ~scope'[t][s].locked,
           ~scope[t][s].locked, scope'[t][s].flag => scope[t][s].flag,
           kind # "CritSectRec" => ~scope'[t][s].flag /\ ~scope[t][s].flag,
           ~scope'[t][s].made => ~scope'[t][s].flag,
           \A x \in Slots \ {s} : scope'[t][x] = scope[t][x],
           \A u \in Threads \ {t} : scope'[u] = scope[u]
    PROVE  ScopeInv' /\ Simulates
  <1>1. Types /\ Place(t) /\ Marks(t) /\ Nesting(t) /\ Order(t)
    BY DEF ScopeInv
  <1>2. /\ pc' \in [Threads -> Places] /\ pc'[t] = "lock" /\ slot' \in [Threads -> Slots]
        /\ slot'[t] = s
        /\ \A u \in Threads \ {t} : pc'[u] = pc[u] /\ slot'[u] = slot[u]
    BY <1>1 DEF BeginLock, Goto, Types, Places
  <1>3. /\ owner' = owner /\ depth' = depth /\ nest' = nest /\ timedOut' = timedOut
        /\ disorder' = disorder /\ kind' = kind
    BY DEF BeginLock, lockVars
  <1>4. Works(t, s, "lock")
    BY <1>1, <1>2, <1>3 DEF Works, Types, Places
  <1>5. Place(t)' /\ Nesting(t)'
    BY <1>1, <1>2, <1>3 DEF Place, Nesting, Mine, Updating
  <1>6. Marks(t)'
    BY <1>1, <1>2, <1>3 DEF Marks, Recursive
  <1>7. Order(t)'
    BY <1>1, <1>2, <1>3 DEF Order
  <1>8. \A x \in Slots : Holds(t, x)' <=> Holds(t, x)
    BY <1>1, <1>2, <1>3 DEF Holds, Releases
  <1>9. Owned(t)' = Owned(t)
    BY <1>2, <1>3, <1>8 DEF Owned
  <1> QED
    BY <1>3, <1>4, <1>5, <1>6, <1>7, <1>8, <1>9, BalanceKept, NoChange, InvKept

LEMMA LockScopeStep ==
    ASSUME ScopeInv, NEW t \in Threads, NEW s \in Slots, NEW d \in Timeouts, LockScope(t, s, d)
    PROVE  ScopeInv' /\ Simulates
  <1>1. BeginLock(t, s, d) /\ pc[t] = "idle" /\ scope' = scope
        /\ scope[t][s].made /\ ~scope[t][s].locked
    BY DEF LockScope
  <1>2. scope \in [Threads -> [Slots -> Mark]] /\ Marks(t)
    BY DEF ScopeInv, Types
  <1>3. kind # "CritSectRec" => ~scope[t][s].flag
    BY <1>1, <1>2 DEF Marks
  <1> QED
    BY <1>1, <1>2, <1>3, BeginStep

LEMMA MakeScopeStep ==
    ASSUME ScopeInv, NEW t \in Threads, NEW s \in Slots, NEW d \in Timeouts, MakeScope(t, s, d)
    PROVE  ScopeInv' /\ Simulates
  <1>1. Types /\ Place(t) /\ Marks(t) /\ Nesting(t) /\ Order(t)
    BY DEF ScopeInv
  <1> DEFINE r == [NoScope EXCEPT !.made = TRUE]
  <1>2. r \in Mark /\ r.made = TRUE /\ r.locked = FALSE /\ r.flag = FALSE
    BY DEF NoScope, Mark
  <1>3. SetScope(t, s, r)
    BY DEF MakeScope
  <1> HIDE DEF r
  <1>4. pc[t] = "idle"
    BY DEF MakeScope
  <1>5. /\ scope' \in [Threads -> [Slots -> Mark]] /\ scope'[t][s] = r
        /\ \A x \in Slots \ {s} : scope'[t][x] = scope[t][x]
        /\ \A u \in Threads \ {t} : scope'[u] = scope[u]
    BY <1>1, <1>2, <1>3, OneScope
  <1>6. ~scope[t][s].locked /\ ~scope[t][s].flag
    BY <1>1 DEF MakeScope, Marks
  <1>7. scope'[t][s].made /\ ~scope'[t][s].locked /\ ~scope'[t][s].flag
    BY <1>2, <1>5
  <1>8. CASE BeginLock(t, s, d)
    BY <1>4, <1>5, <1>6, <1>7, <1>8, BeginStep
  <1>9. CASE UNCHANGED <<lockVars, placeVars, crossed, disorder>>
    <2>1. /\ owner' = owner /\ depth' = depth /\ nest' = nest /\ timedOut' = timedOut
          /\ disorder' = disorder /\ kind' = kind /\ pc' = pc /\ slot' = slot
      BY <1>9 DEF lockVars, placeVars
    <2>2. Works(t, s, "idle")
      BY <1>1, <1>4, <1>5, <2>1 DEF Works, Types, Places
    <2>3. Place(t)' /\ Nesting(t)'
      BY <1>1, <1>4, <2>1 DEF Place, Nesting, Updating
    <2>4. Marks(t)'
      BY <1>1, <1>5, <1>7, <2>1 DEF Marks, Recursive
    <2>5. Order(t)'
      BY <1>1, <1>4, <1>5, <1>7, <2>1 DEF Order
    <2>6. \A x \in Slots : Holds(t, x)' <=> Holds(t, x)
      BY <1>4, <1>5, <1>6, <1>7, <2>1 DEF Holds, Releases
    <2>7. Owned(t)' = Owned(t)
      BY <2>1, <2>6 DEF Owned
    <2> QED
      BY <2>1, <2>2, <2>3, <2>4, <2>5, <2>6, <2>7, BalanceKept, NoChange, InvKept
  <1> QED
    BY <1>8, <1>9 DEF MakeScope

(* Who owns two scopes has the lock twice.                                 *)
LEMMA TwoOwned ==
    ASSUME ScopeInv, NEW t \in Threads, NEW s \in Owned(t), NEW x \in Owned(t) \ {s}
    PROVE  Level >= 2
  <1>1. /\ IsFiniteSet(Owned(t)) /\ Cardinality(Owned(t)) \in Nat
        /\ Cardinality(Owned(t) \ {s}) = Cardinality(Owned(t)) - 1
        /\ IsFiniteSet(Owned(t) \ {s}) /\ Cardinality(Owned(t) \ {s}) \in Nat
    BY OwnedFinite, FS_RemoveElement, FS_CardinalityType
  <1>2. Cardinality(Owned(t) \ {s}) # 0
    BY <1>1, FS_EmptySet
  <1>3. Cardinality(Owned(t)) <= Level /\ Level \in Int
    BY DEF ScopeInv, Balance, Level, Types
  <1> QED
    BY <1>1, <1>2, <1>3

LEMMA UnlockScopeStep ==
    ASSUME ScopeInv, NEW t \in Threads, NEW s \in Slots, NEW d \in BOOLEAN, UnlockScope(t, s, d)
    PROVE  ScopeInv' /\ Simulates
  <1> DEFINE p == IF ~Releases(t, s) THEN "reset"
                  ELSE IF kind = "CritSectRec" THEN "leave" ELSE "free"
  <1>1. Types /\ Place(t) /\ Marks(t) /\ Nesting(t) /\ Order(t) /\ pc[t] = "idle"
    BY DEF ScopeInv, UnlockScope
  <1>2. /\ pc' \in [Threads -> Places] /\ pc'[t] = p /\ slot' \in [Threads -> Slots]
        /\ slot'[t] = s /\ p \in Places
        /\ \A u \in Threads \ {t} : pc'[u] = pc[u] /\ slot'[u] = slot[u]
    BY <1>1 DEF UnlockScope, Goto, Types, Places
  <1>3. /\ owner' = owner /\ depth' = depth /\ nest' = nest /\ timedOut' = timedOut
        /\ kind' = kind /\ scope' = scope
    BY DEF UnlockScope, lockVars
  <1>4. disorder' \in BOOLEAN /\ (disorder => disorder')
    BY <1>1 DEF UnlockScope, Types
  <1>5. Works(t, s, p)
    BY <1>1, <1>2, <1>3, <1>4 DEF Works, Types
  <1>6. Releases(t, s) => Holds(t, s) /\ s \in Owned(t) /\ owner = t
    BY <1>1 DEF Holds, Owned, ScopeInv, Balance
  <1>7. Place(t)'
    <2>1. pc'[t] = "leave" => kind' = "CritSectRec" /\ Mine(t)'.locked
      BY <1>2, <1>3 DEF Mine, Releases
    <2>2. pc'[t] = "free" => Releases(t, slot[t])' /\ owner' = t /\ kind' # "CritSectRec"
      BY <1>2, <1>3, <1>6 DEF Releases
    <2> QED
      BY <1>2, <2>1, <2>2 DEF Place, Updating
  <1>8. Marks(t)' /\ Nesting(t)'
    BY <1>1, <1>2, <1>3 DEF Marks, Nesting, Recursive
  <1>9. Order(t)'
    <2> SUFFICES ASSUME kind = "CritSectEx", ~disorder'
                 PROVE  /\ \A x \in Slots : scope[t][x].locked /\ x # s => owner = t
                        /\ p = "free" => \A x \in Slots \ {s} : ~scope[t][x].locked
      BY <1>2, <1>3 DEF Order
    <2>1. \A x \in Slots : scope[t][x].locked => owner = t
      BY <1>1, <1>4 DEF Order
    <2>2. ASSUME p = "free", NEW x \in Slots \ {s}, scope[t][x].locked
          PROVE  FALSE
      <3>1. Releases(t, s)
        BY <2>2
      <3>2. scope[t][x].flag
        BY <2>2, <3>1 DEF UnlockScope
      <3>3. x \in Owned(t)
        BY <1>1, <3>2 DEF Owned, Holds, Releases
      <3>4. Level >= 2
        BY <1>6, <3>1, <3>3, TwoOwned
      <3> QED
        BY <3>4 DEF Level
    <2> QED
      BY <2>1, <2>2
  <1>10. \A x \in Slots : Holds(t, x)' <=> Holds(t, x)
    BY <1>1, <1>2, <1>3 DEF Holds, Releases
  <1>11. Owned(t)' = Owned(t)
    BY <1>1, <1>2, <1>3, <1>10 DEF Owned
  <1> QED
    BY <1>3, <1>5, <1>7, <1>8, <1>9, <1>10, <1>11, BalanceKept, NoChange, InvKept

-----------------------------------------------------------------------------
(* The theorems.                                                           *)

LEMMA ScopeInit == Init => ScopeInv /\ Lock!Init
  <1> SUFFICES ASSUME Init PROVE ScopeInv /\ Lock!Init
    OBVIOUS
  <1>1. \A u \in Threads : /\ pc[u] = "idle" /\ slot[u] \in Slots
                           /\ \A x \in Slots : scope[u][x] = NoScope
    BY DEF Init
  <1>2. \A u \in Threads, x \in Slots :
            ~scope[u][x].made /\ ~scope[u][x].locked /\ ~scope[u][x].flag
    BY <1>1 DEF NoScope
  <1>3. \A u \in Threads, x \in Slots : ~Holds(u, x)
    BY <1>2 DEF Holds, Releases
  <1>4. \A u \in Threads : Owned(u) = {}
    BY <1>1, <1>3 DEF Owned
  <1>5. Types
    <2>1. NoScope \in Mark
      BY DEF NoScope, Mark
    <2> QED
      <3>1. scope \in [Threads -> [Slots -> Mark]]
        BY <2>1 DEF Init
      <3>2. pc \in [Threads -> Places] /\ slot \in [Threads -> Slots]
        BY DEF Init, Places
      <3>3. kind \in AllKinds /\ owner = NoThread /\ depth = 0 /\ nest = 0
            /\ timedOut = FALSE /\ disorder = FALSE
        BY ScopedLockAssumption DEF Init
      <3>4. timedOut \in BOOLEAN /\ disorder \in BOOLEAN /\ ~timedOut
        BY <3>3
      <3>5. kind \in AllKinds /\ owner \in Threads \cup {NoThread} /\ depth \in Int /\ nest \in Int
        BY <3>3
      <3> QED
        BY <3>1, <3>2, <3>4, <3>5 DEF Types
  <1>6. Balance
    <2>1. owner = NoThread /\ Level = 0 /\ depth = 0
      BY DEF Init, Level
    <2> QED
      BY <1>4, <2>1, ScopedLockAssumption DEF Balance
  <1>7. ASSUME NEW u \in Threads
        PROVE  Place(u) /\ Marks(u) /\ Nesting(u) /\ Order(u)
    <2>1. owner # u
      BY ScopedLockAssumption DEF Init
    <2> QED
      <3>1. Place(u)
        BY <1>1 DEF Place, Updating
      <3>2. Marks(u)
        BY <1>2 DEF Marks
      <3>3. Nesting(u)
        BY <1>1, <2>1 DEF Nesting
      <3>4. Order(u)
        BY <1>1, <1>2 DEF Order
      <3> QED
        BY <3>1, <3>2, <3>3, <3>4
  <1> QED
    BY <1>3, <1>5, <1>6, <1>7 DEF ScopeInv, Lock!Init

LEMMA ScopeStep == ScopeInv /\ [Next]_vars => ScopeInv' /\ [Lock!Next]_Held
  <1> SUFFICES ASSUME ScopeInv, [Next]_vars PROVE ScopeInv' /\ Simulates
    BY DEF Simulates
  <1>1. CASE UNCHANGED vars
    <2>1. /\ kind' = kind /\ owner' = owner /\ depth' = depth /\ nest' = nest
          /\ timedOut' = timedOut /\ disorder' = disorder /\ scope' = scope
          /\ pc' = pc /\ slot' = slot
      BY <1>1 DEF vars, lockVars, placeVars
    <2>2. \A u \in Threads, x \in Slots : Holds(u, x)' <=> Holds(u, x)
      BY <2>1 DEF Holds, Releases
    <2>3. \A u \in Threads : Owned(u)' = Owned(u)
      BY <2>1, <2>2 DEF Owned
    <2>4. Types'
      BY <2>1 DEF ScopeInv, Types
    <2>5. Balance'
      BY <2>1, <2>3 DEF ScopeInv, Balance, Level, Recursive
    <2>6. ASSUME NEW u \in Threads
          PROVE  Place(u)' /\ Marks(u)' /\ Nesting(u)' /\ Order(u)'
      <3>1. Place(u) /\ Marks(u) /\ Nesting(u) /\ Order(u)
        BY DEF ScopeInv
      <3> QED
        BY <2>1, <3>1 DEF Place, Marks, Nesting, Order, Mine, Releases, Recursive
    <2> QED
      BY <2>2, <2>4, <2>5, <2>6 DEF ScopeInv, Simulates, Held
  <1>2. ASSUME NEW t \in Threads, Inside(t)
        PROVE  ScopeInv' /\ Simulates
    BY <1>2, LockAgainStep, LockFreeStep, LockFailsStep, EnterRecStep, LeaveRecStep,
       EnterMutexStep, MutexTimesOutStep, IncStep, DecStep, SetFlagStep, FreeStep,
       ResetScopeStep DEF Inside
  <1>3. ASSUME NEW t \in Threads, Call(t)
        PROVE  ScopeInv' /\ Simulates
    BY <1>3, MakeScopeStep, LockScopeStep, UnlockScopeStep DEF Call
  <1> QED
    BY <1>1, <1>2, <1>3 DEF Next

(* The lock is held once for each scope that will release it, and every   *)
(* thread is where its scope says.                                         *)
THEOREM ScopesBalanced == Spec => []ScopeInv
  BY ScopeInit, ScopeStep, PTL DEF Spec

(* The scopes of every lock class implement a reentrant lock: the scopes   *)
(* that hold the lock belong to one thread, and each gives it up once.     *)
THEOREM ScopesImplementLock == Spec => ScopesAreALock
  <1>1. Spec => Lock!Init /\ [][Lock!Next]_Held
    BY ScopeInit, ScopeStep, ScopesBalanced, PTL DEF Spec
  <1> QED
    BY <1>1, PTL DEF ScopesAreALock, Lock!Spec, Held

(* Whoever marks a scope locked owns the lock, however many scopes a       *)
(* thread has.                                                             *)
THEOREM LockedScopesOwn == Spec => []LockedIsTrue
  <1>1. ScopeInv => LockedIsTrue
    <2> SUFFICES ASSUME ScopeInv, NEW t \in Threads, NEW s \in Slots,
                        scope[t][s].locked, ~ (slot[t] = s /\ pc[t] # "idle"),
                        ~ (kind = "CritSectEx" /\ disorder),
                        ~ (kind = "TimedMutexEx" /\ timedOut)
                 PROVE  owner = t
      BY DEF LockedIsTrue
    <2>1. Types /\ Marks(t) /\ Order(t)
      BY DEF ScopeInv
    <2>2. CASE kind = "CritSectEx"
      BY <2>1, <2>2 DEF Order
    <2>3. CASE kind # "CritSectEx"
      <3>1. Releases(t, s)
        BY <2>1, <2>3 DEF Marks, Releases, Recursive, Types
      <3>2. s \in Owned(t)
        BY <3>1 DEF Owned, Holds
      <3> QED
        BY <3>2 DEF ScopeInv, Balance
    <2> QED
      BY <2>2, <2>3
  <1> QED
    BY <1>1, ScopesBalanced, PTL

(* A lock whose owner is in no operation has a scope that will release it. *)
THEOREM LockNeverLeaked == Spec => []NothingLeaked
  <1>1. ScopeInv => NothingLeaked
    <2> SUFFICES ASSUME ScopeInv, NEW t \in Threads, owner = t, pc[t] = "idle",
                        ~ (kind = "TimedMutexEx" /\ timedOut)
                 PROVE  \E s \in Slots : Holds(t, s)
      BY DEF NothingLeaked
    <2>1. ~timedOut /\ Nesting(t) /\ t # NoThread
      BY ScopedLockAssumption DEF ScopeInv, Types
    <2>2. Level > 0
      BY <2>1 DEF ScopeInv, Balance, Nesting, Level, Recursive
    <2>3. Cardinality(Owned(t)) # 0
      BY <2>1, <2>2 DEF ScopeInv, Balance
    <2>4. Owned(t) # {}
      BY <2>3, FS_EmptySet
    <2> QED
      BY <2>4 DEF Owned
  <1> QED
    BY <1>1, ScopesBalanced, PTL

(* CritSectRec's assertions hold: the recursion count and the flag of m_cs *)
(* agree whenever one is tested against the other.                         *)
THEOREM RecursionAgrees == Spec => []RecursionAsserted
  <1>1. ScopeInv => RecursionAsserted
    <2> SUFFICES ASSUME ScopeInv, NEW t \in Threads
                 PROVE  /\ pc[t] = "enter" => (Mine(t).flag <=> nest = 0)
                        /\ pc[t] = "leave" => nest > 0
      BY DEF RecursionAsserted
    <2>1. Place(t) /\ Nesting(t) /\ slot[t] \in Slots
      BY DEF ScopeInv, Types
    <2>2. pc[t] = "enter" => (Mine(t).flag <=> nest = 0)
      BY <2>1 DEF Place, Nesting
    <2>3. ASSUME pc[t] = "leave" PROVE nest > 0
      <3>1. slot[t] \in Owned(t) /\ kind = "CritSectRec"
        BY <2>1, <2>3 DEF Place, Mine, Owned, Holds, Releases
      <3>2. owner = t
        BY <3>1 DEF ScopeInv, Balance
      <3> QED
        BY <2>1, <2>3, <3>1, <3>2 DEF Nesting
    <2> QED
      BY <2>2, <2>3
  <1> QED
    BY <1>1, ScopesBalanced, PTL
-----------------------------------------------------------------------------
(* The count of a MutexEx                                                  *)

Incs == {"inc", "incStore"}
Decs == {"dec", "decLoad", "decStore"}

(* While updates by two threads have not crossed at most one counts down,  *)
(* and an owner that has come in the meantime is about to count up.        *)
Apart ==
    /\ \A t, u \in Threads : pc[t] \in Decs /\ pc[u] \in Decs => t = u
    /\ \A t \in Threads :
           pc[t] \in Decs => owner \in {NoThread, t} \/ pc[owner] = "inc"
    /\ \A t \in Threads : pc[t] \in {"incStore", "decStore"} => tmp[t] = isLocked

(* The count lags behind the depth by the updates under way.               *)
Up   == IF \E t \in Threads : pc[t] \in Incs THEN 1 ELSE 0
Down == IF \E t \in Threads : pc[t] \in Decs THEN 1 ELSE 0
Lag  == isLocked + Up = depth + Down

CountTypes ==
    /\ isLocked \in 0 .. CountWidth - 1 /\ depth \in 0 .. MaxDepth
    /\ tmp \in [Threads -> 0 .. CountWidth - 1]
    /\ tmo \in [Threads -> Timeouts] /\ dying \in [Threads -> BOOLEAN]
    /\ crossed \in BOOLEAN /\ (kind # "CritSectRec" => nest = 0) /\ kind \in Kinds

CountInv == CountTypes /\ (Counting /\ ~crossed => Apart /\ Lag)

(* Who counts up is the owner.                                             *)
LEMMA IncsOwn ==
    ASSUME ScopeInv, NEW t \in Threads, pc[t] \in Incs
    PROVE  owner = t
  <1>1. slot[t] \in Owned(t)
    BY DEF ScopeInv, Types, Owned, Incs
  <1> QED
    BY <1>1 DEF ScopeInv, Balance

(* A step that ends at p without counting.                                 *)
Walks(t, p) ==
    /\ pc[t] \notin Updating /\ p \notin Updating /\ p \in Places
    /\ Goto(t, p) /\ UNCHANGED <<kind, depth, isLocked, tmp, crossed>>
    /\ Counting => owner' = owner

LEMMA WalkKeeps ==
    ASSUME ScopeInv, CountInv, NEW t \in Threads, NEW p, Walks(t, p)
    PROVE  Counting /\ ~crossed => (Apart /\ Lag)'
  <1>1. /\ pc' \in [Threads -> Places] /\ pc'[t] = p
        /\ \A u \in Threads \ {t} : pc'[u] = pc[u]
    BY OnePlace DEF ScopeInv, Walks
  <1>2. \A u \in Threads : /\ pc'[u] \in Updating <=> pc[u] \in Updating
                           /\ pc[u] \in Updating => pc'[u] = pc[u]
    BY <1>1 DEF Walks
  <1> SUFFICES ASSUME Counting, ~crossed
               PROVE  (Apart /\ Lag)'
    OBVIOUS
  <1>3. owner' = owner /\ owner \in Threads \cup {NoThread}
    BY DEF Walks, ScopeInv, Types
  <1>4. Apart'
    BY <1>2, <1>3, ScopedLockAssumption DEF CountInv, Apart, Walks, Updating, Decs
  <1>5. Up' = Up /\ Down' = Down
    BY <1>2 DEF Up, Down, Updating, Incs, Decs
  <1> QED
    BY <1>4, <1>5 DEF CountInv, Lag, Walks

LEMMA CountStep ==
    ASSUME ScopeInv, CountInv, NEW t \in Threads, Inside(t) \/ Call(t)
    PROVE  Counting' /\ ~crossed' => (Apart /\ Lag)'
  <1>1. ASSUME NEW p, Walks(t, p)
        PROVE  Counting' /\ ~crossed' => (Apart /\ Lag)'
    BY <1>1, WalkKeeps DEF Walks, Counting
  <1>2. CASE LockAgain(t) \/ LockFree(t) \/ LockFails(t)
    BY <1>2, <1>1 DEF LockAgain, LockFree, LockFails, At, GotLock, Walks, Updating, Places,
       Recursive, Counting
  <1>3. CASE EnterRec(t) \/ LeaveRec(t) \/ MutexTimesOut(t) \/ SetFlag(t) \/ ResetScope(t)
    BY <1>3, <1>1 DEF EnterRec, LeaveRec, MutexTimesOut, SetFlag, ResetScope, At, Walks,
       Updating, Places
  <1>4. CASE \E s \in Slots, d \in Timeouts : LockScope(t, s, d)
    BY <1>4, <1>1 DEF LockScope, BeginLock, Walks, Updating, Places, lockVars
  <1>5. CASE \E s \in Slots, d \in BOOLEAN : UnlockScope(t, s, d)
    BY <1>5, <1>1 DEF UnlockScope, Walks, Updating, Places, lockVars
  <1>6. CASE \E s \in Slots, d \in Timeouts : MakeScope(t, s, d)
    <2>1. CASE Goto(t, "lock")
      BY <1>6, <2>1, <1>1 DEF MakeScope, BeginLock, Walks, Updating, Places, lockVars,
         placeVars
    <2>2. CASE UNCHANGED <<lockVars, placeVars, crossed>>
      BY <2>2 DEF CountInv, Counting, Apart, Lag, Up, Down, lockVars, placeVars
    <2> QED
      BY <1>6, <2>1, <2>2 DEF MakeScope, BeginLock
  <1> SUFFICES ASSUME EnterMutex(t) \/ Inc(t) \/ Dec(t) \/ Free(t), Counting', ~crossed'
               PROVE  (Apart /\ Lag)'
    BY <1>2, <1>3, <1>4, <1>5, <1>6 DEF Inside, Call
  <1>7. Types /\ Balance /\ Place(t) /\ owner \in Threads \cup {NoThread}
    BY DEF ScopeInv, Types
  <1>8. /\ isLocked \in 0 .. CountWidth - 1 /\ depth \in 0 .. MaxDepth
        /\ tmp \in [Threads -> 0 .. CountWidth - 1]
        /\ CountWidth \in Nat /\ MaxDepth \in 1 .. CountWidth - 1
    BY ScopedLockAssumption DEF CountInv, CountTypes
  <1>9. Counting /\ ~crossed /\ Apart /\ Lag
    <2>1. kind' = kind /\ ~crossed
      <3>1. CASE EnterMutex(t) \/ Free(t)
        <4>1. kind' = kind /\ crossed' = crossed
          BY <3>1 DEF EnterMutex, Free, At
        <4> QED
          BY <4>1
      <3>2. ASSUME NEW q, NEW p, Count(t, q, p)
            PROVE  kind' = kind /\ ~crossed
        BY <3>2 DEF Count, At
      <3> QED
        BY <3>1, <3>2 DEF Inc, Dec
    <2> QED
      BY <2>1 DEF CountInv, Counting
  <1>10. ASSUME NEW q, NEW p \in Places, At(t, q, p)
         PROVE  /\ pc[t] = q /\ pc' \in [Threads -> Places] /\ pc'[t] = p
                /\ \A u \in Threads \ {t} : pc'[u] = pc[u]
    BY <1>7, <1>10, Stays
  <1>11. {"inc", "incStore", "flag", "dec", "decLoad", "decStore", "reset", "free"} \subseteq Places
    BY DEF Places
  <1>12. \A u \in Threads : pc[u] \in Incs => owner = u
    BY IncsOwn
  <1>13. CASE EnterMutex(t)
    <2>1. /\ pc[t] = "lock" /\ pc'[t] = "inc" /\ \A u \in Threads \ {t} : pc'[u] = pc[u]
      BY <1>10, <1>11, <1>13 DEF EnterMutex
    <2>2. /\ owner \in {NoThread, t} /\ owner' = t /\ depth' = depth + 1
          /\ UNCHANGED <<isLocked, tmp, crossed>>
      BY <1>13 DEF EnterMutex
    <2>3. \A u \in Threads : pc[u] \notin Incs
      BY <1>12, <2>1, <2>2, ScopedLockAssumption DEF Incs
    <2>4. Apart'
      BY <1>9, <2>1, <2>2, <2>3 DEF Apart, Incs, Decs
    <2>5. Up = 0 /\ Up' = 1
      BY <2>1, <2>3 DEF Up, Incs
    <2>6. Down' = Down /\ Down \in {0, 1}
      BY <2>1 DEF Down, Decs
    <2> QED
      BY <1>8, <1>9, <2>2, <2>4, <2>5, <2>6 DEF Lag
  <1>14. CASE Inc(t) \/ Dec(t)
    <2>1. PICK q \in Updating, p \in Places : Count(t, q, p)
      BY <1>11, <1>14 DEF Inc, Dec, Updating
    <2>2. pc[t] = q /\ pc'[t] = p /\ \A u \in Threads \ {t} : pc'[u] = pc[u]
      BY <1>10, <2>1 DEF Count
    <2>3. \A u \in Threads \ {t} : pc[u] \notin Updating /\ pc'[u] \notin Updating
      BY <2>1, <2>2 DEF Count
    <2>4. owner' = owner /\ depth' = depth
      BY <2>1 DEF Count
    <2>5. Up = (IF q \in Incs THEN 1 ELSE 0) /\ Up' = (IF p \in Incs THEN 1 ELSE 0)
      BY <2>2, <2>3 DEF Up, Incs, Updating
    <2>6. Down = (IF q \in Decs THEN 1 ELSE 0) /\ Down' = (IF p \in Decs THEN 1 ELSE 0)
      BY <2>2, <2>3 DEF Down, Decs, Updating
    <2>7. q \in Decs => isLocked = depth + 1
      BY <1>8, <1>9, <2>5, <2>6 DEF Lag, Incs, Decs
    <2>8. q \in Incs => isLocked + 1 = depth
      BY <1>8, <1>9, <2>5, <2>6 DEF Lag, Incs, Decs
    <2>9. p \in Decs => owner \in {NoThread, t} \/ pc'[owner] = "inc"
      <3>1. p \in Decs => q \in Decs
        BY <1>14, <2>2, <1>10, <1>11 DEF Inc, Dec, Count, Decs
      <3>2. q \in Decs => owner \in {NoThread, t}
        BY <1>7, <1>9, <2>2, <2>3 DEF Apart, Updating
      <3> QED
        BY <3>1, <3>2
    <2>10. /\ p \in {"incStore", "decStore"} => tmp'[t] = isLocked'
           /\ isLocked' + (IF p \in Incs THEN 1 ELSE 0) = depth + (IF p \in Decs THEN 1 ELSE 0)
      <3>1. CASE Inc(t)
        <4>1. CASE /\ Count(t, "inc", "incStore")
                   /\ tmp' = [tmp EXCEPT ![t] = isLocked] /\ UNCHANGED isLocked
          <5>1. q = "inc" /\ p = "incStore"
            BY <4>1, <2>2, <1>10, <1>11 DEF Count
          <5> QED
            BY <1>8, <2>8, <4>1, <5>1 DEF Incs, Decs
        <4>2. CASE /\ Count(t, "incStore", "flag")
                   /\ isLocked' = (tmp[t] + 1) % CountWidth
          <5>1. q = "incStore" /\ p = "flag"
            BY <4>2, <2>2, <1>10, <1>11 DEF Count
          <5>2. tmp[t] = isLocked /\ isLocked + 1 = depth
            BY <1>9, <2>2, <2>8, <5>1 DEF Apart, Incs
          <5>3. isLocked' = isLocked + 1
            BY <1>8, <4>2, <5>2
          <5> QED
            BY <1>8, <5>1, <5>2, <5>3 DEF Incs, Decs
        <4> QED
          BY <3>1, <4>1, <4>2, <1>9 DEF Inc
      <3>2. CASE Dec(t)
        <4>1. CASE /\ Count(t, "dec", IF isLocked > 0 THEN "decLoad" ELSE "reset")
                   /\ UNCHANGED <<isLocked, tmp>>
          <5>1. q = "dec" /\ p = IF isLocked > 0 THEN "decLoad" ELSE "reset"
            BY <4>1, <2>2, <1>10, <1>11 DEF Count
          <5>2. isLocked = depth + 1
            BY <2>7, <5>1 DEF Decs
          <5>3. p = "decLoad"
            BY <1>8, <5>1, <5>2
          <5> QED
            BY <1>8, <4>1, <5>2, <5>3 DEF Incs, Decs
        <4>2. CASE /\ Count(t, "decLoad", "decStore")
                   /\ tmp' = [tmp EXCEPT ![t] = isLocked] /\ UNCHANGED isLocked
          <5>1. q = "decLoad" /\ p = "decStore"
            BY <4>2, <2>2, <1>10, <1>11 DEF Count
          <5> QED
            BY <1>8, <2>7, <4>2, <5>1 DEF Incs, Decs
        <4>3. CASE /\ Count(t, "decStore", "reset")
                   /\ isLocked' = (tmp[t] + CountWidth - 1) % CountWidth
          <5>1. q = "decStore" /\ p = "reset"
            BY <4>3, <2>2, <1>10, <1>11 DEF Count
          <5>2. tmp[t] = isLocked /\ isLocked = depth + 1
            BY <1>9, <2>2, <2>7, <5>1 DEF Apart, Decs
          <5>3. isLocked' = isLocked - 1
            BY <1>8, <4>3, <5>2
          <5> QED
            BY <1>8, <5>1, <5>2, <5>3 DEF Incs, Decs
        <4> QED
          BY <3>2, <4>1, <4>2, <4>3, <1>9 DEF Dec
      <3> QED
        BY <1>14, <3>1, <3>2
    <2>11. Apart'
      BY <2>2, <2>3, <2>4, <2>9, <2>10 DEF Apart, Updating, Incs, Decs
    <2>12. Lag'
      BY <2>4, <2>5, <2>6, <2>10 DEF Lag
    <2> QED
      BY <2>11, <2>12
  <1>15. CASE Free(t)
    <2>1. ~Recursive
      BY <1>9 DEF Counting, Recursive
    <2>2. /\ pc[t] = "free" /\ pc'[t] = "dec" /\ \A u \in Threads \ {t} : pc'[u] = pc[u]
      BY <1>10, <1>11, <1>15, <2>1 DEF Free
    <2>3. /\ owner = t /\ owner' \in {NoThread, t} /\ depth' = depth - 1
          /\ UNCHANGED <<isLocked, tmp, crossed>>
      BY <1>7, <1>15, <2>1, <2>2 DEF Free, Place
    <2>4. \A u \in Threads : pc[u] \notin Decs
      BY <1>9, <2>2, <2>3, ScopedLockAssumption DEF Apart, Decs
    <2>5. Apart'
      BY <1>9, <2>2, <2>3, <2>4 DEF Apart, Decs
    <2>6. Down = 0 /\ Down' = 1
      BY <2>2, <2>4 DEF Down, Decs
    <2>7. Up' = Up /\ Up \in {0, 1}
      BY <2>2 DEF Up, Incs
    <2> QED
      BY <1>8, <1>9, <2>3, <2>5, <2>6, <2>7 DEF Lag
  <1> QED
    BY <1>13, <1>14, <1>15

LEMMA CountTypesStep ==
    ASSUME ScopeInv, CountInv, NEW t \in Threads, Inside(t) \/ Call(t)
    PROVE  CountTypes'
  <1>1. /\ Types /\ Balance /\ Place(t) /\ CountTypes
        /\ CountWidth \in Nat /\ MaxDepth \in 1 .. CountWidth - 1
    BY ScopedLockAssumption DEF ScopeInv, CountInv
  <1>2. "infinite" \in Timeouts /\ Timeouts # {}
    BY DEF Timeouts
  <1>3. ASSUME NEW q, NEW p, At(t, q, p)
        PROVE  kind' = kind /\ tmo' \in [Threads -> Timeouts] /\ dying' \in [Threads -> BOOLEAN]
    BY <1>1, <1>2, <1>3 DEF At, Back, CountTypes
  <1>4. CASE LockAgain(t) \/ LockFree(t) \/ LockFails(t)
    BY <1>1, <1>3, <1>4 DEF LockAgain, LockFree, LockFails, CountTypes
  <1>5. CASE MutexTimesOut(t) \/ SetFlag(t) \/ ResetScope(t)
    BY <1>1, <1>3, <1>5 DEF MutexTimesOut, SetFlag, ResetScope, CountTypes
  <1>6. CASE EnterRec(t) \/ LeaveRec(t)
    BY <1>1, <1>3, <1>6 DEF EnterRec, LeaveRec, CountTypes, Place, At
  <1>7. CASE EnterMutex(t)
    <2>1. depth' \in 0 .. MaxDepth
      BY <1>1, <1>7 DEF EnterMutex, CountTypes, Balance, Level, Recursive
    <2> QED
      BY <1>1, <1>3, <1>7, <2>1 DEF EnterMutex, CountTypes
  <1>8. CASE Free(t)
    <2>1. depth' \in 0 .. MaxDepth
      BY <1>1, <1>8, ScopedLockAssumption DEF Free, At, CountTypes, Balance, Place
    <2> QED
      BY <1>1, <1>3, <1>8, <2>1 DEF Free, CountTypes
  <1>9. CASE Inc(t) \/ Dec(t)
    <2>1. ASSUME NEW q, NEW p, Count(t, q, p)
          PROVE  /\ kind' = kind /\ depth' = depth /\ nest' = nest /\ crossed' \in BOOLEAN
                 /\ tmo' \in [Threads -> Timeouts] /\ dying' \in [Threads -> BOOLEAN]
      BY <1>1, <1>3, <2>1 DEF Count, CountTypes
    <2>2. /\ (tmp[t] + 1) % CountWidth \in 0 .. CountWidth - 1
          /\ (tmp[t] + CountWidth - 1) % CountWidth \in 0 .. CountWidth - 1
          /\ 0 \in 0 .. CountWidth - 1 /\ 1 \in 0 .. CountWidth - 1
      BY <1>1 DEF CountTypes
    <2> QED
      BY <1>1, <1>9, <2>1, <2>2 DEF Inc, Dec, CountTypes
  <1>10. CASE Call(t)
    <2>1. ASSUME NEW s \in Slots, NEW d \in Timeouts, MakeScope(t, s, d) PROVE CountTypes'
      BY <1>1, <2>1 DEF MakeScope, BeginLock, CountTypes, lockVars, placeVars
    <2>2. ASSUME NEW s \in Slots, NEW d \in Timeouts, LockScope(t, s, d) PROVE CountTypes'
      BY <1>1, <2>2 DEF LockScope, BeginLock, CountTypes, lockVars, placeVars
    <2>3. ASSUME NEW s \in Slots, NEW d \in BOOLEAN, UnlockScope(t, s, d) PROVE CountTypes'
      BY <1>1, <2>3 DEF UnlockScope, CountTypes, lockVars, placeVars
    <2> QED
      BY <1>10, <2>1, <2>2, <2>3 DEF Call
  <1> QED
    BY <1>4, <1>5, <1>6, <1>7, <1>8, <1>9, <1>10 DEF Inside

LEMMA CountInit == Init => CountInv
  <1> SUFFICES ASSUME Init PROVE CountInv
    OBVIOUS
  <1>1. CountTypes
    <2>1. 0 \in 0 .. CountWidth - 1 /\ 0 \in 0 .. MaxDepth
      BY ScopedLockAssumption
    <2>2. "infinite" \in Timeouts
      BY DEF Timeouts
    <2> QED
      BY <2>1, <2>2 DEF Init, CountTypes
  <1>2. Apart /\ Up = 0 /\ Down = 0
    BY DEF Init, Apart, Up, Down, Incs, Decs
  <1> QED
    BY <1>1, <1>2 DEF Init, CountInv, Lag

LEMMA CountInvariant == Spec => []CountInv
  <1>1. ScopeInv /\ CountInv /\ [Next]_vars => CountInv'
    <2>1. ASSUME ScopeInv, CountInv, UNCHANGED vars
          PROVE  CountInv'
      BY <2>1 DEF vars, lockVars, placeVars, CountInv, CountTypes, Counting, Apart, Lag,
         Up, Down
    <2> QED
      BY <2>1, CountStep, CountTypesStep DEF Next, CountInv
  <1> QED
    BY <1>1, CountInit, ScopesBalanced, PTL DEF Spec

(* Every variable keeps its type: the recursion count of CritSectRec never *)
(* passes the number of scopes, nor goes below 0.                          *)
THEOREM ScopedTypes == Spec => []TypeOK
  <1>1. ScopeInv /\ CountInv => TypeOK
    <2> SUFFICES ASSUME ScopeInv, CountInv
                 PROVE  TypeOK
      OBVIOUS
    <2>1. Types /\ Balance /\ CountTypes
      BY DEF ScopeInv, CountInv
    <2>2. IsFiniteSet(Slots) /\ Cardinality(Slots) \in Nat
      BY ScopedLockAssumption, FS_CardinalityType
    <2>3. nest \in 0 .. Cardinality(Slots)
      <3>1. CASE kind # "CritSectRec"
        BY <2>1, <2>2, <3>1 DEF CountTypes
      <3>2. CASE kind = "CritSectRec" /\ owner = NoThread
        BY <2>1, <2>2, <3>2 DEF Balance, Level
      <3>3. CASE kind = "CritSectRec" /\ owner \in Threads
        <4>1. Owned(owner) \subseteq Slots
          BY DEF Owned
        <4>2. Cardinality(Owned(owner)) \in 0 .. Cardinality(Slots)
          BY <2>2, <4>1, FS_Subset, FS_CardinalityType
        <4>3. Cardinality(Owned(owner)) = nest
          BY <2>1, <3>3 DEF Balance, Level, Types
        <4> QED
          BY <4>2, <4>3
      <3> QED
        BY <2>1, <3>1, <3>2, <3>3 DEF Types
    <2> QED
      BY <2>1, <2>3 DEF Types, CountTypes, TypeOK, Mark, Places, Updating
  <1> QED
    BY <1>1, ScopesBalanced, CountInvariant, PTL

(* IsLocked() of a MutexEx is its depth whenever no update is under way,   *)
(* as long as no two threads' updates have crossed: the count never wraps. *)
THEOREM CountIsExact == Spec => []CountIsDepth
  <1>1. CountInv => CountIsDepth
    <2> SUFFICES ASSUME CountInv, Counting, ~crossed, \A t \in Threads : pc[t] \notin Updating
                 PROVE  isLocked = depth
      BY DEF CountIsDepth
    <2>1. Up = 0 /\ Down = 0
      BY DEF Up, Down, Incs, Decs, Updating
    <2> QED
      BY <2>1 DEF CountInv, CountTypes, Lag
  <1> QED
    BY <1>1, CountInvariant, PTL
=============================================================================
