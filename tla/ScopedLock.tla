---------------------------- MODULE ScopedLock ----------------------------
(***************************************************************************)
(* The lock classes of CritSectEx/CritSectEx.h around the lock itself:     *)
(* CritSectEx::Scope, CritSectRec, CritSect, MutexEx and their scopes.     *)
(* CritSectEx is taken here for what its Lock and Unlock promise           *)
(* (CritSectEx.tla is the model of how it keeps it), a pthread mutex, a    *)
(* Windows mutex and a CRITICAL_SECTION for what their systems promise.    *)
(***************************************************************************)
EXTENDS Naturals, FiniteSets

CONSTANTS
    Threads,
    NoThread,   (* the owner of a free lock                                 *)
    Slots,      (* the scopes a thread may have at a time                   *)
    Kinds,      (* the lock classes                                         *)
    CountWidth, (* 2^32 in the code: the values of MutexEx's m.bIsLocked    *)
    MaxDepth    (* bound: how often a mutex is entered by its owner         *)

AllKinds == {"CritSectEx", "CritSectRec", "CritSect", "MutexEx", "TimedMutexEx"}

ASSUME ScopedLockAssumption ==
    /\ NoThread \notin Threads /\ IsFiniteSet(Slots) /\ Kinds \subseteq AllKinds
    /\ CountWidth \in Nat /\ MaxDepth \in 1 .. CountWidth - 1

VARIABLES
    kind,      (* the class of the lock; a TimedMutexEx is the MutexEx of a   *)
               (* system whose mutexes have a timed wait                      *)
    owner,     (* who has the lock                                            *)
    depth,     (* how often its owner has it: OS mutexes                      *)
    nest,      (* m_nRecursion                                                *)
    isLocked,  (* m.bIsLocked of MutexEx, m_bIsLocked of CritSect             *)
    timedOut,  (* m.bTimedOut of MutexEx                                      *)
    scope,     (* made, m_bLocked and m_bUnlockFlag of each scope             *)
    pc, slot,  (* where a thread is, and with which scope                     *)
    tmo, dying,(* its dwTimeout; whether the scope is being destroyed         *)
    tmp,       (* the count it has loaded                                     *)
    crossed,   (* auxiliary: two threads' updates of isLocked have crossed    *)
    disorder   (* auxiliary: a thread has given up the lock of an inner scope *)

lockVars  == <<kind, owner, depth, nest, isLocked, timedOut>>
placeVars == <<pc, slot, tmo, dying, tmp>>
vars == <<lockVars, scope, placeVars, crossed, disorder>>

Timeouts == {"zero", "finite", "infinite"}
Recursive == kind \in {"CritSectEx", "CritSectRec"}
Counting  == kind \in {"MutexEx", "TimedMutexEx"}
Updating  == {"inc", "incStore", "dec", "decLoad", "decStore"}

TypeOK ==
    /\ kind \in Kinds /\ owner \in Threads \cup {NoThread}
    /\ depth \in 0 .. MaxDepth /\ nest \in 0 .. Cardinality(Slots)
    /\ isLocked \in 0 .. CountWidth - 1 /\ timedOut \in BOOLEAN
    /\ scope \in [Threads -> [Slots -> [made : BOOLEAN, locked : BOOLEAN, flag : BOOLEAN]]]
    /\ pc \in [Threads -> {"idle", "lock", "enter", "flag", "leave", "free", "reset"} \cup Updating]
    /\ slot \in [Threads -> Slots] /\ tmo \in [Threads -> Timeouts]
    /\ dying \in [Threads -> BOOLEAN] /\ tmp \in [Threads -> 0 .. CountWidth - 1]
    /\ crossed \in BOOLEAN /\ disorder \in BOOLEAN

NoScope == [made |-> FALSE, locked |-> FALSE, flag |-> FALSE]

Init ==
    /\ kind \in Kinds /\ owner = NoThread /\ depth = 0 /\ nest = 0
    /\ isLocked = 0 /\ timedOut = FALSE
    /\ scope = [t \in Threads |-> [s \in Slots |-> NoScope]]
    /\ pc = [t \in Threads |-> "idle"] /\ slot \in [Threads -> Slots]
    /\ \A t, u \in Threads : slot[t] = slot[u]
    /\ tmo = [t \in Threads |-> "infinite"] /\ dying = [t \in Threads |-> FALSE]
    /\ tmp = [t \in Threads |-> 0] /\ crossed = FALSE /\ disorder = FALSE

Goto(t, to) == pc' = [pc EXCEPT ![t] = to]
Back(t, to, was, v) == IF to = "idle" THEN [was EXCEPT ![t] = v] ELSE was
Mine(t)     == scope[t][slot[t]]
SetScope(t, s, r) == scope' = [scope EXCEPT ![t][s] = r]
At(t, from, to) ==
    /\ pc[t] = from /\ Goto(t, to) /\ UNCHANGED <<kind, slot>>
    /\ tmo' = Back(t, to, tmo, "infinite") /\ dying' = Back(t, to, dying, FALSE)

-----------------------------------------------------------------------------
(* Scopes                                                                  *)

BeginLock(t, s, d) ==
    /\ Goto(t, "lock") /\ slot' = [slot EXCEPT ![t] = s] /\ tmo' = [tmo EXCEPT ![t] = d]
    /\ UNCHANGED <<lockVars, dying, tmp, crossed, disorder>>

(* Scope(cs, dwTimeout): a time-out of 0 leaves the lock alone.            *)
MakeScope(t, s, d) ==
    /\ pc[t] = "idle" /\ ~scope[t][s].made
    /\ SetScope(t, s, [NoScope EXCEPT !.made = TRUE])
    /\ \/ d = "zero" /\ UNCHANGED <<lockVars, placeVars, crossed, disorder>>
       \/ d # "zero" /\ BeginLock(t, s, d)

(* Scope::Lock does nothing with a scope that is locked.                   *)
LockScope(t, s, d) ==
    /\ pc[t] = "idle" /\ scope[t][s].made /\ ~scope[t][s].locked
    /\ BeginLock(t, s, d) /\ UNCHANGED scope

(* Scope::Unlock, and the destructor. Only a scope with the unlock flag    *)
(* (in CritSectRec: a locked scope) releases the lock.                     *)
Releases(t, s) == IF kind = "CritSectRec" THEN scope[t][s].locked ELSE scope[t][s].flag

UnlockScope(t, s, d) ==
    /\ pc[t] = "idle" /\ scope[t][s].made
    /\ slot' = [slot EXCEPT ![t] = s] /\ dying' = [dying EXCEPT ![t] = d]
    /\ Goto(t, IF ~Releases(t, s) THEN "reset"
               ELSE IF kind = "CritSectRec" THEN "leave" ELSE "free")
    /\ disorder' = \/ disorder
                   \/ /\ Releases(t, s)
                      /\ \E r \in Slots \ {s} : scope[t][r].locked /\ ~scope[t][r].flag
    /\ UNCHANGED <<lockVars, scope, tmo, tmp, crossed>>

ResetScope(t) ==
    /\ At(t, "reset", "idle")
    /\ SetScope(t, slot[t], [NoScope EXCEPT !.made = ~dying[t]])
    /\ UNCHANGED <<owner, depth, nest, isLocked, timedOut, tmp, crossed, disorder>>

-----------------------------------------------------------------------------
(* CritSectEx::Lock: the owner gets no unlock flag, a caller that fails    *)
(* keeps the one it has.                                                   *)

GotLock == IF kind = "CritSectRec" THEN "enter" ELSE "idle"

(* Mutant of LockAgain: the owner gets an unlock flag, too.                *)
LockAgainFlagged(t) ==
    /\ Recursive /\ owner = t /\ At(t, "lock", GotLock)
    /\ SetScope(t, slot[t], [made |-> TRUE, locked |-> kind = "CritSectEx", flag |-> TRUE])
    /\ UNCHANGED <<owner, depth, nest, isLocked, timedOut, tmp, crossed, disorder>>

LockAgain(t) ==
    /\ Recursive /\ owner = t /\ At(t, "lock", GotLock)
    /\ SetScope(t, slot[t], [made |-> TRUE, locked |-> kind = "CritSectEx", flag |-> FALSE])
    /\ UNCHANGED <<owner, depth, nest, isLocked, timedOut, tmp, crossed, disorder>>

LockFree(t) ==
    /\ Recursive /\ owner = NoThread /\ owner' = t /\ At(t, "lock", GotLock)
    /\ SetScope(t, slot[t], [made |-> TRUE, locked |-> kind = "CritSectEx", flag |-> TRUE])
    /\ UNCHANGED <<depth, nest, isLocked, timedOut, tmp, crossed, disorder>>

(* Mutant of LockFails: a scope is marked whatever Lock returns.           *)
LockFailsMarked(t) ==
    /\ Recursive /\ owner # t /\ At(t, "lock", "idle")
    /\ tmo[t] = "finite" \/ (tmo[t] = "zero" /\ owner # NoThread)
    /\ SetScope(t, slot[t], [Mine(t) EXCEPT !.locked = TRUE])
    /\ UNCHANGED <<owner, depth, nest, isLocked, timedOut, tmp, crossed, disorder>>

LockFails(t) ==
    /\ Recursive /\ owner # t /\ At(t, "lock", "idle")
    /\ tmo[t] = "finite" \/ (tmo[t] = "zero" /\ owner # NoThread)
    /\ UNCHANGED <<owner, depth, nest, isLocked, timedOut, scope, tmp, crossed, disorder>>

(* Mutant of EnterRec: a recursive Enter is not counted.                   *)
EnterRecOnce(t) ==
    /\ At(t, "enter", "idle")
    /\ nest' = IF Mine(t).flag THEN nest + 1 ELSE nest
    /\ SetScope(t, slot[t], [Mine(t) EXCEPT !.locked = TRUE])
    /\ UNCHANGED <<owner, depth, isLocked, timedOut, tmp, crossed, disorder>>

(* CritSectRec::Enter counts what it has locked, Leave counts down and     *)
(* unlocks at 0.                                                           *)
EnterRec(t) ==
    /\ At(t, "enter", "idle")
    /\ nest' = nest + 1
    /\ SetScope(t, slot[t], [Mine(t) EXCEPT !.locked = TRUE])
    /\ UNCHANGED <<owner, depth, isLocked, timedOut, tmp, crossed, disorder>>

LeaveRec(t) ==
    /\ At(t, "leave", IF nest = 1 THEN "free" ELSE "reset")
    /\ nest' = nest - 1
    /\ UNCHANGED <<owner, depth, isLocked, timedOut, scope, tmp, crossed, disorder>>

-----------------------------------------------------------------------------
(* MutexEx and CritSect: the mutex of the system, then the count           *)

(* EnterCriticalSection and Windows' mutexes count their owner's calls;    *)
(* a second pthread_mutex_lock by the owner of a mutex waits for ever.     *)
EnterMutex(t) ==
    /\ ~Recursive /\ At(t, "lock", "inc")
    /\ owner = NoThread \/ (owner = t /\ kind # "MutexEx" /\ depth < MaxDepth)
    /\ owner' = t /\ depth' = depth + 1
    /\ UNCHANGED <<nest, isLocked, timedOut, scope, tmp, crossed, disorder>>

MutexTimesOut(t) ==
    /\ kind = "TimedMutexEx" /\ owner \notin {NoThread, t} /\ tmo[t] # "infinite"
    /\ At(t, "lock", "flag")
    /\ timedOut' = TRUE
    /\ UNCHANGED <<owner, depth, nest, isLocked, scope, tmp, crossed, disorder>>

(* m.bIsLocked += 1 and -= 1 are a load and a store; the decrement comes   *)
(* when the mutex has been released.  CritSect only sets a flag.           *)
Count(t, from, to) ==
    /\ At(t, from, to)
    /\ crossed' = (crossed \/ \E u \in Threads \ {t} : pc[u] \in Updating)
    /\ UNCHANGED <<owner, depth, nest, timedOut, scope, disorder>>

Inc(t) ==
    \/ Counting /\ Count(t, "inc", "incStore") /\ tmp' = [tmp EXCEPT ![t] = isLocked] /\ UNCHANGED isLocked
    \/ /\ Counting /\ Count(t, "incStore", "flag")
       /\ isLocked' = (tmp[t] + 1) % CountWidth /\ tmp' = [tmp EXCEPT ![t] = 0]
    \/ ~Counting /\ Count(t, "inc", "flag") /\ isLocked' = 1 /\ UNCHANGED tmp

(* Mutant of Dec: the decrement happens at the first lock only.            *)
DecToOne(t) ==
    \/ Counting /\ Count(t, "dec", IF isLocked = 1 THEN "decLoad" ELSE "reset") /\ UNCHANGED <<isLocked, tmp>>
    \/ Counting /\ Count(t, "decLoad", "decStore") /\ tmp' = [tmp EXCEPT ![t] = isLocked] /\ UNCHANGED isLocked
    \/ /\ Counting /\ Count(t, "decStore", "reset")
       /\ isLocked' = (tmp[t] + CountWidth - 1) % CountWidth /\ tmp' = [tmp EXCEPT ![t] = 0]
    \/ ~Counting /\ Count(t, "dec", "reset") /\ isLocked' = 0 /\ UNCHANGED tmp

Dec(t) ==
    \/ /\ Counting /\ Count(t, "dec", IF isLocked > 0 THEN "decLoad" ELSE "reset")
       /\ UNCHANGED <<isLocked, tmp>>
    \/ Counting /\ Count(t, "decLoad", "decStore") /\ tmp' = [tmp EXCEPT ![t] = isLocked] /\ UNCHANGED isLocked
    \/ /\ Counting /\ Count(t, "decStore", "reset")
       /\ isLocked' = (tmp[t] + CountWidth - 1) % CountWidth /\ tmp' = [tmp EXCEPT ![t] = 0]
    \/ ~Counting /\ Count(t, "dec", "reset") /\ isLocked' = 0 /\ UNCHANGED tmp

(* Mutant of SetFlag: the flag is m.bTimedOut itself.                      *)
SetFlagSwapped(t) ==
    /\ At(t, "flag", "idle")
    /\ SetScope(t, slot[t], [made |-> TRUE, locked |-> TRUE, flag |-> kind = "CritSect" \/ timedOut])
    /\ UNCHANGED <<owner, depth, nest, isLocked, timedOut, tmp, crossed, disorder>>

(* MutexEx::Lock always returns true; its flag is the negation of          *)
(* m.bTimedOut, which stays set once a wait has timed out.                 *)
SetFlag(t) ==
    /\ At(t, "flag", "idle")
    /\ SetScope(t, slot[t], [made |-> TRUE, locked |-> TRUE, flag |-> kind = "CritSect" \/ ~timedOut])
    /\ UNCHANGED <<owner, depth, nest, isLocked, timedOut, tmp, crossed, disorder>>

(* The lock is released: by its owner, as each caller with the flag is.    *)
Free(t) ==
    /\ At(t, "free", IF Recursive THEN "reset" ELSE "dec")
    /\ depth' = IF Recursive THEN depth ELSE depth - 1
    /\ owner' = IF depth > 1 THEN owner ELSE NoThread
    /\ UNCHANGED <<nest, isLocked, timedOut, scope, tmp, crossed, disorder>>

-----------------------------------------------------------------------------
Inside(t) ==
    \/ LockAgain(t) \/ LockFree(t) \/ LockFails(t) \/ EnterRec(t) \/ LeaveRec(t)
    \/ EnterMutex(t) \/ MutexTimesOut(t) \/ Inc(t) \/ Dec(t) \/ SetFlag(t) \/ Free(t)
    \/ ResetScope(t)

Call(t) ==
    \E s \in Slots :
        \/ \E d \in Timeouts : MakeScope(t, s, d) \/ LockScope(t, s, d)
        \/ \E d \in BOOLEAN : UnlockScope(t, s, d)

Next == \E t \in Threads : Inside(t) \/ Call(t)

Spec == Init /\ [][Next]_vars

-----------------------------------------------------------------------------
(* Properties                                                              *)

(* A scope holds the lock from when it is marked to when the lock is given *)
(* up, which is before the scope is marked again.                          *)
Holds(t, s) ==
    /\ Releases(t, s)
    /\ ~ (slot[t] = s /\ pc[t] \in {"enter", "reset", "dec", "decLoad", "decStore"})
    /\ ~ (slot[t] = s /\ pc[t] = "free" /\ kind = "CritSectRec")

Lock == INSTANCE ReentrantLock WITH
            held <- {h \in Threads \X Slots : Holds(h[1], h[2])}

(* The scopes of every class are a reentrant lock: those that will release *)
(* it hold it, and all belong to one thread.                               *)
ScopesAreALock == Lock!Spec

(* A scope that says it is locked belongs to the owner; not claimed of the *)
(* inner scopes of a CritSectEx whose outer scope has been unlocked first, *)
(* nor of a MutexEx on which a wait has ever timed out.                    *)
LockedIsTrue ==
    \A t \in Threads, s \in Slots :
        /\ scope[t][s].locked /\ ~ (slot[t] = s /\ pc[t] # "idle")
        /\ ~ (kind = "CritSectEx" /\ disorder) /\ ~ (kind = "TimedMutexEx" /\ timedOut)
        => owner = t

(* The lock is not left taken: an owner that is in no operation has a      *)
(* scope that will release it, but for a MutexEx after a time-out.         *)
NothingLeaked ==
    \A t \in Threads :
        owner = t /\ pc[t] = "idle" =>
            (\E s \in Slots : Holds(t, s)) \/ (kind = "TimedMutexEx" /\ timedOut)

(* The assertions of CritSectRec: whoever has locked m_cs for the first    *)
(* time finds no recursion, who locks it again finds some, and so does     *)
(* who leaves.                                                             *)
RecursionAsserted ==
    \A t \in Threads :
        /\ pc[t] = "enter" => (Mine(t).flag <=> nest = 0)
        /\ pc[t] = "leave" => nest > 0

(* IsLocked() of a MutexEx tells how often it is locked, if its updates by *)
(* different threads have not crossed.                                     *)
CountIsDepth ==
    Counting /\ ~crossed /\ (\A t \in Threads : pc[t] \notin Updating) => isLocked = depth
=============================================================================
