---------------------------- MODULE SharedValue ----------------------------
(***************************************************************************)
(* The SharedValue template of Thread/Thread.hpp, and the part of          *)
(* SharedArray that moves its memory.  Every object is a lock of its own   *)
(* and a pointer to a cell of shared memory.  The object that has made the *)
(* cell is the master of its copies: it has a list of them, frees the cell *)
(* when it is destroyed and makes its copies stale.                        *)
(*                                                                         *)
(* What callers owe: the list of copies has no lock, so that constructing, *)
(* copying and destroying are single steps here; an object is not          *)
(* destroyed while it is in use, nor a master while a copy of it is.       *)
(***************************************************************************)
EXTENDS Naturals, FiniteSets

CONSTANTS
    Objects, Cells, Threads,
    Null,
    Width       (* bound: the number of different values                    *)

ASSUME SharedValueAssumption ==
    /\ Null \notin Objects \cup Cells \cup Threads
    /\ Width \in Nat \ {0}

VARIABLES
    live,              (* the objects that exist                            *)
    value,             (* the cell of an object                             *)
    freeMemory,        (* whether its destructor releases the cell          *)
    master, copies,    (* whose copy it is, and its own copies              *)
    lock,              (* the owner of the object as a CritSectEx           *)
    allocated, content,(* the cells in use, and what is in them             *)
    pc, op, obj, src,  (* what each thread does with which objects          *)
    tmp,               (* the value it has loaded                           *)
    stray              (* auxiliary: the cells some thread has changed      *)
                       (* through a copy, or after its wait timed out       *)

objVars == <<live, value, freeMemory, master, copies>>
memVars == <<allocated, content, stray>>
opVars  == <<pc, op, obj, src, tmp>>
vars == <<objVars, lock, memVars, opVars>>

Ops == {"get", "set", "add", "assign", "compare", "realloc"}
Values == 0 .. Width - 1

TypeOK ==
    /\ live \subseteq Objects
    /\ value \in [Objects -> Cells \cup {Null}] /\ freeMemory \in [Objects -> BOOLEAN]
    /\ master \in [Objects -> Objects \cup {Null}] /\ copies \in [Objects -> SUBSET Objects]
    /\ lock \in [Objects -> Threads \cup {Null}]
    /\ allocated \subseteq Cells /\ content \in [Cells -> Values] /\ stray \subseteq allocated
    /\ pc \in [Threads -> {"idle", "lock", "use", "other", "load", "leave", "store", "unlock"}]
    /\ op \in [Threads -> Ops]
    /\ obj \in [Threads -> Objects \cup {Null}] /\ src \in [Threads -> Objects \cup {Null}]
    /\ tmp \in [Threads -> Values]

Init ==
    /\ live = {} /\ value = [o \in Objects |-> Null] /\ freeMemory = [o \in Objects |-> FALSE]
    /\ master = [o \in Objects |-> Null] /\ copies = [o \in Objects |-> {}]
    /\ lock = [o \in Objects |-> Null]
    /\ allocated = {} /\ content = [c \in Cells |-> 0] /\ stray = {}
    /\ pc = [t \in Threads |-> "idle"] /\ op = [t \in Threads |-> "get"]
    /\ obj = [t \in Threads |-> Null] /\ src = [t \in Threads |-> Null]
    /\ tmp = [t \in Threads |-> 0]

Busy == {t \in Threads : pc[t] # "idle"}
InUse(o) == \E t \in Busy : o \in {obj[t], src[t]}

-----------------------------------------------------------------------------
(* Construction and destruction                                            *)

MakeEmpty(o) ==
    /\ o \notin live /\ live' = live \cup {o}
    /\ value' = [value EXCEPT ![o] = Null] /\ freeMemory' = [freeMemory EXCEPT ![o] = FALSE]
    /\ master' = [master EXCEPT ![o] = Null] /\ copies' = [copies EXCEPT ![o] = {}]
    /\ UNCHANGED <<lock, memVars, opVars>>

(* A new cell, from MSEreallocShared: any that is not in use.              *)
Make(o, c) ==
    /\ o \notin live /\ c \notin allocated
    /\ live' = live \cup {o} /\ value' = [value EXCEPT ![o] = c]
    /\ freeMemory' = [freeMemory EXCEPT ![o] = TRUE]
    /\ master' = [master EXCEPT ![o] = Null] /\ copies' = [copies EXCEPT ![o] = {}]
    /\ allocated' = allocated \cup {c} /\ content' = [content EXCEPT ![c] = 0]
    /\ UNCHANGED <<lock, stray, opVars>>

MasterOf(p) == IF master[p] # Null THEN master[p] ELSE p

(* Mutant of BecomeCopy: a copy of a copy is listed with the copy.         *)
BecomeCopyOfCopy(o, p) ==
    /\ p \in live /\ value[p] # Null
    /\ value' = [value EXCEPT ![o] = value[p]]
    /\ master' = [master EXCEPT ![o] = p]
    /\ copies' = [copies EXCEPT ![p] = @ \cup {o}]
    /\ ~ \E t \in Busy : op[t] = "realloc" /\ obj[t] = p
    /\ UNCHANGED <<lock, memVars, opVars>>

(* o is a copy of p from now on.  A copy of an object without a value      *)
(* would stay in a list nobody takes it from; callers do not make one.     *)
BecomeCopy(o, p) ==
    /\ p \in live /\ value[p] # Null
    /\ value' = [value EXCEPT ![o] = value[p]]
    /\ master' = [master EXCEPT ![o] = MasterOf(p)]
    /\ copies' = [copies EXCEPT ![MasterOf(p)] = @ \cup {o}]
    /\ ~ \E t \in Busy : op[t] = "realloc" /\ obj[t] = p
    /\ UNCHANGED <<lock, memVars, opVars>>

Copy(o, p) ==
    /\ o \notin live /\ live' = live \cup {o}
    /\ freeMemory' = [freeMemory EXCEPT ![o] = FALSE]
    /\ BecomeCopy(o, p)

(* operator=(SharedValue&) of an object without a value.                   *)
AssignToEmpty(o, p) ==
    /\ o \in live /\ value[o] = Null /\ UNCHANGED <<live, freeMemory>>
    /\ BecomeCopy(o, p)

(* The destructor frees the cell, leaves its master's list, and makes the  *)
(* objects of its own list stale if they have the cell.                    *)
StaleBy(o) == {c \in copies[o] : value[c] = value[o]}

Destroy(o) ==
    /\ o \in live /\ ~InUse(o) /\ \A c \in copies[o] : ~InUse(c)
    /\ live' = live \ {o}
    /\ allocated' = IF freeMemory[o] THEN allocated \ {value[o]} ELSE allocated
    /\ stray' = stray \cap allocated'
    /\ value' = [x \in Objects |-> IF x \in StaleBy(o) \cup {o} THEN Null ELSE value[x]]
    /\ master' = [x \in Objects |-> IF x \in StaleBy(o) \cup {o} THEN Null ELSE master[x]]
    /\ copies' = [x \in Objects |-> CASE x = o -> {}
                                      [] x = master[o] -> copies[x] \ {o}
                                      [] OTHER -> copies[x]]
    /\ UNCHANGED <<freeMemory, lock, content, opVars>>

-----------------------------------------------------------------------------
(* Operations on the value                                                 *)

Goto(t, from, to) == pc[t] = from /\ pc' = [pc EXCEPT ![t] = to]

(* Every operation tests the pointer before it locks; a stale object       *)
(* throws, which changes nothing.  SetValues is for arrays without copies. *)
Begin(t, f, o, p) ==
    /\ Goto(t, "idle", "lock") /\ o \in live /\ value[o] # Null
    /\ p \in live \/ (p = Null /\ f \notin {"assign", "compare"})
    /\ f = "realloc" => freeMemory[o] /\ copies[o] = {}
    /\ op' = [op EXCEPT ![t] = f] /\ obj' = [obj EXCEPT ![t] = o]
    /\ src' = [src EXCEPT ![t] = IF f \in {"assign", "compare"} THEN p ELSE Null]
    /\ UNCHANGED <<objVars, lock, memVars, tmp>>

Mine(t) == value[obj[t]]

Enter(t) ==
    /\ Goto(t, "lock", "use") /\ lock[obj[t]] = Null
    /\ lock' = [lock EXCEPT ![obj[t]] = t]
    /\ stray' = IF op[t] \in {"set", "add", "assign"} /\ master[obj[t]] # Null
                THEN stray \cup {Mine(t)} ELSE stray
    /\ UNCHANGED <<objVars, allocated, content, op, obj, src, tmp>>

(* Value() takes a time-out, and goes on when it has passed.               *)
TimeOut(t) ==
    /\ Goto(t, "lock", "use") /\ op[t] \in {"get", "set"} /\ lock[obj[t]] # Null
    /\ stray' = IF op[t] = "set" THEN stray \cup {Mine(t)} ELSE stray
    /\ UNCHANGED <<objVars, lock, allocated, content, op, obj, src, tmp>>

(* What the operation does under the lock: read the object's own value,    *)
(* or (with another SharedValue) that one's, or move the memory.           *)
Use(t) ==
    /\ \/ op[t] \in {"get", "set", "add"}
          /\ Goto(t, "use", IF op[t] = "get" THEN "unlock" ELSE "store")
          /\ tmp' = [tmp EXCEPT ![t] = content[Mine(t)]]
       \/ op[t] \in {"assign", "compare"}
          /\ Goto(t, "use", IF value[src[t]] = Null THEN "unlock" ELSE "other")
          /\ UNCHANGED tmp
    /\ UNCHANGED <<objVars, lock, memVars, op, obj, src>>

(* val.Value() locks the other object, which may be the same one.          *)
EnterOther(t) ==
    /\ Goto(t, "other", "load") /\ lock[src[t]] \in {Null, t}
    /\ lock' = [lock EXCEPT ![src[t]] = t]
    /\ UNCHANGED <<objVars, memVars, op, obj, src, tmp>>

LoadOther(t) ==
    /\ Goto(t, "load", "leave") /\ tmp' = [tmp EXCEPT ![t] = content[value[src[t]]]]
    /\ UNCHANGED <<objVars, lock, memVars, op, obj, src>>

(* Mutant of LeaveOther: the scope of val.Value() releases what the outer  *)
(* scope holds.                                                            *)
LeaveOtherAlways(t) ==
    /\ Goto(t, "leave", IF op[t] = "assign" THEN "store" ELSE "unlock")
    /\ lock' = [lock EXCEPT ![src[t]] = Null]
    /\ UNCHANGED <<objVars, memVars, op, obj, src, tmp>>

LeaveOther(t) ==
    /\ Goto(t, "leave", IF op[t] = "assign" THEN "store" ELSE "unlock")
    /\ lock' = IF src[t] = obj[t] THEN lock ELSE [lock EXCEPT ![src[t]] = Null]
    /\ UNCHANGED <<objVars, memVars, op, obj, src, tmp>>

Store(t, v) ==
    /\ Goto(t, "store", "unlock")
    /\ v = (CASE op[t] = "set" -> v [] op[t] = "add" -> (tmp[t] + 1) % Width [] OTHER -> tmp[t])
    /\ content' = [content EXCEPT ![Mine(t)] = v]
    /\ UNCHANGED <<objVars, lock, allocated, stray, op, obj, src, tmp>>

Moved(t, c) == {IF d = Mine(t) THEN c ELSE d : d \in stray}

(* Mutant of SetValues: the old memory is kept.                            *)
SetValuesKeeping(t, c) ==
    /\ op[t] = "realloc" /\ Goto(t, "use", "unlock") /\ c \notin allocated
    /\ value' = [value EXCEPT ![obj[t]] = c]
    /\ allocated' = allocated \cup {c} /\ stray' = Moved(t, c)
    /\ content' = [content EXCEPT ![c] = 0]
    /\ UNCHANGED <<live, freeMemory, master, copies, lock, op, obj, src, tmp>>

(* SetValues: the cell is exchanged for another one.                       *)
SetValues(t, c) ==
    /\ op[t] = "realloc" /\ Goto(t, "use", "unlock") /\ c \notin allocated
    /\ value' = [value EXCEPT ![obj[t]] = c]
    /\ allocated' = (allocated \ {Mine(t)}) \cup {c} /\ stray' = Moved(t, c)
    /\ content' = [content EXCEPT ![c] = 0]
    /\ UNCHANGED <<live, freeMemory, master, copies, lock, op, obj, src, tmp>>

(* Mutant of Leave: an operation that throws keeps its lock.               *)
LeaveThrowing(t) ==
    /\ Goto(t, "unlock", "idle")
    /\ lock' = IF lock[obj[t]] = t /\ (src[t] = Null \/ value[src[t]] # Null)
               THEN [lock EXCEPT ![obj[t]] = Null] ELSE lock
    /\ obj' = [obj EXCEPT ![t] = Null] /\ src' = [src EXCEPT ![t] = Null]
    /\ tmp' = [tmp EXCEPT ![t] = 0] /\ op' = [op EXCEPT ![t] = "get"]
    /\ UNCHANGED <<objVars, memVars>>

(* The scope's destructor, also on the way out of an exception.            *)
Leave(t) ==
    /\ Goto(t, "unlock", "idle")
    /\ lock' = IF lock[obj[t]] = t THEN [lock EXCEPT ![obj[t]] = Null] ELSE lock
    /\ obj' = [obj EXCEPT ![t] = Null] /\ src' = [src EXCEPT ![t] = Null]
    /\ tmp' = [tmp EXCEPT ![t] = 0] /\ op' = [op EXCEPT ![t] = "get"]
    /\ UNCHANGED <<objVars, memVars>>

-----------------------------------------------------------------------------
Structure ==
    \E o \in Objects :
        \/ MakeEmpty(o) \/ Destroy(o)
        \/ \E c \in Cells : Make(o, c)
        \/ \E p \in Objects : Copy(o, p) \/ AssignToEmpty(o, p)

Step(t) ==
    \/ Enter(t) \/ TimeOut(t) \/ Use(t) \/ EnterOther(t) \/ LoadOther(t) \/ LeaveOther(t) \/ Leave(t)
    \/ \E c \in Cells : SetValues(t, c)
    \/ \E v \in Values : Store(t, v)

Operate(t) == \E f \in Ops, o \in Objects, p \in Objects \cup {Null} : Begin(t, f, o, p)

Next == Structure \/ \E t \in Threads : Step(t) \/ Operate(t)

Spec == Init /\ [][Next]_vars

-----------------------------------------------------------------------------
(* Properties                                                              *)

(* Masters and copies know each other: a list names existing objects whose *)
(* master is its owner, and a copy's master exists, lists it, is no copy   *)
(* itself and has the same cell, so that it can make the copy stale.       *)
CopiesKnown ==
    /\ \A o \in live : \A c \in copies[o] : c \in live /\ master[c] = o
    /\ \A c \in live : master[c] # Null =>
           /\ master[c] \in live /\ c \in copies[master[c]]
           /\ master[master[c]] = Null /\ value[c] = value[master[c]]

(* No object points to memory that has been freed, no two objects free the *)
(* same cell, and no cell is left without an object that will free it.     *)
CellsOwned ==
    /\ \A o \in live : value[o] # Null => value[o] \in allocated
    /\ \A c \in allocated :
           Cardinality({o \in live : value[o] = c /\ freeMemory[o]}) = 1

(* Changes that are made through the master and that have its lock are not *)
(* lost: what a thread has loaded is still there when it stores.  Each     *)
(* copy has a lock of its own, and a wait that times out goes on without.  *)
UpdatesAtomic ==
    \A t \in Threads :
        pc[t] = "store" /\ op[t] \in {"add", "set"} /\ Mine(t) \notin stray
            => content[Mine(t)] = tmp[t]

(* A lock is held by a thread that is in an operation on the object, and   *)
(* operations can only wait for each other for ever when some of them, in  *)
(* a circle, want the object another one has locked as its own.            *)
Wanted(t) == IF pc[t] = "lock" THEN obj[t] ELSE src[t]
Waiting == {t \in Busy : \/ pc[t] = "lock" /\ lock[obj[t]] # Null
                         \/ pc[t] = "other" /\ lock[src[t]] \notin {Null, t}}
OnlyCrossingsBlock ==
    /\ \A o \in Objects : lock[o] # Null => lock[o] \in Busy /\ o \in {obj[lock[o]], src[lock[o]]}
    /\ Waiting = Threads =>
           \A t \in Threads : \E u \in Threads \ {t} : pc[u] = "other" /\ obj[u] = Wanted(t)
=============================================================================
