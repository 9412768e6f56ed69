------------------------ MODULE SharedValueProofs ------------------------
(***************************************************************************)
(* Proofs about shared values, for any number of objects, cells and        *)
(* threads.  A cell belongs to the one master that will free it, and the   *)
(* lock of that master protects it from everyone but the strays.           *)
(***************************************************************************)
EXTENDS SharedValue, Integers, FiniteSetTheorems, TLAPS

(* What masters, copies and cells are to each other.                       *)
Dead ==
    \A o \in Objects \ live : value[o] = Null /\ master[o] = Null /\ copies[o] = {}

Family(o) ==
    /\ \A c \in copies[o] : c \in live /\ master[c] = o
    /\ master[o] # Null => /\ master[o] \in live /\ o \in copies[master[o]]
                           /\ master[master[o]] = Null /\ value[o] = value[master[o]]
                           /\ value[o] # Null

Families == \A o \in Objects : Family(o)

Freeing == \A o \in live : freeMemory[o] <=> value[o] # Null /\ master[o] = Null
Present == \A o \in live : value[o] # Null => value[o] \in allocated
Sole    == \A o, p \in live : freeMemory[o] /\ freeMemory[p] /\ value[o] = value[p] => o = p
Freed   == \A c \in allocated : \E o \in live : freeMemory[o] /\ value[o] = c

Owners == Freeing /\ Present /\ Sole /\ Freed

Inside(t) == pc[t] \in {"use", "other", "load", "leave", "store", "unlock"}

(* What an operation knows of its objects.                                 *)
Operands(t) ==
    /\ pc[t] # "idle" => obj[t] \in live /\ value[obj[t]] # Null
    /\ pc[t] # "idle" /\ op[t] \in {"assign", "compare"} => src[t] \in live
    /\ pc[t] # "idle" /\ op[t] \notin {"assign", "compare"} => src[t] = Null
    /\ pc[t] # "idle" /\ op[t] = "realloc" => freeMemory[obj[t]] /\ copies[obj[t]] = {}
    /\ pc[t] \in {"other", "load", "leave"} => op[t] \in {"assign", "compare"}
    /\ pc[t] \in {"other", "load"} => value[src[t]] # Null
    /\ pc[t] = "store" => op[t] \in {"set", "add", "assign"}

(* Which locks it has; a wait that timed out has none.                     *)
Locks(t) ==
    /\ Inside(t) /\ op[t] \notin {"get", "set"} => lock[obj[t]] = t
    /\ Inside(t) /\ op[t] = "set" => lock[obj[t]] = t \/ Mine(t) \in stray
    /\ pc[t] \in {"load", "leave"} => lock[src[t]] = t
    /\ \A o \in Objects : lock[o] = t =>
           /\ Inside(t)
           /\ o = obj[t] \/ (o = src[t] /\ pc[t] \in {"load", "leave"})

Strays(t) ==
    Inside(t) /\ op[t] \in {"set", "add", "assign"} /\ master[obj[t]] # Null => Mine(t) \in stray

Loaded(t) ==
    pc[t] = "store" /\ op[t] \in {"add", "set"} /\ Mine(t) \notin stray => content[Mine(t)] = tmp[t]

SharedInv ==
    /\ TypeOK /\ Dead /\ Families /\ Owners
    /\ \A t \in Threads : Operands(t) /\ Locks(t) /\ Strays(t) /\ Loaded(t)

-----------------------------------------------------------------------------
(* Families of objects.                                                    *)

(* Objects with the same cell are a master and its copies, or two copies   *)
(* of one master.                                                          *)
LEMMA SameMaster ==
    ASSUME SharedInv, NEW o \in live, NEW p \in live,
           value[o] # Null, value[o] = value[p], master[o] = Null
    PROVE  p = o \/ (p \in copies[o] /\ master[p] = o)
  <1>1. /\ \A x \in live : freeMemory[x] <=> value[x] # Null /\ master[x] = Null
        /\ \A x, y \in live : freeMemory[x] /\ freeMemory[y] /\ value[x] = value[y] => x = y
        /\ live \subseteq Objects
    BY DEF SharedInv, Owners, Freeing, Present, Sole, TypeOK
  <1>2. CASE master[p] = Null
    BY <1>1, <1>2
  <1>3. CASE master[p] # Null
    <2>1. /\ master[p] \in live /\ p \in copies[master[p]]
          /\ master[master[p]] = Null /\ value[p] = value[master[p]]
      BY <1>1, <1>3 DEF SharedInv, Families, Family
    <2>2. master[p] = o
      BY <1>1, <2>1
    <2> QED
      BY <2>1, <2>2
  <1> QED
    BY <1>2, <1>3

(* A cell in use: the object a thread works on exists and has it.          *)
LEMMA MyCell ==
    ASSUME SharedInv, NEW t \in Threads, pc[t] # "idle"
    PROVE  /\ obj[t] \in live /\ obj[t] \in Objects /\ Mine(t) \in Cells /\ Mine(t) # Null
           /\ Mine(t) \in allocated /\ content[Mine(t)] \in Values /\ Mine(t) = value[obj[t]]
           /\ t \in Busy
  <1>1. obj[t] \in live /\ value[obj[t]] # Null /\ obj[t] \in Objects
    BY DEF SharedInv, Operands, TypeOK
  <1>2. value[obj[t]] \in allocated /\ allocated \subseteq Cells
    BY <1>1 DEF SharedInv, Owners, Freeing, Present, Sole, TypeOK
  <1> QED
    BY <1>1, <1>2, SharedValueAssumption DEF Mine, SharedInv, TypeOK, Busy

LEMMA ObjectsKept ==
    ASSUME SharedInv, UNCHANGED <<objVars, allocated>>
    PROVE  Dead' /\ Families' /\ Owners'
  BY DEF SharedInv, Dead, Families, Family, Owners, Freeing, Present, Sole, Freed, objVars

-----------------------------------------------------------------------------
(* Construction and destruction.                                           *)

LEMMA MakeEmptyKeeps ==
    ASSUME SharedInv, NEW o \in Objects, MakeEmpty(o)
    PROVE  SharedInv'
  <1>1. /\ o \notin live /\ live' = live \cup {o} /\ live \subseteq Objects
        /\ value[o] = Null /\ master[o] = Null /\ copies[o] = {}
        /\ \A x \in Objects : /\ value'[x] = value[x] /\ master'[x] = master[x]
                              /\ copies'[x] = copies[x]
                              /\ freeMemory'[x] = (IF x = o THEN FALSE ELSE freeMemory[x])
        /\ UNCHANGED <<lock, allocated, content, stray, pc, op, obj, src, tmp>>
    BY DEF MakeEmpty, memVars, opVars, SharedInv, TypeOK, Dead
  <1>2. TypeOK'
    BY DEF SharedInv, TypeOK, MakeEmpty, memVars, opVars
  <1>3. Dead'
    BY <1>1 DEF SharedInv, Dead
  <1>a. Families'
    <2> SUFFICES ASSUME NEW x \in Objects PROVE Family(x)'
      BY DEF Families
    <2>1. Family(x) /\ \A c \in copies[x] : c \in Objects
      BY <1>1 DEF SharedInv, Families, Family
    <2>2. master[x] # Null => master[x] \in Objects
      BY <1>1, <2>1 DEF Family
    <2> QED
      BY <1>1, <2>1, <2>2, SharedValueAssumption DEF Family
  <1>4. Owners'
    <2>1. Freeing /\ Present /\ Sole /\ Freed
      BY DEF SharedInv, Owners
    <2>2. /\ \A x \in live \ {o} : value'[x] = value[x] /\ freeMemory'[x] = freeMemory[x]
                                  /\ master'[x] = master[x] /\ x \in live'
          /\ \A x \in live' : x = o \/ x \in live \ {o}
          /\ o \in live => ~freeMemory[o]
          /\ value'[o] = Null /\ ~freeMemory'[o]
      BY <1>1
    <2>3. Freeing'
      BY <1>1, <2>1, <2>2 DEF Freeing
    <2>4. Present'
      BY <1>1, <2>1, <2>2 DEF Present
    <2>5. Sole'
      BY <1>1, <2>1, <2>2 DEF Sole, Present, Freeing
    <2>6. Freed'
      BY <1>1, <2>1, <2>2 DEF Freed
    <2> QED
      BY <2>3, <2>4, <2>5, <2>6 DEF Owners
  <1>5. ASSUME NEW t \in Threads
        PROVE  Operands(t)' /\ Locks(t)' /\ Strays(t)' /\ Loaded(t)'
    <2>1. Operands(t) /\ Locks(t) /\ Strays(t) /\ Loaded(t)
      BY DEF SharedInv
    <2>2. pc[t] # "idle" => obj[t] \in live
      BY <2>1 DEF Operands
    <2>3. Operands(t)'
      BY <1>1, <2>1, <2>2 DEF Operands
    <2>4. Locks(t)' /\ Strays(t)' /\ Loaded(t)'
      BY <1>1, <2>1, <2>2 DEF Locks, Strays, Loaded, Inside, Mine
    <2> QED
      BY <2>3, <2>4
  <1> QED
    BY <1>2, <1>3, <1>a, <1>4, <1>5 DEF SharedInv

LEMMA MakeKeeps ==
    ASSUME SharedInv, NEW o \in Objects, NEW c \in Cells, Make(o, c)
    PROVE  SharedInv'
  <1>1. /\ o \notin live /\ live' = live \cup {o} /\ live \subseteq Objects
        /\ value[o] = Null /\ master[o] = Null /\ copies[o] = {}
        /\ c \notin allocated /\ allocated' = allocated \cup {c} /\ c # Null
        /\ \A x \in Objects : /\ value'[x] = (IF x = o THEN c ELSE value[x])
                              /\ master'[x] = master[x] /\ copies'[x] = copies[x]
                              /\ freeMemory'[x] = (IF x = o THEN TRUE ELSE freeMemory[x])
        /\ \A d \in Cells \ {c} : content'[d] = content[d]
        /\ UNCHANGED <<lock, stray, pc, op, obj, src, tmp>>
    BY SharedValueAssumption DEF Make, opVars, SharedInv, TypeOK, Dead
  <1>2. TypeOK'
    BY SharedValueAssumption DEF SharedInv, TypeOK, Make, opVars, Values
  <1>3. Dead'
    BY <1>1 DEF SharedInv, Dead
  <1>a. Families'
    <2> SUFFICES ASSUME NEW x \in Objects PROVE Family(x)'
      BY DEF Families
    <2>1. Family(x) /\ \A e \in copies[x] : e \in Objects
      BY <1>1 DEF SharedInv, Families, Family
    <2>2. master[x] # Null => master[x] \in Objects
      BY <1>1, <2>1 DEF Family
    <2>3. CASE x = o
      <3>1. copies'[x] = {} /\ master'[x] = Null
        BY <1>1, <2>3
      <3> QED
        BY <3>1 DEF Family
    <2>4. CASE x # o
      <3>1. /\ value'[x] = value[x] /\ master'[x] = master[x] /\ copies'[x] = copies[x]
            /\ live \subseteq live'
            /\ \A e \in copies[x] : master'[e] = master[e]
        BY <1>1, <2>1, <2>4
      <3>2. master[x] # Null =>
                /\ master[x] # o /\ value'[master[x]] = value[master[x]]
                /\ master'[master[x]] = master[master[x]]
                /\ copies'[master[x]] = copies[master[x]]
        BY <1>1, <2>1, <2>2 DEF Family
      <3> QED
        BY <2>1, <3>1, <3>2 DEF Family
    <2> QED
      BY <2>3, <2>4
  <1>4. Owners'
    <2>1. Freeing /\ Present /\ Sole /\ Freed
      BY DEF SharedInv, Owners
    <2>2. /\ \A x \in live \ {o} : value'[x] = value[x] /\ freeMemory'[x] = freeMemory[x]
                                  /\ master'[x] = master[x] /\ x \in live'
          /\ \A x \in live' : x = o \/ x \in live \ {o}
          /\ o \in live => ~freeMemory[o]
          /\ value'[o] = c /\ freeMemory'[o] /\ master'[o] = Null
      BY <1>1
    <2>3. Freeing'
      BY <1>1, <2>1, <2>2 DEF Freeing
    <2>4. Present'
      BY <1>1, <2>1, <2>2 DEF Present
    <2>5. Sole'
      BY <1>1, <2>1, <2>2 DEF Sole, Present, Freeing
    <2>6. Freed'
      BY <1>1, <2>1, <2>2 DEF Freed
    <2> QED
      BY <2>3, <2>4, <2>5, <2>6 DEF Owners
  <1>5. ASSUME NEW t \in Threads
        PROVE  Operands(t)' /\ Locks(t)' /\ Strays(t)' /\ Loaded(t)'
    <2>1. Operands(t) /\ Locks(t) /\ Strays(t) /\ Loaded(t)
      BY DEF SharedInv
    <2>2. pc[t] # "idle" => /\ obj[t] \in live /\ obj[t] \in Objects /\ Mine(t) \in Cells
                            /\ Mine(t) \in allocated
      BY MyCell
    <2>3. pc[t] # "idle" => Mine(t)' = Mine(t) /\ obj[t] # o
      BY <1>1, <2>2 DEF Mine
    <2>4. Operands(t)'
      BY <1>1, <2>1, <2>2, <2>3 DEF Operands
    <2>5. Locks(t)' /\ Strays(t)'
      BY <1>1, <2>1, <2>2, <2>3 DEF Locks, Strays, Inside
    <2>6. Loaded(t)'
      BY <1>1, <2>1, <2>2, <2>3 DEF Loaded
    <2> QED
      BY <2>4, <2>5, <2>6
  <1> QED
    BY <1>2, <1>3, <1>a, <1>4, <1>5 DEF SharedInv

(* An object without a value becomes a copy.                               *)
LEMMA CopyKeeps ==
    ASSUME SharedInv, NEW o \in Objects, NEW p \in Objects,
           Copy(o, p) \/ AssignToEmpty(o, p)
    PROVE  SharedInv'
  <1> DEFINE m == MasterOf(p)
  <1>1. /\ p \in live /\ value[p] # Null /\ o # p /\ live \subseteq Objects
        /\ value[o] = Null /\ live' = live \cup {o}
        /\ ~ \E t \in Busy : op[t] = "realloc" /\ obj[t] = p
        /\ UNCHANGED <<lock, allocated, content, stray, pc, op, obj, src, tmp>>
    BY DEF Copy, AssignToEmpty, BecomeCopy, memVars, opVars, SharedInv, TypeOK, Dead
  <1>2. master[o] = Null /\ copies[o] = {} /\ (o \in live => ~freeMemory[o])
    <2>1. master[o] = Null /\ (o \in live => ~freeMemory[o])
      BY <1>1 DEF SharedInv, Families, Family, Owners, Freeing
    <2>2. ASSUME NEW x \in copies[o] PROVE FALSE
      <3>1. x \in live /\ master[x] = o /\ x \in Objects
        BY <1>1, <2>2 DEF SharedInv, Families, Family
      <3>2. value[x] = value[o] /\ value[x] # Null
        BY <3>1, <1>1, SharedValueAssumption DEF SharedInv, Families, Family
      <3> QED
        BY <3>2, <1>1
    <2> QED
      BY <2>1, <2>2
  <1>3. /\ m \in live /\ m \in Objects /\ m # o /\ master[m] = Null /\ value[m] = value[p]
        /\ m # Null
    <2>1. master[p] # Null => /\ master[p] \in live /\ master[master[p]] = Null
                              /\ value[p] = value[master[p]] /\ p \in copies[master[p]]
      BY <1>1 DEF SharedInv, Families, Family
    <2> QED
      BY <1>1, <1>2, <2>1, SharedValueAssumption DEF MasterOf
  <1>4. \A x \in Objects : /\ value'[x] = (IF x = o THEN value[p] ELSE value[x])
                           /\ master'[x] = (IF x = o THEN m ELSE master[x])
                           /\ copies'[x] = (IF x = m THEN copies[x] \cup {o} ELSE copies[x])
                           /\ freeMemory'[x] = (IF x = o THEN FALSE ELSE freeMemory[x])
    <2>1. /\ value' = [value EXCEPT ![o] = value[p]] /\ master' = [master EXCEPT ![o] = m]
          /\ copies' = [copies EXCEPT ![m] = @ \cup {o}]
      BY DEF Copy, AssignToEmpty, BecomeCopy
    <2>2. \/ freeMemory' = [freeMemory EXCEPT ![o] = FALSE]
          \/ o \in live /\ freeMemory' = freeMemory
      BY DEF Copy, AssignToEmpty
    <2>3. TypeOK
      BY DEF SharedInv
    <2> HIDE DEF m
    <2> SUFFICES ASSUME NEW x \in Objects
                 PROVE  /\ value'[x] = (IF x = o THEN value[p] ELSE value[x])
                        /\ master'[x] = (IF x = o THEN m ELSE master[x])
                        /\ copies'[x] = (IF x = m THEN copies[x] \cup {o} ELSE copies[x])
                        /\ freeMemory'[x] = (IF x = o THEN FALSE ELSE freeMemory[x])
      OBVIOUS
    <2>4. value'[x] = (IF x = o THEN value[p] ELSE value[x])
      BY <2>1, <2>3 DEF TypeOK
    <2>5. master'[x] = (IF x = o THEN m ELSE master[x])
      BY <2>1, <2>3 DEF TypeOK
    <2>6. copies'[x] = (IF x = m THEN copies[x] \cup {o} ELSE copies[x])
      BY <2>1, <2>3, <1>3 DEF TypeOK
    <2>7. freeMemory'[x] = (IF x = o THEN FALSE ELSE freeMemory[x])
      BY <2>2, <2>3, <1>2 DEF TypeOK
    <2> QED
      BY <2>4, <2>5, <2>6, <2>7
  <1>5. TypeOK'
    <2>1. TypeOK
      BY DEF SharedInv
    <2>2. /\ value' = [value EXCEPT ![o] = value[p]] /\ master' = [master EXCEPT ![o] = m]
          /\ copies' = [copies EXCEPT ![m] = @ \cup {o}]
          /\ freeMemory' = freeMemory \/ freeMemory' = [freeMemory EXCEPT ![o] = FALSE]
      BY DEF Copy, AssignToEmpty, BecomeCopy
    <2> HIDE DEF m
    <2>3. live' \subseteq Objects /\ stray \subseteq allocated
      BY <1>1, <2>1 DEF TypeOK
    <2>4. /\ value' \in [Objects -> Cells \cup {Null}] /\ freeMemory' \in [Objects -> BOOLEAN]
          /\ master' \in [Objects -> Objects \cup {Null}]
      BY <1>1, <1>3, <2>1, <2>2 DEF TypeOK
    <2>5. copies' \in [Objects -> SUBSET Objects]
      BY <1>1, <1>3, <2>1, <2>2 DEF TypeOK
    <2> QED
      BY <1>1, <2>1, <2>3, <2>4, <2>5 DEF TypeOK
  <1> HIDE DEF m
  <1>6. Dead'
    BY <1>1, <1>2, <1>3, <1>4 DEF SharedInv, Dead
  <1>7. Families'
    <2> SUFFICES ASSUME NEW x \in Objects PROVE Family(x)'
      BY DEF Families
    <2>1. Family(x) /\ \A c \in copies[x] : c \in Objects
      BY <1>1, <1>2, <1>3, <1>4 DEF SharedInv, Families, Family
    <2>2. master[x] # Null => master[x] \in Objects
      BY <1>1, <1>2, <1>3, <1>4, <2>1 DEF Family
    <2>3. ASSUME NEW c \in copies'[x] PROVE c \in live' /\ master'[c] = x
      <3>1. CASE x = m /\ c = o
        BY <1>1, <1>4, <3>1
      <3>2. CASE c \in copies[x]
        <4>1. c \in live /\ master[c] = x /\ c # o
          BY <2>1, <3>2, <1>2, SharedValueAssumption DEF Family
        <4> QED
          BY <1>1, <1>4, <4>1
      <3> QED
        BY <1>4, <3>1, <3>2
    <2>4. CASE x = o
      <3>1. /\ master'[x] = m /\ m \in live' /\ o \in copies'[m]
            /\ master'[m] = Null /\ value'[o] = value[p] /\ value'[m] = value[p]
        BY <1>1, <1>3, <1>4, <2>4
      <3> QED
        BY <1>1, <2>3, <2>4, <3>1 DEF Family
    <2>5. CASE x # o
      <3>1. master'[x] = master[x] /\ value'[x] = value[x]
        BY <1>4, <2>5
      <3>2. ASSUME master[x] # Null
            PROVE  /\ master[x] \in live' /\ x \in copies'[master[x]]
                   /\ master'[master[x]] = Null /\ value'[x] = value'[master[x]]
                   /\ value'[x] # Null
        <4>1. /\ master[x] \in live /\ x \in copies[master[x]] /\ master[x] \in Objects
              /\ master[master[x]] = Null /\ value[x] = value[master[x]] /\ value[x] # Null
          BY <2>1, <2>2, <3>2 DEF Family
        <4>2. master[x] # o
          BY <1>2, <4>1
        <4> QED
          BY <1>1, <1>4, <3>1, <4>1, <4>2
      <3> QED
        BY <2>3, <3>1, <3>2 DEF Family
    <2> QED
      BY <2>4, <2>5
  <1>8. Owners'
    <2>1. Freeing /\ Present /\ Sole /\ Freed
      BY DEF SharedInv, Owners
    <2>2. /\ \A x \in live \ {o} : value'[x] = value[x] /\ freeMemory'[x] = freeMemory[x]
                                  /\ master'[x] = master[x] /\ x \in live'
          /\ \A x \in live' : x = o \/ x \in live \ {o}
          /\ o \in live => ~freeMemory[o]
          /\ value'[o] = value[p] /\ ~freeMemory'[o] /\ master'[o] = m /\ m # Null
      BY <1>1, <1>2, <1>3, <1>4
    <2>3. Freeing'
      BY <1>1, <1>2, <1>3, <1>4, <2>1, <2>2 DEF Freeing
    <2>4. Present'
      BY <1>1, <1>2, <1>3, <1>4, <2>1, <2>2 DEF Present
    <2>5. Sole'
      BY <1>1, <1>2, <1>3, <1>4, <2>1, <2>2 DEF Sole, Present, Freeing
    <2>6. Freed'
      BY <1>1, <1>2, <1>3, <1>4, <2>1, <2>2 DEF Freed
    <2> QED
      BY <2>3, <2>4, <2>5, <2>6 DEF Owners
  <1>9. ASSUME NEW t \in Threads
        PROVE  Operands(t)' /\ Locks(t)' /\ Strays(t)' /\ Loaded(t)'
    <2>1. Operands(t) /\ Locks(t) /\ Strays(t) /\ Loaded(t)
      BY DEF SharedInv
    <2>2. pc[t] # "idle" => /\ obj[t] \in live /\ obj[t] \in Objects /\ Mine(t) # Null
                            /\ t \in Busy /\ Mine(t) = value[obj[t]]
      BY MyCell
    <2>3. pc[t] # "idle" => obj[t] # o /\ Mine(t)' = Mine(t) /\ master'[obj[t]] = master[obj[t]]
      BY <1>1, <1>4, <2>2 DEF Mine
    <2>4. pc[t] # "idle" /\ op[t] = "realloc" => obj[t] # m
      <3>1. ASSUME pc[t] # "idle", op[t] = "realloc", obj[t] = m PROVE FALSE
        <4>1. copies[m] = {} /\ p # m
          BY <1>1, <2>1, <2>2, <3>1 DEF Operands
        <4>2. p = m \/ p \in copies[m]
          BY <1>1, <1>3, SameMaster
        <4> QED
          BY <4>1, <4>2
      <3> QED
        BY <3>1
    <2>5. Operands(t)'
      BY <1>1, <1>4, <2>1, <2>2, <2>3, <2>4 DEF Operands
    <2>6. Locks(t)' /\ Strays(t)' /\ Loaded(t)'
      BY <1>1, <2>1, <2>2, <2>3 DEF Locks, Strays, Loaded, Inside
    <2> QED
      BY <2>5, <2>6
  <1> QED
    BY <1>5, <1>6, <1>7, <1>8, <1>9 DEF SharedInv

(* The master takes its copies, none of which is in use, with it.          *)
LEMMA DestroyKeeps ==
    ASSUME SharedInv, NEW o \in Objects, Destroy(o)
    PROVE  SharedInv'
  <1>1. /\ o \in live /\ live \subseteq Objects /\ live' = live \ {o} /\ o # Null
        /\ \A t \in Threads : pc[t] # "idle" => /\ obj[t] # o /\ src[t] # o
                                                /\ obj[t] \notin copies[o] /\ src[t] \notin copies[o]
        /\ stray' = stray \cap allocated' /\ TypeOK
        /\ UNCHANGED <<freeMemory, lock, content, pc, op, obj, src, tmp>>
    BY SharedValueAssumption DEF Destroy, opVars, SharedInv, TypeOK, InUse, Busy
  <1>2. \A x \in Objects : Family(x) /\ (\A c \in copies[x] : c \in Objects)
                           /\ (master[x] # Null => master[x] \in Objects)
    BY <1>1 DEF SharedInv, Families, Family
  <1>3. StaleBy(o) = copies[o]
    <2>1. \A c \in copies[o] : value[c] = value[o]
      BY <1>1, <1>2 DEF Family
    <2> QED
      BY <2>1 DEF StaleBy
  <1> DEFINE gone == copies[o] \cup {o}
  <1>4. \A x \in Objects : /\ value'[x] = (IF x \in gone THEN Null ELSE value[x])
                           /\ master'[x] = (IF x \in gone THEN Null ELSE master[x])
                           /\ copies'[x] = (IF x = o THEN {} ELSE IF x = master[o] THEN copies[x] \ {o}
                                            ELSE copies[x])
                           /\ copies'[x] \subseteq copies[x]
    <2>1. o # master[o]
      BY <1>1, <1>2 DEF Family
    <2>2. copies' = [x \in Objects |-> CASE x = o -> {} [] x = master[o] -> copies[x] \ {o}
                                         [] OTHER -> copies[x]]
      BY DEF Destroy
    <2>3. \A x \in Objects : copies'[x] = (IF x = o THEN {} ELSE IF x = master[o] THEN copies[x] \ {o}
                                         ELSE copies[x])
      BY <2>1, <2>2
    <2>4. \A x \in Objects : /\ value'[x] = (IF x \in gone THEN Null ELSE value[x])
                             /\ master'[x] = (IF x \in gone THEN Null ELSE master[x])
      BY <1>3 DEF Destroy
    <2> QED
      BY <2>3, <2>4
  <1>5. allocated' = (IF freeMemory[o] THEN allocated \ {value[o]} ELSE allocated)
    BY DEF Destroy
  <1>6. TypeOK'
    <2>1. /\ value' \in [Objects -> Cells \cup {Null}]
          /\ master' \in [Objects -> Objects \cup {Null}]
      BY <1>1 DEF Destroy, TypeOK
    <2>2. copies' \in [Objects -> SUBSET Objects]
      <3>1. copies' = [x \in Objects |-> copies'[x]]
        BY DEF Destroy
      <3>2. \A x \in Objects : copies'[x] \in SUBSET Objects
        BY <1>2, <1>4
      <3> QED
        BY <3>1, <3>2
    <2>3. allocated' \subseteq Cells /\ stray' \subseteq allocated' /\ live' \subseteq Objects
      BY <1>1, <1>5 DEF TypeOK
    <2> QED
      BY <1>1, <2>1, <2>2, <2>3 DEF TypeOK
  <1>7. \A x \in copies[o] : /\ x \in live /\ x # o /\ master[x] = o /\ copies[x] = {}
                             /\ ~freeMemory[x] /\ x # master[o]
    <2> SUFFICES ASSUME NEW x \in copies[o]
                 PROVE  /\ x \in live /\ x # o /\ master[x] = o /\ copies[x] = {}
                        /\ ~freeMemory[x] /\ x # master[o]
      OBVIOUS
    <2>1. /\ x \in live /\ x \in Objects /\ master[x] = o /\ master[o] = Null
      BY <1>1, <1>2 DEF Family
    <2>2. ASSUME NEW c \in copies[x] PROVE FALSE
      BY <1>1, <1>2, <2>1, <2>2, SharedValueAssumption DEF Family
    <2>3. ~freeMemory[x]
      BY <1>1, <2>1 DEF SharedInv, Owners, Freeing
    <2> QED
      BY <1>1, <2>1, <2>2, <2>3, SharedValueAssumption
  <1> HIDE DEF gone
  <1>8. \A x \in Objects : x \in gone <=> x = o \/ master[x] = o
    BY <1>1, <1>2, <1>7 DEF gone, Family
  <1>9. Dead'
    BY <1>1, <1>4, <1>6 DEF SharedInv, Dead, TypeOK, gone
  <1>10. Families'
    <2> SUFFICES ASSUME NEW x \in Objects PROVE Family(x)'
      BY DEF Families
    <2>1. CASE x \in gone
      <3>1. copies'[x] = {} /\ master'[x] = Null
        BY <1>4, <1>7, <2>1 DEF gone
      <3> QED
        BY <3>1 DEF Family
    <2>2. CASE x \notin gone
      <3>1. value'[x] = value[x] /\ master'[x] = master[x] /\ x # o /\ master[x] # o
        BY <1>4, <1>8, <2>2
      <3>2. ASSUME NEW c \in copies'[x] PROVE c \in live' /\ master'[c] = x
        <4>1. c \in live /\ master[c] = x /\ c \in Objects /\ c \in copies[x]
          BY <1>2, <1>4 DEF Family
        <4>2. c # o
          <5>1. CASE x = master[o]
            BY <1>4, <3>1, <3>2, <5>1
          <5>2. CASE x # master[o]
            BY <4>1, <5>2
          <5> QED
            BY <5>1, <5>2
        <4> QED
          BY <1>1, <1>4, <1>8, <3>1, <4>1, <4>2
      <3>3. ASSUME master[x] # Null
            PROVE  /\ master[x] \in live' /\ x \in copies'[master[x]]
                   /\ master'[master[x]] = Null /\ value'[x] = value'[master[x]]
                   /\ value'[x] # Null
        <4>1. /\ master[x] \in live /\ x \in copies[master[x]] /\ master[x] \in Objects
              /\ master[master[x]] = Null /\ value[x] = value[master[x]] /\ value[x] # Null
          BY <1>2, <3>3 DEF Family
        <4>2. master[x] \notin gone
          BY <1>1, <1>8, <3>1, <4>1
        <4> QED
          BY <1>1, <1>4, <3>1, <4>1, <4>2
      <3> QED
        BY <3>1, <3>2, <3>3 DEF Family
    <2> QED
      BY <2>1, <2>2
  <1>11. Owners'
    <2>1. Freeing /\ Present /\ Sole /\ Freed
      BY DEF SharedInv, Owners
    <2>2. \A x \in live' : /\ x \in live /\ x \in Objects /\ x # o
                           /\ x \in gone => value'[x] = Null /\ ~freeMemory[x]
                           /\ x \notin gone => value'[x] = value[x] /\ master'[x] = master[x]
      BY <1>1, <1>4, <1>7 DEF gone
    <2>3. Freeing'
      BY <1>1, <2>1, <2>2 DEF Freeing
    <2>4. Present'
      <3>1. \A x \in live : freeMemory[o] /\ value[x] = value[o] => x \in gone
        <4> SUFFICES ASSUME NEW x \in live, freeMemory[o], value[x] = value[o] PROVE x \in gone
          OBVIOUS
        <4>1. value[o] # Null /\ master[o] = Null
          BY <1>1, <2>1 DEF Freeing
        <4> QED
          BY <1>1, <4>1, SameMaster DEF gone
      <3> QED
        BY <1>5, <2>1, <2>2, <3>1 DEF Present
    <2>5. Sole'
      BY <1>1, <2>1, <2>2 DEF Sole
    <2>6. Freed'
      <3> SUFFICES ASSUME NEW c \in allocated' PROVE \E x \in live' : freeMemory'[x] /\ value'[x] = c
        BY DEF Freed
      <3>1. c \in allocated
        BY <1>5
      <3>2. PICK x \in live : freeMemory[x] /\ value[x] = c
        BY <2>1, <3>1 DEF Freed
      <3>3. x # o
        BY <1>5, <3>2
      <3> QED
        BY <1>1, <2>2, <3>2, <3>3
    <2> QED
      BY <2>3, <2>4, <2>5, <2>6 DEF Owners
  <1>12. ASSUME NEW t \in Threads
         PROVE  Operands(t)' /\ Locks(t)' /\ Strays(t)' /\ Loaded(t)'
    <2>1. Operands(t) /\ Locks(t) /\ Strays(t) /\ Loaded(t)
      BY DEF SharedInv
    <2>2. pc[t] # "idle" => /\ obj[t] \in live' /\ obj[t] \in Objects /\ Mine(t) # Null
                            /\ obj[t] \notin gone /\ Mine(t) = value[obj[t]]
      BY <1>1, MyCell DEF gone
    <2>3. pc[t] # "idle" => /\ Mine(t)' = Mine(t) /\ master'[obj[t]] = master[obj[t]]
                            /\ copies'[obj[t]] \subseteq copies[obj[t]]
      BY <1>1, <1>4, <2>2 DEF Mine
    <2>4. pc[t] # "idle" => Mine(t) \in allocated'
      BY <1>11, <2>2, <2>3, <1>1 DEF Owners, Present, Mine
    <2>a. pc[t] \in {"other", "load"} => value'[src[t]] # Null
      <3>1. pc[t] \in {"other", "load"} => src[t] \in Objects /\ src[t] \notin gone
        BY <1>1, <2>1 DEF Operands, gone
      <3> QED
        BY <1>4, <2>1, <3>1 DEF Operands
    <2>5. Operands(t)'
      BY <1>1, <2>1, <2>2, <2>3, <2>a DEF Operands, Mine
    <2>6. Locks(t)' /\ Strays(t)'
      BY <1>1, <2>1, <2>2, <2>3, <2>4 DEF Locks, Strays, Inside
    <2>7. Loaded(t)'
      BY <1>1, <2>1, <2>2, <2>3, <2>4 DEF Loaded
    <2> QED
      BY <2>5, <2>6, <2>7
  <1> QED
    BY <1>6, <1>9, <1>10, <1>11, <1>12 DEF SharedInv

-----------------------------------------------------------------------------
(* Operations.                                                             *)

(* A step of one thread that stores at most in its own cell, and takes no  *)
(* lock from another thread, disturbs no other operation.                  *)
LEMMA OthersKeep ==
    ASSUME SharedInv, NEW t \in Threads, NEW u \in Threads \ {t},
           UNCHANGED <<objVars, allocated>>, stray \subseteq stray',
           /\ pc'[u] = pc[u] /\ op'[u] = op[u] /\ obj'[u] = obj[u] /\ src'[u] = src[u]
           /\ tmp'[u] = tmp[u],
           \A x \in Objects : lock'[x] = lock[x] \/ (lock[x] \in {Null, t} /\ lock'[x] \in {Null, t}),
           content' = content \/ (/\ pc[t] = "store"
                                  /\ \A c \in Cells \ {Mine(t)} : content'[c] = content[c])
    PROVE  Operands(u)' /\ Locks(u)' /\ Strays(u)' /\ Loaded(u)'
  <1>1. Operands(u) /\ Locks(u) /\ Strays(u) /\ Loaded(u)
    BY DEF SharedInv
  <1>2. Mine(u)' = Mine(u) /\ UNCHANGED <<live, value, freeMemory, master, copies>>
    BY DEF Mine, objVars
  <1>3. pc[u] # "idle" => /\ obj[u] \in live /\ obj[u] \in Objects /\ Mine(u) \in Cells
                          /\ Mine(u) = value[obj[u]] /\ Mine(u) # Null
    BY MyCell
  <1>4. Operands(u)'
    BY <1>1, <1>2 DEF Operands
  <1>5. \A x \in Objects : lock'[x] = u <=> lock[x] = u
    BY SharedValueAssumption
  <1>6. Locks(u)' /\ Strays(u)'
    <2>1. pc[u] \in {"load", "leave"} => src[u] \in Objects
      BY <1>1 DEF Operands, SharedInv, TypeOK
    <2> QED
      BY <1>1, <1>2, <1>3, <1>5, <2>1 DEF Locks, Strays, Inside
  <1>7. Loaded(u)'
    <2> SUFFICES ASSUME pc[u] = "store", op[u] \in {"add", "set"}, Mine(u) \notin stray
                 PROVE  content'[Mine(u)] = tmp[u]
      BY <1>2 DEF Loaded
    <2>1. content[Mine(u)] = tmp[u]
      BY <1>1 DEF Loaded
    <2>2. ASSUME pc[t] = "store", Mine(t) = Mine(u) PROVE FALSE
      <3>1. /\ Inside(t) /\ Inside(u) /\ op[t] \in {"set", "add", "assign"} /\ Locks(t) /\ Strays(t)
            /\ obj[t] \in live /\ Mine(t) = value[obj[t]]
        BY <2>2, MyCell DEF Inside, SharedInv, Operands
      <3>2. master[obj[t]] = Null /\ master[obj[u]] = Null
        BY <1>1, <2>2, <3>1 DEF Strays
      <3>3. obj[t] = obj[u]
        BY <1>3, <2>2, <3>1, <3>2, SameMaster, SharedValueAssumption DEF SharedInv, TypeOK
      <3>4. lock[obj[t]] = t /\ lock[obj[u]] = u
        BY <1>1, <2>2, <3>1 DEF Locks
      <3> QED
        BY <3>3, <3>4
    <2> QED
      BY <1>3, <2>1, <2>2
  <1> QED
    BY <1>4, <1>6, <1>7

(* Such a step keeps the invariant if it keeps its own part.               *)
LEMMA StepKeeps ==
    ASSUME SharedInv, NEW t \in Threads, UNCHANGED <<objVars, allocated>>, stray \subseteq stray',
           \A u \in Threads \ {t} :
               /\ pc'[u] = pc[u] /\ op'[u] = op[u] /\ obj'[u] = obj[u] /\ src'[u] = src[u]
               /\ tmp'[u] = tmp[u],
           \A x \in Objects : lock'[x] = lock[x] \/ (lock[x] \in {Null, t} /\ lock'[x] \in {Null, t}),
           content' = content \/ (/\ pc[t] = "store"
                                  /\ \A c \in Cells \ {Mine(t)} : content'[c] = content[c]),
           TypeOK', Operands(t)', Locks(t)', Strays(t)', Loaded(t)'
    PROVE  SharedInv'
  <1>1. \A u \in Threads \ {t} : Operands(u)' /\ Locks(u)' /\ Strays(u)' /\ Loaded(u)'
    BY OthersKeep
  <1> QED
    BY <1>1, ObjectsKept DEF SharedInv

LEMMA BeginKeeps ==
    ASSUME SharedInv, NEW t \in Threads, NEW f \in Ops, NEW o \in Objects,
           NEW p \in Objects \cup {Null}, Begin(t, f, o, p)
    PROVE  SharedInv'
  <1>1. /\ pc[t] = "idle" /\ pc' = [pc EXCEPT ![t] = "lock"] /\ o \in live /\ value[o] # Null
        /\ p \in live \/ (p = Null /\ f \notin {"assign", "compare"})
        /\ f = "realloc" => freeMemory[o] /\ copies[o] = {}
        /\ op' = [op EXCEPT ![t] = f] /\ obj' = [obj EXCEPT ![t] = o]
        /\ src' = [src EXCEPT ![t] = IF f \in {"assign", "compare"} THEN p ELSE Null]
        /\ UNCHANGED <<live, value, freeMemory, master, copies, lock, allocated, content, stray, tmp>>
    BY DEF Begin, Goto, objVars, memVars
  <1>2. TypeOK /\ Locks(t)
    BY DEF SharedInv
  <1>3. pc'[t] = "lock" /\ op'[t] = f /\ obj'[t] = o
        /\ src'[t] = (IF f \in {"assign", "compare"} THEN p ELSE Null)
    BY <1>1, <1>2 DEF TypeOK
  <1>4. TypeOK'
    BY <1>1, <1>2 DEF TypeOK
  <1>5. Operands(t)'
    BY <1>1, <1>3 DEF Operands
  <1>6. Locks(t)' /\ Strays(t)' /\ Loaded(t)'
    BY <1>1, <1>2, <1>3 DEF Locks, Strays, Loaded, Inside
  <1>7. \A u \in Threads \ {t} : /\ pc'[u] = pc[u] /\ op'[u] = op[u] /\ obj'[u] = obj[u]
                                 /\ src'[u] = src[u] /\ tmp'[u] = tmp[u]
    BY <1>1, <1>2 DEF TypeOK
  <1> QED
    BY <1>1, <1>4, <1>5, <1>6, <1>7, StepKeeps DEF objVars

(* Steps that leave the operation what it is.                              *)
Goes(t, from, to) ==
    /\ pc[t] = from /\ pc' = [pc EXCEPT ![t] = to]
    /\ UNCHANGED <<live, value, freeMemory, master, copies, allocated, op, obj, src>>

LEMMA EnterKeeps ==
    ASSUME SharedInv, NEW t \in Threads, Enter(t) \/ TimeOut(t)
    PROVE  SharedInv'
  <1>1. /\ Goes(t, "lock", "use") /\ UNCHANGED <<content, tmp>>
    BY DEF Enter, TimeOut, Goto, objVars, Goes
  <1>2. /\ TypeOK /\ Operands(t) /\ Locks(t) /\ obj[t] \in Objects /\ obj[t] \in live
        /\ Mine(t) \in allocated /\ Mine(t) = value[obj[t]] /\ value[obj[t]] # Null
    BY <1>1, MyCell DEF Goes, SharedInv
  <1>3. /\ pc'[t] = "use" /\ \A u \in Threads \ {t} : pc'[u] = pc[u]
        /\ Mine(t)' = Mine(t)
    BY <1>1, <1>2 DEF Goes, TypeOK, Mine
  <1>4. /\ stray \subseteq stray' /\ stray' \subseteq stray \cup {Mine(t)}
        /\ op[t] \in {"set", "add", "assign"} /\ master[obj[t]] # Null => Mine(t) \in stray'
        /\ lock' = lock /\ op[t] = "set" => Mine(t) \in stray'
        /\ lock' = lock => op[t] \in {"get", "set"}
        /\ lock' = lock \/ (lock[obj[t]] = Null /\ lock' = [lock EXCEPT ![obj[t]] = t])
    <2>1. CASE Enter(t)
      <3>1. lock' # lock
        BY <1>2, <2>1, SharedValueAssumption DEF Enter, TypeOK
      <3> QED
        BY <2>1, <3>1 DEF Enter
    <2>2. CASE TimeOut(t)
      BY <2>2 DEF TimeOut
    <2> QED
      BY <2>1, <2>2
  <1>5. TypeOK'
    BY <1>1, <1>2, <1>4 DEF TypeOK, Goes
  <1>6. Operands(t)' /\ Strays(t)' /\ Loaded(t)'
    BY <1>1, <1>2, <1>3, <1>4 DEF Operands, Strays, Loaded, Inside, Goes
  <1>7. Locks(t)'
    BY <1>1, <1>2, <1>3, <1>4, SharedValueAssumption DEF Locks, Inside, Goes, TypeOK
  <1>8. \A x \in Objects : lock'[x] = lock[x] \/ (lock[x] \in {Null, t} /\ lock'[x] \in {Null, t})
    BY <1>2, <1>4 DEF TypeOK
  <1> QED
    BY <1>1, <1>3, <1>4, <1>5, <1>6, <1>7, <1>8, StepKeeps DEF objVars, Goes

LEMMA UseKeeps ==
    ASSUME SharedInv, NEW t \in Threads, Use(t)
    PROVE  SharedInv'
  <1>1. pc[t] = "use" /\ UNCHANGED <<objVars, lock, memVars, op, obj, src>>
    BY DEF Use, Goto
  <1>2. /\ TypeOK /\ Operands(t) /\ Locks(t) /\ Strays(t)
        /\ content[Mine(t)] \in Values /\ Mine(t) = value[obj[t]]
    BY <1>1, MyCell DEF SharedInv
  <1>3. \/ op[t] \in {"get", "set", "add"} /\ tmp' = [tmp EXCEPT ![t] = content[Mine(t)]]
           /\ pc' = [pc EXCEPT ![t] = IF op[t] = "get" THEN "unlock" ELSE "store"]
        \/ op[t] \in {"assign", "compare"} /\ tmp' = tmp
           /\ pc' = [pc EXCEPT ![t] = IF value[src[t]] = Null THEN "unlock" ELSE "other"]
    BY DEF Use, Goto
  <1>4. /\ \A u \in Threads \ {t} : pc'[u] = pc[u] /\ tmp'[u] = tmp[u]
        /\ \/ op[t] \in {"get", "set", "add"} /\ tmp'[t] = content[Mine(t)]
              /\ pc'[t] = (IF op[t] = "get" THEN "unlock" ELSE "store")
           \/ op[t] \in {"assign", "compare"} /\ pc'[t] \in {"unlock", "other"}
              /\ (pc'[t] = "other" => value[src[t]] # Null)
    BY <1>2, <1>3 DEF TypeOK
  <1>5. TypeOK'
    BY <1>1, <1>2, <1>3 DEF TypeOK, objVars, memVars
  <1>6. Operands(t)'
    BY <1>1, <1>2, <1>4 DEF Operands, objVars
  <1>7. Locks(t)' /\ Strays(t)'
    BY <1>1, <1>2, <1>4 DEF Locks, Strays, Inside, objVars, memVars, Mine
  <1>8. Loaded(t)'
    BY <1>1, <1>2, <1>4 DEF Loaded, objVars, memVars, Mine
  <1> QED
    BY <1>1, <1>4, <1>5, <1>6, <1>7, <1>8, StepKeeps DEF memVars

LEMMA EnterOtherKeeps ==
    ASSUME SharedInv, NEW t \in Threads, EnterOther(t)
    PROVE  SharedInv'
  <1>1. /\ Goes(t, "other", "load") /\ UNCHANGED <<content, stray, tmp>>
        /\ lock[src[t]] \in {Null, t} /\ lock' = [lock EXCEPT ![src[t]] = t]
    BY DEF EnterOther, Goto, Goes, objVars, memVars
  <1>2. TypeOK /\ Operands(t) /\ Locks(t) /\ Strays(t) /\ obj[t] \in Objects
    BY <1>1, MyCell DEF SharedInv, Goes
  <1>3. src[t] \in Objects /\ op[t] \in {"assign", "compare"}
    BY <1>1, <1>2 DEF Operands, Goes, TypeOK
  <1>4. /\ pc'[t] = "load" /\ \A u \in Threads \ {t} : pc'[u] = pc[u]
        /\ \A x \in Objects : lock'[x] = (IF x = src[t] THEN t ELSE lock[x])
    BY <1>1, <1>2 DEF Goes, TypeOK
  <1>5. TypeOK'
    BY <1>1, <1>2, <1>3 DEF TypeOK, Goes
  <1>6. Operands(t)' /\ Strays(t)' /\ Loaded(t)'
    BY <1>1, <1>2, <1>3, <1>4 DEF Operands, Strays, Loaded, Inside, Goes, Mine
  <1>7. Locks(t)'
    BY <1>1, <1>2, <1>3, <1>4 DEF Locks, Inside, Goes, Mine
  <1> QED
    BY <1>1, <1>3, <1>4, <1>5, <1>6, <1>7, StepKeeps DEF Goes, objVars

LEMMA LoadOtherKeeps ==
    ASSUME SharedInv, NEW t \in Threads, LoadOther(t)
    PROVE  SharedInv'
  <1>1. /\ Goes(t, "load", "leave") /\ UNCHANGED <<content, stray, lock>>
        /\ tmp' = [tmp EXCEPT ![t] = content[value[src[t]]]]
    BY DEF LoadOther, Goto, Goes, objVars, memVars
  <1>2. TypeOK /\ Operands(t) /\ Locks(t) /\ Strays(t)
    BY DEF SharedInv
  <1>3. /\ pc'[t] = "leave" /\ op[t] \in {"assign", "compare"} /\ src[t] \in live
        /\ \A u \in Threads \ {t} : pc'[u] = pc[u] /\ tmp'[u] = tmp[u]
    BY <1>1, <1>2 DEF Goes, TypeOK, Operands
  <1>4. value[src[t]] \in Cells
    BY <1>1, <1>2, <1>3 DEF Goes, TypeOK, Operands
  <1>5. TypeOK'
    BY <1>1, <1>2, <1>4 DEF TypeOK, Goes
  <1>6. Operands(t)' /\ Locks(t)' /\ Strays(t)' /\ Loaded(t)'
    BY <1>1, <1>2, <1>3 DEF Operands, Locks, Strays, Loaded, Inside, Goes, Mine
  <1> QED
    BY <1>1, <1>3, <1>5, <1>6, StepKeeps DEF Goes, objVars

LEMMA LeaveOtherKeeps ==
    ASSUME SharedInv, NEW t \in Threads, LeaveOther(t)
    PROVE  SharedInv'
  <1> DEFINE to == IF op[t] = "assign" THEN "store" ELSE "unlock"
  <1>1. /\ Goes(t, "leave", to) /\ UNCHANGED <<content, stray, tmp>>
        /\ lock' = IF src[t] = obj[t] THEN lock ELSE [lock EXCEPT ![src[t]] = Null]
    BY DEF LeaveOther, Goto, Goes, objVars, memVars
  <1>2. TypeOK /\ Operands(t) /\ Locks(t) /\ Strays(t) /\ obj[t] \in Objects
    BY <1>1, MyCell DEF SharedInv, Goes
  <1>3. src[t] \in Objects /\ op[t] \in {"assign", "compare"} /\ lock[src[t]] = t /\ lock[obj[t]] = t
    BY <1>1, <1>2 DEF Operands, Goes, TypeOK, Locks, Inside
  <1>4. /\ pc'[t] = to /\ \A u \in Threads \ {t} : pc'[u] = pc[u]
        /\ \A x \in Objects : lock'[x] = (IF x = src[t] /\ x # obj[t] THEN Null ELSE lock[x])
    BY <1>1, <1>2, <1>3 DEF Goes, TypeOK
  <1>5. TypeOK'
    BY <1>1, <1>2, <1>3 DEF TypeOK, Goes
  <1>6. Operands(t)' /\ Strays(t)' /\ Loaded(t)'
    BY <1>1, <1>2, <1>3, <1>4 DEF Operands, Strays, Loaded, Inside, Goes, Mine
  <1>7. Locks(t)'
    BY <1>1, <1>2, <1>3, <1>4, SharedValueAssumption DEF Locks, Inside, Goes, Mine
  <1> QED
    BY <1>1, <1>3, <1>4, <1>5, <1>6, <1>7, StepKeeps DEF Goes, objVars

LEMMA StoreKeeps ==
    ASSUME SharedInv, NEW t \in Threads, NEW v \in Values, Store(t, v)
    PROVE  SharedInv'
  <1>1. /\ Goes(t, "store", "unlock") /\ UNCHANGED <<lock, stray, tmp>>
        /\ content' = [content EXCEPT ![Mine(t)] = v]
    BY DEF Store, Goto, Goes, objVars
  <1>2. /\ TypeOK /\ Operands(t) /\ Locks(t) /\ Strays(t) /\ Mine(t) \in Cells
    BY <1>1, MyCell DEF SharedInv, Goes
  <1>3. /\ pc'[t] = "unlock" /\ \A u \in Threads \ {t} : pc'[u] = pc[u]
        /\ \A c \in Cells \ {Mine(t)} : content'[c] = content[c]
    BY <1>1, <1>2 DEF Goes, TypeOK
  <1>4. TypeOK'
    BY <1>1, <1>2 DEF TypeOK, Goes
  <1>5. Operands(t)' /\ Locks(t)' /\ Strays(t)' /\ Loaded(t)'
    BY <1>1, <1>2, <1>3 DEF Operands, Locks, Strays, Loaded, Inside, Goes, Mine
  <1> QED
    BY <1>1, <1>3, <1>4, <1>5, StepKeeps DEF Goes, objVars

LEMMA LeaveKeeps ==
    ASSUME SharedInv, NEW t \in Threads, Leave(t)
    PROVE  SharedInv'
  <1>1. /\ pc[t] = "unlock" /\ pc' = [pc EXCEPT ![t] = "idle"] /\ UNCHANGED <<objVars, memVars>>
        /\ lock' = IF lock[obj[t]] = t THEN [lock EXCEPT ![obj[t]] = Null] ELSE lock
        /\ obj' = [obj EXCEPT ![t] = Null] /\ src' = [src EXCEPT ![t] = Null]
        /\ tmp' = [tmp EXCEPT ![t] = 0] /\ op' = [op EXCEPT ![t] = "get"]
    BY DEF Leave, Goto
  <1>2. TypeOK /\ Locks(t) /\ obj[t] \in Objects
    BY <1>1, MyCell DEF SharedInv
  <1>3. /\ pc'[t] = "idle" /\ op'[t] = "get"
        /\ \A u \in Threads \ {t} : /\ pc'[u] = pc[u] /\ op'[u] = op[u] /\ obj'[u] = obj[u]
                                    /\ src'[u] = src[u] /\ tmp'[u] = tmp[u]
        /\ \A x \in Objects : lock'[x] = (IF x = obj[t] /\ lock[x] = t THEN Null ELSE lock[x])
    BY <1>1, <1>2 DEF TypeOK
  <1>4. TypeOK'
    <2>1. 0 \in Values
      BY SharedValueAssumption DEF Values
    <2> QED
      BY <1>1, <1>2, <2>1 DEF TypeOK, objVars, memVars, Ops
  <1>5. Operands(t)' /\ Strays(t)' /\ Loaded(t)'
    BY <1>3 DEF Operands, Strays, Loaded, Inside
  <1>6. \A x \in Objects : lock'[x] # t
    BY <1>1, <1>2, <1>3, SharedValueAssumption DEF Locks
  <1>7. Locks(t)'
    BY <1>3, <1>6 DEF Locks, Inside
  <1> QED
    BY <1>1, <1>3, <1>4, <1>5, <1>7, StepKeeps DEF memVars

(* SetValues exchanges the cell of a master that has no copies.            *)
LEMMA SetValuesKeeps ==
    ASSUME SharedInv, NEW t \in Threads, NEW c \in Cells, SetValues(t, c)
    PROVE  SharedInv'
  <1>1. /\ pc[t] = "use" /\ op[t] = "realloc" /\ pc' = [pc EXCEPT ![t] = "unlock"]
        /\ c \notin allocated /\ value' = [value EXCEPT ![obj[t]] = c]
        /\ allocated' = (allocated \ {Mine(t)}) \cup {c} /\ stray' = Moved(t, c)
        /\ content' = [content EXCEPT ![c] = 0]
        /\ UNCHANGED <<live, freeMemory, master, copies, lock, op, obj, src, tmp>>
    BY DEF SetValues, Goto
  <1>2. PICK o \in live : o = obj[t]
    BY <1>1, MyCell
  <1>3. PICK d \in Cells : d = Mine(t)
    BY <1>1, MyCell
  <1>4. /\ TypeOK /\ Locks(t) /\ o \in Objects /\ live \subseteq Objects /\ c # Null
        /\ freeMemory[o] /\ copies[o] = {} /\ lock[o] = t /\ value[o] = d /\ d \in allocated
        /\ d # c /\ d # Null
    <2>1. Operands(t) /\ Locks(t) /\ TypeOK
      BY DEF SharedInv
    <2>2. freeMemory[o] /\ copies[o] = {} /\ lock[o] = t
      BY <1>1, <1>2, <2>1 DEF Operands, Locks, Inside
    <2> QED
      BY <1>1, <1>2, <1>3, <2>1, <2>2, MyCell, SharedValueAssumption DEF TypeOK
  <1>5. Freeing /\ Present /\ Sole /\ Freed /\ master[o] = Null
    BY <1>4 DEF SharedInv, Owners, Freeing
  <1>6. \A x \in live : value[x] = d => x = o
    BY <1>4, <1>5, SameMaster
  <1>7. /\ \A x \in Objects : value'[x] = (IF x = o THEN c ELSE value[x])
        /\ pc'[t] = "unlock" /\ \A u \in Threads \ {t} : pc'[u] = pc[u]
        /\ \A e \in Cells \ {c} : content'[e] = content[e]
        /\ \A e \in Cells : e \in allocated' <=> (e = c \/ (e \in allocated /\ e # d))
        /\ \A e \in Cells : e \in stray' <=> IF e = c THEN d \in stray ELSE e \in stray /\ e # d
    <2>1. stray \subseteq allocated /\ allocated \subseteq Cells
      BY <1>4 DEF TypeOK
    <2>2. \A e \in Cells : e \in stray' <=> IF e = c THEN d \in stray ELSE e \in stray /\ e # d
      BY <1>1, <1>3, <1>4, <2>1 DEF Moved
    <2> QED
      BY <1>1, <1>2, <1>3, <1>4, <2>2 DEF TypeOK
  <1>8. TypeOK'
    <2>1. stray' \subseteq allocated' /\ allocated' \subseteq Cells
      BY <1>1, <1>3, <1>4 DEF TypeOK, Moved
    <2>2. 0 \in Values
      BY SharedValueAssumption DEF Values
    <2> QED
      BY <1>1, <1>4, <2>1, <2>2 DEF TypeOK
  <1>9. Dead'
    BY <1>1, <1>4, <1>7 DEF SharedInv, Dead
  <1>10. Families'
    <2> SUFFICES ASSUME NEW x \in Objects PROVE Family(x)'
      BY DEF Families
    <2>1. Family(x)
      BY DEF SharedInv, Families
    <2>2. master[x] # Null => x # o /\ master[x] # o /\ master[x] \in Objects
      BY <1>4, <1>5, <2>1 DEF Family
    <2> QED
      BY <1>1, <1>4, <1>7, <2>1, <2>2 DEF Family
  <1>11. Owners'
    <2>1. Freeing'
      BY <1>1, <1>4, <1>5, <1>7 DEF Freeing
    <2>2. Present'
      <3>1. \A x \in live : value[x] \in allocated => value[x] \in Cells
        BY <1>4 DEF TypeOK
      <3> QED
        BY <1>1, <1>4, <1>5, <1>6, <1>7, <3>1 DEF Present
    <2>3. Sole'
      <3>1. \A x \in live : value[x] # c
        BY <1>1, <1>4, <1>5 DEF Present
      <3> QED
        BY <1>1, <1>4, <1>5, <1>7, <3>1 DEF Sole
    <2>4. Freed'
      <3> SUFFICES ASSUME NEW e \in allocated' PROVE \E x \in live' : freeMemory'[x] /\ value'[x] = e
        BY DEF Freed
      <3>1. CASE e = c
        BY <1>1, <1>4, <1>7, <3>1
      <3>2. CASE e # c
        <4>1. e \in allocated /\ e # d
          BY <1>1, <1>3, <3>2
        <4>2. PICK x \in live : freeMemory[x] /\ value[x] = e
          BY <1>5, <4>1 DEF Freed
        <4> QED
          BY <1>1, <1>4, <1>7, <4>1, <4>2
      <3> QED
        BY <3>1, <3>2
    <2> QED
      BY <2>1, <2>2, <2>3, <2>4 DEF Owners
  <1>12. ASSUME NEW u \in Threads
         PROVE  Operands(u)' /\ Locks(u)' /\ Strays(u)' /\ Loaded(u)'
    <2>1. Operands(u) /\ Locks(u) /\ Strays(u) /\ Loaded(u)
      BY DEF SharedInv
    <2>2. pc[u] # "idle" => /\ obj[u] \in live /\ obj[u] \in Objects /\ Mine(u) \in Cells
                            /\ Mine(u) = value[obj[u]] /\ Mine(u) \in allocated
      BY MyCell
    <2>3. pc[u] # "idle" => /\ Mine(u)' = (IF obj[u] = o THEN c ELSE Mine(u)) /\ Mine(u)' # Null
                            /\ obj[u] # o => Mine(u) # d /\ Mine(u) # c
                            /\ obj[u] = o => Mine(u) = d
      BY <1>1, <1>4, <1>6, <1>7, <2>2, SharedValueAssumption DEF Mine
    <2>4. pc[u] # "idle" => (Mine(u)' \in stray' <=> Mine(u) \in stray)
      BY <1>7, <2>2, <2>3
    <2>5. /\ pc'[u] # "idle" <=> pc[u] # "idle"
          /\ Inside(u)' <=> Inside(u)
          /\ pc'[u] = pc[u] \/ (u = t /\ pc'[u] = "unlock")
      BY <1>1, <1>7 DEF Inside
    <2>6. Operands(u)'
      <3>1. pc[u] \in {"other", "load"} => value'[src[u]] # Null
        <4>1. pc[u] \in {"other", "load"} => src[u] \in Objects
          BY <1>4, <2>1 DEF Operands
        <4> QED
          BY <1>4, <1>7, <2>1, <4>1 DEF Operands
      <3> QED
        BY <1>1, <2>1, <2>2, <2>3, <2>5, <3>1 DEF Operands, Mine
    <2>7. Locks(u)' /\ Strays(u)'
      BY <1>1, <2>1, <2>4, <2>5 DEF Locks, Strays, Inside
    <2>8. Loaded(u)'
      <3> SUFFICES ASSUME pc[u] = "store", op[u] \in {"add", "set"}, Mine(u) \notin stray, u # t
                   PROVE  content'[Mine(u)'] = tmp[u]
        BY <1>1, <2>4, <2>5, <1>7 DEF Loaded
      <3>1. lock[obj[u]] = u
        BY <2>1 DEF Locks, Inside
      <3>2. obj[u] # o
        BY <1>4, <3>1
      <3> QED
        BY <1>7, <2>1, <2>2, <2>3, <3>2 DEF Loaded
    <2> QED
      BY <2>6, <2>7, <2>8
  <1> QED
    BY <1>8, <1>9, <1>10, <1>11, <1>12 DEF SharedInv

-----------------------------------------------------------------------------
(* The theorems.                                                           *)

LEMMA SharedInit == Init => SharedInv
  <1> SUFFICES ASSUME Init PROVE SharedInv
    OBVIOUS
  <1>1. TypeOK
    <2>1. 0 \in Values /\ Null \in Objects \cup {Null}
      BY SharedValueAssumption DEF Values
    <2> QED
      BY <2>1 DEF Init, TypeOK, Ops
  <1>2. Dead /\ Families /\ Owners
    BY SharedValueAssumption
       DEF Init, Dead, Families, Family, Owners, Freeing, Present, Sole, Freed
  <1>3. \A t \in Threads : Operands(t) /\ Locks(t) /\ Strays(t) /\ Loaded(t)
    BY SharedValueAssumption DEF Init, Operands, Locks, Strays, Loaded, Inside
  <1> QED
    BY <1>1, <1>2, <1>3 DEF SharedInv

LEMMA SharedStep == SharedInv /\ [Next]_vars => SharedInv'
  <1> SUFFICES ASSUME SharedInv, [Next]_vars PROVE SharedInv'
    OBVIOUS
  <1>1. CASE UNCHANGED vars
    <2>1. UNCHANGED <<live, value, freeMemory, master, copies, lock, allocated, content, stray,
                      pc, op, obj, src, tmp>>
      BY <1>1 DEF vars, objVars, memVars, opVars
    <2>2. TypeOK'
      BY <2>1 DEF SharedInv, TypeOK
    <2>3. Dead' /\ Families' /\ Owners'
      BY <2>1, ObjectsKept DEF objVars
    <2>4. \A t \in Threads : Operands(t)' /\ Locks(t)' /\ Strays(t)' /\ Loaded(t)'
      BY <2>1 DEF SharedInv, Operands, Locks, Strays, Loaded, Inside, Mine
    <2> QED
      BY <2>2, <2>3, <2>4 DEF SharedInv
  <1>2. CASE Structure
    BY <1>2, MakeEmptyKeeps, DestroyKeeps, MakeKeeps, CopyKeeps DEF Structure
  <1>3. ASSUME NEW t \in Threads, Step(t) PROVE SharedInv'
    BY <1>3, EnterKeeps, UseKeeps, EnterOtherKeeps, LoadOtherKeeps, LeaveOtherKeeps,
       LeaveKeeps, SetValuesKeeps, StoreKeeps DEF Step
  <1>4. ASSUME NEW t \in Threads, Operate(t) PROVE SharedInv'
    BY <1>4, BeginKeeps DEF Operate
  <1> QED
    BY <1>1, <1>2, <1>3, <1>4 DEF Next

(* The types, and the invariant the other theorems follow from.            *)
THEOREM SharedTypeCorrect == Spec => []TypeOK
  <1>1. SharedInv => TypeOK
    BY DEF SharedInv
  <1> QED
    BY <1>1, SharedInit, SharedStep, PTL DEF Spec

THEOREM SharedInvariant == Spec => []SharedInv
  BY SharedInit, SharedStep, PTL DEF Spec

(* Masters and copies know each other, whatever is copied, assigned to and *)
(* destroyed.                                                              *)
THEOREM CopiesKnownCorrect == Spec => []CopiesKnown
  <1>1. SharedInv => CopiesKnown
    BY DEF SharedInv, Families, Family, CopiesKnown, TypeOK
  <1> QED
    BY <1>1, SharedInvariant, PTL

(* Each cell in use has one object that will free it, and no object has a  *)
(* cell that has been freed.                                               *)
THEOREM CellsOwnedCorrect == Spec => []CellsOwned
  <1>1. SharedInv => CellsOwned
    <2> SUFFICES ASSUME SharedInv, NEW c \in allocated
                 PROVE  Cardinality({o \in live : value[o] = c /\ freeMemory[o]}) = 1
      BY DEF CellsOwned, SharedInv, Owners, Present
    <2>1. PICK o \in live : freeMemory[o] /\ value[o] = c
      BY DEF SharedInv, Owners, Freed
    <2>2. {x \in live : value[x] = c /\ freeMemory[x]} = {o}
      BY <2>1 DEF SharedInv, Owners, Sole
    <2> QED
      BY <2>2, FS_Singleton
  <1> QED
    BY <1>1, SharedInvariant, PTL

(* A change made through the master under its lock is not lost.            *)
THEOREM UpdatesAtomicCorrect == Spec => []UpdatesAtomic
  <1>1. SharedInv => UpdatesAtomic
    BY DEF SharedInv, Loaded, UpdatesAtomic
  <1> QED
    BY <1>1, SharedInvariant, PTL

(* Locks belong to operations, and operations block each other only in a   *)
(* circle of operations on two objects.                                    *)
THEOREM OnlyCrossingsBlockCorrect == Spec => []OnlyCrossingsBlock
  <1>1. SharedInv => OnlyCrossingsBlock
    <2> SUFFICES ASSUME SharedInv PROVE OnlyCrossingsBlock
      OBVIOUS
    <2>1. ASSUME NEW o \in Objects, lock[o] # Null
          PROVE  /\ lock[o] \in Threads /\ Inside(lock[o]) /\ lock[o] \in Busy
                 /\ \/ o = obj[lock[o]]
                    \/ o = src[lock[o]] /\ pc[lock[o]] \in {"load", "leave"}
      <3>1. lock[o] \in Threads
        BY <2>1 DEF SharedInv, TypeOK
      <3> QED
        BY <2>1, <3>1 DEF SharedInv, Locks, Inside, Busy
    <2>2. ASSUME Waiting = Threads, NEW t \in Threads
          PROVE  \E u \in Threads \ {t} : pc[u] = "other" /\ obj[u] = Wanted(t)
      <3>1. \A x \in Threads : \/ pc[x] = "lock" /\ lock[obj[x]] # Null
                               \/ pc[x] = "other" /\ lock[src[x]] \notin {Null, x}
        BY <2>2 DEF Waiting
      <3>2. /\ Wanted(t) \in Objects /\ lock[Wanted(t)] # Null
            /\ pc[t] = "other" => lock[Wanted(t)] # t
        BY <3>1, MyCell DEF Wanted, SharedInv, Operands, TypeOK
      <3>3. lock[Wanted(t)] \in Threads /\ pc[lock[Wanted(t)]] = "other"
            /\ obj[lock[Wanted(t)]] = Wanted(t)
        BY <2>1, <3>1, <3>2 DEF Inside
      <3>4. lock[Wanted(t)] # t
        BY <3>1, <3>2, <3>3
      <3> QED
        BY <3>3, <3>4
    <2> QED
      BY <2>1, <2>2 DEF OnlyCrossingsBlock
  <1> QED
    BY <1>1, SharedInvariant, PTL
=============================================================================
