----------------------- MODULE HandleRegistryProofs -----------------------
(***************************************************************************)
(* Proofs about the registry of HANDLEs, for any number of callers,        *)
(* HANDLEs and names.  Whatever the callers do, the list of semaphores has *)
(* one entry for a sem_t; and as long as their uses of it do not cross, a  *)
(* semaphore that is closed is off the list before its memory goes.        *)
(***************************************************************************)
EXTENDS HandleRegistry, FiniteSetTheorems, WellFoundedInduction, TLAPS

-----------------------------------------------------------------------------
(* The invariant                                                           *)

Busy(t)   == pc[t] # "idle"
IsSema(h) == status[h] # "none" /\ type[h] = "semaphore"

(* The HANDLE a caller is at is in the state its place says.               *)
PlaceOK(t) ==
    /\ ~Busy(t) => obj[t] = None
    /\ Busy(t) => obj[t] \in Handles
    /\ pc[t] \in {"listing", "register"} => status[obj[t]] = "building"
    /\ pc[t] \in {"unlist", "unregister"} => status[obj[t]] = "closing"
    /\ pc[t] \in {"listing", "unlist"} => type[obj[t]] = "semaphore"
    /\ pc[t] = "listing" => ~IsCopy(obj[t])
    /\ pc[t] = "register" /\ type[obj[t]] = "thread" => current[t] = obj[t]

(* Two callers are at different HANDLEs, and at different names.           *)
Apart(t, u) ==
    Busy(t) /\ Busy(u) =>
        /\ obj[t] # obj[u]
        /\ type[obj[t]] = "semaphore" /\ type[obj[u]] = "semaphore"
               => name[obj[t]] # name[obj[u]]

(* The HANDLE of a thread is its own; it is open unless it is being made.  *)
CurrentOK(t) ==
    current[t] # None =>
        /\ type[current[t]] = "thread"
        /\ status[current[t]] = "open" \/ (pc[t] = "register" /\ obj[t] = current[t])

(* A HANDLE that is being made or closed has a caller at it.               *)
Held(h) ==
    status[h] \in {"building", "closing"} => \E t \in Callers : Busy(t) /\ obj[t] = h

Control ==
    /\ \A t \in Callers : PlaceOK(t) /\ CurrentOK(t)
    /\ \A t, u \in Callers : t # u => /\ Apart(t, u)
                                      /\ current[t] # None => current[t] # current[u]
    /\ \A h \in Handles : Held(h)
    /\ exit # "no" => \A t \in Callers : ~Busy(t)

(* What is not a semaphore in use stands for itself only; a sem_t has the  *)
(* name of the semaphores that share it; a copy is a copy of a source.     *)
FormOK(h) ==
    /\ ~IsSema(h) => sem[h] = h /\ source[h] = h
    /\ IsSema(h) => name[h] \in Names /\ IsSema(sem[h]) /\ name[sem[h]] = name[h]
    /\ IsCopy(h) => IsSema(source[h]) /\ ~IsCopy(source[h])

(* A name that is linked stands for the sem_t of a source of that name.    *)
LinkOK(n) ==
    linked[n] # None =>
        IsSema(linked[n]) /\ name[linked[n]] = n /\ ~IsCopy(linked[n])

Forms ==
    /\ \A h \in Handles : FormOK(h)
    /\ \A n \in Names : LinkOK(n)

(* The list has sources only, one for a sem_t, and none of the sem_t that  *)
(* is about to be added.                                                   *)
Listed ==
    /\ \A i \in DOMAIN semaList : IsSema(semaList[i]) /\ ~IsCopy(semaList[i])
    /\ \A i, j \in DOMAIN semaList : sem[semaList[i]] = sem[semaList[j]] => i = j
    /\ \A t \in Callers : pc[t] = "listing" =>
           \A i \in DOMAIN semaList : sem[semaList[i]] # sem[obj[t]]

(* While uses of the list have not crossed, a scan has met every entry but *)
(* those between i and N, and who has scanned it leaves none of its sem_t. *)
ScanOK(t) ==
    /\ pc[t] = "unlist" =>
           /\ scan[t].n <= Len(semaList)
           /\ \A j \in DOMAIN semaList :
                  j < scan[t].i \/ j > scan[t].n => sem[semaList[j]] # sem[obj[t]]
    /\ pc[t] = "unregister" /\ type[obj[t]] = "semaphore" =>
           \A j \in DOMAIN semaList : sem[semaList[j]] # sem[obj[t]]

Uncrossed ==
    ~raced => /\ \A i \in DOMAIN semaList : status[semaList[i]] # "freed"
              /\ \A t \in Callers : ScanOK(t)

(* While no copy has been closed either, every source has a sem_t of its   *)
(* own and is in the list, and what a name stands for is alive.            *)
SourceOK(h) ==
    IsSema(h) /\ ~IsCopy(h) =>
        /\ sem[h] = h
        /\ status[h] \in {"building", "open"} =>
               h \in Entries \/ \E t \in Callers : pc[t] = "listing" /\ obj[t] = h

Sources ==
    ~raced /\ ~copyClosed =>
        /\ \A h \in Handles : SourceOK(h)
        /\ \A n \in Names : linked[n] # None => status[linked[n]] \in {"building", "open"}
        /\ \A t \in Callers : pc[t] = "unlist" => ~IsCopy(obj[t])

RegistryInv ==
    TypeOK /\ Control /\ Forms /\ RegistryExact /\ CountersOutliveCopies
        /\ Listed /\ Uncrossed /\ Sources

-----------------------------------------------------------------------------
(* Sequences and least elements                                            *)

(* RemoveAt takes one entry out and moves those behind it up by one.       *)
LEMMA RemoveAtProperties ==
    ASSUME NEW S, NEW s \in Seq(S), NEW i \in 1 .. Len(s)
    PROVE  /\ RemoveAt(s, i) \in Seq(S)
           /\ Len(RemoveAt(s, i)) = Len(s) - 1
           /\ \A j \in 1 .. Len(s) - 1 :
                  RemoveAt(s, i)[j] = IF j < i THEN s[j] ELSE s[j + 1]
<1> DEFINE a == SubSeq(s, 1, i - 1)
           b == SubSeq(s, i + 1, Len(s))
<1>1. a \in Seq(S) /\ Len(a) = i - 1 /\ \A j \in 1 .. i - 1 : a[j] = s[j]
  OBVIOUS
<1>2. b \in Seq(S) /\ Len(b) = Len(s) - i /\ \A j \in 1 .. Len(s) - i : b[j] = s[i + j]
  OBVIOUS
<1>3. RemoveAt(s, i) = a \o b
  BY DEF RemoveAt
<1> HIDE DEF a, b
<1>4. i \in Nat /\ i >= 1 /\ i <= Len(s) /\ Len(s) \in Nat
  OBVIOUS
<1>5. a \o b \in Seq(S) /\ Len(a \o b) = Len(s) - 1
  BY <1>1, <1>2, <1>4
<1>6. ASSUME NEW j \in 1 .. Len(s) - 1
      PROVE  (a \o b)[j] = IF j < i THEN s[j] ELSE s[j + 1]
  <2>1. (a \o b)[j] = IF j <= Len(a) THEN a[j] ELSE b[j - Len(a)]
    BY <1>1, <1>2, <1>4
  <2>2. CASE j < i
    BY <2>1, <2>2, <1>1, <1>4
  <2>3. CASE ~(j < i)
    <3>1. j - Len(a) \in 1 .. Len(s) - i /\ i + (j - Len(a)) = j + 1 /\ ~(j <= Len(a))
      BY <2>3, <1>1, <1>4
    <3>2. b[j - Len(a)] = s[j + 1]
      <4>1. \A k \in 1 .. Len(s) - i : b[k] = s[i + k]
        BY <1>2
      <4>2. b[j - Len(a)] = s[i + (j - Len(a))]
        BY <3>1, <4>1, Zenon
      <4> QED
        BY <3>1, <4>2, Zenon
    <3>3. QED
      BY <2>1, <2>3, <3>1, <3>2
  <2>4. QED
    BY <2>2, <2>3
<1>7. QED
  BY <1>3, <1>5, <1>6

(* What RemoveAt leaves are the entries at the other places.               *)
LEMMA RemoveAtLeaves ==
    ASSUME NEW S, NEW s \in Seq(S), NEW i \in DOMAIN s, NEW r, r = RemoveAt(s, i)
    PROVE  /\ r \in Seq(S) /\ Len(r) = Len(s) - 1
           /\ \A j \in DOMAIN r : IF j < i THEN j \in DOMAIN s /\ r[j] = s[j]
                                          ELSE j + 1 \in DOMAIN s /\ r[j] = s[j + 1]
           /\ \A k \in DOMAIN s : k # i => \E j \in DOMAIN r : r[j] = s[k]
<1>1. i \in 1 .. Len(s) /\ DOMAIN s = 1 .. Len(s) /\ Len(s) \in Nat
  <2>1. DOMAIN s = 1 .. Len(s) /\ Len(s) \in Nat
    OBVIOUS
  <2> QED
    BY <2>1, Zenon
<1>2. /\ r \in Seq(S) /\ Len(r) = Len(s) - 1
      /\ \A j \in 1 .. Len(s) - 1 : r[j] = IF j < i THEN s[j] ELSE s[j + 1]
  BY <1>1, RemoveAtProperties, Zenon
<1>3. DOMAIN r = 1 .. Len(s) - 1
  <2>1. r \in Seq(S) /\ Len(r) = Len(s) - 1
    BY <1>2, Zenon
  <2>2. DOMAIN r = 1 .. Len(r)
    BY <2>1
  <2> QED
    BY <2>1, <2>2, Zenon
<1>4. ASSUME NEW k \in DOMAIN s, k # i
      PROVE  \E j \in DOMAIN r : r[j] = s[k]
  <2>1. CASE k < i
    BY <1>1, <1>2, <1>3, <2>1
  <2>2. CASE k > i
    <3>1. k - 1 \in 1 .. Len(s) - 1 /\ ~(k - 1 < i) /\ (k - 1) + 1 = k
      BY <1>1, <2>2
    <3>2. QED
      BY <1>2, <1>3, <3>1
  <2>3. QED
    BY <1>1, <1>4, <2>1, <2>2
<1>5. QED
  BY <1>1, <1>2, <1>3, <1>4

(* A set of natural numbers that is not empty has a least element.         *)
Below == {ss \in Nat \X Nat : ss[1] < ss[2]}

LEMMA Least ==
    ASSUME NEW T, T \subseteq Nat, T # {}
    PROVE  \E x \in T : \A y \in T : x <= y
<1>1. OpToRel(<, Nat) = Below
  BY Zenon DEF OpToRel, Below
<1>2. IsWellFoundedOn(Below, Nat)
  BY <1>1, NatLessThanWellFounded, Zenon
<1>3. PICK x \in T : \A y \in T : ~ (<<y, x>> \in Below)
  BY <1>2, WFMin, Zenon
<1>4. ASSUME NEW y \in T
      PROVE  x <= y
  <2>1. x \in Nat /\ y \in Nat /\ ~ (<<y, x>> \in Below)
    BY <1>3
  <2>2. <<y, x>> \in Nat \X Nat /\ <<y, x>>[1] = y /\ <<y, x>>[2] = x
    BY <2>1
  <2>3. y < x => <<y, x>> \in Below
    BY <2>2, Zenon DEF Below
  <2>4. QED
    BY <2>1, <2>3
<1>5. QED
  BY <1>4

-----------------------------------------------------------------------------
(* What the invariant says of a lookup                                     *)

(* First finds an entry if there is any.                                   *)
LEMMA FirstFinds ==
    ASSUME TypeOK, NEW found, found \subseteq DOMAIN semaList
    PROVE  /\ found = {} => First(found) = None
           /\ found # {} => /\ First(found) # None
                            /\ \E i \in found : First(found) = semaList[i]
<1>1. DOMAIN semaList \subseteq Nat /\ \A i \in DOMAIN semaList : semaList[i] \in Handles
  BY DEF TypeOK
<1>2. CASE found = {}
  BY <1>2 DEF First
<1>3. CASE found # {}
  <2>1. \E i \in found : \A j \in found : i <= j
    BY <1>1, <1>3, Least
  <2>2. \E i \in found : First(found) = semaList[i]
    BY <1>3, <2>1 DEF First
  <2>3. QED
    BY <1>1, <1>3, <2>2, RegistryAssumption
<1>4. QED
  BY <1>2, <1>3

(* OpenSemaphore finds nothing only if no entry has the sem_t or the name; *)
(* what it finds is in the list.                                           *)
LEMMA FindFinds ==
    ASSUME TypeOK, NEW n \in Names
    PROVE  /\ FindSemaphoreHANDLE(n) = None =>
                  \A i \in DOMAIN semaList : /\ sem[semaList[i]] # linked[n]
                                             /\ name[semaList[i]] # n
           /\ FindSemaphoreHANDLE(n) # None =>
                  \E i \in DOMAIN semaList : FindSemaphoreHANDLE(n) = semaList[i]
<1> DEFINE A == {i \in DOMAIN semaList : sem[semaList[i]] = linked[n]}
           B == {i \in DOMAIN semaList : name[semaList[i]] = n}
<1>1. FindSemaphoreHANDLE(n) = IF First(A) # None THEN First(A) ELSE First(B)
  BY DEF FindSemaphoreHANDLE
<1>2. /\ A = {} => First(A) = None
      /\ A # {} => First(A) # None /\ \E i \in A : First(A) = semaList[i]
  BY FirstFinds
<1>3. /\ B = {} => First(B) = None
      /\ B # {} => First(B) # None /\ \E i \in B : First(B) = semaList[i]
  BY FirstFinds
<1>4. QED
  BY <1>1, <1>2, <1>3

-----------------------------------------------------------------------------
(* Callers and the HANDLEs they are at                                     *)

(* The types of what the steps below update.                               *)
LEMMA Functions ==
    ASSUME TypeOK
    PROVE  /\ DOMAIN status = Handles /\ DOMAIN type = Handles /\ DOMAIN name = Handles
           /\ DOMAIN sem = Handles /\ DOMAIN source = Handles /\ DOMAIN refs = Handles
           /\ DOMAIN drained = Handles /\ DOMAIN owner = Handles
           /\ DOMAIN linked = Names /\ DOMAIN current = Callers
           /\ DOMAIN pc = Callers /\ DOMAIN obj = Callers /\ DOMAIN scan = Callers
           /\ None \notin Handles /\ None \notin Callers /\ None \notin Names
BY RegistryAssumption DEF TypeOK

(* Everything about the other HANDLEs stays.                               *)
OthersKept(h) ==
    \A g \in Handles \ {h} :
        /\ status'[g] = status[g] /\ type'[g] = type[g] /\ name'[g] = name[g]
        /\ sem'[g] = sem[g] /\ source'[g] = source[g]

(* Making a HANDLE takes an unused one, and a name nobody is at.           *)
LEMMA CreateControl ==
    ASSUME TypeOK, Control, NEW t \in Callers, NEW h \in Handles,
           NEW place \in {"listing", "register"},
           Calls(t), New(h), OthersKept(h), status'[h] = "building",
           Goto(t, place, h), exit' = exit,
           place = "listing" => type'[h] = "semaphore" /\ source'[h] = h,
           type'[h] = "semaphore" => NameFree(name'[h]),
           type'[h] = "thread" => current[t] = None /\ current' = [current EXCEPT ![t] = h],
           type'[h] # "thread" => current' = current
    PROVE  Control'
<1>1. /\ ~Busy(t) /\ status[h] = "none" /\ exit = "no"
      /\ pc'[t] = place /\ obj'[t] = h
      /\ \A u \in Callers : u # t => pc'[u] = pc[u] /\ obj'[u] = obj[u]
  BY Functions DEF Calls, New, Goto, Busy
<1>2. /\ current'[t] # current[t] => type'[h] = "thread" /\ current'[t] = h
      /\ type'[h] = "thread" => current'[t] = h
      /\ \A u \in Callers : u # t => current'[u] = current[u]
  BY Functions
<1>c. \A u \in Callers : current[u] # None => current[u] \in Handles \ {h}
  <2> SUFFICES ASSUME NEW u \in Callers, current[u] # None
               PROVE  current[u] \in Handles \ {h}
    OBVIOUS
  <2>1. PlaceOK(u) /\ CurrentOK(u) /\ current[u] \in Handles
    BY DEF Control, TypeOK
  <2> QED
    BY <1>1, <2>1 DEF PlaceOK, CurrentOK
<1>o. \A u \in Callers : Busy(u) => obj[u] \in Handles \ {h}
  <2> SUFFICES ASSUME NEW u \in Callers, Busy(u)
               PROVE  obj[u] \in Handles \ {h}
    OBVIOUS
  <2>1. PlaceOK(u) /\ pc[u] \in Places
    BY DEF Control, TypeOK
  <2> QED
    BY <1>1, <2>1 DEF PlaceOK, Busy, Places
<1>3. ASSUME NEW u \in Callers
      PROVE  PlaceOK(u)'
  <2>1. CASE u = t
    BY <2>1, <1>1, <1>2 DEF PlaceOK, Busy, IsCopy
  <2>2. CASE u # t
    <3>1. PlaceOK(u) /\ pc'[u] = pc[u] /\ obj'[u] = obj[u] /\ current'[u] = current[u]
      BY <1>1, <1>2, <2>2 DEF Control
    <3>2. Busy(u) => obj[u] \in Handles \ {h}
      BY <1>o
    <3> QED
      BY <3>1, <3>2 DEF PlaceOK, Busy, IsCopy, OthersKept
  <2> QED
    BY <2>1, <2>2
<1>4. ASSUME NEW u \in Callers
      PROVE  CurrentOK(u)'
  <2>1. CASE current'[u] = current[u]
    <3>1. CurrentOK(u) /\ (current[u] # None => current[u] \in Handles \ {h})
      BY <1>c DEF Control
    <3>2. u = t => pc[u] # "register"
      BY <1>1 DEF Busy
    <3> QED
      BY <1>1, <2>1, <3>1, <3>2 DEF CurrentOK, OthersKept
  <2>2. CASE current'[u] # current[u]
    <3>1. u = t /\ current'[u] = h /\ type'[h] = "thread" /\ place = "register"
      BY <1>2, <2>2
    <3> QED
      BY <1>1, <3>1 DEF CurrentOK
  <2> QED
    BY <2>1, <2>2
<1>5. ASSUME NEW u \in Callers, NEW v \in Callers, u # v
      PROVE  Apart(u, v)'
  <2>1. CASE u # t /\ v # t
    <3>1. Apart(u, v) /\ (Busy(u) => obj[u] \in Handles \ {h})
            /\ (Busy(v) => obj[v] \in Handles \ {h})
      BY <1>5, <1>o DEF Control
    <3> QED
      BY <1>1, <2>1, <3>1 DEF Apart, Busy, OthersKept
  <2>2. ASSUME NEW w \in Callers, w # t, Busy(w)
        PROVE  /\ obj[w] # h /\ obj[w] \in Handles \ {h}
               /\ type'[h] = "semaphore" /\ type[obj[w]] = "semaphore"
                      => name[obj[w]] # name'[h]
    BY <1>o, <2>2 DEF NameFree, Busy
  <2>3. CASE u = t
    BY <1>1, <1>5, <2>2, <2>3 DEF Apart, Busy, OthersKept
  <2>4. CASE v = t
    BY <1>1, <1>5, <2>2, <2>4 DEF Apart, Busy, OthersKept
  <2> QED
    BY <2>1, <2>3, <2>4
<1>6. ASSUME NEW u \in Callers, NEW v \in Callers, u # v, current'[u] # None
      PROVE  current'[u] # current'[v]
  <2>1. /\ current[u] # None => current[u] # current[v] /\ current[u] # h
        /\ current[v] # None => current[v] # current[u] /\ current[v] # h
        /\ h # None
    BY <1>6, <1>c, Functions DEF Control
  <2> QED
    BY <1>2, <1>6, <2>1
<1>7. ASSUME NEW g \in Handles
      PROVE  Held(g)'
  <2>1. CASE g = h
    BY <1>1, <2>1 DEF Held, Busy
  <2>2. CASE g # h
    <3>1. Held(g) /\ status'[g] = status[g]
      BY <2>2 DEF Control, OthersKept
    <3> QED
      BY <1>1, <3>1 DEF Held, Busy
  <2> QED
    BY <2>1, <2>2
<1> QED
  BY <1>1, <1>3, <1>4, <1>5, <1>6, <1>7 DEF Control

(* Steps that leave the callers and their HANDLEs alone keep Control.      *)
LEMMA ControlKept ==
    ASSUME Control, UNCHANGED <<status, type, name, source, current, pc, obj>>,
           exit' # "no" => exit # "no" \/ \A t \in Callers : ~Busy(t)
    PROVE  Control'
BY DEF Control, PlaceOK, CurrentOK, Apart, Held, Busy, IsCopy

(* Steps that change the state of one HANDLE with the place of its caller. *)
LEMMA MoveControl ==
    ASSUME TypeOK, Control, NEW t \in Callers, NEW h \in Handles, NEW state, NEW place,
           NEW o \in Handles \cup {None},
           exit = "no", exit' = exit, UNCHANGED <<type, name, source>>,
           status' = [status EXCEPT ![h] = state], Goto(t, place, o),
           obj[t] = h \/ ~Busy(t),
           \A u \in Callers : u # t /\ Busy(u) =>
               /\ obj[u] # h
               /\ type[h] = "semaphore" /\ type[obj[u]] = "semaphore"
                      => name[obj[u]] # name[h],
           \/ o = h /\ place \in {"unlist", "unregister"} /\ state = "closing"
           \/ o = None /\ place = "idle" /\ state \in {"open", "freed"},
           place = "unlist" => type[h] = "semaphore",
           \/ current' = current /\ (state = "open" \/ \A u \in Callers : current[u] # h)
           \/ current[t] = h /\ current' = [current EXCEPT ![t] = None]
    PROVE  Control'
<1>1. /\ pc'[t] = place /\ obj'[t] = o /\ status'[h] = state
      /\ \A u \in Callers : u # t => pc'[u] = pc[u] /\ obj'[u] = obj[u]
      /\ \A g \in Handles : g # h => status'[g] = status[g]
      /\ \A u \in Callers : current'[u] = current[u] \/ (u = t /\ current'[u] = None)
      /\ h # None
  BY Functions DEF Goto
<1>2. ASSUME NEW u \in Callers
      PROVE  PlaceOK(u)'
  <2>1. CASE u = t
    BY <1>1, <2>1 DEF PlaceOK, Busy
  <2>2. CASE u # t
    <3>1. /\ PlaceOK(u) /\ pc'[u] = pc[u] /\ obj'[u] = obj[u] /\ current'[u] = current[u]
          /\ Busy(u) => obj[u] # h
      BY <1>1, <2>2 DEF Control
    <3> QED
      BY <1>1, <3>1 DEF PlaceOK, Busy, IsCopy
  <2> QED
    BY <2>1, <2>2
<1>3. ASSUME NEW u \in Callers, current'[u] # None
      PROVE  CurrentOK(u)'
  <2>1. CurrentOK(u) /\ current'[u] = current[u] /\ current[u] \in Handles
    BY <1>1, <1>3 DEF Control, TypeOK
  <2>2. CASE current[u] = h
    <3>1. state = "open"
      <4>1. CASE current' = current
        BY <2>2, <4>1, <1>3, <2>1, Functions
      <4>2. CASE current' # current
        <5>1. current[t] = h /\ current'[t] = None
          BY <4>2, Functions
        <5>2. u = t
          BY <1>1, <2>2, <5>1 DEF Control
        <5> QED
          BY <1>3, <5>1, <5>2
      <4> QED
        BY <4>1, <4>2
    <3> QED
      BY <1>1, <2>1, <2>2, <3>1 DEF CurrentOK
  <2>3. CASE current[u] # h
    <3>1. u = t => ~(pc[u] = "register" /\ obj[u] = current[u])
      BY <2>3 DEF Busy
    <3> QED
      BY <1>1, <2>1, <2>3, <3>1 DEF CurrentOK
  <2> QED
    BY <2>2, <2>3
<1>4. ASSUME NEW u \in Callers, NEW v \in Callers, u # v
      PROVE  /\ Apart(u, v)'
             /\ current'[u] # None => current'[u] # current'[v]
  <2>1. Apart(u, v) /\ (current[u] # None => current[u] # current[v])
          /\ (current[v] # None => current[v] # current[u])
    BY <1>4 DEF Control
  <2>2. current'[u] # None => current'[u] # current'[v]
    BY <1>1, <2>1
  <2>3. Apart(u, v)'
    <3>1. CASE u # t /\ v # t
      BY <1>1, <2>1, <3>1 DEF Apart, Busy
    <3>2. CASE u = t
      BY <1>1, <1>4, <3>2 DEF Apart, Busy
    <3>3. CASE v = t
      BY <1>1, <1>4, <3>3 DEF Apart, Busy
    <3> QED
      BY <3>1, <3>2, <3>3
  <2> QED
    BY <2>2, <2>3
<1>5. ASSUME NEW g \in Handles
      PROVE  Held(g)'
  <2>1. CASE g = h
    BY <1>1, <2>1 DEF Held, Busy
  <2>2. CASE g # h
    <3>1. Held(g) /\ status'[g] = status[g]
      BY <1>1, <2>2 DEF Control
    <3>2. \A u \in Callers : Busy(u) /\ obj[u] = g => u # t
      BY <2>2
    <3> QED
      BY <1>1, <3>1, <3>2 DEF Held, Busy
  <2> QED
    BY <2>1, <2>2
<1> QED
  BY <1>2, <1>3, <1>4, <1>5 DEF Control, CurrentOK

-----------------------------------------------------------------------------
(* Semaphores, their sem_t and their copies                                *)

LEMMA FormFacts ==
    ASSUME TypeOK, Forms, NEW h \in Handles
    PROVE  /\ sem[h] \in Handles /\ source[h] \in Handles
           /\ ~IsSema(h) => sem[h] = h /\ source[h] = h
           /\ IsSema(h) => name[h] \in Names /\ IsSema(sem[h]) /\ name[sem[h]] = name[h]
           /\ IsCopy(h) => IsSema(source[h]) /\ ~IsCopy(source[h]) /\ IsSema(h)
BY DEF TypeOK, Forms, FormOK, IsCopy

(* A new HANDLE does not change what the others are to each other.         *)
LEMMA CreateForms ==
    ASSUME TypeOK, Forms, NEW h \in Handles, New(h), OthersKept(h), status'[h] = "building",
           type'[h] # "semaphore" => sem'[h] = h /\ source'[h] = h,
           type'[h] = "semaphore" =>
               /\ name'[h] \in Names
               /\ sem'[h] = h \/ (IsSema(sem'[h]) /\ name[sem'[h]] = name'[h])
               /\ source'[h] = h \/ (IsSema(source'[h]) /\ ~IsCopy(source'[h])),
           sem'[h] \in Handles, source'[h] \in Handles,
           \A n \in Names : \/ linked'[n] = linked[n]
                            \/ /\ linked'[n] = h /\ type'[h] = "semaphore"
                               /\ name'[h] = n /\ source'[h] = h
    PROVE  Forms'
<1>1. status[h] = "none" /\ ~IsSema(h)
  BY DEF New, IsSema
<1>2. \A g \in Handles \ {h} :
          /\ IsSema(g)' <=> IsSema(g)
          /\ IsCopy(g)' <=> IsCopy(g)
          /\ name'[g] = name[g] /\ sem'[g] = sem[g] /\ source'[g] = source[g]
  BY DEF OthersKept, IsSema, IsCopy
<1>3. ASSUME NEW g \in Handles
      PROVE  FormOK(g)'
  <2>1. CASE g = h
    <3>1. sem'[h] # h => IsSema(sem'[h]) /\ name[sem'[h]] = name'[h] /\ sem'[h] \in Handles \ {h}
      BY <1>1
    <3>2. source'[h] # h => /\ IsSema(source'[h]) /\ ~IsCopy(source'[h])
                            /\ source'[h] \in Handles \ {h}
      BY <1>1
    <3>3. IsSema(h)' <=> type'[h] = "semaphore"
      BY DEF IsSema
    <3>4. IsSema(h)' => IsSema(sem[h])' /\ name'[sem'[h]] = name'[h]
      BY <1>2, <3>1, <3>3 DEF IsSema
    <3>5. IsCopy(h)' => IsSema(source[h])' /\ ~IsCopy(source[h])'
      BY <1>2, <3>2 DEF IsCopy, IsSema
    <3> QED
      BY <2>1, <3>3, <3>4, <3>5 DEF FormOK
  <2>2. CASE g # h
    <3>1. FormOK(g) /\ sem[g] \in Handles /\ source[g] \in Handles
      BY FormFacts DEF Forms
    <3>2. IsSema(g) => sem[g] \in Handles \ {h}
      BY <1>1, <3>1 DEF FormOK
    <3>3. IsCopy(g) => source[g] \in Handles \ {h}
      BY <1>1, <3>1 DEF FormOK
    <3>4. IsSema(g) => IsSema(sem[g])' /\ name'[sem'[g]] = name'[g]
      <4>1. ASSUME IsSema(g)
            PROVE  IsSema(sem[g])' /\ name'[sem'[g]] = name'[g]
        <5>1. IsSema(sem[g]) /\ name[sem[g]] = name[g] /\ sem[g] \in Handles \ {h}
          BY <3>1, <3>2, <4>1 DEF FormOK
        <5>2. sem'[g] = sem[g] /\ name'[g] = name[g] /\ name'[sem[g]] = name[sem[g]]
          BY <1>2, <2>2, <5>1
        <5>3. status'[sem[g]] = status[sem[g]] /\ type'[sem[g]] = type[sem[g]]
          BY <5>1 DEF OthersKept
        <5> QED
          BY <5>1, <5>2, <5>3 DEF IsSema
      <4> QED
        BY <4>1
    <3>5. IsCopy(g) => IsSema(source[g])' /\ ~IsCopy(source[g])'
      <4>1. ASSUME IsCopy(g)
            PROVE  IsSema(source[g])' /\ ~IsCopy(source[g])'
        <5>1. IsSema(source[g]) /\ ~IsCopy(source[g]) /\ source[g] \in Handles \ {h}
          BY <3>1, <3>3, <4>1 DEF FormOK
        <5>2. source'[g] = source[g] /\ source'[source[g]] = source[source[g]]
          BY <1>2, <2>2, <5>1
        <5>3. status'[source[g]] = status[source[g]] /\ type'[source[g]] = type[source[g]]
          BY <5>1 DEF OthersKept
        <5> QED
          BY <5>1, <5>2, <5>3 DEF IsSema, IsCopy
      <4> QED
        BY <4>1
    <3>6. (IsSema(g)' <=> IsSema(g)) /\ (IsCopy(g)' <=> IsCopy(g))
             /\ name'[g] = name[g] /\ sem'[g] = sem[g] /\ source'[g] = source[g]
      BY <1>2, <2>2
    <3> QED
      BY <3>1, <3>4, <3>5, <3>6 DEF FormOK
  <2> QED
    BY <2>1, <2>2
<1>4. ASSUME NEW n \in Names
      PROVE  LinkOK(n)'
  <2>1. CASE linked'[n] = linked[n]
    <3>1. LinkOK(n) /\ linked[n] \in Handles \cup {None}
      BY DEF Forms, TypeOK
    <3>2. linked[n] # None => linked[n] \in Handles \ {h}
      BY <1>1, <3>1 DEF LinkOK
    <3> QED
      BY <1>2, <2>1, <3>1, <3>2 DEF LinkOK, IsSema, IsCopy
  <2>2. CASE linked'[n] = h /\ type'[h] = "semaphore" /\ name'[h] = n /\ source'[h] = h
    BY <2>2 DEF LinkOK, IsSema, IsCopy
  <2> QED
    BY <2>1, <2>2
<1> QED
  BY <1>3, <1>4 DEF Forms

(* Moving a HANDLE in use on, and taking a name away, keep Forms.          *)
LEMMA MoveForms ==
    ASSUME Forms, UNCHANGED <<type, name, sem, source>>, TypeOK,
           \A h \in Handles : status'[h] = "none" <=> status[h] = "none",
           \A n \in Names : linked'[n] = linked[n] \/ linked'[n] = None
    PROVE  Forms'
<1>1. \A h \in Handles : (IsSema(h)' <=> IsSema(h)) /\ (IsCopy(h)' <=> IsCopy(h))
  BY DEF IsSema, IsCopy
<1>2. ASSUME NEW h \in Handles
      PROVE  FormOK(h)'
  <2>1. FormOK(h) /\ sem[h] \in Handles /\ source[h] \in Handles
    BY DEF Forms, TypeOK
  <2> QED
    BY <1>1, <2>1 DEF FormOK, IsSema, IsCopy
<1>3. ASSUME NEW n \in Names
      PROVE  LinkOK(n)'
  <2>1. LinkOK(n) /\ linked[n] \in Handles \cup {None}
    BY DEF Forms, TypeOK
  <2> QED
    BY <1>1, <2>1 DEF LinkOK, IsSema, IsCopy
<1> QED
  BY <1>2, <1>3 DEF Forms

LEMMA SubsetSize ==
    ASSUME NEW S, S \subseteq Handles
    PROVE  Cardinality(S) \in 0 .. Cardinality(Handles)
<1>1. /\ IsFiniteSet(S) /\ Cardinality(S) <= Cardinality(Handles)
      /\ Cardinality(Handles) \in Nat /\ Cardinality(S) \in Nat
  BY RegistryAssumption, FS_Subset, FS_CardinalityType
<1> QED
  BY <1>1

LEMMA CopiesFinite ==
    ASSUME NEW h \in Handles
    PROVE  /\ IsFiniteSet(Copies(h)) /\ Cardinality(Copies(h)) \in 0 .. Cardinality(Handles)
           /\ Copies(h) \subseteq Handles
           /\ Cardinality(Copies(h)) = 0 <=> Copies(h) = {}
<1>1. Copies(h) \subseteq Handles
  BY DEF Copies
<1>2. /\ IsFiniteSet(Copies(h)) /\ Cardinality(Copies(h)) <= Cardinality(Handles)
      /\ Cardinality(Handles) \in Nat /\ Cardinality(Copies(h)) \in Nat
  BY <1>1, RegistryAssumption, FS_Subset, FS_CardinalityType
<1> QED
  BY <1>1, <1>2, FS_EmptySet

(* Only sources have copies.                                               *)
LEMMA SourcesOfCopies ==
    ASSUME TypeOK, Forms, NEW h \in Handles, Copies(h) # {}
    PROVE  IsSema(h) /\ ~IsCopy(h)
BY DEF Copies, Forms, FormOK

(* Steps that make, open or close no copy keep the counts, if no HANDLE    *)
(* with copies is closed.                                                  *)
LEMMA CountersKept ==
    ASSUME CountersOutliveCopies, UNCHANGED refs, raced => raced',
           \A g \in Handles : Copies(g)' = Copies(g) /\ (Copies(g) # {} /\ Open(g) => Open(g)')
    PROVE  CountersOutliveCopies'
BY DEF CountersOutliveCopies

(* A step that changes no source and leaves the copies in the state they   *)
(* are in changes no set of copies.                                        *)
LEMMA CopiesKept ==
    ASSUME NEW g \in Handles,
           \A c \in Handles : IsCopy(c) \/ IsCopy(c)' =>
               /\ source'[c] = source[c]
               /\ status'[c] \in {"building", "open"} <=> status[c] \in {"building", "open"}
    PROVE  Copies(g)' = Copies(g)
BY DEF Copies, IsCopy

(* A new copy adds one to the count of its source.                         *)
LEMMA CopyAdded ==
    ASSUME TypeOK, Forms, CountersOutliveCopies, NEW h \in Handles, NEW org \in Handles,
           New(h), OthersKept(h), status'[h] = "building", source'[h] = org, org # h,
           refs' = [refs EXCEPT ![org] = @ + 1], raced' = raced, ~raced => Open(org)
    PROVE  CountersOutliveCopies'
<1>1. status[h] = "none" /\ ~IsCopy(h) /\ h \notin Copies(org)
  BY FormFacts DEF New, IsSema, Copies
<1>2. Copies(org)' = Copies(org) \cup {h}
  BY <1>1 DEF Copies, IsCopy, OthersKept
<1>3. ASSUME NEW g \in Handles, g # org
      PROVE  Copies(g)' = Copies(g)
  BY <1>1, <1>3 DEF Copies, IsCopy, OthersKept
<1>4. Cardinality(Copies(org)') = Cardinality(Copies(org)) + 1
  BY <1>1, <1>2, CopiesFinite, FS_AddElement
<1>5. refs'[org] = refs[org] + 1 /\ \A g \in Handles : g # org => refs'[g] = refs[g]
  BY Functions
<1>6. \A g \in Handles \ {h} : Open(g)' <=> Open(g)
  BY DEF OthersKept, Open
<1>7. Copies(h) = {}
  BY <1>1, SourcesOfCopies DEF IsSema
<1>8. ASSUME NEW g \in Handles
      PROVE  /\ refs'[g] = Cardinality(Copies(g)')
             /\ ~raced' /\ Copies(g)' # {} => Open(g)'
  <2>1. CASE g = org
    BY <1>4, <1>5, <1>6, <2>1 DEF CountersOutliveCopies
  <2>2. CASE g # org
    BY <1>3, <1>5, <1>6, <1>7, <2>2 DEF CountersOutliveCopies
  <2> QED
    BY <2>1, <2>2
<1> QED
  BY <1>8 DEF CountersOutliveCopies

(* Closing a copy takes one off the count of its source.                   *)
LEMMA CopyRemoved ==
    ASSUME TypeOK, Forms, CountersOutliveCopies, NEW h \in Handles, IsCopy(h), Open(h),
           UNCHANGED source, status'[h] \notin {"building", "open"},
           \A g \in Handles : g # h => status'[g] = status[g],
           refs' = [refs EXCEPT ![source[h]] = @ - 1], raced' = raced
    PROVE  CountersOutliveCopies'
<1> DEFINE org == source[h]
<1>1. /\ org \in Handles /\ org # h /\ h \in Copies(org) /\ Copies(h) = {}
  BY FormFacts DEF IsCopy, Copies, Open
<1>2. Copies(org)' = Copies(org) \ {h}
  BY <1>1 DEF Copies, IsCopy
<1>3. ASSUME NEW g \in Handles, g # org
      PROVE  Copies(g)' = Copies(g)
  BY <1>3 DEF Copies, IsCopy
<1>4. Cardinality(Copies(org)') = Cardinality(Copies(org)) - 1
  BY <1>1, <1>2, CopiesFinite, FS_RemoveElement
<1>5. refs'[org] = refs[org] - 1 /\ \A g \in Handles : g # org => refs'[g] = refs[g]
  BY <1>1, Functions
<1>6. \A g \in Handles \ {h} : Open(g)' <=> Open(g)
  BY DEF Open
<1>7. ASSUME NEW g \in Handles
      PROVE  /\ refs'[g] = Cardinality(Copies(g)')
             /\ ~raced' /\ Copies(g)' # {} => Open(g)'
  <2>1. CASE g = org
    <3>1. Copies(g) # {} /\ (~raced => Open(g)) /\ refs[g] = Cardinality(Copies(g))
      BY <1>1, <2>1 DEF CountersOutliveCopies
    <3> QED
      BY <1>1, <1>4, <1>5, <1>6, <2>1, <3>1
  <2>2. CASE g # org
    BY <1>1, <1>3, <1>5, <1>6, <2>2 DEF CountersOutliveCopies
  <2> QED
    BY <2>1, <2>2
<1> QED
  BY <1>7 DEF CountersOutliveCopies

-----------------------------------------------------------------------------
(* The list of semaphores                                                  *)

LEMMA ListFacts ==
    ASSUME TypeOK
    PROVE  /\ DOMAIN semaList = 1 .. Len(semaList) /\ Len(semaList) \in Nat
           /\ \A i \in DOMAIN semaList : semaList[i] \in Handles
           /\ \A t \in Callers : scan[t].i \in Nat /\ scan[t].n \in Nat
BY DEF TypeOK

(* Steps that leave the list alone, and are not about to add to it, keep   *)
(* what it is.                                                             *)
LEMMA ListedKept ==
    ASSUME TypeOK, Control, Listed, UNCHANGED semaList,
           \A g \in Handles : IsSema(g) =>
               IsSema(g)' /\ sem'[g] = sem[g] /\ source'[g] = source[g],
           \A u \in Callers : pc'[u] = "listing" =>
               \/ pc[u] = "listing" /\ obj'[u] = obj[u]
               \/ \A i \in DOMAIN semaList : sem[semaList[i]] # sem'[obj'[u]]
    PROVE  Listed'
<1>1. \A i \in DOMAIN semaList :
          /\ semaList[i] \in Handles /\ IsSema(semaList[i]) /\ ~IsCopy(semaList[i])
          /\ IsSema(semaList[i])' /\ ~IsCopy(semaList[i])'
          /\ sem'[semaList[i]] = sem[semaList[i]]
  BY ListFacts DEF Listed, IsCopy
<1>2. ASSUME NEW u \in Callers, pc'[u] = "listing", NEW i \in DOMAIN semaList
      PROVE  sem'[semaList[i]] # sem'[obj'[u]]
  <2>1. CASE pc[u] = "listing" /\ obj'[u] = obj[u]
    <3>1. obj[u] \in Handles /\ IsSema(obj[u])
      BY <2>1 DEF Control, PlaceOK, Busy, IsSema
    <3> QED
      BY <1>1, <2>1, <3>1 DEF Listed
  <2> QED
    BY <1>1, <1>2, <2>1
<1>3. \A i, j \in DOMAIN semaList : sem'[semaList[i]] = sem'[semaList[j]] => i = j
  BY <1>1 DEF Listed
<1> QED
  BY <1>1, <1>2, <1>3 DEF Listed

(* What RemoveAt leaves of the list is what it was.                        *)
LEMMA ListedRemoved ==
    ASSUME TypeOK, Control, Listed, NEW i \in DOMAIN semaList,
           semaList' = RemoveAt(semaList, i), UNCHANGED <<type, sem, source>>,
           \A h \in Handles : status'[h] = "none" <=> status[h] = "none",
           \A u \in Callers : pc'[u] = "listing" => pc[u] = "listing" /\ obj'[u] = obj[u]
    PROVE  /\ Listed'
           /\ semaList' \in Seq(Handles)
           /\ \A j \in DOMAIN semaList' :
                  \E k \in DOMAIN semaList : k # i /\ semaList'[j] = semaList[k]
                      /\ sem[semaList[k]] # sem[semaList[i]]
           /\ \A k \in DOMAIN semaList : k # i =>
                  \E j \in DOMAIN semaList' : semaList'[j] = semaList[k]
<1>1. semaList \in Seq(Handles)
  BY DEF TypeOK
<1>2. /\ semaList' \in Seq(Handles) /\ Len(semaList') = Len(semaList) - 1
      /\ \A j \in DOMAIN semaList' :
             IF j < i THEN j \in DOMAIN semaList /\ semaList'[j] = semaList[j]
                      ELSE j + 1 \in DOMAIN semaList /\ semaList'[j] = semaList[j + 1]
      /\ \A k \in DOMAIN semaList : k # i =>
             \E j \in DOMAIN semaList' : semaList'[j] = semaList[k]
  BY <1>1, RemoveAtLeaves
<1>3. DOMAIN semaList' \subseteq Nat /\ i \in Nat
  BY <1>1, <1>2
<1>4. ASSUME NEW j \in DOMAIN semaList'
      PROVE  /\ IsSema(semaList[j])' /\ ~IsCopy(semaList[j])'
             /\ \E k \in DOMAIN semaList : k # i /\ semaList'[j] = semaList[k]
                      /\ sem[semaList[k]] # sem[semaList[i]]
  <2>1. PICK k \in DOMAIN semaList : k # i /\ semaList'[j] = semaList[k]
    BY <1>2, <1>3
  <2>2. IsSema(semaList[k]) /\ ~IsCopy(semaList[k]) /\ semaList[k] \in Handles
          /\ sem[semaList[k]] # sem[semaList[i]]
    BY <2>1, ListFacts DEF Listed
  <2> QED
    BY <2>1, <2>2 DEF IsSema, IsCopy
<1>5. ASSUME NEW j \in DOMAIN semaList', NEW l \in DOMAIN semaList',
             sem[semaList'[j]] = sem[semaList'[l]]
      PROVE  j = l
  <2> DEFINE k(x) == IF x < i THEN x ELSE x + 1
  <2>1. /\ k(j) \in DOMAIN semaList /\ semaList'[j] = semaList[k(j)]
        /\ k(l) \in DOMAIN semaList /\ semaList'[l] = semaList[k(l)]
    BY <1>2
  <2>2. k(j) = k(l)
    BY <1>5, <2>1 DEF Listed
  <2> QED
    BY <1>3, <2>2
<1>6. ASSUME NEW u \in Callers, pc'[u] = "listing", NEW j \in DOMAIN semaList'
      PROVE  sem'[semaList'[j]] # sem'[obj'[u]]
  <2>1. PICK k \in DOMAIN semaList : semaList'[j] = semaList[k]
    BY <1>4
  <2> QED
    BY <1>6, <2>1 DEF Listed
<1> QED
  BY <1>2, <1>4, <1>5, <1>6 DEF Listed

(* Steps that leave the list, its entries and the scans alone keep what is *)
(* known of the scans.                                                     *)
LEMMA UncrossedKept ==
    ASSUME TypeOK, Uncrossed, UNCHANGED semaList, raced => raced',
           \A i \in DOMAIN semaList :
               /\ sem'[semaList[i]] = sem[semaList[i]]
               /\ status'[semaList[i]] = "freed" => status[semaList[i]] = "freed",
           \A u \in Callers :
               \/ /\ pc'[u] = pc[u] /\ obj'[u] = obj[u] /\ scan'[u] = scan[u]
                  /\ Busy(u) => sem'[obj[u]] = sem[obj[u]] /\ type'[obj[u]] = type[obj[u]]
               \/ pc'[u] \in {"idle", "listing", "register"}
               \/ ~raced' => ScanOK(u)'
    PROVE  Uncrossed'
<1> SUFFICES ASSUME ~raced'
             PROVE  /\ \A i \in DOMAIN semaList : status'[semaList[i]] # "freed"
                    /\ \A u \in Callers : ScanOK(u)'
  BY DEF Uncrossed
<1>1. \A u \in Callers : ScanOK(u)
  BY DEF Uncrossed
<1>2. ASSUME NEW u \in Callers
      PROVE  ScanOK(u)'
  <2>1. CASE /\ pc'[u] = pc[u] /\ obj'[u] = obj[u] /\ scan'[u] = scan[u]
             /\ Busy(u) => sem'[obj[u]] = sem[obj[u]] /\ type'[obj[u]] = type[obj[u]]
    BY <1>1, <2>1 DEF ScanOK, Busy
  <2>2. CASE pc'[u] \in {"idle", "listing", "register"}
    BY <2>2 DEF ScanOK
  <2> QED
    BY <2>1, <2>2
<1> QED
  BY <1>2 DEF Uncrossed

(* Steps that make no source and leave the list alone keep the sources.    *)
LEMMA SourcesKept ==
    ASSUME TypeOK, Sources, UNCHANGED semaList, raced => raced', copyClosed => copyClosed',
           \A h \in Handles : IsSema(h)' /\ ~IsCopy(h)' =>
               /\ IsSema(h) /\ ~IsCopy(h) /\ sem'[h] = sem[h]
               /\ status'[h] \in {"building", "open"} => status[h] \in {"building", "open"},
           \A u \in Callers : pc[u] = "listing" => pc'[u] = "listing" /\ obj'[u] = obj[u],
           ~raced' /\ ~copyClosed' =>
               \A n \in Names : linked'[n] # None =>
                   /\ linked'[n] = linked[n]
                   /\ status[linked[n]] \in {"building", "open"} =>
                          status'[linked[n]] \in {"building", "open"},
           ~raced' /\ ~copyClosed' =>
               \A u \in Callers : pc'[u] = "unlist" =>
                   \/ pc[u] = "unlist" /\ obj'[u] = obj[u] /\ (IsCopy(obj[u])' => IsCopy(obj[u]))
                   \/ ~IsCopy(obj[u])'
    PROVE  Sources'
<1> SUFFICES ASSUME ~raced', ~copyClosed'
             PROVE  /\ \A h \in Handles : SourceOK(h)'
                    /\ \A n \in Names : linked'[n] # None =>
                           status'[linked'[n]] \in {"building", "open"}
                    /\ \A u \in Callers : pc'[u] = "unlist" => ~IsCopy(obj[u])'
  BY DEF Sources
<1>1. /\ \A h \in Handles : SourceOK(h)
      /\ \A n \in Names : linked[n] # None => status[linked[n]] \in {"building", "open"}
      /\ \A u \in Callers : pc[u] = "unlist" => ~IsCopy(obj[u])
  BY DEF Sources
<1>2. Entries' = Entries
  BY DEF Entries
<1>3. ASSUME NEW h \in Handles
      PROVE  SourceOK(h)'
  BY <1>1, <1>2 DEF SourceOK
<1>4. ASSUME NEW u \in Callers, pc'[u] = "unlist"
      PROVE  ~IsCopy(obj[u])'
  BY <1>1, <1>4 DEF IsCopy
<1> QED
  BY <1>1, <1>3, <1>4

-----------------------------------------------------------------------------
(* The steps: waits and releases, and making HANDLEs                       *)

(* Steps that change neither lists nor HANDLEs nor places.                 *)
LEMMA QuietKeeps ==
    ASSUME RegistryInv,
           UNCHANGED <<status, type, name, sem, source, refs, listVars, linked,
                       callerVars, raced, copyClosed>>,
           \A h \in Handles : owner'[h] # owner[h] => Open(h),
           exit' # "no" => exit # "no" \/ \A t \in Callers : ~Busy(t),
           TypeOK'
    PROVE  RegistryInv'
<1> USE DEF callerVars, listVars
<1>1. Control'
  BY ControlKept DEF RegistryInv
<1>2. Forms'
  BY DEF RegistryInv, Forms, FormOK, LinkOK, IsSema, IsCopy
<1>3. RegistryExact'
  BY DEF RegistryInv, RegistryExact, Open
<1>4. CountersOutliveCopies'
  BY DEF RegistryInv, CountersOutliveCopies, Copies, IsCopy, Open
<1>5. Listed'
  BY DEF RegistryInv, Listed, IsSema, IsCopy
<1>6. Uncrossed'
  BY DEF RegistryInv, Uncrossed, ScanOK
<1>7. Sources'
  BY DEF RegistryInv, Sources, SourceOK, IsSema, IsCopy, Entries
<1> QED
  BY <1>1, <1>2, <1>3, <1>4, <1>5, <1>6, <1>7 DEF RegistryInv

LEMMA UseKeeps ==
    ASSUME RegistryInv, NEW h \in Handles, NEW t \in Callers, NEW b \in BOOLEAN,
           Drain(h, b) \/ LockMutex(t, h) \/ ReleaseMutex(t, h) \/ Exit \/ FreeDone
    PROVE  RegistryInv'
<1>1. TypeOK /\ source[h] \in Handles
  BY DEF RegistryInv, TypeOK
<1>2. CASE Drain(h, b)
  <2>1. TypeOK'
    BY <1>1, <1>2 DEF TypeOK, Drain, listVars, callerVars, endVars
  <2> QED
    BY <1>2, <2>1, QuietKeeps DEF Drain, endVars
<1>3. CASE LockMutex(t, h)
  <2>1. TypeOK'
    BY <1>1, <1>3 DEF TypeOK, LockMutex, listVars, callerVars, endVars
  <2> QED
    BY <1>1, <1>3, <2>1, QuietKeeps, Functions DEF LockMutex, endVars
<1>4. CASE ReleaseMutex(t, h)
  <2>1. TypeOK'
    BY <1>1, <1>4 DEF TypeOK, ReleaseMutex, listVars, callerVars, endVars
  <2> QED
    BY <1>1, <1>4, <2>1, QuietKeeps, Functions DEF ReleaseMutex, endVars
<1>5. CASE Exit \/ FreeDone
  <2>1. TypeOK'
    BY <1>1, <1>5 DEF TypeOK, Exit, FreeDone, handleVars, listVars, callerVars
  <2> QED
    BY <1>5, <2>1, QuietKeeps DEF Exit, FreeDone, handleVars, Busy
<1> QED
  BY <1>2, <1>3, <1>4, <1>5

(* Nothing refers to a HANDLE that is not in use.                          *)
LEMMA NewUnused ==
    ASSUME RegistryInv, NEW h \in Handles, New(h)
    PROVE  /\ status[h] = "none" /\ ~IsSema(h) /\ ~IsCopy(h) /\ Copies(h) = {}
           /\ sem[h] = h /\ source[h] = h
           /\ \A i \in DOMAIN semaList : semaList[i] \in Handles \ {h}
           /\ \A u \in Callers : Busy(u) => obj[u] \in Handles \ {h}
           /\ \A n \in Names : linked[n] # None => linked[n] \in Handles \ {h}
           /\ \A g \in Handles \ {h} : sem[g] \in Handles \ {h} /\ source[g] \in Handles \ {h}
<1>1. TypeOK /\ Forms /\ Listed /\ Control
  BY DEF RegistryInv
<1>2. status[h] = "none" /\ ~IsSema(h)
  BY DEF New, IsSema
<1>3. sem[h] = h /\ source[h] = h /\ ~IsCopy(h)
  BY <1>1, <1>2, FormFacts DEF IsCopy
<1>4. Copies(h) = {}
  BY <1>1, <1>2, SourcesOfCopies
<1>5. \A i \in DOMAIN semaList : semaList[i] \in Handles \ {h}
  BY <1>1, <1>2, ListFacts DEF Listed
<1>6. ASSUME NEW u \in Callers, Busy(u)
      PROVE  obj[u] \in Handles \ {h}
  <2>1. PlaceOK(u) /\ pc[u] \in Places
    BY <1>1 DEF Control, TypeOK
  <2> QED
    BY <1>2, <1>6, <2>1 DEF PlaceOK, Busy, Places
<1>7. ASSUME NEW n \in Names, linked[n] # None
      PROVE  linked[n] \in Handles \ {h}
  BY <1>1, <1>2, <1>7 DEF Forms, LinkOK, TypeOK
<1>8. ASSUME NEW g \in Handles \ {h}
      PROVE  sem[g] \in Handles \ {h} /\ source[g] \in Handles \ {h}
  <2>1. IsCopy(g) \/ source[g] = g
    BY DEF IsCopy
  <2> QED
    BY <1>1, <1>2, <2>1, FormFacts
<1> QED
  BY <1>2, <1>3, <1>4, <1>5, <1>6, <1>7, <1>8

(* Two callers that are at semaphores are at different sem_t.              *)
LEMMA SemApart ==
    ASSUME RegistryInv, NEW t \in Callers, NEW u \in Callers, t # u, Busy(t), Busy(u),
           type[obj[t]] = "semaphore", type[obj[u]] = "semaphore"
    PROVE  sem[obj[t]] # sem[obj[u]]
<1>1. TypeOK /\ Forms /\ Apart(t, u) /\ PlaceOK(t) /\ PlaceOK(u)
        /\ pc[t] \in Places /\ pc[u] \in Places
  BY DEF RegistryInv, Control, TypeOK
<1>2. /\ obj[t] \in Handles /\ IsSema(obj[t]) /\ obj[u] \in Handles /\ IsSema(obj[u])
      /\ name[obj[t]] # name[obj[u]]
  BY <1>1 DEF Apart, PlaceOK, Busy, Places, IsSema
<1> QED
  BY <1>1, <1>2, FormFacts

(* Making a mutex, an event or the HANDLE of a thread.                     *)
LEMMA PlainKeeps ==
    ASSUME RegistryInv, NEW t \in Callers, NEW h \in Handles,
           NEW ty \in {"mutex", "event", "thread"}, Calls(t), New(h),
           status' = [status EXCEPT ![h] = "building"], type' = [type EXCEPT ![h] = ty],
           UNCHANGED <<name, sem, source, refs, listVars, linked, scan, endVars>>,
           \A g \in Handles \ {h} : owner'[g] = owner[g],
           ty = "thread" => current[t] = None /\ current' = [current EXCEPT ![t] = h],
           ty # "thread" => current' = current,
           Goto(t, "register", h), TypeOK'
    PROVE  RegistryInv'
<1>1. TypeOK /\ Control /\ Forms /\ CountersOutliveCopies /\ Listed /\ Uncrossed /\ Sources
  BY DEF RegistryInv
<1>2. /\ status'[h] = "building" /\ type'[h] = ty /\ OthersKept(h)
      /\ pc'[t] = "register" /\ obj'[t] = h /\ ~Busy(t)
      /\ \A u \in Callers : u # t => pc'[u] = pc[u] /\ obj'[u] = obj[u]
      /\ UNCHANGED <<exit, raced, copyClosed, semaList, openList>>
  BY <1>1, Functions DEF OthersKept, Goto, endVars, listVars, Calls, Busy
<1>3. /\ status[h] = "none" /\ ~IsSema(h) /\ ~IsCopy(h) /\ Copies(h) = {}
      /\ sem[h] = h /\ source[h] = h
      /\ \A i \in DOMAIN semaList : semaList[i] \in Handles \ {h}
      /\ \A u \in Callers : Busy(u) => obj[u] \in Handles \ {h}
      /\ \A n \in Names : linked[n] # None => linked[n] \in Handles \ {h}
  BY NewUnused
<1>4. Control'
  BY <1>1, <1>2, CreateControl
<1>5. Forms'
  BY <1>1, <1>2, <1>3, CreateForms
<1>6. RegistryExact'
  BY <1>2, <1>3 DEF RegistryInv, RegistryExact, Open, OthersKept
<1>7. CountersOutliveCopies'
  <2>1. \A g \in Handles : Copies(g)' = Copies(g)
    BY <1>2, <1>3, CopiesKept DEF IsCopy, OthersKept
  <2> QED
    BY <1>1, <1>2, <1>3, <2>1, CountersKept DEF Open, OthersKept
<1>8. Listed'
  BY <1>1, <1>2, <1>3, ListedKept DEF OthersKept, IsSema
<1>9. Uncrossed'
  BY <1>1, <1>2, <1>3, UncrossedKept DEF OthersKept
<1>10. Sources'
  <2>1. \A g \in Handles : IsSema(g)' /\ ~IsCopy(g)' =>
            /\ IsSema(g) /\ ~IsCopy(g) /\ sem'[g] = sem[g]
            /\ status'[g] \in {"building", "open"} => status[g] \in {"building", "open"}
    BY <1>2, <1>3 DEF OthersKept, IsSema, IsCopy
  <2>2. \A u \in Callers : pc[u] = "listing" => pc'[u] = "listing" /\ obj'[u] = obj[u]
    BY <1>2 DEF Busy
  <2>3. \A n \in Names : linked'[n] # None =>
            /\ linked'[n] = linked[n]
            /\ status[linked[n]] \in {"building", "open"} =>
                   status'[linked[n]] \in {"building", "open"}
    BY <1>2, <1>3 DEF OthersKept
  <2>4. \A u \in Callers : pc'[u] = "unlist" =>
            pc[u] = "unlist" /\ obj'[u] = obj[u] /\ (IsCopy(obj[u])' => IsCopy(obj[u]))
    BY <1>2 DEF IsCopy
  <2> QED
    BY <1>1, <1>2, <2>1, <2>2, <2>3, <2>4, SourcesKept
<1> QED
  BY <1>4, <1>5, <1>6, <1>7, <1>8, <1>9, <1>10 DEF RegistryInv

LEMMA CreatePlainKeeps ==
    ASSUME RegistryInv, NEW t \in Callers, NEW h \in Handles,
           NEW ty \in {"mutex", "event"}, NEW o \in {t, None}, CreatePlain(t, h, ty, o)
    PROVE  RegistryInv'
<1>1. TypeOK
  BY DEF RegistryInv
<1>2. TypeOK'
  BY <1>1 DEF TypeOK, CreatePlain, Goto, Types, Places, listVars, endVars
<1> QED
  BY <1>1, <1>2, PlainKeeps, Functions DEF CreatePlain

LEMMA GetCurrentThreadKeeps ==
    ASSUME RegistryInv, NEW t \in Callers, NEW h \in Handles, GetCurrentThread(t, h)
    PROVE  RegistryInv'
<1>1. TypeOK
  BY DEF RegistryInv
<1>2. TypeOK'
  BY <1>1 DEF TypeOK, GetCurrentThread, Goto, Types, Places, listVars, endVars
<1> QED
  BY <1>1, <1>2, PlainKeeps DEF GetCurrentThread

(* The entry a copy is made of is an open source, if uses of the list have *)
(* not crossed.                                                            *)
LEMMA FoundOpen ==
    ASSUME RegistryInv, NEW n \in Names, NEW org, org = FindSemaphoreHANDLE(n),
           org # None, name[org] = n, NameFree(n)
    PROVE  /\ org \in Handles /\ IsSema(org) /\ ~IsCopy(org)
           /\ ~raced => Open(org)
<1>1. TypeOK /\ Listed /\ Uncrossed /\ Control
  BY DEF RegistryInv
<1>2. PICK i \in DOMAIN semaList : org = semaList[i]
  BY <1>1, FindFinds
<1>3. org \in Handles /\ IsSema(org) /\ ~IsCopy(org)
  BY <1>1, <1>2, ListFacts DEF Listed
<1>4. ASSUME ~raced
      PROVE  Open(org)
  <2>1. status[org] # "freed" /\ status[org] # "none"
    BY <1>1, <1>2, <1>3, <1>4 DEF Uncrossed, IsSema
  <2>2. status[org] \notin {"building", "closing"}
    <3>1. Held(org)
      BY <1>1, <1>3 DEF Control
    <3> QED
      BY <1>3, <3>1 DEF Held, NameFree, Busy, IsSema
  <2> QED
    BY <1>1, <1>3, <2>1, <2>2 DEF TypeOK, Open
<1> QED
  BY <1>3, <1>4

LEMMA OpenCopyKeeps ==
    ASSUME RegistryInv, NEW t \in Callers, NEW h \in Handles, NEW n \in Names,
           OpenCopy(t, h, n)
    PROVE  RegistryInv'
<1>0. PICK org \in Handles : org = FindSemaphoreHANDLE(n)
  <2>1. FindSemaphoreHANDLE(n) \in Handles
    BY FoundOpen DEF OpenCopy
  <2> QED
    BY <2>1
<1>1. TypeOK /\ Control /\ Forms /\ CountersOutliveCopies /\ Listed /\ Uncrossed /\ Sources
  BY DEF RegistryInv
<1>2. /\ Calls(t) /\ New(h) /\ NameFree(n) /\ linked[n] # None
      /\ org # None /\ name[org] = n
      /\ status' = [status EXCEPT ![h] = "building"]
      /\ type' = [type EXCEPT ![h] = "semaphore"] /\ name' = [name EXCEPT ![h] = n]
      /\ sem' = [sem EXCEPT ![h] = linked[n]]
      /\ source' = [source EXCEPT ![h] = org]
      /\ refs' = [refs EXCEPT ![org] = @ + 1]
      /\ Goto(t, "register", h)
      /\ UNCHANGED <<drained, owner, listVars, linked, current, scan, endVars>>
  BY <1>0 DEF OpenCopy
<1>3. org \in Handles /\ IsSema(org) /\ ~IsCopy(org) /\ (~raced => Open(org))
  BY <1>0, <1>2, FoundOpen
<1>4. /\ status'[h] = "building" /\ type'[h] = "semaphore" /\ name'[h] = n
      /\ sem'[h] = linked[n] /\ source'[h] = org /\ OthersKept(h)
      /\ pc'[t] = "register" /\ obj'[t] = h /\ ~Busy(t)
      /\ \A u \in Callers : u # t => pc'[u] = pc[u] /\ obj'[u] = obj[u]
      /\ UNCHANGED <<exit, raced, copyClosed, semaList, openList, owner, scan, linked, current>>
  BY <1>1, <1>2, Functions DEF OthersKept, Goto, endVars, listVars, Calls, Busy
<1>5. /\ status[h] = "none" /\ ~IsSema(h) /\ ~IsCopy(h) /\ Copies(h) = {}
      /\ sem[h] = h /\ source[h] = h
      /\ \A i \in DOMAIN semaList : semaList[i] \in Handles \ {h}
      /\ \A u \in Callers : Busy(u) => obj[u] \in Handles \ {h}
      /\ \A m \in Names : linked[m] # None => linked[m] \in Handles \ {h}
  BY <1>2, NewUnused
<1>6. org # h
  BY <1>3, <1>5
<1>7. Control'
  BY <1>1, <1>2, <1>4, CreateControl
<1>8. Forms'
  <2>1. IsSema(linked[n]) /\ name[linked[n]] = n /\ linked[n] \in Handles
    BY <1>1, <1>2, <1>5 DEF Forms, LinkOK
  <2> QED
    BY <1>1, <1>2, <1>3, <1>4, <2>1, CreateForms
<1>9. RegistryExact'
  BY <1>4, <1>5 DEF RegistryInv, RegistryExact, Open, OthersKept
<1>10. CountersOutliveCopies'
  BY <1>1, <1>2, <1>3, <1>4, <1>6, CopyAdded
<1>11. Listed'
  BY <1>1, <1>4, <1>5, ListedKept DEF OthersKept, IsSema
<1>12. Uncrossed'
  BY <1>1, <1>4, <1>5, UncrossedKept DEF OthersKept
<1>13. Sources'
  <2>1. \A g \in Handles : IsSema(g)' /\ ~IsCopy(g)' =>
            /\ IsSema(g) /\ ~IsCopy(g) /\ sem'[g] = sem[g]
            /\ status'[g] \in {"building", "open"} => status[g] \in {"building", "open"}
    BY <1>4, <1>5, <1>6 DEF OthersKept, IsSema, IsCopy
  <2>2. \A u \in Callers : pc[u] = "listing" => pc'[u] = "listing" /\ obj'[u] = obj[u]
    BY <1>4 DEF Busy
  <2>3. \A m \in Names : linked'[m] # None =>
            /\ linked'[m] = linked[m]
            /\ status[linked[m]] \in {"building", "open"} =>
                   status'[linked[m]] \in {"building", "open"}
    BY <1>4, <1>5 DEF OthersKept
  <2>4. \A u \in Callers : pc'[u] = "unlist" =>
            pc[u] = "unlist" /\ obj'[u] = obj[u] /\ (IsCopy(obj[u])' => IsCopy(obj[u]))
    BY <1>4, <1>5 DEF IsCopy, OthersKept, Busy
  <2> QED
    BY <1>1, <1>4, <2>1, <2>2, <2>3, <2>4, SourcesKept
<1>14. TypeOK'
  <2>1. \A g \in Handles : Copies(g)' \subseteq Handles
    BY DEF Copies
  <2>2. refs'[org] \in 0 .. Cardinality(Handles)
    <3>1. refs'[org] = Cardinality(Copies(org)')
      BY <1>3, <1>10 DEF CountersOutliveCopies
    <3> QED
      BY <1>3, <2>1, <3>1, SubsetSize
  <2>3. refs' \in [Handles -> 0 .. Cardinality(Handles)]
    <3>1. refs \in [Handles -> 0 .. Cardinality(Handles)] /\ refs'[org] = refs[org] + 1
      BY <1>1, <1>2, <1>3 DEF TypeOK
    <3> QED
      BY <1>2, <1>3, <2>2, <3>1
  <2> QED
    BY <1>1, <1>2, <1>3, <1>5, <2>3
       DEF TypeOK, Goto, Types, Places, listVars, endVars
<1> QED
  BY <1>7, <1>8, <1>9, <1>10, <1>11, <1>12, <1>13, <1>14 DEF RegistryInv

LEMMA CreateSourceKeeps ==
    ASSUME RegistryInv, NEW t \in Callers, NEW h \in Handles, NEW n \in Names,
           CreateSource(t, h, n)
    PROVE  RegistryInv'
<1>1. TypeOK /\ Control /\ Forms /\ CountersOutliveCopies /\ Listed /\ Uncrossed /\ Sources
  BY DEF RegistryInv
<1>2. /\ Calls(t) /\ New(h) /\ NameFree(n)
      /\ linked[n] # None => FindSemaphoreHANDLE(n) = None
      /\ status' = [status EXCEPT ![h] = "building"]
      /\ type' = [type EXCEPT ![h] = "semaphore"] /\ name' = [name EXCEPT ![h] = n]
      /\ sem' = [sem EXCEPT ![h] = IF linked[n] = None THEN h ELSE linked[n]]
      /\ linked' = [linked EXCEPT ![n] = IF @ = None THEN h ELSE @]
      /\ Goto(t, "listing", h)
      /\ UNCHANGED <<source, refs, drained, owner, listVars, current, scan, endVars>>
  BY DEF CreateSource
<1>3. /\ status'[h] = "building" /\ type'[h] = "semaphore" /\ name'[h] = n /\ source' = source
      /\ sem'[h] = (IF linked[n] = None THEN h ELSE linked[n]) /\ OthersKept(h)
      /\ linked'[n] = (IF linked[n] = None THEN h ELSE linked[n])
      /\ \A m \in Names : m # n => linked'[m] = linked[m]
      /\ pc'[t] = "listing" /\ obj'[t] = h /\ ~Busy(t)
      /\ \A u \in Callers : u # t => pc'[u] = pc[u] /\ obj'[u] = obj[u]
      /\ UNCHANGED <<exit, raced, copyClosed, semaList, openList, owner, scan, current, refs>>
  BY <1>1, <1>2, Functions DEF OthersKept, Goto, endVars, listVars, Calls, Busy
<1>4. /\ status[h] = "none" /\ ~IsSema(h) /\ ~IsCopy(h) /\ Copies(h) = {}
      /\ sem[h] = h /\ source[h] = h
      /\ \A i \in DOMAIN semaList : semaList[i] \in Handles \ {h}
      /\ \A u \in Callers : Busy(u) => obj[u] \in Handles \ {h}
      /\ \A m \in Names : linked[m] # None => linked[m] \in Handles \ {h}
      /\ \A g \in Handles \ {h} : sem[g] \in Handles \ {h} /\ source[g] \in Handles \ {h}
  BY <1>2, NewUnused
<1>5. linked[n] # None => /\ IsSema(linked[n]) /\ name[linked[n]] = n /\ ~IsCopy(linked[n])
                          /\ linked[n] \in Handles \ {h}
  BY <1>1, <1>4 DEF Forms, LinkOK
<1>6. Control'
  BY <1>1, <1>2, <1>3, <1>4, CreateControl
<1>7. Forms'
  BY <1>1, <1>2, <1>3, <1>4, <1>5, CreateForms
<1>8. RegistryExact'
  BY <1>3, <1>4 DEF RegistryInv, RegistryExact, Open, OthersKept
<1>9. CountersOutliveCopies'
  <2>1. \A g \in Handles : Copies(g)' = Copies(g)
    BY <1>3, <1>4, CopiesKept DEF IsCopy, OthersKept
  <2> QED
    BY <1>1, <1>3, <1>4, <2>1, CountersKept DEF Open, OthersKept
<1>10. Listed'
  <2>1. \A i \in DOMAIN semaList : sem[semaList[i]] # sem'[h]
    BY <1>1, <1>2, <1>3, <1>4, FindFinds
  <2>2. \A u \in Callers : pc'[u] = "listing" =>
            \/ pc[u] = "listing" /\ obj'[u] = obj[u]
            \/ \A i \in DOMAIN semaList : sem[semaList[i]] # sem'[obj'[u]]
    BY <1>3, <2>1
  <2>3. \A g \in Handles : IsSema(g) => IsSema(g)' /\ sem'[g] = sem[g] /\ source'[g] = source[g]
    BY <1>3, <1>4 DEF OthersKept, IsSema
  <2> QED
    BY <1>1, <1>3, <2>2, <2>3, ListedKept
<1>11. Uncrossed'
  BY <1>1, <1>3, <1>4, UncrossedKept DEF OthersKept
<1>12. Sources'
  <2> SUFFICES ASSUME ~raced', ~copyClosed'
               PROVE  /\ \A g \in Handles : SourceOK(g)'
                      /\ \A m \in Names : linked'[m] # None =>
                             status'[linked'[m]] \in {"building", "open"}
                      /\ \A u \in Callers : pc'[u] = "unlist" => ~IsCopy(obj[u])'
    BY DEF Sources
  <2>1. /\ \A g \in Handles : SourceOK(g)
        /\ \A m \in Names : linked[m] # None => status[linked[m]] \in {"building", "open"}
        /\ \A u \in Callers : pc[u] = "unlist" => ~IsCopy(obj[u])
    BY <1>1, <1>3 DEF Sources
  <2>2. linked[n] = None
    <3> SUFFICES ASSUME linked[n] # None
                 PROVE  FALSE
      OBVIOUS
    <3>1. SourceOK(linked[n]) /\ status[linked[n]] \in {"building", "open"}
      BY <1>5, <2>1
    <3>2. CASE linked[n] \in Entries
      <4>1. PICK i \in DOMAIN semaList : semaList[i] = linked[n]
        BY <3>2 DEF Entries
      <4> QED
        BY <1>1, <1>2, <1>5, <4>1, FindFinds
    <3>3. CASE \E u \in Callers : pc[u] = "listing" /\ obj[u] = linked[n]
      BY <1>2, <1>5, <3>3 DEF NameFree, IsSema
    <3> QED
      BY <1>5, <3>1, <3>2, <3>3 DEF SourceOK
  <2>3. Entries' = Entries
    BY <1>3 DEF Entries
  <2>4. ASSUME NEW g \in Handles
        PROVE  SourceOK(g)'
    <3>1. CASE g = h
      BY <1>3, <2>2, <3>1 DEF SourceOK
    <3>2. CASE g # h
      <4>1. SourceOK(g) /\ (IsSema(g)' <=> IsSema(g)) /\ (IsCopy(g)' <=> IsCopy(g))
              /\ sem'[g] = sem[g] /\ status'[g] = status[g]
        BY <1>3, <2>1, <3>2 DEF OthersKept, IsSema, IsCopy
      <4>2. \A u \in Callers : pc[u] = "listing" => pc'[u] = "listing" /\ obj'[u] = obj[u]
        BY <1>3 DEF Busy
      <4> QED
        BY <2>3, <4>1, <4>2 DEF SourceOK
    <3> QED
      BY <3>1, <3>2
  <2>5. \A m \in Names : linked'[m] # None => status'[linked'[m]] \in {"building", "open"}
    BY <1>3, <1>4, <2>1, <2>2 DEF OthersKept
  <2>6. \A u \in Callers : pc'[u] = "unlist" => ~IsCopy(obj[u])'
    BY <1>3, <2>1 DEF IsCopy
  <2> QED
    BY <2>4, <2>5, <2>6
<1>13. TypeOK'
  BY <1>1, <1>2, <1>5 DEF TypeOK, Goto, Types, Places, listVars, endVars
<1> QED
  BY <1>6, <1>7, <1>8, <1>9, <1>10, <1>11, <1>12, <1>13 DEF RegistryInv

LEMMA AddSemaListEntryKeeps ==
    ASSUME RegistryInv, NEW t \in Callers, AddSemaListEntry(t)
    PROVE  RegistryInv'
<1>1. TypeOK /\ Control /\ Forms /\ Listed /\ Uncrossed /\ Sources
  BY DEF RegistryInv
<1>2. PICK h \in Handles : h = obj[t]
  BY <1>1 DEF AddSemaListEntry, Control, PlaceOK, Busy
<1>3. /\ pc[t] = "listing" /\ Busy(t)
      /\ status[h] = "building" /\ type[h] = "semaphore" /\ ~IsCopy(h) /\ IsSema(h)
  BY <1>1, <1>2 DEF AddSemaListEntry, Control, PlaceOK, Busy, IsSema
<1>4. /\ semaList' = Append(semaList, h) /\ pc'[t] = "register" /\ obj' = obj
      /\ \A u \in Callers : u # t => pc'[u] = pc[u]
      /\ pc' = [pc EXCEPT ![t] = "register"]
      /\ UNCHANGED <<handleVars, openList, linked, current, scan, endVars>>
  BY <1>1, <1>2, Functions DEF AddSemaListEntry, Goto, TypeOK
<1>5. UNCHANGED <<status, type, name, sem, source, refs, drained, owner, exit, thrown,
                  raced, copyClosed>>
  BY <1>4 DEF handleVars, endVars
<1>6. /\ semaList \in Seq(Handles) /\ semaList' \in Seq(Handles)
      /\ Len(semaList) \in Nat /\ Len(semaList') = Len(semaList) + 1
      /\ DOMAIN semaList = 1 .. Len(semaList)
      /\ DOMAIN semaList' = 1 .. Len(semaList) + 1
      /\ \A j \in DOMAIN semaList : semaList'[j] = semaList[j]
      /\ semaList'[Len(semaList) + 1] = h
  BY <1>1, <1>4 DEF TypeOK
<1>7. \A u \in Callers : u # t /\ Busy(u) /\ type[obj[u]] = "semaphore"
          => sem[obj[u]] # sem[h]
  BY <1>2, <1>3, SemApart
<1>8. Control'
  <2>1. \A u \in Callers : Busy(u)' <=> Busy(u)
    BY <1>3, <1>4 DEF Busy
  <2>2. ASSUME NEW u \in Callers
        PROVE  PlaceOK(u)' /\ CurrentOK(u)'
    <3>1. PlaceOK(u) /\ CurrentOK(u)
      BY <1>1 DEF Control
    <3>2. CASE u = t
      BY <1>2, <1>3, <1>4, <1>5, <3>1, <3>2 DEF PlaceOK, CurrentOK, Busy
    <3>3. CASE u # t
      BY <1>4, <1>5, <3>1, <3>3 DEF PlaceOK, CurrentOK, Busy, IsCopy
    <3> QED
      BY <3>2, <3>3
  <2> QED
    BY <1>1, <1>4, <1>5, <2>1, <2>2 DEF Control, Apart, Held
<1>9. Forms'
  BY <1>1, <1>4, <1>5 DEF Forms, FormOK, LinkOK, IsSema, IsCopy
<1>10. RegistryExact'
  BY <1>4, <1>5 DEF RegistryInv, RegistryExact, Open
<1>11. CountersOutliveCopies'
  BY <1>5 DEF RegistryInv, CountersOutliveCopies, Copies, IsCopy, Open
<1>12. \A j \in DOMAIN semaList' : (j \in DOMAIN semaList /\ semaList'[j] = semaList[j])
                                  \/ (j = Len(semaList) + 1 /\ semaList'[j] = h)
  BY <1>6
<1>13. Listed'
  <2>1. \A j \in DOMAIN semaList' : IsSema(semaList'[j]) /\ ~IsCopy(semaList'[j])
    BY <1>1, <1>3, <1>12 DEF Listed
  <2>2. \A j \in DOMAIN semaList : sem[semaList[j]] # sem[h]
    BY <1>1, <1>2, <1>3 DEF Listed
  <2>3. ASSUME NEW i \in DOMAIN semaList', NEW j \in DOMAIN semaList',
               sem[semaList'[i]] = sem[semaList'[j]]
        PROVE  i = j
    BY <1>1, <1>12, <2>2, <2>3 DEF Listed
  <2>4. ASSUME NEW u \in Callers, pc'[u] = "listing", NEW j \in DOMAIN semaList'
        PROVE  sem[semaList'[j]] # sem[obj[u]]
    <3>1. u # t /\ pc[u] = "listing" /\ Busy(u) /\ type[obj[u]] = "semaphore"
      BY <1>1, <1>4, <2>4 DEF Control, PlaceOK, Busy
    <3> QED
      BY <1>1, <1>7, <1>12, <3>1 DEF Listed
  <2> QED
    BY <1>4, <1>5, <2>1, <2>3, <2>4 DEF Listed, IsSema, IsCopy
<1>14. Uncrossed'
  <2> SUFFICES ASSUME ~raced
               PROVE  /\ \A i \in DOMAIN semaList' : status[semaList'[i]] # "freed"
                      /\ \A u \in Callers : ScanOK(u)'
    BY <1>5 DEF Uncrossed
  <2>1. /\ \A i \in DOMAIN semaList : status[semaList[i]] # "freed"
        /\ \A u \in Callers : ScanOK(u)
    BY <1>1 DEF Uncrossed
  <2>2. ASSUME NEW u \in Callers
        PROVE  ScanOK(u)'
    <3>1. CASE u = t
      BY <1>4, <3>1 DEF ScanOK
    <3>2. CASE u # t
      <4>1. ScanOK(u) /\ pc'[u] = pc[u] /\ scan'[u] = scan[u]
              /\ scan[u].n \in Nat /\ PlaceOK(u)
        BY <1>1, <1>4, <2>1, <3>2, ListFacts DEF Control
      <4>2. pc[u] = "unlist" \/ (pc[u] = "unregister" /\ type[obj[u]] = "semaphore")
              => sem[h] # sem[obj[u]]
        BY <1>7, <3>2, <4>1 DEF PlaceOK, Busy
      <4>3. pc[u] = "unlist" => scan[u].n <= Len(semaList')
        BY <1>6, <4>1 DEF ScanOK
      <4> QED
        BY <1>4, <1>5, <1>12, <4>1, <4>2, <4>3 DEF ScanOK
    <3> QED
      BY <3>1, <3>2
  <2> QED
    BY <1>3, <1>12, <2>1, <2>2
<1>15. Sources'
  <2> SUFFICES ASSUME ~raced, ~copyClosed
               PROVE  /\ \A g \in Handles : SourceOK(g)'
                      /\ \A m \in Names : linked[m] # None => status[linked[m]] \in {"building", "open"}
                      /\ \A u \in Callers : pc'[u] = "unlist" => ~IsCopy(obj[u])
    BY <1>4, <1>5 DEF Sources, IsCopy
  <2>1. /\ \A g \in Handles : SourceOK(g)
        /\ \A m \in Names : linked[m] # None => status[linked[m]] \in {"building", "open"}
        /\ \A u \in Callers : pc[u] = "unlist" => ~IsCopy(obj[u])
    BY <1>1 DEF Sources
  <2>2. Entries \subseteq Entries' /\ h \in Entries'
    BY <1>6 DEF Entries
  <2>3. ASSUME NEW g \in Handles
        PROVE  SourceOK(g)'
    <3>1. SourceOK(g)
      BY <2>1
    <3>2. \A u \in Callers : pc[u] = "listing" /\ obj[u] = g
              => (pc'[u] = "listing" /\ obj'[u] = g) \/ g = h
      BY <1>2, <1>4
    <3> QED
      BY <1>5, <2>2, <3>1, <3>2 DEF SourceOK, IsSema, IsCopy
  <2>4. \A u \in Callers : pc'[u] = "unlist" => ~IsCopy(obj[u])
    BY <1>4, <2>1
  <2> QED
    BY <2>1, <2>3, <2>4
<1>16. TypeOK'
  BY <1>1, <1>4, <1>5, <1>6 DEF TypeOK, Places
<1> QED
  BY <1>8, <1>9, <1>10, <1>11, <1>13, <1>14, <1>15, <1>16 DEF RegistryInv

LEMMA RegisterHANDLEKeeps ==
    ASSUME RegistryInv, NEW t \in Callers, RegisterHANDLE(t)
    PROVE  RegistryInv'
<1>1. TypeOK /\ Control /\ Forms /\ CountersOutliveCopies /\ Listed /\ Uncrossed /\ Sources
  BY DEF RegistryInv
<1>2. PICK h \in Handles : h = obj[t]
  BY <1>1 DEF RegisterHANDLE, Control, PlaceOK, Busy
<1>3. /\ pc[t] = "register" /\ Busy(t) /\ status[h] = "building" /\ exit = "no"
  BY <1>1, <1>2 DEF RegisterHANDLE, Control, PlaceOK, Busy, TypeOK
<1>4. /\ openList' = openList \cup {h} /\ status' = [status EXCEPT ![h] = "open"]
      /\ Goto(t, "idle", None)
      /\ UNCHANGED <<type, name, sem, source, refs, drained, owner, semaList, linked,
                     current, scan, exit, thrown, raced, copyClosed>>
  BY <1>2 DEF RegisterHANDLE, endVars
<1>5. /\ status'[h] = "open" /\ pc'[t] = "idle" /\ obj'[t] = None
      /\ \A g \in Handles : g # h => status'[g] = status[g]
      /\ \A u \in Callers : u # t => pc'[u] = pc[u] /\ obj'[u] = obj[u]
  BY <1>1, <1>4, Functions DEF Goto
<1>6. Control'
  <2>1. \A u \in Callers : u # t /\ Busy(u) =>
            /\ obj[u] # h
            /\ type[h] = "semaphore" /\ type[obj[u]] = "semaphore" => name[obj[u]] # name[h]
    BY <1>1, <1>2, <1>3 DEF Control, Apart
  <2> QED
    BY <1>1, <1>2, <1>3, <1>4, <2>1, MoveControl
<1>7. Forms'
  BY <1>1, <1>3, <1>4, <1>5, MoveForms
<1>8. RegistryExact'
  BY <1>4, <1>5 DEF RegistryInv, RegistryExact, Open
<1>9. CountersOutliveCopies'
  <2>1. \A g \in Handles : Copies(g)' = Copies(g)
    BY <1>3, <1>4, <1>5, CopiesKept
  <2> QED
    BY <1>1, <1>4, <1>5, <2>1, CountersKept DEF Open
<1>10. Listed'
  <2>1. \A g \in Handles : IsSema(g) => IsSema(g)' /\ sem'[g] = sem[g] /\ source'[g] = source[g]
    BY <1>4, <1>5 DEF IsSema
  <2> QED
    BY <1>1, <1>4, <1>5, <2>1, ListedKept
<1>11. Uncrossed'
  BY <1>1, <1>4, <1>5, ListFacts, UncrossedKept
<1>12. Sources'
  <2>1. \A g \in Handles : IsSema(g)' /\ ~IsCopy(g)' =>
            /\ IsSema(g) /\ ~IsCopy(g) /\ sem'[g] = sem[g]
            /\ status'[g] \in {"building", "open"} => status[g] \in {"building", "open"}
    BY <1>3, <1>4, <1>5 DEF IsSema, IsCopy
  <2>2. \A u \in Callers : pc[u] = "listing" => pc'[u] = "listing" /\ obj'[u] = obj[u]
    BY <1>3, <1>5
  <2>3. \A m \in Names : linked'[m] # None =>
            /\ linked'[m] = linked[m]
            /\ status[linked[m]] \in {"building", "open"} =>
                   status'[linked[m]] \in {"building", "open"}
    BY <1>1, <1>4, <1>5 DEF TypeOK
  <2>4. \A u \in Callers : pc'[u] = "unlist" =>
            pc[u] = "unlist" /\ obj'[u] = obj[u] /\ (IsCopy(obj[u])' => IsCopy(obj[u]))
    BY <1>4, <1>5 DEF IsCopy
  <2> QED
    BY <1>1, <1>4, <2>1, <2>2, <2>3, <2>4, SourcesKept
<1>13. TypeOK'
  BY <1>1, <1>4 DEF TypeOK, Goto, Places
<1> QED
  BY <1>6, <1>7, <1>8, <1>9, <1>10, <1>11, <1>12, <1>13 DEF RegistryInv

-----------------------------------------------------------------------------
(* The steps: closing HANDLEs                                              *)

LEMMA CloseSemaphoreKeeps ==
    ASSUME RegistryInv, NEW t \in Callers, NEW h \in Handles, CloseSemaphore(t, h)
    PROVE  RegistryInv'
<1>1. TypeOK /\ Control /\ Forms /\ CountersOutliveCopies /\ Listed /\ Uncrossed /\ Sources
  BY DEF RegistryInv
<1>2. /\ ~Busy(t) /\ exit = "no" /\ status[h] = "open" /\ type[h] = "semaphore"
      /\ IsSema(h) /\ name[h] \in Names /\ NameFree(name[h]) /\ Closable(h)
      /\ DestroySemaphore(h) /\ status' = [status EXCEPT ![h] = "closing"]
      /\ scan' = [scan EXCEPT ![t] = [i |-> 1, n |-> Len(semaList)]]
      /\ Goto(t, "unlist", h)
      /\ UNCHANGED <<type, name, sem, source, owner, semaList, openList, current,
                     exit, thrown, raced>>
  BY <1>1, FormFacts DEF CloseSemaphore, Calls, Open, Busy, IsSema, listVars
<1>3. /\ status'[h] = "closing" /\ pc'[t] = "unlist" /\ obj'[t] = h
      /\ scan'[t] = [i |-> 1, n |-> Len(semaList)]
      /\ \A g \in Handles : g # h => status'[g] = status[g]
      /\ \A u \in Callers : u # t => pc'[u] = pc[u] /\ obj'[u] = obj[u] /\ scan'[u] = scan[u]
      /\ \A m \in Names : linked'[m] = linked[m] \/ linked'[m] = None
      /\ copyClosed => copyClosed'
  BY <1>1, <1>2, Functions DEF Goto, DestroySemaphore
<1>4. Control'
  <2>1. \A u \in Callers : u # t /\ Busy(u) =>
            /\ obj[u] # h
            /\ type[h] = "semaphore" /\ type[obj[u]] = "semaphore" => name[obj[u]] # name[h]
    BY <1>2 DEF NameFree, Busy
  <2>2. \A u \in Callers : current[u] # h
    BY <1>1, <1>2, Functions DEF Control, CurrentOK
  <2> QED
    BY <1>1, <1>2, <2>1, <2>2, MoveControl
<1>5. Forms'
  BY <1>1, <1>2, <1>3, MoveForms
<1>6. RegistryExact'
  BY <1>2, <1>3 DEF RegistryInv, RegistryExact, Open
<1>7. CountersOutliveCopies'
  <2>1. CASE IsCopy(h)
    <3>1. refs' = [refs EXCEPT ![source[h]] = @ - 1]
      BY <1>2, <2>1 DEF DestroySemaphore
    <3> QED
      BY <1>1, <1>2, <1>3, <2>1, <3>1, CopyRemoved DEF Open
  <2>2. CASE ~IsCopy(h)
    <3>1. refs' = refs /\ refs[h] = 0
      BY <1>2, <2>2 DEF DestroySemaphore, Closable
    <3>2. Copies(h) = {}
      BY <1>1, <3>1, CopiesFinite DEF CountersOutliveCopies
    <3>3. \A g \in Handles : Copies(g)' = Copies(g)
      BY <1>2, <1>3, <2>2, CopiesKept DEF IsCopy
    <3> QED
      BY <1>1, <1>2, <1>3, <3>1, <3>2, <3>3, CountersKept DEF Open
  <2> QED
    BY <2>1, <2>2
<1>8. Listed'
  <2>1. \A g \in Handles : IsSema(g) => IsSema(g)' /\ sem'[g] = sem[g] /\ source'[g] = source[g]
    BY <1>2, <1>3 DEF IsSema
  <2> QED
    BY <1>1, <1>2, <1>3, <2>1, ListedKept
<1>9. Uncrossed'
  <2>1. ScanOK(t)'
    <3>1. /\ pc'[t] = "unlist" /\ scan'[t].i = 1 /\ scan'[t].n = Len(semaList)
          /\ semaList' = semaList
      BY <1>2, <1>3
    <3> QED
      BY <1>1, <3>1, ListFacts DEF ScanOK
  <2>2. \A i \in DOMAIN semaList : status'[semaList[i]] = "freed" => status[semaList[i]] = "freed"
    BY <1>1, <1>3, ListFacts
  <2> QED
    BY <1>1, <1>2, <1>3, <2>1, <2>2, UncrossedKept
<1>10. Sources'
  <2>1. \A g \in Handles : IsSema(g)' /\ ~IsCopy(g)' =>
            /\ IsSema(g) /\ ~IsCopy(g) /\ sem'[g] = sem[g]
            /\ status'[g] \in {"building", "open"} => status[g] \in {"building", "open"}
    BY <1>2, <1>3 DEF IsSema, IsCopy
  <2>2. \A u \in Callers : pc[u] = "listing" => pc'[u] = "listing" /\ obj'[u] = obj[u]
    BY <1>2, <1>3 DEF Busy
  <2>3. ASSUME ~copyClosed'
        PROVE  /\ ~IsCopy(h) /\ linked'[name[h]] = None
    BY <1>1, <1>2, <2>3, Functions DEF DestroySemaphore
  <2>4. ASSUME ~copyClosed', NEW m \in Names, linked'[m] # None
        PROVE  /\ linked'[m] = linked[m]
               /\ status[linked[m]] \in {"building", "open"} =>
                      status'[linked[m]] \in {"building", "open"}
    <3>1. linked'[m] = linked[m] /\ m # name[h] /\ linked[m] \in Handles
      BY <1>1, <1>3, <2>3, <2>4 DEF TypeOK
    <3>2. linked[m] # h
      BY <1>1, <2>4, <3>1 DEF Forms, LinkOK
    <3> QED
      BY <1>3, <3>1, <3>2
  <2>5. ASSUME ~copyClosed', NEW u \in Callers, pc'[u] = "unlist"
        PROVE  \/ pc[u] = "unlist" /\ obj'[u] = obj[u] /\ (IsCopy(obj[u])' => IsCopy(obj[u]))
               \/ ~IsCopy(obj[u])'
    BY <1>2, <1>3, <2>3, <2>5 DEF IsCopy
  <2> QED
    BY <1>1, <1>2, <1>3, <2>1, <2>2, <2>4, <2>5, SourcesKept
<1>11. TypeOK'
  <2>1. refs' \in [Handles -> 0 .. Cardinality(Handles)]
    <3>1. \A g \in Handles : Copies(g)' \subseteq Handles
      BY DEF Copies
    <3>2. \A g \in Handles : refs'[g] \in 0 .. Cardinality(Handles)
      BY <1>7, <3>1, SubsetSize DEF CountersOutliveCopies
    <3>3. DOMAIN refs' = Handles /\ refs' = [g \in Handles |-> refs'[g]]
      BY <1>1, <1>2 DEF DestroySemaphore, TypeOK
    <3> QED
      BY <3>2, <3>3
  <2>2. linked' \in [Names -> Handles \cup {None}] /\ drained' \in [Handles -> BOOLEAN]
          /\ copyClosed' \in BOOLEAN
    BY <1>1, <1>2 DEF DestroySemaphore, TypeOK, IsCopy
  <2>3. scan' \in [Callers -> [i : Nat \ {0}, n : Nat]]
    BY <1>1, <1>2, ListFacts DEF TypeOK
  <2> QED
    BY <1>1, <1>2, <2>1, <2>2, <2>3 DEF TypeOK, Goto, Places
<1> QED
  BY <1>4, <1>5, <1>6, <1>7, <1>8, <1>9, <1>10, <1>11 DEF RegistryInv

(* One turn of the scan keeps all that is not about the list.              *)
LEMMA TurnKeeps ==
    ASSUME RegistryInv, NEW t \in Callers, NEW h \in Handles, h = obj[t], pc[t] = "unlist",
           UNCHANGED <<handleVars, openList, linked, current, exit, copyClosed>>,
           \/ Goto(t, "unregister", h)
           \/ UNCHANGED <<pc, obj>>
    PROVE  /\ Control' /\ Forms' /\ RegistryExact'
           /\ (raced => raced') => CountersOutliveCopies'
           /\ status[h] = "closing" /\ type[h] = "semaphore" /\ IsSema(h) /\ Busy(t)
<1>1. TypeOK /\ Control /\ Forms
  BY DEF RegistryInv
<1>2. /\ UNCHANGED <<status, type, name, sem, source, refs, drained, owner>>
      /\ status[h] = "closing" /\ type[h] = "semaphore" /\ IsSema(h) /\ Busy(t) /\ exit = "no"
  BY <1>1 DEF handleVars, Control, PlaceOK, Busy, IsSema, TypeOK
<1>3. Control'
  <2>1. CASE Goto(t, "unregister", h)
    <3>1. status' = [status EXCEPT ![h] = "closing"]
      BY <1>1, <1>2 DEF TypeOK
    <3>2. \A u \in Callers : u # t /\ Busy(u) =>
            /\ obj[u] # h
            /\ type[h] = "semaphore" /\ type[obj[u]] = "semaphore" => name[obj[u]] # name[h]
      BY <1>1, <1>2 DEF Control, Apart
    <3>3. \A u \in Callers : current[u] # h
      BY <1>1, <1>2, Functions DEF Control, CurrentOK
    <3>4. TypeOK /\ Control /\ exit = "no" /\ exit' = exit /\ current' = current
            /\ UNCHANGED <<type, name, source>> /\ type[h] = "semaphore"
      BY <1>1, <1>2
    <3> QED
      BY <2>1, <3>1, <3>2, <3>3, <3>4, MoveControl
  <2>2. CASE UNCHANGED <<pc, obj>>
    BY <1>1, <1>2, <2>2, ControlKept
  <2> QED
    BY <2>1, <2>2
<1>4. Forms'
  BY <1>1, <1>2 DEF Forms, FormOK, LinkOK, IsSema, IsCopy
<1>5. RegistryExact'
  BY <1>2 DEF RegistryInv, RegistryExact, Open
<1>6. (raced => raced') => CountersOutliveCopies'
  BY <1>2 DEF RegistryInv, CountersOutliveCopies, Copies, IsCopy, Open
<1> QED
  BY <1>2, <1>3, <1>4, <1>5, <1>6

(* Taking an entry off the list, and with it the sem_t of the caller's     *)
(* HANDLE.                                                                 *)
LEMMA RemovalKeeps ==
    ASSUME RegistryInv, NEW t \in Callers, NEW h \in Handles, h = obj[t], pc[t] = "unlist",
           UNCHANGED <<handleVars, openList, linked, current, exit, copyClosed, scan, thrown>>,
           Goto(t, "unregister", h), NEW i \in DOMAIN semaList,
           semaList' = RemoveAt(semaList, i), raced => raced', raced' \in BOOLEAN,
           ~raced' => sem[semaList[i]] = sem[h] /\ ~Scanned(t)
    PROVE  RegistryInv'
<1>1. TypeOK /\ Control /\ Forms /\ Listed /\ Uncrossed /\ Sources
  BY DEF RegistryInv
<1>2. /\ Control' /\ Forms' /\ RegistryExact' /\ CountersOutliveCopies'
      /\ status[h] = "closing" /\ type[h] = "semaphore" /\ IsSema(h) /\ Busy(t)
  BY TurnKeeps
<1>3. /\ UNCHANGED <<status, type, name, sem, source, refs, drained, owner>>
      /\ pc'[t] = "unregister" /\ obj' = obj
      /\ \A u \in Callers : u # t => pc'[u] = pc[u]
  BY <1>1, Functions DEF handleVars, Goto, TypeOK
<1>4. /\ Listed'
      /\ semaList' \in Seq(Handles)
      /\ \A j \in DOMAIN semaList' :
             \E k \in DOMAIN semaList : k # i /\ semaList'[j] = semaList[k]
                      /\ sem[semaList[k]] # sem[semaList[i]]
      /\ \A k \in DOMAIN semaList : k # i =>
             \E j \in DOMAIN semaList' : semaList'[j] = semaList[k]
  <2>1. \A u \in Callers : pc'[u] = "listing" => pc[u] = "listing" /\ obj'[u] = obj[u]
    BY <1>3
  <2> QED
    BY <1>1, <1>3, <2>1, ListedRemoved
<1>5. Uncrossed'
  <2> SUFFICES ASSUME ~raced'
               PROVE  /\ \A j \in DOMAIN semaList' : status[semaList'[j]] # "freed"
                      /\ \A u \in Callers : ScanOK(u)'
    BY <1>3 DEF Uncrossed
  <2>1. /\ \A j \in DOMAIN semaList : status[semaList[j]] # "freed"
        /\ \A u \in Callers : ScanOK(u)
    BY <1>1 DEF Uncrossed
  <2>2. ASSUME NEW u \in Callers
        PROVE  ScanOK(u)'
    <3>1. CASE u = t
      BY <1>3, <1>4, <3>1 DEF ScanOK
    <3>2. CASE u # t
      BY <1>3, <1>4, <2>1, <3>2 DEF ScanOK, Scanned
    <3> QED
      BY <3>1, <3>2
  <2> QED
    BY <1>4, <2>1, <2>2
<1>6. Sources'
  <2> SUFFICES ASSUME ~raced', ~copyClosed
               PROVE  /\ \A g \in Handles : SourceOK(g)'
                      /\ \A m \in Names : linked[m] # None => status[linked[m]] \in {"building", "open"}
                      /\ \A u \in Callers : pc'[u] = "unlist" => ~IsCopy(obj[u])
    BY <1>3 DEF Sources, IsCopy
  <2>1. /\ \A g \in Handles : SourceOK(g)
        /\ \A m \in Names : linked[m] # None => status[linked[m]] \in {"building", "open"}
        /\ \A u \in Callers : pc[u] = "unlist" => ~IsCopy(obj[u])
    BY <1>1 DEF Sources
  <2>2. semaList[i] = h
    <3>1. /\ semaList[i] \in Handles /\ IsSema(semaList[i]) /\ ~IsCopy(semaList[i])
          /\ ~IsCopy(h)
      BY <1>1, <2>1, ListFacts DEF Listed
    <3> QED
      BY <1>2, <2>1, <3>1 DEF SourceOK
  <2>3. \A g \in Entries : g # h => g \in Entries'
    BY <1>4, <2>2 DEF Entries
  <2>4. ASSUME NEW g \in Handles
        PROVE  SourceOK(g)'
    <3>1. \A u \in Callers : pc[u] = "listing" => pc'[u] = "listing" /\ obj'[u] = obj[u]
      BY <1>3
    <3> QED
      BY <1>2, <1>3, <2>1, <2>3, <3>1 DEF SourceOK, IsSema, IsCopy
  <2> QED
    BY <1>3, <2>1, <2>4
<1>7. TypeOK'
  BY <1>1, <1>3, <1>4 DEF TypeOK, Goto, Places
<1> QED
  BY <1>2, <1>4, <1>5, <1>6, <1>7 DEF RegistryInv

LEMMA RemoveSemaListEntryKeeps ==
    ASSUME RegistryInv, NEW t \in Callers, RemoveSemaListEntry(t)
    PROVE  RegistryInv'
<1>1. TypeOK /\ Control /\ Forms /\ Listed /\ Uncrossed /\ Sources /\ pc[t] = "unlist"
  BY DEF RegistryInv, RemoveSemaListEntry
<1>2. PICK h \in Handles : h = obj[t]
  BY <1>1 DEF Control, PlaceOK, Busy
<1>3. UNCHANGED <<handleVars, openList, linked, current, exit, copyClosed>>
  BY DEF RemoveSemaListEntry
<1>4. scan[t].i \in Nat \ {0} /\ scan[t].n \in Nat /\ Len(semaList) \in Nat
        /\ DOMAIN semaList = 1 .. Len(semaList)
  BY <1>1 DEF TypeOK
<1> DEFINE i == scan[t].i
<1>5. CASE i > scan[t].n /\ Goto(t, "unregister", h) /\ UNCHANGED <<semaList, scan, thrown, raced>>
  <2>1. /\ Control' /\ Forms' /\ RegistryExact' /\ CountersOutliveCopies'
        /\ status[h] = "closing" /\ type[h] = "semaphore" /\ IsSema(h) /\ Busy(t)
    BY <1>1, <1>2, <1>3, <1>5, TurnKeeps
  <2>2. /\ UNCHANGED <<status, type, name, sem, source, refs, drained, owner>>
        /\ pc'[t] = "unregister" /\ obj' = obj
        /\ \A u \in Callers : u # t => pc'[u] = pc[u]
    BY <1>1, <1>2, <1>3, <1>5, Functions DEF handleVars, Goto, TypeOK
  <2>3. Listed'
    BY <1>1, <1>5, <2>2 DEF Listed, IsSema, IsCopy
  <2>4. Uncrossed'
    <3>1. ~raced' => ScanOK(t)'
      BY <1>1, <1>2, <1>4, <1>5, <2>2 DEF Uncrossed, ScanOK
    <3> QED
      BY <1>1, <1>5, <2>2, <3>1, UncrossedKept
  <2>5. Sources'
    BY <1>1, <1>3, <1>5, <2>2 DEF Sources, SourceOK, IsSema, IsCopy, Entries
  <2>6. TypeOK'
    BY <1>1, <1>3, <1>5, <2>2 DEF TypeOK, Goto, Places
  <2> QED
    BY <2>1, <2>3, <2>4, <2>5, <2>6 DEF RegistryInv
<1>6. CASE thrown' = TRUE /\ UNCHANGED <<semaList, scan, pc, obj, raced>>
  <2>1. TypeOK'
    BY <1>1, <1>3, <1>6 DEF TypeOK, handleVars
  <2> QED
    BY <1>3, <1>6, <2>1, QuietKeeps DEF handleVars, listVars, callerVars
<1>7. CASE /\ i <= scan[t].n /\ i <= Len(semaList) /\ semaList' = RemoveAt(semaList, i)
           /\ Goto(t, "unregister", h) /\ UNCHANGED <<scan, thrown>>
           /\ \/ raced' = TRUE
              \/ raced' = (raced \/ Scanned(t)) /\ sem[semaList[i]] = sem[h]
  <2>1. CASE i \in DOMAIN semaList
    <3>1. /\ raced => raced' /\ raced' \in BOOLEAN
          /\ ~raced' => sem[semaList[i]] = sem[h] /\ ~Scanned(t)
      BY <1>1, <1>7 DEF TypeOK, Scanned
    <3> QED
      BY <1>1, <1>2, <1>3, <1>7, <2>1, <3>1, RemovalKeeps
  <2>2. i \in DOMAIN semaList
    BY <1>4, <1>7
  <2> QED
    BY <2>1, <2>2
<1>8. CASE /\ i <= Len(semaList) /\ sem[semaList[i]] # sem[h]
           /\ scan' = [scan EXCEPT ![t].i = @ + 1]
           /\ UNCHANGED <<semaList, pc, obj, thrown, raced>>
  <2>1. /\ Control' /\ Forms' /\ RegistryExact' /\ CountersOutliveCopies'
        /\ status[h] = "closing" /\ type[h] = "semaphore" /\ IsSema(h) /\ Busy(t)
    BY <1>1, <1>2, <1>3, <1>8, TurnKeeps
  <2>2. /\ UNCHANGED <<status, type, name, sem, source, refs, drained, owner>>
        /\ scan'[t].i = i + 1 /\ scan'[t].n = scan[t].n
        /\ scan' \in [Callers -> [i : Nat \ {0}, n : Nat]]
        /\ \A u \in Callers : u # t => scan'[u] = scan[u]
    <3>1. scan \in [Callers -> [i : Nat \ {0}, n : Nat]]
      BY <1>1 DEF TypeOK
    <3> QED
      BY <1>3, <1>8, <3>1 DEF handleVars
  <2>3. Listed'
    BY <1>1, <1>8, <2>2 DEF Listed, IsSema, IsCopy
  <2>4. Uncrossed'
    <3>1. ~raced' => ScanOK(t)'
      BY <1>1, <1>2, <1>4, <1>8, <2>2 DEF Uncrossed, ScanOK
    <3> QED
      BY <1>1, <1>8, <2>2, <3>1, UncrossedKept
  <2>5. Sources'
    BY <1>1, <1>3, <1>8, <2>2 DEF Sources, SourceOK, IsSema, IsCopy, Entries
  <2>6. TypeOK'
    BY <1>1, <1>3, <1>8, <2>2 DEF TypeOK
  <2> QED
    BY <2>1, <2>3, <2>4, <2>5, <2>6 DEF RegistryInv
<1> QED
  BY <1>2, <1>5, <1>6, <1>7, <1>8 DEF RemoveSemaListEntry

(* A HANDLE that is closed without the list of semaphores, or that is off  *)
(* it when its memory goes.                                                *)
LEMMA LeaveKeeps ==
    ASSUME RegistryInv, NEW t \in Callers, NEW h \in Handles,
           NEW state \in {"closing", "freed"}, Control', RegistryExact', TypeOK',
           UNCHANGED <<type, name, sem, source, refs, semaList, linked, scan, raced, copyClosed>>,
           status' = [status EXCEPT ![h] = state], pc[t] # "listing",
           \A u \in Callers : u # t => pc'[u] = pc[u] /\ obj'[u] = obj[u],
           \/ pc'[t] = "idle"
           \/ pc'[t] = "unregister" /\ obj'[t] = h /\ type[h] # "semaphore",
           \/ type[h] # "semaphore" /\ status[h] = "open"
           \/ status[h] = "closing",
           ~raced => \A i \in DOMAIN semaList : semaList[i] # h
    PROVE  RegistryInv'
<1>1. TypeOK /\ Control /\ Forms /\ CountersOutliveCopies /\ Listed /\ Uncrossed /\ Sources
  BY DEF RegistryInv
<1>2. /\ status'[h] = state /\ status[h] # "none"
      /\ \A g \in Handles : g # h => status'[g] = status[g]
  BY <1>1, Functions
<1>3. type[h] # "semaphore" => ~IsCopy(h) /\ Copies(h) = {}
  BY <1>1, FormFacts, SourcesOfCopies DEF IsSema
<1>4. Forms'
  BY <1>1, <1>2, MoveForms
<1>5. CountersOutliveCopies'
  <2>1. \A g \in Handles : Copies(g)' = Copies(g)
    BY <1>2, <1>3, CopiesKept DEF IsCopy
  <2> QED
    BY <1>1, <1>2, <1>3, <2>1, CountersKept DEF Open
<1>6. Listed'
  <2>1. \A g \in Handles : IsSema(g) => IsSema(g)' /\ sem'[g] = sem[g] /\ source'[g] = source[g]
    BY <1>2 DEF IsSema
  <2> QED
    BY <1>1, <2>1, ListedKept
<1>7. Uncrossed'
  <2> SUFFICES ASSUME ~raced
               PROVE  /\ \A i \in DOMAIN semaList : status'[semaList[i]] # "freed"
                      /\ \A u \in Callers : ScanOK(u)'
    BY DEF Uncrossed
  <2>1. /\ \A i \in DOMAIN semaList : status[semaList[i]] # "freed" /\ semaList[i] # h
        /\ \A u \in Callers : ScanOK(u)
    BY <1>1 DEF Uncrossed
  <2>2. \A i \in DOMAIN semaList : status'[semaList[i]] # "freed"
    BY <1>1, <1>2, <2>1, ListFacts
  <2>3. ASSUME NEW u \in Callers
        PROVE  ScanOK(u)'
    <3>1. CASE u = t
      BY <3>1 DEF ScanOK
    <3>2. CASE u # t
      BY <2>1, <3>2 DEF ScanOK
    <3> QED
      BY <3>1, <3>2
  <2> QED
    BY <2>2, <2>3
<1>8. Sources'
  <2>1. \A g \in Handles : IsSema(g)' /\ ~IsCopy(g)' =>
            /\ IsSema(g) /\ ~IsCopy(g) /\ sem'[g] = sem[g]
            /\ status'[g] \in {"building", "open"} => status[g] \in {"building", "open"}
    BY <1>2 DEF IsSema, IsCopy
  <2>2. \A u \in Callers : pc[u] = "listing" => pc'[u] = "listing" /\ obj'[u] = obj[u]
    OBVIOUS
  <2>3. ASSUME NEW m \in Names, linked[m] # None
        PROVE  status[linked[m]] \in {"building", "open"} =>
                   status'[linked[m]] \in {"building", "open"}
    <3>1. IsSema(linked[m]) /\ linked[m] \in Handles
      BY <1>1, <2>3 DEF Forms, LinkOK, TypeOK
    <3> QED
      BY <1>2, <3>1 DEF IsSema
  <2>4. \A u \in Callers : pc'[u] = "unlist" =>
            pc[u] = "unlist" /\ obj'[u] = obj[u] /\ (IsCopy(obj[u])' => IsCopy(obj[u]))
    BY DEF IsCopy
  <2> QED
    BY <1>1, <2>1, <2>2, <2>3, <2>4, SourcesKept
<1> QED
  BY <1>4, <1>5, <1>6, <1>7, <1>8 DEF RegistryInv

LEMMA ClosePlainKeeps ==
    ASSUME RegistryInv, NEW t \in Callers, NEW h \in Handles, ClosePlain(t, h)
    PROVE  RegistryInv'
<1>1. TypeOK /\ Control /\ Listed
  BY DEF RegistryInv
<1>2. /\ pc[t] = "idle" /\ ~Busy(t) /\ exit = "no" /\ status[h] = "open"
      /\ type[h] \in {"mutex", "event"} /\ (\A u \in Callers : obj[u] # h) /\ obj[t] = None
      /\ UNCHANGED <<type, name, sem, source, refs, drained, owner, semaList, openList,
                     linked, current, scan, exit, thrown, raced, copyClosed>>
  BY <1>1 DEF ClosePlain, Calls, Open, Busy, Control, PlaceOK, listVars, endVars
<1>3. \A u \in Callers : current[u] # h
  BY <1>1, <1>2, Functions DEF Control, CurrentOK
<1>4. \A i \in DOMAIN semaList : semaList[i] # h
  BY <1>1, <1>2 DEF Listed, IsSema
<1>5. PICK state \in {"closing", "freed"}, place \in {"unregister", "idle"},
           o \in Handles \cup {None} :
          /\ status' = [status EXCEPT ![h] = state] /\ Goto(t, place, o)
          /\ \/ state = "closing" /\ place = "unregister" /\ o = h
             \/ state = "freed" /\ place = "idle" /\ o = None /\ owner[h] # None
  <2>1. CASE owner[h] = None
    BY <1>2, <2>1 DEF ClosePlain
  <2>2. CASE owner[h] # None
    <3>1. Goto(t, "idle", None)
      BY <1>1, <1>2, <2>2 DEF ClosePlain, Goto, TypeOK
    <3> QED
      BY <1>2, <2>2, <3>1 DEF ClosePlain
  <2> QED
    BY <2>1, <2>2
<1>6. /\ status'[h] = state /\ pc'[t] = place /\ obj'[t] = o
      /\ \A g \in Handles : g # h => status'[g] = status[g]
      /\ \A u \in Callers : u # t => pc'[u] = pc[u] /\ obj'[u] = obj[u]
  BY <1>1, <1>5, Functions DEF Goto
<1>7. Control'
  BY <1>1, <1>2, <1>3, <1>5, MoveControl
<1>8. RegistryExact'
  BY <1>2, <1>5, <1>6 DEF RegistryInv, RegistryExact, Open
<1>9. TypeOK'
  BY <1>1, <1>2, <1>5 DEF TypeOK, Goto, Places
<1> QED
  BY <1>2, <1>4, <1>5, <1>6, <1>7, <1>8, <1>9, LeaveKeeps

LEMMA ForceCloseHandleKeeps ==
    ASSUME RegistryInv, NEW t \in Callers, ForceCloseHandle(t)
    PROVE  RegistryInv'
<1>1. TypeOK /\ Control /\ Listed
  BY DEF RegistryInv
<1>2. PICK h \in Handles : h = current[t]
  BY <1>1 DEF ForceCloseHandle, TypeOK
<1>3. /\ pc[t] = "idle" /\ ~Busy(t) /\ exit = "no" /\ status[h] = "open"
      /\ type[h] = "thread" /\ obj[t] = None
      /\ status' = [status EXCEPT ![h] = "closing"]
      /\ current' = [current EXCEPT ![t] = None] /\ Goto(t, "unregister", h)
      /\ UNCHANGED <<type, name, sem, source, refs, drained, owner, semaList, openList,
                     linked, scan, exit, thrown, raced, copyClosed>>
  BY <1>1, <1>2 DEF ForceCloseHandle, Calls, Busy, Control, PlaceOK, CurrentOK, listVars, endVars
<1>4. \A u \in Callers : u # t /\ Busy(u) => obj[u] # h
  <2>1. ASSUME NEW u \in Callers, Busy(u)
        PROVE  status[obj[u]] \in {"building", "closing"}
    BY <1>1, <2>1 DEF Control, PlaceOK, Busy, TypeOK, Places
  <2> QED
    BY <1>3, <2>1
<1>5. \A i \in DOMAIN semaList : semaList[i] # h
  BY <1>1, <1>3 DEF Listed, IsSema
<1>6. /\ status'[h] = "closing" /\ pc'[t] = "unregister" /\ obj'[t] = h
      /\ \A g \in Handles : g # h => status'[g] = status[g]
      /\ \A u \in Callers : u # t => pc'[u] = pc[u] /\ obj'[u] = obj[u]
  BY <1>1, <1>3, Functions DEF Goto
<1>7. Control'
  BY <1>1, <1>2, <1>3, <1>4, MoveControl
<1>8. RegistryExact'
  BY <1>3, <1>6 DEF RegistryInv, RegistryExact, Open
<1>9. TypeOK'
  BY <1>1, <1>3 DEF TypeOK, Goto, Places
<1> QED
  BY <1>3, <1>5, <1>6, <1>7, <1>8, <1>9, LeaveKeeps

LEMMA UnregisterHANDLEKeeps ==
    ASSUME RegistryInv, NEW t \in Callers, UnregisterHANDLE(t)
    PROVE  RegistryInv'
<1>1. TypeOK /\ Control /\ Listed /\ Uncrossed
  BY DEF RegistryInv
<1>2. PICK h \in Handles : h = obj[t]
  BY <1>1 DEF UnregisterHANDLE, Control, PlaceOK, Busy
<1>3. /\ pc[t] = "unregister" /\ Busy(t) /\ exit = "no" /\ status[h] = "closing"
      /\ status' = [status EXCEPT ![h] = "freed"] /\ Goto(t, "idle", None)
      /\ openList' = openList \ {h}
      /\ UNCHANGED <<type, name, sem, source, refs, drained, owner, semaList,
                     linked, current, scan, exit, thrown, raced, copyClosed>>
  BY <1>1, <1>2 DEF UnregisterHANDLE, Busy, Control, PlaceOK, TypeOK, endVars
<1>4. \A u \in Callers : u # t /\ Busy(u) =>
          /\ obj[u] # h
          /\ type[h] = "semaphore" /\ type[obj[u]] = "semaphore" => name[obj[u]] # name[h]
  BY <1>1, <1>2, <1>3 DEF Control, Apart
<1>5. \A u \in Callers : current[u] # h
  <2>1. ASSUME NEW u \in Callers, current[u] = h
        PROVE  FALSE
    BY <1>1, <1>3, <2>1, Functions DEF Control, CurrentOK, PlaceOK
  <2> QED
    BY <2>1
<1>6. ASSUME ~raced, NEW i \in DOMAIN semaList
      PROVE  semaList[i] # h
  <2>1. CASE type[h] = "semaphore"
    BY <1>1, <1>2, <1>3, <1>6, <2>1 DEF Uncrossed, ScanOK
  <2>2. CASE type[h] # "semaphore"
    BY <1>1, <2>2 DEF Listed, IsSema
  <2> QED
    BY <2>1, <2>2
<1>7. /\ status'[h] = "freed" /\ pc'[t] = "idle" /\ obj'[t] = None
      /\ \A g \in Handles : g # h => status'[g] = status[g]
      /\ \A u \in Callers : u # t => pc'[u] = pc[u] /\ obj'[u] = obj[u]
  BY <1>1, <1>3, Functions DEF Goto
<1>8. Control'
  BY <1>1, <1>2, <1>3, <1>4, <1>5, MoveControl
<1>9. RegistryExact'
  BY <1>3, <1>7 DEF RegistryInv, RegistryExact, Open
<1>10. TypeOK'
  BY <1>1, <1>3 DEF TypeOK, Goto, Places
<1> QED
  BY <1>3, <1>6, <1>7, <1>8, <1>9, <1>10, LeaveKeeps

-----------------------------------------------------------------------------
(* The step of the clean-up                                                *)

(* The entry FreeAllSemaHandles closes is a source without copies, and the *)
(* one with its sem_t, which the close takes off the list.                 *)
LEMMA FreeTakesItsEntry ==
    ASSUME RegistryInv, FreeNext
    PROVE  \E i \in DOMAIN semaList : \E h \in Handles :
               /\ h = semaList[i] /\ IsSema(h) /\ ~IsCopy(h) /\ Closable(h)
               /\ DestroySemaphore(h) /\ semaList' = RemoveAt(semaList, i)
               /\ openList' = openList \ {h} /\ status' = [status EXCEPT ![h] = "freed"]
<1>1. TypeOK /\ Listed
  BY DEF RegistryInv
<1>2. PICK i \in DOMAIN semaList :
          /\ Closable(semaList[i]) /\ DestroySemaphore(semaList[i])
          /\ semaList' = RemoveAt(semaList,
                CHOOSE j \in 1 .. i : sem[semaList[j]] = sem[semaList[i]]
                    /\ \A l \in 1 .. j - 1 : sem[semaList[l]] # sem[semaList[i]])
          /\ openList' = openList \ {semaList[i]}
          /\ status' = [status EXCEPT ![semaList[i]] = "freed"]
  BY DEF FreeNext
<1> DEFINE P(j) == sem[semaList[j]] = sem[semaList[i]]
                       /\ \A l \in 1 .. j - 1 : sem[semaList[l]] # sem[semaList[i]]
<1>3. i \in Nat /\ i >= 1 /\ i <= Len(semaList) /\ DOMAIN semaList = 1 .. Len(semaList)
        /\ Len(semaList) \in Nat
  BY <1>1, ListFacts
<1>4. \A j \in 1 .. i : sem[semaList[j]] = sem[semaList[i]] => j = i
  <2>1. \A j \in 1 .. i : j \in DOMAIN semaList
    BY <1>3
  <2> QED
    BY <1>1, <2>1 DEF Listed
<1>5. \A l \in 1 .. i - 1 : sem[semaList[l]] # sem[semaList[i]]
  <2>1. \A l \in 1 .. i - 1 : l \in 1 .. i /\ l # i
    BY <1>3
  <2> QED
    BY <1>4, <2>1
<1>6. i \in 1 .. i /\ P(i)
  BY <1>3, <1>5
<1>7. (CHOOSE j \in 1 .. i : P(j)) = i
  <2>1. (CHOOSE j \in 1 .. i : P(j)) \in 1 .. i /\ P(CHOOSE j \in 1 .. i : P(j))
    BY <1>6, Zenon
  <2> QED
    BY <1>4, <2>1, Zenon
<1>8. semaList[i] \in Handles /\ IsSema(semaList[i]) /\ ~IsCopy(semaList[i])
  BY <1>1, ListFacts DEF Listed
<1> QED
  BY <1>2, <1>7, <1>8

LEMMA FreeNextKeeps ==
    ASSUME RegistryInv, FreeNext
    PROVE  RegistryInv'
<1>1. TypeOK /\ Control /\ Forms /\ CountersOutliveCopies /\ Listed /\ Uncrossed /\ Sources
  BY DEF RegistryInv
<1>2. PICK i \in DOMAIN semaList : \E h \in Handles :
          /\ h = semaList[i] /\ IsSema(h) /\ ~IsCopy(h) /\ Closable(h)
          /\ DestroySemaphore(h) /\ semaList' = RemoveAt(semaList, i)
          /\ openList' = openList \ {h} /\ status' = [status EXCEPT ![h] = "freed"]
  BY FreeTakesItsEntry
<1>3. PICK h \in Handles :
          /\ h = semaList[i] /\ IsSema(h) /\ ~IsCopy(h) /\ Closable(h)
          /\ DestroySemaphore(h) /\ semaList' = RemoveAt(semaList, i)
          /\ openList' = openList \ {h} /\ status' = [status EXCEPT ![h] = "freed"]
  BY <1>2
<1>4. /\ exit = "freeing" /\ \A u \in Callers : ~Busy(u)
      /\ UNCHANGED <<type, name, sem, source, owner, current, pc, obj, scan, exit, thrown, raced>>
  BY <1>1 DEF FreeNext, Control, callerVars
<1>5. /\ status'[h] = "freed" /\ \A g \in Handles : g # h => status'[g] = status[g]
      /\ refs' = refs /\ refs[h] = 0 /\ linked' = [linked EXCEPT ![name[h]] = None]
      /\ copyClosed' = copyClosed /\ name[h] \in Names
      /\ drained' = [drained EXCEPT ![source[h]] = FALSE]
  BY <1>1, <1>3, FormFacts, Functions DEF DestroySemaphore, Closable, TypeOK
<1>6. Copies(h) = {}
  BY <1>1, <1>5, CopiesFinite DEF CountersOutliveCopies
<1>7. /\ Listed'
      /\ semaList' \in Seq(Handles)
      /\ \A j \in DOMAIN semaList' :
             \E k \in DOMAIN semaList : k # i /\ semaList'[j] = semaList[k]
                      /\ sem[semaList[k]] # sem[semaList[i]]
      /\ \A k \in DOMAIN semaList : k # i =>
             \E j \in DOMAIN semaList' : semaList'[j] = semaList[k]
  <2>1. \A g \in Handles : status'[g] = "none" <=> status[g] = "none"
    BY <1>3, <1>5 DEF IsSema
  <2>2. \A u \in Callers : pc'[u] = "listing" => pc[u] = "listing" /\ obj'[u] = obj[u]
    BY <1>4
  <2> QED
    BY <1>1, <1>3, <1>4, <2>1, <2>2, ListedRemoved
<1>8. Control'
  <2>1. ASSUME NEW u \in Callers
        PROVE  PlaceOK(u)' /\ CurrentOK(u)'
    <3>1. PlaceOK(u) /\ CurrentOK(u) /\ ~Busy(u) /\ ~Busy(u)'
            /\ current[u] \in Handles \cup {None}
      BY <1>1, <1>4 DEF Control, Busy, TypeOK
    <3>2. PlaceOK(u)'
      BY <1>4, <3>1 DEF PlaceOK, Busy
    <3>3. current[u] # h
      BY <1>1, <1>3, <3>1, Functions DEF CurrentOK, IsSema
    <3> QED
      BY <1>4, <1>5, <3>1, <3>2, <3>3 DEF CurrentOK
  <2>2. ASSUME NEW g \in Handles
        PROVE  Held(g)'
    BY <1>1, <1>4, <1>5 DEF Control, Held
  <2> QED
    BY <1>1, <1>4, <2>1, <2>2 DEF Control, Apart, Busy
<1>9. Forms'
  <2>1. \A g \in Handles : status'[g] = "none" <=> status[g] = "none"
    BY <1>3, <1>5 DEF IsSema
  <2>2. \A m \in Names : linked'[m] = linked[m] \/ linked'[m] = None
    BY <1>1, <1>5, Functions
  <2> QED
    BY <1>1, <1>4, <2>1, <2>2, MoveForms
<1>10. RegistryExact'
  BY <1>3, <1>4, <1>5 DEF RegistryInv, RegistryExact, Open
<1>11. CountersOutliveCopies'
  <2>1. \A g \in Handles : Copies(g)' = Copies(g)
    BY <1>3, <1>4, <1>5, CopiesKept DEF IsCopy
  <2> QED
    BY <1>1, <1>4, <1>5, <1>6, <2>1, CountersKept DEF Open
<1>12. Uncrossed'
  <2>1. ASSUME ~raced, NEW j \in DOMAIN semaList'
        PROVE  status'[semaList'[j]] # "freed"
    <3>1. PICK k \in DOMAIN semaList : k # i /\ semaList'[j] = semaList[k]
                      /\ sem[semaList[k]] # sem[semaList[i]]
      BY <1>7
    <3>2. semaList[k] # h /\ semaList[k] \in Handles /\ status[semaList[k]] # "freed"
      BY <1>1, <1>3, <2>1, <3>1, ListFacts DEF Uncrossed
    <3> QED
      BY <1>5, <3>1, <3>2
  <2>2. \A u \in Callers : ScanOK(u)'
    BY <1>4 DEF ScanOK, Busy
  <2> QED
    BY <1>4, <2>1, <2>2 DEF Uncrossed
<1>13. Sources'
  <2> SUFFICES ASSUME ~raced, ~copyClosed
               PROVE  /\ \A g \in Handles : SourceOK(g)'
                      /\ \A m \in Names : linked'[m] # None =>
                             status'[linked'[m]] \in {"building", "open"}
                      /\ \A u \in Callers : pc'[u] = "unlist" => ~IsCopy(obj[u])'
    BY <1>4, <1>5 DEF Sources
  <2>1. /\ \A g \in Handles : SourceOK(g)
        /\ \A m \in Names : linked[m] # None => status[linked[m]] \in {"building", "open"}
    BY <1>1 DEF Sources
  <2>2. \A g \in Entries : g # h => g \in Entries'
    BY <1>3, <1>7 DEF Entries
  <2>3. ASSUME NEW g \in Handles
        PROVE  SourceOK(g)'
    <3>1. CASE g = h
      BY <1>3, <1>4, <1>5, <2>1, <3>1 DEF SourceOK, IsSema, IsCopy
    <3>2. CASE g # h
      BY <1>4, <1>5, <2>1, <2>2, <3>2 DEF SourceOK, IsSema, IsCopy
    <3> QED
      BY <3>1, <3>2
  <2>4. ASSUME NEW m \in Names, linked'[m] # None
        PROVE  status'[linked'[m]] \in {"building", "open"}
    <3>1. linked'[m] = linked[m] /\ m # name[h] /\ linked[m] \in Handles
      BY <1>1, <1>5, <2>4 DEF TypeOK
    <3>2. linked[m] # h
      BY <1>1, <2>4, <3>1 DEF Forms, LinkOK
    <3> QED
      BY <1>5, <2>1, <2>4, <3>1, <3>2
  <2>5. \A u \in Callers : pc'[u] # "unlist"
    BY <1>4 DEF Busy
  <2> QED
    BY <2>3, <2>4, <2>5
<1>14. TypeOK'
  BY <1>1, <1>3, <1>4, <1>5, <1>7 DEF TypeOK
<1> QED
  BY <1>7, <1>8, <1>9, <1>10, <1>11, <1>12, <1>13, <1>14 DEF RegistryInv

-----------------------------------------------------------------------------
(* The invariant of the specification                                      *)

LEMMA InitRegistry ==
    ASSUME Init
    PROVE  RegistryInv
<1>1. TypeOK
  <2>1. 0 \in 0 .. Cardinality(Handles)
    <3>1. Cardinality(Handles) \in Nat
      BY RegistryAssumption, FS_CardinalityType
    <3> QED
      BY <3>1
  <2>2. refs \in [Handles -> 0 .. Cardinality(Handles)]
    BY <2>1 DEF Init
  <2>3. scan \in [Callers -> [i : Nat \ {0}, n : Nat]]
    BY DEF Init
  <2>4. semaList \in Seq(Handles)
    BY DEF Init
  <2> QED
    BY <2>2, <2>3, <2>4 DEF Init, TypeOK, Types, Places
<1>2. Control
  BY Functions, <1>1 DEF Init, Control, PlaceOK, CurrentOK, Apart, Held, Busy
<1>3. Forms
  BY DEF Init, Forms, FormOK, LinkOK, IsSema, IsCopy
<1>4. RegistryExact
  BY DEF Init, RegistryExact, Open
<1>5. CountersOutliveCopies
  <2>1. \A h \in Handles : Copies(h) = {}
    BY DEF Init, Copies
  <2> QED
    BY <2>1, FS_EmptySet DEF Init, CountersOutliveCopies
<1>6. Listed /\ Uncrossed
  BY DEF Init, Listed, Uncrossed, ScanOK
<1>7. Sources
  BY DEF Init, Sources, SourceOK, IsSema
<1> QED
  BY <1>1, <1>2, <1>3, <1>4, <1>5, <1>6, <1>7 DEF RegistryInv

LEMMA RegistryStep ==
    ASSUME RegistryInv, [Next]_vars
    PROVE  RegistryInv'
<1>1. CASE UNCHANGED vars
  <2>1. TypeOK'
    BY <1>1 DEF vars, handleVars, listVars, callerVars, endVars, RegistryInv, TypeOK
  <2> QED
    BY <1>1, <2>1, QuietKeeps DEF vars, handleVars, endVars
<1>2. ASSUME NEW t \in Callers, Create(t)
      PROVE  RegistryInv'
  <2>1. PICK h \in Handles :
            \/ \E n \in Names : OpenCopy(t, h, n) \/ CreateSource(t, h, n)
            \/ \E ty \in {"mutex", "event"}, o \in {t, None} : CreatePlain(t, h, ty, o)
            \/ GetCurrentThread(t, h)
    BY <1>2 DEF Create
  <2> QED
    BY <2>1, OpenCopyKeeps, CreateSourceKeeps, CreatePlainKeeps, GetCurrentThreadKeeps
<1>3. ASSUME NEW t \in Callers, Close(t)
      PROVE  RegistryInv'
  BY <1>3, CloseSemaphoreKeeps, ClosePlainKeeps, ForceCloseHandleKeeps DEF Close
<1>4. ASSUME NEW t \in Callers, Inside(t)
      PROVE  RegistryInv'
  BY <1>4, AddSemaListEntryKeeps, RegisterHANDLEKeeps, RemoveSemaListEntryKeeps,
     UnregisterHANDLEKeeps DEF Inside
<1>5. ASSUME NEW t \in Callers, Use(t)
      PROVE  RegistryInv'
  BY <1>5, UseKeeps DEF Use
<1>6. ASSUME NEW h \in Handles, NEW b \in BOOLEAN, Drain(h, b)
      PROVE  RegistryInv'
  <2>1. TypeOK'
    BY <1>6 DEF RegistryInv, TypeOK, Drain, listVars, callerVars, endVars
  <2> QED
    BY <1>6, <2>1, QuietKeeps DEF Drain, endVars
<1>7. CASE Exit \/ FreeDone
  <2>1. TypeOK'
    BY <1>7 DEF RegistryInv, TypeOK, Exit, FreeDone, handleVars, listVars, callerVars
  <2> QED
    BY <1>7, <2>1, QuietKeeps DEF Exit, FreeDone, handleVars, Busy
<1>8. CASE FreeNext
  BY <1>8, FreeNextKeeps
<1> QED
  BY <1>1, <1>2, <1>3, <1>4, <1>5, <1>6, <1>7, <1>8 DEF Next, FreeAllSemaHandles

(* Every state the callers can reach satisfies the invariant.              *)
THEOREM RegistryInvariant == Spec => []RegistryInv
<1>1. Init => RegistryInv
  BY InitRegistry
<1>2. RegistryInv /\ [Next]_vars => RegistryInv'
  BY RegistryStep
<1> QED
  BY <1>1, <1>2, PTL DEF Spec

(* Types, for RegisterHANDLE and all that it registers: places, states and *)
(* counts stay in their ranges, refHANDLEs among them.                     *)
THEOREM RegistryTypeCorrect == Spec => []TypeOK
<1>1. RegistryInv => TypeOK
  BY DEF RegistryInv
<1> QED
  BY <1>1, RegistryInvariant, PTL

(* theOpenHandleList holds every HANDLE that is open, and of those that    *)
(* CloseHandle has freed only the mutexes that were locked.                *)
THEOREM RegistryExactCorrect == Spec => []RegistryExact
<1>1. RegistryInv => RegistryExact
  BY DEF RegistryInv
<1> QED
  BY <1>1, RegistryInvariant, PTL

(* refHANDLEs is the number of copies OpenSemaphore has made that are not  *)
(* closed, and CloseHandle leaves a source alone that has any.             *)
THEOREM CountersCorrect == Spec => []CountersOutliveCopies
<1>1. RegistryInv => CountersOutliveCopies
  BY DEF RegistryInv
<1> QED
  BY <1>1, RegistryInvariant, PTL

(* What OpenSemaphore reads in theSemaList is alive and complete, as long  *)
(* as RemoveSemaListEntry is not disturbed by another thread.              *)
THEOREM ListTrueCorrect == Spec => []ListTrue
<1>1. ASSUME RegistryInv
      PROVE  ListTrue
  <2>1. TypeOK /\ Control /\ Listed /\ Uncrossed /\ Sources
    BY <1>1 DEF RegistryInv
  <2>2. ASSUME ~raced, NEW h \in Entries
        PROVE  status[h] \notin {"none", "freed"}
    BY <2>1, <2>2 DEF Entries, Listed, Uncrossed, IsSema
  <2>3. ASSUME ~raced, ~copyClosed, NEW h \in Handles,
               Open(h), type[h] = "semaphore", ~IsCopy(h)
        PROVE  h \in Entries
    BY <2>1, <2>3 DEF Sources, SourceOK, Control, PlaceOK, Open, IsSema
  <2> QED
    BY <2>2, <2>3 DEF ListTrue
<1> QED
  BY <1>1, RegistryInvariant, PTL
=============================================================================
