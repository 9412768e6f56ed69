-------------------------- MODULE HandleRegistry --------------------------
(***************************************************************************)
(* The registry of open HANDLEs and the list of named semaphores of        *)
(* CritSectEx/msemul.cpp: creating, opening, copying and closing HANDLEs,  *)
(* the HANDLE GetCurrentThread keeps for a thread, and the clean-up at     *)
(* exit.  A section under semaListCSE or openHandleListCSE is one step.    *)
(* sem_open gives every opener of a linked name the same sem_t, which is   *)
(* identified here with the HANDLE that created it.                        *)
(***************************************************************************)
EXTENDS Naturals, Sequences, FiniteSets, SequencesExt

CONSTANTS
    Callers,   (* the threads that create and close HANDLEs                 *)
    Handles,   (* the HANDLEs there may ever be                             *)
    Names,     (* the names of semaphores                                   *)
    None       (* no HANDLE, nobody                                         *)

ASSUME RegistryAssumption ==
    /\ IsFiniteSet(Handles) /\ IsFiniteSet(Callers)
    /\ None \notin Handles \cup Callers \cup Names

VARIABLES
    status,       (* of a HANDLE: none, building, open, closing or freed      *)
    type,         (* semaphore, mutex, event or thread                        *)
    name, sem,    (* of a semaphore: its name, its sem_t                      *)
    source,       (* the HANDLE its counter->refHANDLEp points to             *)
    refs,         (* d.s.refHANDLEs: the copies of a source                   *)
    drained,      (* counter->curCount = 0                                    *)
    owner,        (* who has locked a mutex                                   *)
    semaList,     (* theSemaList                                              *)
    openList,     (* theOpenHandleList                                        *)
    linked,       (* the kernel: the sem_t a name stands for                  *)
    current,      (* what currentThreadKey holds for a thread                 *)
    pc, obj,      (* each caller's place, and the HANDLE it is at             *)
    scan,         (* RemoveSemaListEntry's i and N                            *)
    exit,         (* no, freeing or done                                      *)
    thrown,       (* at(i) has thrown out of a destructor                     *)
    raced,        (* auxiliary: two threads' uses of theSemaList have crossed  *)
    copyClosed    (* auxiliary: a copy has been closed                        *)

handleVars == <<status, type, name, sem, source, refs, drained, owner>>
listVars   == <<semaList, openList>>
callerVars == <<current, pc, obj, scan>>
endVars    == <<exit, thrown, raced, copyClosed>>
vars == <<handleVars, listVars, linked, callerVars, endVars>>

Types  == {"semaphore", "mutex", "event", "thread"}
Places == {"idle", "listing", "register", "unlist", "unregister"}

TypeOK ==
    /\ status \in [Handles -> {"none", "building", "open", "closing", "freed"}]
    /\ type \in [Handles -> Types] /\ name \in [Handles -> Names \cup {None}]
    /\ sem \in [Handles -> Handles] /\ source \in [Handles -> Handles]
    /\ refs \in [Handles -> 0 .. Cardinality(Handles)]
    /\ drained \in [Handles -> BOOLEAN]
    /\ owner \in [Handles -> Callers \cup {None}]
    /\ semaList \in Seq(Handles) /\ openList \subseteq Handles
    /\ linked \in [Names -> Handles \cup {None}]
    /\ current \in [Callers -> Handles \cup {None}]
    /\ pc \in [Callers -> Places] /\ obj \in [Callers -> Handles \cup {None}]
    /\ scan \in [Callers -> [i : Nat \ {0}, n : Nat]]
    /\ exit \in {"no", "freeing", "done"}
    /\ thrown \in BOOLEAN /\ raced \in BOOLEAN /\ copyClosed \in BOOLEAN

Init ==
    /\ status = [h \in Handles |-> "none"]
    /\ type = [h \in Handles |-> "event"] /\ name = [h \in Handles |-> None]
    /\ sem = [h \in Handles |-> h] /\ source = [h \in Handles |-> h]
    /\ refs = [h \in Handles |-> 0] /\ drained = [h \in Handles |-> FALSE]
    /\ owner = [h \in Handles |-> None]
    /\ semaList = <<>> /\ openList = {} /\ linked = [n \in Names |-> None]
    /\ current = [t \in Callers |-> None] /\ pc = [t \in Callers |-> "idle"]
    /\ obj = [t \in Callers |-> None] /\ scan = [t \in Callers |-> [i |-> 1, n |-> 0]]
    /\ exit = "no" /\ thrown = FALSE /\ raced = FALSE /\ copyClosed = FALSE

IsCopy(h) == source[h] # h
Open(h)   == status[h] = "open"

Goto(t, place, h) ==
    /\ pc' = [pc EXCEPT ![t] = place] /\ obj' = [obj EXCEPT ![t] = h]

(* Callers take turns on a name and on a HANDLE; nothing else is ordered.  *)
Calls(t) == pc[t] = "idle" /\ exit = "no"
NameFree(n) ==
    \A u \in Callers : pc[u] # "idle" => type[obj[u]] # "semaphore" \/ name[obj[u]] # n

(* A new HANDLE.  Which one is of no importance: the least unused one.     *)
New(h) == status[h] = "none"

-----------------------------------------------------------------------------
(* OpenSemaphore and CreateSemaphore                                       *)

First(found) ==
    IF found = {} THEN None ELSE semaList[CHOOSE i \in found : \A j \in found : i <= j]

(* The entry OpenSemaphore copies: the first with the sem_t, or else the   *)
(* first source with the name.  Only sources are in the list.              *)
FindSemaphoreHANDLE(n) ==
    LET bySem == First({i \in DOMAIN semaList : sem[semaList[i]] = linked[n]})
    IN  IF bySem # None THEN bySem
        ELSE First({i \in DOMAIN semaList : name[semaList[i]] = n})

(* A copy shares the counter of the source it was found by.  It has the   *)
(* same sem_t as its source, so it is not put into the list.               *)
OpenCopy(t, h, n) ==
    LET org == FindSemaphoreHANDLE(n)
    IN  /\ Calls(t) /\ New(h) /\ NameFree(n)
        /\ linked[n] # None /\ org # None /\ name[org] = n
        /\ status' = [status EXCEPT ![h] = "building"]
        /\ type' = [type EXCEPT ![h] = "semaphore"] /\ name' = [name EXCEPT ![h] = n]
        /\ sem' = [sem EXCEPT ![h] = linked[n]]
        /\ source' = [source EXCEPT ![h] = org]
        /\ refs' = [refs EXCEPT ![org] = @ + 1]
        /\ Goto(t, "register", h)
        /\ UNCHANGED <<drained, owner, listVars, linked, current, scan, endVars>>

(* CreateSemaphore makes a source where OpenSemaphore has found nothing.   *)
CreateSource(t, h, n) ==
    /\ Calls(t) /\ New(h) /\ NameFree(n)
    /\ linked[n] # None => FindSemaphoreHANDLE(n) = None
    /\ status' = [status EXCEPT ![h] = "building"]
    /\ type' = [type EXCEPT ![h] = "semaphore"] /\ name' = [name EXCEPT ![h] = n]
    /\ sem' = [sem EXCEPT ![h] = IF linked[n] = None THEN h ELSE linked[n]]
    /\ linked' = [linked EXCEPT ![n] = IF @ = None THEN h ELSE @]
    /\ Goto(t, "listing", h)
    /\ UNCHANGED <<source, refs, drained, owner, listVars, current, scan, endVars>>

AddSemaListEntry(t) ==
    /\ pc[t] = "listing"
    /\ semaList' = Append(semaList, obj[t])
    /\ Goto(t, "register", obj[t])
    /\ UNCHANGED <<handleVars, openList, linked, current, scan, endVars>>

(* CreateMutex, locked or not, and msCreateEvent                           *)
CreatePlain(t, h, ty, o) ==
    /\ Calls(t) /\ New(h) /\ (o = None \/ ty = "mutex")
    /\ status' = [status EXCEPT ![h] = "building"]
    /\ type' = [type EXCEPT ![h] = ty] /\ owner' = [owner EXCEPT ![h] = o]
    /\ Goto(t, "register", h)
    /\ UNCHANGED <<name, sem, source, refs, drained, listVars, linked, current, scan, endVars>>

(* GetCurrentThread, the first time in a thread                            *)
GetCurrentThread(t, h) ==
    /\ Calls(t) /\ New(h) /\ current[t] = None
    /\ status' = [status EXCEPT ![h] = "building"] /\ type' = [type EXCEPT ![h] = "thread"]
    /\ current' = [current EXCEPT ![t] = h]
    /\ Goto(t, "register", h)
    /\ UNCHANGED <<name, sem, source, refs, drained, owner, listVars, linked, scan, endVars>>

(* The end of RegisterHANDLE                                               *)
RegisterHANDLE(t) ==
    /\ pc[t] = "register"
    /\ openList' = openList \cup {obj[t]}
    /\ status' = [status EXCEPT ![obj[t]] = "open"] /\ Goto(t, "idle", None)
    /\ UNCHANGED <<type, name, sem, source, refs, drained, owner, semaList, linked,
                   current, scan, endVars>>

-----------------------------------------------------------------------------
(* Waits and releases, as far as closing a HANDLE looks at their results   *)

Drain(h, b) ==
    /\ exit = "no" /\ Open(h) /\ type[h] = "semaphore" /\ drained[source[h]] # b
    /\ drained' = [drained EXCEPT ![source[h]] = b]
    /\ UNCHANGED <<status, type, name, sem, source, refs, owner, listVars, linked,
                   callerVars, endVars>>

LockMutex(t, h) ==
    /\ Calls(t) /\ Open(h) /\ type[h] = "mutex" /\ owner[h] = None
    /\ owner' = [owner EXCEPT ![h] = t]
    /\ UNCHANGED <<status, type, name, sem, source, refs, drained, listVars, linked,
                   callerVars, endVars>>

ReleaseMutex(t, h) ==
    /\ Calls(t) /\ Open(h) /\ owner[h] = t
    /\ owner' = [owner EXCEPT ![h] = None]
    /\ UNCHANGED <<status, type, name, sem, source, refs, drained, listVars, linked,
                   callerVars, endVars>>

-----------------------------------------------------------------------------
(* CloseHandle and ~MSHANDLE                                               *)

(* Closing a copy, or a source without copies, posts a drained semaphore;  *)
(* a source takes its name from the kernel.                                *)
DestroySemaphore(h) ==
    /\ refs' = IF IsCopy(h) THEN [refs EXCEPT ![source[h]] = @ - 1] ELSE refs
    /\ drained' = [drained EXCEPT ![source[h]] = FALSE]
    /\ linked' = IF IsCopy(h) THEN linked ELSE [linked EXCEPT ![name[h]] = None]
    /\ copyClosed' = (copyClosed \/ IsCopy(h))

(* Mutants of Closable: a source is closed though copies refer to it; a    *)
(* source is never closed.                                                 *)
ClosableAlways(h)     == TRUE
ClosableCopiesOnly(h) == IsCopy(h)

Closable(h) == IsCopy(h) \/ refs[h] = 0

CloseSemaphore(t, h) ==
    /\ Calls(t) /\ Open(h) /\ type[h] = "semaphore" /\ NameFree(name[h])
    /\ Closable(h) /\ DestroySemaphore(h)
    /\ status' = [status EXCEPT ![h] = "closing"]
    /\ scan' = [scan EXCEPT ![t] = [i |-> 1, n |-> Len(semaList)]]
    /\ Goto(t, "unlist", h)
    /\ UNCHANGED <<type, name, sem, source, owner, listVars, current, exit, thrown, raced>>

(* One turn of RemoveSemaListEntry's loop.  The lock is released between   *)
(* two turns, and N was read before the first: another thread's removal    *)
(* shifts the entries under the scan.  An entry that is not registered yet *)
(* is taken for an internal inconsistency and ends the scan.               *)
Scanned(t) == \E u \in Callers \ {t} : pc[u] = "unlist"

(* Mutant of RemoveSemaListEntry: the last entry is not looked at.         *)
RemoveSemaListEntryShort(t) ==
    LET i == scan[t].i
    IN  /\ pc[t] = "unlist"
        /\ \/ /\ i >= scan[t].n
              /\ Goto(t, "unregister", obj[t]) /\ UNCHANGED <<semaList, scan>>
           \/ /\ i < scan[t].n /\ i <= Len(semaList) /\ sem[semaList[i]] = sem[obj[t]]
              /\ semaList' = RemoveAt(semaList, i)
              /\ Goto(t, "unregister", obj[t]) /\ UNCHANGED scan
           \/ /\ i < scan[t].n /\ i <= Len(semaList) /\ sem[semaList[i]] # sem[obj[t]]
              /\ scan' = [scan EXCEPT ![t].i = @ + 1] /\ UNCHANGED <<semaList, pc, obj>>
        /\ UNCHANGED <<handleVars, openList, linked, current, endVars>>

RemoveSemaListEntry(t) ==
    LET i == scan[t].i
        h == semaList[i]
    IN  /\ pc[t] = "unlist"
        /\ \/ /\ i > scan[t].n
              /\ Goto(t, "unregister", obj[t])
              /\ UNCHANGED <<semaList, scan, thrown, raced>>
           \/ /\ i <= scan[t].n /\ i > Len(semaList)
              /\ thrown' = TRUE /\ UNCHANGED <<semaList, scan, pc, obj, raced>>
           \/ /\ i <= scan[t].n /\ i <= Len(semaList) /\ h \notin openList
              /\ semaList' = RemoveAt(semaList, i) /\ raced' = TRUE
              /\ Goto(t, "unregister", obj[t]) /\ UNCHANGED <<scan, thrown>>
           \/ /\ i <= scan[t].n /\ i <= Len(semaList) /\ h \in openList
              /\ sem[h] = sem[obj[t]]
              /\ semaList' = RemoveAt(semaList, i) /\ raced' = (raced \/ Scanned(t))
              /\ Goto(t, "unregister", obj[t]) /\ UNCHANGED <<scan, thrown>>
           \/ /\ i <= scan[t].n /\ i <= Len(semaList) /\ h \in openList
              /\ sem[h] # sem[obj[t]]
              /\ scan' = [scan EXCEPT ![t].i = @ + 1]
              /\ UNCHANGED <<semaList, pc, obj, thrown, raced>>
        /\ UNCHANGED <<handleVars, openList, linked, current, exit, copyClosed>>

(* A mutex that is locked cannot be destroyed, and is not unregistered,    *)
(* but its memory goes all the same.                                       *)
ClosePlain(t, h) ==
    /\ Calls(t) /\ Open(h) /\ type[h] \in {"mutex", "event"}
    /\ \A u \in Callers : obj[u] # h
    /\ \/ /\ owner[h] = None
          /\ status' = [status EXCEPT ![h] = "closing"] /\ Goto(t, "unregister", h)
       \/ /\ owner[h] # None
          /\ status' = [status EXCEPT ![h] = "freed"] /\ UNCHANGED <<pc, obj>>
    /\ UNCHANGED <<type, name, sem, source, refs, drained, owner, listVars, linked,
                   current, scan, endVars>>

(* The destructor of currentThreadKey, as a thread ends.                   *)
ForceCloseHandle(t) ==
    /\ Calls(t) /\ current[t] # None
    /\ status' = [status EXCEPT ![current[t]] = "closing"]
    /\ current' = [current EXCEPT ![t] = None]
    /\ Goto(t, "unregister", current[t])
    /\ UNCHANGED <<type, name, sem, source, refs, drained, owner, listVars, linked, scan, endVars>>

(* Mutant of UnregisterHANDLE: theOpenHandleList keeps the HANDLE.         *)
UnregisterHANDLENothing(t) ==
    /\ pc[t] = "unregister"
    /\ status' = [status EXCEPT ![obj[t]] = "freed"] /\ Goto(t, "idle", None)
    /\ UNCHANGED <<type, name, sem, source, refs, drained, owner, listVars, linked,
                   current, scan, endVars>>

UnregisterHANDLE(t) ==
    /\ pc[t] = "unregister"
    /\ openList' = openList \ {obj[t]}
    /\ status' = [status EXCEPT ![obj[t]] = "freed"] /\ Goto(t, "idle", None)
    /\ UNCHANGED <<type, name, sem, source, refs, drained, owner, semaList, linked,
                   current, scan, endVars>>

-----------------------------------------------------------------------------
(* exit(): FreeAllSemaHandles, in the one thread that is left              *)

Exit ==
    /\ exit = "no" /\ \A t \in Callers : pc[t] = "idle"
    /\ exit' = "freeing"
    /\ UNCHANGED <<handleVars, listVars, linked, callerVars, thrown, raced, copyClosed>>

(* The first entry that is not a referenced source is closed; the close    *)
(* takes the first entry with its sem_t from the list.                     *)
FreeNext ==
    /\ exit = "freeing"
    /\ \E i \in DOMAIN semaList :
          LET h == semaList[i]
          IN  /\ Closable(h) /\ \A j \in 1 .. i - 1 : ~Closable(semaList[j])
              /\ DestroySemaphore(h)
              /\ semaList' = RemoveAt(semaList,
                    CHOOSE j \in 1 .. i : sem[semaList[j]] = sem[h]
                        /\ \A l \in 1 .. j - 1 : sem[semaList[l]] # sem[h])
              /\ openList' = openList \ {h}
              /\ status' = [status EXCEPT ![h] = "freed"]
    /\ UNCHANGED <<type, name, sem, source, owner, callerVars, exit, thrown, raced>>

FreeDone ==
    /\ exit = "freeing" /\ semaList = <<>>
    /\ exit' = "done"
    /\ UNCHANGED <<handleVars, listVars, linked, callerVars, thrown, raced, copyClosed>>

-----------------------------------------------------------------------------
Create(t) ==
    \E h \in Handles :
        \/ \E n \in Names : OpenCopy(t, h, n) \/ CreateSource(t, h, n)
        \/ \E ty \in {"mutex", "event"}, o \in {t, None} : CreatePlain(t, h, ty, o)
        \/ GetCurrentThread(t, h)
Close(t) ==
    \/ \E h \in Handles : CloseSemaphore(t, h) \/ ClosePlain(t, h)
    \/ ForceCloseHandle(t)
Inside(t) ==
    AddSemaListEntry(t) \/ RegisterHANDLE(t) \/ RemoveSemaListEntry(t) \/ UnregisterHANDLE(t)
Use(t) == \E h \in Handles : LockMutex(t, h) \/ ReleaseMutex(t, h)
FreeAllSemaHandles == FreeNext \/ FreeDone

Next ==
    /\ ~thrown
    /\ \/ \E t \in Callers : Create(t) \/ Close(t) \/ Inside(t) \/ Use(t)
       \/ \E h \in Handles, b \in BOOLEAN : Drain(h, b)
       \/ Exit \/ FreeAllSemaHandles

(* The clean-up goes on; nothing is assumed of calls.                      *)
Spec == Init /\ [][Next]_vars /\ WF_vars(~thrown /\ FreeAllSemaHandles)

-----------------------------------------------------------------------------
(* Properties                                                              *)

Entries == {semaList[i] : i \in DOMAIN semaList}
Copies(h) == {c \in Handles : IsCopy(c) /\ source[c] = h /\ status[c] \in {"building", "open"}}

(* The registry holds every open HANDLE, and of those that have been freed *)
(* only mutexes that were locked when they were closed.                    *)
RegistryExact ==
    \A h \in Handles :
        /\ Open(h) => h \in openList
        /\ status[h] = "freed" /\ h \in openList => owner[h] # None

(* A source counts its copies, and its counter lives as long as they do,    *)
(* unless the list has lost an entry to threads that crossed in it: then   *)
(* OpenSemaphore may find a HANDLE that is gone, and copy that.            *)
CountersOutliveCopies ==
    \A h \in Handles :
        /\ refs[h] = Cardinality(Copies(h))
        /\ ~raced /\ Copies(h) # {} => Open(h)

(* OpenSemaphore, which reads every entry of theSemaList, meets no HANDLE  *)
(* that is gone, and, as long as no copy has been closed, finds every      *)
(* source by its name, so that no second one is created: if the uses of    *)
(* the list by different threads do not cross.                             *)
ListTrue ==
    /\ ~raced /\ ~thrown => \A h \in Entries : status[h] \notin {"none", "freed"}
    /\ ~raced /\ ~copyClosed =>
           \A h \in Handles : Open(h) /\ type[h] = "semaphore" /\ ~IsCopy(h) => h \in Entries

(* At exit the semaphores are closed in finite time, unless copies are     *)
(* still open: those are not in the list, and never release their sources. *)
ExitEnds ==
    exit = "freeing" /\ (\A h \in Entries : Copies(h) = {}) ~> exit = "done" \/ thrown
=============================================================================
