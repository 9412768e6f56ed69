-------------------------- MODULE ThreadPriority --------------------------
(***************************************************************************)
(* GetThreadPriority and SetThreadPriority of CritSectEx/msemul.cpp: the   *)
(* seven levels of Windows on the priorities of a POSIX scheduling policy, *)
(* and callers that copy the priority of one thread to another with        *)
(* SetThreadPriority(B, GetThreadPriority(A)).                             *)
(***************************************************************************)
EXTENDS Integers

CONSTANTS
    Threads,     (* the threads that have a HANDLE                          *)
    Callers,
    MaxPriority  (* bound: the highest priority of any policy               *)

ASSUME PriorityAssumption == MaxPriority \in Nat

VARIABLES
    pmin, pmax,  (* the policy: its lowest and its highest priority         *)
    prio,        (* sched_priority of each thread                           *)
    pc,          (* "idle", "adjust", "have" or "done"                      *)
    a, b,        (* the threads a caller reads and sets                     *)
    seen, level, (* what it has read, and what GetThreadPriority returns    *)
    disturbed    (* auxiliary: the callers that were refused a change, or   *)
                 (* to whose threads another caller has made one            *)

policy == <<pmin, pmax>>
vars == <<policy, prio, pc, a, b, seen, level, disturbed>>

Levels == {-15, -2, -1, 0, 1, 2, 15}  (* THREAD_PRIORITY_IDLE to _TIME_CRITICAL *)

(* With five or six priorities a level is not read as itself again; the    *)
(* policies of the systems have one, or many.                              *)
LevelsApart == pmax - pmin \notin {4, 5}

TypeOK ==
    /\ pmin \in 0 .. MaxPriority /\ pmax \in pmin .. MaxPriority /\ LevelsApart
    /\ prio \in [Threads -> pmin .. pmax]
    /\ pc \in [Callers -> {"idle", "adjust", "have", "done"}]
    /\ a \in [Callers -> Threads] /\ b \in [Callers -> Threads]
    /\ seen \in [Callers -> Int] /\ level \in [Callers -> Levels]
    /\ disturbed \subseteq Callers

Init ==
    /\ pmin \in 0 .. MaxPriority /\ pmax \in pmin .. MaxPriority /\ LevelsApart
    /\ prio \in [Threads -> pmin .. pmax]
    /\ pc = [c \in Callers |-> "idle"]
    /\ a \in [Callers -> Threads] /\ b = a
    /\ seen = [c \in Callers |-> 0] /\ level = [c \in Callers |-> 0]
    /\ disturbed = {}

Normal == (pmin + pmax) \div 2
Below  == (pmin + Normal) \div 2
Above  == (Normal + pmax) \div 2

(* SchedPriorityFromThreadPriority, for the levels that have a name.       *)
SchedPriority(n) ==
    CASE n = 1          -> Above
      [] n = -1         -> Below
      [] n \in {2, 15}  -> pmax
      [] n \in {-15, -2} -> pmin
      [] OTHER          -> Normal

(* Mutant of ThreadPriorityOf: the borders are the levels themselves.      *)
ThreadPriorityOfBorders(p) ==
    IF p < Below THEN -2
    ELSE IF p < Normal THEN -1
    ELSE IF p <= Normal THEN 0
    ELSE IF p < Above THEN 1 ELSE 2

(* ThreadPriorityFromSchedPriority: the level that is nearest.             *)
ThreadPriorityOf(p) ==
    IF p < (pmin + Below) \div 2 THEN -2
    ELSE IF p < (Below + Normal) \div 2 THEN -1
    ELSE IF p <= (Normal + Above) \div 2 THEN 0
    ELSE IF p <= (Above + pmax) \div 2 THEN 1 ELSE 2

-----------------------------------------------------------------------------
Goto(c, from, to) == pc[c] = from /\ pc' = [pc EXCEPT ![c] = to]

(* A change by c of the priority of h, which the system may refuse.        *)
Disturbs(c, h) == {d \in Callers \ {c} : pc[d] # "idle" /\ h \in {a[d], b[d]}}
Change(c, h, p) ==
    \/ prio' = [prio EXCEPT ![h] = p] /\ disturbed' = disturbed \cup Disturbs(c, h)
    \/ prio' = prio /\ disturbed' = disturbed \cup {c}

(* GetThreadPriority reads and converts, and moves the thread to the       *)
(* priority that the level stands for.                                     *)
GetRead(c, h, to) ==
    /\ Goto(c, "idle", "adjust")
    /\ a' = [a EXCEPT ![c] = h] /\ b' = [b EXCEPT ![c] = to]
    /\ seen' = [seen EXCEPT ![c] = prio[h]]
    /\ level' = [level EXCEPT ![c] = ThreadPriorityOf(prio[h])]
    /\ disturbed' = disturbed \ {c}
    /\ UNCHANGED <<policy, prio>>

(* Mutant of Adjust: the thread stays where it is.                         *)
AdjustNothing(c) ==
    Goto(c, "adjust", "have") /\ UNCHANGED <<policy, prio, a, b, seen, level, disturbed>>

Adjust(c) ==
    /\ Goto(c, "adjust", "have")
    /\ \/ SchedPriority(level[c]) = seen[c] /\ UNCHANGED <<prio, disturbed>>
       \/ SchedPriority(level[c]) # seen[c] /\ Change(c, a[c], SchedPriority(level[c]))
    /\ UNCHANGED <<policy, a, b, seen, level>>

(* SetThreadPriority, of the thread b or of any with any level.            *)
SetCopied(c) ==
    /\ Goto(c, "have", "done") /\ Change(c, b[c], SchedPriority(level[c]))
    /\ UNCHANGED <<policy, a, b, seen, level>>

SetThreadPriority(c, h, n) ==
    /\ pc[c] = "idle" /\ Change(c, h, SchedPriority(n))
    /\ UNCHANGED <<policy, pc, a, b, seen, level>>

Return(c) == Goto(c, "done", "idle") /\ UNCHANGED <<policy, prio, a, b, seen, level, disturbed>>

Next ==
    \E c \in Callers :
        \/ Adjust(c) \/ SetCopied(c) \/ Return(c)
        \/ \E h \in Threads : \/ \E to \in Threads : GetRead(c, h, to)
                              \/ \E n \in Levels : SetThreadPriority(c, h, n)

Spec == Init /\ [][Next]_vars

-----------------------------------------------------------------------------
(* Properties                                                              *)

(* SetThreadPriority(B, GetThreadPriority(A)) gives two threads with       *)
(* identical priorities, if nobody else changes them meanwhile and the     *)
(* system allows the changes (msemul.cpp, the comment of                   *)
(* GetThreadPriority).                                                     *)
CopiesIdentical == \A c \in Callers : pc[c] = "done" /\ c \notin disturbed => prio[a[c]] = prio[b[c]]

(* Reading a priority does not change it: the level that has been read is  *)
(* still that of the thread after it has been moved to the priority the    *)
(* level stands for, so that reading again and again does not make it      *)
(* drift.                                                                  *)
ReadingKeepsLevel ==
    \A c \in Callers : pc[c] = "have" /\ c \notin disturbed => ThreadPriorityOf(prio[a[c]]) = level[c]
=============================================================================
