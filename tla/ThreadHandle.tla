--------------------------- MODULE ThreadHandle ---------------------------
(***************************************************************************)
(* The emulated thread HANDLE of CritSectEx/msemul.cpp outside Mac OS X:   *)
(* CreateThread, the suspension gate (a mutex the target locks in the      *)
(* handler of SIGUSR2), joins with and without a time-out, cancellation,   *)
(* and CloseHandle.  One action per step that another thread can observe;  *)
(* a section under pthread_timed_t's own mutex is one step.                *)
(***************************************************************************)
EXTENDS Naturals, FiniteSets

CONSTANTS
    Callers,      (* the threads that use the HANDLE                        *)
    Controller,   (* the caller that suspends, resumes, ends and closes it  *)
    Worker,       (* the thread behind the HANDLE                           *)
    NoOne,        (* the owner of a mutex that is free                      *)
    Codes,        (* what the start routine may return                      *)
    MaxSuspends,  (* bound on suspendCount                                  *)
    Waits         (* the waits of TerminateThread: 5 in the code            *)

ASSUME CallersAssumption ==
    /\ IsFiniteSet(Callers) /\ Controller \in Callers
    /\ Worker \notin Callers /\ NoOne \notin Callers \cup {Worker}

StillActive == "still active"
Canceled    == "canceled"
Forced      == "forced"     (* the dwExitCode of TerminateThread            *)

ASSUME CodesAssumption ==
    /\ Codes # {} /\ {StillActive, Canceled, Forced, "none"} \cap Codes = {}
    /\ MaxSuspends \in Nat \ {0} /\ Waits \in Nat \ {0}

VARIABLES
    life,          (* the HANDLE: new, opening, open or freed                *)
    registered,    (* whether the list of open HANDLEs has it                *)
    wpc,           (* where the worker is                                    *)
    signal,        (* SIGUSR2 is pending for the worker                      *)
    inHandler,     (* the worker is in pthread_u2_handler                    *)
    cancelled,     (* pthread_cancel has been called on it                   *)
    gate,          (* the owner of d.t.threadLock                            *)
    suspendCount,  (* d.t.suspendCount                                       *)
    joinable,      (* pthreads' view: yes, detached, joining or joined       *)
    pThread,       (* d.t.pThread # NULL                                     *)
    tt,            (* d.t.theThread: detached, exiting, exited, freed, status *)
    call, res,     (* each caller's call in progress, the result of its last *)
    loops,         (* the waits TerminateThread has left                     *)
    killed,        (* SIGTERM has ended the process                          *)
    startedAs,     (* whether CREATE_SUSPENDED was passed                    *)
    code,          (* auxiliary: what the worker ended with                  *)
    timedOut       (* auxiliary: some wait on the worker has timed out       *)

workerVars == <<wpc, signal, inHandler, cancelled, code>>
gateVars   == <<gate, suspendCount>>
joinVars   == <<joinable, pThread, tt, timedOut>>
callVars   == <<call, res, loops>>
lifeVars   == <<life, registered, startedAs, killed>>
handleVars == <<workerVars, gateVars, joinVars, callVars, lifeVars>>

Calls == {"idle", "create", "suspendLock", "suspendKill", "resumeUnlock",
          "timed", "detach", "test", "sleep", "woken", "join", "sigterm",
          "forced", "closeJoin", "closeFree"}
WaitResults == {"object", "timeout", "failed"}
ExitCodes   == Codes \cup {StillActive, Canceled, Forced, "none"}

TypeOK ==
    /\ life \in {"new", "opening", "open", "freed"}
    /\ wpc \in {"none", "gate", "gateHeld", "routine", "leaving", "announced", "gone"}
    /\ {registered, signal, inHandler, cancelled, pThread, killed, startedAs,
        timedOut} \subseteq BOOLEAN
    /\ gate \in Callers \cup {Worker, NoOne}
    /\ suspendCount \in 0 .. MaxSuspends
    /\ joinable \in {"yes", "detached", "joining", "joined"}
    /\ tt \in [detached : BOOLEAN, exiting : BOOLEAN, exited : BOOLEAN,
               freed : BOOLEAN, status : ExitCodes]
    /\ call \in [Callers -> Calls]
    /\ res \in [Callers -> WaitResults \cup ExitCodes \cup {"zero", "more"}]
    /\ loops \in [Callers -> 0 .. Waits]
    /\ code \in ExitCodes

Init ==
    /\ life = "new" /\ registered = FALSE /\ startedAs \in BOOLEAN
    /\ wpc = "none" /\ signal = FALSE /\ inHandler = FALSE /\ cancelled = FALSE
    /\ gate = NoOne /\ suspendCount = 0
    /\ joinable = "yes" /\ pThread = FALSE /\ timedOut = FALSE
    /\ tt = [detached |-> FALSE, exiting |-> FALSE, exited |-> FALSE,
             freed |-> FALSE, status |-> "none"]
    /\ call = [c \in Callers |-> "idle"]
    /\ res = [c \in Callers |-> "none"]
    /\ loops = [c \in Callers |-> 0]
    /\ killed = FALSE /\ code = "none"

Goto(c, to)  == call' = [call EXCEPT ![c] = to] /\ UNCHANGED res
Return(c, r) == call' = [call EXCEPT ![c] = "idle"] /\ res' = [res EXCEPT ![c] = r]

(* A caller uses an open HANDLE while nobody is closing it.               *)
MayCall(c) ==
    /\ call[c] = "idle" /\ life = "open"
    /\ \A d \in Callers : call[d] \notin {"closeJoin", "closeFree"}

-----------------------------------------------------------------------------
(* CreateThread                                                           *)

(* pthread_create_suspendable: c locks the gate of a thread that is to    *)
(* suspend itself before it starts it.                                    *)
StartWorker(c, suspended) ==
    /\ wpc' = IF suspended THEN "gate" ELSE "routine"
    /\ gate' = IF suspended THEN c ELSE NoOne
    /\ suspendCount' = IF suspended THEN 1 ELSE 0

CallCreate(c, suspended) ==
    /\ call[c] = "idle" /\ life = "new" /\ suspended = startedAs
    /\ life' = "opening" /\ pThread' = TRUE
    /\ StartWorker(c, suspended) /\ Goto(c, "create")
    /\ UNCHANGED <<registered, startedAs, killed, signal, inHandler, cancelled,
                   code, joinable, tt, timedOut, loops>>

(* The rest of the constructor runs beside the new thread.                *)
CreateDone(c) ==
    /\ call[c] = "create"
    /\ tt' = [tt EXCEPT !.status = StillActive]
    /\ life' = "open" /\ registered' = TRUE
    /\ Return(c, "object")
    /\ UNCHANGED <<startedAs, killed, workerVars, gateVars, joinable, pThread,
                   timedOut, loops>>

-----------------------------------------------------------------------------
(* The worker                                                             *)

WorkerStep(from, to) == wpc = from /\ wpc' = to /\ ~inHandler

(* ThreadFunStart suspends itself on the gate its creator has locked.     *)
TakeGate ==
    /\ WorkerStep("gate", "gateHeld")
    /\ gate = NoOne /\ gate' = Worker
    /\ UNCHANGED <<signal, inHandler, cancelled, code, suspendCount, joinVars,
                   callVars, lifeVars>>

DropGate ==
    /\ WorkerStep("gateHeld", "routine")
    /\ gate' = NoOne
    /\ UNCHANGED <<signal, inHandler, cancelled, code, suspendCount, joinVars,
                   callVars, lifeVars>>

(* The signal is blocked while its handler runs.                          *)
Deliver ==
    /\ signal /\ ~inHandler /\ wpc \notin {"none", "gone"}
    /\ signal' = FALSE /\ inHandler' = TRUE
    /\ UNCHANGED <<wpc, cancelled, code, gateVars, joinVars, callVars, lifeVars>>

(* ThreadSuspender locks the gate and unlocks it at once.                 *)
LeaveHandler ==
    /\ inHandler /\ gate = NoOne
    /\ inHandler' = FALSE
    /\ UNCHANGED <<wpc, signal, cancelled, code, gateVars, joinVars, callVars,
                   lifeVars>>

(* The start routine returns c.                                           *)
Finish(c) ==
    /\ WorkerStep("routine", "leaving")
    /\ code' = c
    /\ UNCHANGED <<signal, inHandler, cancelled, gateVars, joinVars, callVars, lifeVars>>

(* Mutants of Announcement: the status is not kept; nobody is signalled.   *)
AnnouncementBare(s) ==
    /\ tt' = [tt EXCEPT !.exiting = TRUE]
    /\ \/ \E d \in Callers :
            call[d] = "sleep" /\ call' = [call EXCEPT ![d] = "woken"]
       \/ (\A d \in Callers : call[d] # "sleep") /\ UNCHANGED call
AnnouncementSilent(s) ==
    tt' = [tt EXCEPT !.status = s, !.exiting = TRUE] /\ UNCHANGED call

(* The exit is announced under the mutex; the signal wakes one joiner.    *)
Announcement(s) ==
    /\ tt' = [tt EXCEPT !.status = s, !.exiting = TRUE]
    /\ \/ \E d \in Callers :
            call[d] = "sleep" /\ call' = [call EXCEPT ![d] = "woken"]
       \/ (\A d \in Callers : call[d] # "sleep") /\ UNCHANGED call

Announce ==
    /\ WorkerStep("leaving", "announced")
    /\ Announcement(code)
    /\ UNCHANGED <<signal, inHandler, cancelled, code, gateVars, joinable, pThread,
                   timedOut, res, loops, lifeVars>>

(* threadCancelHandler, at a cancellation point of the routine.           *)
BeCancelled ==
    /\ WorkerStep("routine", "announced")
    /\ cancelled /\ code' = Canceled
    /\ Announcement(Canceled)
    /\ UNCHANGED <<signal, inHandler, cancelled, gateVars, joinable, pThread,
                   timedOut, res, loops, lifeVars>>

Exit ==
    /\ WorkerStep("announced", "gone")
    /\ signal' = FALSE
    /\ UNCHANGED <<inHandler, cancelled, code, gateVars, joinVars, callVars, lifeVars>>

-----------------------------------------------------------------------------
(* SuspendThread and ResumeThread: the result is the count found          *)

CallSuspend(c) ==
    /\ MayCall(c) /\ c = Controller
    /\ \/ /\ suspendCount = 0
          /\ Goto(c, "suspendLock") /\ UNCHANGED suspendCount
       \/ /\ suspendCount \in 1 .. MaxSuspends - 1
          /\ suspendCount' = suspendCount + 1 /\ Return(c, "more")
    /\ UNCHANGED <<workerVars, gate, joinVars, loops, lifeVars>>

SuspendLock(c) ==
    /\ call[c] = "suspendLock" /\ gate = NoOne
    /\ gate' = c /\ Goto(c, "suspendKill")
    /\ UNCHANGED <<workerVars, suspendCount, joinVars, loops, lifeVars>>

(* For a thread that has ended the C library may report either outcome; a *)
(* failure leaves the gate locked and the count 0.                        *)
SuspendKill(c) ==
    /\ call[c] = "suspendKill" /\ Return(c, "zero")
    /\ \/ /\ wpc # "gone" /\ signal' = TRUE /\ suspendCount' = 1
       \/ /\ wpc = "gone" /\ suspendCount' \in {0, 1} /\ UNCHANGED signal
    /\ UNCHANGED <<wpc, inHandler, cancelled, code, gate, joinVars, loops, lifeVars>>

CallResume(c) ==
    /\ MayCall(c) /\ c = Controller
    /\ \/ /\ suspendCount = 0 /\ Return(c, "zero") /\ UNCHANGED suspendCount
       \/ /\ suspendCount > 1 /\ Return(c, "more") /\ suspendCount' = suspendCount - 1
       \/ /\ suspendCount = 1 /\ Goto(c, "resumeUnlock") /\ suspendCount' = 0
    /\ UNCHANGED <<workerVars, gate, joinVars, loops, lifeVars>>

(* Mutant of ResumeUnlock: the gate stays locked.                          *)
ResumeLeavesGate(c) ==
    /\ call[c] = "resumeUnlock" /\ Return(c, "more")
    /\ UNCHANGED <<workerVars, gateVars, joinVars, loops, lifeVars>>

ResumeUnlock(c) ==
    /\ call[c] = "resumeUnlock"
    /\ gate' = NoOne /\ Return(c, "more")
    /\ UNCHANGED <<workerVars, suspendCount, joinVars, loops, lifeVars>>

-----------------------------------------------------------------------------
(* WaitForSingleObject on a thread                                        *)

(* The end of a timed wait, whose caller may be the loop of               *)
(* TerminateThread.                                                       *)
JoinReturn(c, r) ==
    \/ loops[c] = 0 /\ Return(c, r) /\ UNCHANGED loops
    \/ /\ loops[c] > 0 /\ r = "object"
       /\ Goto(c, "forced") /\ loops' = [loops EXCEPT ![c] = 0]
    \/ /\ loops[c] > 1 /\ r # "object"
       /\ Goto(c, "timed") /\ loops' = [loops EXCEPT ![c] = @ - 1]
    \/ /\ loops[c] = 1 /\ r # "object"
       /\ Goto(c, "sigterm") /\ loops' = [loops EXCEPT ![c] = 0]

CallTimed(c) ==
    /\ MayCall(c) /\ Goto(c, "timed")
    /\ UNCHANGED <<workerVars, gateVars, joinVars, loops, lifeVars>>

(* pthread_timedjoin detaches the thread the first time.                  *)
TimedBegin(c) ==
    /\ call[c] = "timed"
    /\ Goto(c, IF tt.detached THEN "test" ELSE "detach")
    /\ UNCHANGED <<workerVars, gateVars, joinVars, loops, lifeVars>>

Detach(c) ==
    /\ call[c] = "detach"
    /\ \/ /\ joinable \in {"yes", "joining"}
          /\ joinable' = IF joinable = "yes" THEN "detached" ELSE joinable
          /\ tt' = [tt EXCEPT !.detached = TRUE]
          /\ Goto(c, "test") /\ UNCHANGED loops
       \/ /\ joinable \in {"detached", "joined"}
          /\ JoinReturn(c, "failed") /\ UNCHANGED <<joinable, tt>>
    /\ UNCHANGED <<workerVars, gateVars, pThread, timedOut, lifeVars>>

(* The loop under the mutex, after a wake-up too.                         *)
JoinTest(c) ==
    /\ call[c] \in {"test", "woken"}
    /\ \/ /\ tt.exiting
          /\ tt' = [tt EXCEPT !.exited = TRUE] /\ pThread' = FALSE
          /\ JoinReturn(c, "object")
       \/ ~tt.exiting /\ Goto(c, "sleep") /\ UNCHANGED <<tt, pThread, loops>>
    /\ UNCHANGED <<workerVars, gateVars, joinable, timedOut, lifeVars>>

(* Mutant of JoinTimeOut: a time-out is taken for the end of the thread.   *)
JoinTimeOutEnds(c) ==
    /\ call[c] \in {"sleep", "woken"}
    /\ timedOut' = TRUE /\ pThread' = FALSE /\ JoinReturn(c, "object")
    /\ UNCHANGED <<workerVars, gateVars, joinable, tt, lifeVars>>

JoinTimeOut(c) ==
    /\ call[c] \in {"sleep", "woken"}
    /\ timedOut' = TRUE /\ JoinReturn(c, "timeout")
    /\ UNCHANGED <<workerVars, gateVars, joinable, pThread, tt, lifeVars>>

(* An infinite wait is pthread_join: one at a time, on a thread that is   *)
(* neither detached nor joined.                                           *)
CallJoin(c) ==
    /\ MayCall(c)
    /\ \/ joinable = "yes" /\ joinable' = "joining" /\ Goto(c, "join")
       \/ joinable # "yes" /\ Return(c, "failed") /\ UNCHANGED joinable
    /\ UNCHANGED <<workerVars, gateVars, pThread, tt, timedOut, loops, lifeVars>>

JoinDone(c) ==
    /\ call[c] = "join" /\ wpc = "gone"
    /\ joinable' = "joined" /\ pThread' = FALSE
    /\ tt' = [tt EXCEPT !.status = code]
    /\ Return(c, "object")
    /\ UNCHANGED <<workerVars, gateVars, timedOut, loops, lifeVars>>

-----------------------------------------------------------------------------
(* GetExitCodeThread and TerminateThread                                  *)

(* pthread_kill(., 0) on a thread that has ended may report either.       *)
CallGetExitCode(c) ==
    /\ MayCall(c)
    /\ \/ pThread /\ Return(c, StillActive)
       \/ (~pThread \/ wpc = "gone") /\ Return(c, tt.status)
    /\ UNCHANGED <<workerVars, gateVars, joinVars, loops, lifeVars>>

CallTerminate(c) ==
    /\ MayCall(c) /\ c = Controller
    /\ \/ /\ pThread /\ cancelled' = (wpc # "gone")
          /\ Goto(c, "timed") /\ loops' = [loops EXCEPT ![c] = Waits]
       \/ /\ pThread /\ wpc = "gone"
          /\ Goto(c, "forced") /\ UNCHANGED <<cancelled, loops>>
       \/ ~pThread /\ Return(c, "failed") /\ UNCHANGED <<cancelled, loops>>
    /\ UNCHANGED <<wpc, signal, inHandler, code, gateVars, joinVars, lifeVars>>

(* The default action of SIGTERM ends the whole process.                  *)
Sigterm(c) ==
    /\ call[c] = "sigterm"
    /\ killed' = (wpc # "gone") /\ Goto(c, "forced")
    /\ UNCHANGED <<workerVars, gateVars, joinVars, loops, life, registered, startedAs>>

SetForced(c) ==
    /\ call[c] = "forced"
    /\ tt' = [tt EXCEPT !.status = Forced] /\ Return(c, "object")
    /\ UNCHANGED <<workerVars, gateVars, joinable, pThread, timedOut, loops, lifeVars>>

-----------------------------------------------------------------------------
(* CloseHandle                                                            *)

(* Mutant of CallClose: the thread is not joined.                          *)
CallCloseNoJoin(c) ==
    /\ MayCall(c) /\ c = Controller /\ \A d \in Callers : call[d] = "idle"
    /\ Goto(c, "closeFree")
    /\ UNCHANGED <<workerVars, gateVars, joinVars, loops, lifeVars>>

(* The controller closes the HANDLE when nobody else is using it.         *)
CallClose(c) ==
    /\ MayCall(c) /\ c = Controller /\ \A d \in Callers : call[d] = "idle"
    /\ \/ /\ pThread /\ joinable = "yes"
          /\ joinable' = "joining" /\ Goto(c, "closeJoin")
       \/ /\ pThread => joinable # "yes"
          /\ UNCHANGED joinable /\ Goto(c, "closeFree")
    /\ UNCHANGED <<workerVars, gateVars, pThread, tt, timedOut, loops, lifeVars>>

CloseJoin(c) ==
    /\ call[c] = "closeJoin" /\ wpc = "gone"
    /\ joinable' = "joined" /\ tt' = [tt EXCEPT !.status = code]
    /\ Goto(c, "closeFree")
    /\ UNCHANGED <<workerVars, gateVars, pThread, timedOut, loops, lifeVars>>

(* The record of a thread goes only after a timed wait has seen it end.   *)
FreeRecord == tt' = [tt EXCEPT !.freed = tt.exited]

(* Memory goes in any case; the HANDLE is unregistered if the join it     *)
(* needed has succeeded.                                                  *)
CloseFree(c) ==
    /\ call[c] = "closeFree"
    /\ life' = "freed"
    /\ registered' = (pThread /\ joinable # "joined")
    /\ FreeRecord /\ Return(c, "object")
    /\ UNCHANGED <<workerVars, gateVars, joinable, pThread, timedOut, loops,
                   startedAs, killed>>

-----------------------------------------------------------------------------
WorkerRun == TakeGate \/ DropGate \/ Deliver \/ LeaveHandler \/ Announce \/ Exit
WorkerEnds == BeCancelled \/ \E r \in Codes : Finish(r)

(* The steps inside a call                                                *)
Inside(c) ==
    \/ CreateDone(c) \/ SuspendLock(c) \/ SuspendKill(c) \/ ResumeUnlock(c)
    \/ TimedBegin(c) \/ Detach(c) \/ JoinTest(c) \/ JoinTimeOut(c) \/ JoinDone(c)
    \/ Sigterm(c) \/ SetForced(c) \/ CloseJoin(c) \/ CloseFree(c)

Begin(c) ==
    \/ CallCreate(c, startedAs)
    \/ CallSuspend(c) \/ CallResume(c) \/ CallTimed(c) \/ CallJoin(c)
    \/ CallGetExitCode(c) \/ CallTerminate(c) \/ CallClose(c)

Next ==
    /\ ~killed
    /\ WorkerRun \/ WorkerEnds \/ \E c \in Callers : Inside(c) \/ Begin(c)

(* A thread that can run does, a call in progress goes on, and a time-out *)
(* elapses.  Nothing is assumed of the routine or of new calls.           *)
Fairness ==
    /\ WF_handleVars(~killed /\ WorkerRun)
    /\ \A c \in Callers : WF_handleVars(~killed /\ Inside(c))

Spec == Init /\ [][Next]_handleVars /\ Fairness

-----------------------------------------------------------------------------
(* Properties                                                             *)

Ended == wpc \in {"announced", "gone"}

(* Where d.t.pThread is NULL, and GetExitCodeThread therefore trusts the   *)
(* status, the worker has ended.                                          *)
JoinedHasEnded == life = "open" /\ ~pThread => Ended

(* Once a thread that was created suspended is joined, its status is what *)
(* it ended with, or what TerminateThread was given.                      *)
StatusKept == life = "open" /\ ~pThread /\ startedAs => tt.status \in {code, Forced}

(* Between calls of the controller the gate is locked exactly while the   *)
(* suspend count of a thread that has not ended is positive.              *)
GateMatchesCount ==
    life = "open" /\ wpc # "gone" /\ call[Controller] \notin
        {"suspendLock", "suspendKill", "resumeUnlock"}
    => (gate \in Callers <=> suspendCount > 0)

(* An exit wakes a joiner, if there is one: not all sleep on.             *)
ExitWakesOne == tt.exiting => \E c \in Callers : call[c] # "sleep"

(* CloseHandle waits for the worker and unregisters the HANDLE, unless a  *)
(* wait on it has timed out before (and left the thread detached); the    *)
(* worker's own record always outlives its use.                           *)
CloseIsClean ==
    /\ life = "freed" /\ ~timedOut => Ended /\ ~registered
    /\ tt.freed => Ended

(* A routine that is suspended and resumed for good goes on.              *)
ResumedRuns ==
    wpc = "routine" /\ inHandler ~> ~inHandler \/ suspendCount > 0 \/ killed

(* A thread never waits for a gate that it has locked itself: violated,    *)
(* since SIGUSR2 may arrive while ThreadFunStart has the gate.             *)
NoSelfWait == inHandler => gate # Worker
=============================================================================
