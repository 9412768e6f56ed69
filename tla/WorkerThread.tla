--------------------------- MODULE WorkerThread ---------------------------
(***************************************************************************)
(* The Thread class (Thread/Thread.hpp, Thread/Thread.cpp) over the        *)
(* emulated thread HANDLE: the life of a worker, its synchronisation       *)
(* points, and Start, Continue, Suspend, Join, Stop, GetExitCode and the   *)
(* destructor, called by the thread that owns the object.  The event of a  *)
(* start lock is a flag here: a wake-up that MSEvent shows it can miss is  *)
(* made up for by the waits of 0.1 s, which may end at any time.           *)
(***************************************************************************)
EXTENDS ThreadHandle

BeforeInit    == "THREAD_SUSPEND_BEFORE_INIT"
AfterInit     == "THREAD_SUSPEND_AFTER_INIT"
BeforeCleanup == "THREAD_SUSPEND_BEFORE_CLEANUP"

CONSTANT Options  (* the synchronisation points an object may be made with *)

ASSUME OptionsAssumption == Options \subseteq SUBSET {BeforeInit, AfterInit, BeforeCleanup}

VARIABLES
    epc,               (* the worker's place in EntryPoint and in Wait        *)
    isLocked, isNotified, lockEvent,  (* startLock                           *)
    suspendOption, isSuspended, hasBeenStarted, threadShouldExit,
    hThread,           (* m_ThreadCtx.m_hThread # NULL                        *)
    dwExitCode, bExitCodeSet,         (* m_ThreadCtx                         *)
    mpc,               (* where the owner is in a method                      *)
    site,              (* who called Continue                                 *)
    force, destroying, (* Stop(true); Stop called by the destructor           *)
    gone,              (* the object has been destroyed                       *)
    everNotified       (* auxiliary: Notify has been called                   *)

lockVars   == <<isLocked, isNotified, lockEvent>>
optionVars == <<suspendOption, isSuspended, hasBeenStarted, threadShouldExit>>
contextVars == <<hThread, dwExitCode, bExitCodeSet>>
methodVars == <<mpc, site, force, destroying, gone>>
threadVars == <<epc, lockVars, optionVars, contextVars, methodVars, everNotified>>
vars == <<handleVars, threadVars>>

EntryPlaces == {"init", "sync1", "test1", "lock1", "loop1", "unlock1", "clear1", "run",
                "setCode", "sync2", "test2", "lock2", "loop2", "unlock2", "clear2", "cleanup"}
MethodPlaces ==
    {"idle", "created", "started", "startResumed", "contBegin", "contResumed", "contTest",
     "notify", "setEvent", "suspended", "stopSuspended", "stopCode", "stopCodeRead",
     "stopWaiting", "stopTerminate", "stopClose", "stopped", "forcedClose",
     "forcedStopped", "codeRead", "codeSet", "joining", "destroyed"}

ThreadTypeOK ==
    /\ TypeOK
    /\ epc \in EntryPlaces /\ mpc \in MethodPlaces
    /\ suspendOption \subseteq {BeforeInit, AfterInit, BeforeCleanup}
    /\ {isLocked, isNotified, lockEvent, isSuspended, hasBeenStarted, threadShouldExit,
        hThread, bExitCodeSet, force, destroying, gone, everNotified} \subseteq BOOLEAN
    /\ dwExitCode \in ExitCodes
    /\ site \in {"user", "stop1", "stop2"}

ThreadInit ==
    /\ Init /\ startedAs = TRUE
    /\ epc = "init" /\ mpc = "idle" /\ site = "user"
    /\ suspendOption \in Options
    /\ isLocked = FALSE /\ isNotified = FALSE /\ lockEvent = FALSE
    /\ isSuspended = FALSE /\ hasBeenStarted = FALSE /\ threadShouldExit = FALSE
    /\ hThread = FALSE /\ dwExitCode = "none" /\ bExitCodeSet = FALSE
    /\ force = FALSE /\ destroying = FALSE /\ gone = FALSE /\ everNotified = FALSE

-----------------------------------------------------------------------------
(* The worker: EntryPoint, inside the start routine of the HANDLE         *)

Entry(from, to) ==
    /\ wpc = "routine" /\ ~inHandler
    /\ epc = from /\ epc' = to
    /\ UNCHANGED <<handleVars, optionVars, methodVars, everNotified>>

(* A synchronisation point is passed over unless its option is set.       *)
InitThread == Entry("init", "sync1") /\ UNCHANGED <<lockVars, contextVars>>
SyncPoint(option, at, wait, next) ==
    /\ Entry(at, IF option \in suspendOption THEN wait ELSE next)
    /\ UNCHANGED <<lockVars, contextVars>>

(* StartLocks::Wait                                                       *)
WaitTest(from, to, next) ==
    /\ Entry(from, IF isLocked THEN next ELSE to)
    /\ UNCHANGED <<lockVars, contextVars>>
WaitLock(from, to) ==
    /\ Entry(from, to)
    /\ isLocked' = TRUE /\ UNCHANGED <<isNotified, lockEvent, contextVars>>
(* Mutant of WaitEnds: a wait that times out ends the loop.                *)
WaitEndsOnTimeOut(from, to) ==
    /\ Entry(from, to)
    /\ lockEvent' = FALSE
    /\ UNCHANGED <<isLocked, isNotified, contextVars>>
(* The event is signalled, or a wait times out and isNotified is found set. *)
WaitEnds(from, to) ==
    /\ Entry(from, to)
    /\ \/ lockEvent /\ lockEvent' = FALSE
       \/ isNotified /\ UNCHANGED lockEvent
    /\ UNCHANGED <<isLocked, isNotified, contextVars>>
WaitUnlock(from, to) ==
    /\ Entry(from, to)
    /\ isLocked' = FALSE /\ UNCHANGED <<isNotified, lockEvent, contextVars>>
WaitClear(from, to) ==
    /\ Entry(from, to)
    /\ isNotified' = FALSE /\ UNCHANGED <<isLocked, lockEvent, contextVars>>

Wait(test, lock, loop, unlock, clear, next) ==
    \/ WaitTest(test, lock, next) \/ WaitLock(lock, loop) \/ WaitEnds(loop, unlock)
    \/ WaitUnlock(unlock, clear) \/ WaitClear(clear, next)

(* Run returns a code, which is stored before it is flagged.              *)
Run(r) ==
    /\ Entry("run", "setCode")
    /\ dwExitCode' = r /\ UNCHANGED <<lockVars, hThread, bExitCodeSet>>
SetCode ==
    /\ Entry("setCode", "sync2")
    /\ bExitCodeSet' = TRUE /\ UNCHANGED <<lockVars, hThread, dwExitCode>>

(* EntryPoint returns what m_dwExitCode holds by then.                    *)
CleanupThread ==
    /\ epc = "cleanup" /\ Finish(dwExitCode) /\ UNCHANGED threadVars

EntryPoint ==
    \/ InitThread
    \/ SyncPoint(AfterInit, "sync1", "test1", "run")
    \/ Wait("test1", "lock1", "loop1", "unlock1", "clear1", "run")
    \/ SetCode
    \/ SyncPoint(BeforeCleanup, "sync2", "test2", "cleanup")
    \/ Wait("test2", "lock2", "loop2", "unlock2", "clear2", "cleanup")
    \/ CleanupThread

-----------------------------------------------------------------------------
(* The owner's methods.  Handle(A) is a step that begins the HANDLE's     *)
(* operation A; the method goes on when the operation has returned.       *)

o == Controller
At(place)    == mpc = place /\ call[o] = "idle" /\ ~gone
Method(from, to) == At(from) /\ mpc' = to
OnlyMethod   == UNCHANGED <<handleVars, epc, everNotified, gone>>
Handle(from, to, A) ==
    /\ Method(from, to) /\ A
    /\ UNCHANGED <<epc, lockVars, optionVars, contextVars, site, force, destroying,
                   gone, everNotified>>

(* Start without a worker waiting creates it; m_hThread must be NULL.     *)
StartCreate == ~isLocked /\ ~hThread /\ Handle("idle", "created", CallCreate(o, TRUE))
StartCreated ==
    /\ Method("created", "started") /\ OnlyMethod
    /\ hThread' = TRUE /\ hasBeenStarted' = TRUE
    /\ UNCHANGED <<lockVars, suspendOption, isSuspended, threadShouldExit, dwExitCode,
                   bExitCodeSet, site, force, destroying>>
StartResume == BeforeInit \notin suspendOption /\ Handle("started", "startResumed", CallResume(o))
StartDone ==
    /\ \/ Method("startResumed", "idle") /\ isSuspended' = FALSE
       \/ BeforeInit \in suspendOption /\ Method("started", "idle") /\ isSuspended' = TRUE
    /\ OnlyMethod
    /\ UNCHANGED <<lockVars, suspendOption, hasBeenStarted, threadShouldExit, contextVars,
                   site, force, destroying>>
(* Start with a worker waiting notifies it.                               *)
StartNotify ==
    /\ isLocked /\ hThread /\ Method("idle", "notify") /\ site' = "user" /\ OnlyMethod
    /\ UNCHANGED <<lockVars, optionVars, contextVars, force, destroying>>

(* Continue: resume if suspended, then notify if waiting.                 *)
Back == IF site = "user" THEN "idle" ELSE IF site = "stop1" THEN "stopCode" ELSE "stopTerminate"
CallContinue ==
    /\ Method("idle", "contBegin") /\ site' = "user" /\ OnlyMethod
    /\ UNCHANGED <<lockVars, optionVars, contextVars, force, destroying>>
ContinueRefused == ~hasBeenStarted /\ Handle("contBegin", Back, UNCHANGED handleVars)
ContinueResume ==
    \/ hasBeenStarted /\ isSuspended /\ hThread /\ Handle("contBegin", "contResumed", CallResume(o))
    \/ hasBeenStarted /\ isSuspended /\ ~hThread /\ Handle("contBegin", "contResumed", UNCHANGED handleVars)
    \/ hasBeenStarted /\ ~isSuspended /\ Handle("contBegin", "contTest", UNCHANGED handleVars)
(* Mutant of ContinueResumed: m_bIsSuspended is not reset.                 *)
ContinueResumedKeeps ==
    /\ Method("contResumed", "contTest") /\ OnlyMethod
    /\ UNCHANGED <<lockVars, optionVars, contextVars, site, force, destroying>>
ContinueResumed ==
    /\ Method("contResumed", "contTest") /\ isSuspended' = FALSE /\ OnlyMethod
    /\ UNCHANGED <<lockVars, suspendOption, hasBeenStarted, threadShouldExit, contextVars,
                   site, force, destroying>>
(* Mutant of ContinueTest: a waiting worker is not notified.               *)
ContinueTestNothing == Handle("contTest", Back, UNCHANGED handleVars)
ContinueTest == Handle("contTest", IF isLocked THEN "notify" ELSE Back, UNCHANGED handleVars)

(* StartLocks::Notify sets the flag, then the event.                      *)
Notify ==
    /\ Method("notify", "setEvent") /\ isNotified' = TRUE /\ everNotified' = TRUE
    /\ UNCHANGED <<handleVars, epc, isLocked, lockEvent, optionVars, contextVars, site,
                   force, destroying, gone>>
NotifyEvent ==
    /\ Method("setEvent", Back) /\ lockEvent' = TRUE /\ OnlyMethod
    /\ UNCHANGED <<isLocked, isNotified, optionVars, contextVars, site, force, destroying>>

(* Suspend takes a previous count of 0 for a failure; a call without a    *)
(* HANDLE returns -1, which it takes for a success.                       *)
Suspend ==
    /\ hasBeenStarted /\ ~isSuspended
    /\ \/ hThread /\ Handle("idle", "suspended", CallSuspend(o))
       \/ ~hThread /\ Handle("idle", "suspended", UNCHANGED handleVars)
SuspendDone ==
    /\ Method("suspended", "idle") /\ OnlyMethod
    /\ isSuspended' = (isSuspended \/ ~hThread \/ res[o] # "zero")
    /\ UNCHANGED <<lockVars, suspendOption, hasBeenStarted, threadShouldExit, contextVars,
                   site, force, destroying>>

Join == hThread /\ Handle("idle", "joining", CallTimed(o) \/ CallJoin(o))
JoinEnds == Handle("joining", "idle", UNCHANGED handleVars)

GetExitCode == hThread /\ ~bExitCodeSet /\ Handle("idle", "codeRead", CallGetExitCode(o))
ExitCodeRead ==
    /\ Method("codeRead", "idle") /\ dwExitCode' = res[o] /\ OnlyMethod
    /\ UNCHANGED <<lockVars, optionVars, hThread, bExitCodeSet, site, force, destroying>>

-----------------------------------------------------------------------------
(* Stop, and the destructor, which calls it                               *)

CallStop(f) ==
    /\ hThread /\ Method("idle", "stopSuspended")
    /\ threadShouldExit' = TRUE /\ force' = f
    /\ destroying' \in IF f THEN BOOLEAN ELSE {FALSE}
    /\ OnlyMethod
    /\ UNCHANGED <<lockVars, suspendOption, isSuspended, hasBeenStarted, contextVars, site>>
StopContinue ==
    /\ Method("stopSuspended", IF isSuspended THEN "contBegin" ELSE "stopCode")
    /\ site' = "stop1" /\ OnlyMethod
    /\ UNCHANGED <<lockVars, optionVars, contextVars, force, destroying>>
StopCode == Handle("stopCode", "stopCodeRead", CallGetExitCode(o))
(* Mutant of StopCodeRead: m_bExitCodeSet is not tested.                   *)
StopCodeReadBlind == Handle("stopCodeRead", "codeSet", UNCHANGED handleVars)
(* m_bExitCodeSet is tested here; m_dwExitCode is assigned a step later.  *)
StopCodeRead ==
    \/ bExitCodeSet /\ Handle("stopCodeRead", "stopWaiting", UNCHANGED handleVars)
    \/ ~bExitCodeSet /\ Handle("stopCodeRead", "codeSet", UNCHANGED handleVars)
StopCodeSet ==
    /\ Method("codeSet", "stopWaiting") /\ dwExitCode' = res[o] /\ OnlyMethod
    /\ UNCHANGED <<lockVars, optionVars, hThread, bExitCodeSet, site, force, destroying>>

IsWaiting == hasBeenStarted /\ (isLocked \/ isSuspended)
StopWaiting ==
    /\ \/ /\ res[o] # StillActive /\ Method("stopWaiting", "stopClose")
          /\ UNCHANGED <<suspendOption, site>>
       \/ /\ res[o] = StillActive /\ IsWaiting /\ Method("stopWaiting", "contBegin")
          /\ suspendOption' = {} /\ site' = "stop2"
       \/ /\ res[o] = StillActive /\ ~IsWaiting /\ Method("stopWaiting", "stopTerminate")
          /\ UNCHANGED <<suspendOption, site>>
    /\ OnlyMethod
    /\ UNCHANGED <<lockVars, isSuspended, hasBeenStarted, threadShouldExit, contextVars,
                   force, destroying>>
StopTerminate ==
    \/ ~force /\ Handle("stopTerminate", "idle", UNCHANGED handleVars)
    \/ force /\ Handle("stopTerminate", "forcedClose", CallTerminate(o))
StopClose ==
    \/ Handle("stopClose", "stopped", CallClose(o))
    \/ Handle("forcedClose", "forcedStopped", CallClose(o))
(* After TerminateThread the exit code is the caller's.                   *)
Stopped ==
    /\ \/ At("stopped") /\ UNCHANGED dwExitCode
       \/ At("forcedStopped") /\ dwExitCode' = Forced
    /\ mpc' = IF destroying THEN "destroyed" ELSE "idle"
    /\ hThread' = FALSE
    /\ OnlyMethod
    /\ UNCHANGED <<lockVars, optionVars, bExitCodeSet, site, force, destroying>>

(* Mutant of Destroy: the destructor does not stop the worker.             *)
DestroyUnstopped ==
    /\ Method("idle", "idle") /\ \A c \in Callers : call[c] = "idle"
    /\ gone' = TRUE /\ lockEvent' = FALSE /\ isLocked' = FALSE
    /\ UNCHANGED <<handleVars, epc, isNotified, optionVars, contextVars, site, force,
                   destroying, everNotified>>

(* The object goes, and its start lock with it.                           *)
Destroy ==
    /\ Method(IF destroying THEN "destroyed" ELSE "idle", "idle")
    /\ ~hThread /\ \A c \in Callers : call[c] = "idle"
    /\ gone' = TRUE /\ lockEvent' = FALSE /\ isLocked' = FALSE
    /\ UNCHANGED <<handleVars, epc, isNotified, optionVars, contextVars, site, force,
                   destroying, everNotified>>

-----------------------------------------------------------------------------
MethodStep ==
    \/ StartCreated \/ StartResume \/ StartDone \/ ContinueRefused \/ ContinueResume
    \/ ContinueResumed \/ ContinueTest \/ Notify \/ NotifyEvent \/ SuspendDone \/ JoinEnds
    \/ ExitCodeRead \/ StopContinue \/ StopCode \/ StopCodeRead \/ StopCodeSet
    \/ StopWaiting \/ StopTerminate \/ StopClose \/ Stopped
MethodCall ==
    \/ StartCreate \/ StartNotify \/ CallContinue \/ Suspend \/ Join \/ GetExitCode \/ Destroy
    \/ \E f \in BOOLEAN : CallStop(f)
HandleStep ==
    /\ WorkerRun \/ BeCancelled \/ \E c \in Callers : Inside(c)
    /\ UNCHANGED threadVars

ThreadNext ==
    /\ ~killed
    /\ HandleStep \/ EntryPoint \/ MethodStep \/ MethodCall \/ \E r \in Codes : Run(r)

(* The worker, the methods and the HANDLE's operations go on; Run need    *)
(* not return, and nobody need call a method.                             *)
ThreadFairness ==
    /\ WF_vars(~killed /\ WorkerRun /\ UNCHANGED threadVars)
    /\ WF_vars(~killed /\ EntryPoint)
    /\ WF_vars(~killed /\ MethodStep)
    /\ \A c \in Callers : WF_vars(~killed /\ Inside(c) /\ UNCHANGED threadVars)

ThreadSpec == ThreadInit /\ [][ThreadNext]_vars /\ ThreadFairness

-----------------------------------------------------------------------------
(* Properties                                                             *)

Passed == {"unlock1", "clear1", "unlock2", "clear2"}
Looping == {"loop1", "loop2"}

(* No worker leaves a synchronisation point before Start, Continue or Stop *)
(* has notified it.                                                       *)
SyncPointsHold == epc \in Passed => everNotified

(* The destructor leaves no worker behind that could still use the object *)
(* (EntryPoint works on it to its end), and no HANDLE.                    *)
ObjectOutlivesWorker == gone => life \in {"new", "freed"} /\ wpc \in {"none", "announced", "gone"}

(* Between methods, a worker the object calls suspended is suspended, so  *)
(* that Continue resumes it.                                              *)
SuspendedIsTrue ==
    mpc = "idle" /\ hThread /\ isSuspended /\ call[o] = "idle" => suspendCount > 0

(* Continue on a worker that waits at a synchronisation point lets it go  *)
(* on, if it is not suspended as well.                                    *)
ContinueReleases ==
    mpc = "contTest" /\ epc \in Looping
        ~> epc \notin Looping \/ wpc # "routine" \/ inHandler \/ killed

(* "This call unlocks the worker if it is suspended" (Thread.hpp:217):    *)
(* once Stop has looked after a suspended worker it is not suspended.     *)
StopUnlocks == mpc = "stopTerminate" => suspendCount = 0
=============================================================================
