--------------------------- MODULE ThreadProofs ---------------------------
(***************************************************************************)
(* Proofs about the thread HANDLE, for any number of callers, any codes    *)
(* and any bounds.                                                         *)
(***************************************************************************)
EXTENDS ExitCodes, TLAPS

-----------------------------------------------------------------------------
(* The invariant of the HANDLE                                             *)

(* While a HANDLE is new nothing has happened; only its creator is at it   *)
(* while it opens, only the controller while it closes, and nobody after.  *)
LifeOK ==
    /\ life = "new" =>
           /\ gate = NoOne /\ suspendCount = 0 /\ joinable = "yes" /\ ~tt.detached /\ ~inHandler
           /\ \A c \in Callers : call[c] = "idle"
    /\ life = "opening" => pThread /\ joinable = "yes" /\ ~tt.detached
    /\ wpc = "none" <=> life = "new"
    /\ \A c \in Callers :
           /\ call[c] = "create" => life = "opening"
           /\ call[c] \notin {"idle", "create"} => life = "open"
           /\ call[c] \in {"create", "closeJoin", "closeFree"} =>
                  \A d \in Callers \ {c} : call[d] = "idle"
           /\ \/ call[c] \in {"suspendLock", "suspendKill", "resumeUnlock", "sigterm",
                              "forced", "closeJoin", "closeFree"}
              \/ loops[c] > 0
              => c = Controller

(* What the record of the thread says of it.                               *)
RecordOK ==
    /\ tt.exiting <=> Ended
    /\ tt.exited \/ tt.freed \/ (life # "new" /\ ~pThread) => Ended
    /\ joinable = "joined" => wpc = "gone"
    /\ startedAs /\ Ended => tt.status \in {code, Forced}

(* A thread that is created suspended waits on the gate while the HANDLE   *)
(* opens; the gate and the count agree but for the controller's calls.     *)
Agree ==
    LET at == call[Controller]
    IN  /\ at = "suspendLock" => suspendCount = 0 /\ gate \notin Callers
        /\ at \in {"suspendKill", "resumeUnlock"} => suspendCount = 0 /\ gate \in Callers
        /\ at \notin {"suspendLock", "suspendKill", "resumeUnlock"} =>
               (gate \in Callers <=> suspendCount > 0)

GateOK ==
    /\ startedAs /\ life = "opening" => wpc = "gate" /\ gate \in Callers
    /\ wpc = "gateHeld" => gate = Worker
    /\ life \in {"opening", "open"} /\ wpc # "gone" => Agree

(* Somebody is at the join that pthreads have under way, and at the wait   *)
(* that has detached the thread, until it ends or a wait times out.        *)
JoinOK ==
    /\ joinable = "joining" => \E c \in Callers : call[c] \in {"join", "closeJoin"}
    /\ joinable = "detached" /\ pThread /\ ~timedOut =>
           \E c \in Callers : call[c] \in {"test", "sleep", "woken"}
    /\ \A c \in Callers : call[c] = "closeFree" /\ ~timedOut => ~pThread \/ joinable = "joined"

HandleInv ==
    TypeOK /\ LifeOK /\ RecordOK /\ GateOK /\ JoinOK /\ ExitWakesOne /\ CloseIsClean

-----------------------------------------------------------------------------
(* What the helpers of the actions change                                  *)

Results == WaitResults \cup ExitCodes \cup {"zero", "more"}

(* Only the call of c changes; it is at p then.                            *)
Moves(c, p) ==
    /\ call' \in [Callers -> Calls] /\ call'[c] = p
    /\ \A d \in Callers \ {c} : call'[d] = call[d]

LEMMA Going ==
    ASSUME TypeOK, NEW c \in Callers, NEW p \in Calls, Goto(c, p)
    PROVE  Moves(c, p) /\ res' \in [Callers -> Results]
  BY DEF TypeOK, Goto, Moves, Results

LEMMA Returning ==
    ASSUME TypeOK, NEW c \in Callers, NEW r \in Results, Return(c, r)
    PROVE  Moves(c, "idle") /\ res' \in [Callers -> Results] /\ res'[c] = r
  <1>1. "idle" \in Calls
    BY DEF Calls
  <1> QED
    BY <1>1 DEF TypeOK, Return, Moves, Results

(* A timed wait ends with the call, unless it is one of TerminateThread's: *)
(* that goes on with another wait, or comes to its end.                    *)
Ends(c, r) ==
    /\ \E p \in {"idle", "forced", "timed", "sigterm"} :
           /\ Moves(c, p)
           /\ p = "idle" <=> loops[c] = 0
           /\ p = "forced" => r = "object"
           /\ p = "timed" <=> loops'[c] > 0
    /\ loops' \in [Callers -> 0 .. Waits]
    /\ \A d \in Callers \ {c} : loops'[d] = loops[d]

LEMMA JoinReturning ==
    ASSUME TypeOK, NEW c \in Callers, NEW r \in WaitResults, JoinReturn(c, r)
    PROVE  Ends(c, r) /\ res' \in [Callers -> Results]
  <1> USE CodesAssumption
  <1>1. loops \in [Callers -> 0 .. Waits] /\ loops[c] \in 0 .. Waits
    BY DEF TypeOK
  <1>2. {"idle", "forced", "timed", "sigterm"} \subseteq Calls /\ r \in Results
    BY DEF Calls, Results
  <1>4. CASE loops[c] = 0 /\ Return(c, r) /\ UNCHANGED loops
    BY <1>1, <1>2, <1>4, Returning DEF Ends
  <1>5. CASE /\ loops[c] > 0 /\ r = "object"
             /\ Goto(c, "forced") /\ loops' = [loops EXCEPT ![c] = 0]
    BY <1>1, <1>2, <1>5, Going DEF Ends
  <1>6. CASE loops[c] > 1 /\ Goto(c, "timed") /\ loops' = [loops EXCEPT ![c] = @ - 1]
    BY <1>1, <1>2, <1>6, Going DEF Ends
  <1>7. CASE loops[c] = 1 /\ Goto(c, "sigterm") /\ loops' = [loops EXCEPT ![c] = 0]
    BY <1>1, <1>2, <1>7, Going DEF Ends
  <1> QED
    BY <1>4, <1>5, <1>6, <1>7 DEF JoinReturn

-----------------------------------------------------------------------------
(* CreateThread                                                            *)

(* For an operation A, AEffect is what A finds and what it changes, ADoes  *)
(* derives it from A, and AKeeps shows that A preserves HandleInv.         *)

CallCreateEffect(c, s) ==
    /\ life = "new"
    /\ s = startedAs
    /\ life' = "opening"
    /\ wpc' = (IF s THEN "gate" ELSE "routine")
    /\ gate' = (IF s THEN c ELSE NoOne)
    /\ suspendCount' = (IF s THEN 1 ELSE 0)
    /\ pThread' = TRUE
    /\ Moves(c, "create")
    /\ res' \in [Callers -> Results]
    /\ UNCHANGED <<registered, signal, inHandler, cancelled,
                   joinable, tt, loops, killed, startedAs, code, timedOut>>

LEMMA CallCreateDoes ==
    ASSUME HandleInv, NEW c \in Callers, NEW s \in BOOLEAN, CallCreate(c, s)
    PROVE  CallCreateEffect(c, s)
  BY Going, CodesAssumption, CallersAssumption
     DEF CallCreateEffect, CallCreate, StartWorker, HandleInv, TypeOK, Calls, Results,
     ExitCodes, workerVars, gateVars, joinVars, callVars, lifeVars

LEMMA CallCreateKeeps ==
    ASSUME HandleInv, NEW c \in Callers, NEW s \in BOOLEAN, CallCreate(c, s)
    PROVE  HandleInv'
  <1>1. CallCreateEffect(c, s)
    BY CallCreateDoes
  <1>2. TypeOK'
    BY <1>1, CodesAssumption, CallersAssumption
       DEF CallCreateEffect, HandleInv, TypeOK, Moves, Results, ExitCodes
  <1>3. LifeOK'
    BY <1>1 DEF CallCreateEffect, HandleInv, TypeOK, LifeOK, Moves, Calls
  <1>4. RecordOK'
    BY <1>1, CodesAssumption
       DEF CallCreateEffect, HandleInv, TypeOK, LifeOK, RecordOK, GateOK, Ended
  <1>5. GateOK'
    BY <1>1, CallersAssumption
       DEF CallCreateEffect, HandleInv, TypeOK, LifeOK, RecordOK, GateOK, Agree, Moves,
       Ended
  <1>6. JoinOK'
    BY <1>1 DEF CallCreateEffect, HandleInv, TypeOK, LifeOK, JoinOK, Moves, Ended
  <1>7. ExitWakesOne' /\ CloseIsClean'
    BY <1>1, CallersAssumption
       DEF CallCreateEffect, HandleInv, TypeOK, LifeOK, RecordOK, JoinOK, ExitWakesOne,
       CloseIsClean, Moves, Ended
  <1> QED
    BY <1>2, <1>3, <1>4, <1>5, <1>6, <1>7 DEF HandleInv

CreateDoneEffect(c) ==
    /\ call[c] = "create"
    /\ life' = "open"
    /\ registered' = TRUE
    /\ tt'.detached = tt.detached
    /\ tt'.exiting = tt.exiting
    /\ tt'.exited = tt.exited
    /\ tt'.freed = tt.freed
    /\ tt'.status = StillActive
    /\ Moves(c, "idle")
    /\ res' \in [Callers -> Results]
    /\ tt' \in [detached : BOOLEAN, exiting : BOOLEAN, exited : BOOLEAN,
              freed : BOOLEAN, status : ExitCodes]
    /\ UNCHANGED <<wpc, signal, inHandler, cancelled, gate,
                   suspendCount, joinable, pThread, loops, killed, startedAs,
                   code, timedOut>>

LEMMA CreateDoneDoes ==
    ASSUME HandleInv, NEW c \in Callers, CreateDone(c)
    PROVE  CreateDoneEffect(c)
  BY Returning, CodesAssumption, CallersAssumption
     DEF CreateDoneEffect, CreateDone, WaitResults, HandleInv, TypeOK, Calls, Results,
     ExitCodes, workerVars, gateVars, joinVars, callVars, lifeVars

LEMMA CreateDoneKeeps ==
    ASSUME HandleInv, NEW c \in Callers, CreateDone(c)
    PROVE  HandleInv'
  <1>1. CreateDoneEffect(c)
    BY CreateDoneDoes
  <1>2. TypeOK'
    BY <1>1, CodesAssumption, CallersAssumption
       DEF CreateDoneEffect, HandleInv, TypeOK, Moves, Results, ExitCodes
  <1>3. LifeOK'
    BY <1>1 DEF CreateDoneEffect, HandleInv, TypeOK, LifeOK, Moves, Calls
  <1>4. RecordOK'
    BY <1>1, CodesAssumption
       DEF CreateDoneEffect, HandleInv, TypeOK, LifeOK, RecordOK, GateOK, Ended
  <1>5. GateOK'
    BY <1>1, CallersAssumption
       DEF CreateDoneEffect, HandleInv, TypeOK, LifeOK, RecordOK, GateOK, Agree, Moves,
       Ended
  <1>6. JoinOK'
    BY <1>1 DEF CreateDoneEffect, HandleInv, TypeOK, LifeOK, JoinOK, Moves, Ended
  <1>7. ExitWakesOne' /\ CloseIsClean'
    BY <1>1, CallersAssumption
       DEF CreateDoneEffect, HandleInv, TypeOK, LifeOK, RecordOK, JoinOK, ExitWakesOne,
       CloseIsClean, Moves, Ended
  <1> QED
    BY <1>2, <1>3, <1>4, <1>5, <1>6, <1>7 DEF HandleInv

-----------------------------------------------------------------------------
(* The worker, but for the announcement of its end                         *)

LEMMA TakeGateKeeps ==
    ASSUME HandleInv, TakeGate
    PROVE  HandleInv'
  <1>1. /\ wpc = "gate"
        /\ gate = NoOne
        /\ ~inHandler
        /\ wpc' = "gateHeld"
        /\ gate' = Worker
        /\ UNCHANGED <<life, registered, signal, inHandler, cancelled,
                       suspendCount, joinable, pThread, tt, call, res, loops,
                       killed, startedAs, code, timedOut>>
    BY CodesAssumption, CallersAssumption
       DEF TakeGate, WorkerStep, HandleInv, TypeOK, workerVars, gateVars, joinVars,
       callVars, lifeVars
  <1>2. TypeOK'
    BY <1>1, CodesAssumption, CallersAssumption
       DEF HandleInv, TypeOK, Results, ExitCodes
  <1>3. LifeOK'
    BY <1>1 DEF HandleInv, TypeOK, LifeOK, Calls
  <1>4. RecordOK'
    BY <1>1, CodesAssumption DEF HandleInv, TypeOK, LifeOK, RecordOK, GateOK, Ended
  <1>5. GateOK'
    BY <1>1, CallersAssumption
       DEF HandleInv, TypeOK, LifeOK, RecordOK, GateOK, Agree, Ended
  <1>6. JoinOK'
    BY <1>1 DEF HandleInv, TypeOK, LifeOK, JoinOK, Ended
  <1>7. ExitWakesOne' /\ CloseIsClean'
    BY <1>1, CallersAssumption
       DEF HandleInv, TypeOK, LifeOK, RecordOK, JoinOK, ExitWakesOne, CloseIsClean,
       Ended
  <1> QED
    BY <1>2, <1>3, <1>4, <1>5, <1>6, <1>7 DEF HandleInv

LEMMA DropGateKeeps ==
    ASSUME HandleInv, DropGate
    PROVE  HandleInv'
  <1>1. /\ wpc = "gateHeld"
        /\ ~inHandler
        /\ wpc' = "routine"
        /\ gate' = NoOne
        /\ UNCHANGED <<life, registered, signal, inHandler, cancelled,
                       suspendCount, joinable, pThread, tt, call, res, loops,
                       killed, startedAs, code, timedOut>>
    BY CodesAssumption, CallersAssumption
       DEF DropGate, WorkerStep, HandleInv, TypeOK, workerVars, gateVars, joinVars,
       callVars, lifeVars
  <1>2. TypeOK'
    BY <1>1, CodesAssumption, CallersAssumption
       DEF HandleInv, TypeOK, Results, ExitCodes
  <1>3. LifeOK'
    BY <1>1 DEF HandleInv, TypeOK, LifeOK, Calls
  <1>4. RecordOK'
    BY <1>1, CodesAssumption DEF HandleInv, TypeOK, LifeOK, RecordOK, GateOK, Ended
  <1>5. GateOK'
    BY <1>1, CallersAssumption
       DEF HandleInv, TypeOK, LifeOK, RecordOK, GateOK, Agree, Ended
  <1>6. JoinOK'
    BY <1>1 DEF HandleInv, TypeOK, LifeOK, JoinOK, Ended
  <1>7. ExitWakesOne' /\ CloseIsClean'
    BY <1>1, CallersAssumption
       DEF HandleInv, TypeOK, LifeOK, RecordOK, JoinOK, ExitWakesOne, CloseIsClean,
       Ended
  <1> QED
    BY <1>2, <1>3, <1>4, <1>5, <1>6, <1>7 DEF HandleInv

LEMMA DeliverKeeps ==
    ASSUME HandleInv, Deliver
    PROVE  HandleInv'
  <1>1. /\ wpc \notin {"none", "gone"}
        /\ signal' = FALSE
        /\ signal' \in BOOLEAN
        /\ inHandler' = TRUE
        /\ inHandler' \in BOOLEAN
        /\ UNCHANGED <<life, registered, wpc, cancelled, gate,
                       suspendCount, joinable, pThread, tt, call, res, loops,
                       killed, startedAs, code, timedOut>>
    BY CodesAssumption, CallersAssumption
       DEF Deliver, HandleInv, TypeOK, workerVars, gateVars, joinVars, callVars,
       lifeVars
  <1>2. TypeOK'
    BY <1>1, CodesAssumption, CallersAssumption
       DEF HandleInv, TypeOK, Results, ExitCodes
  <1>3. LifeOK'
    BY <1>1 DEF HandleInv, TypeOK, LifeOK, Calls
  <1>4. RecordOK'
    BY <1>1, CodesAssumption DEF HandleInv, TypeOK, LifeOK, RecordOK, GateOK, Ended
  <1>5. GateOK'
    BY <1>1, CallersAssumption
       DEF HandleInv, TypeOK, LifeOK, RecordOK, GateOK, Agree, Ended
  <1>6. JoinOK'
    BY <1>1 DEF HandleInv, TypeOK, LifeOK, JoinOK, Ended
  <1>7. ExitWakesOne' /\ CloseIsClean'
    BY <1>1, CallersAssumption
       DEF HandleInv, TypeOK, LifeOK, RecordOK, JoinOK, ExitWakesOne, CloseIsClean,
       Ended
  <1> QED
    BY <1>2, <1>3, <1>4, <1>5, <1>6, <1>7 DEF HandleInv

LEMMA LeaveHandlerKeeps ==
    ASSUME HandleInv, LeaveHandler
    PROVE  HandleInv'
  <1>1. /\ inHandler' = FALSE
        /\ inHandler' \in BOOLEAN
        /\ UNCHANGED <<life, registered, wpc, signal, cancelled, gate,
                       suspendCount, joinable, pThread, tt, call, res, loops,
                       killed, startedAs, code, timedOut>>
    BY CodesAssumption, CallersAssumption
       DEF LeaveHandler, HandleInv, TypeOK, workerVars, gateVars, joinVars, callVars,
       lifeVars
  <1>2. TypeOK'
    BY <1>1, CodesAssumption, CallersAssumption
       DEF HandleInv, TypeOK, Results, ExitCodes
  <1>3. LifeOK'
    BY <1>1 DEF HandleInv, TypeOK, LifeOK, Calls
  <1>4. RecordOK'
    BY <1>1, CodesAssumption DEF HandleInv, TypeOK, LifeOK, RecordOK, GateOK, Ended
  <1>5. GateOK'
    BY <1>1, CallersAssumption
       DEF HandleInv, TypeOK, LifeOK, RecordOK, GateOK, Agree, Ended
  <1>6. JoinOK'
    BY <1>1 DEF HandleInv, TypeOK, LifeOK, JoinOK, Ended
  <1>7. ExitWakesOne' /\ CloseIsClean'
    BY <1>1, CallersAssumption
       DEF HandleInv, TypeOK, LifeOK, RecordOK, JoinOK, ExitWakesOne, CloseIsClean,
       Ended
  <1> QED
    BY <1>2, <1>3, <1>4, <1>5, <1>6, <1>7 DEF HandleInv

LEMMA FinishKeeps ==
    ASSUME HandleInv, NEW r \in ExitCodes, Finish(r)
    PROVE  HandleInv'
  <1>1. /\ wpc = "routine"
        /\ ~inHandler
        /\ wpc' = "leaving"
        /\ code' = r
        /\ UNCHANGED <<life, registered, signal, inHandler, cancelled,
                       gate, suspendCount, joinable, pThread, tt, call, res, loops,
                       killed, startedAs, timedOut>>
    BY CodesAssumption, CallersAssumption
       DEF Finish, WorkerStep, HandleInv, TypeOK, Calls, Results, ExitCodes, workerVars,
       gateVars, joinVars, callVars, lifeVars
  <1>2. TypeOK'
    BY <1>1, CodesAssumption, CallersAssumption
       DEF HandleInv, TypeOK, Results, ExitCodes
  <1>3. LifeOK'
    BY <1>1 DEF HandleInv, TypeOK, LifeOK, Calls
  <1>4. RecordOK'
    BY <1>1, CodesAssumption DEF HandleInv, TypeOK, LifeOK, RecordOK, GateOK, Ended
  <1>5. GateOK'
    BY <1>1, CallersAssumption
       DEF HandleInv, TypeOK, LifeOK, RecordOK, GateOK, Agree, Ended
  <1>6. JoinOK'
    BY <1>1 DEF HandleInv, TypeOK, LifeOK, JoinOK, Ended
  <1>7. ExitWakesOne' /\ CloseIsClean'
    BY <1>1, CallersAssumption
       DEF HandleInv, TypeOK, LifeOK, RecordOK, JoinOK, ExitWakesOne, CloseIsClean,
       Ended
  <1> QED
    BY <1>2, <1>3, <1>4, <1>5, <1>6, <1>7 DEF HandleInv

LEMMA ExitKeeps ==
    ASSUME HandleInv, Exit
    PROVE  HandleInv'
  <1>1. /\ wpc = "announced"
        /\ ~inHandler
        /\ wpc' = "gone"
        /\ signal' = FALSE
        /\ signal' \in BOOLEAN
        /\ UNCHANGED <<life, registered, inHandler, cancelled, gate,
                       suspendCount, joinable, pThread, tt, call, res, loops,
                       killed, startedAs, code, timedOut>>
    BY CodesAssumption, CallersAssumption
       DEF Exit, WorkerStep, HandleInv, TypeOK, workerVars, gateVars, joinVars,
       callVars, lifeVars
  <1>2. TypeOK'
    BY <1>1, CodesAssumption, CallersAssumption
       DEF HandleInv, TypeOK, Results, ExitCodes
  <1>3. LifeOK'
    BY <1>1 DEF HandleInv, TypeOK, LifeOK, Calls
  <1>4. RecordOK'
    BY <1>1, CodesAssumption DEF HandleInv, TypeOK, LifeOK, RecordOK, GateOK, Ended
  <1>5. GateOK'
    BY <1>1, CallersAssumption
       DEF HandleInv, TypeOK, LifeOK, RecordOK, GateOK, Agree, Ended
  <1>6. JoinOK'
    BY <1>1 DEF HandleInv, TypeOK, LifeOK, JoinOK, Ended
  <1>7. ExitWakesOne' /\ CloseIsClean'
    BY <1>1, CallersAssumption
       DEF HandleInv, TypeOK, LifeOK, RecordOK, JoinOK, ExitWakesOne, CloseIsClean,
       Ended
  <1> QED
    BY <1>2, <1>3, <1>4, <1>5, <1>6, <1>7 DEF HandleInv

-----------------------------------------------------------------------------
(* SuspendThread and ResumeThread                                          *)

CallSuspendEffect(c) ==
    /\ call[c] = "idle"
    /\ life = "open"
    /\ c = Controller
    /\ \A d \in Callers : call[d] \notin {"closeJoin", "closeFree"}
    /\ \/ suspendCount = 0 /\ suspendCount' = 0 /\ Moves(c, "suspendLock")
       \/ suspendCount > 0 /\ suspendCount' = suspendCount + 1
          /\ suspendCount' <= MaxSuspends /\ Moves(c, "idle")
    /\ call' \in [Callers -> Calls]
    /\ res' \in [Callers -> Results]
    /\ UNCHANGED <<life, registered, wpc, signal, inHandler,
                   cancelled, gate, joinable, pThread, tt, loops, killed,
                   startedAs, code, timedOut>>

LEMMA CallSuspendDoes ==
    ASSUME HandleInv, NEW c \in Callers, CallSuspend(c)
    PROVE  CallSuspendEffect(c)
  <1>1. {"suspendLock", "idle"} \subseteq Calls /\ {"zero", "more"} \subseteq Results
    BY DEF Calls, Results
  <1>2. CASE suspendCount = 0 /\ Goto(c, "suspendLock") /\ UNCHANGED suspendCount
    BY <1>1, <1>2, Going
       DEF CallSuspendEffect, CallSuspend, MayCall, HandleInv, Moves, workerVars,
       gateVars, joinVars, callVars, lifeVars
  <1>3. CASE /\ suspendCount \in 1 .. MaxSuspends - 1
             /\ suspendCount' = suspendCount + 1 /\ Return(c, "more")
    BY <1>1, <1>3, Returning, CodesAssumption
       DEF CallSuspendEffect, CallSuspend, MayCall, HandleInv, TypeOK, Moves,
       workerVars, gateVars, joinVars, callVars, lifeVars
  <1> QED
    BY <1>2, <1>3 DEF CallSuspendEffect, CallSuspend

LEMMA CallSuspendKeeps ==
    ASSUME HandleInv, NEW c \in Callers, CallSuspend(c)
    PROVE  HandleInv'
  <1>1. CallSuspendEffect(c)
    BY CallSuspendDoes
  <1>2. TypeOK'
    BY <1>1, CodesAssumption, CallersAssumption
       DEF CallSuspendEffect, HandleInv, TypeOK, Moves, Results, ExitCodes
  <1>3. LifeOK'
    BY <1>1 DEF CallSuspendEffect, HandleInv, TypeOK, LifeOK, Moves, Calls
  <1>4. RecordOK'
    BY <1>1, CodesAssumption
       DEF CallSuspendEffect, HandleInv, TypeOK, LifeOK, RecordOK, GateOK, Ended
  <1>5. GateOK'
    BY <1>1, CallersAssumption
       DEF CallSuspendEffect, HandleInv, TypeOK, LifeOK, RecordOK, GateOK, Agree, Moves,
       Ended
  <1>6. JoinOK'
    BY <1>1 DEF CallSuspendEffect, HandleInv, TypeOK, LifeOK, JoinOK, Moves, Ended
  <1>7. ExitWakesOne' /\ CloseIsClean'
    BY <1>1, CallersAssumption
       DEF CallSuspendEffect, HandleInv, TypeOK, LifeOK, RecordOK, JoinOK, ExitWakesOne,
       CloseIsClean, Moves, Ended
  <1> QED
    BY <1>2, <1>3, <1>4, <1>5, <1>6, <1>7 DEF HandleInv

SuspendLockEffect(c) ==
    /\ call[c] = "suspendLock"
    /\ gate = NoOne
    /\ gate' = c
    /\ Moves(c, "suspendKill")
    /\ res' \in [Callers -> Results]
    /\ UNCHANGED <<life, registered, wpc, signal, inHandler,
                   cancelled, suspendCount, joinable, pThread, tt, loops,
                   killed, startedAs, code, timedOut>>

LEMMA SuspendLockDoes ==
    ASSUME HandleInv, NEW c \in Callers, SuspendLock(c)
    PROVE  SuspendLockEffect(c)
  BY Going, CodesAssumption, CallersAssumption
     DEF SuspendLockEffect, SuspendLock, HandleInv, TypeOK, Calls, Results, ExitCodes,
     workerVars, gateVars, joinVars, callVars, lifeVars

LEMMA SuspendLockKeeps ==
    ASSUME HandleInv, NEW c \in Callers, SuspendLock(c)
    PROVE  HandleInv'
  <1>1. SuspendLockEffect(c)
    BY SuspendLockDoes
  <1>2. TypeOK'
    BY <1>1, CodesAssumption, CallersAssumption
       DEF SuspendLockEffect, HandleInv, TypeOK, Moves, Results, ExitCodes
  <1>3. LifeOK'
    BY <1>1 DEF SuspendLockEffect, HandleInv, TypeOK, LifeOK, Moves, Calls
  <1>4. RecordOK'
    BY <1>1, CodesAssumption
       DEF SuspendLockEffect, HandleInv, TypeOK, LifeOK, RecordOK, GateOK, Ended
  <1>5. GateOK'
    BY <1>1, CallersAssumption
       DEF SuspendLockEffect, HandleInv, TypeOK, LifeOK, RecordOK, GateOK, Agree, Moves,
       Ended
  <1>6. JoinOK'
    BY <1>1 DEF SuspendLockEffect, HandleInv, TypeOK, LifeOK, JoinOK, Moves, Ended
  <1>7. ExitWakesOne' /\ CloseIsClean'
    BY <1>1, CallersAssumption
       DEF SuspendLockEffect, HandleInv, TypeOK, LifeOK, RecordOK, JoinOK, ExitWakesOne,
       CloseIsClean, Moves, Ended
  <1> QED
    BY <1>2, <1>3, <1>4, <1>5, <1>6, <1>7 DEF HandleInv

SuspendKillEffect(c) ==
    /\ call[c] = "suspendKill"
    /\ signal' \in BOOLEAN
    /\ suspendCount' \in {0, 1}
    /\ wpc # "gone" => suspendCount' = 1
    /\ Moves(c, "idle")
    /\ res' \in [Callers -> Results]
    /\ res'[c] = "zero"
    /\ UNCHANGED <<life, registered, wpc, inHandler, cancelled,
                   gate, joinable, pThread, tt, loops, killed, startedAs, code,
                   timedOut>>

LEMMA SuspendKillDoes ==
    ASSUME HandleInv, NEW c \in Callers, SuspendKill(c)
    PROVE  SuspendKillEffect(c)
  <1>1. "zero" \in Results
    BY DEF Results
  <1>2. Moves(c, "idle") /\ res' \in [Callers -> Results] /\ res'[c] = "zero"
    BY <1>1, Returning DEF SuspendKillEffect, SuspendKill, HandleInv
  <1> QED
    BY <1>2, CodesAssumption
       DEF SuspendKillEffect, SuspendKill, HandleInv, TypeOK, workerVars, gateVars,
       joinVars, callVars, lifeVars

LEMMA SuspendKillKeeps ==
    ASSUME HandleInv, NEW c \in Callers, SuspendKill(c)
    PROVE  HandleInv'
  <1>1. SuspendKillEffect(c)
    BY SuspendKillDoes
  <1>2. TypeOK'
    BY <1>1, CodesAssumption, CallersAssumption
       DEF SuspendKillEffect, HandleInv, TypeOK, Moves, Results, ExitCodes
  <1>3. LifeOK'
    BY <1>1 DEF SuspendKillEffect, HandleInv, TypeOK, LifeOK, Moves, Calls
  <1>4. RecordOK'
    BY <1>1, CodesAssumption
       DEF SuspendKillEffect, HandleInv, TypeOK, LifeOK, RecordOK, GateOK, Ended
  <1>5. GateOK'
    BY <1>1, CallersAssumption
       DEF SuspendKillEffect, HandleInv, TypeOK, LifeOK, RecordOK, GateOK, Agree, Moves,
       Ended
  <1>6. JoinOK'
    BY <1>1 DEF SuspendKillEffect, HandleInv, TypeOK, LifeOK, JoinOK, Moves, Ended
  <1>7. ExitWakesOne' /\ CloseIsClean'
    BY <1>1, CallersAssumption
       DEF SuspendKillEffect, HandleInv, TypeOK, LifeOK, RecordOK, JoinOK, ExitWakesOne,
       CloseIsClean, Moves, Ended
  <1> QED
    BY <1>2, <1>3, <1>4, <1>5, <1>6, <1>7 DEF HandleInv

CallResumeEffect(c) ==
    /\ call[c] = "idle"
    /\ life = "open"
    /\ c = Controller
    /\ \A d \in Callers : call[d] \notin {"closeJoin", "closeFree"}
    /\ \/ suspendCount = 0 /\ suspendCount' = 0 /\ Moves(c, "idle")
       \/ suspendCount > 1 /\ suspendCount' = suspendCount - 1 /\ Moves(c, "idle")
       \/ suspendCount = 1 /\ suspendCount' = 0 /\ Moves(c, "resumeUnlock")
    /\ call' \in [Callers -> Calls]
    /\ res' \in [Callers -> Results]
    /\ UNCHANGED <<life, registered, wpc, signal, inHandler,
                   cancelled, gate, joinable, pThread, tt, loops, killed,
                   startedAs, code, timedOut>>

LEMMA CallResumeDoes ==
    ASSUME HandleInv, NEW c \in Callers, CallResume(c)
    PROVE  CallResumeEffect(c)
  <1>1. {"resumeUnlock", "idle"} \subseteq Calls /\ {"zero", "more"} \subseteq Results
    BY DEF Calls, Results
  <1>2. CASE suspendCount = 0 /\ Return(c, "zero") /\ UNCHANGED suspendCount
    BY <1>1, <1>2, Returning
       DEF CallResumeEffect, CallResume, MayCall, HandleInv, Moves, workerVars,
       gateVars, joinVars, callVars, lifeVars
  <1>3. CASE suspendCount > 1 /\ Return(c, "more") /\ suspendCount' = suspendCount - 1
    BY <1>1, <1>3, Returning
       DEF CallResumeEffect, CallResume, MayCall, HandleInv, Moves, workerVars,
       gateVars, joinVars, callVars, lifeVars
  <1>4. CASE suspendCount = 1 /\ Goto(c, "resumeUnlock") /\ suspendCount' = 0
    BY <1>1, <1>4, Going
       DEF CallResumeEffect, CallResume, MayCall, HandleInv, Moves, workerVars,
       gateVars, joinVars, callVars, lifeVars
  <1> QED
    BY <1>2, <1>3, <1>4 DEF CallResumeEffect, CallResume

LEMMA CallResumeKeeps ==
    ASSUME HandleInv, NEW c \in Callers, CallResume(c)
    PROVE  HandleInv'
  <1>1. CallResumeEffect(c)
    BY CallResumeDoes
  <1>2. TypeOK'
    BY <1>1, CodesAssumption, CallersAssumption
       DEF CallResumeEffect, HandleInv, TypeOK, Moves, Results, ExitCodes
  <1>3. LifeOK'
    BY <1>1 DEF CallResumeEffect, HandleInv, TypeOK, LifeOK, Moves, Calls
  <1>4. RecordOK'
    BY <1>1, CodesAssumption
       DEF CallResumeEffect, HandleInv, TypeOK, LifeOK, RecordOK, GateOK, Ended
  <1>5. GateOK'
    BY <1>1, CallersAssumption
       DEF CallResumeEffect, HandleInv, TypeOK, LifeOK, RecordOK, GateOK, Agree, Moves,
       Ended
  <1>6. JoinOK'
    BY <1>1 DEF CallResumeEffect, HandleInv, TypeOK, LifeOK, JoinOK, Moves, Ended
  <1>7. ExitWakesOne' /\ CloseIsClean'
    BY <1>1, CallersAssumption
       DEF CallResumeEffect, HandleInv, TypeOK, LifeOK, RecordOK, JoinOK, ExitWakesOne,
       CloseIsClean, Moves, Ended
  <1> QED
    BY <1>2, <1>3, <1>4, <1>5, <1>6, <1>7 DEF HandleInv

ResumeUnlockEffect(c) ==
    /\ call[c] = "resumeUnlock"
    /\ gate' = NoOne
    /\ Moves(c, "idle")
    /\ res' \in [Callers -> Results]
    /\ UNCHANGED <<life, registered, wpc, signal, inHandler,
                   cancelled, suspendCount, joinable, pThread, tt, loops,
                   killed, startedAs, code, timedOut>>

LEMMA ResumeUnlockDoes ==
    ASSUME HandleInv, NEW c \in Callers, ResumeUnlock(c)
    PROVE  ResumeUnlockEffect(c)
  BY Returning, CodesAssumption, CallersAssumption
     DEF ResumeUnlockEffect, ResumeUnlock, HandleInv, TypeOK, Calls, Results, ExitCodes,
     workerVars, gateVars, joinVars, callVars, lifeVars

LEMMA ResumeUnlockKeeps ==
    ASSUME HandleInv, NEW c \in Callers, ResumeUnlock(c)
    PROVE  HandleInv'
  <1>1. ResumeUnlockEffect(c)
    BY ResumeUnlockDoes
  <1>2. TypeOK'
    BY <1>1, CodesAssumption, CallersAssumption
       DEF ResumeUnlockEffect, HandleInv, TypeOK, Moves, Results, ExitCodes
  <1>3. LifeOK'
    BY <1>1 DEF ResumeUnlockEffect, HandleInv, TypeOK, LifeOK, Moves, Calls
  <1>4. RecordOK'
    BY <1>1, CodesAssumption
       DEF ResumeUnlockEffect, HandleInv, TypeOK, LifeOK, RecordOK, GateOK, Ended
  <1>5. GateOK'
    BY <1>1, CallersAssumption
       DEF ResumeUnlockEffect, HandleInv, TypeOK, LifeOK, RecordOK, GateOK, Agree,
       Moves, Ended
  <1>6. JoinOK'
    BY <1>1 DEF ResumeUnlockEffect, HandleInv, TypeOK, LifeOK, JoinOK, Moves, Ended
  <1>7. ExitWakesOne' /\ CloseIsClean'
    BY <1>1, CallersAssumption
       DEF ResumeUnlockEffect, HandleInv, TypeOK, LifeOK, RecordOK, JoinOK,
       ExitWakesOne, CloseIsClean, Moves, Ended
  <1> QED
    BY <1>2, <1>3, <1>4, <1>5, <1>6, <1>7 DEF HandleInv

-----------------------------------------------------------------------------
(* WaitForSingleObject on a thread                                         *)

CallTimedEffect(c) ==
    /\ call[c] = "idle"
    /\ life = "open"
    /\ \A d \in Callers : call[d] \notin {"closeJoin", "closeFree"}
    /\ Moves(c, "timed")
    /\ res' \in [Callers -> Results]
    /\ UNCHANGED <<life, registered, wpc, signal, inHandler,
                   cancelled, gate, suspendCount, joinable, pThread, tt, loops,
                   killed, startedAs, code, timedOut>>

LEMMA CallTimedDoes ==
    ASSUME HandleInv, NEW c \in Callers, CallTimed(c)
    PROVE  CallTimedEffect(c)
  BY Going, CodesAssumption, CallersAssumption
     DEF CallTimedEffect, CallTimed, MayCall, HandleInv, TypeOK, Calls, Results,
     ExitCodes, workerVars, gateVars, joinVars, callVars, lifeVars

LEMMA CallTimedKeeps ==
    ASSUME HandleInv, NEW c \in Callers, CallTimed(c)
    PROVE  HandleInv'
  <1>1. CallTimedEffect(c)
    BY CallTimedDoes
  <1>2. TypeOK'
    BY <1>1, CodesAssumption, CallersAssumption
       DEF CallTimedEffect, HandleInv, TypeOK, Moves, Results, ExitCodes
  <1>3. LifeOK'
    BY <1>1 DEF CallTimedEffect, HandleInv, TypeOK, LifeOK, Moves, Calls
  <1>4. RecordOK'
    BY <1>1, CodesAssumption
       DEF CallTimedEffect, HandleInv, TypeOK, LifeOK, RecordOK, GateOK, Ended
  <1>5. GateOK'
    BY <1>1, CallersAssumption
       DEF CallTimedEffect, HandleInv, TypeOK, LifeOK, RecordOK, GateOK, Agree, Moves,
       Ended
  <1>6. JoinOK'
    BY <1>1 DEF CallTimedEffect, HandleInv, TypeOK, LifeOK, JoinOK, Moves, Ended
  <1>7. ExitWakesOne' /\ CloseIsClean'
    BY <1>1, CallersAssumption
       DEF CallTimedEffect, HandleInv, TypeOK, LifeOK, RecordOK, JoinOK, ExitWakesOne,
       CloseIsClean, Moves, Ended
  <1> QED
    BY <1>2, <1>3, <1>4, <1>5, <1>6, <1>7 DEF HandleInv

TimedBeginEffect(c) ==
    /\ call[c] = "timed"
    /\ \E p \in {"test", "detach"} : Moves(c, p)
    /\ res' \in [Callers -> Results]
    /\ UNCHANGED <<life, registered, wpc, signal, inHandler,
                   cancelled, gate, suspendCount, joinable, pThread, tt, loops,
                   killed, startedAs, code, timedOut>>

LEMMA TimedBeginDoes ==
    ASSUME HandleInv, NEW c \in Callers, TimedBegin(c)
    PROVE  TimedBeginEffect(c)
  BY Going, CodesAssumption, CallersAssumption
     DEF TimedBeginEffect, TimedBegin, HandleInv, TypeOK, Calls, Results, ExitCodes,
     workerVars, gateVars, joinVars, callVars, lifeVars

LEMMA TimedBeginKeeps ==
    ASSUME HandleInv, NEW c \in Callers, TimedBegin(c)
    PROVE  HandleInv'
  <1>1. TimedBeginEffect(c)
    BY TimedBeginDoes
  <1>2. TypeOK'
    BY <1>1, CodesAssumption, CallersAssumption
       DEF TimedBeginEffect, HandleInv, TypeOK, Moves, Results, ExitCodes
  <1>3. LifeOK'
    BY <1>1 DEF TimedBeginEffect, HandleInv, TypeOK, LifeOK, Moves, Calls
  <1>4. RecordOK'
    BY <1>1, CodesAssumption
       DEF TimedBeginEffect, HandleInv, TypeOK, LifeOK, RecordOK, GateOK, Ended
  <1>5. GateOK'
    BY <1>1, CallersAssumption
       DEF TimedBeginEffect, HandleInv, TypeOK, LifeOK, RecordOK, GateOK, Agree, Moves,
       Ended
  <1>6. JoinOK'
    BY <1>1 DEF TimedBeginEffect, HandleInv, TypeOK, LifeOK, JoinOK, Moves, Ended
  <1>7. ExitWakesOne' /\ CloseIsClean'
    BY <1>1, CallersAssumption
       DEF TimedBeginEffect, HandleInv, TypeOK, LifeOK, RecordOK, JoinOK, ExitWakesOne,
       CloseIsClean, Moves, Ended
  <1> QED
    BY <1>2, <1>3, <1>4, <1>5, <1>6, <1>7 DEF HandleInv

DetachEffect(c) ==
    /\ call[c] = "detach"
    /\ \/ /\ joinable = "yes" /\ joinable' = "detached" /\ tt'.detached
          /\ Moves(c, "test") /\ loops' = loops
       \/ /\ joinable = "joining" /\ joinable' = "joining" /\ tt'.detached
          /\ Moves(c, "test") /\ loops' = loops
       \/ joinable' = joinable /\ tt'.detached = tt.detached /\ Ends(c, "failed")
    /\ tt'.exiting = tt.exiting
    /\ tt'.exited = tt.exited
    /\ tt'.freed = tt.freed
    /\ tt'.status = tt.status
    /\ res' \in [Callers -> Results]
    /\ tt' \in [detached : BOOLEAN, exiting : BOOLEAN, exited : BOOLEAN,
              freed : BOOLEAN, status : ExitCodes]
    /\ UNCHANGED <<life, registered, wpc, signal, inHandler,
                   cancelled, gate, suspendCount, pThread, killed, startedAs,
                   code, timedOut>>

LEMMA DetachDoes ==
    ASSUME HandleInv, NEW c \in Callers, Detach(c)
    PROVE  DetachEffect(c)
  <1>1. "test" \in Calls /\ "failed" \in WaitResults
    BY DEF Calls, WaitResults
  <1>2. CASE /\ joinable \in {"yes", "joining"}
             /\ joinable' = IF joinable = "yes" THEN "detached" ELSE joinable
             /\ tt' = [tt EXCEPT !.detached = TRUE]
             /\ Goto(c, "test") /\ UNCHANGED loops
    BY <1>1, <1>2, Going
       DEF DetachEffect, Detach, HandleInv, TypeOK, Moves, workerVars, gateVars,
       joinVars, callVars, lifeVars
  <1>3. CASE joinable \in {"detached", "joined"} /\ JoinReturn(c, "failed")
             /\ UNCHANGED <<joinable, tt>>
    BY <1>1, <1>3, JoinReturning
       DEF DetachEffect, Detach, HandleInv, TypeOK, Moves, workerVars, gateVars,
       joinVars, callVars, lifeVars
  <1> QED
    BY <1>2, <1>3 DEF DetachEffect, Detach

LEMMA DetachKeeps ==
    ASSUME HandleInv, NEW c \in Callers, Detach(c)
    PROVE  HandleInv'
  <1>1. DetachEffect(c)
    BY DetachDoes
  <1>2. TypeOK'
    BY <1>1, CodesAssumption, CallersAssumption
       DEF DetachEffect, HandleInv, TypeOK, Moves, Ends, Results, ExitCodes
  <1>3. LifeOK'
    BY <1>1 DEF DetachEffect, HandleInv, TypeOK, LifeOK, Moves, Ends, Calls
  <1>4. RecordOK'
    BY <1>1, CodesAssumption
       DEF DetachEffect, HandleInv, TypeOK, LifeOK, RecordOK, GateOK, Ended
  <1>5. GateOK'
    BY <1>1, CallersAssumption
       DEF DetachEffect, HandleInv, TypeOK, LifeOK, RecordOK, GateOK, Agree, Moves,
       Ends, Ended
  <1>6. JoinOK'
    BY <1>1 DEF DetachEffect, HandleInv, TypeOK, LifeOK, JoinOK, Moves, Ends, Ended
  <1>7. ExitWakesOne' /\ CloseIsClean'
    BY <1>1, CallersAssumption
       DEF DetachEffect, HandleInv, TypeOK, LifeOK, RecordOK, JoinOK, ExitWakesOne,
       CloseIsClean, Moves, Ends, Ended
  <1> QED
    BY <1>2, <1>3, <1>4, <1>5, <1>6, <1>7 DEF HandleInv

JoinTestEffect(c) ==
    /\ call[c] \in {"test", "woken"}
    /\ pThread' \in BOOLEAN
    /\ \/ tt.exiting /\ tt'.exited /\ pThread' = FALSE /\ Ends(c, "object")
       \/ /\ ~tt.exiting /\ tt'.exited = tt.exited /\ pThread' = pThread
          /\ Moves(c, "sleep") /\ loops' = loops
    /\ tt'.detached = tt.detached
    /\ tt'.exiting = tt.exiting
    /\ tt'.freed = tt.freed
    /\ tt'.status = tt.status
    /\ res' \in [Callers -> Results]
    /\ tt' \in [detached : BOOLEAN, exiting : BOOLEAN, exited : BOOLEAN,
              freed : BOOLEAN, status : ExitCodes]
    /\ UNCHANGED <<life, registered, wpc, signal, inHandler,
                   cancelled, gate, suspendCount, joinable, killed, startedAs,
                   code, timedOut>>

LEMMA JoinTestDoes ==
    ASSUME HandleInv, NEW c \in Callers, JoinTest(c)
    PROVE  JoinTestEffect(c)
  <1>1. "sleep" \in Calls /\ "object" \in WaitResults
    BY DEF Calls, WaitResults
  <1>2. CASE /\ tt.exiting
             /\ tt' = [tt EXCEPT !.exited = TRUE] /\ pThread' = FALSE
             /\ JoinReturn(c, "object")
    BY <1>1, <1>2, JoinReturning
       DEF JoinTestEffect, JoinTest, HandleInv, TypeOK, Moves, workerVars, gateVars,
       joinVars, callVars, lifeVars
  <1>3. CASE ~tt.exiting /\ Goto(c, "sleep") /\ UNCHANGED <<tt, pThread, loops>>
    BY <1>1, <1>3, Going
       DEF JoinTestEffect, JoinTest, HandleInv, TypeOK, Moves, workerVars, gateVars,
       joinVars, callVars, lifeVars
  <1> QED
    BY <1>2, <1>3 DEF JoinTestEffect, JoinTest

LEMMA JoinTestKeeps ==
    ASSUME HandleInv, NEW c \in Callers, JoinTest(c)
    PROVE  HandleInv'
  <1>1. JoinTestEffect(c)
    BY JoinTestDoes
  <1>2. TypeOK'
    BY <1>1, CodesAssumption, CallersAssumption
       DEF JoinTestEffect, HandleInv, TypeOK, Moves, Ends, Results, ExitCodes
  <1>3. LifeOK'
    BY <1>1 DEF JoinTestEffect, HandleInv, TypeOK, LifeOK, Moves, Ends, Calls
  <1>4. RecordOK'
    BY <1>1, CodesAssumption
       DEF JoinTestEffect, HandleInv, TypeOK, LifeOK, RecordOK, GateOK, Ended
  <1>5. GateOK'
    BY <1>1, CallersAssumption
       DEF JoinTestEffect, HandleInv, TypeOK, LifeOK, RecordOK, GateOK, Agree, Moves,
       Ends, Ended
  <1>6. JoinOK'
    BY <1>1 DEF JoinTestEffect, HandleInv, TypeOK, LifeOK, JoinOK, Moves, Ends, Ended
  <1>7. ExitWakesOne' /\ CloseIsClean'
    BY <1>1, CallersAssumption
       DEF JoinTestEffect, HandleInv, TypeOK, LifeOK, RecordOK, JoinOK, ExitWakesOne,
       CloseIsClean, Moves, Ends, Ended
  <1> QED
    BY <1>2, <1>3, <1>4, <1>5, <1>6, <1>7 DEF HandleInv

JoinTimeOutEffect(c) ==
    /\ call[c] \in {"sleep", "woken"}
    /\ Ends(c, "timeout")
    /\ res' \in [Callers -> Results]
    /\ timedOut' = TRUE
    /\ UNCHANGED <<life, registered, wpc, signal, inHandler,
                   cancelled, gate, suspendCount, joinable, pThread, tt,
                   killed, startedAs, code>>

LEMMA JoinTimeOutDoes ==
    ASSUME HandleInv, NEW c \in Callers, JoinTimeOut(c)
    PROVE  JoinTimeOutEffect(c)
  BY JoinReturning, CodesAssumption, CallersAssumption
     DEF JoinTimeOutEffect, JoinTimeOut, WaitResults, HandleInv, TypeOK, Calls, Results,
     ExitCodes, workerVars, gateVars, joinVars, callVars, lifeVars

LEMMA JoinTimeOutKeeps ==
    ASSUME HandleInv, NEW c \in Callers, JoinTimeOut(c)
    PROVE  HandleInv'
  <1>1. JoinTimeOutEffect(c)
    BY JoinTimeOutDoes
  <1>2. TypeOK'
    BY <1>1, CodesAssumption, CallersAssumption
       DEF JoinTimeOutEffect, HandleInv, TypeOK, Moves, Ends, Results, ExitCodes
  <1>3. LifeOK'
    BY <1>1 DEF JoinTimeOutEffect, HandleInv, TypeOK, LifeOK, Moves, Ends, Calls
  <1>4. RecordOK'
    BY <1>1, CodesAssumption
       DEF JoinTimeOutEffect, HandleInv, TypeOK, LifeOK, RecordOK, GateOK, Ended
  <1>5. GateOK'
    BY <1>1, CallersAssumption
       DEF JoinTimeOutEffect, HandleInv, TypeOK, LifeOK, RecordOK, GateOK, Agree, Moves,
       Ends, Ended
  <1>6. JoinOK'
    BY <1>1 DEF JoinTimeOutEffect, HandleInv, TypeOK, LifeOK, JoinOK, Moves, Ends, Ended
  <1>7. ExitWakesOne' /\ CloseIsClean'
    BY <1>1, CallersAssumption
       DEF JoinTimeOutEffect, HandleInv, TypeOK, LifeOK, RecordOK, JoinOK, ExitWakesOne,
       CloseIsClean, Moves, Ends, Ended
  <1> QED
    BY <1>2, <1>3, <1>4, <1>5, <1>6, <1>7 DEF HandleInv

CallJoinEffect(c) ==
    /\ call[c] = "idle"
    /\ life = "open"
    /\ \A d \in Callers : call[d] \notin {"closeJoin", "closeFree"}
    /\ \/ joinable = "yes" /\ joinable' = "joining" /\ Moves(c, "join")
       \/ joinable # "yes" /\ joinable' = joinable /\ Moves(c, "idle")
    /\ res' \in [Callers -> Results]
    /\ UNCHANGED <<life, registered, wpc, signal, inHandler,
                   cancelled, gate, suspendCount, pThread, tt, loops, killed,
                   startedAs, code, timedOut>>

LEMMA CallJoinDoes ==
    ASSUME HandleInv, NEW c \in Callers, CallJoin(c)
    PROVE  CallJoinEffect(c)
  BY Going, Returning, CodesAssumption, CallersAssumption
     DEF CallJoinEffect, CallJoin, MayCall, WaitResults, HandleInv, TypeOK, Calls,
     Results, ExitCodes, workerVars, gateVars, joinVars, callVars, lifeVars

LEMMA CallJoinKeeps ==
    ASSUME HandleInv, NEW c \in Callers, CallJoin(c)
    PROVE  HandleInv'
  <1>1. CallJoinEffect(c)
    BY CallJoinDoes
  <1>2. TypeOK'
    BY <1>1, CodesAssumption, CallersAssumption
       DEF CallJoinEffect, HandleInv, TypeOK, Moves, Results, ExitCodes
  <1>3. LifeOK'
    BY <1>1 DEF CallJoinEffect, HandleInv, TypeOK, LifeOK, Moves, Calls
  <1>4. RecordOK'
    BY <1>1, CodesAssumption
       DEF CallJoinEffect, HandleInv, TypeOK, LifeOK, RecordOK, GateOK, Ended
  <1>5. GateOK'
    BY <1>1, CallersAssumption
       DEF CallJoinEffect, HandleInv, TypeOK, LifeOK, RecordOK, GateOK, Agree, Moves,
       Ended
  <1>6. JoinOK'
    BY <1>1 DEF CallJoinEffect, HandleInv, TypeOK, LifeOK, JoinOK, Moves, Ended
  <1>7. ExitWakesOne' /\ CloseIsClean'
    BY <1>1, CallersAssumption
       DEF CallJoinEffect, HandleInv, TypeOK, LifeOK, RecordOK, JoinOK, ExitWakesOne,
       CloseIsClean, Moves, Ended
  <1> QED
    BY <1>2, <1>3, <1>4, <1>5, <1>6, <1>7 DEF HandleInv

JoinDoneEffect(c) ==
    /\ call[c] = "join"
    /\ wpc = "gone"
    /\ joinable' = "joined"
    /\ pThread' = FALSE
    /\ tt'.detached = tt.detached
    /\ tt'.exiting = tt.exiting
    /\ tt'.exited = tt.exited
    /\ tt'.freed = tt.freed
    /\ tt'.status = code
    /\ Moves(c, "idle")
    /\ res' \in [Callers -> Results]
    /\ tt' \in [detached : BOOLEAN, exiting : BOOLEAN, exited : BOOLEAN,
              freed : BOOLEAN, status : ExitCodes]
    /\ UNCHANGED <<life, registered, wpc, signal, inHandler,
                   cancelled, gate, suspendCount, loops, killed, startedAs,
                   code, timedOut>>

LEMMA JoinDoneDoes ==
    ASSUME HandleInv, NEW c \in Callers, JoinDone(c)
    PROVE  JoinDoneEffect(c)
  BY Returning, CodesAssumption, CallersAssumption
     DEF JoinDoneEffect, JoinDone, WaitResults, HandleInv, TypeOK, Calls, Results,
     ExitCodes, workerVars, gateVars, joinVars, callVars, lifeVars

LEMMA JoinDoneKeeps ==
    ASSUME HandleInv, NEW c \in Callers, JoinDone(c)
    PROVE  HandleInv'
  <1>1. JoinDoneEffect(c)
    BY JoinDoneDoes
  <1>2. TypeOK'
    BY <1>1, CodesAssumption, CallersAssumption
       DEF JoinDoneEffect, HandleInv, TypeOK, Moves, Results, ExitCodes
  <1>3. LifeOK'
    BY <1>1 DEF JoinDoneEffect, HandleInv, TypeOK, LifeOK, Moves, Calls
  <1>4. RecordOK'
    BY <1>1, CodesAssumption
       DEF JoinDoneEffect, HandleInv, TypeOK, LifeOK, RecordOK, GateOK, Ended
  <1>5. GateOK'
    BY <1>1, CallersAssumption
       DEF JoinDoneEffect, HandleInv, TypeOK, LifeOK, RecordOK, GateOK, Agree, Moves,
       Ended
  <1>6. JoinOK'
    BY <1>1 DEF JoinDoneEffect, HandleInv, TypeOK, LifeOK, JoinOK, Moves, Ended
  <1>7. ExitWakesOne' /\ CloseIsClean'
    BY <1>1, CallersAssumption
       DEF JoinDoneEffect, HandleInv, TypeOK, LifeOK, RecordOK, JoinOK, ExitWakesOne,
       CloseIsClean, Moves, Ended
  <1> QED
    BY <1>2, <1>3, <1>4, <1>5, <1>6, <1>7 DEF HandleInv

-----------------------------------------------------------------------------
(* GetExitCodeThread and TerminateThread                                   *)

CallGetExitCodeEffect(c) ==
    /\ call[c] = "idle"
    /\ life = "open"
    /\ \A d \in Callers : call[d] \notin {"closeJoin", "closeFree"}
    /\ Moves(c, "idle")
    /\ res' \in [Callers -> Results]
    /\ res'[c] \in ExitCodes
    /\ res'[c] # StillActive => ~pThread \/ wpc = "gone"
    /\ UNCHANGED <<life, registered, wpc, signal, inHandler,
                   cancelled, gate, suspendCount, joinable, pThread, tt, loops,
                   killed, startedAs, code, timedOut>>

LEMMA CallGetExitCodeDoes ==
    ASSUME HandleInv, NEW c \in Callers, CallGetExitCode(c)
    PROVE  CallGetExitCodeEffect(c)
  <1>1. ExitCodes \subseteq Results /\ StillActive \in ExitCodes /\ tt.status \in ExitCodes
    BY DEF Results, ExitCodes, HandleInv, TypeOK
  <1>2. CASE pThread /\ Return(c, StillActive)
    BY <1>1, <1>2, Returning
       DEF CallGetExitCodeEffect, CallGetExitCode, MayCall, HandleInv, TypeOK,
       workerVars, gateVars, joinVars, callVars, lifeVars
  <1>3. CASE (~pThread \/ wpc = "gone") /\ Return(c, tt.status)
    BY <1>1, <1>3, Returning
       DEF CallGetExitCodeEffect, CallGetExitCode, MayCall, HandleInv, TypeOK,
       workerVars, gateVars, joinVars, callVars, lifeVars
  <1> QED
    BY <1>2, <1>3 DEF CallGetExitCodeEffect, CallGetExitCode

LEMMA CallGetExitCodeKeeps ==
    ASSUME HandleInv, NEW c \in Callers, CallGetExitCode(c)
    PROVE  HandleInv'
  <1>1. CallGetExitCodeEffect(c)
    BY CallGetExitCodeDoes
  <1>2. TypeOK'
    BY <1>1, CodesAssumption, CallersAssumption
       DEF CallGetExitCodeEffect, HandleInv, TypeOK, Moves, Results, ExitCodes
  <1>3. LifeOK'
    BY <1>1 DEF CallGetExitCodeEffect, HandleInv, TypeOK, LifeOK, Moves, Calls
  <1>4. RecordOK'
    BY <1>1, CodesAssumption
       DEF CallGetExitCodeEffect, HandleInv, TypeOK, LifeOK, RecordOK, GateOK, Ended
  <1>5. GateOK'
    BY <1>1, CallersAssumption
       DEF CallGetExitCodeEffect, HandleInv, TypeOK, LifeOK, RecordOK, GateOK, Agree,
       Moves, Ended
  <1>6. JoinOK'
    BY <1>1 DEF CallGetExitCodeEffect, HandleInv, TypeOK, LifeOK, JoinOK, Moves, Ended
  <1>7. ExitWakesOne' /\ CloseIsClean'
    BY <1>1, CallersAssumption
       DEF CallGetExitCodeEffect, HandleInv, TypeOK, LifeOK, RecordOK, JoinOK,
       ExitWakesOne, CloseIsClean, Moves, Ended
  <1> QED
    BY <1>2, <1>3, <1>4, <1>5, <1>6, <1>7 DEF HandleInv

CallTerminateEffect(c) ==
    /\ call[c] = "idle"
    /\ life = "open"
    /\ \A d \in Callers : call[d] \notin {"closeJoin", "closeFree"}
    /\ c = Controller
    /\ cancelled' \in BOOLEAN
    /\ \/ pThread /\ Moves(c, "timed") /\ loops'[c] > 0
       \/ pThread /\ wpc = "gone" /\ Moves(c, "forced") /\ loops'[c] = loops[c]
       \/ ~pThread /\ Moves(c, "idle") /\ loops'[c] = loops[c]
    /\ res' \in [Callers -> Results]
    /\ loops' \in [Callers -> 0 .. Waits]
    /\ \A d \in Callers \ {c} : loops'[d] = loops[d]
    /\ UNCHANGED <<life, registered, wpc, signal, inHandler, gate,
                   suspendCount, joinable, pThread, tt, killed, startedAs,
                   code, timedOut>>

LEMMA CallTerminateDoes ==
    ASSUME HandleInv, NEW c \in Callers, CallTerminate(c)
    PROVE  CallTerminateEffect(c)
  <1>1. {"timed", "forced", "idle"} \subseteq Calls /\ "failed" \in Results
    BY DEF Calls, Results, WaitResults
  <1>2. CASE /\ pThread /\ cancelled' = (wpc # "gone")
             /\ Goto(c, "timed") /\ loops' = [loops EXCEPT ![c] = Waits]
    BY <1>1, <1>2, Going, CodesAssumption
       DEF CallTerminateEffect, CallTerminate, MayCall, HandleInv, TypeOK, workerVars,
       gateVars, joinVars, callVars, lifeVars
  <1>3. CASE pThread /\ wpc = "gone" /\ Goto(c, "forced") /\ UNCHANGED <<cancelled, loops>>
    BY <1>1, <1>3, Going
       DEF CallTerminateEffect, CallTerminate, MayCall, HandleInv, TypeOK, workerVars,
       gateVars, joinVars, callVars, lifeVars
  <1>4. CASE ~pThread /\ Return(c, "failed") /\ UNCHANGED <<cancelled, loops>>
    BY <1>1, <1>4, Returning
       DEF CallTerminateEffect, CallTerminate, MayCall, HandleInv, TypeOK, workerVars,
       gateVars, joinVars, callVars, lifeVars
  <1> QED
    BY <1>2, <1>3, <1>4 DEF CallTerminateEffect, CallTerminate

LEMMA CallTerminateKeeps ==
    ASSUME HandleInv, NEW c \in Callers, CallTerminate(c)
    PROVE  HandleInv'
  <1>1. CallTerminateEffect(c)
    BY CallTerminateDoes
  <1>2. TypeOK'
    BY <1>1, CodesAssumption, CallersAssumption
       DEF CallTerminateEffect, HandleInv, TypeOK, Moves, Results, ExitCodes
  <1>3. LifeOK'
    BY <1>1 DEF CallTerminateEffect, HandleInv, TypeOK, LifeOK, Moves, Calls
  <1>4. RecordOK'
    BY <1>1, CodesAssumption
       DEF CallTerminateEffect, HandleInv, TypeOK, LifeOK, RecordOK, GateOK, Ended
  <1>5. GateOK'
    BY <1>1, CallersAssumption
       DEF CallTerminateEffect, HandleInv, TypeOK, LifeOK, RecordOK, GateOK, Agree,
       Moves, Ended
  <1>6. JoinOK'
    BY <1>1 DEF CallTerminateEffect, HandleInv, TypeOK, LifeOK, JoinOK, Moves, Ended
  <1>7. ExitWakesOne' /\ CloseIsClean'
    BY <1>1, CallersAssumption
       DEF CallTerminateEffect, HandleInv, TypeOK, LifeOK, RecordOK, JoinOK,
       ExitWakesOne, CloseIsClean, Moves, Ended
  <1> QED
    BY <1>2, <1>3, <1>4, <1>5, <1>6, <1>7 DEF HandleInv

SigtermEffect(c) ==
    /\ call[c] = "sigterm"
    /\ Moves(c, "forced")
    /\ res' \in [Callers -> Results]
    /\ killed' \in BOOLEAN
    /\ killed' = (wpc # "gone")
    /\ UNCHANGED <<life, registered, wpc, signal, inHandler,
                   cancelled, gate, suspendCount, joinable, pThread, tt, loops,
                   startedAs, code, timedOut>>

LEMMA SigtermDoes ==
    ASSUME HandleInv, NEW c \in Callers, Sigterm(c)
    PROVE  SigtermEffect(c)
  BY Going, CodesAssumption, CallersAssumption
     DEF SigtermEffect, Sigterm, HandleInv, TypeOK, Calls, Results, ExitCodes,
     workerVars, gateVars, joinVars, callVars, lifeVars

LEMMA SigtermKeeps ==
    ASSUME HandleInv, NEW c \in Callers, Sigterm(c)
    PROVE  HandleInv'
  <1>1. SigtermEffect(c)
    BY SigtermDoes
  <1>2. TypeOK'
    BY <1>1, CodesAssumption, CallersAssumption
       DEF SigtermEffect, HandleInv, TypeOK, Moves, Results, ExitCodes
  <1>3. LifeOK'
    BY <1>1 DEF SigtermEffect, HandleInv, TypeOK, LifeOK, Moves, Calls
  <1>4. RecordOK'
    BY <1>1, CodesAssumption
       DEF SigtermEffect, HandleInv, TypeOK, LifeOK, RecordOK, GateOK, Ended
  <1>5. GateOK'
    BY <1>1, CallersAssumption
       DEF SigtermEffect, HandleInv, TypeOK, LifeOK, RecordOK, GateOK, Agree, Moves,
       Ended
  <1>6. JoinOK'
    BY <1>1 DEF SigtermEffect, HandleInv, TypeOK, LifeOK, JoinOK, Moves, Ended
  <1>7. ExitWakesOne' /\ CloseIsClean'
    BY <1>1, CallersAssumption
       DEF SigtermEffect, HandleInv, TypeOK, LifeOK, RecordOK, JoinOK, ExitWakesOne,
       CloseIsClean, Moves, Ended
  <1> QED
    BY <1>2, <1>3, <1>4, <1>5, <1>6, <1>7 DEF HandleInv

SetForcedEffect(c) ==
    /\ call[c] = "forced"
    /\ tt'.detached = tt.detached
    /\ tt'.exiting = tt.exiting
    /\ tt'.exited = tt.exited
    /\ tt'.freed = tt.freed
    /\ tt'.status = Forced
    /\ Moves(c, "idle")
    /\ res' \in [Callers -> Results]
    /\ tt' \in [detached : BOOLEAN, exiting : BOOLEAN, exited : BOOLEAN,
              freed : BOOLEAN, status : ExitCodes]
    /\ UNCHANGED <<life, registered, wpc, signal, inHandler,
                   cancelled, gate, suspendCount, joinable, pThread, loops,
                   killed, startedAs, code, timedOut>>

LEMMA SetForcedDoes ==
    ASSUME HandleInv, NEW c \in Callers, SetForced(c)
    PROVE  SetForcedEffect(c)
  BY Returning, CodesAssumption, CallersAssumption
     DEF SetForcedEffect, SetForced, WaitResults, HandleInv, TypeOK, Calls, Results,
     ExitCodes, workerVars, gateVars, joinVars, callVars, lifeVars

LEMMA SetForcedKeeps ==
    ASSUME HandleInv, NEW c \in Callers, SetForced(c)
    PROVE  HandleInv'
  <1>1. SetForcedEffect(c)
    BY SetForcedDoes
  <1>2. TypeOK'
    BY <1>1, CodesAssumption, CallersAssumption
       DEF SetForcedEffect, HandleInv, TypeOK, Moves, Results, ExitCodes
  <1>3. LifeOK'
    BY <1>1 DEF SetForcedEffect, HandleInv, TypeOK, LifeOK, Moves, Calls
  <1>4. RecordOK'
    BY <1>1, CodesAssumption
       DEF SetForcedEffect, HandleInv, TypeOK, LifeOK, RecordOK, GateOK, Ended
  <1>5. GateOK'
    BY <1>1, CallersAssumption
       DEF SetForcedEffect, HandleInv, TypeOK, LifeOK, RecordOK, GateOK, Agree, Moves,
       Ended
  <1>6. JoinOK'
    BY <1>1 DEF SetForcedEffect, HandleInv, TypeOK, LifeOK, JoinOK, Moves, Ended
  <1>7. ExitWakesOne' /\ CloseIsClean'
    BY <1>1, CallersAssumption
       DEF SetForcedEffect, HandleInv, TypeOK, LifeOK, RecordOK, JoinOK, ExitWakesOne,
       CloseIsClean, Moves, Ended
  <1> QED
    BY <1>2, <1>3, <1>4, <1>5, <1>6, <1>7 DEF HandleInv

-----------------------------------------------------------------------------
(* CloseHandle                                                             *)

CallCloseEffect(c) ==
    /\ call[c] = "idle"
    /\ life = "open"
    /\ \A d \in Callers : call[d] \notin {"closeJoin", "closeFree"}
    /\ c = Controller
    /\ \A d \in Callers : call[d] = "idle"
    /\ \/ pThread /\ joinable = "yes" /\ joinable' = "joining" /\ Moves(c, "closeJoin")
       \/ (pThread => joinable # "yes") /\ joinable' = joinable /\ Moves(c, "closeFree")
    /\ res' \in [Callers -> Results]
    /\ UNCHANGED <<life, registered, wpc, signal, inHandler,
                   cancelled, gate, suspendCount, pThread, tt, loops, killed,
                   startedAs, code, timedOut>>

LEMMA CallCloseDoes ==
    ASSUME HandleInv, NEW c \in Callers, CallClose(c)
    PROVE  CallCloseEffect(c)
  BY Going, CodesAssumption, CallersAssumption
     DEF CallCloseEffect, CallClose, MayCall, HandleInv, TypeOK, Calls, Results,
     ExitCodes, workerVars, gateVars, joinVars, callVars, lifeVars

LEMMA CallCloseKeeps ==
    ASSUME HandleInv, NEW c \in Callers, CallClose(c)
    PROVE  HandleInv'
  <1>1. CallCloseEffect(c)
    BY CallCloseDoes
  <1>2. TypeOK'
    BY <1>1, CodesAssumption, CallersAssumption
       DEF CallCloseEffect, HandleInv, TypeOK, Moves, Results, ExitCodes
  <1>3. LifeOK'
    BY <1>1 DEF CallCloseEffect, HandleInv, TypeOK, LifeOK, Moves, Calls
  <1>4. RecordOK'
    BY <1>1, CodesAssumption
       DEF CallCloseEffect, HandleInv, TypeOK, LifeOK, RecordOK, GateOK, Ended
  <1>5. GateOK'
    BY <1>1, CallersAssumption
       DEF CallCloseEffect, HandleInv, TypeOK, LifeOK, RecordOK, GateOK, Agree, Moves,
       Ended
  <1>6. JoinOK'
    BY <1>1 DEF CallCloseEffect, HandleInv, TypeOK, LifeOK, JoinOK, Moves, Ended
  <1>7. ExitWakesOne' /\ CloseIsClean'
    BY <1>1, CallersAssumption
       DEF CallCloseEffect, HandleInv, TypeOK, LifeOK, RecordOK, JoinOK, ExitWakesOne,
       CloseIsClean, Moves, Ended
  <1> QED
    BY <1>2, <1>3, <1>4, <1>5, <1>6, <1>7 DEF HandleInv

CloseJoinEffect(c) ==
    /\ call[c] = "closeJoin"
    /\ wpc = "gone"
    /\ joinable' = "joined"
    /\ tt'.detached = tt.detached
    /\ tt'.exiting = tt.exiting
    /\ tt'.exited = tt.exited
    /\ tt'.freed = tt.freed
    /\ tt'.status = code
    /\ Moves(c, "closeFree")
    /\ res' \in [Callers -> Results]
    /\ tt' \in [detached : BOOLEAN, exiting : BOOLEAN, exited : BOOLEAN,
              freed : BOOLEAN, status : ExitCodes]
    /\ UNCHANGED <<life, registered, wpc, signal, inHandler,
                   cancelled, gate, suspendCount, pThread, loops, killed,
                   startedAs, code, timedOut>>

LEMMA CloseJoinDoes ==
    ASSUME HandleInv, NEW c \in Callers, CloseJoin(c)
    PROVE  CloseJoinEffect(c)
  BY Going, CodesAssumption, CallersAssumption
     DEF CloseJoinEffect, CloseJoin, HandleInv, TypeOK, Calls, Results, ExitCodes,
     workerVars, gateVars, joinVars, callVars, lifeVars

LEMMA CloseJoinKeeps ==
    ASSUME HandleInv, NEW c \in Callers, CloseJoin(c)
    PROVE  HandleInv'
  <1>1. CloseJoinEffect(c)
    BY CloseJoinDoes
  <1>2. TypeOK'
    BY <1>1, CodesAssumption, CallersAssumption
       DEF CloseJoinEffect, HandleInv, TypeOK, Moves, Results, ExitCodes
  <1>3. LifeOK'
    BY <1>1 DEF CloseJoinEffect, HandleInv, TypeOK, LifeOK, Moves, Calls
  <1>4. RecordOK'
    BY <1>1, CodesAssumption
       DEF CloseJoinEffect, HandleInv, TypeOK, LifeOK, RecordOK, GateOK, Ended
  <1>5. GateOK'
    BY <1>1, CallersAssumption
       DEF CloseJoinEffect, HandleInv, TypeOK, LifeOK, RecordOK, GateOK, Agree, Moves,
       Ended
  <1>6. JoinOK'
    BY <1>1 DEF CloseJoinEffect, HandleInv, TypeOK, LifeOK, JoinOK, Moves, Ended
  <1>7. ExitWakesOne' /\ CloseIsClean'
    BY <1>1, CallersAssumption
       DEF CloseJoinEffect, HandleInv, TypeOK, LifeOK, RecordOK, JoinOK, ExitWakesOne,
       CloseIsClean, Moves, Ended
  <1> QED
    BY <1>2, <1>3, <1>4, <1>5, <1>6, <1>7 DEF HandleInv

CloseFreeEffect(c) ==
    /\ call[c] = "closeFree"
    /\ life' = "freed"
    /\ registered' = (pThread /\ joinable # "joined")
    /\ tt'.detached = tt.detached
    /\ tt'.exiting = tt.exiting
    /\ tt'.exited = tt.exited
    /\ tt'.freed = tt.exited
    /\ tt'.status = tt.status
    /\ Moves(c, "idle")
    /\ res' \in [Callers -> Results]
    /\ tt' \in [detached : BOOLEAN, exiting : BOOLEAN, exited : BOOLEAN,
              freed : BOOLEAN, status : ExitCodes]
    /\ UNCHANGED <<wpc, signal, inHandler, cancelled, gate,
                   suspendCount, joinable, pThread, loops, killed, startedAs,
                   code, timedOut>>

LEMMA CloseFreeDoes ==
    ASSUME HandleInv, NEW c \in Callers, CloseFree(c)
    PROVE  CloseFreeEffect(c)
  BY Returning, CodesAssumption, CallersAssumption
     DEF CloseFreeEffect, CloseFree, FreeRecord, WaitResults, HandleInv, TypeOK, Calls,
     Results, ExitCodes, workerVars, gateVars, joinVars, callVars, lifeVars

LEMMA CloseFreeKeeps ==
    ASSUME HandleInv, NEW c \in Callers, CloseFree(c)
    PROVE  HandleInv'
  <1>1. CloseFreeEffect(c)
    BY CloseFreeDoes
  <1>2. TypeOK'
    BY <1>1, CodesAssumption, CallersAssumption
       DEF CloseFreeEffect, HandleInv, TypeOK, Moves, Results, ExitCodes
  <1>3. LifeOK'
    BY <1>1 DEF CloseFreeEffect, HandleInv, TypeOK, LifeOK, Moves, Calls
  <1>4. RecordOK'
    BY <1>1, CodesAssumption
       DEF CloseFreeEffect, HandleInv, TypeOK, LifeOK, RecordOK, GateOK, Ended
  <1>5. GateOK'
    BY <1>1, CallersAssumption
       DEF CloseFreeEffect, HandleInv, TypeOK, LifeOK, RecordOK, GateOK, Agree, Moves,
       Ended
  <1>6. JoinOK'
    BY <1>1 DEF CloseFreeEffect, HandleInv, TypeOK, LifeOK, JoinOK, Moves, Ended
  <1>7. ExitWakesOne' /\ CloseIsClean'
    BY <1>1, CallersAssumption
       DEF CloseFreeEffect, HandleInv, TypeOK, LifeOK, RecordOK, JoinOK, ExitWakesOne,
       CloseIsClean, Moves, Ended
  <1> QED
    BY <1>2, <1>3, <1>4, <1>5, <1>6, <1>7 DEF HandleInv

-----------------------------------------------------------------------------
(* The announcement: a joiner that sleeps is woken, if there is one        *)

AnnouncementEffect(s) ==
    /\ wpc' = "announced" /\ code' = s
    /\ call' \in [Callers -> Calls]
    /\ \/ call' = call /\ \A c \in Callers : call[c] # "sleep"
       \/ \E d \in Callers : call[d] = "sleep" /\ Moves(d, "woken")
    /\ tt'.detached = tt.detached /\ tt'.exiting /\ tt'.exited = tt.exited
    /\ tt'.freed = tt.freed /\ tt'.status = s
    /\ tt' \in [detached : BOOLEAN, exiting : BOOLEAN, exited : BOOLEAN,
                freed : BOOLEAN, status : ExitCodes]
    /\ UNCHANGED <<life, registered, signal, inHandler, cancelled, gate, suspendCount,
                   joinable, pThread, res, loops, killed, startedAs, timedOut>>

LEMMA AnnouncementDoes ==
    ASSUME HandleInv, NEW s \in ExitCodes, Announcement(s), wpc' = "announced", code' = s,
           UNCHANGED <<signal, inHandler, cancelled, gateVars, joinable, pThread,
                       timedOut, res, loops, lifeVars>>
    PROVE  AnnouncementEffect(s)
  <1>1. /\ tt'.detached = tt.detached /\ tt'.exiting /\ tt'.exited = tt.exited
        /\ tt'.freed = tt.freed /\ tt'.status = s
        /\ tt' \in [detached : BOOLEAN, exiting : BOOLEAN, exited : BOOLEAN,
                    freed : BOOLEAN, status : ExitCodes]
    BY DEF HandleInv, TypeOK, Announcement
  <1>2. /\ call' \in [Callers -> Calls]
        /\ \/ call' = call /\ \A c \in Callers : call[c] # "sleep"
           \/ \E d \in Callers : call[d] = "sleep" /\ Moves(d, "woken")
    BY DEF HandleInv, TypeOK, Announcement, Moves, Calls
  <1> QED
    BY <1>1, <1>2 DEF AnnouncementEffect, gateVars, lifeVars

LEMMA AnnouncementKeeps ==
    ASSUME HandleInv, NEW s \in ExitCodes, AnnouncementEffect(s), wpc \in {"routine", "leaving"}
    PROVE  HandleInv'
  <1>2. TypeOK'
    BY DEF AnnouncementEffect, HandleInv, TypeOK
  <1>3. LifeOK'
    BY DEF AnnouncementEffect, HandleInv, TypeOK, LifeOK, Moves, Calls
  <1>4. RecordOK'
    BY DEF AnnouncementEffect, HandleInv, TypeOK, LifeOK, RecordOK, Ended
  <1>5. GateOK'
    <2>1. Agree => Agree'
      BY CallersAssumption DEF AnnouncementEffect, Agree, Moves
    <2> QED
      BY <2>1 DEF AnnouncementEffect, HandleInv, TypeOK, LifeOK, GateOK
  <1>6. JoinOK'
    BY DEF AnnouncementEffect, HandleInv, TypeOK, LifeOK, JoinOK, Moves
  <1>7. ExitWakesOne' /\ CloseIsClean'
    BY CallersAssumption
       DEF AnnouncementEffect, HandleInv, TypeOK, LifeOK, RecordOK, CloseIsClean,
       ExitWakesOne, Moves, Ended
  <1> QED
    BY <1>2, <1>3, <1>4, <1>5, <1>6, <1>7 DEF HandleInv

LEMMA AnnounceDoes ==
    ASSUME HandleInv, Announce
    PROVE  AnnouncementEffect(code) /\ wpc = "leaving" /\ ~inHandler /\ code \in ExitCodes
  BY AnnouncementDoes DEF Announce, WorkerStep, HandleInv, TypeOK

LEMMA BeCancelledDoes ==
    ASSUME HandleInv, BeCancelled
    PROVE  /\ AnnouncementEffect(Canceled) /\ Canceled \in ExitCodes
           /\ wpc = "routine" /\ ~inHandler
  BY AnnouncementDoes DEF BeCancelled, WorkerStep, ExitCodes

-----------------------------------------------------------------------------
(* The invariant is inductive                                              *)

LEMMA InitKeeps ==
    ASSUME Init
    PROVE  HandleInv
  <1> USE DEF Init
  <1>1. TypeOK
    <2>1. tt \in [detached : BOOLEAN, exiting : BOOLEAN, exited : BOOLEAN,
                  freed : BOOLEAN, status : ExitCodes]
      BY DEF ExitCodes
    <2>2. /\ call \in [Callers -> Calls]
          /\ res \in [Callers -> WaitResults \cup ExitCodes \cup {"zero", "more"}]
      BY DEF ExitCodes, Calls
    <2>3. suspendCount \in 0 .. MaxSuspends /\ loops \in [Callers -> 0 .. Waits]
      BY CodesAssumption
    <2>4. {registered, signal, inHandler, cancelled, pThread, killed, startedAs,
           timedOut} \subseteq BOOLEAN
      OBVIOUS
    <2> QED
      BY <2>1, <2>2, <2>3, <2>4 DEF TypeOK, ExitCodes
  <1>2. LifeOK /\ RecordOK
    BY DEF LifeOK, RecordOK, Ended
  <1>3. GateOK /\ JoinOK
    BY DEF GateOK, JoinOK
  <1>4. ExitWakesOne /\ CloseIsClean
    BY DEF ExitWakesOne, CloseIsClean
  <1> QED
    BY <1>1, <1>2, <1>3, <1>4 DEF HandleInv

LEMMA WorkerKeeps ==
    ASSUME HandleInv, WorkerRun \/ BeCancelled \/ \E r \in ExitCodes : Finish(r)
    PROVE  HandleInv'
  <1>1. CASE TakeGate
    BY <1>1, TakeGateKeeps
  <1>2. CASE DropGate
    BY <1>2, DropGateKeeps
  <1>3. CASE Deliver
    BY <1>3, DeliverKeeps
  <1>4. CASE LeaveHandler
    BY <1>4, LeaveHandlerKeeps
  <1>5. CASE Announce
    BY <1>5, AnnounceDoes, AnnouncementKeeps
  <1>6. CASE Exit
    BY <1>6, ExitKeeps
  <1>7. CASE BeCancelled
    BY <1>7, BeCancelledDoes, AnnouncementKeeps
  <1>8. CASE \E r \in ExitCodes : Finish(r)
    BY <1>8, FinishKeeps
  <1> QED
    BY <1>1, <1>2, <1>3, <1>4, <1>5, <1>6, <1>7, <1>8 DEF WorkerRun

LEMMA InsideKeeps ==
    ASSUME HandleInv, NEW c \in Callers, Inside(c)
    PROVE  HandleInv'
  <1>1. CASE CreateDone(c) \/ SuspendLock(c) \/ SuspendKill(c) \/ ResumeUnlock(c)
    BY <1>1, CreateDoneKeeps, SuspendLockKeeps, SuspendKillKeeps, ResumeUnlockKeeps
  <1>2. CASE TimedBegin(c) \/ Detach(c) \/ JoinTest(c) \/ JoinTimeOut(c) \/ JoinDone(c)
    BY <1>2, TimedBeginKeeps, DetachKeeps, JoinTestKeeps, JoinTimeOutKeeps,
       JoinDoneKeeps
  <1>3. CASE Sigterm(c) \/ SetForced(c) \/ CloseJoin(c) \/ CloseFree(c)
    BY <1>3, SigtermKeeps, SetForcedKeeps, CloseJoinKeeps, CloseFreeKeeps
  <1> QED
    BY <1>1, <1>2, <1>3 DEF Inside

LEMMA BeginKeeps ==
    ASSUME HandleInv, NEW c \in Callers, Begin(c)
    PROVE  HandleInv'
  <1>1. CASE CallCreate(c, startedAs)
    BY <1>1, CallCreateKeeps DEF HandleInv, TypeOK
  <1>2. CASE CallSuspend(c) \/ CallResume(c) \/ CallTimed(c) \/ CallJoin(c)
    BY <1>2, CallSuspendKeeps, CallResumeKeeps, CallTimedKeeps, CallJoinKeeps
  <1>3. CASE CallGetExitCode(c) \/ CallTerminate(c) \/ CallClose(c)
    BY <1>3, CallGetExitCodeKeeps, CallTerminateKeeps, CallCloseKeeps
  <1> QED
    BY <1>1, <1>2, <1>3 DEF Begin

LEMMA StutterKeeps ==
    ASSUME HandleInv, UNCHANGED handleVars
    PROVE  HandleInv'
  <1> USE DEF handleVars, workerVars, gateVars, joinVars, callVars, lifeVars
  <1>1. TypeOK'
    BY DEF HandleInv, TypeOK
  <1>2. LifeOK' /\ RecordOK'
    BY DEF HandleInv, LifeOK, RecordOK, Ended
  <1>3. GateOK' /\ JoinOK'
    BY DEF HandleInv, GateOK, Agree, JoinOK
  <1>4. ExitWakesOne' /\ CloseIsClean'
    BY DEF HandleInv, ExitWakesOne, CloseIsClean, Ended
  <1> QED
    BY <1>1, <1>2, <1>3, <1>4 DEF HandleInv

LEMMA HandleStepKeeps ==
    ASSUME HandleInv, [Next]_handleVars
    PROVE  HandleInv'
  <1>1. \A r \in Codes : r \in ExitCodes
    BY DEF ExitCodes
  <1> QED
    BY <1>1, WorkerKeeps, InsideKeeps, BeginKeeps, StutterKeeps DEF Next, WorkerEnds

LEMMA HandleInvariant == Spec => []HandleInv
  <1>1. Init => HandleInv
    BY InitKeeps
  <1>2. HandleInv /\ [Next]_handleVars => HandleInv'
    BY HandleStepKeeps
  <1> QED
    BY <1>1, <1>2, PTL DEF Spec

-----------------------------------------------------------------------------
(* The theorems about the HANDLE                                           *)

(* The variables of the HANDLE keep their types.                           *)
THEOREM HandleTypes == Spec => []TypeOK
  <1>1. HandleInv => TypeOK
    BY DEF HandleInv
  <1> QED
    BY <1>1, HandleInvariant, PTL

(* A thread whose pThread is NULL has ended: GetExitCodeThread never gives *)
(* the status of a thread that runs.                                       *)
THEOREM NullMeansEnded == Spec => []JoinedHasEnded
  <1>1. HandleInv => JoinedHasEnded
    BY DEF HandleInv, RecordOK, JoinedHasEnded
  <1> QED
    BY <1>1, HandleInvariant, PTL

(* The status of a thread created suspended survives the race between its  *)
(* end and the constructor of its HANDLE.                                  *)
THEOREM StatusIsKept == Spec => []StatusKept
  <1>1. HandleInv => StatusKept
    BY DEF HandleInv, RecordOK, StatusKept
  <1> QED
    BY <1>1, HandleInvariant, PTL

(* The gate of SuspendThread and ResumeThread is locked as often as the    *)
(* count says, whatever signals are under way.                             *)
THEOREM GateFollowsCount == Spec => []GateMatchesCount
  <1>1. HandleInv => GateMatchesCount
    BY DEF HandleInv, GateOK, Agree, GateMatchesCount
  <1> QED
    BY <1>1, HandleInvariant, PTL

(* pthread_cond_signal is enough for the exit of a thread: not everybody   *)
(* that waits for it sleeps on.                                            *)
THEOREM ExitWakes == Spec => []ExitWakesOne
  <1>1. HandleInv => ExitWakesOne
    BY DEF HandleInv
  <1> QED
    BY <1>1, HandleInvariant, PTL

(* CloseHandle returns after the end of the thread and unregisters the     *)
(* HANDLE, unless a wait on the thread has timed out.                      *)
THEOREM CloseHandleIsClean == Spec => []CloseIsClean
  <1>1. HandleInv => CloseIsClean
    BY DEF HandleInv
  <1> QED
    BY <1>1, HandleInvariant, PTL

-----------------------------------------------------------------------------
(* The invariant of the object over the HANDLE                             *)

Joins == {"timed", "detach", "test", "sleep", "woken"}

(* Only the owner is at the HANDLE, with the call its method has made;     *)
(* TerminateThread waits in a loop.                                        *)
OwnerOK ==
    /\ \A c \in Callers \ {o} : call[c] = "idle"
    /\ call[o] = "create" => mpc = "created"
    /\ call[o] = "resumeUnlock" => mpc \in {"startResumed", "contResumed"}
    /\ call[o] \in {"suspendLock", "suspendKill"} => mpc = "suspended"
    /\ call[o] \in Joins => mpc \in {"joining", "forcedClose"}
    /\ call[o] = "join" => mpc = "joining"
    /\ call[o] \in {"sigterm", "forced"} => mpc = "forcedClose"
    /\ call[o] \in {"closeJoin", "closeFree"} => mpc \in {"stopped", "forcedStopped"}
    /\ loops[o] > 0 <=> mpc = "forcedClose" /\ call[o] \in Joins

(* What the results tell Stop: it closes the HANDLE of a worker that has   *)
(* ended, or that goes with the process.                                   *)
StopOK ==
    /\ mpc \in {"codeRead", "stopCodeRead", "codeSet"} => res[o] \in ExitCodes
    /\ mpc \in {"stopCodeRead", "codeSet", "stopWaiting"} => res[o] = StillActive \/ Ended
    /\ mpc = "stopClose" => Ended
    /\ mpc = "forcedClose" /\ call[o] \in {"idle", "forced"} => Ended \/ killed
    /\ mpc \in {"stopped", "forcedStopped"} =>
           (Ended \/ killed) /\ (call[o] = "idle" => life = "freed")
    /\ life = "freed" => Ended \/ killed

(* The object has the HANDLE while it exists, but for the moment Start     *)
(* takes to note it.                                                       *)
LinkOK == ~hThread => life \in {"new", "freed"} \/ mpc = "created"

(* The count of a worker that the object calls suspended.                  *)
SuspendOK ==
    /\ mpc \in {"created", "started"} => suspendCount > 0
    /\ mpc = "suspended" =>
           /\ ~isSuspended
           /\ call[o] = "idle" /\ hThread /\ res[o] # "zero" => suspendCount > 0
    /\ isSuspended /\ hThread /\ mpc \notin {"startResumed", "contResumed"} =>
           suspendCount > 0

NotifiedOK ==
    lockEvent \/ isNotified \/ mpc = "setEvent" \/ epc \in Passed => everNotified

GoneOK == gone => ObjectOutlivesWorker /\ \A c \in Callers : call[c] = "idle"

WorkerInv ==
    /\ HandleInv /\ ThreadTypeOK /\ OwnerOK /\ StopOK /\ LinkOK
    /\ SuspendOK /\ NotifiedOK /\ GoneOK

LEMMA OwnerIsCaller == o \in Callers
  BY CallersAssumption DEF o

(* What is left to show of a step inside a call.                           *)
LEMMA InsideFrame ==
    ASSUME WorkerInv, HandleInv', UNCHANGED threadVars, call[o] # "idle",
           OwnerOK', StopOK', LinkOK', SuspendOK'
    PROVE  WorkerInv'
  <1> USE DEF threadVars, lockVars, optionVars, contextVars, methodVars
  <1>1. ThreadTypeOK'
    BY DEF WorkerInv, HandleInv, ThreadTypeOK
  <1>2. NotifiedOK'
    BY DEF WorkerInv, NotifiedOK
  <1>3. GoneOK'
    BY OwnerIsCaller DEF WorkerInv, GoneOK
  <1> QED
    BY <1>1, <1>2, <1>3 DEF WorkerInv

LEMMA CreateDoneInMethod ==
    ASSUME WorkerInv, CreateDone(o), UNCHANGED threadVars
    PROVE  WorkerInv'
  <1> USE DEF threadVars, lockVars, optionVars, contextVars, methodVars
  <1>1. HandleInv' /\ CreateDoneEffect(o)
    BY OwnerIsCaller, CreateDoneDoes, CreateDoneKeeps DEF WorkerInv
  <1>2. OwnerOK'
    BY <1>1, OwnerIsCaller
       DEF WorkerInv, HandleInv, TypeOK, OwnerOK, Joins, CreateDoneEffect, Moves, Ends
  <1>3. StopOK'
    BY <1>1, OwnerIsCaller
       DEF WorkerInv, OwnerOK, Joins, StopOK, HandleInv, RecordOK, CreateDoneEffect,
       Moves, Ends, Ended
  <1>4. LinkOK' /\ SuspendOK'
    BY <1>1, OwnerIsCaller
       DEF WorkerInv, OwnerOK, Joins, LinkOK, SuspendOK, CreateDoneEffect, Moves, Ends
  <1> QED
    BY <1>1, <1>2, <1>3, <1>4, InsideFrame DEF CreateDoneEffect

LEMMA SuspendLockInMethod ==
    ASSUME WorkerInv, SuspendLock(o), UNCHANGED threadVars
    PROVE  WorkerInv'
  <1> USE DEF threadVars, lockVars, optionVars, contextVars, methodVars
  <1>1. HandleInv' /\ SuspendLockEffect(o)
    BY OwnerIsCaller, SuspendLockDoes, SuspendLockKeeps DEF WorkerInv
  <1>2. OwnerOK'
    BY <1>1, OwnerIsCaller
       DEF WorkerInv, HandleInv, TypeOK, OwnerOK, Joins, SuspendLockEffect, Moves, Ends
  <1>3. StopOK'
    BY <1>1, OwnerIsCaller
       DEF WorkerInv, OwnerOK, Joins, StopOK, HandleInv, RecordOK, SuspendLockEffect,
       Moves, Ends, Ended
  <1>4. LinkOK' /\ SuspendOK'
    BY <1>1, OwnerIsCaller
       DEF WorkerInv, OwnerOK, Joins, LinkOK, SuspendOK, SuspendLockEffect, Moves, Ends
  <1> QED
    BY <1>1, <1>2, <1>3, <1>4, InsideFrame DEF SuspendLockEffect

LEMMA SuspendKillInMethod ==
    ASSUME WorkerInv, SuspendKill(o), UNCHANGED threadVars
    PROVE  WorkerInv'
  <1> USE DEF threadVars, lockVars, optionVars, contextVars, methodVars
  <1>1. HandleInv' /\ SuspendKillEffect(o)
    BY OwnerIsCaller, SuspendKillDoes, SuspendKillKeeps DEF WorkerInv
  <1>2. OwnerOK'
    BY <1>1, OwnerIsCaller
       DEF WorkerInv, HandleInv, TypeOK, OwnerOK, Joins, SuspendKillEffect, Moves, Ends
  <1>3. StopOK'
    BY <1>1, OwnerIsCaller
       DEF WorkerInv, OwnerOK, Joins, StopOK, HandleInv, RecordOK, SuspendKillEffect,
       Moves, Ends, Ended
  <1>4. LinkOK' /\ SuspendOK'
    BY <1>1, OwnerIsCaller
       DEF WorkerInv, OwnerOK, Joins, LinkOK, SuspendOK, SuspendKillEffect, Moves, Ends
  <1> QED
    BY <1>1, <1>2, <1>3, <1>4, InsideFrame DEF SuspendKillEffect

LEMMA ResumeUnlockInMethod ==
    ASSUME WorkerInv, ResumeUnlock(o), UNCHANGED threadVars
    PROVE  WorkerInv'
  <1> USE DEF threadVars, lockVars, optionVars, contextVars, methodVars
  <1>1. HandleInv' /\ ResumeUnlockEffect(o)
    BY OwnerIsCaller, ResumeUnlockDoes, ResumeUnlockKeeps DEF WorkerInv
  <1>2. OwnerOK'
    BY <1>1, OwnerIsCaller
       DEF WorkerInv, HandleInv, TypeOK, OwnerOK, Joins, ResumeUnlockEffect, Moves, Ends
  <1>3. StopOK'
    BY <1>1, OwnerIsCaller
       DEF WorkerInv, OwnerOK, Joins, StopOK, HandleInv, RecordOK, ResumeUnlockEffect,
       Moves, Ends, Ended
  <1>4. LinkOK' /\ SuspendOK'
    BY <1>1, OwnerIsCaller
       DEF WorkerInv, OwnerOK, Joins, LinkOK, SuspendOK, ResumeUnlockEffect, Moves, Ends
  <1> QED
    BY <1>1, <1>2, <1>3, <1>4, InsideFrame DEF ResumeUnlockEffect

LEMMA TimedBeginInMethod ==
    ASSUME WorkerInv, TimedBegin(o), UNCHANGED threadVars
    PROVE  WorkerInv'
  <1> USE DEF threadVars, lockVars, optionVars, contextVars, methodVars
  <1>1. HandleInv' /\ TimedBeginEffect(o)
    BY OwnerIsCaller, TimedBeginDoes, TimedBeginKeeps DEF WorkerInv
  <1>2. OwnerOK'
    BY <1>1, OwnerIsCaller
       DEF WorkerInv, HandleInv, TypeOK, OwnerOK, Joins, TimedBeginEffect, Moves, Ends
  <1>3. StopOK'
    BY <1>1, OwnerIsCaller
       DEF WorkerInv, OwnerOK, Joins, StopOK, HandleInv, RecordOK, TimedBeginEffect,
       Moves, Ends, Ended
  <1>4. LinkOK' /\ SuspendOK'
    BY <1>1, OwnerIsCaller
       DEF WorkerInv, OwnerOK, Joins, LinkOK, SuspendOK, TimedBeginEffect, Moves, Ends
  <1> QED
    BY <1>1, <1>2, <1>3, <1>4, InsideFrame DEF TimedBeginEffect

LEMMA DetachInMethod ==
    ASSUME WorkerInv, Detach(o), UNCHANGED threadVars
    PROVE  WorkerInv'
  <1> USE DEF threadVars, lockVars, optionVars, contextVars, methodVars
  <1>1. HandleInv' /\ DetachEffect(o)
    BY OwnerIsCaller, DetachDoes, DetachKeeps DEF WorkerInv
  <1>2. OwnerOK'
    BY <1>1, OwnerIsCaller
       DEF WorkerInv, HandleInv, TypeOK, OwnerOK, Joins, DetachEffect, Moves, Ends
  <1>3. StopOK'
    BY <1>1, OwnerIsCaller
       DEF WorkerInv, OwnerOK, Joins, StopOK, HandleInv, RecordOK, DetachEffect, Moves,
       Ends, Ended
  <1>4. LinkOK' /\ SuspendOK'
    BY <1>1, OwnerIsCaller
       DEF WorkerInv, OwnerOK, Joins, LinkOK, SuspendOK, DetachEffect, Moves, Ends
  <1> QED
    BY <1>1, <1>2, <1>3, <1>4, InsideFrame DEF DetachEffect

LEMMA JoinTestInMethod ==
    ASSUME WorkerInv, JoinTest(o), UNCHANGED threadVars
    PROVE  WorkerInv'
  <1> USE DEF threadVars, lockVars, optionVars, contextVars, methodVars
  <1>1. HandleInv' /\ JoinTestEffect(o)
    BY OwnerIsCaller, JoinTestDoes, JoinTestKeeps DEF WorkerInv
  <1>2. OwnerOK'
    BY <1>1, OwnerIsCaller
       DEF WorkerInv, HandleInv, TypeOK, OwnerOK, Joins, JoinTestEffect, Moves, Ends
  <1>3. StopOK'
    BY <1>1, OwnerIsCaller
       DEF WorkerInv, OwnerOK, Joins, StopOK, HandleInv, RecordOK, JoinTestEffect,
       Moves, Ends, Ended
  <1>4. LinkOK' /\ SuspendOK'
    BY <1>1, OwnerIsCaller
       DEF WorkerInv, OwnerOK, Joins, LinkOK, SuspendOK, JoinTestEffect, Moves, Ends
  <1> QED
    BY <1>1, <1>2, <1>3, <1>4, InsideFrame DEF JoinTestEffect

LEMMA JoinTimeOutInMethod ==
    ASSUME WorkerInv, JoinTimeOut(o), UNCHANGED threadVars
    PROVE  WorkerInv'
  <1> USE DEF threadVars, lockVars, optionVars, contextVars, methodVars
  <1>1. HandleInv' /\ JoinTimeOutEffect(o)
    BY OwnerIsCaller, JoinTimeOutDoes, JoinTimeOutKeeps DEF WorkerInv
  <1>2. OwnerOK'
    BY <1>1, OwnerIsCaller
       DEF WorkerInv, HandleInv, TypeOK, OwnerOK, Joins, JoinTimeOutEffect, Moves, Ends
  <1>3. StopOK'
    BY <1>1, OwnerIsCaller
       DEF WorkerInv, OwnerOK, Joins, StopOK, HandleInv, RecordOK, JoinTimeOutEffect,
       Moves, Ends, Ended
  <1>4. LinkOK' /\ SuspendOK'
    BY <1>1, OwnerIsCaller
       DEF WorkerInv, OwnerOK, Joins, LinkOK, SuspendOK, JoinTimeOutEffect, Moves, Ends
  <1> QED
    BY <1>1, <1>2, <1>3, <1>4, InsideFrame DEF JoinTimeOutEffect

LEMMA JoinDoneInMethod ==
    ASSUME WorkerInv, JoinDone(o), UNCHANGED threadVars
    PROVE  WorkerInv'
  <1> USE DEF threadVars, lockVars, optionVars, contextVars, methodVars
  <1>1. HandleInv' /\ JoinDoneEffect(o)
    BY OwnerIsCaller, JoinDoneDoes, JoinDoneKeeps DEF WorkerInv
  <1>2. OwnerOK'
    BY <1>1, OwnerIsCaller
       DEF WorkerInv, HandleInv, TypeOK, OwnerOK, Joins, JoinDoneEffect, Moves, Ends
  <1>3. StopOK'
    BY <1>1, OwnerIsCaller
       DEF WorkerInv, OwnerOK, Joins, StopOK, HandleInv, RecordOK, JoinDoneEffect,
       Moves, Ends, Ended
  <1>4. LinkOK' /\ SuspendOK'
    BY <1>1, OwnerIsCaller
       DEF WorkerInv, OwnerOK, Joins, LinkOK, SuspendOK, JoinDoneEffect, Moves, Ends
  <1> QED
    BY <1>1, <1>2, <1>3, <1>4, InsideFrame DEF JoinDoneEffect

LEMMA SigtermInMethod ==
    ASSUME WorkerInv, Sigterm(o), UNCHANGED threadVars
    PROVE  WorkerInv'
  <1> USE DEF threadVars, lockVars, optionVars, contextVars, methodVars
  <1>1. HandleInv' /\ SigtermEffect(o)
    BY OwnerIsCaller, SigtermDoes, SigtermKeeps DEF WorkerInv
  <1>2. OwnerOK'
    BY <1>1, OwnerIsCaller
       DEF WorkerInv, HandleInv, TypeOK, OwnerOK, Joins, SigtermEffect, Moves, Ends
  <1>3. StopOK'
    BY <1>1, OwnerIsCaller
       DEF WorkerInv, OwnerOK, Joins, StopOK, HandleInv, RecordOK, SigtermEffect, Moves,
       Ends, Ended
  <1>4. LinkOK' /\ SuspendOK'
    BY <1>1, OwnerIsCaller
       DEF WorkerInv, OwnerOK, Joins, LinkOK, SuspendOK, SigtermEffect, Moves, Ends
  <1> QED
    BY <1>1, <1>2, <1>3, <1>4, InsideFrame DEF SigtermEffect

LEMMA SetForcedInMethod ==
    ASSUME WorkerInv, SetForced(o), UNCHANGED threadVars
    PROVE  WorkerInv'
  <1> USE DEF threadVars, lockVars, optionVars, contextVars, methodVars
  <1>1. HandleInv' /\ SetForcedEffect(o)
    BY OwnerIsCaller, SetForcedDoes, SetForcedKeeps DEF WorkerInv
  <1>2. OwnerOK'
    BY <1>1, OwnerIsCaller
       DEF WorkerInv, HandleInv, TypeOK, OwnerOK, Joins, SetForcedEffect, Moves, Ends
  <1>3. StopOK'
    BY <1>1, OwnerIsCaller
       DEF WorkerInv, OwnerOK, Joins, StopOK, HandleInv, RecordOK, SetForcedEffect,
       Moves, Ends, Ended
  <1>4. LinkOK' /\ SuspendOK'
    BY <1>1, OwnerIsCaller
       DEF WorkerInv, OwnerOK, Joins, LinkOK, SuspendOK, SetForcedEffect, Moves, Ends
  <1> QED
    BY <1>1, <1>2, <1>3, <1>4, InsideFrame DEF SetForcedEffect

LEMMA CloseJoinInMethod ==
    ASSUME WorkerInv, CloseJoin(o), UNCHANGED threadVars
    PROVE  WorkerInv'
  <1> USE DEF threadVars, lockVars, optionVars, contextVars, methodVars
  <1>1. HandleInv' /\ CloseJoinEffect(o)
    BY OwnerIsCaller, CloseJoinDoes, CloseJoinKeeps DEF WorkerInv
  <1>2. OwnerOK'
    BY <1>1, OwnerIsCaller
       DEF WorkerInv, HandleInv, TypeOK, OwnerOK, Joins, CloseJoinEffect, Moves, Ends
  <1>3. StopOK'
    BY <1>1, OwnerIsCaller
       DEF WorkerInv, OwnerOK, Joins, StopOK, HandleInv, RecordOK, CloseJoinEffect,
       Moves, Ends, Ended
  <1>4. LinkOK' /\ SuspendOK'
    BY <1>1, OwnerIsCaller
       DEF WorkerInv, OwnerOK, Joins, LinkOK, SuspendOK, CloseJoinEffect, Moves, Ends
  <1> QED
    BY <1>1, <1>2, <1>3, <1>4, InsideFrame DEF CloseJoinEffect

LEMMA CloseFreeInMethod ==
    ASSUME WorkerInv, CloseFree(o), UNCHANGED threadVars
    PROVE  WorkerInv'
  <1> USE DEF threadVars, lockVars, optionVars, contextVars, methodVars
  <1>1. HandleInv' /\ CloseFreeEffect(o)
    BY OwnerIsCaller, CloseFreeDoes, CloseFreeKeeps DEF WorkerInv
  <1>2. OwnerOK'
    BY <1>1, OwnerIsCaller
       DEF WorkerInv, HandleInv, TypeOK, OwnerOK, Joins, CloseFreeEffect, Moves, Ends
  <1>3. StopOK'
    BY <1>1, OwnerIsCaller
       DEF WorkerInv, OwnerOK, Joins, StopOK, HandleInv, RecordOK, CloseFreeEffect,
       Moves, Ends, Ended
  <1>4. LinkOK' /\ SuspendOK'
    BY <1>1, OwnerIsCaller
       DEF WorkerInv, OwnerOK, Joins, LinkOK, SuspendOK, CloseFreeEffect, Moves, Ends
  <1> QED
    BY <1>1, <1>2, <1>3, <1>4, InsideFrame DEF CloseFreeEffect

LEMMA InsideStep ==
    ASSUME WorkerInv, NEW c \in Callers, Inside(c), UNCHANGED threadVars
    PROVE  WorkerInv'
  <1>1. call[c] # "idle"
    BY DEF Inside, CreateDone, SuspendLock, SuspendKill, ResumeUnlock, TimedBegin,
       Detach,
       JoinTest, JoinTimeOut, JoinDone, Sigterm, SetForced, CloseJoin, CloseFree
  <1>2. c = o
    BY <1>1 DEF WorkerInv, OwnerOK
  <1>3. CASE CreateDone(o) \/ SuspendLock(o) \/ SuspendKill(o) \/ ResumeUnlock(o)
    BY <1>3, CreateDoneInMethod, SuspendLockInMethod, SuspendKillInMethod,
       ResumeUnlockInMethod
  <1>4. CASE TimedBegin(o) \/ Detach(o) \/ JoinTest(o) \/ JoinTimeOut(o) \/ JoinDone(o)
    BY <1>4, TimedBeginInMethod, DetachInMethod, JoinTestInMethod, JoinTimeOutInMethod,
       JoinDoneInMethod
  <1>5. CASE Sigterm(o) \/ SetForced(o) \/ CloseJoin(o) \/ CloseFree(o)
    BY <1>5, SigtermInMethod, SetForcedInMethod, CloseJoinInMethod, CloseFreeInMethod
  <1> QED
    BY <1>2, <1>3, <1>4, <1>5 DEF Inside

-----------------------------------------------------------------------------
(* The steps of the worker                                                 *)

(* What the worker's steps leave alone; its end stays its end.             *)
WorkerFrame ==
    /\ UNCHANGED <<life, suspendCount, res, loops, killed>>
    /\ \/ call' = call
       \/ \E d \in Callers : call[d] = "sleep" /\ Moves(d, "woken")
    /\ wpc # "none"
    /\ Ended => wpc' \in {"announced", "gone"}

LEMMA WorkerRunFrame ==
    ASSUME HandleInv, WorkerRun \/ BeCancelled
    PROVE  WorkerFrame
  <1> USE DEF WorkerFrame, Ended, WorkerStep, gateVars, callVars, lifeVars
  <1>1. CASE TakeGate \/ DropGate
    BY <1>1 DEF TakeGate, DropGate
  <1>2. CASE Deliver
    BY <1>2 DEF Deliver
  <1>3. CASE LeaveHandler
    BY <1>3 DEF LeaveHandler, HandleInv, LifeOK
  <1>4. CASE Exit
    BY <1>4 DEF Exit
  <1>5. CASE Announce
    BY <1>5, AnnounceDoes DEF AnnouncementEffect
  <1>6. CASE BeCancelled
    BY <1>6, BeCancelledDoes DEF AnnouncementEffect
  <1> QED
    BY <1>1, <1>2, <1>3, <1>4, <1>5, <1>6 DEF WorkerRun

LEMMA WorkerRunStep ==
    ASSUME WorkerInv, WorkerRun \/ BeCancelled, UNCHANGED threadVars
    PROVE  WorkerInv'
  <1> USE DEF threadVars, lockVars, optionVars, contextVars, methodVars
  <1>1. HandleInv' /\ WorkerFrame
    BY WorkerKeeps, WorkerRunFrame DEF WorkerInv
  <1>2. ThreadTypeOK' /\ NotifiedOK'
    BY <1>1 DEF WorkerInv, HandleInv, ThreadTypeOK, NotifiedOK
  <1>3. OwnerOK'
    BY <1>1, OwnerIsCaller DEF WorkerInv, OwnerOK, Joins, WorkerFrame, Moves
  <1>4. StopOK'
    BY <1>1, OwnerIsCaller DEF WorkerInv, StopOK, WorkerFrame, Moves, Ended
  <1>5. LinkOK' /\ SuspendOK'
    BY <1>1, OwnerIsCaller DEF WorkerInv, LinkOK, SuspendOK, WorkerFrame, Moves
  <1>6. GoneOK'
    BY <1>1 DEF WorkerInv, GoneOK, ObjectOutlivesWorker, WorkerFrame, Ended
  <1> QED
    BY <1>1, <1>2, <1>3, <1>4, <1>5, <1>6 DEF WorkerInv

(* What the steps of EntryPoint leave alone.                               *)
EntryFrame ==
    /\ wpc = "routine" /\ wpc' \in {"routine", "leaving"}
    /\ UNCHANGED <<life, suspendCount, call, res, loops, killed, optionVars, methodVars,
                   hThread, everNotified>>
    /\ lockEvent' \/ isNotified' => lockEvent \/ isNotified
    /\ epc' \in Passed => epc \in Passed \/ lockEvent \/ isNotified
    /\ epc' \in EntryPlaces
    /\ {isLocked', isNotified', lockEvent', bExitCodeSet'} \subseteq BOOLEAN
    /\ dwExitCode' \in ExitCodes

LEMMA EntryFrameKeeps ==
    ASSUME WorkerInv, HandleInv', EntryFrame
    PROVE  WorkerInv'
  <1> USE DEF EntryFrame, optionVars, methodVars
  <1>1. ThreadTypeOK'
    BY DEF WorkerInv, HandleInv, ThreadTypeOK
  <1>2. NotifiedOK'
    BY DEF WorkerInv, NotifiedOK
  <1>3. OwnerOK'
    BY DEF WorkerInv, OwnerOK
  <1>4. StopOK'
    BY DEF WorkerInv, StopOK, Ended
  <1>5. LinkOK' /\ SuspendOK'
    BY DEF WorkerInv, LinkOK, SuspendOK
  <1>6. GoneOK'
    BY DEF WorkerInv, GoneOK, ObjectOutlivesWorker
  <1> QED
    BY <1>1, <1>2, <1>3, <1>4, <1>5, <1>6 DEF WorkerInv

LEMMA EntryStep ==
    ASSUME WorkerInv, EntryPoint \/ \E r \in Codes : Run(r)
    PROVE  WorkerInv'
  <1> USE DEF Entry, EntryFrame, EntryPlaces, Passed, WorkerInv, ThreadTypeOK
  <1>1. CASE UNCHANGED handleVars /\ EntryFrame
    BY <1>1, StutterKeeps, EntryFrameKeeps
  <1>2. ASSUME UNCHANGED <<handleVars, optionVars, methodVars, everNotified, hThread>>
        PROVE  UNCHANGED <<life, suspendCount, call, res, loops, killed, wpc, optionVars,
                           methodVars, hThread, everNotified>>
    BY <1>2 DEF handleVars, workerVars, gateVars, callVars, lifeVars
  <1>3. CASE InitThread \/ SyncPoint(AfterInit, "sync1", "test1", "run")
             \/ SyncPoint(BeforeCleanup, "sync2", "test2", "cleanup")
    BY <1>1, <1>2, <1>3 DEF InitThread, SyncPoint, lockVars, contextVars
  <1>4. CASE Wait("test1", "lock1", "loop1", "unlock1", "clear1", "run")
    BY <1>1, <1>2, <1>4 DEF Wait, WaitTest, WaitLock, WaitEnds, WaitUnlock, WaitClear,
       lockVars, contextVars
  <1>5. CASE Wait("test2", "lock2", "loop2", "unlock2", "clear2", "cleanup")
    BY <1>1, <1>2, <1>5 DEF Wait, WaitTest, WaitLock, WaitEnds, WaitUnlock, WaitClear,
       lockVars, contextVars
  <1>6. CASE SetCode
    BY <1>1, <1>2, <1>6 DEF SetCode, lockVars
  <1>7. CASE \E r \in Codes : Run(r)
    BY <1>1, <1>2, <1>7 DEF Run, lockVars, ExitCodes
  <1>8. CASE CleanupThread
    <2>1. dwExitCode \in ExitCodes /\ Finish(dwExitCode) /\ UNCHANGED threadVars
      BY <1>8 DEF CleanupThread
    <2>2. HandleInv'
      BY <2>1, WorkerKeeps
    <2>3. EntryFrame
      BY <2>1
         DEF Finish, WorkerStep, gateVars, callVars, lifeVars, threadVars, lockVars,
         contextVars
    <2> QED
      BY <2>2, <2>3, EntryFrameKeeps
  <1> QED
    BY <1>3, <1>4, <1>5, <1>6, <1>7, <1>8 DEF EntryPoint

-----------------------------------------------------------------------------
(* The steps of the owner's methods that leave the HANDLE alone            *)

LEMMA QuietStartSteps ==
    ASSUME WorkerInv, ~killed, UNCHANGED handleVars,
           StartCreated \/ StartDone \/ StartNotify
    PROVE  WorkerInv'
  <1> USE DEF StartCreated, StartDone, StartNotify, Method, At, Back, OnlyMethod, Handle,
              threadVars, lockVars, optionVars, contextVars, methodVars, handleVars,
              workerVars, gateVars, joinVars, callVars, lifeVars
  <1>1. HandleInv'
    BY StutterKeeps DEF WorkerInv
  <1>2. ThreadTypeOK'
    BY <1>1 DEF WorkerInv, HandleInv, ThreadTypeOK, MethodPlaces, StopOK, ExitCodes
  <1>3. OwnerOK' /\ LinkOK'
    BY DEF WorkerInv, ThreadTypeOK, OwnerOK, Joins, StopOK, LinkOK
  <1>4. StopOK'
    BY DEF WorkerInv, StopOK, Ended
  <1>5. SuspendOK'
    BY DEF WorkerInv, ThreadTypeOK, SuspendOK
  <1>7. NotifiedOK'
    BY DEF WorkerInv, NotifiedOK
  <1>6. GoneOK'
    BY DEF WorkerInv, GoneOK, ObjectOutlivesWorker, HandleInv, LifeOK, StopOK, LinkOK,
       Ended
  <1> QED
    BY <1>1, <1>2, <1>3, <1>4, <1>5, <1>6, <1>7 DEF WorkerInv

LEMMA QuietContinueSteps ==
    ASSUME WorkerInv, ~killed, UNCHANGED handleVars,
           CallContinue \/ ContinueRefused \/ ContinueResumed \/ ContinueTest
           \/ Notify \/ NotifyEvent
    PROVE  WorkerInv'
  <1> USE DEF CallContinue, ContinueRefused, ContinueResumed, ContinueTest, Notify,
              NotifyEvent, Method, At, Back, OnlyMethod, Handle, threadVars, lockVars,
              optionVars, contextVars, methodVars, handleVars, workerVars, gateVars,
              joinVars, callVars, lifeVars
  <1>1. HandleInv'
    BY StutterKeeps DEF WorkerInv
  <1>2. ThreadTypeOK'
    BY <1>1 DEF WorkerInv, HandleInv, ThreadTypeOK, MethodPlaces, StopOK, ExitCodes
  <1>3. OwnerOK' /\ LinkOK'
    BY DEF WorkerInv, ThreadTypeOK, OwnerOK, Joins, StopOK, LinkOK
  <1>4. StopOK'
    BY DEF WorkerInv, StopOK, Ended
  <1>5. SuspendOK'
    BY DEF WorkerInv, ThreadTypeOK, SuspendOK
  <1>7. NotifiedOK'
    BY DEF WorkerInv, NotifiedOK
  <1>6. GoneOK'
    BY DEF WorkerInv, GoneOK, ObjectOutlivesWorker, HandleInv, LifeOK, StopOK, LinkOK,
       Ended
  <1> QED
    BY <1>1, <1>2, <1>3, <1>4, <1>5, <1>6, <1>7 DEF WorkerInv

LEMMA QuietCallSteps ==
    ASSUME WorkerInv, ~killed, UNCHANGED handleVars,
           SuspendDone \/ JoinEnds \/ ExitCodeRead \/ StopContinue \/ StopCodeRead
    PROVE  WorkerInv'
  <1> USE DEF SuspendDone, JoinEnds, ExitCodeRead, StopContinue, StopCodeRead, Method, At,
              Back, OnlyMethod, Handle, threadVars, lockVars, optionVars, contextVars,
              methodVars, handleVars, workerVars, gateVars, joinVars, callVars, lifeVars
  <1>1. HandleInv'
    BY StutterKeeps DEF WorkerInv
  <1>2. ThreadTypeOK'
    BY <1>1 DEF WorkerInv, HandleInv, ThreadTypeOK, MethodPlaces, StopOK, ExitCodes
  <1>3. OwnerOK' /\ LinkOK'
    BY DEF WorkerInv, ThreadTypeOK, OwnerOK, Joins, StopOK, LinkOK
  <1>4. StopOK'
    BY DEF WorkerInv, StopOK, Ended
  <1>5. SuspendOK'
    BY DEF WorkerInv, ThreadTypeOK, SuspendOK
  <1>7. NotifiedOK'
    BY DEF WorkerInv, NotifiedOK
  <1>6. GoneOK'
    BY DEF WorkerInv, GoneOK, ObjectOutlivesWorker, HandleInv, LifeOK, StopOK, LinkOK,
       Ended
  <1> QED
    BY <1>1, <1>2, <1>3, <1>4, <1>5, <1>6, <1>7 DEF WorkerInv

LEMMA CallStopSteps ==
    ASSUME WorkerInv, ~killed, UNCHANGED handleVars, NEW f \in BOOLEAN,
           CallStop(f)
    PROVE  WorkerInv'
  <1> USE DEF CallStop, Method, At, Back, OnlyMethod, Handle, threadVars, lockVars,
              optionVars, contextVars, methodVars, handleVars, workerVars, gateVars,
              joinVars, callVars, lifeVars
  <1>1. HandleInv'
    BY StutterKeeps DEF WorkerInv
  <1>2. ThreadTypeOK'
    BY <1>1 DEF WorkerInv, HandleInv, ThreadTypeOK, MethodPlaces, StopOK, ExitCodes
  <1>3. OwnerOK' /\ LinkOK'
    BY DEF WorkerInv, ThreadTypeOK, OwnerOK, Joins, StopOK, LinkOK
  <1>4. StopOK'
    BY DEF WorkerInv, StopOK, Ended
  <1>5. SuspendOK'
    BY DEF WorkerInv, ThreadTypeOK, SuspendOK
  <1>7. NotifiedOK'
    BY DEF WorkerInv, NotifiedOK
  <1>6. GoneOK'
    BY DEF WorkerInv, GoneOK, ObjectOutlivesWorker, HandleInv, LifeOK, StopOK, LinkOK,
       Ended
  <1> QED
    BY <1>1, <1>2, <1>3, <1>4, <1>5, <1>6, <1>7 DEF WorkerInv

LEMMA StopEndSteps ==
    ASSUME WorkerInv, ~killed, UNCHANGED handleVars,
           StopCodeSet \/ StopWaiting \/ Stopped
    PROVE  WorkerInv'
  <1> USE DEF StopCodeSet, StopWaiting, Stopped, Method, At, Back, OnlyMethod, Handle,
              threadVars, lockVars, optionVars, contextVars, methodVars, handleVars,
              workerVars, gateVars, joinVars, callVars, lifeVars
  <1>1. HandleInv'
    BY StutterKeeps DEF WorkerInv
  <1>2. ThreadTypeOK'
    BY <1>1 DEF WorkerInv, HandleInv, ThreadTypeOK, MethodPlaces, StopOK, ExitCodes
  <1>3. OwnerOK' /\ LinkOK'
    BY DEF WorkerInv, ThreadTypeOK, OwnerOK, Joins, StopOK, LinkOK
  <1>4. StopOK'
    BY DEF WorkerInv, StopOK, Ended
  <1>5. SuspendOK'
    BY DEF WorkerInv, ThreadTypeOK, SuspendOK
  <1>7. NotifiedOK'
    BY DEF WorkerInv, NotifiedOK
  <1>6. GoneOK'
    BY DEF WorkerInv, GoneOK, ObjectOutlivesWorker, HandleInv, LifeOK, StopOK, LinkOK,
       Ended
  <1> QED
    BY <1>1, <1>2, <1>3, <1>4, <1>5, <1>6, <1>7 DEF WorkerInv

LEMMA DestroySteps ==
    ASSUME WorkerInv, ~killed, UNCHANGED handleVars,
           Destroy
    PROVE  WorkerInv'
  <1> USE DEF Destroy, Method, At, Back, OnlyMethod, Handle, threadVars, lockVars,
              optionVars, contextVars, methodVars, handleVars, workerVars, gateVars,
              joinVars, callVars, lifeVars
  <1>1. HandleInv'
    BY StutterKeeps DEF WorkerInv
  <1>2. ThreadTypeOK'
    BY <1>1 DEF WorkerInv, HandleInv, ThreadTypeOK, MethodPlaces, StopOK, ExitCodes
  <1>3. OwnerOK' /\ LinkOK'
    BY DEF WorkerInv, ThreadTypeOK, OwnerOK, Joins, StopOK, LinkOK
  <1>4. StopOK'
    BY DEF WorkerInv, StopOK, Ended
  <1>5. SuspendOK'
    BY DEF WorkerInv, ThreadTypeOK, SuspendOK
  <1>7. NotifiedOK'
    BY DEF WorkerInv, NotifiedOK
  <1>6. GoneOK'
    BY DEF WorkerInv, GoneOK, ObjectOutlivesWorker, HandleInv, LifeOK, StopOK, LinkOK,
       Ended
  <1> QED
    BY <1>1, <1>2, <1>3, <1>4, <1>5, <1>6, <1>7 DEF WorkerInv

LEMMA NoHandleSteps ==
    ASSUME WorkerInv, ~killed, UNCHANGED handleVars,
           \/ ContinueResume /\ ~(isSuspended /\ hThread)
           \/ Suspend /\ ~hThread
           \/ StopTerminate /\ ~force
    PROVE  WorkerInv'
  <1> USE DEF ContinueResume, Suspend, StopTerminate, Method, At, Back, OnlyMethod, Handle,
              threadVars, lockVars, optionVars, contextVars, methodVars, handleVars,
              workerVars, gateVars, joinVars, callVars, lifeVars
  <1>1. HandleInv'
    BY StutterKeeps DEF WorkerInv
  <1>2. ThreadTypeOK'
    BY <1>1 DEF WorkerInv, HandleInv, ThreadTypeOK, MethodPlaces, StopOK, ExitCodes
  <1>3. OwnerOK' /\ LinkOK'
    BY DEF WorkerInv, ThreadTypeOK, OwnerOK, Joins, StopOK, LinkOK
  <1>4. StopOK'
    BY DEF WorkerInv, StopOK, Ended
  <1>5. SuspendOK'
    BY DEF WorkerInv, ThreadTypeOK, SuspendOK
  <1>7. NotifiedOK'
    BY DEF WorkerInv, NotifiedOK
  <1>6. GoneOK'
    BY DEF WorkerInv, GoneOK, ObjectOutlivesWorker, HandleInv, LifeOK, StopOK, LinkOK,
       Ended
  <1> QED
    BY <1>1, <1>2, <1>3, <1>4, <1>5, <1>6, <1>7 DEF WorkerInv

-----------------------------------------------------------------------------
(* The steps of the owner's methods that call the HANDLE                   *)

(* A method that calls the HANDLE changes its own place only.              *)
CallFrame(from, to) ==
    /\ mpc = from /\ mpc' = to /\ call[o] = "idle" /\ ~gone
    /\ UNCHANGED <<epc, lockVars, optionVars, contextVars, site, force, destroying,
                   gone, everNotified>>

LEMMA CallFrameKeeps ==
    ASSUME WorkerInv, HandleInv', NEW from, NEW to \in MethodPlaces \ {"setEvent"},
           CallFrame(from, to), OwnerOK', StopOK', LinkOK', SuspendOK'
    PROVE  WorkerInv'
  <1> USE DEF CallFrame, lockVars, optionVars, contextVars
  <1>1. ThreadTypeOK'
    BY DEF WorkerInv, HandleInv, ThreadTypeOK
  <1>2. NotifiedOK' /\ GoneOK'
    BY DEF WorkerInv, NotifiedOK, GoneOK
  <1> QED
    BY <1>1, <1>2 DEF WorkerInv

LEMMA StartCreateCall ==
    ASSUME WorkerInv, StartCreate
    PROVE  WorkerInv'
  <1> USE OwnerIsCaller
  <1>1. CallFrame("idle", "created") /\ CallCreate(o, TRUE)
    BY DEF WorkerInv, StartCreate, Handle, Method, At, CallFrame
  <1>2. HandleInv' /\ CallCreateEffect(o, TRUE)
    BY <1>1, CallCreateDoes, CallCreateKeeps DEF WorkerInv
  <1> USE DEF CallCreateEffect, CallFrame, lockVars, optionVars, contextVars
  <1>3. OwnerOK' /\ LinkOK'
    BY <1>1, <1>2
       DEF WorkerInv, ThreadTypeOK, StartCreate, OwnerOK, Joins, LinkOK, Moves
  <1>4. StopOK'
    BY <1>1, <1>2 DEF WorkerInv, StopOK, HandleInv, RecordOK, Moves, Ended
  <1>5. SuspendOK'
    BY <1>1, <1>2, CodesAssumption
       DEF WorkerInv, HandleInv, TypeOK, ThreadTypeOK, StartCreate, SuspendOK, Moves
  <1>6. "created" \in MethodPlaces \ {"setEvent"}
    BY DEF MethodPlaces
  <1> QED
    BY <1>1, <1>2, <1>3, <1>4, <1>5, <1>6, CallFrameKeeps

LEMMA StartResumeCall ==
    ASSUME WorkerInv, StartResume
    PROVE  WorkerInv'
  <1> USE OwnerIsCaller
  <1>1. CallFrame("started", "startResumed") /\ CallResume(o)
    BY DEF WorkerInv, StartResume, Handle, Method, At, CallFrame
  <1>2. HandleInv' /\ CallResumeEffect(o)
    BY <1>1, CallResumeDoes, CallResumeKeeps DEF WorkerInv
  <1> USE DEF CallResumeEffect, CallFrame, lockVars, optionVars, contextVars
  <1>3. OwnerOK' /\ LinkOK'
    BY <1>1, <1>2
       DEF WorkerInv, ThreadTypeOK, StartResume, OwnerOK, Joins, LinkOK, Moves
  <1>4. StopOK'
    BY <1>1, <1>2 DEF WorkerInv, StopOK, HandleInv, RecordOK, Moves, Ended
  <1>5. SuspendOK'
    BY <1>1, <1>2, CodesAssumption
       DEF WorkerInv, HandleInv, TypeOK, ThreadTypeOK, StartResume, SuspendOK, Moves
  <1>6. "startResumed" \in MethodPlaces \ {"setEvent"}
    BY DEF MethodPlaces
  <1> QED
    BY <1>1, <1>2, <1>3, <1>4, <1>5, <1>6, CallFrameKeeps

LEMMA ContinueResumeCall ==
    ASSUME WorkerInv, ContinueResume, isSuspended /\ hThread
    PROVE  WorkerInv'
  <1> USE OwnerIsCaller
  <1>1. CallFrame("contBegin", "contResumed") /\ CallResume(o)
    BY DEF WorkerInv, ContinueResume, Handle, Method, At, CallFrame
  <1>2. HandleInv' /\ CallResumeEffect(o)
    BY <1>1, CallResumeDoes, CallResumeKeeps DEF WorkerInv
  <1> USE DEF CallResumeEffect, CallFrame, lockVars, optionVars, contextVars
  <1>3. OwnerOK' /\ LinkOK'
    BY <1>1, <1>2
       DEF WorkerInv, ThreadTypeOK, ContinueResume, OwnerOK, Joins, LinkOK, Moves
  <1>4. StopOK'
    BY <1>1, <1>2 DEF WorkerInv, StopOK, HandleInv, RecordOK, Moves, Ended
  <1>5. SuspendOK'
    BY <1>1, <1>2, CodesAssumption
       DEF WorkerInv, HandleInv, TypeOK, ThreadTypeOK, ContinueResume, SuspendOK, Moves
  <1>6. "contResumed" \in MethodPlaces \ {"setEvent"}
    BY DEF MethodPlaces
  <1> QED
    BY <1>1, <1>2, <1>3, <1>4, <1>5, <1>6, CallFrameKeeps

LEMMA SuspendCall ==
    ASSUME WorkerInv, Suspend, hThread
    PROVE  WorkerInv'
  <1> USE OwnerIsCaller
  <1>1. CallFrame("idle", "suspended") /\ CallSuspend(o)
    BY DEF WorkerInv, Suspend, Handle, Method, At, CallFrame
  <1>2. HandleInv' /\ CallSuspendEffect(o)
    BY <1>1, CallSuspendDoes, CallSuspendKeeps DEF WorkerInv
  <1> USE DEF CallSuspendEffect, CallFrame, lockVars, optionVars, contextVars
  <1>3. OwnerOK' /\ LinkOK'
    BY <1>1, <1>2 DEF WorkerInv, ThreadTypeOK, Suspend, OwnerOK, Joins, LinkOK, Moves
  <1>4. StopOK'
    BY <1>1, <1>2 DEF WorkerInv, StopOK, HandleInv, RecordOK, Moves, Ended
  <1>5. SuspendOK'
    BY <1>1, <1>2, CodesAssumption
       DEF WorkerInv, HandleInv, TypeOK, ThreadTypeOK, Suspend, SuspendOK, Moves
  <1>6. "suspended" \in MethodPlaces \ {"setEvent"}
    BY DEF MethodPlaces
  <1> QED
    BY <1>1, <1>2, <1>3, <1>4, <1>5, <1>6, CallFrameKeeps

LEMMA GetExitCodeCall ==
    ASSUME WorkerInv, GetExitCode
    PROVE  WorkerInv'
  <1> USE OwnerIsCaller
  <1>1. CallFrame("idle", "codeRead") /\ CallGetExitCode(o)
    BY DEF WorkerInv, GetExitCode, Handle, Method, At, CallFrame
  <1>2. HandleInv' /\ CallGetExitCodeEffect(o)
    BY <1>1, CallGetExitCodeDoes, CallGetExitCodeKeeps DEF WorkerInv
  <1> USE DEF CallGetExitCodeEffect, CallFrame, lockVars, optionVars, contextVars
  <1>3. OwnerOK' /\ LinkOK'
    BY <1>1, <1>2
       DEF WorkerInv, ThreadTypeOK, GetExitCode, OwnerOK, Joins, LinkOK, Moves
  <1>4. StopOK'
    BY <1>1, <1>2 DEF WorkerInv, StopOK, HandleInv, RecordOK, Moves, Ended
  <1>5. SuspendOK'
    BY <1>1, <1>2, CodesAssumption
       DEF WorkerInv, HandleInv, TypeOK, ThreadTypeOK, GetExitCode, SuspendOK, Moves
  <1>6. "codeRead" \in MethodPlaces \ {"setEvent"}
    BY DEF MethodPlaces
  <1> QED
    BY <1>1, <1>2, <1>3, <1>4, <1>5, <1>6, CallFrameKeeps

LEMMA StopCodeCall ==
    ASSUME WorkerInv, StopCode
    PROVE  WorkerInv'
  <1> USE OwnerIsCaller
  <1>1. CallFrame("stopCode", "stopCodeRead") /\ CallGetExitCode(o)
    BY DEF WorkerInv, StopCode, Handle, Method, At, CallFrame
  <1>2. HandleInv' /\ CallGetExitCodeEffect(o)
    BY <1>1, CallGetExitCodeDoes, CallGetExitCodeKeeps DEF WorkerInv
  <1> USE DEF CallGetExitCodeEffect, CallFrame, lockVars, optionVars, contextVars
  <1>3. OwnerOK' /\ LinkOK'
    BY <1>1, <1>2 DEF WorkerInv, ThreadTypeOK, StopCode, OwnerOK, Joins, LinkOK, Moves
  <1>4. StopOK'
    BY <1>1, <1>2 DEF WorkerInv, StopOK, HandleInv, RecordOK, Moves, Ended
  <1>5. SuspendOK'
    BY <1>1, <1>2, CodesAssumption
       DEF WorkerInv, HandleInv, TypeOK, ThreadTypeOK, StopCode, SuspendOK, Moves
  <1>6. "stopCodeRead" \in MethodPlaces \ {"setEvent"}
    BY DEF MethodPlaces
  <1> QED
    BY <1>1, <1>2, <1>3, <1>4, <1>5, <1>6, CallFrameKeeps

LEMMA StopTerminateCall ==
    ASSUME WorkerInv, StopTerminate, force
    PROVE  WorkerInv'
  <1> USE OwnerIsCaller
  <1>1. CallFrame("stopTerminate", "forcedClose") /\ CallTerminate(o)
    BY DEF WorkerInv, StopTerminate, Handle, Method, At, CallFrame
  <1>2. HandleInv' /\ CallTerminateEffect(o)
    BY <1>1, CallTerminateDoes, CallTerminateKeeps DEF WorkerInv
  <1> USE DEF CallTerminateEffect, CallFrame, lockVars, optionVars, contextVars
  <1>3. OwnerOK' /\ LinkOK'
    BY <1>1, <1>2
       DEF WorkerInv, ThreadTypeOK, StopTerminate, OwnerOK, Joins, LinkOK, Moves
  <1>4. StopOK'
    BY <1>1, <1>2 DEF WorkerInv, StopOK, HandleInv, RecordOK, Moves, Ended
  <1>5. SuspendOK'
    BY <1>1, <1>2, CodesAssumption
       DEF WorkerInv, HandleInv, TypeOK, ThreadTypeOK, StopTerminate, SuspendOK, Moves
  <1>6. "forcedClose" \in MethodPlaces \ {"setEvent"}
    BY DEF MethodPlaces
  <1> QED
    BY <1>1, <1>2, <1>3, <1>4, <1>5, <1>6, CallFrameKeeps

LEMMA JoinCall ==
    ASSUME WorkerInv, Join
    PROVE  WorkerInv'
  <1> USE OwnerIsCaller
  <1>1. CallFrame("idle", "joining") /\ (CallTimed(o) \/ CallJoin(o))
    BY DEF WorkerInv, Join, Handle, Method, At, CallFrame
  <1>2. HandleInv' /\ (CallTimedEffect(o) \/ CallJoinEffect(o))
    BY <1>1, CallTimedDoes, CallTimedKeeps, CallJoinDoes, CallJoinKeeps DEF WorkerInv
  <1> USE DEF CallTimedEffect, CallJoinEffect, CallFrame, lockVars, optionVars, contextVars
  <1>3. OwnerOK' /\ LinkOK'
    BY <1>1, <1>2 DEF WorkerInv, OwnerOK, Joins, LinkOK, Moves
  <1>4. StopOK' /\ SuspendOK'
    BY <1>1, <1>2 DEF WorkerInv, StopOK, SuspendOK, Ended
  <1>5. "joining" \in MethodPlaces \ {"setEvent"}
    BY DEF MethodPlaces
  <1> QED
    BY <1>1, <1>2, <1>3, <1>4, <1>5, CallFrameKeeps

LEMMA StopCloseCall ==
    ASSUME WorkerInv, StopClose
    PROVE  WorkerInv'
  <1> USE OwnerIsCaller
  <1>1. PICK from \in {"stopClose", "forcedClose"}, to \in {"stopped", "forcedStopped"} :
            CallFrame(from, to) /\ CallClose(o)
    BY DEF WorkerInv, StopClose, Handle, Method, At, CallFrame
  <1>2. HandleInv' /\ CallCloseEffect(o)
    BY <1>1, CallCloseDoes, CallCloseKeeps DEF WorkerInv
  <1> USE DEF CallCloseEffect, CallFrame, lockVars, optionVars, contextVars
  <1>3. OwnerOK' /\ LinkOK'
    BY <1>1, <1>2 DEF WorkerInv, OwnerOK, Joins, LinkOK, Moves
  <1>4. StopOK' /\ SuspendOK'
    BY <1>1, <1>2 DEF WorkerInv, StopOK, SuspendOK, Moves, Ended
  <1>5. to \in MethodPlaces \ {"setEvent"}
    BY DEF MethodPlaces
  <1> QED
    BY <1>1, <1>2, <1>3, <1>4, <1>5, CallFrameKeeps

-----------------------------------------------------------------------------
(* The invariant is inductive                                              *)

LEMMA MethodStepKeeps ==
    ASSUME WorkerInv, ~killed, MethodStep \/ MethodCall
    PROVE  WorkerInv'
  <1>1. CASE StartCreate \/ StartResume
    BY <1>1, StartCreateCall, StartResumeCall
  <1>2. CASE StartCreated \/ StartDone \/ StartNotify
    BY <1>2, QuietStartSteps DEF StartCreated, StartDone, StartNotify, OnlyMethod
  <1>3. CASE \/ CallContinue \/ ContinueRefused \/ ContinueResumed \/ ContinueTest
             \/ Notify \/ NotifyEvent
    BY <1>3, QuietContinueSteps DEF CallContinue, ContinueRefused, ContinueResumed,
       ContinueTest, Notify, NotifyEvent, Handle, OnlyMethod
  <1>4. CASE ContinueResume
    <2>1. UNCHANGED handleVars \/ (isSuspended /\ hThread)
      BY <1>4 DEF ContinueResume, Handle
    <2> QED
      BY <1>4, <2>1, ContinueResumeCall, NoHandleSteps
  <1>5. CASE Suspend
    <2>1. UNCHANGED handleVars \/ hThread
      BY <1>5 DEF Suspend, Handle
    <2> QED
      BY <1>5, <2>1, SuspendCall, NoHandleSteps
  <1>6. CASE StopTerminate
    <2>1. UNCHANGED handleVars \/ force
      BY <1>6 DEF StopTerminate, Handle
    <2> QED
      BY <1>6, <2>1, StopTerminateCall, NoHandleSteps
  <1>7. CASE SuspendDone \/ JoinEnds \/ ExitCodeRead \/ StopContinue \/ StopCodeRead
    BY <1>7, QuietCallSteps DEF SuspendDone, JoinEnds, ExitCodeRead, StopContinue,
       StopCodeRead, Handle, OnlyMethod
  <1>8. CASE Join \/ GetExitCode \/ StopCode \/ StopClose
    BY <1>8, JoinCall, GetExitCodeCall, StopCodeCall, StopCloseCall
  <1>9. CASE \E f \in BOOLEAN : CallStop(f)
    BY <1>9, CallStopSteps DEF CallStop, OnlyMethod
  <1>10. CASE StopCodeSet \/ StopWaiting \/ Stopped
    BY <1>10, StopEndSteps DEF StopCodeSet, StopWaiting, Stopped, OnlyMethod
  <1>11. CASE Destroy
    BY <1>11, DestroySteps DEF Destroy
  <1> QED
    BY <1>1, <1>2, <1>3, <1>4, <1>5, <1>6, <1>7, <1>8, <1>9, <1>10, <1>11
       DEF MethodStep, MethodCall

LEMMA ThreadStepKeeps ==
    ASSUME WorkerInv, [ThreadNext]_vars
    PROVE  WorkerInv'
  <1>1. CASE HandleStep
    BY <1>1, WorkerRunStep, InsideStep DEF HandleStep
  <1>2. CASE EntryPoint \/ \E r \in Codes : Run(r)
    BY <1>2, EntryStep
  <1>3. CASE ~killed /\ (MethodStep \/ MethodCall)
    BY <1>3, MethodStepKeeps
  <1>4. CASE UNCHANGED vars
    <2> USE <1>4 DEF vars, threadVars, lockVars, optionVars, contextVars, methodVars
    <2>1. HandleInv'
      BY StutterKeeps DEF WorkerInv
    <2> USE DEF handleVars, workerVars, gateVars, joinVars, callVars, lifeVars
    <2>2. ThreadTypeOK' /\ OwnerOK' /\ LinkOK'
      BY <2>1 DEF WorkerInv, HandleInv, ThreadTypeOK, OwnerOK, LinkOK
    <2>3. StopOK' /\ SuspendOK'
      BY DEF WorkerInv, StopOK, SuspendOK, Ended
    <2>4. NotifiedOK' /\ GoneOK'
      BY DEF WorkerInv, NotifiedOK, GoneOK, ObjectOutlivesWorker
    <2> QED
      BY <2>1, <2>2, <2>3, <2>4 DEF WorkerInv
  <1> QED
    BY <1>1, <1>2, <1>3, <1>4 DEF ThreadNext

LEMMA ThreadInitKeeps ==
    ASSUME ThreadInit
    PROVE  WorkerInv
  <1> USE OwnerIsCaller DEF ThreadInit
  <1>1. HandleInv
    BY InitKeeps
  <1>2. ThreadTypeOK
    BY <1>1, OptionsAssumption
       DEF HandleInv, ThreadTypeOK, EntryPlaces, MethodPlaces, ExitCodes
  <1>3. OwnerOK /\ StopOK
    BY CodesAssumption DEF Init, OwnerOK, StopOK, Joins
  <1>4. LinkOK /\ SuspendOK /\ NotifiedOK /\ GoneOK
    BY DEF Init, LinkOK, SuspendOK, NotifiedOK, GoneOK, Passed
  <1> QED
    BY <1>1, <1>2, <1>3, <1>4 DEF WorkerInv

LEMMA WorkerInvariant == ThreadSpec => []WorkerInv
  <1>1. ThreadInit => WorkerInv
    BY ThreadInitKeeps
  <1>2. WorkerInv /\ [ThreadNext]_vars => WorkerInv'
    BY ThreadStepKeeps
  <1> QED
    BY <1>1, <1>2, PTL DEF ThreadSpec

-----------------------------------------------------------------------------
(* The theorems about the Thread class                                     *)

(* The variables of the object and of its HANDLE keep their types.         *)
THEOREM ThreadTypes == ThreadSpec => []ThreadTypeOK
  <1>1. WorkerInv => ThreadTypeOK
    BY DEF WorkerInv
  <1> QED
    BY <1>1, WorkerInvariant, PTL

(* No worker leaves a synchronisation point that nobody has notified,      *)
(* however its waits of 0.1 s end.                                         *)
THEOREM WaitersAreNotified == ThreadSpec => []SyncPointsHold
  <1>1. WorkerInv => SyncPointsHold
    BY DEF WorkerInv, NotifiedOK, SyncPointsHold
  <1> QED
    BY <1>1, WorkerInvariant, PTL

(* Stop(true) in the destructor ends the worker on every path, by its exit *)
(* code or by force, before the object goes.                               *)
THEOREM DestructorStops == ThreadSpec => []ObjectOutlivesWorker
  <1>1. WorkerInv => ObjectOutlivesWorker
    BY DEF WorkerInv, GoneOK, ObjectOutlivesWorker
  <1> QED
    BY <1>1, WorkerInvariant, PTL

(* m_bIsSuspended of Start, Suspend, Continue and Stop is true only while  *)
(* the HANDLE's own count is positive.                                     *)
THEOREM SuspendedHasCount == ThreadSpec => []SuspendedIsTrue
  <1>1. WorkerInv => SuspendedIsTrue
    BY DEF WorkerInv, SuspendOK, SuspendedIsTrue
  <1> QED
    BY <1>1, WorkerInvariant, PTL

-----------------------------------------------------------------------------
(* The exit code of the object                                             *)

BeforeResult == {"init", "sync1", "test1", "lock1", "loop1", "unlock1", "clear1", "run"}

(* The flag is set once the code is stored, and the owner stores over a     *)
(* result only if the two overlapped.                                      *)
StoresOK ==
    /\ result # "none" => epc \notin BeforeResult
    /\ epc \notin BeforeResult \cup {"setCode"} => bExitCodeSet
    /\ result # "none" /\ Storing => raced

(* Stop(true) gives the object another code, when the worker has ended.     *)
ForceOK ==
    /\ mpc \in {"forcedClose", "forcedStopped"} => force
    /\ mpc = "created" => ~force
    /\ force /\ ~hThread => Ended \/ killed

(* The code of a thread that has not left its routine is not known.         *)
UnendedOK == wpc \in {"none", "gate", "gateHeld", "routine"} => code = "none"

CodeInv == WorkerInv /\ StoresOK /\ ForceOK /\ UnendedOK /\ ExitCodeSurvives

(* What the steps of the HANDLE do to its worker's end.                    *)
EndFrame ==
    /\ code' = code \/ (code' = Canceled /\ wpc' = "announced")
    /\ Ended => Ended'
    /\ wpc' \in {"none", "gate", "gateHeld", "routine"} =>
           wpc \in {"none", "gate", "gateHeld", "routine"} /\ code' = code

LEMMA InsideEnds ==
    ASSUME NEW c \in Callers, Inside(c)
    PROVE  UNCHANGED <<wpc, code>>
  <1> USE DEF workerVars
  <1>1. CASE CreateDone(c) \/ SuspendLock(c) \/ SuspendKill(c) \/ ResumeUnlock(c)
    BY <1>1 DEF CreateDone, SuspendLock, SuspendKill, ResumeUnlock
  <1>2. CASE TimedBegin(c) \/ Detach(c) \/ JoinTest(c) \/ JoinTimeOut(c) \/ JoinDone(c)
    BY <1>2 DEF TimedBegin, Detach, JoinTest, JoinTimeOut, JoinDone
  <1>3. CASE Sigterm(c) \/ SetForced(c) \/ CloseJoin(c) \/ CloseFree(c)
    BY <1>3 DEF Sigterm, SetForced, CloseJoin, CloseFree
  <1> QED
    BY <1>1, <1>2, <1>3 DEF Inside

LEMMA HandleEnds ==
    ASSUME HandleStep
    PROVE  EndFrame /\ UNCHANGED threadVars
  <1>1. CASE WorkerRun
    BY <1>1 DEF HandleStep, EndFrame, Ended, WorkerRun, WorkerStep, TakeGate, DropGate,
       Deliver, LeaveHandler, Announce, Exit
  <1>2. CASE BeCancelled
    BY <1>2 DEF HandleStep, EndFrame, Ended, WorkerStep, BeCancelled
  <1>3. CASE \E c \in Callers : Inside(c)
    BY <1>3, InsideEnds DEF HandleStep, EndFrame, Ended
  <1> QED
    BY <1>1, <1>2, <1>3 DEF HandleStep

LEMMA HandleCode ==
    ASSUME CodeInv, ~killed, HandleStep, CodeRecord
    PROVE  StoresOK' /\ ForceOK' /\ UnendedOK' /\ ExitCodeSurvives'
  <1> USE DEF CodeInv
  <1>1. EndFrame /\ UNCHANGED threadVars
    BY HandleEnds
  <1>2. UNCHANGED <<epc, dwExitCode, bExitCodeSet, hThread, mpc, force>>
    BY <1>1 DEF threadVars, contextVars, methodVars
  <1>3. result' = result /\ (raced => raced')
    BY <1>2 DEF CodeRecord
  <1>4. StoresOK'
    BY <1>2, <1>3 DEF StoresOK, Storing
  <1>5. ForceOK'
    BY <1>1, <1>2 DEF ForceOK, EndFrame
  <1>6. UnendedOK'
    BY <1>1 DEF UnendedOK, EndFrame
  <1>7. ExitCodeSurvives'
    BY <1>1, <1>2, <1>3 DEF ExitCodeSurvives, EndFrame
  <1> QED
    BY <1>4, <1>5, <1>6, <1>7

(* What the steps of EntryPoint do to the exit code.                       *)
EntryEffect ==
    \/ /\ UNCHANGED <<wpc, code, dwExitCode, bExitCodeSet>>
       /\ epc \in BeforeResult \ {"run"} /\ epc' \in BeforeResult
    \/ /\ UNCHANGED <<wpc, code, bExitCodeSet>>
       /\ epc = "run" /\ epc' = "setCode" /\ dwExitCode' \in Codes
    \/ /\ UNCHANGED <<wpc, code, dwExitCode>>
       /\ epc = "setCode" /\ epc' = "sync2" /\ bExitCodeSet'
    \/ /\ UNCHANGED <<wpc, code, dwExitCode, bExitCodeSet>>
       /\ epc \notin BeforeResult \cup {"setCode"}
       /\ epc' \notin BeforeResult \cup {"setCode"}
    \/ /\ UNCHANGED <<epc, dwExitCode, bExitCodeSet>>
       /\ epc \notin BeforeResult \cup {"setCode"}
       /\ wpc' = "leaving" /\ code' = dwExitCode

LEMMA EntryDoes ==
    ASSUME EntryPoint \/ \E r \in Codes : Run(r)
    PROVE  /\ EntryEffect
           /\ wpc = "routine"
           /\ UNCHANGED <<mpc, force, hThread>>
  <1> USE DEF Entry, EntryEffect, BeforeResult, contextVars, methodVars, handleVars, workerVars
  <1>1. CASE InitThread \/ SyncPoint(AfterInit, "sync1", "test1", "run")
             \/ SyncPoint(BeforeCleanup, "sync2", "test2", "cleanup")
    BY <1>1 DEF InitThread, SyncPoint
  <1>2. CASE Wait("test1", "lock1", "loop1", "unlock1", "clear1", "run")
    BY <1>2 DEF Wait, WaitTest, WaitLock, WaitEnds, WaitUnlock, WaitClear
  <1>3. CASE Wait("test2", "lock2", "loop2", "unlock2", "clear2", "cleanup")
    BY <1>3 DEF Wait, WaitTest, WaitLock, WaitEnds, WaitUnlock, WaitClear
  <1>4. CASE SetCode
    BY <1>4 DEF SetCode
  <1>5. CASE \E r \in Codes : Run(r)
    BY <1>5 DEF Run
  <1>6. CASE CleanupThread
    BY <1>6 DEF CleanupThread, Finish, WorkerStep, threadVars
  <1> QED
    BY <1>1, <1>2, <1>3, <1>4, <1>5, <1>6 DEF EntryPoint

LEMMA EntryCode ==
    ASSUME CodeInv, ~killed, EntryPoint \/ \E r \in Codes : Run(r), CodeRecord
    PROVE  StoresOK' /\ ForceOK' /\ UnendedOK' /\ ExitCodeSurvives'
  <1> USE DEF CodeInv
  <1>1. EntryEffect /\ wpc = "routine" /\ UNCHANGED <<mpc, force, hThread>>
    BY EntryDoes
  <1>2. code = "none" /\ (hThread \/ ~force)
    BY <1>1 DEF UnendedOK, ForceOK, Ended
  <1>3. raced => raced'
    BY DEF CodeRecord
  <1>4. ForceOK'
    BY <1>1, <1>2 DEF ForceOK
  <1>5. UnendedOK'
    BY <1>1, <1>2 DEF UnendedOK, EntryEffect
  <1>6. CASE epc = "run"
    <2>1. /\ epc' = "setCode" /\ code' = code
          /\ result' = dwExitCode'
      BY <1>1, <1>6 DEF EntryEffect, BeforeResult, CodeRecord
    <2>2. StoresOK'
      BY <2>1 DEF StoresOK, BeforeResult, CodeRecord
    <2>3. ExitCodeSurvives'
      BY <1>2, <2>1 DEF ExitCodeSurvives
    <2> QED
      BY <1>4, <1>5, <2>2, <2>3
  <1>7. CASE epc # "run"
    <2>1. result' = result /\ dwExitCode' = dwExitCode
      BY <1>1, <1>7 DEF EntryEffect, CodeRecord
    <2>2. StoresOK'
      BY <1>1, <1>3, <1>7, <2>1 DEF EntryEffect, StoresOK, Storing, BeforeResult
    <2>3. ExitCodeSurvives'
      BY <1>1, <1>2, <1>3, <2>1 DEF EntryEffect, ExitCodeSurvives
    <2> QED
      BY <1>4, <1>5, <2>2, <2>3
  <1> QED
    BY <1>6, <1>7

(* What the owner's methods do to it.                                      *)
MethodEffect ==
    /\ UNCHANGED <<epc, bExitCodeSet, code>>
    /\ wpc' = wpc \/ (wpc = "none" /\ wpc' \in {"gate", "routine"})
    /\ mpc' \in {"codeRead", "codeSet"} => ~bExitCodeSet
    /\ dwExitCode' = dwExitCode \/ Storing \/ (mpc = "forcedStopped" /\ ~hThread')
    /\ force' = force \/ (hThread /\ hThread' /\ mpc' = "stopSuspended")
    /\ mpc' \in {"forcedClose", "forcedStopped"} => force \/ mpc = "forcedClose"
    /\ mpc' = "created" => ~hThread /\ wpc = "none"
    /\ hThread' /\ ~hThread => mpc = "created"
    /\ hThread /\ ~hThread' => mpc \in {"stopped", "forcedStopped"}

LEMMA MethodDoes ==
    ASSUME WorkerInv, MethodStep \/ MethodCall
    PROVE  MethodEffect
  <1> USE DEF MethodEffect, Storing, Method, At, OnlyMethod, Handle, handleVars, workerVars,
              optionVars, contextVars
  <1>1. CASE StartCreate
    <2>1. life = "new" /\ wpc' \in {"gate", "routine"} /\ code' = code
      BY <1>1 DEF StartCreate, CallCreate, StartWorker
    <2> QED
      BY <1>1, <2>1 DEF StartCreate, WorkerInv, HandleInv, LifeOK
  <1>2. CASE StartCreated \/ StartDone \/ StartNotify
    BY <1>2 DEF StartCreated, StartDone, StartNotify
  <1>3. CASE StartResume
    BY <1>3 DEF StartResume, CallResume
  <1>4. CASE CallContinue \/ ContinueResumed \/ Notify
    BY <1>4 DEF CallContinue, ContinueResumed, Notify
  <1>5. CASE ContinueRefused \/ ContinueTest \/ NotifyEvent
    BY <1>5 DEF ContinueRefused, ContinueTest, NotifyEvent, Back
  <1>6. CASE ContinueResume
    BY <1>6 DEF ContinueResume, CallResume
  <1>7. CASE Suspend \/ SuspendDone
    BY <1>7 DEF Suspend, SuspendDone, CallSuspend
  <1>8. CASE Join \/ JoinEnds
    BY <1>8 DEF Join, JoinEnds, CallTimed, CallJoin
  <1>9. CASE GetExitCode \/ ExitCodeRead
    BY <1>9 DEF GetExitCode, ExitCodeRead, CallGetExitCode
  <1>10. CASE StopContinue \/ StopCode
    BY <1>10 DEF StopContinue, StopCode, CallGetExitCode
  <1>11. CASE StopCodeRead \/ StopCodeSet
    BY <1>11 DEF StopCodeRead, StopCodeSet
  <1>12. CASE StopWaiting
    BY <1>12 DEF StopWaiting
  <1>13. CASE StopTerminate
    BY <1>13 DEF StopTerminate, CallTerminate
  <1>14. CASE StopClose
    BY <1>14 DEF StopClose, CallClose
  <1>15. CASE Stopped
    BY <1>15 DEF Stopped
  <1>16. CASE Destroy
    BY <1>16 DEF Destroy
  <1>17. CASE \E f \in BOOLEAN : CallStop(f)
    BY <1>17 DEF CallStop
  <1> QED
    BY <1>1, <1>2, <1>3, <1>4, <1>5, <1>6, <1>7, <1>8, <1>9, <1>10, <1>11, <1>12,
       <1>13, <1>14, <1>15, <1>16, <1>17 DEF MethodStep, MethodCall

LEMMA MethodCode ==
    ASSUME CodeInv, ~killed, MethodStep \/ MethodCall, CodeRecord
    PROVE  StoresOK' /\ ForceOK' /\ UnendedOK' /\ ExitCodeSurvives'
  <1> USE DEF CodeInv
  <1>1. MethodEffect
    BY MethodDoes
  <1>2. result' = result /\ raced' = (raced \/ (Storing' /\ epc = "setCode"))
    BY <1>1 DEF CodeRecord, MethodEffect
  <1>3. StoresOK'
    BY <1>1, <1>2 DEF StoresOK, MethodEffect, Storing, BeforeResult
  <1>4. (Ended => Ended') /\ (wpc = "none" => ~Ended)
    BY <1>1 DEF MethodEffect, Ended
  <1>5. (mpc' \in {"forcedClose", "forcedStopped"} => force')
    BY <1>1 DEF ForceOK, MethodEffect
  <1>6. mpc' = "created" => ~force'
    BY <1>1, <1>4 DEF ForceOK, MethodEffect
  <1>7. force' /\ ~hThread' => Ended' \/ killed'
    <2>1. CASE mpc \in {"stopped", "forcedStopped"}
      BY <1>4, <2>1 DEF WorkerInv, StopOK
    <2>2. CASE mpc \notin {"stopped", "forcedStopped"}
      BY <1>1, <1>4, <2>2 DEF ForceOK, MethodEffect
    <2> QED
      BY <2>1, <2>2
  <1>8. ForceOK'
    BY <1>5, <1>6, <1>7 DEF ForceOK
  <1>9. UnendedOK'
    BY <1>1 DEF UnendedOK, MethodEffect
  <1>10. ASSUME result # "none", ~raced'
         PROVE  /\ hThread' \/ ~force' => dwExitCode' = result
                /\ code' \in {"none", Canceled, result}
    <2>1. ~raced /\ ~Storing
      BY <1>2, <1>10 DEF StoresOK
    <2>2. code' \in {"none", Canceled, result}
      BY <1>1, <1>10, <2>1 DEF ExitCodeSurvives, MethodEffect
    <2>3. ASSUME hThread' \/ ~force'  PROVE dwExitCode' = result
      <3>1. hThread \/ ~force
        BY <1>1, <2>3 DEF ForceOK, MethodEffect
      <3>2. dwExitCode = result
        BY <1>10, <2>1, <3>1 DEF ExitCodeSurvives
      <3>3. ~(mpc = "forcedStopped" /\ ~hThread')
        BY <1>1, <2>3 DEF ForceOK, MethodEffect
      <3> QED
        BY <1>1, <2>1, <3>2, <3>3 DEF MethodEffect
    <2> QED
      BY <2>2, <2>3
  <1>11. ExitCodeSurvives'
    BY <1>2, <1>10 DEF ExitCodeSurvives
  <1> QED
    BY <1>3, <1>8, <1>9, <1>11

LEMMA CodeStep ==
    ASSUME CodeInv, [ThreadNext /\ CodeRecord]_codeVars
    PROVE  CodeInv'
  <1>1. WorkerInv'
    BY ThreadStepKeeps DEF CodeInv, codeVars
  <1>2. CASE UNCHANGED codeVars
    <2>1. /\ UNCHANGED <<epc, bExitCodeSet, dwExitCode, hThread, mpc, force, result, raced>>
          /\ UNCHANGED <<wpc, code, killed>>
      BY <1>2 DEF codeVars, vars, threadVars, contextVars, methodVars, handleVars,
         workerVars, lifeVars
    <2>2. StoresOK' /\ UnendedOK'
      BY <2>1 DEF CodeInv, StoresOK, UnendedOK, Storing
    <2>3. ForceOK' /\ ExitCodeSurvives'
      BY <2>1 DEF CodeInv, ForceOK, ExitCodeSurvives, Ended
    <2> QED
      BY <1>1, <2>2, <2>3 DEF CodeInv
  <1>3. CASE ThreadNext /\ CodeRecord
    BY <1>1, <1>3, HandleCode, EntryCode, MethodCode DEF ThreadNext, CodeInv
  <1> QED
    BY <1>2, <1>3

(* For any exit codes, any synchronisation points and any waits: what Run   *)
(* returned is lost to Stop or GetExitCode only where their test of        *)
(* m_bExitCodeSet and their store overlap the two stores of the worker;    *)
(* otherwise the object keeps it until Stop(true) replaces it, and the     *)
(* HANDLE is given it.                                                     *)
THEOREM ResultIsKept == CodeSpec => []ExitCodeSurvives
  <1>1. CodeInit => CodeInv
    <2>1. ASSUME CodeInit  PROVE WorkerInv /\ StoresOK /\ ForceOK
      BY <2>1, ThreadInitKeeps DEF CodeInit, ThreadInit, StoresOK, ForceOK, BeforeResult
    <2>2. ASSUME CodeInit  PROVE UnendedOK /\ ExitCodeSurvives
      BY <2>2 DEF CodeInit, ThreadInit, Init, UnendedOK, ExitCodeSurvives
    <2> QED
      BY <2>1, <2>2 DEF CodeInv
  <1>2. CodeInv /\ [ThreadNext /\ CodeRecord]_codeVars => CodeInv'
    BY CodeStep
  <1>3. CodeInv => ExitCodeSurvives
    BY DEF CodeInv
  <1> QED
    BY <1>1, <1>2, <1>3, PTL DEF CodeSpec
=============================================================================
