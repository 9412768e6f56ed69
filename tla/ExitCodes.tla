----------------------------- MODULE ExitCodes -----------------------------
(***************************************************************************)
(* WorkerThread with history variables that tell whether the exit code the *)
(* worker stores is the one its object keeps.  The worker stores the code  *)
(* and then sets m_bExitCodeSet; Stop and GetExitCode test that flag and   *)
(* then store the code of the HANDLE.                                      *)
(***************************************************************************)
EXTENDS WorkerThread

VARIABLES
    result,  (* auxiliary: what Run has returned                            *)
    raced    (* auxiliary: the owner has been between its test and its store *)
             (* while the worker was between its two stores                 *)

codeVars == <<vars, result, raced>>

Storing == mpc \in {"codeRead", "codeSet"}

CodeInit == ThreadInit /\ result = "none" /\ raced = FALSE

CodeRecord ==
    /\ result' = IF epc = "run" /\ epc' # "run" THEN dwExitCode' ELSE result
    /\ raced' = (raced \/ (Storing /\ epc = "setCode")')

CodeSpec == CodeInit /\ [][ThreadNext /\ CodeRecord]_codeVars /\ ThreadFairness

-----------------------------------------------------------------------------
(* Properties                                                              *)

(* The exit code is lost for one reason only: unless the two overlapped,    *)
(* the object keeps what Run returned until a Stop(true) has ended, and    *)
(* the worker ends with it, or as one that was cancelled.                  *)
ExitCodeSurvives ==
    result # "none" /\ ~raced =>
        /\ hThread \/ ~force => dwExitCode = result
        /\ code \in {"none", Canceled, result}
=============================================================================
