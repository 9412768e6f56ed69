---------------------------- MODULE EventWakeUps ----------------------------
(***************************************************************************)
(* MSEvent with a history variable that records which waiters a SetEvent   *)
(* has gone past between their test of the flag and their sleep.           *)
(***************************************************************************)
EXTENDS MSEvent

VARIABLE missed  (* auxiliary: the waiters that found the flag clear, were  *)
                 (* not on the condition variable yet when it was           *)
                 (* signalled, and have not returned since                  *)

wakeUpVars == <<vars, missed>>

(* A waiter that will sleep and does not yet, one that sleeps, and one      *)
(* that a signal has woken and that has not looked at the event since.     *)
FallingAsleep == {w \in Threads : pc[w] \in {"lock", "condWait"}}
Awakened      == {w \in Threads : pc[w] = "unlock" \/ (pc[w] = "sleep" /\ w \notin queue)}

WakeUpInit == Init /\ missed = {}

Miss(t) ==
    missed' = {w \in missed \cup (IF At(t, "signal") THEN FallingAsleep ELSE {}) :
                   w \in FallingAsleep' \cup queue'}

WakeUpNext ==
    /\ \E t \in Threads :
        /\ SetStep(t) \/ CallReset(t) \/ ClearStep(t) \/ WaitStep(t)
        /\ Miss(t)
    /\ UNCHANGED isManual

WakeUpSpec == WakeUpInit /\ [][WakeUpNext]_wakeUpVars

-----------------------------------------------------------------------------
(* Properties                                                              *)

(* Nobody is at work on the event: no call is clearing it or about to       *)
(* signal it, and nobody who will reset it has been woken.                 *)
Settled ==
    /\ Clearing = {}
    /\ \A t \in Threads : ~At(t, "signal")
    /\ isManual \/ Awakened = {}

(* A wake-up is lost for one reason only: whoever still sleeps on an event  *)
(* that is set, and that nobody is at work on, was between its test of the *)
(* flag and its pthread_cond_wait when the event was signalled.            *)
SleepsOnlyIfMissed == Settled /\ isSignalled # 0 => queue \subseteq missed

(* Whether every SetEvent signals while nobody is between the two.          *)
PromptSignal == \A t \in Threads : Signal(t) => FallingAsleep = {}
SignalsArePrompt == [][PromptSignal]_wakeUpVars
=============================================================================
