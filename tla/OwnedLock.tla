------------------------------ MODULE OwnedLock ------------------------------
(***************************************************************************)
(* What CritSectEx promises: a lock that is taken only when it is free and *)
(* that its owner gives back, but for one thing.  Who has given it back    *)
(* frees it once more, later, and so robs whoever owns it by then.  A      *)
(* thread that has been robbed still believes that it holds the lock.      *)
(***************************************************************************)
CONSTANTS Threads, NoThread

VARIABLES
    owner,    (* the thread that owns the lock, or NoThread                 *)
    holders,  (* the threads that have taken the lock and not given it back *)
    robbed,   (* the holders whose lock another thread has freed            *)
    leaving   (* the threads that will free the lock once more              *)

vars == <<owner, holders, robbed, leaving>>

Init == owner = NoThread /\ holders = {} /\ robbed = {} /\ leaving = {}

(* Only a thread that has been robbed takes what it holds already.         *)
Take(t) ==
    /\ owner = NoThread /\ t \notin holders \ robbed
    /\ owner' = t
    /\ holders' = holders \cup {t}
    /\ UNCHANGED <<robbed, leaving>>

Give(t) ==
    /\ owner = t /\ t \in holders \ robbed
    /\ owner' = NoThread
    /\ holders' = holders \ {t}
    /\ leaving' = leaving \cup {t}
    /\ UNCHANGED robbed

(* The owner, if t is not the one, is robbed by what t does.               *)
Robbing(t) == robbed' = (robbed \cup ({owner} \ {t, NoThread})) \cap holders'

(* Who has been robbed may free the lock of another owner; it stays a      *)
(* holder if it took the lock several times.                               *)
GiveRobbed(t) ==
    /\ t \in robbed
    /\ holders' \in {holders, holders \ {t}}
    /\ \/ owner' = NoThread /\ Robbing(t)
       \/ owner' = owner /\ owner # t /\ robbed' = robbed \cap holders'
    /\ leaving' = leaving \cup {t}

FreeAgain(t) ==
    /\ t \in leaving
    /\ owner' = NoThread
    /\ leaving' = leaving \ {t}
    /\ Robbing(t)
    /\ UNCHANGED holders

Next == \E t \in Threads : Take(t) \/ Give(t) \/ GiveRobbed(t) \/ FreeAgain(t)

Spec == Init /\ [][Next]_vars
=============================================================================
