---------------------------- MODULE GuardedChange ----------------------------
(***************************************************************************)
(* What config_atomic() with ChangeSafety::DelayedReload promises about    *)
(* the device: its running configuration changes only to the one that was  *)
(* asked for, and only while a reload is scheduled; the reload is taken    *)
(* back only while the device still answers, and no change follows.  So a  *)
(* change that cuts the device off is always undone by the reload.         *)
(***************************************************************************)
VARIABLES running,   \* "old" (the saved configuration) or "new"
          guard,     \* a reload is scheduled
          reachable  \* the device answers on the path it is managed by

vars == <<running, guard, reachable>>

Init == running = "old" /\ guard = FALSE /\ reachable = TRUE

Schedule == guard' = TRUE /\ UNCHANGED <<running, reachable>>

Change ==
    /\ guard
    /\ running' = "new" /\ reachable' \in BOOLEAN
    /\ UNCHANGED guard

Cancel ==
    /\ reachable
    /\ guard' = FALSE
    /\ UNCHANGED <<running, reachable>>

Revert ==
    /\ guard
    /\ running' = "old" /\ guard' = FALSE /\ reachable' = TRUE

Next == Schedule \/ Change \/ Cancel \/ Revert

Spec == Init /\ [][Next]_vars
=============================================================================
