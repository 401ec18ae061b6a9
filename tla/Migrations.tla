----------------------------- MODULE Migrations ------------------------------
(***************************************************************************)
(* What internal/store/schema.go promises whoever opens the index,         *)
(* whichever processes open it at the same time: migrations are applied    *)
(* one by one and in order, none of them twice, and a store is handed out  *)
(* only when the database has all that its reader was built for.           *)
(***************************************************************************)
EXTENDS Naturals

CONSTANTS Process, \* processes that open the store
          Latest   \* the newest migration

VARIABLES version, \* migrations 1..version are in the database
          granted  \* the version an open store was handed out for, 0 if none

vars == <<version, granted>>

Init == /\ version \in 0..Latest
        /\ granted = [p \in Process |-> 0]

Apply == /\ version < Latest
         /\ version' = version + 1
         /\ UNCHANGED granted

Grant(p, v) == /\ granted[p] = 0
               /\ v <= version
               /\ granted' = [granted EXCEPT ![p] = v]
               /\ UNCHANGED version

Close(p) == /\ granted' = [granted EXCEPT ![p] = 0]
            /\ UNCHANGED version

Next == Apply \/ \E p \in Process : Close(p) \/ \E v \in 1..Latest : Grant(p, v)

Spec == Init /\ [][Next]_vars

=============================================================================
