----------------------------- MODULE Supervisor -----------------------------
(***************************************************************************)
(* What daemon.Service promises to the people who start, restart and stop  *)
(* a node, without its goroutines: at most one node is supervised at any   *)
(* time; after a crash or a failed start nothing is launched until a       *)
(* request to retry is there to be spent; once closed, nothing is launched *)
(* at all.                                                                 *)
(***************************************************************************)
VARIABLES
  phase,    \* "trying" to keep a node running, "held" after a crash, "closed"
  credit,   \* a request to retry has been made and not spent
  live      \* a supervised node is running

vars == <<phase, credit, live>>

Init == phase = "trying" /\ credit = FALSE /\ live = FALSE

Launch == phase = "trying" /\ ~live /\ live' = TRUE /\ UNCHANGED <<phase, credit>>

\* The node exits, or is given up after a failed start.
End == live /\ live' = FALSE /\ UNCHANGED <<phase, credit>>

Hold == phase = "trying" /\ ~live /\ phase' = "held" /\ UNCHANGED <<credit, live>>

Retry ==
  /\ phase = "held" /\ credit
  /\ phase' = "trying" /\ credit' = FALSE
  /\ UNCHANGED live

Ask == credit' = TRUE /\ UNCHANGED <<phase, live>>

\* A node that came up makes an earlier request obsolete.
Forget == phase = "trying" /\ credit' = FALSE /\ UNCHANGED <<phase, live>>

Close ==
  /\ phase \in {"trying", "held"} /\ ~live
  /\ phase' = "closed"
  /\ UNCHANGED <<credit, live>>

Next == Launch \/ End \/ Hold \/ Retry \/ Ask \/ Forget \/ Close

Spec == Init /\ [][Next]_vars
=============================================================================
