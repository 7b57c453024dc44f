---------------------------- MODULE RunLifecycle -----------------------------
(***************************************************************************)
(* What the scheduler promises about inspection runs, without workers: one *)
(* run at a time; requests move its state; its context ends for one cause, *)
(* a requested stop or the deadline; the run decides its fate once, and    *)
(* commits to automatic actions only while its context is live; and the    *)
(* state it ends in tells that fate.                                       *)
(***************************************************************************)

VARIABLES
  state,   \* s.status.State
  context, \* what the latest run's context says
  asked,   \* the latest run was asked to stop while it was active
  fate     \* "none" between runs; "open" until the run has decided

lifecycle == <<state, context, asked, fate>>

Active == state \in {"running", "paused", "stopping"}

LifecycleInit ==
  state = "idle" /\ context = "none" /\ asked = FALSE /\ fate = "none"

Start ==
  /\ ~Active /\ fate = "none"
  /\ state' = "running" /\ context' = "live" /\ asked' = FALSE /\ fate' = "open"

Pause  == state \in {"running", "paused"} /\ state' = "paused" /\ UNCHANGED <<context, asked, fate>>
Resume == state = "paused" /\ state' = "running" /\ UNCHANGED <<context, asked, fate>>
Stop   == Active /\ state' = "stopping" /\ asked' = TRUE /\ UNCHANGED <<context, fate>>

\* cancel() reaches a run that was asked to stop, or one that is over.
EndContext ==
  /\ context = "live"
  /\ context' \in {"deadline"} \cup (IF asked \/ fate = "none" THEN {"canceled"} ELSE {})
  /\ UNCHANGED <<state, asked, fate>>

Decide ==
  /\ fate = "open"
  /\ \/ context = "live" /\ fate' = "commit"
     \/ context # "live" /\ fate' = context
     \/ fate' = "failed"
  /\ UNCHANGED <<state, context, asked>>

EndState == [commit |-> "completed", canceled |-> "stopped",
             deadline |-> "partial", failed |-> "failed"]

End ==
  /\ fate \in DOMAIN EndState
  /\ state' = EndState[fate]
  /\ fate' = "none"
  /\ UNCHANGED <<context, asked>>

LifecycleNext == Start \/ Pause \/ Resume \/ Stop \/ EndContext \/ Decide \/ End

LifecycleSpec == LifecycleInit /\ [][LifecycleNext]_lifecycle
=============================================================================
