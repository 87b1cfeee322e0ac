------------------------------ MODULE TaskPool ------------------------------
(***************************************************************************)
(* What the executor promises about each closure it is given: it runs at   *)
(* most once, from beginning to end, and it is given up only when the       *)
(* executor has been stopped, or refused when the executor says so to the   *)
(* caller.  Module Executor implements it.                                  *)
(***************************************************************************)
CONSTANTS Tasks       (* the closures handed to Executor::push             *)

VARIABLES state,      (* how far each task has come                        *)
          stopped     (* stop() has been called                            *)

vars == <<state, stopped>>

Init ==
  /\ state = [t \in Tasks |-> "new"]
  /\ stopped = FALSE

Become(t, from, to) ==
  /\ state[t] = from
  /\ state' = [state EXCEPT ![t] = to]
  /\ UNCHANGED stopped

Submit(t) == Become(t, "new", "queued")
Refuse(t) == Become(t, "new", "refused")
Start(t)  == Become(t, "queued", "running")
Finish(t) == Become(t, "running", "done")
GiveUp(t) == stopped /\ (Become(t, "new", "lost") \/ Become(t, "queued", "lost"))
Stop      == stopped' = TRUE /\ UNCHANGED state

Next ==
  \/ \E t \in Tasks : Submit(t) \/ Refuse(t) \/ Start(t) \/ Finish(t) \/ GiveUp(t)
  \/ Stop

Spec == Init /\ [][Next]_vars
=============================================================================
