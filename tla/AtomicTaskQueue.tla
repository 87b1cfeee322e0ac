--------------------------- MODULE AtomicTaskQueue ---------------------------
(***************************************************************************)
(* What one TaskQueue of the executor promises its callers, with every     *)
(* operation atomic: a FIFO queue of tasks that several threads fill, from *)
(* which a task is handed to one consumer at a time, and which stops       *)
(* handing out tasks for good once it is closed.  Module TaskQueue is the  *)
(* code's mutex and condition variable implementation of it.               *)
(***************************************************************************)
EXTENDS Naturals, Sequences

CONSTANTS Tasks,      (* the closures handed to Executor::push             *)
          Consumers,  (* the threads that take tasks out                   *)
          NoTask      (* an empty std::function                            *)

VARIABLES pending,    (* the tasks of the queue, oldest first              *)
          closed,     (* no task is handed out any more                    *)
          hand,       (* the task each consumer is running, or NoTask      *)
          accepted    (* the tasks that ever entered the queue             *)

vars == <<pending, closed, hand, accepted>>

Init ==
  /\ pending = <<>>
  /\ closed = FALSE
  /\ hand = [c \in Consumers |-> NoTask]
  /\ accepted = {}

(* A task enters at the back, once.  It may still enter after the close    *)
(* (its producer looked at the flag before): it then stays there.          *)
Accept(t) ==
  /\ t \notin accepted
  /\ pending' = Append(pending, t)
  /\ accepted' = accepted \union {t}
  /\ UNCHANGED <<closed, hand>>

(* The oldest task goes to a consumer that has none.                       *)
Hand(c) ==
  /\ ~closed
  /\ pending # <<>>
  /\ hand[c] = NoTask
  /\ hand' = [hand EXCEPT ![c] = Head(pending)]
  /\ pending' = Tail(pending)
  /\ UNCHANGED <<closed, accepted>>

Finish(c) ==
  /\ hand[c] # NoTask
  /\ hand' = [hand EXCEPT ![c] = NoTask]
  /\ UNCHANGED <<pending, closed, accepted>>

Close ==
  /\ closed' = TRUE
  /\ UNCHANGED <<pending, hand, accepted>>

Next ==
  \/ \E t \in Tasks : Accept(t)
  \/ \E c \in Consumers : Hand(c) \/ Finish(c)
  \/ Close

Spec == Init /\ [][Next]_vars
=============================================================================
