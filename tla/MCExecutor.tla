----------------------------- MODULE MCExecutor -----------------------------
(* Small programs for the executor, after the tests of src/src/main.cpp.   *)
EXTENDS Executor, TLC

CONSTANTS c1, c2, t1, t2, t3

MCClients == {c1, c2}
MCTasks == {t1, t2, t3}

(* Tasks and clients that make no call; the programs fill some of them in. *)
NoCalls == [b \in MCTasks \union MCClients |-> <<>>]

(* Wait rejecting, push again, get, join; a second client pushes meanwhile *)
(* and is refused, blocked or admitted.                                    *)
IncomingProgram ==
  [NoCalls EXCEPT ![c1] = <<Push(t1), Wait("RejectIncoming"), Push(t2), Get(t2)>> \o Join,
                  ![c2] = <<Push(t3)>>]

(* A task stops the executor; a client pushes on and stops it again, while  *)
(* a second one waits for the pool.                                         *)
StopProgram ==
  [NoCalls EXCEPT ![t1] = <<Stop>>,
                  ![c1] = <<Push(t1), Stop, Push(t3)>> \o Join,
                  ![c2] = <<Wait("AllowIncoming")>>]

(* A task forks another and waits for it; one more waits for the pool.  A  *)
(* fork that is refused ends its task.                                     *)
HelpProgram ==
  [NoCalls EXCEPT ![t1] = <<Push(t3), Get(t3)>>,
                  ![t2] = <<Wait("AllowIncoming"), Wait("RejectIncoming")>>,
                  ![c1] = <<Push(t1), Push(t2), Get(t1), Get(t2)>> \o Join]

MCPrograms == {IncomingProgram, StopProgram, HelpProgram}

(* A task pushes another one while the client joins, as the continuation   *)
(* of a future does.                                                       *)
ChainPrograms ==
  {[NoCalls EXCEPT ![t1] = <<Push(t2)>>,
                   ![c1] = <<Push(t1)>> \o Join]}
=============================================================================
