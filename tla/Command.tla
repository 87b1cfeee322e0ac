------------------------------ MODULE Command ------------------------------
(***************************************************************************)
(* Command::execute (command.cpp, uv_command.cpp): a chain of commands, the *)
(* output of each piped to the next, run by one libuv loop.  The first      *)
(* reads a text or nothing, the last writes to a captured pipe or to a      *)
(* file.  Error streams are handled as the last output and are left out.    *)
(* Children, pipes and libuv's handles are modelled as they are used.       *)
(***************************************************************************)
EXTENDS Integers

CONSTANTS Last,           (* the chain is 1..Last                            *)
          Capacity,       (* what a pipe holds                               *)
          Output,         (* what each child writes                          *)
          Texts,          (* lengths of the text given to the first          *)
          Executions      (* bound: executions of the same objects           *)

ASSUME CommandAssumption ==
  /\ Last \in Nat \ {0} /\ Capacity \in Nat \ {0}
  /\ Output \in Nat /\ Texts \subseteq Nat /\ Executions \in Nat

VARIABLES order,          (* [text, captured, detached]: how it is set up    *)
          phase,          (* where execute2 is, and how it ended             *)
          at_command,     (* the command it prepares or starts               *)
          child,          (* child[c]: the process, or the code it ended by  *)
          left,           (* left[c]: what it has still to write             *)
          pipe,           (* pipe[c]: what is in its output pipe; pipe[0]:   *)
                          (* in the input pipe of the first                  *)
          text,           (* what is left of the text, what was captured and *)
                          (* how much of it before this execution            *)
          exitCode,       (* exitCode[c]: exit_code, kept by the object      *)
          handle,         (* handle[h]: libuv's handles                      *)
          executionsLeft

commandVars == <<order, phase, at_command, child, left, pipe, text, exitCode, handle,
                 executionsLeft>>

Chain == 1..Last
Handles == {"process", "out"} \X Chain \union {<<"in", 1>>}
NoCode == "none"

CommandInit ==
  /\ order \in [text : Texts, captured : BOOLEAN, detached : BOOLEAN]
  /\ phase = "new"
  /\ at_command = 1
  /\ child = [c \in Chain |-> "none"]
  /\ left = [c \in Chain |-> 0]
  /\ pipe = [c \in 0..Last |-> 0]
  /\ text = [toWrite |-> 0, read |-> 0, earlier |-> 0]
  /\ exitCode = [c \in Chain |-> NoCode]
  /\ handle = [h \in Handles |-> "none"]
  /\ executionsLeft = Executions

Ended == {"new", "returned", "failed"}
Codes == {"zero", "other"}
Over(c) == child[c] \in Codes
Children == <<child, left, pipe>>

(* io_data::type: an output is captured, sent to a file or piped on.        *)
Captured(c) == c = Last /\ order.captured
Piped(c) == c < Last
Detached(c) == c = 1 /\ order.detached

(* The objects and their streams stay: what was captured earlier too, to    *)
(* which this execution appends.                                            *)
Execute ==
  /\ phase \in Ended /\ executionsLeft > 0
  /\ phase' = "prepare"
  /\ at_command' = 1
  /\ child' = [c \in Chain |-> "none"]
  /\ left' = [c \in Chain |-> Output]
  /\ pipe' = [c \in 0..Last |-> 0]
  /\ text' = [toWrite |-> order.text, read |-> text.read, earlier |-> text.read]
  /\ handle' = [h \in Handles |-> "none"]
  /\ executionsLeft' = executionsLeft - 1
  /\ UNCHANGED <<order, exitCode>>

-----------------------------------------------------------------------------
(* Before the loop                                                          *)

(* pre_exec: the program is resolved, and UvCommand made.  Its constructor  *)
(* makes a pipe for the output whatever becomes of it, and for the input    *)
(* when there is a text.                                                    *)
Prepare ==
  /\ phase = "prepare"
  /\ handle' = [handle EXCEPT
       ![<<"out", at_command>>] = "open",
       ![<<"in", 1>>] = IF order.text > 0 THEN "open" ELSE @]
  /\ IF at_command < Last
     THEN at_command' = at_command + 1 /\ UNCHANGED phase
     ELSE at_command' = 1 /\ phase' = "spawn"
  /\ UNCHANGED <<order, text, exitCode, executionsLeft>> /\ UNCHANGED Children

Unresolved ==
  /\ phase = "prepare"
  /\ phase' = "failed"
  /\ UNCHANGED <<order, at_command, text, exitCode, handle, executionsLeft>>
  /\ UNCHANGED Children

(* A pipe to inherit must be there: the one of a detached command, or of a  *)
(* command that did not start, is not.                                      *)
CanSpawn(c) == c > 1 => child[c - 1] # "none" /\ ~Detached(c - 1)

Spawned ==
  /\ phase' = IF at_command < Last THEN "spawn" ELSE "loop"
  /\ at_command' = IF at_command < Last THEN at_command + 1 ELSE at_command

(* start_capture: a pipe that is read or written keeps the loop running.    *)
Capturing(c) ==
  [h \in Handles |->
     CASE h = <<"process", c>> -> IF Detached(c) THEN "open" ELSE "active"
       [] h = <<"out", c>> -> IF Captured(c) /\ ~Detached(c) THEN "active" ELSE handle[h]
       [] h = <<"in", 1>> -> IF c = 1 /\ handle[h] = "open" /\ ~Detached(c)
                             THEN "active" ELSE handle[h]
       [] OTHER -> handle[h]]

Spawn ==
  /\ phase = "spawn" /\ CanSpawn(at_command)
  /\ child' = [child EXCEPT ![at_command] = "running"]
  /\ handle' = Capturing(at_command)
  /\ Spawned
  /\ UNCHANGED <<order, left, pipe, text, exitCode, executionsLeft>>

(* "child not started" is added to the errors, and the chain goes on.       *)
SpawnFails ==
  /\ phase = "spawn"
  /\ handle' = [handle EXCEPT ![<<"process", at_command>>] = "open"]
  /\ Spawned
  /\ UNCHANGED <<order, text, exitCode, executionsLeft>> /\ UNCHANGED Children

-----------------------------------------------------------------------------
(* The loop's callbacks                                                     *)

(* A handle that is closed a second time stops the program.                 *)
CloseHandle(h) == handle' = [handle EXCEPT ![h] = IF @ = "closed" THEN "twice" ELSE "closed"]

OnRead(c) ==
  /\ phase = "loop" /\ handle[<<"out", c>>] = "active"
  /\ \/ /\ pipe[c] > 0
        /\ pipe' = [pipe EXCEPT ![c] = @ - 1]
        /\ text' = [text EXCEPT !.read = @ + 1]
        /\ UNCHANGED handle
     \/ /\ pipe[c] = 0 /\ Over(c)                (* UV_EOF: reading stops *)
        /\ handle' = [handle EXCEPT ![<<"out", c>>] = "open"]
        /\ UNCHANGED <<pipe, text>>
  /\ UNCHANGED <<order, phase, at_command, child, left, exitCode, executionsLeft>>

(* Variants that are wrong: the pipe is never closed, or after any write.   *)
OnWriteOpen == UNCHANGED handle
OnWriteAny == CloseHandle(<<"in", 1>>)

(* on_write closes the pipe when all the text is written, and only then.    *)
OnWrite ==
  IF text'.toWrite = 0 THEN CloseHandle(<<"in", 1>>) ELSE UNCHANGED handle

Feed ==
  /\ phase = "loop" /\ handle[<<"in", 1>>] = "active"
  /\ text.toWrite > 0 /\ child[1] = "running" /\ pipe[0] < Capacity
  /\ pipe' = [pipe EXCEPT ![0] = @ + 1]
  /\ text' = [text EXCEPT !.toWrite = @ - 1]
  /\ OnWrite
  /\ UNCHANGED <<order, phase, at_command, child, left, exitCode, executionsLeft>>

FeedFails ==
  /\ phase = "loop" /\ handle[<<"in", 1>>] = "active" /\ Over(1)
  /\ handle' = [handle EXCEPT ![<<"in", 1>>] = "open"]
  /\ UNCHANGED <<order, phase, at_command, text, exitCode, executionsLeft>>
  /\ UNCHANGED Children

(* on_exit: before or after the last of the pipe is read.                   *)
OnExit(c) ==
  /\ phase = "loop" /\ handle[<<"process", c>>] = "active" /\ Over(c)
  /\ exitCode' = [exitCode EXCEPT ![c] = child[c]]
  /\ CloseHandle(<<"process", c>>)
  /\ UNCHANGED <<order, phase, at_command, text, executionsLeft>> /\ UNCHANGED Children

-----------------------------------------------------------------------------
(* The children                                                             *)

(* The end of a child's input: nothing, or the pipe's last writer closed it.*)
AtEnd(c) ==
  IF c = 1 THEN Detached(1) \/ (pipe[0] = 0 /\ handle[<<"in", 1>>] # "active")
  ELSE pipe[c - 1] = 0 /\ child[c - 1] # "running"

ChildReads(c) ==
  /\ child[c] = "running" /\ pipe[c - 1] > 0
  /\ pipe' = [pipe EXCEPT ![c - 1] = @ - 1]
  /\ UNCHANGED <<order, phase, at_command, child, left, text, exitCode, handle, executionsLeft>>

(* Detached children, and files, take what is written.                      *)
ToPipe(c) == ~Detached(c) /\ (Captured(c) \/ Piped(c))
ChildWrites(c) ==
  /\ child[c] = "running" /\ left[c] > 0
  /\ ToPipe(c) => pipe[c] < Capacity
  /\ pipe' = [pipe EXCEPT ![c] = IF ToPipe(c) THEN @ + 1 ELSE @]
  /\ left' = [left EXCEPT ![c] = @ - 1]
  /\ UNCHANGED <<order, phase, at_command, child, text, exitCode, handle, executionsLeft>>

ChildEnds(c) ==
  /\ child[c] = "running" /\ left[c] = 0 /\ AtEnd(c)
  /\ \E code \in Codes : child' = [child EXCEPT ![c] = code]
  /\ UNCHANGED <<order, phase, at_command, left, pipe, text, exitCode, handle, executionsLeft>>

(* A child may end at any time, by interrupt() too, reading no more.        *)
ChildStops(c) ==
  /\ child[c] = "running"
  /\ \E code \in Codes : child' = [child EXCEPT ![c] = code]
  /\ UNCHANGED <<order, phase, at_command, left, pipe, text, exitCode, handle, executionsLeft>>

-----------------------------------------------------------------------------
(* After the loop                                                           *)

LoopEnds ==
  /\ phase = "loop"
  /\ \A h \in Handles : handle[h] # "active"
  /\ phase' = "clean"
  /\ UNCHANGED <<order, at_command, text, exitCode, handle, executionsLeft>>
  /\ UNCHANGED Children

(* io_data::clean closes the captured outputs of what is not detached.      *)
Cleaned(h) == h[1] = "out" /\ Captured(h[2]) /\ ~Detached(h[2])

Clean ==
  /\ phase = "clean"
  /\ handle' = [h \in Handles |->
       IF ~Cleaned(h) THEN handle[h] ELSE IF handle[h] = "closed" THEN "twice" ELSE "closed"]
  /\ phase' = "close"
  /\ UNCHANGED <<order, at_command, text, exitCode, executionsLeft>> /\ UNCHANGED Children

(* A variant that is wrong, as in a shell: the last command alone counts.   *)
LastZero == exitCode[Last] = "zero"

AllZero == \A c \in Chain : exitCode[c] = "zero"

(* uv_loop_close: a busy loop has its handles walked and closed.  Then      *)
(* execute1 looks at the codes.                                             *)
CloseLoop ==
  /\ phase = "close"
  /\ handle' = [h \in Handles |-> IF handle[h] = "open" THEN "closed" ELSE handle[h]]
  /\ phase' = IF AllZero \/ order.detached THEN "returned" ELSE "failed"
  /\ UNCHANGED <<order, at_command, text, exitCode, executionsLeft>> /\ UNCHANGED Children

LoopStep ==
  \/ Prepare \/ Unresolved \/ Spawn \/ SpawnFails
  \/ \E c \in Chain : OnRead(c) \/ OnExit(c)
  \/ Feed \/ FeedFails \/ LoopEnds \/ Clean \/ CloseLoop
ChildStep(c) == ChildReads(c) \/ ChildWrites(c) \/ ChildEnds(c)

CommandNext ==
  \/ Execute \/ LoopStep
  \/ \E c \in Chain : ChildStep(c) \/ ChildStops(c)

-----------------------------------------------------------------------------
CommandTypeOK ==
  /\ phase \in Ended \union {"prepare", "spawn", "loop", "clean", "close"}
  /\ child \in [Chain -> Codes \union {"none", "running"}]
  /\ pipe \in [0..Last -> 0..Capacity]
  /\ exitCode \in [Chain -> Codes \union {NoCode}]
  /\ handle \in [Handles -> {"none", "open", "active", "closed"}]

Finished == phase \in {"returned", "failed"}
Again == executionsLeft + 1 < Executions

(* execute returns when every command of the chain was started and ended    *)
(* with 0, and otherwise fails, but for a detached command, and for one     *)
(* that could not be started again and has the code of the last time.  All  *)
(* that the last command wrote has been captured by then, after what was    *)
(* captured in earlier executions, and no child is left that was not        *)
(* detached (command.cpp:223-365, uv_command.cpp:230).                      *)
ResultsRight ==
  /\ phase = "returned" =>
       order.detached \/ \A c \in Chain : child[c] = "zero" \/ (child[c] = "none" /\ Again)
  /\ phase = "failed" => \E c \in Chain : child[c] # "zero"
  /\ Finished => \A c \in Chain : child[c] = "running" => Detached(c)
  /\ Finished /\ order.captured /\ ~Detached(Last) => 
       text.read = text.earlier + Output - left[Last]

(* The first command sees the end of its input only after all the text; and *)
(* whatever started, failed or stopped, no handle is closed twice, and none *)
(* is left open in a loop that is closed (uv_command.cpp:114-244,           *)
(* uv_loop_close.h).                                                        *)
HandlesRight ==
  /\ child[1] = "running" /\ ~Detached(1) /\ AtEnd(1) => text.toWrite = 0
  /\ Finished /\ handle[<<"process", 1>>] # "none" =>
       \A h \in Handles : handle[h] \in {"none", "closed"}

(* The parent keeps its end of a pipe between two commands: a child that    *)
(* writes more than the pipe holds waits for ever when its reader is gone.  *)
Stuck ==
  \E c \in 1..(Last - 1) :
    child[c] = "running" /\ left[c] > 0 /\ pipe[c] = Capacity /\ child[c + 1] # "running"
=============================================================================
