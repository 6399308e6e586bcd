------------------------------ MODULE Commands ------------------------------
(***************************************************************************)
(* CommandRun of pkg/cmdx: a command is split into words (ShellWords), its *)
(* process started in a process group of its own, and waited for with a    *)
(* timeout (CmdWait of cmd_notwindows.go).  A goroutine waits for the      *)
(* process, and until all that hold its output have closed it, and hands   *)
(* the result over by a channel without a buffer.                          *)
(*                                                                         *)
(* The process may start a child, which may leave the group and may hold   *)
(* the output.                                                             *)
(***************************************************************************)
EXTENDS ShellWords

CONSTANT RunInputs    \* bound: the commands that are run

VARIABLES
    runPc,     \* "split", "select", "kill" or "returned"
    outcome,   \* "none", "unparsable", "failed", "output" or "timeout"
    process,   \* "none", "running", "exited" or "reaped"
    child,     \* [state, inGroup, holds]: "none", "running" or "gone"
    waitPc,    \* the goroutine of CmdWait: "none", "wait", "copy", "send" or "end"
    drains     \* a goroutine takes the late result

runVars == <<runPc, outcome, process, child, waitPc, drains>>
commandVars == <<splitVars, runVars>>

CommandInit ==
    /\ SplitInit
    /\ runPc = "split" /\ outcome = "none" /\ process = "none"
    /\ child = [state |-> "none", inGroup |-> FALSE, holds |-> FALSE]
    /\ waitPc = "none" /\ drains = FALSE

ReturnWith(o) == runPc' = "returned" /\ outcome' = o

\* QuoteSplit has ended: the words are run, or there are none.
RunWords ==
    /\ runPc = "split" /\ label = "end" /\ command \in RunInputs
    /\ \/ /\ err # "none" \/ words = <<>>
          /\ ReturnWith("unparsable") /\ UNCHANGED <<process, waitPc>>
       \/ /\ err = "none" /\ words # <<>>
          /\ ReturnWith("failed") /\ UNCHANGED <<process, waitPc>>
       \/ /\ err = "none" /\ words # <<>>
          /\ runPc' = "select" /\ process' = "running" /\ waitPc' = "wait" /\ UNCHANGED outcome
    /\ UNCHANGED <<splitVars, child, drains>>

-----------------------------------------------------------------------------
(***************************************************************************)
(* The processes                                                           *)
(***************************************************************************)
Fork(inGroup, holds) ==
    /\ process = "running" /\ child.state = "none"
    /\ child' = [state |-> "running", inGroup |-> inGroup, holds |-> holds]
    /\ UNCHANGED <<splitVars, runPc, outcome, process, waitPc, drains>>

ProcessExits ==
    /\ process = "running" /\ process' = "exited"
    /\ UNCHANGED <<splitVars, runPc, outcome, child, waitPc, drains>>

ChildExits ==
    /\ child.state = "running" /\ child' = [child EXCEPT !.state = "gone"]
    /\ UNCHANGED <<splitVars, runPc, outcome, process, waitPc, drains>>

OutputHeld == process = "running" \/ (child.state = "running" /\ child.holds)

(***************************************************************************)
(* CmdWait: the goroutine,                                                 *)
(***************************************************************************)
WaitProcess ==
    /\ waitPc = "wait" /\ process = "exited"
    /\ process' = "reaped" /\ waitPc' = "copy"
    /\ UNCHANGED <<splitVars, runPc, outcome, child, drains>>

WaitOutput ==
    /\ waitPc = "copy" /\ ~OutputHeld /\ waitPc' = "send"
    /\ UNCHANGED <<splitVars, runPc, outcome, process, child, drains>>

(***************************************************************************)
(* ... the select, in which the timeout may win against a result that is   *)
(* there,                                                                  *)
(***************************************************************************)
TakeResult ==
    /\ runPc = "select" /\ waitPc = "send" /\ waitPc' = "end"
    /\ ReturnWith("output")
    /\ UNCHANGED <<splitVars, process, child, drains>>

\* Fault: nobody takes the late result.
TimeOutAlone ==
    /\ runPc = "select" /\ runPc' = "kill"
    /\ UNCHANGED <<splitVars, outcome, process, child, waitPc, drains>>

TimeOut ==
    /\ runPc = "select" /\ runPc' = "kill" /\ drains' = TRUE
    /\ UNCHANGED <<splitVars, outcome, process, child, waitPc>>

(***************************************************************************)
(* ... and the end of what is late: the whole group is killed, if there is *)
(* still one.                                                              *)
(***************************************************************************)
KillGroup ==
    /\ runPc = "kill" /\ ReturnWith("timeout")
    /\ process' = IF process = "running" THEN "exited" ELSE process
    /\ child' = IF child.state = "running" /\ child.inGroup THEN [child EXCEPT !.state = "gone"] ELSE child
    /\ UNCHANGED <<splitVars, waitPc, drains>>

TakeLateResult ==
    /\ drains /\ waitPc = "send" /\ waitPc' = "end" /\ drains' = FALSE
    /\ UNCHANGED <<splitVars, runPc, outcome, process, child>>

CommandNext ==
    \/ SplitNext /\ UNCHANGED runVars
    \/ RunWords \/ ProcessExits \/ ChildExits \/ WaitProcess \/ WaitOutput
    \/ (\E inGroup, holds \in BOOLEAN : Fork(inGroup, holds))
    \/ TakeResult \/ TimeOut \/ KillGroup \/ TakeLateResult

CommandSpec == CommandInit /\ [][CommandNext]_commandVars

-----------------------------------------------------------------------------
(***************************************************************************)
(* Properties.                                                             *)
(***************************************************************************)

\* Output that is returned is all there is; after a timeout nothing of the group runs; and
\* the goroutine that waits always has somebody to take its result, whoever wins the
\* select (cmd_notwindows.go:12-33).
RunSound ==
    /\ outcome = "output" => process = "reaped" /\ ~OutputHeld
    /\ outcome = "timeout" => process # "running" /\ ~(child.state = "running" /\ child.inGroup)
    /\ waitPc = "send" => runPc = "select" \/ drains

\* A command is split as the shell does, and ends whole or not at all.
CommandsSound == SplitAsShell /\ RunSound
=============================================================================
