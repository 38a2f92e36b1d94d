------------------------------- MODULE Runner -------------------------------
(***************************************************************************)
(* run_code_in_docker: one call compiles and runs a program for one test   *)
(* case in a work directory of its own. A stage is a process (the leader)  *)
(* in a new session. What it forks belongs to its process group until it   *)
(* makes a session of its own, and may or may not keep the ends of the     *)
(* output pipes. _run waits until the leader has ended and the pipes are   *)
(* closed, or until its timeout.                                           *)
(*                                                                         *)
(* A thread of the pool makes one call after the other. The processes that *)
(* are still alive when a stage is over go on outside the model: they hold *)
(* no pipe of a later stage.                                               *)
(***************************************************************************)
EXTENDS Naturals

CONSTANTS
    Compiled,       \* languages with a compiler: cpp, csharp
    Interpreted,    \* python, javascript, dart
    Unknown,        \* any other language
    Timeout         \* seconds a stage may take

ASSUME TimeoutAssumption == Timeout \in Nat \ {0}
ASSUME LanguageAssumption ==
    /\ Compiled \intersect Interpreted = {}
    /\ (Compiled \union Interpreted) \intersect Unknown = {}

VARIABLES
    place,      \* what the thread does next; "idle" between two calls
    stage,      \* the stage of the call, and the last one afterwards
    leader,     \* "none", "running" or the exit code of the leader
    group,      \* the kinds of other processes alive in its process group
    escaped,    \* the kinds of those that have left the group
    wall,       \* seconds since the stage has started
    elapsed,    \* history: seconds the call has waited in all its stages
    status,     \* the status of the result, "raised" for an exception
    workdir     \* the work directory of the call exists

processVars == <<leader, group, escaped>>
vars == <<place, stage, processVars, wall, elapsed, status, workdir>>

Codes == {"zero", "nonzero"}
Kinds == {"quiet", "holding"}
Results == {"ok", "compile_error", "runtime_error", "timeout", "error"}

TypeOK ==
    /\ place \in {"idle", "write", "popen", "wait", "decide", "cleanup"}
    /\ stage \in {"none", "compile", "run"}
    /\ leader \in {"none", "running"} \union Codes
    /\ group \subseteq Kinds
    /\ escaped \subseteq Kinds
    /\ wall \in 0..Timeout
    /\ elapsed \in Nat
    /\ status \in Results \union {"none", "raised"}
    /\ workdir \in BOOLEAN
    /\ place = "wait" <=> leader # "none"
    /\ place = "idle" /\ stage = "none" => ~workdir

Init ==
    /\ place = "idle"
    /\ stage = "none"
    /\ leader = "none"
    /\ group = {}
    /\ escaped = {}
    /\ wall = 0
    /\ elapsed = 0
    /\ status = "none"
    /\ workdir = FALSE

-----------------------------------------------------------------------------
(* The call. *)

Call(lang) ==
    /\ place = "idle"
    /\ \/ /\ lang \in Unknown
          /\ status' = "error"
          /\ stage' = "none"
          /\ workdir' = FALSE
          /\ UNCHANGED place
       \/ /\ lang \notin Unknown
          /\ status' = "none"
          /\ stage' = IF lang \in Compiled THEN "compile" ELSE "run"
          /\ workdir' = TRUE
          /\ place' = "write"
    /\ elapsed' = 0
    /\ UNCHANGED <<processVars, wall>>

(* Code that has no UTF-8 form is refused by write_text.                   *)
WriteSource ==
    /\ place = "write"
    /\ \/ place' = "popen" /\ UNCHANGED <<status, stage>>
       \/ place' = "cleanup" /\ status' = "raised" /\ stage' = "none"
    /\ UNCHANGED <<processVars, wall, elapsed, workdir>>

(* Mutant: a missing interpreter or compiler is not noticed.               *)
PopenBlind ==
    /\ place = "popen"
    /\ place' = "wait"
    /\ leader' \in {"running", "none"}
    /\ wall' = 0
    /\ UNCHANGED <<stage, group, escaped, elapsed, status, workdir>>

Popen ==
    /\ place = "popen"
    /\ \/ /\ place' = "wait"
          /\ leader' = "running"
          /\ UNCHANGED status
       \/ /\ place' = "decide"
          /\ status' = "error"
          /\ UNCHANGED leader
    /\ wall' = 0
    /\ UNCHANGED <<stage, group, escaped, elapsed, workdir>>

(* _run is done with the stage; what is still alive it leaves alone.       *)
Leave ==
    /\ leader' = "none"
    /\ group' = {}
    /\ escaped' = {}
    /\ place' = "decide"
    /\ UNCHANGED <<stage, wall, elapsed, workdir>>

PipesClosed == "holding" \notin group \union escaped

(* communicate returns. *)
Collect ==
    /\ place = "wait"
    /\ leader \in Codes
    /\ PipesClosed
    /\ status' = IF leader = "zero" THEN "ok" ELSE "runtime_error"
    /\ Leave

(* communicate raises, and nobody is killed: at once, when the input of    *)
(* run_code cannot be encoded (the compilers get none), or once the pipes  *)
(* are closed, when the output is no text, even if the leader has only let *)
(* go of them and runs on.                                                 *)
Refuse ==
    /\ place = "wait"
    /\ \/ stage = "run" /\ wall = 0
       \/ PipesClosed
    /\ status' = "error"
    /\ Leave

(* Mutant: the leader is killed and the rest of the output is waited for.  *)
ExpireAndWait ==
    /\ place = "wait"
    /\ wall = Timeout
    /\ leader = "running"
    /\ leader' = "nonzero"
    /\ UNCHANGED <<place, stage, group, escaped, wall, elapsed, status, workdir>>

(* communicate has waited long enough, for the leader or for a pipe that   *)
(* some other process holds: the group is killed, which does not reach     *)
(* those that have left it, and the pipes are not waited for any more.     *)
Expire ==
    /\ place = "wait"
    /\ wall = Timeout
    /\ status' = "timeout"
    /\ Leave

(* Mutant: the status of the compiler is returned as it is.                *)
DecideUnnamed ==
    /\ place = "decide"
    /\ \/ /\ stage = "compile" /\ status = "ok"
          /\ stage' = "run"
          /\ place' = "popen"
       \/ /\ stage = "run" \/ status # "ok"
          /\ place' = "cleanup"
          /\ UNCHANGED stage
    /\ UNCHANGED <<processVars, wall, elapsed, status, workdir>>

(* Mutant: a compiler that took too long is started again.                 *)
DecideRetry ==
    /\ place = "decide"
    /\ \/ /\ stage = "compile" /\ status \in {"ok", "timeout"}
          /\ stage' = IF status = "ok" THEN "run" ELSE "compile"
          /\ place' = "popen"
          /\ UNCHANGED status
       \/ /\ stage = "compile" /\ status \notin {"ok", "timeout"}
          /\ status' = "compile_error"
          /\ place' = "cleanup"
          /\ UNCHANGED stage
       \/ /\ stage = "run"
          /\ place' = "cleanup"
          /\ UNCHANGED <<stage, status>>
    /\ UNCHANGED <<processVars, wall, elapsed, workdir>>

Decide ==
    /\ place = "decide"
    /\ \/ /\ stage = "compile" /\ status = "ok"
          /\ stage' = "run"
          /\ place' = "popen"
          /\ UNCHANGED status
       \/ /\ stage = "compile" /\ status # "ok"
          /\ status' = "compile_error"
          /\ place' = "cleanup"
          /\ UNCHANGED stage
       \/ /\ stage = "run"
          /\ place' = "cleanup"
          /\ UNCHANGED <<stage, status>>
    /\ UNCHANGED <<processVars, wall, elapsed, workdir>>

(* The finally block; then the call returns or raises. rmtree ignores its  *)
(* errors: a program may have left what it cannot remove.                  *)
Cleanup ==
    /\ place = "cleanup"
    /\ workdir' \in {FALSE, stage # "none"}
    /\ place' = "idle"
    /\ UNCHANGED <<stage, processVars, wall, elapsed, status>>

-----------------------------------------------------------------------------
(* The processes and the time they take.                                   *)

(* A new process stays in the group of the one that forked it, or makes a  *)
(* session of its own.                                                     *)
Fork(kind) ==
    /\ \/ /\ leader = "running" \/ group # {}
          /\ group' = group \union {kind}
          /\ UNCHANGED escaped
       \/ /\ leader = "running" \/ group \union escaped # {}
          /\ escaped' = escaped \union {kind}
          /\ UNCHANGED group
    /\ UNCHANGED <<place, stage, leader, wall, elapsed, status, workdir>>

(* The leader ends by itself, or the kernel ends it at one of its limits.  *)
Exit ==
    /\ leader = "running"
    /\ leader' \in Codes
    /\ UNCHANGED <<place, stage, group, escaped, wall, elapsed, status, workdir>>

(* All other processes of one kind have ended or let go of the pipes.      *)
ChildrenEnd(kind) ==
    /\ \/ kind \in group /\ group' = group \ {kind} /\ UNCHANGED escaped
       \/ kind \in escaped /\ escaped' = escaped \ {kind} /\ UNCHANGED group
    /\ UNCHANGED <<place, stage, leader, wall, elapsed, status, workdir>>

Tick ==
    /\ place = "wait"
    /\ wall < Timeout
    /\ wall' = wall + 1
    /\ elapsed' = elapsed + 1
    /\ UNCHANGED <<place, stage, processVars, status, workdir>>

-----------------------------------------------------------------------------
Step == WriteSource \/ Popen \/ Collect \/ Expire \/ Decide \/ Cleanup

Processes ==
    \/ \E kind \in Kinds : Fork(kind) \/ ChildrenEnd(kind)
    \/ Exit

Next ==
    \/ \E lang \in Compiled \union Interpreted \union Unknown : Call(lang)
    \/ Step
    \/ Refuse
    \/ Processes
    \/ Tick

Spec == Init /\ [][Next]_vars

(* Time passes and the thread goes on; programs need not do anything, and  *)
(* no input or output need be refused.                                     *)
Fairness == WF_vars(Step) /\ WF_vars(Tick)

FairSpec == Spec /\ Fairness

-----------------------------------------------------------------------------
(* Correctness. TypeOK above is the type invariant.                        *)

(* A call keeps its thread of the pool for no longer than one timeout for  *)
(* each stage it has reached, whatever the program forks, holds open or    *)
(* ends with: two for a compiled language, one when the compiler fails.    *)
CallIsShort ==
    /\ stage = "none" => elapsed = 0
    /\ stage = "compile" => elapsed <= Timeout
    /\ elapsed <= 2 * Timeout

(* The status says which stage went wrong: timeout, runtime_error and ok   *)
(* are only said of a program that was started, compile_error never.       *)
StatusNamesStage ==
    place = "idle" =>
        /\ status \in {"ok", "runtime_error", "timeout"} => stage = "run"
        /\ status = "compile_error" => stage = "compile"

(* Every call returns, whatever the program does: it may never end, and    *)
(* its children may hold the pipes for ever after it has, in its process   *)
(* group or outside.                                                       *)
CallReturns == place # "idle" ~> place = "idle"

=============================================================================
