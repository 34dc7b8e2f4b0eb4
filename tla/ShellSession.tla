----------------------------- MODULE ShellSession -----------------------------
(***************************************************************************)
(* ShellWorker's thread and NushellSession (crates/environments/src/       *)
(* shell_worker.rs and session.rs): one embedded Nushell for all shell     *)
(* commands and tools of the agent.  Of the session's state the model      *)
(* keeps what one call can leave to another: the definitions of the        *)
(* engine and LAST_EXIT_CODE on the stack.                                 *)
(*                                                                         *)
(* A source is what it defines; an evaluation comes to an end, and sets    *)
(* the exit code or leaves it (only an external command sets it).          *)
(***************************************************************************)
EXTENDS FileOps

NewSession == [defs |-> {}, exit |-> NoCode]

\* How evaluating a source may come out.
Evaluations(codes) ==
    [end : {"parse error", "failed", "value"}, exit : codes \cup {NoCode}]

-----------------------------------------------------------------------------
\* What an evaluation leaves on the stack.
Evaluated(session, eval) ==
    IF eval.end = "parse error" \/ eval.exit = NoCode THEN session
    ELSE [session EXCEPT !.exit = eval.exit]

\* The value with the exit code that is on the stack; an error has code 1.
value_to_observation(session, eval) ==
    IF eval.end = "value"
    THEN Observed("Structured", IF session.exit = NoCode THEN 0 ELSE session.exit, <<>>)
    ELSE Failed(1)

\* Mutant: the stack stays.
reset_nothing(session) == session

\* Definitions stay in the engine, the stack is made new.
reset_stack(session) == [session EXCEPT !.exit = NoCode]

\* run_command and eval: what the source defines is merged before it is
\* evaluated, and stays when the evaluation fails.
run_command(session, defines, eval) ==
    LET merged == IF eval.end = "parse error" THEN session
                  ELSE [session EXCEPT !.defs = @ \cup defines]
        after  == Evaluated(merged, eval)
    IN  [session |-> IF eval.end = "value" THEN after ELSE reset_stack(after),
         obs |-> value_to_observation(after, eval)]

\* Mutant: the exit code of the call before is not removed.
run_tool_stale(session, defines, eval) ==
    LET after == Evaluated(session, eval)
    IN  [session |-> after, obs |-> value_to_observation(after, eval)]

\* run_tool and eval_ephemeral: the exit code is removed first, the
\* definitions go to a copy of the engine, and an error resets nothing.
run_tool(session, defines, eval) ==
    LET after == Evaluated([session EXCEPT !.exit = NoCode], eval)
    IN  [session |-> after, obs |-> value_to_observation(after, eval)]
=============================================================================
