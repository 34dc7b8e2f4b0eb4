------------------------------- MODULE Preflight -------------------------------
(***************************************************************************)
(* The survey of a crate before the agent begins: run_preflight of         *)
(* crates/actors/src/toolbox.rs.  It runs its commands one after the other *)
(* in one Nushell session, as the agent's own are run (ShellSession), and  *)
(* takes from each its value or its exit code.                             *)
(*                                                                         *)
(* Whether tests/ is there is asked with ls, which sets no exit code: the  *)
(* one that is read may be left of the commands before.                    *)
(***************************************************************************)
EXTENDS ShellSession, FiniteSets

\* The commands in their order; those of TestCommands are skipped when there
\* is no tests directory.
Commands     == <<"files", "actors", "derives", "tests_dir", "test_count", "unit", "props",
                  "check", "private">>
TestCommands == {"test_count", "unit", "props"}
Lists        == {"tests_dir", "unit", "props"}

\* PreflightResult, without source_file_count and has_private_fields, which
\* are only printed, and public_symbol_count, which stays 0.  listed holds the
\* lists that are thought to be there.
NoResult ==
    [actor_count |-> 0, derives |-> {}, existing_test_count |-> 0, listed |-> {},
     compiles_clean |-> FALSE, blocking |-> FALSE, estimated_tests_needed |-> 0]

NewSurvey == [next |-> 1, session |-> NewSession, result |-> NoResult,
              exists |-> {}, spoilt |-> FALSE, doubtful |-> {}]

-----------------------------------------------------------------------------
\* What a command's observation adds to the result; nothing if it is an error.
Noted(result, command, obs, value, derives) ==
    CASE obs.kind # "Structured"  -> result
      [] obs.kind = "Structured" /\ command = "actors" -> [result EXCEPT !.actor_count = value]
      [] obs.kind = "Structured" /\ command = "derives" -> [result EXCEPT !.derives = derives]
      [] obs.kind = "Structured" /\ command \in Lists ->
            IF obs.code = 0 THEN [result EXCEPT !.listed = @ \cup {command}] ELSE result
      [] obs.kind = "Structured" /\ command = "test_count" ->
            [result EXCEPT !.existing_test_count = value]
      [] obs.kind = "Structured" /\ command = "check" ->
            [result EXCEPT !.compiles_clean = obs.code = 0, !.blocking = obs.code # 0]
      [] obs.kind = "Structured" /\ command \in {"files", "private"} -> result

\* The estimate: one test for each derive that is tested, three per actor,
\* less those there are, and not below 0.
Estimated(result) ==
    LET needed == Cardinality(result.derives \cap {"serde", "rkyv"}) + 3 * result.actor_count
    IN  IF needed > result.existing_test_count
        THEN needed - result.existing_test_count ELSE 0

\* Mutant: the tests are skipped one command too far.
FollowingTooFar(survey, result) ==
    IF Commands[survey.next] = "tests_dir" /\ "tests_dir" \notin result.listed
    THEN survey.next + 7 ELSE survey.next + 1

\* The command that follows.
Following(survey, result) ==
    IF Commands[survey.next] = "tests_dir" /\ "tests_dir" \notin result.listed
    THEN survey.next + 4 ELSE survey.next + 1

SurveyDone(survey) == survey.next > Len(Commands)

\* One command.  exists, spoilt and doubtful are history: what ls found,
\* whether an exit code that is not 0 was set since the last error, and what
\* ls found while it was.
Surveyed(survey, eval, value, derives) ==
    LET command == Commands[survey.next]
        run     == run_command(survey.session, {}, eval)
        result  == Noted(survey.result, command, run.obs, value, derives)
        lists   == {command} \cap {c \in Lists : eval.end = "value"}
        spoilt  == CASE eval.end # "value"   -> FALSE
                     [] eval.end = "value" /\ eval.exit = NoCode -> survey.spoilt
                     [] OTHER -> eval.exit # 0
    IN  [next |-> Following(survey, result), session |-> run.session, result |-> result,
         exists |-> survey.exists \cup lists, spoilt |-> spoilt,
         doubtful |-> IF spoilt THEN survey.doubtful \cup lists ELSE survey.doubtful]

\* What the survey comes to.
Result(survey) == [survey.result EXCEPT !.estimated_tests_needed = Estimated(survey.result)]
=============================================================================
