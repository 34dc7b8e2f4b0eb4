--------------------------- MODULE MCAgentPipeline ---------------------------
(***************************************************************************)
(* Tasks of the type write-tests.  The playbooks keep what decides a       *)
(* verdict in tools/playbooks/write-tests.nu: the steps that gate, approve *)
(* or forbid task/advance, and the patterns.  The long one has the plan    *)
(* review, the short one gets to the write step in one advance.            *)
(***************************************************************************)
EXTENDS AgentPipeline

CONSTANTS t1, t2, t3

Step(name, approved_tools, forbidden) ==
    [name |-> name, approved |-> approved_tools, forbidden |-> forbidden,
     automated |-> name = "survey"]

Survey == Step("survey", {"compile/check"},
               {"task/advance", "task/write-coverage-plan",
                "task/evaluate-coverage-plan"})
Orient == Step("orient", {"task/advance", "task/write-coverage-plan"},
               {"task/halt", "compile/*", "task/evaluate-coverage-plan"})
Review == Step("plan-review", {"task/advance", "task/write-coverage-plan",
                               "task/evaluate-coverage-plan"},
               {"task/halt", "compile/*"})
Write  == Step("write", {"compile/check"}, {"task/advance"})

\* The tools of global_approved_tools that the calls below use.
Globals == {"task/state", "task/record-attempt", "task/halt",
            "meta/orient-report"}

Playbook(steps) ==
    [op \in {"write-tests"} |-> [steps |-> steps, global |-> Globals]]

ReviewPlaybooks == Playbook(<<Survey, Orient, Review, Write>>)
WritePlaybooks  == Playbook(<<Survey, Orient, Write>>)

\* t1 is at the step the taskfile of the repository has (agent-task.json); t2
\* and t3 were left at later ones by an earlier run.  The first advance of t3
\* completes it and loads t2, of whose step TaskActor then tells the checker.
MCEntry ==
    [t \in {t1, t2, t3} |->
        [crate |-> "core", op |-> "write-tests",
         step  |-> CASE t = t1 -> "survey" [] t = t2 -> "plan-review" [] t = t3 -> "write",
         index |-> CASE t = t1 -> 0 [] t = t2 -> 2 [] t = t3 -> 3]]

NewTask   == {<<t1>>}
NewOrLeft == {<<t1, t2, t3>>, <<t3, t2, t1>>}
MCCovers  == [p \in {"compile/*"} |-> {"compile/check"}]

-----------------------------------------------------------------------------
(***************************************************************************)
(* The calls.                                                              *)
(***************************************************************************)
Nu(tool) == [kind |-> "nu", tool |-> tool, arg |-> TRUE, summary |-> tool,
             test_file |-> FALSE, tests |-> 0]
WriteTests(n) == [kind |-> "write", tool |-> "write", arg |-> TRUE,
                  summary |-> "write: tests", test_file |-> TRUE, tests |-> n]

AdvanceCall  == Nu("task/advance")
PlanCall     == Nu("task/write-coverage-plan")
EvaluateCall == Nu("task/evaluate-coverage-plan")
CheckCall    == Nu("compile/check")
HaltCall     == Nu("task/halt")
ReportCall   == Nu("meta/orient-report")

\* The flag of this call is made with an underscore: the summary has no target
\* until the normaliser has renamed the flag.
KebabEvaluate == [EvaluateCall EXCEPT !.summary = "task/evaluate-coverage-plan:core"]

\* A command whose text names the tool, and may answer with any record.
ShellCall == [Nu("shell") EXCEPT !.kind = "shell",
                                 !.summary = "shell: task/evaluate-coverage-plan"]

MCEvaluations == {c.summary : c \in {EvaluateCall, KebabEvaluate, ShellCall}}

AdvanceOnly   == {AdvanceCall}
WriteCalls    == {AdvanceCall, CheckCall, WriteTests(1), ShellCall}
ControlCalls  == {AdvanceCall, PlanCall, EvaluateCall, HaltCall, ReportCall}

MCSummaries == {c.summary : c \in WriteCalls \cup ControlCalls \cup {KebabEvaluate}}

\* Calls the normaliser has nothing to change of, and calls it changes.
AsMade == [c \in Calls |-> c]
Normalised ==
    [c \in Calls |-> IF c = EvaluateCall THEN KebabEvaluate ELSE c]
=============================================================================
