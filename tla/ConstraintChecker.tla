-------------------------- MODULE ConstraintChecker --------------------------
(***************************************************************************)
(* ConstraintCheckerActor (crates/actors/src/constraint_checker.rs): it    *)
(* holds the policy context and the record of recent calls, says of each   *)
(* tool call whether it may run, and is told afterwards what became of it. *)
(*                                                                         *)
(* A call is a record                                                      *)
(*    [kind      : "nu", "shell", "read", "write", "edit" or "search",     *)
(*     tool      : "ns/tool" for a nushell tool, else the kind,            *)
(*     arg       : whether the tool gets the argument it insists on,       *)
(*     summary   : what ToolCall::summary() makes of it,                   *)
(*     test_file : whether the path is that of a .rs file under /tests/,   *)
(*     tests     : the number of #[test] in the content]                   *)
(* Only a write has a test_file or tests that a check looks at.            *)
(***************************************************************************)
EXTENDS PolicyContext, FiniteSets

CONSTANTS
    Summaries,       \* the summaries of the calls
    Covers,          \* from each pattern "ns/*" to the tools it covers
    WindowSize,      \* CALL_WINDOW_SIZE
    RepeatThreshold, \* SEQUENCE_REPEAT_THRESHOLD
    HaltThreshold    \* CONSECUTIVE_REJECTION_HALT_THRESHOLD

VARIABLES
    ctx,             \* the policy context
    rejections,      \* consecutive_rejections; 0 for a summary not listed
    window           \* call_window, oldest entry first

checker == <<ctx, rejections, window>>

ASSUME WindowAssumption ==
    /\ WindowSize \in Nat \ {0}
    /\ RepeatThreshold \in Nat \ {0}
    /\ HaltThreshold \in Nat \ {0}

\* An entry of the window: "REJECTED:" marks a blocked call.
Rejected(summary)  == [summary |-> summary, rejected |-> TRUE]
Completed(summary) == [summary |-> summary, rejected |-> FALSE]
Entries == [summary : Summaries, rejected : BOOLEAN]

\* Mutant: the oldest entry goes one report late.
PushedLate(entries, entry) ==
    Append(IF Len(entries) > WindowSize THEN Tail(entries) ELSE entries, entry)

\* push_window
Pushed(entries, entry) ==
    Append(IF Len(entries) >= WindowSize THEN Tail(entries) ELSE entries, entry)

-----------------------------------------------------------------------------
(***************************************************************************)
(* The checks.  Each names the calls it rejects.                           *)
(***************************************************************************)
IsTool(call, name) == call.kind = "nu" /\ call.tool = name

IsTestWrite(call) == call.kind = "write" /\ call.test_file

\* check_consecutive_rejections
RejectedTooOften(call) == rejections[call.summary] >= HaltThreshold

\* Mutant: one repetition too many.
RepeatedFarTooOften(call) ==
    /\ call.kind = "nu"
    /\ Cardinality({i \in DOMAIN window : window[i] = Completed(call.summary)})
         > RepeatThreshold

\* check_sequence_repetition: rejection markers do not count.
RepeatedTooOften(call) ==
    /\ call.kind = "nu"
    /\ Cardinality({i \in DOMAIN window : window[i] = Completed(call.summary)})
         >= RepeatThreshold

\* check_approved_tools: an empty list approves everything.
NotApproved(call) ==
    /\ ctx.approved_tools # {}
    /\ call.kind \in {"nu", "shell"}
    /\ call.tool \notin ctx.approved_tools \cup ctx.global_approved_tools

\* check_forbidden_tools
Matches(pattern, tool) ==
    IF pattern \in DOMAIN Covers THEN tool \in Covers[pattern]
                                 ELSE tool = pattern

Forbids(patterns, call) ==
    call.kind = "nu" /\ \E pattern \in patterns : Matches(pattern, call.tool)

\* check_one_test_per_write
SeveralTests(call) == IsTestWrite(call) /\ call.tests > 1

\* Mutant: one check settles it for good.
CompileOwedOnce(call) ==
    /\ ctx.playbook_step = "write"
    /\ IsTestWrite(call)
    /\ ctx.last_test_write # 0
    /\ ctx.last_compile_check = 0

\* check_compile_after_test_write
CompileOwed(call) ==
    /\ ctx.playbook_step = "write"
    /\ IsTestWrite(call)
    /\ ctx.last_test_write # 0
    /\ ctx.last_compile_check <= ctx.last_test_write

\* check_plan_review_gate
PlanNotReviewed(call) ==
    /\ ctx.playbook_step = "plan-review"
    /\ IsTool(call, "task/advance")
    /\ ~ctx.plan_review_approved

\* Mutant: the tools approved in every step are not looked for in the list.
BlocksNoGlobal(call) ==
    \/ RejectedTooOften(call)
    \/ RepeatedTooOften(call)
    \/ NotApproved(call)
    \/ /\ call.tool \notin ctx.global_approved_tools
       /\ Forbids(ctx.forbidden_tools, call)
    \/ SeveralTests(call)
    \/ CompileOwed(call)
    \/ PlanNotReviewed(call)

\* check: every check gives its verdict and one rejection blocks the call.
Blocks(call) ==
    \/ RejectedTooOften(call)
    \/ RepeatedTooOften(call)
    \/ NotApproved(call)
    \/ Forbids(ctx.forbidden_tools, call)
    \/ SeveralTests(call)
    \/ CompileOwed(call)
    \/ PlanNotReviewed(call)

-----------------------------------------------------------------------------
(***************************************************************************)
(* The messages that change the state.                                     *)
(***************************************************************************)
UpdateContext(context) ==
    /\ ctx' = context
    /\ UNCHANGED <<rejections, window>>

\* Mutants: any report in plan-review approves; the flag stays up.
PlanFlagAnyReport(context, approved) == context.playbook_step = "plan-review"
PlanFlagStays(context, approved) == context.plan_review_approved \/ approved

\* The flag goes up on an approval and down outside plan-review.
PlanFlag(context, approved) ==
    /\ context.playbook_step = "plan-review"
    /\ context.plan_review_approved \/ approved

\* Mutant: a success clears every counter.
ToolCallCompletedClearing(done) ==
    /\ rejections' = [s \in Summaries |-> 0]
    /\ window' = Pushed(window, Completed(done.summary))
    /\ ctx' = [ctx EXCEPT
                 !.plan_review_approved = PlanFlag(ctx, done.approved),
                 !.last_test_write    = IF done.test_write THEN done.step ELSE @,
                 !.last_compile_check = IF done.compile_check THEN done.step ELSE @]

\* ToolCallCompleted: done is [summary, step, test_write, compile_check,
\* approved], step the agent's step number.
ToolCallCompleted(done) ==
    /\ rejections' = [rejections EXCEPT ![done.summary] = 0]
    /\ window' = Pushed(window, Completed(done.summary))
    /\ ctx' = [ctx EXCEPT
                 !.plan_review_approved = PlanFlag(ctx, done.approved),
                 !.last_test_write    = IF done.test_write THEN done.step ELSE @,
                 !.last_compile_check = IF done.compile_check THEN done.step ELSE @]

ToolCallRejected(summary) ==
    /\ rejections' = [rejections EXCEPT ![summary] = @ + 1]
    /\ window' = Pushed(window, Rejected(summary))
    /\ UNCHANGED ctx

\* pre_start
CheckerInit ==
    /\ ctx = InitialContext
    /\ rejections = [s \in Summaries |-> 0]
    /\ window = <<>>
=============================================================================
