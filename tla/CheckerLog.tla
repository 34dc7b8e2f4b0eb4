------------------------------ MODULE CheckerLog ------------------------------
(***************************************************************************)
(* The constraint checker under any messages at all: calls reported done   *)
(* or rejected in any order, contexts replaced at any moment by the task   *)
(* actor or the orchestrator.  The log keeps every report; the checker     *)
(* keeps a bounded summary of it.                                          *)
(***************************************************************************)
EXTENDS ConstraintChecker

CONSTANTS
    Contexts,     \* the contexts an UpdateContext may bring
    MaxReports    \* bound on the length of the log, for model checking

VARIABLE log      \* history: the entries of all the reports, oldest first

StepNames == {"survey"} \cup {c.playbook_step : c \in Contexts}

\* No sender of UpdateContext (TaskActor, the orchestrator) sets the flag.
ASSUME ContextsAssumption ==
    \A c \in Contexts : c \in PolicyContexts(StepNames) /\ ~c.plan_review_approved

logVars == <<ctx, rejections, window, log>>

\* A report carries what the agent loop may put in it.
Reports == [summary : Summaries, step : {Len(log) + 1}, test_write : BOOLEAN,
            compile_check : BOOLEAN, approved : BOOLEAN]

ReportCompleted(done) ==
    /\ Len(log) < MaxReports
    /\ ToolCallCompleted(done)
    /\ log' = Append(log, Completed(done.summary))

ReportRejected(summary) ==
    /\ Len(log) < MaxReports
    /\ ToolCallRejected(summary)
    /\ log' = Append(log, Rejected(summary))

ReplaceContext(context) ==
    /\ UpdateContext(context)
    /\ UNCHANGED log

LogInit == CheckerInit /\ log = <<>>

LogNext ==
    \/ \E done \in Reports : ReportCompleted(done)
    \/ \E summary \in Summaries : ReportRejected(summary)
    \/ \E context \in Contexts : ReplaceContext(context)

LogSpec == LogInit /\ [][LogNext]_logVars

-----------------------------------------------------------------------------
(***************************************************************************)
(* Properties.                                                             *)
(***************************************************************************)
\* Every variable has its type; the window holds WindowSize entries at most.
TypeOK ==
    /\ ctx \in PolicyContexts(StepNames)
    /\ rejections \in [Summaries -> Nat]
    /\ window \in Seq(Entries)
    /\ Len(window) <= WindowSize
    /\ log \in Seq(Entries)

\* The window is exactly the last WindowSize reports, so the bounded memory
\* of the checker loses only the oldest ones (push_window).
WindowIsEndOfLog ==
    LET dropped == IF Len(log) > WindowSize THEN Len(log) - WindowSize ELSE 0
    IN  window = SubSeq(log, dropped + 1, Len(log))

\* The counter of a call is the number of times it was rejected since it was
\* last reported done: "resets on any successful execution of that tool".
\* No other call's reports, and no change of the context, disturb it.
CountsRejectionsInARow ==
    \A s \in Summaries :
        rejections[s] =
            Cardinality({i \in DOMAIN log :
                /\ log[i] = Rejected(s)
                /\ \A j \in i .. Len(log) : log[j] # Completed(s)})

\* An approval never outlives the plan-review step: a step change replaces
\* the context, and a report that comes late finds another step there.
ApprovalOnlyInPlanReview ==
    ctx.plan_review_approved => ctx.playbook_step = "plan-review"
=============================================================================
