---------------------------- MODULE AgentPipeline ----------------------------
(***************************************************************************)
(* The agent loop (crates/cli/src/main.rs) with the actors a tool call     *)
(* goes through: ArgNormalizer, ConstraintChecker, ToolRouter and, for the *)
(* task tools, TaskActor.  The agent makes one call at a time, but stops   *)
(* waiting for the router after 30 seconds, while the request stays in the *)
(* router's mailbox and is still executed: the router and the agent then   *)
(* run side by side on one policy context.                                 *)
(*                                                                         *)
(* The normaliser and the checker are assumed to answer in time.  A cast   *)
(* reaches the checker before the sender's next request to it, and         *)
(* TaskActor waits until the checker has its update, so each message of    *)
(* the checker is handled where it is sent.                                *)
(***************************************************************************)
EXTENDS PolicyContext, FiniteSets

CONSTANTS
    \* of TaskActor
    Tasks, Malformed, Entry, Queues, SaveOutcomes, MaxAttempts, NoTask, Torn,
    \* of ConstraintChecker
    Summaries, Covers, WindowSize, RepeatThreshold, HaltThreshold,
    \* of the agent
    Calls,          \* the calls the model may come up with
    Norm,           \* what the normaliser makes of each of them
    Evaluations,    \* the summaries that contain "evaluate-coverage-plan"
    Approvals,      \* whether an observation may have data.approved = true
    StepLimit,      \* step_limit
    RouterTimeouts, \* whether a call may take longer than 30 seconds
    LatePreflight   \* whether the preflight may outlast the boot

VARIABLES
    cur, pending, completed, halted, deferred, disk, reply, unsaved, visited,
    rejections, window,
    ctx,            \* the checker's context, which others replace
    preflight,      \* the preflight survey: [op, done], the type surveyed
    step,           \* the agent's step number
    phase,          \* where the loop is
    call,           \* the call of this step, as the model made it
    approved,       \* the observation counts as an approval of the plan
    inbox,          \* the router's mailbox
    told,           \* history: who told the checker last of a step
    trace,          \* history: the calls checked, each with the verdict
    ran             \* history: the calls executed, in the router's order

Task    == INSTANCE TaskActor
Checker == INSTANCE ConstraintChecker

taskVars  == <<cur, pending, completed, halted, deferred, disk, ctx, reply,
               unsaved, visited>>
agentVars == <<step, phase, call, approved>>
checkerVars == <<ctx, rejections, window>>
vars == <<taskVars, agentVars, rejections, window, preflight, inbox, told, trace,
          ran>>

Phases == {"think", "blocked", "waiting", "observed", "ended"}
Tellers == {"nobody", "survey", "TaskActor"}

ASSUME ComponentAssumptions ==
    /\ Task!TaskfileAssumption /\ Task!EntryAssumption
    /\ Task!PlaybookAssumption /\ Task!LedgerAssumption
    /\ Checker!WindowAssumption

\* The normaliser rewrites the flags of nushell tools and nothing else.
ASSUME CallsAssumption ==
    /\ Calls # {}
    /\ StepLimit \in Nat
    /\ Approvals \subseteq BOOLEAN
    /\ \A c \in Calls :
          /\ {c.summary, Norm[c].summary} \subseteq Summaries
          /\ {c.arg, Norm[c].arg} \subseteq BOOLEAN
          /\ Norm[c].kind = c.kind /\ Norm[c].tool = c.tool
          /\ c.kind # "nu" => Norm[c] = c

-----------------------------------------------------------------------------
(***************************************************************************)
(* The history: what the checker said of each call and what the router     *)
(* executed, each with the task and its step at that moment.  A call is    *)
(* recorded with the one who had told the checker of a step when it was    *)
(* checked, and with the number of requests executed by then.              *)
(***************************************************************************)
TaskNow == IF cur = NoTask THEN NoTask ELSE cur.id
StepNow == IF cur = NoTask THEN "none" ELSE cur.step

Moved == /\ cur # NoTask
         /\ \/ cur' = NoTask
            \/ <<cur'.id, cur'.step_index>> # <<cur.id, cur.step_index>>

Checked(made, blocked) ==
    [made |-> made, call |-> Norm[made], blocked |-> blocked,
     task |-> TaskNow, at |-> StepNow, told |-> told, after |-> Len(ran)]

Executed(c, passed) ==
    [call |-> c, approved |-> passed, moved |-> Moved,
     task |-> TaskNow, at |-> StepNow]

-----------------------------------------------------------------------------
(***************************************************************************)
(* The agent loop.                                                         *)
(***************************************************************************)
\* The model makes a call and the pipeline gives its verdict on the
\* normalised form of it: what is executed is sent to the router.
Call(c) ==
    /\ phase = "think"
    /\ LatePreflight \/ preflight.done
    /\ step < StepLimit
    /\ step' = step + 1
    /\ call' = c
    /\ approved' = FALSE
    /\ IF Checker!Blocks(Norm[c])
       THEN /\ phase' = "blocked"
            /\ inbox' = inbox
       ELSE /\ phase' = "waiting"
            /\ inbox' = Append(inbox, Norm[c])
    /\ trace' = Append(trace, Checked(c, Checker!Blocks(Norm[c])))
    /\ UNCHANGED <<taskVars, rejections, window, preflight, told,
                   ran>>

\* The limits of steps and cost are looked at before a request is made; the
\* model may submit, which is subject to no check, or fail for good.
End ==
    /\ phase = "think"
    /\ step' = step + 1
    /\ phase' = "ended"
    /\ UNCHANGED <<taskVars, call, approved, rejections, window, preflight,
                   inbox, told, trace, ran>>

\* The call of this step, the checker's side of it: the rejection is counted
\* under the call as the model made it.
Reject ==
    /\ phase = "blocked"
    /\ Checker!ToolCallRejected(call.summary)
    /\ phase' = "observed"
    /\ UNCHANGED <<cur, pending, completed, halted, deferred, disk, reply, unsaved,
                   visited, step, call, approved, preflight, inbox, told,
                   trace, ran>>

\* Mutants: there is no time limit; the request is sent again.
TimeoutNever == FALSE /\ UNCHANGED vars
TimeoutResending ==
    /\ RouterTimeouts
    /\ phase = "waiting"
    /\ inbox' = Append(inbox, Norm[call])
    /\ phase' = "observed"
    /\ UNCHANGED <<taskVars, step, call, approved, rejections, window, preflight,
                   told, trace, ran>>

\* call_t! gives up; the request is not withdrawn.
Timeout ==
    /\ RouterTimeouts
    /\ phase = "waiting"
    /\ phase' = "observed"
    /\ UNCHANGED <<taskVars, step, call, approved, rejections, window, preflight,
                   inbox, told, trace, ran>>

\* The last thing in the loop, whatever became of the call: the report is
\* made from the call as the model made it.
Report ==
    /\ phase = "observed"
    /\ Checker!ToolCallCompleted(
          [summary       |-> call.summary,
           step          |-> step,
           test_write    |-> Checker!IsTestWrite(call),
           compile_check |-> Checker!IsTool(call, "compile/check"),
           approved      |-> approved])
    /\ phase' = "think"
    /\ UNCHANGED <<cur, pending, completed, halted, deferred, disk, reply, unsaved,
                   visited, step, call, approved, preflight, inbox, told,
                   trace, ran>>

-----------------------------------------------------------------------------
(***************************************************************************)
(* The router.                                                             *)
(***************************************************************************)
\* The answer goes to the agent when it still waits for this request, which
\* is then the last of the mailbox.  The agent takes data.approved for an
\* approval of the plan when the call, as the model made it, names the tool.
Answer(passed) ==
    IF phase = "waiting" /\ Len(inbox) = 1
    THEN /\ phase' = "observed"
         /\ approved' = (passed /\ call.summary \in Evaluations)
    ELSE UNCHANGED <<phase, approved>>

\* Each task tool is one message to TaskActor (tools/task, tools/meta).
\* task/block sends a halt; task/next only asks for the state.
TaskTool(c) ==
    \/ Checker!IsTool(c, "task/advance") /\ Task!Advance(c.arg)
    \/ Checker!IsTool(c, "task/write-coverage-plan") /\ Task!WriteCoveragePlan(c.arg)
    \/ Checker!IsTool(c, "task/record-attempt") /\ Task!RecordAttempt
    \/ Checker!IsTool(c, "meta/orient-report") /\ Task!RecordOrient
    \/ \E tool \in {"task/halt", "task/block"} :
          Checker!IsTool(c, tool) /\ Task!Halt
    \/ \E tool \in {"task/state", "task/next"} :
          Checker!IsTool(c, tool) /\ Task!GetState

TaskTools == {"task/advance", "task/write-coverage-plan", "task/record-attempt",
              "meta/orient-report", "task/halt", "task/block", "task/state",
              "task/next"}

\* task/evaluate-coverage-plan asks TaskActor for the plan and compares it
\* with the crate; without a plan it does not approve.
Evaluate(c, passed) ==
    /\ Checker!IsTool(c, "task/evaluate-coverage-plan")
    /\ passed => cur # NoTask /\ cur.coverage_plan
    /\ Task!GetState

\* Any other call leaves the actors alone.  A command of the shell may answer
\* with any record; of the tools only evaluate-coverage-plan has data.approved.
OtherTool(c, passed) ==
    /\ c.kind = "nu" => c.tool \notin TaskTools \cup {"task/evaluate-coverage-plan"}
    /\ passed => c.kind = "shell"
    /\ UNCHANGED taskVars

\* handle: requests are dispatched one at a time in the order they came.
Route(passed) ==
    /\ inbox # <<>>
    /\ LET c == Head(inbox)
       IN  /\ \/ ~passed /\ TaskTool(c)
              \/ Evaluate(c, passed)
              \/ OtherTool(c, passed)
           /\ ran' = Append(ran, Executed(c, passed))
    /\ told' = IF Moved /\ cur' # NoTask THEN "TaskActor" ELSE told
    /\ inbox' = Tail(inbox)
    /\ Answer(passed)
    /\ UNCHANGED <<step, call, rejections, window, preflight, trace>>

-----------------------------------------------------------------------------
(***************************************************************************)
(* The preflight.  At boot ToolboxActor surveys the crate of the current   *)
(* task, which runs cargo check; when it is done the orchestrator gives    *)
(* the checker the first step of the playbook that is not automated,       *)
(* whichever step the task is at.                                          *)
(***************************************************************************)
FirstManual(op) ==
    CHOOSE i \in DOMAIN Playbooks[op].steps :
        /\ ~Playbooks[op].steps[i].automated
        /\ \A j \in 1 .. i - 1 : Playbooks[op].steps[j].automated

HasManual(op) ==
    /\ HasPlaybook(op)
    /\ \E i \in DOMAIN Playbooks[op].steps : ~Playbooks[op].steps[i].automated

\* global_approved_tools are those of every playbook.
AllGlobals == UNION {Playbooks[op].global : op \in DOMAIN Playbooks}

PreflightContext(op) ==
    LET first == Playbooks[op].steps[FirstManual(op)]
    IN  FreshContext(first.name, FirstManual(op) - 1, first.approved,
                     first.forbidden, AllGlobals)

\* The task surveyed is the one that was current at boot.
Preflight ==
    /\ ~preflight.done
    /\ preflight' = [op |-> preflight.op, done |-> TRUE]
    /\ IF HasManual(preflight.op)
       THEN /\ Checker!UpdateContext(PreflightContext(preflight.op))
            /\ told' = "survey"
       ELSE UNCHANGED <<checkerVars, told>>
    /\ UNCHANGED <<cur, pending, completed, halted, deferred, disk, reply, unsaved,
                   visited, step, phase, call, approved, inbox, trace, ran>>

-----------------------------------------------------------------------------
Init ==
    /\ Task!Init
    /\ cur # NoTask \* main ends at once without a current task
    /\ preflight = [op |-> Entry[cur.id].op, done |-> FALSE]
    /\ rejections = [s \in Summaries |-> 0]
    /\ window = <<>>
    /\ step = 0
    /\ phase = "think"
    /\ call = CHOOSE c \in Calls : TRUE
    /\ approved = FALSE
    /\ inbox = <<>>
    /\ told = "nobody"
    /\ trace = <<>>
    /\ ran = <<>>

Agent  == (\E c \in Calls : Call(c)) \/ End \/ Reject \/ Timeout \/ Report
Router == \E passed \in Approvals : Route(passed)

Next == Agent \/ Router \/ Preflight

Spec == Init /\ [][Next]_vars

\* The loop is one sequential task and call_t! returns within 30 seconds; the
\* router and the preflight owe nothing, for the programs they run may hang.
FairSpec == Spec /\ WF_vars(Agent)

-----------------------------------------------------------------------------
(***************************************************************************)
(* Properties.                                                             *)
(***************************************************************************)
TypeOK ==
    /\ Task!TypeOK
    /\ step \in 0 .. StepLimit + 1
    /\ phase \in Phases
    /\ preflight \in [op : {Entry[t].op : t \in Tasks}, done : BOOLEAN]
    /\ told \in Tellers
    /\ call \in Calls
    /\ approved \in BOOLEAN
    /\ inbox \in Seq({Norm[c] : c \in Calls})
    /\ rejections \in [Summaries -> Nat]
    /\ window \in Seq(Checker!Entries)
    /\ Len(window) <= WindowSize

\* The calls let through, and the requests the router has had or will have.
Sent == {i \in DOMAIN trace : ~trace[i].blocked}

Received == [i \in DOMAIN ran |-> ran[i].call] \o inbox

\* The requests the checker lets through are executed once each, in the order
\* the agent made them, and nothing else is: a request given up on is late,
\* never lost or executed twice.
CallsRunOnceInOrder ==
    /\ Len(Received) = Cardinality(Sent)
    /\ \A i \in Sent :
          trace[i].call = Received[Cardinality({k \in Sent : k <= i})]

\* Whether the request of a call let through has been executed, and that with
\* the task still at the step at which the call was checked.
Place(j) == Cardinality({k \in Sent : k <= j})

Done(j) == Place(j) \in DOMAIN ran

Undisturbed(j) ==
    \A k \in trace[j].after + 1 .. Place(j) - 1 : ~ran[k].moved

\* A task leaves plan-review by an advance only when its plan was approved
\* while it was there, by a request executed before (check_plan_review_gate).
\* It holds of an advance checked at a step TaskActor had told the checker of,
\* unless a request given up on moved the task before it was executed.
PlanReviewedFirst ==
    \A j \in Sent :
        Done(j) /\ Undisturbed(j) /\ trace[j].told = "TaskActor" =>
            LET done == ran[Place(j)]
            IN  done.at = "plan-review" /\ done.moved
                    /\ Checker!IsTool(done.call, "task/advance") =>
                    \E k \in 1 .. Place(j) - 1 :
                        /\ ran[k].task = done.task
                        /\ ran[k].at = "plan-review"
                        /\ ran[k].approved

\* A nushell tool is never executed at a step that forbids it, provided that
\* TaskActor had told the checker of a step and the task is still there; a call
\* checked after the survey's update, and before TaskActor tells of a step, is
\* none that the first manual step of the playbook forbids.
NothingForbiddenRuns ==
    \A j \in Sent : Done(j) =>
        LET done == ran[Place(j)]
        IN  /\ /\ trace[j].told = "TaskActor"
               /\ Undisturbed(j)
               /\ done.task # NoTask
               /\ HasStep(Entry[done.task].op, done.at)
               => ~Checker!Forbids(StepByName(Entry[done.task].op, done.at).forbidden,
                                   done.call)
            /\ trace[j].told = "survey" =>
                  ~Checker!Forbids(PreflightContext(preflight.op).forbidden_tools,
                                   done.call)

\* Between two test writes let through at the write step, the checker having
\* been told of it by TaskActor, compile/check has been called, unless the task
\* was moved between their checks.
CompileCalledBetweenWrites ==
    \A i, j \in Sent :
        /\ i < j
        /\ \A k \in {i, j} : Checker!IsTestWrite(trace[k].call)
        /\ trace[j].at = "write" /\ trace[j].told = "TaskActor"
        /\ \A k \in trace[i].after + 1 .. trace[j].after : ~ran[k].moved
        => \E k \in i + 1 .. j - 1 : Checker!IsTool(trace[k].call, "compile/check")

\* A nushell tool is not let through when RepeatThreshold of the last calls
\* were made as this one reads normalised, of as many calls as the window
\* surely holds: a blocked call fills two entries of it.
LoopingCallStops ==
    \A j \in DOMAIN trace :
        trace[j].call.kind = "nu" /\ ~trace[j].blocked =>
            Cardinality({i \in 1 .. j - 1 :
                /\ i >= j - WindowSize \div 2
                /\ trace[i].made.summary = trace[j].call.summary}) < RepeatThreshold

\* What the checker was told last: nothing; by the survey, the first step of
\* the playbook that is not automated, wherever the task is; by TaskActor, the
\* step the current task is at.
ToldContext ==
    CASE told = "nobody"    -> InitialContext
      [] told = "survey"    -> PreflightContext(preflight.op)
      [] told = "TaskActor" -> ContextFor(Entry[cur.id].op, cur.step, cur.step_index)

\* The checker enforces the step of the current task from the first advance
\* after the survey on, and until then what it was told before: whatever order
\* advance, halt and survey come in, no other step and no other list of tools.
CheckerEnforcesStep ==
    cur # NoTask =>
        /\ ctx.playbook_step         = ToldContext.playbook_step
        /\ ctx.playbook_index        = ToldContext.playbook_index
        /\ ctx.approved_tools        = ToldContext.approved_tools
        /\ ctx.forbidden_tools       = ToldContext.forbidden_tools
        /\ ctx.global_approved_tools = ToldContext.global_approved_tools

\* The agent loop comes to its end even when the router never answers.
LoopEnds == <>(phase = "ended")

-----------------------------------------------------------------------------
(***************************************************************************)
(* What a comment of the repository says of the program, and the code does *)
(* not do.                                                                 *)
(***************************************************************************)
\* "Same tool summary rejected N times in a row" (constraint_checker.rs:24):
\* whenever a call is about to be checked, its counter is the number of times
\* it was blocked since it was last let through.
RejectionsInARowCounted ==
    phase = "think" =>
        \A c \in Calls :
            rejections[c.summary] =
                Cardinality({i \in DOMAIN trace :
                    /\ trace[i].made.summary = c.summary
                    /\ \A j \in i .. Len(trace) :
                          trace[j].made.summary = c.summary => trace[j].blocked})

\* "Blocks task/advance in plan-review step until this is set" (policy.rs:194):
\* no task leaves plan-review by an advance unless its plan was approved there.
PlanGateHolds ==
    \A i \in DOMAIN ran :
        ran[i].at = "plan-review" /\ ran[i].moved
            /\ Checker!IsTool(ran[i].call, "task/advance") =>
            \E j \in 1 .. i - 1 :
                /\ ran[j].task = ran[i].task
                /\ ran[j].at = "plan-review"
                /\ ran[j].approved

\* "Tools forbidden in the current playbook step" (policy.rs:180), once the
\* survey is done: no nushell tool is executed at a step that forbids it.
ForbiddenInCurrentStep ==
    \A i \in DOMAIN ran :
        ran[i].task # NoTask /\ HasStep(Entry[ran[i].task].op, ran[i].at) =>
            ~Checker!Forbids(StepByName(Entry[ran[i].task].op, ran[i].at).forbidden,
                             ran[i].call)
=============================================================================
