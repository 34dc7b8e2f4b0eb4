# A TLA+ model of the mini-swe-agent actor system

mini-swe-agent is a Rust program in which a language model works on a queue of
tasks.  The model proposes one tool call at a time.  Each call passes an
argument normaliser, a constraint checker and a tool router.  The task tools
end in an actor that owns the taskfile.  Most of the actors exchange messages
with [ractor], the rest of their state is shared behind locks.

This directory holds TLA+ modules of the parts that decide *what may run, when,
and what becomes of a task*, TLC configurations that check them on small
instances, and TLAPS proofs of the central invariants for all values of the
constants.  `PROJECT.json` maps every definition to the lines it models.

Paths below are relative to `src/`; `actors/`, `cli/`, `core/` and so on stand
for `src/crates/<name>/src/`.

Contents: [parts](#1-the-parts-of-the-system) ·
[modules](#2-the-modules) · [runs](#3-what-is-model-checked) ·
[disagreements](#4-where-the-code-and-its-comments-disagree) ·
[proofs](#5-what-is-proved) · [not modelled](#6-what-is-not-modelled) ·
[plan](#7-plan)

## 1. The parts of the system

| Part | Code | State | Operations |
|---|---|---|---|
| Agent loop | `cli/main.rs` 179-379 | step number, cost, messages | ask the model; normalise; check; route (30 s limit); report to the checker |
| ArgNormalizer | `actors/arg_normalizer.rs` | none between calls | rewrite a call to the form its tool takes |
| ConstraintChecker | `actors/constraint_checker.rs` | policy context, rejection counters, window of the last 30 calls | check; call completed; call rejected; replace the context |
| ToolRouter | `actors/tool_router.rs` | its mailbox, the nushell session | dispatch one call at a time |
| TaskActor | `actors/task_actor.rs`, `core/task.rs` | the taskfile in memory and on disk | advance, load, halt, defer, write plan, record attempt, record orient, state |
| Policy context, playbooks | `core/policy.rs`, `core/toolbox.rs` | immutable snapshots; the registry | look a step up |
| ToolboxActor | `actors/toolbox.rs` | tools, skills, playbooks; the preflight survey | scan, reload, survey the current task's crate |
| Orchestrator | `actors/orchestrator.rs` | system prompt, step banner | redraw both; give the checker a first context |
| ModelActor and client | `models/` | none between requests | send with retries; extract one tool call |
| ShellWorker, session | `environments/` | the session thread, its channel | run a nushell expression |
| EventLogger, event bus | `actors/event_*.rs` | mailbox, the open log | append an event |
| nu plugin | `nu-plugin-mswea/` | the connection to TaskActor | one RPC (5 s limit) per command |
| Tools, playbooks | `src/tools/**` | none | nushell scripts over the plugin's commands |

How they interact:

```
   model ──call──▶ agent loop ──▶ ArgNormalizer ──▶ ConstraintChecker ──verdict──┐
                     ▲   │                                ▲   ▲   ▲              │
        observation  │   └─ ToolCallCompleted/Rejected ───┘   │   │     passed   │
                     │                                        │   │              ▼
                     └───────────────── ToolRouter ◀──────────┼───┼───── RouteRequest
                                           │ nushell tool     │   │
                                           ▼                  │   │
                        nu plugin ──RPC──▶ TaskActor ─UpdateContext (waits for the ack)
                                           │                      │
                                           ▼                      │
                                       taskfile      ToolboxActor ─▶ Orchestrator ─UpdateContext
```

What is hard about it:

- **Three writers of one context.**  The checker's context is replaced by
  TaskActor at each step change, by the orchestrator when the preflight survey
  ends, and amended by the reports of the loop, and nobody reads it back.
- **A limit without a cancel.**  The loop waits 30 s for the router; the request
  it gives up on is executed later, under whatever context holds by then.
- **Check, act, report are three messages** made from two forms of the call: the
  normalised one is checked and executed, the original one is reported.
- **The report is sent whatever became of the call**, also after a block.
- **Bounded memory.**  A window of 30 entries, two per blocked call, and a
  threshold of 5 decide what a loop is.
- **Four lists and a file.**  A task moves between current, pending, completed,
  halted and deferred in one handler; the file is written afterwards, without a
  temporary file, and a failed write is only logged.
- **A restart** brings back the file, not the checker's context.
- **One session for everything.**  All commands and tools of the agent run in one
  embedded nushell and one process: what a call leaves on its stack, in its
  engine and in the working directory is there for the next.
- **Copies.**  Tools, playbooks, policy and skills exist on the disk, in
  ToolboxActor, behind shared locks, in the orchestrator and in the prompt; two
  actors send to the orchestrator, and the prompt is read once, after 100 ms.
- **Free text in, one call out.**  A model may write anything around its call,
  and a text without a call is retried as a broken connection is.
- **A bounded bus.**  A subscriber that lags is dropped without a word, and the
  trajectory's logger is stopped with events still on their way.

What makes each part correct:

- *TaskActor*: no task is lost or listed twice, no step is skipped, the file is
  the memory unless something failed, an error response moves nothing, the
  checker is told before the caller hears of a step.
- *ConstraintChecker*: its window is the end of the true history, its counters
  count what their comment says, an approval dies with its step.
- *Agent loop with router*: what the checker lets through runs once and in
  order; the plan review cannot be left unreviewed; a forbidden tool does not
  run; two test writes have a compile check called between them; a looping call
  is stopped; the loop ends.  Three of these hold only from the moment TaskActor
  has told the checker of a step (section 4).
- *Agent loop with model*: every request has its end in the trajectory, costs add
  up, no request follows a final answer, the exit code says what happened.
- *Extraction*: the scanner finds the outermost objects and no others; a builtin
  made as a tool is turned into the builtin.
- *ArgNormalizer with the router's flags*: a tool is run with the flags it
  declares, with the values the model gave them.
- *ToolRouter with the session*: what one call leaves behind does not reach the
  next; every call is answered unless a command never ends.
- *File tools*: an edit changes the one place it can mean, a search of a
  directory loses no match, and no match is made up.
- *ToolboxActor, orchestrator, boot*: when nothing is under way the copies agree,
  the prompt names no tool the router does not know, the survey reaches the
  prompt, the banner is that of the last step.
- *EventLogger with the bus*: what is missing from the trajectory is its end.

## 2. The modules

| Module | Models | Notes |
|---|---|---|
| `PolicyContext` | `core/policy.rs`, lookups of `core/toolbox.rs` | operators only |
| `TaskLedger` | the abstract promise of the task system | three final places, a queue, a durable copy that may be lost |
| `TaskActor` | `task_actor.rs`, `core/task.rs` | one action per request and `Restart`; implements `TaskLedger` |
| `ConstraintChecker` | `constraint_checker.rs` | state, seven checks, three messages; no next-state relation of its own |
| `CheckerLog` | the checker under *any* messages | adds the full log as history |
| `AgentPipeline` | `main.rs`, `tool_router.rs`, preflight | composes `TaskActor` and `ConstraintChecker` by `INSTANCE` on shared variables |
| `ModelOutput` | `models/extract.rs` | the scanner as code, and the grammar it is held to, as recursive functions |
| `AgentRun` | `main.rs`, `models/actor.rs`, `client.rs`, `exit.rs` | a whole run, from request to exit code; extends `ModelOutput` |
| `ArgNormalizer` | `arg_normalizer.rs`, `args_to_flags`, `parse_tool_flags` | operators only |
| `FileOps`, `FileSearch` | `environments/file_ops.rs` | operators on short texts, and on the lines rg prints |
| `ShellSession` | `environments/session.rs` | what an evaluation leaves behind; operators |
| `ToolRouter` | `tool_router.rs`, `shell_worker.rs` | the router, the session's thread and the files; extends the four above |
| `Preflight` | `run_preflight` of `actors/toolbox.rs` | the survey, command by command, on a `ShellSession` |
| `ContextSync` | `actors/toolbox.rs`, `orchestrator.rs`, `wiring.rs` | boot, scans, reloads, survey, prompt and banner; extends `Preflight` |
| `EventLog` | `event_bus.rs`, `event_logger.rs` | channel, mailbox, buffer, file |
| `DataLemmas` | | induction over the naturals, up and down, and sequences that grow |
| `TaskActorProofs`, `CheckerLogProofs`, `AgentPipelineProofs`, `AgentRunProofs`, `ToolRouterProofs`, `ContextSyncProofs`, `EventLogProofs` | | theorems about the module of that name |
| `MCTaskActor`, `MCCheckerLog`, `MCAgentPipeline`, `MCAgentRun`, `MCToolRouter`, `MCContextSync` | | constants for TLC |

Definitions marked `Mutant:` are variants of the definition below them with a
plausible slip.  No specification uses them; they show that each property can
fail.

### TaskActor

`cur`, `pending`, `completed`, `halted`, `deferred` are the lists of
`RuntimeTaskFile`, `disk` is the file, `reply` the last response and its `ok`
field, `ctx` the checker's context as this actor set it.  A handler runs to its
end before the next message is taken from the mailbox, and it is the only one to
touch the lists, so a handler is one action: guards and early returns
(`Refuse`), the change, `NotifyStepChange`, `Save` and the reply, in that order.

- `Save` is `fs::write`, which truncates and then writes: it may succeed, fail
  before the file is opened, or leave a file that does not parse (`Torn`).  All
  handlers but write-coverage-plan answer `ok` all the same.
- `pending` holds raw JSON values.  Those in `Malformed` do not deserialise;
  advance drops one silently, load drops one and answers with an error.
- `Restart` loads the file.  A file that does not parse stops the boot, so it is
  disabled.
- Left out: times, free texts, the contents of plan and orient report, the step
  budget (counted and shown, no handler acts on it).

History variables: `unsaved` (the memory may be ahead of the file) and `visited`
(the steps each task has been at).

### ConstraintChecker and CheckerLog

`ctx`, `rejections` and `window` are the fields of the actor's state.  A call is
a record of what the checks look at: kind, tool, whether its argument is there,
summary, whether the path is a test file, number of tests.  All checks are
evaluated and any rejection blocks, so `Blocks` is a disjunction of the seven.
`Check` itself changes nothing.  Patterns `ns/*` are looked up in `Covers`
instead of compared letter by letter.

`CheckerLog` lets every message come at every time with every content a sender
can give it.  Its `log` is the history the bounded memory must agree with.

### AgentPipeline

The agent's `phase` follows the loop:

| phase | the loop is at | actions |
|---|---|---|
| `think` | the top: limits, request to the model | `Call` (normalise, check, send), `End` |
| `blocked` | after a verdict of Block | `Reject` |
| `waiting` | in `call_t!` to the router | `Timeout`, or the router's `Route` |
| `observed` | after the observation | `Report` |
| `ended` | returned | |

The router serves `inbox` one request at a time (`Route`).  A task tool is one
message to TaskActor, and `Task!Advance` and its sisters are the very actions of
`TaskActor.tla`; they write the checker's `ctx`, since TaskActor waits for the
checker's acknowledgement.  `Preflight` is the one late message of the boot.

Abstractions, all of them named as constants or stated here:

- Mailboxes are FIFO.  A cast from the loop reaches the checker before the
  loop's next request does, so `Reject` and `Report` act where they are sent.
- The normaliser and the checker answer within their limit.  They do no I/O.
- `Norm` is what the normaliser makes of a call; its rules are in
  `ArgNormalizer`.  In `pipeline` it changes the summary of the evaluation, as it
  does for a flag written with an underscore; in the other runs the calls are
  written as the tools declare them.
- `Approvals` is what an observation may have under `data.approved`.  TRUE is
  included, which is what `task/evaluate-coverage-plan` says of a complete plan;
  with the state record of this commit, which omits the plan, the script never
  does.  A checker that is right for both is right for FALSE alone.  Of the tools
  only that one has such a field; a command of the shell may answer with any
  record.  The loop takes the field for an approval of the plan if the summary of
  the call contains the name of the tool (`Evaluations`, `main.rs:340`).
- `RouterTimeouts` says whether a call may outlast 30 s, `LatePreflight` whether
  the survey (a `cargo check`) may outlast the boot.  Both happen in practice and
  are TRUE in every passing run; the violation runs set them to FALSE where they
  are not what the run is about.
- A task is picked up at the step the taskfile has, whatever step that is.
- The model is any source of calls; submitting, failing for good and running out
  of cost are `End`.  The plugin's own limit of 5 s is not modelled: it changes
  what the observation says, not what is executed.
- Tools other than the task tools change nothing the actors look at.

`trace` (calls checked, with verdicts) and `ran` (calls executed) are history,
and so is `told`, the actor that last told the checker of a step: nobody, the
survey (through the orchestrator) or TaskActor.  The first of them is what the
checker starts with, the second gives it the first manual step of the playbook
wherever the task is, and only the third gives it the step of the task.

### ModelOutput and AgentRun

A text is a sequence of marks: braces, the quote, the backslash, and letters.  A
letter right after an opening brace stands for the fields of an object
(`Content`), any other is prose; so a text says what a scanner and a parser can
tell apart and no more.  `Scan` is one turn of the byte loop; `Objects` is the
grammar, by recursive descent, which the code is not written after.

`AgentRun` has one action per thing the loop or the client does: `Begin` (the
step, the limits, the request), `RequestFails`, `Respond` (the whole stream),
`NothingExtracted`, `Extracted`, `Observe` (the pipeline, which is
`AgentPipeline`'s), `Finish`.  `attempt` is the retry counter of backon, `sent`
the outcomes of this step's attempts, `trace` the events of the trajectory.

### ArgNormalizer, FileOps, FileSearch, ShellSession and ToolRouter

Arguments are the sequence of entries as written (serde_json keeps the order in
this build), then a function from flags to values.  A session keeps what one
call can leave to another: definitions and LAST_EXIT_CODE.  An evaluation's
outcome is a choice: a parse error, an error, or a value, with an exit code that
it may or may not set (only an external command does).  A line of rg is the
sequence of its parts between colons; `parse_rg_line` makes its match of the
parts, path, two numbers and the rest, whether rg has put the path there or not.

The router awaits one call at a time.  `Send` is the loop's call, `GiveUp` its
time limit; `DispatchShell` and `DispatchTool` take a call up to the session and
`Finish` is the rest of the handler; `Serve`, `Hang` and `Die` are the session's
thread.  `cwd` is the directory of the process, which the first tool moves from
the launch directory to the workspace; the two `files` are what one relative
path means in either.

### Preflight and ContextSync

A survey runs its commands in the session one after the other.  `ContextSync`
takes one action per handler up to a message it sends, as the handler awaits
there: `Reload`/`TaskLoaded`/`Command`/`Conclude` and then `Push`.  The prompt
and the banner are records of what goes into them.  No code of the repository
sends a reload; `SendReload` and `Edit` (of the disk) are the environment.
`published` is the history of the registries the router has read from.

### EventLog

`Emit` never waits.  `Forward` moves one event from the channel to the mailbox;
`Unsubscribe` is what tokio's broadcast does to a receiver that lags.  `Write` has
the three outcomes of a `BufWriter` that is flushed after each line: flushed,
kept in the buffer, lost.  A stop overtakes the mailbox.

## 3. What is model-checked

### Passing runs

| Run | Properties | What it shows |
|---|---|---|
| `task_actor` | `TypeOK`, `NoTaskLostOrDuplicated`, `NoStepSkipped`, `CheckerFollowsTask`, `FileUpToDate`, `ErrorReplyMovesNothing`, `ImplementsLedger` | every order of requests on three tasks and a malformed entry, with every pattern of failing writes and restarts |
| `checker_log` | `TypeOK`, `WindowIsEndOfLog`, `CountsRejectionsInARow`, `ApprovalOnlyInPlanReview` | the checker's bounded memory is a faithful summary of what it was told |
| `pipeline` | `TypeOK`, `PlanReviewedFirst`, `CallsRunOnceInOrder`, `CheckerEnforcesStep`, `NothingForbiddenRuns`, `LoopEnds` | a call given up on is late, never lost or doubled; the checker enforces what it was told last, and by whom; once TaskActor has told it of a step, the gate holds at the moment of *execution*, unless a request given up on has moved the task before; the loop ends even if a tool hangs |
| `write` | `CompileCalledBetweenWrites`, `LoopingCallStops` | the debt of a compile check is never forgotten; repetition is cut off |
| `agent_run` | `RunTypeOK`, `ScannerFollowsGrammar`, `TrajectoryReads`, `CostsAddUp`, `RetriesConfined`, `ExitCodeTells`, `RunEnds` | whatever the model writes and the endpoint does, the run ends, and trajectory, costs and exit code tell how |
| `tool_router` | `RouterTypeOK`, `ToolsAreIsolated`, `FlagsReachTheTool`, `EditIsUnambiguous`, `SearchLosesNothing`, `AnsweredUnlessHung` | two calls of any kind on one session: what the first leaves behind does not reach the second, and both are answered |
| `context_sync` | `SyncTypeOK`, `PromptNamesWhatIsThere`, `QuietCopiesAgree`, `SurveyDeniesNothing`, `SurveyReachesPrompt` | boot, survey, a reload, a step and a change of the disk in every interleaving |
| `event_log` | `LogTypeOK`, `NothingLostRunning`, `FileHasNoGap` | lags, failing flushes and the stop take from the end of the trajectory, never from its middle |

### Bounds, and why they are enough

- *Tasks*: two with a playbook, entering at different steps, one without, and a
  malformed entry, in two orders.  Two tasks share a crate, which is what defer
  goes by.  Every list operation meets the empty, the one-element and the longer
  list.  `MaxAttempts = 1`: the counter is reset or carried, its size is not
  looked at.
- *Playbooks*: three steps in `task_actor` (first, middle, last); in the
  pipeline the steps of `write-tests.nu` that decide a verdict.
- *Checker log*: a window of 3, a threshold of 2 and 5 reports, so the window
  overflows twice and every counter passes its threshold.  The proofs cover every
  size.
- *Pipeline*: 4 or 5 agent steps, 7 in two of the violation runs.  `t1` starts at
  survey, index 0, as the taskfile of the repository does (`agent-task.json:7`),
  `t2` at plan-review and `t3` at write, where an earlier run has left them;
  `pipeline` starts from `t1` or from `t3`, with the others in the queue.  Calls
  are given up on and the survey ends at any moment of every passing run.  Four
  steps are an advance that completes `t3` and loads `t2` at plan-review, of which
  TaskActor tells the checker, the plan, its evaluation and the advance from
  plan-review: the whole of what `PlanReviewedFirst` is about.  Five, in `write`,
  are two advances, two writes and a check.  The window is scaled to 6 and the
  thresholds to 3 so that they are reached within these steps; the ratio that
  matters, that a blocked call takes two entries, is kept.
- *Texts*: every sequence of up to four marks over the delimiters and one letter,
  and every choice of three pieces out of thirteen: whole objects of each kind,
  loose delimiters, an object with an escaped quote and a brace in a string, an
  object inside an object.  `MaxRetries = 2` stands for the code's 5: the loop
  around an attempt looks only at whether the counter has reached it.  Two steps
  and a cost limit between two costs let either limit end a run.
- *Router*: two calls, since every property relates a call to the one before it;
  twenty calls, chosen so that each branch of the dispatch is taken; among their
  arguments are a text that is a boolean, and one that is not, on a switch.  Texts
  and paths found by rg have colons and numbers where a line could be misread.
- *ContextSync*: one reload (of each kind), one change of the disk, one step.  The
  two disks differ in every part; on one a playbook's step has no name and on the
  other the playbook does not parse.  A survey meets each end of each command.
- *EventLog*: a channel of two and five events, so that a lag, a refill and a stop
  in each fit.  The proofs cover every size.
- `MaxReports`, `StepLimit`, `MaxAttempts`, `MaxEmitted`, `MaxCalls`, `MaxEdits`,
  `MaxReloads`, `MaxSteps` and `MaxLen` are the bounds of counters.  Only
  `StepLimit` exists in the code.

The runs of `AgentPipeline`, `AgentRun`, `ToolRouter`, `ContextSync` and
`EventLog` do not check for deadlock: the loop, the run and the logger end, and
the bounds stop the others.

### Fairness

- `FairSpec` (AgentPipeline) assumes weak fairness of the agent loop only: it is
  one sequential task of the runtime, and each thing it waits for is bounded by a
  time limit.  Nothing is assumed of the router (a tool may hang) or of the
  preflight, which may be as late as it likes in `pipeline` and `write`.
- `RunSpec` (AgentRun) assumes that the run goes on: a request ends within its
  120 s, a stage of the pipeline within its 30 s.  Which way each ends is free.
- `RouterSpec` assumes that the router's task and the session's thread are
  scheduled, and that a command which does not hang comes to its end.  A thread
  that hangs or dies stays so.
- `SyncSpec` assumes that the boot, ToolboxActor and the orchestrator are
  scheduled, and so that each command of the survey ends.  The code has no limit
  there (`run_preflight` awaits each command for as long as it takes), so
  `SurveyReachesPrompt` holds for a survey whose commands end.

## 4. Where the code and its comments disagree

Each of these runs checks one statement of a comment and ends with the behaviour
that contradicts it.  The statements are at the end of `AgentPipeline.tla` and
`AgentRun.tla`.

| Run | Statement | What happens |
|---|---|---|
| `stale_advance` | the gate blocks advance until the plan is approved (`policy.rs:194`) | advance is given up on after 30 s, made again, checked against the step before, and both are executed: the second leaves plan-review |
| `shipped_start` | the forbidden tools are those of the current playbook step (`policy.rs:180`) | the taskfile of the repository is at survey (`agent-task.json:7`), which forbids `task/advance` (`write-tests.nu:61`); after the survey the checker enforces orient (`toolbox.rs:226`), lets the advance through, and it is executed at survey |
| `rejections` | N times in a row (`constraint_checker.rs:24`) | the loop's own report after a block resets the counter, so it is 0 at every check and the halt threshold is out of reach |
| `lost_call` | the call comes at the end, and the last object that parses is taken (`extract.rs:11`) | an opening brace in the reasoning, or a quote inside one that never closes, holds the scanner to the end of the text; the call after it is not seen |

The models behave as the code does in more ways that a reader may not expect.  No
run is spent on them.

The checker and the loop:

- The checker knows the step of the task only from TaskActor's first message on,
  which is the answer to the first `task/advance`.  Until then it enforces
  nothing (before the survey has ended) or the first manual step of the playbook
  (after it), wherever the task is.  For the shipped taskfile this is what lets
  the first advance leave survey.  A task resumed at plan-review is enforced as
  `orient`, and its advance passes the gate unapproved.
- A survey that ends after the first advance puts the checker back to the first
  manual step until the next one (`orchestrator.rs:194`).
- A task taken from the queue at survey is at a step that forbids `task/advance`,
  and TaskActor tells the checker so: a halt ends it, or the next late survey.
- A shell command whose text contains `evaluate-coverage-plan` and whose answer
  has `data.approved` approves the plan (`main.rs:340`).
- A coverage plan written after the approval of another leaves plan-review on the
  old approval; nothing clears the flag (`constraint_checker.rs:154`).
- A blocked or refused call is reported as done (`main.rs:353`).  The sixth
  compile/check within the window is blocked as a repetition and counts as a
  check all the same (so the property is that it is *called*); a write refused for two tests counts as a
  test write, and the corrected one is refused for it.
- An agent that keeps to the six calls of the system prompt's standing orders has
  its sixth task/state blocked (`constraint_checker.rs:352` promises otherwise).
- For `crate_path` written with an underscore the window keeps the summary of the
  original and the check compares the normalised one, so that a repetition of
  it is never found (`constraint_checker.rs:322`, `main.rs:323`).
- plan-review cannot be approved: `task/state` omits the coverage plan
  (`commands/rpc/task_state.rs:56`), the evaluation finds none, and the step
  forbids `task/halt`.  And scaffold, write and verify forbid `task/advance`, the
  one request that leaves a step.

TaskActor:

- Saves that fail are answered with `ok` by all handlers but one
  (`FileUpToDate` is therefore conditional on `unsaved`).
- A task whose type has no playbook is completed by its first advance
  (`NoStepSkipped` leaves such tasks out).
- After a halt nothing is current, and no tool sends `LoadTask`.
- The budget of a step is counted and shown, and nothing acts on it.

Model and extraction:

- "up to 5 attempts" (`models/actor.rs`) are six requests: backon counts retries.
- `ModelRetried` is never emitted (nobody calls `with_event_sink`), and the loop's
  `ModelFailed` always says `attempts: 1`.
- An output that never parses ends the run as a model error (exit code 3), and
  responses without a call are paid for and not counted.
- A builtin made as a tool with its path inside `args` does not parse after
  `normalize_builtin_misrouting` has moved it; the coercion of the same mistake in
  `arg_normalizer.rs` 84-182 is not reached any more.

Router, session and files:

- `ShellCommandStarted` is sent before the shell policy is asked and has no end
  when the command is refused or nushell reports an error (`tool_router.rs:112`).
- A shell command that sets no exit code is reported with the one that an earlier
  command left on the stack (`session.rs:103`); tools are spared it.
- Relative paths of read, write and edit mean the launch directory until the
  first tool has been run, and the workspace from then on (`session.rs:138`).
- A `cd` in a command stays on the stack's PWD for the tools after it.
- edit counts occurrences that do not overlap (`file_ops.rs:73`), and an empty
  `old` counts a place between any two letters; a write of nothing to a file that
  is missing or cannot be read is refused as identical.
- A search takes a directory or a file (`capability.rs:179`).  For a single file
  rg prints no path, and the parser takes the first field for it
  (`file_ops.rs:153`): a hit is dropped, or, if its text begins with a number,
  read one field to the right (`12:3:7:foo` is line 3, column 7 of a file `12`).
  A path with colons and numbers in it is misread in the same way.
- A text on a switch that is neither "true" nor "false" is left to the checker
  (`arg_normalizer.rs:254`), which does not look at types, and reaches the tool's
  command line as it is.

Toolbox, prompt and boot:

- A reload does not write the shared playbook registry (`toolbox.rs:168`), empties
  the OODA section of the prompt, and is sent by no code.
- The banner of a new step is drawn with the approved tools of the step the last
  preflight found (`orchestrator.rs:138`), and its number of steps is that of
  whichever playbook a HashMap gives first (`orchestrator.rs:215`).
- The section of the shell policy is rendered and does not get into the prompt
  (`orchestrator.rs:190`, 251).
- The agent reads the prompt once, after 100 ms (`main.rs:186`); a survey takes a
  `cargo check` and comes later.
- The survey asks for `tests/` with `ls`, which sets no exit code, and so may read
  that of a command before (`SurveyDeniesNothing` says exactly when); its compile
  check is not valid nushell (`2>&1`, `$WORKSPACE_ROOT`).
- A step without a name is left out of a playbook and leaves a gap in the indices
  (`toolbox.rs:645`).

Trajectory:

- `AgentFinished` is sent right before the logger is stopped, and a stop overtakes
  the mailbox: it is often not in the file (`wiring.rs:298`).

## 5. What is proved

TLAPS checks the following for every value of the constants that satisfies the
named assumptions.  The assumptions only give constants their types and say what
the code takes for granted; TLC evaluates them in the runs.  Every invariant and
every action property of the passing runs is stated by a theorem, and so is the
refinement; what stays with TLC is at the end of this section.

| Module | Theorems | Assumptions |
|---|---|---|
| `TaskActorProofs` | `TypeCorrect`, `TasksConserved`, `FileFollowsMemory`, `CheckerIsTold`, `ErrorsMoveNothing`, `StepsInOrder`, `LedgerImplemented` | `TaskfileAssumption`, `EntryAssumption`, `PlaybookAssumption`, `LedgerAssumption` |
| `CheckerLogProofs` | `TypeCorrect`, `ApprovalConfined`, `WindowCorrect`, `CountsCorrect` | those of `ConstraintChecker` and `ContextsAssumption` |
| `AgentPipelineProofs` | `PipelineTyped`, `PipelineConservesTasks`, `PipelineIsLedger`, `RequestsRunOnce`, `LoopsAreStopped`, `StepIsEnforced`, `ForbiddenNeverRuns`, `PlanIsReviewedFirst`, `CompileBetweenWrites` | `ComponentAssumptions`, `CallsAssumption` |
| `AgentRunProofs` | `RetriesAreConfined`, `ExitCodeIsRight`, `TrajectoryIsReadable`, `CostsAreAdded`, `RunTyped`, `ScannerFollows` | `LimitsAssumption`, `TextsAssumption` |
| `ToolRouterProofs` | `RouterTyped`, `ToolsStayIsolated`, `FlagsAlwaysReachTheTool`, `EditsAreUnambiguous`, `SearchesLoseNothing` | `CallsAssumption`, `FilesAssumption`, `FindingsAssumption`, `KebabAssumption` |
| `ContextSyncProofs` | `SyncTyped`, `PromptIsTrue`, `CopiesAgree`, `SurveyIsTrue` | `BoundsAssumption` |
| `EventLogProofs` | `EventLogTyped`, `NothingIsLostRunning`, `TrajectoryHasNoGap` | `OutcomesAssumption`, `BoundsAssumption` |

**`TaskActorProofs!TypeCorrect`**: `Spec => []TypeOK`.  From
`TaskfileAssumption` (tasks and malformed entries are disjoint, a start queue
lists each entry once), `EntryAssumption` and `PlaybookAssumption` (steps are
counted from 1 to their number).  One step per handler; the file is typed because
it is a snapshot of typed lists.

**`TaskActorProofs!TasksConserved`**: `Spec => []NoTaskLostOrDuplicated`.  The
property says that the five places of a taskfile are disjoint, duplicate-free and
together hold every task, in memory and in the file.  Together with the types it
is inductive: the file has to be part of it because a restart makes it the
memory, and the malformed entries have to be part of the queue's distinctness
because a handler that drops the head does not know which kind it is.  The proof
rests on lemmas about the four ways a handler changes the lists (keep, take the
head, drop the head, move the current task to an end), each stated once for a
file.

**`TaskActorProofs`** adds four, each on top of the types:
`FileFollowsMemory` (`[]FileUpToDate`: every handler that changes a task ends in
the write, and a restart takes up what the file holds), `CheckerIsTold`
(`[]CheckerFollowsTask`: what does not tell the checker leaves the task at its
step, or no task), `ErrorsMoveNothing` (the action property
`ErrorReplyMovesNothing`) and `StepsInOrder` (`[]NoStepSkipped`).  The last needs
a strengthening, `StepsWalked`: the current task has been at every step from its
entry to its own, and the same of the file.  Without the first half nothing is
known when the last step is left; without the second a restart could take up a
task whose steps nobody has counted.

**`TaskActorProofs!LedgerImplemented`**: `Spec => ImplementsLedger`.  Initial
states map to initial states, and each handler is a move of the ledger or a
stutter.  `SavePersists` is the core of it: whatever a save comes to, the durable
copy is the new ledger, the old one or unreadable.  A restart needs that the file
holds a ledger, by the types, and `LedgerAssumption`, that an unreadable file is
not one.

**`CheckerLogProofs!TypeCorrect`**: the checker's types, and that the window
never exceeds `WindowSize`.

**`CheckerLogProofs!ApprovalConfined`**: an approval never outlives plan-review,
from `ContextsAssumption`: no sender of a context sets the flag.

**`CheckerLogProofs!WindowCorrect`**: the window is the last `WindowSize` reports
of the whole history.  Inductive together with the types; the work is a lemma on
what `push_window` does to the end of a growing sequence, with the cases of a
window that is filling, just full, and sliding.

**`CheckerLogProofs!CountsCorrect`**: the counter of a call is the number of its
rejections in the log that no report of its success follows.  The work is
`InARowAppended`: one more report empties that set, adds itself to it or leaves it
alone, as it is a success of the call, a rejection of it or anything else.

**`AgentPipelineProofs`, tasks and calls.**  `PipelineTyped`, with late answers, late
surveys and failing writes.  `PipelineConservesTasks` and `PipelineIsLedger`
carry `TasksConserved` and `LedgerImplemented` over to the pipeline: `Owner` is an
instance of `TaskActorProofs` on the shared variables, and `ToolIsTaskStep` shows
that a tool the router carries out is a step of TaskActor or a stutter.  Nothing
the agent, the reports or the survey do gets past the queue of requests.

`RequestsRunOnce` (`CallsRunOnceInOrder`): the rank of a call among those let
through is its place among the calls executed followed by those in the mailbox.
The calls let through have a number in the history, so the proof compares a
selection from a sequence with a cardinality.

`LoopsAreStopped` (`LoopingCallStops`), for every size of the window and every
threshold it can hold at two entries a call.  The invariant `WindowKeepsCalls`
gives every call of the history its entry in the window, at a distance from the
end of at most two for each later call, until it has left a full window; the
calls that count for a threshold are then entries of their own, and the checker
finds as many as there are.

**`AgentPipelineProofs`, what the checker enforces.**  Four theorems hold for every
playbook, taskfile, set of calls and normaliser, with late answers, late surveys
and failing writes.  None has a hypothesis on the constants beyond their types;
what the code does not give is in the statements, which distinguish who told the
checker of a step and whether a request in between has moved the task.

- `StepIsEnforced` (`CheckerEnforcesStep`): the invariant `StepTold` says what the
  checker's context is after the last message, by its sender.  `MovesOn` and
  `Stays` reduce the handlers of TaskActor to two cases: the step and the context
  stay, or both change together.
- `ForbiddenNeverRuns` (`NothingForbiddenRuns`) and `PlanIsReviewedFirst`
  (`PlanReviewedFirst`): `VerdictsStand` ties each verdict in the history to what
  was true when the call was checked: the lists it was held against, and for an
  advance from plan-review an approval among the requests executed
  (`ApprovedHere` says the same of the flag in the context).  A verdict stands as
  the history grows.  `TaskFound` says of the call's execution that the task is
  still where the verdict saw it, unless a request executed in between moved it;
  the two together are the theorems (`VerdictsHold`).
- `CompileBetweenWrites` (`CompileCalledBetweenWrites`): the invariant `WriteStep`
  says what the checker remembers at the write step: no test write let through
  since the task came there is later than the one in the context
  (`WritesRemembered`), and the compile check in the context was called
  (`CheckRemembered`).

**`AgentRunProofs`, the run.**  `RetriesAreConfined` and `ExitCodeIsRight` follow
from `RunBook`, which ties the attempts counted to the outcomes seen, and the
final status to the last outcome.  `TrajectoryIsReadable` needs `Telling`: what the
last event is in each phase, without which nothing is known of the next.
`CostsAreAdded` (`CostsAddUp`): `Paid`, the sums over a trajectory, is a recursive
function; `PaidIs` shows by induction on the length that it exists and is the only
one of its kind, and `PaidAppended` that one more event adds its price and leaves
what was paid before.  `RunTyped` needs that what is found in a text are spans of
it, which `ScanFits` gives mark by mark.

**`AgentRunProofs!ScannerFollows`**: the byte loop of `find_json_objects` finds, in
*every* text over the marks, the objects of the recursive grammar and no others
(`ScannerAgrees`; the theorem states it of the texts of a run).  A string is
followed from its opening quote: the scanner's escape flag is the parity of the
run of backslashes before the mark (`InsideGoesOn`), so it leaves the string at
the first quote the grammar lets close it, or never.  The rest goes from the end
of the text back to its start (`Downwards`): an object open at a mark at some
depth closes where `ObjectEnd` says, and from a mark that is in no object on, the
scanner adds what the grammar finds there.

**`ToolRouterProofs`.**  `RouterTyped`: the state keeps its type, and requests are
begun and answered in the order of their numbers.  `ToolsStayIsolated`: a tool
is reported with the exit code of its own run, or 0, and what the session has
defined commands have defined, never a tool, whichever way it ended.
`FlagsAlwaysReachTheTool`: `Normalized` follows `normalize` over the entries of the
object (induction over the entries): each key is a flag, and each value is one the
model gave under that name, with dashes or underscores, as it stands or as the
boolean of its text on a switch.
`EditsAreUnambiguous`: `CountOfOne` shows that a count of one, by the code's
matching without overlap, is of a place that overlaps all the others, and
`EditedFile` that the file changes there and nowhere else.  `SearchesLoseNothing`:
`MatchIsItsLine` shows that what a line is read as reads as that line again, and
`HitIsParsed` that the line of a hit without a colon in its path is read as that
hit.  Letters and parts of lines are constants, so that
this holds for texts of any length over any alphabet.  The invariant
`RouterKeeps` says these things of the whole history of answers and events.

**`ContextSyncProofs`.**  For any disks, and any number of edits, reloads and
steps.  The invariant `SyncInv`, which TLC checked on the run before it was
proved, is about the orchestrator's mailbox: the registrations of the builtins
come before everything else in it (`Registered`), its last update is of what
ToolboxActor has now, unless one is left to push (`UpdatesFresh`), and the last
step announced is the last in it or the one on the banner (`StepsFresh`).  The
copies then agree when the mailboxes are empty (`CopiesAgree`) and the prompt
names nothing the router has not read (`PromptIsTrue`).  `SurveyIsTrue`: `Sound`
follows the survey's record command by command.

**`EventLogProofs`**: `EventLogTyped` (`LogSpec => []LogTypeOK`),
`NothingIsLostRunning` (`[]NothingLostRunning`) and `TrajectoryHasNoGap`
(`[]FileHasNoGap`), from `OutcomesAssumption` and `BoundsAssumption`.  The
inductive invariant has the file, the buffer, the mailbox and the channel in a
row: they are what was emitted while the logger runs and is subscribed, and a
beginning of it once it has lagged or stopped, as a drop from the channel or
from the mailbox takes everything behind it too.  `FileHasNoGap` alone is not
inductive, as a step that appends to the file has to know what it appends.  The
work is in lemmas on sequences: moving a head from one queue to the end of the
one before it leaves the row alone, and so does emptying the buffer into the
file.

**`DataLemmas`.**  An induction rule that takes a predicate cannot be used here,
as none of the installed provers can instantiate it; one that takes the *set* of
the numbers with the property can.  `LeastNat` is proved from the finiteness of
the intervals, and `NaturalsFromZero`, `GreatestNat` and `Downwards` from it.

The bounds `MaxAttempts`, `MaxReports`, `MaxEmitted`, `MaxCalls`, `MaxEdits`,
`MaxReloads` and `MaxSteps` appear in guards, with any value.

Only model-checked: the liveness properties `LoopEnds`, `RunEnds`,
`AnsweredUnlessHung` and `SurveyReachesPrompt`, since liveness under fairness and
ENABLED are outside the prover; and the statements of the runs in section 4, which
are false.  No recursive operator is used anywhere; recursion is by recursive
functions, which the proofs show to exist before they use them.

## 6. What is not modelled

- *Model provider, cargo, the embedded nushell*: external; only what the code
  does with their answers matters.
- *The stream of a response*: `Respond` is the whole of it.  A line that does not
  parse is skipped by the client, which makes some text or none of it.
- *The message history, the skills and rules loaded at boot*: nothing the loop
  decides depends on them.
- *The nu plugin's connection and its limit of 5 s*: the limit changes what an
  observation says, not what TaskActor executes; `pipeline` has the same come
  apart at the router.
- *The cluster node, failing spawns*: a boot that fails ends the program.
- *Nushell tools other than the task tools*: they change nothing the actors look
  at.
- *Configuration, arguments, logging*: straight-line code.
- *Rendering of prompts, observations and feedback*: wording.

## 7. Plan

To extend the model, most important first:

1. `PlaybookProgress`: the playbooks of `src/tools/playbooks` as data; which steps
   can be left, and by which requests.
2. The plugin: its connection at start and its limit of 5 s, composed with the
   router's 30 s.
3. The PWD on the session's stack, and with it where a tool runs.

To prove, in this order:

1. What the pipeline makes of the checker's own promises: `CheckerLog` implemented
   by the messages of `AgentPipeline`, as `PipelineIsLedger` does for TaskActor.
2. How far an agent can come before TaskActor first speaks: what the checker lets
   through at the first manual step, against the step the task is at.

[ractor]: https://github.com/slawlor/ractor
