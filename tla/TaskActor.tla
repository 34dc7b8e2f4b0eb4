------------------------------ MODULE TaskActor ------------------------------
(***************************************************************************)
(* TaskActor (crates/actors/src/task_actor.rs): the one owner of the       *)
(* taskfile.  It keeps the file in memory, answers the task RPCs one at a  *)
(* time, writes the whole file back after each mutation and loads it again *)
(* when the process restarts.                                              *)
(*                                                                         *)
(* A handler is one action: the actor's mailbox is served sequentially and *)
(* nothing else reads its memory.  The write of the file may fail before   *)
(* or after the file has been truncated; handlers only log that.           *)
(***************************************************************************)
EXTENDS PolicyContext, FiniteSets

CONSTANTS
    Tasks,        \* the taskfile entries that deserialise to a RuntimeTask
    Malformed,    \* the pending entries that do not
    Entry,        \* what each entry of Tasks carries: [crate, op, step, index]
    Queues,       \* the task orders a taskfile may start with
    SaveOutcomes, \* what a write of the taskfile may come to
    MaxAttempts,  \* bound on step_attempts, for model checking
    NoTask,       \* current_task = None
    Torn          \* a taskfile that does not parse

VARIABLES
    cur,          \* current_task
    pending,      \* the queue of raw entries
    completed, halted, deferred,
    disk,         \* the backing file
    ctx,          \* the policy context as this actor last set it
    reply,        \* the last response: the command and its ok field
    unsaved,      \* history: the memory may be ahead of the file
    visited       \* history: the step indices each task has been at

vars == <<cur, pending, completed, halted, deferred, disk, ctx, reply,
          unsaved, visited>>

Crates == {Entry[t].crate : t \in Tasks}

Distinct(s) == \A i, j \in DOMAIN s : s[i] = s[j] => i = j
Elements(s) == {s[i] : i \in DOMAIN s}

(***************************************************************************)
(* RuntimeTask and RuntimeTaskFile (crates/core/src/task.rs).  Times,      *)
(* texts and the budget, which no handler acts on, are left out.           *)
(***************************************************************************)
StepNames == {Entry[t].step : t \in Tasks}
             \cup UNION {{Playbooks[op].steps[i].name :
                            i \in DOMAIN Playbooks[op].steps} :
                          op \in DOMAIN Playbooks}

RuntimeTasks == [id : Tasks, step : StepNames, step_index : Nat,
                 step_attempts : 0..MaxAttempts, coverage_plan : BOOLEAN]

Files == [cur : RuntimeTasks \cup {NoTask}, pending : Seq(Tasks \cup Malformed),
          completed : Seq(Tasks), halted : Seq(Tasks), deferred : Seq(Tasks)]

\* Every entry of a taskfile is listed once, and the well-formed ones are all
\* listed; NoTask and Torn are no entries.
ASSUME TaskfileAssumption ==
    /\ Tasks \cap Malformed = {}
    /\ NoTask \notin Tasks \cup Malformed
    /\ \A q \in Queues : /\ q \in Seq(Tasks \cup Malformed)
                         /\ Distinct(q)
                         /\ Tasks \subseteq Elements(q)
    /\ SaveOutcomes \subseteq {"written", "unopened", "truncated"}
    /\ MaxAttempts \in Nat
    /\ NoTask \notin RuntimeTasks
    /\ Torn \notin Files

ASSUME EntryAssumption ==
    \A t \in Tasks : Entry[t].index \in Nat

ASSUME PlaybookAssumption ==
    \A op \in DOMAIN Playbooks :
        /\ StepCount(op) \in Nat
        /\ DOMAIN Playbooks[op].steps = 1 .. StepCount(op)

-----------------------------------------------------------------------------
(***************************************************************************)
(* The task record and the file.                                           *)
(***************************************************************************)
\* A RuntimeTask as the taskfile lists it.
Fresh(t) == [id |-> t, step |-> Entry[t].step, step_index |-> Entry[t].index,
             step_attempts |-> 0, coverage_plan |-> FALSE]

Op(task) == Entry[task.id].op

Snapshot == [cur |-> cur, pending |-> pending, completed |-> completed,
             halted |-> halted, deferred |-> deferred]

\* RuntimeTaskFile::save: fs::write opens and truncates, then writes.
Save ==
    \/ /\ "written" \in SaveOutcomes
       /\ disk' = Snapshot'
       /\ unsaved' = FALSE
    \/ /\ "unopened" \in SaveOutcomes
       /\ disk' = disk
       /\ unsaved' = TRUE
    \/ /\ "truncated" \in SaveOutcomes
       /\ disk' = Torn
       /\ unsaved' = TRUE

Reply(cmd, ok) == reply' = [cmd |-> cmd, ok |-> ok]

\* An early return: nothing but the response changes.
Refuse(cmd) ==
    /\ Reply(cmd, FALSE)
    /\ UNCHANGED <<cur, pending, completed, halted, deferred, disk, ctx,
                   unsaved, visited>>

\* Mutant: the checker is not told.
NotifyNobody == ctx' = ctx

\* Mutant: the checker is told of the step before.
NotifyStepBefore ==
    ctx' = IF cur = NoTask THEN ctx
           ELSE ContextFor(Op(cur), cur.step, cur.step_index)

\* notify_step_change, when there is a current task to tell of.
NotifyStepChange ==
    ctx' = IF cur' = NoTask THEN ctx
           ELSE ContextFor(Op(cur'), cur'.step, cur'.step_index)

\* History: the step the current task is at has been visited.
Visit ==
    visited' = IF cur' = NoTask THEN visited
               ELSE [visited EXCEPT ![cur'.id] = @ \cup {cur'.step_index}]

\* The first entry of a queue as a current task, when it deserialises.
Deserialised(queue) ==
    IF queue # <<>> /\ Head(queue) \in Tasks THEN Fresh(Head(queue)) ELSE NoTask

\* Mutant: the head is read and not removed.
RestKeepsHead(queue) == queue

Rest(queue) == IF queue = <<>> THEN <<>> ELSE Tail(queue)

-----------------------------------------------------------------------------
(***************************************************************************)
(* Advance.                                                                *)
(***************************************************************************)
\* Mutant: one step too early.
LastStepEarly(task) ==
    HasPlaybook(Op(task)) => task.step_index + 2 >= StepCount(Op(task))

\* handle_advance_msg: no playbook counts as having no step left.
LastStep(task) ==
    HasPlaybook(Op(task)) => task.step_index + 1 >= StepCount(Op(task))

\* Mutant: the advance counts as an attempt at the next step.
SteppedCounting(task) ==
    [id |-> task.id, step |-> StepByIndex(Op(task), task.step_index + 1).name,
     step_index |-> task.step_index + 1, step_attempts |-> task.step_attempts + 1,
     coverage_plan |-> task.coverage_plan]

\* The next step keeps the plan and the step budget of the task.
Stepped(task) ==
    [id |-> task.id, step |-> StepByIndex(Op(task), task.step_index + 1).name,
     step_index |-> task.step_index + 1, step_attempts |-> 0,
     coverage_plan |-> task.coverage_plan]

\* Mutant: a failed save makes an error of the response.
StepForwardReporting ==
    /\ cur # NoTask
    /\ ~LastStep(cur)
    /\ cur' = Stepped(cur)
    /\ NotifyStepChange
    /\ UNCHANGED <<pending, completed, halted, deferred>>
    /\ Save
    /\ Visit
    /\ Reply("advance", ~unsaved')

StepForward ==
    /\ cur # NoTask
    /\ ~LastStep(cur)
    /\ cur' = Stepped(cur)
    /\ NotifyStepChange
    /\ UNCHANGED <<pending, completed, halted, deferred>>
    /\ Save
    /\ Visit
    /\ Reply("advance", TRUE)

\* The next entry leaves the queue whether or not it deserialises.
CompleteTask ==
    /\ cur # NoTask
    /\ LastStep(cur)
    /\ completed' = Append(completed, cur.id)
    /\ cur' = Deserialised(pending)
    /\ pending' = Rest(pending)
    /\ NotifyStepChange
    /\ UNCHANGED <<halted, deferred>>
    /\ Save
    /\ Visit
    /\ Reply("advance", TRUE)

Advance(verified) ==
    \/ (~verified \/ cur = NoTask) /\ Refuse("advance")
    \/ verified /\ StepForward
    \/ verified /\ CompleteTask

-----------------------------------------------------------------------------
(***************************************************************************)
(* The other handlers.                                                     *)
(***************************************************************************)
\* With a current task, or with none pending, there is nothing to load.
NothingToLoad ==
    /\ cur # NoTask \/ pending = <<>>
    /\ Reply("load", TRUE)
    /\ UNCHANGED <<cur, pending, completed, halted, deferred, disk, ctx,
                   unsaved, visited>>

LoadNext ==
    /\ cur = NoTask
    /\ pending # <<>>
    /\ Head(pending) \in Tasks
    /\ cur' = Fresh(Head(pending))
    /\ pending' = Tail(pending)
    /\ NotifyStepChange
    /\ UNCHANGED <<completed, halted, deferred>>
    /\ Save
    /\ Visit
    /\ Reply("load", TRUE)

\* A malformed entry leaves the memory's queue; the file is not written.
LoadMalformed ==
    /\ cur = NoTask
    /\ pending # <<>>
    /\ Head(pending) \notin Tasks
    /\ pending' = Tail(pending)
    /\ unsaved' = TRUE
    /\ Reply("load", FALSE)
    /\ UNCHANGED <<cur, completed, halted, deferred, disk, ctx, visited>>

LoadTask == NothingToLoad \/ LoadNext \/ LoadMalformed

\* handle_halt_msg; the constraint checker is not told.
Halt ==
    \/ cur = NoTask /\ Refuse("halt")
    \/ /\ cur # NoTask
       /\ halted' = Append(halted, cur.id)
       /\ cur' = NoTask
       /\ UNCHANGED <<pending, completed, deferred, ctx, visited>>
       /\ Save
       /\ Reply("halt", TRUE)

\* handle_defer_task_msg: the request names the crate, not the task.
RunsCrate(crate) == cur # NoTask /\ Entry[cur.id].crate = crate

\* Mutant: the task goes to the end of the queue.
DeferTaskRequeueing(crate) ==
    \/ ~RunsCrate(crate) /\ Refuse("defer")
    \/ /\ RunsCrate(crate)
       /\ pending' = Append(pending, cur.id)
       /\ cur' = NoTask
       /\ UNCHANGED <<completed, halted, deferred, ctx, visited>>
       /\ Save
       /\ Reply("defer", TRUE)

DeferTask(crate) ==
    \/ ~RunsCrate(crate) /\ Refuse("defer")
    \/ /\ RunsCrate(crate)
       /\ deferred' = Append(deferred, cur.id)
       /\ cur' = NoTask
       /\ UNCHANGED <<pending, completed, halted, ctx, visited>>
       /\ Save
       /\ Reply("defer", TRUE)

\* handle_write_coverage_plan_msg: the one handler that reports a failed
\* save; the plan stays in memory all the same.
WriteCoveragePlan(planned) ==
    \/ (~planned \/ cur = NoTask) /\ Refuse("plan")
    \/ /\ planned
       /\ cur # NoTask
       /\ cur' = [cur EXCEPT !.coverage_plan = TRUE]
       /\ UNCHANGED <<pending, completed, halted, deferred, ctx, visited>>
       /\ Save
       /\ Reply("plan", ~unsaved')

\* Mutant: the count is not written back.
RecordAttemptInMemory ==
    \/ cur = NoTask /\ Refuse("attempt")
    \/ /\ cur # NoTask
       /\ cur.step_attempts < MaxAttempts
       /\ cur' = [cur EXCEPT !.step_attempts = @ + 1]
       /\ UNCHANGED <<pending, completed, halted, deferred, disk, ctx, unsaved, visited>>
       /\ Reply("attempt", TRUE)

\* handle_record_attempt_msg: nothing stops the count at the budget.
RecordAttempt ==
    \/ cur = NoTask /\ Refuse("attempt")
    \/ /\ cur # NoTask
       /\ cur.step_attempts < MaxAttempts
       /\ cur' = [cur EXCEPT !.step_attempts = @ + 1]
       /\ UNCHANGED <<pending, completed, halted, deferred, ctx, visited>>
       /\ Save
       /\ Reply("attempt", TRUE)

\* handle_record_orient_msg: the record itself is not modelled, the write is.
RecordOrient ==
    \/ cur = NoTask /\ Refuse("orient")
    \/ /\ cur # NoTask
       /\ UNCHANGED <<cur, pending, completed, halted, deferred, ctx, visited>>
       /\ Save
       /\ Reply("orient", TRUE)

\* GetState answers from memory.
GetState ==
    /\ Reply("state", TRUE)
    /\ UNCHANGED <<cur, pending, completed, halted, deferred, disk, ctx,
                   unsaved, visited>>

\* The process dies and boots again: pre_start loads the file and tells
\* nobody; a file that does not parse keeps the system from booting.
Restart ==
    /\ disk # Torn
    /\ cur' = disk.cur
    /\ pending' = disk.pending
    /\ completed' = disk.completed
    /\ halted' = disk.halted
    /\ deferred' = disk.deferred
    /\ ctx' = InitialContext
    /\ unsaved' = FALSE
    /\ Reply("boot", TRUE)
    /\ UNCHANGED <<disk, visited>>

-----------------------------------------------------------------------------
Init ==
    /\ \E q \in Queues :
          \/ cur = NoTask /\ pending = q
          \/ /\ q # <<>>
             /\ Head(q) \in Tasks
             /\ cur = Fresh(Head(q))
             /\ pending = Tail(q)
    /\ completed = <<>>
    /\ halted = <<>>
    /\ deferred = <<>>
    /\ disk = Snapshot
    /\ ctx = InitialContext
    /\ reply = [cmd |-> "boot", ok |-> TRUE]
    /\ unsaved = FALSE
    /\ visited = [t \in Tasks |-> IF cur # NoTask /\ cur.id = t
                                  THEN {cur.step_index} ELSE {}]

Next ==
    \/ \E verified \in BOOLEAN : Advance(verified)
    \/ LoadTask
    \/ Halt
    \/ \E crate \in Crates : DeferTask(crate)
    \/ \E planned \in BOOLEAN : WriteCoveragePlan(planned)
    \/ RecordAttempt
    \/ RecordOrient
    \/ GetState
    \/ Restart

Spec == Init /\ [][Next]_vars

-----------------------------------------------------------------------------
(***************************************************************************)
(* Properties.                                                             *)
(***************************************************************************)
Commands == {"advance", "load", "halt", "defer", "plan", "attempt", "orient",
             "state", "boot"}

\* Every variable has its type, the file included.
TypeOK ==
    /\ cur \in RuntimeTasks \cup {NoTask}
    /\ pending \in Seq(Tasks \cup Malformed)
    /\ completed \in Seq(Tasks)
    /\ halted \in Seq(Tasks)
    /\ deferred \in Seq(Tasks)
    /\ disk \in Files \cup {Torn}
    /\ reply \in [cmd : Commands, ok : BOOLEAN]
    /\ unsaved \in BOOLEAN
    /\ visited \in [Tasks -> SUBSET Nat]

\* The tasks a file has at each stage.
Running(f) == IF f.cur = NoTask THEN {} ELSE {f.cur.id}

\* Each entry of Tasks is in exactly one place of the file f.
EachTaskOnce(f) ==
    /\ Distinct(f.pending) /\ Distinct(f.completed)
    /\ Distinct(f.halted)  /\ Distinct(f.deferred)
    /\ Elements(f.pending)   \cap Elements(f.completed) = {}
    /\ Elements(f.pending)   \cap Elements(f.halted)    = {}
    /\ Elements(f.pending)   \cap Elements(f.deferred)  = {}
    /\ Elements(f.completed) \cap Elements(f.halted)    = {}
    /\ Elements(f.completed) \cap Elements(f.deferred)  = {}
    /\ Elements(f.halted)    \cap Elements(f.deferred)  = {}
    /\ Running(f) \cap (Elements(f.pending) \cup Elements(f.completed)
                        \cup Elements(f.halted) \cup Elements(f.deferred)) = {}
    /\ Tasks \subseteq Running(f) \cup Elements(f.pending)
                       \cup Elements(f.completed) \cup Elements(f.halted)
                       \cup Elements(f.deferred)

\* No well-formed task is lost or listed twice, in memory or in the file,
\* whatever saves fail and whenever the process restarts: the handlers that
\* move a task (advance, load, halt, defer) move it from one list to one
\* other, and what a restart loads is such a file again.
NoTaskLostOrDuplicated ==
    /\ EachTaskOnce(Snapshot)
    /\ disk # Torn => EachTaskOnce(disk)

\* A task of a type that has a playbook is marked done only when it has been
\* at every step from the one its entry names to the last one: no advance, in
\* this run or in one before a restart, skips a step.
NoStepSkipped ==
    \A t \in Elements(completed) :
        HasPlaybook(Entry[t].op) =>
            \A i \in Entry[t].index .. StepCount(Entry[t].op) - 1 :
                i \in visited[t]

\* The constraint checker enforces the step of the current task once it has
\* been told of any (before that it holds PolicyContext::initial()).
CheckerFollowsTask ==
    cur # NoTask /\ ctx # InitialContext =>
        ctx = ContextFor(Op(cur), cur.step, cur.step_index)

\* The file is the memory unless a write of it failed, or a malformed entry
\* was dropped, since it was last written or loaded.
FileUpToDate == ~unsaved => disk = Snapshot

\* An error response leaves every task where it is and at its step, so the
\* caller that retries does not move anything twice.
ErrorReplyMovesNothing ==
    [][~reply'.ok =>
         /\ completed' = completed /\ halted' = halted /\ deferred' = deferred
         /\ \/ pending' = pending
            \/ Head(pending) \in Malformed /\ pending' = Tail(pending)
         /\ (cur = NoTask) = (cur' = NoTask)
         /\ cur # NoTask => cur'.id = cur.id /\ cur'.step_index = cur.step_index
      ]_vars

-----------------------------------------------------------------------------
(***************************************************************************)
(* TaskActor implements the ledger: the lists become sets, and the file is *)
(* the durable copy.                                                       *)
(***************************************************************************)
LedgerOf(f) == [waiting  |-> f.pending,
                running  |-> IF f.cur = NoTask THEN NoTask ELSE f.cur.id,
                done     |-> Elements(f.completed),
                halted   |-> Elements(f.halted),
                deferred |-> Elements(f.deferred)]

Ledgers == [waiting  : Seq(Tasks \cup Malformed),
            running  : Tasks \cup {NoTask},
            done     : SUBSET Tasks,
            halted   : SUBSET Tasks,
            deferred : SUBSET Tasks]

ASSUME LedgerAssumption == Torn \notin Ledgers

Ledger == INSTANCE TaskLedger WITH
              None       <- NoTask,
              Unreadable <- Torn,
              working    <- LedgerOf(Snapshot),
              durable    <- IF disk = Torn THEN Torn ELSE LedgerOf(disk)

\* Every handler moves tasks only as the ledger allows: in queue order, one
\* running at a time, forward only, and back only by a restart, to what the
\* file holds.
ImplementsLedger == Ledger!LedgerSpec
=============================================================================
