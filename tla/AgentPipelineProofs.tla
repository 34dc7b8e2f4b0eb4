-------------------------- MODULE AgentPipelineProofs --------------------------
(***************************************************************************)
(* What the pipeline enforces, for every playbook, queue of tasks, step a  *)
(* task is listed with, set of calls, window and outcome of the writes,    *)
(* with late answers and late surveys: nothing is assumed but the types of *)
(* the constants.  What the checker enforces is stated by who told it of a *)
(* step, for the survey and the first task of a process may differ.        *)
(***************************************************************************)
EXTENDS AgentPipeline, DataLemmas

\* The fields of a task that tell its step.
TaskShape(task) == {"id", "step", "step_index"} \subseteq DOMAIN task

-----------------------------------------------------------------------------
(***************************************************************************)
(* TaskActor in the pipeline: its requests are steps of TaskActor, and     *)
(* what is proved of those holds here.                                     *)
(***************************************************************************)
Owner == INSTANCE TaskActorProofs

LEMMA TaskAssumptions ==
    /\ Owner!TaskfileAssumption /\ Owner!EntryAssumption
    /\ Owner!PlaybookAssumption /\ Owner!LedgerAssumption
<1>1. Owner!EntryAssumption /\ Owner!PlaybookAssumption
  BY ComponentAssumptions
  DEF Owner!EntryAssumption, Task!EntryAssumption, Owner!PlaybookAssumption,
      Task!PlaybookAssumption, Owner!StepCount, Task!StepCount
<1>2. Owner!TaskfileAssumption
  BY ComponentAssumptions
  DEF Owner!TaskfileAssumption, Task!TaskfileAssumption, Owner!Distinct,
      Task!Distinct, Owner!Elements, Task!Elements, Owner!RuntimeTasks,
      Task!RuntimeTasks, Owner!StepNames, Task!StepNames, Owner!Files,
      Task!Files
<1>3. Owner!LedgerAssumption
  BY ComponentAssumptions
  DEF Owner!LedgerAssumption, Task!LedgerAssumption, Owner!Ledgers,
      Task!Ledgers
<1> QED
  BY <1>1, <1>2, <1>3

LEMMA SameType ==
    /\ Owner!TypeOK <=> Task!TypeOK
    /\ Owner!TypeOK' <=> Task!TypeOK'
BY DEF Owner!TypeOK, Task!TypeOK, Owner!RuntimeTasks, Task!RuntimeTasks,
       Owner!Files, Task!Files, Owner!StepNames, Task!StepNames,
       Owner!Commands, Task!Commands

LEMMA SameOnce ==
    /\ Owner!NoTaskLostOrDuplicated <=> Task!NoTaskLostOrDuplicated
    /\ Owner!NoTaskLostOrDuplicated' <=> Task!NoTaskLostOrDuplicated'
BY DEF Owner!NoTaskLostOrDuplicated, Task!NoTaskLostOrDuplicated,
       Owner!EachTaskOnce, Task!EachTaskOnce, Owner!Snapshot, Task!Snapshot,
       Owner!Running, Task!Running, Owner!Distinct, Task!Distinct,
       Owner!Elements, Task!Elements

LEMMA ToolIsTaskStep ==
    ASSUME NEW c, c.arg \in BOOLEAN, NEW passed,
           TaskTool(c) \/ Evaluate(c, passed) \/ OtherTool(c, passed)
    PROVE  [Owner!Next]_Owner!vars
<1>1. ASSUME Task!Advance(c.arg)  PROVE Owner!Advance(c.arg)
  BY <1>1
  DEF Owner!Advance, Task!Advance, Owner!Refuse, Task!Refuse, Owner!Reply,
      Task!Reply, Owner!StepForward, Task!StepForward, Owner!CompleteTask,
      Task!CompleteTask, Owner!LastStep, Task!LastStep, Owner!Stepped,
      Task!Stepped, Owner!NotifyStepChange, Task!NotifyStepChange, Owner!Save,
      Task!Save, Owner!Visit, Task!Visit, Owner!Deserialised,
      Task!Deserialised, Owner!Rest, Task!Rest, Owner!Fresh, Task!Fresh,
      Owner!Op, Task!Op, Owner!Snapshot, Task!Snapshot, Owner!HasPlaybook,
      Task!HasPlaybook, Owner!StepCount, Task!StepCount, Owner!StepByIndex,
      Task!StepByIndex, Owner!ContextFor, Task!ContextFor, Owner!HasStep,
      Task!HasStep, Owner!StepByName, Task!StepByName, Owner!FreshContext,
      Task!FreshContext
<1>2. ASSUME Task!WriteCoveragePlan(c.arg)  PROVE Owner!WriteCoveragePlan(c.arg)
  BY <1>2
  DEF Owner!WriteCoveragePlan, Task!WriteCoveragePlan, Owner!Refuse,
      Task!Refuse, Owner!Reply, Task!Reply, Owner!Save, Task!Save,
      Owner!Snapshot, Task!Snapshot
<1>3. ASSUME Task!RecordAttempt  PROVE Owner!RecordAttempt
  BY <1>3
  DEF Owner!RecordAttempt, Task!RecordAttempt, Owner!Refuse, Task!Refuse,
      Owner!Reply, Task!Reply, Owner!Save, Task!Save, Owner!Snapshot,
      Task!Snapshot
<1>4. ASSUME Task!RecordOrient  PROVE Owner!RecordOrient
  BY <1>4
  DEF Owner!RecordOrient, Task!RecordOrient, Owner!Refuse, Task!Refuse,
      Owner!Reply, Task!Reply, Owner!Save, Task!Save, Owner!Snapshot,
      Task!Snapshot
<1>5. ASSUME Task!Halt  PROVE Owner!Halt
  BY <1>5
  DEF Owner!Halt, Task!Halt, Owner!Refuse, Task!Refuse, Owner!Reply,
      Task!Reply, Owner!Save, Task!Save, Owner!Snapshot, Task!Snapshot
<1>6. ASSUME Task!GetState  PROVE Owner!GetState
  BY <1>6 DEF Owner!GetState, Task!GetState, Owner!Reply, Task!Reply
<1>7. ASSUME OtherTool(c, passed)  PROVE UNCHANGED Owner!vars
  BY <1>7 DEF OtherTool, taskVars, Owner!vars
<1> QED
  BY <1>1, <1>2, <1>3, <1>4, <1>5, <1>6, <1>7
  DEF TaskTool, Evaluate, Owner!Next

LEMMA TaskStepKeeps ==
    ASSUME Task!TypeOK, Task!NoTaskLostOrDuplicated, [Owner!Next]_Owner!vars
    PROVE  Task!TypeOK' /\ Task!NoTaskLostOrDuplicated'
<1>1. Task!TypeOK'
  BY TaskAssumptions, SameType, Owner!NextType
<1> QED
  BY <1>1, TaskAssumptions, SameType, SameOnce, Owner!NextOnce

LEMMA InitTask ==
    Task!Init => Task!TypeOK /\ Task!NoTaskLostOrDuplicated
<1> SUFFICES ASSUME Task!Init PROVE Task!TypeOK /\ Task!NoTaskLostOrDuplicated
  OBVIOUS
<1>1. Owner!Init
  BY DEF Task!Init, Owner!Init, Task!Fresh, Owner!Fresh, Task!Snapshot,
         Owner!Snapshot, Owner!InitialContext, Task!InitialContext,
         Owner!FreshContext, Task!FreshContext
<1> QED
  BY <1>1, TaskAssumptions, SameType, SameOnce, Owner!InitType, Owner!InitOnce
-----------------------------------------------------------------------------
(***************************************************************************)
(* What a request to TaskActor does to the current task and the context:   *)
(* it leaves the task at its step, or without a step, and the context      *)
(* alone, or it tells the checker of the new step.                         *)
(***************************************************************************)
Kept ==
    /\ ctx' = ctx
    /\ cur' # NoTask =>
         /\ cur # NoTask
         /\ cur'.id = cur.id /\ cur'.step = cur.step
         /\ cur'.step_index = cur.step_index
         /\ TaskShape(cur')

Told ==
    /\ cur' # NoTask
    /\ TaskShape(cur')
    /\ ctx' = ContextFor(Entry[cur'.id].op, cur'.step, cur'.step_index)

LEMMA TaskContextFor ==
    ASSUME NEW op, NEW name, NEW index
    PROVE  Task!ContextFor(op, name, index) = ContextFor(op, name, index)
BY DEF ContextFor, HasStep, HasPlaybook, StepByName, FreshContext,
       Task!ContextFor, Task!HasStep, Task!HasPlaybook, Task!StepByName,
       Task!FreshContext

LEMMA NotifiedTold ==
    ASSUME Task!NotifyStepChange, cur' # NoTask, TaskShape(cur')
    PROVE  Told
BY TaskContextFor DEF Told, Task!NotifyStepChange, Task!Op

LEMMA RefusedKept ==
    ASSUME NEW cmd, Task!Refuse(cmd), cur # NoTask => TaskShape(cur)
    PROVE  Kept
BY DEF Task!Refuse, Kept

LEMMA EditedKept ==
    ASSUME cur # NoTask, TaskShape(cur), ctx' = ctx,
           \/ cur' = [cur EXCEPT !.coverage_plan = TRUE]
           \/ cur' = [cur EXCEPT !.step_attempts = @ + 1]
    PROVE  Kept
<1>1. /\ TaskShape(cur')
      /\ cur'.id = cur.id /\ cur'.step = cur.step
      /\ cur'.step_index = cur.step_index
  BY DEF TaskShape
<1> QED
  BY <1>1 DEF Kept

LEMMA AdvanceEffect ==
    ASSUME cur # NoTask => TaskShape(cur), NEW verified, Task!Advance(verified)
    PROVE  Kept \/ Told
<1>1. CASE Task!Refuse("advance")
  BY <1>1, RefusedKept
<1>2. CASE Task!StepForward
  <2>1. cur' = Task!Stepped(cur) /\ Task!NotifyStepChange
    BY <1>2 DEF Task!StepForward
  <2>2. TaskShape(cur')
    BY <2>1 DEF Task!Stepped, TaskShape
  <2>3. CASE cur' = NoTask
    BY <2>1, <2>3 DEF Task!NotifyStepChange, Kept
  <2> QED
    BY <2>1, <2>2, <2>3, NotifiedTold
<1>3. CASE Task!CompleteTask
  <2>1. cur' = Task!Deserialised(pending) /\ Task!NotifyStepChange
    BY <1>3 DEF Task!CompleteTask
  <2>2. CASE cur' = NoTask
    BY <2>1, <2>2 DEF Task!NotifyStepChange, Kept
  <2>3. CASE cur' # NoTask
    <3>1. cur' = Task!Fresh(Head(pending))
      BY <2>1, <2>3 DEF Task!Deserialised
    <3>2. TaskShape(cur')
      BY <3>1 DEF Task!Fresh, TaskShape
    <3> QED
      BY <2>1, <2>3, <3>2, NotifiedTold
  <2> QED
    BY <2>2, <2>3
<1> QED
  BY <1>1, <1>2, <1>3 DEF Task!Advance

LEMMA OtherToolKept ==
    ASSUME cur # NoTask => TaskShape(cur), NEW c, NEW passed,
           TaskTool(c) \/ Evaluate(c, passed) \/ OtherTool(c, passed),
           ~Task!Advance(c.arg)
    PROVE  Kept
<1>1. ASSUME Task!WriteCoveragePlan(c.arg)  PROVE Kept
  <2>1. CASE Task!Refuse("plan")
    BY <2>1, RefusedKept
  <2>2. CASE ~Task!Refuse("plan")
    <3>1. /\ cur # NoTask /\ cur' = [cur EXCEPT !.coverage_plan = TRUE]
          /\ ctx' = ctx
      BY <1>1, <2>2 DEF Task!WriteCoveragePlan
    <3> QED
      BY <3>1, EditedKept
  <2> QED
    BY <2>1, <2>2
<1>2. ASSUME Task!RecordAttempt  PROVE Kept
  <2>1. CASE Task!Refuse("attempt")
    BY <2>1, RefusedKept
  <2>2. CASE ~Task!Refuse("attempt")
    <3>1. /\ cur # NoTask /\ cur' = [cur EXCEPT !.step_attempts = @ + 1]
          /\ ctx' = ctx
      BY <1>2, <2>2 DEF Task!RecordAttempt
    <3> QED
      BY <3>1, EditedKept
  <2> QED
    BY <2>1, <2>2
<1>3. ASSUME Task!RecordOrient  PROVE Kept
  BY <1>3, RefusedKept DEF Task!RecordOrient, Kept
<1>4. ASSUME Task!Halt  PROVE Kept
  BY <1>4, RefusedKept DEF Task!Halt, Kept
<1>5. ASSUME Task!GetState  PROVE Kept
  BY <1>5 DEF Task!GetState, Kept
<1>6. ASSUME OtherTool(c, passed)  PROVE Kept
  BY <1>6 DEF OtherTool, taskVars, Kept
<1> QED
  BY <1>1, <1>2, <1>3, <1>4, <1>5, <1>6 DEF TaskTool, Evaluate
(***************************************************************************)
(* Types: what TaskActor keeps, what the agent and the checker keep, and   *)
(* the history of verdicts.                                                *)
(***************************************************************************)
Normals == {Norm[c] : c \in Calls}

Verdicts == [made : Calls, call : Normals, blocked : BOOLEAN,
             task : Tasks \cup {NoTask}, at : Task!StepNames \cup {"none"},
             told : Tellers, after : Nat]

Executions == [call : Normals, approved : BOOLEAN, moved : BOOLEAN,
               task : Tasks \cup {NoTask}, at : Task!StepNames \cup {"none"}]

\* The verdicts are on the calls as normalised.
Typed ==
    /\ TypeOK
    /\ Task!NoTaskLostOrDuplicated
    /\ phase # "ended" => step <= StepLimit
    /\ ran \in Seq(Executions)
    /\ trace \in Seq(Verdicts)
    /\ \A i \in DOMAIN trace : trace[i].call = Norm[trace[i].made]

LEMMA TaskKept ==
    ASSUME Task!TypeOK, Task!NoTaskLostOrDuplicated,
           UNCHANGED <<cur, pending, completed, halted, deferred, disk, reply,
                       unsaved, visited>>
    PROVE  Task!TypeOK' /\ Task!NoTaskLostOrDuplicated'
<1>1. Task!Snapshot' = Task!Snapshot
  BY DEF Task!Snapshot
<1>2. Task!EachTaskOnce(Task!Snapshot)' /\ (disk # Torn => Task!EachTaskOnce(disk))'
  BY <1>1, Zenon DEF Task!NoTaskLostOrDuplicated
<1> QED
  BY <1>2 DEF Task!TypeOK, Task!NoTaskLostOrDuplicated

\* What push_window makes of the window: its entries move one place away from
\* its end, where the new one is, and only a full window loses its oldest.
LEMMA PushedWindow ==
    ASSUME NEW w \in Seq(Checker!Entries), Len(w) <= WindowSize,
           NEW e \in Checker!Entries
    PROVE  LET p == Checker!Pushed(w, e)
           IN  /\ p \in Seq(Checker!Entries)
               /\ Len(p) = IF Len(w) = WindowSize THEN Len(w) ELSE Len(w) + 1
               /\ Len(p) <= WindowSize
               /\ p[Len(p)] = e
               /\ \A k \in Nat :
                    k + 1 < Len(p) => p[Len(p) - (k + 1)] = w[Len(w) - k]
<1> DEFINE E == Checker!Entries
           p == Checker!Pushed(w, e)
<1>0. WindowSize \in Nat \ {0}
  BY ComponentAssumptions DEF Checker!WindowAssumption
<1> HIDE DEF E
<1>w. w \in Seq(E) /\ e \in E /\ Len(w) \in Nat
  BY DEF E
<1>1. CASE Len(w) = WindowSize
  <2> DEFINE t == Tail(w)
  <2>1. /\ t \in Seq(E) /\ Len(t) = Len(w) - 1
        /\ \A k \in 1 .. Len(w) - 1 : t[k] = w[k + 1]
    BY <1>0, <1>1, <1>w
  <2>2. p = Append(t, e)
    BY <1>0, <1>1, <1>w DEF Checker!Pushed
  <2> HIDE DEF p, t
  <2>3. /\ p \in Seq(E) /\ Len(p) = Len(w) /\ p[Len(p)] = e
        /\ \A k \in 1 .. Len(t) : p[k] = t[k]
    BY <1>w, <2>1, <2>2
  <2> QED
    BY <1>0, <1>1, <1>w, <2>1, <2>3 DEF p, E
<1>2. CASE Len(w) # WindowSize
  <2>1. p = Append(w, e)
    BY <1>0, <1>2, <1>w DEF Checker!Pushed
  <2> HIDE DEF p
  <2>2. /\ p \in Seq(E) /\ Len(p) = Len(w) + 1 /\ p[Len(p)] = e
        /\ \A k \in 1 .. Len(w) : p[k] = w[k]
    BY <1>w, <2>1
  <2> QED
    BY <1>0, <1>2, <1>w, <2>2 DEF p, E
<1> QED
  BY <1>1, <1>2

LEMMA InitTyped == Init => Typed
<1> SUFFICES ASSUME Init PROVE Typed
  OBVIOUS
<1>1. Task!TypeOK /\ Task!NoTaskLostOrDuplicated
  BY InitTask DEF Init
<1>2. /\ phase \in Phases /\ approved \in BOOLEAN /\ told \in Tellers
      /\ inbox = <<>> /\ trace = <<>> /\ ran = <<>>
  BY DEF Init, Phases, Tellers
<1>9. preflight \in [op : {Entry[t].op : t \in Tasks}, done : BOOLEAN]
  <2>1. PICK t \in Tasks : cur = Task!Fresh(t)
    BY DEF Init, Task!Init
  <2>2. preflight = [op |-> Entry[t].op, done |-> FALSE]
    BY <2>1 DEF Init, Task!Fresh
  <2> QED
    BY <2>2
<1>8. inbox \in Seq(Normals)
  BY <1>2
<1>7. rejections \in [Summaries -> Nat]
  BY DEF Init
<1>4. call \in Calls
  BY CallsAssumption DEF Init
<1>5. step \in 0 .. StepLimit + 1 /\ step <= StepLimit
  BY CallsAssumption DEF Init
<1>6. window \in Seq(Checker!Entries) /\ Len(window) <= WindowSize
  BY ComponentAssumptions DEF Init, Checker!WindowAssumption
<1>3. /\ trace \in Seq(Verdicts) /\ ran \in Seq(Executions)
      /\ \A i \in DOMAIN trace : trace[i].call = Norm[trace[i].made]
  BY <1>2
<1> QED
  BY <1>1, <1>2, <1>3, <1>4, <1>5, <1>6, <1>7, <1>8, <1>9
  DEF Typed, TypeOK, Normals

LEMMA NowTyped ==
    Typed => /\ TaskNow \in Tasks \cup {NoTask}
             /\ StepNow \in Task!StepNames \cup {"none"}
<1>1. Typed => cur \in Task!RuntimeTasks \cup {NoTask}
  BY DEF Typed, TypeOK, Task!TypeOK
<1> QED
  BY <1>1 DEF TaskNow, StepNow, Task!RuntimeTasks

LEMMA CallTyped ==
    ASSUME Typed, NEW c \in Calls, Call(c)
    PROVE  Typed'
<1>1. Task!TypeOK' /\ Task!NoTaskLostOrDuplicated'
  BY TaskKept DEF Call, taskVars, Typed, TypeOK
<1> DEFINE v == Checked(c, Checker!Blocks(Norm[c]))
<1>2. trace' = Append(trace, v) /\ v.call = Norm[v.made]
  BY DEF Call, Checked
<1>3. v \in Verdicts
  <2>1. Checker!Blocks(Norm[c]) \in BOOLEAN
    BY DEF Checker!Blocks
  <2> QED
    BY <2>1, NowTyped DEF Checked, Verdicts, Normals, Typed, TypeOK
<1> HIDE DEF v
<1>4. /\ trace' \in Seq(Verdicts)
      /\ \A i \in DOMAIN trace' : trace'[i].call = Norm[trace'[i].made]
  BY <1>2, <1>3 DEF Typed
<1>5. Norm[c] \in Normals
  BY DEF Normals
<1>6. inbox \in Seq(Normals)
  BY DEF Typed, TypeOK, Normals
<1>7. inbox' \in Seq(Normals)
  BY <1>5, <1>6 DEF Call
<1>8. /\ phase' \in Phases /\ call' \in Calls /\ approved' \in BOOLEAN
      /\ UNCHANGED <<rejections, window, ran, preflight, told>>
  BY DEF Call, Phases
<1>9. step' \in 0 .. StepLimit + 1 /\ step' <= StepLimit
  <2>1. step \in 0 .. StepLimit + 1 /\ step < StepLimit /\ step' = step + 1
    BY DEF Call, Typed, TypeOK
  <2> QED
    BY <2>1, CallsAssumption
<1> QED
  BY <1>1, <1>4, <1>7, <1>8, <1>9 DEF Typed, TypeOK, Normals

LEMMA EndTyped ==
    ASSUME Typed, End
    PROVE  Typed'
<1>1. Task!TypeOK' /\ Task!NoTaskLostOrDuplicated'
  BY TaskKept DEF End, taskVars, Typed, TypeOK
<1>2. /\ step' \in 0 .. StepLimit + 1 /\ phase' = "ended"
      /\ UNCHANGED <<call, approved, rejections, window, preflight, inbox, told,
                     trace, ran>>
  BY CallsAssumption DEF End, Typed, TypeOK
<1> QED
  BY <1>1, <1>2 DEF Typed, TypeOK, Phases

\* The two reports to the checker, and the time limit.
LEMMA ReportTyped ==
    ASSUME Typed, Report \/ Reject \/ Timeout
    PROVE  Typed'
<1>1. Task!TypeOK' /\ Task!NoTaskLostOrDuplicated'
  BY TaskKept DEF Report, Reject, Timeout, taskVars, Typed, TypeOK
<1>2. /\ phase' \in Phases /\ phase # "ended"
      /\ UNCHANGED <<step, call, approved, preflight, inbox, told, trace, ran>>
  BY DEF Report, Reject, Timeout, Phases
<1>3. call \in Calls /\ call.summary \in Summaries
  BY CallsAssumption DEF Typed, TypeOK
<1>4. window \in Seq(Checker!Entries) /\ Len(window) <= WindowSize
  BY DEF Typed, TypeOK
<1>5. rejections \in [Summaries -> Nat]
  BY DEF Typed, TypeOK
<1>6. CASE Timeout
  BY <1>1, <1>2, <1>6 DEF Timeout, Typed, TypeOK
<1>7. CASE Reject
  <2>1. Checker!Rejected(call.summary) \in Checker!Entries
    BY <1>3 DEF Checker!Rejected, Checker!Entries
  <2>2. /\ window' = Checker!Pushed(window, Checker!Rejected(call.summary))
        /\ rejections' = [rejections EXCEPT ![call.summary] = @ + 1]
    BY <1>7 DEF Reject, Checker!ToolCallRejected
  <2>3. window' \in Seq(Checker!Entries) /\ Len(window') <= WindowSize
    BY <1>4, <2>1, <2>2, PushedWindow
  <2>4. rejections' \in [Summaries -> Nat]
    BY <1>3, <1>5, <2>2
  <2> QED
    BY <1>1, <1>2, <2>3, <2>4 DEF Typed, TypeOK
<1>8. CASE Report
  <2>1. Checker!Completed(call.summary) \in Checker!Entries
    BY <1>3 DEF Checker!Completed, Checker!Entries
  <2>2. /\ window' = Checker!Pushed(window, Checker!Completed(call.summary))
        /\ rejections' = [rejections EXCEPT ![call.summary] = 0]
    BY <1>8 DEF Report, Checker!ToolCallCompleted
  <2>3. window' \in Seq(Checker!Entries) /\ Len(window') <= WindowSize
    BY <1>4, <2>1, <2>2, PushedWindow
  <2>4. rejections' \in [Summaries -> Nat]
    BY <1>3, <1>5, <2>2
  <2> QED
    BY <1>1, <1>2, <2>3, <2>4 DEF Typed, TypeOK
<1> QED
  BY <1>6, <1>7, <1>8

LEMMA RoutedTool ==
    ASSUME NEW passed, Route(passed)
    PROVE  LET c == Head(inbox)
           IN  /\ TaskTool(c) \/ Evaluate(c, passed) \/ OtherTool(c, passed)
               /\ passed => Evaluate(c, passed) \/ OtherTool(c, passed)
               /\ ran' = Append(ran, Executed(c, passed))
BY Zenon DEF Route

LEMMA RouteTyped ==
    ASSUME Typed, NEW passed \in Approvals, Route(passed)
    PROVE  Typed'
<1>1. inbox \in Seq(Normals) /\ inbox # <<>>
  BY DEF Typed, TypeOK, Normals, Route
<1>2. Head(inbox) \in Normals /\ inbox' \in Seq(Normals)
  BY <1>1 DEF Route
<1>3. Head(inbox).arg \in BOOLEAN
  BY <1>2, CallsAssumption DEF Normals
<1>4. [Owner!Next]_Owner!vars
  BY <1>3, RoutedTool, ToolIsTaskStep
<1>5. Task!TypeOK' /\ Task!NoTaskLostOrDuplicated'
  BY <1>4, TaskStepKeeps DEF Typed, TypeOK
<1>6. /\ phase' \in Phases /\ approved' \in BOOLEAN
      /\ (phase' = "ended") = (phase = "ended")
  BY CallsAssumption DEF Route, Answer, Phases, Typed, TypeOK
<1>7. /\ UNCHANGED <<step, call, rejections, window, preflight, trace>>
      /\ told' \in Tellers
  BY DEF Route, Tellers, Typed, TypeOK
<1> DEFINE e == Executed(Head(inbox), passed)
<1>8. ran' = Append(ran, e)
  BY DEF Route
<1>9. e \in Executions
  <2>1. Moved \in BOOLEAN
    BY DEF Moved
  <2> QED
    BY <1>2, <2>1, CallsAssumption, NowTyped DEF Executed, Executions
<1> HIDE DEF e
<1>10. ran' \in Seq(Executions)
  BY <1>8, <1>9 DEF Typed
<1> QED
  BY <1>2, <1>5, <1>6, <1>7, <1>10 DEF Typed, TypeOK, Normals

LEMMA PreflightTyped ==
    ASSUME Typed, Preflight
    PROVE  Typed'
<1>1. Task!TypeOK' /\ Task!NoTaskLostOrDuplicated'
  BY TaskKept DEF Preflight, Typed, TypeOK
<1>2. /\ UNCHANGED <<step, phase, call, approved, inbox, trace, ran,
                    rejections, window>>
      /\ preflight' = [op |-> preflight.op, done |-> TRUE]
      /\ told' \in {"survey", told}
  BY DEF Preflight, Checker!UpdateContext, checkerVars
<1>3. /\ preflight' \in [op : {Entry[t].op : t \in Tasks}, done : BOOLEAN]
      /\ told' \in Tellers
  BY <1>2 DEF Tellers, Typed, TypeOK
<1> QED
  BY <1>1, <1>2, <1>3 DEF Typed, TypeOK

LEMMA NextTyped == Typed /\ [Next]_vars => Typed'
<1> SUFFICES ASSUME Typed, [Next]_vars PROVE Typed'
  OBVIOUS
<1>1. ASSUME NEW c \in Calls, Call(c)  PROVE Typed'
  BY <1>1, CallTyped
<1>2. ASSUME NEW passed \in Approvals, Route(passed)  PROVE Typed'
  BY <1>2, RouteTyped
<1>3. CASE UNCHANGED vars
  <2>1. Task!TypeOK' /\ Task!NoTaskLostOrDuplicated'
    BY <1>3, TaskKept DEF vars, taskVars, Typed, TypeOK
  <2> QED
    BY <1>3, <2>1 DEF vars, taskVars, agentVars, Typed, TypeOK
<1> QED
  BY <1>1, <1>2, <1>3, EndTyped, ReportTyped, PreflightTyped
  DEF Next, Agent, Router

LEMMA AlwaysTyped == Spec => []Typed
<1>1. Init => Typed
  BY InitTyped
<1>2. Typed /\ [Next]_vars => Typed'
  BY NextTyped
<1> QED
  BY <1>1, <1>2, PTL DEF Spec

\* The agent, the checker, the router and TaskActor keep their types, with late
\* answers, late surveys, rejected calls and failing writes of the taskfile.
THEOREM PipelineTyped == Spec => []TypeOK
<1>1. Typed => TypeOK
  BY DEF Typed
<1> QED
  BY <1>1, AlwaysTyped, PTL

\* Whatever the agent does, no task is lost or listed twice, in memory or in
\* the file: the pipeline sends TaskActor nothing that could break its promise.
THEOREM PipelineConservesTasks == Spec => []Task!NoTaskLostOrDuplicated
<1>1. Typed => Task!NoTaskLostOrDuplicated
  BY DEF Typed
<1> QED
  BY <1>1, AlwaysTyped, PTL

\* What is not a request to TaskActor leaves the ledger alone, its durable copy
\* too, though it may change the context.
LEMMA StillLedger ==
    UNCHANGED <<cur, pending, completed, halted, deferred, disk>> =>
        UNCHANGED Owner!Ledger!ledgerVars
  BY TaskAssumptions, Owner!IdleStutters DEF Owner!Idle

\* A request that the router carries out is a step of TaskActor, or none.
LEMMA RouteIsTaskStep ==
    ASSUME Typed, NEW passed \in Approvals, Route(passed)
    PROVE  [Owner!Next]_Owner!vars
<1>1. inbox \in Seq(Normals) /\ inbox # <<>>
  BY DEF Typed, TypeOK, Normals, Route
<1>2. Head(inbox) \in Normals /\ inbox' \in Seq(Normals)
  BY <1>1 DEF Route
<1>3. Head(inbox).arg \in BOOLEAN
  BY <1>2, CallsAssumption DEF Normals
<1> QED
  BY <1>3, RoutedTool, ToolIsTaskStep

LEMMA NextKeepsLedger ==
    Typed /\ [Next]_vars => [Owner!Ledger!LedgerNext]_(Owner!Ledger!ledgerVars)
<1> SUFFICES ASSUME Typed, [Next]_vars
             PROVE  [Owner!Ledger!LedgerNext]_(Owner!Ledger!ledgerVars)
  OBVIOUS
<1>1. ASSUME NEW passed \in Approvals, Route(passed)
      PROVE  [Owner!Ledger!LedgerNext]_(Owner!Ledger!ledgerVars)
  <2>1. [Owner!Next]_Owner!vars
    BY <1>1, RouteIsTaskStep
  <2>2. Owner!TypeOK
    BY SameType DEF Typed, TypeOK
  <2> QED
    BY <2>1, <2>2, TaskAssumptions, Owner!NextImplements
<1>2. ASSUME \/ \E c \in Calls : Call(c)
             \/ End \/ Reject \/ Timeout \/ Report \/ Preflight
             \/ UNCHANGED vars
      PROVE  UNCHANGED <<cur, pending, completed, halted, deferred, disk>>
  BY <1>2 DEF Call, End, Reject, Timeout, Report, Preflight, vars, taskVars
<1> QED
  BY <1>1, <1>2, StillLedger DEF Next, Agent, Router

\* The whole pipeline is the abstract ledger of tasks: the agent's loop, the
\* router's late answers and the survey move tasks only as TaskLedger allows.
THEOREM PipelineIsLedger == Spec => Owner!ImplementsLedger
<1>1. Init => Owner!Ledger!LedgerInit
  <2> SUFFICES ASSUME Init  PROVE Owner!Ledger!LedgerInit
    OBVIOUS
  <2>1. Owner!Init
    BY DEF Init, Task!Init, Owner!Init, Task!Fresh, Owner!Fresh, Task!Snapshot,
           Owner!Snapshot, Owner!InitialContext, Task!InitialContext,
           Owner!FreshContext, Task!FreshContext
  <2> QED
    BY <2>1, TaskAssumptions, Owner!InitImplements
<1>2. Typed /\ [Next]_vars => [Owner!Ledger!LedgerNext]_(Owner!Ledger!ledgerVars)
  BY NextKeepsLedger
<1> QED
  BY <1>1, <1>2, AlwaysTyped, PTL
  DEF Spec, Owner!ImplementsLedger, Owner!Ledger!LedgerSpec

-----------------------------------------------------------------------------
(***************************************************************************)
(* Every request let through is with the router once, in order.            *)
(***************************************************************************)
LEMMA SentFinite ==
    ASSUME trace \in Seq(Verdicts)
    PROVE  IsFiniteSet(Sent) /\ Cardinality(Sent) \in Nat
<1>1. Len(trace) \in Int /\ Sent \in SUBSET (1 .. Len(trace))
  BY DEF Sent
<1>2. IsFiniteSet(1 .. Len(trace))
  BY <1>1, FS_Interval
<1> QED
  BY <1>1, <1>2, FS_Subset, FS_CardinalityType

LEMMA PlaceInSent ==
    ASSUME trace \in Seq(Verdicts), NEW i \in Sent
    PROVE  /\ IsFiniteSet(Sent)
           /\ Place(i) \in 1 .. Cardinality(Sent)
<1> DEFINE Upto == {k \in Sent : k <= i}
<1>2. IsFiniteSet(Sent)
  BY SentFinite
<1>3. Upto \in SUBSET Sent /\ i \in Upto
  BY DEF Sent
<1> HIDE DEF Upto
<1>4. /\ IsFiniteSet(Upto) /\ Cardinality(Upto) \in Nat
      /\ Cardinality(Upto) <= Cardinality(Sent)
      /\ Cardinality(Sent) \in Nat
  BY <1>2, <1>3, FS_Subset, FS_CardinalityType
<1>5. Cardinality(Upto) # 0
  BY <1>3, <1>4, FS_EmptySet
<1> QED
  BY <1>2, <1>4, <1>5 DEF Upto, Place

\* The one call more that is checked takes the next place when it is let
\* through, and changes no other's.
LEMMA PlaceOfNext ==
    ASSUME Typed, NEW v \in Verdicts, trace' = Append(trace, v),
           NEW n \in Nat, n = Len(trace) + 1
    PROVE  /\ \A i \in Sent : Place(i)' = Place(i) /\ trace'[i] = trace[i]
           /\ v.blocked  => Sent' = Sent
           /\ ~v.blocked =>
                 /\ Sent' = Sent \cup {n}
                 /\ Cardinality(Sent') = Cardinality(Sent) + 1
                 /\ Place(n)' = Cardinality(Sent) + 1
                 /\ trace'[n] = v
<1>1. /\ trace \in Seq(Verdicts) /\ DOMAIN trace = 1 .. n - 1
      /\ DOMAIN trace' = 1 .. n
      /\ \A i \in 1 .. n - 1 : trace'[i] = trace[i]
      /\ trace'[n] = v
  BY DEF Typed
<1>2. Sent' = IF v.blocked THEN Sent ELSE Sent \cup {n}
  BY <1>1 DEF Sent
<1>3. Sent \subseteq 1 .. n - 1
  BY <1>1 DEF Sent
<1>4. IsFiniteSet(Sent) /\ Cardinality(Sent) \in Nat
  BY <1>1, SentFinite
<1>5. ASSUME NEW i \in Sent  PROVE Place(i)' = Place(i)
  <2>1. i \in 1 .. n - 1
    BY <1>3
  <2>2. {k \in Sent' : k <= i} = {k \in Sent : k <= i}
    BY <1>1, <1>2, <1>3, <2>1
  <2> QED
    BY <2>2 DEF Place
<1>6. ASSUME ~v.blocked
      PROVE  /\ Cardinality(Sent') = Cardinality(Sent) + 1
             /\ Place(n)' = Cardinality(Sent) + 1
  <2>1. n \notin Sent
    BY <1>1, <1>3
  <2>2. Sent' = Sent \cup {n}
    BY <1>2, <1>6
  <2>3. Cardinality(Sent') = Cardinality(Sent) + 1
    BY <1>4, <2>1, <2>2, FS_AddElement
  <2>4. \A k \in Sent' : k <= n
    BY <1>1, <1>3, <2>2
  <2>5. {k \in Sent' : k <= n} = Sent'
    BY <2>4
  <2>6. Place(n)' = Cardinality({k \in Sent' : k <= n})
    BY DEF Place
  <2> QED
    BY <2>3, <2>5, <2>6
<1> QED
  BY <1>1, <1>2, <1>3, <1>5, <1>6

LEMMA InitInOrder == Init => CallsRunOnceInOrder
<1> SUFFICES ASSUME Init PROVE CallsRunOnceInOrder
  OBVIOUS
<1>1. trace = <<>> /\ ran = <<>> /\ inbox = <<>>
  BY DEF Init
<1>2. Sent = {}
  BY <1>1 DEF Sent
<1>3. Received = <<>>
  BY <1>1 DEF Received
<1> QED
  BY <1>2, <1>3, FS_EmptySet DEF CallsRunOnceInOrder

\* The requests received, as one list of calls.
LEMMA CallsExecuted ==
    ASSUME ran \in Seq(Executions)
    PROVE  \A i \in 1 .. Len(ran) : ran[i].call \in Normals
<1>1. \A i \in 1 .. Len(ran) : ran[i] \in Executions
  OBVIOUS
<1> QED
  BY <1>1 DEF Executions

LEMMA ReceivedCalls ==
    ASSUME Typed
    PROVE  /\ Received \in Seq(Normals)
           /\ Len(Received) = Len(ran) + Len(inbox)
           /\ \A i \in 1 .. Len(ran) : Received[i] = ran[i].call
           /\ \A i \in 1 .. Len(inbox) : Received[Len(ran) + i] = inbox[i]
<1> DEFINE calls == [i \in DOMAIN ran |-> ran[i].call]
<1>1. ran \in Seq(Executions) /\ inbox \in Seq(Normals)
  BY DEF Typed, TypeOK, Normals
<1>2. /\ calls \in Seq(Normals) /\ Len(calls) = Len(ran)
      /\ \A i \in 1 .. Len(ran) : calls[i] = ran[i].call
  <2>1. \A i \in 1 .. Len(ran) : ran[i].call \in Normals
    BY <1>1, CallsExecuted
  <2>2. DOMAIN ran = 1 .. Len(ran) /\ Len(ran) \in Nat
    BY <1>1
  <2> QED
    BY <2>1, <2>2
<1>3. Received = calls \o inbox
  BY DEF Received
<1> HIDE DEF calls
<1> QED
  BY <1>1, <1>2, <1>3

LEMMA CallInOrder ==
    ASSUME Typed, CallsRunOnceInOrder, NEW c \in Calls, Call(c), Typed'
    PROVE  CallsRunOnceInOrder'
<1> DEFINE v == Checked(c, Checker!Blocks(Norm[c]))
<1>1. /\ trace' = Append(trace, v) /\ ran' = ran
      /\ inbox' = IF v.blocked THEN inbox ELSE Append(inbox, Norm[c])
      /\ v.call = Norm[c]
  BY DEF Call, Checked
<1>2. v = trace'[Len(trace) + 1] /\ Len(trace) + 1 \in DOMAIN trace'
  BY <1>1 DEF Typed
<1>3. v \in Verdicts
  BY <1>2 DEF Typed
<1> HIDE DEF v
<1>n. PICK n \in Nat : n = Len(trace) + 1
  BY DEF Typed
<1>4. /\ \A i \in Sent : Place(i)' = Place(i) /\ trace'[i] = trace[i]
      /\ v.blocked  => Sent' = Sent
      /\ ~v.blocked =>
            /\ Sent' = Sent \cup {n}
            /\ Cardinality(Sent') = Cardinality(Sent) + 1
            /\ Place(n)' = Cardinality(Sent) + 1
            /\ trace'[n] = v
  BY <1>1, <1>3, <1>n, PlaceOfNext
<1>5. /\ Len(Received) = Cardinality(Sent)
      /\ \A i \in Sent : trace[i].call = Received[Place(i)]
  BY DEF CallsRunOnceInOrder, Place
<1>6. CASE v.blocked
  <2>1. Received' = Received
    BY <1>1, <1>6 DEF Received
  <2>2. \A i \in Sent' : trace'[i].call = Received'[Place(i)']
    BY <1>4, <1>5, <1>6, <2>1
  <2> QED
    BY <1>4, <1>5, <1>6, <2>1, <2>2 DEF CallsRunOnceInOrder, Place
<1>7. CASE ~v.blocked
  <2>1. Received' = Append(Received, Norm[c])
    <3> DEFINE calls == [i \in DOMAIN ran |-> ran[i].call]
    <3>1. inbox \in Seq(Normals) /\ Norm[c] \in Normals
      BY DEF Typed, TypeOK, Normals
    <3>3. /\ \A i \in 1 .. Len(ran) : ran[i].call \in Normals
          /\ DOMAIN ran = 1 .. Len(ran) /\ Len(ran) \in Nat
      BY CallsExecuted DEF Typed
    <3>4. calls \in Seq(Normals)
      BY <3>3
    <3>2. Received' = calls \o Append(inbox, Norm[c]) /\ Received = calls \o inbox
      BY <1>1, <1>7 DEF Received
    <3> HIDE DEF calls
    <3> QED
      BY <3>1, <3>2, <3>4
  <2>2. Received \in Seq(Normals) /\ Len(Received) \in Nat
    BY ReceivedCalls
  <2>3. /\ Len(Received') = Len(Received) + 1
        /\ \A k \in 1 .. Len(Received) : Received'[k] = Received[k]
        /\ Received'[Len(Received) + 1] = Norm[c]
    BY <2>1, <2>2
  <2>4. \A i \in Sent : Place(i) \in 1 .. Len(Received)
    BY <1>5, PlaceInSent DEF Typed
  <2>5. ASSUME NEW i \in Sent'  PROVE trace'[i].call = Received'[Place(i)']
    <3>1. CASE i \in Sent
      BY <1>4, <1>5, <2>3, <2>4, <3>1
    <3>2. CASE i = n
      BY <1>1, <1>4, <1>5, <1>7, <2>3, <3>2
    <3> QED
      BY <1>4, <1>7, <3>1, <3>2
  <2> QED
    BY <1>4, <1>5, <1>7, <2>3, <2>5 DEF CallsRunOnceInOrder, Place
<1> QED
  BY <1>6, <1>7

LEMMA RouteInOrder ==
    ASSUME Typed, CallsRunOnceInOrder, NEW passed \in Approvals, Route(passed)
    PROVE  CallsRunOnceInOrder'
<1> DEFINE calls == [i \in DOMAIN ran |-> ran[i].call]
           e == Executed(Head(inbox), passed)
<1>1. /\ inbox \in Seq(Normals) /\ inbox # <<>> /\ inbox' = Tail(inbox)
      /\ ran \in Seq(Executions) /\ ran' = Append(ran, e)
      /\ e.call = Head(inbox) /\ trace' = trace
  BY DEF Route, Executed, Typed, TypeOK, Normals
<1> HIDE DEF e
<1>2. Received' = Received
  <2>1. Received = calls \o inbox
    BY DEF Received
  <2>2. Received' = [i \in DOMAIN ran' |-> ran'[i].call] \o Tail(inbox)
    BY <1>1 DEF Received
  <2>3. Len(ran) \in Nat /\ DOMAIN ran = 1 .. Len(ran)
    BY <1>1
  <2>4. /\ DOMAIN ran' = 1 .. Len(ran) + 1
        /\ \A i \in 1 .. Len(ran) : ran'[i] = ran[i]
        /\ ran'[Len(ran) + 1] = e
    BY <1>1
  <2>5. calls \in Seq(Normals) /\ Len(calls) = Len(ran)
    <3>1. \A i \in 1 .. Len(ran) : ran[i].call \in Normals
      BY <1>1, CallsExecuted
    <3> QED
      BY <2>3, <3>1
  <2>6. [i \in DOMAIN ran' |-> ran'[i].call] = Append(calls, Head(inbox))
    BY <1>1, <2>3, <2>4, <2>5
  <2> HIDE DEF calls
  <2>7. Append(calls, Head(inbox)) \o Tail(inbox) = calls \o inbox
    BY <1>1, <2>5
  <2> QED
    BY <2>1, <2>2, <2>6, <2>7
<1>3. Sent' = Sent
  BY <1>1 DEF Sent
<1> QED
  BY <1>1, <1>2, <1>3 DEF CallsRunOnceInOrder

LEMMA NextInOrder ==
    Typed /\ Typed' /\ CallsRunOnceInOrder /\ [Next]_vars => CallsRunOnceInOrder'
<1> SUFFICES ASSUME Typed, Typed', CallsRunOnceInOrder, [Next]_vars
             PROVE  CallsRunOnceInOrder'
  OBVIOUS
<1>1. ASSUME NEW c \in Calls, Call(c)  PROVE CallsRunOnceInOrder'
  BY <1>1, CallInOrder
<1>2. ASSUME NEW passed \in Approvals, Route(passed)
      PROVE  CallsRunOnceInOrder'
  BY <1>2, RouteInOrder
<1>3. CASE UNCHANGED <<trace, ran, inbox>>
  BY <1>3 DEF CallsRunOnceInOrder, Sent, Received
<1>4. CASE End \/ Reject \/ Timeout \/ Report \/ Preflight \/ UNCHANGED vars
  BY <1>3, <1>4 DEF End, Reject, Timeout, Report, Preflight, vars, agentVars
<1> QED
  BY <1>1, <1>2, <1>4 DEF Next, Agent, Router

\* Whatever times out, whatever is blocked and however late the router is,
\* each request let through is executed or still in the mailbox exactly once,
\* in the order the agent made them.
THEOREM RequestsRunOnce == Spec => []CallsRunOnceInOrder
<1>1. Init => CallsRunOnceInOrder
  BY InitInOrder
<1>2. Typed /\ Typed' /\ CallsRunOnceInOrder /\ [Next]_vars
        => CallsRunOnceInOrder'
  BY NextInOrder
<1> QED
  BY <1>1, <1>2, AlwaysTyped, PTL DEF Spec

-----------------------------------------------------------------------------
(***************************************************************************)
(* The window and the history: every call reported has its entry in the    *)
(* window, at most two places further from the end for each later call,    *)
(* until the window is full and the entry has left it.                     *)
(***************************************************************************)
InCall == phase \in {"blocked", "waiting", "observed"}

\* The last verdict is on the call of this step until it is reported.
CurrentCall == InCall => /\ Len(trace) > 0
                         /\ trace[Len(trace)].made = call

Reported == IF InCall THEN Len(trace) - 1 ELSE Len(trace)

\* A rejection marker the call of this step may have left.
Markers == IF phase = "observed" THEN 1 ELSE 0

EntryAt(i, place) ==
    IF place < Len(window)
    THEN window[Len(window) - place] = Checker!Completed(trace[i].made.summary)
    ELSE Len(window) = WindowSize

\* age[i] is how far from the end of the window the entry of call i is.
AgedBy(age) ==
    /\ \A i \in 1 .. Reported :
          /\ age[i] <= 2 * (Reported - i) + Markers
          /\ EntryAt(i, age[i])
    /\ \A i, j \in 1 .. Reported : i < j => age[j] < age[i]

Aged == \E age \in [1 .. Reported -> Nat] : AgedBy(age)

LEMMA InitAged == Init => CurrentCall /\ Aged
<1> SUFFICES ASSUME Init PROVE CurrentCall /\ Aged
  OBVIOUS
<1>1. phase = "think" /\ trace = <<>>
  BY DEF Init
<1>2. Reported = 0 /\ CurrentCall
  BY <1>1 DEF Reported, InCall, CurrentCall
<1>3. AgedBy([i \in 1 .. 0 |-> 0])
  BY <1>2 DEF AgedBy
<1>4. [i \in 1 .. 0 |-> 0] \in [1 .. Reported -> Nat]
  BY <1>2
<1> QED
  BY <1>2, <1>3, <1>4 DEF Aged

LEMMA NextCurrent ==
    ASSUME Typed, CurrentCall, [Next]_vars
    PROVE  CurrentCall'
<1>1. ASSUME NEW c \in Calls, Call(c)  PROVE CurrentCall'
  <2>1. /\ trace' = Append(trace, Checked(c, Checker!Blocks(Norm[c])))
        /\ call' = c
    BY <1>1 DEF Call
  <2>2. Len(trace') = Len(trace) + 1 /\ Len(trace) \in Nat
    BY <2>1 DEF Typed
  <2>3. trace'[Len(trace')].made = c
    BY <2>1, <2>2 DEF Typed, Checked
  <2> QED
    BY <2>1, <2>2, <2>3 DEF CurrentCall
<1>2. CASE UNCHANGED <<trace, call>> /\ (InCall' => InCall)
  BY <1>2 DEF CurrentCall
<1>3. ASSUME NEW passed \in Approvals, Route(passed)  PROVE CurrentCall'
  BY <1>2, <1>3 DEF Route, Answer, InCall
<1>4. CASE End \/ Reject \/ Timeout \/ Report \/ Preflight \/ UNCHANGED vars
  BY <1>2, <1>4 DEF End, Reject, Timeout, Report, Preflight, vars, agentVars, InCall
<1> QED
  BY <1>1, <1>3, <1>4 DEF Next, Agent, Router

\* The entries are where they were.
LEMMA SameAges ==
    ASSUME Aged, Reported' = Reported, Reported \in Nat, window' = window,
           Markers = 0 \/ Markers' = 1,
           \A i \in 1 .. Reported : trace'[i].made = trace[i].made
    PROVE  Aged'
<1>1. PICK age \in [1 .. Reported -> Nat] : AgedBy(age)
  BY DEF Aged
<1>2. AgedBy(age)'
  <2>1. Markers' \in 0 .. 1 /\ Markers \in 0 .. 1 /\ Markers <= Markers'
    BY DEF Markers
  <2>2. \A i \in 1 .. Reported : /\ age[i] <= 2 * (Reported - i) + Markers
                                 /\ EntryAt(i, age[i])
    BY <1>1 DEF AgedBy
  <2>3. \A i \in 1 .. Reported : EntryAt(i, age[i])'
    BY <2>2 DEF EntryAt, Checker!Completed
  <2>4. \A i \in 1 .. Reported : age[i] <= 2 * (Reported - i) + Markers'
    BY <2>1, <2>2
  <2> QED
    BY <1>1, <2>3, <2>4 DEF AgedBy
<1> QED
  BY <1>1, <1>2 DEF Aged

\* An entry pushed moves each of them one place from the end.
LEMMA OlderEntry ==
    ASSUME Typed, NEW e \in Checker!Entries, window' = Checker!Pushed(window, e),
           NEW i, trace'[i].made = trace[i].made,
           NEW place \in Nat, EntryAt(i, place)
    PROVE  EntryAt(i, place + 1)'
<1>1. /\ window \in Seq(Checker!Entries) /\ Len(window) <= WindowSize
      /\ Len(window) \in Nat
  BY DEF Typed, TypeOK
<1>2. /\ Len(window') = IF Len(window) = WindowSize THEN Len(window)
                                                    ELSE Len(window) + 1
      /\ Len(window') <= WindowSize
      /\ \A k \in Nat : k + 1 < Len(window') =>
            window'[Len(window') - (k + 1)] = window[Len(window) - k]
  BY <1>1, PushedWindow
<1>3. WindowSize \in Nat
  BY ComponentAssumptions DEF Checker!WindowAssumption
<1>4. CASE place + 1 < Len(window')
  <2>1. place < Len(window)
    BY <1>1, <1>2, <1>4
  <2>2. window[Len(window) - place] = Checker!Completed(trace[i].made.summary)
    BY <2>1 DEF EntryAt
  <2> QED
    BY <1>2, <1>4, <2>2 DEF EntryAt, Checker!Completed
<1>5. CASE ~(place + 1 < Len(window'))
  <2>1. Len(window') = WindowSize
    BY <1>1, <1>2, <1>3, <1>5 DEF EntryAt
  <2> QED
    BY <1>5, <2>1 DEF EntryAt
<1> QED
  BY <1>4, <1>5

LEMMA RejectAged ==
    ASSUME Typed, Aged, Reported \in Nat, Reject
    PROVE  Aged'
<1> DEFINE e == Checker!Rejected(call.summary)
<1>n. PICK n \in Nat : n = Reported
  OBVIOUS
<1>1. /\ window' = Checker!Pushed(window, e) /\ trace' = trace
      /\ Reported' = n /\ Markers = 0 /\ Markers' = 1
  BY <1>n DEF Reject, Checker!ToolCallRejected, Reported, Markers, InCall
<1>2. e \in Checker!Entries
  BY CallsAssumption
  DEF Typed, TypeOK, Checker!Rejected, Checker!Entries
<1> HIDE DEF e
<1>3. PICK age \in [1 .. n -> Nat] : AgedBy(age)
  BY <1>n DEF Aged
<1>4. PICK older \in [1 .. n -> Nat] : \A i \in 1 .. n : older[i] = age[i] + 1
  <2>1. [i \in 1 .. n |-> age[i] + 1] \in [1 .. n -> Nat]
    OBVIOUS
  <2> QED
    BY <2>1
<1>5. ASSUME NEW i \in 1 .. n
      PROVE  older[i] <= 2 * (n - i) + 1 /\ EntryAt(i, older[i])'
  <2>1. age[i] \in Nat /\ age[i] <= 2 * (n - i) /\ EntryAt(i, age[i])
    BY <1>1, <1>3, <1>n DEF AgedBy
  <2>2. EntryAt(i, age[i] + 1)'
    BY <1>1, <1>2, <2>1, OlderEntry
  <2> QED
    BY <1>4, <2>1, <2>2
<1>6. \A i, j \in 1 .. n : i < j => older[j] < older[i]
  BY <1>3, <1>4, <1>n DEF AgedBy
<1>7. AgedBy(older)'
  BY <1>1, <1>5, <1>6 DEF AgedBy
<1> QED
  BY <1>1, <1>4, <1>7 DEF Aged

LEMMA ReportAged ==
    ASSUME Typed, CurrentCall, Aged, Reported \in Nat, Report
    PROVE  Aged'
<1> DEFINE e == Checker!Completed(call.summary)
<1>n. PICK n \in Nat : n = Reported
  OBVIOUS
<1>1. /\ window' = Checker!Pushed(window, e) /\ trace' = trace
      /\ Reported' = n + 1 /\ Len(trace) = n + 1
      /\ Markers \in 0 .. 1 /\ Markers' = 0
      /\ trace[n + 1].made = call
  BY <1>n
  DEF Report, Checker!ToolCallCompleted, Reported, Markers, InCall,
      CurrentCall, Typed
<1>2. e \in Checker!Entries
  BY CallsAssumption
  DEF Typed, TypeOK, Checker!Completed, Checker!Entries
<1>w. /\ Len(window') > 0 /\ window'[Len(window')] = e
      /\ Len(window') \in Nat
  <2>1. /\ window \in Seq(Checker!Entries) /\ Len(window) <= WindowSize
        /\ Len(window) \in Nat /\ WindowSize \in Nat \ {0}
    BY ComponentAssumptions DEF Typed, TypeOK, Checker!WindowAssumption
  <2> HIDE DEF e
  <2> QED
    BY <1>1, <1>2, <2>1, PushedWindow
<1>3. PICK age \in [1 .. n -> Nat] : AgedBy(age)
  BY <1>n DEF Aged
<1>4. PICK older \in [1 .. n + 1 -> Nat] :
          /\ \A i \in 1 .. n : older[i] = age[i] + 1
          /\ older[n + 1] = 0
  <2> DEFINE next == [i \in 1 .. n + 1 |-> IF i = n + 1 THEN 0 ELSE age[i] + 1]
  <2>1. /\ next \in [1 .. n + 1 -> Nat]
        /\ \A i \in 1 .. n : next[i] = age[i] + 1
        /\ next[n + 1] = 0
    OBVIOUS
  <2> QED
    BY <2>1
<1>5. ASSUME NEW i \in 1 .. n
      PROVE  older[i] <= 2 * (n + 1 - i) /\ EntryAt(i, older[i])'
  <2>1. /\ age[i] \in Nat /\ age[i] <= 2 * (n - i) + Markers
        /\ EntryAt(i, age[i])
    BY <1>n, <1>3 DEF AgedBy
  <2> HIDE DEF e
  <2>2. EntryAt(i, age[i] + 1)'
    BY <1>1, <1>2, <2>1, OlderEntry
  <2> QED
    BY <1>1, <1>4, <2>1, <2>2
<1>6. EntryAt(n + 1, older[n + 1])'
  BY <1>1, <1>w, <1>4 DEF EntryAt
<1>7. \A i, j \in 1 .. n + 1 : i < j => older[j] < older[i]
  <2>1. \A i, j \in 1 .. n : i < j => age[j] < age[i]
    BY <1>n, <1>3 DEF AgedBy
  <2>2. \A i \in 1 .. n : age[i] \in Nat
    BY <1>3
  <2>3. \A i, j \in 1 .. n : i < j => older[j] < older[i]
    BY <1>4, <2>1, <2>2
  <2>4. \A i \in 1 .. n : older[n + 1] < older[i]
    BY <1>4, <2>2
  <2>5. ASSUME NEW i \in 1 .. n + 1, NEW j \in 1 .. n + 1, i < j
        PROVE  older[j] < older[i]
    <3>1. i \in 1 .. n /\ (j \in 1 .. n \/ j = n + 1)
      BY <2>5
    <3> QED
      BY <2>3, <2>4, <2>5, <3>1
  <2> QED
    BY <2>5
<1>8. ASSUME NEW i \in 1 .. n + 1
      PROVE  older[i] <= 2 * (n + 1 - i) + 0 /\ EntryAt(i, older[i])'
  <2>1. CASE i \in 1 .. n
    BY <1>5, <2>1
  <2>2. CASE i = n + 1
    BY <1>4, <1>6, <2>2
  <2> QED
    BY <2>1, <2>2
<1>9. AgedBy(older)'
  BY <1>1, <1>7, <1>8 DEF AgedBy
<1> QED
  BY <1>1, <1>4, <1>9 DEF Aged

LEMMA ReportedNat == Typed /\ CurrentCall => Reported \in Nat
BY DEF Typed, CurrentCall, Reported

LEMMA NextAged ==
    ASSUME Typed, CurrentCall, Aged, [Next]_vars
    PROVE  Aged'
<1>0. Reported \in Nat /\ Reported <= Len(trace) /\ Len(trace) \in Nat
  BY DEF Typed, CurrentCall, Reported
<1>1. ASSUME NEW c \in Calls, Call(c)  PROVE Aged'
  <2>1. /\ trace' = Append(trace, Checked(c, Checker!Blocks(Norm[c])))
        /\ phase = "think" /\ phase' \in {"blocked", "waiting"}
        /\ window' = window
    BY <1>1 DEF Call
  <2>2. Reported' = Reported /\ \A i \in 1 .. Reported : trace'[i] = trace[i]
    BY <1>0, <2>1 DEF Typed, Reported, InCall
  <2>3. Markers = 0
    BY <2>1 DEF Markers
  <2> QED
    BY <1>0, <2>1, <2>2, <2>3, SameAges
<1>2. ASSUME UNCHANGED <<trace, window>>, InCall' = InCall,
             phase = "observed" => phase' = "observed"
      PROVE  Aged'
  <2>1. Reported' = Reported
    BY <1>2 DEF Reported
  <2>2. Markers = 0 \/ Markers' = 1
    BY <1>2 DEF Markers
  <2> QED
    BY <1>0, <1>2, <2>1, <2>2, SameAges
<1>3. ASSUME NEW passed \in Approvals, Route(passed)  PROVE Aged'
  BY <1>2, <1>3 DEF Route, Answer, InCall
<1>4. CASE End \/ Timeout \/ UNCHANGED vars
  BY <1>2, <1>4 DEF End, Timeout, vars, agentVars, InCall
<1>5. CASE Preflight
  BY <1>2, <1>5
  DEF Preflight, InCall, Checker!UpdateContext, checkerVars
<1> QED
  BY <1>0, <1>1, <1>3, <1>4, <1>5, RejectAged, ReportAged
  DEF Next, Agent, Router

\* When a call is checked, each of the last calls made with the summary of
\* this one has an entry of its own in the window.
LEMMA RecentCallsInWindow ==
    ASSUME Typed, Aged, phase = "think", NEW s
    PROVE  LET recent == {i \in 1 .. Len(trace) :
                            /\ i >= Len(trace) + 1 - WindowSize \div 2
                            /\ trace[i].made.summary = s}
               places == {p \in DOMAIN window : window[p] = Checker!Completed(s)}
           IN  /\ IsFiniteSet(places)
               /\ Cardinality(recent) \in Nat /\ Cardinality(places) \in Nat
               /\ Cardinality(recent) <= Cardinality(places)
<1> DEFINE n == Len(trace)
           recent == {i \in 1 .. Len(trace) :
                        /\ i >= Len(trace) + 1 - WindowSize \div 2
                        /\ trace[i].made.summary = s}
           places == {p \in DOMAIN window : window[p] = Checker!Completed(s)}
<1>1. /\ n \in Nat /\ Len(window) \in Nat /\ DOMAIN window = 1 .. Len(window)
      /\ WindowSize \in Nat
  BY ComponentAssumptions DEF Typed, TypeOK, Checker!WindowAssumption
<1>2. 2 * (WindowSize \div 2) <= WindowSize /\ WindowSize \div 2 \in Nat
  BY <1>1
<1>3. Reported = n /\ Markers = 0
  BY DEF Reported, Markers, InCall
<1>4. PICK age \in [1 .. n -> Nat] : AgedBy(age)
  BY <1>3 DEF Aged
<1> DEFINE at == [i \in recent |-> Len(window) - age[i]]
<1>5. ASSUME NEW i \in recent
      PROVE  /\ i \in 1 .. n /\ age[i] \in Nat
             /\ at[i] \in places
  <2>1. /\ i \in 1 .. n /\ age[i] \in Nat
        /\ i >= n + 1 - WindowSize \div 2
        /\ age[i] <= 2 * (n - i) /\ EntryAt(i, age[i])
        /\ trace[i].made.summary = s
    BY <1>3, <1>4 DEF AgedBy
  <2>2. age[i] < WindowSize
    BY <1>1, <1>2, <2>1
  <2>3. age[i] < Len(window)
    BY <1>1, <2>1, <2>2 DEF EntryAt
  <2>4. window[Len(window) - age[i]] = Checker!Completed(s)
    BY <2>1, <2>3 DEF EntryAt
  <2> QED
    BY <1>1, <2>1, <2>3, <2>4
<1>6. ASSUME NEW i \in recent, NEW j \in recent, at[i] = at[j]  PROVE i = j
  <2>1. /\ i \in 1 .. n /\ j \in 1 .. n /\ age[i] \in Nat /\ age[j] \in Nat
    BY <1>5
  <2>2. age[i] = age[j]
    BY <1>1, <1>6, <2>1
  <2>3. \A k, l \in 1 .. n : k < l => age[l] < age[k]
    BY <1>3, <1>4 DEF AgedBy
  <2> QED
    BY <1>1, <2>1, <2>2, <2>3
<1>7. at \in [recent -> places]
  BY <1>5
<1>8. at \in Injection(recent, places)
  BY <1>6, <1>7 DEF Injection, IsInjective
<1>9. IsFiniteSet(places)
  <2>1. places \in SUBSET (1 .. Len(window)) /\ Len(window) \in Int
    BY <1>1
  <2>2. IsFiniteSet(1 .. Len(window))
    BY <2>1, FS_Interval
  <2> QED
    BY <2>1, <2>2, FS_Subset
<1> HIDE DEF recent, places, at
<1>10. IsFiniteSet(recent) /\ Cardinality(recent) <= Cardinality(places)
  BY <1>8, <1>9, FS_Injection
<1>11. Cardinality(recent) \in Nat /\ Cardinality(places) \in Nat
  BY <1>9, <1>10, FS_CardinalityType
<1> QED
  BY <1>9, <1>10, <1>11 DEF recent, places

LEMMA SameCardinality ==
    ASSUME NEW S
    PROVE  Checker!Cardinality(S) = Cardinality(S)
BY DEF Checker!Cardinality, Cardinality

LEMMA CallStopsLooping ==
    ASSUME Typed, Aged, LoopingCallStops, NEW c \in Calls, Call(c)
    PROVE  LoopingCallStops'
<1> DEFINE v == Checked(c, Checker!Blocks(Norm[c]))
           n == Len(trace)
<1>1. /\ trace' = Append(trace, v) /\ phase = "think"
      /\ v.call = Norm[c] /\ v.blocked = Checker!Blocks(Norm[c])
  BY DEF Call, Checked
<1> HIDE DEF v
<1>2. /\ n \in Nat /\ DOMAIN trace = 1 .. n /\ DOMAIN trace' = 1 .. n + 1
      /\ \A i \in 1 .. n : trace'[i] = trace[i]
      /\ trace'[n + 1] = v
  BY <1>1 DEF Typed
<1> SUFFICES ASSUME NEW j \in DOMAIN trace',
                    trace'[j].call.kind = "nu", ~trace'[j].blocked
             PROVE  Cardinality({i \in 1 .. j - 1 :
                        /\ i >= j - WindowSize \div 2
                        /\ trace'[i].made.summary = trace'[j].call.summary})
                      < RepeatThreshold
  BY DEF LoopingCallStops
<1>3. CASE j \in 1 .. n
  <2>1. \A i \in 1 .. j - 1 : trace'[i] = trace[i]
    BY <1>2, <1>3
  <2>2. trace'[j] = trace[j]
    BY <1>2, <1>3
  <2>3. {i \in 1 .. j - 1 : /\ i >= j - WindowSize \div 2
                            /\ trace'[i].made.summary = trace'[j].call.summary}
        = {i \in 1 .. j - 1 : /\ i >= j - WindowSize \div 2
                              /\ trace[i].made.summary = trace[j].call.summary}
    BY <2>1, <2>2
  <2>4. Cardinality({i \in 1 .. j - 1 :
            /\ i >= j - WindowSize \div 2
            /\ trace[i].made.summary = trace[j].call.summary}) < RepeatThreshold
    BY <1>2, <1>3, <2>2 DEF LoopingCallStops
  <2> QED
    BY <2>3, <2>4
<1>4. CASE j = n + 1
  <2> DEFINE s == Norm[c].summary
             recent == {i \in 1 .. n : /\ i >= n + 1 - WindowSize \div 2
                                       /\ trace[i].made.summary = s}
             places == {p \in DOMAIN window : window[p] = Checker!Completed(s)}
  <2>1. ~Checker!RepeatedTooOften(Norm[c]) /\ Norm[c].kind = "nu"
    BY <1>1, <1>2, <1>4 DEF Checker!Blocks
  <2>2. ~(Cardinality(places) >= RepeatThreshold)
    <3>1. places = {i \in DOMAIN window :
                      window[i] = Checker!Completed(Norm[c].summary)}
      OBVIOUS
    <3>2. Checker!RepeatedTooOften(Norm[c]) <=>
            /\ Norm[c].kind = "nu"
            /\ Cardinality({i \in DOMAIN window :
                              window[i] = Checker!Completed(Norm[c].summary)})
                 >= RepeatThreshold
      BY SameCardinality DEF Checker!RepeatedTooOften
    <3> QED
      BY <2>1, <3>1, <3>2
  <2>3. /\ Cardinality(recent) \in Nat /\ Cardinality(places) \in Nat
        /\ Cardinality(recent) <= Cardinality(places)
    BY <1>1, RecentCallsInWindow
  <2>4. RepeatThreshold \in Nat
    BY ComponentAssumptions DEF Checker!WindowAssumption
  <2>5. {i \in 1 .. j - 1 : /\ i >= j - WindowSize \div 2
                            /\ trace'[i].made.summary = trace'[j].call.summary}
          = recent
    <3>1. j - 1 = n /\ trace'[j].call.summary = s
      BY <1>1, <1>2, <1>4
    <3>2. \A i \in 1 .. n : trace'[i].made.summary = trace[i].made.summary
      BY <1>2
    <3>3. 1 .. j - 1 = 1 .. n /\ j = n + 1 /\ n \in Nat
      BY <1>2, <1>4, <3>1
    <3>5. WindowSize \in Nat
      BY ComponentAssumptions DEF Checker!WindowAssumption
    <3>4. ASSUME NEW i
          PROVE  i \in {k \in 1 .. j - 1 :
                          /\ k >= j - WindowSize \div 2
                          /\ trace'[k].made.summary = trace'[j].call.summary}
                   <=> i \in recent
      <4>1. i \in recent <=> /\ i \in 1 .. n /\ i >= n + 1 - WindowSize \div 2
                             /\ trace[i].made.summary = s
        OBVIOUS
      <4> HIDE DEF recent, s, n
      <4> QED
        BY <3>1, <3>2, <3>3, <3>5, <4>1
    <3> HIDE DEF recent
    <3> QED
      BY <3>4
  <2> HIDE DEF recent, places
  <2>6. Cardinality(recent) < RepeatThreshold
    BY <2>2, <2>3, <2>4
  <2> QED
    BY <2>5, <2>6
<1>5. j \in 1 .. n \/ j = n + 1
  BY <1>2
<1> QED
  BY <1>3, <1>4, <1>5

\* The invariant of the window: with it, what the checker counts there is what
\* was called.
WindowKeepsCalls == Typed /\ CurrentCall /\ Aged /\ LoopingCallStops

LEMMA NextWindowKeepsCalls ==
    WindowKeepsCalls /\ [Next]_vars => WindowKeepsCalls'
<1> SUFFICES ASSUME WindowKeepsCalls, [Next]_vars PROVE WindowKeepsCalls'
  OBVIOUS
<1> USE DEF WindowKeepsCalls
<1>1. Typed' /\ CurrentCall' /\ Aged'
  BY NextTyped, NextCurrent, NextAged
<1>2. ASSUME NEW c \in Calls, Call(c)  PROVE LoopingCallStops'
  BY <1>2, CallStopsLooping
<1>3. trace' = trace => LoopingCallStops'
  BY DEF LoopingCallStops
<1>4. End \/ Reject \/ Timeout \/ Report \/ Preflight \/ Router
         \/ UNCHANGED vars => LoopingCallStops'
  BY <1>3
  DEF End, Reject, Timeout, Report, Preflight, Router, Route, vars
<1>5. LoopingCallStops'
  BY <1>2, <1>4 DEF Next, Agent
<1> QED
  BY <1>1, <1>5

\* A nushell tool is refused when it has been called RepeatThreshold times
\* lately, whatever was blocked, late or rejected between: the bounded window
\* of the checker forgets none of the calls that count.
THEOREM LoopsAreStopped == Spec => []LoopingCallStops
<1>1. Init => WindowKeepsCalls
  <2>1. Init => trace = <<>>
    BY DEF Init
  <2>2. trace = <<>> => LoopingCallStops
    BY DEF LoopingCallStops
  <2> QED
    BY <2>1, <2>2, InitTyped, InitAged DEF WindowKeepsCalls
<1>2. WindowKeepsCalls /\ [Next]_vars => WindowKeepsCalls'
  BY NextWindowKeepsCalls
<1>3. WindowKeepsCalls => LoopingCallStops
  BY DEF WindowKeepsCalls
<1> QED
  BY <1>1, <1>2, <1>3, PTL DEF Spec

-----------------------------------------------------------------------------
(***************************************************************************)
(* What the checker was told of the step.  A request the router carries    *)
(* out leaves the task where it is, or without a successor, and tells      *)
(* nothing; or it moves the task on and tells of the new step.             *)
(***************************************************************************)
Stays ==
    /\ Kept /\ told' = told
    /\ ~Moved => TaskNow' = TaskNow /\ StepNow' = StepNow

MovesOn == Told /\ Moved /\ told' = "TaskActor"

LEMMA KeptStays ==
    ASSUME Kept, told' = IF Moved /\ cur' # NoTask THEN "TaskActor" ELSE told
    PROVE  Stays
<1>1. cur' # NoTask => ~Moved
  BY DEF Kept, Moved
<1>2. ~Moved => TaskNow' = TaskNow /\ StepNow' = StepNow
  <2>1. CASE cur' = NoTask /\ cur = NoTask
    BY <2>1 DEF TaskNow, StepNow
  <2>2. CASE cur' = NoTask /\ cur # NoTask
    BY <2>2 DEF Moved
  <2>3. CASE cur' # NoTask
    BY <2>3 DEF Kept, TaskNow, StepNow
  <2> QED
    BY <2>1, <2>2, <2>3
<1> QED
  BY <1>1, <1>2 DEF Stays

LEMMA AdvanceMoves ==
    ASSUME Typed, NEW verified, Task!Advance(verified),
           told' = IF Moved /\ cur' # NoTask THEN "TaskActor" ELSE told
    PROVE  Stays \/ MovesOn
<1>1. cur # NoTask => TaskShape(cur) /\ cur \in Task!RuntimeTasks
  BY DEF Typed, TypeOK, Task!TypeOK, Task!RuntimeTasks, TaskShape
<1>2. Kept \/ Told
  BY <1>1, AdvanceEffect
<1>3. CASE Task!Refuse("advance")
  BY <1>1, <1>3, RefusedKept, KeptStays
<1>4. CASE Task!StepForward
  <2>1. /\ cur # NoTask /\ cur' = Task!Stepped(cur)
    BY <1>4 DEF Task!StepForward
  <2>2. cur.step_index \in Nat /\ cur'.step_index = cur.step_index + 1
    BY <1>1, <2>1 DEF Task!RuntimeTasks, Task!Stepped
  <2>3. cur'.step_index # cur.step_index
    BY <2>2
  <2>4. Moved
    BY <2>1, <2>3, Zenon DEF Moved
  <2> QED
    BY <1>2, <2>4, KeptStays DEF MovesOn, Told
<1>5. CASE Task!CompleteTask
  <2>1. cur # NoTask /\ cur' = Task!Deserialised(pending)
    BY <1>5 DEF Task!CompleteTask
  <2>2. CASE cur' = NoTask
    BY <1>2, <2>2, KeptStays DEF Told
  <2>3. CASE cur' # NoTask
    <3>1. /\ pending # <<>> /\ cur'.id = Head(pending)
      BY <2>1, <2>3 DEF Task!Deserialised, Task!Fresh
    <3>2. Head(pending) \in Task!Elements(pending)
      <4>1. pending \in Seq(Tasks \cup Malformed)
        BY DEF Typed, TypeOK, Task!TypeOK
      <4> QED
        BY <3>1, <4>1 DEF Task!Elements
    <3>3. cur.id \notin Task!Elements(pending)
      BY <2>1
      DEF Typed, Task!NoTaskLostOrDuplicated, Task!EachTaskOnce, Task!Running,
          Task!Snapshot
    <3>4. Moved
      BY <2>1, <3>1, <3>2, <3>3, Zenon DEF Moved
    <3> QED
      BY <1>2, <2>3, <3>4, KeptStays DEF MovesOn
  <2> QED
    BY <2>2, <2>3
<1> QED
  BY <1>3, <1>4, <1>5 DEF Task!Advance

LEMMA RouteMoves ==
    ASSUME Typed, NEW passed \in Approvals, Route(passed)
    PROVE  Stays \/ MovesOn
<1> DEFINE c == Head(inbox)
<1>1. TaskTool(c) \/ Evaluate(c, passed) \/ OtherTool(c, passed)
  BY RoutedTool
<1>2. told' = IF Moved /\ cur' # NoTask THEN "TaskActor" ELSE told
  BY Zenon DEF Route
<1>3. cur # NoTask => TaskShape(cur)
  BY DEF Typed, TypeOK, Task!TypeOK, Task!RuntimeTasks, TaskShape
<1> HIDE DEF c
<1>4. CASE Task!Advance(c.arg)
  BY <1>2, <1>4, AdvanceMoves
<1>5. CASE ~Task!Advance(c.arg)
  <2>1. Kept
    BY <1>1, <1>3, <1>5, OtherToolKept
  <2> QED
    BY <1>2, <2>1, KeptStays
<1> QED
  BY <1>4, <1>5

\* The context has the step and the lists of tools of another.
SameStep(context, other) ==
    /\ context.playbook_step         = other.playbook_step
    /\ context.playbook_index        = other.playbook_index
    /\ context.approved_tools        = other.approved_tools
    /\ context.forbidden_tools       = other.forbidden_tools
    /\ context.global_approved_tools = other.global_approved_tools

ContextShape(context) ==
    /\ {"playbook_step", "playbook_index", "approved_tools", "forbidden_tools",
        "global_approved_tools", "last_test_write", "last_compile_check",
        "plan_review_approved"} \subseteq DOMAIN context
    /\ context.last_test_write \in Nat /\ context.last_compile_check \in Nat

StepTold ==
    /\ ContextShape(ctx)
    /\ (told = "TaskActor" => cur # NoTask) => SameStep(ctx, ToldContext)

LEMMA ContextsShaped ==
    ASSUME NEW op, NEW name, NEW index
    PROVE  /\ ContextShape(InitialContext)
           /\ ContextShape(PreflightContext(op))
           /\ ContextShape(ContextFor(op, name, index))
BY DEF ContextShape, InitialContext, PreflightContext, ContextFor, FreshContext

LEMMA StepToldKept ==
    ASSUME StepTold, UNCHANGED told, SameStep(ctx', ctx), ContextShape(ctx'),
           preflight'.op = preflight.op,
           told = "TaskActor" /\ cur' # NoTask =>
               /\ cur # NoTask
               /\ cur'.id = cur.id /\ cur'.step = cur.step
               /\ cur'.step_index = cur.step_index
    PROVE  StepTold'
<1> SUFFICES ASSUME told = "TaskActor" => cur' # NoTask
             PROVE  SameStep(ctx', ToldContext')
  BY DEF StepTold, SameStep, ContextShape
<1>1. SameStep(ctx, ToldContext)
  BY DEF StepTold
<1>2. told = "TaskActor" \/ told # "TaskActor"
  OBVIOUS
<1>3. ToldContext' = ToldContext
  BY DEF ToldContext, InitialContext, PreflightContext, ContextFor, FreshContext,
         HasStep, HasPlaybook, StepByName, FirstManual, AllGlobals
<1> HIDE DEF ToldContext
<1> QED
  BY <1>1, <1>3 DEF SameStep

LEMMA ReportKeepsStep ==
    ASSUME Typed, ContextShape(ctx), Report
    PROVE  /\ SameStep(ctx', ctx) /\ ContextShape(ctx')
           /\ ctx'.plan_review_approved = Checker!PlanFlag(ctx, approved)
           /\ ctx'.last_test_write =
                IF Checker!IsTestWrite(call) THEN step ELSE ctx.last_test_write
           /\ ctx'.last_compile_check =
                IF Checker!IsTool(call, "compile/check")
                THEN step ELSE ctx.last_compile_check
<1> DEFINE done == [summary       |-> call.summary,
                    step          |-> step,
                    test_write    |-> Checker!IsTestWrite(call),
                    compile_check |-> Checker!IsTool(call, "compile/check"),
                    approved      |-> approved]
<1>1. ctx' = [ctx EXCEPT
                !.plan_review_approved = Checker!PlanFlag(ctx, done.approved),
                !.last_test_write    = IF done.test_write THEN done.step ELSE @,
                !.last_compile_check = IF done.compile_check THEN done.step ELSE @]
  <2>1. Checker!ToolCallCompleted(done)
    BY DEF Report
  <2> HIDE DEF done
  <2> QED
    BY <2>1 DEF Checker!ToolCallCompleted
<1>2. /\ done.test_write = Checker!IsTestWrite(call) /\ done.step = step
      /\ done.compile_check = Checker!IsTool(call, "compile/check")
      /\ done.approved = approved
  OBVIOUS
<1> HIDE DEF done
<1>3. step \in Nat
  BY CallsAssumption DEF Typed, TypeOK
<1>4. /\ DOMAIN ctx' = DOMAIN ctx
      /\ SameStep(ctx', ctx)
      /\ ctx'.plan_review_approved = Checker!PlanFlag(ctx, approved)
      /\ ctx'.last_test_write =
           IF Checker!IsTestWrite(call) THEN step ELSE ctx.last_test_write
      /\ ctx'.last_compile_check =
           IF Checker!IsTool(call, "compile/check")
           THEN step ELSE ctx.last_compile_check
  BY <1>1, <1>2 DEF SameStep, ContextShape
<1> QED
  BY <1>3, <1>4 DEF ContextShape

LEMMA InitStepTold == Init => StepTold
<1> SUFFICES ASSUME Init PROVE StepTold
  OBVIOUS
<1>1. told = "nobody" /\ ctx = InitialContext
  BY DEF Init, Task!Init, InitialContext, FreshContext, Task!InitialContext,
         Task!FreshContext
<1> QED
  BY <1>1, ContextsShaped DEF StepTold, SameStep, ToldContext

LEMMA PreflightStepTold ==
    ASSUME Typed, StepTold, Preflight
    PROVE  StepTold'
<1>1. /\ cur' = cur /\ preflight' = [op |-> preflight.op, done |-> TRUE]
      /\ IF HasManual(preflight.op)
         THEN ctx' = PreflightContext(preflight.op) /\ told' = "survey"
         ELSE UNCHANGED <<ctx, told>>
  BY DEF Preflight, Checker!UpdateContext, checkerVars
<1>2. CASE HasManual(preflight.op)
  <2>1. told' = "survey" /\ preflight'.op = preflight.op
    BY <1>1, <1>2
  <2>2. ToldContext' = PreflightContext(preflight.op)
    BY <2>1
    DEF ToldContext, PreflightContext, FreshContext, FirstManual, AllGlobals
  <2>3. ctx' = PreflightContext(preflight.op)
    BY <1>1, <1>2
  <2> QED
    BY <2>1, <2>2, <2>3, ContextsShaped DEF StepTold, SameStep, ContextShape
<1>3. CASE ~HasManual(preflight.op)
  BY <1>1, <1>3, StepToldKept DEF SameStep, StepTold
<1> QED
  BY <1>2, <1>3

LEMMA NextStepTold ==
    ASSUME Typed, StepTold, [Next]_vars
    PROVE  StepTold'
<1>1. ASSUME UNCHANGED <<cur, ctx, told, preflight>>  PROVE StepTold'
  BY <1>1, StepToldKept DEF SameStep, StepTold
<1>2. CASE Agent \/ UNCHANGED vars
  <2>1. CASE Report
    <3>1. UNCHANGED <<cur, told, preflight>>
      BY <2>1 DEF Report
    <3> QED
      BY <2>1, <3>1, ReportKeepsStep, StepToldKept DEF StepTold
  <2>2. CASE ~Report
    BY <1>1, <1>2, <2>2
    DEF Agent, Call, End, Reject, Timeout, Checker!ToolCallRejected, vars, taskVars
  <2> QED
    BY <2>1, <2>2
<1>3. ASSUME NEW passed \in Approvals, Route(passed)  PROVE StepTold'
  <2>1. Stays \/ MovesOn
    BY <1>3, RouteMoves
  <2>2. preflight' = preflight
    BY <1>3 DEF Route
  <2>3. CASE Stays
    BY <2>2, <2>3, StepToldKept DEF Stays, Kept, SameStep, StepTold
  <2>4. CASE MovesOn
    <3>1. /\ told' = "TaskActor"
          /\ ctx' = ContextFor(Entry[cur'.id].op, cur'.step, cur'.step_index)
      BY <2>4 DEF MovesOn, Told
    <3>2. ToldContext' = ContextFor(Entry[cur'.id].op, cur'.step, cur'.step_index)
      BY <3>1
      DEF ToldContext, ContextFor, FreshContext, HasStep, HasPlaybook, StepByName
    <3> QED
      BY <3>1, <3>2, ContextsShaped DEF StepTold, SameStep, ContextShape
  <2> QED
    BY <2>1, <2>3, <2>4
<1> QED
  BY <1>2, <1>3, PreflightStepTold DEF Next, Router

LEMMA AlwaysStepTold == Spec => []StepTold
<1>1. Typed /\ StepTold /\ [Next]_vars => StepTold'
  BY NextStepTold
<1> QED
  BY <1>1, InitStepTold, AlwaysTyped, PTL DEF Spec

\* The checker enforces what it was told last, and of TaskActor that is the
\* step the current task is at: no order of advances, halts, surveys, reports
\* and late answers makes it keep the step, or a list of tools, of another.
\* Until the first move it enforces the survey's step instead, whichever step
\* the task was listed with.
THEOREM StepIsEnforced == Spec => []CheckerEnforcesStep
<1>1. StepTold => CheckerEnforcesStep
  BY DEF StepTold, SameStep, CheckerEnforcesStep
<1> QED
  BY <1>1, AlwaysStepTold, PTL

-----------------------------------------------------------------------------
(***************************************************************************)
(* The verdicts.  What the checker said of a call holds of the step and    *)
(* the task at that moment; it holds of the request when it is executed as *)
(* long as no request before it moved the task.                            *)
(***************************************************************************)
\* Among the first n requests of the history h is an evaluation that approved
\* the plan of the task at a step.
Reviewed(h, n, task, at) ==
    \E k \in 1 .. n : h[k].task = task /\ h[k].at = at /\ h[k].approved

\* An approval in the context, or in the observation that is about to be
\* reported, is one of the current task's plan at the step it is at.
ApprovedHere ==
    /\ told = "TaskActor" /\ cur # NoTask /\ ctx.plan_review_approved =>
           Reviewed(ran, Len(ran), cur.id, "plan-review")
    /\ phase = "observed" /\ approved =>
           /\ inbox = <<>>
           /\ cur # NoTask => Reviewed(ran, Len(ran), cur.id, cur.step)
    /\ phase \in {"waiting", "blocked"} => ~approved

LEMMA HistoryGrows ==
    ASSUME ran \in Seq(Executions), NEW e, ran' = Append(ran, e)
    PROVE  /\ Len(ran) \in Nat /\ Len(ran') = Len(ran) + 1
           /\ \A i \in 1 .. Len(ran) : ran'[i] = ran[i]
           /\ ran'[Len(ran) + 1] = e
<1> DEFINE E == Executions \cup {e}
<1>1. ran \in Seq(E) /\ e \in E
  <2> HIDE DEF E
  <2>1. Executions \subseteq E /\ e \in E
    BY DEF E
  <2> QED
    BY <2>1
<1> HIDE DEF E
<1> QED
  BY <1>1

LEMMA ReviewStays ==
    ASSUME ran \in Seq(Executions), NEW e, ran' = Append(ran, e),
           NEW n \in Nat, n <= Len(ran), NEW task, NEW at
    PROVE  /\ Reviewed(ran, n, task, at) => Reviewed(ran', n, task, at)
           /\ Reviewed(ran, n, task, at) => Reviewed(ran', Len(ran'), task, at)
           /\ e.approved => Reviewed(ran', Len(ran'), e.task, e.at)
<1>1. /\ Len(ran) \in Nat /\ Len(ran') = Len(ran) + 1
      /\ \A i \in 1 .. Len(ran) : ran'[i] = ran[i]
      /\ ran'[Len(ran) + 1] = e
  BY HistoryGrows
<1>2. ASSUME NEW k \in 1 .. n, ran[k].task = task, ran[k].at = at, ran[k].approved
      PROVE  /\ Reviewed(ran', n, task, at)
             /\ Reviewed(ran', Len(ran'), task, at)
  <2>1. ran'[k] = ran[k] /\ k \in 1 .. Len(ran')
    BY <1>1
  <2> QED
    BY <1>2, <2>1 DEF Reviewed
<1>3. Len(ran') \in 1 .. Len(ran') /\ ran'[Len(ran')] = e
  BY <1>1
<1> QED
  BY <1>2, <1>3 DEF Reviewed

LEMMA ReportApproved ==
    ASSUME Typed, StepTold, ApprovedHere, Report
    PROVE  ApprovedHere'
<1>1. /\ UNCHANGED <<cur, told, ran, approved, inbox>>
      /\ phase = "observed" /\ phase' = "think"
  BY DEF Report
<1>2. ctx'.plan_review_approved = Checker!PlanFlag(ctx, approved)
  BY ReportKeepsStep DEF StepTold
<1> SUFFICES ASSUME told = "TaskActor", cur # NoTask, Checker!PlanFlag(ctx, approved)
             PROVE  Reviewed(ran, Len(ran), cur.id, "plan-review")
  BY <1>1, <1>2 DEF ApprovedHere
<1>3. /\ ctx.playbook_step = "plan-review"
      /\ ctx.plan_review_approved \/ approved
  BY DEF Checker!PlanFlag
<1>4. ctx.playbook_step = cur.step
  BY DEF StepTold, SameStep, ToldContext, ContextFor, FreshContext
<1> QED
  BY <1>1, <1>3, <1>4 DEF ApprovedHere

\* An answer reaches the agent when the mailbox is empty then; an evaluation
\* leaves the task at its step.
LEMMA RouteApproved ==
    ASSUME Typed, ApprovedHere, NEW passed \in Approvals, Route(passed)
    PROVE  ApprovedHere'
<1> DEFINE c == Head(inbox)
           e == Executed(c, passed)
<1>1. ran' = Append(ran, e)
  BY RoutedTool
<1>2. inbox # <<>> /\ inbox' = Tail(inbox) /\ Answer(passed)
  BY Zenon DEF Route
<1>3. passed => Evaluate(c, passed) \/ OtherTool(c, passed)
  BY RoutedTool
<1>4. passed => cur' = cur
  BY <1>3 DEF Evaluate, Task!GetState, OtherTool, taskVars
<1>5. e.approved = passed /\ e.task = TaskNow /\ e.at = StepNow
  BY DEF Executed
<1> HIDE DEF c, e
<1>6. ran \in Seq(Executions) /\ Len(ran) \in Nat /\ Len(ran) <= Len(ran)
  BY DEF Typed
<1>7. told' = "TaskActor" /\ cur' # NoTask /\ ctx'.plan_review_approved =>
        Reviewed(ran', Len(ran'), cur'.id, "plan-review")
  <2>1. CASE Stays
    BY <1>1, <1>6, <2>1, ReviewStays DEF Stays, Kept, ApprovedHere
  <2>2. CASE MovesOn
    BY <2>2 DEF MovesOn, Told, ContextFor, FreshContext
  <2> QED
    BY <2>1, <2>2, RouteMoves
<1>8. CASE phase = "waiting" /\ Len(inbox) = 1
  <2>1. phase' = "observed" /\ approved' => passed
    BY <1>2, <1>8 DEF Answer
  <2>2. inbox' = <<>>
    BY <1>2, <1>8 DEF Typed, TypeOK
  <2>3. passed /\ cur' # NoTask => Reviewed(ran', Len(ran'), cur'.id, cur'.step)
    <3> SUFFICES ASSUME passed, cur # NoTask
                 PROVE  Reviewed(ran', Len(ran'), cur.id, cur.step)
      BY <1>4
    <3>1. e.approved /\ e.task = cur.id /\ e.at = cur.step
      BY <1>5 DEF TaskNow, StepNow
    <3> QED
      BY <1>1, <1>6, <3>1, ReviewStays
  <2> QED
    BY <1>2, <1>7, <1>8, <2>1, <2>2, <2>3 DEF ApprovedHere, Answer
<1>9. CASE ~(phase = "waiting" /\ Len(inbox) = 1)
  <2>1. UNCHANGED <<phase, approved>>
    BY <1>2, <1>9 DEF Answer
  <2> QED
    BY <1>2, <1>7, <2>1 DEF ApprovedHere
<1> QED
  BY <1>8, <1>9

LEMMA NextApproved ==
    ASSUME Typed, StepTold, ApprovedHere, [Next]_vars
    PROVE  ApprovedHere'
<1>1. CASE (\E c \in Calls : Call(c)) \/ End \/ Reject \/ Timeout \/ UNCHANGED vars
  <2>1. UNCHANGED <<cur, ctx, told, ran>>
    BY <1>1 DEF Call, End, Reject, Timeout, Checker!ToolCallRejected, vars, taskVars
  <2>2. /\ phase' = "observed" /\ approved' =>
             phase = "observed" /\ approved /\ inbox' = inbox
        /\ phase' \in {"waiting", "blocked"} => ~approved'
    BY <1>1 DEF Call, End, Reject, Timeout, vars, agentVars, ApprovedHere
  <2> QED
    BY <2>1, <2>2 DEF ApprovedHere
<1>2. CASE Preflight
  <2>1. UNCHANGED <<cur, ran, phase, approved, inbox>>
    BY <1>2 DEF Preflight
  <2>2. told' = "TaskActor" => UNCHANGED <<ctx, told>>
    BY <1>2 DEF Preflight, checkerVars
  <2> QED
    BY <2>1, <2>2 DEF ApprovedHere
<1> QED
  BY <1>1, <1>2, ReportApproved, RouteApproved DEF Next, Agent, Router

\* What a verdict that let a call through says, of the step at that moment.
Stands(v) ==
    /\ /\ v.told = "TaskActor" /\ v.task # NoTask
       /\ HasStep(Entry[v.task].op, v.at)
       => ~Checker!Forbids(StepByName(Entry[v.task].op, v.at).forbidden, v.call)
    /\ v.told = "survey" =>
           ~Checker!Forbids(PreflightContext(preflight.op).forbidden_tools, v.call)
    /\ /\ v.told = "TaskActor" /\ v.at = "plan-review"
       /\ Checker!IsTool(v.call, "task/advance")
       => Reviewed(ran, v.after, v.task, "plan-review")

VerdictsStand ==
    \A j \in DOMAIN trace, v \in Verdicts :
        v = trace[j] => v.after <= Len(ran) /\ (~v.blocked => Stands(v))

LEMMA VerdictStands ==
    ASSUME Typed, StepTold, ApprovedHere, NEW c \in Calls,
           ~Checker!Blocks(Norm[c])
    PROVE  Stands(Checked(c, Checker!Blocks(Norm[c])))
<1> DEFINE v == Checked(c, Checker!Blocks(Norm[c]))
<1>1. /\ v.told = told /\ v.task = TaskNow /\ v.at = StepNow
      /\ v.call = Norm[c] /\ v.after = Len(ran)
  BY DEF Checked
<1>2. /\ ~Checker!Forbids(ctx.forbidden_tools, Norm[c])
      /\ ~Checker!PlanNotReviewed(Norm[c])
  BY DEF Checker!Blocks
<1> HIDE DEF v
<1>3. ASSUME told = "TaskActor", TaskNow # NoTask,
             HasStep(Entry[TaskNow].op, StepNow)
      PROVE  ~Checker!Forbids(StepByName(Entry[TaskNow].op, StepNow).forbidden,
                              Norm[c])
  <2>1. cur # NoTask /\ TaskNow = cur.id /\ StepNow = cur.step
    BY <1>3 DEF TaskNow, StepNow
  <2>2. ctx.forbidden_tools = StepByName(Entry[cur.id].op, cur.step).forbidden
    BY <1>3, <2>1
    DEF StepTold, SameStep, ToldContext, ContextFor, FreshContext
  <2> QED
    BY <1>2, <2>1, <2>2
<1>4. told = "survey" =>
        ~Checker!Forbids(PreflightContext(preflight.op).forbidden_tools, Norm[c])
  BY <1>2 DEF StepTold, SameStep, ToldContext
<1>5. ASSUME told = "TaskActor", StepNow = "plan-review",
             Checker!IsTool(Norm[c], "task/advance")
      PROVE  Reviewed(ran, Len(ran), TaskNow, "plan-review")
  <2>1. cur # NoTask /\ TaskNow = cur.id /\ cur.step = "plan-review"
    BY <1>5 DEF TaskNow, StepNow
  <2>2. ctx.playbook_step = "plan-review"
    BY <1>5, <2>1
    DEF StepTold, SameStep, ToldContext, ContextFor, FreshContext
  <2>3. ctx.plan_review_approved
    BY <1>2, <1>5, <2>2 DEF Checker!PlanNotReviewed
  <2> QED
    BY <1>5, <2>1, <2>3 DEF ApprovedHere
<1> QED
  BY <1>1, <1>3, <1>4, <1>5 DEF Stands, v

\* The history may grow, and the survey be done.
HistoryStep ==
    /\ preflight'.op = preflight.op
    /\ ran' = ran \/ \E e : ran' = Append(ran, e)

LEMMA NextIsHistoryStep ==
    ASSUME [Next]_vars
    PROVE  /\ HistoryStep
           /\ trace' = trace \/ \E c \in Calls : Call(c)
<1>1. CASE Router
  <2>1. PICK passed \in Approvals : Route(passed)
    BY <1>1 DEF Router
  <2>2. ran' = Append(ran, Executed(Head(inbox), passed))
    BY <2>1, RoutedTool
  <2> QED
    BY <2>1, <2>2 DEF HistoryStep, Route
<1>2. CASE Preflight
  BY <1>2 DEF Preflight, HistoryStep
<1>3. CASE Agent \/ UNCHANGED vars
  BY <1>3
  DEF Agent, Call, End, Reject, Timeout, Report, vars, agentVars, HistoryStep
<1> QED
  BY <1>1, <1>2, <1>3 DEF Next

LEMMA StandsOn ==
    ASSUME Typed, NEW v \in Verdicts, v.after <= Len(ran), HistoryStep
    PROVE  /\ Stands(v) => Stands(v)'
           /\ v.after <= Len(ran')
<1>1. ran \in Seq(Executions) /\ v.after \in Nat /\ Len(ran) \in Nat
  BY DEF Typed, Verdicts
<1>2. /\ v.after <= Len(ran')
      /\ Reviewed(ran, v.after, v.task, "plan-review") =>
            Reviewed(ran', v.after, v.task, "plan-review")
  <2>1. CASE ran' = ran
    BY <2>1
  <2>2. ASSUME NEW e, ran' = Append(ran, e)
        PROVE  <1>2!1 /\ <1>2!2
    BY <1>1, <2>2, ReviewStays, HistoryGrows
  <2> QED
    BY <2>1, <2>2 DEF HistoryStep
<1>3. (PreflightContext(preflight.op).forbidden_tools)'
        = PreflightContext(preflight.op).forbidden_tools
  BY DEF HistoryStep, PreflightContext, FreshContext, FirstManual, AllGlobals
<1> QED
  BY <1>2, <1>3
  DEF Stands, Checker!Forbids, Checker!Matches, Checker!IsTool, HasStep,
      HasPlaybook, StepByName

LEMMA NextVerdictsStand ==
    ASSUME Typed, Typed', StepTold, ApprovedHere, VerdictsStand, [Next]_vars
    PROVE  VerdictsStand'
<1> SUFFICES ASSUME NEW j \in DOMAIN trace', NEW v \in Verdicts, v = trace'[j]
             PROVE  /\ v.after <= Len(ran')
                    /\ ~v.blocked => Stands(v)'
  BY DEF VerdictsStand
<1>1. ASSUME j \in DOMAIN trace, v = trace[j]
      PROVE  /\ v.after <= Len(ran')
             /\ ~v.blocked => Stands(v)'
  BY <1>1, NextIsHistoryStep, StandsOn DEF VerdictsStand
<1>2. ASSUME NEW c \in Calls, Call(c), v = Checked(c, Checker!Blocks(Norm[c]))
      PROVE  /\ v.after <= Len(ran')
             /\ ~v.blocked => Stands(v)'
  <2>1. /\ v.after = Len(ran) /\ v.blocked = Checker!Blocks(Norm[c])
        /\ Len(ran) \in Nat
    BY <1>2 DEF Checked, Typed
  <2>2. ~v.blocked => Stands(v)
    BY <1>2, <2>1, VerdictStands
  <2> QED
    BY <2>1, <2>2, NextIsHistoryStep, StandsOn
<1>3. ASSUME NEW c \in Calls, Call(c)
      PROVE  \/ j \in DOMAIN trace /\ v = trace[j]
             \/ v = Checked(c, Checker!Blocks(Norm[c]))
  <2>1. trace' = Append(trace, Checked(c, Checker!Blocks(Norm[c])))
    BY <1>3 DEF Call
  <2> QED
    BY <2>1 DEF Typed
<1> QED
  BY <1>1, <1>2, <1>3, NextIsHistoryStep

-----------------------------------------------------------------------------
(***************************************************************************)
(* The request of a call finds the task as the checker found it, unless a  *)
(* request executed between them moved it.                                 *)
(***************************************************************************)
\* No request after the first v.after ones, up to the one at place n, moved
\* the task.
Unmoved(v, n) == \A k \in v.after + 1 .. n : ~ran[k].moved

\* The request at place p, checked with verdict v.
FoundBy(v, p) ==
    IF p <= Len(ran)
    THEN Unmoved(v, p - 1) => ran[p].task = v.task /\ ran[p].at = v.at
    ELSE Unmoved(v, Len(ran)) => v.task = TaskNow /\ v.at = StepNow

TaskFound ==
    \A j \in Sent, v \in Verdicts, p \in Nat :
        v = trace[j] /\ p = Place(j) => v.after < p /\ FoundBy(v, p)

LEMMA RouteFinds ==
    ASSUME Typed, NEW passed \in Approvals, Route(passed),
           NEW v \in Verdicts, v.after <= Len(ran), NEW p \in Nat, v.after < p,
           FoundBy(v, p)
    PROVE  FoundBy(v, p)'
<1> DEFINE e == Executed(Head(inbox), passed)
<1>n. PICK n \in Nat : n = Len(ran)
  BY DEF Typed
<1>1. /\ Len(ran') = n + 1
      /\ \A k \in 1 .. n : ran'[k] = ran[k]
      /\ ran'[n + 1] = e
  BY <1>n, RoutedTool, HistoryGrows DEF Typed
<1>2. e.moved = Moved /\ e.task = TaskNow /\ e.at = StepNow
  BY DEF Executed
<1> HIDE DEF e
<1>3. v.after \in Nat
  BY DEF Verdicts
<1>4. ASSUME NEW m \in Nat, m <= n  PROVE Unmoved(v, m)' => Unmoved(v, m)
  BY <1>1, <1>3, <1>4 DEF Unmoved
<1>5. CASE p <= n
  <2>1. p - 1 \in Nat /\ p - 1 <= n /\ ran'[p] = ran[p] /\ p <= Len(ran')
    BY <1>1, <1>3, <1>5
  <2>2. Unmoved(v, p - 1)' => Unmoved(v, p - 1)
    BY <1>4, <2>1
  <2> QED
    BY <1>n, <1>5, <2>1, <2>2 DEF FoundBy
<1>6. CASE p = n + 1
  <2>1. p - 1 = n /\ ran'[p] = e /\ p <= Len(ran') /\ ~(p <= n)
    BY <1>1, <1>6
  <2>2. Unmoved(v, n)' => Unmoved(v, n)
    BY <1>4
  <2> QED
    BY <1>n, <1>2, <2>1, <2>2 DEF FoundBy
<1>7. CASE p > n + 1
  <2>1. ~(p <= Len(ran')) /\ ~(p <= n)
    BY <1>1, <1>7
  <2> SUFFICES ASSUME Unmoved(v, n + 1)'  PROVE v.task = TaskNow' /\ v.at = StepNow'
    BY <1>1, <2>1 DEF FoundBy
  <2>2. Unmoved(v, n)
    BY <1>1, <1>3 DEF Unmoved
  <2>3. ~Moved
    <3>1. n + 1 \in v.after + 1 .. n + 1
      BY <1>n, <1>3
    <3>2. ~ran'[n + 1].moved
      BY <3>1 DEF Unmoved
    <3> QED
      BY <1>1, <1>2, <3>2
  <2>4. TaskNow' = TaskNow /\ StepNow' = StepNow
    BY <2>3, RouteMoves DEF Stays, MovesOn
  <2> QED
    BY <1>n, <2>1, <2>2, <2>4 DEF FoundBy
<1> QED
  BY <1>5, <1>6, <1>7

LEMMA CallFinds ==
    ASSUME Typed, Typed', CallsRunOnceInOrder, TaskFound,
           NEW c \in Calls, Call(c)
    PROVE  TaskFound'
<1> DEFINE w == Checked(c, Checker!Blocks(Norm[c]))
<1>n. PICK n \in Nat : n = Len(trace) + 1
  BY DEF Typed
<1>1. /\ trace' = Append(trace, w) /\ ran' = ran /\ cur' = cur
      /\ w.after = Len(ran) /\ w.task = TaskNow /\ w.at = StepNow
  BY DEF Call, Checked, taskVars
<1>2. w = trace'[Len(trace) + 1] /\ Len(trace) + 1 \in DOMAIN trace'
  BY <1>1 DEF Typed
<1>3. w \in Verdicts
  BY <1>2 DEF Typed
<1> HIDE DEF w
<1>4. /\ \A i \in Sent : Place(i)' = Place(i) /\ trace'[i] = trace[i]
      /\ w.blocked  => Sent' = Sent
      /\ ~w.blocked => /\ Sent' = Sent \cup {n}
                       /\ Place(n)' = Cardinality(Sent) + 1
                       /\ trace'[n] = w
  BY <1>1, <1>3, <1>n, PlaceOfNext
<1>5. TaskNow' = TaskNow /\ StepNow' = StepNow
  BY <1>1 DEF TaskNow, StepNow
<1> SUFFICES ASSUME NEW j \in Sent', NEW v \in Verdicts, NEW p \in Nat,
                    v = trace'[j], p = Place(j)'
             PROVE  v.after < p /\ FoundBy(v, p)'
  BY DEF TaskFound
<1>6. CASE j \in Sent
  <2>1. v.after < p /\ FoundBy(v, p)
    BY <1>4, <1>6 DEF TaskFound
  <2> QED
    BY <1>1, <1>5, <2>1 DEF FoundBy, Unmoved
<1>7. CASE j = n /\ ~w.blocked
  <2>1. Cardinality(Sent) = Len(Received) /\ Len(Received) = Len(ran) + Len(inbox)
    BY ReceivedCalls DEF CallsRunOnceInOrder
  <2>2. Len(ran) \in Nat /\ Len(inbox) \in Nat
    BY DEF Typed, TypeOK
  <2>3. p > Len(ran)
    BY <1>4, <1>7, <2>1, <2>2
  <2>4. ~(p <= Len(ran'))
    BY <1>1, <2>2, <2>3
  <2> QED
    BY <1>1, <1>4, <1>5, <1>7, <2>2, <2>3, <2>4 DEF FoundBy
<1> QED
  BY <1>4, <1>6, <1>7

LEMMA NextFinds ==
    ASSUME Typed, Typed', CallsRunOnceInOrder, VerdictsStand, TaskFound,
           [Next]_vars
    PROVE  TaskFound'
<1>1. ASSUME trace' = trace, NEW j \in Sent'
      PROVE  j \in Sent /\ Place(j)' = Place(j) /\ j \in DOMAIN trace
  BY <1>1 DEF Sent, Place
<1>2. ASSUME UNCHANGED <<cur, trace, ran>>
      PROVE  TaskFound'
  <2> SUFFICES ASSUME NEW j \in Sent', NEW v \in Verdicts, NEW p \in Nat,
                      v = trace'[j], p = Place(j)'
               PROVE  v.after < p /\ FoundBy(v, p)'
    BY DEF TaskFound
  <2>1. v.after < p /\ FoundBy(v, p)
    BY <1>1, <1>2 DEF TaskFound
  <2>2. TaskNow' = TaskNow /\ StepNow' = StepNow
    BY <1>2 DEF TaskNow, StepNow
  <2> QED
    BY <1>2, <2>1, <2>2 DEF FoundBy, Unmoved
<1>3. ASSUME NEW passed \in Approvals, Route(passed)
      PROVE  TaskFound'
  <2> SUFFICES ASSUME NEW j \in Sent', NEW v \in Verdicts, NEW p \in Nat,
                      v = trace'[j], p = Place(j)'
               PROVE  v.after < p /\ FoundBy(v, p)'
    BY DEF TaskFound
  <2>0. trace' = trace
    BY <1>3 DEF Route
  <2>1. /\ v.after < p /\ FoundBy(v, p)
        /\ v.after <= Len(ran)
    BY <1>1, <2>0 DEF TaskFound, VerdictsStand
  <2> QED
    BY <1>3, <2>1, RouteFinds
<1>4. CASE End \/ Reject \/ Timeout \/ Report \/ Preflight \/ UNCHANGED vars
  BY <1>2, <1>4
  DEF End, Reject, Timeout, Report, Preflight, vars, taskVars
<1> QED
  BY <1>3, <1>4, CallFinds DEF Next, Agent, Router

\* All that the verdicts rest on.
VerdictsHold ==
    /\ Typed /\ StepTold /\ CallsRunOnceInOrder
    /\ ApprovedHere /\ VerdictsStand /\ TaskFound

LEMMA AlwaysVerdictsHold == Spec => []VerdictsHold
<1>1. Init => VerdictsHold
  <2> SUFFICES ASSUME Init PROVE VerdictsHold
    OBVIOUS
  <2>1. trace = <<>> /\ phase = "think" /\ told = "nobody"
    BY DEF Init
  <2>2. Sent = {}
    BY <2>1 DEF Sent
  <2>3. ApprovedHere /\ VerdictsStand /\ TaskFound
    BY <2>1, <2>2 DEF ApprovedHere, VerdictsStand, TaskFound
  <2> QED
    BY <2>3, InitTyped, InitStepTold, InitInOrder DEF VerdictsHold
<1>2. VerdictsHold /\ [Next]_vars => VerdictsHold'
  <2> SUFFICES ASSUME VerdictsHold, [Next]_vars PROVE VerdictsHold'
    OBVIOUS
  <2> USE DEF VerdictsHold
  <2>1. Typed'
    BY NextTyped
  <2>2. StepTold' /\ CallsRunOnceInOrder' /\ ApprovedHere'
    BY <2>1, NextStepTold, NextInOrder, NextApproved
  <2>3. VerdictsStand' /\ TaskFound'
    BY <2>1, NextVerdictsStand, NextFinds
  <2> QED
    BY <2>1, <2>2, <2>3
<1> QED
  BY <1>1, <1>2, PTL DEF Spec

\* The request of a call let through, found undisturbed, is that of its verdict.
LEMMA UndisturbedFound ==
    ASSUME VerdictsHold, NEW j \in Sent, Done(j)
    PROVE  \E v \in Verdicts, p \in Nat :
              /\ p = Place(j) /\ v = trace[j] /\ v.after < p /\ Stands(v)
              /\ ran[p].call = v.call
              /\ Undisturbed(j) => ran[p].task = v.task /\ ran[p].at = v.at
<1>1. /\ trace \in Seq(Verdicts) /\ ran \in Seq(Executions)
      /\ j \in DOMAIN trace /\ ~trace[j].blocked
  BY DEF VerdictsHold, Typed, Sent
<1>2. PICK v \in Verdicts : v = trace[j]
  BY <1>1
<1>3. PICK p \in Nat : p = Place(j)
  BY <1>1, PlaceInSent
<1>4. p \in 1 .. Len(ran)
  BY <1>1, <1>3 DEF Done
<1>5. v.after < p /\ FoundBy(v, p) /\ Stands(v)
  BY <1>1, <1>2, <1>3 DEF VerdictsHold, TaskFound, VerdictsStand
<1>6. ran[p].call = v.call
  <2>1. trace[j].call = Received[Place(j)]
    BY DEF VerdictsHold, CallsRunOnceInOrder, Place
  <2>2. Received[p] = ran[p].call
    BY <1>4, ReceivedCalls DEF VerdictsHold
  <2> QED
    BY <1>2, <1>3, <2>1, <2>2
<1>7. Undisturbed(j) => Unmoved(v, p - 1)
  BY <1>2, <1>3 DEF Undisturbed, Unmoved
<1> QED
  BY <1>2, <1>3, <1>4, <1>5, <1>6, <1>7 DEF FoundBy

\* A request is never executed at a step of the current task that forbids it,
\* however late it comes, unless a late request moved the task on after the
\* verdict, or TaskActor had told the checker of no step by then: the first
\* task of a process, until its first move.
THEOREM ForbiddenNeverRuns == Spec => []NothingForbiddenRuns
<1>1. VerdictsHold => NothingForbiddenRuns
  <2> SUFFICES ASSUME VerdictsHold, NEW j \in Sent, Done(j)
               PROVE  LET done == ran[Place(j)]
                      IN  /\ /\ trace[j].told = "TaskActor"
                             /\ Undisturbed(j)
                             /\ done.task # NoTask
                             /\ HasStep(Entry[done.task].op, done.at)
                             => ~Checker!Forbids(
                                   StepByName(Entry[done.task].op, done.at).forbidden,
                                   done.call)
                          /\ trace[j].told = "survey" =>
                                ~Checker!Forbids(
                                   PreflightContext(preflight.op).forbidden_tools,
                                   done.call)
    BY DEF NothingForbiddenRuns
  <2>1. PICK v \in Verdicts, p \in Nat :
              /\ p = Place(j) /\ v = trace[j] /\ v.after < p /\ Stands(v)
              /\ ran[p].call = v.call
              /\ Undisturbed(j) => ran[p].task = v.task /\ ran[p].at = v.at
    BY UndisturbedFound
  <2> QED
    BY <2>1 DEF Stands
<1> QED
  BY <1>1, AlwaysVerdictsHold, PTL

\* A task leaves plan-review by an advance only after an evaluation approved
\* its plan there: an approval of another task, or from another step, is never
\* taken for it.  The checker must have been told of the step by TaskActor,
\* and no late request must move the task between the verdict and the advance.
THEOREM PlanIsReviewedFirst == Spec => []PlanReviewedFirst
<1>1. VerdictsHold => PlanReviewedFirst
  <2> SUFFICES ASSUME VerdictsHold, NEW j \in Sent, Done(j), Undisturbed(j),
                      trace[j].told = "TaskActor",
                      ran[Place(j)].at = "plan-review",
                      Checker!IsTool(ran[Place(j)].call, "task/advance")
               PROVE  \E k \in 1 .. Place(j) - 1 :
                         /\ ran[k].task = ran[Place(j)].task
                         /\ ran[k].at = "plan-review"
                         /\ ran[k].approved
    BY DEF PlanReviewedFirst
  <2>1. PICK v \in Verdicts, p \in Nat :
              /\ p = Place(j) /\ v = trace[j] /\ v.after < p /\ Stands(v)
              /\ ran[p].call = v.call
              /\ Undisturbed(j) => ran[p].task = v.task /\ ran[p].at = v.at
    BY UndisturbedFound
  <2>2. Reviewed(ran, v.after, v.task, "plan-review")
    BY <2>1 DEF Stands
  <2>3. PICK k \in 1 .. v.after : /\ ran[k].task = v.task
                                  /\ ran[k].at = "plan-review"
                                  /\ ran[k].approved
    BY <2>2 DEF Reviewed
  <2>4. v.after \in Nat
    BY DEF Verdicts
  <2>5. k \in 1 .. p - 1
    BY <2>1, <2>3, <2>4
  <2> QED
    BY <2>1, <2>3, <2>5
<1> QED
  BY <1>1, AlwaysVerdictsHold, PTL

-----------------------------------------------------------------------------
(***************************************************************************)
(* The write step: once TaskActor has told the checker of a step, it       *)
(* remembers each test write reported since the task last moved, and a     *)
(* compile check that was called.                                          *)
(***************************************************************************)
\* The call of this step has the agent's step number.
Counted == phase # "ended" => step = Len(trace)

TestWrite(v) == ~v.blocked /\ Checker!IsTestWrite(v.call)

WritesRemembered ==
    told = "TaskActor" =>
        \A i \in 1 .. Reported, v \in Verdicts :
            v = trace[i] /\ TestWrite(v) /\ Unmoved(v, Len(ran)) =>
                i <= ctx.last_test_write

CheckRemembered ==
    LET i == ctx.last_compile_check
    IN  i # 0 => /\ i \in 1 .. Reported
                 /\ Checker!IsTool(trace[i].call, "compile/check")

WriteStep ==
    /\ VerdictsHold /\ CurrentCall
    /\ WritesRemembered /\ CheckRemembered /\ Counted
    /\ CompileCalledBetweenWrites

LEMMA InitWriteStep ==
    ASSUME Init, VerdictsHold
    PROVE  WriteStep
<1>1. /\ trace = <<>> /\ phase = "think" /\ step = 0 /\ told = "nobody"
      /\ ctx = Task!InitialContext
  BY DEF Init, Task!Init
<1>2. ctx.last_compile_check = 0
  BY <1>1 DEF Task!InitialContext, Task!FreshContext
<1>3. WritesRemembered /\ CheckRemembered /\ Counted
  BY <1>1, <1>2 DEF WritesRemembered, CheckRemembered, Counted
<1>4. CompileCalledBetweenWrites
  BY <1>1 DEF CompileCalledBetweenWrites, Sent
<1> QED
  BY <1>3, <1>4, InitAged DEF WriteStep

\* The property speaks of verdicts and executions that are there already.
LEMMA OldWritesKept ==
    ASSUME Typed, VerdictsStand, CompileCalledBetweenWrites, HistoryStep,
           NEW n \in Nat, n = Len(trace), 1 .. n \subseteq DOMAIN trace',
           \A i \in 1 .. n : trace'[i] = trace[i],
           NEW i \in 1 .. n, NEW j \in 1 .. n, i < j,
           TestWrite(trace[i]), TestWrite(trace[j]),
           trace[j].at = "write", trace[j].told = "TaskActor",
           \A k \in trace[i].after + 1 .. trace[j].after : ~ran'[k].moved
    PROVE  \E k \in i + 1 .. j - 1 : Checker!IsTool(trace[k].call, "compile/check")
<1>1. /\ DOMAIN trace = 1 .. n /\ trace[i] \in Verdicts /\ trace[j] \in Verdicts
      /\ ran \in Seq(Executions) /\ Len(ran) \in Nat
  BY DEF Typed
<1>2. i \in Sent /\ j \in Sent
  BY <1>1 DEF Sent, TestWrite
<1>3. /\ trace[j].after <= Len(ran)
      /\ trace[i].after \in Nat /\ trace[j].after \in Nat
  BY <1>1 DEF VerdictsStand, Verdicts
<1>4. \A k \in 1 .. Len(ran) : ran'[k] = ran[k]
  BY <1>1, HistoryGrows DEF HistoryStep
<1>5. \A k \in trace[i].after + 1 .. trace[j].after : ~ran[k].moved
  BY <1>1, <1>3, <1>4
<1> QED
  BY <1>2, <1>5 DEF CompileCalledBetweenWrites, TestWrite

LEMMA CompileKept ==
    ASSUME Typed, VerdictsStand, CompileCalledBetweenWrites, HistoryStep,
           trace' = trace
    PROVE  CompileCalledBetweenWrites'
<1>n. PICK n \in Nat : n = Len(trace)
  BY DEF Typed
<1>1. DOMAIN trace = 1 .. n /\ Sent' = Sent
  BY <1>n DEF Typed, Sent
<1> SUFFICES ASSUME NEW i \in Sent', NEW j \in Sent', i < j,
                    Checker!IsTestWrite(trace[i].call),
                    Checker!IsTestWrite(trace[j].call),
                    trace[j].at = "write", trace[j].told = "TaskActor",
                    \A k \in trace[i].after + 1 .. trace[j].after : ~ran'[k].moved
             PROVE  \E k \in i + 1 .. j - 1 :
                       Checker!IsTool(trace[k].call, "compile/check")
  BY DEF CompileCalledBetweenWrites, Checker!IsTestWrite, Checker!IsTool
<1>2. /\ i \in 1 .. n /\ j \in 1 .. n
      /\ TestWrite(trace[i]) /\ TestWrite(trace[j])
  BY <1>1 DEF Sent, TestWrite
<1> QED
  BY <1>n, <1>1, <1>2, OldWritesKept

\* The call that is checked: the debt of the last test write is paid.
LEMMA CallWriteStep ==
    ASSUME WriteStep, NEW c \in Calls, Call(c)
    PROVE  WritesRemembered' /\ CheckRemembered' /\ Counted'
              /\ CompileCalledBetweenWrites'
<1> DEFINE w == Checked(c, Checker!Blocks(Norm[c]))
<1>0. Typed /\ StepTold /\ VerdictsStand /\ HistoryStep
  BY NextIsHistoryStep DEF WriteStep, VerdictsHold, Next, Agent
<1>n. PICK n \in Nat : n = Len(trace)
  BY <1>0 DEF Typed
<1>1. /\ UNCHANGED <<cur, ctx, told, ran>>
      /\ trace' = Append(trace, w)
      /\ phase = "think" /\ InCall' /\ ~InCall /\ phase' # "ended"
      /\ step' = step + 1
  BY DEF Call, taskVars, InCall
<1>2. /\ w.call = Norm[c] /\ w.blocked = Checker!Blocks(Norm[c])
      /\ w.task = TaskNow /\ w.at = StepNow /\ w.told = told
      /\ w.after = Len(ran)
  BY DEF Checked
<1> HIDE DEF w
<1>3. /\ DOMAIN trace = 1 .. n /\ DOMAIN trace' = 1 .. n + 1
      /\ \A i \in 1 .. n : trace'[i] = trace[i]
      /\ trace'[n + 1] = w
      /\ Reported = n /\ Reported' = n /\ Len(trace') = n + 1
  BY <1>0, <1>1, <1>n DEF Typed, Reported
<1>4. Counted'
  BY <1>1, <1>3, <1>n DEF WriteStep, Counted
<1>5. WritesRemembered' /\ CheckRemembered'
  BY <1>1, <1>3
  DEF WriteStep, WritesRemembered, CheckRemembered, TestWrite, Unmoved,
      Checker!IsTestWrite, Checker!IsTool
<1>6. CompileCalledBetweenWrites'
  <2> SUFFICES ASSUME NEW i \in Sent', NEW j \in Sent', i < j,
                      Checker!IsTestWrite(trace'[i].call),
                      Checker!IsTestWrite(trace'[j].call),
                      trace'[j].at = "write", trace'[j].told = "TaskActor",
                      \A k \in trace'[i].after + 1 .. trace'[j].after :
                         ~ran'[k].moved
               PROVE  \E k \in i + 1 .. j - 1 :
                         Checker!IsTool(trace'[k].call, "compile/check")
    BY DEF CompileCalledBetweenWrites, Checker!IsTestWrite, Checker!IsTool
  <2>1. /\ i \in 1 .. n + 1 /\ j \in 1 .. n + 1 /\ i \in 1 .. n
        /\ ~trace'[i].blocked /\ ~trace'[j].blocked
        /\ trace'[i] = trace[i] /\ trace[i] \in Verdicts
        /\ TestWrite(trace[i])
    BY <1>0, <1>3 DEF Sent, TestWrite, Typed
  <2>2. CASE j \in 1 .. n
    <3>1. /\ trace'[j] = trace[j] /\ TestWrite(trace[j])
          /\ 1 .. n \subseteq DOMAIN trace'
          /\ trace[j].at = "write" /\ trace[j].told = "TaskActor"
      BY <1>3, <2>1, <2>2 DEF TestWrite
    <3>2. \A k \in trace[i].after + 1 .. trace[j].after : ~ran'[k].moved
      BY <2>1, <3>1
    <3>3. CompileCalledBetweenWrites
      BY DEF WriteStep
    <3>4. \E k \in i + 1 .. j - 1 : Checker!IsTool(trace[k].call, "compile/check")
      BY <1>0, <1>n, <1>3, <2>1, <2>2, <3>1, <3>2, <3>3, OldWritesKept
    <3>5. \A k \in i + 1 .. j - 1 : trace'[k] = trace[k]
      BY <1>3, <2>1, <2>2
    <3> QED
      BY <3>4, <3>5
  <2>3. CASE j = n + 1
    <3>1. /\ StepNow = "write" /\ told = "TaskActor"
          /\ ~Checker!Blocks(Norm[c]) /\ Checker!IsTestWrite(Norm[c])
      BY <1>2, <1>3, <2>1, <2>3
    <3>2. cur # NoTask /\ cur.step = "write"
      BY <3>1 DEF StepNow
    <3>3. ctx.playbook_step = "write"
      BY <1>0, <3>1, <3>2
      DEF StepTold, SameStep, ToldContext, ContextFor, FreshContext
    <3>4. \/ ctx.last_test_write = 0
          \/ ~(ctx.last_compile_check <= ctx.last_test_write)
      BY <3>1, <3>3 DEF Checker!Blocks, Checker!CompileOwed
    <3>5. Unmoved(trace[i], Len(ran))
      BY <1>1, <1>2, <1>3, <2>1, <2>3 DEF Unmoved
    <3>6. i <= ctx.last_test_write
      BY <1>3, <2>1, <3>1, <3>5 DEF WriteStep, WritesRemembered
    <3> DEFINE k == ctx.last_compile_check
    <3>7. k # 0 /\ i < k
      BY <1>0, <2>1, <3>4, <3>6 DEF StepTold, ContextShape
    <3>8. k \in 1 .. n /\ Checker!IsTool(trace[k].call, "compile/check")
      BY <1>3, <3>7 DEF WriteStep, CheckRemembered
    <3> HIDE DEF k
    <3>9. k \in i + 1 .. j - 1 /\ trace'[k] = trace[k]
      BY <1>3, <2>1, <2>3, <3>7, <3>8
    <3> QED
      BY <3>8, <3>9
  <2> QED
    BY <2>1, <2>2, <2>3
<1> QED
  BY <1>4, <1>5, <1>6

LEMMA ReportWriteStep ==
    ASSUME WriteStep, Report
    PROVE  WritesRemembered' /\ CheckRemembered' /\ Counted'
<1>0. Typed /\ StepTold
  BY DEF WriteStep, VerdictsHold
<1>n. PICK n \in Nat : n = Len(trace)
  BY <1>0 DEF Typed
<1>1. /\ UNCHANGED <<told, ran, trace, step>>
      /\ InCall /\ ~InCall' /\ phase # "ended" /\ phase' # "ended"
  BY DEF Report, InCall
<1>2. /\ n > 0 /\ trace[n].made = call /\ trace[n].call = Norm[call]
      /\ Reported = n - 1 /\ Reported' = n /\ step = n
      /\ DOMAIN trace = 1 .. n
  BY <1>0, <1>1, <1>n DEF WriteStep, CurrentCall, Typed, Reported, Counted
<1>3. call \in Calls
  BY <1>0 DEF Typed, TypeOK
<1>4. /\ ctx'.last_test_write =
           IF Checker!IsTestWrite(call) THEN n ELSE ctx.last_test_write
      /\ ctx'.last_compile_check =
           IF Checker!IsTool(call, "compile/check") THEN n
                                                    ELSE ctx.last_compile_check
  BY <1>0, <1>2, ReportKeepsStep DEF StepTold
<1>5. Counted'
  BY <1>1 DEF WriteStep, Counted
<1>6. WritesRemembered'
  <2> SUFFICES ASSUME told = "TaskActor", NEW i \in 1 .. n, NEW v \in Verdicts,
                      v = trace[i], TestWrite(v), Unmoved(v, Len(ran))
               PROVE  i <= ctx'.last_test_write
    BY <1>1, <1>2 DEF WritesRemembered, TestWrite, Checker!IsTestWrite, Unmoved
  <2>1. CASE i < n
    <3>1. i \in 1 .. Reported
      BY <1>2, <2>1
    <3> QED
      BY <1>4, <2>1, <3>1 DEF WriteStep, WritesRemembered
  <2>2. CASE i = n
    <3>1. Checker!IsTestWrite(Norm[call])
      BY <1>2, <2>2 DEF TestWrite
    <3>2. Norm[call] = call
      BY <1>3, <3>1, CallsAssumption DEF Checker!IsTestWrite
    <3> QED
      BY <1>4, <2>2, <3>1, <3>2
  <2> QED
    BY <2>1, <2>2
<1>7. CheckRemembered'
  <2>1. CASE Checker!IsTool(call, "compile/check")
    <3>1. Checker!IsTool(trace[n].call, "compile/check")
      BY <1>2, <1>3, <2>1, CallsAssumption DEF Checker!IsTool
    <3> QED
      BY <1>1, <1>2, <1>4, <2>1, <3>1 DEF CheckRemembered, Checker!IsTool
  <2>2. CASE ~Checker!IsTool(call, "compile/check")
    BY <1>1, <1>2, <1>4, <2>2
    DEF WriteStep, CheckRemembered, Checker!IsTool
  <2> QED
    BY <2>1, <2>2
<1> QED
  BY <1>5, <1>6, <1>7

\* A move begins the record anew.
LEMMA RouteWriteStep ==
    ASSUME WriteStep, NEW passed \in Approvals, Route(passed)
    PROVE  WritesRemembered' /\ CheckRemembered' /\ Counted'
<1>0. Typed /\ StepTold /\ VerdictsStand
  BY DEF WriteStep, VerdictsHold
<1> DEFINE e == Executed(Head(inbox), passed)
<1>1. /\ UNCHANGED <<trace, step>>
      /\ InCall' = InCall /\ (phase' = "ended") = (phase = "ended")
  BY DEF Route, Answer, InCall
<1>2. /\ Len(ran) \in Nat /\ Len(ran') = Len(ran) + 1
      /\ \A k \in 1 .. Len(ran) : ran'[k] = ran[k]
      /\ ran'[Len(ran) + 1].moved = Moved
  <2>1. ran' = Append(ran, e) /\ e.moved = Moved
    BY RoutedTool DEF Executed
  <2> HIDE DEF e
  <2> QED
    BY <1>0, <2>1, HistoryGrows DEF Typed
<1>3. Reported' = Reported /\ 1 .. Reported \subseteq DOMAIN trace
  BY <1>0, <1>1 DEF Reported, Typed, WriteStep, CurrentCall
<1>4. Counted'
  BY <1>1 DEF WriteStep, Counted
<1>5. ASSUME NEW i \in 1 .. Reported, NEW v \in Verdicts, v = trace[i],
             Unmoved(v, Len(ran))'
      PROVE  Unmoved(v, Len(ran)) /\ ~Moved
  <2>1. v.after \in Nat /\ v.after <= Len(ran)
    BY <1>0, <1>3, <1>5 DEF VerdictsStand, Verdicts
  <2>2. Len(ran) + 1 \in v.after + 1 .. Len(ran')
    BY <1>2, <2>1
  <2>3. ~Moved
    BY <1>2, <1>5, <2>2 DEF Unmoved
  <2>4. Unmoved(v, Len(ran))
    BY <1>2, <1>5, <2>1 DEF Unmoved
  <2> QED
    BY <2>3, <2>4
<1>6. CASE Stays
  BY <1>1, <1>3, <1>4, <1>5, <1>6
  DEF WriteStep, WritesRemembered, CheckRemembered, TestWrite, Stays, Kept,
      Checker!IsTestWrite, Checker!IsTool
<1>7. CASE MovesOn
  <2>1. ctx'.last_compile_check = 0
    BY <1>7 DEF MovesOn, Told, ContextFor, FreshContext
  <2>2. Moved
    BY <1>7 DEF MovesOn
  <2>3. WritesRemembered'
    BY <1>1, <1>3, <1>5, <2>2 DEF WritesRemembered
  <2> QED
    BY <1>4, <2>1, <2>3 DEF CheckRemembered
<1> QED
  BY <1>0, <1>4, <1>6, <1>7, RouteMoves

LEMMA PreflightWriteStep ==
    ASSUME WriteStep, Preflight
    PROVE  WritesRemembered' /\ CheckRemembered' /\ Counted'
<1>1. /\ UNCHANGED <<trace, step, phase, ran>>
      /\ IF HasManual(preflight.op)
         THEN ctx' = PreflightContext(preflight.op) /\ told' = "survey"
         ELSE UNCHANGED <<ctx, told>>
  BY DEF Preflight, Checker!UpdateContext, checkerVars
<1>2. Reported' = Reported /\ Counted'
  BY <1>1 DEF Reported, InCall, WriteStep, Counted
<1>3. CASE HasManual(preflight.op)
  <2>1. ctx'.last_compile_check = 0 /\ told' # "TaskActor"
    BY <1>1, <1>3 DEF PreflightContext, FreshContext
  <2> QED
    BY <1>2, <2>1 DEF WritesRemembered, CheckRemembered
<1>4. CASE ~HasManual(preflight.op)
  <2>1. UNCHANGED <<ctx, told, trace, ran>>
    BY <1>1, <1>4
  <2> QED
    BY <1>2, <2>1
    DEF WriteStep, WritesRemembered, CheckRemembered, TestWrite, Unmoved,
        Checker!IsTestWrite, Checker!IsTool
<1> QED
  BY <1>3, <1>4

LEMMA NextWriteStep ==
    ASSUME WriteStep, VerdictsHold', [Next]_vars
    PROVE  WriteStep'
<1>0. Typed /\ VerdictsStand /\ HistoryStep
  BY NextIsHistoryStep DEF WriteStep, VerdictsHold
<1>1. CurrentCall'
  BY <1>0, NextCurrent DEF WriteStep
<1>2. ASSUME NEW c \in Calls, Call(c)  PROVE WriteStep'
  BY <1>1, <1>2, CallWriteStep DEF WriteStep
<1>3. ASSUME trace' = trace, WritesRemembered' /\ CheckRemembered' /\ Counted'
      PROVE  WriteStep'
  BY <1>0, <1>1, <1>3, CompileKept DEF WriteStep
<1>4. CASE End \/ Reject \/ Timeout \/ UNCHANGED vars
  <2>1. /\ UNCHANGED <<ctx, trace, told, ran>> /\ InCall' = InCall
        /\ phase' # "ended" => step' = step /\ phase # "ended"
    BY <1>4
    DEF End, Reject, Timeout, vars, taskVars, agentVars, InCall,
        Checker!ToolCallRejected
  <2>2. Reported' = Reported
    BY <2>1 DEF Reported
  <2>3. WritesRemembered' /\ CheckRemembered' /\ Counted'
    BY <2>1, <2>2
    DEF WriteStep, WritesRemembered, CheckRemembered, Counted, TestWrite,
        Unmoved, Checker!IsTestWrite, Checker!IsTool
  <2> QED
    BY <1>3, <2>1, <2>3
<1>5. CASE Report
  BY <1>3, <1>5, ReportWriteStep DEF Report
<1>6. CASE Router
  BY <1>3, <1>6, RouteWriteStep DEF Router, Route
<1>7. CASE Preflight
  BY <1>3, <1>7, PreflightWriteStep DEF Preflight
<1> QED
  BY <1>2, <1>4, <1>5, <1>6, <1>7 DEF Next, Agent

\* Two test writes never go through at the write step without a compile check
\* called between them, when TaskActor had told the checker of the step and no
\* request moved the task between their checks: not even when the calls are
\* given up on, blocked or executed late, or the survey ends among them.
THEOREM CompileBetweenWrites == Spec => []CompileCalledBetweenWrites
<1>1. Init /\ VerdictsHold => WriteStep
  BY InitWriteStep
<1>2. WriteStep /\ VerdictsHold' /\ [Next]_vars => WriteStep'
  BY NextWriteStep
<1>3. WriteStep => CompileCalledBetweenWrites
  BY DEF WriteStep
<1> QED
  BY <1>1, <1>2, <1>3, AlwaysVerdictsHold, PTL DEF Spec
=============================================================================
