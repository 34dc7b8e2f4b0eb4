--------------------------- MODULE TaskActorProofs ---------------------------
(***************************************************************************)
(* Theorems about TaskActor, for every set of tasks, every playbook, every *)
(* queue and every outcome of the writes of the taskfile.                  *)
(***************************************************************************)
EXTENDS TaskActor, TLAPS

(***************************************************************************)
(* Lists without repetition.                                               *)
(***************************************************************************)
LEMMA AppendElements ==
    ASSUME NEW S, NEW s \in Seq(S), NEW x \in S
    PROVE  /\ Append(s, x) \in Seq(S)
           /\ Elements(Append(s, x)) = Elements(s) \cup {x}
           /\ Distinct(s) /\ x \notin Elements(s) => Distinct(Append(s, x))
<1> DEFINE a == Append(s, x)
<1>1. /\ a \in Seq(S)
      /\ Len(a) = Len(s) + 1
      /\ DOMAIN a = 1 .. Len(s) + 1
      /\ DOMAIN s = 1 .. Len(s)
      /\ Len(s) \in Nat
      /\ \A i \in 1 .. Len(s) : a[i] = s[i]
      /\ a[Len(s) + 1] = x
  OBVIOUS
<1>2. Elements(a) = Elements(s) \cup {x}
  BY <1>1, SMT DEF Elements
<1>3. ASSUME Distinct(s), x \notin Elements(s)  PROVE Distinct(a)
  BY <1>1, <1>3, SMT DEF Distinct, Elements
<1> QED
  BY <1>1, <1>2, <1>3

LEMMA TailElements ==
    ASSUME NEW S, NEW s \in Seq(S), s # <<>>
    PROVE  /\ Head(s) \in S
           /\ Tail(s) \in Seq(S)
           /\ Elements(s) = {Head(s)} \cup Elements(Tail(s))
           /\ Distinct(s) => /\ Head(s) \notin Elements(Tail(s))
                             /\ Distinct(Tail(s))
<1> DEFINE t == Tail(s)
<1>1. /\ t \in Seq(S)
      /\ Len(s) \in Nat
      /\ Len(s) >= 1
      /\ DOMAIN s = 1 .. Len(s)
      /\ DOMAIN t = 1 .. Len(s) - 1
      /\ \A i \in 1 .. Len(s) - 1 : t[i] = s[i + 1]
      /\ Head(s) = s[1]
      /\ s[1] \in S
  OBVIOUS
<1>2. Elements(s) = {Head(s)} \cup Elements(t)
  <2>1. ASSUME NEW i \in DOMAIN s  PROVE s[i] \in {Head(s)} \cup Elements(t)
    <3>1. CASE i = 1
      BY <1>1, <3>1
    <3>2. CASE i # 1
      <4>1. i - 1 \in DOMAIN t /\ t[i - 1] = s[i]
        BY <1>1, <3>2
      <4> QED
        BY <4>1 DEF Elements
    <3> QED
      BY <3>1, <3>2
  <2>2. ASSUME NEW i \in DOMAIN t  PROVE t[i] \in Elements(s)
    <3>1. i + 1 \in DOMAIN s /\ t[i] = s[i + 1]
      BY <1>1
    <3> QED
      BY <3>1 DEF Elements
  <2>3. Head(s) \in Elements(s)
    BY <1>1 DEF Elements
  <2> QED
    BY <2>1, <2>2, <2>3 DEF Elements
<1>3. ASSUME Distinct(s)  PROVE Head(s) \notin Elements(t) /\ Distinct(t)
  BY <1>1, <1>3, SMT DEF Distinct, Elements
<1> QED
  BY <1>1, <1>2, <1>3
-----------------------------------------------------------------------------
(***************************************************************************)
(* Type correctness.                                                       *)
(***************************************************************************)
LEMMA FreshType ==
    ASSUME NEW t \in Tasks
    PROVE  /\ Fresh(t) \in RuntimeTasks
           /\ Fresh(t) # NoTask
           /\ Fresh(t).id = t
<1>1. Fresh(t) \in RuntimeTasks
  BY EntryAssumption, TaskfileAssumption, SMT DEF Fresh, RuntimeTasks, StepNames
<1> QED
  BY <1>1, TaskfileAssumption DEF Fresh

LEMMA StepNameType ==
    ASSUME NEW op \in DOMAIN Playbooks, NEW i \in DOMAIN Playbooks[op].steps
    PROVE  Playbooks[op].steps[i].name \in StepNames
<1> DEFINE names(o) == {Playbooks[o].steps[k].name :
                          k \in DOMAIN Playbooks[o].steps}
<1>1. Playbooks[op].steps[i].name \in names(op)
  OBVIOUS
<1>2. names(op) \in {names(o) : o \in DOMAIN Playbooks}
  OBVIOUS
<1>3. {names(o) : o \in DOMAIN Playbooks}
        = {{Playbooks[o].steps[k].name : k \in DOMAIN Playbooks[o].steps} :
             o \in DOMAIN Playbooks}
  OBVIOUS
<1> HIDE DEF names
<1>4. Playbooks[op].steps[i].name
        \in UNION {names(o) : o \in DOMAIN Playbooks}
  BY <1>1, <1>2, Zenon
<1> QED
  BY <1>3, <1>4, Zenon DEF StepNames

LEMMA SteppedType ==
    ASSUME NEW task \in RuntimeTasks, ~LastStep(task)
    PROVE  /\ Stepped(task) \in RuntimeTasks
           /\ Stepped(task).id = task.id
           /\ Stepped(task).step_index = task.step_index + 1
<1>1. /\ Op(task) \in DOMAIN Playbooks
      /\ ~(task.step_index + 1 >= StepCount(Op(task)))
  BY DEF LastStep, HasPlaybook
<1>2. task.step_index \in Nat
  BY DEF RuntimeTasks
<1>3. (task.step_index + 1) + 1 \in DOMAIN Playbooks[Op(task)].steps
  BY <1>1, <1>2, PlaybookAssumption
<1> DEFINE name == StepByIndex(Op(task), task.step_index + 1).name
<1>4. name \in StepNames
  BY <1>1, <1>3, StepNameType DEF StepByIndex
<1> HIDE DEF name
<1>5. Stepped(task) = [id |-> task.id, step |-> name,
                       step_index |-> task.step_index + 1,
                       step_attempts |-> 0,
                       coverage_plan |-> task.coverage_plan]
  BY DEF Stepped, name
<1>6. 0 \in 0 .. MaxAttempts /\ task.step_index + 1 \in Nat
  BY <1>2, TaskfileAssumption
<1> QED
  BY <1>4, <1>5, <1>6 DEF RuntimeTasks

\* Where a save leaves the file, given what the memory has become.
LEMMA SaveType ==
    ASSUME TypeOK, Snapshot' \in Files, Save
    PROVE  disk' \in Files \cup {Torn} /\ unsaved' \in BOOLEAN
  BY DEF TypeOK, Save

LEMMA SnapshotType ==
    ASSUME cur' \in RuntimeTasks \cup {NoTask},
           pending' \in Seq(Tasks \cup Malformed),
           completed' \in Seq(Tasks), halted' \in Seq(Tasks),
           deferred' \in Seq(Tasks)
    PROVE  Snapshot' \in Files
  BY DEF Snapshot, Files

LEMMA VisitType ==
    ASSUME TypeOK, Visit, cur' \in RuntimeTasks \cup {NoTask}
    PROVE  visited' \in [Tasks -> SUBSET Nat]
<1>1. CASE cur' = NoTask
  BY <1>1 DEF Visit, TypeOK
<1>2. CASE cur' # NoTask
  <2>1. cur'.id \in Tasks /\ cur'.step_index \in Nat
    BY <1>2 DEF RuntimeTasks
  <2> QED
    BY <1>2, <2>1 DEF Visit, TypeOK
<1> QED
  BY <1>1, <1>2

LEMMA DeserialisedType ==
    ASSUME TypeOK
    PROVE  /\ Deserialised(pending) \in RuntimeTasks \cup {NoTask}
           /\ Rest(pending) \in Seq(Tasks \cup Malformed)
<1>1. pending # <<>> => Tail(pending) \in Seq(Tasks \cup Malformed)
  BY TailElements DEF TypeOK
<1>2. Deserialised(pending) \in RuntimeTasks \cup {NoTask}
  BY FreshType DEF Deserialised
<1> QED
  BY <1>1, <1>2 DEF Rest, TypeOK

LEMMA InitType == Init => TypeOK
<1> SUFFICES ASSUME Init PROVE TypeOK
  OBVIOUS
<1>1. /\ cur \in RuntimeTasks \cup {NoTask}
      /\ pending \in Seq(Tasks \cup Malformed)
  <2> PICK q \in Queues : \/ cur = NoTask /\ pending = q
                          \/ /\ q # <<>>
                             /\ Head(q) \in Tasks
                             /\ cur = Fresh(Head(q))
                             /\ pending = Tail(q)
    BY DEF Init
  <2>1. q \in Seq(Tasks \cup Malformed)
    BY TaskfileAssumption
  <2> QED
    BY <2>1, FreshType, TailElements
<1>2. /\ completed \in Seq(Tasks) /\ halted \in Seq(Tasks)
      /\ deferred \in Seq(Tasks)
  BY DEF Init
<1>3. disk \in Files
  BY <1>1, <1>2 DEF Init, Snapshot, Files
<1>4. visited \in [Tasks -> SUBSET Nat]
  BY <1>1 DEF Init, RuntimeTasks
<1> QED
  BY <1>1, <1>2, <1>3, <1>4 DEF Init, TypeOK, Commands

\* A handler that ends in a save is type correct when the memory it leaves is.
LEMMA SavingType ==
    ASSUME TypeOK, Save,
           cur' \in RuntimeTasks \cup {NoTask},
           pending' \in Seq(Tasks \cup Malformed),
           completed' \in Seq(Tasks), halted' \in Seq(Tasks),
           deferred' \in Seq(Tasks),
           visited' \in [Tasks -> SUBSET Nat],
           NEW cmd \in Commands, NEW ok \in BOOLEAN, Reply(cmd, ok)
    PROVE  TypeOK'
<1>1. Snapshot' \in Files
  BY SnapshotType
<1>2. disk' \in Files \cup {Torn} /\ unsaved' \in BOOLEAN
  BY <1>1, SaveType
<1>3. reply' \in [cmd : Commands, ok : BOOLEAN]
  BY DEF Reply
<1> QED
  BY <1>2, <1>3 DEF TypeOK

LEMMA RefuseType ==
    ASSUME TypeOK, NEW cmd \in Commands, Refuse(cmd)
    PROVE  TypeOK'
<1>1. reply' \in [cmd : Commands, ok : BOOLEAN]
  BY DEF Refuse, Reply
<1> QED
  BY <1>1 DEF TypeOK, Refuse

LEMMA EditedType ==
    ASSUME TypeOK, cur # NoTask
    PROVE  /\ [cur EXCEPT !.coverage_plan = TRUE] \in RuntimeTasks
           /\ cur.step_attempts < MaxAttempts =>
                [cur EXCEPT !.step_attempts = @ + 1] \in RuntimeTasks
<1>1. cur \in RuntimeTasks
  BY DEF TypeOK
<1>2. [cur EXCEPT !.coverage_plan = TRUE] \in RuntimeTasks
  BY <1>1 DEF RuntimeTasks
<1>3. ASSUME cur.step_attempts < MaxAttempts
      PROVE  [cur EXCEPT !.step_attempts = @ + 1] \in RuntimeTasks
  <2>1. cur.step_attempts + 1 \in 0 .. MaxAttempts
    BY <1>1, <1>3, TaskfileAssumption DEF RuntimeTasks
  <2> QED
    BY <1>1, <2>1 DEF RuntimeTasks
<1> QED
  BY <1>2, <1>3

LEMMA AppendCurrent ==
    ASSUME TypeOK, cur # NoTask
    PROVE  /\ cur.id \in Tasks
           /\ Append(completed, cur.id) \in Seq(Tasks)
           /\ Append(halted, cur.id) \in Seq(Tasks)
           /\ Append(deferred, cur.id) \in Seq(Tasks)
<1>1. cur.id \in Tasks
  BY DEF TypeOK, RuntimeTasks
<1> QED
  BY <1>1, AppendElements DEF TypeOK

LEMMA NextType == TypeOK /\ [Next]_vars => TypeOK'
<1> SUFFICES ASSUME TypeOK, [Next]_vars PROVE TypeOK'
  OBVIOUS
<1> USE DEF Commands
<1>1. ASSUME NEW verified \in BOOLEAN, Advance(verified)  PROVE TypeOK'
  <2>1. CASE Refuse("advance")
    BY <2>1, RefuseType
  <2>2. CASE StepForward
    <3>1. cur' \in RuntimeTasks
      BY <2>2, SteppedType DEF StepForward, TypeOK
    <3>2. visited' \in [Tasks -> SUBSET Nat]
      BY <2>2, <3>1, VisitType DEF StepForward
    <3> QED
      BY <2>2, <3>1, <3>2, SavingType DEF StepForward, TypeOK
  <2>3. CASE CompleteTask
    <3>1. /\ cur' \in RuntimeTasks \cup {NoTask}
          /\ pending' \in Seq(Tasks \cup Malformed)
      BY <2>3, DeserialisedType DEF CompleteTask
    <3>2. completed' \in Seq(Tasks)
      BY <2>3, AppendCurrent DEF CompleteTask
    <3>3. visited' \in [Tasks -> SUBSET Nat]
      BY <2>3, <3>1, VisitType DEF CompleteTask
    <3> QED
      BY <2>3, <3>1, <3>2, <3>3, SavingType DEF CompleteTask, TypeOK
  <2> QED
    BY <1>1, <2>1, <2>2, <2>3 DEF Advance
<1>2. ASSUME LoadTask  PROVE TypeOK'
  <2>1. CASE NothingToLoad
    BY <2>1 DEF NothingToLoad, TypeOK, Reply
  <2>2. CASE LoadNext
    <3>1. /\ cur' \in RuntimeTasks \cup {NoTask}
          /\ pending' \in Seq(Tasks \cup Malformed)
      BY <2>2, FreshType, TailElements DEF LoadNext, TypeOK
    <3>2. visited' \in [Tasks -> SUBSET Nat]
      BY <2>2, <3>1, VisitType DEF LoadNext
    <3> QED
      BY <2>2, <3>1, <3>2, SavingType DEF LoadNext, TypeOK
  <2>3. CASE LoadMalformed
    <3>1. pending' \in Seq(Tasks \cup Malformed)
      BY <2>3, TailElements DEF LoadMalformed, TypeOK
    <3> QED
      BY <2>3, <3>1 DEF LoadMalformed, TypeOK, Reply
  <2> QED
    BY <1>2, <2>1, <2>2, <2>3 DEF LoadTask
<1>3. ASSUME Halt  PROVE TypeOK'
  <2>1. CASE Refuse("halt")
    BY <2>1, RefuseType
  <2>2. CASE cur # NoTask /\ ~Refuse("halt")
    <3>1. halted' \in Seq(Tasks)
      BY <1>3, <2>2, AppendCurrent DEF Halt
    <3> QED
      BY <1>3, <2>2, <3>1, SavingType DEF Halt, TypeOK
  <2> QED
    BY <1>3, <2>1, <2>2 DEF Halt
<1>4. ASSUME NEW crate \in Crates, DeferTask(crate)  PROVE TypeOK'
  <2>1. CASE Refuse("defer")
    BY <2>1, RefuseType
  <2>2. CASE cur # NoTask /\ ~Refuse("defer")
    <3>1. deferred' \in Seq(Tasks)
      BY <1>4, <2>2, AppendCurrent DEF DeferTask
    <3> QED
      BY <1>4, <2>2, <3>1, SavingType DEF DeferTask, TypeOK
  <2> QED
    BY <1>4, <2>1, <2>2 DEF DeferTask, RunsCrate
<1>5. ASSUME NEW planned \in BOOLEAN, WriteCoveragePlan(planned)
      PROVE  TypeOK'
  <2>1. CASE Refuse("plan")
    BY <2>1, RefuseType
  <2>2. CASE ~Refuse("plan")
    <3>1. cur' \in RuntimeTasks
      BY <1>5, <2>2, EditedType DEF WriteCoveragePlan
    <3>2. unsaved' = TRUE \/ unsaved' = FALSE
      BY <1>5, <2>2 DEF WriteCoveragePlan, Save
    <3>3. (~unsaved') \in BOOLEAN
      BY <3>2
    <3> QED
      BY <1>5, <2>2, <3>1, <3>3, SavingType DEF WriteCoveragePlan, TypeOK
  <2> QED
    BY <2>1, <2>2
<1>6. ASSUME RecordAttempt  PROVE TypeOK'
  <2>1. CASE Refuse("attempt")
    BY <2>1, RefuseType
  <2>2. CASE ~Refuse("attempt")
    <3>1. cur' \in RuntimeTasks
      BY <1>6, <2>2, EditedType DEF RecordAttempt
    <3> QED
      BY <1>6, <2>2, <3>1, SavingType DEF RecordAttempt, TypeOK
  <2> QED
    BY <2>1, <2>2
<1>7. ASSUME RecordOrient  PROVE TypeOK'
  <2>1. CASE Refuse("orient")
    BY <2>1, RefuseType
  <2>2. CASE ~Refuse("orient")
    BY <1>7, <2>2, SavingType DEF RecordOrient, TypeOK
  <2> QED
    BY <2>1, <2>2
<1>8. ASSUME GetState  PROVE TypeOK'
  BY <1>8 DEF GetState, TypeOK, Reply
<1>9. ASSUME Restart  PROVE TypeOK'
  BY <1>9 DEF Restart, TypeOK, Files, Reply
<1>10. ASSUME UNCHANGED vars  PROVE TypeOK'
  BY <1>10 DEF vars, TypeOK
<1> QED
  BY <1>1, <1>2, <1>3, <1>4, <1>5, <1>6, <1>7, <1>8, <1>9, <1>10 DEF Next

\* The memory, the file and the history of TaskActor keep their types, so no
\* handler reads a step or a task that is not there.
THEOREM TypeCorrect == Spec => []TypeOK
<1>1. Init => TypeOK
  BY InitType
<1>2. TypeOK /\ [Next]_vars => TypeOK'
  BY NextType
<1> QED
  BY <1>1, <1>2, PTL DEF Spec

-----------------------------------------------------------------------------
(***************************************************************************)
(* Each well-formed task is in exactly one place.  EachTaskOnce of the     *)
(* memory is not inductive without EachTaskOnce of the file, which is what *)
(* a restart makes the memory: NoTaskLostOrDuplicated states both.         *)
(***************************************************************************)
\* What EachTaskOnce says of the memory before and after a step.
LEMMA CurrentPlace ==
    ASSUME TypeOK, cur # NoTask, EachTaskOnce(Snapshot)
    PROVE  /\ cur.id \in Tasks
           /\ cur.id \notin Elements(pending)
           /\ cur.id \notin Elements(completed)
           /\ cur.id \notin Elements(halted)
           /\ cur.id \notin Elements(deferred)
<1>1. cur.id \in Running(Snapshot)
  BY DEF Running, Snapshot
<1> QED
  BY <1>1, AppendCurrent DEF EachTaskOnce, Snapshot

LEMMA RunningCurrent == cur # NoTask => Running(Snapshot) = {cur.id}
  BY DEF Running, Snapshot

LEMMA EmptyList == Elements(<<>>) = {} /\ Distinct(<<>>)
  BY DEF Elements, Distinct

LEMMA QueueHead ==
    ASSUME TypeOK, EachTaskOnce(Snapshot), pending # <<>>
    PROVE  /\ Elements(pending) = {Head(pending)} \cup Elements(Tail(pending))
           /\ Head(pending) \notin Elements(Tail(pending))
           /\ Distinct(Tail(pending))
<1>1. pending \in Seq(Tasks \cup Malformed) /\ Distinct(pending)
  BY DEF TypeOK, EachTaskOnce, Snapshot
<1> QED
  BY <1>1, TailElements

\* EachTaskOnce of the memory, in terms of the variables.
LEMMA MemoryOnce ==
    EachTaskOnce(Snapshot) <=>
        LET r == Running(Snapshot)
            p == Elements(pending)
            c == Elements(completed)
            h == Elements(halted)
            d == Elements(deferred)
        IN  /\ Distinct(pending) /\ Distinct(completed)
            /\ Distinct(halted)  /\ Distinct(deferred)
            /\ p \cap c = {} /\ p \cap h = {} /\ p \cap d = {}
            /\ c \cap h = {} /\ c \cap d = {} /\ h \cap d = {}
            /\ r \cap (p \cup c \cup h \cup d) = {}
            /\ Tasks \subseteq r \cup p \cup c \cup h \cup d
<1>1. /\ Snapshot.pending = pending /\ Snapshot.completed = completed
      /\ Snapshot.halted = halted /\ Snapshot.deferred = deferred
  BY DEF Snapshot
<1> QED
  BY <1>1 DEF EachTaskOnce

LEMMA NextMemoryOnce ==
    EachTaskOnce(Snapshot)' <=>
        LET r == Running(Snapshot)'
            p == Elements(pending')
            c == Elements(completed')
            h == Elements(halted')
            d == Elements(deferred')
        IN  /\ Distinct(pending') /\ Distinct(completed')
            /\ Distinct(halted')  /\ Distinct(deferred')
            /\ p \cap c = {} /\ p \cap h = {} /\ p \cap d = {}
            /\ c \cap h = {} /\ c \cap d = {} /\ h \cap d = {}
            /\ r \cap (p \cup c \cup h \cup d) = {}
            /\ Tasks \subseteq r \cup p \cup c \cup h \cup d
<1>1. /\ Snapshot'.pending = pending' /\ Snapshot'.completed = completed'
      /\ Snapshot'.halted = halted' /\ Snapshot'.deferred = deferred'
  BY DEF Snapshot
<1> QED
  BY <1>1 DEF EachTaskOnce

\* The step keeps the lists and the task that is current.
LEMMA SamePlaces ==
    ASSUME TypeOK, EachTaskOnce(Snapshot),
           UNCHANGED <<pending, completed, halted, deferred>>,
           Running(Snapshot)' = Running(Snapshot)
    PROVE  EachTaskOnce(Snapshot)'
  BY DEF EachTaskOnce, Snapshot

LEMMA EditKeepsPlaces ==
    ASSUME TypeOK, EachTaskOnce(Snapshot), cur # NoTask,
           UNCHANGED <<pending, completed, halted, deferred>>,
           cur' \in RuntimeTasks, cur'.id = cur.id
    PROVE  EachTaskOnce(Snapshot)'
<1>1. cur' # NoTask
  BY TaskfileAssumption
<1>2. Running(Snapshot)' = Running(Snapshot)
  BY <1>1 DEF Running, Snapshot
<1> QED
  BY <1>2, SamePlaces

LEMMA CompleteOnce ==
    ASSUME TypeOK, EachTaskOnce(Snapshot), CompleteTask
    PROVE  EachTaskOnce(Snapshot)'
<1>1. cur # NoTask /\ UNCHANGED <<halted, deferred>>
  BY DEF CompleteTask
<1>2. /\ Elements(completed') = Elements(completed) \cup {cur.id}
      /\ Distinct(completed')
  <2>1. completed \in Seq(Tasks) /\ Distinct(completed)
    BY DEF TypeOK, EachTaskOnce, Snapshot
  <2> QED
    BY <1>1, <2>1, CurrentPlace, AppendElements DEF CompleteTask
<1>3. CASE pending = <<>>
  <2>1. pending' = <<>> /\ Running(Snapshot)' = {}
    BY <1>3 DEF CompleteTask, Deserialised, Rest, Running, Snapshot
  <2> QED
    BY <1>1, <1>2, <1>3, <2>1, EmptyList, CurrentPlace
    DEF EachTaskOnce, Snapshot, Running
<1>4. CASE pending # <<>> /\ Head(pending) \in Tasks
  <2>1. pending' = Tail(pending) /\ Running(Snapshot)' = {Head(pending)}
    BY <1>4, FreshType
    DEF CompleteTask, Deserialised, Rest, Running, Snapshot
  <2> QED
    BY <1>1, <1>2, <1>4, <2>1, QueueHead, CurrentPlace, RunningCurrent,
       MemoryOnce, NextMemoryOnce
<1>5. CASE pending # <<>> /\ Head(pending) \notin Tasks
  <2>1. pending' = Tail(pending) /\ Running(Snapshot)' = {}
    BY <1>5 DEF CompleteTask, Deserialised, Rest, Running, Snapshot
  <2> QED
    BY <1>1, <1>2, <1>5, <2>1, QueueHead, CurrentPlace, RunningCurrent,
       MemoryOnce, NextMemoryOnce
<1> QED
  BY <1>3, <1>4, <1>5

LEMMA LoadOnce ==
    ASSUME TypeOK, EachTaskOnce(Snapshot), LoadTask
    PROVE  EachTaskOnce(Snapshot)'
<1>1. CASE NothingToLoad
  BY <1>1, SamePlaces DEF NothingToLoad, Running, Snapshot
<1>2. CASE LoadNext
  <2>1. /\ pending' = Tail(pending) /\ pending # <<>>
        /\ Running(Snapshot) = {} /\ Running(Snapshot)' = {Head(pending)}
        /\ Head(pending) \in Tasks
        /\ UNCHANGED <<completed, halted, deferred>>
    BY <1>2, FreshType DEF LoadNext, Running, Snapshot
  <2> QED
    BY <2>1, QueueHead, MemoryOnce, NextMemoryOnce
<1>3. CASE LoadMalformed
  <2>1. /\ pending' = Tail(pending) /\ pending # <<>>
        /\ Running(Snapshot) = {} /\ Running(Snapshot)' = {}
        /\ Head(pending) \notin Tasks
        /\ UNCHANGED <<completed, halted, deferred>>
    BY <1>3 DEF LoadMalformed, Running, Snapshot
  <2> QED
    BY <2>1, QueueHead, MemoryOnce, NextMemoryOnce
<1> QED
  BY <1>1, <1>2, <1>3 DEF LoadTask

LEMMA HaltOnce ==
    ASSUME TypeOK, EachTaskOnce(Snapshot), cur # NoTask, cur' = NoTask,
           halted' = Append(halted, cur.id),
           UNCHANGED <<pending, completed, deferred>>
    PROVE  EachTaskOnce(Snapshot)'
<1>1. /\ Elements(halted') = Elements(halted) \cup {cur.id}
      /\ Distinct(halted')
  <2>1. halted \in Seq(Tasks) /\ Distinct(halted)
    BY DEF TypeOK, EachTaskOnce, Snapshot
  <2> QED
    BY <2>1, CurrentPlace, AppendElements
<1>2. Running(Snapshot)' = {}
  BY DEF Running, Snapshot
<1> QED
  BY <1>1, <1>2, CurrentPlace DEF EachTaskOnce, Snapshot, Running

LEMMA DeferOnce ==
    ASSUME TypeOK, EachTaskOnce(Snapshot), cur # NoTask, cur' = NoTask,
           deferred' = Append(deferred, cur.id),
           UNCHANGED <<pending, completed, halted>>
    PROVE  EachTaskOnce(Snapshot)'
<1>1. /\ Elements(deferred') = Elements(deferred) \cup {cur.id}
      /\ Distinct(deferred')
  <2>1. deferred \in Seq(Tasks) /\ Distinct(deferred)
    BY DEF TypeOK, EachTaskOnce, Snapshot
  <2> QED
    BY <2>1, CurrentPlace, AppendElements
<1>2. Running(Snapshot)' = {}
  BY DEF Running, Snapshot
<1> QED
  BY <1>1, <1>2, CurrentPlace DEF EachTaskOnce, Snapshot, Running

LEMMA RefuseOnce ==
    ASSUME TypeOK, NoTaskLostOrDuplicated, NEW cmd, Refuse(cmd)
    PROVE  NoTaskLostOrDuplicated'
<1>1. Running(Snapshot)' = Running(Snapshot) /\ disk' = disk
  BY DEF Refuse, Running, Snapshot
<1> QED
  BY <1>1, SamePlaces DEF Refuse, NoTaskLostOrDuplicated

\* A save writes the memory or leaves the file, if it does not tear it.
LEMMA SaveOnce ==
    ASSUME NoTaskLostOrDuplicated, EachTaskOnce(Snapshot)', Save
    PROVE  NoTaskLostOrDuplicated'
  BY DEF NoTaskLostOrDuplicated, Save

LEMMA InitOnce == Init => NoTaskLostOrDuplicated
<1> SUFFICES ASSUME Init PROVE NoTaskLostOrDuplicated
  OBVIOUS
<1> PICK q \in Queues : \/ cur = NoTask /\ pending = q
                        \/ /\ q # <<>>
                           /\ Head(q) \in Tasks
                           /\ cur = Fresh(Head(q))
                           /\ pending = Tail(q)
  BY DEF Init
<1>1. /\ q \in Seq(Tasks \cup Malformed)
      /\ Distinct(q)
      /\ Tasks \subseteq Elements(q)
  BY TaskfileAssumption
<1>2. /\ completed = <<>> /\ halted = <<>> /\ deferred = <<>>
      /\ disk = Snapshot
  BY DEF Init
<1>3. CASE cur = NoTask /\ pending = q
  <2>1. Running(Snapshot) = {}
    BY <1>3 DEF Running, Snapshot
  <2>2. EachTaskOnce(Snapshot)
    BY <1>1, <1>2, <1>3, <2>1, EmptyList DEF EachTaskOnce, Snapshot
  <2> QED
    BY <1>2, <2>2 DEF NoTaskLostOrDuplicated
<1>4. CASE /\ q # <<>> /\ Head(q) \in Tasks
           /\ cur = Fresh(Head(q)) /\ pending = Tail(q)
  <2>1. Running(Snapshot) = {Head(q)}
    BY <1>4, FreshType DEF Running, Snapshot
  <2>2. /\ Elements(q) = {Head(q)} \cup Elements(pending)
        /\ Head(q) \notin Elements(pending)
        /\ Distinct(pending)
    BY <1>1, <1>4, TailElements
  <2>3. EachTaskOnce(Snapshot)
    BY <1>1, <1>2, <2>1, <2>2, EmptyList DEF EachTaskOnce, Snapshot
  <2> QED
    BY <1>2, <2>3 DEF NoTaskLostOrDuplicated
<1> QED
  BY <1>3, <1>4

LEMMA NextOnce ==
    TypeOK /\ TypeOK' /\ NoTaskLostOrDuplicated /\ [Next]_vars
        => NoTaskLostOrDuplicated'
<1> SUFFICES ASSUME TypeOK, TypeOK', NoTaskLostOrDuplicated, [Next]_vars
             PROVE  NoTaskLostOrDuplicated'
  OBVIOUS
<1>0. EachTaskOnce(Snapshot)
  BY DEF NoTaskLostOrDuplicated
<1>1. ASSUME NEW verified \in BOOLEAN, Advance(verified)
      PROVE  NoTaskLostOrDuplicated'
  <2>1. CASE StepForward
    <3>1. cur' \in RuntimeTasks /\ cur'.id = cur.id
      BY <2>1, SteppedType DEF StepForward, TypeOK
    <3>2. EachTaskOnce(Snapshot)'
      BY <1>0, <2>1, <3>1, EditKeepsPlaces DEF StepForward
    <3> QED
      BY <2>1, <3>2, SaveOnce DEF StepForward
  <2>2. CASE CompleteTask
    <3>1. EachTaskOnce(Snapshot)'
      BY <1>0, <2>2, CompleteOnce
    <3> QED
      BY <2>2, <3>1, SaveOnce DEF CompleteTask
  <2> QED
    BY <1>1, <2>1, <2>2, RefuseOnce DEF Advance
<1>2. ASSUME LoadTask  PROVE NoTaskLostOrDuplicated'
  <2>1. EachTaskOnce(Snapshot)'
    BY <1>0, <1>2, LoadOnce
  <2>2. CASE NothingToLoad \/ LoadMalformed
    BY <2>1, <2>2 DEF NothingToLoad, LoadMalformed, NoTaskLostOrDuplicated
  <2>3. CASE LoadNext
    BY <2>1, <2>3, SaveOnce DEF LoadNext
  <2> QED
    BY <1>2, <2>2, <2>3 DEF LoadTask
<1>3. ASSUME Halt  PROVE NoTaskLostOrDuplicated'
  <2>1. CASE Refuse("halt")
    BY <2>1, RefuseOnce
  <2>2. CASE ~Refuse("halt")
    <3>1. EachTaskOnce(Snapshot)'
      BY <1>0, <1>3, <2>2, HaltOnce DEF Halt
    <3> QED
      BY <1>3, <2>2, <3>1, SaveOnce DEF Halt
  <2> QED
    BY <2>1, <2>2
<1>4. ASSUME NEW crate \in Crates, DeferTask(crate)
      PROVE  NoTaskLostOrDuplicated'
  <2>1. CASE Refuse("defer")
    BY <2>1, RefuseOnce
  <2>2. CASE ~Refuse("defer")
    <3>1. EachTaskOnce(Snapshot)'
      BY <1>0, <1>4, <2>2, DeferOnce DEF DeferTask, RunsCrate
    <3> QED
      BY <1>4, <2>2, <3>1, SaveOnce DEF DeferTask
  <2> QED
    BY <2>1, <2>2
<1>5. ASSUME NEW planned \in BOOLEAN, WriteCoveragePlan(planned)
      PROVE  NoTaskLostOrDuplicated'
  <2>1. CASE Refuse("plan")
    BY <2>1, RefuseOnce
  <2>2. CASE ~Refuse("plan")
    <3>1. cur' \in RuntimeTasks /\ cur'.id = cur.id
      BY <1>5, <2>2, EditedType DEF WriteCoveragePlan, TypeOK, RuntimeTasks
    <3>2. EachTaskOnce(Snapshot)'
      BY <1>0, <1>5, <2>2, <3>1, EditKeepsPlaces DEF WriteCoveragePlan
    <3> QED
      BY <1>5, <2>2, <3>2, SaveOnce DEF WriteCoveragePlan
  <2> QED
    BY <2>1, <2>2
<1>6. ASSUME RecordAttempt  PROVE NoTaskLostOrDuplicated'
  <2>1. CASE Refuse("attempt")
    BY <2>1, RefuseOnce
  <2>2. CASE ~Refuse("attempt")
    <3>1. cur' \in RuntimeTasks /\ cur'.id = cur.id
      BY <1>6, <2>2, EditedType DEF RecordAttempt, TypeOK, RuntimeTasks
    <3>2. EachTaskOnce(Snapshot)'
      BY <1>0, <1>6, <2>2, <3>1, EditKeepsPlaces DEF RecordAttempt
    <3> QED
      BY <1>6, <2>2, <3>2, SaveOnce DEF RecordAttempt
  <2> QED
    BY <2>1, <2>2
<1>7. ASSUME RecordOrient  PROVE NoTaskLostOrDuplicated'
  <2>1. CASE Refuse("orient")
    BY <2>1, RefuseOnce
  <2>2. CASE ~Refuse("orient")
    <3>1. EachTaskOnce(Snapshot)'
      BY <1>0, <1>7, <2>2, SamePlaces DEF RecordOrient, Running, Snapshot
    <3> QED
      BY <1>7, <2>2, <3>1, SaveOnce DEF RecordOrient
  <2> QED
    BY <2>1, <2>2
<1>8. ASSUME GetState  PROVE NoTaskLostOrDuplicated'
  BY <1>8 DEF GetState, NoTaskLostOrDuplicated, Snapshot
<1>9. ASSUME Restart  PROVE NoTaskLostOrDuplicated'
  <2>1. disk' = disk /\ disk \in Files /\ EachTaskOnce(disk)
    BY <1>9 DEF Restart, TypeOK, NoTaskLostOrDuplicated
  <2>2. Snapshot' = disk
    BY <1>9, <2>1 DEF Restart, Snapshot, Files
  <2> QED
    BY <2>1, <2>2 DEF NoTaskLostOrDuplicated
<1>10. ASSUME UNCHANGED vars  PROVE NoTaskLostOrDuplicated'
  BY <1>10 DEF vars, NoTaskLostOrDuplicated, Snapshot
<1> QED
  BY <1>1, <1>2, <1>3, <1>4, <1>5, <1>6, <1>7, <1>8, <1>9, <1>10 DEF Next

\* No handler, failed save or restart loses a well-formed task or lists one
\* twice, in memory or in a file that still parses.
THEOREM TasksConserved == Spec => []NoTaskLostOrDuplicated
<1>1. Init => NoTaskLostOrDuplicated
  BY InitOnce
<1>2. TypeOK /\ TypeOK' /\ NoTaskLostOrDuplicated /\ [Next]_vars
        => NoTaskLostOrDuplicated'
  BY NextOnce
<1> QED
  BY <1>1, <1>2, TypeCorrect, PTL DEF Spec

-----------------------------------------------------------------------------
(***************************************************************************)
(* The file.                                                               *)
(***************************************************************************)
LEMMA SaveUpToDate == Save => FileUpToDate'
  BY DEF Save, FileUpToDate

LEMMA RefuseUpToDate ==
    ASSUME FileUpToDate, NEW cmd, Refuse(cmd)
    PROVE  FileUpToDate'
  BY DEF Refuse, FileUpToDate, Snapshot

LEMMA NextUpToDate ==
    TypeOK /\ FileUpToDate /\ [Next]_vars => FileUpToDate'
<1> SUFFICES ASSUME TypeOK, FileUpToDate, [Next]_vars PROVE FileUpToDate'
  OBVIOUS
<1>1. ASSUME NEW verified \in BOOLEAN, Advance(verified)  PROVE FileUpToDate'
  BY <1>1, RefuseUpToDate, SaveUpToDate DEF Advance, StepForward, CompleteTask
<1>2. ASSUME LoadTask  PROVE FileUpToDate'
  <2>1. CASE NothingToLoad
    BY <2>1 DEF NothingToLoad, FileUpToDate, Snapshot
  <2>2. CASE LoadNext
    BY <2>2, SaveUpToDate DEF LoadNext
  <2>3. CASE LoadMalformed
    BY <2>3 DEF LoadMalformed, FileUpToDate
  <2> QED
    BY <1>2, <2>1, <2>2, <2>3 DEF LoadTask
<1>3. ASSUME Halt  PROVE FileUpToDate'
  BY <1>3, RefuseUpToDate, SaveUpToDate DEF Halt
<1>4. ASSUME NEW crate \in Crates, DeferTask(crate)  PROVE FileUpToDate'
  BY <1>4, RefuseUpToDate, SaveUpToDate DEF DeferTask
<1>5. ASSUME NEW planned \in BOOLEAN, WriteCoveragePlan(planned)
      PROVE  FileUpToDate'
  BY <1>5, RefuseUpToDate, SaveUpToDate DEF WriteCoveragePlan
<1>6. ASSUME RecordAttempt  PROVE FileUpToDate'
  BY <1>6, RefuseUpToDate, SaveUpToDate DEF RecordAttempt
<1>7. ASSUME RecordOrient  PROVE FileUpToDate'
  BY <1>7, RefuseUpToDate, SaveUpToDate DEF RecordOrient
<1>8. ASSUME GetState  PROVE FileUpToDate'
  BY <1>8 DEF GetState, FileUpToDate, Snapshot
<1>9. ASSUME Restart  PROVE FileUpToDate'
  <2>1. disk' = disk /\ disk \in Files
    BY <1>9 DEF Restart, TypeOK
  <2> QED
    BY <1>9, <2>1 DEF Restart, FileUpToDate, Snapshot, Files
<1>10. ASSUME UNCHANGED vars  PROVE FileUpToDate'
  BY <1>10 DEF vars, FileUpToDate, Snapshot
<1> QED
  BY <1>1, <1>2, <1>3, <1>4, <1>5, <1>6, <1>7, <1>8, <1>9, <1>10 DEF Next

\* Whatever TaskActor has in memory is in the file, unless a write failed or
\* a malformed entry was dropped since the file was last written or loaded:
\* no handler that changes a task ends without the write.
THEOREM FileFollowsMemory == Spec => []FileUpToDate
<1>1. Init => FileUpToDate
  BY DEF Init, FileUpToDate
<1>2. TypeOK /\ FileUpToDate /\ [Next]_vars => FileUpToDate'
  BY NextUpToDate
<1> QED
  BY <1>1, <1>2, TypeCorrect, PTL DEF Spec

-----------------------------------------------------------------------------
(***************************************************************************)
(* The constraint checker.                                                 *)
(***************************************************************************)
LEMMA NotifyFollows == NotifyStepChange => CheckerFollowsTask'
  BY DEF NotifyStepChange, CheckerFollowsTask, Op

LEMMA IdleFollows == cur' = NoTask => CheckerFollowsTask'
  BY DEF CheckerFollowsTask

\* What does not tell the checker keeps the task at its step.
LEMMA SameStepFollows ==
    ASSUME CheckerFollowsTask, ctx' = ctx, cur # NoTask,
           cur'.id = cur.id, cur'.step = cur.step,
           cur'.step_index = cur.step_index
    PROVE  CheckerFollowsTask'
  BY DEF CheckerFollowsTask, Op

LEMMA SameTaskFollows ==
    ASSUME CheckerFollowsTask, ctx' = ctx, cur' = cur
    PROVE  CheckerFollowsTask'
  BY DEF CheckerFollowsTask, Op

LEMMA RefuseFollows ==
    ASSUME CheckerFollowsTask, NEW cmd, Refuse(cmd)
    PROVE  CheckerFollowsTask'
  BY SameTaskFollows DEF Refuse

LEMMA NextFollows ==
    TypeOK /\ CheckerFollowsTask /\ [Next]_vars => CheckerFollowsTask'
<1> SUFFICES ASSUME TypeOK, CheckerFollowsTask, [Next]_vars
             PROVE  CheckerFollowsTask'
  OBVIOUS
<1>1. ASSUME NEW verified \in BOOLEAN, Advance(verified)
      PROVE  CheckerFollowsTask'
  BY <1>1, RefuseFollows, NotifyFollows DEF Advance, StepForward, CompleteTask
<1>2. ASSUME LoadTask  PROVE CheckerFollowsTask'
  BY <1>2, SameTaskFollows, NotifyFollows
  DEF LoadTask, NothingToLoad, LoadNext, LoadMalformed
<1>3. ASSUME Halt  PROVE CheckerFollowsTask'
  BY <1>3, RefuseFollows, IdleFollows DEF Halt
<1>4. ASSUME NEW crate \in Crates, DeferTask(crate)
      PROVE  CheckerFollowsTask'
  BY <1>4, RefuseFollows, IdleFollows DEF DeferTask
<1>5. ASSUME NEW planned \in BOOLEAN, WriteCoveragePlan(planned)
      PROVE  CheckerFollowsTask'
  <2>1. CASE cur # NoTask /\ cur' = [cur EXCEPT !.coverage_plan = TRUE]
                          /\ ctx' = ctx
    <3>1. /\ cur'.id = cur.id /\ cur'.step = cur.step
          /\ cur'.step_index = cur.step_index
      BY <2>1 DEF TypeOK, RuntimeTasks
    <3> QED
      BY <2>1, <3>1, SameStepFollows
  <2> QED
    BY <1>5, <2>1, RefuseFollows DEF WriteCoveragePlan
<1>6. ASSUME RecordAttempt  PROVE CheckerFollowsTask'
  <2>1. CASE cur # NoTask /\ cur' = [cur EXCEPT !.step_attempts = @ + 1]
                          /\ ctx' = ctx
    <3>1. /\ cur'.id = cur.id /\ cur'.step = cur.step
          /\ cur'.step_index = cur.step_index
      BY <2>1 DEF TypeOK, RuntimeTasks
    <3> QED
      BY <2>1, <3>1, SameStepFollows
  <2> QED
    BY <1>6, <2>1, RefuseFollows DEF RecordAttempt
<1>7. ASSUME RecordOrient  PROVE CheckerFollowsTask'
  BY <1>7, RefuseFollows, SameTaskFollows DEF RecordOrient
<1>8. ASSUME GetState  PROVE CheckerFollowsTask'
  BY <1>8, SameTaskFollows DEF GetState
<1>9. ASSUME Restart  PROVE CheckerFollowsTask'
  BY <1>9 DEF Restart, CheckerFollowsTask, InitialContext
<1>10. ASSUME UNCHANGED vars  PROVE CheckerFollowsTask'
  BY <1>10, SameTaskFollows DEF vars
<1> QED
  BY <1>1, <1>2, <1>3, <1>4, <1>5, <1>6, <1>7, <1>8, <1>9, <1>10 DEF Next

\* Once the checker has been told of a step it is told of every later one:
\* the context TaskActor last sent is that of the step the task is at.
THEOREM CheckerIsTold == Spec => []CheckerFollowsTask
<1>1. Init => CheckerFollowsTask
  BY DEF Init, CheckerFollowsTask
<1>2. TypeOK /\ CheckerFollowsTask /\ [Next]_vars => CheckerFollowsTask'
  BY NextFollows
<1> QED
  BY <1>1, <1>2, TypeCorrect, PTL DEF Spec

-----------------------------------------------------------------------------
(***************************************************************************)
(* Error responses.                                                        *)
(***************************************************************************)
\* What an error response leaves as it is.
Unmoved ==
    /\ completed' = completed /\ halted' = halted /\ deferred' = deferred
    /\ \/ pending' = pending
       \/ Head(pending) \in Malformed /\ pending' = Tail(pending)
    /\ (cur = NoTask) = (cur' = NoTask)
    /\ cur # NoTask => cur'.id = cur.id /\ cur'.step_index = cur.step_index

LEMMA RefuseUnmoved ==
    ASSUME NEW cmd, Refuse(cmd)
    PROVE  Unmoved
  BY DEF Refuse, Unmoved

LEMMA NextUnmoved ==
    ASSUME TypeOK, Next, ~reply'.ok
    PROVE  Unmoved
<1> USE DEF Reply
<1>1. ASSUME NEW verified \in BOOLEAN, Advance(verified)  PROVE Unmoved
  BY <1>1, RefuseUnmoved DEF Advance, StepForward, CompleteTask
<1>2. ASSUME LoadTask  PROVE Unmoved
  <2>1. LoadMalformed
    BY <1>2 DEF LoadTask, NothingToLoad, LoadNext
  <2>2. Head(pending) \in Malformed
    BY <2>1, TailElements DEF LoadMalformed, TypeOK
  <2> QED
    BY <2>1, <2>2 DEF LoadMalformed, Unmoved
<1>3. ASSUME Halt  PROVE Unmoved
  BY <1>3, RefuseUnmoved DEF Halt
<1>4. ASSUME NEW crate \in Crates, DeferTask(crate)  PROVE Unmoved
  BY <1>4, RefuseUnmoved DEF DeferTask
<1>5. ASSUME NEW planned \in BOOLEAN, WriteCoveragePlan(planned)
      PROVE  Unmoved
  <2>1. CASE Refuse("plan")
    BY <2>1, RefuseUnmoved
  <2>2. CASE ~Refuse("plan")
    <3>1. /\ cur # NoTask
          /\ cur' = [cur EXCEPT !.coverage_plan = TRUE]
          /\ UNCHANGED <<pending, completed, halted, deferred>>
      BY <1>5, <2>2 DEF WriteCoveragePlan
    <3>2. /\ cur' \in RuntimeTasks /\ cur'.id = cur.id
          /\ cur'.step_index = cur.step_index
      BY <3>1, EditedType DEF TypeOK, RuntimeTasks
    <3> QED
      BY <3>1, <3>2, TaskfileAssumption DEF Unmoved
  <2> QED
    BY <2>1, <2>2
<1>6. ASSUME RecordAttempt  PROVE Unmoved
  BY <1>6, RefuseUnmoved DEF RecordAttempt
<1>7. ASSUME RecordOrient  PROVE Unmoved
  BY <1>7, RefuseUnmoved DEF RecordOrient
<1>8. ~GetState /\ ~Restart
  BY DEF GetState, Restart
<1> QED
  BY <1>1, <1>2, <1>3, <1>4, <1>5, <1>6, <1>7, <1>8 DEF Next

\* The caller that is answered with an error may ask again: nothing has
\* moved, though a plan that could not be written stays in the memory.
THEOREM ErrorsMoveNothing == Spec => ErrorReplyMovesNothing
<1>1. TypeOK /\ [Next]_vars => [~reply'.ok => Unmoved]_vars
  BY NextUnmoved
<1> QED
  BY <1>1, TypeCorrect, PTL DEF Spec, ErrorReplyMovesNothing, Unmoved
-----------------------------------------------------------------------------
(***************************************************************************)
(* The steps of a task.  That a completed task has been at all of them is  *)
(* not inductive: it takes that the current task has been at those up to   *)
(* its own, and the same of the file, which a restart takes up again.      *)
(***************************************************************************)
\* v has t at every step from the one its entry names to step k.
CoveredTo(t, k, v) == \A i \in Entry[t].index .. k : i \in v[t]

Finished(t, v) ==
    HasPlaybook(Entry[t].op) => CoveredTo(t, StepCount(Entry[t].op) - 1, v)

Walked(f, v) ==
    /\ f.cur # NoTask => CoveredTo(f.cur.id, f.cur.step_index, v)
    /\ \A t \in Elements(f.completed) : Finished(t, v)

\* The inductive invariant.
StepsWalked ==
    /\ Walked(Snapshot, visited)
    /\ disk # Torn => Walked(disk, visited)

LEMMA WalkedImplies == StepsWalked => NoStepSkipped
  BY DEF StepsWalked, Walked, Snapshot, NoStepSkipped, Finished, CoveredTo

\* A file stays walked as the history grows.
LEMMA WalkedGrows ==
    ASSUME NEW f \in Files, NEW v, NEW w,
           \A t \in Tasks : v[t] \subseteq w[t],
           Walked(f, v)
    PROVE  Walked(f, w)
<1>1. f.cur # NoTask => f.cur.id \in Tasks
  BY DEF Files, RuntimeTasks
<1>2. Elements(f.completed) \subseteq Tasks
  BY DEF Files, Elements
<1> QED
  BY <1>1, <1>2 DEF Walked, Finished, CoveredTo

LEMMA VisitGrows ==
    ASSUME TypeOK, Visit, cur' \in RuntimeTasks \cup {NoTask}
    PROVE  /\ \A t \in Tasks : visited[t] \subseteq visited'[t]
           /\ cur' # NoTask => cur'.step_index \in visited'[cur'.id]
<1>1. CASE cur' = NoTask
  BY <1>1 DEF Visit
<1>2. CASE cur' # NoTask
  <2>1. cur'.id \in Tasks
    BY <1>2 DEF RuntimeTasks
  <2> QED
    BY <1>2, <2>1 DEF Visit, TypeOK
<1> QED
  BY <1>1, <1>2

LEMMA SnapshotFile == TypeOK => Snapshot \in Files
  BY DEF TypeOK, Snapshot, Files

\* A save keeps the file walked when the memory is.
LEMMA SaveWalked ==
    ASSUME TypeOK, StepsWalked, Save, Walked(Snapshot', visited'),
           \A t \in Tasks : visited[t] \subseteq visited'[t]
    PROVE  StepsWalked'
<1>1. CASE disk' = Snapshot'
  BY <1>1 DEF StepsWalked
<1>2. CASE disk' = Torn
  BY <1>2 DEF StepsWalked
<1>3. CASE disk' = disk
  <2>1. disk # Torn => disk \in Files /\ Walked(disk, visited)
    BY DEF StepsWalked, TypeOK
  <2> QED
    BY <1>3, <2>1, WalkedGrows DEF StepsWalked
<1> QED
  BY <1>1, <1>2, <1>3 DEF Save

\* Handlers that keep the history, the completed tasks and the step of the
\* current one, if one is left.
LEMMA StillWalked ==
    ASSUME Walked(Snapshot, visited), UNCHANGED <<completed, visited>>,
           \/ cur' = NoTask
           \/ /\ cur # NoTask
              /\ cur'.id = cur.id /\ cur'.step_index = cur.step_index
    PROVE  Walked(Snapshot', visited')
  BY DEF Walked, Snapshot

LEMMA RefuseWalked ==
    ASSUME StepsWalked, NEW cmd, Refuse(cmd)
    PROVE  StepsWalked'
  BY DEF Refuse, StepsWalked, Snapshot

LEMMA FreshWalked ==
    ASSUME NEW t \in Tasks, NEW v, Entry[t].index \in v[t]
    PROVE  CoveredTo(Fresh(t).id, Fresh(t).step_index, v)
  BY EntryAssumption DEF Fresh, CoveredTo

LEMMA StepForwardWalked ==
    ASSUME TypeOK, StepsWalked, StepForward
    PROVE  StepsWalked'
<1>1. /\ cur' \in RuntimeTasks /\ cur # NoTask /\ cur \in RuntimeTasks
      /\ cur'.id = cur.id
      /\ cur'.step_index = cur.step_index + 1
  BY SteppedType DEF StepForward, TypeOK
<1>2. cur' # NoTask
  BY <1>1, TaskfileAssumption
<1>3. /\ \A t \in Tasks : visited[t] \subseteq visited'[t]
      /\ cur'.step_index \in visited'[cur.id]
  BY <1>1, <1>2, VisitGrows DEF StepForward
<1>4. Walked(Snapshot, visited')
  BY <1>3, WalkedGrows, SnapshotFile DEF StepsWalked
<1>5. CoveredTo(cur.id, cur.step_index, visited')
  BY <1>1, <1>4 DEF Walked, Snapshot
<1>6. cur.step_index \in Nat /\ Entry[cur.id].index \in Nat
  BY <1>1, EntryAssumption DEF RuntimeTasks
<1>7. CoveredTo(cur.id, cur.step_index + 1, visited')
  BY <1>1, <1>3, <1>5, <1>6 DEF CoveredTo
<1>8. Walked(Snapshot', visited')
  BY <1>1, <1>4, <1>7 DEF Walked, Snapshot, StepForward
<1> QED
  BY <1>3, <1>8, SaveWalked DEF StepForward

LEMMA CompleteTaskWalked ==
    ASSUME TypeOK, StepsWalked, CompleteTask
    PROVE  StepsWalked'
<1>1. /\ cur # NoTask /\ cur \in RuntimeTasks /\ cur.id \in Tasks
      /\ cur' \in RuntimeTasks \cup {NoTask}
  BY DeserialisedType DEF CompleteTask, TypeOK, RuntimeTasks
<1>2. /\ \A t \in Tasks : visited[t] \subseteq visited'[t]
      /\ cur' # NoTask => cur'.step_index \in visited'[cur'.id]
  BY <1>1, VisitGrows DEF CompleteTask
<1>3. Walked(Snapshot, visited')
  BY <1>2, WalkedGrows, SnapshotFile DEF StepsWalked
<1>4. Finished(cur.id, visited')
  <2> SUFFICES ASSUME HasPlaybook(Op(cur))
               PROVE  CoveredTo(cur.id, StepCount(Op(cur)) - 1, visited')
    BY DEF Finished, Op
  <2>1. CoveredTo(cur.id, cur.step_index, visited')
    BY <1>1, <1>3 DEF Walked, Snapshot
  <2>2. /\ cur.step_index + 1 >= StepCount(Op(cur))
        /\ cur.step_index \in Nat /\ StepCount(Op(cur)) \in Nat
        /\ Entry[cur.id].index \in Nat
    BY <1>1, PlaybookAssumption, EntryAssumption
    DEF CompleteTask, LastStep, HasPlaybook, RuntimeTasks
  <2> QED
    BY <2>1, <2>2 DEF CoveredTo
<1>5. Elements(completed') = Elements(completed) \cup {cur.id}
  BY <1>1, AppendElements DEF CompleteTask, TypeOK
<1>6. cur' # NoTask => CoveredTo(cur'.id, cur'.step_index, visited')
  <2> SUFFICES ASSUME cur' # NoTask
               PROVE  CoveredTo(cur'.id, cur'.step_index, visited')
    OBVIOUS
  <2>1. PICK t \in Tasks : cur' = Fresh(t)
    BY DEF CompleteTask, Deserialised
  <2>2. Entry[t].index \in visited'[t]
    BY <1>2, <2>1 DEF Fresh
  <2> QED
    BY <2>1, <2>2, FreshWalked
<1>7. Walked(Snapshot', visited')
  BY <1>3, <1>4, <1>5, <1>6 DEF Walked, Snapshot
<1> QED
  BY <1>2, <1>7, SaveWalked DEF CompleteTask

LEMMA LoadTaskWalked ==
    ASSUME TypeOK, StepsWalked, LoadTask
    PROVE  StepsWalked'
<1>1. CASE NothingToLoad \/ LoadMalformed
  <2>1. UNCHANGED <<cur, completed, disk, visited>>
    BY <1>1 DEF NothingToLoad, LoadMalformed
  <2> QED
    BY <2>1 DEF StepsWalked, Walked, Snapshot
<1>2. CASE LoadNext
  <2>1. PICK t \in Tasks : cur' = Fresh(t)
    BY <1>2 DEF LoadNext
  <2>2. cur' \in RuntimeTasks /\ cur' # NoTask
    BY <2>1, FreshType
  <2>3. /\ \A u \in Tasks : visited[u] \subseteq visited'[u]
        /\ cur'.step_index \in visited'[cur'.id]
    BY <1>2, <2>2, VisitGrows DEF LoadNext
  <2>4. CoveredTo(cur'.id, cur'.step_index, visited')
    BY <2>1, <2>3, FreshWalked DEF Fresh
  <2>5. Walked(Snapshot, visited') /\ completed' = completed
    BY <1>2, <2>3, WalkedGrows, SnapshotFile DEF StepsWalked, LoadNext
  <2>6. Walked(Snapshot', visited')
    BY <2>4, <2>5 DEF Walked, Snapshot
  <2> QED
    BY <1>2, <2>3, <2>6, SaveWalked DEF LoadNext
<1> QED
  BY <1>1, <1>2 DEF LoadTask

LEMMA InitWalked == Init => StepsWalked
<1> SUFFICES ASSUME Init PROVE StepsWalked
  OBVIOUS
<1>1. TypeOK
  BY InitType
<1>2. Elements(completed) = {}
  BY DEF Init, Elements
<1>3. cur # NoTask => CoveredTo(cur.id, cur.step_index, visited)
  <2> SUFFICES ASSUME cur # NoTask
               PROVE  CoveredTo(cur.id, cur.step_index, visited)
    OBVIOUS
  <2>1. PICK t \in Tasks : cur = Fresh(t)
    BY DEF Init
  <2>2. Entry[t].index \in visited[t]
    BY <2>1 DEF Init, Fresh
  <2> QED
    BY <2>1, <2>2, FreshWalked
<1>4. Walked(Snapshot, visited)
  BY <1>2, <1>3 DEF Walked, Snapshot
<1> QED
  BY <1>4 DEF StepsWalked, Init

LEMMA NextWalked == TypeOK /\ StepsWalked /\ [Next]_vars => StepsWalked'
<1> SUFFICES ASSUME TypeOK, StepsWalked, [Next]_vars PROVE StepsWalked'
  OBVIOUS
<1>0. Walked(Snapshot, visited)
  BY DEF StepsWalked
<1>1. ASSUME NEW verified \in BOOLEAN, Advance(verified)  PROVE StepsWalked'
  BY <1>1, RefuseWalked, StepForwardWalked, CompleteTaskWalked DEF Advance
<1>2. ASSUME LoadTask  PROVE StepsWalked'
  BY <1>2, LoadTaskWalked
<1>3. ASSUME Halt  PROVE StepsWalked'
  BY <1>0, <1>3, RefuseWalked, StillWalked, SaveWalked DEF Halt
<1>4. ASSUME NEW crate \in Crates, DeferTask(crate)  PROVE StepsWalked'
  BY <1>0, <1>4, RefuseWalked, StillWalked, SaveWalked DEF DeferTask
<1>5. ASSUME NEW planned \in BOOLEAN, WriteCoveragePlan(planned)
      PROVE  StepsWalked'
  <2>1. CASE Refuse("plan")
    BY <2>1, RefuseWalked
  <2>2. CASE ~Refuse("plan")
    <3>1. /\ cur # NoTask /\ cur \in RuntimeTasks
          /\ cur' = [cur EXCEPT !.coverage_plan = TRUE]
          /\ UNCHANGED <<completed, visited>>
          /\ Save
      BY <1>5, <2>2 DEF WriteCoveragePlan, TypeOK
    <3>2. cur'.id = cur.id /\ cur'.step_index = cur.step_index
      BY <3>1 DEF RuntimeTasks
    <3> QED
      BY <1>0, <3>1, <3>2, StillWalked, SaveWalked
  <2> QED
    BY <2>1, <2>2
<1>6. ASSUME RecordAttempt  PROVE StepsWalked'
  <2>1. CASE Refuse("attempt")
    BY <2>1, RefuseWalked
  <2>2. CASE ~Refuse("attempt")
    <3>1. /\ cur # NoTask /\ cur \in RuntimeTasks
          /\ cur' = [cur EXCEPT !.step_attempts = @ + 1]
          /\ UNCHANGED <<completed, visited>>
          /\ Save
      BY <1>6, <2>2 DEF RecordAttempt, TypeOK
    <3>2. cur'.id = cur.id /\ cur'.step_index = cur.step_index
      BY <3>1 DEF RuntimeTasks
    <3> QED
      BY <1>0, <3>1, <3>2, StillWalked, SaveWalked
  <2> QED
    BY <2>1, <2>2
<1>7. ASSUME RecordOrient  PROVE StepsWalked'
  <2>1. CASE Refuse("orient")
    BY <2>1, RefuseWalked
  <2>2. CASE ~Refuse("orient")
    <3>1. UNCHANGED <<cur, completed, visited>> /\ Save
      BY <1>7, <2>2 DEF RecordOrient
    <3>2. Walked(Snapshot', visited')
      BY <1>0, <3>1 DEF Walked, Snapshot
    <3> QED
      BY <3>1, <3>2, SaveWalked
  <2> QED
    BY <2>1, <2>2
<1>8. ASSUME GetState  PROVE StepsWalked'
  BY <1>8 DEF GetState, StepsWalked, Snapshot
<1>9. ASSUME Restart  PROVE StepsWalked'
  BY <1>9 DEF Restart, StepsWalked, Walked, Snapshot
<1>10. ASSUME UNCHANGED vars  PROVE StepsWalked'
  BY <1>10 DEF vars, StepsWalked, Snapshot
<1> QED
  BY <1>1, <1>2, <1>3, <1>4, <1>5, <1>6, <1>7, <1>8, <1>9, <1>10 DEF Next

\* A task of a type that has a playbook is completed only by way of every
\* step from the one its entry names, however often the process restarts and
\* whichever of its writes fail.
THEOREM StepsInOrder == Spec => []NoStepSkipped
<1>1. Init => StepsWalked
  BY InitWalked
<1>2. TypeOK /\ StepsWalked /\ [Next]_vars => StepsWalked'
  BY NextWalked
<1>3. StepsWalked => NoStepSkipped
  BY WalkedImplies
<1> QED
  BY <1>1, <1>2, <1>3, TypeCorrect, PTL DEF Spec

-----------------------------------------------------------------------------
\* The ledger and its durable copy, as the refinement maps them.
Working == LedgerOf(Snapshot)

Durable == IF disk = Torn THEN Torn ELSE LedgerOf(disk)

RunningTask == IF cur = NoTask THEN NoTask ELSE cur.id

LEMMA WorkingFields ==
    Working = [waiting  |-> pending,
               running  |-> RunningTask,
               done     |-> Elements(completed),
               halted   |-> Elements(halted),
               deferred |-> Elements(deferred)]
  BY DEF Working, LedgerOf, Snapshot, RunningTask

LEMMA NextWorkingFields ==
    Working' = [waiting  |-> pending',
                running  |-> RunningTask',
                done     |-> Elements(completed'),
                halted   |-> Elements(halted'),
                deferred |-> Elements(deferred')]
  BY DEF Working, LedgerOf, Snapshot, RunningTask

LEMMA RunningIsTask ==
    ASSUME TypeOK, cur # NoTask
    PROVE  RunningTask = cur.id /\ cur.id \in Tasks /\ cur.id # NoTask
  BY TaskfileAssumption DEF TypeOK, RuntimeTasks, RunningTask

LEMMA FilesAreLedgers == \A f \in Files : LedgerOf(f) \in Ledgers
  BY DEF Files, RuntimeTasks, LedgerOf, Ledgers, Elements

\* A save reaches the file, misses it or tears it.
LEMMA SavePersists == Save => Durable' \in {Working', Durable, Torn}
  BY DEF Save, Durable, Working

LEMMA SavedMove ==
    ASSUME NEW ledger, Working' = ledger, Save
    PROVE  Ledger!Move(ledger)
  BY SavePersists DEF Ledger!Move, Ledger!Persist, Working, Durable

LEMMA SavedRewrite ==
    ASSUME Save, UNCHANGED <<pending, completed, halted, deferred>>,
           RunningTask' = RunningTask
    PROVE  Ledger!Rewrite
<1>1. Working' = Working
  BY WorkingFields, NextWorkingFields
<1> QED
  BY <1>1, SavePersists DEF Ledger!Rewrite, Ledger!Persist, Working, Durable

\* Nothing of the memory or the file changes.
Idle == UNCHANGED <<cur, pending, completed, halted, deferred, disk>>

LEMMA IdleStutters == Idle => UNCHANGED Ledger!ledgerVars
  BY DEF Idle, Ledger!ledgerVars, LedgerOf, Snapshot

LEMMA RefuseIdles ==
    ASSUME NEW cmd, Refuse(cmd)
    PROVE  Idle
  BY DEF Refuse, Idle

\* The handlers that edit the current task, or nothing, and save.
LEMMA EditRewrites ==
    ASSUME TypeOK, Save, cur # NoTask, cur' \in RuntimeTasks,
           cur'.id = cur.id,
           UNCHANGED <<pending, completed, halted, deferred>>
    PROVE  Ledger!Rewrite
<1>1. RunningTask' = RunningTask
  BY TaskfileAssumption DEF RunningTask
<1> QED
  BY <1>1, SavedRewrite

-----------------------------------------------------------------------------
LEMMA CompleteFinishes ==
    ASSUME TypeOK, CompleteTask
    PROVE  Ledger!Finish
<1>1. /\ RunningTask = cur.id /\ cur.id # NoTask
      /\ Elements(completed') = Elements(completed) \cup {cur.id}
      /\ UNCHANGED <<halted, deferred>>
      /\ Save
  BY RunningIsTask, AppendElements DEF CompleteTask, TypeOK
<1>2. Ledger!Done = Elements(completed')
  BY <1>1, WorkingFields DEF Ledger!Done, Working
<1>3. CASE pending = <<>>
  <2>1. pending' = <<>> /\ RunningTask' = NoTask
    BY <1>3 DEF CompleteTask, Deserialised, Rest, RunningTask
  <2>2. Working' = Ledger!LedgerRecord(<<>>, NoTask, Ledger!Done,
                                       Working.halted, Working.deferred)
    BY <1>1, <1>2, <2>1, WorkingFields, NextWorkingFields
    DEF Ledger!LedgerRecord
  <2>3. Ledger!Move(Ledger!LedgerRecord(<<>>, NoTask, Ledger!Done,
                                        Working.halted, Working.deferred))
    BY <1>1, <2>2, SavedMove
  <2> QED
    BY <1>1, <1>3, <2>3, WorkingFields DEF Ledger!Finish, Working
<1>4. CASE pending # <<>>
  <2>1. pending' = Tail(pending) /\ RunningTask' = Ledger!Following
    BY <1>4, FreshType, WorkingFields
    DEF CompleteTask, Deserialised, Rest, RunningTask, Ledger!Following,
        Working
  <2>2. Working' = Ledger!LedgerRecord(Tail(Working.waiting),
                       Ledger!Following, Ledger!Done,
                       Working.halted, Working.deferred)
    BY <1>1, <1>2, <2>1, WorkingFields, NextWorkingFields
    DEF Ledger!LedgerRecord
  <2>3. Ledger!Move(Ledger!LedgerRecord(Tail(Working.waiting),
                        Ledger!Following, Ledger!Done,
                        Working.halted, Working.deferred))
    BY <1>1, <2>2, SavedMove
  <2> QED
    BY <1>1, <1>4, <2>3, WorkingFields DEF Ledger!Finish, Working
<1> QED
  BY <1>3, <1>4

LEMMA LoadNextBegins ==
    ASSUME TypeOK, LoadNext
    PROVE  Ledger!Begin
<1>1. /\ pending # <<>> /\ pending' = Tail(pending)
      /\ RunningTask = NoTask /\ RunningTask' = Ledger!Following
      /\ UNCHANGED <<completed, halted, deferred>>
      /\ Save
  BY FreshType, WorkingFields
  DEF LoadNext, RunningTask, Ledger!Following, Working
<1>2. Working' = Ledger!LedgerRecord(Tail(Working.waiting),
                     Ledger!Following, Working.done,
                     Working.halted, Working.deferred)
  BY <1>1, WorkingFields, NextWorkingFields DEF Ledger!LedgerRecord
<1>3. Ledger!Move(Ledger!LedgerRecord(Tail(Working.waiting),
                      Ledger!Following, Working.done,
                      Working.halted, Working.deferred))
  BY <1>1, <1>2, SavedMove
<1> QED
  BY <1>1, <1>3, WorkingFields DEF Ledger!Begin, Working

\* The memory loses the entry and the file does not.
LEMMA LoadMalformedBegins ==
    ASSUME TypeOK, LoadMalformed
    PROVE  Ledger!Begin
<1>1. /\ pending # <<>> /\ pending' = Tail(pending)
      /\ RunningTask = NoTask /\ RunningTask' = Ledger!Following
      /\ UNCHANGED <<completed, halted, deferred, disk>>
  BY WorkingFields
  DEF LoadMalformed, RunningTask, Ledger!Following, Working
<1>2. Working' = Ledger!LedgerRecord(Tail(Working.waiting),
                     Ledger!Following, Working.done,
                     Working.halted, Working.deferred)
  BY <1>1, WorkingFields, NextWorkingFields DEF Ledger!LedgerRecord
<1>3. Durable' = Durable
  BY <1>1 DEF Durable
<1>4. Ledger!Move(Ledger!LedgerRecord(Tail(Working.waiting),
                      Ledger!Following, Working.done,
                      Working.halted, Working.deferred))
  BY <1>2, <1>3 DEF Ledger!Move, Ledger!Persist, Working, Durable
<1> QED
  BY <1>1, <1>4, WorkingFields DEF Ledger!Begin, Working

LEMMA HaltStops ==
    ASSUME TypeOK, Halt, cur # NoTask, ~Refuse("halt")
    PROVE  Ledger!Stop
<1>1. /\ RunningTask = cur.id /\ cur.id # NoTask /\ RunningTask' = NoTask
      /\ Elements(halted') = Elements(halted) \cup {cur.id}
      /\ UNCHANGED <<pending, completed, deferred>>
      /\ Save
  <2>1. /\ cur # NoTask /\ cur' = NoTask
        /\ halted' = Append(halted, cur.id)
        /\ UNCHANGED <<pending, completed, deferred>>
        /\ Save
    BY DEF Halt
  <2>2. halted \in Seq(Tasks)
    BY DEF TypeOK
  <2>3. RunningTask = cur.id /\ cur.id \in Tasks /\ cur.id # NoTask
    BY <2>1, RunningIsTask
  <2>4. Elements(halted') = Elements(halted) \cup {cur.id}
    BY <2>1, <2>2, <2>3, AppendElements
  <2> QED
    BY <2>1, <2>3, <2>4 DEF RunningTask
<1>2. Working' = Ledger!LedgerRecord(Working.waiting, NoTask, Working.done,
                     Working.halted \cup {Working.running}, Working.deferred)
  BY <1>1, WorkingFields, NextWorkingFields DEF Ledger!LedgerRecord
<1>3. Ledger!Move(Ledger!LedgerRecord(Working.waiting, NoTask, Working.done,
                      Working.halted \cup {Working.running},
                      Working.deferred))
  BY <1>1, <1>2, SavedMove
<1> QED
  BY <1>1, <1>3, WorkingFields DEF Ledger!Stop, Working

LEMMA DeferStops ==
    ASSUME TypeOK, NEW crate, DeferTask(crate), ~Refuse("defer")
    PROVE  Ledger!Stop
<1>1. /\ RunningTask = cur.id /\ cur.id # NoTask /\ RunningTask' = NoTask
      /\ Elements(deferred') = Elements(deferred) \cup {cur.id}
      /\ UNCHANGED <<pending, completed, halted>>
      /\ Save
  <2>1. /\ cur # NoTask /\ cur' = NoTask
        /\ deferred' = Append(deferred, cur.id)
        /\ UNCHANGED <<pending, completed, halted>>
        /\ Save
    BY DEF DeferTask, RunsCrate
  <2>2. deferred \in Seq(Tasks)
    BY DEF TypeOK
  <2>3. RunningTask = cur.id /\ cur.id \in Tasks /\ cur.id # NoTask
    BY <2>1, RunningIsTask
  <2>4. Elements(deferred') = Elements(deferred) \cup {cur.id}
    BY <2>1, <2>2, <2>3, AppendElements
  <2> QED
    BY <2>1, <2>3, <2>4 DEF RunningTask
<1>2. Working' = Ledger!LedgerRecord(Working.waiting, NoTask, Working.done,
                     Working.halted, Working.deferred \cup {Working.running})
  BY <1>1, WorkingFields, NextWorkingFields DEF Ledger!LedgerRecord
<1>3. Ledger!Move(Ledger!LedgerRecord(Working.waiting, NoTask, Working.done,
                      Working.halted,
                      Working.deferred \cup {Working.running}))
  BY <1>1, <1>2, SavedMove
<1> QED
  BY <1>1, <1>3, WorkingFields DEF Ledger!Stop, Working

LEMMA RestartRecovers ==
    ASSUME TypeOK, Restart
    PROVE  Ledger!Recover
<1>1. disk \in Files /\ disk' = disk /\ disk # Torn
  BY DEF Restart, TypeOK
<1>2. Snapshot' = disk
  BY <1>1 DEF Restart, Snapshot, Files
<1>3. LedgerOf(disk) # Torn
  BY <1>1, FilesAreLedgers, LedgerAssumption
<1> QED
  BY <1>1, <1>2, <1>3 DEF Ledger!Recover

-----------------------------------------------------------------------------
LEMMA InitImplements == Init => Ledger!LedgerInit
<1> SUFFICES ASSUME Init PROVE Ledger!LedgerInit
  OBVIOUS
<1> PICK q \in Queues : \/ cur = NoTask /\ pending = q
                        \/ /\ q # <<>>
                           /\ Head(q) \in Tasks
                           /\ cur = Fresh(Head(q))
                           /\ pending = Tail(q)
  BY DEF Init
<1>1. /\ Elements(completed) = {} /\ Elements(halted) = {}
      /\ Elements(deferred) = {}
  BY DEF Init, Elements
<1>2. \/ Working = Ledger!LedgerRecord(q, NoTask, {}, {}, {})
      \/ /\ q # <<>>
         /\ Head(q) \in Tasks
         /\ Working = Ledger!LedgerRecord(Tail(q), Head(q), {}, {}, {})
  BY <1>1, FreshType, WorkingFields DEF RunningTask, Ledger!LedgerRecord
<1>3. Durable = Working
  <2>1. Snapshot \in Files
    BY InitType DEF TypeOK, Snapshot, Files
  <2> QED
    BY <2>1, TaskfileAssumption DEF Init, Durable, Working
<1> QED
  BY <1>2, <1>3 DEF Ledger!LedgerInit, Working, Durable

LEMMA NextImplements ==
    TypeOK /\ [Next]_vars => [Ledger!LedgerNext]_(Ledger!ledgerVars)
<1> SUFFICES ASSUME TypeOK, [Next]_vars
             PROVE  Ledger!LedgerNext \/ UNCHANGED Ledger!ledgerVars
  OBVIOUS
<1> USE DEF Ledger!LedgerNext
<1>1. ASSUME NEW verified \in BOOLEAN, Advance(verified)
      PROVE  Ledger!LedgerNext \/ UNCHANGED Ledger!ledgerVars
  <2>1. CASE Refuse("advance")
    BY <2>1, RefuseIdles, IdleStutters
  <2>2. CASE StepForward
    <3>1. cur' \in RuntimeTasks /\ cur'.id = cur.id
      BY <2>2, SteppedType DEF StepForward, TypeOK
    <3> QED
      BY <2>2, <3>1, EditRewrites DEF StepForward
  <2>3. CASE CompleteTask
    BY <2>3, CompleteFinishes
  <2> QED
    BY <1>1, <2>1, <2>2, <2>3 DEF Advance
<1>2. ASSUME LoadTask
      PROVE  Ledger!LedgerNext \/ UNCHANGED Ledger!ledgerVars
  <2>1. CASE NothingToLoad
    BY <2>1, IdleStutters DEF NothingToLoad, Idle
  <2> QED
    BY <1>2, <2>1, LoadNextBegins, LoadMalformedBegins DEF LoadTask
<1>3. ASSUME Halt
      PROVE  Ledger!LedgerNext \/ UNCHANGED Ledger!ledgerVars
  <2>1. CASE Refuse("halt")
    BY <2>1, RefuseIdles, IdleStutters
  <2>2. CASE ~Refuse("halt")
    BY <1>3, <2>2, HaltStops DEF Halt
  <2> QED
    BY <2>1, <2>2
<1>4. ASSUME NEW crate \in Crates, DeferTask(crate)
      PROVE  Ledger!LedgerNext \/ UNCHANGED Ledger!ledgerVars
  <2>1. CASE Refuse("defer")
    BY <2>1, RefuseIdles, IdleStutters
  <2>2. CASE ~Refuse("defer")
    BY <1>4, <2>2, DeferStops
  <2> QED
    BY <2>1, <2>2
<1>5. ASSUME NEW planned \in BOOLEAN, WriteCoveragePlan(planned)
      PROVE  Ledger!LedgerNext \/ UNCHANGED Ledger!ledgerVars
  <2>1. CASE Refuse("plan")
    BY <2>1, RefuseIdles, IdleStutters
  <2>2. CASE ~Refuse("plan")
    <3>1. cur' \in RuntimeTasks /\ cur'.id = cur.id
      BY <1>5, <2>2, EditedType DEF WriteCoveragePlan, TypeOK, RuntimeTasks
    <3> QED
      BY <1>5, <2>2, <3>1, EditRewrites DEF WriteCoveragePlan
  <2> QED
    BY <2>1, <2>2
<1>6. ASSUME RecordAttempt
      PROVE  Ledger!LedgerNext \/ UNCHANGED Ledger!ledgerVars
  <2>1. CASE Refuse("attempt")
    BY <2>1, RefuseIdles, IdleStutters
  <2>2. CASE ~Refuse("attempt")
    <3>1. cur' \in RuntimeTasks /\ cur'.id = cur.id
      BY <1>6, <2>2, EditedType DEF RecordAttempt, TypeOK, RuntimeTasks
    <3> QED
      BY <1>6, <2>2, <3>1, EditRewrites DEF RecordAttempt
  <2> QED
    BY <2>1, <2>2
<1>7. ASSUME RecordOrient
      PROVE  Ledger!LedgerNext \/ UNCHANGED Ledger!ledgerVars
  BY <1>7, RefuseIdles, IdleStutters, SavedRewrite
  DEF RecordOrient, RunningTask
<1>8. ASSUME GetState
      PROVE  Ledger!LedgerNext \/ UNCHANGED Ledger!ledgerVars
  BY <1>8, IdleStutters DEF GetState, Idle
<1>9. ASSUME Restart
      PROVE  Ledger!LedgerNext \/ UNCHANGED Ledger!ledgerVars
  BY <1>9, RestartRecovers
<1>10. ASSUME UNCHANGED vars
       PROVE  Ledger!LedgerNext \/ UNCHANGED Ledger!ledgerVars
  BY <1>10, IdleStutters DEF vars, Idle
<1> QED
  BY <1>1, <1>2, <1>3, <1>4, <1>5, <1>6, <1>7, <1>8, <1>9, <1>10 DEF Next

\* TaskActor moves tasks only as the ledger allows: in queue order, one
\* running at a time, forward only, and back only by a restart, to what the
\* file holds.
THEOREM LedgerImplemented == Spec => ImplementsLedger
<1>1. Init => Ledger!LedgerInit
  BY InitImplements
<1>2. TypeOK /\ [Next]_vars => [Ledger!LedgerNext]_(Ledger!ledgerVars)
  BY NextImplements
<1> QED
  BY <1>1, <1>2, TypeCorrect, PTL DEF Spec, ImplementsLedger, Ledger!LedgerSpec
=============================================================================
