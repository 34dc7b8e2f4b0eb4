--------------------------- MODULE ContextSyncProofs ---------------------------
(***************************************************************************)
(* What is proved of ContextSync and of Preflight: the copies of what is   *)
(* on the disk agree when nothing is under way, the prompt names what the  *)
(* router knows, and the survey says what it has seen, for any disks and   *)
(* any number of edits, reloads and steps.                                 *)
(*                                                                         *)
(* The argument is about the orchestrator's mailbox: its registrations     *)
(* come first, and its last update is of what ToolboxActor has now, or     *)
(* ToolboxActor has yet to push.                                           *)
(***************************************************************************)
EXTENDS ContextSync, DataLemmas, SequenceTheorems

-----------------------------------------------------------------------------
(***************************************************************************)
(* The inductive invariant.                                                *)
(***************************************************************************)
\* The variables that are records have their fields.
Records ==
    /\ box    = [tools |-> box.tools, playbooks |-> box.playbooks,
                 skills |-> box.skills, policy |-> box.policy]
    /\ shared = [tools |-> shared.tools, playbooks |-> shared.playbooks,
                 policy |-> shared.policy]
    /\ orch   = [caps |-> orch.caps, skills |-> orch.skills, tools |-> orch.tools,
                 ooda |-> orch.ooda, total |-> orch.total, approved |-> orch.approved,
                 globals |-> orch.globals]

\* The mailboxes, and what their messages may be.
Mail ==
    /\ IsSequence(boxInbox) /\ IsSequence(orchInbox) /\ IsSequence(position)
    /\ \A i \in DOMAIN boxInbox : boxInbox[i] \in {"TaskLoaded"} \cup Reloads
    /\ \A i \in DOMAIN orchInbox :
          /\ orchInbox[i].kind \in
                 {"RegisterCapability", "UpdateToolbox", "PlaybookStepChanged"}
          /\ orchInbox[i].kind = "RegisterCapability" => orchInbox[i].actor \in Builtins

\* How many messages the boot has sent, or has made ToolboxActor send.
SentByBoot == CASE boot = "orchestrator" -> 0
                [] boot = "builtins" -> 3
                [] boot = "toolbox" -> 4
                [] boot \in {"sleeping", "agent"} -> 5

\* Every message to the orchestrator, those that ToolboxActor has yet to send
\* included, is of the boot, of a reload or of a step.
Counted ==
    /\ reloads \in Nat /\ reloads <= MaxReloads /\ Len(position) <= MaxSteps
    /\ Len(orchInbox) + Len(boxInbox) + (IF doing = Nothing THEN 0 ELSE 1)
           <= SentByBoot + reloads + Len(position)

\* What cannot be under way yet.
Booting ==
    /\ boot \in {"orchestrator", "builtins", "toolbox", "sleeping", "agent"}
    /\ boot = "orchestrator" => orchInbox = <<>>
    /\ boot \in {"orchestrator", "builtins"} => boxInbox = <<>> /\ doing = Nothing
    /\ boot # "agent" => position = <<>>

\* ToolboxActor shares what it has, has it pushed, and the router has seen it.
Shares ==
    /\ \/ doing = Nothing
       \/ doing.kind = "surveying"
       \/ doing.kind = "UpdateToolbox" /\ doing.box = box
    /\ shared.tools = box.tools /\ shared.policy = box.policy
    /\ box.tools \in published /\ {} \in published

\* What the orchestrator has, or will have, is what the router has seen.
Seen ==
    /\ orch.tools \in published
    /\ \A i \in DOMAIN orchInbox :
          orchInbox[i].kind = "UpdateToolbox" => orchInbox[i].box.tools \in published

\* The builtins are registered before any tool is.
Registered ==
    /\ orch.caps \subseteq Builtins
    /\ boot # "orchestrator" =>
          Builtins = orch.caps \cup
              {orchInbox[i].actor : i \in {i \in DOMAIN orchInbox :
                                               orchInbox[i].kind = "RegisterCapability"}}
    /\ \A i, j \in DOMAIN orchInbox :
          i < j /\ orchInbox[j].kind = "RegisterCapability" =>
              orchInbox[i].kind = "RegisterCapability"
    /\ orch.tools # {} => orch.caps = Builtins

\* The last message of a kind in a mailbox, as a set of at most one, and that
\* there is none.
LastOf(q, kind) ==
    {q[i] : i \in {k \in DOMAIN q : /\ q[k].kind = kind
                                     /\ \A j \in DOMAIN q : q[j].kind = kind => j <= k}}
NoneOf(q, kind) == \A i \in DOMAIN q : q[i].kind # kind

\* When nothing is left to push, the last update is of what ToolboxActor has.
UpdatesFresh ==
    doing.kind # "UpdateToolbox" =>
        /\ \A m \in LastOf(orchInbox, "UpdateToolbox") : m.box = box
        /\ NoneOf(orchInbox, "UpdateToolbox") =>
              orch.tools = box.tools /\ orch.skills = box.skills

\* The last step announced is the last in the mailbox, or in the banner.
StepsFresh ==
    position # <<>> =>
        /\ \A m \in LastOf(orchInbox, "PlaybookStepChanged") :
              [name |-> m.step, index |-> m.index] = position[Len(position)]
        /\ NoneOf(orchInbox, "PlaybookStepChanged") =>
              [name |-> banner.name, index |-> banner.index] = position[Len(position)]

PromptIsCurrent == prompt = regenerate_prompt(orch)

\* A result of the survey has its fields.
IsResult(r) ==
    r = [actor_count |-> r.actor_count, derives |-> r.derives,
         existing_test_count |-> r.existing_test_count, listed |-> r.listed,
         compiles_clean |-> r.compiles_clean, blocking |-> r.blocking,
         estimated_tests_needed |-> r.estimated_tests_needed]

\* What a survey s has come to: a tests directory is known before its tests
\* are counted, and an exit code that is not 0 is remembered as such.
Sound(s) ==
    /\ s.session = [defs |-> {}, exit |-> s.session.exit]
    /\ IsResult(s.result)
    /\ s.next \in 1 .. 10
    /\ s.result.listed \subseteq Lists
    /\ s.next \in 5 .. 7 => "tests_dir" \in s.result.listed
    /\ s.spoilt \in BOOLEAN
    /\ s.session.exit \in {NoCode, 0} \/ s.spoilt
    /\ s.result.listed \subseteq s.exists
    /\ s.exists \ s.result.listed \subseteq s.doubtful
    /\ s.result.existing_test_count # 0 \/ s.result.listed \cap TestCommands # {} =>
           "tests_dir" \in s.result.listed

SyncInv ==
    /\ Records /\ Mail /\ Counted /\ Booting /\ Shares /\ Seen /\ Registered
    /\ UpdatesFresh /\ StepsFresh /\ PromptIsCurrent /\ Sound(survey)

-----------------------------------------------------------------------------
(***************************************************************************)
(* The mailboxes.                                                          *)
(***************************************************************************)
\* a is s with one more element.
Grown(a, s, e) ==
    /\ IsSequence(a)
    /\ Len(s) \in Nat /\ DOMAIN s = 1 .. Len(s)
    /\ Len(a) = Len(s) + 1 /\ DOMAIN a = 1 .. Len(s) + 1
    /\ \A i \in DOMAIN s : a[i] = s[i]
    /\ a[Len(s) + 1] = e

\* a is s without its first element.
Shifted(a, s) ==
    /\ IsSequence(a)
    /\ Len(s) \in Nat \ {0} /\ DOMAIN s = 1 .. Len(s)
    /\ Head(s) = s[1]
    /\ Len(a) = Len(s) - 1 /\ DOMAIN a = 1 .. Len(s) - 1
    /\ \A i \in DOMAIN a : a[i] = s[i + 1]

LEMMA AppendGrows ==
    ASSUME NEW s, IsSequence(s), NEW e
    PROVE  Grown(Append(s, e), s, e)
<1> DEFINE a == Append(s, e)
<1>1. Len(a) = Len(s) + 1
  BY DEF IsSequence
<1> HIDE DEF a
<1>2. /\ IsSequence(a)
      /\ DOMAIN a = 1 .. Len(s) + 1
      /\ DOMAIN s = 1 .. Len(s)
      /\ Len(s) \in Nat
      /\ \A i \in DOMAIN s : a[i] = s[i]
      /\ a[Len(s) + 1] = e
  BY SequenceAppended DEF a
<1> QED
  BY <1>1, <1>2 DEF Grown, a

\* The same set of elements may be larger than the sequence's own.
LEMMA SequenceOver ==
    ASSUME NEW S, NEW s \in Seq(S)
    PROVE  IsSequence(s)
<1>1. DOMAIN s = 1 .. Len(s) /\ Len(s) \in Nat /\ s = [i \in 1 .. Len(s) |-> s[i]]
  OBVIOUS
<1> DEFINE T == {s[i] : i \in DOMAIN s}
<1>2. \A i \in 1 .. Len(s) : s[i] \in T
  BY <1>1
<1> HIDE DEF T
<1>3. s \in Seq(T)
  BY <1>1, <1>2
<1> QED
  BY <1>3 DEF T, IsSequence

LEMMA TailShifts ==
    ASSUME NEW s, IsSequence(s), s # <<>>
    PROVE  Shifted(Tail(s), s)
<1> DEFINE S == {s[i] : i \in DOMAIN s}
<1>1. s \in Seq(S)
  BY DEF IsSequence
<1> HIDE DEF S
<1>2. /\ Tail(s) \in Seq(S)
      /\ Len(Tail(s)) = Len(s) - 1
      /\ \A i \in 1 .. Len(Tail(s)) : Tail(s)[i] = s[i + 1]
      /\ Len(s) \in Nat \ {0}
      /\ DOMAIN s = 1 .. Len(s)
      /\ Head(s) = s[1]
  BY <1>1, HeadTailProperties
<1>3. DOMAIN Tail(s) = 1 .. Len(s) - 1
  BY <1>2
<1>4. IsSequence(Tail(s))
  BY <1>2, SequenceOver
<1> QED
  BY <1>2, <1>3, <1>4 DEF Shifted

LEMMA EmptySequence == IsSequence(<<>>) /\ DOMAIN <<>> = {} /\ Len(<<>>) = 0
<1>1. <<>> \in Seq({})
  OBVIOUS
<1>2. IsSequence(<<>>)
  BY <1>1, SequenceOver
<1> QED
  BY <1>2

\* What the boot has put in the orchestrator's mailbox.
LEMMA BuiltinsSent ==
    ASSUME RegisterBuiltins
    PROVE  /\ IsSequence(orchInbox') /\ Len(orchInbox') = 3
           /\ DOMAIN orchInbox' = 1 .. 3
           /\ \A i \in 1 .. 3 : /\ orchInbox'[i].kind = "RegisterCapability"
                                /\ orchInbox'[i].actor \in Builtins
           /\ Builtins = {orchInbox'[i].actor : i \in 1 .. 3}
<1> DEFINE three == <<"shell-actor", "file-actor", "search-actor">>
           q == [i \in 1 .. 3 |-> [kind |-> "RegisterCapability", actor |-> three[i]]]
           S == {[kind |-> "RegisterCapability", actor |-> three[i]] : i \in 1 .. 3}
<1>1. orchInbox' = q
  BY DEF RegisterBuiltins
<1>2. /\ three[1] = "shell-actor" /\ three[2] = "file-actor"
      /\ three[3] = "search-actor"
  OBVIOUS
<1>3. \A i \in 1 .. 3 : three[i] \in Builtins
  BY <1>2 DEF Builtins
<1>4. Builtins = {three[i] : i \in 1 .. 3}
  BY <1>2 DEF Builtins
<1> HIDE DEF three
<1>5. q \in Seq(S) /\ Len(q) = 3 /\ DOMAIN q = 1 .. 3
  OBVIOUS
<1>6. IsSequence(q)
  <2> HIDE DEF q, S
  <2> QED
    BY <1>5, SequenceOver
<1>7. \A i \in 1 .. 3 : q[i].kind = "RegisterCapability" /\ q[i].actor = three[i]
  OBVIOUS
<1>8. {q[i].actor : i \in 1 .. 3} = {three[i] : i \in 1 .. 3}
  BY <1>7
<1> HIDE DEF q, S
<1> QED
  BY <1>1, <1>3, <1>4, <1>5, <1>6, <1>7, <1>8

-----------------------------------------------------------------------------
(***************************************************************************)
(* Records, mailboxes and the order of the boot.                           *)
(***************************************************************************)
LEMMA RecordsKept == Records /\ [SyncNext]_syncVars => Records'
<1> SUFFICES ASSUME Records, [SyncNext]_syncVars  PROVE Records'
  OBVIOUS
<1>1. CASE Reload
  BY <1>1 DEF Reload, Records, Share
<1>2. CASE SpawnToolbox
  BY <1>2 DEF SpawnToolbox, Records, Scanned
<1>3. CASE Handle
  <2> USE DEF Records
  <2>1. box' = box /\ shared' = shared
    BY <1>3 DEF Handle
  <2>2. CASE Register(Head(orchInbox))
    BY <2>1, <2>2 DEF Register
  <2>3. CASE UpdateToolbox(Head(orchInbox))
    BY <2>1, <2>3 DEF UpdateToolbox
  <2>4. CASE StepChanged(Head(orchInbox))
    BY <2>1, <2>4 DEF StepChanged
  <2> QED
    BY <1>3, <2>2, <2>3, <2>4 DEF Handle
<1>4. CASE \/ TaskLoaded \/ Command \/ Conclude \/ Push
           \/ RegisterBuiltins \/ SendTask \/ StartAgent
           \/ \E index \in 1 .. 3 : AnnounceStep(index)
           \/ \E message \in Reloads : SendReload(message)
           \/ \E d \in Disks \ {disk} : Edit(d)
           \/ UNCHANGED syncVars
  BY <1>4 DEF Records, TaskLoaded, Command, Conclude, Push, RegisterBuiltins,
              SendTask, StartAgent, AnnounceStep, SendReload, Edit, syncVars
<1> QED
  BY <1>1, <1>2, <1>3, <1>4 DEF SyncNext, Boot, Toolbox

\* How each step changes ToolboxActor's mailbox.
LEMMA BoxInboxMoves ==
    ASSUME [SyncNext]_syncVars
    PROVE  \/ boxInbox' = boxInbox
           \/ boxInbox # <<>> /\ boxInbox' = Tail(boxInbox) /\ (Reload \/ TaskLoaded)
           \/ boxInbox' = Append(boxInbox, "TaskLoaded") /\ SendTask
           \/ \E message \in Reloads : /\ boxInbox' = Append(boxInbox, message)
                                       /\ SendReload(message)
  BY DEF SyncNext, Boot, Toolbox, Reload, TaskLoaded, Command, Conclude, Push,
         RegisterBuiltins, SpawnToolbox, SendTask, StartAgent, Handle,
         AnnounceStep, SendReload, Edit, syncVars

\* How each step changes the orchestrator's, and what it appends.
LEMMA OrchInboxMoves ==
    ASSUME [SyncNext]_syncVars
    PROVE  \/ orchInbox' = orchInbox /\ ~Handle /\ ~RegisterBuiltins
           \/ Handle /\ orchInbox # <<>> /\ orchInbox' = Tail(orchInbox)
           \/ RegisterBuiltins
           \/ Push /\ orchInbox' = Append(orchInbox, doing)
           \/ SpawnToolbox /\ orchInbox' = Append(orchInbox, Update(box', {}, {}))
           \/ \E index \in 1 .. 3 :
                 /\ AnnounceStep(index)
                 /\ orchInbox' =
                       Append(orchInbox,
                              [kind  |-> "PlaybookStepChanged",
                               step  |-> shared.playbooks[Op].steps[index].name,
                               index |-> index - 1])
  BY DEF SyncNext, Boot, Toolbox, Reload, TaskLoaded, Command, Conclude, Push,
         RegisterBuiltins, SpawnToolbox, SendTask, StartAgent, Handle,
         AnnounceStep, SendReload, Edit, syncVars

\* The same, by what becomes of the queues.
LEMMA OrchInboxQueue ==
    ASSUME Mail, [SyncNext]_syncVars
    PROVE  \/ orchInbox' = orchInbox /\ ~Handle /\ ~RegisterBuiltins
           \/ Handle /\ orchInbox # <<>> /\ Shifted(orchInbox', orchInbox)
           \/ RegisterBuiltins
           \/ Push /\ Grown(orchInbox', orchInbox, doing)
           \/ SpawnToolbox /\ Grown(orchInbox', orchInbox, Update(box', {}, {}))
           \/ \E index \in 1 .. 3 :
                 /\ AnnounceStep(index)
                 /\ Grown(orchInbox', orchInbox,
                          [kind  |-> "PlaybookStepChanged",
                           step  |-> shared.playbooks[Op].steps[index].name,
                           index |-> index - 1])
<1>1. IsSequence(orchInbox)
  BY DEF Mail
<1>2. \A e : Grown(Append(orchInbox, e), orchInbox, e)
  BY <1>1, AppendGrows
<1>3. orchInbox # <<>> => Shifted(Tail(orchInbox), orchInbox)
  BY <1>1, TailShifts
<1> QED
  BY <1>2, <1>3, OrchInboxMoves

LEMMA BoxInboxQueue ==
    ASSUME Mail, [SyncNext]_syncVars
    PROVE  \/ boxInbox' = boxInbox
           \/ boxInbox # <<>> /\ Shifted(boxInbox', boxInbox) /\ (Reload \/ TaskLoaded)
           \/ Grown(boxInbox', boxInbox, "TaskLoaded") /\ SendTask
           \/ \E message \in Reloads : /\ Grown(boxInbox', boxInbox, message)
                                       /\ SendReload(message)
<1>1. IsSequence(boxInbox)
  BY DEF Mail
<1>2. \A e : Grown(Append(boxInbox, e), boxInbox, e)
  BY <1>1, AppendGrows
<1>3. boxInbox # <<>> => Shifted(Tail(boxInbox), boxInbox)
  BY <1>1, TailShifts
<1> QED
  BY <1>2, <1>3, BoxInboxMoves

\* The steps announced.
LEMMA PositionQueue ==
    ASSUME Mail, [SyncNext]_syncVars
    PROVE  \/ position' = position /\ \A index \in 1 .. 3 : ~AnnounceStep(index)
           \/ \E index \in 1 .. 3 :
                 /\ AnnounceStep(index)
                 /\ Grown(position', position,
                          [name  |-> shared.playbooks[Op].steps[index].name,
                           index |-> index - 1])
<1>1. IsSequence(position)
  BY DEF Mail
<1>2. \A e : Grown(Append(position, e), position, e)
  BY <1>1, AppendGrows
<1>3. CASE \E index \in 1 .. 3 : AnnounceStep(index)
  BY <1>2, <1>3 DEF AnnounceStep
<1>4. CASE ~\E index \in 1 .. 3 : AnnounceStep(index)
  BY <1>4
  DEF SyncNext, Boot, Toolbox, Reload, TaskLoaded, Command, Conclude, Push,
      RegisterBuiltins, SpawnToolbox, SendTask, StartAgent, Handle, SendReload,
      Edit, syncVars
<1> QED
  BY <1>3, <1>4

\* What is pushed is an update.
LEMMA Pushed == Push => doing.kind = "UpdateToolbox"
  BY DEF Push

LEMMA MailKept == Mail /\ [SyncNext]_syncVars => Mail'
<1> SUFFICES ASSUME Mail, [SyncNext]_syncVars  PROVE Mail'
  OBVIOUS
<1>1. /\ IsSequence(boxInbox')
      /\ \A i \in DOMAIN boxInbox' : boxInbox'[i] \in {"TaskLoaded"} \cup Reloads
  BY BoxInboxQueue DEF Mail, Grown, Shifted
<1>2. IsSequence(position')
  BY PositionQueue DEF Mail, Grown
<1> DEFINE Fine(m) == /\ m.kind \in {"RegisterCapability", "UpdateToolbox",
                                     "PlaybookStepChanged"}
                      /\ m.kind = "RegisterCapability" => m.actor \in Builtins
<1>3. /\ IsSequence(orchInbox')
      /\ \A i \in DOMAIN orchInbox' : Fine(orchInbox'[i])
  <2>1. \A i \in DOMAIN orchInbox : Fine(orchInbox[i])
    BY DEF Mail
  <2>2. CASE orchInbox' = orchInbox
    BY <2>1, <2>2 DEF Mail
  <2>3. CASE Shifted(orchInbox', orchInbox)
    <3> HIDE DEF Fine
    <3> QED
      BY <2>1, <2>3 DEF Shifted
  <2>4. CASE RegisterBuiltins
    BY <2>4, BuiltinsSent
  <2>5. ASSUME NEW m, Fine(m), Grown(orchInbox', orchInbox, m)
        PROVE  /\ IsSequence(orchInbox')
               /\ \A i \in DOMAIN orchInbox' : Fine(orchInbox'[i])
    <3> HIDE DEF Fine
    <3> QED
      BY <2>1, <2>5 DEF Grown
  <2>6. Push => Fine(doing)
    BY Pushed
  <2>7. Fine(Update(box', {}, {}))
    BY DEF Update
  <2>8. ASSUME NEW step, NEW index
        PROVE  Fine([kind |-> "PlaybookStepChanged", step |-> step, index |-> index])
    OBVIOUS
  <2> HIDE DEF Fine
  <2> QED
    BY <2>2, <2>3, <2>4, <2>5, <2>6, <2>7, <2>8, OrchInboxQueue
<1> QED
  BY <1>1, <1>2, <1>3 DEF Mail

LEMMA BootingKept ==
    ASSUME Mail, Booting, [SyncNext]_syncVars
    PROVE  Booting'
<1>1. CASE Boot
  BY <1>1
  DEF Booting, Boot, RegisterBuiltins, SpawnToolbox, SendTask, StartAgent
<1>2. CASE Toolbox
  BY <1>2
  DEF Booting, Toolbox, Reload, TaskLoaded, Command, Conclude, Push, Nothing
<1>3. CASE Handle
  BY <1>3 DEF Booting, Handle
<1>4. CASE \/ \E index \in 1 .. 3 : AnnounceStep(index)
           \/ \E message \in Reloads : SendReload(message)
           \/ \E d \in Disks \ {disk} : Edit(d)
           \/ UNCHANGED syncVars
  BY <1>4 DEF Booting, AnnounceStep, SendReload, Edit, syncVars
<1> QED
  BY <1>1, <1>2, <1>3, <1>4 DEF SyncNext

\* The lengths of the mailboxes, and whether ToolboxActor is at something.
AtWork(d) == IF d = Nothing THEN 0 ELSE 1

LEMMA CountedKept ==
    ASSUME Mail, Booting, Counted, [SyncNext]_syncVars
    PROVE  Counted'
<1> DEFINE sum == Len(orchInbox) + Len(boxInbox) + AtWork(doing)
<1>1. /\ Len(orchInbox) \in Nat /\ Len(boxInbox) \in Nat /\ Len(position) \in Nat
      /\ Len(orchInbox') \in Nat /\ Len(boxInbox') \in Nat /\ Len(position') \in Nat
  <2>1. Mail'
    BY MailKept
  <2> QED
    BY <2>1, LenProperties DEF Mail, IsSequence
<1>2. AtWork(doing) \in {0, 1} /\ AtWork(doing') \in {0, 1} /\ AtWork(Nothing) = 0
  BY DEF AtWork
<1>3. sum <= SentByBoot + reloads + Len(position)
  BY DEF Counted, AtWork
<1>4. \A d : d.kind \in {"surveying", "UpdateToolbox"} => AtWork(d) = 1
  BY DEF AtWork, Nothing
<1>5. SentByBoot \in 0 .. 5 /\ SentByBoot' \in 0 .. 5
  BY BootingKept DEF SentByBoot, Booting
<1>6. reloads \in Nat /\ reloads <= MaxReloads /\ Len(position) <= MaxSteps
  BY DEF Counted
<1> DEFINE Goal == /\ Len(orchInbox') + Len(boxInbox') + AtWork(doing')
                         <= SentByBoot' + reloads' + Len(position')
                   /\ reloads' \in Nat /\ reloads' <= MaxReloads /\ Len(position') <= MaxSteps
<1> SUFFICES Goal
  BY DEF Counted, AtWork
<1> HIDE DEF AtWork
<1>7. CASE Reload \/ TaskLoaded
  <2>1. Len(boxInbox') = Len(boxInbox) - 1
    BY <1>7, BoxInboxQueue, TailShifts DEF Reload, TaskLoaded, Shifted, Mail
  <2>2. AtWork(doing) = 0
    BY <1>2, <1>7 DEF Reload, TaskLoaded
  <2>3. /\ orchInbox' = orchInbox /\ position' = position /\ reloads' = reloads
        /\ SentByBoot' = SentByBoot
    BY <1>7 DEF Reload, TaskLoaded, SentByBoot
  <2> QED
    BY <1>1, <1>2, <1>3, <1>5, <1>6, <2>1, <2>2, <2>3
<1>8. CASE Conclude
  <2>1. AtWork(doing) = 1
    BY <1>4, <1>8 DEF Conclude
  <2>2. /\ orchInbox' = orchInbox /\ boxInbox' = boxInbox /\ position' = position
        /\ reloads' = reloads /\ SentByBoot' = SentByBoot
    BY <1>8 DEF Conclude, SentByBoot
  <2> QED
    BY <1>1, <1>2, <1>3, <1>5, <1>6, <2>1, <2>2
<1>9. CASE Push
  <2>1. AtWork(doing) = 1 /\ AtWork(doing') = 0
    BY <1>2, <1>4, <1>9 DEF Push
  <2>2. Len(orchInbox') = Len(orchInbox) + 1
    BY <1>9, AppendGrows DEF Push, Mail, Grown
  <2>3. /\ boxInbox' = boxInbox /\ position' = position
        /\ reloads' = reloads /\ SentByBoot' = SentByBoot
    BY <1>9 DEF Push, SentByBoot
  <2> QED
    BY <1>1, <1>2, <1>3, <1>5, <1>6, <2>1, <2>2, <2>3
<1>10. CASE Handle
  <2>1. Len(orchInbox') = Len(orchInbox) - 1
    BY <1>10, TailShifts DEF Handle, Mail, Shifted
  <2>2. /\ boxInbox' = boxInbox /\ position' = position /\ doing' = doing
        /\ reloads' = reloads /\ SentByBoot' = SentByBoot
    BY <1>10 DEF Handle, SentByBoot
  <2> QED
    BY <1>1, <1>2, <1>3, <1>5, <1>6, <2>1, <2>2
<1>11. CASE RegisterBuiltins
  <2>1. Len(orchInbox') = 3
    BY <1>11, BuiltinsSent
  <2>2. SentByBoot = 0 /\ SentByBoot' = 3
    BY <1>11 DEF RegisterBuiltins, SentByBoot
  <2>3. /\ boxInbox' = boxInbox /\ position' = position /\ doing' = doing
        /\ reloads' = reloads
    BY <1>11 DEF RegisterBuiltins
  <2> QED
    BY <1>1, <1>2, <1>3, <1>6, <2>1, <2>2, <2>3
<1>12. CASE SpawnToolbox
  <2>1. Len(orchInbox') = Len(orchInbox) + 1
    BY <1>12, AppendGrows DEF SpawnToolbox, Mail, Grown
  <2>2. SentByBoot = 3 /\ SentByBoot' = 4
    BY <1>12 DEF SpawnToolbox, SentByBoot
  <2>3. /\ boxInbox' = boxInbox /\ position' = position /\ doing' = doing
        /\ reloads' = reloads
    BY <1>12 DEF SpawnToolbox
  <2> QED
    BY <1>1, <1>2, <1>3, <1>6, <2>1, <2>2, <2>3
<1>13. CASE SendTask
  <2>1. Len(boxInbox') = Len(boxInbox) + 1
    BY <1>13, AppendGrows DEF SendTask, Mail, Grown
  <2>2. SentByBoot = 4 /\ SentByBoot' = 5
    BY <1>13 DEF SendTask, SentByBoot
  <2>3. /\ orchInbox' = orchInbox /\ position' = position /\ doing' = doing
        /\ reloads' = reloads
    BY <1>13 DEF SendTask
  <2> QED
    BY <1>1, <1>2, <1>3, <1>6, <2>1, <2>2, <2>3
<1>14. ASSUME NEW index \in 1 .. 3, AnnounceStep(index)  PROVE Goal
  <2>1. Len(orchInbox') = Len(orchInbox) + 1
    BY <1>14, AppendGrows DEF AnnounceStep, Mail, Grown
  <2>2. Len(position') = Len(position) + 1 /\ Len(position) < MaxSteps
    BY <1>14, AppendGrows DEF AnnounceStep, Mail, Grown
  <2>3. /\ boxInbox' = boxInbox /\ doing' = doing /\ SentByBoot' = SentByBoot
        /\ reloads' = reloads
    BY <1>14 DEF AnnounceStep, SentByBoot
  <2> QED
    BY <1>1, <1>2, <1>3, <1>5, <1>6, <2>1, <2>2, <2>3, BoundsAssumption
<1>15. ASSUME NEW message \in Reloads, SendReload(message)  PROVE Goal
  <2>1. Len(boxInbox') = Len(boxInbox) + 1
    BY <1>15, AppendGrows DEF SendReload, Mail, Grown
  <2>2. reloads' = reloads + 1 /\ reloads < MaxReloads
    BY <1>15 DEF SendReload
  <2>3. /\ orchInbox' = orchInbox /\ position' = position /\ doing' = doing
        /\ SentByBoot' = SentByBoot
    BY <1>15 DEF SendReload, SentByBoot
  <2> QED
    BY <1>1, <1>2, <1>3, <1>5, <1>6, <2>1, <2>2, <2>3, BoundsAssumption
<1>16. CASE \/ Command \/ StartAgent
            \/ \E d \in Disks \ {disk} : Edit(d)
            \/ UNCHANGED syncVars
  <2>1. /\ orchInbox' = orchInbox /\ position' = position /\ doing' = doing
        /\ boxInbox' = boxInbox /\ reloads' = reloads
        /\ SentByBoot' = SentByBoot
    BY <1>16 DEF Command, StartAgent, Edit, syncVars, SentByBoot
  <2> QED
    BY <1>1, <1>2, <1>3, <1>5, <1>6, <2>1
<1> HIDE DEF Goal
<1> QED
  BY <1>7, <1>8, <1>9, <1>10, <1>11, <1>12, <1>13, <1>14, <1>15, <1>16
  DEF SyncNext, Boot, Toolbox

-----------------------------------------------------------------------------
(***************************************************************************)
(* The copies of the tools, and the builtins before them.                  *)
(***************************************************************************)
LEMMA SharesKept ==
    ASSUME Records, Booting, Shares, [SyncNext]_syncVars
    PROVE  Shares' /\ published \subseteq published'
<1>1. CASE Reload
  <2>1. /\ shared'.tools = IF "tools" \in Fields[Head(boxInbox)] THEN box'.tools
                           ELSE shared.tools
        /\ shared'.policy = IF "policy" \in Fields[Head(boxInbox)] THEN box'.policy
                            ELSE shared.policy
    BY <1>1 DEF Reload, Share, Records
  <2>2. /\ "tools" \notin Fields[Head(boxInbox)] => box'.tools = box.tools
        /\ "policy" \notin Fields[Head(boxInbox)] => box'.policy = box.policy
    BY <1>1 DEF Reload, Records
  <2>3. shared'.tools = box'.tools /\ shared'.policy = box'.policy
    BY <2>1, <2>2 DEF Shares
  <2>4. doing'.kind = "UpdateToolbox" /\ doing'.box = box'
    BY <1>1 DEF Reload, Update
  <2> QED
    BY <1>1, <2>3, <2>4 DEF Reload, Shares
<1>2. CASE SpawnToolbox
  <2>1. /\ shared'.tools = box'.tools /\ shared'.policy = box'.policy
        /\ published' = published \cup {shared'.tools}
    BY <1>2 DEF SpawnToolbox, Records
  <2>2. doing' = Nothing
    BY <1>2 DEF SpawnToolbox, Booting
  <2> QED
    BY <2>1, <2>2 DEF Shares
<1>3. CASE TaskLoaded \/ Command \/ Conclude \/ Push
  BY <1>3 DEF Shares, TaskLoaded, Command, Conclude, Push, Update
<1>4. CASE \/ Handle \/ RegisterBuiltins \/ SendTask \/ StartAgent
           \/ \E index \in 1 .. 3 : AnnounceStep(index)
           \/ \E message \in Reloads : SendReload(message)
           \/ \E d \in Disks \ {disk} : Edit(d)
           \/ UNCHANGED syncVars
  BY <1>4 DEF Shares, Handle, RegisterBuiltins, SendTask, StartAgent,
              AnnounceStep, SendReload, Edit, syncVars
<1> QED
  BY <1>1, <1>2, <1>3, <1>4 DEF SyncNext, Boot, Toolbox

LEMMA PromptKept ==
    ASSUME PromptIsCurrent, [SyncNext]_syncVars
    PROVE  PromptIsCurrent'
<1>1. CASE Handle
  BY <1>1 DEF Handle, PromptIsCurrent
<1>2. CASE prompt' = prompt /\ orch' = orch
  BY <1>2 DEF PromptIsCurrent, regenerate_prompt
<1> QED
  BY <1>1, <1>2
  DEF SyncNext, Boot, Toolbox, Reload, TaskLoaded, Command, Conclude, Push,
      RegisterBuiltins, SpawnToolbox, SendTask, StartAgent,
      AnnounceStep, SendReload, Edit, syncVars

\* The orchestrator's state changes with the messages it handles only.
LEMMA OrchWaits ==
    ASSUME [SyncNext]_syncVars, ~Handle
    PROVE  orch' = orch /\ banner' = banner
  BY DEF SyncNext, Boot, Toolbox, Reload, TaskLoaded, Command, Conclude, Push,
         RegisterBuiltins, SpawnToolbox, SendTask, StartAgent,
         AnnounceStep, SendReload, Edit, syncVars

\* What one message does.
LEMMA Handled ==
    ASSUME Records, Mail, Handle
    PROVE  LET message == orchInbox[1]
           IN  /\ Shifted(orchInbox', orchInbox)
               /\ \/ /\ message.kind = "RegisterCapability"
                     /\ message.actor \in Builtins
                     /\ orch'.caps = orch.caps \cup {message.actor}
                     /\ orch'.tools = orch.tools /\ orch'.skills = orch.skills
                     /\ banner' = banner
                  \/ /\ message.kind = "UpdateToolbox"
                     /\ orch'.caps = orch.caps
                     /\ orch'.tools = message.box.tools
                     /\ orch'.skills = message.box.skills
                     /\ banner' = banner
                  \/ /\ message.kind = "PlaybookStepChanged"
                     /\ orch' = orch
                     /\ banner'.name = message.step /\ banner'.index = message.index
<1> DEFINE message == Head(orchInbox)
<1>1. Shifted(orchInbox', orchInbox)
  BY TailShifts DEF Handle, Mail
<1>2. message = orchInbox[1] /\ 1 \in DOMAIN orchInbox
  BY <1>1 DEF Shifted
<1>3. CASE Register(message)
  BY <1>1, <1>2, <1>3 DEF Register, Records, Mail
<1>4. CASE UpdateToolbox(message)
  <2>1. PICK total : orch' =
           [orch EXCEPT
                     !.skills   = message.box.skills,
                     !.tools    = message.box.tools,
                     !.ooda     = render_ooda_section(message.preflight, message.steps),
                     !.total    = total,
                     !.approved = IF message.steps = {} THEN @
                                  ELSE UNION {s.approved : s \in message.steps},
                     !.globals  = IF message.steps = {} THEN @
                                  ELSE Globals(message.box.playbooks)]
    BY <1>4 DEF UpdateToolbox
  <2>2. /\ orch'.caps = orch.caps
        /\ orch'.tools = message.box.tools
        /\ orch'.skills = message.box.skills
    BY <2>1 DEF Records
  <2>3. message.kind = "UpdateToolbox" /\ banner' = banner
    BY <1>4 DEF UpdateToolbox
  <2> QED
    BY <1>1, <1>2, <2>2, <2>3
<1>5. CASE StepChanged(message)
  BY <1>1, <1>2, <1>5 DEF StepChanged
<1> QED
  BY <1>3, <1>4, <1>5 DEF Handle

LEMMA SeenKept ==
    ASSUME Records, Mail, Booting, Shares, Seen, [SyncNext]_syncVars
    PROVE  Seen'
<1>1. Shares' /\ published \subseteq published'
  BY SharesKept
<1> DEFINE Fine(m) == m.kind = "UpdateToolbox" => m.box.tools \in published'
<1>2. \A i \in DOMAIN orchInbox : Fine(orchInbox[i])
  BY <1>1 DEF Seen
<1>3. orch'.tools \in published'
  <2>1. CASE Handle
    <3>1. orch'.tools \in {orch.tools} \cup
              {m.box.tools : m \in {n \in {orchInbox[1]} : n.kind = "UpdateToolbox"}}
      BY <2>1, Handled
    <3>2. 1 \in DOMAIN orchInbox
      BY <2>1, Handled DEF Shifted
    <3> QED
      BY <1>1, <1>2, <3>1, <3>2 DEF Seen
  <2>2. CASE ~Handle
    BY <1>1, <2>2, OrchWaits DEF Seen
  <2> QED
    BY <2>1, <2>2
<1>4. ASSUME NEW m, Fine(m), Grown(orchInbox', orchInbox, m)
      PROVE  \A i \in DOMAIN orchInbox' : Fine(orchInbox'[i])
  <2> HIDE DEF Fine
  <2> QED
    BY <1>2, <1>4 DEF Grown
<1>5. Push => Fine(doing)
  BY <1>1 DEF Push, Shares, Nothing
<1>6. Fine(Update(box', {}, {}))
  BY <1>1 DEF Update, Shares
<1>7. ASSUME NEW step, NEW index
      PROVE  Fine([kind |-> "PlaybookStepChanged", step |-> step, index |-> index])
  OBVIOUS
<1>8. RegisterBuiltins => \A i \in DOMAIN orchInbox' : Fine(orchInbox'[i])
  BY BuiltinsSent
<1>9. Shifted(orchInbox', orchInbox) => \A i \in DOMAIN orchInbox' : Fine(orchInbox'[i])
  <2> HIDE DEF Fine
  <2> QED
    BY <1>2 DEF Shifted
<1>10. \A i \in DOMAIN orchInbox' : Fine(orchInbox'[i])
  <2> HIDE DEF Fine
  <2> QED
    BY <1>2, <1>4, <1>5, <1>6, <1>7, <1>8, <1>9, OrchInboxQueue
<1> QED
  BY <1>1, <1>3, <1>10 DEF Seen

-----------------------------------------------------------------------------
\* The actors of the registrations in a mailbox.
Actors(q) == {q[i].actor : i \in {i \in DOMAIN q : q[i].kind = "RegisterCapability"}}

\* The registrations come first in it.
RegisterFirst(q) ==
    \A i, j \in DOMAIN q :
        i < j /\ q[j].kind = "RegisterCapability" => q[i].kind = "RegisterCapability"

LEMMA RegisteredKept ==
    ASSUME Records, Mail, Booting, Registered, [SyncNext]_syncVars
    PROVE  Registered'
<1>1. /\ orch.caps \subseteq Builtins
      /\ boot # "orchestrator" => Builtins = orch.caps \cup Actors(orchInbox)
      /\ RegisterFirst(orchInbox)
      /\ orch.tools # {} => orch.caps = Builtins
  BY DEF Registered, Actors, RegisterFirst
<1> DEFINE Goal == /\ orch'.caps \subseteq Builtins
                   /\ boot' # "orchestrator" => Builtins = orch'.caps \cup Actors(orchInbox')
                   /\ RegisterFirst(orchInbox')
                   /\ orch'.tools # {} => orch'.caps = Builtins
<1> SUFFICES Goal
  BY DEF Registered, Actors, RegisterFirst
<1>2. boot' = "orchestrator" <=> boot = "orchestrator" /\ ~RegisterBuiltins
  BY DEF SyncNext, Boot, Toolbox, Reload, TaskLoaded, Command, Conclude, Push,
         RegisterBuiltins, SpawnToolbox, SendTask, StartAgent, Handle,
         AnnounceStep, SendReload, Edit, syncVars
<1>3. CASE orchInbox' = orchInbox /\ ~Handle /\ ~RegisterBuiltins
  BY <1>1, <1>2, <1>3, OrchWaits
<1>4. CASE RegisterBuiltins
  <2>1. ~Handle
    BY <1>4, EmptySequence DEF RegisterBuiltins, Handle, Booting
  <2>2. orch' = orch
    BY <2>1, OrchWaits
  <2>3. Actors(orchInbox') = Builtins
    BY <1>4, BuiltinsSent DEF Actors
  <2>4. RegisterFirst(orchInbox')
    BY <1>4, BuiltinsSent DEF RegisterFirst
  <2> QED
    BY <1>1, <2>2, <2>3, <2>4
<1>5. ASSUME NEW m, m.kind # "RegisterCapability", Grown(orchInbox', orchInbox, m),
             ~Handle, ~RegisterBuiltins
      PROVE  Goal
  <2>1. orch' = orch
    BY <1>5, OrchWaits
  <2>2. Actors(orchInbox') = Actors(orchInbox)
    BY <1>5 DEF Actors, Grown
  <2>3. RegisterFirst(orchInbox')
    BY <1>1, <1>5 DEF RegisterFirst, Grown
  <2> QED
    BY <1>1, <1>2, <1>5, <2>1, <2>2, <2>3
<1>6. CASE Handle
  <2>1. Shifted(orchInbox', orchInbox)
    BY <1>6, Handled
  <2>2. RegisterFirst(orchInbox')
    BY <1>1, <2>1 DEF RegisterFirst, Shifted
  <2>3. boot' = boot /\ boot # "orchestrator"
    BY <1>6 DEF Handle, Booting
  <2>4. 1 \in DOMAIN orchInbox /\ DOMAIN orchInbox = {1} \cup {i + 1 : i \in DOMAIN orchInbox'}
    <3>1. /\ DOMAIN orchInbox = 1 .. Len(orchInbox) /\ Len(orchInbox) \in Nat \ {0}
          /\ DOMAIN orchInbox' = 1 .. Len(orchInbox) - 1
      BY <2>1 DEF Shifted
    <3>2. ASSUME NEW n \in Nat \ {0}
          PROVE  1 .. n = {1} \cup {i + 1 : i \in 1 .. n - 1}
      <4>1. ASSUME NEW k \in 1 .. n, k # 1
            PROVE  k - 1 \in 1 .. n - 1 /\ k = (k - 1) + 1
        BY <4>1
      <4> QED
        BY <4>1
    <3> QED
      BY <3>1, <3>2
  <2>5. \A i \in DOMAIN orchInbox' : orchInbox'[i] = orchInbox[i + 1]
    BY <2>1 DEF Shifted
  <2>6. Actors(orchInbox) = Actors(orchInbox') \cup
           {m.actor : m \in {n \in {orchInbox[1]} : n.kind = "RegisterCapability"}}
    BY <2>4, <2>5 DEF Actors
  <2>7. CASE orchInbox[1].kind = "RegisterCapability"
    <3>1. /\ orch'.caps = orch.caps \cup {orchInbox[1].actor}
          /\ orchInbox[1].actor \in Builtins
          /\ orch'.tools = orch.tools
      BY <1>6, <2>7, Handled
    <3> QED
      BY <1>1, <2>2, <2>3, <2>6, <2>7, <3>1
  <2>8. CASE orchInbox[1].kind # "RegisterCapability"
    <3>1. orch'.caps = orch.caps
      BY <1>6, <2>8, Handled
    <3>2. Actors(orchInbox) = {}
      BY <1>1, <2>1, <2>8 DEF Actors, RegisterFirst, Shifted
    <3> QED
      BY <1>1, <2>2, <2>3, <2>6, <2>8, <3>1, <3>2
  <2> QED
    BY <2>7, <2>8
<1>7. Push => doing.kind # "RegisterCapability"
  BY Pushed
<1>8. Update(box', {}, {}).kind # "RegisterCapability"
  BY DEF Update
<1>9. ASSUME NEW step, NEW index
      PROVE  [kind |-> "PlaybookStepChanged", step |-> step, index |-> index].kind
                 # "RegisterCapability"
  OBVIOUS
<1> HIDE DEF Goal
<1> QED
  BY <1>3, <1>4, <1>5, <1>6, <1>7, <1>8, <1>9, OrchInboxQueue

-----------------------------------------------------------------------------
(***************************************************************************)
(* The last messages.                                                      *)
(***************************************************************************)
LEMMA LastOfGrown ==
    ASSUME NEW a, NEW s, NEW m, NEW kind, Grown(a, s, m)
    PROVE  /\ m.kind = kind => LastOf(a, kind) = {m} /\ ~NoneOf(a, kind)
           /\ m.kind # kind => /\ LastOf(a, kind) = LastOf(s, kind)
                               /\ NoneOf(a, kind) <=> NoneOf(s, kind)
<1>1. /\ Len(s) \in Nat /\ DOMAIN s = 1 .. Len(s) /\ DOMAIN a = 1 .. Len(s) + 1
      /\ \A i \in DOMAIN s : a[i] = s[i]
      /\ a[Len(s) + 1] = m
  BY DEF Grown
<1>2. Len(s) + 1 \in DOMAIN a /\ \A i \in DOMAIN a : i # Len(s) + 1 => i \in DOMAIN s
  BY <1>1
<1>3. ASSUME m.kind = kind
      PROVE  LastOf(a, kind) = {m} /\ ~NoneOf(a, kind)
  <2>1. \A k \in DOMAIN a : k <= Len(s) + 1
    BY <1>1
  <2>2. \A k \in DOMAIN a : Len(s) + 1 <= k => k = Len(s) + 1
    BY <1>1
  <2> QED
    BY <1>1, <1>2, <1>3, <2>1, <2>2 DEF LastOf, NoneOf
<1>4. ASSUME m.kind # kind
      PROVE  /\ LastOf(a, kind) = LastOf(s, kind)
             /\ NoneOf(a, kind) <=> NoneOf(s, kind)
  <2>1. \A k : (k \in DOMAIN a /\ a[k].kind = kind) <=> (k \in DOMAIN s /\ s[k].kind = kind)
    BY <1>1, <1>2, <1>4
  <2>2. NoneOf(a, kind) <=> NoneOf(s, kind)
    BY <2>1 DEF NoneOf
  <2> DEFINE A == {k \in DOMAIN a : /\ a[k].kind = kind
                                    /\ \A j \in DOMAIN a : a[j].kind = kind => j <= k}
             S == {k \in DOMAIN s : /\ s[k].kind = kind
                                    /\ \A j \in DOMAIN s : s[j].kind = kind => j <= k}
  <2>3. A = S
    BY <2>1
  <2>4. \A k \in S : k \in DOMAIN s
    OBVIOUS
  <2>5. LastOf(a, kind) = {a[k] : k \in A} /\ LastOf(s, kind) = {s[k] : k \in S}
    BY DEF LastOf
  <2> HIDE DEF A, S
  <2> QED
    BY <1>1, <2>2, <2>3, <2>4, <2>5
<1> QED
  BY <1>3, <1>4

LEMMA LastOfShifted ==
    ASSUME NEW a, NEW s, NEW kind, Shifted(a, s)
    PROVE  /\ LastOf(a, kind) \subseteq LastOf(s, kind)
           /\ NoneOf(a, kind) => \/ NoneOf(s, kind)
                                 \/ s[1].kind = kind /\ s[1] \in LastOf(s, kind)
<1>1. /\ Len(s) \in Nat \ {0} /\ DOMAIN s = 1 .. Len(s) /\ DOMAIN a = 1 .. Len(s) - 1
      /\ \A i \in DOMAIN a : a[i] = s[i + 1]
  BY DEF Shifted
<1>2. 1 \in DOMAIN s /\ \A i \in DOMAIN a : i + 1 \in DOMAIN s
  BY <1>1
<1>3. \A i \in DOMAIN s : i # 1 => i - 1 \in DOMAIN a /\ a[i - 1] = s[i]
  BY <1>1
<1>4. ASSUME NEW k \in DOMAIN a, a[k].kind = kind,
             \A j \in DOMAIN a : a[j].kind = kind => j <= k
      PROVE  a[k] \in LastOf(s, kind)
  <2>1. k + 1 \in DOMAIN s /\ s[k + 1] = a[k]
    BY <1>1, <1>2
  <2>2. ASSUME NEW j \in DOMAIN s, s[j].kind = kind  PROVE j <= k + 1
    <3>1. CASE j = 1
      BY <1>1, <3>1
    <3>2. CASE j # 1
      <4>1. j - 1 <= k
        BY <1>3, <1>4, <2>2, <3>2
      <4> QED
        BY <1>1, <4>1
    <3> QED
      BY <3>1, <3>2
  <2> QED
    BY <1>4, <2>1, <2>2 DEF LastOf
<1>5. LastOf(a, kind) \subseteq LastOf(s, kind)
  <2> SUFFICES ASSUME NEW m \in LastOf(a, kind)  PROVE m \in LastOf(s, kind)
    OBVIOUS
  <2>1. PICK k \in DOMAIN a : /\ m = a[k] /\ a[k].kind = kind
                              /\ \A j \in DOMAIN a : a[j].kind = kind => j <= k
    BY DEF LastOf
  <2> QED
    BY <1>4, <2>1
<1>6. ASSUME NoneOf(a, kind), ~NoneOf(s, kind)
      PROVE  s[1].kind = kind /\ s[1] \in LastOf(s, kind)
  <2>1. \A j \in DOMAIN s : s[j].kind = kind => j = 1
    BY <1>3, <1>6 DEF NoneOf
  <2>2. s[1].kind = kind
    BY <1>6, <2>1 DEF NoneOf
  <2>3. \A j \in DOMAIN s : s[j].kind = kind => j <= 1
    BY <2>1
  <2> QED
    BY <1>2, <2>2, <2>3 DEF LastOf
<1> QED
  BY <1>5, <1>6

LEMMA UpdatesFreshKept ==
    ASSUME Records, Mail, Booting, Shares, UpdatesFresh, [SyncNext]_syncVars
    PROVE  UpdatesFresh'
<1> DEFINE U == "UpdateToolbox"
<1> DEFINE Goal == doing'.kind # U =>
                      /\ \A m \in LastOf(orchInbox', U) : m.box = box'
                      /\ NoneOf(orchInbox', U) =>
                            orch'.tools = box'.tools /\ orch'.skills = box'.skills
<1> SUFFICES Goal
  BY DEF UpdatesFresh
<1>1. doing.kind # U => /\ \A m \in LastOf(orchInbox, U) : m.box = box
                        /\ NoneOf(orchInbox, U) =>
                              orch.tools = box.tools /\ orch.skills = box.skills
  BY DEF UpdatesFresh
<1>2. CASE Push
  <2>1. Grown(orchInbox', orchInbox, doing)
    BY <1>2, AppendGrows DEF Push, Mail
  <2>2. doing.kind = U /\ doing.box = box /\ box' = box
    BY <1>2 DEF Push, Shares, Nothing
  <2>3. LastOf(orchInbox', U) = {doing} /\ ~NoneOf(orchInbox', U)
    BY <2>1, <2>2, LastOfGrown
  <2> QED
    BY <2>2, <2>3
<1>3. CASE SpawnToolbox
  <2>1. Grown(orchInbox', orchInbox, Update(box', {}, {}))
    BY <1>3, AppendGrows DEF SpawnToolbox, Mail
  <2>2. Update(box', {}, {}).kind = U /\ Update(box', {}, {}).box = box'
    BY DEF Update
  <2>3. LastOf(orchInbox', U) = {Update(box', {}, {})} /\ ~NoneOf(orchInbox', U)
    BY <2>1, <2>2, LastOfGrown
  <2> QED
    BY <2>2, <2>3
<1>4. CASE Handle
  <2>1. doing' = doing /\ box' = box
    BY <1>4 DEF Handle
  <2>2. Shifted(orchInbox', orchInbox)
    BY <1>4, Handled
  <2>3. /\ LastOf(orchInbox', U) \subseteq LastOf(orchInbox, U)
        /\ NoneOf(orchInbox', U) =>
              \/ NoneOf(orchInbox, U)
              \/ orchInbox[1].kind = U /\ orchInbox[1] \in LastOf(orchInbox, U)
    BY <2>2, LastOfShifted
  <2>4. CASE orchInbox[1].kind = U
    <3>1. orch'.tools = orchInbox[1].box.tools /\ orch'.skills = orchInbox[1].box.skills
      BY <1>4, <2>4, Handled
    <3>2. ~NoneOf(orchInbox, U)
      BY <2>2, <2>4 DEF NoneOf, Shifted
    <3> QED
      BY <1>1, <2>1, <2>3, <3>1, <3>2
  <2>5. CASE orchInbox[1].kind # U
    <3>1. orch'.tools = orch.tools /\ orch'.skills = orch.skills
      BY <1>4, <2>5, Handled
    <3> QED
      BY <1>1, <2>1, <2>3, <2>5, <3>1
  <2> QED
    BY <2>4, <2>5
<1>5. CASE RegisterBuiltins
  <2>1. /\ orchInbox = <<>> /\ doing' = doing /\ box' = box /\ orch' = orch
        /\ doing = Nothing
    BY <1>5 DEF RegisterBuiltins, Booting
  <2>2. NoneOf(orchInbox, U) /\ doing.kind # U
    BY <2>1, EmptySequence DEF NoneOf, Nothing
  <2>3. \A i \in DOMAIN orchInbox' : orchInbox'[i].kind # U
    BY <1>5, BuiltinsSent
  <2>4. LastOf(orchInbox', U) = {}
    BY <2>3 DEF LastOf
  <2> QED
    BY <1>1, <2>1, <2>2, <2>4
<1>6. ASSUME NEW index \in 1 .. 3, AnnounceStep(index)  PROVE Goal
  <2> DEFINE m == [kind  |-> "PlaybookStepChanged",
                   step  |-> shared.playbooks[Op].steps[index].name,
                   index |-> index - 1]
  <2>1. Grown(orchInbox', orchInbox, m)
    BY <1>6, AppendGrows DEF AnnounceStep, Mail
  <2>2. m.kind # U
    OBVIOUS
  <2>3. doing' = doing /\ box' = box /\ orch' = orch
    BY <1>6 DEF AnnounceStep
  <2> HIDE DEF m
  <2>4. /\ LastOf(orchInbox', U) = LastOf(orchInbox, U)
        /\ NoneOf(orchInbox', U) <=> NoneOf(orchInbox, U)
    BY <2>1, <2>2, LastOfGrown
  <2> QED
    BY <1>1, <2>3, <2>4
<1>7. CASE Reload \/ TaskLoaded \/ Command \/ Conclude
  <2>1. orchInbox' = orchInbox /\ orch' = orch
    BY <1>7 DEF Reload, TaskLoaded, Command, Conclude
  <2>2. doing'.kind # U => doing.kind # U /\ box' = box
    BY <1>7 DEF Reload, TaskLoaded, Command, Conclude, Nothing, Update
  <2> QED
    BY <1>1, <2>1, <2>2
<1>8. CASE \/ SendTask \/ StartAgent
           \/ \E message \in Reloads : SendReload(message)
           \/ \E d \in Disks \ {disk} : Edit(d)
           \/ UNCHANGED syncVars
  <2>1. orchInbox' = orchInbox /\ orch' = orch /\ doing' = doing /\ box' = box
    BY <1>8 DEF SendTask, StartAgent, SendReload, Edit, syncVars
  <2> QED
    BY <1>1, <2>1
<1> HIDE DEF Goal
<1> QED
  BY <1>2, <1>3, <1>4, <1>5, <1>6, <1>7, <1>8 DEF SyncNext, Boot, Toolbox

LEMMA StepsFreshKept ==
    ASSUME Records, Mail, Booting, StepsFresh, [SyncNext]_syncVars
    PROVE  StepsFresh'
<1> DEFINE P == "PlaybookStepChanged"
           Said(m) == [name |-> m.step, index |-> m.index]
           Shown(b) == [name |-> b.name, index |-> b.index]
<1> DEFINE Goal == position' # <<>> =>
                      /\ \A m \in LastOf(orchInbox', P) : Said(m) = position'[Len(position')]
                      /\ NoneOf(orchInbox', P) => Shown(banner') = position'[Len(position')]
<1> SUFFICES Goal
  BY DEF StepsFresh
<1>1. position # <<>> =>
         /\ \A m \in LastOf(orchInbox, P) : Said(m) = position[Len(position)]
         /\ NoneOf(orchInbox, P) => Shown(banner) = position[Len(position)]
  BY DEF StepsFresh
<1>2. ASSUME NEW index \in 1 .. 3, AnnounceStep(index)  PROVE Goal
  <2> DEFINE step == shared.playbooks[Op].steps[index].name
             m == [kind |-> P, step |-> step, index |-> index - 1]
             e == [name |-> step, index |-> index - 1]
  <2>1. Grown(orchInbox', orchInbox, m)
    BY <1>2, AppendGrows DEF AnnounceStep, Mail
  <2>2. Grown(position', position, e)
    BY <1>2, AppendGrows DEF AnnounceStep, Mail
  <2>3. m.kind = P /\ Said(m) = e
    OBVIOUS
  <2> HIDE DEF m, e, Said
  <2>4. LastOf(orchInbox', P) = {m} /\ ~NoneOf(orchInbox', P)
    BY <2>1, <2>3, LastOfGrown
  <2>5. position'[Len(position')] = e
    BY <2>2 DEF Grown
  <2> QED
    BY <2>3, <2>4, <2>5
<1>3. CASE Handle
  <2>1. position' = position
    BY <1>3 DEF Handle
  <2>2. Shifted(orchInbox', orchInbox)
    BY <1>3, Handled
  <2>3. /\ LastOf(orchInbox', P) \subseteq LastOf(orchInbox, P)
        /\ NoneOf(orchInbox', P) =>
              \/ NoneOf(orchInbox, P)
              \/ orchInbox[1].kind = P /\ orchInbox[1] \in LastOf(orchInbox, P)
    BY <2>2, LastOfShifted
  <2>4. CASE orchInbox[1].kind = P
    <3>1. Shown(banner') = Said(orchInbox[1])
      BY <1>3, <2>4, Handled
    <3>2. ~NoneOf(orchInbox, P)
      BY <2>2, <2>4 DEF NoneOf, Shifted
    <3> HIDE DEF Said, Shown
    <3> QED
      BY <1>1, <2>1, <2>3, <3>1, <3>2
  <2>5. CASE orchInbox[1].kind # P
    <3>1. banner' = banner
      BY <1>3, <2>5, Handled
    <3> HIDE DEF Said, Shown
    <3> QED
      BY <1>1, <2>1, <2>3, <2>5, <3>1
  <2> QED
    BY <2>4, <2>5
<1>4. CASE RegisterBuiltins
  BY <1>4 DEF RegisterBuiltins, Booting
<1> HIDE DEF Said, Shown
<1>5. CASE Push \/ SpawnToolbox
  <2>1. position' = position /\ banner' = banner
    BY <1>5 DEF Push, SpawnToolbox
  <2>2. CASE Push
    <3>1. Grown(orchInbox', orchInbox, doing) /\ doing.kind # P
      BY <2>2, AppendGrows DEF Push, Mail
    <3>2. /\ LastOf(orchInbox', P) = LastOf(orchInbox, P)
          /\ NoneOf(orchInbox', P) <=> NoneOf(orchInbox, P)
      BY <3>1, LastOfGrown
    <3> QED
      BY <1>1, <2>1, <3>2
  <2>3. CASE SpawnToolbox
    <3>1. position = <<>>
      BY <2>3 DEF SpawnToolbox, Booting
    <3> QED
      BY <2>1, <3>1
  <2> QED
    BY <1>5, <2>2, <2>3
<1>6. CASE \/ Reload \/ TaskLoaded \/ Command \/ Conclude \/ SendTask \/ StartAgent
           \/ \E message \in Reloads : SendReload(message)
           \/ \E d \in Disks \ {disk} : Edit(d)
           \/ UNCHANGED syncVars
  <2>1. orchInbox' = orchInbox /\ position' = position /\ banner' = banner
    BY <1>6
    DEF Reload, TaskLoaded, Command, Conclude, SendTask, StartAgent,
        SendReload, Edit, syncVars
  <2> QED
    BY <1>1, <2>1
<1> HIDE DEF Goal
<1> QED
  BY <1>2, <1>3, <1>4, <1>5, <1>6 DEF SyncNext, Boot, Toolbox

-----------------------------------------------------------------------------
(***************************************************************************)
(* The survey.                                                             *)
(***************************************************************************)
\* The commands by name.
Named == {"files", "actors", "derives", "tests_dir", "test_count", "unit", "props", "check",
          "private"}

LEMMA CommandsInOrder ==
    /\ Len(Commands) = 9
    /\ Commands[1] = "files" /\ Commands[2] = "actors" /\ Commands[3] = "derives"
    /\ Commands[4] = "tests_dir" /\ Commands[5] = "test_count" /\ Commands[6] = "unit"
    /\ Commands[7] = "props" /\ Commands[8] = "check" /\ Commands[9] = "private"
  BY DEF Commands

\* n is r with what a command has added.
Notes(n, r, c, obs, value) ==
    /\ IsResult(n)
    /\ n.listed = IF obs.kind = "Structured" /\ c \in Lists /\ obs.code = 0
                  THEN r.listed \cup {c} ELSE r.listed
    /\ n.existing_test_count = IF obs.kind = "Structured" /\ c = "test_count" THEN value
                               ELSE r.existing_test_count

LEMMA NotedNotes ==
    ASSUME NEW r, IsResult(r), NEW c \in Named, NEW obs, NEW value, NEW derives
    PROVE  Notes(Noted(r, c, obs, value, derives), r, c, obs, value)
<1> DEFINE n == Noted(r, c, obs, value, derives)
<1>1. CASE obs.kind # "Structured"
  BY <1>1 DEF Noted, Notes
<1>2. CASE obs.kind = "Structured"
  <2>1. c \in {"files", "private"} => Notes(n, r, c, obs, value)
    BY <1>2 DEF Noted, Notes, Lists
  <2>2. c = "actors" => Notes(n, r, c, obs, value)
    BY <1>2 DEF Noted, Notes, Lists, IsResult
  <2>3. c = "derives" => Notes(n, r, c, obs, value)
    BY <1>2 DEF Noted, Notes, Lists, IsResult
  <2>4. c = "test_count" => Notes(n, r, c, obs, value)
    BY <1>2 DEF Noted, Notes, Lists, IsResult
  <2>5. c = "check" => Notes(n, r, c, obs, value)
    BY <1>2 DEF Noted, Notes, Lists, IsResult
  <2>6. c \in Lists => Notes(n, r, c, obs, value)
    <3>1. c \in Lists => c \notin {"actors", "derives", "test_count", "check", "files", "private"}
      BY DEF Lists
    <3>2. c \in Lists => n = IF obs.code = 0 THEN [r EXCEPT !.listed = @ \cup {c}] ELSE r
      BY <1>2, <3>1 DEF Noted
    <3> HIDE DEF n
    <3> QED
      BY <1>2, <3>1, <3>2 DEF Notes, IsResult
  <2> QED
    BY <2>1, <2>2, <2>3, <2>4, <2>5, <2>6 DEF Named, Lists
<1> QED
  BY <1>1, <1>2

\* What a command leaves on the stack, and the code it is answered with.
Ran(run, session, eval) ==
    /\ run.session = [defs |-> {}, exit |-> run.session.exit]
    /\ run.session.exit = IF eval.end # "value" THEN NoCode
                          ELSE IF eval.exit = NoCode THEN session.exit ELSE eval.exit
    /\ run.obs.kind = "Structured" <=> eval.end = "value"
    /\ eval.end = "value" =>
           run.obs.code = IF run.session.exit = NoCode THEN 0 ELSE run.session.exit

LEMMA CommandRan ==
    ASSUME NEW session, session = [defs |-> {}, exit |-> session.exit], NEW eval
    PROVE  Ran(run_command(session, {}, eval), session, eval)
<1>1. PICK e : session = [defs |-> {}, exit |-> e]
  OBVIOUS
<1>2. session.exit = e /\ [session EXCEPT !.defs = @ \cup {}] = session
  BY <1>1
<1> DEFINE after == Evaluated(session, eval)
           run   == run_command(session, {}, eval)
<1>3. run = [session |-> IF eval.end = "value" THEN after ELSE reset_stack(after),
             obs |-> value_to_observation(after, eval)]
  BY <1>2 DEF run_command
<1>4. /\ run.session = IF eval.end = "value" THEN after ELSE reset_stack(after)
      /\ run.obs = value_to_observation(after, eval)
  BY <1>3
<1> DEFINE f == IF eval.end = "parse error" \/ eval.exit = NoCode THEN e ELSE eval.exit
<1>5. after = [defs |-> {}, exit |-> f]
  BY <1>1 DEF Evaluated
<1> HIDE DEF after, run, f
<1>6. reset_stack(after) = [defs |-> {}, exit |-> NoCode] /\ after.exit = f
  BY <1>5 DEF reset_stack
<1>7. CASE eval.end = "value"
  <2>1. run.session = after /\ f = IF eval.exit = NoCode THEN e ELSE eval.exit
    BY <1>4, <1>7 DEF f
  <2>2. run.obs.kind = "Structured" /\ run.obs.code = IF f = NoCode THEN 0 ELSE f
    BY <1>4, <1>6, <1>7 DEF value_to_observation, Observed
  <2> QED
    BY <1>2, <1>5, <1>6, <1>7, <2>1, <2>2 DEF Ran, run
<1>8. CASE eval.end # "value"
  <2>1. run.session = [defs |-> {}, exit |-> NoCode]
    BY <1>4, <1>6, <1>8
  <2>2. run.obs.kind = "Error"
    BY <1>4, <1>8 DEF value_to_observation, Failed, Observed
  <2>3. run.session.exit = NoCode
    BY <2>1
  <2> QED
    BY <1>8, <2>1, <2>2, <2>3 DEF Ran, run
<1> QED
  BY <1>7, <1>8

LEMMA SurveyedSound ==
    ASSUME NEW s, Sound(s), ~SurveyDone(s), NEW eval, NEW value, NEW derives
    PROVE  Sound(Surveyed(s, eval, value, derives))
<1> DEFINE c     == Commands[s.next]
           run   == run_command(s.session, {}, eval)
           r     == Noted(s.result, c, run.obs, value, derives)
           lists == {c} \cap {l \in Lists : eval.end = "value"}
           spoilt == CASE eval.end # "value"   -> FALSE
                       [] eval.end = "value" /\ eval.exit = NoCode -> s.spoilt
                       [] OTHER -> eval.exit # 0
           t     == Surveyed(s, eval, value, derives)
<1>1. /\ t.next = Following(s, r) /\ t.session = run.session /\ t.result = r
      /\ t.exists = s.exists \cup lists /\ t.spoilt = spoilt
      /\ t.doubtful = IF spoilt THEN s.doubtful \cup lists ELSE s.doubtful
  BY DEF Surveyed
<1>2. s.next \in 1 .. 9 /\ c \in Named
  <2>1. s.next \in 1 .. 9
    BY CommandsInOrder DEF Sound, SurveyDone
  <2> QED
    BY <2>1, CommandsInOrder DEF Named
<1>3. Ran(run, s.session, eval)
  BY CommandRan DEF Sound
<1> HIDE DEF run
<1>4. Notes(r, s.result, c, run.obs, value)
  BY <1>2, NotedNotes DEF Sound
<1> HIDE DEF r, t
<1>5. /\ t.session = [defs |-> {}, exit |-> t.session.exit]
      /\ IsResult(t.result)
  BY <1>1, <1>3, <1>4 DEF Ran, Notes
<1> DEFINE noted == eval.end = "value" /\ c \in Lists /\ run.obs.code = 0
<1>6. r.listed = IF noted THEN s.result.listed \cup {c} ELSE s.result.listed
  BY <1>3, <1>4 DEF Notes, Ran
<1>7. r.listed \subseteq Lists
  BY <1>6 DEF Sound
<1>8. lists = IF eval.end = "value" /\ c \in Lists THEN {c} ELSE {}
  OBVIOUS
<1>9. spoilt \in BOOLEAN /\ (run.session.exit \in {NoCode, 0} \/ spoilt)
  <2>1. CASE eval.end # "value"
    BY <1>3, <2>1 DEF Ran
  <2>2. CASE eval.end = "value" /\ eval.exit = NoCode
    BY <1>3, <2>2 DEF Ran, Sound
  <2>3. CASE eval.end = "value" /\ eval.exit # NoCode
    BY <1>3, <2>3 DEF Ran
  <2> QED
    BY <2>1, <2>2, <2>3
<1>10. eval.end = "value" /\ ~spoilt => run.obs.code = 0
  BY <1>3, <1>9 DEF Ran
<1> HIDE DEF c, lists, spoilt, noted
<1>11. r.listed \subseteq t.exists
  BY <1>1, <1>6, <1>8 DEF Sound, noted
<1>12. t.exists \ r.listed \subseteq t.doubtful
  BY <1>1, <1>6, <1>8, <1>9, <1>10 DEF Sound, noted
<1>13. s.result.listed \subseteq r.listed
  BY <1>6
<1>14. s.next \in 5 .. 7 => "tests_dir" \in r.listed
  BY <1>13 DEF Sound
<1>15. c \in TestCommands => s.next \in 5 .. 7
  BY <1>2, CommandsInOrder DEF TestCommands, c
<1>16. r.existing_test_count # 0 \/ r.listed \cap TestCommands # {} => "tests_dir" \in r.listed
  <2>1. CASE c \in TestCommands
    BY <1>14, <1>15, <2>1
  <2>2. CASE c \notin TestCommands
    <3>1. r.listed \cap TestCommands = s.result.listed \cap TestCommands
      BY <1>6, <2>2
    <3>2. r.existing_test_count = s.result.existing_test_count
      BY <1>4, <2>2 DEF Notes, TestCommands
    <3> QED
      BY <1>13, <3>1, <3>2 DEF Sound
  <2> QED
    BY <2>1, <2>2
<1>17. /\ t.next \in 1 .. 10
       /\ t.next \in 5 .. 7 => "tests_dir" \in r.listed
  <2>1. t.next = IF c = "tests_dir" /\ "tests_dir" \notin r.listed THEN s.next + 4
                 ELSE s.next + 1
    BY <1>1 DEF Following, c
  <2>2. c = "tests_dir" <=> s.next = 4
    BY <1>2, CommandsInOrder DEF c
  <2> QED
    BY <1>2, <1>14, <2>1, <2>2
<1>18. /\ t.spoilt \in BOOLEAN
       /\ t.session.exit \in {NoCode, 0} \/ t.spoilt
  BY <1>1, <1>9
<1>19. Sound(t)
  BY <1>1, <1>5, <1>7, <1>11, <1>12, <1>16, <1>17, <1>18 DEF Sound
<1> QED
  BY <1>19 DEF t

LEMMA NewSurveySound == Sound(NewSurvey)
  BY DEF Sound, NewSurvey, NewSession, IsResult, NoResult

LEMMA SurveyKept ==
    ASSUME Sound(survey), [SyncNext]_syncVars
    PROVE  Sound(survey')
<1>1. CASE Command
  BY <1>1, SurveyedSound DEF Command
<1>2. CASE Conclude
  BY <1>2, NewSurveySound DEF Conclude
<1>3. CASE survey' = survey
  BY <1>3
<1> QED
  BY <1>1, <1>2, <1>3
  DEF SyncNext, Boot, Toolbox, Reload, TaskLoaded, Push, RegisterBuiltins,
      SpawnToolbox, SendTask, StartAgent, Handle, AnnounceStep, SendReload,
      Edit, syncVars

-----------------------------------------------------------------------------
(***************************************************************************)
(* The theorems.                                                           *)
(***************************************************************************)
LEMMA SyncInvInit == SyncInit => SyncInv
<1> SUFFICES ASSUME SyncInit  PROVE SyncInv
  OBVIOUS
<1>1. Records
  BY DEF SyncInit, Records, EmptyBox
<1>2. Mail /\ Counted
  <2>1. Len(orchInbox) = 0 /\ Len(boxInbox) = 0 /\ Len(position) = 0
    BY EmptySequence DEF SyncInit
  <2>2. SentByBoot = 0
    BY DEF SyncInit, SentByBoot
  <2> QED
    BY EmptySequence, BoundsAssumption, <2>1, <2>2 DEF SyncInit, Mail, Counted
<1>3. Booting
  BY DEF SyncInit, Booting
<1>4. Shares /\ Seen
  BY EmptySequence DEF SyncInit, Shares, Seen, EmptyBox
<1>5. Registered
  BY EmptySequence DEF SyncInit, Registered
<1>6. UpdatesFresh /\ StepsFresh
  <2>1. LastOf(orchInbox, "UpdateToolbox") = {}
    BY EmptySequence DEF SyncInit, LastOf
  <2> QED
    BY <2>1 DEF SyncInit, UpdatesFresh, StepsFresh, EmptyBox
<1>7. PromptIsCurrent
  BY DEF SyncInit, PromptIsCurrent, regenerate_prompt
<1>8. Sound(survey)
  BY NewSurveySound DEF SyncInit
<1> QED
  BY <1>1, <1>2, <1>3, <1>4, <1>5, <1>6, <1>7, <1>8 DEF SyncInv

LEMMA SyncInvNext == SyncInv /\ [SyncNext]_syncVars => SyncInv'
<1> SUFFICES ASSUME SyncInv, [SyncNext]_syncVars  PROVE SyncInv'
  OBVIOUS
<1> USE DEF SyncInv
<1>1. Records' /\ Mail' /\ Counted' /\ Booting'
  BY RecordsKept, MailKept, CountedKept, BootingKept
<1>2. Shares' /\ Seen' /\ Registered'
  BY SharesKept, SeenKept, RegisteredKept
<1>3. UpdatesFresh' /\ StepsFresh'
  BY UpdatesFreshKept, StepsFreshKept
<1>4. PromptIsCurrent' /\ Sound(survey')
  BY PromptKept, SurveyKept
<1> QED
  BY <1>1, <1>2, <1>3, <1>4

LEMMA SyncInvAlways == SyncSpec => []SyncInv
  BY SyncInvInit, SyncInvNext, PTL DEF SyncSpec

\* ToolboxActor, its survey and the two mailboxes keep their types, and the
\* orchestrator's never holds more than what the boot, the reloads and the
\* steps have put there, for any disks, reloads and bounds.
THEOREM SyncTyped == SyncSpec => []SyncTypeOK
<1>1. SyncInv => SyncTypeOK
  <2> SUFFICES ASSUME SyncInv  PROVE SyncTypeOK
    OBVIOUS
  <2>1. Range(boxInbox) \subseteq {"TaskLoaded"} \cup Reloads
    BY DEF SyncInv, Mail, Range
  <2>2. doing.kind \in {"nothing", "surveying", "UpdateToolbox"}
    BY DEF SyncInv, Shares, Nothing
  <2>3. survey.next \in 1 .. Len(Commands) + 1 /\ survey.result.listed \subseteq Lists
    BY CommandsInOrder DEF SyncInv, Sound
  <2>4. Len(orchInbox) <= 3 + 2 + MaxReloads + MaxSteps
    <3>1. Len(orchInbox) \in Nat /\ Len(boxInbox) \in Nat /\ Len(position) \in Nat
      BY LenProperties DEF SyncInv, Mail, IsSequence
    <3>2. SentByBoot \in 0 .. 5
      BY DEF SyncInv, Booting, SentByBoot
    <3>3. (IF doing = Nothing THEN 0 ELSE 1) \in {0, 1}
      OBVIOUS
    <3> QED
      BY <3>1, <3>2, <3>3, BoundsAssumption DEF SyncInv, Counted
  <2> QED
    BY <2>1, <2>2, <2>3, <2>4 DEF SyncInv, SyncTypeOK, Booting, Registered
<1> QED
  BY <1>1, SyncInvAlways, PTL

\* Every tool the prompt names was in a registry the router has read, and the
\* builtins come with it, whatever is reloaded and in whatever order boot,
\* scans and handlers run.
THEOREM PromptIsTrue == SyncSpec => []PromptNamesWhatIsThere
<1>1. SyncInv => PromptNamesWhatIsThere
  BY DEF SyncInv, PromptNamesWhatIsThere, PromptIsCurrent, regenerate_prompt,
         Seen, Registered
<1> QED
  BY <1>1, SyncInvAlways, PTL

\* When no message is under way the copies of the tools, the skills and the
\* policy agree, and the banner is of the last step announced, for any number
\* of reloads, edits and steps.
THEOREM CopiesAgree == SyncSpec => []QuietCopiesAgree
<1>1. SyncInv => QuietCopiesAgree
  <2> SUFFICES ASSUME SyncInv, Quiet  PROVE
                 /\ shared.tools = box.tools /\ prompt.tools = box.tools
                 /\ shared.policy = box.policy /\ prompt.skills = box.skills
                 /\ position # <<>> =>
                      [name |-> banner.name, index |-> banner.index] = position[Len(position)]
    BY DEF QuietCopiesAgree
  <2>1. NoneOf(orchInbox, "UpdateToolbox") /\ NoneOf(orchInbox, "PlaybookStepChanged")
    BY EmptySequence DEF Quiet, NoneOf
  <2>2. doing.kind # "UpdateToolbox"
    BY DEF Quiet, Nothing
  <2>3. prompt.tools = orch.tools /\ prompt.skills = orch.skills
    BY DEF SyncInv, PromptIsCurrent, regenerate_prompt
  <2> QED
    BY <2>1, <2>2, <2>3 DEF SyncInv, Shares, UpdatesFresh, StepsFresh
<1> QED
  BY <1>1, SyncInvAlways, PTL

\* The survey lists nothing that is not there, denies a list that is there
\* only after a command has left an exit code that is not 0, and counts tests
\* only where it has seen their directory, whatever its commands answer.
THEOREM SurveyIsTrue == SyncSpec => []SurveyDeniesNothing
<1>1. SyncInv => SurveyDeniesNothing
  BY DEF SyncInv, SurveyDeniesNothing, Sound
<1> QED
  BY <1>1, SyncInvAlways, PTL

==============================================================================
