------------------------------ MODULE ContextSync ------------------------------
(***************************************************************************)
(* The copies of what is on the disk: ToolboxActor scans tools, playbooks, *)
(* skills and the shell policy, keeps them, shares them with the other     *)
(* actors (the Arcs of wiring.rs) and pushes them to the orchestrator,     *)
(* which writes the system prompt and the banner of the step               *)
(* (crates/actors/src/toolbox.rs, orchestrator.rs, cli/src/wiring.rs).     *)
(*                                                                         *)
(* Two actors send to the orchestrator: ToolboxActor and TaskActor.  The   *)
(* main task boots them, waits 100 ms, and reads the prompt once.          *)
(***************************************************************************)
EXTENDS Preflight, Functions

CONSTANTS
    Disks,    \* what the disk may hold
    Op,       \* the type of the task at boot
    Reloads,  \* the reloads ToolboxActor may be sent
    Evals,    \* how a command of the survey may come out
    Values,   \* the numbers it may print
    Derives,  \* the derives it may find
    MaxEdits, MaxReloads, MaxSteps \* bounds, for model checking

\* The bounds are numbers.
ASSUME BoundsAssumption ==
    MaxEdits \in Nat /\ MaxReloads \in Nat /\ MaxSteps \in Nat

VARIABLES
    disk, edits,
    boot,       \* how far the boot has come
    box,        \* ToolboxActor's state
    boxInbox,   \* its mailbox
    doing,      \* what its handler is at: idle, surveying, or an update to push
    survey,     \* the survey's state
    reloads,    \* the reloads sent
    shared,     \* the Arcs of tools, playbooks and policy
    orchInbox,  \* the orchestrator's mailbox
    orch,       \* its state
    prompt,     \* system_prompt
    banner,     \* step_banner_text
    position,   \* the steps TaskActor has announced
    published   \* history: the registries the router has read from

syncVars == <<disk, edits, boot, box, boxInbox, doing, survey, reloads, shared, orchInbox,
              orch, prompt, banner, position, published>>

Nothing == [kind |-> "nothing"]
Builtins == {"shell-actor", "file-actor", "search-actor"}

-----------------------------------------------------------------------------
(***************************************************************************)
(* Scanning.                                                               *)
(***************************************************************************)
\* scan_tools: each .nu file in a directory of tools/, but for the playbooks
\* and the interfaces.
scan_tools(d) ==
    {<<file.namespace, file.name>> :
        file \in {f \in d.tools : /\ f.namespace # "playbooks"
                                  /\ f.name # "interfaces"
                                  /\ f.extension = "nu"}}

\* parse_step_value: the index is that of the record in the file, of which
\* those without a name are left out.
parse_step_value(value, i) ==
    [name |-> value.name, index |-> i - 1, approved |-> value.approved,
     automated |-> value.name = "survey"]

\* parse_playbook_file.
parse_playbook_file(file) ==
    LET Named(i) == file.steps[i].name # "none"
        all      == [i \in DOMAIN file.steps |-> parse_step_value(file.steps[i], i)]
    IN  [steps |-> SelectSeq(all, LAMBDA s : Named(s.index + 1)), global |-> file.global]

\* scan_playbooks: a file that is no record is skipped.
scan_playbooks(d) ==
    [op \in {o \in DOMAIN d.playbooks : d.playbooks[o].record} |->
        parse_playbook_file(d.playbooks[op])]

Scanned(d) == [tools |-> scan_tools(d), playbooks |-> scan_playbooks(d),
               skills |-> d.skills, policy |-> d.policy]

\* first_non_automated_step, as a set of at most one.
first_non_automated_step(playbook) ==
    {playbook.steps[i] : i \in {i \in DOMAIN playbook.steps :
        /\ ~playbook.steps[i].automated
        /\ \A j \in 1 .. i - 1 : playbook.steps[j].automated}}

Globals(playbooks) == UNION {playbooks[op].global : op \in DOMAIN playbooks}

\* ToolboxUpdate
Update(b, preflight, steps) ==
    [kind |-> "UpdateToolbox", box |-> b, preflight |-> preflight, steps |-> steps]

-----------------------------------------------------------------------------
(***************************************************************************)
(* ToolboxActor.                                                           *)
(***************************************************************************)
\* Mutant: the registry the router reads is forgotten, as the playbooks are.
SharePolicy(b, fields) ==
    [f \in DOMAIN shared |-> IF f \in fields \cap {"policy"} THEN b[f] ELSE shared[f]]

\* A reload shares the tools and the policy it has read anew, not the
\* playbooks.
Share(b, fields) ==
    [f \in DOMAIN shared |-> IF f \in fields \cap {"tools", "policy"} THEN b[f] ELSE shared[f]]

\* What each reload reads anew.
Fields == [ReloadAll |-> {"tools", "playbooks", "skills"}, ReloadTools |-> {"tools", "playbooks"},
           ReloadSkills |-> {"skills"}, ReloadPolicy |-> {"policy"}]

\* A reload, up to its push.
Reload ==
    /\ doing = Nothing
    /\ boxInbox # <<>>
    /\ Head(boxInbox) \in DOMAIN Fields
    /\ box' = [field \in DOMAIN box |-> IF field \in Fields[Head(boxInbox)]
                                        THEN Scanned(disk)[field] ELSE box[field]]
    /\ shared' = Share(box', Fields[Head(boxInbox)])
    /\ published' = published \cup {shared'.tools}
    /\ doing' = Update(box', {}, {})
    /\ boxInbox' = Tail(boxInbox)
    /\ UNCHANGED <<disk, edits, boot, survey, reloads, orchInbox, orch, prompt, banner, position>>

\* TaskLoaded: the survey begins, or an update without one is pushed.
TaskLoaded ==
    /\ doing = Nothing
    /\ boxInbox # <<>>
    /\ Head(boxInbox) = "TaskLoaded"
    /\ doing' = IF Op \in DOMAIN box.playbooks THEN [kind |-> "surveying"]
                ELSE Update(box, {}, {})
    /\ boxInbox' = Tail(boxInbox)
    /\ UNCHANGED <<disk, edits, boot, box, survey, reloads, shared, orchInbox, orch, prompt,
                   banner, position, published>>

\* run_preflight, one command.
Command ==
    /\ doing.kind = "surveying"
    /\ ~SurveyDone(survey)
    /\ \E eval \in Evals, value \in Values, derives \in Derives :
              survey' = Surveyed(survey, eval, value, derives)
    /\ UNCHANGED <<disk, edits, boot, box, boxInbox, doing, reloads, shared, orchInbox, orch,
                   prompt, banner, position, published>>

\* The survey has come to its result.
Conclude ==
    /\ doing.kind = "surveying"
    /\ SurveyDone(survey)
    /\ doing' = Update(box, {Result(survey)}, first_non_automated_step(box.playbooks[Op]))
    /\ survey' = NewSurvey
    /\ UNCHANGED <<disk, edits, boot, box, boxInbox, reloads, shared, orchInbox, orch,
                   prompt, banner, position, published>>

\* Mutant: a survey that finds the crate broken is not pushed.
PushUnlessBlocked ==
    /\ doing.kind = "UpdateToolbox"
    /\ orchInbox' = IF \E result \in doing.preflight : result.blocking THEN orchInbox
                    ELSE Append(orchInbox, doing)
    /\ doing' = Nothing
    /\ UNCHANGED <<disk, edits, boot, box, boxInbox, survey, reloads, shared, orch, prompt,
                   banner, position, published>>

\* push_update.
Push ==
    /\ doing.kind = "UpdateToolbox"
    /\ orchInbox' = Append(orchInbox, doing)
    /\ doing' = Nothing
    /\ UNCHANGED <<disk, edits, boot, box, boxInbox, survey, reloads, shared, orch, prompt,
                   banner, position, published>>

-----------------------------------------------------------------------------
(***************************************************************************)
(* The orchestrator.                                                       *)
(***************************************************************************)
\* render_ooda_section: nothing without a step.  The survey's questions, and
\* the approved tools of the step, come with it.
render_ooda_section(preflight, steps) == [survey |-> IF steps = {} THEN {} ELSE preflight,
                                          steps |-> steps]

\* regenerate_prompt.  The shell policy's section is rendered and not used.
regenerate_prompt(state) ==
    [caps |-> state.caps, skills |-> state.skills, tools |-> state.tools, ooda |-> state.ooda]

\* RegisterCapability.
Register(message) ==
    /\ message.kind = "RegisterCapability"
    /\ orch' = [orch EXCEPT !.caps = @ \cup {message.actor}]
    /\ UNCHANGED banner

\* The number of steps is that of some playbook: the first of a HashMap.
TotalSteps(playbooks) ==
    IF DOMAIN playbooks = {} THEN {0} ELSE {Len(playbooks[op].steps) : op \in DOMAIN playbooks}

\* UpdateToolbox.  An update without a step leaves the tools of the banner.
\* (What it does to the checker's context is AgentPipeline's Preflight.)
UpdateToolbox(message) ==
    /\ message.kind = "UpdateToolbox"
    /\ \E total \in TotalSteps(message.box.playbooks) :
          orch' = [orch EXCEPT
                     !.skills   = message.box.skills,
                     !.tools    = message.box.tools,
                     !.ooda     = render_ooda_section(message.preflight, message.steps),
                     !.total    = total,
                     !.approved = IF message.steps = {} THEN @
                                  ELSE UNION {s.approved : s \in message.steps},
                     !.globals  = IF message.steps = {} THEN @
                                  ELSE Globals(message.box.playbooks)]
    /\ UNCHANGED banner

\* PlaybookStepChanged: the banner is drawn with the tools at hand.
StepChanged(message) ==
    /\ message.kind = "PlaybookStepChanged"
    /\ banner' = [name |-> message.step, index |-> message.index, total |-> orch.total,
                  approved |-> orch.approved, globals |-> orch.globals]
    /\ orch' = orch

\* handle: every message ends with a new prompt.
Handle ==
    /\ orchInbox # <<>>
    /\ LET message == Head(orchInbox)
       IN  Register(message) \/ UpdateToolbox(message) \/ StepChanged(message)
    /\ prompt' = regenerate_prompt(orch')
    /\ orchInbox' = Tail(orchInbox)
    /\ UNCHANGED <<disk, edits, boot, box, boxInbox, doing, survey, reloads, shared, position, published>>

-----------------------------------------------------------------------------
(***************************************************************************)
(* The boot (build_actor_system), TaskActor's steps, and the disk.         *)
(***************************************************************************)
\* Mutant: the builtins are registered last.
RegisterBuiltinsLate ==
    /\ boot = "orchestrator"
    /\ boot' = "builtins"
    /\ UNCHANGED <<disk, edits, box, boxInbox, doing, survey, reloads, shared, orchInbox, orch,
                   prompt, banner, position, published>>

\* register_builtins casts three messages.
RegisterBuiltins ==
    /\ boot = "orchestrator"
    /\ boot' = "builtins"
    /\ orchInbox' = [i \in 1 .. 3 |->
          [kind |-> "RegisterCapability",
           actor |-> <<"shell-actor", "file-actor", "search-actor">>[i]]]
    /\ UNCHANGED <<disk, edits, box, boxInbox, doing, survey, reloads, shared, orch, prompt,
                   banner, position, published>>

\* ToolboxActor's pre_start, which the spawn awaits: everything is scanned,
\* shared and pushed.
SpawnToolbox ==
    /\ boot = "builtins"
    /\ boot' = "toolbox"
    /\ box' = Scanned(disk)
    /\ shared' = [f \in DOMAIN shared |-> box'[f]]
    /\ published' = published \cup {shared'.tools}
    /\ orchInbox' = Append(orchInbox, Update(box', {}, {}))
    /\ UNCHANGED <<disk, edits, boxInbox, doing, survey, reloads, orch, prompt, banner, position>>

\* The task loaded at boot is sent to ToolboxActor.
SendTask ==
    /\ boot = "toolbox"
    /\ boot' = "sleeping"
    /\ boxInbox' = Append(boxInbox, "TaskLoaded")
    /\ UNCHANGED <<disk, edits, box, doing, survey, reloads, shared, orchInbox, orch, prompt,
                   banner, position, published>>

\* After its 100 ms, whatever the others have done in them, the main task
\* starts the agent.  It reads the prompt here and never again.
StartAgent ==
    /\ boot = "sleeping"
    /\ boot' = "agent"
    /\ UNCHANGED <<disk, edits, box, boxInbox, doing, survey, reloads, shared, orchInbox, orch,
                   prompt, banner, position, published>>

\* notify_step_change, for a step of the playbook.
AnnounceStep(index) ==
    /\ boot = "agent"
    /\ Len(position) < MaxSteps
    /\ Op \in DOMAIN shared.playbooks
    /\ LET steps == shared.playbooks[Op].steps
       IN  /\ index \in 1 .. Len(steps)
           /\ position' = Append(position, [name |-> steps[index].name, index |-> index - 1])
           /\ orchInbox' = Append(orchInbox, [kind |-> "PlaybookStepChanged",
                                              step |-> steps[index].name, index |-> index - 1])
    /\ UNCHANGED <<disk, edits, boot, box, boxInbox, doing, survey, reloads, shared, orch,
                   prompt, banner, published>>

\* A reload is sent (by no code of the repository yet).
SendReload(message) ==
    /\ boot = "agent"
    /\ reloads < MaxReloads
    /\ reloads' = reloads + 1
    /\ boxInbox' = Append(boxInbox, message)
    /\ UNCHANGED <<disk, edits, boot, box, doing, survey, shared, orchInbox, orch, prompt,
                   banner, position, published>>

\* Somebody changes what is on the disk.
Edit(d) ==
    /\ edits < MaxEdits
    /\ edits' = edits + 1
    /\ disk' = d
    /\ UNCHANGED <<boot, box, boxInbox, doing, survey, reloads, shared, orchInbox, orch, prompt,
                   banner, position, published>>

-----------------------------------------------------------------------------
EmptyBox == [tools |-> {}, playbooks |-> [op \in {} |-> {}], skills |-> "none", policy |-> "none"]
NoOoda   == render_ooda_section({}, {})

SyncInit ==
    /\ disk \in Disks
    /\ edits = 0
    /\ boot = "orchestrator"
    /\ box = EmptyBox
    /\ boxInbox = <<>>
    /\ doing = Nothing
    /\ survey = NewSurvey
    /\ reloads = 0
    /\ shared = [f \in {"tools", "playbooks", "policy"} |-> EmptyBox[f]]
    /\ orchInbox = <<>>
    /\ orch = [caps |-> {}, skills |-> "none", tools |-> {}, ooda |-> NoOoda, total |-> 0,
               approved |-> {}, globals |-> {}]
    /\ prompt = [caps |-> {}, skills |-> "none", tools |-> {}, ooda |-> NoOoda]
    /\ banner = [name |-> "none", index |-> 0, total |-> 0, approved |-> {}, globals |-> {}]
    /\ position = <<>>
    /\ published = {{}}

Toolbox == Reload \/ TaskLoaded \/ Command \/ Conclude \/ Push
Boot    == RegisterBuiltins \/ SpawnToolbox \/ SendTask \/ StartAgent

SyncNext ==
    \/ Boot \/ Toolbox \/ Handle
    \/ \E index \in 1 .. 3 : AnnounceStep(index)
    \/ \E message \in Reloads : SendReload(message)
    \/ \E d \in Disks \ {disk} : Edit(d)

\* The runtime schedules the actors and the main task; each command of the
\* survey ends.
SyncSpec ==
    /\ SyncInit /\ [][SyncNext]_syncVars
    /\ WF_syncVars(Boot) /\ WF_syncVars(Toolbox) /\ WF_syncVars(Handle)

-----------------------------------------------------------------------------
(***************************************************************************)
(* Properties.                                                             *)
(***************************************************************************)
SyncTypeOK ==
    /\ boot \in {"orchestrator", "builtins", "toolbox", "sleeping", "agent"}
    /\ Range(boxInbox) \subseteq {"TaskLoaded"} \cup Reloads
    /\ doing.kind \in {"nothing", "surveying", "UpdateToolbox"}
    /\ survey.next \in 1 .. Len(Commands) + 1
    /\ survey.result.listed \subseteq Lists
    /\ orch.caps \subseteq Builtins
    /\ Len(orchInbox) <= 3 + 2 + MaxReloads + MaxSteps

\* Nobody has anything to do.
Quiet == boxInbox = <<>> /\ doing = Nothing /\ orchInbox = <<>>

\* The prompt names what is there: a tool in it is one the router has known, as
\* the registry is shared before it is pushed, and with the tools come the
\* builtins, which are registered before anything is scanned.
PromptNamesWhatIsThere ==
    /\ prompt.tools \in published
    /\ prompt.tools # {} => prompt.caps = Builtins

\* When nothing is under way the copies of the tools agree, those of the policy
\* and of the skills do, and the banner is that of the last step TaskActor has
\* announced, however the scans, the reloads and the handlers were interleaved.
QuietCopiesAgree ==
    Quiet => /\ shared.tools = box.tools
             /\ prompt.tools = box.tools
             /\ shared.policy = box.policy
             /\ prompt.skills = box.skills
             /\ position # <<>> =>
                    [name |-> banner.name, index |-> banner.index] = position[Len(position)]

\* What the survey says is there is there, and a list that is there is denied
\* only when a command before it has left an exit code that is not 0; the
\* tests of a crate are counted only when it has a directory of them.
SurveyDeniesNothing ==
    /\ survey.result.listed \subseteq survey.exists
    /\ survey.exists \ survey.result.listed \subseteq survey.doubtful
    /\ survey.result.existing_test_count # 0 \/ survey.result.listed \cap TestCommands # {} =>
          "tests_dir" \in survey.result.listed

\* The survey reaches the prompt, with the step it is for, unless a reload is
\* sent or there is no playbook.
SurveyReachesPrompt ==
    boot = "sleeping" ~>
        \/ reloads > 0
        \/ Op \notin DOMAIN box.playbooks
        \/ /\ prompt.ooda.survey # {}
           /\ prompt.ooda.steps = first_non_automated_step(box.playbooks[Op])
        \/ first_non_automated_step(box.playbooks[Op]) = {}
=============================================================================
