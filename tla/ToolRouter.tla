------------------------------ MODULE ToolRouter ------------------------------
(***************************************************************************)
(* ToolRouterActor (crates/actors/src/tool_router.rs) between the agent    *)
(* loop, which waits for a reply only so long, and the session's thread,   *)
(* which may end or never come back; with the files the calls work on.     *)
(*                                                                         *)
(* Two files are told apart: the one of a path in the directory the        *)
(* program was launched in, and the one of the same path in the workspace. *)
(* A relative path means either, by the directory of the process, which a  *)
(* tool moves to the workspace.                                            *)
(***************************************************************************)
EXTENDS ArgNormalizer, FileSearch, ShellSession, FiniteSets

CONSTANTS Calls,    \* the calls the agent may make
          Scripts,  \* what the script of each tool defines
          Letters,  \* the letters of a text
          InitialFiles, \* what the two files may be at first
          Readable, \* the tools whose script can be read
          Allowed,  \* the leading words the shell policy lets through
          Parts,    \* the parts of a line of rg, Numbers among them
          Findings, \* what rg may find
          Codes,    \* the exit codes an evaluation may set
          MaxCalls  \* bound on the calls, for model checking

VARIABLES
    mailbox,  \* the router's mailbox
    serving,  \* the call the router awaits the session for
    reply,    \* what the session's thread has answered to it
    thread,   \* the session's thread: ready, hung or gone
    session,  \* its state
    cwd,      \* the directory of the process
    files,    \* the two files
    trace,    \* history: the events the router has sent
    waiting,  \* the agent waits for the reply to this call
    answered, \* history: the replies, with the file before and after
    ran       \* history: the evaluation of the last run in the session

routerVars == <<mailbox, serving, reply, thread, session, cwd, files, trace, waiting, answered,
                ran>>

\* What the calls bring, by their type.  The arguments are an object, whose
\* keys differ.
ASSUME CallsAssumption ==
    /\ MaxCalls \in Nat
    /\ \A call \in Calls :
          \/ call.type \in {"read", "shell"}
          \/ call.type = "search" /\ call.in_directory \in BOOLEAN
          \/ call.type = "write" /\ call.content \in Seq(Letters)
          \/ call.type = "edit" /\ {call.old, call.new} \subseteq Seq(Letters)
          \/ /\ call.type = "nushell_tool"
             /\ Len(call.args) \in Nat
             /\ DOMAIN call.args = 1 .. Len(call.args)
             /\ Keys(call.args) \subseteq DOMAIN Kebab
             /\ \A i, j \in DOMAIN call.args :
                   call.args[i][1] = call.args[j][1] => i = j

ASSUME FilesAssumption ==
    InitialFiles \subseteq [kind : {"text", "missing", "binary"}, text : Seq(Letters)]

\* What rg has found has a path and a text, if an empty one.
ASSUME FindingsAssumption ==
    /\ Numbers \subseteq Parts
    /\ \A hits \in Findings :
          hits \subseteq [path : Seq(Parts) \ {<<>>}, line : Numbers, column : Numbers,
                         content : Seq(Parts) \ {<<>>}]

NoRequest == [id |-> 0]
NoReply   == Observed("none", NoCode, <<>>)
Dirs      == {"launch", "workspace"}

sent == Len(answered) + Len(mailbox) + (IF serving = NoRequest THEN 0 ELSE 1)

-----------------------------------------------------------------------------
(***************************************************************************)
(* The agent and its calls.                                                *)
(***************************************************************************)
\* The agent's call comes through the normaliser.
Send(call) ==
    /\ waiting = 0
    /\ sent < MaxCalls
    /\ waiting' = sent + 1
    /\ mailbox' = Append(mailbox,
                     [id |-> sent + 1, call |-> call,
                      args |-> IF call.type = "nushell_tool"
                               THEN normalize(call.tool, call.args) ELSE AsMap(<<>>)])
    /\ UNCHANGED <<serving, reply, thread, session, cwd, files, trace, answered, ran>>

\* After 30 seconds the agent goes on; its call stays where it is.
GiveUp ==
    /\ waiting # 0
    /\ waiting' = 0
    /\ UNCHANGED <<mailbox, serving, reply, thread, session, cwd, files, trace, answered, ran>>

Event(kind, request, code) ==
    [kind |-> kind, id |-> request.id, code |-> code, flags |-> args_to_flags(request.args)]

\* The reply; nobody may be there any more to take it.
Answer(request, obs, was, now) ==
    /\ answered' = Append(answered, [id |-> request.id, call |-> request.call, obs |-> obs,
                                     was |-> was, now |-> now])
    /\ waiting' = IF waiting = request.id THEN 0 ELSE waiting

-----------------------------------------------------------------------------
(***************************************************************************)
(* dispatch.                                                               *)
(***************************************************************************)
\* The file a path means.
Dir(call) == IF call.path = "absolute" THEN "workspace" ELSE cwd

\* Read, write and edit are done in the handler.
FileCall(file, call) ==
    CASE call.type = "read"  -> {[file |-> file, obs |-> read_file(file)]}
      [] call.type = "write" -> {write_file(file, call.content, end) : end \in WriteEnds}
      [] call.type = "edit"  -> {edit_file(file, call.old, call.new, end) : end \in WriteEnds}

FileEvent == [read |-> "FileRead", write |-> "FileWritten", edit |-> "FileEdited"]

DispatchFile ==
    /\ serving = NoRequest
    /\ mailbox # <<>>
    /\ LET request == Head(mailbox)
           call    == request.call
       IN  /\ call.type \in DOMAIN FileEvent
           /\ \E result \in FileCall(files[Dir(call)], call) :
                  /\ files' = [files EXCEPT ![Dir(call)] = result.file]
                  /\ trace' = IF result.obs.kind = "Error" THEN trace
                              ELSE Append(trace, Event(FileEvent[call.type], request, NoCode))
                  /\ Answer(request, result.obs, files[Dir(call)], result.file)
    /\ mailbox' = Tail(mailbox)
    /\ UNCHANGED <<serving, reply, thread, session, cwd, ran>>

\* A search runs rg, which may fail; the reply's text is what rg found and the
\* matches that are made of it.
DispatchSearch ==
    /\ serving = NoRequest
    /\ mailbox # <<>>
    /\ LET request == Head(mailbox)
       IN  /\ request.call.type = "search"
           /\ \/ Answer(request, Failed(NoCode), Missing, Missing)
              \/ \E hits \in Findings :
                     Answer(request,
                            Observed("SearchResults", NoCode,
                                     <<hits, search(hits, request.call.in_directory)>>),
                            Missing, Missing)
    /\ mailbox' = Tail(mailbox)
    /\ UNCHANGED <<serving, reply, thread, session, cwd, files, trace, ran>>

\* ShellPolicy.check: the leading word, and no operator of bash.
check(command) ==
    \/ command.word = ""
    \/ command.word \in Allowed /\ ~command.compound

\* The request goes to the session's thread, or fails as the thread is gone.
Ask(request) ==
    /\ serving' = request
    /\ reply' = IF thread = "gone" THEN Observed("Err", 1, <<>>) ELSE NoReply

\* A command of the shell: announced, then refused or asked for.
DispatchShell ==
    /\ serving = NoRequest
    /\ mailbox # <<>>
    /\ LET request == Head(mailbox)
       IN  /\ request.call.type = "shell"
           /\ trace' = Append(trace, Event("Started", request, NoCode))
           /\ \/ /\ ~check(request.call.command)
                 /\ Answer(request, Failed(126), Missing, Missing)
                 /\ UNCHANGED <<serving, reply>>
              \/ /\ check(request.call.command)
                 /\ Ask(request)
                 /\ UNCHANGED <<waiting, answered>>
    /\ mailbox' = Tail(mailbox)
    /\ UNCHANGED <<thread, session, cwd, files, ran>>

\* dispatch_nushell_tool: what the tool does not know of is an error at once.
KnownFlags(request) ==
    /\ request.call.tool \in DOMAIN Registry
    /\ \A key \in DOMAIN request.args : Kebab[key] \in DOMAIN Registry[request.call.tool]

DispatchTool ==
    /\ serving = NoRequest
    /\ mailbox # <<>>
    /\ LET request == Head(mailbox)
       IN  /\ request.call.type = "nushell_tool"
           /\ \/ /\ ~KnownFlags(request)
                 /\ Answer(request, Failed(1), Missing, Missing)
                 /\ UNCHANGED <<serving, reply, trace>>
              \/ /\ KnownFlags(request)
                 /\ trace' = Append(trace, Event("Started", request, NoCode))
                 /\ Ask(request)
                 /\ UNCHANGED <<waiting, answered>>
    /\ mailbox' = Tail(mailbox)
    /\ UNCHANGED <<thread, session, cwd, files, ran>>

-----------------------------------------------------------------------------
(***************************************************************************)
(* The session's thread.                                                   *)
(***************************************************************************)
Asked == serving # NoRequest /\ reply = NoReply

\* A tool whose script cannot be read moves nothing.
RunOf(call, eval) ==
    CASE call.type = "shell" -> run_command(session, call.command.defines, eval)
      [] call.type = "nushell_tool" /\ call.tool \in Readable ->
            run_tool(session, Scripts[call.tool], eval)
      [] OTHER -> [session |-> session, obs |-> Failed(1)]

\* Mutant: the process is moved to the tool's script.
CwdAfterScript(call) ==
    IF call.type = "nushell_tool" /\ call.tool \in Readable THEN "tools" ELSE cwd

\* call_tool takes the whole process to the workspace.
CwdAfter(call) ==
    IF call.type = "nushell_tool" /\ call.tool \in Readable THEN "workspace" ELSE cwd

\* session_thread runs the command or the tool to its end.
Serve(eval) ==
    /\ thread = "ready"
    /\ Asked
    /\ session' = RunOf(serving.call, eval).session
    /\ reply' = RunOf(serving.call, eval).obs
    /\ cwd' = CwdAfter(serving.call)
    /\ ran' = eval
    /\ UNCHANGED <<mailbox, serving, thread, files, trace, waiting, answered>>

\* A command need not end; nothing stops it.
Hang ==
    /\ thread = "ready"
    /\ Asked
    /\ thread' = "hung"
    /\ UNCHANGED <<mailbox, serving, reply, session, cwd, files, trace, waiting, answered, ran>>

\* Mutant: the reply channel outlives the thread.
DieSilently ==
    /\ thread = "ready"
    /\ thread' = "gone"
    /\ UNCHANGED <<mailbox, serving, reply, session, cwd, files, trace, waiting, answered, ran>>

\* A panic ends the thread, and with it the channel of a reply.
Die ==
    /\ thread = "ready"
    /\ thread' = "gone"
    /\ reply' = IF Asked THEN Observed("Err", 1, <<>>) ELSE reply
    /\ UNCHANGED <<mailbox, serving, session, cwd, files, trace, waiting, answered, ran>>

\* The rest of the handler, once the session has answered.
Finish ==
    /\ serving # NoRequest
    /\ reply # NoReply
    /\ trace' = CASE reply.kind = "Structured" ->
                       Append(trace, Event("Completed", serving, reply.code))
                  [] reply.kind = "Err" -> Append(trace, Event("Failed", serving, 1))
                  [] OTHER -> trace
    /\ Answer(serving, IF reply.kind = "Err" THEN Failed(1) ELSE reply, Missing, Missing)
    /\ serving' = NoRequest
    /\ reply' = NoReply
    /\ UNCHANGED <<mailbox, thread, session, cwd, files, ran>>

-----------------------------------------------------------------------------
RouterInit ==
    /\ mailbox = <<>>
    /\ serving = NoRequest
    /\ reply = NoReply
    /\ thread = "ready"
    /\ session = NewSession
    /\ cwd = "launch"
    /\ files \in [Dirs -> InitialFiles]
    /\ trace = <<>>
    /\ waiting = 0
    /\ answered = <<>>
    /\ ran = [end |-> "none", exit |-> NoCode]

Dispatch == DispatchFile \/ DispatchSearch \/ DispatchShell \/ DispatchTool

RouterNext ==
    \/ \E call \in Calls : Send(call)
    \/ GiveUp
    \/ Dispatch
    \/ \E eval \in Evaluations(Codes) : Serve(eval)
    \/ Hang
    \/ Die
    \/ Finish

\* The runtime schedules the router, and the system the session's thread.
RouterSpec ==
    /\ RouterInit /\ [][RouterNext]_routerVars
    /\ WF_routerVars(Dispatch \/ Finish)
    /\ WF_routerVars(\E eval \in Evaluations(Codes) : Serve(eval))

-----------------------------------------------------------------------------
(***************************************************************************)
(* Properties.                                                             *)
(***************************************************************************)
RouterTypeOK ==
    /\ Len(mailbox) <= MaxCalls
    /\ serving # NoRequest => serving.call.type \in {"shell", "nushell_tool"}
    /\ reply.kind \in {"none", "Structured", "Error", "Err"}
    /\ thread \in {"ready", "hung", "gone"}
    /\ session.exit \in Codes \cup {NoCode}
    /\ cwd \in Dirs
    /\ waiting \in 0 .. MaxCalls
    /\ \A i \in DOMAIN answered : answered[i].id = i

\* The calls the router has begun, by their number.
Begun == {[id |-> answered[i].id, call |-> answered[i].call] : i \in DOMAIN answered} \cup
         {[id |-> serving.id, call |-> serving.call] : r \in {serving} \ {NoRequest}}

CallOf(id) == (CHOOSE b \in Begun : b.id = id).call

\* What one call leaves in the session does not reach the next: a tool's exit
\* code is that of its own run, or 0, and what is defined was defined by
\* commands, never by a tool, whichever way it ended.
ToolsAreIsolated ==
    /\ serving # NoRequest /\ serving.call.type = "nushell_tool" /\ reply.kind = "Structured" =>
           reply.code = IF ran.exit = NoCode THEN 0 ELSE ran.exit
    /\ session.defs \subseteq UNION {b.call.command.defines :
                                         b \in {c \in Begun : c.call.type = "shell"}}

\* A value as it reaches the tool: on a switch the texts of the booleans are
\* booleans, and any other text stays one.
Taken(tool, flag, value) ==
    IF Registry[tool][flag] \in {"bool", "switch"} /\ value \in DOMAIN BoolTexts
    THEN BoolTexts[value] ELSE value

\* A tool is run with flags it declares, each at most once, each with a value
\* the model gave under that name or with underscores, as it stands, unless it
\* is the text of a boolean on a switch.
FlagsReachTheTool ==
    \A i \in DOMAIN trace :
        LET call  == CallOf(trace[i].id)
            flags == trace[i].flags
        IN  \A f \in flags :
                /\ f[1] \in DOMAIN Registry[call.tool]
                /\ \A other \in flags : other[1] = f[1] => other[2] = f[2]
                /\ \E entry \in Range(call.args) :
                      Kebab[entry[1]] = f[1] /\ f[2] = Taken(call.tool, f[1], entry[2])

\* A successful edit has changed the one place it can have meant: no two
\* places of the old text are apart.
EditIsUnambiguous ==
    \A i \in DOMAIN answered :
        LET a == answered[i]
            places == Occurrences(a.was.text, a.call.old)
        IN  a.call.type = "edit" /\ a.obs.kind = "FileWritten" =>
                /\ \A p, q \in places : p < q => q < p + Len(a.call.old)
                /\ \E p \in places :
                      a.now = Text(SubSeq(a.was.text, 1, p - 1) \o a.call.new \o
                                   SubSeq(a.was.text, p + Len(a.call.old), Len(a.was.text)))

\* No match is made up or cut: read with its path in front, it is a line of
\* rg.  A search of a directory gives each hit whose path has no colon as it
\* was found, whatever colons and numbers its text has, and nothing else if
\* all paths are such.
SearchLosesNothing ==
    \A i \in DOMAIN answered :
        LET a       == answered[i]
            hits    == a.obs.text[1]
            matches == a.obs.text[2]
        IN  a.obs.kind = "SearchResults" =>
                /\ \A match \in matches : \E hit \in hits :
                      rg_line(match, TRUE) = rg_line(hit, a.call.in_directory)
                /\ a.call.in_directory =>
                      \A hit \in hits : Len(hit.path) = 1 => hit \in matches
                /\ a.call.in_directory /\ (\A hit \in hits : Len(hit.path) = 1) =>
                      matches \subseteq hits

\* Every call is answered, also when the session's thread is gone, unless the
\* thread is held by a command that does not end.
AnsweredUnlessHung ==
    (mailbox # <<>> \/ serving # NoRequest) ~>
        (mailbox = <<>> /\ serving = NoRequest) \/ thread = "hung"

=============================================================================
