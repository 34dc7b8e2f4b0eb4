------------------------------ MODULE MCAgentRun ------------------------------
(***************************************************************************)
(* The texts: every sequence of up to MaxLen marks over the delimiters and *)
(* one letter, and every choice of three pieces of what models write.      *)
(***************************************************************************)
EXTENDS AgentRun

CONSTANT MaxLen

Fields(type, namespace, names) ==
    [type |-> type, namespace |-> namespace, fields |-> names \cup {"type"}]

\* r reads a file, n names a tool, m sends a read to a tool of that name, w
\* does so with the path among the arguments, s submits a result, p is no
\* call.
MCContent ==
    [r |-> Fields("read", "none", {"path"}),
     n |-> Fields("nushell_tool", "compile", {"namespace", "tool", "args"}),
     m |-> Fields("nushell_tool", "read", {"namespace", "tool", "path"}),
     w |-> Fields("nushell_tool", "read", {"namespace", "tool", "args"}),
     s |-> Fields("submit", "none", {"result"}),
     p |-> Fields("none", "none", {"path"})]

MCRequired ==
    [shell |-> {"command"}, edit |-> {"path", "old", "new"}, write |-> {"path", "content"},
     read |-> {"path"}, search |-> {"query"}, nushell_tool |-> {"namespace", "tool"},
     submit |-> {"output"}]

Object(letter) == <<OpenBrace, letter, CloseBrace>>

Pieces ==
    {Object(letter) : letter \in {"r", "n", "m", "w", "s", "p"}} \cup
    {<<>>, <<OpenBrace>>, <<CloseBrace>>, <<Quote>>, <<"p">>,
     <<OpenBrace, "n", Quote, Backslash, Quote, CloseBrace, Quote, CloseBrace>>,
     <<OpenBrace, "n", OpenBrace, "r", CloseBrace, CloseBrace>>}

MCTexts ==
    {a \o b \o c : a, b, c \in Pieces} \cup
    UNION {[1 .. n -> {OpenBrace, CloseBrace, Quote, Backslash, "r"}] : n \in 1 .. MaxLen}
=============================================================================
