----------------------------- MODULE MCToolRouter -----------------------------
(***************************************************************************)
(* Calls of every kind, chosen so that each turns out in each of its ways. *)
(***************************************************************************)
EXTENDS ToolRouter

\* compile takes a switch, a number, and a text that is "fast" by default.
MCDeclared ==
    [compile |-> [dry   |-> [type |-> "none", default |-> FALSE],
                  level |-> [type |-> "int", default |-> TRUE],
                  mode  |-> [type |-> "none", default |-> TRUE]],
     broken  |-> [level |-> [type |-> "int", default |-> FALSE]]]

\* dry_ is dry with an underscore for its dash.
MCKebab ==
    [key \in {"dry", "level", "mode", "none"} |-> key] @@ [dry_ |-> "dry", level_ |-> "level"]

Tool(tool, args) == [type |-> "nushell_tool", tool |-> tool, args |-> args]

Shell(word, compound, defines) ==
    [type |-> "shell", command |-> [word |-> word, compound |-> compound, defines |-> defines]]

MCCalls ==
    {Tool("compile", args) :
        args \in {<<>>, <<<<"dry_", "true">>>>, <<<<"dry_", "true">>, <<"dry", "off">>>>,
                  <<<<"dry", "false">>, <<"dry_", "on">>, <<"level_", "3">>>>,
                  <<<<"mode", "true">>, <<"dry_", "null">>>>, <<<<"dry_", "maybe">>>>,
                  <<<<"none", "3">>>>}} \cup
    {Tool("broken", <<>>), Tool("unknown", <<<<"dry_", "true">>>>)} \cup
    {Shell("ls", FALSE, {"f"}), Shell("ls", TRUE, {}), Shell("rm", FALSE, {})} \cup
    {[type |-> "read", path |-> "relative"]} \cup
    {[type |-> "write", path |-> p, content |-> <<"a", "b">>] : p \in {"relative", "absolute"}} \cup
    {[type |-> "edit", path |-> "relative", old |-> old, new |-> <<"b">>] :
        old \in {<<>>, <<"a">>, <<"a", "a">>}} \cup
    {[type |-> "search", in_directory |-> d] : d \in BOOLEAN}

MCScripts == [compile |-> {"main"}, broken |-> {"main"}]

MCInitialFiles == {Missing, Binary, Text(<<"a", "a", "a">>)}

MCNumbers == {"3", "7"}

Hit(path, content) == [path |-> path, line |-> "3", column |-> "7", content |-> content]

\* Texts with colons and numbers; then a path that looks like a whole line, and
\* one that does not.
MCFindings ==
    {{},
     {Hit(<<"p">>, <<"x">>), Hit(<<"p">>, <<"x", "y">>), Hit(<<"p">>, <<"7", "x">>)},
     {Hit(<<"p">>, <<"7", "x">>), Hit(<<"p", "q">>, <<"y">>), Hit(<<"p", "3", "7">>, <<"y">>)}}
=============================================================================
