------------------------------ MODULE ModelOutput ------------------------------
(***************************************************************************)
(* From the text of a model to a tool call (crates/models/src/extract.rs). *)
(* The text is scanned for objects in braces, byte by byte; the last one   *)
(* that parses after two normalisations is the call.                       *)
(*                                                                         *)
(* A text is a sequence of marks: braces, the quote, the backslash, and    *)
(* letters.  A letter right after an opening brace stands for the fields   *)
(* of a JSON object, which Content describes; strings and further objects  *)
(* may follow it.  All other letters are prose.                            *)
(***************************************************************************)
EXTENDS Naturals, Sequences, FiniteSets

CONSTANTS
    Content,   \* what the fields a letter stands for are
    Required   \* the fields each type of call must have

OpenBrace  == "{"
CloseBrace == "}"
Quote      == "quote"
Backslash  == "backslash"
Letters    == DOMAIN Content

NoCall == [type |-> "none", namespace |-> "none", fields |-> {}]

\* The namespaces a model takes for types.
BuiltinNamespaces == {"read", "write", "edit", "search", "shell"}

-----------------------------------------------------------------------------
(***************************************************************************)
(* find_json_objects.  The scanner's state after a mark: where the object  *)
(* it is in starts (0 outside), the depth of braces, whether it is in a    *)
(* string, whether the next mark is escaped, and the objects found.        *)
(***************************************************************************)
Outside(found) == [start |-> 0, depth |-> 0, in_string |-> FALSE,
                   escape_next |-> FALSE, found |-> found]

\* A mark inside an object and outside its strings.
InBraces(s, mark, i) ==
    CASE mark = Quote      -> [s EXCEPT !.in_string = TRUE]
      [] mark = OpenBrace  -> [s EXCEPT !.depth = @ + 1]
      [] mark = CloseBrace ->
            IF s.depth = 1 THEN Outside(Append(s.found, <<s.start, i>>))
            ELSE [s EXCEPT !.depth = @ - 1]
      [] OTHER -> s

\* Mutant: the backslash is like any other mark.
InStringUnescaped(s, mark) == [s EXCEPT !.in_string = mark # Quote]

\* A mark inside a string.
InString(s, mark) ==
    IF s.escape_next THEN [s EXCEPT !.escape_next = FALSE]
    ELSE [s EXCEPT !.escape_next = mark = Backslash, !.in_string = mark # Quote]

\* One mark: quotes mean nothing outside an object.
Scan(s, mark, i) ==
    CASE s.in_string -> InString(s, mark)
      [] ~s.in_string /\ s.start # 0 -> InBraces(s, mark, i)
      [] s.start = 0 /\ mark = OpenBrace ->
            [Outside(s.found) EXCEPT !.start = i, !.depth = 1]
      [] OTHER -> s

\* The scanner's states over a text.  An object that never closes holds the
\* scanner to the end of the text.
Scanned(text) ==
    LET state[i \in 0 .. Len(text)] ==
            IF i = 0 THEN Outside(<<>>) ELSE Scan(state[i - 1], text[i], i)
    IN  state

find_json_objects(text) == Scanned(text)[Len(text)].found

-----------------------------------------------------------------------------
(***************************************************************************)
(* What the scanner is to find: the outermost objects from left to right,  *)
(* each read by recursive descent.  0 stands for an end there is not.      *)
(***************************************************************************)
\* The backslashes right before position e, down to k.
BackslashesBefore(text, k, e) ==
    Cardinality({j \in k + 1 .. e - 1 : \A i \in j .. e - 1 : text[i] = Backslash})

\* Where the string that opens at k closes.
StringEnd(text, k) ==
    LET ends == {e \in k + 1 .. Len(text) :
                    text[e] = Quote /\ BackslashesBefore(text, k, e) % 2 = 0}
    IN  IF ends = {} THEN 0 ELSE CHOOSE e \in ends : \A f \in ends : e <= f

\* Where the object that opens at k closes.
ObjectEnd(text, k) ==
    LET end[i \in 1 .. Len(text) + 1] == [depth \in Nat \ {0} |->
            IF i > Len(text) THEN 0
            ELSE CASE text[i] = Quote ->
                        LET e == StringEnd(text, i)
                        IN  IF e = 0 THEN 0 ELSE end[e + 1][depth]
                   [] text[i] = OpenBrace  -> end[i + 1][depth + 1]
                   [] text[i] = CloseBrace ->
                        IF depth = 1 THEN i ELSE end[i + 1][depth - 1]
                   [] OTHER -> end[i + 1][depth]]
    IN  end[k + 1][1]

Objects(text) ==
    LET from[k \in 1 .. Len(text) + 1] ==
            IF k > Len(text) THEN <<>>
            ELSE IF text[k] # OpenBrace THEN from[k + 1]
            ELSE LET e == ObjectEnd(text, k)
                 IN  IF e = 0 THEN <<>> ELSE <<<<k, e>>>> \o from[e + 1]
    IN  from[1]

-----------------------------------------------------------------------------
(***************************************************************************)
(* Parsing a candidate.                                                    *)
(***************************************************************************)
\* serde's view of a candidate: outside its strings a JSON object has, of our
\* marks, only delimiters and the letter after each opening brace.
IsJson(object) ==
    LET state == Scanned(object)
    IN  \A i \in 2 .. Len(object) :
            \/ state[i - 1].in_string
            \/ /\ object[i] \in Letters <=> object[i - 1] = OpenBrace
               /\ object[i] # Backslash

\* Another name of the answer is renamed when there is none.
normalize_submit(o) ==
    IF /\ o.type = "submit"
       /\ "output" \notin o.fields
       /\ o.fields \cap {"result", "answer", "content"} # {}
    THEN [o EXCEPT !.fields = @ \cup {"output"}]
    ELSE o

\* A tool of a builtin namespace becomes a call of that type.  Fields inside
\* "args" stay where they are.
normalize_builtin_misrouting(o) ==
    IF o.type = "nushell_tool" /\ o.namespace \in BuiltinNamespaces
    THEN [type |-> o.namespace, namespace |-> "none",
          fields |-> o.fields \ {"namespace", "tool"}]
    ELSE o

\* from_str::<ToolCall>: the required fields must be there, others are ignored.
Parsed(o) ==
    IF o.type \in DOMAIN Required /\ Required[o.type] \subseteq o.fields THEN o ELSE NoCall

\* A candidate's call.
CallOf(object) ==
    IF Len(object) > 2 /\ IsJson(object)
    THEN Parsed(normalize_builtin_misrouting(normalize_submit(Content[object[2]])))
    ELSE NoCall

\* The candidates are tried from the last to the first.
extract_tool_call(text) ==
    LET found == find_json_objects(text)
        calls == [n \in DOMAIN found |-> CallOf(SubSeq(text, found[n][1], found[n][2]))]
        good  == {n \in DOMAIN calls : calls[n] # NoCall}
    IN  IF good = {} THEN NoCall
        ELSE calls[CHOOSE n \in good : \A k \in good : k <= n]
=============================================================================
