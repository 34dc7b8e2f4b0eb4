-------------------------------- MODULE FileOps --------------------------------
(***************************************************************************)
(* read, write and edit (crates/environments/src/file_ops.rs).             *)
(* A file is a text, or missing, or binary (no UTF-8); a text is a         *)
(* sequence of letters.  A write may fail before the file is opened, or    *)
(* when it has been truncated and only a beginning of it written.          *)
(***************************************************************************)
EXTENDS Integers, Sequences

Text(text) == [kind |-> "text", text |-> text]
Missing    == [kind |-> "missing", text |-> <<>>]
Binary     == [kind |-> "binary", text |-> <<>>]

\* How std::fs::write may end.
WriteEnds == {"written", "unopened", "cut"}

NoCode == -1

Observed(kind, code, text) == [kind |-> kind, code |-> code, text |-> text]
Failed(code)               == Observed("Error", code, <<>>)

-----------------------------------------------------------------------------
read_file(file) ==
    IF file.kind = "text" THEN Observed("FileContent", NoCode, file.text) ELSE Failed(NoCode)

\* std::fs::write, and the observation of what it comes to.
Stored(file, text, end) ==
    CASE end = "written"  -> [file |-> Text(text), obs |-> Observed("FileWritten", NoCode, <<>>)]
      [] end = "unopened" -> [file |-> file, obs |-> Failed(NoCode)]
      [] end = "cut"      -> [file |-> Text(SubSeq(text, 1, Len(text) \div 2)),
                              obs |-> Failed(NoCode)]

\* A file that is missing or cannot be read counts as empty.
write_file(file, content, end) ==
    IF file.text = content THEN [file |-> file, obs |-> Failed(NoCode)]
    ELSE Stored(file, content, end)

\* Where old stands in a text.
Occurrences(text, old) ==
    {i \in 1 .. Len(text) - Len(old) + 1 : SubSeq(text, i, i + Len(old) - 1) = old}

\* str::matches goes on behind each match; an empty pattern matches between
\* any two letters.
MatchCount(text, old) ==
    LET stride == IF old = <<>> THEN 1 ELSE Len(old)
        count[i \in 1 .. Len(text) + stride + 1] ==
            IF i > Len(text) + 1 THEN 0
            ELSE IF i \in Occurrences(text, old) THEN 1 + count[i + stride]
            ELSE count[i + 1]
    IN  count[1]

\* replacen(old, new, 1)
ReplaceFirst(text, old, new) ==
    LET i == CHOOSE i \in Occurrences(text, old) :
                 \A j \in Occurrences(text, old) : i <= j
    IN  SubSeq(text, 1, i - 1) \o new \o SubSeq(text, i + Len(old), Len(text))

\* Mutant: the first of several is replaced.
edit_file_first(file, old, new, end) ==
    IF file.kind = "text" /\ MatchCount(file.text, old) > 0
    THEN Stored(file, ReplaceFirst(file.text, old, new), end)
    ELSE [file |-> file, obs |-> Failed(NoCode)]

edit_file(file, old, new, end) ==
    IF file.kind = "text" /\ MatchCount(file.text, old) = 1
    THEN Stored(file, ReplaceFirst(file.text, old, new), end)
    ELSE [file |-> file, obs |-> Failed(NoCode)]

=============================================================================
