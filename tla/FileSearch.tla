------------------------------ MODULE FileSearch ------------------------------
(***************************************************************************)
(* search (crates/environments/src/file_ops.rs): the lines that rg prints  *)
(* are taken apart at their colons.  A line is the sequence of its parts   *)
(* between colons; some parts read as a number.  rg names the file of a    *)
(* match when it searches a directory, and not when it searches a single   *)
(* file.                                                                   *)
(***************************************************************************)
EXTENDS Naturals, Sequences

CONSTANT Numbers \* the parts that read as a number

rg_line(hit, in_directory) ==
    (IF in_directory THEN hit.path ELSE <<>>) \o <<hit.line, hit.column>> \o hit.content

\* Mutant: the line is split at every colon, and the fourth part is the content.
parse_rg_line_split(line) ==
    IF Len(line) >= 4 /\ line[2] \in Numbers /\ line[3] \in Numbers
    THEN {[path |-> <<line[1]>>, line |-> line[2], column |-> line[3],
           content |-> <<line[4]>>]}
    ELSE {}

\* The match a line is read as, if it is: the path, two numbers and the rest.
parse_rg_line(line) ==
    IF Len(line) >= 4 /\ line[2] \in Numbers /\ line[3] \in Numbers
    THEN {[path |-> <<line[1]>>, line |-> line[2], column |-> line[3],
           content |-> SubSeq(line, 4, Len(line))]}
    ELSE {}

search(hits, in_directory) == UNION {parse_rg_line(rg_line(hit, in_directory)) : hit \in hits}
=============================================================================
