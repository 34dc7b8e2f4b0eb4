----------------------------- MODULE MCContextSync -----------------------------
(***************************************************************************)
(* Two disks.  On the first the task has its playbook, one step of which   *)
(* has no name; on the second there is one more tool, another playbook,    *)
(* and the task's is no record.                                            *)
(***************************************************************************)
EXTENDS ContextSync, TLC

File(namespace, name) == [namespace |-> namespace, name |-> name, extension |-> "nu"]
Step(name, approved)  == [name |-> name, approved |-> approved]

Tools == {File("meta", "help"), File("meta", "interfaces"), File("playbooks", "write-tests")}

Playbook(record) ==
    ("write-tests" :> [record |-> record, global |-> {"meta/help"},
                       steps  |-> <<Step("survey", {}), Step("none", {}),
                                    Step("orient", {"task/advance"}),
                                    Step("write", {"compile/check"})>>])

MCDisks ==
    {[tools |-> Tools, playbooks |-> Playbook(TRUE), skills |-> "s1", policy |-> "p1"],
     [tools |-> Tools \cup {File("compile", "check")},
      playbooks |-> Playbook(FALSE) @@
                    ("fix" :> [record |-> TRUE, global |-> {}, steps |-> <<Step("fix", {})>>]),
      skills |-> "s2", policy |-> "p2"]}

MCEvals ==
    {[end |-> "failed", exit |-> NoCode]} \cup [end : {"value"}, exit : {NoCode, 1}]
=============================================================================
