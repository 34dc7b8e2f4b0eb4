----------------------------- MODULE MCTaskActor -----------------------------
(***************************************************************************)
(* A taskfile of three tasks and one malformed entry: t1 and t2 of a type  *)
(* with a playbook of three steps, t2 entering at its second step, and t3  *)
(* of a type without one.  t1 and t3 are tasks for the same crate.         *)
(***************************************************************************)
EXTENDS TaskActor

CONSTANTS t1, t2, t3, bad

Step(name, approved, forbidden) ==
    [name |-> name, approved |-> approved, forbidden |-> forbidden,
     automated |-> name = "survey"]

MCPlaybooks ==
    [op \in {"write-tests"} |->
        [steps  |-> <<Step("survey", {"task/advance"}, {}),
                      Step("write", {}, {"task/advance"}),
                      Step("finalize", {"task/advance"}, {"task/halt"})>>,
         global |-> {"task/state"}]]

MCEntry ==
    [t \in {t1, t2, t3} |->
        CASE t = t1 -> [crate |-> "core", op |-> "write-tests",
                        step |-> "survey", index |-> 0]
          [] t = t2 -> [crate |-> "cli", op |-> "write-tests",
                        step |-> "write", index |-> 1]
          [] t = t3 -> [crate |-> "core", op |-> "fix-lints",
                        step |-> "survey", index |-> 0]]

MCQueues == {<<t1, bad, t2, t3>>, <<t2, t3, bad, t1>>}
=============================================================================
