---------------------------- MODULE PolicyContext ----------------------------
(***************************************************************************)
(* The snapshot every policy decision is taken from, and the playbooks it  *)
(* is built from (crates/core/src/policy.rs, crates/core/src/toolbox.rs).  *)
(*                                                                         *)
(* A playbook is a sequence of steps; the position of a step in the        *)
(* sequence, counted from 0, is its index.  A tool is named by a string.   *)
(***************************************************************************)
EXTENDS Naturals, Sequences

CONSTANT Playbooks
    \* PlaybookRegistry: a function from the task types that have a playbook
    \* to [steps  : sequence of [name, approved, forbidden, automated],
    \*     global : the tools approved in every step]

HasPlaybook(op) == op \in DOMAIN Playbooks

StepCount(op) == Len(Playbooks[op].steps)

\* Playbook::step_by_index, for an index below StepCount(op).
StepByIndex(op, index) == Playbooks[op].steps[index + 1]

\* Playbook::step_by_name takes the first step of that name.
StepByName(op, name) ==
    LET steps == Playbooks[op].steps
        first == CHOOSE i \in DOMAIN steps :
                    /\ steps[i].name = name
                    /\ \A j \in DOMAIN steps : steps[j].name = name => i <= j
    IN  steps[first]

HasStep(op, name) ==
    /\ HasPlaybook(op)
    /\ \E i \in DOMAIN Playbooks[op].steps : Playbooks[op].steps[i].name = name

-----------------------------------------------------------------------------
(***************************************************************************)
(* PolicyContext.  The steps of the last test write and of the last        *)
(* compile check are agent step numbers; the agent counts from 1, so 0     *)
(* stands for None, as unwrap_or(0) has it.  The fields no check reads     *)
(* (step, last_tool_call, last_tool_step, error_count) are left out.       *)
(***************************************************************************)
FreshContext(name, index, approved, forbidden, global) ==
    [playbook_step         |-> name,
     playbook_index        |-> index,
     approved_tools        |-> approved,
     forbidden_tools       |-> forbidden,
     global_approved_tools |-> global,
     last_test_write       |-> 0,
     last_compile_check    |-> 0,
     plan_review_approved  |-> FALSE]

PolicyContexts(names) ==
    [playbook_step : names, playbook_index : Nat,
     approved_tools : SUBSET STRING, forbidden_tools : SUBSET STRING,
     global_approved_tools : SUBSET STRING,
     last_test_write : Nat, last_compile_check : Nat,
     plan_review_approved : BOOLEAN]

InitialContext == FreshContext("survey", 0, {}, {}, {})

\* The context TaskActor builds for a step: empty tool lists when the task
\* type has no playbook or the playbook no step of that name.
ContextFor(op, name, index) ==
    IF HasStep(op, name)
    THEN FreshContext(name, index, StepByName(op, name).approved,
                      StepByName(op, name).forbidden, Playbooks[op].global)
    ELSE FreshContext(name, index, {}, {}, {})
=============================================================================
