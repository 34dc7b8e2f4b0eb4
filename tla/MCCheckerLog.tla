----------------------------- MODULE MCCheckerLog -----------------------------
(***************************************************************************)
(* Two calls, a window of three entries and logs of up to five.            *)
(***************************************************************************)
EXTENDS CheckerLog

MCPlaybooks == [op \in {} |-> <<>>]

MCContexts ==
    {FreshContext("survey", 0, {}, {}, {}),
     FreshContext("plan-review", 1, {"task/advance"}, {}, {})}

MCCovers == [p \in {"compile/*"} |-> {"compile/check"}]
=============================================================================
