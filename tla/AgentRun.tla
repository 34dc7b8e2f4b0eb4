------------------------------- MODULE AgentRun -------------------------------
(***************************************************************************)
(* One run of the agent seen from its requests to the model: the loop of   *)
(* crates/cli/src/main.rs, ModelActor with its retries, and the client.    *)
(* The pipeline between a call and its observation is AgentPipeline's; it  *)
(* is one step here.                                                       *)
(*                                                                         *)
(* A request ends in an error, transient or permanent, or in a text, from  *)
(* which a call is extracted.  A text without a call is an error of the    *)
(* attempt too, and is asked for again.                                    *)
(***************************************************************************)
EXTENDS ModelOutput, SequencesExt

CONSTANTS
    Texts,      \* what the model may write
    Costs,      \* what a response may cost
    StepLimit,  \* step_limit
    CostLimit,  \* cost_limit
    MaxRetries  \* with_max_times

VARIABLES
    step, total_cost, status,
    phase,    \* where the run is
    attempt,  \* the failed attempts of this request
    response, \* the response to this attempt, until it is parsed
    call,     \* the call of this step
    sent,     \* history: the outcomes of this step's attempts
    trace     \* history: the events emitted, with the cost of a response

runVars == <<step, total_cost, status, phase, attempt, response, call, sent, trace>>

RunPhases == {"top", "asking", "parsing", "acting", "finished", "exited"}

ASSUME LimitsAssumption ==
    /\ StepLimit \in Nat
    /\ CostLimit \in Nat
    /\ MaxRetries \in Nat
    /\ Costs \subseteq Nat

\* A text is a sequence of marks.
ASSUME TextsAssumption ==
    Texts \subseteq Seq({OpenBrace, CloseBrace, Quote, Backslash} \cup Letters)

-----------------------------------------------------------------------------
\* What the model may write, with the objects in it and the call it comes to.
Responses == {[text |-> t, found |-> find_json_objects(t), call |-> extract_tool_call(t)] : t \in Texts}
NoResponse == [text |-> <<>>, found |-> <<>>, call |-> NoCall]

Event(kind)        == [kind |-> kind, cost |-> 0]
Emitted(kinds)     == trace' = trace \o [i \in DOMAIN kinds |-> Event(kinds[i])]
Response(cost)     == [kind |-> "ModelResponseReceived", cost |-> cost]

\* Mutant: the limit is passed by one step more.
BeyondLimitsLate(n) == n > StepLimit + 1 \/ total_cost > CostLimit

\* The limits, looked at once per step.
BeyondLimits(n) == n > StepLimit \/ total_cost > CostLimit

\* The top of the loop: the step is announced, then the limits, then the
\* request.
Begin ==
    /\ phase = "top"
    /\ step' = step + 1
    /\ sent' = <<>>
    /\ attempt' = 0
    /\ call' = NoCall
    /\ \/ /\ BeyondLimits(step')
          /\ Emitted(<<"AgentStep">>)
          /\ status' = "LimitsExceeded"
          /\ phase' = "finished"
       \/ /\ ~BeyondLimits(step')
          /\ Emitted(<<"AgentStep", "ModelRequestStarted">>)
          /\ phase' = "asking"
          /\ UNCHANGED status
    /\ UNCHANGED <<total_cost, response>>

\* Mutant: every error is worth another attempt.
is_retryable_always(error) == TRUE

\* A status below 500 is final.  A status of 500 and above, an error of the
\* connection and an extraction that failed are transient.
is_retryable(error) == error # "4xx"

\* Mutant: one attempt more.
RetryOnceMore(error) == is_retryable(error) /\ attempt <= MaxRetries

\* backon counts the retries, not the attempts.
MayRetry(error) == is_retryable(error) /\ attempt < MaxRetries

\* An attempt has failed: again after a pause, or the run ends.
AttemptFailed(error) ==
    /\ sent' = Append(sent, error)
    /\ attempt' = attempt + 1
    /\ IF MayRetry(error)
       THEN phase' = "asking" /\ UNCHANGED <<status, trace>>
       ELSE /\ phase' = "finished"
            /\ status' = "ModelError"
            /\ Emitted(<<"ModelFailed">>)
    /\ UNCHANGED <<step, total_cost, call>>

\* complete: an error of the connection, or a status that is not a success.
RequestFails(error) ==
    /\ phase = "asking"
    /\ AttemptFailed(error)
    /\ UNCHANGED response

\* complete: the whole stream has been read.
Respond(r) ==
    /\ phase = "asking"
    /\ phase' = "parsing"
    /\ response' = r
    /\ UNCHANGED <<step, total_cost, status, attempt, call, sent, trace>>

\* Mutant: such an attempt does not count.
NothingExtractedFree ==
    /\ phase = "parsing"
    /\ response.call = NoCall
    /\ phase' = "asking"
    /\ response' = NoResponse
    /\ UNCHANGED <<step, total_cost, status, attempt, call, sent, trace>>

\* complete: no call in the text.
NothingExtracted ==
    /\ phase = "parsing"
    /\ response.call = NoCall
    /\ AttemptFailed("no call")
    /\ response' = NoResponse

\* Mutant: a submit ends the run before it is paid for.
PaySubmitNothing(c, cost) ==
    total_cost' = IF c.type = "submit" THEN total_cost ELSE total_cost + cost

\* Each response that has a call is paid for.
Pay(c, cost) == total_cost' = total_cost + cost

\* A call: the loop takes the reply, and a submit ends the run.
Extracted(cost) ==
    /\ phase = "parsing"
    /\ response.call # NoCall
    /\ call' = response.call
    /\ Pay(call', cost)
    /\ trace' = trace \o <<Response(cost), Event("ToolCallEmitted")>>
    /\ sent' = Append(sent, "call")
    /\ IF call'.type = "submit"
       THEN phase' = "finished" /\ status' = "Submitted"
       ELSE phase' = "acting" /\ UNCHANGED status
    /\ response' = NoResponse
    /\ UNCHANGED <<step, attempt>>

\* Mutant: an observation is only announced when there is a step left.
ObserveQuietly ==
    /\ phase = "acting"
    /\ phase' = "top"
    /\ Emitted(IF BeyondLimits(step + 1) THEN <<>> ELSE <<"ObservationReceived">>)
    /\ UNCHANGED <<step, total_cost, status, attempt, response, call, sent>>

\* The pipeline has come to an observation.
Observe ==
    /\ phase = "acting"
    /\ phase' = "top"
    /\ Emitted(<<"ObservationReceived">>)
    /\ UNCHANGED <<step, total_cost, status, attempt, response, call, sent>>

\* The end of run.
Finish ==
    /\ phase = "finished"
    /\ phase' = "exited"
    /\ trace' = Append(trace, [kind |-> "AgentFinished", cost |-> total_cost])
    /\ UNCHANGED <<step, total_cost, status, attempt, response, call, sent>>

exit_code ==
    CASE status = "Submitted"      -> 0
      [] status = "LimitsExceeded" -> 1
      [] status = "ModelError"     -> 3

-----------------------------------------------------------------------------
RunInit ==
    /\ step = 0
    /\ total_cost = 0
    /\ status = "running"
    /\ phase = "top"
    /\ attempt = 0
    /\ response = NoResponse
    /\ call = NoCall
    /\ sent = <<>>
    /\ trace = <<Event("AgentStarted")>>

RunNext ==
    \/ Begin
    \/ \E error \in {"transient", "4xx"} : RequestFails(error)
    \/ \E r \in Responses : Respond(r)
    \/ NothingExtracted
    \/ \E cost \in Costs : Extracted(cost)
    \/ Observe
    \/ Finish

\* Every wait has an end: 120 seconds for a request, 30 for each stage of the
\* pipeline.
RunSpec == RunInit /\ [][RunNext]_runVars /\ WF_runVars(RunNext)

-----------------------------------------------------------------------------
(***************************************************************************)
(* Properties.                                                             *)
(***************************************************************************)
RunTypeOK ==
    /\ step \in 0 .. StepLimit + 1
    /\ total_cost \in Nat
    /\ status \in {"running", "LimitsExceeded", "ModelError", "Submitted"}
    /\ phase \in RunPhases
    /\ attempt \in 0 .. MaxRetries + 1
    /\ response \in Responses \cup {NoResponse}
    /\ call = NoCall \/ call.type \in DOMAIN Required
    /\ sent \in Seq({"transient", "4xx", "no call", "call"})

\* The scanner finds in every text the outermost objects of the grammar: a
\* brace in a string, an escaped quote and an object inside another mislead
\* it nowhere.
ScannerFollowsGrammar ==
    phase = "parsing" => response.found = Objects(response.text)

\* What must come next in the trajectory after an event of each kind.
Follows ==
    [AgentStarted          |-> {"AgentStep"},
     AgentStep             |-> {"ModelRequestStarted", "AgentFinished"},
     ModelRequestStarted   |-> {"ModelResponseReceived", "ModelFailed"},
     ModelResponseReceived |-> {"ToolCallEmitted"},
     ModelFailed           |-> {"AgentFinished"},
     ToolCallEmitted       |-> {"ObservationReceived", "AgentFinished"},
     ObservationReceived   |-> {"AgentStep"},
     AgentFinished         |-> {}]

\* The trajectory can be read: every request has its response or failure,
\* every call but the last its observation, and nothing follows the end.
TrajectoryReads ==
    \A i \in 1 .. Len(trace) - 1 : trace[i + 1].kind \in Follows[trace[i].kind]

\* What was paid by the end of each event of a trajectory.
Price(event) == IF event.kind = "ModelResponseReceived" THEN event.cost ELSE 0
Paid(events) ==
    LET sum[i \in 0 .. Len(events)] == IF i = 0 THEN 0 ELSE sum[i - 1] + Price(events[i])
    IN  sum

\* The costs of the responses in the trajectory are those the run finishes
\* with, and no request is started once they are beyond the limit.
CostsAddUp ==
    \A i \in DOMAIN trace :
        /\ trace[i].kind = "AgentFinished" => trace[i].cost = Paid(trace)[i]
        /\ trace[i].kind = "ModelRequestStarted" => Paid(trace)[i] <= CostLimit

\* The attempts of a step end with the first that is answered for good, and
\* with the sixth if none is (for five retries).
RetriesConfined ==
    /\ Len(sent) <= MaxRetries + 1
    /\ \A i \in 1 .. Len(sent) - 1 : sent[i] \notin {"4xx", "call"}

\* The exit code says what happened: 0 for a submit and nothing else, 3 when
\* the last attempts gave no call, 1 at a limit.
ExitCodeTells ==
    phase = "exited" =>
        /\ exit_code = 0 <=> step <= StepLimit /\ sent # <<>> /\ Last(sent) = "call"
        /\ exit_code = 0 => call.type = "submit"
        /\ exit_code = 3 <=> sent # <<>> /\ Last(sent) # "call"

\* The run comes to its end, whatever the model writes and the endpoint does.
RunEnds == <>(phase = "exited")

-----------------------------------------------------------------------------
(***************************************************************************)
(* What a comment says and the code does not do.                           *)
(***************************************************************************)
\* "models reason before acting, so the call comes at the end"
\* (extract.rs:12): a text that ends with an object that is a call gives a
\* call.
CallAtTheEndIsTaken ==
    LET text == response.text
        End(k) == SubSeq(text, k, Len(text))
    IN  \A k \in DOMAIN text :
            Objects(End(k)) = <<<<1, Len(text) - k + 1>>>> /\ CallOf(End(k)) # NoCall =>
                response.call # NoCall
=============================================================================
