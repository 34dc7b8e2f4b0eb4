----------------------------- MODULE AgentRunProofs -----------------------------
(***************************************************************************)
(* Theorems about one run of the agent, for every limit, every number of   *)
(* retries and every text the model may write: its attempts and its exit   *)
(* code, its trajectory, its costs, and what is found in a text.           *)
(***************************************************************************)
EXTENDS AgentRun, DataLemmas, SequenceTheorems

Outcomes == {"transient", "4xx", "no call", "call"}

\* Outcomes that leave the request to be asked again.
AllAskedAgain(s) == \A i \in DOMAIN s : s[i] \notin {"4xx", "call"}

\* While a request is out, its failed attempts are counted and could all be
\* retried; a step with a call, and a run that is over, say how they came
\* about.
RunBook ==
    /\ phase \in RunPhases
    /\ step \in Nat
    /\ attempt \in Nat
    /\ sent \in Seq(Outcomes)
    /\ RetriesConfined
    /\ phase \in {"asking", "parsing"} =>
           /\ attempt = Len(sent)
           /\ attempt <= MaxRetries
           /\ AllAskedAgain(sent)
           /\ step <= StepLimit
    /\ phase \in {"finished", "exited"} =>
           \/ status = "LimitsExceeded" /\ sent = <<>>
           \/ status = "ModelError" /\ sent # <<>> /\ Last(sent) # "call"
           \/ /\ status = "Submitted"
              /\ sent # <<>> /\ Last(sent) = "call"
              /\ step <= StepLimit
              /\ call.type = "submit"

\* One attempt more.
LEMMA SentAppended ==
    ASSUME NEW s \in Seq(Outcomes), AllAskedAgain(s), Len(s) <= MaxRetries,
           NEW o \in Outcomes
    PROVE  LET a == Append(s, o)
           IN  /\ a \in Seq(Outcomes)
               /\ a # <<>>
               /\ Len(a) = Len(s) + 1
               /\ Len(a) <= MaxRetries + 1
               /\ Last(a) = o
               /\ \A i \in 1 .. Len(a) - 1 : a[i] \notin {"4xx", "call"}
               /\ o \notin {"4xx", "call"} => AllAskedAgain(a)
<1> DEFINE a == Append(s, o)
<1>1. /\ a \in Seq(Outcomes)
      /\ Len(s) \in Nat
      /\ Len(a) = Len(s) + 1
      /\ DOMAIN a = 1 .. Len(s) + 1
      /\ DOMAIN s = 1 .. Len(s)
      /\ \A i \in 1 .. Len(s) : a[i] = s[i]
      /\ a[Len(s) + 1] = o
  OBVIOUS
<1>2. a # <<>>
  BY <1>1
<1> HIDE DEF a
<1>3. Last(a) = o
  BY <1>1 DEF Last
<1>4. Len(a) <= MaxRetries + 1
  BY <1>1, LimitsAssumption
<1>5. /\ \A i \in 1 .. Len(a) - 1 : a[i] \notin {"4xx", "call"}
      /\ o \notin {"4xx", "call"} => AllAskedAgain(a)
  BY <1>1 DEF AllAskedAgain
<1>6. a = Append(s, o)
  BY DEF a
<1> QED
  BY <1>1, <1>2, <1>3, <1>4, <1>5, <1>6

LEMMA OneMore == \A n, m \in Nat : n + 1 \in Nat /\ (n < m => n + 1 <= m)
  OBVIOUS

LEMMA FailedBook ==
    ASSUME RunBook, phase \in {"asking", "parsing"},
           NEW error \in {"transient", "4xx", "no call"}, AttemptFailed(error)
    PROVE  RunBook'
<1>1. /\ sent \in Seq(Outcomes) /\ AllAskedAgain(sent)
      /\ attempt = Len(sent) /\ attempt <= MaxRetries
      /\ step <= StepLimit /\ step \in Nat
  BY DEF RunBook
<1>2. /\ sent' = Append(sent, error)
      /\ attempt' = attempt + 1
      /\ UNCHANGED <<step, call>>
  BY DEF AttemptFailed
<1>3. /\ sent' \in Seq(Outcomes) /\ sent' # <<>>
      /\ Len(sent') = Len(sent) + 1
      /\ Last(sent') = error
      /\ RetriesConfined'
      /\ error # "4xx" => AllAskedAgain(sent')
  BY <1>1, <1>2, SentAppended DEF Outcomes, RetriesConfined
<1>4. attempt \in Nat /\ attempt' \in Nat /\ MaxRetries \in Nat
  <2>1. attempt \in Nat
    BY DEF RunBook
  <2>2. attempt' = attempt + 1
    BY <1>2
  <2> QED
    BY <2>1, <2>2, OneMore, LimitsAssumption, Zenon
<1>5. CASE MayRetry(error)
  <2>1. phase' = "asking"
    BY <1>5 DEF AttemptFailed
  <2>2. error # "4xx" /\ attempt < MaxRetries
    BY <1>5 DEF MayRetry, is_retryable
  <2>3. attempt' <= MaxRetries
    <3>1. attempt' = attempt + 1
      BY <1>2
    <3> QED
      BY <1>4, <2>2, <3>1, OneMore, Zenon
  <2> QED
    BY <1>1, <1>2, <1>3, <1>4, <2>1, <2>2, <2>3 DEF RunBook, RunPhases
<1>6. CASE ~MayRetry(error)
  <2>1. phase' = "finished" /\ status' = "ModelError"
    BY <1>6 DEF AttemptFailed
  <2> QED
    BY <1>1, <1>2, <1>3, <1>4, <2>1 DEF RunBook, RunPhases
<1> QED
  BY <1>5, <1>6

LEMMA InitBook == RunInit => RunBook
  BY LimitsAssumption DEF RunInit, RunBook, RunPhases, RetriesConfined

LEMMA NextBook == RunBook /\ [RunNext]_runVars => RunBook'
<1> SUFFICES ASSUME RunBook, [RunNext]_runVars PROVE RunBook'
  OBVIOUS
<1>1. ASSUME Begin  PROVE RunBook'
  <2>1. /\ step' \in Nat /\ sent' = <<>> /\ attempt' = 0
        /\ sent' \in Seq(Outcomes)
    BY <1>1 DEF Begin, RunBook
  <2>2. RetriesConfined' /\ AllAskedAgain(sent')
    BY <2>1, LimitsAssumption DEF RetriesConfined, AllAskedAgain
  <2>3. CASE BeyondLimits(step')
    BY <1>1, <2>1, <2>2, <2>3 DEF Begin, RunBook, RunPhases
  <2>4. CASE ~BeyondLimits(step')
    <3>1. step' <= StepLimit /\ phase' = "asking"
      BY <1>1, <2>1, <2>4, LimitsAssumption DEF Begin, BeyondLimits
    <3> QED
      BY <2>1, <2>2, <3>1, LimitsAssumption DEF RunBook, RunPhases
  <2> QED
    BY <2>3, <2>4
<1>2. ASSUME NEW error \in {"transient", "4xx"}, RequestFails(error)
      PROVE  RunBook'
  BY <1>2, FailedBook DEF RequestFails
<1>3. ASSUME NEW r \in Responses, Respond(r)  PROVE RunBook'
  BY <1>3 DEF Respond, RunBook, RunPhases, RetriesConfined
<1>4. ASSUME NothingExtracted  PROVE RunBook'
  BY <1>4, FailedBook DEF NothingExtracted
<1>5. ASSUME NEW cost \in Costs, Extracted(cost)  PROVE RunBook'
  <2>1. /\ sent \in Seq(Outcomes) /\ AllAskedAgain(sent)
        /\ Len(sent) <= MaxRetries
        /\ step <= StepLimit /\ step \in Nat /\ attempt \in Nat
        /\ UNCHANGED <<step, attempt>>
        /\ sent' = Append(sent, "call")
    BY <1>5 DEF Extracted, RunBook
  <2>2. /\ sent' \in Seq(Outcomes) /\ sent' # <<>>
        /\ Last(sent') = "call"
        /\ RetriesConfined'
    BY <2>1, SentAppended DEF Outcomes, RetriesConfined
  <2>3. \/ /\ phase' = "finished" /\ status' = "Submitted"
           /\ call'.type = "submit"
        \/ phase' = "acting"
    BY <1>5 DEF Extracted
  <2> QED
    BY <2>1, <2>2, <2>3 DEF RunBook, RunPhases
<1>6. ASSUME Observe  PROVE RunBook'
  BY <1>6 DEF Observe, RunBook, RunPhases, RetriesConfined
<1>7. ASSUME Finish  PROVE RunBook'
  BY <1>7 DEF Finish, RunBook, RunPhases, RetriesConfined
<1>8. CASE UNCHANGED runVars
  BY <1>8 DEF runVars, RunBook, RetriesConfined
<1> QED
  BY <1>1, <1>2, <1>3, <1>4, <1>5, <1>6, <1>7, <1>8 DEF RunNext

\* A request has at most MaxRetries + 1 attempts, and none after a status
\* below 500 or after a call.
THEOREM RetriesAreConfined == RunSpec => []RetriesConfined
<1>1. RunInit => RunBook
  BY InitBook
<1>2. RunBook /\ [RunNext]_runVars => RunBook'
  BY NextBook
<1>3. RunBook => RetriesConfined
  BY DEF RunBook
<1> QED
  BY <1>1, <1>2, <1>3, PTL DEF RunSpec

LEMMA BookTells == RunBook => ExitCodeTells
<1> SUFFICES ASSUME RunBook, phase = "exited" PROVE ExitCodeTells
  BY DEF ExitCodeTells
<1>1. CASE status = "LimitsExceeded" /\ sent = <<>>
  <2>1. exit_code = 1
    BY <1>1 DEF exit_code
  <2> QED
    BY <1>1, <2>1 DEF ExitCodeTells
<1>2. CASE status = "ModelError" /\ sent # <<>> /\ Last(sent) # "call"
  <2>1. exit_code = 3
    BY <1>2 DEF exit_code
  <2> QED
    BY <1>2, <2>1 DEF ExitCodeTells
<1>3. CASE /\ status = "Submitted" /\ sent # <<>> /\ Last(sent) = "call"
           /\ step <= StepLimit /\ call.type = "submit"
  <2>1. exit_code = 0
    BY <1>3 DEF exit_code
  <2> QED
    BY <1>3, <2>1 DEF ExitCodeTells
<1> QED
  BY <1>1, <1>2, <1>3 DEF RunBook

\* The exit code tells the caller of the program what became of the last
\* request: 0 a submit, 3 no call, 1 that a limit came first.
THEOREM ExitCodeIsRight == RunSpec => []ExitCodeTells
<1>1. RunInit => RunBook
  BY InitBook
<1>2. RunBook /\ [RunNext]_runVars => RunBook'
  BY NextBook
<1>3. RunBook => ExitCodeTells
  BY BookTells
<1> QED
  BY <1>1, <1>2, <1>3, PTL DEF RunSpec
-----------------------------------------------------------------------------
(***************************************************************************)
(* The trajectory.  That it can be read is not inductive: what an event    *)
(* may follow takes what the last event is in each phase.                  *)
(***************************************************************************)
Kinds  == DOMAIN Follows
Events == [kind : Kinds, cost : Nat]

Reads(l) == \A i \in 1 .. Len(l) - 1 : l[i + 1].kind \in Follows[l[i].kind]

\* The last event in each phase.
LastIs ==
    [top      |-> {"AgentStarted", "ObservationReceived"},
     asking   |-> {"ModelRequestStarted"},
     parsing  |-> {"ModelRequestStarted"},
     acting   |-> {"ToolCallEmitted"},
     finished |-> {"AgentStep", "ModelFailed", "ToolCallEmitted"},
     exited   |-> {"AgentFinished"}]

\* A trajectory that can be read and ends in an event of one of the kinds.
ReadsTo(l, kinds) ==
    /\ l \in Seq(Events)
    /\ l # <<>>
    /\ Reads(l)
    /\ l[Len(l)].kind \in kinds

Telling ==
    /\ phase \in RunPhases
    /\ total_cost \in Nat
    /\ ReadsTo(trace, LastIs[phase])

LEMMA EventAppended ==
    ASSUME NEW l, NEW kinds \in SUBSET Kinds, ReadsTo(l, kinds),
           NEW e \in Events, \A k \in kinds : e.kind \in Follows[k]
    PROVE  ReadsTo(Append(l, e), {e.kind})
<1> DEFINE a == Append(l, e)
<1>1. l \in Seq(Events) /\ l # <<>> /\ Reads(l) /\ l[Len(l)].kind \in kinds
  BY DEF ReadsTo
<1>2. /\ a \in Seq(Events)
      /\ a # <<>>
      /\ Len(l) \in Nat
      /\ Len(a) = Len(l) + 1
      /\ \A i \in 1 .. Len(l) : a[i] = l[i]
      /\ a[Len(l) + 1] = e
  BY <1>1
<1>3. Len(l) >= 1
  BY <1>1
<1> HIDE DEF a
<1>4. Reads(a)
  <2> SUFFICES ASSUME NEW i \in 1 .. Len(l)
               PROVE  a[i + 1].kind \in Follows[a[i].kind]
    BY <1>2 DEF Reads
  <2>1. CASE i = Len(l)
    BY <1>1, <1>2, <1>3, <2>1
  <2>2. CASE i # Len(l)
    <3>1. i \in 1 .. Len(l) - 1 /\ i + 1 \in 1 .. Len(l)
      BY <1>2, <2>2
    <3>2. l[i + 1].kind \in Follows[l[i].kind]
      BY <1>1, <3>1 DEF Reads
    <3> QED
      BY <1>2, <3>1, <3>2
  <2> QED
    BY <2>1, <2>2
<1>5. a = Append(l, e)
  BY DEF a
<1> QED
  BY <1>2, <1>4, <1>5 DEF ReadsTo

LEMMA EventType ==
    ASSUME NEW k \in Kinds, NEW c \in Nat
    PROVE  /\ Event(k) \in Events /\ Event(k).kind = k
           /\ [kind |-> k, cost |-> c] \in Events
BY DEF Event, Events

\* One event, or two, at the end of the trajectory.
LEMMA EmittedOne ==
    ASSUME NEW l \in Seq(Events), NEW k \in Kinds
    PROVE  l \o [i \in DOMAIN <<k>> |-> Event(<<k>>[i])] = Append(l, Event(k))
<1>1. [i \in DOMAIN <<k>> |-> Event(<<k>>[i])] = <<Event(k)>>
  OBVIOUS
<1>2. Event(k) \in Events
  BY EventType DEF Follows, Kinds
<1> QED
  BY <1>1, <1>2

LEMMA TwoAppended ==
    ASSUME NEW l \in Seq(Events), NEW d \in Events, NEW e \in Events
    PROVE  l \o <<d, e>> = Append(Append(l, d), e)
OBVIOUS

LEMMA EmittedTwo ==
    ASSUME NEW l \in Seq(Events), NEW j \in Kinds, NEW k \in Kinds
    PROVE  l \o [i \in DOMAIN <<j, k>> |-> Event(<<j, k>>[i])]
             = Append(Append(l, Event(j)), Event(k))
<1>1. [i \in DOMAIN <<j, k>> |-> Event(<<j, k>>[i])] = <<Event(j), Event(k)>>
  OBVIOUS
<1> QED
  BY <1>1, EventType, TwoAppended

LEMMA ReadsWider ==
    ASSUME NEW l, NEW some, NEW more, ReadsTo(l, some), some \subseteq more
    PROVE  ReadsTo(l, more)
BY DEF ReadsTo
\* The order of the kinds.
LEMMA KindOrder ==
    /\ Kinds = {"AgentStarted", "AgentStep", "ModelRequestStarted",
                "ModelResponseReceived", "ModelFailed", "ToolCallEmitted",
                "ObservationReceived", "AgentFinished"}
    /\ \A k \in LastIs["top"] : "AgentStep" \in Follows[k]
    /\ "ModelRequestStarted" \in Follows["AgentStep"]
    /\ \A k \in LastIs["asking"] : /\ "ModelFailed" \in Follows[k]
                                   /\ "ModelResponseReceived" \in Follows[k]
    /\ "ToolCallEmitted" \in Follows["ModelResponseReceived"]
    /\ \A k \in LastIs["acting"] : "ObservationReceived" \in Follows[k]
    /\ \A k \in LastIs["finished"] : "AgentFinished" \in Follows[k]
    /\ \A p \in RunPhases : LastIs[p] \subseteq Kinds
    /\ LastIs["parsing"] = LastIs["asking"]
BY DEF Kinds, Follows, LastIs, RunPhases

\* An event of kind k, where the trajectory ends in one of some kinds.
LEMMA KindAppended ==
    ASSUME NEW l, NEW some \in SUBSET Kinds, ReadsTo(l, some),
           NEW k \in Kinds, NEW c \in Nat,
           \A j \in some : k \in Follows[j]
    PROVE  ReadsTo(Append(l, [kind |-> k, cost |-> c]), {k})
<1> DEFINE e == [kind |-> k, cost |-> c]
<1>1. e \in Events /\ e.kind = k
  BY EventType
<1> HIDE DEF e
<1>2. ReadsTo(Append(l, e), {e.kind})
  BY <1>1, EventAppended
<1> QED
  BY <1>1, <1>2 DEF e

LEMMA BeginTells ==
    ASSUME Telling, Begin
    PROVE  Telling'
<1>1. /\ phase = "top" /\ ReadsTo(trace, LastIs["top"])
      /\ total_cost' = total_cost /\ total_cost \in Nat
      /\ trace \in Seq(Events)
  BY DEF Telling, Begin, ReadsTo
<1> DEFINE started == Append(trace, Event("AgentStep"))
<1>2. ReadsTo(started, {"AgentStep"})
  <2>1. LastIs["top"] \in SUBSET Kinds /\ "AgentStep" \in Kinds
    BY KindOrder DEF RunPhases
  <2> QED
    BY <1>1, <2>1, KindAppended, KindOrder DEF Event
<1>3. CASE BeyondLimits(step')
  <2>1. phase' = "finished" /\ Emitted(<<"AgentStep">>)
    BY <1>3 DEF Begin
  <2>2. trace' = started
    BY <1>1, <2>1, EmittedOne, KindOrder DEF Emitted
  <2>3. ReadsTo(trace', LastIs["finished"])
    BY <1>2, <2>2, ReadsWider DEF LastIs
  <2> QED
    BY <1>1, <2>1, <2>3 DEF Telling, RunPhases
<1>4. CASE ~BeyondLimits(step')
  <2>1. phase' = "asking" /\ Emitted(<<"AgentStep", "ModelRequestStarted">>)
    BY <1>4 DEF Begin
  <2>2. trace' = Append(started, Event("ModelRequestStarted"))
    BY <1>1, <2>1, EmittedTwo, KindOrder DEF Emitted
  <2>3. ReadsTo(trace', {"ModelRequestStarted"})
    BY <1>2, <2>2, KindAppended, KindOrder DEF Event
  <2>4. ReadsTo(trace', LastIs["asking"])
    BY <2>3 DEF LastIs
  <2> QED
    BY <1>1, <2>1, <2>4 DEF Telling, RunPhases
<1> QED
  BY <1>3, <1>4

LEMMA FailedTells ==
    ASSUME Telling, phase \in {"asking", "parsing"},
           NEW error, AttemptFailed(error)
    PROVE  Telling'
<1>1. /\ ReadsTo(trace, LastIs["asking"])
      /\ total_cost' = total_cost /\ total_cost \in Nat
      /\ trace \in Seq(Events)
  BY KindOrder DEF Telling, AttemptFailed, ReadsTo
<1>2. CASE MayRetry(error)
  <2>1. phase' = "asking" /\ trace' = trace
    BY <1>2 DEF AttemptFailed
  <2> QED
    BY <1>1, <2>1 DEF Telling, RunPhases
<1>3. CASE ~MayRetry(error)
  <2>1. phase' = "finished" /\ Emitted(<<"ModelFailed">>)
    BY <1>3 DEF AttemptFailed
  <2>2. trace' = Append(trace, Event("ModelFailed"))
    BY <1>1, <2>1, EmittedOne, KindOrder DEF Emitted
  <2>3. LastIs["asking"] \in SUBSET Kinds /\ "ModelFailed" \in Kinds
    BY KindOrder DEF RunPhases
  <2>4. ReadsTo(trace', {"ModelFailed"})
    BY <1>1, <2>2, <2>3, KindAppended, KindOrder DEF Event
  <2>5. ReadsTo(trace', LastIs["finished"])
    BY <2>4, ReadsWider DEF LastIs
  <2> QED
    BY <1>1, <2>1, <2>5 DEF Telling, RunPhases
<1> QED
  BY <1>2, <1>3

LEMMA ExtractedTells ==
    ASSUME Telling, NEW cost \in Costs, Extracted(cost)
    PROVE  Telling'
<1>1. /\ ReadsTo(trace, LastIs["asking"])
      /\ total_cost \in Nat /\ cost \in Nat
      /\ trace \in Seq(Events)
  BY KindOrder, LimitsAssumption DEF Telling, Extracted, ReadsTo
<1>2. total_cost' \in Nat
  <2>1. total_cost' = total_cost + cost
    BY DEF Extracted, Pay
  <2> QED
    BY <1>1, <2>1
<1> DEFINE paid == Append(trace, Response(cost))
<1>3. ReadsTo(paid, {"ModelResponseReceived"})
  <2>1. LastIs["asking"] \in SUBSET Kinds /\ "ModelResponseReceived" \in Kinds
    BY KindOrder DEF RunPhases
  <2> QED
    BY <1>1, <2>1, KindAppended, KindOrder DEF Response
<1>4. trace' = Append(paid, Event("ToolCallEmitted"))
  <2>1. trace' = trace \o <<Response(cost), Event("ToolCallEmitted")>>
    BY DEF Extracted
  <2>2. Response(cost) \in Events /\ Event("ToolCallEmitted") \in Events
    BY <1>1, EventType, KindOrder DEF Response
  <2> QED
    BY <1>1, <2>1, <2>2, TwoAppended
<1>5. ReadsTo(trace', {"ToolCallEmitted"})
  BY <1>3, <1>4, KindAppended, KindOrder DEF Event
<1>6. phase' \in {"finished", "acting"}
  BY DEF Extracted
<1>7. ReadsTo(trace', LastIs[phase'])
  BY <1>5, <1>6, ReadsWider DEF LastIs
<1> QED
  BY <1>2, <1>6, <1>7 DEF Telling, RunPhases

LEMMA InitTells == RunInit => Telling
<1> SUFFICES ASSUME RunInit PROVE Telling
  OBVIOUS
<1>1. /\ trace = <<Event("AgentStarted")>> /\ phase = "top"
      /\ total_cost = 0
  BY DEF RunInit
<1>2. Event("AgentStarted") \in Events /\ Event("AgentStarted").kind = "AgentStarted"
  BY EventType, KindOrder
<1>3. ReadsTo(trace, LastIs["top"])
  BY <1>1, <1>2 DEF ReadsTo, Reads, LastIs
<1> QED
  BY <1>1, <1>3 DEF Telling, RunPhases

LEMMA NextTells == Telling /\ [RunNext]_runVars => Telling'
<1> SUFFICES ASSUME Telling, [RunNext]_runVars PROVE Telling'
  OBVIOUS
<1>1. ASSUME Begin  PROVE Telling'
  BY <1>1, BeginTells
<1>2. ASSUME NEW error \in {"transient", "4xx"}, RequestFails(error)
      PROVE  Telling'
  BY <1>2, FailedTells DEF RequestFails
<1>3. ASSUME NEW r \in Responses, Respond(r)  PROVE Telling'
  BY <1>3 DEF Respond, Telling, RunPhases, LastIs
<1>4. ASSUME NothingExtracted  PROVE Telling'
  BY <1>4, FailedTells DEF NothingExtracted
<1>5. ASSUME NEW cost \in Costs, Extracted(cost)  PROVE Telling'
  BY <1>5, ExtractedTells
<1>6. ASSUME Observe  PROVE Telling'
  <2>1. /\ phase = "acting" /\ phase' = "top"
        /\ Emitted(<<"ObservationReceived">>)
        /\ total_cost' = total_cost
    BY <1>6 DEF Observe
  <2>2. ReadsTo(trace, LastIs["acting"]) /\ trace \in Seq(Events)
    BY <2>1 DEF Telling, ReadsTo
  <2>3. trace' = Append(trace, Event("ObservationReceived"))
    BY <2>1, <2>2, EmittedOne, KindOrder DEF Emitted
  <2>4. LastIs["acting"] \in SUBSET Kinds /\ "ObservationReceived" \in Kinds
    BY KindOrder DEF RunPhases
  <2>5. ReadsTo(trace', {"ObservationReceived"})
    BY <2>2, <2>3, <2>4, KindAppended, KindOrder DEF Event
  <2>6. ReadsTo(trace', LastIs["top"])
    BY <2>5, ReadsWider DEF LastIs
  <2> QED
    BY <2>1, <2>6 DEF Telling, RunPhases
<1>7. ASSUME Finish  PROVE Telling'
  <2>1. /\ phase = "finished" /\ phase' = "exited"
        /\ trace' = Append(trace, [kind |-> "AgentFinished",
                                   cost |-> total_cost])
        /\ total_cost' = total_cost /\ total_cost \in Nat
    BY <1>7 DEF Finish, Telling
  <2>2. ReadsTo(trace, LastIs["finished"])
    BY <2>1 DEF Telling
  <2>3. LastIs["finished"] \in SUBSET Kinds /\ "AgentFinished" \in Kinds
    BY KindOrder DEF RunPhases
  <2>4. ReadsTo(trace', {"AgentFinished"})
    BY <2>1, <2>2, <2>3, KindAppended, KindOrder
  <2> QED
    BY <2>1, <2>4 DEF Telling, RunPhases, LastIs
<1>8. CASE UNCHANGED runVars
  BY <1>8 DEF runVars, Telling
<1> QED
  BY <1>1, <1>2, <1>3, <1>4, <1>5, <1>6, <1>7, <1>8 DEF RunNext

\* The trajectory of every run can be read: each request has its response or
\* its failure, each call but the last its observation, and the end is last.
THEOREM TrajectoryIsReadable == RunSpec => []TrajectoryReads
<1>1. RunInit => Telling
  BY InitTells
<1>2. Telling /\ [RunNext]_runVars => Telling'
  BY NextTells
<1>3. Telling => TrajectoryReads
  BY DEF Telling, ReadsTo, Reads, TrajectoryReads
<1> QED
  BY <1>1, <1>2, <1>3, PTL DEF RunSpec

-----------------------------------------------------------------------------
(***************************************************************************)
(* The costs.  The sums over a trajectory are a recursive function, which  *)
(* exists and is the only one of its kind by induction on its length.      *)
(***************************************************************************)
AreSums(f, l) ==
    f = [i \in 0 .. Len(l) |-> IF i = 0 THEN 0 ELSE f[i - 1] + Price(l[i])]

LEMMA SumsExtended ==
    ASSUME NEW f, NEW l \in Seq(Events), NEW e \in Events, AreSums(f, l)
    PROVE  LET a == Append(l, e)
           IN  AreSums([i \in 0 .. Len(a) |-> IF i = Len(a) THEN f[Len(l)] + Price(e)
                                              ELSE f[i]], a)
<1> DEFINE a == Append(l, e)
           n == Len(l)
           g == [i \in 0 .. Len(a) |-> IF i = Len(a) THEN f[n] + Price(e) ELSE f[i]]
<1>1. /\ n \in Nat /\ Len(a) = n + 1 /\ a[n + 1] = e
      /\ \A i \in 1 .. n : a[i] = l[i]
  OBVIOUS
<1> HIDE DEF a
<1>2. ASSUME NEW i \in 0 .. Len(a)
      PROVE  g[i] = IF i = 0 THEN 0 ELSE g[i - 1] + Price(a[i])
  <2>1. CASE i = 0
    BY <1>1, <2>1 DEF AreSums
  <2>2. CASE i \in 1 .. n
    <3>1. i # Len(a) /\ i - 1 # Len(a) /\ i - 1 \in 0 .. Len(a) /\ i # 0 /\ i \in 0 .. n
      BY <1>1, <2>2
    <3>2. f[i] = f[i - 1] + Price(l[i])
      BY <3>1 DEF AreSums
    <3>3. g[i] = f[i] /\ g[i - 1] = f[i - 1] /\ a[i] = l[i]
      BY <1>1, <2>2, <3>1
    <3> QED
      BY <3>1, <3>2, <3>3
  <2>3. CASE i = n + 1
    <3>1. i # 0 /\ i - 1 = n /\ n # Len(a) /\ n \in 0 .. Len(a)
      BY <1>1, <2>3
    <3>2. g[i] = f[n] + Price(e) /\ g[i - 1] = f[n] /\ a[i] = e
      BY <1>1, <2>3, <3>1
    <3> QED
      BY <3>1, <3>2
  <2> QED
    BY <1>1, <2>1, <2>2, <2>3
<1>3. AreSums(g, a)
  BY <1>2 DEF AreSums
<1> QED
  BY <1>3 DEF a

LEMMA SumsUnique ==
    ASSUME NEW l, Len(l) \in Nat, NEW f, NEW g, AreSums(f, l), AreSums(g, l)
    PROVE  f = g
<1> DEFINE T == {k \in Nat : k \in 0 .. Len(l) => f[k] = g[k]}
<1>1. 0 \in T
  BY DEF AreSums
<1>2. ASSUME NEW k \in Nat, k \in T  PROVE k + 1 \in T
  <2> SUFFICES ASSUME k + 1 \in 0 .. Len(l)  PROVE f[k + 1] = g[k + 1]
    OBVIOUS
  <2>1. f[k] = g[k]
    BY <1>2
  <2>2. k + 1 # 0 /\ (k + 1) - 1 = k
    OBVIOUS
  <2> QED
    BY <2>1, <2>2 DEF AreSums
<1> HIDE DEF T
<1>3. Nat \subseteq T
  BY <1>1, <1>2, NaturalsFromZero
<1>4. \A k \in 0 .. Len(l) : f[k] = g[k]
  BY <1>3 DEF T
<1> QED
  BY <1>4 DEF AreSums

\* Every trajectory has its sums, and Paid is them.
LEMMA PaidIs ==
    ASSUME NEW l, NEW f, AreSums(f, l)
    PROVE  AreSums(Paid(l), l)
<1>1. Paid(l) = CHOOSE h : AreSums(h, l)
  BY DEF Paid, AreSums
<1>2. AreSums(CHOOSE h : AreSums(h, l), l)
  OBVIOUS
<1> QED
  BY <1>1, <1>2

LEMMA PaidSums ==
    ASSUME NEW l \in Seq(Events)
    PROVE  AreSums(Paid(l), l)
<1> DEFINE first(n) == SubSeq(l, 1, n)
           T == {n \in Nat : n <= Len(l) => \E f : AreSums(f, first(n))}
<1>1. 0 \in T
  <2>1. Len(first(0)) = 0
    OBVIOUS
  <2>2. AreSums([i \in 0 .. 0 |-> 0], first(0))
    BY <2>1 DEF AreSums
  <2> QED
    BY <2>2
<1>2. ASSUME NEW n \in Nat, n \in T  PROVE n + 1 \in T
  <2> SUFFICES ASSUME n + 1 <= Len(l)  PROVE \E f : AreSums(f, first(n + 1))
    OBVIOUS
  <2>1. PICK f : AreSums(f, first(n))
    <3>1. n <= Len(l)
      OBVIOUS
    <3> QED
      BY <1>2, <3>1
  <2>2. /\ first(n) \in Seq(Events) /\ l[n + 1] \in Events
        /\ first(n + 1) = Append(first(n), l[n + 1])
    OBVIOUS
  <2> HIDE DEF first
  <2> QED
    BY <2>1, <2>2, SumsExtended
<1>3. Len(l) \in Nat /\ l = first(Len(l))
  OBVIOUS
<1> HIDE DEF first
<1>4. Nat \subseteq T
  <2> HIDE DEF T
  <2> QED
    BY <1>1, <1>2, NaturalsFromZero
<1>5. \E f : AreSums(f, l)
  BY <1>3, <1>4
<1> QED
  BY <1>5, PaidIs

\* One event more adds its price, and what was paid before stays.
LEMMA PaidAppended ==
    ASSUME NEW l \in Seq(Events), NEW e \in Events
    PROVE  /\ \A i \in 0 .. Len(l) : Paid(Append(l, e))[i] = Paid(l)[i]
           /\ Paid(Append(l, e))[Len(l) + 1] = Paid(l)[Len(l)] + Price(e)
<1> DEFINE a == Append(l, e)
           f == Paid(l)
           g == [i \in 0 .. Len(a) |-> IF i = Len(a) THEN f[Len(l)] + Price(e) ELSE f[i]]
<1>1. a \in Seq(Events) /\ Len(a) \in Nat /\ Len(a) = Len(l) + 1 /\ Len(l) \in Nat
  OBVIOUS
<1>2. AreSums(f, l)
  BY PaidSums
<1> HIDE DEF f
<1>3. AreSums(g, a)
  BY <1>2, SumsExtended
<1>4. AreSums(Paid(a), a)
  BY <1>1, PaidSums
<1> HIDE DEF a, g
<1>5. Paid(a) = g
  BY <1>1, <1>3, <1>4, SumsUnique
<1>6. /\ \A i \in 0 .. Len(l) : g[i] = f[i]
      /\ g[Len(l) + 1] = f[Len(l)] + Price(e)
  BY <1>1 DEF g
<1> QED
  BY <1>5, <1>6 DEF a, f

\* A trajectory whose costs come to a total, and whose end and whose requests
\* agree with what was paid before them.
AddsUp(l, total) ==
    /\ Paid(l)[Len(l)] = total
    /\ \A i \in DOMAIN l :
          /\ l[i].kind = "AgentFinished" => l[i].cost = Paid(l)[i]
          /\ l[i].kind = "ModelRequestStarted" => Paid(l)[i] <= CostLimit

LEMMA AddsUpAppended ==
    ASSUME NEW l \in Seq(Events), NEW total \in Nat, AddsUp(l, total), NEW e \in Events,
           e.kind = "AgentFinished" => e.cost = total,
           e.kind = "ModelRequestStarted" => total <= CostLimit
    PROVE  AddsUp(Append(l, e), total + Price(e))
<1> DEFINE a == Append(l, e)
<1>1. /\ Len(l) \in Nat /\ Len(a) = Len(l) + 1 /\ DOMAIN l = 1 .. Len(l)
      /\ DOMAIN a = 1 .. Len(l) + 1
      /\ \A i \in DOMAIN l : a[i] = l[i]
      /\ a[Len(l) + 1] = e
  OBVIOUS
<1>2. /\ \A i \in 0 .. Len(l) : Paid(a)[i] = Paid(l)[i]
      /\ Paid(a)[Len(l) + 1] = Paid(l)[Len(l)] + Price(e)
  BY PaidAppended
<1>3. Paid(l)[Len(l)] = total
  BY DEF AddsUp
<1> HIDE DEF a
<1>4. Paid(a)[Len(l) + 1] = total + Price(e)
  BY <1>2, <1>3
<1>5. ASSUME NEW i \in DOMAIN a
      PROVE  /\ a[i].kind = "AgentFinished" => a[i].cost = Paid(a)[i]
             /\ a[i].kind = "ModelRequestStarted" => Paid(a)[i] <= CostLimit
  <2>1. CASE i \in DOMAIN l
    <3>1. i \in 0 .. Len(l)
      BY <1>1, <2>1
    <3> QED
      BY <1>1, <1>2, <2>1, <3>1 DEF AddsUp
  <2>2. CASE i = Len(l) + 1
    <3>1. e.kind \in {"AgentFinished", "ModelRequestStarted"} => total + Price(e) = total
      BY DEF Price
    <3> QED
      BY <1>1, <1>4, <2>2, <3>1
  <2> QED
    BY <1>1, <2>1, <2>2
<1>6. AddsUp(a, total + Price(e))
  BY <1>1, <1>4, <1>5 DEF AddsUp
<1> QED
  BY <1>6 DEF a

-----------------------------------------------------------------------------
Adding == Telling /\ AddsUp(trace, total_cost)

\* An event that costs nothing.
LEMMA FreeAppended ==
    ASSUME NEW l \in Seq(Events), NEW total \in Nat, AddsUp(l, total), NEW k \in Kinds,
           k # "AgentFinished", k = "ModelRequestStarted" => total <= CostLimit
    PROVE  AddsUp(Append(l, Event(k)), total) /\ Append(l, Event(k)) \in Seq(Events)
<1>1. Event(k) \in Events /\ Event(k).kind = k /\ Event(k).cost = 0
  BY EventType DEF Event
<1>2. Price(Event(k)) = 0
  BY <1>1 DEF Price
<1>3. total + 0 = total
  OBVIOUS
<1>4. AddsUp(Append(l, Event(k)), total + Price(Event(k)))
  BY <1>1, AddsUpAppended
<1> QED
  BY <1>1, <1>2, <1>3, <1>4

LEMMA NextAdds == Adding /\ [RunNext]_runVars => Adding'
<1> SUFFICES ASSUME Adding, [RunNext]_runVars  PROVE Adding'
  OBVIOUS
<1>1. Telling'
  BY NextTells DEF Adding
<1>2. trace \in Seq(Events) /\ total_cost \in Nat /\ AddsUp(trace, total_cost)
  BY DEF Adding, Telling, ReadsTo
<1> SUFFICES AddsUp(trace', total_cost')
  BY <1>1 DEF Adding
<1>3. CASE Begin
  <2>1. total_cost' = total_cost
    BY <1>3 DEF Begin
  <2>2. CASE trace' = Append(trace, Event("AgentStep"))
    BY <1>2, <2>1, <2>2, FreeAppended, KindOrder
  <2>3. CASE /\ ~BeyondLimits(step')
             /\ trace' = Append(Append(trace, Event("AgentStep")), Event("ModelRequestStarted"))
    <3>1. total_cost <= CostLimit
      BY <1>2, <2>3, LimitsAssumption DEF BeyondLimits
    <3> DEFINE l == Append(trace, Event("AgentStep"))
    <3>2. AddsUp(l, total_cost) /\ l \in Seq(Events)
      BY <1>2, FreeAppended, KindOrder
    <3> HIDE DEF l
    <3>3. AddsUp(Append(l, Event("ModelRequestStarted")), total_cost)
      BY <1>2, <3>1, <3>2, FreeAppended, KindOrder
    <3> QED
      BY <2>1, <2>3, <3>3 DEF l
  <2>4. \/ Emitted(<<"AgentStep">>)
        \/ ~BeyondLimits(step') /\ Emitted(<<"AgentStep", "ModelRequestStarted">>)
    BY <1>3 DEF Begin
  <2> QED
    BY <1>2, <2>2, <2>3, <2>4, EmittedOne, EmittedTwo, KindOrder DEF Emitted
<1>4. ASSUME NEW error, AttemptFailed(error)  PROVE AddsUp(trace', total_cost')
  <2>1. total_cost' = total_cost
    BY <1>4 DEF AttemptFailed
  <2>2. trace' = trace \/ Emitted(<<"ModelFailed">>)
    BY <1>4 DEF AttemptFailed
  <2>3. Emitted(<<"ModelFailed">>) => trace' = Append(trace, Event("ModelFailed"))
    BY <1>2, EmittedOne, KindOrder DEF Emitted
  <2>4. AddsUp(Append(trace, Event("ModelFailed")), total_cost)
    BY <1>2, FreeAppended, KindOrder
  <2> QED
    BY <1>2, <2>1, <2>2, <2>3, <2>4
<1>5. CASE \/ \E error \in {"transient", "4xx"} : RequestFails(error)
           \/ NothingExtracted
  BY <1>4, <1>5 DEF RequestFails, NothingExtracted
<1>6. ASSUME NEW cost \in Costs, Extracted(cost)  PROVE AddsUp(trace', total_cost')
  <2>1. /\ total_cost' = total_cost + cost /\ cost \in Nat
        /\ trace' = trace \o <<Response(cost), Event("ToolCallEmitted")>>
    BY <1>6, LimitsAssumption DEF Extracted, Pay
  <2>2. /\ Response(cost) \in Events /\ Response(cost).kind = "ModelResponseReceived"
        /\ Response(cost).cost = cost
    BY <2>1, EventType, KindOrder DEF Response
  <2>3. Event("ToolCallEmitted") \in Events
    BY EventType, KindOrder
  <2>4. trace' = Append(Append(trace, Response(cost)), Event("ToolCallEmitted"))
    BY <1>2, <2>1, <2>2, <2>3, TwoAppended
  <2> DEFINE l == Append(trace, Response(cost))
  <2>5. Price(Response(cost)) = cost
    BY <2>2 DEF Price
  <2>6. AddsUp(l, total_cost + Price(Response(cost)))
    BY <1>2, <2>2, AddsUpAppended
  <2>7. AddsUp(l, total_cost') /\ l \in Seq(Events) /\ total_cost' \in Nat
    BY <1>2, <2>1, <2>2, <2>5, <2>6
  <2> HIDE DEF l
  <2>8. AddsUp(Append(l, Event("ToolCallEmitted")), total_cost')
    BY <2>7, FreeAppended, KindOrder
  <2> QED
    BY <2>4, <2>8 DEF l
<1>7. CASE Observe
  <2>1. total_cost' = total_cost /\ Emitted(<<"ObservationReceived">>)
    BY <1>7 DEF Observe
  <2>2. trace' = Append(trace, Event("ObservationReceived"))
    BY <1>2, <2>1, EmittedOne, KindOrder DEF Emitted
  <2>3. AddsUp(Append(trace, Event("ObservationReceived")), total_cost)
    BY <1>2, FreeAppended, KindOrder
  <2> QED
    BY <2>1, <2>2, <2>3
<1>8. CASE Finish
  <2> DEFINE e == [kind |-> "AgentFinished", cost |-> total_cost]
  <2>1. trace' = Append(trace, e) /\ total_cost' = total_cost
    BY <1>8 DEF Finish
  <2>2. e \in Events /\ e.kind = "AgentFinished" /\ e.cost = total_cost /\ Price(e) = 0
    BY <1>2, EventType, KindOrder DEF Price
  <2> HIDE DEF e
  <2>3. AddsUp(Append(trace, e), total_cost + Price(e))
    BY <1>2, <2>2, AddsUpAppended
  <2>4. total_cost + Price(e) = total_cost
    BY <1>2, <2>2
  <2> QED
    BY <2>1, <2>3, <2>4
<1>9. CASE \/ \E r \in Responses : Respond(r)
           \/ UNCHANGED runVars
  BY <1>2, <1>9 DEF Respond, runVars
<1> QED
  BY <1>3, <1>5, <1>6, <1>7, <1>8, <1>9 DEF RunNext

LEMMA InitAdds == RunInit => Adding
<1> SUFFICES ASSUME RunInit  PROVE Adding
  OBVIOUS
<1>1. trace = Append(<<>>, Event("AgentStarted")) /\ total_cost = 0
  BY DEF RunInit
<1>2. <<>> \in Seq(Events) /\ Len(<<>>) = 0
  OBVIOUS
<1>3. AddsUp(<<>>, 0)
  <2>1. AreSums(Paid(<<>>), <<>>)
    BY <1>2, PaidSums
  <2>2. Paid(<<>>)[0] = 0
    BY <1>2, <2>1 DEF AreSums
  <2> QED
    BY <1>2, <2>2 DEF AddsUp
<1>4. AddsUp(Append(<<>>, Event("AgentStarted")), 0)
  BY <1>2, <1>3, FreeAppended, KindOrder
<1> QED
  BY <1>1, <1>4, InitTells DEF Adding

\* The total the run ends with is the sum of its responses' costs, and no
\* request is made once what was paid is beyond the limit, for every limit,
\* all costs and any number of steps and retries.
THEOREM CostsAreAdded == RunSpec => []CostsAddUp
<1>1. Adding => CostsAddUp
  BY DEF Adding, AddsUp, CostsAddUp
<1> QED
  BY <1>1, InitAdds, NextAdds, PTL DEF RunSpec

-----------------------------------------------------------------------------
(***************************************************************************)
(* The scanner and the grammar, mark by mark.  A string is followed from   *)
(* its first mark on, with the runs of backslashes in it; then, from the   *)
(* end of the text back to its start, where an object that is open at a    *)
(* mark closes, and what is found from a mark on that is in no object.     *)
(***************************************************************************)
\* The states of the scanner over the first n marks of a text.
AreStates(f, text, n) ==
    f = [i \in 0 .. n |->
            IF i = 0 THEN Outside(<<>>) ELSE Scan(f[i - 1], text[i], i)]

\* They exist, as every state is given by the one before.
LEMMA StatesExist ==
    ASSUME NEW text, NEW n \in Nat
    PROVE  \E f : AreStates(f, text, n)
<1> DEFINE T == {k \in Nat : \E f : AreStates(f, text, k)}
<1>1. 0 \in T
  <2>1. AreStates([i \in 0 .. 0 |-> Outside(<<>>)], text, 0)
    BY DEF AreStates
  <2> QED
    BY <2>1
<1>2. ASSUME NEW k \in Nat, k \in T  PROVE k + 1 \in T
  <2>1. PICK before : AreStates(before, text, k)
    BY <1>2
  <2> DEFINE after == [i \in 0 .. k + 1 |-> IF i \in 0 .. k THEN before[i]
                                            ELSE Scan(before[k], text[k + 1], k + 1)]
  <2>2. \A i \in 0 .. k + 1 : i # 0 => i - 1 \in 0 .. k /\ after[i - 1] = before[i - 1]
    OBVIOUS
  <2>3. ASSUME NEW i \in 0 .. k + 1
        PROVE  after[i] = IF i = 0 THEN Outside(<<>>) ELSE Scan(after[i - 1], text[i], i)
    <3>1. CASE i \in 0 .. k
      BY <2>1, <2>2, <3>1 DEF AreStates
    <3>2. CASE i = k + 1
      BY <2>2, <3>2
    <3> QED
      BY <3>1, <3>2
  <2>4. AreStates(after, text, k + 1)
    BY <2>3 DEF AreStates
  <2> HIDE DEF after
  <2>5. k + 1 \in Nat
    OBVIOUS
  <2> QED
    BY <2>4, <2>5
<1>3. n \in T
  <2> HIDE DEF T
  <2> QED
    BY <1>1, <1>2, NaturalsFromZero
<1> QED
  BY <1>3

\* The scanner starts outside of objects, and takes the marks one by one.
LEMMA ScannedSteps ==
    ASSUME NEW text, Len(text) \in Nat
    PROVE  /\ Scanned(text)[0] = Outside(<<>>)
           /\ \A i \in 1 .. Len(text) :
                 Scanned(text)[i] = Scan(Scanned(text)[i - 1], text[i], i)
<1>1. Scanned(text) = CHOOSE f : AreStates(f, text, Len(text))
  BY DEF Scanned, AreStates
<1>2. AreStates(Scanned(text), text, Len(text))
  BY <1>1, StatesExist
<1> QED
  BY <1>2 DEF AreStates

Spans == Nat \X Nat

\* What a state of the scanner holds.
Holds(s, start, depth, in_string, escape_next, found) ==
    /\ DOMAIN s = {"start", "depth", "in_string", "escape_next", "found"}
    /\ s.start = start
    /\ s.depth = depth
    /\ s.in_string = in_string
    /\ s.escape_next = escape_next
    /\ s.found = found

\* The four marks are four.
LEMMA MarksDiffer ==
    /\ OpenBrace # CloseBrace /\ OpenBrace # Quote /\ OpenBrace # Backslash
    /\ CloseBrace # Quote /\ CloseBrace # Backslash /\ Quote # Backslash
  BY DEF OpenBrace, CloseBrace, Quote, Backslash

LEMMA OutsideHolds ==
    ASSUME NEW F
    PROVE  Holds(Outside(F), 0, 0, FALSE, FALSE, F)
  BY DEF Holds, Outside

\* One mark in a string, in an object, and outside of one.
LEMMA ScanInString ==
    ASSUME NEW s, NEW a, a # 0, NEW d, NEW x \in BOOLEAN, NEW F,
           Holds(s, a, d, TRUE, x, F), NEW mark, NEW i
    PROVE  /\ x => Holds(Scan(s, mark, i), a, d, TRUE, FALSE, F)
           /\ ~x /\ mark = Backslash => Holds(Scan(s, mark, i), a, d, TRUE, TRUE, F)
           /\ ~x /\ mark = Quote => Holds(Scan(s, mark, i), a, d, FALSE, FALSE, F)
           /\ ~x /\ mark \notin {Quote, Backslash} =>
                 Holds(Scan(s, mark, i), a, d, TRUE, FALSE, F)
<1>1. Scan(s, mark, i) = InString(s, mark)
  BY DEF Scan, Holds
<1>2. x => Holds(InString(s, mark), a, d, TRUE, FALSE, F)
  BY DEF InString, Holds
<1>3. ~x => InString(s, mark) =
                [s EXCEPT !.escape_next = mark = Backslash, !.in_string = mark # Quote]
  BY DEF InString, Holds
<1>4. ASSUME NEW y \in BOOLEAN, NEW z \in BOOLEAN
      PROVE  Holds([s EXCEPT !.escape_next = y, !.in_string = z], a, d, z, y, F)
  BY DEF Holds
<1>5. /\ mark = Backslash => (mark = Backslash) = TRUE /\ (mark # Quote) = TRUE
      /\ mark = Quote => (mark = Backslash) = FALSE /\ (mark # Quote) = FALSE
      /\ mark \notin {Quote, Backslash} => (mark = Backslash) = FALSE /\ (mark # Quote) = TRUE
  BY MarksDiffer
<1> QED
  BY <1>1, <1>2, <1>3, <1>4, <1>5

LEMMA ScanInBraces ==
    ASSUME NEW s, NEW a, a # 0, NEW d, NEW F, Holds(s, a, d, FALSE, FALSE, F),
           NEW mark, NEW i
    PROVE  /\ mark = Quote => Holds(Scan(s, mark, i), a, d, TRUE, FALSE, F)
           /\ mark = OpenBrace => Holds(Scan(s, mark, i), a, d + 1, FALSE, FALSE, F)
           /\ mark = CloseBrace /\ d = 1 =>
                 Holds(Scan(s, mark, i), 0, 0, FALSE, FALSE, Append(F, <<a, i>>))
           /\ mark = CloseBrace /\ d # 1 =>
                 Holds(Scan(s, mark, i), a, d - 1, FALSE, FALSE, F)
           /\ mark \notin {Quote, OpenBrace, CloseBrace} =>
                 Holds(Scan(s, mark, i), a, d, FALSE, FALSE, F)
<1>1. Scan(s, mark, i) = InBraces(s, mark, i)
  BY DEF Scan, Holds
<1>2. mark = Quote => InBraces(s, mark, i) = [s EXCEPT !.in_string = TRUE]
  BY MarksDiffer DEF InBraces
<1>3. mark = OpenBrace => InBraces(s, mark, i) = [s EXCEPT !.depth = d + 1]
  BY MarksDiffer DEF InBraces, Holds
<1>4. mark = CloseBrace /\ d = 1 => InBraces(s, mark, i) = Outside(Append(F, <<a, i>>))
  BY MarksDiffer DEF InBraces, Holds
<1>5. mark = CloseBrace /\ d # 1 => InBraces(s, mark, i) = [s EXCEPT !.depth = d - 1]
  BY MarksDiffer DEF InBraces, Holds
<1>6. mark \notin {Quote, OpenBrace, CloseBrace} => InBraces(s, mark, i) = s
  BY DEF InBraces
<1>7. Holds([s EXCEPT !.in_string = TRUE], a, d, TRUE, FALSE, F)
  BY DEF Holds
<1>8. \A e : Holds([s EXCEPT !.depth = e], a, e, FALSE, FALSE, F)
  BY DEF Holds
<1>9. mark = Quote => Holds(Scan(s, mark, i), a, d, TRUE, FALSE, F)
  BY <1>1, <1>2, <1>7
<1>10. /\ mark = OpenBrace => Holds(Scan(s, mark, i), a, d + 1, FALSE, FALSE, F)
       /\ mark = CloseBrace /\ d # 1 => Holds(Scan(s, mark, i), a, d - 1, FALSE, FALSE, F)
  BY <1>1, <1>3, <1>5, <1>8
<1>11. mark = CloseBrace /\ d = 1 =>
         Holds(Scan(s, mark, i), 0, 0, FALSE, FALSE, Append(F, <<a, i>>))
  BY <1>1, <1>4, OutsideHolds
<1>12. mark \notin {Quote, OpenBrace, CloseBrace} =>
          Holds(Scan(s, mark, i), a, d, FALSE, FALSE, F)
  BY <1>1, <1>6
<1> QED
  BY <1>9, <1>10, <1>11, <1>12

LEMMA ScanOutside ==
    ASSUME NEW s, NEW d, NEW F, Holds(s, 0, d, FALSE, FALSE, F), NEW mark, NEW i
    PROVE  /\ mark = OpenBrace => Holds(Scan(s, mark, i), i, 1, FALSE, FALSE, F)
           /\ mark # OpenBrace => Scan(s, mark, i) = s
<1>1. Scan(s, mark, i) = IF mark = OpenBrace
                         THEN [Outside(F) EXCEPT !.start = i, !.depth = 1] ELSE s
  BY DEF Scan, Holds
<1>2. Holds([Outside(F) EXCEPT !.start = i, !.depth = 1], i, 1, FALSE, FALSE, F)
  BY OutsideHolds DEF Holds
<1> QED
  BY <1>1, <1>2

\* What every state of the scanner is like: a string is in an object, and an
\* escape in a string.
Fits(s) ==
    \E a \in Nat, d \in Nat, q \in BOOLEAN, x \in BOOLEAN, F \in Seq(Spans) :
        /\ Holds(s, a, d, q, x, F)
        /\ q => a # 0
        /\ x => q
        /\ a # 0 => d # 0

LEMMA FitsWith ==
    ASSUME NEW s, NEW a \in Nat, NEW d \in Nat, NEW q \in BOOLEAN, NEW x \in BOOLEAN,
           NEW F \in Seq(Spans), Holds(s, a, d, q, x, F), q => a # 0, x => q, a # 0 => d # 0
    PROVE  Fits(s)
  BY DEF Fits

\* A mark keeps a state of that kind.
LEMMA ScanFits ==
    ASSUME NEW s, Fits(s), NEW mark, NEW i \in Nat \ {0}
    PROVE  Fits(Scan(s, mark, i))
<1> DEFINE t == Scan(s, mark, i)
<1>1. PICK a \in Nat, d \in Nat, q \in BOOLEAN, x \in BOOLEAN, F \in Seq(Spans) :
         /\ Holds(s, a, d, q, x, F)
         /\ q => a # 0
         /\ x => q
         /\ a # 0 => d # 0
  BY DEF Fits
<1>2. CASE q
  <2>1. \E p \in BOOLEAN, y \in BOOLEAN : Holds(t, a, d, p, y, F) /\ (y => p)
    <3>1. q = TRUE /\ a # 0
      BY <1>1, <1>2
    <3>2. Holds(s, a, d, TRUE, x, F)
      BY <1>1, <3>1
    <3>3. \/ Holds(t, a, d, TRUE, FALSE, F) \/ Holds(t, a, d, TRUE, TRUE, F)
          \/ Holds(t, a, d, FALSE, FALSE, F)
      BY <3>1, <3>2, ScanInString
    <3> QED
      BY <3>3 DEF t
  <2> HIDE DEF t
  <2> QED
    BY <1>1, <1>2, <2>1, FitsWith DEF t
<1>3. CASE ~q /\ a # 0
  <2>1. Holds(s, a, d, FALSE, FALSE, F) /\ d \in Nat \ {0}
    <3>1. q = FALSE /\ x = FALSE
      BY <1>1, <1>3
    <3> QED
      BY <1>1, <1>3, <3>1
  <2>2. Append(F, <<a, i>>) \in Seq(Spans)
    <3>1. <<a, i>> \in Spans
      BY DEF Spans
    <3> QED
      BY <3>1, AppendProperties
  <2>3. d + 1 \in Nat \ {0} /\ (d # 1 => d - 1 \in Nat \ {0})
    BY <2>1
  <2>4. CASE mark = Quote
    <3>1. Holds(t, a, d, TRUE, FALSE, F)
      BY <1>3, <2>1, <2>4, ScanInBraces
    <3> QED
      BY <1>3, <2>1, <3>1, FitsWith
  <2>5. CASE mark = OpenBrace
    <3>1. Holds(t, a, d + 1, FALSE, FALSE, F)
      BY <1>3, <2>1, <2>5, ScanInBraces
    <3> QED
      BY <2>3, <3>1, FitsWith
  <2>6. CASE mark = CloseBrace /\ d = 1
    <3>1. Holds(t, 0, 0, FALSE, FALSE, Append(F, <<a, i>>))
      BY <1>3, <2>1, <2>6, ScanInBraces
    <3> QED
      BY <2>2, <3>1, FitsWith
  <2>7. CASE mark = CloseBrace /\ d # 1
    <3>1. Holds(t, a, d - 1, FALSE, FALSE, F)
      BY <1>3, <2>1, <2>7, ScanInBraces
    <3> QED
      BY <2>3, <2>7, <3>1, FitsWith
  <2>8. CASE mark \notin {Quote, OpenBrace, CloseBrace}
    <3>1. Holds(t, a, d, FALSE, FALSE, F)
      BY <1>3, <2>1, <2>8, ScanInBraces
    <3> QED
      BY <2>1, <3>1, FitsWith
  <2> QED
    BY <2>4, <2>5, <2>6, <2>7, <2>8
<1>4. CASE ~q /\ a = 0
  <2>1. Holds(s, 0, d, FALSE, FALSE, F)
    <3>1. q = FALSE /\ x = FALSE
      BY <1>1, <1>4
    <3> QED
      BY <1>1, <1>4, <3>1
  <2>2. CASE mark = OpenBrace
    <3>1. Holds(t, i, 1, FALSE, FALSE, F)
      BY <2>1, <2>2, ScanOutside
    <3>2. i \in Nat /\ 1 \in Nat /\ 1 # 0 /\ F \in Seq(Spans)
      BY <1>1
    <3> HIDE DEF t
    <3>3. Fits(t)
      BY <3>1, <3>2, FitsWith
    <3> QED
      BY <3>3 DEF t
  <2>3. CASE mark # OpenBrace
    <3>1. t = s
      BY <2>1, <2>3, ScanOutside
    <3>2. Holds(t, 0, d, FALSE, FALSE, F)
      BY <2>1, <3>1
    <3> QED
      BY <1>1, <3>2, FitsWith
  <2> QED
    BY <2>2, <2>3
<1> QED
  BY <1>2, <1>3, <1>4

\* Whatever the text, what the scanner finds is a sequence of spans.
LEMMA FoundTyped ==
    ASSUME NEW text, Len(text) \in Nat
    PROVE  find_json_objects(text) \in Seq(Spans)
<1> DEFINE st == Scanned(text)
           T == {k \in Nat : k <= Len(text) => Fits(st[k])}
<1>1. 0 \in T
  <2>1. st[0] = Outside(<<>>) /\ <<>> \in Seq(Spans)
    BY ScannedSteps
  <2>2. Fits(Outside(<<>>))
    BY <2>1, OutsideHolds, FitsWith
  <2> QED
    BY <2>1, <2>2
<1>2. ASSUME NEW k \in Nat, k \in T  PROVE k + 1 \in T
  <2> SUFFICES ASSUME k + 1 <= Len(text)  PROVE Fits(st[k + 1])
    OBVIOUS
  <2>1. Fits(st[k])
    <3>1. k <= Len(text)
      OBVIOUS
    <3> HIDE DEF st
    <3> QED
      BY <1>2, <3>1
  <2>2. st[k + 1] = Scan(st[k], text[k + 1], k + 1)
    <3>1. k + 1 \in 1 .. Len(text) /\ (k + 1) - 1 = k
      OBVIOUS
    <3> QED
      BY <3>1, ScannedSteps
  <2> HIDE DEF st
  <2> QED
    BY <2>1, <2>2, ScanFits
<1> HIDE DEF st
<1>3. Nat \subseteq T
  <2> HIDE DEF T
  <2> QED
    BY <1>1, <1>2, NaturalsFromZero
<1>4. Fits(st[Len(text)])
  BY <1>3
<1>5. st[Len(text)].found \in Seq(Spans)
  BY <1>4 DEF Fits, Holds
<1> QED
  BY <1>5 DEF find_json_objects, st

\* A call has one of the types there are.
IsCall(c) == c = NoCall \/ c.type \in DOMAIN Required

LEMMA CallOfTyped ==
    ASSUME NEW object
    PROVE  IsCall(CallOf(object))
  BY DEF IsCall, CallOf, Parsed

\* What is extracted is the last candidate that is a call, or nothing.
LEMMA CallTyped ==
    ASSUME NEW text, Len(text) \in Nat
    PROVE  IsCall(extract_tool_call(text))
<1> DEFINE found == find_json_objects(text)
           calls == [n \in DOMAIN found |-> CallOf(SubSeq(text, found[n][1], found[n][2]))]
           good  == {n \in DOMAIN calls : calls[n] # NoCall}
           Greatest(n) == \A k \in good : k <= n
<1>1. DOMAIN found = 1 .. Len(found) /\ Len(found) \in Nat
  <2> HIDE DEF found
  <2>1. found \in Seq(Spans)
    BY FoundTyped DEF found
  <2> QED
    BY <2>1
<1>2. \A n \in DOMAIN calls : IsCall(calls[n])
  <2> HIDE DEF found
  <2> QED
    BY CallOfTyped
<1>3. DOMAIN calls = 1 .. Len(found)
  <2> HIDE DEF found
  <2> QED
    BY <1>1
<1>4. extract_tool_call(text) = IF good = {} THEN NoCall ELSE calls[CHOOSE n \in good : Greatest(n)]
  BY DEF extract_tool_call
<1> HIDE DEF calls, found
<1>5. CASE good = {}
  BY <1>4, <1>5 DEF IsCall
<1>6. CASE good # {}
  <2>1. good \in SUBSET (0 .. Len(found))
    BY <1>1, <1>3
  <2> HIDE DEF good
  <2>2. \E m \in good : Greatest(m)
    BY <1>1, <1>6, <2>1, GreatestNat
  <2> HIDE DEF Greatest
  <2>3. (CHOOSE n \in good : Greatest(n)) \in good
    BY <2>2
  <2>4. IsCall(calls[CHOOSE n \in good : Greatest(n)])
    BY <1>2, <2>3 DEF good
  <2> QED
    BY <1>4, <1>6, <2>4
<1> QED
  BY <1>5, <1>6

-----------------------------------------------------------------------------
\* The run of backslashes before position e.
Run(text, k, e) == {j \in k + 1 .. e - 1 : \A i \in j .. e - 1 : text[i] = Backslash}

\* The count of a run of backslashes is 0 after the quote, one more after a
\* backslash, and 0 after any other mark.
LEMMA RunStarts ==
    ASSUME NEW text, NEW k \in Nat
    PROVE  BackslashesBefore(text, k, k + 1) = 0
<1>1. Run(text, k, k + 1) = {}
  BY DEF Run
<1> QED
  BY <1>1, FS_EmptySet DEF BackslashesBefore, Run

LEMMA RunCounted ==
    ASSUME NEW text, NEW k \in Nat, NEW e \in Nat
    PROVE  IsFiniteSet(Run(text, k, e)) /\ BackslashesBefore(text, k, e) \in Nat
<1>1. IsFiniteSet(k + 1 .. e - 1)
  <2>1. k + 1 \in Int /\ e - 1 \in Int
    OBVIOUS
  <2> QED
    BY <2>1, FS_Interval
<1>2. IsFiniteSet(Run(text, k, e))
  BY <1>1, FS_Subset DEF Run
<1> QED
  BY <1>2, FS_CardinalityType DEF BackslashesBefore, Run

LEMMA RunGrows ==
    ASSUME NEW text, NEW k \in Nat, NEW e \in Nat, k < e
    PROVE  /\ text[e] = Backslash =>
                 BackslashesBefore(text, k, e + 1) = BackslashesBefore(text, k, e) + 1
           /\ text[e] # Backslash => BackslashesBefore(text, k, e + 1) = 0
<1>1. CASE text[e] = Backslash
  <2>1. Run(text, k, e + 1) = Run(text, k, e) \cup {e}
    <3>1. ASSUME NEW j \in Run(text, k, e + 1)  PROVE j \in Run(text, k, e) \cup {e}
      BY DEF Run
    <3>2. ASSUME NEW j \in Run(text, k, e)  PROVE j \in Run(text, k, e + 1)
      <4>1. j \in k + 1 .. (e + 1) - 1 /\ j \in Int
        BY DEF Run
      <4>2. ASSUME NEW i \in j .. (e + 1) - 1  PROVE text[i] = Backslash
        <5>1. i = e \/ i \in j .. e - 1
          BY <4>1
        <5> QED
          BY <1>1, <5>1 DEF Run
      <4> QED
        BY <4>1, <4>2 DEF Run
    <3>3. e \in Run(text, k, e + 1)
      <4>1. \A i \in e .. (e + 1) - 1 : i = e
        OBVIOUS
      <4>2. e \in k + 1 .. (e + 1) - 1
        OBVIOUS
      <4> QED
        BY <1>1, <4>1, <4>2 DEF Run
    <3> QED
      BY <3>1, <3>2, <3>3
  <2>2. e \notin Run(text, k, e)
    BY DEF Run
  <2>3. Cardinality(Run(text, k, e + 1)) = Cardinality(Run(text, k, e)) + 1
    BY <2>1, <2>2, RunCounted, FS_AddElement
  <2> QED
    BY <1>1, <2>3 DEF BackslashesBefore, Run
<1>2. CASE text[e] # Backslash
  <2>1. Run(text, k, e + 1) = {}
    <3> SUFFICES ASSUME NEW j \in Run(text, k, e + 1)  PROVE FALSE
      OBVIOUS
    <3>1. e \in j .. (e + 1) - 1
      BY DEF Run
    <3> QED
      BY <1>2, <3>1 DEF Run
  <2> QED
    BY <1>2, <2>1, FS_EmptySet DEF BackslashesBefore, Run
<1> QED
  BY <1>1, <1>2

\* Quotes that may close the string that opens at k.
Closing(text, k, e) == text[e] = Quote /\ BackslashesBefore(text, k, e) % 2 = 0

\* The end of a string is the first quote that may close it.
LEMMA StringEndFirst ==
    ASSUME NEW text, NEW n \in Nat, n = Len(text), NEW k \in 1 .. n
    PROVE  \/ /\ StringEnd(text, k) = 0
              /\ \A e \in k + 1 .. n : ~Closing(text, k, e)
           \/ /\ StringEnd(text, k) \in k + 1 .. n
              /\ Closing(text, k, StringEnd(text, k))
              /\ \A e \in k + 1 .. StringEnd(text, k) - 1 : ~Closing(text, k, e)
<1> DEFINE ends == {e \in k + 1 .. n : Closing(text, k, e)}
           First(e) == \A f \in ends : e <= f
<1>1. StringEnd(text, k) = IF ends = {} THEN 0 ELSE CHOOSE e \in ends : First(e)
  BY DEF StringEnd, Closing
<1>2. CASE ends = {}
  BY <1>1, <1>2
<1>3. CASE ends # {}
  <2>1. ends \in SUBSET Nat
    OBVIOUS
  <2>2. PICK e \in ends : First(e)
    <3> HIDE DEF ends
    <3> QED
      BY <1>3, <2>1, LeastNat
  <2>3. StringEnd(text, k) \in ends /\ First(StringEnd(text, k))
    <3> HIDE DEF ends, First
    <3>1. StringEnd(text, k) = CHOOSE f \in ends : First(f)
      BY <1>1, <1>3
    <3> QED
      BY <2>2, <3>1
  <2> DEFINE s == StringEnd(text, k)
  <2>4. s \in k + 1 .. n /\ Closing(text, k, s)
    <3> HIDE DEF s
    <3>1. s \in ends
      BY <2>3 DEF s
    <3> QED
      BY <3>1
  <2>5. ASSUME NEW g \in k + 1 .. s - 1, Closing(text, k, g)  PROVE FALSE
    <3> HIDE DEF s
    <3>1. g \in ends
      BY <2>4, <2>5
    <3>2. s <= g
      BY <2>3, <3>1 DEF s
    <3> QED
      BY <2>4, <3>2
  <2> QED
    BY <2>4, <2>5
<1> QED
  BY <1>2, <1>3

\* While a string is open, an escape is an odd run of backslashes.
Inside(text, k, e, a, d, F) ==
    Holds(Scanned(text)[e - 1], a, d, TRUE, BackslashesBefore(text, k, e) % 2 = 1, F)

\* The quote that opens a string starts it, and each mark but a quote that may
\* close it goes on with it.
LEMMA InsideStarts ==
    ASSUME NEW text, Len(text) \in Nat, NEW k \in 1 .. Len(text), NEW a, NEW d, NEW F,
           Holds(Scanned(text)[k], a, d, TRUE, FALSE, F)
    PROVE  Inside(text, k, k + 1, a, d, F)
<1>1. BackslashesBefore(text, k, k + 1) = 0
  BY RunStarts
<1>2. (k + 1) - 1 = k
  OBVIOUS
<1>3. (0 % 2 = 1) = FALSE
  OBVIOUS
<1> QED
  BY <1>1, <1>2, <1>3 DEF Inside

LEMMA Halves == \A b \in Nat : /\ b % 2 \in {0, 1}
                               /\ b % 2 = 1 => (b + 1) % 2 = 0
                               /\ b % 2 = 0 => (b + 1) % 2 = 1
  OBVIOUS

LEMMA InsideGoesOn ==
    ASSUME NEW text, Len(text) \in Nat, NEW k \in 1 .. Len(text),
           NEW e \in k + 1 .. Len(text), NEW a, a # 0, NEW d, NEW F,
           Inside(text, k, e, a, d, F)
    PROVE  /\ ~Closing(text, k, e) => Inside(text, k, e + 1, a, d, F)
           /\ Closing(text, k, e) => Holds(Scanned(text)[e], a, d, FALSE, FALSE, F)
<1> DEFINE b == BackslashesBefore(text, k, e)
           c == BackslashesBefore(text, k, e + 1)
           s == Scanned(text)[e - 1]
           t == Scanned(text)[e]
<1>1. t = Scan(s, text[e], e)
  <2>1. e \in 1 .. Len(text)
    OBVIOUS
  <2> QED
    BY <2>1, ScannedSteps
<1>2. b \in Nat
  BY RunCounted
<1>3. /\ text[e] = Backslash => c = b + 1
      /\ text[e] # Backslash => c = 0
  <2>1. k \in Nat /\ e \in Nat /\ k < e
    OBVIOUS
  <2> QED
    BY <2>1, RunGrows
<1>4. Holds(s, a, d, TRUE, b % 2 = 1, F)
  BY DEF Inside
<1>5. Closing(text, k, e) <=> text[e] = Quote /\ b % 2 = 0
  BY DEF Closing
<1>6. (e + 1) - 1 = e /\ 0 % 2 = 0
  OBVIOUS
<1>7. Inside(text, k, e + 1, a, d, F) <=> Holds(t, a, d, TRUE, c % 2 = 1, F)
  BY <1>6 DEF Inside
<1> HIDE DEF b, c, s, t
<1>8. CASE b % 2 = 1
  <2>1. Holds(s, a, d, TRUE, TRUE, F)
    <3>1. (b % 2 = 1) = TRUE
      BY <1>8
    <3> QED
      BY <1>4, <3>1
  <2>2. Holds(t, a, d, TRUE, FALSE, F)
    BY <1>1, <2>1, ScanInString
  <2>3. (c % 2 = 1) = FALSE
    BY <1>2, <1>3, <1>6, <1>8, Halves
  <2>4. Inside(text, k, e + 1, a, d, F)
    BY <1>7, <2>2, <2>3
  <2>5. ~Closing(text, k, e)
    BY <1>5, <1>8
  <2> QED
    BY <2>4, <2>5
<1>9. CASE b % 2 = 0
  <2>1. Holds(s, a, d, TRUE, FALSE, F)
    <3>1. (b % 2 = 1) = FALSE
      BY <1>9
    <3> QED
      BY <1>4, <3>1
  <2>2. CASE text[e] = Backslash
    <3>1. Holds(t, a, d, TRUE, TRUE, F)
      BY <1>1, <2>1, <2>2, ScanInString
    <3>2. (c % 2 = 1) = TRUE
      BY <1>2, <1>3, <1>9, <2>2, Halves
    <3> QED
      BY <1>5, <1>7, <2>2, <3>1, <3>2, MarksDiffer
  <2>3. CASE text[e] = Quote
    <3>1. Holds(t, a, d, FALSE, FALSE, F)
      BY <1>1, <2>1, <2>3, ScanInString
    <3> QED
      BY <1>5, <1>9, <2>3, <3>1 DEF t
  <2>4. CASE text[e] \notin {Quote, Backslash}
    <3>1. Holds(t, a, d, TRUE, FALSE, F)
      BY <1>1, <2>1, <2>4, ScanInString
    <3>2. (c % 2 = 1) = FALSE
      BY <1>3, <1>6, <2>4
    <3> QED
      BY <1>5, <1>7, <2>4, <3>1, <3>2
  <2> QED
    BY <2>2, <2>3, <2>4
<1> QED
  BY <1>2, <1>8, <1>9, Halves

\* Up to the first quote that closes it the scanner is in the string.
LEMMA InsideUntil ==
    ASSUME NEW text, NEW n \in Nat, n = Len(text), NEW k \in 1 .. n, NEW a, a # 0,
           NEW d, NEW F, Inside(text, k, k + 1, a, d, F),
           NEW e \in k + 1 .. n + 1, \A f \in k + 1 .. e - 1 : ~Closing(text, k, f)
    PROVE  Inside(text, k, e, a, d, F)
<1> DEFINE T == {m \in Nat : k + 1 + m <= e => Inside(text, k, k + 1 + m, a, d, F)}
<1>1. 0 \in T
  <2>1. k + 1 + 0 = k + 1
    OBVIOUS
  <2> QED
    BY <2>1
<1>2. ASSUME NEW m \in Nat, m \in T  PROVE m + 1 \in T
  <2> SUFFICES ASSUME k + 1 + (m + 1) <= e  PROVE Inside(text, k, k + 1 + (m + 1), a, d, F)
    OBVIOUS
  <2> DEFINE f == k + 1 + m
  <2>1. f \in k + 1 .. Len(text) /\ f \in k + 1 .. e - 1 /\ k + 1 + (m + 1) = f + 1 /\ f <= e
    OBVIOUS
  <2>2. Inside(text, k, f, a, d, F)
    BY <1>2, <2>1
  <2>3. ~Closing(text, k, f)
    BY <2>1
  <2> HIDE DEF f
  <2>4. Inside(text, k, f + 1, a, d, F)
    BY <2>1, <2>2, <2>3, InsideGoesOn
  <2> QED
    BY <2>1, <2>4
<1>3. Nat \subseteq T
  <2> HIDE DEF T
  <2> QED
    BY <1>1, <1>2, NaturalsFromZero
<1>4. e - (k + 1) \in Nat /\ k + 1 + (e - (k + 1)) = e
  OBVIOUS
<1>5. e - (k + 1) \in T
  <2> HIDE DEF T
  <2> QED
    BY <1>3, <1>4
<1> QED
  BY <1>4, <1>5

\* A string that is opened closes where the grammar says, or never.
LEMMA StringScanned ==
    ASSUME NEW text, NEW n \in Nat, n = Len(text), NEW k \in 1 .. n, NEW a, a # 0,
           NEW d, NEW F, Holds(Scanned(text)[k], a, d, TRUE, FALSE, F)
    PROVE  \/ StringEnd(text, k) = 0 /\ Scanned(text)[n].found = F
           \/ /\ StringEnd(text, k) \in k + 1 .. n
              /\ Holds(Scanned(text)[StringEnd(text, k)], a, d, FALSE, FALSE, F)
<1>1. Inside(text, k, k + 1, a, d, F)
  BY InsideStarts
<1> DEFINE e == StringEnd(text, k)
<1>2. CASE e = 0 /\ \A f \in k + 1 .. n : ~Closing(text, k, f)
  <2>1. n + 1 \in k + 1 .. n + 1 /\ (n + 1) - 1 = n
    OBVIOUS
  <2>2. Inside(text, k, n + 1, a, d, F)
    BY <1>1, <1>2, <2>1, InsideUntil
  <2>3. Scanned(text)[n].found = F
    BY <2>1, <2>2 DEF Inside, Holds
  <2> QED
    BY <1>2, <2>3
<1>3. CASE /\ e \in k + 1 .. n /\ Closing(text, k, e)
           /\ \A f \in k + 1 .. e - 1 : ~Closing(text, k, f)
  <2> HIDE DEF e
  <2>1. e \in k + 1 .. n + 1
    BY <1>3
  <2>2. Inside(text, k, e, a, d, F)
    BY <1>1, <1>3, <2>1, InsideUntil
  <2>3. Holds(Scanned(text)[e], a, d, FALSE, FALSE, F)
    BY <1>3, <2>2, InsideGoesOn
  <2> QED
    BY <1>3, <2>3 DEF e
<1> QED
  BY <1>2, <1>3, StringEndFirst

-----------------------------------------------------------------------------
Depths == Nat \ {0}

\* Where an object of a depth closes, from position i on.
EndAt(f, text, i, depth) ==
    IF i > Len(text) THEN 0
    ELSE CASE text[i] = Quote ->
                LET e == StringEnd(text, i)
                IN  IF e = 0 THEN 0 ELSE f[e + 1][depth]
           [] text[i] = OpenBrace  -> f[i + 1][depth + 1]
           [] text[i] = CloseBrace ->
                IF depth = 1 THEN i ELSE f[i + 1][depth - 1]
           [] OTHER -> f[i + 1][depth]

\* f gives the ends from position m on.
EndsFrom(f, text, m) ==
    /\ f = [i \in m .. Len(text) + 1 |-> f[i]]
    /\ \A i \in m .. Len(text) + 1 : f[i] = [depth \in Nat \ {0} |-> EndAt(f, text, i, depth)]

AreEnds(f, text) ==
    f = [i \in 1 .. Len(text) + 1 |-> [depth \in Nat \ {0} |-> EndAt(f, text, i, depth)]]

\* The end at i depends on those after it.
LEMMA EndAtAgrees ==
    ASSUME NEW text, Len(text) \in Nat, NEW i \in 1 .. Len(text) + 1, NEW depth, NEW f, NEW g,
           \A j \in i + 1 .. Len(text) + 1 : f[j] = g[j]
    PROVE  EndAt(f, text, i, depth) = EndAt(g, text, i, depth)
<1>1. CASE i > Len(text)
  BY <1>1 DEF EndAt
<1>2. CASE ~(i > Len(text))
  <2>1. i + 1 \in i + 1 .. Len(text) + 1 /\ i \in 1 .. Len(text)
    BY <1>2
  <2>2. f[i + 1] = g[i + 1]
    BY <2>1
  <2>3. StringEnd(text, i) # 0 => f[StringEnd(text, i) + 1] = g[StringEnd(text, i) + 1]
    <3> SUFFICES ASSUME StringEnd(text, i) # 0
                 PROVE  f[StringEnd(text, i) + 1] = g[StringEnd(text, i) + 1]
      OBVIOUS
    <3> DEFINE e == StringEnd(text, i)
    <3>1. e \in i + 1 .. Len(text)
      BY <2>1, StringEndFirst
    <3> HIDE DEF e
    <3>2. e + 1 \in i + 1 .. Len(text) + 1
      BY <3>1
    <3>3. f[e + 1] = g[e + 1]
      BY <3>2
    <3> QED
      BY <3>3 DEF e
  <2> QED
    BY <1>2, <2>2, <2>3 DEF EndAt
<1> QED
  BY <1>1, <1>2

\* The ends exist, as each depends on those after it.
LEMMA EndsExist ==
    ASSUME NEW text, Len(text) \in Nat
    PROVE  \E f : AreEnds(f, text)
<1> DEFINE n == Len(text) + 1
           T == {m \in 1 .. n : \E f : EndsFrom(f, text, m)}
<1>1. ASSUME NEW m \in 1 .. n, \A j \in m + 1 .. n : j \in T  PROVE m \in T
  <2>1. \E f : f = [i \in m + 1 .. n |-> f[i]] /\ \A i \in m + 1 .. n :
                  f[i] = [depth \in Nat \ {0} |-> EndAt(f, text, i, depth)]
    <3>1. CASE m = n
      <4> DEFINE f == [i \in m + 1 .. n |-> 0]
      <4>1. f = [i \in m + 1 .. n |-> f[i]] /\ ~ \E i \in m + 1 .. n : TRUE
        BY <3>1
      <4> HIDE DEF f
      <4> QED
        BY <4>1
    <3>2. CASE m # n
      <4>1. m + 1 \in T
        BY <1>1, <3>2
      <4> QED
        BY <4>1 DEF EndsFrom
    <3> QED
      BY <3>1, <3>2
  <2>2. PICK f : f = [i \in m + 1 .. n |-> f[i]] /\ \A i \in m + 1 .. n :
                    f[i] = [depth \in Nat \ {0} |-> EndAt(f, text, i, depth)]
    BY <2>1
  <2> DEFINE g == [i \in m .. n |-> IF i \in m + 1 .. n THEN f[i]
                                    ELSE [depth \in Nat \ {0} |-> EndAt(f, text, i, depth)]]
  <2>3. \A i \in m + 1 .. n : f[i] = g[i]
    OBVIOUS
  <2>4. g[m] = [depth \in Nat \ {0} |-> EndAt(f, text, m, depth)] /\ g = [i \in m .. n |-> g[i]]
    OBVIOUS
  <2> HIDE DEF g
  <2>5. ASSUME NEW i \in m .. n
        PROVE  g[i] = [depth \in Nat \ {0} |-> EndAt(g, text, i, depth)]
    <3>1. g[i] = [depth \in Nat \ {0} |-> EndAt(f, text, i, depth)]
      <4>1. i = m \/ i \in m + 1 .. n
        OBVIOUS
      <4> QED
        BY <2>2, <2>3, <2>4, <4>1
    <3>2. \A depth : EndAt(f, text, i, depth) = EndAt(g, text, i, depth)
      <4>1. i \in 1 .. Len(text) + 1 /\ \A j \in i + 1 .. Len(text) + 1 : j \in m + 1 .. n
        OBVIOUS
      <4> QED
        BY <2>3, <4>1, EndAtAgrees
    <3> QED
      BY <3>1, <3>2
  <2>6. EndsFrom(g, text, m)
    BY <2>4, <2>5 DEF EndsFrom
  <2> QED
    BY <2>6
<1>2. 1 \in T
  <2> HIDE DEF T
  <2>1. n \in Nat /\ 1 \in 1 .. n
    OBVIOUS
  <2> HIDE DEF n
  <2>2. 1 .. n \subseteq T
    BY <1>1, <2>1, Downwards
  <2> QED
    BY <2>1, <2>2
<1>3. PICK f : EndsFrom(f, text, 1)
  BY <1>2
<1>4. f = [i \in 1 .. n |-> [depth \in Nat \ {0} |-> EndAt(f, text, i, depth)]]
  <2>1. f = [i \in 1 .. n |-> f[i]]
    BY <1>3 DEF EndsFrom
  <2>2. \A i \in 1 .. n : f[i] = [depth \in Nat \ {0} |-> EndAt(f, text, i, depth)]
    BY <1>3 DEF EndsFrom
  <2> HIDE DEF n
  <2> QED
    BY <2>1, <2>2
<1> QED
  BY <1>4 DEF AreEnds

\* The ends of objects over a text.
Ends(text) == CHOOSE f : AreEnds(f, text)

LEMMA EndsGiven ==
    ASSUME NEW text, Len(text) \in Nat
    PROVE  /\ \A k : ObjectEnd(text, k) = Ends(text)[k + 1][1]
           /\ \A i \in 1 .. Len(text) + 1, depth \in Depths :
                 Ends(text)[i][depth] = EndAt(Ends(text), text, i, depth)
<1>1. \A k : ObjectEnd(text, k) = Ends(text)[k + 1][1]
  BY DEF ObjectEnd, Ends, AreEnds, EndAt
<1>2. AreEnds(Ends(text), text)
  BY EndsExist DEF Ends
<1>3. \A i \in 1 .. Len(text) + 1 :
         Ends(text)[i] = [depth \in Nat \ {0} |-> EndAt(Ends(text), text, i, depth)]
  BY <1>2 DEF AreEnds
<1> QED
  BY <1>1, <1>3 DEF Depths

EndIn(text, i, depth) ==
    Ends(text)[i][depth] = 0 \/ Ends(text)[i][depth] \in i .. Len(text)

\* The object that starts at a is found with the end e, or never if e is 0.
Reached(text, e, a, F) ==
    \/ e = 0 /\ Scanned(text)[Len(text)].found = F
    \/ e # 0 /\ Holds(Scanned(text)[e], 0, 0, FALSE, FALSE, Append(F, <<a, e>>))

\* An object open at i closes where the grammar says.
ClosesFrom(text, i, depth) ==
    /\ EndIn(text, i, depth)
    /\ \A a, F : a # 0 /\ Holds(Scanned(text)[i - 1], a, depth, FALSE, FALSE, F) =>
          Reached(text, Ends(text)[i][depth], a, F)

Closes(text, i) == \A depth \in Depths : ClosesFrom(text, i, depth)

\* The grammar goes on at j, where the scanner is as it was before i.
LEMMA ClosesLater ==
    ASSUME NEW text, Len(text) \in Nat, NEW i \in 1 .. Len(text),
           NEW j \in i + 1 .. Len(text) + 1, NEW depth, NEW other, ClosesFrom(text, j, other),
           Ends(text)[i][depth] = Ends(text)[j][other],
           \A a, F : a # 0 /\ Holds(Scanned(text)[i - 1], a, depth, FALSE, FALSE, F) =>
              Holds(Scanned(text)[j - 1], a, other, FALSE, FALSE, F)
    PROVE  ClosesFrom(text, i, depth)
<1>1. EndIn(text, i, depth)
  <2>1. Ends(text)[j][other] = 0 \/ Ends(text)[j][other] \in j .. Len(text)
    BY DEF ClosesFrom, EndIn
  <2>2. \A e \in j .. Len(text) : e \in i .. Len(text)
    OBVIOUS
  <2> QED
    BY <2>1, <2>2 DEF EndIn
<1>2. ASSUME NEW a, NEW F, a # 0, Holds(Scanned(text)[i - 1], a, depth, FALSE, FALSE, F)
      PROVE  Reached(text, Ends(text)[i][depth], a, F)
  <2>1. Holds(Scanned(text)[j - 1], a, other, FALSE, FALSE, F)
    BY <1>2
  <2>2. Reached(text, Ends(text)[j][other], a, F)
    BY <1>2, <2>1 DEF ClosesFrom
  <2> QED
    BY <2>2
<1> QED
  BY <1>1, <1>2 DEF ClosesFrom

\* What is so after a mark is so before it, whatever the mark.
LEMMA ClosesBefore ==
    ASSUME NEW text, Len(text) \in Nat, NEW i \in 1 .. Len(text) + 1,
           \A j \in i + 1 .. Len(text) + 1 : Closes(text, j)
    PROVE  Closes(text, i)
<1> SUFFICES ASSUME NEW depth \in Depths  PROVE ClosesFrom(text, i, depth)
  BY DEF Closes
<1> DEFINE E == Ends(text)[i][depth]
<1>1. E = EndAt(Ends(text), text, i, depth)
  BY EndsGiven
<1>2. CASE i = Len(text) + 1
  <2>1. E = 0
    BY <1>1, <1>2 DEF EndAt
  <2>2. i - 1 = Len(text)
    BY <1>2
  <2> QED
    BY <2>1, <2>2 DEF ClosesFrom, EndIn, Reached, Holds
<1>3. CASE i # Len(text) + 1
  <2>1. i \in 1 .. Len(text) /\ i + 1 \in i + 1 .. Len(text) + 1 /\ ~(i > Len(text))
        /\ (i + 1) - 1 = i
    BY <1>3
  <2>2. Scanned(text)[i] = Scan(Scanned(text)[i - 1], text[i], i)
    BY <2>1, ScannedSteps
  <2>3. \A other \in Depths : ClosesFrom(text, i + 1, other)
    BY <2>1 DEF Closes
  <2>4. CASE text[i] = Quote
    <3> DEFINE s == StringEnd(text, i)
    <3>1. E = IF s = 0 THEN 0 ELSE Ends(text)[s + 1][depth]
      BY <1>1, <2>1, <2>4, MarksDiffer DEF EndAt
    <3>2. ASSUME NEW a, NEW F, a # 0, Holds(Scanned(text)[i - 1], a, depth, FALSE, FALSE, F)
          PROVE  \/ s = 0 /\ Scanned(text)[Len(text)].found = F
                 \/ s \in i + 1 .. Len(text) /\ Holds(Scanned(text)[s], a, depth, FALSE, FALSE, F)
      <4>1. Holds(Scanned(text)[i], a, depth, TRUE, FALSE, F)
        BY <2>2, <2>4, <3>2, ScanInBraces
      <4> QED
        BY <2>1, <3>2, <4>1, StringScanned
    <3>3. s = 0 \/ s \in i + 1 .. Len(text)
      BY <2>1, StringEndFirst
    <3> HIDE DEF s
    <3>4. CASE s = 0
      <4>1. E = 0 /\ ~(0 \in i + 1 .. Len(text))
        BY <3>1, <3>4
      <4>2. ASSUME NEW a, NEW F, a # 0,
                   Holds(Scanned(text)[i - 1], a, depth, FALSE, FALSE, F)
            PROVE  Reached(text, E, a, F)
        BY <3>2, <3>4, <4>1, <4>2 DEF Reached
      <4>3. EndIn(text, i, depth)
        BY <4>1 DEF EndIn
      <4> QED
        BY <4>2, <4>3 DEF ClosesFrom
    <3>5. CASE s # 0
      <4>1. s + 1 \in i + 1 .. Len(text) + 1 /\ (s + 1) - 1 = s
        BY <3>3, <3>5
      <4>2. E = Ends(text)[s + 1][depth]
        BY <3>1, <3>5
      <4>3. ClosesFrom(text, s + 1, depth)
        BY <4>1 DEF Closes
      <4>4. \A a, F : a # 0 /\ Holds(Scanned(text)[i - 1], a, depth, FALSE, FALSE, F) =>
               Holds(Scanned(text)[(s + 1) - 1], a, depth, FALSE, FALSE, F)
        BY <3>2, <3>5, <4>1
      <4> QED
        BY <2>1, <4>1, <4>2, <4>3, <4>4, ClosesLater
    <3> QED
      BY <3>4, <3>5
  <2>5. CASE text[i] = OpenBrace
    <3>1. E = Ends(text)[i + 1][depth + 1]
      BY <1>1, <2>1, <2>5, MarksDiffer DEF EndAt
    <3>2. depth + 1 \in Depths
      BY DEF Depths
    <3>3. ASSUME NEW a, NEW F, a # 0, Holds(Scanned(text)[i - 1], a, depth, FALSE, FALSE, F)
          PROVE  Holds(Scanned(text)[(i + 1) - 1], a, depth + 1, FALSE, FALSE, F)
      BY <2>1, <2>2, <2>5, <3>3, ScanInBraces
    <3>4. ClosesFrom(text, i + 1, depth + 1)
      BY <2>3, <3>2
    <3> QED
      BY <2>1, <3>1, <3>3, <3>4, ClosesLater
  <2>6. CASE text[i] = CloseBrace /\ depth = 1
    <3>1. E = i
      BY <1>1, <2>1, <2>6, MarksDiffer DEF EndAt
    <3>2. ASSUME NEW a, NEW F, a # 0, Holds(Scanned(text)[i - 1], a, depth, FALSE, FALSE, F)
          PROVE  Holds(Scanned(text)[i], 0, 0, FALSE, FALSE, Append(F, <<a, i>>))
      BY <2>2, <2>6, <3>2, ScanInBraces
    <3>3. i # 0 /\ i \in i .. Len(text)
      BY <2>1
    <3>4. EndIn(text, i, depth)
      BY <3>1, <3>3 DEF EndIn
    <3> QED
      BY <3>1, <3>2, <3>3, <3>4 DEF ClosesFrom, Reached
  <2>7. CASE text[i] = CloseBrace /\ depth # 1
    <3>1. E = Ends(text)[i + 1][depth - 1]
      BY <1>1, <2>1, <2>7, MarksDiffer DEF EndAt
    <3>2. depth - 1 \in Depths
      BY <2>7 DEF Depths
    <3>3. ASSUME NEW a, NEW F, a # 0, Holds(Scanned(text)[i - 1], a, depth, FALSE, FALSE, F)
          PROVE  Holds(Scanned(text)[(i + 1) - 1], a, depth - 1, FALSE, FALSE, F)
      BY <2>1, <2>2, <2>7, <3>3, ScanInBraces
    <3>4. ClosesFrom(text, i + 1, depth - 1)
      BY <2>3, <3>2
    <3> QED
      BY <2>1, <3>1, <3>3, <3>4, ClosesLater
  <2>8. CASE text[i] \notin {Quote, OpenBrace, CloseBrace}
    <3>1. E = Ends(text)[i + 1][depth]
      BY <1>1, <2>1, <2>8 DEF EndAt
    <3>2. ASSUME NEW a, NEW F, a # 0, Holds(Scanned(text)[i - 1], a, depth, FALSE, FALSE, F)
          PROVE  Holds(Scanned(text)[(i + 1) - 1], a, depth, FALSE, FALSE, F)
      BY <2>1, <2>2, <2>8, <3>2, ScanInBraces
    <3>3. ClosesFrom(text, i + 1, depth)
      BY <2>3
    <3> QED
      BY <2>1, <3>1, <3>2, <3>3, ClosesLater
  <2> QED
    BY <2>4, <2>5, <2>6, <2>7, <2>8
<1> QED
  BY <1>2, <1>3

LEMMA AllClose ==
    ASSUME NEW text, Len(text) \in Nat, NEW i \in 1 .. Len(text) + 1
    PROVE  Closes(text, i)
<1> DEFINE n == Len(text) + 1
           T == {j \in 1 .. n : Closes(text, j)}
<1>1. ASSUME NEW j \in 1 .. n, \A k \in j + 1 .. n : k \in T  PROVE j \in T
  <2>1. \A k \in j + 1 .. Len(text) + 1 : Closes(text, k)
    BY <1>1
  <2> QED
    BY <2>1, ClosesBefore
<1>2. n \in Nat
  OBVIOUS
<1>3. 1 .. n \subseteq T
  <2> HIDE DEF T, n
  <2> QED
    BY <1>1, <1>2, Downwards
<1> QED
  BY <1>3

\* An object that opens at k is found, and ends where the grammar says.
LEMMA ObjectScanned ==
    ASSUME NEW text, Len(text) \in Nat, NEW k \in 1 .. Len(text)
    PROVE  /\ ObjectEnd(text, k) \in {0} \cup (k + 1 .. Len(text))
           /\ \A F : Holds(Scanned(text)[k], k, 1, FALSE, FALSE, F) =>
                 Reached(text, ObjectEnd(text, k), k, F)
<1>1. k + 1 \in 1 .. Len(text) + 1 /\ (k + 1) - 1 = k /\ k # 0 /\ 1 \in Depths
  BY DEF Depths
<1>2. ObjectEnd(text, k) = Ends(text)[k + 1][1]
  BY EndsGiven
<1>3. ClosesFrom(text, k + 1, 1)
  BY <1>1, AllClose DEF Closes
<1> QED
  BY <1>1, <1>2, <1>3 DEF ClosesFrom, EndIn

\* The objects from position k on.
FromAt(f, text, k) ==
    IF k > Len(text) THEN <<>>
    ELSE IF text[k] # OpenBrace THEN f[k + 1]
    ELSE LET e == ObjectEnd(text, k)
         IN  IF e = 0 THEN <<>> ELSE <<<<k, e>>>> \o f[e + 1]

FromFrom(f, text, m) ==
    /\ f = [k \in m .. Len(text) + 1 |-> f[k]]
    /\ \A k \in m .. Len(text) + 1 : f[k] = FromAt(f, text, k)

AreFrom(f, text) == f = [k \in 1 .. Len(text) + 1 |-> FromAt(f, text, k)]

LEMMA FromAtAgrees ==
    ASSUME NEW text, Len(text) \in Nat, NEW k \in 1 .. Len(text) + 1, NEW f, NEW g,
           \A j \in k + 1 .. Len(text) + 1 : f[j] = g[j]
    PROVE  FromAt(f, text, k) = FromAt(g, text, k)
<1>1. CASE k > Len(text)
  BY <1>1 DEF FromAt
<1>2. CASE ~(k > Len(text))
  <2> DEFINE e == ObjectEnd(text, k)
  <2>1. k + 1 \in k + 1 .. Len(text) + 1 /\ k \in 1 .. Len(text)
    BY <1>2
  <2>2. e = 0 \/ e \in k + 1 .. Len(text)
    BY <2>1, ObjectScanned
  <2>3. FromAt(f, text, k) = (IF text[k] # OpenBrace THEN f[k + 1]
                              ELSE IF e = 0 THEN <<>> ELSE <<<<k, e>>>> \o f[e + 1])
    BY <1>2 DEF FromAt
  <2>4. FromAt(g, text, k) = (IF text[k] # OpenBrace THEN g[k + 1]
                              ELSE IF e = 0 THEN <<>> ELSE <<<<k, e>>>> \o g[e + 1])
    BY <1>2 DEF FromAt
  <2> HIDE DEF e
  <2>5. e # 0 => e + 1 \in k + 1 .. Len(text) + 1
    BY <2>2
  <2> QED
    BY <2>1, <2>3, <2>4, <2>5
<1> QED
  BY <1>1, <1>2

\* The objects from each position on exist, by the same argument.
LEMMA FromExist ==
    ASSUME NEW text, Len(text) \in Nat
    PROVE  \E f : AreFrom(f, text)
<1> DEFINE n == Len(text) + 1
           T == {m \in 1 .. n : \E f : FromFrom(f, text, m)}
<1>1. ASSUME NEW m \in 1 .. n, \A j \in m + 1 .. n : j \in T  PROVE m \in T
  <2>1. \E f : f = [i \in m + 1 .. n |-> f[i]]
               /\ \A i \in m + 1 .. n : f[i] = FromAt(f, text, i)
    <3>1. CASE m = n
      <4> DEFINE f == [i \in m + 1 .. n |-> 0]
      <4>1. f = [i \in m + 1 .. n |-> f[i]] /\ ~ \E i \in m + 1 .. n : TRUE
        BY <3>1
      <4> HIDE DEF f
      <4> QED
        BY <4>1
    <3>2. CASE m # n
      <4>1. m + 1 \in T
        BY <1>1, <3>2
      <4> QED
        BY <4>1 DEF FromFrom
    <3> QED
      BY <3>1, <3>2
  <2>2. PICK f : f = [i \in m + 1 .. n |-> f[i]]
                 /\ \A i \in m + 1 .. n : f[i] = FromAt(f, text, i)
    BY <2>1
  <2> DEFINE g == [i \in m .. n |-> IF i \in m + 1 .. n THEN f[i] ELSE FromAt(f, text, i)]
  <2>3. \A i \in m + 1 .. n : f[i] = g[i]
    OBVIOUS
  <2>4. g[m] = FromAt(f, text, m) /\ g = [i \in m .. n |-> g[i]]
    OBVIOUS
  <2> HIDE DEF g
  <2>5. ASSUME NEW i \in m .. n  PROVE g[i] = FromAt(g, text, i)
    <3>1. g[i] = FromAt(f, text, i)
      <4>1. i = m \/ i \in m + 1 .. n
        OBVIOUS
      <4> QED
        BY <2>2, <2>3, <2>4, <4>1
    <3>2. FromAt(f, text, i) = FromAt(g, text, i)
      <4>1. i \in 1 .. Len(text) + 1 /\ \A j \in i + 1 .. Len(text) + 1 : j \in m + 1 .. n
        OBVIOUS
      <4> QED
        BY <2>3, <4>1, FromAtAgrees
    <3> QED
      BY <3>1, <3>2
  <2>6. FromFrom(g, text, m)
    BY <2>4, <2>5 DEF FromFrom
  <2> QED
    BY <2>6
<1>2. 1 \in T
  <2> HIDE DEF T
  <2>1. n \in Nat /\ 1 \in 1 .. n
    OBVIOUS
  <2> HIDE DEF n
  <2>2. 1 .. n \subseteq T
    BY <1>1, <2>1, Downwards
  <2> QED
    BY <2>1, <2>2
<1>3. PICK f : FromFrom(f, text, 1)
  BY <1>2
<1>4. f = [i \in 1 .. n |-> FromAt(f, text, i)]
  <2>1. f = [i \in 1 .. n |-> f[i]] /\ \A i \in 1 .. n : f[i] = FromAt(f, text, i)
    BY <1>3 DEF FromFrom
  <2> HIDE DEF n
  <2> QED
    BY <2>1
<1> QED
  BY <1>4 DEF AreFrom

\* The objects after each position.
After(text) == CHOOSE f : AreFrom(f, text)

LEMMA AfterGiven ==
    ASSUME NEW text, Len(text) \in Nat
    PROVE  /\ Objects(text) = After(text)[1]
           /\ \A k \in 1 .. Len(text) + 1 : After(text)[k] = FromAt(After(text), text, k)
<1>1. Objects(text) = After(text)[1]
  BY DEF Objects, After, AreFrom, FromAt
<1>2. AreFrom(After(text), text)
  BY FromExist DEF After
<1> QED
  BY <1>1, <1>2 DEF AreFrom

\* Outside of objects at k, the scanner finds those from there on.
FindsFrom(text, k) ==
    /\ After(text)[k] \in Seq(Spans)
    /\ \A F \in Seq(Spans) : Holds(Scanned(text)[k - 1], 0, 0, FALSE, FALSE, F) =>
          Scanned(text)[Len(text)].found = F \o After(text)[k]

Moves(F, k, e, G) == Append(F, <<k, e>>) \o G = F \o (<<<<k, e>>>> \o G)

LEMMA SpanBefore ==
    ASSUME NEW F \in Seq(Spans), NEW G \in Seq(Spans), NEW k \in Nat, NEW e \in Nat
    PROVE  /\ Append(F, <<k, e>>) \in Seq(Spans)
           /\ <<<<k, e>>>> \o G \in Seq(Spans)
           /\ Moves(F, k, e, G)
<1>1. <<k, e>> \in Spans
  BY DEF Spans
<1> DEFINE p == <<k, e>>
<1> HIDE DEF p
<1>2. p \in Spans
  BY <1>1 DEF p
<1>3. <<p>> \in Seq(Spans)
  BY <1>2
<1>4. Append(F, p) = F \o <<p>>
  BY <1>2, AppendIsConcat
<1>5. (F \o <<p>>) \o G = F \o (<<p>> \o G)
  BY <1>3, ConcatAssociative
<1>6. Append(F, p) \in Seq(Spans) /\ <<p>> \o G \in Seq(Spans)
  BY <1>2, <1>3, AppendProperties, ConcatProperties
<1> QED
  BY <1>4, <1>5, <1>6 DEF p, Moves

LEMMA NothingAfter == \A F \in Seq(Spans) : F \o <<>> = F /\ <<>> \o F = F
  BY ConcatEmptySeq

\* A mark before: prose, or an object and what follows it.
LEMMA FindsBefore ==
    ASSUME NEW text, Len(text) \in Nat, NEW k \in 1 .. Len(text) + 1,
           \A j \in k + 1 .. Len(text) + 1 : FindsFrom(text, j)
    PROVE  FindsFrom(text, k)
<1> DEFINE A == After(text)[k]
<1>1. A = FromAt(After(text), text, k)
  BY AfterGiven
<1>2. <<>> \in Seq(Spans)
  OBVIOUS
<1>3. CASE k = Len(text) + 1
  <2>1. A = <<>> /\ k - 1 = Len(text)
    BY <1>1, <1>3 DEF FromAt
  <2> QED
    BY <1>2, <2>1, NothingAfter DEF FindsFrom, Holds
<1>4. CASE k # Len(text) + 1
  <2>1. /\ k \in 1 .. Len(text) /\ k + 1 \in k + 1 .. Len(text) + 1 /\ ~(k > Len(text))
        /\ (k + 1) - 1 = k
    BY <1>4
  <2>2. Scanned(text)[k] = Scan(Scanned(text)[k - 1], text[k], k)
    BY <2>1, ScannedSteps
  <2>3. CASE text[k] # OpenBrace
    <3>1. A = After(text)[k + 1]
      BY <1>1, <2>1, <2>3 DEF FromAt
    <3>2. FindsFrom(text, k + 1)
      BY <2>1
    <3>3. ASSUME NEW F, Holds(Scanned(text)[k - 1], 0, 0, FALSE, FALSE, F)
          PROVE  Holds(Scanned(text)[(k + 1) - 1], 0, 0, FALSE, FALSE, F)
      <4>1. Scanned(text)[k] = Scanned(text)[k - 1]
        BY <2>2, <2>3, <3>3, ScanOutside
      <4> QED
        BY <2>1, <3>3, <4>1
    <3> QED
      BY <3>1, <3>2, <3>3 DEF FindsFrom
  <2>4. CASE text[k] = OpenBrace
    <3> DEFINE e == ObjectEnd(text, k)
    <3>1. A = IF e = 0 THEN <<>> ELSE <<<<k, e>>>> \o After(text)[e + 1]
      BY <1>1, <2>1, <2>4 DEF FromAt
    <3>2. e = 0 \/ e \in k + 1 .. Len(text)
      BY <2>1, ObjectScanned
    <3>3. ASSUME NEW F, Holds(Scanned(text)[k - 1], 0, 0, FALSE, FALSE, F)
          PROVE  Reached(text, e, k, F)
      <4>1. Holds(Scanned(text)[k], k, 1, FALSE, FALSE, F)
        <5>1. Holds(Scan(Scanned(text)[k - 1], text[k], k), k, 1, FALSE, FALSE, F)
          BY <2>4, <3>3, ScanOutside
        <5> QED
          BY <2>2, <5>1
      <4> QED
        BY <2>1, <4>1, ObjectScanned
    <3> HIDE DEF e
    <3>4. CASE e = 0
      <4>1. A = <<>>
        BY <3>1, <3>4
      <4>2. ASSUME NEW F \in Seq(Spans), Holds(Scanned(text)[k - 1], 0, 0, FALSE, FALSE, F)
            PROVE  Scanned(text)[Len(text)].found = F \o <<>>
        BY <3>3, <3>4, <4>2, NothingAfter DEF Reached
      <4> QED
        BY <1>2, <4>1, <4>2 DEF FindsFrom
    <3>5. CASE e # 0
      <4>1. /\ e + 1 \in k + 1 .. Len(text) + 1 /\ (e + 1) - 1 = e
            /\ k \in Nat /\ e \in Nat
        BY <3>2, <3>5
      <4> DEFINE G == After(text)[e + 1]
      <4>2. FindsFrom(text, e + 1)
        BY <4>1
      <4>3. G \in Seq(Spans)
        BY <4>2 DEF FindsFrom
      <4>4. A = <<<<k, e>>>> \o G
        BY <3>1, <3>5
      <4>5. ASSUME NEW F \in Seq(Spans), Holds(Scanned(text)[k - 1], 0, 0, FALSE, FALSE, F)
            PROVE  Scanned(text)[Len(text)].found = F \o (<<<<k, e>>>> \o G)
        <5>1. Holds(Scanned(text)[(e + 1) - 1], 0, 0, FALSE, FALSE, Append(F, <<k, e>>))
          BY <3>3, <3>5, <4>1, <4>5 DEF Reached
        <5>2. Append(F, <<k, e>>) \in Seq(Spans)
          BY <4>1, <4>3, SpanBefore
        <5>3. Scanned(text)[Len(text)].found = Append(F, <<k, e>>) \o G
          BY <4>2, <5>1, <5>2 DEF FindsFrom
        <5> HIDE DEF G
        <5>4. Moves(F, k, e, G)
          BY <4>1, <4>3, SpanBefore
        <5> QED
          BY <5>3, <5>4 DEF Moves
      <4> HIDE DEF G
      <4>6. <<<<k, e>>>> \o G \in Seq(Spans)
        BY <4>1, <4>3, SpanBefore
      <4> QED
        BY <4>4, <4>5, <4>6 DEF FindsFrom
    <3> QED
      BY <3>4, <3>5
  <2> QED
    BY <2>3, <2>4
<1> QED
  BY <1>3, <1>4

\* The scanner and the grammar agree on every text.
LEMMA ScannerAgrees ==
    ASSUME NEW text, Len(text) \in Nat
    PROVE  find_json_objects(text) = Objects(text)
<1> DEFINE n == Len(text) + 1
           T == {j \in 1 .. n : FindsFrom(text, j)}
<1>1. ASSUME NEW j \in 1 .. n, \A k \in j + 1 .. n : k \in T  PROVE j \in T
  <2>1. \A k \in j + 1 .. Len(text) + 1 : FindsFrom(text, k)
    BY <1>1
  <2> QED
    BY <2>1, FindsBefore
<1>2. n \in Nat /\ 1 \in 1 .. n
  OBVIOUS
<1>3. 1 .. n \subseteq T
  <2> HIDE DEF T, n
  <2> QED
    BY <1>1, <1>2, Downwards
<1>4. FindsFrom(text, 1)
  BY <1>2, <1>3
<1>5. Holds(Scanned(text)[1 - 1], 0, 0, FALSE, FALSE, <<>>)
  <2>1. Scanned(text)[1 - 1] = Outside(<<>>)
    BY ScannedSteps
  <2> QED
    BY <2>1, OutsideHolds
<1>6. /\ Scanned(text)[Len(text)].found = <<>> \o After(text)[1]
      /\ After(text)[1] \in Seq(Spans)
  <2>1. <<>> \in Seq(Spans)
    OBVIOUS
  <2> QED
    BY <1>4, <1>5, <2>1 DEF FindsFrom
<1>7. Scanned(text)[Len(text)].found = After(text)[1]
  BY <1>6, NothingAfter
<1> QED
  BY <1>7, AfterGiven DEF find_json_objects

-----------------------------------------------------------------------------
\* Whatever is responded, its call has one of the types there are.
LEMMA ResponseTyped ==
    ASSUME NEW r \in Responses \cup {NoResponse}
    PROVE  IsCall(r.call)
<1>1. CASE r = NoResponse
  BY <1>1 DEF NoResponse, IsCall
<1>2. CASE r \in Responses
  <2>1. PICK text \in Texts :
           r = [text |-> text, found |-> find_json_objects(text),
                call |-> extract_tool_call(text)]
    BY <1>2 DEF Responses
  <2>2. Len(text) \in Nat
    BY TextsAssumption
  <2>3. r.call = extract_tool_call(text)
    BY <2>1
  <2> QED
    BY <2>2, <2>3, CallTyped
<1> QED
  BY <1>1, <1>2

\* A step is begun, and an attempt made, only within the limits.
RunTyping ==
    /\ RunTypeOK
    /\ RunBook
    /\ phase \in {"top", "acting"} => step <= StepLimit

LEMMA OneWithin == \A n, m \in Nat : n <= m => n + 1 \in 0 .. m + 1
  OBVIOUS

\* An attempt that failed.
LEMMA FailedTyped ==
    ASSUME RunTyping, phase \in {"asking", "parsing"},
           NEW error \in {"transient", "4xx", "no call"}, AttemptFailed(error),
           response' \in {response, NoResponse}
    PROVE  RunTyping'
<1>1. RunBook'
  BY FailedBook DEF RunTyping
<1>2. attempt' \in 0 .. MaxRetries + 1
  <2>1. attempt \in Nat /\ attempt <= MaxRetries /\ attempt' = attempt + 1
    BY DEF RunTyping, RunBook, AttemptFailed
  <2>2. MaxRetries \in Nat
    BY LimitsAssumption
  <2> QED
    BY <2>1, <2>2, OneWithin, Zenon
<1>3. /\ UNCHANGED <<step, total_cost, call>>
      /\ phase' \in {"asking", "finished"}
      /\ status' \in {status, "ModelError"}
  BY DEF AttemptFailed
<1>4. sent' \in Seq({"transient", "4xx", "no call", "call"})
  BY <1>1 DEF RunBook, Outcomes
<1> QED
  BY <1>1, <1>2, <1>3, <1>4 DEF RunTyping, RunTypeOK, RunPhases

LEMMA NextTyped == RunTyping /\ [RunNext]_runVars => RunTyping'
<1> SUFFICES ASSUME RunTyping, [RunNext]_runVars  PROVE RunTyping'
  OBVIOUS
<1>0. RunBook' /\ sent' \in Seq({"transient", "4xx", "no call", "call"})
  BY NextBook DEF RunTyping, RunBook, Outcomes
<1>1. ASSUME Begin  PROVE RunTyping'
  <2>1. /\ step \in Nat /\ step <= StepLimit /\ step' = step + 1
        /\ attempt' = 0 /\ call' = NoCall /\ UNCHANGED <<total_cost, response>>
    BY <1>1 DEF Begin, RunTyping, RunBook
  <2>2. step' \in 0 .. StepLimit + 1 /\ attempt' \in 0 .. MaxRetries + 1
    BY <2>1, LimitsAssumption
  <2>3. /\ phase' \in {"finished", "asking"}
        /\ status' \in {status, "LimitsExceeded"}
    BY <1>1 DEF Begin
  <2> QED
    BY <1>0, <2>1, <2>2, <2>3 DEF RunTyping, RunTypeOK, RunPhases
<1>2. ASSUME NEW error \in {"transient", "4xx"}, RequestFails(error)  PROVE RunTyping'
  BY <1>2, FailedTyped DEF RequestFails
<1>3. ASSUME NEW r \in Responses, Respond(r)  PROVE RunTyping'
  BY <1>0, <1>3 DEF Respond, RunTyping, RunTypeOK, RunPhases
<1>4. ASSUME NothingExtracted  PROVE RunTyping'
  BY <1>4, FailedTyped DEF NothingExtracted
<1>5. ASSUME NEW cost \in Costs, Extracted(cost)  PROVE RunTyping'
  <2>1. step <= StepLimit
    BY <1>5 DEF Extracted, RunTyping, RunBook
  <2>2. /\ UNCHANGED <<step, attempt>> /\ response' = NoResponse
        /\ call' = response.call /\ total_cost' = total_cost + cost
        /\ phase' \in {"finished", "acting"}
        /\ status' \in {status, "Submitted"}
    BY <1>5 DEF Extracted, Pay
  <2>3. IsCall(call')
    BY <2>2, ResponseTyped DEF RunTyping, RunTypeOK
  <2>4. total_cost' \in Nat
    <3>1. total_cost \in Nat /\ cost \in Nat
      BY LimitsAssumption DEF RunTyping, RunTypeOK
    <3> QED
      BY <2>2, <3>1
  <2> QED
    BY <1>0, <2>1, <2>2, <2>3, <2>4 DEF RunTyping, RunTypeOK, RunPhases, IsCall
<1>6. ASSUME Observe  PROVE RunTyping'
  BY <1>0, <1>6 DEF Observe, RunTyping, RunTypeOK, RunPhases
<1>7. ASSUME Finish  PROVE RunTyping'
  BY <1>0, <1>7 DEF Finish, RunTyping, RunTypeOK, RunPhases
<1>8. CASE UNCHANGED runVars
  BY <1>0, <1>8 DEF runVars, RunTyping, RunTypeOK
<1> QED
  BY <1>1, <1>2, <1>3, <1>4, <1>5, <1>6, <1>7, <1>8 DEF RunNext

LEMMA InitTyped == RunInit => RunTyping
<1> SUFFICES ASSUME RunInit  PROVE RunTyping
  OBVIOUS
<1>1. RunBook
  BY InitBook
<1> QED
  BY <1>1, LimitsAssumption DEF RunInit, RunTyping, RunTypeOK, RunPhases

\* Every state of a run is well typed, for all limits and every text of a
\* model: no step is begun beyond the limit but the one that finds it, and
\* what is extracted from a text is nothing or a call of a type there is.
THEOREM RunTyped == RunSpec => []RunTypeOK
<1>1. RunTyping => RunTypeOK
  BY DEF RunTyping
<1> QED
  BY <1>1, InitTyped, NextTyped, PTL DEF RunSpec

\* The scanner finds the objects of the grammar, and no others, in every text
\* a model may write, however long and whatever its marks.
THEOREM ScannerFollows == RunSpec => []ScannerFollowsGrammar
<1>1. RunTyping => ScannerFollowsGrammar
  <2> SUFFICES ASSUME RunTyping  PROVE response.found = Objects(response.text)
    BY DEF ScannerFollowsGrammar
  <2>1. CASE response = NoResponse
    <3>1. response.found = <<>> /\ response.text = <<>> /\ Len(<<>>) = 0
      BY <2>1 DEF NoResponse
    <3>2. find_json_objects(<<>>) = Objects(<<>>)
      BY <3>1, ScannerAgrees
    <3>3. find_json_objects(<<>>) = <<>>
      <4>1. Scanned(<<>>)[0] = Outside(<<>>)
        BY <3>1, ScannedSteps
      <4> QED
        BY <3>1, <4>1 DEF find_json_objects, Outside
    <3> QED
      BY <3>1, <3>2, <3>3
  <2>2. CASE response \in Responses
    <3>1. PICK text \in Texts :
             response = [text |-> text, found |-> find_json_objects(text),
                         call |-> extract_tool_call(text)]
      BY <2>2 DEF Responses
    <3>2. Len(text) \in Nat
      BY TextsAssumption
    <3>3. response.text = text /\ response.found = find_json_objects(text)
      BY <3>1
    <3> QED
      BY <3>2, <3>3, ScannerAgrees
  <2> QED
    BY <2>1, <2>2 DEF RunTyping, RunTypeOK
<1> QED
  BY <1>1, InitTyped, NextTyped, PTL DEF RunSpec
===============================================================================
