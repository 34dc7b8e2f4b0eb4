--------------------------- MODULE CheckerLogProofs ---------------------------
(***************************************************************************)
(* Proofs about the constraint checker under any messages, for every       *)
(* window size and every set of calls and contexts.                        *)
(***************************************************************************)
EXTENDS CheckerLog, SequenceTheorems, FiniteSetTheorems, TLAPS

\* An entry pushed on a window leaves a window.
LEMMA PushedType ==
    ASSUME NEW w \in Seq(Entries), Len(w) <= WindowSize, NEW e \in Entries
    PROVE  /\ Pushed(w, e) \in Seq(Entries)
           /\ Len(Pushed(w, e)) <= WindowSize
<1>. USE WindowAssumption
<1>1. CASE Len(w) >= WindowSize
  <2>1. w # <<>>
    BY <1>1, EmptySeq
  <2>2. Tail(w) \in Seq(Entries) /\ Len(Tail(w)) = Len(w) - 1
    BY <2>1, HeadTailProperties
  <2>. QED
    BY <1>1, <2>2, AppendProperties, LenProperties DEF Pushed
<1>2. CASE ~(Len(w) >= WindowSize)
  BY <1>2, AppendProperties, LenProperties DEF Pushed
<1>. QED
  BY <1>1, <1>2

\* Each kind of report makes an entry.
LEMMA EntryType ==
    ASSUME NEW s \in Summaries
    PROVE  Completed(s) \in Entries /\ Rejected(s) \in Entries
BY DEF Completed, Rejected, Entries

\* The type invariant is inductive.
LEMMA InitType == LogInit => TypeOK
<1>1. InitialContext \in PolicyContexts(StepNames)
  <2>1. "survey" \in StepNames
    BY DEF StepNames
  <2>2. {} \in SUBSET STRING
    OBVIOUS
  <2>. QED
    BY <2>1, <2>2 DEF InitialContext, FreshContext, PolicyContexts
<1>2. <<>> \in Seq(Entries) /\ Len(<<>>) = 0
  BY EmptySeq
<1>. QED
  BY <1>1, <1>2, WindowAssumption DEF LogInit, CheckerInit, TypeOK

LEMMA NextType == TypeOK /\ [LogNext]_logVars => TypeOK'
<1>. SUFFICES ASSUME TypeOK, [LogNext]_logVars
              PROVE  TypeOK'
  OBVIOUS
<1>. USE DEF TypeOK
<1>1. ASSUME NEW done \in Reports, ReportCompleted(done)
      PROVE  TypeOK'
  <2>1. /\ done.summary \in Summaries
        /\ done.step \in Nat
        /\ done.approved \in BOOLEAN
    BY LenProperties DEF Reports
  <2>2. ctx' \in PolicyContexts(StepNames)
    <3>1. PlanFlag(ctx, done.approved) \in BOOLEAN
      BY DEF PlanFlag
    <3>. QED
      BY <1>1, <2>1, <3>1 DEF ReportCompleted, ToolCallCompleted, PolicyContexts
  <2>3. rejections' \in [Summaries -> Nat]
    BY <1>1 DEF ReportCompleted, ToolCallCompleted
  <2>4. window' \in Seq(Entries) /\ Len(window') <= WindowSize
    BY <1>1, <2>1, PushedType, EntryType DEF ReportCompleted, ToolCallCompleted
  <2>5. log' \in Seq(Entries)
    BY <1>1, <2>1, AppendProperties, EntryType DEF ReportCompleted
  <2>. QED
    BY <2>2, <2>3, <2>4, <2>5
<1>2. ASSUME NEW summary \in Summaries, ReportRejected(summary)
      PROVE  TypeOK'
  <2>1. rejections' \in [Summaries -> Nat]
    BY <1>2 DEF ReportRejected, ToolCallRejected
  <2>2. window' \in Seq(Entries) /\ Len(window') <= WindowSize
    BY <1>2, PushedType, EntryType DEF ReportRejected, ToolCallRejected
  <2>3. log' \in Seq(Entries)
    BY <1>2, AppendProperties, EntryType DEF ReportRejected
  <2>. QED
    BY <1>2, <2>1, <2>2, <2>3 DEF ReportRejected, ToolCallRejected
<1>3. ASSUME NEW context \in Contexts, ReplaceContext(context)
      PROVE  TypeOK'
  BY <1>3, ContextsAssumption DEF ReplaceContext, UpdateContext
<1>4. CASE UNCHANGED logVars
  BY <1>4 DEF logVars
<1>. QED
  BY <1>1, <1>2, <1>3, <1>4 DEF LogNext

\* The checker keeps its types, and never more than WindowSize entries,
\* whatever it is told.
THEOREM TypeCorrect == LogSpec => []TypeOK
<1>1. LogInit => TypeOK
  BY InitType
<1>2. TypeOK /\ [LogNext]_logVars => TypeOK'
  BY NextType
<1>. QED
  BY <1>1, <1>2, PTL DEF LogSpec

-----------------------------------------------------------------------------
(***************************************************************************)
(* An approval does not outlive the plan-review step.  Inductive with the  *)
(* type invariant: a report sets the flag from the step it finds, and a    *)
(* new context comes without it.                                           *)
(***************************************************************************)
THEOREM ApprovalConfined == LogSpec => []ApprovalOnlyInPlanReview
<1>1. LogInit => ApprovalOnlyInPlanReview
  BY DEF LogInit, CheckerInit, InitialContext, FreshContext, ApprovalOnlyInPlanReview
<1>2. TypeOK /\ ApprovalOnlyInPlanReview /\ [LogNext]_logVars
        => ApprovalOnlyInPlanReview'
  <2>. SUFFICES ASSUME TypeOK, ApprovalOnlyInPlanReview, [LogNext]_logVars
                PROVE  ApprovalOnlyInPlanReview'
    OBVIOUS
  <2>1. ASSUME NEW done \in Reports, ReportCompleted(done)
        PROVE  ApprovalOnlyInPlanReview'
    <3>1. /\ ctx'.plan_review_approved = PlanFlag(ctx, done.approved)
          /\ ctx'.playbook_step = ctx.playbook_step
      BY <2>1 DEF ReportCompleted, ToolCallCompleted, TypeOK, PolicyContexts
    <3>. QED
      BY <3>1 DEF ApprovalOnlyInPlanReview, PlanFlag
  <2>2. ASSUME NEW summary \in Summaries, ReportRejected(summary)
        PROVE  ApprovalOnlyInPlanReview'
    BY <2>2 DEF ReportRejected, ToolCallRejected, ApprovalOnlyInPlanReview
  <2>3. ASSUME NEW context \in Contexts, ReplaceContext(context)
        PROVE  ApprovalOnlyInPlanReview'
    BY <2>3, ContextsAssumption
       DEF ReplaceContext, UpdateContext, ApprovalOnlyInPlanReview
  <2>4. CASE UNCHANGED logVars
    BY <2>4 DEF logVars, ApprovalOnlyInPlanReview
  <2>. QED
    BY <2>1, <2>2, <2>3, <2>4 DEF LogNext
<1>. QED
  BY <1>1, <1>2, TypeCorrect, PTL DEF LogSpec

-----------------------------------------------------------------------------
(***************************************************************************)
(* The window is the end of the log.                                       *)
(***************************************************************************)
\* The end of a sequence from any point on, one element later.
LEMMA EndOfAppended ==
    ASSUME NEW S, NEW s \in Seq(S), NEW e \in S, NEW n \in 0 .. Len(s)
    PROVE  Append(SubSeq(s, n + 1, Len(s)), e)
             = SubSeq(Append(s, e), n + 1, Len(s) + 1)
<1>. DEFINE a == Append(s, e)
            t == SubSeq(s, n + 1, Len(s))
            u == SubSeq(a, n + 1, Len(s) + 1)
<1>1. /\ a \in Seq(S)
      /\ Len(a) = Len(s) + 1
      /\ \A i \in 1 .. Len(s) : a[i] = s[i]
      /\ a[Len(s) + 1] = e
  BY AppendProperties
<1>. HIDE DEF a
<1>2. Len(s) \in Nat
  BY LenProperties
<1>3. /\ t \in Seq(S)
      /\ Len(t) = Len(s) - n
      /\ \A i \in 1 .. Len(s) - n : t[i] = s[n + i]
  <2>1. \A i \in n + 1 .. Len(s) : s[i] \in S
    BY <1>2, ElementOfSeq
  <2>2. n + 1 \in Int /\ Len(s) \in Int
    BY <1>2
  <2>3. /\ SubSeq(s, n + 1, Len(s)) \in Seq(S)
        /\ Len(SubSeq(s, n + 1, Len(s)))
             = IF n + 1 <= Len(s) THEN Len(s) - (n + 1) + 1 ELSE 0
        /\ \A i \in 1 .. Len(s) - (n + 1) + 1 :
              SubSeq(s, n + 1, Len(s))[i] = s[n + 1 + i - 1]
    BY <2>1, <2>2, SubSeqProperties
  <2>. QED
    BY <1>2, <2>3
<1>4. /\ u \in Seq(S)
      /\ Len(u) = Len(s) + 1 - n
      /\ \A i \in 1 .. Len(s) + 1 - n : u[i] = a[n + i]
  <2>1. \A i \in n + 1 .. Len(s) + 1 : a[i] \in S
    BY <1>1, <1>2, ElementOfSeq
  <2>2. n + 1 \in Int /\ Len(s) + 1 \in Int
    BY <1>2
  <2>3. /\ SubSeq(a, n + 1, Len(s) + 1) \in Seq(S)
        /\ Len(SubSeq(a, n + 1, Len(s) + 1))
             = IF n + 1 <= Len(s) + 1 THEN Len(s) + 1 - (n + 1) + 1 ELSE 0
        /\ \A i \in 1 .. Len(s) + 1 - (n + 1) + 1 :
              SubSeq(a, n + 1, Len(s) + 1)[i]
                = a[n + 1 + i - 1]
    BY <2>1, <2>2, SubSeqProperties
  <2>. QED
    BY <1>2, <2>3
<1>. HIDE DEF t, u
<1>5. /\ Append(t, e) \in Seq(S)
      /\ Len(Append(t, e)) = Len(s) + 1 - n
      /\ \A i \in 1 .. Len(t) : Append(t, e)[i] = t[i]
      /\ Append(t, e)[Len(t) + 1] = e
  BY <1>2, <1>3, AppendProperties
<1>6. \A i \in 1 .. Len(Append(t, e)) : Append(t, e)[i] = u[i]
  <2>. TAKE i \in 1 .. Len(Append(t, e))
  <2>1. i \in 1 .. Len(s) + 1 - n
    BY <1>5
  <2>2. u[i] = a[n + i]
    BY <1>4, <2>1
  <2>3. CASE i \in 1 .. Len(t)
    <3>1. n + i \in 1 .. Len(s) /\ i \in 1 .. Len(s) - n
      BY <2>3, <1>2, <1>3
    <3>2. Append(t, e)[i] = s[n + i] /\ a[n + i] = s[n + i]
      BY <2>3, <3>1, <1>1, <1>3, <1>5
    <3>. QED
      BY <2>2, <3>2
  <2>4. CASE i = Len(t) + 1
    <3>1. n + i = Len(s) + 1
      BY <2>4, <1>2, <1>3
    <3>. QED
      BY <2>2, <2>4, <3>1, <1>1, <1>5
  <2>. QED
    BY <2>1, <2>3, <2>4, <1>2, <1>3
<1>7. Len(Append(t, e)) = Len(u)
  BY <1>4, <1>5
<1>8. Append(t, e) = u
  BY <1>4, <1>5, <1>6, <1>7, SeqEqual
<1>. QED
  BY <1>8 DEF a, t, u

\* A push keeps the window at the end of the log.
LEMMA PushedIsEnd ==
    ASSUME TypeOK, WindowIsEndOfLog, NEW e \in Entries,
           window' = Pushed(window, e), log' = Append(log, e)
    PROVE  WindowIsEndOfLog'
<1>. DEFINE dropped == IF Len(log) > WindowSize THEN Len(log) - WindowSize ELSE 0
<1>1. /\ log \in Seq(Entries)
      /\ Len(log) \in Nat
      /\ Len(log') = Len(log) + 1
      /\ WindowSize \in Nat \ {0}
  BY LenProperties, AppendProperties, WindowAssumption DEF TypeOK
<1>2. /\ dropped \in 0 .. Len(log)
      /\ window = SubSeq(log, dropped + 1, Len(log))
      /\ Len(log) < WindowSize => dropped = 0
      /\ Len(log) >= WindowSize => dropped = Len(log) - WindowSize
  BY <1>1 DEF WindowIsEndOfLog
<1>. HIDE DEF dropped
<1>3. Len(window) = Len(log) - dropped
  <2>1. \A i \in dropped + 1 .. Len(log) : log[i] \in Entries
    BY <1>1, <1>2, ElementOfSeq
  <2>2. dropped + 1 \in Int /\ Len(log) \in Int
    BY <1>1, <1>2
  <2>3. Len(SubSeq(log, dropped + 1, Len(log)))
          = IF dropped + 1 <= Len(log) THEN Len(log) - (dropped + 1) + 1 ELSE 0
    BY <2>1, <2>2, SubSeqProperties
  <2>. QED
    BY <1>1, <1>2, <2>3
<1>4. CASE Len(log) < WindowSize
  <2>1. window' = Append(SubSeq(log, 1, Len(log)), e)
    BY <1>1, <1>2, <1>3, <1>4 DEF Pushed
  <2>2. window' = SubSeq(log', 1, Len(log) + 1)
    <3>1. Append(SubSeq(log, 0 + 1, Len(log)), e)
            = SubSeq(Append(log, e), 0 + 1, Len(log) + 1)
      <4>1. 0 \in 0 .. Len(log)
        BY <1>1
      <4>. QED
        BY <1>1, <4>1, EndOfAppended
    <3>. QED
      BY <2>1, <3>1
  <2>3. ~(Len(log') > WindowSize)
    BY <1>1, <1>4
  <2>. QED
    BY <1>1, <2>2, <2>3 DEF WindowIsEndOfLog
<1>5. CASE Len(log) >= WindowSize
  <2>1. dropped + 1 \in 1 .. Len(log) /\ dropped = Len(log) - WindowSize
    BY <1>1, <1>2, <1>5
  <2>2. Len(log) \in dropped + 1 .. Len(log)
    BY <1>1, <2>1
  <2>3. Tail(window) = SubSeq(log, dropped + 1 + 1, Len(log))
    BY <1>1, <1>2, <2>1, <2>2, HeadTailOfSubSeq
  <2>4. window' = Append(SubSeq(log, dropped + 1 + 1, Len(log)), e)
    <3>1. Len(window) >= WindowSize
      BY <1>1, <1>3, <2>1
    <3>. QED
      BY <2>3, <3>1 DEF Pushed
  <2>5. window' = SubSeq(Append(log, e), dropped + 1 + 1, Len(log) + 1)
    <3>1. dropped + 1 \in 0 .. Len(log)
      BY <1>1, <2>1
    <3>. QED
      BY <1>1, <2>4, <3>1, EndOfAppended
  <2>6. Len(log') > WindowSize /\ Len(log') - WindowSize = dropped + 1
    BY <1>1, <1>5, <2>1
  <2>. QED
    BY <1>1, <2>5, <2>6 DEF WindowIsEndOfLog
<1>. QED
  BY <1>1, <1>4, <1>5

\* The bounded window is the end of the whole history of reports.
THEOREM WindowCorrect == LogSpec => []WindowIsEndOfLog
<1>1. LogInit => WindowIsEndOfLog
  <2>. SUFFICES ASSUME LogInit PROVE WindowIsEndOfLog
    OBVIOUS
  <2>1. window = <<>> /\ log = <<>>
    BY DEF LogInit, CheckerInit
  <2>2. Len(<<>>) = 0
    BY EmptySeq
  <2>3. SubSeq(<<>>, 0 + 1, 0) = <<>>
    BY SubSeqEmpty
  <2>. QED
    BY <2>1, <2>2, <2>3, WindowAssumption DEF WindowIsEndOfLog
<1>2. TypeOK /\ WindowIsEndOfLog /\ [LogNext]_logVars => WindowIsEndOfLog'
  <2>. SUFFICES ASSUME TypeOK, WindowIsEndOfLog, [LogNext]_logVars
                PROVE  WindowIsEndOfLog'
    OBVIOUS
  <2>1. ASSUME NEW done \in Reports, ReportCompleted(done)
        PROVE  WindowIsEndOfLog'
    <3>1. Completed(done.summary) \in Entries
      BY EntryType DEF Reports
    <3>2. /\ window' = Pushed(window, Completed(done.summary))
          /\ log' = Append(log, Completed(done.summary))
      BY <2>1 DEF ReportCompleted, ToolCallCompleted
    <3>. QED
      BY <3>1, <3>2, PushedIsEnd
  <2>2. ASSUME NEW summary \in Summaries, ReportRejected(summary)
        PROVE  WindowIsEndOfLog'
    <3>1. Rejected(summary) \in Entries
      BY EntryType
    <3>2. /\ window' = Pushed(window, Rejected(summary))
          /\ log' = Append(log, Rejected(summary))
      BY <2>2 DEF ReportRejected, ToolCallRejected
    <3>. QED
      BY <3>1, <3>2, PushedIsEnd
  <2>3. ASSUME NEW context \in Contexts, ReplaceContext(context)
        PROVE  WindowIsEndOfLog'
    BY <2>3 DEF ReplaceContext, UpdateContext, WindowIsEndOfLog
  <2>4. CASE UNCHANGED logVars
    BY <2>4 DEF logVars, WindowIsEndOfLog
  <2>. QED
    BY <2>1, <2>2, <2>3, <2>4 DEF LogNext
<1>. QED
  BY <1>1, <1>2, TypeCorrect, PTL DEF LogSpec
-----------------------------------------------------------------------------
(***************************************************************************)
(* The counters.                                                           *)
(***************************************************************************)
\* The rejections of s since it was last reported done, in the log l.
InARow(l, s) ==
    {i \in DOMAIN l : /\ l[i] = Rejected(s)
                      /\ \A j \in i .. Len(l) : l[j] # Completed(s)}

LEMMA EntriesDiffer ==
    ASSUME NEW s, NEW t
    PROVE  /\ Rejected(s) # Completed(t)
           /\ Rejected(s) = Rejected(t) => s = t
           /\ Completed(s) = Completed(t) => s = t
<1>1. /\ Rejected(s).rejected = TRUE /\ Completed(t).rejected = FALSE
      /\ Rejected(s).summary = s /\ Rejected(t).summary = t
      /\ Completed(s).summary = s /\ Completed(t).summary = t
  BY DEF Rejected, Completed
<1>. QED
  BY <1>1, Zenon

LEMMA InARowFinite ==
    ASSUME NEW l \in Seq(Entries), NEW s
    PROVE  IsFiniteSet(InARow(l, s))
<1>1. IsFiniteSet(1 .. Len(l))
  BY FS_Interval, LenProperties
<1>2. InARow(l, s) \subseteq 1 .. Len(l)
  BY LenProperties DEF InARow
<1>. QED
  BY <1>1, <1>2, FS_Subset

\* What a report e adds to the rejections in a row of s.
LEMMA InARowAppended ==
    ASSUME NEW l \in Seq(Entries), NEW e \in Entries, NEW s
    PROVE  /\ e = Completed(s) => InARow(Append(l, e), s) = {}
           /\ e = Rejected(s) =>
                InARow(Append(l, e), s) = InARow(l, s) \cup {Len(l) + 1}
           /\ e # Completed(s) /\ e # Rejected(s) =>
                InARow(Append(l, e), s) = InARow(l, s)
<1>. DEFINE n == Len(l)
            a == Append(l, e)
<1>1. /\ n \in Nat
      /\ DOMAIN l = 1 .. n
      /\ Len(a) = n + 1
      /\ DOMAIN a = 1 .. n + 1
      /\ \A i \in 1 .. n : a[i] = l[i]
      /\ a[n + 1] = e
  BY LenProperties, AppendProperties
<1>. HIDE DEF n, a
<1>2. n = Len(l)
  BY DEF n
<1>3. ASSUME e = Completed(s)
      PROVE  InARow(a, s) = {}
  <2>1. ASSUME NEW i \in 1 .. n + 1, \A j \in i .. n + 1 : a[j] # Completed(s)
        PROVE  FALSE
    <3>1. n + 1 \in i .. n + 1
      BY <1>1
    <3>. QED
      BY <1>1, <1>3, <2>1, <3>1
  <2>. QED
    BY <1>1, <2>1 DEF InARow
<1>4. ASSUME e # Completed(s), NEW i \in 1 .. n
      PROVE  i \in InARow(a, s) <=> i \in InARow(l, s)
  <2>1. (\A j \in i .. n + 1 : a[j] # Completed(s))
          <=> \A j \in i .. n : l[j] # Completed(s)
    BY <1>1, <1>4
  <2>. QED
    BY <1>1, <1>2, <1>4, <2>1 DEF InARow
<1>5. ASSUME e # Completed(s)
      PROVE  n + 1 \in InARow(a, s) <=> e = Rejected(s)
  <2>1. n + 1 \in InARow(a, s)
          <=> /\ a[n + 1] = Rejected(s)
              /\ \A j \in n + 1 .. n + 1 : a[j] # Completed(s)
    BY <1>1 DEF InARow
  <2>. QED
    BY <1>1, <1>5, <2>1
<1>6. InARow(a, s) \subseteq 1 .. n + 1 /\ InARow(l, s) \subseteq 1 .. n
  BY <1>1 DEF InARow
<1>7. e = Rejected(s) => e # Completed(s)
  BY EntriesDiffer
<1>8. ASSUME e # Completed(s)
      PROVE  /\ e = Rejected(s) => InARow(a, s) = InARow(l, s) \cup {n + 1}
             /\ e # Rejected(s) => InARow(a, s) = InARow(l, s)
  <2>1. \A i \in 1 .. n : i \in InARow(a, s) <=> i \in InARow(l, s)
    BY <1>4, <1>8
  <2>2. n + 1 \in InARow(a, s) <=> e = Rejected(s)
    BY <1>5, <1>8
  <2>3. \A i \in 1 .. n + 1 : i \in 1 .. n \/ i = n + 1
    BY <1>1
  <2>. QED
    BY <1>6, <2>1, <2>2, <2>3, Zenon
<1>9. a = Append(l, e)
  BY DEF a
<1>. QED
  BY <1>2, <1>3, <1>7, <1>8, <1>9, Zenon

LEMMA InitCounts == LogInit => CountsRejectionsInARow
<1>. SUFFICES ASSUME LogInit, NEW s \in Summaries
              PROVE  rejections[s] = Cardinality(InARow(log, s))
  BY DEF CountsRejectionsInARow, InARow
<1>1. InARow(log, s) = {}
  BY EmptySeq DEF LogInit, InARow
<1>. QED
  BY <1>1, FS_EmptySet DEF LogInit, CheckerInit

LEMMA NextCounts ==
    TypeOK /\ CountsRejectionsInARow /\ [LogNext]_logVars
        => CountsRejectionsInARow'
<1>. SUFFICES ASSUME TypeOK, CountsRejectionsInARow, [LogNext]_logVars,
                     NEW s \in Summaries
              PROVE  rejections'[s] = Cardinality(InARow(log', s))
  BY DEF CountsRejectionsInARow, InARow
<1>1. /\ rejections[s] = Cardinality(InARow(log, s))
      /\ rejections \in [Summaries -> Nat]
      /\ log \in Seq(Entries)
  BY DEF CountsRejectionsInARow, InARow, TypeOK
<1>2. ASSUME NEW done \in Reports, ReportCompleted(done)
      PROVE  rejections'[s] = Cardinality(InARow(log', s))
  <2>1. done.summary \in Summaries
    BY DEF Reports
  <2>2. /\ log' = Append(log, Completed(done.summary))
        /\ rejections' = [rejections EXCEPT ![done.summary] = 0]
    BY <1>2 DEF ReportCompleted, ToolCallCompleted
  <2>3. CASE done.summary = s
    <3>1. InARow(log', s) = {}
      BY <1>1, <2>2, <2>3, EntryType, InARowAppended
    <3>. QED
      BY <1>1, <2>2, <2>3, <3>1, FS_EmptySet
  <2>4. CASE done.summary # s
    <3>1. InARow(log', s) = InARow(log, s)
      <4>1. /\ Completed(done.summary) # Completed(s)
            /\ Completed(done.summary) # Rejected(s)
        BY <2>4, EntriesDiffer
      <4>. QED
        BY <1>1, <2>1, <2>2, <4>1, EntryType, InARowAppended
    <3>. QED
      BY <1>1, <2>1, <2>2, <2>4, <3>1
  <2>. QED
    BY <2>3, <2>4
<1>3. ASSUME NEW summary \in Summaries, ReportRejected(summary)
      PROVE  rejections'[s] = Cardinality(InARow(log', s))
  <2>1. /\ log' = Append(log, Rejected(summary))
        /\ rejections' = [rejections EXCEPT ![summary] = @ + 1]
    BY <1>3 DEF ReportRejected, ToolCallRejected
  <2>2. CASE summary = s
    <3>1. InARow(log', s) = InARow(log, s) \cup {Len(log) + 1}
      BY <1>1, <2>1, <2>2, EntryType, InARowAppended
    <3>2. Len(log) + 1 \notin InARow(log, s)
      BY <1>1, LenProperties DEF InARow
    <3>3. Cardinality(InARow(log', s)) = Cardinality(InARow(log, s)) + 1
      BY <1>1, <3>1, <3>2, InARowFinite, FS_AddElement
    <3>. QED
      BY <1>1, <2>1, <2>2, <3>3
  <2>3. CASE summary # s
    <3>1. InARow(log', s) = InARow(log, s)
      <4>1. /\ Rejected(summary) # Rejected(s)
            /\ Rejected(summary) # Completed(s)
        BY <2>3, EntriesDiffer
      <4>. QED
        BY <1>1, <2>1, <4>1, EntryType, InARowAppended
    <3>. QED
      BY <1>1, <2>1, <2>3, <3>1
  <2>. QED
    BY <2>2, <2>3
<1>4. ASSUME NEW context \in Contexts, ReplaceContext(context)
      PROVE  rejections'[s] = Cardinality(InARow(log', s))
  BY <1>1, <1>4 DEF ReplaceContext, UpdateContext
<1>5. CASE UNCHANGED logVars
  BY <1>1, <1>5 DEF logVars
<1>. QED
  BY <1>2, <1>3, <1>4, <1>5 DEF LogNext

\* The counter that halts a run is exact: in any order of reports and step
\* changes it is the number of times the very call was rejected since it was
\* last done.
THEOREM CountsCorrect == LogSpec => []CountsRejectionsInARow
<1>1. LogInit => CountsRejectionsInARow
  BY InitCounts
<1>2. TypeOK /\ CountsRejectionsInARow /\ [LogNext]_logVars
        => CountsRejectionsInARow'
  BY NextCounts
<1>. QED
  BY <1>1, <1>2, TypeCorrect, PTL DEF LogSpec
=============================================================================
