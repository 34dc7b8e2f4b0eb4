---------------------------- MODULE EventLogProofs ----------------------------
(***************************************************************************)
(* Proofs about the event log, for every size of the channel, every set of *)
(* events and every way a write may end.                                   *)
(*                                                                         *)
(* The invariants are about four queues in a row.  What is proved of them  *)
(* rests on three facts about concatenation: an element may be appended    *)
(* before or after it, the head of one queue may be the end of the one     *)
(* before, and brackets do not matter.                                     *)
(***************************************************************************)
EXTENDS EventLog, SequenceTheorems, TLAPS

\* The brackets of a concatenation may be moved.
LEMMA Brackets == \A s, t, u \in Seq(Kinds) : (s \o t) \o u = s \o (t \o u)
  BY ConcatAssociative

\* Appending to the last of two sequences is appending to both.
LEMMA AppendLast ==
    \A s, t \in Seq(Kinds), e \in Kinds : s \o Append(t, e) = Append(s \o t, e)
<1>. SUFFICES ASSUME NEW s \in Seq(Kinds), NEW t \in Seq(Kinds), NEW e \in Kinds
              PROVE  s \o Append(t, e) = Append(s \o t, e)
  OBVIOUS
<1>1. <<e>> \in Seq(Kinds)
  OBVIOUS
<1>2. s \o t \in Seq(Kinds)
  BY ConcatProperties
<1>3. Append(t, e) = t \o <<e>> /\ Append(s \o t, e) = (s \o t) \o <<e>>
  BY <1>2, AppendIsConcat
<1>. QED
  BY <1>1, <1>3, Brackets

\* The head of a sequence may be appended to the one before it.
LEMMA MoveHead ==
    ASSUME NEW S, NEW s \in Seq(S), NEW t \in Seq(S), t # <<>>
    PROVE  Append(s, Head(t)) \o Tail(t) = s \o t
<1>1. Head(t) \in S /\ Tail(t) \in Seq(S)
  BY HeadTailProperties
<1>2. <<Head(t)>> \in Seq(S)
  BY <1>1
<1>3. t = <<Head(t)>> \o Tail(t)
  <2>1. <<Head(t)>> \o Tail(t) \in Seq(S)
    BY <1>1, <1>2, ConcatProperties
  <2>2. Len(<<Head(t)>> \o Tail(t)) = Len(t)
    BY <1>1, <1>2, ConcatProperties, HeadTailProperties, LenProperties
  <2>3. ASSUME NEW i \in 1 .. Len(t)
        PROVE  t[i] = (<<Head(t)>> \o Tail(t))[i]
    BY <1>1, <1>2, ConcatProperties, HeadTailProperties, LenProperties
  <2>. QED
    BY <2>1, <2>2, <2>3, SeqEqual
<1>4. Append(s, Head(t)) = s \o <<Head(t)>>
  BY <1>1, AppendIsConcat
<1>. QED
  BY <1>1, <1>2, <1>3, <1>4, ConcatAssociative

-----------------------------------------------------------------------------
\* What is under way, in a row.
Pipeline == file \o buffer \o mailbox \o port

\* Until the actor has stopped, what is under way is a beginning of what was
\* emitted, and all of it while the logger is subscribed; then the file is.
Row ==
    ~lost =>
        /\ logger # "stopped" =>
              /\ subscribed => emitted = Pipeline
              /\ \E rest \in Seq(Kinds) : emitted = Pipeline \o rest
        /\ logger = "stopped" => \E rest \in Seq(Kinds) : emitted = file \o rest

LogInv == LogTypeOK /\ Row

LEMMA InitLogInv == LogInit => LogInv
<1>. SUFFICES ASSUME LogInit PROVE LogInv
  OBVIOUS
<1>1. <<>> \in Seq(Kinds) /\ <<>> \o <<>> = <<>>
  BY EmptySeq, ConcatEmptySeq
<1>2. LogTypeOK
  BY <1>1 DEF LogInit, LogTypeOK
<1>3. Row
  BY <1>1 DEF LogInit, Row, Pipeline
<1>. QED
  BY <1>2, <1>3 DEF LogInv

LEMMA NextLogTypeOK == LogTypeOK /\ [LogNext]_logVars => LogTypeOK'
<1>. SUFFICES ASSUME LogTypeOK, [LogNext]_logVars
              PROVE  LogTypeOK'
  OBVIOUS
<1>. USE DEF LogTypeOK
<1>1. <<>> \in Seq(Kinds)
  BY EmptySeq
<1>2. ASSUME NEW event \in Kinds, Emit(event)
      PROVE  LogTypeOK'
  <2>1. Append(emitted, event) \in Seq(Kinds) /\ Append(port, event) \in Seq(Kinds)
    BY AppendProperties
  <2>. QED
    BY <1>2, <2>1 DEF Emit
<1>3. CASE Forward
  <2>1. port # <<>>
    BY <1>3, EmptySeq DEF Forward
  <2>2. Head(port) \in Kinds /\ Tail(port) \in Seq(Kinds)
    BY <2>1, HeadTailProperties
  <2>3. Append(mailbox, Head(port)) \in Seq(Kinds)
    BY <2>2, AppendProperties
  <2>. QED
    BY <1>3, <2>2, <2>3 DEF Forward
<1>4. CASE Unsubscribe
  BY <1>1, <1>4 DEF Unsubscribe
<1>5. CASE Log
  <2>1. Head(mailbox) \in Kinds /\ Tail(mailbox) \in Seq(Kinds)
    BY <1>5, HeadTailProperties DEF Log
  <2>2. Append(buffer, Head(mailbox)) \in Seq(Kinds)
    BY <2>1, AppendProperties
  <2>3. file \o Append(buffer, Head(mailbox)) \in Seq(Kinds)
    BY <2>2, ConcatProperties
  <2>. QED
    BY <1>1, <1>5, <2>1, <2>2, <2>3 DEF Log, Write
<1>6. CASE Stop
  BY <1>6 DEF Stop
<1>7. CASE PostStop
  <2>1. file \o buffer \in Seq(Kinds)
    BY ConcatProperties
  <2>. QED
    BY <1>1, <1>7, <2>1 DEF PostStop
<1>8. CASE UNCHANGED logVars
  BY <1>8 DEF logVars
<1>. QED
  BY <1>2, <1>3, <1>4, <1>5, <1>6, <1>7, <1>8 DEF LogNext

\* The pipeline is a sequence of events, and its brackets may be moved.
LEMMA PipelineSeq ==
    ASSUME LogTypeOK
    PROVE  /\ Pipeline \in Seq(Kinds)
           /\ Pipeline = file \o (buffer \o (mailbox \o port))
           /\ Pipeline = (file \o buffer) \o (mailbox \o port)
           /\ file \o buffer \in Seq(Kinds)
           /\ (file \o buffer) \o mailbox \in Seq(Kinds)
           /\ mailbox \o port \in Seq(Kinds)
           /\ buffer \o (mailbox \o port) \in Seq(Kinds)
<1>1. /\ file \in Seq(Kinds)
      /\ buffer \in Seq(Kinds)
      /\ mailbox \in Seq(Kinds)
      /\ port \in Seq(Kinds)
  BY DEF LogTypeOK
<1>2. /\ file \o buffer \in Seq(Kinds)
      /\ mailbox \o port \in Seq(Kinds)
  BY <1>1, ConcatProperties
<1>3. /\ (file \o buffer) \o mailbox \in Seq(Kinds)
      /\ buffer \o (mailbox \o port) \in Seq(Kinds)
  BY <1>1, <1>2, ConcatProperties
<1>4. ((file \o buffer) \o mailbox) \o port \in Seq(Kinds)
  BY <1>1, <1>3, ConcatProperties
<1>5. ((file \o buffer) \o mailbox) \o port = (file \o buffer) \o (mailbox \o port)
  BY <1>1, <1>2, Brackets
<1>6. (file \o buffer) \o (mailbox \o port) = file \o (buffer \o (mailbox \o port))
  BY <1>1, <1>2, Brackets
<1>. QED
  BY <1>2, <1>3, <1>4, <1>5, <1>6 DEF Pipeline

\* A step that only moves events along the pipeline keeps them in their row.
LEMMA Moved ==
    ASSUME Row, logger # "stopped", logger' # "stopped", Pipeline' = Pipeline,
           emitted' = emitted, subscribed' = subscribed, lost' = lost
    PROVE  Row'
  BY DEF Row

LEMMA EmitRow ==
    ASSUME LogInv, NEW event \in Kinds, Emit(event)
    PROVE  Row'
<1>. SUFFICES ASSUME ~lost
              PROVE  Row'
  BY DEF Emit, Row
<1>. USE DEF LogInv, LogTypeOK, Emit
<1>1. CASE logger # "stopped"
  <2>1. PICK rest \in Seq(Kinds) : emitted = Pipeline \o rest
    BY <1>1 DEF Row
  <2>2. Pipeline \in Seq(Kinds)
    BY PipelineSeq
  <2>3. CASE subscribed
    <3>1. emitted = Pipeline
      BY <1>1, <2>3 DEF Row
    <3>2. ((file \o buffer) \o mailbox) \o Append(port, event)
             = Append(((file \o buffer) \o mailbox) \o port, event)
      BY PipelineSeq, AppendLast
    <3>3. Pipeline' = emitted'
      BY <2>3, <3>1, <3>2 DEF Pipeline
    <3>4. emitted' \in Seq(Kinds)
      BY AppendProperties
    <3>5. emitted' = Pipeline' \o <<>> /\ <<>> \in Seq(Kinds)
      BY <3>3, <3>4, ConcatEmptySeq, EmptySeq
    <3>. QED
      BY <1>1, <3>3, <3>5 DEF Row
  <2>4. CASE ~subscribed
    <3>1. Pipeline' = Pipeline
      BY <2>4 DEF Pipeline
    <3>2. Append(rest, event) \in Seq(Kinds)
      BY AppendProperties
    <3>3. emitted' = Pipeline \o Append(rest, event)
      BY <2>1, <2>2, AppendLast
    <3>. QED
      BY <1>1, <2>4, <3>1, <3>2, <3>3 DEF Row
  <2>. QED
    BY <2>3, <2>4
<1>2. CASE logger = "stopped"
  <2>1. PICK rest \in Seq(Kinds) : emitted = file \o rest
    BY <1>2 DEF Row
  <2>2. Append(rest, event) \in Seq(Kinds)
    BY AppendProperties
  <2>3. emitted' = file \o Append(rest, event)
    BY <2>1, AppendLast
  <2>. QED
    BY <1>2, <2>2, <2>3 DEF Row
<1>. QED
  BY <1>1, <1>2

LEMMA ForwardRow ==
    ASSUME LogInv, Forward
    PROVE  Row'
<1>. USE DEF LogInv, LogTypeOK, Forward
<1>1. port # <<>>
  BY EmptySeq
<1>2. Head(port) \in Kinds /\ Tail(port) \in Seq(Kinds)
  BY <1>1, HeadTailProperties
<1>3. (file \o buffer) \o Append(mailbox, Head(port))
         = Append((file \o buffer) \o mailbox, Head(port))
  BY <1>2, PipelineSeq, AppendLast
<1>4. Append((file \o buffer) \o mailbox, Head(port)) \o Tail(port)
         = ((file \o buffer) \o mailbox) \o port
  BY <1>1, PipelineSeq, MoveHead
<1>5. Pipeline' = Pipeline
  BY <1>3, <1>4 DEF Pipeline
<1>. QED
  BY <1>5, Moved

LEMMA UnsubscribeRow ==
    ASSUME LogInv, Unsubscribe
    PROVE  Row'
<1>. USE DEF LogInv, LogTypeOK, Unsubscribe
<1>1. CASE ~lost /\ logger # "stopped"
  <2>1. emitted = ((file \o buffer) \o mailbox) \o port
    BY <1>1 DEF Row, Pipeline
  <2>2. Pipeline' = (file \o buffer) \o mailbox
    BY PipelineSeq, ConcatEmptySeq DEF Pipeline
  <2>. QED
    BY <1>1, <2>1, <2>2 DEF Row
<1>2. CASE ~lost /\ logger = "stopped"
  BY <1>2 DEF Row
<1>3. CASE lost
  BY <1>3 DEF Row
<1>. QED
  BY <1>1, <1>2, <1>3

LEMMA LogRow ==
    ASSUME LogInv, Log
    PROVE  Row'
<1>. USE DEF LogInv, LogTypeOK, Log
<1>1. Head(mailbox) \in Kinds /\ Tail(mailbox) \in Seq(Kinds)
  BY HeadTailProperties
<1>2. (file \o buffer) \o mailbox = Append(file \o buffer, Head(mailbox)) \o Tail(mailbox)
  BY PipelineSeq, MoveHead
<1>3. Append(file \o buffer, Head(mailbox)) = file \o Append(buffer, Head(mailbox))
  BY <1>1, AppendLast
<1>4. PICK outcome \in WriteOutcomes : Write(Head(mailbox), outcome)
  OBVIOUS
<1>5. CASE outcome = "flushed"
  <2>1. file' = file \o Append(buffer, Head(mailbox)) /\ buffer' = <<>> /\ lost' = lost
    BY <1>4, <1>5 DEF Write
  <2>2. Append(buffer, Head(mailbox)) \in Seq(Kinds)
    BY <1>1, AppendProperties
  <2>3. file' \in Seq(Kinds)
    BY <2>1, <2>2, ConcatProperties
  <2>4. file' \o buffer' = file'
    BY <2>1, <2>3, ConcatEmptySeq
  <2>5. Pipeline' = Pipeline
    BY <1>2, <1>3, <2>1, <2>4 DEF Pipeline
  <2>. QED
    BY <2>1, <2>5, Moved
<1>6. CASE outcome = "buffered"
  <2>1. file' = file /\ buffer' = Append(buffer, Head(mailbox)) /\ lost' = lost
    BY <1>4, <1>6 DEF Write
  <2>2. Pipeline' = Pipeline
    BY <1>2, <1>3, <2>1 DEF Pipeline
  <2>. QED
    BY <2>1, <2>2, Moved
<1>7. CASE outcome = "lost"
  BY <1>4, <1>7 DEF Write, Row
<1>. QED
  BY <1>4, <1>5, <1>6, <1>7, OutcomesAssumption

LEMMA PostStopRow ==
    ASSUME LogInv, PostStop
    PROVE  Row'
<1>. USE DEF LogInv, LogTypeOK, PostStop
<1>1. CASE lost'
  BY <1>1 DEF Row
<1>2. CASE ~lost'
  <2>1. ~lost /\ file' = file \o buffer
    BY <1>2
  <2>2. PICK rest \in Seq(Kinds) : emitted = Pipeline \o rest
    BY <2>1 DEF Row
  <2>3. (mailbox \o port) \o rest \in Seq(Kinds)
    BY PipelineSeq, ConcatProperties
  <2>4. emitted = (file \o buffer) \o ((mailbox \o port) \o rest)
    <3>1. \A u \in Seq(Kinds) : ((file \o buffer) \o (mailbox \o port)) \o u
                                  = (file \o buffer) \o ((mailbox \o port) \o u)
      BY PipelineSeq, Brackets
    <3>2. Pipeline = (file \o buffer) \o (mailbox \o port)
      BY PipelineSeq
    <3>. QED
      BY <2>2, <3>1, <3>2
  <2>. QED
    BY <2>1, <2>3, <2>4 DEF Row
<1>. QED
  BY <1>1, <1>2

LEMMA NextLogInv == LogInv /\ [LogNext]_logVars => LogInv'
<1>. SUFFICES ASSUME LogInv, [LogNext]_logVars
              PROVE  LogInv'
  OBVIOUS
<1>1. LogTypeOK'
  BY NextLogTypeOK DEF LogInv
<1>2. CASE Stop
  <2>1. Pipeline' = Pipeline
    BY <1>2 DEF Stop, Pipeline
  <2>2. Row'
    BY <1>2, <2>1, Moved DEF Stop, LogInv
  <2>. QED
    BY <1>1, <2>2 DEF LogInv
<1>3. CASE UNCHANGED logVars
  BY <1>1, <1>3 DEF logVars, LogInv, Row, Pipeline
<1>. QED
  BY <1>1, <1>2, <1>3, EmitRow, ForwardRow, UnsubscribeRow, LogRow, PostStopRow DEF LogNext, LogInv

-----------------------------------------------------------------------------
\* What is at the beginning of a concatenation is its beginning.
LEMMA Beginning ==
    ASSUME NEW S, NEW s \in Seq(S), NEW t \in Seq(S)
    PROVE  /\ Len(s) <= Len(s \o t)
           /\ s = SubSeq(s \o t, 1, Len(s))
<1>1. /\ s \o t \in Seq(S)
      /\ Len(s \o t) = Len(s) + Len(t)
      /\ \A i \in 1 .. Len(s) : (s \o t)[i] = s[i]
  BY ConcatProperties, LenProperties
<1>2. Len(s) <= Len(s \o t)
  BY <1>1, LenProperties
<1>3. /\ SubSeq(s \o t, 1, Len(s)) \in Seq(S)
      /\ Len(SubSeq(s \o t, 1, Len(s))) = Len(s)
      /\ \A i \in 1 .. Len(s) : SubSeq(s \o t, 1, Len(s))[i] = s[i]
  BY <1>1, <1>2, SubSeqProperties, LenProperties
<1>. QED
  BY <1>2, <1>3, SeqEqual

LEMMA LogInvFile == LogInv => FileHasNoGap
<1>. SUFFICES ASSUME LogInv, ~lost
              PROVE  Len(file) <= Len(emitted) /\ file = SubSeq(emitted, 1, Len(file))
  BY DEF FileHasNoGap
<1>1. \E rest \in Seq(Kinds) : emitted = file \o rest
  <2>1. CASE logger = "stopped"
    BY <2>1 DEF LogInv, Row
  <2>2. CASE logger # "stopped"
    <3>1. PICK rest \in Seq(Kinds) : emitted = Pipeline \o rest
      BY <2>2 DEF LogInv, Row
    <3>2. /\ buffer \o (mailbox \o port) \in Seq(Kinds)
          /\ emitted = (file \o (buffer \o (mailbox \o port))) \o rest
      BY <3>1, PipelineSeq DEF LogInv
    <3>3. (buffer \o (mailbox \o port)) \o rest \in Seq(Kinds)
      BY <3>2, ConcatProperties
    <3>4. emitted = file \o ((buffer \o (mailbox \o port)) \o rest)
      <4>1. \A t, u \in Seq(Kinds) : (file \o t) \o u = file \o (t \o u)
        BY Brackets DEF LogInv, LogTypeOK
      <4>. QED
        BY <3>2, <4>1
    <3>. QED
      BY <3>3, <3>4
  <2>. QED
    BY <2>1, <2>2
<1>. QED
  BY <1>1, Beginning DEF LogInv, LogTypeOK

LEMMA LogInvInvariant == LogSpec => []LogInv
  BY InitLogInv, NextLogInv, PTL DEF LogSpec

\* The channel, the mailbox, the buffer and the file hold events, and the
\* logger is in one of its three states, however many events are emitted.
THEOREM EventLogTyped == LogSpec => []LogTypeOK
<1>1. LogInv => LogTypeOK
  BY DEF LogInv
<1>. QED
  BY <1>1, LogInvInvariant, PTL

\* While the logger runs, is subscribed and no write has lost an event, every
\* event emitted is in the file, the buffer, the mailbox or the channel, once
\* and in order (event_bus.rs, event_logger.rs handle).
THEOREM NothingIsLostRunning == LogSpec => []NothingLostRunning
<1>1. LogInv => NothingLostRunning
  BY DEF LogInv, Row, Pipeline, NothingLostRunning
<1>. QED
  BY <1>1, LogInvInvariant, PTL

\* Whatever is dropped by a lag or by the stop, it is the end of the history
\* that is missing from the trajectory and never a part of its middle.
THEOREM TrajectoryHasNoGap == LogSpec => []FileHasNoGap
  BY LogInvFile, LogInvInvariant, PTL
=============================================================================
