------------------------------- MODULE EventLog -------------------------------
(***************************************************************************)
(* The event bus and EventLoggerActor (crates/actors/src/event_bus.rs and  *)
(* event_logger.rs).  Every actor emits on the bus; the logger is its one  *)
(* subscriber and appends each event to the trajectory file.               *)
(*                                                                         *)
(* The bus is a broadcast channel of bounded size and a forwarding task    *)
(* per subscriber.  A subscriber that falls further behind than the        *)
(* channel holds is dropped, and nobody is told.  The writer buffers: a    *)
(* flush that fails leaves the events in the buffer for the next one, and  *)
(* only an event too long for the buffer is lost.  A stop overtakes the    *)
(* mailbox: what is still in it goes with the actor.                       *)
(***************************************************************************)
EXTENDS Naturals, Sequences

CONSTANTS Kinds,         \* what may be emitted
          PortSize,      \* what the channel of the bus holds
          WriteOutcomes, \* what handling an event may come to
          MaxEmitted     \* bound on the emissions, for model checking

VARIABLES emitted,    \* history: the events emitted since the logger subscribed
          port,       \* the events of the channel that are not yet forwarded
          subscribed, \* the forwarding task lives
          mailbox,    \* the logger's mailbox
          buffer,     \* the events in the BufWriter
          file,       \* the events in the file
          logger,     \* the actor
          lost        \* history: a write has lost an event

logVars == <<emitted, port, subscribed, mailbox, buffer, file, logger, lost>>

\* Only the outcomes of tokio's BufWriter are possible.
ASSUME OutcomesAssumption == WriteOutcomes \subseteq {"flushed", "buffered", "lost"}

ASSUME BoundsAssumption == PortSize \in Nat \ {0} /\ MaxEmitted \in Nat

-----------------------------------------------------------------------------
\* bus.send: an emitter never waits.
Emit(event) ==
    /\ Len(emitted) < MaxEmitted
    /\ emitted' = Append(emitted, event)
    /\ port' = IF subscribed THEN Append(port, event) ELSE port
    /\ UNCHANGED <<subscribed, mailbox, buffer, file, logger, lost>>

\* Mutant: a subscriber that lags goes on with the next event.
ForwardSkipping ==
    /\ subscribed
    /\ port # <<>>
    /\ logger # "stopped"
    /\ mailbox' = IF Len(port) <= PortSize THEN Append(mailbox, Head(port)) ELSE mailbox
    /\ port' = Tail(port)
    /\ UNCHANGED <<emitted, subscribed, buffer, file, logger, lost>>

\* The forwarding task wraps the oldest event in a message.
Forward ==
    /\ subscribed
    /\ Len(port) \in 1 .. PortSize
    /\ logger # "stopped"
    /\ mailbox' = Append(mailbox, Head(port))
    /\ port' = Tail(port)
    /\ UNCHANGED <<emitted, subscribed, buffer, file, logger, lost>>

\* Mutant: what is left in the channel is not dropped.
UnsubscribeKeeping ==
    /\ subscribed
    /\ port # <<>>
    /\ Len(port) > PortSize \/ logger = "stopped"
    /\ subscribed' = FALSE
    /\ UNCHANGED <<emitted, port, mailbox, buffer, file, logger, lost>>

\* It ends when it has lagged behind the channel, or its actor is gone.
Unsubscribe ==
    /\ subscribed
    /\ port # <<>>
    /\ Len(port) > PortSize \/ logger = "stopped"
    /\ subscribed' = FALSE
    /\ port' = <<>>
    /\ UNCHANGED <<emitted, mailbox, buffer, file, logger, lost>>

\* Mutant: the buffer is not emptied by a flush.
WriteKeeping(event, outcome) ==
    \/ /\ outcome = "flushed"
       /\ file' = file \o Append(buffer, event)
       /\ UNCHANGED <<buffer, lost>>
    \/ /\ outcome # "flushed"
       /\ buffer' = Append(buffer, event)
       /\ UNCHANGED <<file, lost>>

\* write_all of the line, then a flush whose result nobody looks at.
Write(event, outcome) ==
    \/ /\ outcome = "flushed"
       /\ file' = file \o Append(buffer, event)
       /\ buffer' = <<>>
       /\ lost' = lost
    \/ /\ outcome = "buffered"
       /\ buffer' = Append(buffer, event)
       /\ UNCHANGED <<file, lost>>
    \/ /\ outcome = "lost"
       /\ lost' = TRUE
       /\ UNCHANGED <<file, buffer>>

\* handle: one event of the mailbox.
Log ==
    /\ logger = "running"
    /\ mailbox # <<>>
    /\ mailbox' = Tail(mailbox)
    /\ \E outcome \in WriteOutcomes : Write(Head(mailbox), outcome)
    /\ UNCHANGED <<emitted, port, subscribed, logger>>

\* stop(None): from here on no further message is handled.
Stop ==
    /\ logger = "running"
    /\ logger' = "stopping"
    /\ UNCHANGED <<emitted, port, subscribed, mailbox, buffer, file, lost>>

\* post_stop flushes once more; the mailbox goes with the actor.
PostStop ==
    /\ logger = "stopping"
    /\ logger' = "stopped"
    /\ mailbox' = <<>>
    /\ buffer' = <<>>
    /\ \/ file' = file \o buffer /\ lost' = lost
       \/ buffer # <<>> /\ WriteOutcomes # {"flushed"} /\ file' = file /\ lost' = TRUE
    /\ UNCHANGED <<emitted, port, subscribed>>

-----------------------------------------------------------------------------
LogInit ==
    /\ emitted = <<>>
    /\ port = <<>>
    /\ subscribed = TRUE
    /\ mailbox = <<>>
    /\ buffer = <<>>
    /\ file = <<>>
    /\ logger = "running"
    /\ lost = FALSE

LogNext == (\E event \in Kinds : Emit(event)) \/ Forward \/ Unsubscribe
               \/ Log \/ Stop \/ PostStop

LogSpec == LogInit /\ [][LogNext]_logVars

-----------------------------------------------------------------------------
LogTypeOK ==
    /\ emitted \in Seq(Kinds)
    /\ port \in Seq(Kinds)
    /\ subscribed \in BOOLEAN
    /\ mailbox \in Seq(Kinds)
    /\ buffer \in Seq(Kinds)
    /\ file \in Seq(Kinds)
    /\ logger \in {"running", "stopping", "stopped"}
    /\ lost \in BOOLEAN
    /\ ~subscribed => port = <<>>

\* An event that is not in the file is on its way: while the logger runs and
\* is subscribed, and no write has lost an event, file, buffer, mailbox and
\* channel in a row are what was emitted, in that order.
NothingLostRunning ==
    logger = "running" /\ subscribed /\ ~lost =>
        emitted = file \o buffer \o mailbox \o port

\* At every moment, also after a lag, a failed flush or the stop, the
\* trajectory has no gap: the file is a beginning of the history, unless a
\* write has lost an event.
FileHasNoGap ==
    ~lost => /\ Len(file) <= Len(emitted)
             /\ file = SubSeq(emitted, 1, Len(file))
=============================================================================
