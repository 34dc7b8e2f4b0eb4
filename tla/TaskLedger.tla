----------------------------- MODULE TaskLedger -----------------------------
(***************************************************************************)
(* What the task system promises: a ledger of tasks that are waiting in    *)
(* the order of the queue, running (at most one), done, halted or          *)
(* deferred, and a durable copy of it.                                     *)
(*                                                                         *)
(* A task moves forward only: out of the queue at its head, then into one  *)
(* of the final places.  A move may or may not reach the durable copy, may *)
(* make it unreadable, and recovery goes back to that copy and to nothing  *)
(* else.  TaskActor implements this specification.                         *)
(***************************************************************************)
EXTENDS Naturals, Sequences

CONSTANTS
    Tasks,        \* the tasks
    Queues,       \* the orders the queue may have at the start
    None,         \* no task is running
    Unreadable    \* the durable copy is lost

VARIABLES
    working,      \* the ledger the system works with
    durable       \* the copy a recovery finds

ledgerVars == <<working, durable>>

LedgerRecord(waiting, running, done, halted, deferred) ==
    [waiting |-> waiting, running |-> running, done |-> done,
     halted |-> halted, deferred |-> deferred]

\* The tasks that are done once the running one is.
Done == working.done \cup {working.running}

\* A move may reach the durable copy, miss it or destroy it.
Persist(ledger) == durable' \in {ledger, durable, Unreadable}

Move(ledger) ==
    /\ working' = ledger
    /\ Persist(ledger)

\* The entry that runs next, if the head of the queue is a task.
Following == IF Head(working.waiting) \in Tasks THEN Head(working.waiting)
             ELSE None

\* With nothing running, the head of the queue leaves it, to run if it is a
\* task.  An entry that is none is thrown away.
Begin ==
    /\ working.running = None
    /\ working.waiting # <<>>
    /\ Move(LedgerRecord(Tail(working.waiting), Following, working.done,
                         working.halted, working.deferred))

\* The running task is done; the next entry, if it is a task, runs at once.
Finish ==
    /\ working.running # None
    /\ \/ /\ working.waiting = <<>>
          /\ Move(LedgerRecord(<<>>, None, Done, working.halted,
                               working.deferred))
       \/ /\ working.waiting # <<>>
          /\ Move(LedgerRecord(Tail(working.waiting), Following, Done,
                               working.halted, working.deferred))

\* The running task is halted or put off; nothing runs until the next Begin.
Stop ==
    /\ working.running # None
    /\ \/ Move(LedgerRecord(working.waiting, None, working.done,
                            working.halted \cup {working.running},
                            working.deferred))
       \/ Move(LedgerRecord(working.waiting, None, working.done,
                            working.halted,
                            working.deferred \cup {working.running}))

\* The working ledger is written again.
Rewrite ==
    /\ working' = working
    /\ Persist(working)

Recover ==
    /\ durable # Unreadable
    /\ working' = durable
    /\ durable' = durable

LedgerInit ==
    /\ \E q \in Queues :
          \/ working = LedgerRecord(q, None, {}, {}, {})
          \/ /\ q # <<>>
             /\ Head(q) \in Tasks
             /\ working = LedgerRecord(Tail(q), Head(q), {}, {}, {})
    /\ durable = working

LedgerNext == Begin \/ Finish \/ Stop \/ Rewrite \/ Recover

LedgerSpec == LedgerInit /\ [][LedgerNext]_ledgerVars
=============================================================================
