------------------------------- MODULE SystemLog ------------------------------
(***************************************************************************)
(* The database log of the server (logger.service.ts), fed by the logger   *)
(* and by every realtime event (observability.module.ts), and what the     *)
(* shutdown of the process does with it (main.ts). A record is its number. *)
(***************************************************************************)
EXTENDS Naturals, Sequences

CONSTANTS
    MaxBatch, MaxQueue,          \* MAX_BATCH_SIZE, MAX_QUEUE_SIZE
    MaxLogs, MaxFail             \* bounds: records written, inserts that fail

ASSUME SystemLogAssumption ==
    /\ MaxBatch \in Nat \ {0} /\ MaxQueue \in Nat /\ MaxQueue >= MaxBatch
    /\ MaxLogs \in Nat /\ MaxFail \in Nat

VARIABLES
    queue,      \* this.queue
    batch,      \* records of the insert under way
    flushing,   \* this.flushing
    rows,       \* the table logs
    dropped,    \* records shifted out of a full queue
    next,       \* number of the next record
    proc,       \* the process: up, closing, ending (flushObservability), exited
    own,        \* flushObservability waits for the insert it started
    final,      \* the records of that insert, none once it failed
    clients,    \* a client holds a connection open
    fails

logVars == <<queue, batch, flushing, rows, dropped, next, proc, own, final, clients, fails>>
shutdown == <<proc, own, final, clients>>

Records == 1 .. MaxLogs
InSeq(s) == {s[k] : k \in DOMAIN s}

LogTypeOK ==
    /\ queue \in Seq(Records) /\ batch \in Seq(Records) /\ Len(batch) <= MaxBatch
    /\ flushing \in BOOLEAN /\ rows \subseteq Records /\ dropped \subseteq Records
    /\ next \in 1 .. MaxLogs + 1
    /\ proc \in {"up", "closing", "ending", "exited"}
    /\ own \in BOOLEAN /\ final \subseteq Records /\ clients \in BOOLEAN
    /\ fails \in 0 .. MaxFail

LogInit ==
    /\ queue = <<>> /\ batch = <<>> /\ flushing = FALSE /\ rows = {} /\ dropped = {}
    /\ next = 1 /\ proc = "up" /\ own = FALSE /\ final = {} /\ clients = FALSE
    /\ fails = MaxFail

Running == proc # "exited"
Least(a, b) == IF a < b THEN a ELSE b

\* flush() up to its await, of queue q
Flush(q) ==
    IF flushing \/ q = <<>>
      THEN queue' = q /\ UNCHANGED <<batch, flushing>>
      ELSE /\ flushing' = TRUE
           /\ batch' = SubSeq(q, 1, Least(MaxBatch, Len(q)))
           /\ queue' = SubSeq(q, MaxBatch + 1, Len(q))

\* A full queue gives up its first record
Room == IF Len(queue) >= MaxQueue THEN Tail(queue) ELSE queue

Enqueue ==
    /\ Running /\ next <= MaxLogs
    /\ LET q == Append(Room, next) IN
         IF Len(q) >= MaxBatch THEN Flush(q) ELSE queue' = q /\ UNCHANGED <<batch, flushing>>
    /\ dropped' = dropped \cup (InSeq(queue) \ InSeq(Room))
    /\ next' = next + 1
    /\ UNCHANGED <<rows, fails, shutdown>>

\* Every FLUSH_INTERVAL_MS
FlushTick ==
    /\ Running /\ ~flushing /\ queue # <<>>
    /\ Flush(queue)
    /\ UNCHANGED <<rows, dropped, next, fails, shutdown>>

\* createMany returns
Inserted ==
    /\ Running /\ batch # <<>>
    /\ rows' = rows \cup InSeq(batch)
    /\ batch' = <<>> /\ flushing' = FALSE /\ own' = FALSE
    /\ UNCHANGED <<queue, dropped, next, proc, final, clients, fails>>

\* Variant with a fault: the batch is put back behind what came after it.
Behind == queue \o batch
\* What the catch does with the batch
PutBack == batch \o queue

\* Variant with a fault: flushing is reset after the insert, not in a finally.
StaysFlushing ==
    /\ Running /\ batch # <<>> /\ fails > 0
    /\ fails' = fails - 1
    /\ rows' \in {rows, rows \cup InSeq(batch)}
    /\ queue' = PutBack
    /\ batch' = <<>> /\ own' = FALSE /\ final' = IF own THEN {} ELSE final
    /\ UNCHANGED <<flushing, dropped, next, proc, clients>>

\* createMany throws; the rows may have been written with the answer lost
InsertFails ==
    /\ Running /\ batch # <<>> /\ fails > 0
    /\ fails' = fails - 1
    /\ rows' \in {rows, rows \cup InSeq(batch)}
    /\ queue' = PutBack
    /\ batch' = <<>> /\ flushing' = FALSE
    /\ own' = FALSE /\ final' = IF own THEN {} ELSE final
    /\ UNCHANGED <<dropped, next, proc, clients>>

-----------------------------------------------------------------------------
(* Shutdown *)

Clients ==
    /\ Running
    /\ proc = "up" \/ clients         \* none is accepted any more after close
    /\ clients' = ~clients
    /\ UNCHANGED <<queue, batch, flushing, rows, dropped, next, proc, own, final, fails>>

\* The first SIGTERM or SIGINT stops the listener; process.once leaves the
\* next one to the default, which ends the process
Shutdown ==
    /\ Running
    /\ proc' = IF proc = "up" THEN "closing" ELSE "exited"
    /\ own' = FALSE /\ final' = {}
    /\ UNCHANGED <<queue, batch, flushing, rows, dropped, next, clients, fails>>

\* httpServer.close calls back when no connection is left: flushObservability
Closed ==
    /\ proc = "closing" /\ ~clients
    /\ proc' = "ending"
    /\ Flush(queue)
    /\ own' = (~flushing /\ queue # <<>>)
    /\ final' = IF own' THEN InSeq(batch') ELSE {}
    /\ UNCHANGED <<rows, dropped, next, clients, fails>>

ProcessExit ==
    /\ proc = "ending" /\ ~own
    /\ proc' = "exited"
    /\ UNCHANGED <<queue, batch, flushing, rows, dropped, next, own, final, clients, fails>>

LogNext == Enqueue \/ FlushTick \/ Inserted \/ InsertFails \/ Clients \/ Shutdown \/ Closed \/ ProcessExit

LogSpec == LogInit /\ [][LogNext]_logVars

\* The interval timer, and a database that answers every insert
FairLogSpec == LogSpec /\ WF_logVars(FlushTick) /\ WF_logVars(Inserted \/ InsertFails) /\ WF_logVars(Closed) /\ WF_logVars(ProcessExit)

-----------------------------------------------------------------------------
(* Properties *)

\* The table has no hole, however many inserts failed (logger.service.ts:61-69):
\* a record is in it, was given up by a full queue, or is on its way to it; and
\* what a process left in its memory when it ended is younger than every row.
Accounted ==
    \A r \in Records : r < next =>
        \/ r \in rows \cup dropped
        \/ Running /\ r \in InSeq(batch \o queue)
        \/ ~Running /\ \A q \in rows : q < r

\* Records reach the table in the order they were written, failed inserts
\* and all (logger.service.ts:61-69).
InOrder == LET s == batch \o queue IN \A i, j \in DOMAIN s : i < j => s[i] < s[j]

\* A database that is down fills the memory of the server with no more than
\* the queue and the batch put back before it (logger.service.ts:40).
QueueBounded == Len(queue) <= MaxQueue + MaxBatch

\* A process that ends on its own does so after the insert its shutdown started:
\* those records are in the table unless that insert failed (main.ts:30-36). It
\* starts none, and waits for none, while a flush of the timer is under way.
ExitWaits == proc = "exited" => ~own /\ final \subseteq rows

\* What keeps the records together: there is a batch exactly during an insert,
\* the queue has left room for a batch that comes back, the records on their way
\* are the youngest ones, and the shutdown waits for no insert but its own.
Stream == batch \o queue
Tracked == \A r \in Records : r < next => r \in rows \cup dropped \cup InSeq(Stream)
RowsAreOldest ==
    /\ \A q \in rows : q < next
    /\ \A r \in InSeq(Stream) \ rows, q \in rows : q < r
LogIInv ==
    /\ LogTypeOK
    /\ flushing <=> batch # <<>>
    /\ flushing => Len(queue) <= MaxQueue
    /\ QueueBounded /\ Tracked /\ RowsAreOldest /\ InOrder
    /\ \A r \in InSeq(Stream) : r < next
    /\ own => flushing /\ final = InSeq(batch)
    /\ proc = "exited" => ~own
    /\ ~own => final \subseteq rows

\* Every record reaches the table or is given up, while the process runs.
EveryRecordStored ==
    \A r \in Records : r \in InSeq(queue) ~> r \in rows \cup dropped \/ proc = "exited"
===============================================================================
