---------------------------- MODULE TelemetryWriter ----------------------------
(***************************************************************************)
(* The storage path of the worker: readings are appended to the Redis       *)
(* stream `telemetry` (record_telemetry_direct, from the MQTT loop and from *)
(* the HTTP ingest route) and stream_writer_loop drains it through a        *)
(* consumer group, batches the rows and stores each batch in one            *)
(* transaction before it acknowledges the entries.                          *)
(*                                                                          *)
(* An entry is its position in the stream.  `pel` is the group's pending    *)
(* entries list: delivered to the consumer and not yet acknowledged.        *)
(***************************************************************************)
EXTENDS Integers, FiniteSets

CONSTANTS
    BatchSize,      \* settings.telemetry_batch_size
    MaxEntries,     \* bound on the stream
    MaxExits        \* bound on the number of times the worker ends

ASSUME BatchAssumption == BatchSize \in Nat \ {0}
ASSUME BoundsAssumption == MaxEntries \in Nat /\ MaxExits \in Nat

VARIABLES
    \* Redis
    length,     \* entries in the stream
    rows,       \* the entries that parse as a telemetry row
    cursor,     \* the group's last-delivered-id
    pel,        \* delivered, not acknowledged
    \* stream_writer_loop
    phase,      \* "down", "read", "commit" or "ack"
    buffer,     \* rows read and not yet stored
    ack_ids,    \* entries read since the last flush
    \* the database
    stored,     \* the telemetry table
    latest,     \* the entry metric_health last recorded, 0 for none
    \* bound
    exits

loopVars == <<phase, buffer, ack_ids>>
vars == <<length, rows, cursor, pel, phase, buffer, ack_ids, stored, latest, exits>>

Entries == 1..length

TypeOK ==
    /\ length \in 0..MaxEntries
    /\ rows \subseteq Entries
    /\ cursor \in 0..length
    /\ pel \subseteq 1..cursor
    /\ phase \in {"down", "read", "commit", "ack"}
    /\ ack_ids \subseteq pel
    /\ buffer \subseteq ack_ids
    /\ stored \subseteq 1..cursor
    /\ latest \in 0..cursor
    /\ exits \in 0..MaxExits

Init ==
    /\ length = 0 /\ rows = {}
    /\ cursor = 0 /\ pel = {}
    /\ phase = "read" /\ buffer = {} /\ ack_ids = {}
    /\ stored = {} /\ latest = 0
    /\ exits = 0

-----------------------------------------------------------------------------
\* record_telemetry_direct: XADD, also while the worker is down (the HTTP
\* ingest route).  An older writer's entry may not parse.
Add(parses) ==
    /\ length < MaxEntries
    /\ length' = length + 1
    /\ rows' = IF parses THEN rows \cup {length'} ELSE rows
    /\ UNCHANGED <<cursor, pel, loopVars, stored, latest, exits>>

Smaller(m, n) == IF m < n THEN m ELSE n

\* XREADGROUP ">" COUNT: what is there, at most what the batch still holds.
Count == Smaller(BatchSize - Cardinality(buffer), length - cursor)
Batch == (cursor + 1)..(cursor + Count)

\* _should_flush: a full batch, or the oldest row is due.
ShouldFlush(b, due) == Cardinality(b) >= BatchSize \/ (b # {} /\ due)

\* _row_from_stream_entry: an entry that does not parse gives no row.
Parsed(S) == S \cap rows

\* One turn of the loop that reads something; due is whether the oldest
\* buffered row has waited a whole flush interval by then.
Read(due) ==
    /\ phase = "read"
    /\ cursor < length
    /\ cursor' = cursor + Count
    /\ pel' = pel \cup Batch
    /\ ack_ids' = ack_ids \cup Batch
    /\ buffer' = buffer \cup Parsed(Batch)
    /\ phase' = IF ShouldFlush(buffer', due) THEN "commit" ELSE "read"
    /\ UNCHANGED <<length, rows, stored, latest, exits>>

\* Mutant: an idle read flushes only a full batch.
IdleReadWaits ==
    /\ phase = "read"
    /\ cursor = length
    /\ ShouldFlush(buffer, FALSE)
    /\ phase' = "commit"
    /\ UNCHANGED <<length, rows, cursor, pel, buffer, ack_ids, stored, latest, exits>>

\* The read blocks until the oldest row is due, then returns nothing.
ReadTimesOut ==
    /\ phase = "read"
    /\ cursor = length
    /\ ShouldFlush(buffer, TRUE)
    /\ phase' = "commit"
    /\ UNCHANGED <<length, rows, cursor, pel, buffer, ack_ids, stored, latest, exits>>

Newest(S) == {m \in S : \A n \in S : n <= m}

\* Mutant: the entries are acknowledged before the transaction.
AckFirst ==
    /\ phase = "commit"
    /\ pel' = pel \ ack_ids
    /\ phase' = "ack"
    /\ UNCHANGED <<length, rows, cursor, buffer, ack_ids, stored, latest, exits>>

\* flush, the transaction: rows, last_seen and metric_health commit together.
Commit ==
    /\ phase = "commit"
    /\ stored' = stored \cup buffer
    /\ latest' \in Newest(buffer)
    /\ phase' = "ack"
    /\ UNCHANGED <<length, rows, cursor, pel, buffer, ack_ids, exits>>

\* flush, the rest: XACK, then empty both lists.
Ack ==
    /\ phase = "ack"
    /\ pel' = pel \ ack_ids
    /\ buffer' = {} /\ ack_ids' = {}
    /\ phase' = "read"
    /\ UNCHANGED <<length, rows, cursor, stored, latest, exits>>

\* The process ends, by a signal or by an error of Redis or of the database,
\* which this loop does not catch: what it had read is forgotten.
Exit ==
    /\ phase # "down"
    /\ exits < MaxExits
    /\ exits' = exits + 1
    /\ phase' = "down" /\ buffer' = {} /\ ack_ids' = {}
    /\ UNCHANGED <<length, rows, cursor, pel, stored, latest>>

\* The group exists already (BUSYGROUP): reading goes on after the cursor.
Restart ==
    /\ phase = "down"
    /\ phase' = "read"
    /\ UNCHANGED <<length, rows, cursor, pel, buffer, ack_ids, stored, latest, exits>>

Next ==
    \/ \E parses \in BOOLEAN : Add(parses)
    \/ \E due \in BOOLEAN : Read(due)
    \/ ReadTimesOut
    \/ Commit
    \/ Ack
    \/ Exit
    \/ Restart

Spec == Init /\ [][Next]_vars

\* The loop never waits for ever: a blocked read times out, and the container's
\* restart policy brings the worker back.
FairSpec ==
    /\ Spec
    /\ WF_vars(\E due \in BOOLEAN : Read(due))
    /\ WF_vars(ReadTimesOut)
    /\ WF_vars(Commit)
    /\ WF_vars(Ack)
    /\ WF_vars(Restart)

-----------------------------------------------------------------------------
(***************************************************************************)
(* Properties                                                              *)
(***************************************************************************)

\* An entry leaves the pending list only when its row is in the database:
\* wherever the worker ends between the commit and the XACK, no
\* acknowledgement outruns its transaction (flush).
AckedIsStored == \A i \in 1..cursor : i \in rows => i \in pel \cup stored

\* No reading is stored twice, though the worker may end between the commit
\* and the XACK: what a flush is about to insert is not in the table yet.
StoredOnce == phase = "commit" => buffer \cap stored = {}

\* The buffer never outgrows one batch, malformed entries and early flushes
\* included (count = batch_size - len(buffer)), and a read always asks for at
\* least one entry.
BufferIsBounded ==
    /\ Cardinality(buffer) <= BatchSize
    /\ phase = "read" => Cardinality(buffer) < BatchSize

\* The per-metric health row holds the newest reading that is stored: batches
\* reach the database in stream order.
HealthIsNewest == \A i \in stored : i <= latest

\* What the writer promises about readings and acknowledgements, wherever the
\* process ends.
WriterSafe == AckedIsStored /\ StoredOnce /\ HealthIsNewest /\ BufferIsBounded

(***************************************************************************)
(* The inductive invariant                                                 *)
(***************************************************************************)

\* What a flush acknowledges is what it stores, malformed entries aside.
BufferIsRows == buffer = ack_ids \cap rows

\* A batch not yet committed is newer than everything stored.
BufferIsNewer ==
    phase \in {"read", "commit"} => \A i \in stored, j \in buffer : i < j

\* A committed batch is stored, a batch to commit is not empty, a worker that
\* is down has none.
PhaseMatches ==
    /\ phase = "ack" => buffer \subseteq stored
    /\ phase = "commit" => buffer # {}
    /\ phase = "down" => ack_ids = {}

WriterInv ==
    /\ TypeOK
    /\ BufferIsRows
    /\ BufferIsNewer
    /\ PhaseMatches
    /\ AckedIsStored
    /\ StoredOnce
    /\ HealthIsNewest

\* A reading that an earlier life of the worker had read and not acknowledged.
Orphaned(i) == i \in pel /\ i \notin ack_ids

\* Every reading accepted on the stream is stored in the end, however small the
\* batch it ends up in and though the worker restarts, unless the worker had
\* read it already when it ended (stream_writer_loop).
StoredUnlessOrphaned ==
    \A i \in 1..MaxEntries : i \in rows ~> (i \in stored \/ Orphaned(i))

\* Every reading accepted on the stream is stored in the end: the group is
\* "durable across worker restarts".
EveryReadingStored == \A i \in 1..MaxEntries : i \in rows ~> i \in stored
=============================================================================
