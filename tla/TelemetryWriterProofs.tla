------------------------ MODULE TelemetryWriterProofs ------------------------
(***************************************************************************)
(* Proofs about the telemetry writer, for every batch size, every stream    *)
(* and every number of worker exits.                                        *)
(***************************************************************************)
EXTENDS TelemetryWriter, FiniteSetTheorems, TLAPS

\* A read asks for at most what the batch still holds and what is there.
LEMMA CountBounds ==
    ASSUME TypeOK, NEW c \in Nat, Cardinality(buffer) = c, c < BatchSize,
           cursor < length
    PROVE  /\ Count \in Nat \ {0}
           /\ Count <= BatchSize - c
           /\ cursor + Count <= length
  BY BatchAssumption, BoundsAssumption DEF TypeOK, Count, Smaller

\* A buffer is finite: it holds positions of the stream.
LEMMA BufferFinite ==
    ASSUME TypeOK
    PROVE  IsFiniteSet(buffer) /\ Cardinality(buffer) \in Nat
  <1>1. buffer \subseteq 1..cursor /\ cursor \in Int
    BY BoundsAssumption DEF TypeOK
  <1>2. IsFiniteSet(1..cursor)
    BY <1>1, FS_Interval
  <1> QED
    BY <1>1, <1>2, FS_Subset, FS_CardinalityType

\* A buffer that asks for a flush is not empty.
LEMMA FlushIsNotEmpty ==
    ASSUME NEW b, NEW due \in BOOLEAN, ShouldFlush(b, due)
    PROVE  b # {}
  BY FS_EmptySet, BatchAssumption DEF ShouldFlush

\* The initial state satisfies the invariant.
LEMMA InitWriter == Init => WriterInv /\ BufferIsBounded
  BY BoundsAssumption, BatchAssumption, FS_EmptySet
  DEF Init, WriterInv, TypeOK, Entries, BufferIsRows, BufferIsNewer, PhaseMatches,
      AckedIsStored, StoredOnce, HealthIsNewest, BufferIsBounded

\* XADD only extends the stream beyond the cursor.
LEMMA AddStep ==
    ASSUME WriterInv, BufferIsBounded, NEW parses \in BOOLEAN, Add(parses)
    PROVE  WriterInv' /\ BufferIsBounded'
  <1> USE BoundsAssumption DEF Add, loopVars
  <1>1. length' = length + 1 /\ rows \subseteq rows' /\ rows' \subseteq rows \cup {length + 1}
    OBVIOUS
  <1>2. TypeOK'
    BY <1>1 DEF WriterInv, TypeOK, Entries
  <1>3. \A i \in 1..cursor : i \in rows' <=> i \in rows
    BY <1>1 DEF WriterInv, TypeOK
  <1>4. BufferIsRows'
    BY <1>3 DEF WriterInv, TypeOK, BufferIsRows
  <1>5. AckedIsStored'
    BY <1>3 DEF WriterInv, AckedIsStored
  <1>6. BufferIsNewer' /\ PhaseMatches' /\ StoredOnce' /\ HealthIsNewest'
        /\ BufferIsBounded'
    BY DEF WriterInv, BufferIsNewer, PhaseMatches, StoredOnce, HealthIsNewest,
           BufferIsBounded
  <1> QED BY <1>2, <1>4, <1>5, <1>6 DEF WriterInv

\* A read delivers entries beyond the cursor: they are pending, and newer than
\* everything stored.
LEMMA ReadStep ==
    ASSUME WriterInv, BufferIsBounded, NEW due \in BOOLEAN, Read(due)
    PROVE  WriterInv' /\ BufferIsBounded'
  <1> DEFINE c == Cardinality(buffer)
  <1>0. TypeOK /\ phase = "read" /\ cursor < length
    BY DEF WriterInv, Read
  <1>1. IsFiniteSet(buffer) /\ c \in Nat
    BY <1>0, BufferFinite
  <1>2. c < BatchSize
    BY <1>0 DEF BufferIsBounded
  <1>3. Count \in Nat \ {0} /\ Count <= BatchSize - c /\ cursor + Count <= length
    BY <1>0, <1>1, <1>2, CountBounds
  <1>4. cursor \in Nat /\ length \in Nat /\ BatchSize \in Nat
    BY <1>0, BoundsAssumption, BatchAssumption DEF TypeOK
  <1>5. \A i \in Batch : i \in Nat /\ cursor < i /\ i <= cursor + Count
    BY <1>3, <1>4 DEF Batch
  <1>6. IsFiniteSet(Batch) /\ Cardinality(Batch) = Count
    <2>1. cursor + 1 \in Int /\ cursor + Count \in Int /\ ~(cursor + 1 > cursor + Count)
      BY <1>3, <1>4
    <2>2. /\ IsFiniteSet((cursor + 1)..(cursor + Count))
          /\ Cardinality((cursor + 1)..(cursor + Count)) = (cursor + Count) - (cursor + 1) + 1
      BY <2>1, FS_Interval
    <2> QED BY <2>2, <1>3, <1>4 DEF Batch
  <1>7. cursor' = cursor + Count /\ pel' = pel \cup Batch /\ ack_ids' = ack_ids \cup Batch
        /\ buffer' = buffer \cup (Batch \cap rows) /\ length' = length /\ rows' = rows
        /\ stored' = stored /\ latest' = latest /\ exits' = exits
        /\ phase' = IF ShouldFlush(buffer', due) THEN "commit" ELSE "read"
    BY DEF Read, Parsed
  <1> HIDE DEF c
  <1>8. TypeOK'
    <2>1. cursor' \in 0..length' /\ 1..cursor \subseteq 1..cursor'
          /\ 0..cursor \subseteq 0..cursor'
      BY <1>3, <1>4, <1>7
    <2>2. Batch \subseteq 1..cursor'
      BY <1>3, <1>4, <1>5, <1>7
    <2>3. pel' \subseteq 1..cursor'
      BY <1>0, <1>7, <2>1, <2>2 DEF TypeOK
    <2>4. ack_ids' \subseteq pel' /\ buffer' \subseteq ack_ids'
      BY <1>0, <1>7 DEF TypeOK
    <2>5. stored' \subseteq 1..cursor' /\ latest' \in 0..cursor'
      BY <1>0, <1>7, <2>1 DEF TypeOK
    <2> QED BY <1>0, <1>7, <2>1, <2>3, <2>4, <2>5 DEF TypeOK, Entries
  <1>9. BufferIsRows'
    <2>1. buffer = ack_ids \cap rows
      BY DEF WriterInv, BufferIsRows
    <2>2. buffer' = (ack_ids \cup Batch) \cap rows
      BY <2>1, <1>7
    <2> QED BY <2>2, <1>7 DEF BufferIsRows
  <1>10. BufferIsNewer'
    <2>1. \A i \in stored, j \in buffer : i < j
      BY <1>0 DEF WriterInv, BufferIsNewer
    <2>2. \A i \in stored : i \in Nat /\ i <= cursor
      BY <1>0, <1>4 DEF TypeOK
    <2>3. \A i \in stored, j \in buffer' : i < j
      BY <2>1, <2>2, <1>4, <1>5, <1>7
    <2> QED BY <2>3, <1>7 DEF BufferIsNewer
  <1>11. PhaseMatches'
    BY <1>7, FlushIsNotEmpty DEF PhaseMatches
  <1>12. AckedIsStored'
    <2> SUFFICES ASSUME NEW i \in 1..(cursor + Count), i \in rows
                 PROVE  i \in pel \cup Batch \cup stored
      BY <1>7 DEF AckedIsStored
    <2>1. i \in 1..cursor \/ i \in Batch
      BY <1>3, <1>4 DEF Batch
    <2> QED BY <2>1 DEF WriterInv, AckedIsStored
  <1>13. StoredOnce'
    <2>1. \A i \in stored, j \in buffer' : i < j
      BY <1>10, <1>7 DEF BufferIsNewer
    <2>2. \A i \in stored : i \in Nat
      BY <1>0, <1>4 DEF TypeOK
    <2> QED BY <2>1, <2>2, <1>7 DEF StoredOnce
  <1>14. HealthIsNewest'
    BY <1>7 DEF WriterInv, HealthIsNewest
  <1>15. BufferIsBounded'
    <2>1. IsFiniteSet(Batch \cap rows) /\ Cardinality(Batch \cap rows) <= Count
          /\ Cardinality(Batch \cap rows) \in Nat
      <3>1. Batch \cap rows \subseteq Batch
        OBVIOUS
      <3> QED BY <3>1, <1>6, FS_Subset, FS_CardinalityType
    <2>2. IsFiniteSet(buffer \cap (Batch \cap rows))
      BY <2>1, FS_Subset
    <2>3. Cardinality(buffer \cap (Batch \cap rows)) \in Nat
      BY <2>2, FS_CardinalityType
    <2>4. Cardinality(buffer') =
            c + Cardinality(Batch \cap rows) - Cardinality(buffer \cap (Batch \cap rows))
      BY <1>1, <1>7, <2>1, FS_Union DEF c
    <2>5. Cardinality(buffer') \in Int /\ Cardinality(buffer') <= BatchSize
      BY <2>1, <2>3, <2>4, <1>1, <1>3, <1>4
    <2>6. phase' = "read" => Cardinality(buffer') < BatchSize
      BY <1>7, <1>4, <2>5 DEF ShouldFlush
    <2> QED BY <2>5, <2>6 DEF BufferIsBounded
  <1> QED BY <1>8, <1>9, <1>10, <1>11, <1>12, <1>13, <1>14, <1>15 DEF WriterInv

\* A timed-out read only starts a flush.
LEMMA TimeoutStep ==
    ASSUME WriterInv, BufferIsBounded, ReadTimesOut
    PROVE  WriterInv' /\ BufferIsBounded'
  <1>1. buffer # {}
    BY FlushIsNotEmpty DEF ReadTimesOut
  <1>2. \A i \in stored, j \in buffer : i < j
    BY DEF WriterInv, BufferIsNewer, ReadTimesOut
  <1>3. \A i \in stored : i \in Nat
    BY BoundsAssumption DEF WriterInv, TypeOK
  <1> QED
    BY <1>1, <1>2, <1>3
    DEF ReadTimesOut, WriterInv, TypeOK, Entries, BufferIsRows, BufferIsNewer,
        PhaseMatches, AckedIsStored, StoredOnce, HealthIsNewest, BufferIsBounded

\* The transaction stores a batch newer than everything before it.
LEMMA CommitStep ==
    ASSUME WriterInv, BufferIsBounded, Commit
    PROVE  WriterInv' /\ BufferIsBounded'
  <1> USE BoundsAssumption DEF Commit
  <1>1. buffer \subseteq 1..cursor /\ cursor \in Nat
    BY DEF WriterInv, TypeOK
  <1>2. latest' \in buffer /\ \A n \in buffer : n <= latest'
    BY DEF Newest
  <1>3. TypeOK'
    BY <1>1, <1>2 DEF WriterInv, TypeOK, Entries
  <1>4. HealthIsNewest'
    <2>1. \A i \in stored : i < latest'
      BY <1>2 DEF WriterInv, BufferIsNewer
    <2>2. \A i \in stored : i \in Nat
      BY <1>1 DEF WriterInv, TypeOK
    <2>3. latest' \in Nat /\ stored' = stored \cup buffer
      BY <1>1, <1>2
    <2>4. \A i \in stored : i <= latest'
      BY <2>1, <2>2, <2>3
    <2>5. \A i \in stored \cup buffer : i <= latest'
      BY <1>2, <2>4
    <2> QED BY <2>3, <2>5 DEF HealthIsNewest
  <1>5. BufferIsRows' /\ BufferIsNewer' /\ PhaseMatches' /\ AckedIsStored'
        /\ StoredOnce' /\ BufferIsBounded'
    BY DEF WriterInv, BufferIsRows, BufferIsNewer, PhaseMatches, AckedIsStored,
           StoredOnce, BufferIsBounded
  <1> QED BY <1>3, <1>4, <1>5 DEF WriterInv

\* What is acknowledged is a stored row or a malformed entry.
LEMMA AckStep ==
    ASSUME WriterInv, BufferIsBounded, Ack
    PROVE  WriterInv' /\ BufferIsBounded'
  <1>1. ack_ids \cap rows \subseteq stored
    BY DEF WriterInv, BufferIsRows, PhaseMatches, Ack
  <1>2. AckedIsStored'
    BY <1>1 DEF WriterInv, AckedIsStored, Ack
  <1>3. BufferIsBounded'
    BY FS_EmptySet, BatchAssumption DEF BufferIsBounded, Ack
  <1> QED
    BY <1>2, <1>3
    DEF Ack, WriterInv, TypeOK, Entries, BufferIsRows, BufferIsNewer, PhaseMatches,
        StoredOnce, HealthIsNewest

\* A worker that ends forgets its batch and leaves it pending.
LEMMA ExitStep ==
    ASSUME WriterInv, BufferIsBounded, Exit
    PROVE  WriterInv' /\ BufferIsBounded'
  <1>1. BufferIsBounded'
    BY FS_EmptySet, BatchAssumption DEF BufferIsBounded, Exit
  <1> QED
    BY <1>1, BoundsAssumption
    DEF Exit, WriterInv, TypeOK, Entries, BufferIsRows, BufferIsNewer, PhaseMatches,
        AckedIsStored, StoredOnce, HealthIsNewest

\* A worker that starts reads on after the cursor.
LEMMA RestartStep ==
    ASSUME WriterInv, BufferIsBounded, Restart
    PROVE  WriterInv' /\ BufferIsBounded'
  <1>1. buffer = {}
    BY DEF WriterInv, BufferIsRows, PhaseMatches, Restart
  <1>2. BufferIsBounded'
    BY <1>1, FS_EmptySet, BatchAssumption DEF BufferIsBounded, Restart
  <1> QED
    BY <1>1, <1>2
    DEF Restart, WriterInv, TypeOK, Entries, BufferIsRows, BufferIsNewer,
        PhaseMatches, AckedIsStored, StoredOnce, HealthIsNewest

\* Every step of the writer preserves the invariant.
LEMMA NextWriter ==
    ASSUME WriterInv, BufferIsBounded, [Next]_vars
    PROVE  WriterInv' /\ BufferIsBounded'
  <1>1. CASE \E parses \in BOOLEAN : Add(parses)
    BY <1>1, AddStep
  <1>2. CASE \E due \in BOOLEAN : Read(due)
    BY <1>2, ReadStep
  <1>3. CASE ReadTimesOut
    BY <1>3, TimeoutStep
  <1>4. CASE Commit
    BY <1>4, CommitStep
  <1>5. CASE Ack
    BY <1>5, AckStep
  <1>6. CASE Exit
    BY <1>6, ExitStep
  <1>7. CASE Restart
    BY <1>7, RestartStep
  <1>8. CASE UNCHANGED vars
    BY <1>8
    DEF vars, WriterInv, TypeOK, Entries, BufferIsRows, BufferIsNewer, PhaseMatches,
        AckedIsStored, StoredOnce, HealthIsNewest, BufferIsBounded
  <1> QED
    BY <1>1, <1>2, <1>3, <1>4, <1>5, <1>6, <1>7, <1>8 DEF Next

\* The inductive invariant holds throughout: stream_writer_loop acknowledges a
\* batch only after its transaction, in stream order, one batch at a time.
THEOREM WriterInvariant == Spec => []WriterInv
  <1>1. Init => WriterInv /\ BufferIsBounded
    BY InitWriter
  <1>2. (WriterInv /\ BufferIsBounded) /\ [Next]_vars => (WriterInv /\ BufferIsBounded)'
    BY NextWriter
  <1> QED BY <1>1, <1>2, PTL DEF Spec

\* flush never acknowledges a reading that is not in the database, wherever the
\* worker ends.
THEOREM AckedIsStoredTheorem == Spec => []AckedIsStored
  <1>1. WriterInv => AckedIsStored
    BY DEF WriterInv
  <1> QED BY <1>1, WriterInvariant, PTL

\* flush never inserts a reading that is already in the database.
THEOREM StoredOnceTheorem == Spec => []StoredOnce
  <1>1. WriterInv => StoredOnce
    BY DEF WriterInv
  <1> QED BY <1>1, WriterInvariant, PTL

\* record_batch leaves the newest stored reading in the health row.
THEOREM HealthIsNewestTheorem == Spec => []HealthIsNewest
  <1>1. WriterInv => HealthIsNewest
    BY DEF WriterInv
  <1> QED BY <1>1, WriterInvariant, PTL

\* The buffer of stream_writer_loop never exceeds telemetry_batch_size, and a
\* read always has room for at least one entry.
THEOREM BufferIsBoundedTheorem == Spec => []BufferIsBounded
  <1>1. Init => WriterInv /\ BufferIsBounded
    BY InitWriter
  <1>2. (WriterInv /\ BufferIsBounded) /\ [Next]_vars => (WriterInv /\ BufferIsBounded)'
    BY NextWriter
  <1> QED BY <1>1, <1>2, PTL DEF Spec

\* Wherever the process ends, what is acknowledged is stored, nothing is stored
\* twice, the health row is the newest reading and a batch stays bounded.
THEOREM WriterSafeTheorem == Spec => []WriterSafe
  <1>1. AckedIsStored /\ StoredOnce /\ HealthIsNewest /\ BufferIsBounded => WriterSafe
    BY DEF WriterSafe
  <1> QED BY <1>1, AckedIsStoredTheorem, StoredOnceTheorem, HealthIsNewestTheorem,
             BufferIsBoundedTheorem, PTL
=============================================================================
