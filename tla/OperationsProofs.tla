--------------------------- MODULE OperationsProofs ---------------------------
(***************************************************************************)
(* What runs the game, proved for every size.  First SystemLog: no record  *)
(* disappears, their order stays, the queue is bounded and the end of the  *)
(* process comes after its own insert.  Then Deployment, for any releases,   *)
(* containers, jobs, failures and deaths: the ledger of migrations is      *)
(* true, runners never trip over each other, a ready server has every      *)
(* migration of its release, and an edit of an applied migration is not    *)
(* let through unless it is on the list.  The two share nothing.           *)
(***************************************************************************)
EXTENDS SystemLog, Deployment, SequenceTheorems, TLAPS

-----------------------------------------------------------------------------
(*                              The system log                             *)

USE SystemLogAssumption

Seqs == Seq(Records)
Increasing(s) == \A i, j \in DOMAIN s : i < j => s[i] < s[j]

-----------------------------------------------------------------------------
(* Sequences of records *)

LEMMA InSeqConcat ==
    ASSUME NEW s \in Seqs, NEW t \in Seqs
    PROVE  s \o t \in Seqs /\ InSeq(s \o t) = InSeq(s) \cup InSeq(t)
<1>1. /\ s \o t \in Seqs /\ Len(s \o t) = Len(s) + Len(t) /\ Len(s) \in Nat /\ Len(t) \in Nat
      /\ \A i \in 1 .. Len(s) + Len(t) : (s \o t)[i] = IF i <= Len(s) THEN s[i] ELSE t[i - Len(s)]
  BY ConcatProperties, LenProperties DEF Seqs
<1>2. DOMAIN s = 1 .. Len(s) /\ DOMAIN t = 1 .. Len(t) /\ DOMAIN (s \o t) = 1 .. Len(s) + Len(t)
  BY <1>1, LenProperties DEF Seqs
<1>3. InSeq(s \o t) \subseteq InSeq(s) \cup InSeq(t)
  BY <1>1, <1>2 DEF InSeq
<1>4. InSeq(s) \subseteq InSeq(s \o t)
  BY <1>1, <1>2 DEF InSeq
<1>5. ASSUME NEW x \in InSeq(t) PROVE x \in InSeq(s \o t)
  <2>1. PICK k \in 1 .. Len(t) : x = t[k]
    BY <1>2 DEF InSeq
  <2>2. Len(s) + k \in 1 .. Len(s) + Len(t) /\ (s \o t)[Len(s) + k] = t[k]
    BY <1>1
  <2> QED
    BY <1>2, <2>1, <2>2 DEF InSeq
<1> QED
  BY <1>1, <1>3, <1>4, <1>5

LEMMA AppendToSeq ==
    ASSUME NEW s \in Seqs, NEW r \in Records
    PROVE  /\ Append(s, r) \in Seqs /\ Append(s, r) # <<>> /\ Len(Append(s, r)) = Len(s) + 1
           /\ InSeq(Append(s, r)) = InSeq(s) \cup {r}
           /\ Increasing(s) /\ (\A x \in InSeq(s) : x < r) => Increasing(Append(s, r))
<1>1. /\ Append(s, r) \in Seqs /\ Append(s, r) # <<>> /\ Len(Append(s, r)) = Len(s) + 1
      /\ \A i \in 1 .. Len(s) : Append(s, r)[i] = s[i]
      /\ Append(s, r)[Len(s) + 1] = r
  BY AppendProperties DEF Seqs
<1>2. Len(s) \in Nat /\ DOMAIN s = 1 .. Len(s) /\ DOMAIN Append(s, r) = 1 .. Len(s) + 1
  BY <1>1, LenProperties DEF Seqs
<1>3. InSeq(Append(s, r)) = InSeq(s) \cup {r}
  BY <1>1, <1>2 DEF InSeq
<1>4. Increasing(s) /\ (\A x \in InSeq(s) : x < r) => Increasing(Append(s, r))
  BY <1>1, <1>2 DEF Increasing, InSeq
<1> QED
  BY <1>1, <1>3, <1>4

\* Without the first record of its second part a stream stays in order.
LEMMA TailKeepsOrder ==
    ASSUME NEW s \in Seqs, NEW t \in Seqs, t # <<>>, Increasing(s \o t)
    PROVE  Tail(t) \in Seqs /\ Len(Tail(t)) = Len(t) - 1 /\ InSeq(Tail(t)) \subseteq InSeq(t)
           /\ Increasing(s \o Tail(t))
<1>1. /\ Tail(t) \in Seqs /\ Len(Tail(t)) = Len(t) - 1 /\ Len(t) \in Nat /\ Len(s) \in Nat /\ Len(t) # 0
      /\ \A i \in 1 .. Len(Tail(t)) : Tail(t)[i] = t[i + 1]
  BY HeadTailProperties, LenProperties, EmptySeq DEF Seqs
<1>2. DOMAIN t = 1 .. Len(t) /\ DOMAIN Tail(t) = 1 .. Len(t) - 1
  BY <1>1, LenProperties DEF Seqs
<1>3. InSeq(Tail(t)) \subseteq InSeq(t)
  BY <1>1, <1>2 DEF InSeq
<1>4. /\ \A i \in 1 .. Len(s) + Len(t) : (s \o t)[i] = IF i <= Len(s) THEN s[i] ELSE t[i - Len(s)]
      /\ DOMAIN (s \o t) = 1 .. Len(s) + Len(t)
  BY ConcatProperties, LenProperties DEF Seqs
<1>5. /\ \A i \in 1 .. Len(s) + Len(t) - 1 : (s \o Tail(t))[i] = IF i <= Len(s) THEN s[i] ELSE Tail(t)[i - Len(s)]
      /\ DOMAIN (s \o Tail(t)) = 1 .. Len(s) + Len(t) - 1
  <2>1. /\ s \o Tail(t) \in Seqs /\ Len(s \o Tail(t)) = Len(s) + Len(Tail(t))
        /\ \A i \in 1 .. Len(s) + Len(Tail(t)) : (s \o Tail(t))[i] = IF i <= Len(s) THEN s[i] ELSE Tail(t)[i - Len(s)]
    BY <1>1, ConcatProperties DEF Seqs
  <2> QED
    BY <1>1, <2>1, LenProperties DEF Seqs
<1>6. \A i \in 1 .. Len(s) + Len(t) - 1 : (s \o Tail(t))[i] = IF i <= Len(s) THEN (s \o t)[i] ELSE (s \o t)[i + 1]
  BY <1>1, <1>4, <1>5
<1>7. Increasing(s \o Tail(t))
  <2> SUFFICES ASSUME NEW i \in 1 .. Len(s) + Len(t) - 1, NEW j \in 1 .. Len(s) + Len(t) - 1, i < j
               PROVE  (s \o Tail(t))[i] < (s \o Tail(t))[j]
    BY <1>5 DEF Increasing
  <2>1. \A k, l \in 1 .. Len(s) + Len(t) : k < l => (s \o t)[k] < (s \o t)[l]
    BY <1>4 DEF Increasing
  <2>2. i \in 1 .. Len(s) + Len(t) /\ i + 1 \in 1 .. Len(s) + Len(t)
        /\ j \in 1 .. Len(s) + Len(t) /\ j + 1 \in 1 .. Len(s) + Len(t)
    BY <1>1
  <2>3. CASE j <= Len(s)
    BY <1>1, <1>6, <2>1, <2>2, <2>3
  <2>4. CASE i <= Len(s) /\ ~ j <= Len(s)
    BY <1>1, <1>6, <2>1, <2>2, <2>4
  <2>5. CASE ~ i <= Len(s) /\ ~ j <= Len(s)
    BY <1>1, <1>6, <2>1, <2>2, <2>5
  <2> QED
    BY <1>1, <2>3, <2>4, <2>5
<1> QED
  BY <1>1, <1>3, <1>7

-----------------------------------------------------------------------------
(* flush *)

LEMMA LeastIs ==
    ASSUME NEW a \in Nat, NEW b \in Nat
    PROVE  (a <= b => Least(a, b) = a) /\ (b < a => Least(a, b) = b)
  BY DEF Least

\* flush moves records from the queue to the batch and changes no stream.
LEMMA FlushKeeps ==
    ASSUME LogTypeOK, flushing <=> batch # <<>>, NEW q \in Seqs, Flush(q)
    PROVE  /\ queue' \in Seqs /\ batch' \in Seqs /\ Len(batch') <= MaxBatch /\ flushing' \in BOOLEAN
           /\ flushing' <=> batch' # <<>>
           /\ batch' \o queue' = batch \o q
           /\ flushing \/ q = <<>> => queue' = q /\ batch' = batch /\ flushing' = flushing
           /\ ~ (flushing \/ q = <<>>) =>
                 flushing' /\ Len(queue') <= Len(q) /\ (Len(q) <= MaxBatch + MaxQueue => Len(queue') <= MaxQueue)
<1>1. batch \in Seqs /\ Len(batch) <= MaxBatch /\ flushing \in BOOLEAN
  BY DEF LogTypeOK, Seqs
<1>2. CASE flushing \/ q = <<>>
  BY <1>1, <1>2 DEF Flush
<1>3. CASE ~ (flushing \/ q = <<>>)
  <2> DEFINE n == Least(MaxBatch, Len(q))
  <2>1. batch' = SubSeq(q, 1, n) /\ queue' = SubSeq(q, MaxBatch + 1, Len(q)) /\ flushing' = TRUE
    BY <1>3 DEF Flush
  <2>2. Len(q) \in Nat \ {0} /\ n \in 1 .. Len(q) /\ n <= MaxBatch /\ q \in [1 .. Len(q) -> Records]
    BY <1>3, EmptySeq, LenProperties DEF Least, Seqs
  <2>3. batch' \in Seqs /\ Len(batch') = n
    <3>1. \A i \in 1 .. n : q[i] \in Records
      BY <2>2
    <3> HIDE DEF n
    <3> QED
      BY <2>1, <2>2, <3>1, SubSeqProperties DEF Seqs
  <2>4. queue' \in Seqs /\ Len(queue') = (IF MaxBatch + 1 <= Len(q) THEN Len(q) - MaxBatch ELSE 0)
    <3>1. \A i \in MaxBatch + 1 .. Len(q) : q[i] \in Records
      BY <2>2
    <3>2. /\ SubSeq(q, MaxBatch + 1, Len(q)) \in Seq(Records)
          /\ Len(SubSeq(q, MaxBatch + 1, Len(q))) = IF MaxBatch + 1 <= Len(q) THEN Len(q) - (MaxBatch + 1) + 1 ELSE 0
      BY <2>2, <3>1, SubSeqProperties
    <3> QED
      BY <2>1, <2>2, <3>2 DEF Seqs
  <2>5. queue' = SubSeq(q, n + 1, Len(q))
    <3>1. CASE MaxBatch <= Len(q)
      <4>1. n = MaxBatch
        BY <2>2, <3>1, LeastIs
      <4> QED
        BY <2>1, <4>1
    <3>2. CASE MaxBatch > Len(q)
      <4>1. n = Len(q)
        BY <2>2, <3>2, LeastIs
      <4>2. SubSeq(q, MaxBatch + 1, Len(q)) = <<>> /\ SubSeq(q, Len(q) + 1, Len(q)) = <<>>
        BY <2>2, <3>2, SubSeqEmpty
      <4> QED
        BY <2>1, <4>1, <4>2
    <3> QED
      BY <2>2, <3>1, <3>2
  <2>6. SubSeq(q, 1, n) \o SubSeq(q, n + 1, Len(q)) = q
    <3>1. 1 \in 1 .. Len(q) + 1 /\ n \in 1 - 1 .. Len(q) /\ Len(q) \in n .. Len(q)
      BY <2>2
    <3>2. SubSeq(q, 1, n) \o SubSeq(q, n + 1, Len(q)) = SubSeq(q, 1, Len(q))
      <4> HIDE DEF n
      <4> QED
        BY <3>1, ConcatAdjacentSubSeq DEF Seqs
    <3> QED
      BY <3>2, SubSeqFull DEF Seqs
  <2>7. batch = <<>> /\ batch \o q = q
    BY <1>3, ConcatEmptySeq DEF Seqs
  <2>8. batch' # <<>>
    BY <2>2, <2>3, EmptySeq
  <2>9. batch' \o queue' = batch \o q
    BY <2>1, <2>5, <2>6, <2>7
  <2>10. Len(queue') <= Len(q) /\ (Len(q) <= MaxBatch + MaxQueue => Len(queue') <= MaxQueue)
    <3>1. MaxBatch \in Nat \ {0} /\ MaxQueue \in Nat /\ Len(q) \in Nat
      BY <2>2
    <3>2. CASE MaxBatch + 1 <= Len(q)
      BY <2>4, <3>1, <3>2
    <3>3. CASE ~ (MaxBatch + 1 <= Len(q))
      BY <2>4, <3>1, <3>3
    <3> QED
      BY <3>2, <3>3
  <2>11. Len(batch') <= MaxBatch /\ flushing' = TRUE
    BY <2>1, <2>2, <2>3
  <2> HIDE DEF n
  <2> QED
    BY <1>3, <2>3, <2>4, <2>8, <2>9, <2>10, <2>11
<1> QED
  BY <1>2, <1>3

-----------------------------------------------------------------------------
(* The invariant is inductive *)

LEMMA LogInitIInv == LogInit => LogIInv
<1> SUFFICES ASSUME LogInit PROVE LogIInv
  OBVIOUS
<1>1. queue = <<>> /\ batch = <<>> /\ <<>> \in Seqs /\ Len(<<>>) = 0 /\ Stream = <<>>
  BY EmptySeq, ConcatEmptySeq DEF LogInit, Stream, Seqs
<1>2. InSeq(<<>>) = {} /\ DOMAIN <<>> = {}
  BY <1>1, LenProperties DEF InSeq, Seqs
<1>3. LogTypeOK
  <2>1. 1 \in 1 .. MaxLogs + 1 /\ MaxFail \in 0 .. MaxFail /\ 0 <= MaxBatch
    OBVIOUS
  <2> QED
    BY <1>1, <2>1 DEF LogInit, LogTypeOK, Seqs
<1>4. QueueBounded /\ Tracked /\ RowsAreOldest /\ InOrder
  BY <1>1, <1>2 DEF LogInit, QueueBounded, Tracked, RowsAreOldest, InOrder, Stream, Records
<1> QED
  BY <1>1, <1>2, <1>3, <1>4 DEF LogInit, LogIInv

LEMMA StreamFacts ==
    ASSUME LogIInv
    PROVE  /\ queue \in Seqs /\ batch \in Seqs /\ Stream \in Seqs /\ Len(queue) \in Nat
           /\ InSeq(Stream) = InSeq(batch) \cup InSeq(queue)
           /\ Increasing(Stream) /\ (\A r \in InSeq(Stream) : r < next)
<1>1. queue \in Seqs /\ batch \in Seqs /\ Len(queue) \in Nat
  BY LenProperties DEF LogIInv, LogTypeOK, Seqs
<1> QED
  BY <1>1, InSeqConcat DEF LogIInv, InOrder, Increasing, Stream

\* The batch is older than the queue.
LEMMA BatchFirst == ASSUME LogIInv PROVE \A q \in InSeq(batch), r \in InSeq(queue) : q < r
<1>1. /\ queue \in Seqs /\ batch \in Seqs /\ Len(batch) \in Nat /\ Len(queue) \in Nat
      /\ DOMAIN batch = 1 .. Len(batch) /\ DOMAIN queue = 1 .. Len(queue) /\ Increasing(Stream)
  BY StreamFacts, LenProperties DEF Seqs
<1>2. /\ DOMAIN Stream = 1 .. Len(batch) + Len(queue)
      /\ \A i \in 1 .. Len(batch) + Len(queue) : Stream[i] = IF i <= Len(batch) THEN batch[i] ELSE queue[i - Len(batch)]
  BY <1>1, ConcatProperties, LenProperties DEF Stream, Seqs
<1> SUFFICES ASSUME NEW i \in 1 .. Len(batch), NEW j \in 1 .. Len(queue) PROVE batch[i] < queue[j]
  BY <1>1 DEF InSeq
<1>3. i \in DOMAIN Stream /\ j + Len(batch) \in DOMAIN Stream /\ i < j + Len(batch)
  BY <1>1, <1>2
<1>4. Stream[i] = batch[i] /\ Stream[j + Len(batch)] = queue[j]
  BY <1>1, <1>2, <1>3
<1> QED
  BY <1>1, <1>3, <1>4 DEF Increasing

\* When the batch reaches the table, only younger records are still to come.
LEMMA BatchLands ==
    ASSUME LogIInv
    PROVE  /\ \A q \in rows \cup InSeq(batch) : q < next
           /\ \A r \in InSeq(Stream) \ (rows \cup InSeq(batch)), q \in rows \cup InSeq(batch) : q < r
<1>1. InSeq(Stream) = InSeq(batch) \cup InSeq(queue) /\ (\A r \in InSeq(Stream) : r < next)
  BY StreamFacts
<1>2. RowsAreOldest
  BY DEF LogIInv
<1>3. \A q \in rows \cup InSeq(batch) : q < next
  BY <1>1, <1>2 DEF RowsAreOldest
<1>4. ASSUME NEW r \in InSeq(Stream) \ (rows \cup InSeq(batch)), NEW q \in rows \cup InSeq(batch) PROVE q < r
  <2>1. r \in InSeq(queue) /\ r \in InSeq(Stream) \ rows
    BY <1>1, <1>4
  <2> QED
    BY <1>2, <1>4, <2>1, BatchFirst DEF RowsAreOldest
<1> QED
  BY <1>3, <1>4

\* A step that keeps the stream, with or without the batch in the table.
LEMMA SameStream ==
    ASSUME LogIInv, queue' \in Seqs, batch' \in Seqs, Len(batch') <= MaxBatch, flushing' \in BOOLEAN,
           flushing' <=> batch' # <<>>, flushing' => Len(queue') <= MaxQueue, Len(queue') <= MaxQueue + MaxBatch,
           batch' \o queue' = batch \o queue,
           rows' \in {rows, rows \cup InSeq(batch)}, dropped' = dropped, next' = next,
           proc' \in {"up", "closing", "ending", "exited"}, own' \in BOOLEAN, final' \subseteq Records,
           clients' \in BOOLEAN, fails' \in 0 .. MaxFail,
           own' => flushing' /\ final' = InSeq(batch'), proc' = "exited" => ~own',
           ~own' => final' \subseteq rows'
    PROVE  LogIInv'
<1>1. LogTypeOK'
  <2>1. InSeq(batch) \subseteq Records
    BY StreamFacts, LenProperties DEF InSeq, Seqs
  <2>2. rows' \subseteq Records
    BY <2>1 DEF LogIInv, LogTypeOK
  <2> QED
    BY <2>2 DEF LogIInv, LogTypeOK, Seqs
<1>2. Stream' = Stream
  BY DEF Stream
<1>3. QueueBounded' /\ InOrder'
  BY <1>2 DEF LogIInv, QueueBounded, InOrder, Stream
<1>6. Tracked'
  BY <1>2 DEF LogIInv, Tracked, InSeq
<1>7. RowsAreOldest'
  <2>1. RowsAreOldest
    BY DEF LogIInv
  <2>2. CASE rows' = rows
    BY <1>2, <2>1, <2>2 DEF RowsAreOldest, InSeq
  <2>3. CASE rows' = rows \cup InSeq(batch)
    <3>1. /\ \A q \in rows' : q < next
          /\ \A r \in InSeq(Stream) \ rows', q \in rows' : q < r
      BY <2>3, BatchLands
    <3> QED
      BY <1>2, <3>1 DEF RowsAreOldest, InSeq
  <2> QED
    BY <2>2, <2>3
<1>4. \A r \in InSeq(Stream)' : r < next'
  BY <1>2 DEF LogIInv, InSeq
<1>5. own' => final' = InSeq(batch)'
  BY DEF InSeq
<1> QED
  BY <1>1, <1>3, <1>4, <1>5, <1>6, <1>7 DEF LogIInv

LEMMA EnqueueSafe == ASSUME LogIInv, Enqueue PROVE LogIInv'
<1>1. /\ next \in Records /\ next' = next + 1 /\ next' \in 1 .. MaxLogs + 1
      /\ rows' = rows /\ fails' = fails /\ proc' = proc /\ own' = own /\ final' = final /\ clients' = clients
      /\ dropped' = dropped \cup (InSeq(queue) \ InSeq(Room))
      /\ proc # "exited"
  BY DEF Enqueue, shutdown, LogIInv, LogTypeOK, Records, Running
<1>2. /\ queue \in Seqs /\ batch \in Seqs /\ Stream \in Seqs /\ Len(queue) \in Nat
      /\ InSeq(Stream) = InSeq(batch) \cup InSeq(queue)
      /\ Increasing(Stream) /\ (\A r \in InSeq(Stream) : r < next)
  BY StreamFacts
<1>3. /\ Room \in Seqs /\ InSeq(Room) \subseteq InSeq(queue) /\ Increasing(batch \o Room)
      /\ Len(Room) <= Len(queue) /\ Len(Room) \in Nat
      /\ Len(queue) < MaxQueue => Len(Room) = Len(queue)
      /\ Len(queue) >= MaxQueue => Len(Room) = Len(queue) - 1
  <2>1. CASE Len(queue) >= MaxQueue
    <3>1. queue # <<>>
      BY <2>1, EmptySeq
    <3>2. Room = Tail(queue)
      BY <2>1 DEF Room
    <3>3. Tail(queue) \in Seqs /\ Len(Tail(queue)) = Len(queue) - 1 /\ InSeq(Tail(queue)) \subseteq InSeq(queue)
          /\ Increasing(batch \o Tail(queue))
      BY <1>2, <3>1, TailKeepsOrder DEF Stream
    <3>4. Len(queue) - 1 \in Nat
      BY <1>2, <2>1
    <3> QED
      BY <1>2, <2>1, <3>2, <3>3, <3>4
  <2>2. CASE Len(queue) < MaxQueue
    <3>1. Room = queue
      BY <1>2, <2>2 DEF Room
    <3> QED
      BY <1>2, <2>2, <3>1 DEF Stream
  <2> QED
    BY <1>2, <2>1, <2>2
<1> DEFINE q == Append(Room, next)
<1>4. /\ q \in Seqs /\ q # <<>> /\ Len(q) = Len(Room) + 1 /\ InSeq(q) = InSeq(Room) \cup {next}
  BY <1>1, <1>3, AppendToSeq
<1>5. /\ batch \o q = Append(batch \o Room, next) /\ batch \o q \in Seqs
      /\ InSeq(batch \o q) = InSeq(batch) \cup InSeq(Room) \cup {next}
      /\ Increasing(batch \o q)
  <2>1. batch \o Room \in Seqs /\ InSeq(batch \o Room) = InSeq(batch) \cup InSeq(Room)
    BY <1>2, <1>3, InSeqConcat
  <2>2. <<next>> \in Seqs /\ q = Room \o <<next>>
    BY <1>1, <1>3, AppendIsConcat DEF Seqs
  <2>3. batch \o q = (batch \o Room) \o <<next>>
    BY <1>2, <1>3, <2>2, ConcatAssociative DEF Seqs
  <2>4. batch \o q = Append(batch \o Room, next)
    BY <1>1, <2>1, <2>3, AppendIsConcat DEF Seqs
  <2>5. \A x \in InSeq(batch \o Room) : x < next
    BY <1>2, <1>3, <2>1
  <2> QED
    BY <1>1, <1>3, <2>1, <2>4, <2>5, AppendToSeq
<1>6. Flush(q) \/ (Len(q) < MaxBatch /\ queue' = q /\ batch' = batch /\ flushing' = flushing)
  BY <1>4, <1>3 DEF Enqueue
<1>7. Len(q) <= MaxQueue + MaxBatch /\ (flushing => Len(q) <= MaxQueue \/ Len(q) <= Len(queue)) /\ Len(q) \in Nat
  <2>1. Len(queue) <= MaxQueue + MaxBatch
    BY DEF LogIInv, QueueBounded
  <2> QED
    BY <1>2, <1>3, <1>4, <2>1
<1> HIDE DEF q
<1>8. /\ queue' \in Seqs /\ batch' \in Seqs /\ Len(batch') <= MaxBatch /\ flushing' \in BOOLEAN
      /\ flushing' <=> batch' # <<>>
      /\ batch' \o queue' = batch \o q
      /\ flushing => batch' = batch /\ flushing'
      /\ flushing' => Len(queue') <= MaxQueue
      /\ Len(queue') <= MaxQueue + MaxBatch
  <2>1. LogTypeOK /\ (flushing <=> batch # <<>>) /\ (flushing => Len(queue) <= MaxQueue) /\ flushing \in BOOLEAN
        /\ Len(batch) <= MaxBatch
    BY DEF LogIInv, LogTypeOK
  <2>2. flushing => Len(q) <= MaxQueue
    BY <1>2, <1>7, <2>1
  <2>3. CASE Flush(q)
    <3>1. /\ queue' \in Seqs /\ batch' \in Seqs /\ Len(batch') <= MaxBatch /\ flushing' \in BOOLEAN
          /\ flushing' <=> batch' # <<>>
          /\ batch' \o queue' = batch \o q
          /\ flushing \/ q = <<>> => queue' = q /\ batch' = batch /\ flushing' = flushing
          /\ ~ (flushing \/ q = <<>>) =>
                 flushing' /\ Len(queue') <= Len(q) /\ (Len(q) <= MaxBatch + MaxQueue => Len(queue') <= MaxQueue)
      BY <1>4, <2>1, <2>3, FlushKeeps
    <3>2. Len(q) <= MaxBatch + MaxQueue /\ Len(queue') \in Nat
      BY <1>7, <3>1, LenProperties DEF Seqs
    <3> QED
      BY <1>7, <2>1, <2>2, <3>1, <3>2
  <2>4. CASE Len(q) < MaxBatch /\ queue' = q /\ batch' = batch /\ flushing' = flushing
    BY <1>2, <1>4, <1>7, <2>1, <2>2, <2>4
  <2> QED
    BY <1>6, <2>3, <2>4
<1>9. Stream' = batch \o q
  BY <1>8 DEF Stream
<1>10. InSeq(Stream') = InSeq(batch) \cup InSeq(Room) \cup {next} /\ Increasing(Stream')
  BY <1>5, <1>9
<1>11. LogTypeOK'
  <2>1. InSeq(queue) \subseteq Records
    BY <1>2, LenProperties DEF InSeq, Seqs
  <2> QED
    BY <1>1, <1>8, <2>1 DEF LogIInv, LogTypeOK, Seqs
<1>12. QueueBounded' /\ InOrder'
  BY <1>8, <1>10 DEF QueueBounded, InOrder, Increasing, Stream
<1>13. Tracked'
  <2> SUFFICES ASSUME NEW r \in Records, r < next' PROVE r \in rows' \cup dropped' \cup InSeq(Stream')
    BY DEF Tracked, InSeq
  <2>1. CASE r < next
    <3>1. r \in rows \cup dropped \cup InSeq(batch) \cup InSeq(queue)
      BY <1>2, <2>1 DEF LogIInv, Tracked
    <3> QED
      BY <1>1, <1>10, <3>1
  <2>2. CASE r = next
    BY <1>10, <2>2
  <2> QED
    BY <1>1, <2>1, <2>2 DEF Records
<1>14. \A r \in InSeq(Stream') : r < next'
  <2> SUFFICES ASSUME NEW r \in InSeq(batch) \cup InSeq(queue) \cup {next} PROVE r < next'
    BY <1>3, <1>10
  <2>1. InSeq(batch) \subseteq Records /\ InSeq(queue) \subseteq Records
    BY <1>2, LenProperties DEF InSeq, Seqs
  <2>2. r \in Nat /\ next \in Nat
    BY <1>1, <2>1 DEF Records
  <2>3. r = next \/ r < next
    BY <1>2
  <2> QED
    BY <1>1, <2>2, <2>3
<1>15. \A r \in InSeq(Stream)' : r < next'
  BY <1>14 DEF InSeq
<1>16. own' => flushing' /\ final' = InSeq(batch)'
  BY <1>1, <1>8 DEF LogIInv, InSeq
<1>17. (proc' = "exited" => ~own') /\ (~own' => final' \subseteq rows')
  BY <1>1 DEF LogIInv
<1>18. RowsAreOldest'
  <2>1. RowsAreOldest
    BY DEF LogIInv
  <2>2. \A w \in rows' : w < next'
    BY <1>1, <2>1 DEF RowsAreOldest, LogIInv, LogTypeOK, Records
  <2>3. \A r \in InSeq(Stream') \ rows', w \in rows' : w < r
    BY <1>1, <1>2, <1>3, <1>10, <2>1 DEF RowsAreOldest
  <2> QED
    BY <2>2, <2>3 DEF RowsAreOldest, InSeq
<1> QED
  BY <1>8, <1>11, <1>12, <1>13, <1>15, <1>16, <1>17, <1>18 DEF LogIInv

\* What FlushTick and Closed do: flush of the queue as it is.
LEMMA FlushSafe ==
    ASSUME LogIInv, Flush(queue), rows' = rows, dropped' = dropped, next' = next, fails' = fails,
           clients' \in BOOLEAN, proc' \in {"up", "closing", "ending", "exited"}, own' \in BOOLEAN,
           own' => flushing' /\ final' = InSeq(batch'), proc' = "exited" => ~own',
           ~own' => final' = {} \/ (final' = final /\ ~own)
    PROVE  LogIInv'
<1>1. queue \in Seqs /\ batch \in Seqs /\ Len(queue) \in Nat
  BY StreamFacts
<1>2. LogTypeOK /\ (flushing <=> batch # <<>>) /\ (flushing => Len(queue) <= MaxQueue) /\ Len(queue) <= MaxQueue + MaxBatch
  BY DEF LogIInv, QueueBounded
<1>3. /\ queue' \in Seqs /\ batch' \in Seqs /\ Len(batch') <= MaxBatch /\ flushing' \in BOOLEAN
      /\ flushing' <=> batch' # <<>>
      /\ batch' \o queue' = batch \o queue
      /\ flushing \/ queue = <<>> => queue' = queue /\ batch' = batch /\ flushing' = flushing
      /\ ~ (flushing \/ queue = <<>>) =>
           flushing' /\ Len(queue') <= Len(queue) /\ (Len(queue) <= MaxBatch + MaxQueue => Len(queue') <= MaxQueue)
  BY <1>1, <1>2, FlushKeeps
<1>4. Len(queue') \in Nat
  BY <1>3, LenProperties DEF Seqs
<1>5. (flushing' => Len(queue') <= MaxQueue) /\ Len(queue') <= MaxQueue + MaxBatch
  <2>1. MaxBatch \in Nat /\ MaxQueue \in Nat
    OBVIOUS
  <2>2. CASE flushing \/ queue = <<>>
    BY <1>1, <1>2, <1>3, <1>4, <2>1, <2>2
  <2>3. CASE ~ (flushing \/ queue = <<>>)
    BY <1>1, <1>2, <1>3, <1>4, <2>1, <2>3
  <2> QED
    BY <2>2, <2>3
<1>6. InSeq(batch') \subseteq Records
  BY <1>3, LenProperties DEF InSeq, Seqs
<1>7. final' \subseteq Records /\ rows \subseteq Records /\ fails \in 0 .. MaxFail
  BY <1>2, <1>6 DEF LogTypeOK
<1>8. ~own' => final' \subseteq rows'
  BY DEF LogIInv
<1> QED
  BY <1>3, <1>5, <1>7, <1>8, SameStream

LEMMA FlushTickSafe == ASSUME LogIInv, FlushTick PROVE LogIInv'
<1>1. /\ rows' = rows /\ dropped' = dropped /\ next' = next /\ fails' = fails /\ Flush(queue) /\ ~flushing
      /\ proc' = proc /\ own' = own /\ final' = final /\ clients' = clients /\ proc # "exited"
  BY DEF FlushTick, shutdown, Running
<1>2. ~own /\ own \in BOOLEAN /\ clients \in BOOLEAN /\ proc \in {"up", "closing", "ending", "exited"}
  BY <1>1 DEF LogIInv, LogTypeOK
<1> QED
  BY <1>1, <1>2, FlushSafe

LEMMA ClosedSafe == ASSUME LogIInv, Closed PROVE LogIInv'
<1>1. /\ rows' = rows /\ dropped' = dropped /\ next' = next /\ fails' = fails /\ clients' = clients /\ Flush(queue)
      /\ proc' = "ending" /\ (~own' => final' = {})
  BY DEF Closed
<1>2. clients' \in BOOLEAN /\ own' \in BOOLEAN
  BY <1>1 DEF LogIInv, LogTypeOK, Closed
<1>3. own' => flushing' /\ final' = InSeq(batch')
  BY DEF Flush, Closed
<1>4. proc' = "exited" => ~own'
  BY <1>1
<1>5. proc' \in {"up", "closing", "ending", "exited"}
  BY <1>1
<1>6. ~own' => final' = {} \/ (final' = final /\ ~own)
  BY <1>1
<1>7. rows' = rows /\ dropped' = dropped /\ next' = next /\ fails' = fails /\ Flush(queue)
  BY <1>1
<1> QED
  BY <1>2, <1>3, <1>4, <1>5, <1>6, <1>7, FlushSafe

LEMMA InsertedSafe == ASSUME LogIInv, Inserted PROVE LogIInv'
<1>1. /\ rows' = rows \cup InSeq(batch) /\ batch' = <<>> /\ flushing' = FALSE /\ own' = FALSE
      /\ queue' = queue /\ dropped' = dropped /\ next' = next /\ proc' = proc /\ final' = final
      /\ clients' = clients /\ fails' = fails
  BY DEF Inserted
<1>2. /\ queue \in Seqs /\ batch \in Seqs /\ Stream \in Seqs /\ Len(queue) \in Nat
      /\ InSeq(Stream) = InSeq(batch) \cup InSeq(queue)
      /\ Increasing(Stream) /\ (\A r \in InSeq(Stream) : r < next)
  BY StreamFacts
<1>3. Stream' = queue /\ <<>> \in Seqs /\ Len(<<>>) = 0
  BY <1>1, <1>2, ConcatEmptySeq, EmptySeq DEF Stream, Seqs
<1>4. Increasing(queue)
  <2>1. /\ Len(batch) \in Nat /\ DOMAIN queue = 1 .. Len(queue) /\ DOMAIN Stream = 1 .. Len(batch) + Len(queue)
        /\ \A i \in 1 .. Len(batch) + Len(queue) : Stream[i] = IF i <= Len(batch) THEN batch[i] ELSE queue[i - Len(batch)]
    BY <1>2, ConcatProperties, LenProperties DEF Stream, Seqs
  <2> SUFFICES ASSUME NEW i \in 1 .. Len(queue), NEW j \in 1 .. Len(queue), i < j PROVE queue[i] < queue[j]
    BY <2>1 DEF Increasing
  <2>2. i + Len(batch) \in DOMAIN Stream /\ j + Len(batch) \in DOMAIN Stream /\ i + Len(batch) < j + Len(batch)
    BY <1>2, <2>1
  <2>3. Stream[i + Len(batch)] = queue[i] /\ Stream[j + Len(batch)] = queue[j]
    BY <1>2, <2>1, <2>2
  <2> QED
    BY <1>2, <2>2, <2>3 DEF Increasing
<1>5. InSeq(batch) \subseteq Records
  BY <1>2, LenProperties DEF InSeq, Seqs
<1>6. LogTypeOK'
  <2>1. rows' \subseteq Records /\ 0 <= MaxBatch
    BY <1>1, <1>5 DEF LogIInv, LogTypeOK
  <2> QED
    BY <1>1, <1>3, <2>1 DEF LogIInv, LogTypeOK, Seqs
<1>7. QueueBounded' /\ InOrder'
  BY <1>1, <1>3, <1>4 DEF LogIInv, QueueBounded, InOrder, Stream, Increasing
<1>8. Tracked'
  <2>1. \A r \in Records : r < next => r \in rows \cup dropped \cup InSeq(Stream)
    BY DEF LogIInv, Tracked
  <2>2. \A r \in Records : r < next' => r \in rows' \cup dropped' \cup InSeq(Stream')
    BY <1>1, <1>2, <1>3, <2>1
  <2> QED
    BY <2>2 DEF Tracked, InSeq
<1>9. \A r \in InSeq(Stream)' : r < next'
  <2>1. \A r \in InSeq(Stream') : r < next'
    BY <1>1, <1>2, <1>3
  <2> QED
    BY <2>1 DEF InSeq
<1>10. final' \subseteq rows'
  BY <1>1 DEF LogIInv
<1>11. RowsAreOldest'
  <2>1. /\ \A q \in rows' : q < next'
        /\ \A r \in InSeq(Stream) \ rows', q \in rows' : q < r
    BY <1>1, BatchLands
  <2>2. InSeq(Stream') \subseteq InSeq(Stream)
    BY <1>2, <1>3
  <2>3. \A r \in InSeq(Stream') \ rows', q \in rows' : q < r
    BY <2>1, <2>2
  <2> QED
    BY <2>1, <2>3 DEF RowsAreOldest, InSeq
<1> QED
  BY <1>1, <1>6, <1>7, <1>8, <1>9, <1>10, <1>11 DEF LogIInv

LEMMA InsertFailsSafe == ASSUME LogIInv, InsertFails PROVE LogIInv'
<1>1. /\ fails > 0 /\ fails' = fails - 1 /\ rows' \in {rows, rows \cup InSeq(batch)} /\ queue' = batch \o queue
      /\ batch' = <<>> /\ flushing' = FALSE /\ own' = FALSE /\ batch # <<>>
      /\ dropped' = dropped /\ next' = next /\ proc' = proc /\ clients' = clients
      /\ final' = (IF own THEN {} ELSE final)
  BY DEF InsertFails, PutBack
<1>2. queue \in Seqs /\ batch \in Seqs /\ Len(queue) \in Nat /\ Len(queue) <= MaxQueue /\ Len(batch) <= MaxBatch
  BY <1>1, StreamFacts DEF LogIInv, LogTypeOK
<1>3. queue' \in Seqs /\ Len(queue') = Len(batch) + Len(queue) /\ Len(batch) \in Nat
  BY <1>1, <1>2, ConcatProperties, LenProperties DEF Seqs
<1>4. Len(queue') <= MaxQueue + MaxBatch
  BY <1>2, <1>3
<1>5. batch' \in Seqs /\ Len(batch') = 0 /\ batch' \o queue' = batch \o queue
  BY <1>1, <1>3, EmptySeq, ConcatEmptySeq DEF Seqs
<1>6. InSeq(batch) \subseteq Records
  BY <1>2, LenProperties DEF InSeq, Seqs
<1>7. final' \subseteq rows' /\ final' \subseteq Records /\ fails' \in 0 .. MaxFail
  BY <1>1, <1>6 DEF LogIInv, LogTypeOK
<1>8. proc \in {"up", "closing", "ending", "exited"} /\ clients \in BOOLEAN
  BY DEF LogIInv, LogTypeOK
<1>9. /\ Len(batch') <= MaxBatch /\ flushing' \in BOOLEAN /\ (flushing' <=> batch' # <<>>)
      /\ flushing' => Len(queue') <= MaxQueue
      /\ own' \in BOOLEAN /\ (own' => flushing' /\ final' = InSeq(batch')) /\ (proc' = "exited" => ~own')
      /\ ~own' => final' \subseteq rows'
  <2>1. Len(batch') <= MaxBatch
    BY <1>5
  <2>2. ~flushing' /\ ~own' /\ flushing' \in BOOLEAN /\ own' \in BOOLEAN
    BY <1>1
  <2> QED
    BY <1>1, <1>7, <2>1, <2>2
<1> QED
  BY <1>1, <1>3, <1>4, <1>5, <1>7, <1>8, <1>9, SameStream

\* The steps that leave the records alone.
LEMMA ProcessSafe == ASSUME LogIInv, Clients \/ Shutdown \/ ProcessExit \/ UNCHANGED logVars PROVE LogIInv'
<1>1. /\ queue' = queue /\ batch' = batch /\ flushing' = flushing /\ rows' = rows /\ dropped' = dropped
      /\ next' = next /\ fails' = fails
  BY DEF Clients, Shutdown, ProcessExit, logVars
<1>2. /\ LogTypeOK /\ (flushing <=> batch # <<>>) /\ (flushing => Len(queue) <= MaxQueue)
      /\ Len(queue) <= MaxQueue + MaxBatch
  BY DEF LogIInv, QueueBounded
<1>3. proc' \in {"up", "closing", "ending", "exited"} /\ clients' \in BOOLEAN /\ own' \in BOOLEAN /\ final' \subseteq Records
  BY <1>2 DEF Clients, Shutdown, ProcessExit, logVars, LogTypeOK
<1>4. (own' => own /\ final' = final) /\ (proc' = "exited" => ~own') /\ (~own' => final' = {} \/ (final' = final /\ ~own))
  BY DEF Clients, Shutdown, ProcessExit, logVars, LogIInv, Running
<1>5. (own' => flushing' /\ final' = InSeq(batch')) /\ (~own' => final' \subseteq rows')
  BY <1>1, <1>4 DEF LogIInv
<1> QED
  BY <1>1, <1>2, <1>3, <1>4, <1>5, SameStream DEF LogTypeOK, Seqs

LEMMA LogNextIInv == LogIInv /\ [LogNext]_logVars => LogIInv'
  BY EnqueueSafe, FlushTickSafe, InsertedSafe, InsertFailsSafe, ClosedSafe, ProcessSafe DEF LogNext

\* The invariant, for every batch and queue size and any number of failures.
THEOREM LogInvariant == LogSpec => []LogIInv
  BY LogInitIInv, LogNextIInv, PTL DEF LogSpec

\* The table has no hole: a record is in it, was given up by a full queue or is
\* on its way, and what an ended process left is younger (logger.service.ts).
THEOREM RecordsAreAccounted == LogSpec => []Accounted
<1>1. LogIInv => Accounted
  BY DEF LogIInv, Accounted, Tracked, RowsAreOldest, Stream, Running
<1> QED
  BY <1>1, LogInvariant, PTL

\* Records reach the table in the order they were written, whatever inserts failed.
THEOREM RecordsStayInOrder == LogSpec => []InOrder
<1>1. LogIInv => InOrder
  BY DEF LogIInv
<1> QED
  BY <1>1, LogInvariant, PTL

\* A database that is down costs the server at most the queue and one batch.
THEOREM QueueStaysBounded == LogSpec => []QueueBounded
<1>1. LogIInv => QueueBounded
  BY DEF LogIInv
<1> QED
  BY <1>1, LogInvariant, PTL

\* A process that ends on its own does not do so before the insert that its
\* shutdown started; an insert of the timer it does not wait for (main.ts:30-36).
THEOREM OwnFlushLands == LogSpec => []ExitWaits
<1>1. LogIInv => ExitWaits
  BY DEF LogIInv, ExitWaits
<1> QED
  BY <1>1, LogInvariant, PTL

-----------------------------------------------------------------------------
(*                              The deployment                             *)

HIDE SystemLogAssumption
USE DeploymentAssumption

Working4 == {"ensure", "bootstrap", "check", "insert"}

-----------------------------------------------------------------------------
(* Files and checksums *)

LEMMA FileShape ==
    ASSUME NEW r \in Releases, NEW k \in 1 .. Len(Files[r])
    PROVE  /\ Files[r][k] \in FilesOf(r) /\ Files[r][k].name \in Names
           /\ MigrationChecksum(Files[r][k]) \in Sums /\ MigrationChecksum(Files[r][k]) # NoSum
<1>1. Files[r] \in Seq(FilesOf(r))
  OBVIOUS
<1>2. Files[r][k] \in FilesOf(r)
  BY <1>1, ElementOfSeq
<1>3. Files[r][k].body \in Bodies
  BY <1>2 DEF Bodies
<1> QED
  BY <1>2, <1>3 DEF Names, MigrationChecksum, Sums, NoSum

LEMMA LenFiles == ASSUME NEW r \in Releases PROVE Len(Files[r]) \in Nat /\ DOMAIN Files[r] = 1 .. Len(Files[r])
<1>1. Files[r] \in Seq(FilesOf(r))
  OBVIOUS
<1> QED
  BY <1>1, LenProperties

LEMMA NamesDiffer ==
    ASSUME NEW r \in Releases, NEW j \in 1 .. Len(Files[r]), NEW k \in 1 .. Len(Files[r]), j # k
    PROVE  Files[r][j].name # Files[r][k].name
<1>1. j \in DOMAIN Files[r] /\ k \in DOMAIN Files[r]
  BY LenFiles
<1> QED
  BY ONLY <1>1, DistinctNames, r \in Releases, j # k

LEMMA InitSqlShape ==
    InitSql.name \in Names /\ MigrationChecksum(InitSql) \in Sums /\ MigrationChecksum(InitSql) # NoSum
<1>1. InitSql.body \in Bodies
  BY DEF Bodies
<1> QED
  BY <1>1 DEF Names, MigrationChecksum, Sums, NoSum

-----------------------------------------------------------------------------
(* The invariant is inductive *)

LEMMA InitIInv == Init => IInv
<1> SUFFICES ASSUME Init PROVE IInv
  OBVIOUS
<1>1. PICK r \in Releases :
         inst = [i \in Runners |-> [at |-> "off", release |-> r, next |-> 1, ready |-> FALSE, why |-> "none"]]
  BY DEF Init
<1>2. inst \in [Runners -> Instance]
  BY <1>1 DEF Instance, At, Why
<1>3. stored \in [Names -> Sums]
  BY DEF Init
<1>4. TypeOK
  BY <1>2, <1>3 DEF Init, TypeOK
<1>5. LedgerIsTrue
  BY DEF Init, LedgerIsTrue
<1>6. \A i \in Runners : InstOK(i, inst[i])
  BY <1>1 DEF InstOK
<1>7. ~users => stored[InitSql.name] = NoSum
  BY InitSqlShape DEF Init
<1> QED
  BY <1>4, <1>5, <1>6, <1>7 DEF IInv

\* A step of one runner: records stay, only the holder of the lock adds to them,
\* and nobody else loses the lock.
LEMMA RunnerStep ==
    ASSUME IInv, NEW i \in Runners, NEW x \in Instance, inst' = [inst EXCEPT ![i] = x],
           users' \in BOOLEAN, users => users', table' \in BOOLEAN,
           stored' \in [Names -> Sums], ran' \in [Names -> Nat], served' \subseteq Releases,
           \A n \in Names : stored[n] # NoSum => stored'[n] # NoSum,
           \A n \in Names : ran'[n] = IF stored'[n] = NoSum THEN 0 ELSE 1,
           ~users' => stored'[InitSql.name] = NoSum,
           lock' \in Runners \cup {"free", "ghost"},
           \A j \in Runners : j # i /\ lock = j => lock' = j,
           stored' = stored \/ lock = i,
           InstOK(i, x)'
    PROVE  IInv'
<1>1. TypeOK'
  BY DEF IInv, TypeOK
<1>2. LedgerIsTrue'
  BY DEF LedgerIsTrue
<1>3. inst'[i] = x /\ \A j \in Runners : j # i => inst'[j] = inst[j]
  BY DEF IInv, TypeOK
<1>4. ASSUME NEW j \in Runners, j # i PROVE InstOK(j, inst[j])'
  <2>1. inst'[j] = inst[j] /\ inst[j] \in Instance /\ InstOK(j, inst[j])
    BY <1>3, <1>4 DEF IInv, TypeOK
  <2>2. inst[j].release \in Releases /\ inst[j].next \in Nat
    BY <2>1 DEF Instance
  <2>3. \A k \in 1 .. inst[j].next - 1 :
           k <= Len(Files[inst[j].release]) /\ stored'[Files[inst[j].release][k].name] # NoSum
    <3> SUFFICES ASSUME NEW k \in 1 .. inst[j].next - 1
                 PROVE  k <= Len(Files[inst[j].release]) /\ stored'[Files[inst[j].release][k].name] # NoSum
      OBVIOUS
    <3>1. k <= Len(Files[inst[j].release]) /\ stored[Files[inst[j].release][k].name] # NoSum
      BY <2>1 DEF InstOK
    <3>2. k \in 1 .. Len(Files[inst[j].release])
      BY <2>2, <3>1, LenFiles
    <3> QED
      BY <2>2, <3>1, <3>2, FileShape
  <2>4. inst[j].at = "insert" => inst[j].next <= Len(Files[inst[j].release])
                                 /\ stored'[Files[inst[j].release][inst[j].next].name] = NoSum
    BY <1>4, <2>1 DEF InstOK
  <2>5. inst[j].at \in Working4 => lock' = j
    BY <1>4, <2>1 DEF InstOK, Working4
  <2>6. inst[j].at \in Working4 =>
          \A k \in 1 .. inst[j].next - 1 :
             stored'[Files[inst[j].release][k].name] = MigrationChecksum(Files[inst[j].release][k])
    BY <1>4, <2>1 DEF InstOK, Working4
  <2> QED
    BY <2>1, <2>3, <2>4, <2>5, <2>6 DEF InstOK, Working4
<1>5. \A j \in Runners : InstOK(j, inst[j])'
  <2> SUFFICES ASSUME NEW j \in Runners PROVE InstOK(j, inst[j])'
    OBVIOUS
  <2>1. CASE j = i
    BY <1>3, <2>1 DEF InstOK
  <2>2. CASE j # i
    BY <1>4, <2>2
  <2> QED
    BY <2>1, <2>2
<1> QED
  BY <1>1, <1>2, <1>5 DEF IInv

\* A step of one runner that leaves the database alone.
LEMMA LocalStep ==
    ASSUME IInv, NEW i \in Runners, NEW x \in Instance, inst' = [inst EXCEPT ![i] = x],
           users' = users, table' = table, stored' = stored, ran' = ran, served' \subseteq Releases,
           lock' \in Runners \cup {"free", "ghost"},
           \A j \in Runners : j # i /\ lock = j => lock' = j,
           InstOK(i, x)'
    PROVE  IInv'
<1>1. /\ users \in BOOLEAN /\ table \in BOOLEAN /\ stored \in [Names -> Sums] /\ ran \in [Names -> Nat]
      /\ \A n \in Names : ran[n] = IF stored[n] = NoSum THEN 0 ELSE 1
      /\ ~users => stored[InitSql.name] = NoSum
  BY DEF IInv, TypeOK, LedgerIsTrue
<1> QED
  BY <1>1, RunnerStep

\* What the invariant says of one runner.
LEMMA Runner ==
    ASSUME IInv, NEW i \in Runners
    PROVE  /\ inst[i] \in Instance /\ InstOK(i, inst[i]) /\ inst[i].release \in Releases /\ inst[i].next \in Nat
           /\ inst[i].at \in At /\ inst[i].why \in Why /\ inst[i].ready \in BOOLEAN
           /\ lock \in Runners \cup {"free", "ghost"} /\ served \subseteq Releases
  BY DEF IInv, TypeOK, Instance

LEMMA AtTheStart ==
    ASSUME NEW i, NEW x, x.at \in {"off", "lock", "exited"}, x.next = 1, ~x.ready, x.why # "duplicate"
    PROVE  InstOK(i, x)'
<1>1. \A k \in 1 .. x.next - 1 : FALSE
  OBVIOUS
<1> QED
  BY <1>1 DEF InstOK

LEMMA InTheLock ==
    ASSUME NEW i, NEW x, x.at \in {"ensure", "bootstrap"}, lock' = i, x.next = 1, ~x.ready, x.why # "duplicate"
    PROVE  InstOK(i, x)'
<1>1. \A k \in 1 .. x.next - 1 : FALSE
  OBVIOUS
<1> QED
  BY <1>1 DEF InstOK

\* A runner that ends, with what becomes of the lock.
LEMMA ExitIInv ==
    ASSUME IInv, NEW i \in Runners, NEW why \in Why, why # "duplicate", Exit(i, why),
           users' = users, table' = table, stored' = stored, ran' = ran, served' = served,
           lock' = lock \/ (lock = i /\ lock' \in {"free", "ghost"})
    PROVE  IInv'
<1>1. inst[i] \in Instance /\ lock \in Runners \cup {"free", "ghost"} /\ served \subseteq Releases
  BY Runner
<1>a. PICK x : x = [inst[i] EXCEPT !.at = "exited", !.next = 1, !.ready = FALSE, !.why = why]
  OBVIOUS
<1>2. x \in Instance /\ x.at = "exited" /\ x.next = 1 /\ ~x.ready /\ x.why = why
  BY <1>1, <1>a DEF Instance, At
<1>3. inst' = [inst EXCEPT ![i] = x]
  BY <1>a DEF Exit
<1>4. InstOK(i, x)'
  BY <1>2, AtTheStart
<1>5. lock' \in Runners \cup {"free", "ghost"} /\ \A j \in Runners : j # i /\ lock = j => lock' = j
  BY <1>1
<1>6. served' \subseteq Releases
  BY <1>1
<1> QED
  BY <1>2, <1>3, <1>4, <1>5, <1>6, LocalStep

LEMMA DeployIInv == ASSUME IInv, NEW i \in Runners, NEW r \in Releases, Deploy(i, r) PROVE IInv'
<1> DEFINE x == [at |-> "lock", release |-> r, next |-> 1, ready |-> FALSE, why |-> "none"]
<1>1. x \in Instance /\ x.at = "lock" /\ x.next = 1 /\ ~x.ready /\ x.why = "none"
  BY DEF Instance, At, Why
<1>2. /\ inst' = [inst EXCEPT ![i] = x] /\ users' = users /\ table' = table /\ stored' = stored /\ ran' = ran
      /\ served' \subseteq Releases /\ lock' \in Runners \cup {"free", "ghost"} /\ lock' = lock
  BY Runner DEF Deploy
<1> HIDE DEF x
<1>3. InstOK(i, x)'
  BY <1>1, AtTheStart
<1> QED
  BY <1>1, <1>2, <1>3, LocalStep

LEMMA RestartIInv == ASSUME IInv, NEW i \in Runners, Restart(i) PROVE IInv'
<1>a. PICK x : x = [inst[i] EXCEPT !.at = "lock", !.why = "none"]
  OBVIOUS
<1>1. inst[i] \in Instance /\ inst[i].at = "exited" /\ inst[i].next = 1 /\ ~inst[i].ready
  BY Runner DEF Restart, InstOK
<1>2. x \in Instance /\ x.at = "lock" /\ x.next = 1 /\ ~x.ready /\ x.why = "none"
  BY <1>1, <1>a DEF Instance, At, Why
<1>3. /\ inst' = [inst EXCEPT ![i] = x] /\ users' = users /\ table' = table /\ stored' = stored /\ ran' = ran
      /\ served' \subseteq Releases /\ lock' \in Runners \cup {"free", "ghost"} /\ lock' = lock
  BY <1>a, Runner DEF Restart
<1>4. InstOK(i, x)'
  BY <1>2, AtTheStart
<1> QED
  BY <1>2, <1>3, <1>4, LocalStep

\* A runner's record at another place, with as many migrations behind it.
LEMMA Place ==
    ASSUME IInv, NEW i \in Runners, NEW at \in At
    PROVE  \E x \in Instance : /\ [inst EXCEPT ![i].at = at] = [inst EXCEPT ![i] = x]
                               /\ x.at = at /\ x.release = inst[i].release /\ x.next = inst[i].next
                               /\ x.ready = inst[i].ready /\ x.why = inst[i].why
<1> DEFINE x == [inst[i] EXCEPT !.at = at]
<1>1. inst[i] \in Instance
  BY Runner
<1>2. /\ x \in Instance /\ x.at = at /\ x.release = inst[i].release /\ x.next = inst[i].next
      /\ x.ready = inst[i].ready /\ x.why = inst[i].why
  BY <1>1 DEF Instance
<1>3. [inst EXCEPT ![i].at = at] = [inst EXCEPT ![i] = x]
  OBVIOUS
<1> QED
  BY <1>2, <1>3

LEMMA LockIInv == ASSUME IInv, NEW i \in Runners, Lock(i) PROVE IInv'
<1>1. /\ inst[i].at = "lock" /\ lock = "free" /\ lock' = i /\ inst' = [inst EXCEPT ![i].at = "ensure"]
      /\ users' = users /\ table' = table /\ stored' = stored /\ ran' = ran /\ served' \subseteq Releases
  BY Runner DEF Lock, Goto
<1>2. PICK x \in Instance : /\ inst' = [inst EXCEPT ![i] = x]
                            /\ x.at = "ensure" /\ x.release = inst[i].release /\ x.next = inst[i].next
                            /\ x.ready = inst[i].ready /\ x.why = inst[i].why
  <2>1. "ensure" \in At
    BY DEF At
  <2>2. \E x \in Instance : /\ [inst EXCEPT ![i].at = "ensure"] = [inst EXCEPT ![i] = x]
                            /\ x.at = "ensure" /\ x.release = inst[i].release /\ x.next = inst[i].next
                            /\ x.ready = inst[i].ready /\ x.why = inst[i].why
    BY <2>1, Place
  <2> QED
    BY <1>1, <2>2
<1>3. InstOK(i, x)'
  <2>1. /\ inst[i].next = 1 /\ ~ inst[i].ready /\ inst[i].why # "duplicate" /\ lock' = i
    BY <1>1, Runner DEF InstOK
  <2> QED
    BY <1>2, <2>1, InTheLock
<1>4. lock' \in Runners \cup {"free", "ghost"} /\ \A j \in Runners : j # i /\ lock = j => lock' = j
  BY <1>1
<1> QED
  BY <1>1, <1>2, <1>3, <1>4, LocalStep

LEMMA EnsureIInv == ASSUME IInv, NEW i \in Runners, EnsureMigrationLedger(i) PROVE IInv'
<1>1. /\ inst[i].at = "ensure" /\ lock' = lock /\ inst' = [inst EXCEPT ![i].at = "bootstrap"]
      /\ users' = users /\ table' = TRUE /\ stored' = stored /\ ran' = ran /\ served' \subseteq Releases
  BY Runner DEF EnsureMigrationLedger, Goto
<1>2. PICK x \in Instance : /\ inst' = [inst EXCEPT ![i] = x]
                            /\ x.at = "bootstrap" /\ x.release = inst[i].release /\ x.next = inst[i].next
                            /\ x.ready = inst[i].ready /\ x.why = inst[i].why
  <2>1. "bootstrap" \in At
    BY DEF At
  <2>2. \E x \in Instance : /\ [inst EXCEPT ![i].at = "bootstrap"] = [inst EXCEPT ![i] = x]
                            /\ x.at = "bootstrap" /\ x.release = inst[i].release /\ x.next = inst[i].next
                            /\ x.ready = inst[i].ready /\ x.why = inst[i].why
    BY <2>1, Place
  <2> QED
    BY <1>1, <2>2
<1>3. InstOK(i, x)'
  <2>1. /\ inst[i].next = 1 /\ ~ inst[i].ready /\ inst[i].why # "duplicate" /\ lock' = i
    BY <1>1, Runner DEF InstOK
  <2> QED
    BY <1>2, <2>1, InTheLock
<1>4. /\ users \in BOOLEAN /\ stored \in [Names -> Sums] /\ ran \in [Names -> Nat] /\ table' \in BOOLEAN
      /\ \A n \in Names : ran[n] = IF stored[n] = NoSum THEN 0 ELSE 1
      /\ ~users => stored[InitSql.name] = NoSum
      /\ lock' \in Runners \cup {"free", "ghost"}
  BY <1>1, Runner DEF IInv, TypeOK, LedgerIsTrue
<1> QED
  BY <1>1, <1>2, <1>3, <1>4, RunnerStep

LEMMA BootstrapIInv == ASSUME IInv, NEW i \in Runners, BootstrapSchemaIfNeeded(i) PROVE IInv'
<1>1. /\ inst[i].at = "bootstrap" /\ lock' = lock /\ inst' = [inst EXCEPT ![i].at = "check"]
      /\ table' = table /\ served' \subseteq Releases /\ lock = i
  BY Runner DEF BootstrapSchemaIfNeeded, Goto, InstOK
<1>2. PICK x \in Instance : /\ inst' = [inst EXCEPT ![i] = x]
                            /\ x.at = "check" /\ x.release = inst[i].release /\ x.next = inst[i].next
                            /\ x.ready = inst[i].ready /\ x.why = inst[i].why
  <2>1. "check" \in At
    BY DEF At
  <2>2. \E x \in Instance : /\ [inst EXCEPT ![i].at = "check"] = [inst EXCEPT ![i] = x]
                            /\ x.at = "check" /\ x.release = inst[i].release /\ x.next = inst[i].next
                            /\ x.ready = inst[i].ready /\ x.why = inst[i].why
    BY <2>1, Place
  <2> QED
    BY <1>1, <2>2
<1>3. /\ users \in BOOLEAN /\ table \in BOOLEAN /\ stored \in [Names -> Sums] /\ ran \in [Names -> Nat]
      /\ \A n \in Names : ran[n] = IF stored[n] = NoSum THEN 0 ELSE 1
      /\ ~users => stored[InitSql.name] = NoSum
      /\ lock \in Runners \cup {"free", "ghost"}
  BY Runner DEF IInv, TypeOK, LedgerIsTrue
<1>4. /\ users' = TRUE /\ stored' \in [Names -> Sums] /\ ran' \in [Names -> Nat]
      /\ \A n \in Names : ran'[n] = IF stored'[n] = NoSum THEN 0 ELSE 1
      /\ \A n \in Names : stored[n] # NoSum => stored'[n] # NoSum
  <2>1. CASE users
    BY <1>3, <2>1 DEF BootstrapSchemaIfNeeded
  <2>2. CASE ~users
    <3>1. users' = TRUE /\ ran' = [ran EXCEPT ![InitSql.name] = @ + 1]
          /\ stored' = [stored EXCEPT ![InitSql.name] = MigrationChecksum(InitSql)]
      BY <1>3, <2>2 DEF BootstrapSchemaIfNeeded
    <3> QED
      BY <1>3, <2>2, <3>1, InitSqlShape
  <2> QED
    BY <2>1, <2>2
<1>5. InstOK(i, x)'
  <2>1. x.next = 1 /\ ~x.ready /\ x.why # "duplicate"
    BY <1>1, <1>2, Runner DEF InstOK
  <2>2. \A k \in 1 .. x.next - 1 : FALSE
    BY <2>1
  <2> QED
    BY <1>1, <1>2, <1>4, <2>1, <2>2 DEF InstOK
<1> QED
  BY <1>1, <1>2, <1>3, <1>4, <1>5, RunnerStep

\* The file a runner is at, and those behind it.
LEMMA AtFile ==
    ASSUME IInv, NEW i \in Runners, More(i)
    PROVE  /\ inst[i].next \in 1 .. Len(Files[inst[i].release]) /\ File(i) = Files[inst[i].release][inst[i].next]
           /\ File(i).name \in Names /\ MigrationChecksum(File(i)) \in Sums /\ MigrationChecksum(File(i)) # NoSum
<1>1. inst[i].release \in Releases /\ inst[i].next \in Nat /\ inst[i].next >= 1
  BY Runner DEF InstOK
<1>2. inst[i].next \in 1 .. Len(Files[inst[i].release])
  BY <1>1, LenFiles DEF More
<1> QED
  BY <1>1, <1>2, FileShape DEF File

\* With the row of the n-th file written, the first n are recorded as they are.
RecordedUpTo(r, n, sums) == \A k \in 1 .. n : sums[Files[r][k].name] = MigrationChecksum(Files[r][k])
RowWritten(r, n, sums, newSums) ==
    /\ \A k \in 1 .. n - 1 : sums[Files[r][k].name] = MigrationChecksum(Files[r][k])
    /\ newSums[Files[r][n].name] = MigrationChecksum(Files[r][n])
    /\ \A m \in Names : m # Files[r][n].name => newSums[m] = sums[m]

LEMMA OneMoreRow ==
    ASSUME NEW r \in Releases, NEW n \in 1 .. Len(Files[r]), NEW sums, NEW newSums,
           RowWritten(r, n, sums, newSums)
    PROVE  RecordedUpTo(r, n, newSums)
<1> SUFFICES ASSUME NEW k \in 1 .. n PROVE newSums[Files[r][k].name] = MigrationChecksum(Files[r][k])
  BY DEF RecordedUpTo
<1>3. /\ \A m \in 1 .. n - 1 : sums[Files[r][m].name] = MigrationChecksum(Files[r][m])
      /\ newSums[Files[r][n].name] = MigrationChecksum(Files[r][n])
      /\ \A m \in Names : m # Files[r][n].name => newSums[m] = sums[m]
  BY DEF RowWritten
<1>1. CASE k = n
  BY ONLY <1>1, <1>3
<1>2. CASE k # n
  <2>1. k \in 1 .. Len(Files[r]) /\ k \in 1 .. n - 1
    BY <1>2, LenFiles
  <2>2. Files[r][k].name # Files[r][n].name
    BY ONLY <1>2, <2>1, NamesDiffer, r \in Releases, n \in 1 .. Len(Files[r])
  <2>3. Files[r][k].name \in Names
    BY ONLY <2>1, FileShape, r \in Releases
  <2> QED
    BY ONLY <1>3, <2>1, <2>2, <2>3
<1> QED
  BY <1>1, <1>2

\* One more migration is behind a runner whose file has its row.
LEMMA Advance ==
    ASSUME IInv, NEW i \in Runners, inst[i].at \in {"check", "insert"}, More(i), NEW x \in Instance,
           x.at = "check", x.release = inst[i].release, x.next = inst[i].next + 1,
           x.ready = inst[i].ready, x.why = inst[i].why,
           users' = users, lock' = lock, stored'[File(i).name] = MigrationChecksum(File(i)),
           \A n \in Names : n # File(i).name => stored'[n] = stored[n]
    PROVE  InstOK(i, x)'
<1>1. /\ inst[i].next \in 1 .. Len(Files[inst[i].release]) /\ File(i) = Files[inst[i].release][inst[i].next]
      /\ inst[i].release \in Releases /\ InstOK(i, inst[i]) /\ inst[i].next \in Nat
  BY AtFile, Runner
<1>2. \A k \in 1 .. inst[i].next - 1 :
         stored[Files[inst[i].release][k].name] = MigrationChecksum(Files[inst[i].release][k])
  BY ONLY <1>1, inst[i].at \in {"check", "insert"} DEF InstOK
<1>3. RecordedUpTo(inst[i].release, inst[i].next, stored')
  <2>1. RowWritten(inst[i].release, inst[i].next, stored, stored')
    BY ONLY <1>1, <1>2, stored'[File(i).name] = MigrationChecksum(File(i)),
            \A n \in Names : n # File(i).name => stored'[n] = stored[n] DEF RowWritten
  <2> QED
    BY ONLY <1>1, <2>1, OneMoreRow
<1>4. /\ x.next >= 1 /\ x.why # "duplicate" /\ (x.ready => x.at = "serving")
      /\ lock' = i /\ users'
  <2>1. /\ inst[i].why # "duplicate" /\ inst[i].next \in Nat
        /\ (inst[i].ready => inst[i].at = "serving")
        /\ inst[i].at \in {"check", "insert"} => lock = i /\ users
    BY <1>1 DEF InstOK
  <2>2. ~ inst[i].ready
    BY <2>1
  <2> QED
    BY <2>1, <2>2
<1>5. ASSUME NEW k \in 1 .. x.next - 1
      PROVE  /\ k <= Len(Files[x.release]) /\ stored'[Files[x.release][k].name] # NoSum
             /\ stored'[Files[x.release][k].name] = MigrationChecksum(Files[x.release][k])
  <2>0. Len(Files[inst[i].release]) \in Nat
    BY ONLY <1>1, LenFiles
  <2>1. k \in 1 .. inst[i].next /\ k \in 1 .. Len(Files[inst[i].release]) /\ k <= Len(Files[x.release])
    BY ONLY <1>1, <2>0, k \in 1 .. x.next - 1, x.next = inst[i].next + 1, x.release = inst[i].release
  <2>2. MigrationChecksum(Files[inst[i].release][k]) # NoSum
    BY ONLY <1>1, <2>1, FileShape
  <2>3. stored'[Files[inst[i].release][k].name] = MigrationChecksum(Files[inst[i].release][k])
    BY ONLY <1>3, <2>1 DEF RecordedUpTo
  <2> QED
    BY ONLY <2>1, <2>2, <2>3, x.release = inst[i].release
<1> QED
  BY ONLY <1>4, <1>5, x.at = "check" DEF InstOK

LEMMA CheckIInv == ASSUME IInv, NEW i \in Runners, CheckApplied(i) PROVE IInv'
<1>1. /\ inst[i].at = "check" /\ More(i) /\ stored[File(i).name] # NoSum
      /\ users' = users /\ table' = table /\ ran' = ran /\ served' = served
  BY DEF CheckApplied
<1>2. /\ users \in BOOLEAN /\ table \in BOOLEAN /\ stored \in [Names -> Sums] /\ ran \in [Names -> Nat]
      /\ \A n \in Names : ran[n] = IF stored[n] = NoSum THEN 0 ELSE 1
      /\ ~users => stored[InitSql.name] = NoSum
      /\ lock \in Runners \cup {"free", "ghost"} /\ lock = i /\ users /\ served \subseteq Releases
      /\ inst[i] \in Instance
  BY <1>1, Runner DEF IInv, TypeOK, LedgerIsTrue, InstOK
<1>3. CASE ChecksumMatches(inst[i].release, File(i), stored[File(i).name])
  <2>1. /\ stored' = [stored EXCEPT ![File(i).name] = MigrationChecksum(File(i))]
        /\ inst' = [inst EXCEPT ![i].next = @ + 1] /\ lock' = lock
    BY <1>3 DEF CheckApplied
  <2>2. PICK x : x = [inst[i] EXCEPT !.next = @ + 1]
    OBVIOUS
  <2>3. /\ x \in Instance /\ x.at = "check" /\ x.release = inst[i].release /\ x.next = inst[i].next + 1
        /\ x.ready = inst[i].ready /\ x.why = inst[i].why
    BY <1>1, <1>2, <2>2 DEF Instance
  <2>4. inst' = [inst EXCEPT ![i] = x]
    BY <2>1, <2>2
  <2>5. /\ stored' \in [Names -> Sums] /\ stored'[File(i).name] # NoSum
        /\ \A n \in Names : stored'[n] = NoSum <=> stored[n] = NoSum
    BY <1>1, <1>2, <2>1, AtFile
  <2>6. InstOK(i, x)'
    <3>1. /\ stored'[File(i).name] = MigrationChecksum(File(i))
          /\ \A n \in Names : n # File(i).name => stored'[n] = stored[n]
      BY <1>1, <1>2, <2>1, AtFile
    <3> QED
      BY <1>1, <2>1, <2>3, <3>1, Advance
  <2>7. /\ \A n \in Names : ran'[n] = IF stored'[n] = NoSum THEN 0 ELSE 1
        /\ ~users' => stored'[InitSql.name] = NoSum
        /\ \A n \in Names : stored[n] # NoSum => stored'[n] # NoSum
    BY <1>1, <1>2, <2>5
  <2> QED
    BY <1>1, <1>2, <2>1, <2>3, <2>4, <2>5, <2>6, <2>7, RunnerStep
<1>4. CASE ~ ChecksumMatches(inst[i].release, File(i), stored[File(i).name])
  <2>1. Exit(i, "checksum") /\ Release(i) /\ stored' = stored
    BY <1>4 DEF CheckApplied
  <2>2. "checksum" \in Why /\ lock' = "free"
    BY <1>2, <2>1 DEF Why, Release
  <2> QED
    BY <1>1, <1>2, <2>1, <2>2, ExitIInv
<1> QED
  BY <1>3, <1>4

LEMMA RunSqlIInv == ASSUME IInv, NEW i \in Runners, RunSql(i) PROVE IInv'
<1>1. /\ inst[i].at = "check" /\ More(i) /\ stored[File(i).name] = NoSum /\ lock' = lock
      /\ inst' = [inst EXCEPT ![i].at = "insert"]
      /\ users' = users /\ table' = table /\ stored' = stored /\ ran' = ran /\ served' \subseteq Releases
      /\ lock' \in Runners \cup {"free", "ghost"}
  BY Runner DEF RunSql, Goto
<1>2. PICK x \in Instance : /\ inst' = [inst EXCEPT ![i] = x]
                            /\ x.at = "insert" /\ x.release = inst[i].release /\ x.next = inst[i].next
                            /\ x.ready = inst[i].ready /\ x.why = inst[i].why
  <2>1. "insert" \in At
    BY DEF At
  <2>2. \E x \in Instance : /\ [inst EXCEPT ![i].at = "insert"] = [inst EXCEPT ![i] = x]
                            /\ x.at = "insert" /\ x.release = inst[i].release /\ x.next = inst[i].next
                            /\ x.ready = inst[i].ready /\ x.why = inst[i].why
    BY <2>1, Place
  <2> QED
    BY <1>1, <2>2
<1>3. InstOK(i, x)'
  <2>1. /\ InstOK(i, inst[i]) /\ inst[i].next <= Len(Files[inst[i].release])
        /\ stored[Files[inst[i].release][inst[i].next].name] = NoSum
    BY <1>1, Runner DEF More, File
  <2>2. /\ x.next >= 1 /\ x.why # "duplicate" /\ lock' = i /\ users' /\ ~ inst[i].ready
    BY <1>1, <1>2, <2>1 DEF InstOK
  <2>3. ~ x.ready
    BY <1>2, <2>2
  <2>4. \A k \in 1 .. x.next - 1 :
           /\ k <= Len(Files[x.release]) /\ stored'[Files[x.release][k].name] # NoSum
           /\ stored'[Files[x.release][k].name] = MigrationChecksum(Files[x.release][k])
    BY <1>1, <1>2, <2>1 DEF InstOK
  <2>5. x.next <= Len(Files[x.release]) /\ stored'[Files[x.release][x.next].name] = NoSum
    BY <1>1, <1>2, <2>1
  <2> QED
    BY <1>2, <2>2, <2>3, <2>4, <2>5 DEF InstOK
<1> QED
  BY <1>1, <1>2, <1>3, LocalStep

LEMMA CommitIInv == ASSUME IInv, NEW i \in Runners, CommitMigration(i) PROVE IInv'
<1>1. /\ inst[i].at = "insert" /\ users' = users /\ table' = table /\ served' = served
      /\ inst[i] \in Instance /\ InstOK(i, inst[i])
  BY Runner DEF CommitMigration
<1>2. More(i) /\ stored[File(i).name] = NoSum
  BY <1>1 DEF InstOK, More, File
<1>3. /\ users \in BOOLEAN /\ table \in BOOLEAN /\ stored \in [Names -> Sums] /\ ran \in [Names -> Nat]
      /\ \A n \in Names : ran[n] = IF stored[n] = NoSum THEN 0 ELSE 1
      /\ lock \in Runners \cup {"free", "ghost"} /\ lock = i /\ users /\ served \subseteq Releases
  BY <1>1, Runner DEF IInv, TypeOK, LedgerIsTrue, InstOK
<1>4. /\ stored' = [stored EXCEPT ![File(i).name] = MigrationChecksum(File(i))]
      /\ ran' = [ran EXCEPT ![File(i).name] = @ + 1]
      /\ inst' = [inst EXCEPT ![i].at = "check", ![i].next = @ + 1] /\ lock' = lock
  BY <1>2 DEF CommitMigration
<1>5. PICK x : x = [inst[i] EXCEPT !.at = "check", !.next = @ + 1]
  OBVIOUS
<1>6. /\ x \in Instance /\ x.at = "check" /\ x.release = inst[i].release /\ x.next = inst[i].next + 1
      /\ x.ready = inst[i].ready /\ x.why = inst[i].why
  <2>1. "check" \in At /\ inst[i].next + 1 \in Nat
    BY <1>1 DEF Instance, At
  <2> QED
    BY <1>1, <1>5, <2>1 DEF Instance
<1>7. inst' = [inst EXCEPT ![i] = x]
  BY <1>1, <1>4, <1>5 DEF Instance
<1>8. /\ File(i).name \in Names /\ MigrationChecksum(File(i)) \in Sums /\ MigrationChecksum(File(i)) # NoSum
  BY <1>2, AtFile
<1>9. /\ stored' \in [Names -> Sums] /\ ran' \in [Names -> Nat] /\ stored'[File(i).name] # NoSum
      /\ \A n \in Names : ran'[n] = IF stored'[n] = NoSum THEN 0 ELSE 1
      /\ \A n \in Names : stored[n] # NoSum => stored'[n] # NoSum
  BY <1>2, <1>3, <1>4, <1>8
<1>10. InstOK(i, x)'
  <2>1. /\ stored'[File(i).name] = MigrationChecksum(File(i))
        /\ \A n \in Names : n # File(i).name => stored'[n] = stored[n]
    BY <1>3, <1>4, <1>8
  <2> QED
    BY <1>1, <1>2, <1>4, <1>6, <2>1, Advance
<1>11. users' /\ \A j \in Runners : j # i /\ lock = j => lock' = j
  BY <1>1, <1>3, <1>4
<1> QED
  BY <1>1, <1>3, <1>4, <1>6, <1>7, <1>9, <1>10, <1>11, RunnerStep

LEMMA MigratedIInv == ASSUME IInv, NEW i \in Runners, Migrated(i) PROVE IInv'
<1>1. /\ inst[i].at = "check" /\ ~More(i) /\ lock' = "free" /\ lock = i
      /\ users' = users /\ table' = table /\ stored' = stored /\ ran' = ran /\ served' \subseteq Releases
      /\ inst[i].release \in Releases /\ inst[i].next \in Nat /\ InstOK(i, inst[i])
  BY Runner DEF Migrated, Release, InstOK
<1>2. PICK at \in {"boot", "done"} : inst' = [inst EXCEPT ![i].at = at]
  BY DEF Migrated, Goto
<1>3. at \in At
  BY DEF At
<1>4. PICK x \in Instance : /\ inst' = [inst EXCEPT ![i] = x]
                            /\ x.at = at /\ x.release = inst[i].release /\ x.next = inst[i].next
                            /\ x.ready = inst[i].ready /\ x.why = inst[i].why
  <2>1. \E x \in Instance : /\ [inst EXCEPT ![i].at = at] = [inst EXCEPT ![i] = x]
                            /\ x.at = at /\ x.release = inst[i].release /\ x.next = inst[i].next
                            /\ x.ready = inst[i].ready /\ x.why = inst[i].why
    BY <1>3, Place
  <2> QED
    BY <1>2, <2>1
<1>5. x.next > Len(Files[x.release])
  BY <1>1, <1>4, LenFiles DEF More
<1>6. InstOK(i, x)'
  BY <1>1, <1>4, <1>5 DEF InstOK
<1>7. lock' \in Runners \cup {"free", "ghost"} /\ \A j \in Runners : j # i /\ lock = j => lock' = j
  BY <1>1
<1> QED
  BY <1>1, <1>4, <1>6, <1>7, LocalStep

LEMMA FailureIInv ==
    ASSUME IInv, NEW i \in Runners, StatementFails(i) \/ LockTimeout(i) \/ Kill(i)
    PROVE  IInv'
<1>1. /\ users' = users /\ table' = table /\ stored' = stored /\ ran' = ran /\ served' = served
      /\ {"sql", "timeout", "killed"} \subseteq Why
      /\ (lock' = lock \/ (lock = i /\ lock' \in {"free", "ghost"}))
  <2>1. CASE StatementFails(i)
    BY <2>1 DEF StatementFails, Release, Why
  <2>2. CASE LockTimeout(i)
    BY <2>2 DEF LockTimeout, Why
  <2>3. CASE Kill(i)
    BY <2>3 DEF Kill, Why
  <2> QED
    BY <2>1, <2>2, <2>3
<1>2. Exit(i, "sql") \/ Exit(i, "timeout") \/ Exit(i, "killed")
  BY DEF StatementFails, LockTimeout, Kill
<1>3. ASSUME NEW why \in Why, why # "duplicate", Exit(i, why) PROVE IInv'
  BY <1>1, <1>3, ExitIInv
<1> QED
  BY <1>1, <1>2, <1>3

LEMMA ListenIInv == ASSUME IInv, NEW i \in Runners, Listen(i) PROVE IInv'
<1>1. /\ inst[i].at = "boot" /\ lock' = lock /\ inst' = [inst EXCEPT ![i].at = "serving"]
      /\ users' = users /\ table' = table /\ stored' = stored /\ ran' = ran
      /\ served' \subseteq Releases /\ lock' \in Runners \cup {"free", "ghost"}
  BY Runner DEF Listen, Goto
<1>2. PICK x \in Instance : /\ inst' = [inst EXCEPT ![i] = x]
                            /\ x.at = "serving" /\ x.release = inst[i].release /\ x.next = inst[i].next
                            /\ x.ready = inst[i].ready /\ x.why = inst[i].why
  <2>1. "serving" \in At
    BY DEF At
  <2>2. \E x \in Instance : /\ [inst EXCEPT ![i].at = "serving"] = [inst EXCEPT ![i] = x]
                            /\ x.at = "serving" /\ x.release = inst[i].release /\ x.next = inst[i].next
                            /\ x.ready = inst[i].ready /\ x.why = inst[i].why
    BY <2>1, Place
  <2> QED
    BY <1>1, <2>2
<1>3. InstOK(i, x)'
  BY <1>1, <1>2, Runner DEF InstOK
<1> QED
  BY <1>1, <1>2, <1>3, LocalStep

LEMMA ReadinessIInv == ASSUME IInv, NEW i \in Runners, NEW db \in BOOLEAN, NEW redis \in BOOLEAN, Readiness(i, db, redis) PROVE IInv'
<1>1. /\ inst[i].at = "serving" /\ lock' = lock
      /\ users' = users /\ table' = table /\ stored' = stored /\ ran' = ran /\ table \in BOOLEAN
      /\ served' \subseteq Releases /\ lock' \in Runners \cup {"free", "ghost"}
  BY Runner DEF Readiness, IInv, TypeOK
<1>2. PICK b \in BOOLEAN : inst' = [inst EXCEPT ![i].ready = b]
  BY <1>1 DEF Readiness, EvaluateReadiness, CheckMigrations
<1>3. PICK x : x = [inst[i] EXCEPT !.ready = b]
  OBVIOUS
<1>4. /\ x \in Instance /\ inst' = [inst EXCEPT ![i] = x]
      /\ x.at = "serving" /\ x.release = inst[i].release /\ x.next = inst[i].next /\ x.why = inst[i].why
  BY <1>1, <1>2, <1>3, Runner DEF Instance
<1>5. InstOK(i, x)'
  BY <1>1, <1>4, Runner DEF InstOK
<1> QED
  BY <1>1, <1>4, <1>5, LocalStep

LEMMA ReapedIInv == ASSUME IInv, SessionReaped \/ UNCHANGED vars PROVE IInv'
<1>1. /\ users' = users /\ table' = table /\ stored' = stored /\ ran' = ran /\ served' = served /\ inst' = inst
      /\ (lock' = lock \/ (lock = "ghost" /\ lock' = "free"))
  <2>1. CASE SessionReaped
    BY <2>1 DEF SessionReaped
  <2>2. CASE UNCHANGED vars
    BY <2>2 DEF vars
  <2> QED
    BY <2>1, <2>2
<1>2. TypeOK' /\ LedgerIsTrue' /\ (~users' => stored'[InitSql.name] = NoSum)
  BY <1>1 DEF IInv, TypeOK, LedgerIsTrue
<1>3. ASSUME NEW i \in Runners PROVE InstOK(i, inst[i])'
  <2>1. lock = i => lock' = i
    BY <1>1
  <2> QED
    BY <1>1, <2>1 DEF IInv, InstOK
<1> QED
  BY <1>2, <1>3 DEF IInv

LEMMA NextIInv == IInv /\ [Next]_vars => IInv'
<1> SUFFICES ASSUME IInv, [Next]_vars PROVE IInv'
  OBVIOUS
<1>1. ASSUME NEW i \in Runners, Step(i) PROVE IInv'
  BY <1>1, LockIInv, EnsureIInv, BootstrapIInv, CheckIInv, RunSqlIInv, CommitIInv, MigratedIInv, ListenIInv DEF Step
<1>2. ASSUME NEW i \in Runners, LockTimeout(i) \/ StatementFails(i) \/ Restart(i) \/ Kill(i) PROVE IInv'
  BY <1>2, FailureIInv, RestartIInv
<1>3. ASSUME NEW i \in Runners, NEW r \in Releases, Deploy(i, r) PROVE IInv'
  BY <1>3, DeployIInv
<1>4. ASSUME NEW i \in Runners, NEW db \in BOOLEAN, NEW redis \in BOOLEAN, Readiness(i, db, redis) PROVE IInv'
  BY <1>4, ReadinessIInv
<1> QED
  BY <1>1, <1>2, <1>3, <1>4, ReapedIInv DEF Next

\* The invariant of the deployments, for every instance.
THEOREM DeploymentInvariant == Spec => []IInv
  BY InitIInv, NextIInv, PTL DEF Spec

\* A migration is recorded exactly when its SQL was committed, and that happened
\* once, whatever fails or dies (apply-schema.mjs, BEGIN to COMMIT).
THEOREM LedgerStaysTrue == Spec => []LedgerIsTrue
<1>1. IInv => LedgerIsTrue
  BY DEF IInv
<1> QED
  BY <1>1, DeploymentInvariant, PTL

\* The advisory lock keeps runners apart: at most one works on the schema, and
\* none ever inserts a migration that another one has (apply-schema.mjs:35-42).
THEOREM RunnersStayApart == Spec => [](OneAtWork /\ NoneTrips)
<1>1. IInv => NoneTrips
  BY DEF IInv, NoneTrips, InstOK
<1>2. IInv => OneAtWork
  BY DEF IInv, OneAtWork, Working, InstOK
<1> QED
  BY <1>1, <1>2, DeploymentInvariant, PTL

\* A server that reports itself ready has all migrations of its release: the
\* start gate makes sure of what the probe does not look at.
THEOREM ReadyServersAreMigrated == Spec => []ReadyMeansMigrated
<1>1. ASSUME IInv, NEW i \in Runners, inst[i].ready, NEW f \in FilesOf(inst[i].release)
      PROVE  users /\ ran[f.name] > 0
  <2>1. /\ inst[i].at = "serving" /\ users /\ inst[i].release \in Releases /\ inst[i].next \in Nat
        /\ inst[i].next > Len(Files[inst[i].release]) /\ InstOK(i, inst[i])
    BY <1>1, Runner DEF InstOK
  <2>2. PICK k \in 1 .. Len(Files[inst[i].release]) : f = Files[inst[i].release][k]
    BY <2>1, LenFiles DEF FilesOf
  <2>3. stored[f.name] # NoSum /\ f.name \in Names
    <3>1. k \in 1 .. inst[i].next - 1
      BY <2>1, LenFiles
    <3> QED
      BY <2>1, <2>2, <3>1, FileShape DEF InstOK
  <2> QED
    BY <1>1, <2>1, <2>3 DEF IInv, LedgerIsTrue
<1>2. ASSUME IInv, NEW i \in Runners, inst[i].ready PROVE users
  BY <1>2, Runner DEF InstOK
<1>3. IInv => ReadyMeansMigrated
  BY <1>1, <1>2 DEF ReadyMeansMigrated
<1> QED
  BY <1>3, DeploymentInvariant, PTL

\* A runner works on only past migrations that are recorded with the text of its
\* own release, and it makes a record so only from a compatible text or from one
\* on its release's list of known edits: an edit that is not on the list stops it.
THEOREM EditsAreStopped == Spec => []PassedAreOwn /\ EditsAreCaught
<1>1. ASSUME IInv, [Next]_vars, NEW n \in Names, stored[n] # NoSum, stored'[n] # stored[n]
      PROVE  \/ stored'[n][1] = stored[n][1]
             \/ \E i \in Runners : lock = i /\ <<n, stored[n]>> \in Accepted[inst[i].release]
  <2>1. PICK i \in Runners : BootstrapSchemaIfNeeded(i) \/ CheckApplied(i) \/ CommitMigration(i)
    BY <1>1 DEF Next, Step, vars, Lock, EnsureMigrationLedger, RunSql, Migrated, Listen, LockTimeout,
                StatementFails, Restart, Kill, Deploy, Readiness, SessionReaped
  <2>2. stored \in [Names -> Sums]
    BY <1>1 DEF IInv, TypeOK
  <2>3. ~ BootstrapSchemaIfNeeded(i)
    BY <1>1, <2>2 DEF BootstrapSchemaIfNeeded, IInv
  <2>4. ~ CommitMigration(i)
    BY <1>1, <2>2 DEF CommitMigration
  <2>5. /\ n = File(i).name /\ stored'[n] = MigrationChecksum(File(i)) /\ lock = i
        /\ ChecksumMatches(inst[i].release, File(i), stored[n])
    BY <1>1, <2>1, <2>2, <2>3, <2>4, Runner DEF CheckApplied, InstOK
  <2>6. CASE IsCompatible(File(i), stored[n])
    BY <2>5, <2>6 DEF IsCompatible, MigrationChecksum, RawChecksum
  <2>7. CASE IsAcceptedLegacy(inst[i].release, File(i), stored[n])
    BY <2>5, <2>7 DEF IsAcceptedLegacy
  <2> QED
    BY <2>5, <2>6, <2>7 DEF ChecksumMatches
<1>2. IInv /\ [Next]_vars => [\A n \in Names : stored[n] # NoSum /\ stored'[n] # stored[n] =>
         \/ stored'[n][1] = stored[n][1]
         \/ \E i \in Runners : lock = i /\ <<n, stored[n]>> \in Accepted[inst[i].release]]_vars
  BY <1>1
<1>3. IInv => PassedAreOwn
  BY DEF IInv, PassedAreOwn, InstOK, Working
<1> QED
  BY <1>2, <1>3, DeploymentInvariant, PTL DEF Spec, EditsAreCaught
=============================================================================
