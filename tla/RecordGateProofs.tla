-------------------------- MODULE RecordGateProofs --------------------------
(***************************************************************************)
(* Theorems about RecordGate, for any records, any size of the queue and   *)
(* any number of resets.                                                   *)
(***************************************************************************)
EXTENDS RecordGate, SequenceTheorems, TLAPS

\* The worker has a record of after the last reset in hand that the decoder
\* has not been fed yet.
Unfed == worker \in {"start", "decode"} /\ item.epoch = epoch

\* What the decoder is still to be fed of the records since the last reset.
Ahead == IF Unfed THEN 1 ELSE 0
Places == 1 .. Len(queue) + Ahead
RecordAt(k) == IF Unfed /\ k = 1 THEN item.units ELSE queue[k - Ahead].units

HasSps == decoder # None /\ decoder.sps
HasPps == decoder # None /\ decoder.pps
HasKey == decoder # None /\ decoder.key

\* A key frame waits behind nothing that needs one, and its parameter sets were
\* fed, or wait no later than it.
KeyFrameAt(k) ==
    /\ Has(RecordAt(k), "idr")
    /\ \A j \in 1 .. k - 1 : ~HasSlice(RecordAt(j))
    /\ HasSps \/ \E j \in 1 .. k : Has(RecordAt(j), "sps")
    /\ HasPps \/ \E j \in 1 .. k : Has(RecordAt(j), "pps")

KeyFrameWaits == \E k \in Places : KeyFrameAt(k)

\* Behind a closed gate nothing waits; once it is open the decoder has its key
\* frame, or will have it first, unless something got lost.
GateKeeps ==
    /\ closed => ~gate
    /\ ~gate => queue = <<>> /\ ~Unfed
    /\ gate /\ ~lost => HasKey \/ KeyFrameWaits

\* The worker's hand is full exactly while a record is on its way through the
\* thread; its decoder is gone only if a reset took it.
HandHolds ==
    /\ worker \in {"start", "decode", "publish"} => item \in Frames /\ item.epoch <= epoch
    /\ worker = "decode" /\ item.epoch = epoch => decoder # None

IInv == TypeOK /\ QueueIsCurrent /\ HandHolds /\ GateKeeps

\* The records that may wait for the decoder: those since the last reset.
Current == {f \in Frames : f.epoch = epoch}

LEMMA QueueOfCurrent ==
    ASSUME TypeOK, QueueIsCurrent
    PROVE  queue \in Seq(Current)
<1>1. \A i \in 1 .. Len(queue) : queue[i] \in Current
  BY ElementOfSeq DEF TypeOK, QueueIsCurrent, Current
<1> QED
  BY <1>1, IsASeq, LenProperties DEF TypeOK

\* A push keeps the last QueueSize of what is queued and what comes, and all of
\* it unless the queue overflows.
LEMMA PushKeeps ==
    ASSUME NEW S, queue \in Seq(S), NEW frames \in Seq(S)
    PROVE  /\ Push(frames) \in Seq(S)
           /\ Len(Push(frames)) <= QueueSize
           /\ ~Overflows(frames) => Push(frames) = queue \o frames
<1> DEFINE all == queue \o frames
           dropped == IF Len(all) > QueueSize THEN Len(all) - QueueSize ELSE 0
<1>1. all \in Seq(S) /\ Len(all) = Len(queue) + Len(frames) /\ Len(all) \in Nat
  BY ConcatProperties, LenProperties
<1>2. dropped \in Nat /\ Len(all) - dropped <= QueueSize /\ dropped <= Len(all)
  BY <1>1, GateAssumption
<1>3. Push(frames) = SubSeq(all, dropped + 1, Len(all))
  BY DEF Push
<1>4. \A i \in dropped + 1 .. Len(all) : all[i] \in S
  BY <1>1, <1>2, ElementOfSeq
<1>5. SubSeq(all, dropped + 1, Len(all)) \in Seq(S)
  BY <1>1, <1>2, <1>4, SubSeqProperties
<1>6. Len(SubSeq(all, dropped + 1, Len(all))) <= QueueSize
  BY <1>1, <1>2, <1>4, SubSeqProperties
<1>7. ASSUME ~Overflows(frames) PROVE Push(frames) = all
  <2>1. dropped = 0
    BY <1>1, <1>7, GateAssumption DEF Overflows
  <2>2. SubSeq(all, 1, Len(all)) = all
    BY <1>1, SubSeqFull
  <2>3. Push(frames) = SubSeq(all, 1, Len(all))
    BY <1>3, <2>1, SMTT(30)
  <2> QED
    BY <2>2, <2>3
<1> QED
  BY <1>3, <1>5, <1>6, <1>7

LEMMA InitIInv == Init => IInv
<1> SUFFICES ASSUME Init PROVE IInv
  OBVIOUS
<1> USE GateAssumption DEF Init
<1>1. TypeOK
  <2>1. queue \in Seq(Frames) /\ Len(queue) <= QueueSize
    BY EmptySeq
  <2>2. epoch \in Epochs
    BY DEF Epochs
  <2> QED
    BY <2>1, <2>2 DEF TypeOK
<1>2. QueueIsCurrent
  BY DEF QueueIsCurrent
<1>3. HandHolds /\ GateKeeps
  BY DEF HandHolds, GateKeeps, Unfed
<1> QED
  BY <1>1, <1>2, <1>3 DEF IInv

\* What waits keeps its place, and something may come behind it, while the
\* decoder forgets nothing.
LEMMA KeyFrameStays ==
    ASSUME KeyFrameWaits,
           Places \subseteq Places',
           \A k \in Places : RecordAt(k)' = RecordAt(k),
           HasSps => HasSps', HasPps => HasPps',
           Len(queue) \in Nat
    PROVE  KeyFrameWaits'
<1>1. PICK k \in Places : KeyFrameAt(k)
  BY DEF KeyFrameWaits
<1>2. k \in Nat /\ \A j \in 1 .. k : j \in Places /\ RecordAt(j)' = RecordAt(j)
  BY DEF Places, Ahead
<1>3. Has(RecordAt(k), "idr")' /\ k \in Places'
  BY <1>1, <1>2 DEF KeyFrameAt, Has
<1>4. \A j \in 1 .. k - 1 : ~HasSlice(RecordAt(j))'
  BY <1>1, <1>2 DEF KeyFrameAt
<1>5. HasSps' \/ \E j \in 1 .. k : Has(RecordAt(j), "sps")'
  BY <1>1, <1>2 DEF KeyFrameAt
<1>6. HasPps' \/ \E j \in 1 .. k : Has(RecordAt(j), "pps")'
  BY <1>1, <1>2 DEF KeyFrameAt
<1>7. KeyFrameAt(k)'
  BY <1>3, <1>4, <1>5, <1>6 DEF KeyFrameAt
<1> QED
  BY <1>3, <1>7 DEF KeyFrameWaits

LEMMA CurrentSeqTyped ==
    ASSUME NEW q \in Seq(Current)
    PROVE  q \in Seq(Frames) /\ \A i \in 1 .. Len(q) : q[i].epoch = epoch
<1>1. \A i \in 1 .. Len(q) : q[i] \in Current
  BY ElementOfSeq
<1> QED
  BY <1>1, SeqMonotonic DEF Current

\* _on_record, while the gate is open: one more record waits.
LEMMA ArrivesAtOpenGate ==
    ASSUME IInv, NEW record \in Records, gate, ~lost, UNCHANGED <<epoch, worker, item, decoder>>,
           queue' = queue \o <<Frame(record, epoch)>>
    PROVE  HasKey' \/ KeyFrameWaits'
<1>1. HasKey \/ KeyFrameWaits
  BY DEF IInv, GateKeeps
<1>2. CASE HasKey
  BY <1>2 DEF HasKey
<1>3. CASE KeyFrameWaits
  <2>1. queue \in Seq(Frames) /\ Len(queue) \in Nat
    BY LenProperties DEF IInv, TypeOK
  <2>2. Unfed' = Unfed /\ Ahead' = Ahead
    BY DEF Unfed, Ahead
  <2>3. Len(queue') = Len(queue) + 1 /\ \A i \in 1 .. Len(queue) : queue'[i] = queue[i]
    BY <2>1
  <2>4. Places \subseteq Places'
    BY <2>1, <2>2, <2>3 DEF Places, Ahead
  <2>5. \A k \in Places : RecordAt(k)' = RecordAt(k)
    BY <2>1, <2>2, <2>3 DEF Places, Ahead, RecordAt
  <2> QED
    BY <1>3, <2>1, <2>4, <2>5, KeyFrameStays DEF HasSps, HasPps
<1> QED
  BY <1>1, <1>2, <1>3

\* _on_record, when it opens the gate: what was pushed has all that its key
\* frame needs, unless that is on record as lost.
LEMMA ArrivesAtClosedGate ==
    ASSUME IInv, NEW record \in Records, ~gate, Opens(record), ~lost',
           RecordArrives(record), queue' = Opening(record)
    PROVE  KeyFrameWaits'
<1>1. ~Unfed' /\ Ahead' = 0
  BY DEF IInv, GateKeeps, Unfed, Ahead, RecordArrives
<1>2. Has(record, "idr")
  BY DEF Opens
<1>3. CASE Head(record) \in {"sps", "pps"}
  <2>1. Opening(record) = <<Frame(record, epoch)>>
    BY <1>3 DEF Opening
  <2>2. Has(record, "sps") /\ Has(record, "pps")
    BY <2>1 DEF RecordArrives
  <2>3. Len(queue') = 1 /\ RecordAt(1)' = record
    BY <2>1, <1>1 DEF RecordAt, Frame
  <2>4. 1 \in Places'
    BY <1>1, <2>3 DEF Places
  <2>5. KeyFrameAt(1)'
    BY <1>2, <2>2, <2>3 DEF KeyFrameAt
  <2> QED
    BY <2>4, <2>5 DEF KeyFrameWaits
<1>4. CASE Head(record) \notin {"sps", "pps"}
  <2>1. queue' = <<Frame(<<"sps">>, sps'), Frame(<<"pps">>, pps'), Frame(record, epoch)>>
    BY <1>4 DEF Opening
  <2>2. /\ Len(queue') = 3
        /\ RecordAt(1)' = <<"sps">> /\ RecordAt(2)' = <<"pps">> /\ RecordAt(3)' = record
    BY <2>1, <1>1 DEF RecordAt, Frame
  <2>3. 3 \in Places'
    BY <1>1, <2>2 DEF Places
  <2>4. Has(<<"sps">>, "sps") /\ Has(<<"pps">>, "pps") /\ ~HasSlice(<<"sps">>) /\ ~HasSlice(<<"pps">>)
    BY DEF Has, HasSlice, Contains
  <2>5. Has(RecordAt(3), "idr")'
    BY <1>2, <2>2
  <2>6. \A j \in 1 .. 2 : ~HasSlice(RecordAt(j))'
    BY <2>2, <2>4
  <2>7. (\E j \in 1 .. 3 : Has(RecordAt(j), "sps")') /\ (\E j \in 1 .. 3 : Has(RecordAt(j), "pps")')
    BY <2>2, <2>4
  <2>8. KeyFrameAt(3)'
    BY <2>5, <2>6, <2>7 DEF KeyFrameAt
  <2> QED
    BY <2>3, <2>8 DEF KeyFrameWaits
<1> QED
  BY <1>3, <1>4

\* _on_record.
LEMMA ArrivesKeeps ==
    ASSUME IInv, NEW record \in Records, RecordArrives(record)
    PROVE  IInv'
<1> DEFINE frames == IF gate THEN <<Frame(record, epoch)>>
                     ELSE IF Opens(record) THEN Opening(record)
                     ELSE <<>>
<1> USE DEF IInv
<1>1. /\ UNCHANGED <<epoch, worker, item, decoder, closed>> /\ ~closed
      /\ gate' = (gate \/ Opens(record))
      /\ queue' = Push(frames)
      /\ lost' = (lost \/ Overflows(frames) \/
                    /\ ~gate /\ Len(frames) = 1
                    /\ ~(Has(record, "sps") /\ Has(record, "pps")))
  BY DEF RecordArrives
<1>2. sps' \in {epoch, None} /\ pps' \in {epoch, None} /\ epoch \in Epochs
  BY DEF RecordArrives, QueueIsCurrent, TypeOK
<1>3. queue \in Seq(Current) /\ Len(queue) \in Nat
  BY QueueOfCurrent, LenProperties
<1>4. frames \in Seq(Current)
  <2>1. Frame(record, epoch) \in Current
    BY <1>2 DEF Frame, Frames, Current
  <2>2. CASE ~gate /\ Opens(record)
    <3>1. sps' = epoch /\ pps' = epoch
      BY <1>2, <2>2 DEF Opens
    <3>2. Frame(<<"sps">>, sps') \in Current /\ Frame(<<"pps">>, pps') \in Current
      BY <1>2, <3>1 DEF Frame, Frames, Current
    <3>3. Opening(record) \in Seq(Current)
      BY <2>1, <3>2 DEF Opening
    <3> QED
      BY <2>2, <3>3
  <2>3. CASE gate \/ ~Opens(record)
    BY <2>1, <2>3
  <2> QED
    BY <2>2, <2>3
<1>5. /\ queue' \in Seq(Current) /\ Len(queue') <= QueueSize
      /\ ~Overflows(frames) => queue' = queue \o frames
  <2> HIDE DEF frames
  <2> QED
    BY <1>1, <1>3, <1>4, PushKeeps
<1>6. queue' \in Seq(Frames) /\ \A i \in 1 .. Len(queue') : queue'[i].epoch = epoch
  BY <1>5, CurrentSeqTyped
<1>7. TypeOK'
  <2>1. gate' \in BOOLEAN /\ lost' \in BOOLEAN
    BY <1>1 DEF TypeOK
  <2> QED
    BY <1>1, <1>2, <1>5, <1>6, <2>1 DEF TypeOK
<1>8. QueueIsCurrent'
  BY <1>1, <1>2, <1>6 DEF QueueIsCurrent
<1>9. HandHolds' /\ Unfed' = Unfed
  BY <1>1 DEF HandHolds, Unfed, Frames
<1>10. ASSUME ~gate' PROVE queue' = <<>> /\ ~Unfed'
  <2>1. frames = <<>> /\ queue = <<>> /\ ~Unfed
    BY <1>1, <1>10 DEF GateKeeps
  <2>2. ~Overflows(frames)
    BY <2>1, GateAssumption DEF Overflows
  <2> QED
    BY <1>5, <1>9, <2>1, <2>2
<1>11. ASSUME gate', ~lost' PROVE HasKey' \/ KeyFrameWaits'
  <2>1. ~lost /\ ~Overflows(frames) /\ queue' = queue \o frames
    BY <1>1, <1>5, <1>11
  <2>2. CASE gate
    BY <1>1, <2>1, <2>2, ArrivesAtOpenGate
  <2>3. CASE ~gate
    <3>1. Opens(record) /\ frames = Opening(record) /\ queue = <<>>
      BY <1>1, <1>11, <2>3 DEF GateKeeps
    <3>2. queue' = Opening(record)
      BY <1>4, <2>1, <3>1
    <3> QED
      BY <1>11, <2>3, <3>1, <3>2, ArrivesAtClosedGate
  <2> QED
    BY <2>2, <2>3
<1>12. GateKeeps'
  BY <1>1, <1>10, <1>11 DEF GateKeeps
<1> QED
  BY <1>7, <1>8, <1>9, <1>12

\* _reset_decoder, wherever it is called: nothing is left but a record in hand,
\* which is older from now on.
LEMMA ResetKeeps ==
    ASSUME IInv, ResetDecoder, epoch < MaxResets,
           worker' = worker \/ (worker = "off" /\ worker' = "get"), item' = item,
           closed' \in BOOLEAN
    PROVE  IInv'
<1> USE DEF IInv
<1>1. /\ epoch \in Nat /\ epoch' = epoch + 1 /\ epoch' \in Epochs
      /\ decoder' = None /\ sps' = None /\ pps' = None
      /\ gate' = FALSE /\ queue' = <<>> /\ lost' = FALSE
  BY GateAssumption DEF ResetDecoder, TypeOK, Epochs
<1>2. TypeOK'
  <2>1. queue' \in Seq(Frames) /\ Len(queue') <= QueueSize
    BY <1>1, GateAssumption
  <2> QED
    BY <1>1, <2>1 DEF TypeOK
<1>3. QueueIsCurrent'
  BY <1>1 DEF QueueIsCurrent
<1>4. worker' \in {"start", "decode", "publish"} => item' \in Frames /\ item'.epoch < epoch' /\ item'.epoch # epoch'
  <2>1. worker' \in {"start", "decode", "publish"} => item \in Frames /\ item.epoch <= epoch /\ item.epoch \in Nat
    BY DEF HandHolds, Frames, Epochs
  <2> QED
    BY <1>1, <2>1
<1>5. HandHolds' /\ ~Unfed'
  BY <1>1, <1>4 DEF HandHolds, Unfed, Frames, Epochs
<1>6. GateKeeps'
  BY <1>1, <1>5 DEF GateKeeps
<1> QED
  BY <1>2, <1>3, <1>5, <1>6

\* The worker takes the first of the queue: what waits stays in its place.
LEMMA GetsKeeps ==
    ASSUME IInv, WorkerGets
    PROVE  IInv'
<1> USE DEF IInv
<1>1. /\ worker = "get" /\ worker' = "start" /\ queue # <<>>
      /\ item' = Head(queue) /\ queue' = Tail(queue)
      /\ UNCHANGED <<epoch, sps, pps, gate, closed, lost, decoder>>
  BY DEF WorkerGets, gateVars
<1>2. queue \in Seq(Current) /\ Len(queue) \in Nat \ {0}
  BY <1>1, QueueOfCurrent, LenProperties
<1>3. /\ item' \in Current /\ item' = queue[1]
      /\ queue' \in Seq(Current) /\ Len(queue') = Len(queue) - 1
      /\ \A i \in 1 .. Len(queue') : queue'[i] = queue[i + 1]
  BY <1>1, <1>2, HeadTailProperties
<1>4. queue' \in Seq(Frames) /\ \A i \in 1 .. Len(queue') : queue'[i].epoch = epoch
  BY <1>3, CurrentSeqTyped
<1>5. TypeOK'
  <2>1. item' \in Frames \cup {None}
    BY <1>3 DEF Current
  <2>2. queue' \in Seq(Frames) /\ Len(queue') <= QueueSize
    BY <1>2, <1>3, <1>4, GateAssumption DEF TypeOK
  <2> QED
    BY <1>1, <2>1, <2>2 DEF TypeOK
<1>6. QueueIsCurrent'
  BY <1>1, <1>4 DEF QueueIsCurrent
<1>7. HandHolds' /\ ~Unfed /\ Unfed' /\ gate
  <2>1. item' \in Frames /\ item'.epoch = epoch /\ epoch \in Nat
    BY <1>3 DEF Current, TypeOK, Epochs
  <2>2. HandHolds'
    BY <1>1, <2>1 DEF HandHolds
  <2>3. ~Unfed /\ Unfed'
    BY <1>1, <2>1 DEF Unfed
  <2>4. gate
    BY <1>1 DEF GateKeeps
  <2> QED
    BY <2>2, <2>3, <2>4
<1>8. ASSUME KeyFrameWaits PROVE KeyFrameWaits'
  <2>1. Places' = Places
    BY <1>2, <1>3, <1>7 DEF Places, Ahead
  <2>2. \A k \in Places : RecordAt(k)' = RecordAt(k)
    BY <1>2, <1>3, <1>7 DEF Places, Ahead, RecordAt
  <2> QED
    BY <1>1, <1>2, <1>8, <2>1, <2>2, KeyFrameStays DEF HasSps, HasPps
<1>9. GateKeeps'
  BY <1>1, <1>7, <1>8 DEF GateKeeps, HasKey
<1> QED
  BY <1>5, <1>6, <1>7, <1>9

LEMMA NewDecoderIsOne == NewDecoder \in Decoders /\ NewDecoder # None
<1>1. NewDecoder \in Decoders
  BY DEF NewDecoder, Decoders
<1> QED
  BY <1>1, GateAssumption

LEMMA FedIsDecoder ==
    ASSUME NEW d \in Decoders, NEW record
    PROVE  /\ Fed(d, record) \in Decoders /\ Fed(d, record) # None
           /\ d.sps => Fed(d, record).sps
           /\ d.pps => Fed(d, record).pps
           /\ d.key => Fed(d, record).key
           /\ Has(record, "sps") => Fed(d, record).sps
           /\ Has(record, "pps") => Fed(d, record).pps
           /\ Fed(d, record).sps /\ Fed(d, record).pps /\ Has(record, "idr")
                => Fed(d, record).key
<1>1. Has(record, "sps") \in BOOLEAN /\ Has(record, "pps") \in BOOLEAN /\ Has(record, "idr") \in BOOLEAN
  BY DEF Has, Contains
<1>2. d.sps \in BOOLEAN /\ d.pps \in BOOLEAN /\ d.key \in BOOLEAN
  BY DEF Decoders
<1> DEFINE s == d.sps \/ Has(record, "sps")
           p == d.pps \/ Has(record, "pps")
           k == d.key \/ (s /\ p /\ Has(record, "idr"))
<1>3. Fed(d, record) = [sps |-> s, pps |-> p, key |-> k]
  BY Zenon DEF Fed
<1>4. s \in BOOLEAN /\ p \in BOOLEAN /\ k \in BOOLEAN
  BY <1>1, <1>2
<1> HIDE DEF s, p, k
<1>5. /\ Fed(d, record) \in Decoders
      /\ Fed(d, record).sps = s /\ Fed(d, record).pps = p /\ Fed(d, record).key = k
  BY <1>3, <1>4 DEF Decoders
<1>6. Fed(d, record) # None
  BY <1>5, GateAssumption
<1> QED
  BY <1>1, <1>2, <1>5, <1>6, Zenon DEF s, p, k

\* The thread finds a decoder or makes one.
LEMMA StartsKeeps ==
    ASSUME IInv, ThreadStarts
    PROVE  IInv'
<1> USE DEF IInv
<1>1. /\ worker = "start" /\ worker' = "decode"
      /\ decoder' = IF decoder = None THEN NewDecoder ELSE decoder
      /\ UNCHANGED <<epoch, sps, pps, gate, closed, lost, queue, item>>
  BY DEF ThreadStarts, gateVars
<1>2. decoder' \in Decoders /\ decoder' # None
  BY <1>1, NewDecoderIsOne DEF TypeOK
<1>3. TypeOK' /\ QueueIsCurrent'
  BY <1>1, <1>2 DEF TypeOK, QueueIsCurrent
<1>4. HandHolds' /\ Unfed' = Unfed
  BY <1>1, <1>2 DEF HandHolds, Unfed
<1>5. (HasSps => HasSps') /\ (HasPps => HasPps') /\ (HasKey => HasKey')
  BY <1>1, <1>2 DEF HasSps, HasPps, HasKey
<1>6. Places' = Places /\ \A k \in Places : RecordAt(k)' = RecordAt(k)
  BY <1>1, <1>4 DEF Places, Ahead, RecordAt
<1>7. KeyFrameWaits => KeyFrameWaits'
  BY <1>5, <1>6, KeyFrameStays, LenProperties DEF TypeOK
<1>8. GateKeeps'
  BY <1>1, <1>4, <1>5, <1>7 DEF GateKeeps
<1> QED
  BY <1>3, <1>4, <1>8

\* The decoder is fed the record in hand: if that was the one all wait for, it
\* has its key frame now; otherwise the others move up.
LEMMA FeedKeepsGate ==
    ASSUME IInv, worker = "decode", decoder # None,
           decoder' = Fed(decoder, item.units),
           worker' \notin {"start", "decode"},
           UNCHANGED <<gateVars, queue>>
    PROVE  GateKeeps'
<1> USE DEF IInv
<1> DEFINE d == decoder
           fed == Fed(decoder, item.units)
<1>1. UNCHANGED <<epoch, gate, closed, lost, queue>> /\ Len(queue) \in Nat /\ ~Unfed'
  BY LenProperties DEF gateVars, TypeOK, Unfed
<1>2. d \in Decoders
  BY DEF TypeOK
<1>3. /\ fed # None
      /\ (HasSps => HasSps') /\ (HasPps => HasPps') /\ (HasKey => HasKey')
      /\ Has(item.units, "sps") => HasSps'
      /\ Has(item.units, "pps") => HasPps'
      /\ HasSps' /\ HasPps' /\ Has(item.units, "idr") => HasKey'
  BY <1>2, FedIsDecoder DEF HasSps, HasPps, HasKey
<1>4. ASSUME KeyFrameWaits PROVE HasKey' \/ KeyFrameWaits'
  <2>1. CASE ~Unfed
    <3>1. Places' = Places /\ \A k \in Places : RecordAt(k)' = RecordAt(k)
      BY <1>1, <2>1 DEF Places, Ahead, RecordAt
    <3> QED
      BY <1>1, <1>3, <1>4, <3>1, KeyFrameStays
  <2>2. CASE Unfed
    <3>1. PICK k \in Places : KeyFrameAt(k)
      BY <1>4 DEF KeyFrameWaits
    <3>2. Places = 1 .. Len(queue) + 1 /\ Places' = 1 .. Len(queue)
      BY <1>1, <2>2 DEF Places, Ahead
    <3>3. RecordAt(1) = item.units /\ \A j \in 1 .. Len(queue) : RecordAt(j)' = RecordAt(j + 1)
      BY <1>1, <2>2 DEF RecordAt, Ahead
    <3>4. CASE k = 1
      <4>1. Has(item.units, "idr")
        BY <3>1, <3>3, <3>4 DEF KeyFrameAt
      <4>2. HasSps' /\ HasPps'
        <5>1. \A j \in 1 .. k : RecordAt(j) = item.units
          BY <3>3, <3>4
        <5> QED
          BY <1>3, <3>1, <5>1 DEF KeyFrameAt
      <4> QED
        BY <1>3, <4>1, <4>2
    <3>5. CASE k # 1
      <4>1. k - 1 \in Places' /\ k \in Nat
        BY <1>1, <3>2, <3>5
      <4>2. \A j \in 2 .. k : j - 1 \in 1 .. k - 1 /\ RecordAt(j - 1)' = RecordAt(j)
        BY <1>1, <3>2, <3>3, <4>1
      <4>3. Has(RecordAt(k - 1), "idr")'
        <5>1. k \in 2 .. k /\ RecordAt(k - 1)' = RecordAt(k)
          BY <1>1, <3>2, <3>5, <4>2
        <5> QED
          BY <3>1, <5>1 DEF KeyFrameAt
      <4>4. \A j \in 1 .. (k - 1) - 1 : ~HasSlice(RecordAt(j))'
        <5>1. \A j \in 1 .. (k - 1) - 1 : RecordAt(j)' = RecordAt(j + 1) /\ j + 1 \in 1 .. k - 1
          BY <1>1, <3>2, <3>3, <4>1
        <5> QED
          BY <3>1, <5>1 DEF KeyFrameAt
      <4>5. HasSps' \/ \E j \in 1 .. k - 1 : Has(RecordAt(j), "sps")'
        <5>1. CASE \E j \in 2 .. k : Has(RecordAt(j), "sps")
          BY <4>2, <5>1
        <5>2. CASE HasSps \/ Has(RecordAt(1), "sps")
          BY <1>3, <3>3, <5>2
        <5>3. HasSps \/ \E j \in 1 .. k : Has(RecordAt(j), "sps")
          BY <3>1 DEF KeyFrameAt
        <5> QED
          BY <3>1, <4>1, <5>1, <5>2, <5>3
      <4>6. HasPps' \/ \E j \in 1 .. k - 1 : Has(RecordAt(j), "pps")'
        <5>1. CASE \E j \in 2 .. k : Has(RecordAt(j), "pps")
          BY <4>2, <5>1
        <5>2. CASE HasPps \/ Has(RecordAt(1), "pps")
          BY <1>3, <3>3, <5>2
        <5>3. HasPps \/ \E j \in 1 .. k : Has(RecordAt(j), "pps")
          BY <3>1 DEF KeyFrameAt
        <5> QED
          BY <3>1, <4>1, <5>1, <5>2, <5>3
      <4>7. KeyFrameAt(k - 1)'
        BY <4>3, <4>4, <4>5, <4>6 DEF KeyFrameAt
      <4> QED
        BY <4>1, <4>7 DEF KeyFrameWaits
    <3> QED
      BY <3>4, <3>5
  <2> QED
    BY <2>1, <2>2
<1>5. ~gate => queue' = <<>>
  BY <1>1 DEF GateKeeps
<1> QED
  BY <1>1, <1>3, <1>4, <1>5 DEF GateKeeps

\* What the worker does once the thread is over, or cannot go on.
LEMMA RoundKeeps ==
    ASSUME IInv, worker' \in {"off", "get", "publish"},
           worker' = "publish" => worker = "decode" /\ item' = item,
           worker' # "publish" => item' = None,
           decoder' \in Decoders \cup {None},
           UNCHANGED <<gateVars, queue>>
    PROVE  TypeOK' /\ QueueIsCurrent' /\ HandHolds'
<1> USE DEF IInv, gateVars
<1>1. TypeOK'
  BY DEF TypeOK
<1>2. QueueIsCurrent'
  BY DEF QueueIsCurrent
<1>3. HandHolds'
  BY DEF HandHolds
<1> QED
  BY <1>1, <1>2, <1>3

\* A step that feeds nothing and leaves nothing in the worker's hand that was
\* still to be fed.
LEMMA RoundKeepsGate ==
    ASSUME IInv, ~Unfed, ~Unfed', UNCHANGED <<gateVars, queue, decoder>>
    PROVE  GateKeeps'
<1> USE DEF IInv, gateVars
<1>1. Places' = Places /\ \A k \in Places : RecordAt(k)' = RecordAt(k)
  BY DEF Places, Ahead, RecordAt
<1>2. KeyFrameWaits => KeyFrameWaits'
  BY <1>1, KeyFrameStays, LenProperties DEF TypeOK, HasSps, HasPps
<1> QED
  BY <1>2 DEF GateKeeps, HasKey

LEMMA NextIInv == IInv /\ [Next]_vars => IInv'
<1> SUFFICES ASSUME IInv, [Next]_vars PROVE IInv'
  OBVIOUS
<1>t. TypeOK /\ HandHolds /\ GateKeeps
  BY DEF IInv
<1>1. ASSUME NEW record \in Records, RecordArrives(record) PROVE IInv'
  BY <1>1, ArrivesKeeps
<1>2. CASE SessionOpens
  BY <1>2, <1>t, ResetKeeps DEF SessionOpens, TypeOK
<1>3. CASE SessionReleased
  BY <1>3, <1>t, ResetKeeps DEF SessionReleased, TypeOK
<1>4. CASE CloseManager
  BY <1>4, ResetKeeps DEF CloseManager
<1>5. CASE CancelWorker
  <2>1. ~Unfed /\ ~Unfed'
    BY <1>5, <1>t DEF CancelWorker, GateKeeps, Unfed
  <2>2. worker' = "off" /\ item' = None /\ UNCHANGED <<gateVars, queue, decoder>>
    BY <1>5 DEF CancelWorker
  <2> QED
    BY <1>t, <2>1, <2>2, RoundKeeps, RoundKeepsGate DEF IInv, TypeOK
<1>6. CASE WorkerGets
  BY <1>6, GetsKeeps
<1>7. CASE ThreadStarts
  BY <1>7, StartsKeeps
<1>8. CASE DecoderGone
  <2>1. worker' \in {"off", "get"} /\ item' = None /\ UNCHANGED <<gateVars, queue, decoder>>
    BY <1>8, <1>t DEF DecoderGone, NextRoundFailed, NextRound, TypeOK
  <2>2. ~Unfed /\ ~Unfed'
    BY <1>8, <1>t, <2>1 DEF DecoderGone, HandHolds, Unfed
  <2> QED
    BY <1>t, <2>1, <2>2, RoundKeeps, RoundKeepsGate DEF IInv, TypeOK
<1>9. CASE DecodesPicture \/ DecodesNothing
  <2>1. /\ worker = "decode" /\ decoder # None
        /\ decoder' = Fed(decoder, item.units)
        /\ worker' \in {"off", "get", "publish"}
        /\ worker' = "publish" => item' = item
        /\ worker' # "publish" => item' = None
        /\ UNCHANGED <<gateVars, queue>>
    BY <1>9 DEF DecodesPicture, DecodesNothing, NextRoundFailed, NextRound
  <2>2. decoder' \in Decoders
    BY <1>t, <2>1, FedIsDecoder DEF TypeOK
  <2>3. TypeOK' /\ QueueIsCurrent' /\ HandHolds'
    BY <2>1, <2>2, RoundKeeps
  <2>4. GateKeeps'
    BY <2>1, FeedKeepsGate
  <2> QED
    BY <2>3, <2>4 DEF IInv
<1>10. CASE PublishPicture
  <2>1. worker = "publish" /\ worker' \in {"off", "get"} /\ item' = None
        /\ UNCHANGED <<gateVars, queue, decoder>>
    BY <1>10 DEF PublishPicture, NextRound
  <2>2. ~Unfed /\ ~Unfed'
    BY <2>1 DEF Unfed
  <2> QED
    BY <1>t, <2>1, <2>2, RoundKeeps, RoundKeepsGate DEF IInv, TypeOK
<1>11. CASE UNCHANGED vars
  BY <1>11 DEF vars, IInv, TypeOK, QueueIsCurrent, HandHolds, GateKeeps, Unfed, HasKey,
     HasSps, HasPps, KeyFrameWaits, KeyFrameAt, Places, Ahead, RecordAt, HasSlice, Has
<1> QED
  BY <1>1, <1>2, <1>3, <1>4, <1>5, <1>6, <1>7, <1>8, <1>9, <1>10, <1>11 DEF Next, WorkerStep

\* The first that waits is either the key frame all wait for, with its parameter
\* sets, or needs nothing.
LEMMA InvParamsFirst == IInv => ParamsFirst
<1> SUFFICES ASSUME IInv, worker = "decode", decoder # None, item.epoch = epoch, ~lost,
                    HasSlice(item.units)
             PROVE  Fed(decoder, item.units).key
  BY DEF ParamsFirst, Decodable, HasSlice
<1>1. decoder \in Decoders /\ Unfed /\ gate /\ Len(queue) \in Nat
  BY LenProperties DEF IInv, TypeOK, Unfed, GateKeeps
<1>2. CASE HasKey
  BY <1>1, <1>2, FedIsDecoder DEF HasKey
<1>3. CASE KeyFrameWaits
  <2>1. PICK k \in Places : KeyFrameAt(k)
    BY <1>3 DEF KeyFrameWaits
  <2>2. RecordAt(1) = item.units /\ k \in Nat \ {0}
    BY <1>1 DEF RecordAt, Places, Ahead
  <2>3. k = 1
    BY <2>1, <2>2 DEF KeyFrameAt
  <2>4. \A j \in 1 .. k : RecordAt(j) = item.units
    BY <2>2, <2>3
  <2>5. /\ Has(item.units, "idr")
        /\ decoder.sps \/ Has(item.units, "sps")
        /\ decoder.pps \/ Has(item.units, "pps")
    BY <2>1, <2>3, <2>4 DEF KeyFrameAt, HasSps, HasPps
  <2> QED
    BY <1>1, <2>5, FedIsDecoder
<1> QED
  BY <1>1, <1>2, <1>3 DEF IInv, GateKeeps

\* What waits for the decoder, in _record_queue and in the worker's hand, has a
\* key frame and its parameter sets in front since the gate opened, until the
\* decoder has them.
THEOREM Invariant == Spec => []IInv
  BY InitIInv, NextIInv, PTL DEF Spec

\* Consistent: after _reset_decoder nothing older is queued or put in front of a
\* key frame, and _decode_record never gets a slice before what it refers to,
\* but for a queue that overflowed, a record that opened the gate with one
\* parameter set only, and a record that a reset left in hand.
THEOREM StaysConsistent == Spec => []Consistent
<1>1. IInv => Consistent
  BY InvParamsFirst DEF IInv, Consistent
<1> QED
  BY Invariant, <1>1, PTL
=============================================================================
