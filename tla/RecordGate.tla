----------------------------- MODULE RecordGate -----------------------------
(***************************************************************************)
(* From records to pictures: TendCameraManager._on_record, _decode_worker, *)
(* _decode_record and _reset_decoder (tend_camera.py).                     *)
(*                                                                         *)
(* Records come from the P2P session, at any time and also between two     *)
(* sessions.  The gate holds them back until a key frame can be decoded;   *)
(* a short queue, which drops its oldest entry, feeds the worker, whose    *)
(* thread decodes one record at a time while the loop may reset            *)
(* everything.  A record is the sequence of its NAL units' types.          *)
(***************************************************************************)
EXTENDS Naturals, Sequences, SequencesExt

CONSTANTS
    Records,     \* the records the camera sends
    None,
    QueueSize,   \* 8 in the code
    MaxResets    \* bounds how often the decoder is reset

Units == {"sps", "pps", "idr", "other"}

\* What the decoder remembers: parameter sets it was fed, and a key frame.
Decoders == [sps : BOOLEAN, pps : BOOLEAN, key : BOOLEAN]

ASSUME GateAssumption ==
    /\ Records \subseteq Seq(Units)
    /\ QueueSize \in Nat \ {0}
    /\ MaxResets \in Nat
    /\ None \notin Decoders

VARIABLES
    epoch,       \* number of resets so far
    sps, pps,    \* _sps, _pps: the epoch they arrived in, or None
    gate,        \* _gate_open
    queue,       \* _record_queue: records, each with the epoch it arrived in
    worker,      \* _decode_worker: "off", "get", in its thread ("start",
                 \* "decode"), "publish" (a picture on its way to the loop)
    item,        \* the record the worker has in hand
    decoder,     \* _decoder: which parameter sets and key frame it was fed
    closed,      \* _closed
    lost         \* history: a parameter set got lost since the last reset

vars == <<epoch, sps, pps, gate, queue, worker, item, decoder, closed, lost>>

gateVars == <<epoch, sps, pps, gate, closed, lost>>

Epochs == 0 .. MaxResets
Frame(record, e) == [units |-> record, epoch |-> e]
Frames == [units : Records \cup {<<"sps">>, <<"pps">>}, epoch : Epochs]
NewDecoder == [sps |-> FALSE, pps |-> FALSE, key |-> FALSE]

Init ==
    /\ epoch = 0 /\ sps = None /\ pps = None /\ gate = FALSE
    /\ queue = <<>>
    /\ worker = "off" /\ item = None
    /\ decoder = None
    /\ closed = FALSE /\ lost = FALSE

Has(record, unit) == Contains(record, unit)

-----------------------------------------------------------------------------
(* _on_record.                                                             *)

\* A full queue drops its oldest entry for each that comes.
Push(frames) ==
    LET all == queue \o frames
        dropped == IF Len(all) > QueueSize THEN Len(all) - QueueSize ELSE 0
    IN  SubSeq(all, dropped + 1, Len(all))

\* A record that begins with a parameter set goes alone, as if it had both.
Opening(record) ==
    IF Head(record) \in {"sps", "pps"} THEN <<Frame(record, epoch)>>
    ELSE <<Frame(<<"sps">>, sps'), Frame(<<"pps">>, pps'), Frame(record, epoch)>>

Overflows(frames) == Len(queue) + Len(frames) > QueueSize

Opens(record) == Has(record, "idr") /\ sps' # None /\ pps' # None

RecordArrives(record) ==
    /\ ~closed
    /\ sps' = IF Has(record, "sps") THEN epoch ELSE sps
    /\ pps' = IF Has(record, "pps") THEN epoch ELSE pps
    /\ gate' = (gate \/ Opens(record))
    /\ LET frames == IF gate THEN <<Frame(record, epoch)>>
                     ELSE IF Opens(record) THEN Opening(record)
                     ELSE <<>>
       IN  /\ queue' = Push(frames)
           /\ lost' = (lost \/ Overflows(frames) \/
                         /\ ~gate /\ Len(frames) = 1
                         /\ ~(Has(record, "sps") /\ Has(record, "pps")))
    /\ UNCHANGED <<epoch, worker, item, decoder, closed>>

-----------------------------------------------------------------------------
(* _reset_decoder, and what leads to it.                                   *)

\* Mutant of ResetDecoder: records that are queued stay.
ResetKeepsQueue ==
    /\ epoch' = epoch + 1
    /\ decoder' = None /\ sps' = None /\ pps' = None /\ gate' = FALSE
    /\ lost' = FALSE
    /\ UNCHANGED queue

ResetDecoder ==
    /\ epoch' = epoch + 1
    /\ decoder' = None /\ sps' = None /\ pps' = None /\ gate' = FALSE
    /\ queue' = <<>>
    /\ lost' = FALSE

\* _ensure_open has a session: the worker is started unless it runs already.
SessionOpens ==
    /\ ~closed /\ epoch < MaxResets
    /\ ResetDecoder
    /\ worker' = IF worker = "off" THEN "get" ELSE worker
    /\ UNCHANGED <<item, closed>>

\* _close_media.
SessionReleased ==
    /\ epoch < MaxResets
    /\ ResetDecoder
    /\ UNCHANGED <<worker, item, closed>>

\* async_close: it releases the session, and cancels the worker later.
CloseManager ==
    /\ ~closed /\ epoch < MaxResets
    /\ closed' = TRUE
    /\ ResetDecoder
    /\ UNCHANGED <<worker, item>>

\* The thread cannot be cancelled, but nobody waits for its picture any more.
CancelWorker ==
    /\ closed /\ worker # "off"
    /\ worker' = "off" /\ item' = None
    /\ UNCHANGED <<gateVars, queue, decoder>>

-----------------------------------------------------------------------------
(* _decode_worker, and _decode_record in its thread.                       *)

WorkerGets ==
    /\ worker = "get" /\ queue # <<>>
    /\ item' = Head(queue) /\ queue' = Tail(queue)
    /\ worker' = "start"
    /\ UNCHANGED <<gateVars, decoder>>

\* The next round of the loop, if there is one.
NextRound ==
    /\ worker' = IF closed THEN "off" ELSE "get"
    /\ item' = None

\* Mutant of NextRoundFailed: an error ends the worker.
ErrorEndsWorker == worker' = "off" /\ item' = None

\* An exception of the thread is counted and passed over.
NextRoundFailed == NextRound

ThreadStarts ==
    /\ worker = "start"
    /\ worker' = "decode"
    /\ decoder' = IF decoder = None THEN NewDecoder ELSE decoder
    /\ UNCHANGED <<gateVars, queue, item>>

\* A reset took the decoder away between two uses of self._decoder.
DecoderGone ==
    /\ worker = "decode" /\ decoder = None
    /\ NextRoundFailed
    /\ UNCHANGED <<gateVars, queue, decoder>>

Fed(d, record) ==
    LET s == d.sps \/ Has(record, "sps")
        p == d.pps \/ Has(record, "pps")
    IN  [sps |-> s, pps |-> p, key |-> d.key \/ (s /\ p /\ Has(record, "idr"))]

\* The slices of the record have what they refer to.
Decodable(d, record) ==
    /\ Has(record, "idr") => Fed(d, record).key
    /\ Has(record, "other") => Fed(d, record).key

HasSlice(record) == Has(record, "idr") \/ Has(record, "other")

\* A picture, the latest of those the record completes.
DecodesPicture ==
    /\ worker = "decode" /\ decoder # None
    /\ HasSlice(item.units) /\ Decodable(decoder, item.units)
    /\ decoder' = Fed(decoder, item.units)
    /\ worker' = "publish"
    /\ UNCHANGED <<gateVars, queue, item>>

\* Nothing to show yet, or an error in the data.
DecodesNothing ==
    /\ worker = "decode" /\ decoder # None
    /\ decoder' = Fed(decoder, item.units)
    /\ IF Decodable(decoder, item.units) THEN NextRound ELSE NextRoundFailed
    /\ UNCHANGED <<gateVars, queue>>

\* _latest_jpeg, _latest_frame_at and _new_frame are set.
PublishPicture ==
    /\ worker = "publish"
    /\ NextRound
    /\ UNCHANGED <<gateVars, queue, decoder>>

WorkerStep ==
    \/ WorkerGets \/ ThreadStarts \/ DecoderGone
    \/ DecodesPicture \/ DecodesNothing \/ PublishPicture

Next ==
    \/ \E record \in Records : RecordArrives(record)
    \/ SessionOpens \/ SessionReleased \/ CloseManager \/ CancelWorker
    \/ WorkerStep

\* The thread pool runs the thread, and the decoder shows pictures now and then
\* when it is given all it needs.
Fairness == WF_vars(WorkerStep) /\ SF_vars(DecodesPicture)

Spec == Init /\ [][Next]_vars

FairSpec == Spec /\ Fairness
-----------------------------------------------------------------------------
TypeOK ==
    /\ epoch \in Epochs
    /\ sps \in Epochs \cup {None} /\ pps \in Epochs \cup {None}
    /\ gate \in BOOLEAN /\ closed \in BOOLEAN /\ lost \in BOOLEAN
    /\ queue \in Seq(Frames) /\ Len(queue) <= QueueSize
    /\ worker \in {"off", "get", "start", "decode", "publish"}
    /\ item \in Frames \cup {None}
    /\ decoder \in Decoders \cup {None}

\* After a reset nothing older waits for the decoder, neither in the queue nor
\* as a parameter set to be put in front of the next key frame.
QueueIsCurrent ==
    /\ \A i \in 1 .. Len(queue) : queue[i].epoch = epoch
    /\ {sps, pps} \subseteq {epoch, None}

\* The decoder is never given a slice before what it refers to, with three
\* exceptions: the queue overflowed since the last reset, and dropped it; a
\* record opened the gate with only one of the parameter sets in front; a reset
\* came while the worker had an older record in hand.
ParamsFirst ==
    worker = "decode" /\ decoder # None /\ item.epoch = epoch /\ ~lost
        => Decodable(decoder, item.units)

\* The types, and what the queue and the decoder hold.
Consistent == TypeOK /\ QueueIsCurrent /\ ParamsFirst

ArrivesWith(unit) == \E record \in Records : Has(record, unit) /\ RecordArrives(record)

Arrivals(unit) == []<><<ArrivesWith(unit)>>_vars

\* The worker is at work, but too slow.
OutrunsWorker ==
    /\ worker # "off" /\ Len(queue) = QueueSize
    /\ \E record \in Records : RecordArrives(record)

\* Once a session was opened, if the camera repeats its parameter sets and key
\* frames, in whatever records and order, and does not outrun the worker for ever, pictures keep coming:
\* neither an error, nor a reset under the thread, nor records lost earlier stop
\* them for good.
PicturesKeepComing ==
    /\ <>(worker # "off") /\ []~closed
    /\ Arrivals("sps") /\ Arrivals("pps") /\ Arrivals("idr")
    /\ <>[][~OutrunsWorker]_vars
    => []<>(worker = "publish")
=============================================================================
