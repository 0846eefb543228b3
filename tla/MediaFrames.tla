----------------------------- MODULE MediaFrames -----------------------------
(***************************************************************************)
(* From media datagrams to records: P2PVideoSession._handle_media,         *)
(* _flush_rtp and _process_payload (tend_p2p.py).                          *)
(*                                                                         *)
(* The camera cuts each frame into fragments.  A datagram names its frame  *)
(* but the code reads no position in it: fragments are joined as they      *)
(* arrive, until one of another frame arrives or the session is closed.    *)
(* The network loses, repeats and reorders them.                           *)
(*                                                                         *)
(* What a payload holds is a sequence of units, and may be anything; a     *)
(* record is a unit that says how many follow, and those.  Four bytes of   *)
(* the code are one unit here.                                             *)
(***************************************************************************)
EXTENDS Naturals, Sequences, FiniteSets

CONSTANTS
    Frames,       \* frame numbers
    Sizes,        \* of each frame: the sizes of its fragments, in order
    Encrypted,    \* the frames whose payload says that it is encrypted
    Contents,     \* what a payload may hold, as sequences of units
    NoFrame,
    MaxArrivals   \* bounds the datagrams that arrive

ASSUME FramesAssumption ==
    /\ Sizes \in [Frames -> Seq(Nat \ {0}) \ {<<>>}]
    /\ Encrypted \subseteq Frames
    /\ \A units \in Contents : units \in Seq(Nat)
    /\ NoFrame \notin Frames
    /\ MaxArrivals \in Nat

VARIABLES
    number,      \* _frame_number
    fragments,   \* _fragments
    payloads,    \* the payloads that passed the checks, in order
    combined,    \* what the last of them holds
    records,     \* the records of it that were handed to _on_record
    key,         \* the camera's listing has an AES key
    closed,      \* _closed
    arrived      \* history: every datagram that was taken, in order

vars == <<number, fragments, payloads, combined, records, key, closed, arrived>>

Fragments == UNION {[frame : {f}, index : DOMAIN Sizes[f]] : f \in Frames}

\* The fragments of a frame as the camera sent them.
Whole(f) == [i \in DOMAIN Sizes[f] |-> [frame |-> f, index |-> i]]

Init ==
    /\ number = NoFrame /\ fragments = <<>> /\ payloads = <<>>
    /\ combined = <<>> /\ records = <<>>
    /\ key \in BOOLEAN
    /\ closed = FALSE /\ arrived = <<>>

-----------------------------------------------------------------------------
\* The bytes of the fragments joined, each known by its fragment's place in them.
Bytes(joined) ==
    UNION {{i} \X (1 .. Sizes[joined[i].frame][joined[i].index]) : i \in DOMAIN joined}

SizeOf(joined) == Cardinality(Bytes(joined))

Announced(f) == SizeOf(Whole(f))

\* Mutant of WellFormed: a payload may be shorter than it announces.
WellFormedOrShort(joined) ==
    /\ joined # <<>>
    /\ joined[1].index = 1
    /\ SizeOf(joined) <= Announced(joined[1].frame)

\* The RTP version, the marker "w1" and the length are in the first fragment.
WellFormed(joined) ==
    /\ joined # <<>>
    /\ joined[1].index = 1
    /\ SizeOf(joined) = Announced(joined[1].frame)

\* Without a key nothing is decrypted; damage breaks the padding, or does not.
Decrypts(joined, padded) ==
    joined[1].frame \in Encrypted =>
        key /\ (padded \/ joined = Whole(joined[1].frame))

Passes(joined, padded) == WellFormed(joined) /\ Decrypts(joined, padded)

\* Mutant of Fits: a record may not be the last of its payload.
FitsShort(units, offset) ==
    /\ offset + 1 <= Len(units) /\ units[offset + 1] > 0
    /\ offset + 1 + units[offset + 1] < Len(units)

\* A length, not zero, and as many units after it.
Fits(units, offset) ==
    /\ offset + 1 <= Len(units) /\ units[offset + 1] > 0
    /\ offset + 1 + units[offset + 1] <= Len(units)

\* The loop of _process_payload.
Split(units) ==
    LET from[offset \in 0 .. Len(units)] ==
          IF Fits(units, offset)
          THEN LET end == offset + 1 + units[offset + 1]
               IN  <<SubSeq(units, offset + 2, end)>> \o from[end]
          ELSE <<>>
    IN from[0]

FlushRtp ==
    \E padded \in BOOLEAN :
        IF Passes(fragments, padded)
        THEN /\ payloads' = Append(payloads, fragments)
             /\ combined' \in Contents
             /\ records' = Split(combined')
        ELSE UNCHANGED <<payloads, combined, records>>

\* _handle_media: a fragment of the frame being joined, or the first of all.
Joins(d) ==
    /\ number \in {NoFrame, d.frame}
    /\ fragments' = Append(fragments, d)
    /\ UNCHANGED <<payloads, combined, records>>

\* Of another frame: what was joined goes first, complete or not.
Flushes(d) ==
    /\ number \notin {NoFrame, d.frame}
    /\ FlushRtp
    /\ fragments' = <<d>>

FragmentArrives ==
    /\ ~closed /\ Len(arrived) < MaxArrivals
    /\ \E d \in Fragments :
          /\ Joins(d) \/ Flushes(d)
          /\ number' = d.frame
          /\ arrived' = Append(arrived, d)
    /\ UNCHANGED <<key, closed>>

\* Mutant of Close: what was joined is dropped.
CloseDropping ==
    /\ ~closed /\ closed' = TRUE
    /\ fragments' = <<>>
    /\ UNCHANGED <<payloads, combined, records, number, key, arrived>>

\* The last frame has no successor: closing flushes it, into a manager that has
\* let go of the session.
Close ==
    /\ ~closed /\ closed' = TRUE
    /\ FlushRtp
    /\ fragments' = <<>>
    /\ UNCHANGED <<number, key, arrived>>

Next == FragmentArrives \/ Close

Spec == Init /\ [][Next]_vars

-----------------------------------------------------------------------------
(* Properties.                                                             *)

\* Types; what is being joined is of one frame, and so is every payload: no
\* datagram ends up in another frame.
OneFrame(joined) == \A i \in DOMAIN joined : joined[i].frame = joined[1].frame

TypeOK ==
    /\ number \in Frames \cup {NoFrame}
    /\ fragments \in Seq(Fragments) /\ arrived \in Seq(Fragments)
    /\ payloads \in Seq(Seq(Fragments) \ {<<>>})
    /\ combined \in Seq(Nat) /\ records \in Seq(Seq(Nat) \ {<<>>})
    /\ key \in BOOLEAN /\ closed \in BOOLEAN
    /\ \A i \in DOMAIN fragments : fragments[i].frame = number
    /\ \A i \in DOMAIN payloads : OneFrame(payloads[i])

\* The runs of a frame: the fragments of it that arrived with none of another
\* frame among them, up to one of another frame or to the closing.
Runs(f) ==
    {r \in (DOMAIN arrived) \X (DOMAIN arrived) :
        /\ r[1] <= r[2]
        /\ \A i \in r[1] .. r[2] : arrived[i].frame = f
        /\ r[1] > 1 => arrived[r[1] - 1].frame # f
        /\ IF r[2] < Len(arrived) THEN arrived[r[2] + 1].frame # f ELSE closed}

\* A frame whose fragments arrived once each, in order and together, reaches
\* the record splitter once for each time it did, unless it is encrypted and
\* there is no key; also the last frame before the session is closed.
WholeFramesDelivered ==
    \A f \in Frames : (f \in Encrypted => key) =>
        Cardinality({r \in Runs(f) : SubSeq(arrived, r[1], r[2]) = Whole(f)})
        = Cardinality({i \in DOMAIN payloads : payloads[i] = Whole(f)})

\* Loss alone never damages a payload: one whose fragments are in the order
\* they were sent is complete.  Only a repeated or reordered datagram can take
\* the place of another, if the sizes add up to the announced length.
DamageNeedsDisorder ==
    \A i \in DOMAIN payloads :
        LET joined == payloads[i] IN
        (\A j \in 1 .. Len(joined) - 1 : joined[j].index < joined[j + 1].index)
        => joined = Whole(joined[1].frame)

\* The records of a payload are its longest sequence of whole records: nothing
\* is skipped, taken twice or read beyond the end, and no record is left behind.
Exact(units, list) ==
    \E ends \in [0 .. Len(list) -> 0 .. Len(units)] :
        /\ ends[0] = 0
        /\ \A k \in 1 .. Len(list) :
              /\ ends[k - 1] < ends[k] /\ units[ends[k - 1] + 1] = Len(list[k])
              /\ list[k] = SubSeq(units, ends[k - 1] + 2, ends[k])
        /\ LET rest == SubSeq(units, ends[Len(list)] + 1, Len(units))
           IN  rest # <<>> => rest[1] = 0 \/ rest[1] > Len(rest) - 1

RecordsExact == Exact(combined, records)

\* The types, frames that are not mixed, and the records in them.
Consistent == TypeOK /\ RecordsExact
=============================================================================
