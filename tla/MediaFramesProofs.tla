-------------------------- MODULE MediaFramesProofs --------------------------
(***************************************************************************)
(* Theorems about MediaFrames, for any frames, sizes and payloads.         *)
(***************************************************************************)
EXTENDS MediaFrames, FiniteSetTheorems, SequenceTheorems, WellFoundedInduction, TLAPS

\* What is joined is what arrived last, back to a datagram of another frame.
JoinedAreLast ==
    ~closed =>
        /\ arrived = <<>> => number = NoFrame
        /\ arrived # <<>> => fragments # <<>>
        /\ Len(fragments) <= Len(arrived)
        /\ \A i \in DOMAIN fragments :
              fragments[i] = arrived[Len(arrived) - Len(fragments) + i]
        /\ Len(fragments) < Len(arrived)
              => arrived[Len(arrived) - Len(fragments)].frame # number

\* Every payload starts with its frame's first fragment and has its size.
PayloadsWellFormed == \A i \in DOMAIN payloads : WellFormed(payloads[i])

-----------------------------------------------------------------------------
(* Numbers.                                                                *)

\* A set of naturals that is not empty has a smallest one.
LEMMA LeastExists ==
    ASSUME NEW S \in SUBSET Nat, S # {}
    PROVE  \E k \in S : \A y \in S : k <= y
<1> DEFINE less == OpToRel(<, Nat)
<1>1. PICK k \in S : \A y \in S : ~(<<y, k>> \in less)
  <2> HIDE DEF less
  <2> QED
    BY WFMin, NatLessThanWellFounded, Zenon DEF less
<1>2. \A a, b \in Nat : a < b => <<a, b>> \in less
  BY DEF OpToRel
<1>3. k \in Nat /\ \A y \in S : y \in Nat /\ ~(y < k)
  <2> HIDE DEF less
  <2> QED
    BY <1>1, <1>2
<1> QED
  BY <1>3

LEMMA UpToIsFinite == \A n \in Nat : IsFiniteSet(1 .. n)
<1> TAKE n \in Nat
<1>1. 1 \in Int /\ n \in Int
  OBVIOUS
<1> QED
  BY <1>1, FS_Interval, Zenon

Rising(f, n) == \A j \in 1 .. n - 1 : f[j] < f[j + 1]
Covers(f, n, m) == \A x \in 1 .. m : \E i \in 1 .. n : f[i] = x

\* An increasing sequence is increasing in all steps.
LEMMA Increasing ==
    ASSUME NEW n \in Nat, NEW m \in Nat, NEW f \in [1 .. n -> 1 .. m],
           \A j \in 1 .. n - 1 : f[j] < f[j + 1]
    PROVE  \A i, j \in 1 .. n : i < j => f[i] < f[j]
<1>0. \A x \in 1 .. n : f[x] \in 1 .. m /\ f[x] \in Nat
  OBVIOUS
<1> SUFFICES ASSUME NEW i \in 1 .. n, NEW j \in 1 .. n, i < j, ~(f[i] < f[j])
             PROVE  FALSE
  OBVIOUS
<1> DEFINE S == {k \in 1 .. n : i < k /\ ~(f[i] < f[k])}
<1>1. PICK k \in S : \A y \in S : k <= y
  <2>1. j \in S /\ \A x \in S : x \in Nat
    OBVIOUS
  <2> HIDE DEF S
  <2>2. S \in SUBSET Nat /\ S # {}
    BY <2>1
  <2> QED
    BY <2>2, LeastExists
<1>2. k - 1 \notin S
  <2> HIDE DEF S
  <2>1. \A x \in S : x \in Nat
    BY DEF S
  <2> QED
    BY <1>1, <2>1
<1>3. i <= k - 1 /\ k - 1 \in 1 .. n - 1 /\ k \in 1 .. n
  BY <1>1
<1>4. f[k - 1] < f[k - 1 + 1] /\ k - 1 + 1 = k
  BY <1>3
<1>5. f[i] \in Nat /\ f[k - 1] \in Nat /\ f[k] \in Nat
  <2>1. i \in 1 .. n /\ k - 1 \in 1 .. n /\ k \in 1 .. n
    BY <1>3
  <2> HIDE DEF S
  <2> QED
    BY <1>0, <2>1
<1>6. i < k - 1 => f[i] < f[k - 1]
  BY <1>2, <1>3
<1>7. f[i] <= f[k - 1]
  <2>1. CASE i = k - 1
    BY <1>5, <2>1
  <2>2. CASE i < k - 1
    BY <1>5, <1>6, <2>2
  <2> QED
    BY <1>3, <2>1, <2>2
<1> QED
  BY <1>1, <1>4, <1>5, <1>7

\* An increasing sequence from 1 on that takes every value up to some number is
\* the identity.
LEMMA IncreasingOnto ==
    ASSUME NEW n \in Nat, NEW m \in Nat, NEW f \in [1 .. n -> 1 .. m],
           Rising(f, n), Covers(f, n, m)
    PROVE  n = m /\ \A i \in 1 .. n : f[i] = i
<1> USE DEF Rising, Covers
<1>1. \A i, j \in 1 .. n : i < j => f[i] < f[j]
  BY Increasing
<1>2. \A i \in 1 .. n : f[i] = i
  <2> SUFFICES ASSUME NEW i \in 1 .. n, f[i] # i
               PROVE  FALSE
    OBVIOUS
  <2> DEFINE S == {k \in 1 .. n : f[k] # k}
  <2>1. PICK k \in S : \A y \in S : k <= y
    <3>1. i \in S /\ \A x \in S : x \in Nat
      OBVIOUS
    <3> HIDE DEF S
    <3>2. S \in SUBSET Nat /\ S # {}
      BY <3>1
    <3> QED
      BY <3>2, LeastExists
  <2>2. \A j \in 1 .. n : j < k => f[j] = j
    BY <2>1
  <2>3. k \in 1 .. n /\ f[k] # k /\ f[k] \in 1 .. m
    BY <2>1
  <2>4. f[k] > k
    <3>1. CASE f[k] < k
      <4>1. f[k] \in 1 .. n /\ f[f[k]] = f[k]
        BY <2>2, <2>3, <3>1
      <4>2. f[f[k]] < f[k]
        BY <1>1, <2>3, <3>1, <4>1
      <4> QED
        BY <2>3, <4>1, <4>2
    <3> QED
      BY <2>3, <3>1
  <2>5. PICK j \in 1 .. n : f[j] = k
    BY <2>3, <2>4
  <2>6. k < j
    <3>1. CASE j < k
      BY <2>2, <2>5, <3>1
    <3>2. CASE j = k
      BY <2>3, <2>5, <3>2
    <3> QED
      BY <2>3, <3>1, <3>2
  <2>7. f[k] < f[j]
    BY <1>1, <2>3, <2>6
  <2> QED
    BY <2>3, <2>4, <2>5, <2>7
<1>3. m <= n
  <2>1. CASE m > 0
    <3>1. PICK i \in 1 .. n : f[i] = m
      BY <2>1
    <3> QED
      BY <1>2, <3>1
  <2> QED
    BY <2>1
<1>4. n <= m
  <2>1. CASE n > 0
    <3>1. f[n] = n /\ f[n] \in 1 .. m
      BY <1>2, <2>1
    <3> QED
      BY <3>1
  <2> QED
    BY <2>1
<1> QED
  BY <1>2, <1>3, <1>4

-----------------------------------------------------------------------------
(* Fragments and their bytes.                                              *)

LEMMA SizesFacts ==
    ASSUME NEW f \in Frames
    PROVE  /\ Len(Sizes[f]) \in Nat \ {0} /\ DOMAIN Sizes[f] = 1 .. Len(Sizes[f])
           /\ \A k \in 1 .. Len(Sizes[f]) : Sizes[f][k] \in Nat \ {0}
<1>1. Sizes[f] \in Seq(Nat \ {0}) /\ Sizes[f] # <<>>
  BY FramesAssumption
<1> QED
  BY <1>1, LenProperties, EmptySeq

LEMMA FragmentFacts ==
    ASSUME NEW d \in Fragments
    PROVE  /\ d.frame \in Frames /\ d.index \in 1 .. Len(Sizes[d.frame])
           /\ d = [frame |-> d.frame, index |-> d.index]
<1>1. PICK f \in Frames : d \in [frame : {f}, index : DOMAIN Sizes[f]]
  BY DEF Fragments
<1> QED
  BY <1>1, SizesFacts

LEMMA WholeFacts ==
    ASSUME NEW f \in Frames
    PROVE  /\ Whole(f) \in Seq(Fragments) /\ Len(Whole(f)) = Len(Sizes[f])
           /\ DOMAIN Whole(f) = 1 .. Len(Sizes[f])
           /\ \A k \in 1 .. Len(Sizes[f]) : Whole(f)[k] = [frame |-> f, index |-> k]
<1>1. DOMAIN Sizes[f] = 1 .. Len(Sizes[f]) /\ Len(Sizes[f]) \in Nat
  BY SizesFacts
<1>2. \A k \in 1 .. Len(Sizes[f]) : [frame |-> f, index |-> k] \in Fragments
  BY <1>1 DEF Fragments
<1>3. Whole(f) \in [1 .. Len(Sizes[f]) -> Fragments]
  BY <1>1, <1>2 DEF Whole
<1>4. Whole(f) \in Seq(Fragments) /\ Len(Whole(f)) = Len(Sizes[f])
  BY <1>1, <1>3
<1> QED
  BY <1>1, <1>4 DEF Whole

\* The bytes of a whole frame, one fragment after the other.
LEMMA WholeBytes ==
    ASSUME NEW f \in Frames
    PROVE  /\ IsFiniteSet(Bytes(Whole(f)))
           /\ \A p : p \in Bytes(Whole(f)) <=>
                 \E k \in 1 .. Len(Sizes[f]), b \in Nat :
                     b \in 1 .. Sizes[f][k] /\ p = <<k, b>>
<1> DEFINE m == Len(Sizes[f])
           Part(k) == {k} \X (1 .. Sizes[f][k])
           parts == {Part(k) : k \in 1 .. m}
           part == [k \in 1 .. m |-> Part(k)]
<1>1. m \in Nat /\ \A k \in 1 .. m : Sizes[f][k] \in Nat
  BY SizesFacts
<1>2. Bytes(Whole(f)) = UNION parts
  <2>1. /\ DOMAIN Whole(f) = 1 .. m
        /\ \A k \in 1 .. m : Whole(f)[k] = [frame |-> f, index |-> k]
    BY WholeFacts, Zenon
  <2> DEFINE Of(i) == {i} \X (1 .. Sizes[Whole(f)[i].frame][Whole(f)[i].index])
  <2>2. \A k \in 1 .. m : Of(k) = Part(k)
    <3> TAKE k \in 1 .. m
    <3>1. Whole(f)[k] = [frame |-> f, index |-> k]
      BY <2>1
    <3>2. Whole(f)[k].frame = f /\ Whole(f)[k].index = k
      BY <3>1
    <3> QED
      BY <3>2
  <2>3. Bytes(Whole(f)) = UNION {Of(i) : i \in 1 .. m}
    BY <2>1 DEF Bytes
  <2> HIDE DEF Of, Part
  <2>4. {Of(i) : i \in 1 .. m} = parts
    BY <2>2
  <2> QED
    BY <2>3, <2>4
<1>3. IsFiniteSet(parts)
  <2>1. part \in Surjection(1 .. m, parts)
    BY DEF Surjection
  <2>2. IsFiniteSet(1 .. m)
    BY <1>1, UpToIsFinite
  <2> HIDE DEF part, parts, m
  <2> QED
    BY <2>1, <2>2, FS_Surjection
<1>4. \A T \in parts : IsFiniteSet(T)
  <2> SUFFICES ASSUME NEW k \in 1 .. m PROVE IsFiniteSet(Part(k))
    OBVIOUS
  <2>1. IsFiniteSet({k})
    BY FS_Singleton
  <2>2. IsFiniteSet(1 .. Sizes[f][k])
    BY <1>1, UpToIsFinite
  <2> QED
    BY <2>1, <2>2, FS_Product
<1>5. \A p : p \in UNION parts <=>
          \E k \in 1 .. m, b \in Nat : b \in 1 .. Sizes[f][k] /\ p = <<k, b>>
  BY <1>1
<1> HIDE DEF parts
<1>6. IsFiniteSet(UNION parts)
  BY <1>3, <1>4, FS_UNION
<1> QED
  BY <1>2, <1>5, <1>6

\* Fragments of one frame, in the order they were sent, with as many bytes as the
\* frame: those bytes are among the frame's, so they are all of them.
LEMMA SortedIsWhole ==
    ASSUME NEW joined \in Seq(Fragments), joined # <<>>, OneFrame(joined),
           SizeOf(joined) = Announced(joined[1].frame),
           \A j \in 1 .. Len(joined) - 1 : joined[j].index < joined[j + 1].index
    PROVE  joined = Whole(joined[1].frame)
<1> DEFINE f == joined[1].frame
           n == Len(joined)
           m == Len(Sizes[f])
           at == [i \in 1 .. n |-> joined[i].index]
           place == [p \in Bytes(joined) |-> <<at[p[1]], p[2]>>]
<1>1. /\ n \in Nat \ {0} /\ DOMAIN joined = 1 .. n /\ \A i \in 1 .. n : joined[i] \in Fragments
  BY LenProperties, EmptySeq
<1>2. f \in Frames /\ m \in Nat /\ \A k \in 1 .. m : Sizes[f][k] \in Nat \ {0}
  BY <1>1, FragmentFacts, SizesFacts
<1>3. \A i \in 1 .. n : joined[i] = [frame |-> f, index |-> at[i]] /\ at[i] \in 1 .. m
  BY <1>1, FragmentFacts DEF OneFrame
<1>4. \A j \in 1 .. n - 1 : at[j] < at[j + 1]
  BY <1>1
<1>5. \A p : p \in Bytes(joined) <=>
          \E i \in 1 .. n, b \in Nat : b \in 1 .. Sizes[f][at[i]] /\ p = <<i, b>>
  BY <1>1, <1>2, <1>3 DEF Bytes
<1>6. \A p \in Bytes(joined) : p = <<p[1], p[2]>> /\ p[1] \in 1 .. n
  BY <1>5
<1>7. place \in [Bytes(joined) -> Bytes(Whole(f))]
  <2> SUFFICES ASSUME NEW p \in Bytes(joined)
               PROVE  <<at[p[1]], p[2]>> \in Bytes(Whole(f))
    OBVIOUS
  <2>1. PICK i \in 1 .. n, b \in Nat : b \in 1 .. Sizes[f][at[i]] /\ p = <<i, b>>
    BY <1>5
  <2>2. at[i] \in 1 .. m
    BY <1>3
  <2> HIDE DEF at, f, m
  <2> QED
    BY <1>2, <2>1, <2>2, WholeBytes DEF m
<1>8. \A i, j \in 1 .. n : at[i] = at[j] => i = j
  <2>1. at \in [1 .. n -> 1 .. m]
    BY <1>3
  <2> HIDE DEF at, n, m
  <2>2. \A i, j \in 1 .. n : i < j => at[i] < at[j]
    BY <1>1, <1>2, <1>4, <2>1, Increasing
  <2>3. \A i \in 1 .. n : at[i] \in Nat /\ i \in Nat
    BY <1>1, <1>2, <2>1
  <2> QED
    BY <2>2, <2>3
<1>9. place \in Injection(Bytes(joined), Bytes(Whole(f)))
  <2> SUFFICES ASSUME NEW p \in Bytes(joined), NEW q \in Bytes(joined),
                      place[p] = place[q]
               PROVE  p = q
    <3> HIDE DEF place
    <3> QED
      BY <1>7 DEF Injection, IsInjective
  <2>1. <<at[p[1]], p[2]>> = <<at[q[1]], q[2]>>
    OBVIOUS
  <2> HIDE DEF at
  <2> QED
    BY <1>6, <1>8, <2>1
<1>10. place \in Surjection(Bytes(joined), Bytes(Whole(f)))
  <2>1. Cardinality(Bytes(joined)) = Cardinality(Bytes(Whole(f)))
    BY DEF SizeOf, Announced
  <2>2. IsFiniteSet(Bytes(Whole(f)))
    BY <1>2, WholeBytes
  <2> HIDE DEF place, f
  <2> QED
    BY <1>9, <2>1, <2>2, FS_Injection
<1>11. \A k \in 1 .. m : \E i \in 1 .. n : at[i] = k
  <2> TAKE k \in 1 .. m
  <2>1. <<k, 1>> \in Bytes(Whole(f))
    <3> HIDE DEF f, m
    <3>1. 1 \in 1 .. Sizes[f][k]
      BY <1>2
    <3> QED
      BY <1>2, <3>1, WholeBytes DEF m
  <2>2. PICK p \in Bytes(joined) : place[p] = <<k, 1>>
    <3> HIDE DEF place, f
    <3> QED
      BY <1>10, <2>1 DEF Surjection
  <2>3. at[p[1]] = k
    BY <2>2
  <2> QED
    BY <1>6, <2>3
<1>12. n = m /\ \A i \in 1 .. n : at[i] = i
  <2>1. at \in [1 .. n -> 1 .. m] /\ n \in Nat /\ m \in Nat
    BY <1>1, <1>2, <1>3
  <2> HIDE DEF at, n, m, f
  <2> QED
    <3>1. Rising(at, n) /\ Covers(at, n, m)
      BY <1>4, <1>11 DEF Rising, Covers
    <3> QED
      BY <2>1, <3>1, IncreasingOnto
<1>13. \A i \in 1 .. n : joined[i] = [frame |-> f, index |-> i]
  BY <1>3, <1>12
<1>14. /\ DOMAIN Whole(f) = 1 .. m /\ Whole(f) \in Seq(Fragments)
       /\ \A k \in 1 .. m : Whole(f)[k] = [frame |-> f, index |-> k]
  BY <1>2, WholeFacts, Zenon
<1>15. Len(Whole(f)) = m
  BY <1>2, WholeFacts, Zenon
<1> HIDE DEF f, n, m, at, place
<1> QED
  BY <1>12, <1>13, <1>14, <1>15, SeqEqual DEF n, f

-----------------------------------------------------------------------------
(* The loop of _process_payload.                                           *)

Recs == Seq(Seq(Nat) \ {<<>>})

\* Exact, from an offset on, with the ends of its records.
Cuts(units, offset, list, ends) ==
    /\ ends[0] = offset
    /\ \A k \in 1 .. Len(list) :
          /\ ends[k - 1] < ends[k] /\ units[ends[k - 1] + 1] = Len(list[k])
          /\ list[k] = SubSeq(units, ends[k - 1] + 2, ends[k])
    /\ LET rest == SubSeq(units, ends[Len(list)] + 1, Len(units))
       IN  rest # <<>> => rest[1] = 0 \/ rest[1] > Len(rest) - 1

ExactFrom(units, offset, list) ==
    \E ends \in [0 .. Len(list) -> 0 .. Len(units)] : Cuts(units, offset, list, ends)

\* One pass of the loop, if F says what the rest of it makes.
Turn(units, F, offset) ==
    IF Fits(units, offset)
    THEN LET end == offset + 1 + units[offset + 1]
         IN  <<SubSeq(units, offset + 2, end)>> \o F[end]
    ELSE <<>>

LEMMA FitsFacts ==
    ASSUME NEW units \in Seq(Nat), NEW o \in 0 .. Len(units), Fits(units, o)
    PROVE  LET end == o + 1 + units[o + 1]
               r == SubSeq(units, o + 2, end)
           IN  /\ end \in 0 .. Len(units) /\ o + 1 < end
               /\ r \in Seq(Nat) \ {<<>>} /\ Len(r) = units[o + 1]
<1> DEFINE end == o + 1 + units[o + 1]
           r == SubSeq(units, o + 2, end)
<1>1. Len(units) \in Nat /\ o \in Nat /\ \A i \in 1 .. Len(units) : units[i] \in Nat
  BY LenProperties, ElementOfSeq
<1>2. o + 1 \in 1 .. Len(units) /\ units[o + 1] > 0 /\ end <= Len(units)
  BY <1>1 DEF Fits
<1>3. end \in 1 .. Len(units) /\ o + 1 < end /\ o + 2 \in 1 .. Len(units) + 1
  BY <1>1, <1>2
<1>4. end = o + 1 + units[o + 1] /\ units[o + 1] \in Nat
  BY <1>1, <1>2
<1> HIDE DEF end
<1>5. r \in Seq(Nat) /\ Len(r) = end - (o + 2) + 1
  BY <1>1, <1>3, SubSeqProperties, SMTT(30)
<1> HIDE DEF r
<1>6. Len(r) = units[o + 1]
  BY <1>1, <1>4, <1>5, SMTT(30)
<1>7. r # <<>>
  BY <1>2, <1>4, <1>6, EmptySeq
<1>8. end \in 0 .. Len(units)
  BY <1>1, <1>3
<1>9. r \in Seq(Nat) \ {<<>>}
  BY <1>5, <1>7, Zenon
<1> QED
  BY <1>3, <1>6, <1>8, <1>9, Zenon DEF end, r

LEMMA ExactStops ==
    ASSUME NEW units \in Seq(Nat), NEW o \in 0 .. Len(units), ~Fits(units, o)
    PROVE  ExactFrom(units, o, <<>>)
<1> DEFINE ends == [k \in 0 .. 0 |-> o]
           rest == SubSeq(units, o + 1, Len(units))
<1>1. Len(units) \in Nat /\ o \in Nat /\ \A i \in 1 .. Len(units) : units[i] \in Nat
  BY LenProperties, ElementOfSeq
<1>2. rest # <<>> => rest[1] = 0 \/ rest[1] > Len(rest) - 1
  <2>1. CASE o = Len(units)
    <3>1. rest = <<>>
      BY <1>1, <2>1, SubSeqEmpty
    <3> QED
      BY <3>1
  <2>2. CASE o < Len(units)
    <3>1. Len(rest) = Len(units) - o /\ rest[1] = units[o + 1]
      BY <1>1, <2>2, SubSeqProperties
    <3>2. units[o + 1] = 0 \/ o + 1 + units[o + 1] > Len(units)
      BY <1>1, <2>2 DEF Fits
    <3> QED
      BY <1>1, <2>2, <3>1, <3>2
  <2> QED
    BY <1>1, <2>1, <2>2
<1>3. Len(<<>>) = 0 /\ ends \in [0 .. 0 -> 0 .. Len(units)] /\ ends[0] = o
  BY EmptySeq
<1> HIDE DEF ends
<1>4. Cuts(units, o, <<>>, ends)
  <2>1. ends[Len(<<>>)] = o /\ 1 .. Len(<<>>) = {}
    BY <1>3
  <2> QED
    BY <1>2, <1>3, <2>1, Zenon DEF Cuts
<1> QED
  BY <1>3, <1>4 DEF ExactFrom

LEMMA ExactGoesOn ==
    ASSUME NEW units \in Seq(Nat), NEW o \in 0 .. Len(units), Fits(units, o),
           NEW list \in Recs, ExactFrom(units, o + 1 + units[o + 1], list)
    PROVE  LET end == o + 1 + units[o + 1]
               all == <<SubSeq(units, o + 2, end)>> \o list
           IN  all \in Recs /\ ExactFrom(units, o, all)
<1> DEFINE end == o + 1 + units[o + 1]
           r == SubSeq(units, o + 2, end)
           all == <<r>> \o list
           n == Len(units)
<1>1. /\ end \in 0 .. n /\ o + 1 < end /\ r \in Seq(Nat) \ {<<>>} /\ Len(r) = units[o + 1]
  BY FitsFacts
<1> HIDE DEF end, r
<1>2. /\ n \in Nat /\ o \in Nat /\ Len(list) \in Nat
      /\ all \in Recs /\ Len(all) = Len(list) + 1
      /\ all[1] = r /\ \A k \in 1 .. Len(list) : all[k + 1] = list[k]
  <2>1. <<r>> \in Recs /\ Len(<<r>>) = 1 /\ <<r>>[1] = r
    BY <1>1 DEF Recs
  <2>2. all \in Recs /\ Len(all) = Len(list) + 1
    BY <2>1, ConcatProperties DEF Recs
  <2>3. all[1] = r /\ \A k \in 1 .. Len(list) : all[k + 1] = list[k]
    BY <2>1, ConcatProperties DEF Recs
  <2> QED
    BY <2>2, <2>3, LenProperties DEF Recs
<1>3. PICK ends \in [0 .. Len(list) -> 0 .. n] : Cuts(units, end, list, ends)
  BY DEF ExactFrom, end
<1> DEFINE more == [k \in 0 .. Len(list) + 1 |-> IF k = 0 THEN o ELSE ends[k - 1]]
<1> HIDE DEF all
<1>4. more \in [0 .. Len(all) -> 0 .. n] /\ more[0] = o
  BY <1>2
<1>5. \A k \in 1 .. Len(all) : more[k] = ends[k - 1]
  BY <1>2
<1>6. \A k \in 2 .. Len(all) : more[k - 1] = ends[k - 2] /\ all[k] = list[k - 1]
  <2> TAKE k \in 2 .. Len(all)
  <2>1. k - 1 \in 1 .. Len(list) /\ k - 1 \in 1 .. Len(all) /\ (k - 1) + 1 = k /\ (k - 1) - 1 = k - 2
    BY <1>2
  <2> HIDE DEF more
  <2> QED
    BY <1>2, <1>5, <2>1
<1> HIDE DEF more
<1>7. ASSUME NEW k \in 1 .. Len(all)
      PROVE  /\ more[k - 1] < more[k] /\ units[more[k - 1] + 1] = Len(all[k])
             /\ all[k] = SubSeq(units, more[k - 1] + 2, more[k])
  <2>1. CASE k = 1
    <3>1. more[k - 1] = o /\ more[k] = end /\ all[k] = r
      BY <1>2, <1>3, <1>4, <1>5, <2>1 DEF Cuts
    <3> QED
      BY <1>1, <1>2, <3>1 DEF r
  <2>2. CASE k # 1
    <3>1. k \in 2 .. Len(all) /\ k - 1 \in 1 .. Len(list) /\ (k - 1) - 1 = k - 2
      BY <1>2, <2>2
    <3>2. more[k - 1] = ends[k - 2] /\ all[k] = list[k - 1] /\ more[k] = ends[k - 1]
      BY <1>5, <1>6, <3>1
    <3> QED
      BY <1>3, <3>1, <3>2 DEF Cuts
  <2> QED
    BY <2>1, <2>2
<1>8. more[Len(all)] = ends[Len(list)]
  BY <1>2, <1>5, SMTT(30)
<1>9. Cuts(units, o, all, more)
  BY <1>3, <1>4, <1>7, <1>8 DEF Cuts
<1> QED
  BY <1>2, <1>4, <1>9 DEF ExactFrom, all, r, end

\* The loop ends: going back from the end, each offset adds its turn.
LEMMA LoopEnds ==
    ASSUME NEW units \in Seq(Nat)
    PROVE  \E F : F = [o \in 0 .. Len(units) |-> Turn(units, F, o)]
<1> DEFINE n == Len(units)
           Good(j, F) == F = [o \in (n - j) .. n |-> Turn(units, F, o)]
           bad == {j \in 0 .. n : ~\E F : Good(j, F)}
<1>1. n \in Nat
  BY LenProperties
<1>2. bad = {}
  <2> SUFFICES ASSUME bad # {} PROVE FALSE
    OBVIOUS
  <2>1. PICK j \in bad : \A y \in bad : j <= y
    <3>1. bad \in SUBSET Nat
      BY <1>1
    <3> HIDE DEF bad
    <3> QED
      BY <3>1, LeastExists
  <2>2. j \in 0 .. n /\ ~\E F : Good(j, F)
    BY <2>1
  <2> DEFINE before == IF j = 0 THEN <<>> ELSE CHOOSE F : Good(j - 1, F)
             G == [o \in (n - j) .. n |-> Turn(units, before, o)]
  <2>3. j # 0 => Good(j - 1, before)
    <3> SUFFICES ASSUME j # 0 PROVE Good(j - 1, before)
      OBVIOUS
    <3>1. j - 1 \in 0 .. n /\ ~(j <= j - 1)
      BY <1>1, <2>2
    <3>2. \E F : Good(j - 1, F)
      BY <2>1, <3>1
    <3> HIDE DEF Good
    <3> QED
      BY <3>2
  <2>4. ASSUME NEW o \in (n - j) .. n PROVE Turn(units, before, o) = Turn(units, G, o)
    <3>1. o \in 0 .. n
      BY <1>1, <2>2
    <3>2. CASE ~Fits(units, o)
      BY <3>2 DEF Turn
    <3>3. CASE Fits(units, o)
      <4> DEFINE end == o + 1 + units[o + 1]
      <4>1. end \in 0 .. n /\ o + 1 < end
        BY <3>1, <3>3, FitsFacts
      <4> HIDE DEF end
      <4>2. end \in (n - (j - 1)) .. n /\ end \in (n - j) .. n /\ j # 0
        BY <1>1, <2>2, <3>1, <4>1
      <4>3. before[end] = Turn(units, before, end)
        <5> HIDE DEF before
        <5>1. before = [x \in (n - (j - 1)) .. n |-> Turn(units, before, x)]
          BY <2>3, <4>2
        <5> HIDE DEF n
        <5> QED
          BY <4>2, <5>1
      <4>4. G[end] = Turn(units, before, end)
        <5> HIDE DEF before, n
        <5> QED
          BY <4>2
      <4> HIDE DEF before, G
      <4> QED
        BY <4>3, <4>4 DEF Turn, end
    <3> QED
      BY <3>2, <3>3
  <2>5. Good(j, G)
    <3> HIDE DEF before
    <3>1. \A o \in (n - j) .. n : Turn(units, before, o) = Turn(units, G, o)
      BY <2>4
    <3>2. G = [o \in (n - j) .. n |-> Turn(units, before, o)]
      OBVIOUS
    <3> HIDE DEF G, n
    <3> QED
      BY <3>1, <3>2
  <2> QED
    BY <2>2, <2>5
<1>3. \E F : Good(n, F)
  BY <1>1, <1>2
<1>4. (n - n) .. n = 0 .. n
  BY <1>1
<1> QED
  BY <1>3, <1>4

\* The records that Split returns are the longest sequence of whole records.
LEMMA SplitIsExact ==
    ASSUME NEW units \in Seq(Nat)
    PROVE  Split(units) \in Recs /\ Exact(units, Split(units))
<1> DEFINE n == Len(units)
           From == CHOOSE F : F = [o \in 0 .. n |-> Turn(units, F, o)]
           Fine(o) == From[o] \in Recs /\ ExactFrom(units, o, From[o])
           bad == {j \in 0 .. n : ~Fine(n - j)}
<1>1. n \in Nat
  BY LenProperties
<1>2. Split(units) = From[0]
  BY DEF Split, Turn
<1>3. From = [o \in 0 .. n |-> Turn(units, From, o)]
  <2>1. \E F : F = [o \in 0 .. n |-> Turn(units, F, o)]
    BY LoopEnds
  <2> QED
    BY <2>1, Zenon
<1> HIDE DEF From
<1>4. ASSUME NEW o \in 0 .. n, \A x \in 0 .. n : x > o => Fine(x)
      PROVE  Fine(o)
  <2>1. From[o] = Turn(units, From, o)
    BY <1>3
  <2>2. CASE ~Fits(units, o)
    <3>1. From[o] = <<>>
      BY <2>1, <2>2 DEF Turn
    <3>2. <<>> \in Recs
      BY DEF Recs
    <3> QED
      BY <2>2, <3>1, <3>2, ExactStops
  <2>3. CASE Fits(units, o)
    <3> DEFINE end == o + 1 + units[o + 1]
    <3>1. end \in 0 .. n /\ end > o
      <4>1. end \in 0 .. n /\ o + 1 < end
        BY <2>3, FitsFacts
      <4> HIDE DEF end
      <4> QED
        BY <1>1, <4>1
    <3>2. From[end] \in Recs /\ ExactFrom(units, end, From[end])
      <4> HIDE DEF end
      <4> QED
        BY <1>4, <3>1
    <3>3. From[o] = <<SubSeq(units, o + 2, end)>> \o From[end]
      BY <2>1, <2>3 DEF Turn
    <3> QED
      BY <2>3, <3>2, <3>3, ExactGoesOn
  <2> QED
    BY <2>2, <2>3
<1>5. bad = {}
  <2> SUFFICES ASSUME bad # {} PROVE FALSE
    OBVIOUS
  <2>1. PICK j \in bad : \A y \in bad : j <= y
    <3>1. bad \in SUBSET Nat
      BY <1>1
    <3> HIDE DEF bad
    <3> QED
      BY <3>1, LeastExists
  <2> HIDE DEF Fine
  <2>2. j \in 0 .. n /\ ~Fine(n - j)
    BY <2>1
  <2>3. \A x \in 0 .. n : x > n - j => Fine(x)
    <3> SUFFICES ASSUME NEW x \in 0 .. n, x > n - j, ~Fine(x) PROVE FALSE
      OBVIOUS
    <3>1. n - x \in 0 .. n /\ n - (n - x) = x /\ ~(j <= n - x)
      BY <1>1, <2>2
    <3>2. n - x \in bad
      BY <3>1
    <3> QED
      BY <2>1, <3>1, <3>2
  <2>4. n - j \in 0 .. n
    BY <1>1, <2>2
  <2> QED
    BY <1>4, <2>2, <2>3, <2>4
<1>6. Fine(0)
  <2> HIDE DEF Fine
  <2>1. n \in 0 .. n /\ n - n = 0
    BY <1>1
  <2> QED
    BY <1>5, <2>1
<1> QED
  BY <1>2, <1>6 DEF ExactFrom, Exact, Cuts

-----------------------------------------------------------------------------
(* Runs of whole frames, in any arrivals; over says that no more arrive.   *)

RunAt(arr, over, f, a, b) ==
    /\ a <= b
    /\ \A i \in a .. b : arr[i].frame = f
    /\ a > 1 => arr[a - 1].frame # f
    /\ IF b < Len(arr) THEN arr[b + 1].frame # f ELSE over

WholeRuns(arr, over, f) ==
    {r \in (1 .. Len(arr)) \X (1 .. Len(arr)) :
        RunAt(arr, over, f, r[1], r[2]) /\ SubSeq(arr, r[1], r[2]) = Whole(f)}

LEMMA RunsFinite ==
    ASSUME NEW arr \in Seq(Fragments), NEW over, NEW f
    PROVE  IsFiniteSet(WholeRuns(arr, over, f))
<1>1. IsFiniteSet(1 .. Len(arr))
  BY LenProperties, UpToIsFinite
<1>2. IsFiniteSet((1 .. Len(arr)) \X (1 .. Len(arr)))
  BY <1>1, FS_Product
<1>3. WholeRuns(arr, over, f) \in SUBSET ((1 .. Len(arr)) \X (1 .. Len(arr)))
  BY DEF WholeRuns
<1> QED
  BY <1>2, <1>3, FS_Subset

LEMMA InWholeRuns ==
    ASSUME NEW arr, NEW over, NEW f, NEW r
    PROVE  r \in WholeRuns(arr, over, f) <=>
              \E a, b \in 1 .. Len(arr) :
                  r = <<a, b>> /\ RunAt(arr, over, f, a, b) /\ SubSeq(arr, a, b) = Whole(f)
<1> DEFINE places == 1 .. Len(arr)
<1>1. r \in places \X places
         <=> \E a, b \in places : r = <<a, b>> /\ r[1] = a /\ r[2] = b
  <2> HIDE DEF places
  <2> QED
    OBVIOUS
<1>2. r \in WholeRuns(arr, over, f)
         <=> /\ r \in places \X places
             /\ RunAt(arr, over, f, r[1], r[2]) /\ SubSeq(arr, r[1], r[2]) = Whole(f)
  BY Zenon DEF WholeRuns
<1>3. ASSUME NEW a \in places, NEW b \in places, r = <<a, b>>
      PROVE  r[1] = a /\ r[2] = b
  BY <1>3
<1> HIDE DEF places
<1> QED
  BY <1>1, <1>2, <1>3, Zenon DEF places

LEMMA IntoWholeRuns ==
    ASSUME NEW arr, NEW over, NEW f, NEW a \in 1 .. Len(arr), NEW b \in 1 .. Len(arr),
           RunAt(arr, over, f, a, b), SubSeq(arr, a, b) = Whole(f)
    PROVE  <<a, b>> \in WholeRuns(arr, over, f)
<1> DEFINE r == <<a, b>>
           places == 1 .. Len(arr)
<1>1. r = <<a, b>> /\ a \in places /\ b \in places
  OBVIOUS
<1>2. r \in WholeRuns(arr, over, f)
         <=> \E x, y \in places :
                r = <<x, y>> /\ RunAt(arr, over, f, x, y) /\ SubSeq(arr, x, y) = Whole(f)
  <2> HIDE DEF r
  <2> QED
    BY InWholeRuns
<1> HIDE DEF r, places
<1>3. r \in WholeRuns(arr, over, f)
  BY <1>1, <1>2
<1> QED
  BY <1>3 DEF r

\* Of a sequence and a longer one, the runs that end before the last arrival of
\* the shorter one are the same.
LEMMA RunsBefore ==
    ASSUME NEW arr \in Seq(Fragments), NEW arr2 \in Seq(Fragments),
           Len(arr) <= Len(arr2), \A i \in 1 .. Len(arr) : arr2[i] = arr[i],
           NEW f, NEW over, NEW over2,
           NEW a \in 1 .. Len(arr), NEW b \in 1 .. Len(arr)
    PROVE  /\ b < Len(arr) => (RunAt(arr, over, f, a, b) <=> RunAt(arr2, over2, f, a, b))
           /\ SubSeq(arr2, a, b) = SubSeq(arr, a, b)
<1>1. Len(arr) \in Nat /\ Len(arr2) \in Nat
  BY LenProperties
<1>2. ASSUME b < Len(arr)
      PROVE  RunAt(arr, over, f, a, b) <=> RunAt(arr2, over2, f, a, b)
  <2>1. /\ b < Len(arr2) /\ arr2[b + 1] = arr[b + 1]
        /\ \A i \in a .. b : arr2[i] = arr[i]
        /\ a > 1 => arr2[a - 1] = arr[a - 1]
    BY <1>1, <1>2
  <2> QED
    BY <1>2, <2>1 DEF RunAt
<1>3. SubSeq(arr2, a, b) = SubSeq(arr, a, b)
  <2>1. \A i \in a .. b : arr2[i] = arr[i]
    BY <1>1
  <2>2. CASE a <= b
    <3>1. /\ SubSeq(arr, a, b) \in Seq(Fragments) /\ SubSeq(arr2, a, b) \in Seq(Fragments)
          /\ Len(SubSeq(arr, a, b)) = b - a + 1 /\ Len(SubSeq(arr2, a, b)) = b - a + 1
      BY <1>1, <2>2, SubSeqProperties
    <3>2. \A i \in 1 .. b - a + 1 : SubSeq(arr, a, b)[i] = arr[a + i - 1]
                                    /\ SubSeq(arr2, a, b)[i] = arr2[a + i - 1]
      BY <1>1, <2>2, SubSeqProperties
    <3>3. \A i \in 1 .. b - a + 1 : a + i - 1 \in a .. b
      BY <1>1
    <3>4. \A i \in 1 .. b - a + 1 : SubSeq(arr, a, b)[i] = SubSeq(arr2, a, b)[i]
      BY <2>1, <3>2, <3>3
    <3> QED
      BY <3>1, <3>4, SeqEqual
  <2>3. CASE a > b
    BY <1>1, <2>3, SubSeqEmpty
  <2> QED
    BY <1>1, <2>2, <2>3
<1> QED
  BY <1>2, <1>3

\* Another fragment of the frame of the last one ends no run.
LEMMA RunGoesOn ==
    ASSUME NEW arr \in Seq(Fragments), NEW d \in Fragments, NEW f, NEW over, ~over,
           arr # <<>> => arr[Len(arr)].frame = d.frame
    PROVE  WholeRuns(Append(arr, d), over, f) = WholeRuns(arr, over, f)
<1> DEFINE arr2 == Append(arr, d)
           n == Len(arr)
<1>1. /\ n \in Nat /\ arr2 \in Seq(Fragments) /\ Len(arr2) = n + 1
      /\ \A i \in 1 .. n : arr2[i] = arr[i]
      /\ arr2[n + 1] = d
  BY LenProperties, AppendProperties
<1> HIDE DEF arr2
<1>2. ASSUME NEW a \in 1 .. n, NEW b \in 1 .. n, b < n
      PROVE  /\ RunAt(arr, over, f, a, b) <=> RunAt(arr2, over, f, a, b)
             /\ SubSeq(arr2, a, b) = SubSeq(arr, a, b)
  BY <1>1, <1>2, RunsBefore
<1>3. ASSUME NEW a \in 1 .. n, NEW b \in 1 .. n, RunAt(arr, over, f, a, b)
      PROVE  b < n
  BY <1>1, <1>3 DEF RunAt
<1>4. ASSUME NEW a \in 1 .. n + 1, NEW b \in 1 .. n + 1, RunAt(arr2, over, f, a, b)
      PROVE  b < n
  <2>1. b # n + 1
    BY <1>1, <1>4 DEF RunAt
  <2>2. CASE b = n
    <3>1. n \in 1 .. n /\ arr # <<>> /\ n \in a .. b
      BY <1>1, <1>4, <2>2, EmptySeq DEF RunAt
    <3>2. arr2[n].frame = f /\ arr2[n + 1].frame # f
      BY <1>1, <1>4, <2>2, <3>1 DEF RunAt
    <3> QED
      BY <1>1, <3>1, <3>2
  <2> QED
    BY <1>1, <2>1, <2>2
<1>5. ASSUME NEW r
      PROVE  r \in WholeRuns(arr2, over, f) <=> r \in WholeRuns(arr, over, f)
  <2>1. ASSUME r \in WholeRuns(arr2, over, f) PROVE r \in WholeRuns(arr, over, f)
    <3>1. PICK a, b \in 1 .. n + 1 :
            r = <<a, b>> /\ RunAt(arr2, over, f, a, b) /\ SubSeq(arr2, a, b) = Whole(f)
      BY <1>1, <2>1, InWholeRuns
    <3>2. b < n /\ a <= b
      BY <1>4, <3>1 DEF RunAt
    <3>3. a \in 1 .. n /\ b \in 1 .. n
      BY <1>1, <3>2
    <3> QED
      BY <1>2, <3>1, <3>2, <3>3, InWholeRuns
  <2>2. ASSUME r \in WholeRuns(arr, over, f) PROVE r \in WholeRuns(arr2, over, f)
    <3>1. PICK a, b \in 1 .. n :
            r = <<a, b>> /\ RunAt(arr, over, f, a, b) /\ SubSeq(arr, a, b) = Whole(f)
      BY <2>2, InWholeRuns
    <3>2. b < n /\ a \in 1 .. n + 1 /\ b \in 1 .. n + 1
      BY <1>1, <1>3, <3>1
    <3>3. RunAt(arr2, over, f, a, b) /\ SubSeq(arr2, a, b) = Whole(f)
      BY <1>2, <3>1, <3>2
    <3>4. a \in 1 .. Len(arr2) /\ b \in 1 .. Len(arr2)
      BY <1>1, <3>2
    <3> QED
      BY <3>1, <3>3, <3>4, IntoWholeRuns
  <2> QED
    BY <2>1, <2>2
<1> QED
  BY <1>5 DEF arr2

\* The run that goes on began at s; it ends with the next arrival, or with none.
Goes(arr, s) ==
    /\ \A i \in s .. Len(arr) : arr[i].frame = arr[Len(arr)].frame
    /\ s > 1 => arr[s - 1].frame # arr[Len(arr)].frame

Ends(arr, arr2, over2) ==
    /\ Len(arr2) \in {Len(arr), Len(arr) + 1}
    /\ \A i \in 1 .. Len(arr) : arr2[i] = arr[i]
    /\ Len(arr2) = Len(arr) => over2
    /\ Len(arr2) # Len(arr)
          => ~over2 /\ arr2[Len(arr) + 1].frame # arr[Len(arr)].frame

Counted(arr, arr2, over, over2, s, f) ==
    /\ <<s, Len(arr)>> \notin WholeRuns(arr, over, f)
    /\ WholeRuns(arr2, over2, f)
         = IF SubSeq(arr, s, Len(arr)) = Whole(f)
           THEN WholeRuns(arr, over, f) \cup {<<s, Len(arr)>>}
           ELSE WholeRuns(arr, over, f)

\* A run ends with a fragment of another frame, or when no more arrive: it is the
\* one that began after the last fragment of another frame.
LEMMA RunEnds ==
    ASSUME NEW arr \in Seq(Fragments), arr # <<>>, NEW arr2 \in Seq(Fragments),
           NEW over \in BOOLEAN, ~over, NEW over2 \in BOOLEAN, Ends(arr, arr2, over2),
           NEW s \in 1 .. Len(arr), Goes(arr, s), NEW f \in Frames
    PROVE  Counted(arr, arr2, over, over2, s, f)
<1> USE DEF Goes, Ends
<1> DEFINE n == Len(arr)
           m == Len(arr2)
<1>1. n \in Nat \ {0} /\ m \in Nat /\ n <= m /\ n \in 1 .. n /\ 1 .. n \subseteq 1 .. m
  BY LenProperties, EmptySeq
<1>2. ASSUME NEW a \in 1 .. n, NEW b \in 1 .. n
      PROVE  /\ b < n => (RunAt(arr, over, f, a, b) <=> RunAt(arr2, over2, f, a, b))
             /\ SubSeq(arr2, a, b) = SubSeq(arr, a, b)
  BY <1>1, RunsBefore
<1>3. ASSUME NEW a \in 1 .. n, NEW b \in 1 .. n, RunAt(arr, over, f, a, b)
      PROVE  b < n
  BY <1>1, <1>3 DEF RunAt
<1>4. ASSUME NEW a \in 1 .. m, NEW b \in 1 .. m, RunAt(arr2, over2, f, a, b)
      PROVE  a \in 1 .. n /\ b \in 1 .. n /\ (b = n => a = s /\ arr[n].frame = f)
  <2>1. a <= b /\ b <= n
    BY <1>1, <1>4 DEF RunAt
  <2>2. a \in 1 .. n /\ b \in 1 .. n
    BY <1>1, <2>1
  <2>3. ASSUME b = n PROVE a = s /\ arr[n].frame = f
    <3>1. /\ \A i \in a .. n : arr[i].frame = f
          /\ a > 1 => arr[a - 1].frame # f
      <4>1. /\ \A i \in a .. n : arr2[i].frame = f
            /\ a > 1 => arr2[a - 1].frame # f
        BY <1>4, <2>3 DEF RunAt
      <4>2. (\A i \in a .. n : i \in 1 .. n) /\ (a > 1 => a - 1 \in 1 .. n)
        BY <1>1, <2>2
      <4> QED
        BY <4>1, <4>2
    <3>2. arr[n].frame = f
      BY <1>1, <2>2, <3>1
    <3>3. ~(a < s)
      <4> SUFFICES ASSUME a < s PROVE FALSE
        OBVIOUS
      <4>1. s > 1 /\ s - 1 \in a .. n
        BY <1>1, <2>2
      <4> QED
        BY <3>1, <3>2, <4>1
    <3>4. ~(a > s)
      <4> SUFFICES ASSUME a > s PROVE FALSE
        OBVIOUS
      <4>1. a > 1 /\ a - 1 \in s .. n
        BY <1>1, <2>2
      <4> QED
        BY <3>1, <3>2, <4>1
    <3> QED
      BY <1>1, <2>2, <3>2, <3>3, <3>4
  <2> QED
    BY <2>2, <2>3
<1>5. arr[n].frame = f => RunAt(arr2, over2, f, s, n)
  <2> SUFFICES ASSUME arr[n].frame = f PROVE RunAt(arr2, over2, f, s, n)
    OBVIOUS
  <2>1. s <= n /\ \A i \in s .. n : arr2[i].frame = f
    BY <1>1
  <2>2. s > 1 => arr2[s - 1].frame # f
    BY <1>1
  <2>3. IF n < m THEN arr2[n + 1].frame # f ELSE over2
    BY <1>1
  <2> HIDE DEF n
  <2> QED
    BY <2>1, <2>2, <2>3 DEF RunAt
<1>6. SubSeq(arr, s, n) = Whole(f) => arr[n].frame = f
  <2> SUFFICES ASSUME SubSeq(arr, s, n) = Whole(f) PROVE arr[n].frame = f
    OBVIOUS
  <2>1. SubSeq(arr, s, n)[1] = arr[s]
    BY <1>1, SubSeqProperties
  <2>2. Whole(f)[1] = [frame |-> f, index |-> 1]
    <3>1. 1 \in 1 .. Len(Sizes[f])
      BY SizesFacts
    <3> QED
      BY <3>1, WholeFacts, Zenon
  <2>3. arr[s].frame = f
    BY <2>1, <2>2
  <2> QED
    BY <1>1, <2>3
<1> HIDE DEF Goes, Ends
<1>7. <<s, n>> \notin WholeRuns(arr, over, f)
  <2> SUFFICES ASSUME <<s, n>> \in WholeRuns(arr, over, f) PROVE FALSE
    OBVIOUS
  <2> DEFINE last == <<s, n>>
  <2> HIDE DEF last
  <2>1. PICK a, b \in 1 .. n : last = <<a, b>> /\ RunAt(arr, over, f, a, b)
    BY InWholeRuns DEF last
  <2> QED
    BY <1>1, <1>3, <2>1 DEF last
<1>8. ASSUME NEW r
      PROVE  r \in WholeRuns(arr2, over2, f)
             <=> \/ r \in WholeRuns(arr, over, f)
                 \/ r = <<s, n>> /\ SubSeq(arr, s, n) = Whole(f)
  <2>1. ASSUME r \in WholeRuns(arr2, over2, f)
        PROVE  \/ r \in WholeRuns(arr, over, f)
               \/ r = <<s, n>> /\ SubSeq(arr, s, n) = Whole(f)
    <3>1. PICK a, b \in 1 .. m :
            r = <<a, b>> /\ RunAt(arr2, over2, f, a, b) /\ SubSeq(arr2, a, b) = Whole(f)
      BY <2>1, InWholeRuns
    <3>2. a \in 1 .. n /\ b \in 1 .. n /\ (b = n => a = s)
      BY <1>4, <3>1
    <3>3. SubSeq(arr, a, b) = Whole(f)
      BY <1>2, <3>1, <3>2
    <3>4. CASE b < n
      <4>1. RunAt(arr, over, f, a, b)
        BY <1>2, <3>1, <3>2, <3>4
      <4> QED
        BY <3>1, <3>2, <3>3, <4>1, IntoWholeRuns
    <3>5. CASE b = n
      BY <3>1, <3>2, <3>3, <3>5
    <3> QED
      BY <1>1, <3>2, <3>4, <3>5
  <2>2. ASSUME r \in WholeRuns(arr, over, f) PROVE r \in WholeRuns(arr2, over2, f)
    <3>1. PICK a, b \in 1 .. n :
            r = <<a, b>> /\ RunAt(arr, over, f, a, b) /\ SubSeq(arr, a, b) = Whole(f)
      BY <2>2, InWholeRuns
    <3>2. b < n /\ a \in 1 .. m /\ b \in 1 .. m
      BY <1>1, <1>3, <3>1
    <3>3. RunAt(arr2, over2, f, a, b) /\ SubSeq(arr2, a, b) = Whole(f)
      BY <1>2, <3>1, <3>2
    <3> QED
      BY <3>1, <3>2, <3>3, IntoWholeRuns
  <2>3. ASSUME r = <<s, n>>, SubSeq(arr, s, n) = Whole(f)
        PROVE  r \in WholeRuns(arr2, over2, f)
    <3>1. RunAt(arr2, over2, f, s, n) /\ SubSeq(arr2, s, n) = Whole(f)
      BY <1>1, <1>2, <1>5, <1>6, <2>3
    <3>2. s \in 1 .. m /\ n \in 1 .. m
      BY <1>1
    <3> QED
      BY <2>3, <3>1, <3>2, IntoWholeRuns
  <2> QED
    BY <2>1, <2>2, <2>3
<1>9. CASE SubSeq(arr, s, n) = Whole(f)
  <2>1. WholeRuns(arr2, over2, f) = WholeRuns(arr, over, f) \cup {<<s, n>>}
    BY <1>8, <1>9
  <2> QED
    BY <1>7, <1>9, <2>1 DEF Counted
<1>10. CASE SubSeq(arr, s, n) # Whole(f)
  <2>1. WholeRuns(arr2, over2, f) = WholeRuns(arr, over, f)
    BY <1>8, <1>10
  <2> QED
    BY <1>7, <1>10, <2>1 DEF Counted
<1> QED
  BY <1>9, <1>10

-----------------------------------------------------------------------------
(* The invariant.                                                          *)

Delivered(list, f) == {i \in DOMAIN list : list[i] = Whole(f)}

\* WholeFramesDelivered, counted with the above.
FramesCounted ==
    \A f \in Frames : (f \in Encrypted => key) =>
        Cardinality(WholeRuns(arrived, closed, f)) = Cardinality(Delivered(payloads, f))

IInv ==
    TypeOK /\ RecordsExact /\ JoinedAreLast /\ PayloadsWellFormed /\ FramesCounted

LEMMA DeliveredFinite ==
    ASSUME NEW S, NEW list \in Seq(S), NEW f
    PROVE  IsFiniteSet(Delivered(list, f))
<1>1. IsFiniteSet(1 .. Len(list)) /\ DOMAIN list = 1 .. Len(list)
  BY LenProperties, UpToIsFinite
<1>2. Delivered(list, f) \in SUBSET (1 .. Len(list))
  BY <1>1 DEF Delivered
<1> QED
  BY <1>1, <1>2, FS_Subset

LEMMA InvariantCounts == IInv => WholeFramesDelivered
<1> SUFFICES ASSUME IInv, NEW f \in Frames, f \in Encrypted => key
             PROVE  Cardinality({r \in Runs(f) : SubSeq(arrived, r[1], r[2]) = Whole(f)})
                    = Cardinality({i \in DOMAIN payloads : payloads[i] = Whole(f)})
  BY DEF WholeFramesDelivered
<1>1. DOMAIN arrived = 1 .. Len(arrived)
  BY LenProperties DEF IInv, TypeOK
<1>2. {r \in Runs(f) : SubSeq(arrived, r[1], r[2]) = Whole(f)}
        = WholeRuns(arrived, closed, f)
  <2>1. ASSUME NEW r
        PROVE  r \in Runs(f) <=> /\ r \in (1 .. Len(arrived)) \X (1 .. Len(arrived))
                                 /\ RunAt(arrived, closed, f, r[1], r[2])
    BY <1>1, Zenon DEF Runs, RunAt
  <2> HIDE DEF Runs
  <2> QED
    BY <2>1, Zenon DEF WholeRuns
<1>3. Cardinality(WholeRuns(arrived, closed, f)) = Cardinality(Delivered(payloads, f))
  BY DEF IInv, FramesCounted
<1> QED
  BY <1>2, <1>3 DEF Delivered

LEMMA InvariantOrdered == IInv => DamageNeedsDisorder
<1> SUFFICES ASSUME IInv, NEW i \in DOMAIN payloads,
                    \A j \in 1 .. Len(payloads[i]) - 1 :
                        payloads[i][j].index < payloads[i][j + 1].index
             PROVE  payloads[i] = Whole(payloads[i][1].frame)
  BY DEF DamageNeedsDisorder
<1> DEFINE joined == payloads[i]
<1>1. joined \in Seq(Fragments) \ {<<>>}
  BY ElementOfSeq, LenProperties DEF IInv, TypeOK
<1>2. OneFrame(joined) /\ SizeOf(joined) = Announced(joined[1].frame)
  BY DEF IInv, TypeOK, PayloadsWellFormed, WellFormed
<1> QED
  BY <1>1, <1>2, SortedIsWhole

LEMMA InvariantIs == IInv => Consistent /\ WholeFramesDelivered /\ DamageNeedsDisorder
BY InvariantCounts, InvariantOrdered DEF IInv, Consistent

LEMMA InitIInv == Init => IInv
<1> SUFFICES ASSUME Init PROVE IInv
  OBVIOUS
<1>1. /\ number = NoFrame /\ fragments = <<>> /\ payloads = <<>> /\ combined = <<>>
      /\ records = <<>> /\ key \in BOOLEAN /\ closed = FALSE /\ arrived = <<>>
  BY DEF Init
<1>2. TypeOK
  <2>1. \A S : <<>> \in Seq(S) /\ DOMAIN <<>> = {}
    BY EmptySeq
  <2> QED
    BY <1>1, <2>1, Zenon DEF TypeOK
<1>3. RecordsExact
  <2>1. <<>> \in Seq(Nat) /\ 0 \in 0 .. Len(<<>>) /\ ~Fits(<<>>, 0)
    BY EmptySeq DEF Fits
  <2>2. ExactFrom(<<>>, 0, <<>>)
    BY <2>1, ExactStops
  <2> QED
    BY <1>1, <2>2 DEF RecordsExact, Exact, ExactFrom, Cuts
<1>4. JoinedAreLast /\ PayloadsWellFormed
  BY <1>1 DEF JoinedAreLast, PayloadsWellFormed
<1>5. FramesCounted
  <2> SUFFICES ASSUME NEW f \in Frames
               PROVE  WholeRuns(arrived, closed, f) = Delivered(payloads, f)
    BY DEF FramesCounted
  <2>1. WholeRuns(arrived, closed, f) = {}
    BY <1>1 DEF WholeRuns
  <2>2. Delivered(payloads, f) = {}
    BY <1>1 DEF Delivered
  <2> QED
    BY <2>1, <2>2
<1> QED
  BY <1>2, <1>3, <1>4, <1>5 DEF IInv

\* _flush_rtp: what it hands on is typed and exact, and a whole frame is handed on.
LEMMA FlushKeeps ==
    ASSUME TypeOK, RecordsExact, PayloadsWellFormed, FlushRtp
    PROVE  /\ payloads' \in Seq(Seq(Fragments) \ {<<>>})
           /\ combined' \in Seq(Nat) /\ records' \in Recs /\ RecordsExact'
           /\ \A i \in DOMAIN payloads' : OneFrame(payloads'[i]) /\ WellFormed(payloads'[i])
           /\ \A f \in Frames : (f \in Encrypted => key) =>
                Cardinality(Delivered(payloads', f))
                = Cardinality(Delivered(payloads, f))
                    + (IF fragments = Whole(f) THEN 1 ELSE 0)
<1>1. PICK padded \in BOOLEAN :
        IF Passes(fragments, padded)
        THEN /\ payloads' = Append(payloads, fragments)
             /\ combined' \in Contents
             /\ records' = Split(combined')
        ELSE UNCHANGED <<payloads, combined, records>>
  BY DEF FlushRtp
<1>2. /\ payloads \in Seq(Seq(Fragments) \ {<<>>}) /\ Len(payloads) \in Nat
      /\ DOMAIN payloads = 1 .. Len(payloads)
      /\ fragments \in Seq(Fragments)
  BY LenProperties DEF TypeOK
<1>3. CASE Passes(fragments, padded)
  <2>1. /\ payloads' = Append(payloads, fragments) /\ combined' \in Seq(Nat)
        /\ records' = Split(combined')
    BY <1>1, <1>3, FramesAssumption
  <2>2. fragments # <<>> /\ WellFormed(fragments)
    BY <1>3 DEF Passes, WellFormed
  <2>3. /\ payloads' \in Seq(Seq(Fragments) \ {<<>>})
        /\ DOMAIN payloads' = 1 .. Len(payloads) + 1
        /\ \A i \in 1 .. Len(payloads) : payloads'[i] = payloads[i]
        /\ payloads'[Len(payloads) + 1] = fragments
    BY <1>2, <2>1, <2>2, AppendProperties
  <2>4. records' \in Recs /\ RecordsExact'
    BY <2>1, SplitIsExact DEF RecordsExact
  <2>5. OneFrame(fragments)
    BY <1>2, <2>2, EmptySeq, LenProperties DEF TypeOK, OneFrame
  <2>6. ASSUME NEW i \in DOMAIN payloads'
        PROVE  OneFrame(payloads'[i]) /\ WellFormed(payloads'[i])
    <3>1. CASE i = Len(payloads) + 1
      BY <2>2, <2>3, <2>5, <3>1
    <3>2. CASE i # Len(payloads) + 1
      <4>1. i \in DOMAIN payloads /\ payloads'[i] = payloads[i]
        BY <1>2, <2>3, <3>2
      <4> QED
        BY <4>1 DEF TypeOK, PayloadsWellFormed
    <3> QED
      BY <3>1, <3>2
  <2>7. ASSUME NEW f \in Frames
        PROVE  Cardinality(Delivered(payloads', f))
               = Cardinality(Delivered(payloads, f))
                   + (IF fragments = Whole(f) THEN 1 ELSE 0)
    <3> DEFINE k == Len(payloads) + 1
    <3>1. k \notin Delivered(payloads, f) /\ IsFiniteSet(Delivered(payloads, f))
      <4>1. IsFiniteSet(Delivered(payloads, f))
        BY <1>2, DeliveredFinite
      <4>2. k \notin DOMAIN payloads
        BY <1>2
      <4> QED
        BY <4>1, <4>2 DEF Delivered
    <3>2. CASE fragments = Whole(f)
      <4>1. Delivered(payloads', f) = Delivered(payloads, f) \cup {k}
        BY <1>2, <2>3, <3>2 DEF Delivered
      <4> QED
        BY <3>1, <3>2, <4>1, FS_AddElement
    <3>3. CASE fragments # Whole(f)
      <4>1. Delivered(payloads', f) = Delivered(payloads, f)
        BY <1>2, <2>3, <3>3 DEF Delivered
      <4> QED
        BY <3>1, <3>3, <4>1, FS_CardinalityType
    <3> QED
      BY <3>2, <3>3
  <2> QED
    BY <2>1, <2>3, <2>4, <2>6, <2>7
<1>4. CASE ~Passes(fragments, padded)
  <2>1. payloads' = payloads /\ combined' = combined /\ records' = records
    BY <1>1, <1>4
  <2>2. ASSUME NEW f \in Frames, f \in Encrypted => key
        PROVE  fragments # Whole(f)
    <3> SUFFICES ASSUME fragments = Whole(f) PROVE FALSE
      OBVIOUS
    <3>1. Len(Whole(f)) # 0 /\ Whole(f)[1] = [frame |-> f, index |-> 1]
      <4>1. 1 \in 1 .. Len(Sizes[f]) /\ Len(Sizes[f]) # 0
        BY SizesFacts
      <4> QED
        BY <4>1, WholeFacts, Zenon
    <3>2. fragments[1].frame = f /\ fragments[1].index = 1 /\ fragments # <<>>
      BY <3>1, EmptySeq
    <3>3. WellFormed(fragments) /\ Decrypts(fragments, padded)
      BY <2>2, <3>2 DEF WellFormed, Announced, Decrypts
    <3> QED
      BY <1>4, <3>3 DEF Passes
  <2>3. /\ RecordsExact' /\ records' \in Recs
        /\ \A i \in DOMAIN payloads' : OneFrame(payloads'[i]) /\ WellFormed(payloads'[i])
    BY <2>1 DEF RecordsExact, TypeOK, PayloadsWellFormed, Recs
  <2>4. ASSUME NEW f \in Frames PROVE Cardinality(Delivered(payloads, f)) \in Nat
    BY <1>2, DeliveredFinite, FS_CardinalityType
  <2> QED
    BY <1>2, <2>1, <2>2, <2>3, <2>4 DEF TypeOK
<1> QED
  BY <1>3, <1>4

\* What is joined, as the run that goes on.
LEMMA LastRun ==
    ASSUME TypeOK, JoinedAreLast, ~closed, arrived # <<>>
    PROVE  LET n == Len(arrived)
               s == n - Len(fragments) + 1
           IN  /\ s \in 1 .. n /\ number = arrived[n].frame
               /\ SubSeq(arrived, s, n) = fragments
               /\ \A i \in s .. n : arrived[i].frame = arrived[n].frame
               /\ s > 1 => arrived[s - 1].frame # arrived[n].frame
<1> DEFINE n == Len(arrived)
           k == Len(fragments)
           s == n - k + 1
<1>1. /\ arrived \in Seq(Fragments) /\ fragments \in Seq(Fragments)
      /\ n \in Nat \ {0} /\ k \in Nat \ {0} /\ k <= n
      /\ DOMAIN fragments = 1 .. k
  BY EmptySeq, LenProperties DEF TypeOK, JoinedAreLast
<1>2. /\ \A i \in 1 .. k : fragments[i] = arrived[n - k + i] /\ fragments[i].frame = number
      /\ k < n => arrived[n - k].frame # number
  BY <1>1 DEF TypeOK, JoinedAreLast
<1> HIDE DEF n, k
<1>3. s \in 1 .. n
  BY <1>1
<1>4. \A i \in s .. n : arrived[i].frame = number
  <2> TAKE i \in s .. n
  <2>1. i - (n - k) \in 1 .. k /\ n - k + (i - (n - k)) = i
    BY <1>1
  <2> QED
    BY <1>2, <2>1
<1>5. n \in s .. n /\ number = arrived[n].frame
  BY <1>1, <1>3, <1>4
<1>6. s > 1 => arrived[s - 1].frame # number
  <2>1. s > 1 => k < n /\ s - 1 = n - k
    BY <1>1
  <2> QED
    BY <1>2, <2>1
<1>7. SubSeq(arrived, s, n) = fragments
  <2>1. /\ SubSeq(arrived, s, n) \in Seq(Fragments) /\ Len(SubSeq(arrived, s, n)) = k
        /\ \A i \in 1 .. k : SubSeq(arrived, s, n)[i] = arrived[s + i - 1]
    <3>1. n - s + 1 = k /\ \A i \in s .. n : i \in 1 .. Len(arrived)
      BY <1>1, <1>3 DEF n
    <3> HIDE DEF s
    <3> QED
      BY <1>1, <1>3, <3>1, SubSeqProperties
  <2>2. \A i \in 1 .. k : s + i - 1 = n - k + i
    BY <1>1
  <2>3. \A i \in 1 .. k : SubSeq(arrived, s, n)[i] = fragments[i]
    BY <1>2, <2>1, <2>2
  <2> QED
    BY <1>1, <2>1, <2>3, SeqEqual DEF k
<1> QED
  BY <1>3, <1>4, <1>5, <1>6, <1>7 DEF n, k

\* Another fragment of the frame that is being joined.
LEMMA JoinKeeps ==
    ASSUME IInv, ~closed, NEW d \in Fragments, Joins(d), number' = d.frame,
           arrived' = Append(arrived, d), UNCHANGED <<key, closed>>
    PROVE  IInv'
<1> DEFINE n == Len(arrived)
           k == Len(fragments)
<1>1. /\ number \in {NoFrame, d.frame} /\ fragments' = Append(fragments, d)
      /\ payloads' = payloads /\ combined' = combined /\ records' = records
  BY DEF Joins
<1>2. /\ arrived \in Seq(Fragments) /\ fragments \in Seq(Fragments)
      /\ n \in Nat /\ k \in Nat /\ k <= n
      /\ DOMAIN fragments = 1 .. k
      /\ d.frame \in Frames /\ d.frame # NoFrame
  BY LenProperties, FragmentFacts, FramesAssumption DEF IInv, TypeOK, JoinedAreLast
<1>3. /\ fragments' \in Seq(Fragments) /\ Len(fragments') = k + 1 /\ DOMAIN fragments' = 1 .. k + 1
      /\ \A i \in 1 .. k : fragments'[i] = fragments[i]
      /\ fragments'[k + 1] = d
  BY <1>1, <1>2, AppendProperties
<1>4. /\ arrived' \in Seq(Fragments) /\ Len(arrived') = n + 1
      /\ \A i \in 1 .. n : arrived'[i] = arrived[i]
      /\ arrived'[n + 1] = d
  BY <1>2, AppendProperties
<1>5. arrived # <<>> => number = d.frame /\ arrived[n].frame = d.frame
  <2> SUFFICES ASSUME arrived # <<>> PROVE number = d.frame /\ arrived[n].frame = d.frame
    OBVIOUS
  <2>1. number = arrived[n].frame
    BY LastRun DEF IInv
  <2>2. arrived[n] \in Fragments
    BY <1>2, EmptySeq, ElementOfSeq
  <2>3. arrived[n].frame # NoFrame
    BY <2>2, FragmentFacts, FramesAssumption
  <2> QED
    BY <1>1, <2>1, <2>3
<1>6. TypeOK'
  <2>1. \A i \in 1 .. k + 1 : fragments'[i].frame = d.frame
    <3> TAKE i \in 1 .. k + 1
    <3>1. CASE i = k + 1
      BY <1>3, <3>1
    <3>2. CASE i # k + 1
      <4>1. i \in 1 .. k /\ k # 0
        BY <1>2, <3>2
      <4>2. arrived # <<>>
        BY <1>2, <4>1, EmptySeq
      <4>3. fragments[i].frame = number
        BY <1>2, <4>1 DEF IInv, TypeOK
      <4> QED
        BY <1>3, <1>5, <4>1, <4>2, <4>3
    <3> QED
      BY <3>1, <3>2
  <2> HIDE DEF k, n
  <2> QED
    BY <1>1, <1>2, <1>3, <1>4, <2>1 DEF IInv, TypeOK
<1>7. JoinedAreLast'
  <2>1. arrived' # <<>> /\ fragments' # <<>> /\ Len(fragments') <= Len(arrived')
    BY <1>2, <1>3, <1>4, EmptySeq
  <2>2. \A i \in 1 .. k + 1 : fragments'[i] = arrived'[(n + 1) - (k + 1) + i]
    <3> TAKE i \in 1 .. k + 1
    <3>1. CASE i = k + 1
      <4>1. (n + 1) - (k + 1) + i = n + 1
        BY <1>2, <3>1
      <4> QED
        BY <1>3, <1>4, <3>1, <4>1
    <3>2. CASE i # k + 1
      <4>1. i \in 1 .. k /\ (n + 1) - (k + 1) + i = n - k + i /\ n - k + i \in 1 .. n
        BY <1>2, <3>2
      <4>2. fragments[i] = arrived[n - k + i]
        BY <1>2, <4>1 DEF IInv, JoinedAreLast
      <4> QED
        BY <1>3, <1>4, <4>1, <4>2
    <3> QED
      BY <3>1, <3>2
  <2>3. k < n => arrived'[n - k].frame # d.frame
    <3> SUFFICES ASSUME k < n PROVE arrived'[n - k].frame # d.frame
      OBVIOUS
    <3>1. arrived # <<>> /\ n - k \in 1 .. n
      BY <1>2, EmptySeq
    <3>2. arrived[n - k].frame # number
      BY DEF IInv, JoinedAreLast
    <3> QED
      BY <1>4, <1>5, <3>1, <3>2
  <2>4. (n + 1) - (k + 1) = n - k /\ (k + 1 < n + 1 => k < n)
    BY <1>2
  <2> HIDE DEF k, n
  <2> QED
    BY <1>3, <1>4, <2>1, <2>2, <2>3, <2>4 DEF JoinedAreLast
<1>8. FramesCounted'
  <2> SUFFICES ASSUME NEW f \in Frames, f \in Encrypted => key
               PROVE  Cardinality(WholeRuns(arrived', closed', f))
                      = Cardinality(Delivered(payloads', f))
    BY DEF FramesCounted
  <2>1. WholeRuns(arrived', closed', f) = WholeRuns(arrived, closed, f)
    BY <1>2, <1>5, RunGoesOn
  <2> QED
    BY <1>1, <2>1 DEF IInv, FramesCounted
<1>9. RecordsExact' /\ PayloadsWellFormed'
  BY <1>1 DEF IInv, RecordsExact, PayloadsWellFormed
<1> QED
  BY <1>6, <1>7, <1>8, <1>9 DEF IInv

\* The run that was joined ends: it is counted once more, if it was a whole frame.
LEMMA FlushCounts ==
    ASSUME IInv, ~closed, arrived # <<>>, FlushRtp, key' = key,
           arrived' \in Seq(Fragments), Len(arrived') \in {Len(arrived), Len(arrived) + 1},
           \A i \in 1 .. Len(arrived) : arrived'[i] = arrived[i],
           closed' \in BOOLEAN, Len(arrived') = Len(arrived) => closed',
           Len(arrived') # Len(arrived)
              => ~closed' /\ arrived'[Len(arrived) + 1].frame # number
    PROVE  FramesCounted'
<1> DEFINE n == Len(arrived)
           s == n - Len(fragments) + 1
<1>1. /\ arrived \in Seq(Fragments) /\ closed \in BOOLEAN
      /\ TypeOK /\ JoinedAreLast /\ RecordsExact /\ PayloadsWellFormed
  BY DEF IInv, TypeOK
<1>2. /\ s \in 1 .. n /\ number = arrived[n].frame
      /\ SubSeq(arrived, s, n) = fragments
      /\ \A i \in s .. n : arrived[i].frame = arrived[n].frame
      /\ s > 1 => arrived[s - 1].frame # arrived[n].frame
  BY <1>1, LastRun
<1> HIDE DEF s
<1> SUFFICES ASSUME NEW f \in Frames, f \in Encrypted => key
             PROVE  Cardinality(WholeRuns(arrived', closed', f))
                    = Cardinality(Delivered(payloads', f))
  BY DEF FramesCounted
<1>3. /\ <<s, n>> \notin WholeRuns(arrived, closed, f)
      /\ WholeRuns(arrived', closed', f)
           = IF SubSeq(arrived, s, n) = Whole(f)
             THEN WholeRuns(arrived, closed, f) \cup {<<s, n>>}
             ELSE WholeRuns(arrived, closed, f)
  <2>1. Goes(arrived, s) /\ Ends(arrived, arrived', closed')
    BY <1>2 DEF Goes, Ends
  <2>2. Counted(arrived, arrived', closed, closed', s, f)
    BY <1>1, <1>2, <2>1, RunEnds
  <2> QED
    BY <2>2 DEF Counted
<1>4. IsFiniteSet(WholeRuns(arrived, closed, f))
  BY <1>1, RunsFinite
<1>5. Cardinality(WholeRuns(arrived, closed, f)) \in Nat
  BY <1>4, FS_CardinalityType
<1>6. Cardinality(WholeRuns(arrived', closed', f))
        = Cardinality(WholeRuns(arrived, closed, f)) + (IF fragments = Whole(f) THEN 1 ELSE 0)
  <2>1. CASE fragments = Whole(f)
    <3>1. WholeRuns(arrived', closed', f) = WholeRuns(arrived, closed, f) \cup {<<s, n>>}
      BY <1>2, <1>3, <2>1
    <3> QED
      BY <1>3, <1>4, <2>1, <3>1, FS_AddElement
  <2>2. CASE fragments # Whole(f)
    <3>1. WholeRuns(arrived', closed', f) = WholeRuns(arrived, closed, f)
      BY <1>2, <1>3, <2>2
    <3> QED
      BY <1>5, <2>2, <3>1
  <2> QED
    BY <2>1, <2>2
<1>7. Cardinality(Delivered(payloads', f))
        = Cardinality(Delivered(payloads, f)) + (IF fragments = Whole(f) THEN 1 ELSE 0)
  BY <1>1, FlushKeeps
<1>8. Cardinality(WholeRuns(arrived, closed, f)) = Cardinality(Delivered(payloads, f))
  BY DEF IInv, FramesCounted
<1> QED
  BY <1>6, <1>7, <1>8

\* A fragment of another frame.
LEMMA FlushIInv ==
    ASSUME IInv, ~closed, NEW d \in Fragments, Flushes(d), number' = d.frame,
           arrived' = Append(arrived, d), UNCHANGED <<key, closed>>
    PROVE  IInv'
<1>1. number # d.frame /\ number # NoFrame /\ FlushRtp /\ fragments' = <<d>>
  BY DEF Flushes
<1>2. /\ arrived \in Seq(Fragments) /\ Len(arrived) \in Nat \ {0} /\ arrived # <<>>
      /\ d.frame \in Frames /\ TypeOK /\ RecordsExact /\ PayloadsWellFormed
  <2>1. arrived # <<>>
    BY <1>1 DEF IInv, JoinedAreLast
  <2> QED
    BY <2>1, LenProperties, EmptySeq, FragmentFacts DEF IInv, TypeOK
<1>3. /\ arrived' \in Seq(Fragments) /\ Len(arrived') = Len(arrived) + 1
      /\ \A i \in 1 .. Len(arrived) : arrived'[i] = arrived[i]
      /\ arrived'[Len(arrived) + 1] = d
  BY <1>2, AppendProperties
<1>4. FramesCounted'
  <2>1. Len(arrived') # Len(arrived) /\ closed' \in BOOLEAN /\ ~closed' /\ key' = key
        /\ arrived'[Len(arrived) + 1].frame # number
    BY <1>1, <1>2, <1>3 DEF TypeOK
  <2> QED
    BY <1>1, <1>2, <1>3, <2>1, FlushCounts
<1>5. /\ payloads' \in Seq(Seq(Fragments) \ {<<>>})
      /\ combined' \in Seq(Nat) /\ records' \in Recs /\ RecordsExact'
      /\ \A i \in DOMAIN payloads' : OneFrame(payloads'[i]) /\ WellFormed(payloads'[i])
  BY <1>1, <1>2, FlushKeeps
<1>6. /\ fragments' \in Seq(Fragments) /\ Len(fragments') = 1 /\ DOMAIN fragments' = 1 .. 1
      /\ fragments'[1] = d
  BY <1>1
<1>7. TypeOK'
  BY <1>2, <1>3, <1>5, <1>6 DEF TypeOK, Recs
<1>8. JoinedAreLast'
  <2>1. arrived[Len(arrived)].frame = number
    BY <1>2, LastRun DEF IInv
  <2>2. arrived' # <<>> /\ fragments' # <<>> /\ Len(fragments') <= Len(arrived')
    <3>1. Len(arrived') # 0 /\ Len(fragments') # 0 /\ Len(fragments') <= Len(arrived')
      BY <1>2, <1>3, <1>6
    <3> QED
      BY <3>1, EmptySeq
  <2>3. \A i \in DOMAIN fragments' :
           fragments'[i] = arrived'[Len(arrived') - Len(fragments') + i]
    <3> TAKE i \in DOMAIN fragments'
    <3>1. i = 1 /\ Len(arrived') - Len(fragments') + i = Len(arrived) + 1
      BY <1>2, <1>3, <1>6
    <3> QED
      BY <1>3, <1>6, <3>1
  <2>4. arrived'[Len(arrived') - Len(fragments')].frame # number'
    <3>1. Len(arrived') - Len(fragments') = Len(arrived) /\ Len(arrived) \in 1 .. Len(arrived)
      BY <1>2, <1>3, <1>6
    <3> QED
      BY <1>1, <1>3, <2>1, <3>1
  <2> QED
    BY <2>2, <2>3, <2>4 DEF JoinedAreLast
<1> QED
  BY <1>4, <1>5, <1>7, <1>8 DEF IInv, PayloadsWellFormed

LEMMA CloseKeeps == IInv /\ Close => IInv'
<1> SUFFICES ASSUME IInv, Close PROVE IInv'
  OBVIOUS
<1>1. /\ ~closed /\ closed' = TRUE /\ FlushRtp /\ fragments' = <<>>
      /\ number' = number /\ key' = key /\ arrived' = arrived
  BY DEF Close
<1>2. TypeOK /\ RecordsExact /\ PayloadsWellFormed /\ arrived \in Seq(Fragments)
  BY DEF IInv, TypeOK
<1>3. /\ payloads' \in Seq(Seq(Fragments) \ {<<>>})
      /\ combined' \in Seq(Nat) /\ records' \in Recs /\ RecordsExact'
      /\ \A i \in DOMAIN payloads' : OneFrame(payloads'[i]) /\ WellFormed(payloads'[i])
  BY <1>1, <1>2, FlushKeeps
<1>4. TypeOK'
  <2>1. <<>> \in Seq(Fragments) /\ DOMAIN <<>> = {}
    BY EmptySeq
  <2> QED
    BY <1>1, <1>2, <1>3, <2>1 DEF TypeOK, Recs
<1>5. JoinedAreLast'
  BY <1>1 DEF JoinedAreLast
<1>6. FramesCounted'
  <2>1. CASE arrived # <<>>
    BY <1>1, <1>2, <2>1, FlushCounts
  <2>2. CASE arrived = <<>>
    <3> SUFFICES ASSUME NEW f \in Frames, f \in Encrypted => key
                 PROVE  Cardinality(WholeRuns(arrived', closed', f))
                        = Cardinality(Delivered(payloads', f))
      BY <1>1 DEF FramesCounted
    <3>1. WholeRuns(arrived', closed', f) = {} /\ WholeRuns(arrived, closed, f) = {}
      BY <1>1, <2>2 DEF WholeRuns
    <3>2. ~Passes(fragments, TRUE) /\ ~Passes(fragments, FALSE)
      <4>1. fragments = <<>>
        BY <1>1, <2>2, LenProperties, EmptySeq DEF IInv, TypeOK, JoinedAreLast
      <4> QED
        BY <4>1 DEF Passes, WellFormed
    <3>3. payloads' = payloads
      BY <1>1, <3>2 DEF FlushRtp
    <3> QED
      BY <3>1, <3>3 DEF IInv, FramesCounted
  <2> QED
    BY <2>1, <2>2
<1> QED
  BY <1>3, <1>4, <1>5, <1>6 DEF IInv, PayloadsWellFormed

LEMMA NextIInv == IInv /\ [Next]_vars => IInv'
<1> SUFFICES ASSUME IInv, [Next]_vars PROVE IInv'
  OBVIOUS
<1>1. CASE FragmentArrives
  <2>1. PICK d \in Fragments :
          /\ Joins(d) \/ Flushes(d)
          /\ number' = d.frame /\ arrived' = Append(arrived, d)
    BY <1>1 DEF FragmentArrives
  <2>2. ~closed /\ UNCHANGED <<key, closed>>
    BY <1>1 DEF FragmentArrives
  <2> QED
    BY <2>1, <2>2, JoinKeeps, FlushIInv
<1>2. CASE Close
  BY <1>2, CloseKeeps
<1>3. CASE UNCHANGED vars
  BY <1>3 DEF vars, IInv, TypeOK, RecordsExact, JoinedAreLast, PayloadsWellFormed,
              FramesCounted
<1> QED
  BY <1>1, <1>2, <1>3 DEF Next

\* The invariant: what is joined is the run that goes on, and as many payloads as
\* there were whole frames have passed the checks of _process_payload.
THEOREM Invariant == Spec => []IInv
BY InitIInv, NextIInv, PTL DEF Spec

\* Consistent: no datagram is joined with one of another frame (_handle_media),
\* and the records taken from a payload are exactly those in it
\* (_process_payload), whatever it holds.
THEOREM StaysConsistent == Spec => []Consistent
BY Invariant, InvariantIs, PTL

\* WholeFramesDelivered: a frame whose fragments arrive once each, in order and
\* together is handed to the record splitter, each time (_flush_rtp, close).
THEOREM WholeFramesAreDelivered == Spec => []WholeFramesDelivered
BY Invariant, InvariantIs, PTL

\* DamageNeedsDisorder: the length check of _process_payload lets no payload
\* pass whose fragments arrived in order but not all of them.
THEOREM OrderedIsUndamaged == Spec => []DamageNeedsDisorder
BY Invariant, InvariantIs, PTL
=============================================================================
