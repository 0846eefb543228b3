----------------------------- MODULE MCMediaFrames ----------------------------
(* Instances of MediaFrames for TLC. *)
EXTENDS MediaFrames, SequencesExt

\* A frame of three datagrams, the last one short, and an encrypted one of two.
SmallSizes == 1 :> <<2, 2, 1>> @@ 2 :> <<2, 2>>

\* Lengths zero, right, one short and beyond the end; units that are no lengths.
SmallContents == BoundedSeq({0, 1, 2}, 4)
=============================================================================
