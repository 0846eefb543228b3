---------------------------- MODULE MCRecordGate ----------------------------
(* Model checking of RecordGate.                                             *)
EXTENDS RecordGate

\* Parameter sets on their own, in front of a key frame, and only one of them
\* in front of it; key frames and other slices on their own.
SmallRecords ==
    {<<"sps">>, <<"pps">>, <<"idr">>, <<"other">>,
     <<"sps", "pps", "idr">>, <<"pps", "idr">>}
=============================================================================
