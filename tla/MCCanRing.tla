------------------------------ MODULE MCCanRing ------------------------------
(* Instances of CanRing.                                                     *)
EXTENDS CanRing

\* Raw frames with identifiers 0x1F0 and 0x007 that pass, 0x7DF that the
\* filter rejects, and one with a data length of 9.
RawMixed == {<<62, 0, 4>>, <<0, 224, 8>>, <<251, 224, 0>>, <<62, 0, 9>>}

=============================================================================
