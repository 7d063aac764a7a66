-------------------------- MODULE MCSegmentRefresh --------------------------
(* SegmentRefresh with the symmetry of its segments, for the safety runs. *)
EXTENDS SegmentRefresh, TLC

Symmetry == Permutations(Segment)
=============================================================================
