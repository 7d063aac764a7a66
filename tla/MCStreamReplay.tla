--------------------------- MODULE MCStreamReplay ---------------------------
(* StreamReplay for TLC. *)
EXTENDS StreamReplay, TLC

\* A turn longer than the ring while it runs, and a short one.
Bounds == <<3, 1>>
=============================================================================
