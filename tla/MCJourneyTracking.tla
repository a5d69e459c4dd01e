------------------------- MODULE MCJourneyTracking -------------------------
(* Small instances of JourneyTracking for TLC.                                *)
EXTENDS JourneyTracking, TLC

\* Sampling processes differ by nothing (safety runs only).
Interchangeable == Permutations(Samplers)
=============================================================================
