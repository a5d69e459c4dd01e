-------------------------- MODULE MCExchangeListing --------------------------
(* Small instances of ExchangeListing for TLC.                                *)
EXTENDS ExchangeListing, TLC

\* Bids differ by what they offer, not by who they are (safety runs only).
Interchangeable == Permutations(Bids)
=============================================================================
