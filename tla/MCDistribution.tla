--------------------------- MODULE MCDistribution ---------------------------
(* Instances of Distribution for TLC: balances that meet each bucket's       *)
(* boundary, and one of a holder whose first transfers were not scanned.     *)
EXTENDS Distribution

MCValues == {1, 2, 9, 99, 999, 9999, -5}
=============================================================================
