-------------------------------- MODULE Sums --------------------------------
(* The sum of the values of a function with a finite domain.                  *)
EXTENDS FiniteSetsExt

Total(f) == MapThenSumSet(LAMBDA x : f[x], DOMAIN f)
=============================================================================
