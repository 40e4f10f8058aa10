------------------------- MODULE MCProviderRateLimit -------------------------
(* Instances of ProviderRateLimit for TLC.                                  *)
EXTENDS ProviderRateLimit, TLC

(* Streams of the same kind of provider are alike.                          *)
StreamSymmetry == Permutations(Stream \ Native)
=============================================================================
