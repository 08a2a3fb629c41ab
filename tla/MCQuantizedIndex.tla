-------------------------- MODULE MCQuantizedIndex --------------------------
(* The instance of QuantizedIndex for TLC: the last value lies outside of  *)
(* the sample and its margin.                                              *)
EXTENDS QuantizedIndex

MCSamples == {{0, 2}, {1, 5}}
Alike == Permutations(Clients)
=============================================================================
