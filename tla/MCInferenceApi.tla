---------------------------- MODULE MCInferenceApi ----------------------------
(* Small instances of InferenceApi for TLC.                                *)
EXTENDS InferenceApi, TLC

CONSTANTS s1, s2, plain

StreamsInterchangeable == Permutations({s1, s2})
===============================================================================
