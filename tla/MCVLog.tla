------------------------------- MODULE MCVLog -------------------------------
(***************************************************************************)
(* Instances of VLog for TLC.                                              *)
(***************************************************************************)
EXTENDS VLog, TLC

CONSTANTS t1, t2, x, y, z, a, b

\* The sites x and y are in module ab, z is in module b.
Modules == [s \in Sites |-> IF s = z THEN <<b>> ELSE <<a, b>>]

CharSet == {a, b, Star, Query}

PatternSet == {<<a, b>>, <<b>>, <<Star, b>>, <<a, Star>>, <<Query, b>>, <<a, b, Star, Star>>}

Flag == <<[module_pattern |-> <<b>>, vlog_level |-> 1]>>

ThreadSymmetry == Permutations({t1, t2})
=============================================================================
