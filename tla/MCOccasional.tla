---------------------------- MODULE MCOccasional ----------------------------
(***************************************************************************)
(* Instances of Occasional for TLC.                                        *)
(***************************************************************************)
EXTENDS Occasional

CONSTANTS t1, t2, t3

Site(m, k) == [macro |-> m, n |-> k]

\* LOG_IF_EVERY_N with n = 1 is special: 1 % n is 0.
AllMacros == {Site("EVERY_N", 3), Site("IF_EVERY_N", 1), Site("IF_EVERY_N", 3),
              Site("FIRST_N", 3), Site("EVERY_T", 1)}
EveryThree == {Site("EVERY_N", 3)}
=============================================================================
