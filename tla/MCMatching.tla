----------------------------- MODULE MCMatching -----------------------------
(***************************************************************************)
(* Small instances of Matching for TLC.                                    *)
(***************************************************************************)
EXTENDS Matching, TLC

CONSTANTS s1, s2, r1, r2

\* Two partitions whose requests compete for the agents; behind one of them is a
\* message that does not decode, whose commit covers the request before it.
InLine == s1 :> <<r1, Garbage>> @@ s2 :> <<r2>>

Symmetry == Permutations(Agents)
=============================================================================
