----------------------------- MODULE MCMediaMove -----------------------------
(* Instances of MediaMove for TLC. *)
EXTENDS MediaMove, TLC

CONSTANTS a1, part1, part2

\* One asset of two parts, both moved by every call.
MCOneAsset == {a1}
MCParts == {part1, part2}
MCAssetOfOne == part1 :> a1 @@ part2 :> a1

\* Call slots are interchangeable, and so are prefixes.
Symmetry == Permutations(Requests) \cup Permutations(Prefixes)
=============================================================================
