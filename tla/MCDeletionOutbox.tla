--------------------------- MODULE MCDeletionOutbox ---------------------------
(* Two jobs of one key for TLC: what one worker learns of the key decides two *)
(* jobs, and two workers may hold one job each.                               *)
EXTENDS DeletionOutbox, TLC

CONSTANTS j1, j2, k1

MCJobs == {j1, j2}
MCKeys == {k1}
MCKeyOf == j1 :> k1 @@ j2 :> k1
=============================================================================
