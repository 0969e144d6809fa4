------------------------------- MODULE MCPoTage -------------------------------
(* Small tables: two branches, two path lengths, a path buffer and a global *)
(* history that wrap within a behaviour.                                    *)
EXTENDS PoTagePredictor

MCHist == <<1, 3>>
MCGehl == <<1, 3>>
MCRhsp == <<2, 4>>
(* A loop: a branch over a jump, and the branch back. *)
MCBranch == {<<40, 104, 64, 104>>, <<104, 8, 40, 40>>}
MCJump == {<<64, 8, 40>>}
(* Either sum small and large, of either sign. *)
MCSums == {<<1, 0>>, <<-3, 8>>}
=============================================================================
