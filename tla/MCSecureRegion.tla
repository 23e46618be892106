--------------------------- MODULE MCSecureRegion ---------------------------
(* Constant values for model checking SecureRegion.                        *)
EXTENDS SecureRegion, TLC

\* PLUS_CAPABILITY, and BOTH_CAPABILITY as well.
MCPlus == {{"plus"}}
MCTypes == {{"plus"}, {"plus", "minus"}}

\* Threads start alike, and so do objects.
MCSymmetry == Permutations(Threads) \cup Permutations(Objects)
============================================================================
