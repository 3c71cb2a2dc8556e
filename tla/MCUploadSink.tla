----------------------------- MODULE MCUploadSink -----------------------------
(* Small instances of UploadSink for TLC.                                    *)
EXTENDS UploadSink, TLC

CONSTANTS k1, k2

OneKey == {k1}
TwoKeys == {k1, k2}
MCSymmetry == Permutations(TwoKeys)
===============================================================================
