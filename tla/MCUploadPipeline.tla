--------------------------- MODULE MCUploadPipeline ---------------------------
(* A small instance of UploadPipeline for TLC: one file.                     *)
EXTENDS UploadPipeline

CONSTANT k1
OneKey == {k1}
===============================================================================
