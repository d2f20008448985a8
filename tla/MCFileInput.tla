----------------------------- MODULE MCFileInput ----------------------------
(* Two files: a sound one of two records, and one that may fail. *)
EXTENDS FileInput
mcSize == <<2, 1>>
mcRecords == <<2, 1>>
=============================================================================
