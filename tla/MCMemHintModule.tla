-------------------------- MODULE MCMemHintModule --------------------------
(* TLC instance of MemHintModule: two files and two sysfs operations. *)
EXTENDS MemHintModule
=============================================================================
