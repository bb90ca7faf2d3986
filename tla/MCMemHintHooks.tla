--------------------------- MODULE MCMemHintHooks ---------------------------
(* TLC instance of MemHintHooks: three requests and two engines that take  *)
(* turns in every order, and the sequential hooks.                         *)
EXTENDS MemHintHooks
=============================================================================
