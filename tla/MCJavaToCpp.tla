---------------------------- MODULE MCJavaToCpp ----------------------------
(* Bounded instances of JavaToCpp for TLC, and the mutants of its actions. *)
EXTENDS JavaToCpp
=============================================================================
