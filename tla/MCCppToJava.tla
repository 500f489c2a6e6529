---------------------------- MODULE MCCppToJava ----------------------------
(* Bounded instances of CppToJava for TLC. *)
EXTENDS CppToJava
=============================================================================
