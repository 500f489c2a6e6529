---------------------------- MODULE MCCppStrings ----------------------------
(* A bounded instance of CppStrings for TLC. *)
EXTENDS CppStrings
=============================================================================
