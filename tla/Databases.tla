----------------------------- MODULE Databases -----------------------------
(* The databases of one server, for the modules that share them. *)
EXTENDS Integers, FiniteSets

CONSTANT Db

ASSUME DbAssumption == IsFiniteSet(Db)
=============================================================================
