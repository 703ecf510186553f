----------------------------- MODULE MCMigrate -----------------------------
(* Bounded instance of Migrate for TLC; the constants are plain values. *)
EXTENDS Migrate
=============================================================================
