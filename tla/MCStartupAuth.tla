----------------------------- MODULE MCStartupAuth -----------------------------
(***************************************************************************)
(* An instance of StartupAuth for TLC: two clients, every setting present, *)
(* empty or missing.                                                       *)
(***************************************************************************)
EXTENDS StartupAuth

MCTexts == {"", "amina", "secret"}

=============================================================================
