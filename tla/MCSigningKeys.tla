--------------------------- MODULE MCSigningKeys ---------------------------
(* A small instance of SigningKeys: two threads, two keys.                 *)
EXTENDS SigningKeys
=============================================================================
