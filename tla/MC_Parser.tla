------------------------------- MODULE MC_Parser -------------------------------
(***************************************************************************)
(* CredentialParser over every credential of up to MaxLen digits.          *)
(***************************************************************************)
EXTENDS CredentialEncoding

CONSTANT MaxLen

AllCredentials == UNION {[1 .. n -> 0 .. Base - 1] : n \in 0 .. MaxLen}
=============================================================================
