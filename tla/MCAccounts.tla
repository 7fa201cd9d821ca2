----------------------------- MODULE MCAccounts -----------------------------
(* Accounts on a small instance: two registrations of one e-mail. *)
EXTENDS Accounts

CONSTANTS reg1, reg2, email1, replica1, replica2, request1

MCEmail == [r \in {reg1, reg2} |-> email1]
=============================================================================
