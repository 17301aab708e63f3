----------------------------- MODULE MCAccounts -----------------------------
(* Two live accounts of one app key and a virtual one.                      *)
EXTENDS Accounts

CONSTANTS a1, a2, v1
=============================================================================
