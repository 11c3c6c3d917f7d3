----------------------------- MODULE MCAccounts -----------------------------
(***************************************************************************)
(* Accounts for TLC: one owner of one of two buildings, one staff member,  *)
(* and one resident whose tokens and memberships they manage.              *)
(***************************************************************************)
EXTENDS Accounts

CONSTANTS owner, b1, b2

MCOwnedBy == [o \in {owner} |-> {b1}]
MCRoles == {"resident"}
MCCodesOf == [resident |-> {"view", "control_devices"}]
=============================================================================
