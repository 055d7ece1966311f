----------------------------- MODULE MCAccounts -----------------------------
(***************************************************************************)
(* Instances of Accounts: the founder, a second user, the system role and, *)
(* where roles are the question, a role that may or may not administer.    *)
(***************************************************************************)
EXTENDS Accounts, TLC

CONSTANTS founder, other, system, extra, t1, t2

AllPermissions == Administrative
SystemOnly == {{system}}
ExtraRole == {{}, {extra}}
Administering == {{"users.manage_roles"}, {}}
None == {}
Overlapping == {t1, t2}
Interchangeable == Permutations(Overlapping)
=============================================================================
