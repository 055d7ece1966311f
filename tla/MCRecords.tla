------------------------------ MODULE MCRecords ------------------------------
(***************************************************************************)
(* An instance of Records: the accounts of MCAccounts; two locations in    *)
(* one warehouse and one in another; two customers and a supplier with two *)
(* CPFs and a CNPJ, and for overlapping requests a customer and a supplier *)
(* with two addresses; one product with two categories and two units;      *)
(* three rows on pages of one; stock of a product in two locations.        *)
(***************************************************************************)
EXTENDS Records, MCAccounts

CONSTANTS w1, w2, l1, l2, l3, cpf1, cpf2, cnpj, c1, c2, s1, a1, a2,
          p1, ca1, ca2, u1, u2, v1, v2

Homes == [l \in {l1, l2, l3} |-> IF l = l3 THEN w2 ELSE w1]
OneHome == [l \in {l1, l2} |-> w1]
DocumentTypes == [d \in {cpf1, cpf2, cnpj} |-> IF d = cnpj THEN "COMPANY" ELSE "INDIVIDUAL"]

Alike == Interchangeable \cup Permutations({v1, v2})
=============================================================================
