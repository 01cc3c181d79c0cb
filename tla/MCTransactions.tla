--------------------------- MODULE MCTransactions ---------------------------
(***************************************************************************)
(* Small instance of Transactions: two clients on two nodes.               *)
(***************************************************************************)
EXTENDS Transactions, TLC

CONSTANTS c1, c2, n1, n2

MCHome == (c1 :> n1) @@ (c2 :> n2)
=============================================================================
