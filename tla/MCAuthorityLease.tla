-------------------------- MODULE MCAuthorityLease --------------------------
(* Three voters; any two of them are a quorum. *)
EXTENDS AuthorityLease, TLC

MCQuorum == {Q \in SUBSET Node : 2 * Cardinality(Q) > Cardinality(Node)}
NodeSymmetry == Permutations(Node)
=============================================================================
