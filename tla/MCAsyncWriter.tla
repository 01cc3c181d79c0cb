--------------------------- MODULE MCAsyncWriter ---------------------------
(***************************************************************************)
(* Small instance of AsyncWriter: one project's content fields, its        *)
(* security fields and a cluster record.                                   *)
(***************************************************************************)
EXTENDS AsyncWriter, TLC

CONSTANTS content, policy, member

MCKey == {content, policy, member}

\* An upload, which reads the policy it depends on, and a policy change.
ContentAndPolicy == {
    [reads |-> {content, policy}, writes |-> {content}, dels |-> {}, hint |-> TRUE],
    [reads |-> {content, policy}, writes |-> {policy}, dels |-> {}, hint |-> FALSE]}

NodeSymmetry == Permutations(Node)
=============================================================================
