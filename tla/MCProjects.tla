----------------------------- MODULE MCProjects -----------------------------
(***************************************************************************)
(* Small instances of Projects.  MCAccounts: an account's browser and its  *)
(* agent key.  MCBrowser: an anonymous browser that may sign in.           *)
(***************************************************************************)
EXTENDS Projects, TLC

CONSTANTS b1, uid, d1, d2

As(an, u, ag) == [anon |-> an, uid |-> u, agent |-> ag]

MCAccounts == {As(None, uid, FALSE), As(None, uid, TRUE)}
MCBrowser == {As(b1, None, FALSE), As(b1, uid, FALSE)}

MCBytes == (d1 :> 0) @@ (d2 :> 2)
MCLimit == [anonymous |-> 1, firebase |-> 2]
MCByteLimit == [anonymous |-> 2, firebase |-> 4]
KeySymmetry == Permutations(Key)
=============================================================================
