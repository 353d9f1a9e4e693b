------------------------------- MODULE MCTodo -------------------------------
(***************************************************************************)
(* Todo for TLC: two overlapping calls of one user, limits of one and two. *)
(***************************************************************************)
EXTENDS Todo, TLC

MCScope == {"CREATE", "DELETE", "CLEAR_COMPLETED"}
MCLimit == [s \in MCScope |-> IF s = "CREATE" THEN 2 ELSE 1]
Calls == Permutations(Call)
=============================================================================
