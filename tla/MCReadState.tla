----------------------------- MODULE MCReadState -----------------------------
(* ReadState on small instances.                                             *)
EXTENDS ReadState, TLC

(* Cards are told apart by what is written on them, threads by their rows.   *)
ReadSymmetry == {p @@ q : p \in Permutations(Cards), q \in Permutations(Threads)}
=============================================================================
