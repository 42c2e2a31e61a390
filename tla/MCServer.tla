------------------------------- MODULE MCServer -------------------------------
(* Two threads; two devices beside the bootstrap row; two seqs of the meter, *)
(* each sent by two boots, one of the rows failing the acceptance rule.      *)
EXTENDS Server, TLC

MCRows == [boot : 1 .. 2, seq : 1 .. 2]
MCRejected == {[boot |-> 2, seq |-> 2]}
MCBatches == {<<r>> : r \in MCRows} \cup {<<[boot |-> 1, seq |-> 1], [boot |-> 1, seq |-> 2]>>}

ThreadSymmetry == Permutations(Threads)
=============================================================================
