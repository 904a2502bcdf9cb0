------------------------------ MODULE MCMiner -------------------------------
(* u64 is 0..3, so each of two threads wraps after two nonces.  The         *)
(* headers: one solution; two solutions in both strides; none; and one      *)
(* whose difficulty admits nonces the miner's own target does not.          *)
EXTENDS Miner

Header(difficulty, p0, p1, p2, p3) ==
    [difficulty |-> difficulty,
     pow |-> [n \in Nonces |-> <<p0, p1, p2, p3>>[n + 1]]]

MCHeaders == {Header(3, 9, 9, 9, 3), Header(5, 9, 1, 4, 9), Header(5, 9, 9, 9, 9),
              Header(2, 3, 3, 9, 2)}
=============================================================================
