----------------------------- MODULE MCMiningJob -----------------------------
(* Blocks of up to 9 transactions (five levels), heights that are pushed by *)
(* an opcode and by one to four bytes, nonces of eight bytes and of two.    *)
EXTENDS MiningJob

MCHeights == {<<0>>, <<81>>, <<96>>, <<1, 17>>, <<2, 0, 1>>,
              <<3, 160, 134, 1>>, <<4, 255, 255, 255, 15>>}
MCNonces  == {[j \in 1..8 |-> 7], <<6, 2>>}
MCPrefix    == [j \in 1..41 |-> 1]
MCRest    == <<3, 9, 9, 9>>
MCSuffix    == <<2, 2, 2>>
MCNonce2  == <<13, 0, 0, 0>>
=============================================================================
