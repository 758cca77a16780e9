------------------------------- MODULE MCSession ------------------------------
(* Session on a small instance. *)
EXTENDS Session

\* Digests on both sides of the limit of 20 bits.
SomeHashes == {<<0, 0, 15>>, <<0, 0, 16>>}

\* The bit test agrees with the number, for every number of bits.
ASSUME \A n \in 0 .. 23, b \in {0, 1, 2, 4, 8, 16, 32, 64, 128, 255}, i \in 1 .. 3 :
         LET hash == [<<0, 0, 0>> EXCEPT ![i] = b]
         IN  S!hasLeadingZeros(hash, n) <=> S!Meets(hash, n)

===============================================================================
