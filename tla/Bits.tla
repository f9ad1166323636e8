-------------------------------- MODULE Bits --------------------------------
(***************************************************************************)
(* The operators & and | of C on numbers of up to 21 bits, as many as a    *)
(* Unicode code point has.                                                 *)
(***************************************************************************)
EXTENDS Naturals, FiniteSetsExt

Ones(n) == {k \in 0..20 : (n \div 2 ^ k) % 2 = 1}
Sum2(bits) == SumSet({2 ^ k : k \in bits})

a & b == Sum2(Ones(a) \cap Ones(b))
a | b == Sum2(Ones(a) \cup Ones(b))
=============================================================================
