---------------------------- MODULE MCLzwCoding ----------------------------
(* Frames for LzwCoding: every short frame of two symbols, longer ones     *)
(* that repeat themselves little or much, and one of 312 symbols that      *)
(* fills its last byte with the real parameters.                           *)
EXTENDS LzwCoding

Scatter(n, factor, modulus) ==
  [i \in 1..n |-> ((i * i * factor) % modulus) % 2 ^ Minimum]

MCInputs == UNION {[1..n -> {0, 1}] : n \in 1..6}
              \cup {Scatter(n, f, m) : n \in 7..60, f \in {1, 7}, m \in {7, 61}}

MCAuditedFrame == {Scatter(312, 29, 1009)}
=============================================================================
