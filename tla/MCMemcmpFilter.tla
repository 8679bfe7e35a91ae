---------------------------- MODULE MCMemcmpFilter ---------------------------
(* MemcmpFilter with short contents, for what is matched, and with contents  *)
(* around the limits, for what is measured.  A byte is 0 or 255.             *)
EXTENDS MemcmpFilter

Short == UNION {[1..n -> {0, 255}] : n \in 0..2}

Filled(n, byte) == [i \in 1..n |-> byte]

\* Lengths at which a limit on bytes, base58 or base64 text is just met or missed.
Boundary == {126, 127, 128, 129, 130, 172, 173, 175, 176}

MCPayloads == Short \cup {Filled(n, byte) : n \in Boundary, byte \in {0, 255}}

MCOffsets == 0..3

MCAccountData == UNION {[1..n -> {0, 255}] : n \in 0..3}
==============================================================================
