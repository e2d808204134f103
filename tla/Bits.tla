-------------------------------- MODULE Bits --------------------------------
(***************************************************************************)
(* Words and bytes as the sets of their one bits, bit 0 the lowest: "|" is *)
(* \cup, "&" is \cap and "^" is Xor; a word of n bits is a subset of       *)
(* 0 .. n-1, and what a shift moves out of it is lost.                     *)
(***************************************************************************)
EXTENDS Integers, FiniteSetsExt

Word(n) == SUBSET (0 .. n - 1)

Ones(n) == 0 .. n - 1

Xor(a, b) == (a \ b) \cup (b \ a)

Shl(w, k, n) == {b + k : b \in w} \cap 0 .. n - 1

Shr(w, k) == {b - k : b \in {c \in w : c >= k}}

\* Bits hi down to lo.
Field(w, hi, lo) == Shr(w \cap lo .. hi, lo)

\* A number below 2^31 as a word.
Number(v) == {b \in 0 .. 30 : (v \div 2^b) % 2 = 1}

Value(w) == MapThenSumSet(LAMBDA b : 2^b, w)

\* w + 1, for a word below 2^62.
Increment(w) ==
    LET carry == CHOOSE b \in 0 .. 62 : b \notin w /\ Ones(b) \subseteq w
    IN (w \ Ones(carry)) \cup {carry}

\* F(w), with the word w computed once, before F is: TLC passes arguments
\* unevaluated, and a register that is shifted n times would be n deep.
Then(w, F(_)) == UNION {F(v) : v \in {w}}

\* A bool as a word of one bit.
Flag(b) == IF b THEN {0} ELSE {}

\* A word of n bytes, the first byte the highest, and back.
Bytes(w, n) == [i \in 0 .. n - 1 |-> Field(w, 8 * (n - i) - 1, 8 * (n - i - 1))]

FromBytes(bytes, n) ==
    UNION {Shl(bytes[i], 8 * (n - i - 1), 8 * n) : i \in 0 .. n - 1}
=============================================================================
