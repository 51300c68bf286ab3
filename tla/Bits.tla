-------------------------------- MODULE Bits --------------------------------
(***************************************************************************)
(* Unsigned numbers as the sets of their bits: {} is 0, {0} is 1, {0, 31}  *)
(* is 0x80000001.  Registers and command dwords are wider than the         *)
(* integers of the model checker, and shifts and fields are what they are  *)
(* about.  A Python int has any number of bits; an unsigned int of Cython  *)
(* has 32, and a value that does not fit raises OverflowError.             *)
(***************************************************************************)
EXTENDS Integers, FiniteSetsExt

Shl(x, k) == {b + k : b \in x}

Shr(x, k) == {b - k : b \in {c \in x : c >= k}}

Low(x, k) == {b \in x : b < k}

Field(x, at, width) == Low(Shr(x, at), width)

(* x + y: bit i of a sum is odd, carries included. *)
Carries(x, y, i) ==
    \E j \in x \cap y : j < i /\ \A k \in j + 1 .. i - 1 : k \in x \cup y

Plus(x, y) ==
    LET top == IF x \cup y = {} THEN 0 ELSE Max(x \cup y)
    IN  {i \in 0 .. top + 1 :
            (i \in x) # ((i \in y) # Carries(x, y, i))}

(* x - 1 in Python; a negative number fits no unsigned type. *)
Negative == {64}

Minus1(x) == IF x = {} THEN Negative
             ELSE (x \ {Min(x)}) \cup (0 .. Min(x) - 1)

Plus1(x) == Plus(x, {0})

AtMost(x, y) ==
    LET d == (x \ y) \cup (y \ x)
    IN  IF d = {} THEN TRUE ELSE Max(d) \in y

Fits(x, width) == x \subseteq 0 .. width - 1

Num(n) == {b \in 0 .. 30 : (n \div 2^b) % 2 = 1}
=============================================================================
