-------------------------------- MODULE SInt --------------------------------
(***************************************************************************)
(* The machine integers of the range analysis (CHIR/Analysis/SInt.cpp).    *)
(* An SInt is a bit pattern of some width w; it is modelled as a natural   *)
(* number below 2^w, and the width by h = 2^(w-1), half of the modulus,    *)
(* which is also the pattern of the smallest signed value.  Every operator *)
(* takes h last.  Patterns are compared as unsigned numbers by < and <=,   *)
(* as signed ones through SVal.                                            *)
(***************************************************************************)
EXTENDS Integers

SIntPatterns(h) == 0 .. 2 * h - 1

UMaxValue(h) == 2 * h - 1
SMaxValue(h) == h - 1
SMinValue(h) == h

IsNeg(a, h) == a >= h
IsNonNeg(a, h) == a < h
IsPositive(a, h) == 0 < a /\ a < h

\* The signed value of a pattern.
SVal(a, h) == IF IsNeg(a, h) THEN a - 2 * h ELSE a

Slt(a, b, h) == SVal(a, h) < SVal(b, h)
Sle(a, b, h) == SVal(a, h) <= SVal(b, h)

USmaller(a, b) == IF a <= b THEN a ELSE b
ULarger(a, b) == IF a >= b THEN a ELSE b

\* Addition, subtraction and negation of patterns, modulo 2^w.
Plus(a, b, h) == IF a + b >= 2 * h THEN a + b - 2 * h ELSE a + b
Minus(a, b, h) == IF a >= b THEN a - b ELSE a - b + 2 * h
Neg(a, h) == Minus(0, a, h)
Succ(a, h) == Plus(a, 1, h)
Pred(a, h) == Minus(a, 1, h)
Times(a, b, h) == (a * b) % (2 * h)

-----------------------------------------------------------------------------
(* Division truncates towards zero and the remainder follows the dividend.  *)

UDiv(a, b) == a \div b
URem(a, b) == a % b

Magnitude(a, h) == IF IsNeg(a, h) THEN Neg(a, h) ELSE a

\* SDiv(SMinValue, -1) is SMinValue: the magnitudes divide to 2^(w-1).
SDiv(a, b, h) ==
    LET q == UDiv(Magnitude(a, h), Magnitude(b, h))
    IN  IF IsNeg(a, h) # IsNeg(b, h) THEN Neg(q, h) ELSE q

SRem(a, b, h) ==
    LET r == URem(Magnitude(a, h), Magnitude(b, h))
    IN  IF IsNeg(a, h) THEN Neg(r, h) ELSE r

-----------------------------------------------------------------------------
(* Overflow of the three operations, as the code detects it from the        *)
(* pattern it computed.                                                     *)

UAddOvf(a, b, h) == Plus(a, b, h) < b
USubOvf(a, b, h) == Minus(a, b, h) > a

SAddOvf(a, b, h) ==
    IsNeg(a, h) = IsNeg(b, h) /\ IsNeg(Plus(a, b, h), h) # IsNeg(a, h)

SSubOvf(a, b, h) ==
    IsNeg(a, h) # IsNeg(b, h) /\ IsNeg(Minus(a, b, h), h) # IsNeg(a, h)

\* The product divided by b is compared with a.
SMulOvf(a, b, h) ==
    b # 0 /\ \/ SDiv(Times(a, b, h), b, h) # a
             \/ a = SMinValue(h) /\ b = UMaxValue(h)

\* The number of bits a pattern uses: the width less the leading zeros.
ActiveBits(a) ==
    LET bits[n \in 0 .. a] == IF n = 0 THEN 0 ELSE 1 + bits[n \div 2]
    IN  bits[a]

\* A product of enough active bits overflows; otherwise a is halved, and the
\* doubling of the half product and the addition of b for an odd a are tested.
UMulOvf(a, b, h) ==
    LET halfProduct == Times(a \div 2, b, h)
        doubled == Times(halfProduct, 2, h)
    IN  \/ ActiveBits(a) + ActiveBits(b) >= ActiveBits(h) + 2
        \/ IsNeg(halfProduct, h)
        \/ a % 2 = 1 /\ Plus(doubled, b, h) < b

-----------------------------------------------------------------------------
(* The saturating operations clamp at the end the exact result lies beyond. *)

UAddSat(a, b, h) == IF UAddOvf(a, b, h) THEN UMaxValue(h) ELSE Plus(a, b, h)
USubSat(a, b, h) == IF USubOvf(a, b, h) THEN 0 ELSE Minus(a, b, h)
UMulSat(a, b, h) == IF UMulOvf(a, b, h) THEN UMaxValue(h) ELSE Times(a, b, h)

SEnd(negative, h) == IF negative THEN SMinValue(h) ELSE SMaxValue(h)

SAddSat(a, b, h) ==
    IF SAddOvf(a, b, h) THEN SEnd(IsNeg(a, h), h) ELSE Plus(a, b, h)
SSubSat(a, b, h) ==
    IF SSubOvf(a, b, h) THEN SEnd(IsNeg(a, h), h) ELSE Minus(a, b, h)
SMulSat(a, b, h) ==
    IF SMulOvf(a, b, h) THEN SEnd(IsNeg(a, h) # IsNeg(b, h), h) ELSE Times(a, b, h)
SDivSat(a, b, h) ==
    IF b = UMaxValue(h) /\ a = SMinValue(h) THEN SMaxValue(h) ELSE SDiv(a, b, h)

-----------------------------------------------------------------------------
(* Change of width, from half modulus h to half modulus d.  Zero extension  *)
(* leaves the pattern as it is.                                             *)

Trunc(a, d) == a % (2 * d)
SExt(a, h, d) == IF IsNeg(a, h) THEN a + 2 * d - 2 * h ELSE a
=============================================================================
