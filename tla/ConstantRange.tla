--------------------------- MODULE ConstantRange ---------------------------
(***************************************************************************)
(* Sets of machine integers that are intervals modulo 2^w                  *)
(* (CHIR/Analysis/ConstantRange.cpp): [lower, upper) counts up from lower, *)
(* wrapping past the largest pattern, and stops before upper.  Two equal   *)
(* ends stand for the full set when they are the largest pattern and for   *)
(* the empty set when they are zero; no other equal ends are legal.        *)
(***************************************************************************)
EXTENDS SInt

Interval(lower, upper, h) == [lower |-> lower, upper |-> upper, half |-> h]

Empty(h) == Interval(0, 0, h)
Full(h) == Interval(UMaxValue(h), UMaxValue(h), h)
Single(v, h) == Interval(v, Succ(v, h), h)

\* The ranges the constructor accepts: its assertion on equal ends.
IsRange(r) ==
    /\ r.lower \in SIntPatterns(r.half)
    /\ r.upper \in SIntPatterns(r.half)
    /\ r.lower = r.upper => r.lower \in {0, UMaxValue(r.half)}

RangesOf(h) ==
    {r \in [lower : SIntPatterns(h), upper : SIntPatterns(h), half : {h}] : IsRange(r)}

\* Mutated: equal ends are kept as they are.
EqualEndsKept(l, u, h) == Interval(l, u, h)

NonEmpty(l, u, h) == IF l = u THEN Full(h) ELSE Interval(l, u, h)

IsFullSet(r) == r.lower = r.upper /\ r.lower = UMaxValue(r.half)
IsEmptySet(r) == r.lower = r.upper /\ r.lower = 0
IsSingleElement(r) == r.upper = Succ(r.lower, r.half)

IsUpperWrapped(r) == r.lower > r.upper
IsWrappedSet(r) == r.lower > r.upper /\ r.upper # 0
IsUpperSignWrapped(r) == Slt(r.upper, r.lower, r.half)
IsSignWrappedSet(r) == Slt(r.upper, r.lower, r.half) /\ r.upper # SMinValue(r.half)

Contains(r, v) ==
    CASE r.lower = r.upper  -> IsFullSet(r)
      [] r.lower < r.upper  -> r.lower <= v /\ v < r.upper
      [] r.lower > r.upper  -> r.lower <= v \/ v < r.upper

\* upper - lower is the size of a range that is not full.
IsSizeStrictlySmallerThan(a, b) ==
    /\ ~IsFullSet(a)
    /\ \/ IsFullSet(b)
       \/ Minus(a.upper, a.lower, a.half) < Minus(b.upper, b.lower, b.half)

\* The set of the values v' with v' rel v, the ends taken in the signed or in
\* the unsigned order.
From(rel, v, signed, h) ==
    LET least    == IF signed THEN SMinValue(h) ELSE 0
        greatest == IF signed THEN SMaxValue(h) ELSE UMaxValue(h)
    IN  CASE rel = "LT" /\ v = least    -> Empty(h)
          [] rel = "GT" /\ v = greatest -> Empty(h)
          [] rel = "LE" /\ v = greatest -> Full(h)
          [] rel = "GE" /\ v = least    -> Full(h)
          [] rel = "EQ" -> Single(v, h)
          [] rel = "NE" -> Interval(Succ(v, h), v, h)
          [] rel = "GE" /\ v # least    -> Interval(v, Succ(greatest, h), h)
          [] rel = "GT" /\ v # greatest -> Interval(Succ(v, h), Succ(greatest, h), h)
          [] rel = "LE" /\ v # greatest -> Interval(least, Succ(v, h), h)
          [] rel = "LT" /\ v # least    -> Interval(least, v, h)

UMaxOf(r) ==
    IF IsFullSet(r) \/ IsUpperWrapped(r) THEN UMaxValue(r.half) ELSE Pred(r.upper, r.half)
UMinOf(r) ==
    IF IsFullSet(r) \/ IsWrappedSet(r) THEN 0 ELSE r.lower
SMaxOf(r) ==
    IF IsFullSet(r) \/ IsUpperSignWrapped(r) THEN SMaxValue(r.half) ELSE Pred(r.upper, r.half)
SMinOf(r) ==
    IF IsFullSet(r) \/ IsSignWrappedSet(r) THEN SMinValue(r.half) ELSE r.lower

-----------------------------------------------------------------------------
(* Set operations.  When the exact result is not an interval, one of two    *)
(* covers of it is returned: type is the preference between them.           *)

PreferredRangeType == {"Smallest", "Unsigned", "Signed"}
PreferFromBool(unsigned) == IF unsigned THEN "Unsigned" ELSE "Signed"

\* Mutated: the first cover is taken, whatever its size.
FirstRange(a, b, type) == a

GetPreferredRange(a, b, type) ==
    LET wrapped(r) == \/ type = "Unsigned" /\ IsWrappedSet(r)
                      \/ type = "Signed" /\ IsSignWrappedSet(r)
    IN  IF wrapped(a) # wrapped(b)
        THEN IF wrapped(b) THEN a ELSE b
        ELSE IF IsSizeStrictlySmallerThan(a, b) THEN a ELSE b

\* a and b both reach over the end of the unsigned order.
IntersectBothWrapped(a, b, type) ==
    CASE b.upper < a.upper /\ b.lower < a.upper -> GetPreferredRange(a, b, type)
      [] b.upper < a.upper /\ a.upper <= b.lower /\ b.lower < a.lower ->
            Interval(a.lower, b.upper, a.half)
      [] b.upper < a.upper /\ a.upper <= b.lower /\ a.lower <= b.lower -> b
      [] a.upper <= b.upper /\ b.upper <= a.lower ->
            IF b.lower < a.lower THEN a ELSE Interval(b.lower, a.upper, a.half)
      [] a.upper <= b.upper /\ a.lower < b.upper -> GetPreferredRange(a, b, type)

IntersectWrappedWithUnwrapped(a, b, type) ==
    IF b.lower < a.upper
    THEN CASE b.upper < a.upper -> b
           [] a.upper <= b.upper /\ b.upper <= a.lower -> Interval(b.lower, a.upper, a.half)
           [] a.lower < b.upper -> GetPreferredRange(a, b, type)
    ELSE CASE a.lower <= b.lower -> b
           [] b.lower < a.lower /\ b.upper <= a.lower -> Empty(a.half)
           [] b.lower < a.lower /\ a.lower < b.upper -> Interval(a.lower, b.upper, a.half)

IntersectBothUnwrapped(a, b) ==
    IF a.lower < b.lower
    THEN CASE a.upper <= b.lower -> Empty(a.half)
           [] b.lower < a.upper /\ a.upper < b.upper -> Interval(b.lower, a.upper, a.half)
           [] b.lower < a.upper /\ b.upper <= a.upper -> b
    ELSE CASE b.upper <= a.lower -> Empty(a.half)
           [] a.lower < b.upper /\ b.upper < a.upper -> Interval(a.lower, b.upper, a.half)
           [] a.lower < b.upper /\ a.upper <= b.upper -> a

IntersectWith(a, b, type) ==
    IF IsEmptySet(a) \/ IsFullSet(b) THEN a
    ELSE IF IsEmptySet(b) \/ IsFullSet(a) THEN b
    ELSE CASE IsUpperWrapped(a) /\ IsUpperWrapped(b)   -> IntersectBothWrapped(a, b, type)
           [] IsUpperWrapped(a) /\ ~IsUpperWrapped(b)  -> IntersectWrappedWithUnwrapped(a, b, type)
           [] ~IsUpperWrapped(a) /\ IsUpperWrapped(b)  -> IntersectWrappedWithUnwrapped(b, a, type)
           [] ~IsUpperWrapped(a) /\ ~IsUpperWrapped(b) -> IntersectBothUnwrapped(a, b)

UnionBothWrapped(a, b) ==
    IF b.lower <= a.upper \/ a.lower <= b.upper
    THEN Full(a.half)
    ELSE Interval(USmaller(a.lower, b.lower), ULarger(a.upper, b.upper), a.half)

UnionWrappedWithUnwrapped(a, b, type) ==
    IF b.lower <= a.upper
    THEN CASE b.upper < a.upper -> a
           [] a.upper <= b.upper /\ b.upper < a.lower -> Interval(a.lower, b.upper, a.half)
           [] a.lower <= b.upper -> Full(a.half)
    ELSE CASE a.lower <= b.lower -> a
           [] b.lower < a.lower /\ b.upper < a.lower ->
                GetPreferredRange(Interval(a.lower, b.upper, a.half),
                                  Interval(b.lower, a.upper, a.half), type)
           [] b.lower < a.lower /\ a.lower <= b.upper -> Interval(b.lower, a.upper, a.half)

UnionBothUnwrapped(a, b, type) ==
    LET lower == USmaller(a.lower, b.lower)
        \* An upper end of zero is the end of the order: it is compared less one.
        upper == IF Pred(b.upper, a.half) > Pred(a.upper, a.half) THEN b.upper ELSE a.upper
    IN  IF b.upper < a.lower \/ a.upper < b.lower
        THEN GetPreferredRange(Interval(a.lower, b.upper, a.half),
                               Interval(b.lower, a.upper, a.half), type)
        ELSE IF lower = 0 /\ upper = 0 THEN Full(a.half) ELSE Interval(lower, upper, a.half)

\* Neither is full or empty.
UnionOfProper(a, b, type) ==
    CASE IsUpperWrapped(a) /\ IsUpperWrapped(b)   -> UnionBothWrapped(a, b)
      [] IsUpperWrapped(a) /\ ~IsUpperWrapped(b)  -> UnionWrappedWithUnwrapped(a, b, type)
      [] ~IsUpperWrapped(a) /\ IsUpperWrapped(b)  -> UnionWrappedWithUnwrapped(b, a, type)
      [] ~IsUpperWrapped(a) /\ ~IsUpperWrapped(b) -> UnionBothUnwrapped(a, b, type)

UnionWith(a, b, type) ==
    IF IsFullSet(a) \/ IsEmptySet(b) THEN a
    ELSE IF IsFullSet(b) \/ IsEmptySet(a) THEN b
    ELSE UnionOfProper(a, b, type)

Inverse(r) ==
    CASE IsFullSet(r) -> Empty(r.half)
      [] IsEmptySet(r) -> Full(r.half)
      [] r.lower # r.upper -> Interval(r.upper, r.lower, r.half)

Difference(a, b) == IntersectWith(a, Inverse(b), "Smallest")

-----------------------------------------------------------------------------
(* Arithmetic.  A result covers what the operation gives for every pair of  *)
(* operands, each in its range.                                             *)

Subtract(r, v) ==
    IF r.lower = r.upper THEN r
    ELSE Interval(Minus(r.lower, v, r.half), Minus(r.upper, v, r.half), r.half)

\* Mutated: only equal ends are noticed.
FullIfEqualEnds(l, u, a, b) == IF l = u THEN Full(a.half) ELSE Interval(l, u, a.half)

\* The result is smaller than an operand only if it went round the modulus.
FullIfWrapped(l, u, a, b) ==
    LET r == Interval(l, u, a.half)
    IN  IF l = u \/ IsSizeStrictlySmallerThan(r, a) \/ IsSizeStrictlySmallerThan(r, b)
        THEN Full(a.half) ELSE r

Add(a, b) ==
    IF IsEmptySet(a) \/ IsEmptySet(b) THEN Empty(a.half)
    ELSE IF IsFullSet(a) \/ IsFullSet(b) THEN Full(a.half)
    ELSE FullIfWrapped(Plus(a.lower, b.lower, a.half),
                       Pred(Plus(a.upper, b.upper, a.half), a.half), a, b)

Sub(a, b) ==
    IF IsEmptySet(a) \/ IsEmptySet(b) THEN Empty(a.half)
    ELSE IF IsFullSet(a) \/ IsFullSet(b) THEN Full(a.half)
    ELSE FullIfWrapped(Succ(Minus(a.lower, b.upper, a.half), a.half),
                       Minus(a.upper, b.lower, a.half), a, b)

SLeast(s, h) == CHOOSE x \in s : \A y \in s : Sle(x, y, h)
SGreatest(s, h) == CHOOSE x \in s : \A y \in s : Sle(y, x, h)

UMul(a, b) ==
    LET h == a.half
    IN  IF IsEmptySet(a) \/ IsEmptySet(b) THEN Empty(h)
        ELSE IF UMulOvf(UMinOf(a), UMinOf(b), h) \/ UMulOvf(UMaxOf(a), UMaxOf(b), h)
        THEN Full(h)
        ELSE NonEmpty(Times(UMinOf(a), UMinOf(b), h), Succ(Times(UMaxOf(a), UMaxOf(b), h), h), h)

SEnds(a) == {SMinOf(a), SMaxOf(a)}

SMul(a, b) ==
    LET h == a.half
        products == {Times(x, y, h) : x \in SEnds(a), y \in SEnds(b)}
    IN  IF IsEmptySet(a) \/ IsEmptySet(b) THEN Empty(h)
        ELSE IF \E x \in SEnds(a), y \in SEnds(b) : SMulOvf(x, y, h) THEN Full(h)
        ELSE NonEmpty(SLeast(products, h), Succ(SGreatest(products, h), h), h)

UDivRange(a, b) ==
    LET h == a.half
        \* The least divisor that is not zero: 1, but for a range [X, 1) it is X.
        least == IF UMinOf(b) # 0 THEN UMinOf(b)
                 ELSE IF b.upper = 1 THEN b.lower ELSE 1
    IN  IF IsEmptySet(a) \/ IsEmptySet(b) \/ UMaxOf(b) = 0 THEN Empty(h)
        ELSE NonEmpty(UDiv(UMinOf(a), UMaxOf(b)), Succ(UDiv(UMaxOf(a), least), h), h)

\* The quotients of the four pairs of parts, by sign, of a and b are united.
SDivOfParts(a, b, posL, negL, posR, negR, saturating) ==
    LET h == a.half
        div(x, y) == IF saturating THEN SDivSat(x, y, h) ELSE SDiv(x, y, h)
        \* From the last value of a range: its upper end less one.
        last(r) == Pred(r.upper, h)
        quotients(l, r, lo, up) ==
            IF IsEmptySet(l) \/ IsEmptySet(r) THEN Empty(h) ELSE Interval(lo, Succ(up, h), h)
        smallestByMinusOne == negL.lower = SMinValue(h) /\ negR.upper = 0
        \* -1 is dropped from the divisors, then the smallest value from the
        \* dividends; where both can be, the second choice is the one kept.
        dropMinusOne ==
            div(negL.lower, Pred(IF b.lower = UMaxValue(h) THEN b.upper ELSE last(negR), h))
        dropSmallest ==
            div(IF a.upper = Succ(SMinValue(h), h) THEN a.lower ELSE Succ(negL.lower, h), last(negR))
        negNegUp ==
            CASE smallestByMinusOne /\ negL.upper # Succ(SMinValue(h), h) -> dropSmallest
              [] smallestByMinusOne /\ negL.upper = Succ(SMinValue(h), h)
                                    /\ negR.lower # UMaxValue(h) -> dropMinusOne
              [] OTHER -> div(negL.lower, last(negR))
        posRes == UnionWith(
            quotients(posL, posR, div(posL.lower, last(posR)), div(last(posL), posR.lower)),
            quotients(negL, negR, div(last(negL), negR.lower), negNegUp), "Smallest")
        negRes == UnionWith(
            quotients(posL, negR, div(last(posL), last(negR)), div(posL.lower, negR.lower)),
            quotients(negL, posR, div(negL.lower, posR.lower), div(last(negL), last(posR))), "Smallest")
        res == UnionWith(negRes, posRes, "Signed")
        zero == IF Contains(a, 0) /\ ~(IsEmptySet(posR) /\ IsEmptySet(negR)) THEN Single(0, h) ELSE Empty(h)
    IN  UnionWith(res, zero, "Smallest")

SDivImpl(a, b, saturating) ==
    LET part(r, lower, upper) == IntersectWith(r, Interval(lower, upper, r.half), "Smallest")
        positive(r) == part(r, 1, SMinValue(r.half))
        negative(r) == part(r, SMinValue(r.half), 0)
    IN  SDivOfParts(a, b, positive(a), negative(a), positive(b), negative(b), saturating)

Negate(r) ==
    IF IsEmptySet(r) \/ IsFullSet(r) THEN r
    ELSE Interval(Neg(Pred(r.upper, r.half), r.half),
               IF r.lower = SMinValue(r.half) THEN r.lower ELSE Succ(Neg(r.lower, r.half), r.half),
               r.half)

Abs(r) ==
    LET h == r.half
        crossesZero == IsPositive(r.upper, h) \/ ~IsPositive(r.lower, h)
    IN  IF IsEmptySet(r) THEN r
        ELSE IF IsSignWrappedSet(r)
        THEN Interval(IF crossesZero THEN 0 ELSE USmaller(r.lower, Succ(Neg(r.upper, h), h)),
                   Succ(SMinValue(h), h), h)
        ELSE CASE IsNonNeg(SMinOf(r), h) -> r
               [] IsNeg(SMaxOf(r), h) -> Interval(Neg(SMaxOf(r), h), Succ(Neg(SMinOf(r), h), h), h)
               [] IsNeg(SMinOf(r), h) /\ IsNonNeg(SMaxOf(r), h) ->
                     Interval(0, Succ(ULarger(Neg(SMinOf(r), h), SMaxOf(r)), h), h)

URemRange(a, b) ==
    LET h == a.half
    IN  IF IsEmptySet(a) \/ IsEmptySet(b) \/ UMaxOf(b) = 0 THEN Empty(h)
        ELSE IF IsSingleElement(a) /\ IsSingleElement(b)
        THEN Single(URem(a.lower, b.lower), h)
        ELSE IF UMaxOf(a) < UMinOf(b) THEN a
        ELSE NonEmpty(0, Succ(USmaller(UMaxOf(a), Pred(UMaxOf(b), h)), h), h)

SRemRange(a, b) ==
    LET h == a.half
        divisors == Abs(b)
        greatest == UMaxOf(divisors)
        least == IF UMinOf(divisors) = 0 THEN 1 ELSE UMinOf(divisors)
        \* A remainder is no further from zero than its dividend, and nearer than its divisor.
        lo == ULarger(SMinOf(a), Succ(Neg(greatest, h), h))
        up == Succ(USmaller(SMaxOf(a), Pred(greatest, h)), h)
    IN  IF IsEmptySet(a) \/ IsEmptySet(b) \/ greatest = 0 THEN Empty(h)
        ELSE IF IsSingleElement(a) /\ IsSingleElement(b)
        THEN Single(SRem(a.lower, b.lower, h), h)
        ELSE IF IsNonNeg(SMinOf(a), h)
        THEN IF SMaxOf(a) < least THEN a ELSE Interval(0, up, h)
        ELSE IF IsNeg(SMaxOf(a), h)
        THEN IF SMinOf(a) > Neg(least, h) THEN a ELSE Interval(lo, 1, h)
        ELSE Interval(lo, up, h)

-----------------------------------------------------------------------------
(* Saturating arithmetic clamps the ends.                                   *)

SatRange(a, b, lo, up) ==
    IF IsEmptySet(a) \/ IsEmptySet(b) THEN Empty(a.half) ELSE NonEmpty(lo, Succ(up, a.half), a.half)

UAddSatRange(a, b) ==
    SatRange(a, b, UAddSat(UMinOf(a), UMinOf(b), a.half), UAddSat(UMaxOf(a), UMaxOf(b), a.half))
SAddSatRange(a, b) ==
    SatRange(a, b, SAddSat(SMinOf(a), SMinOf(b), a.half), SAddSat(SMaxOf(a), SMaxOf(b), a.half))
USubSatRange(a, b) ==
    SatRange(a, b, USubSat(UMinOf(a), UMaxOf(b), a.half), USubSat(UMaxOf(a), UMinOf(b), a.half))
SSubSatRange(a, b) ==
    SatRange(a, b, SSubSat(SMinOf(a), SMaxOf(b), a.half), SSubSat(SMaxOf(a), SMinOf(b), a.half))
UMulSatRange(a, b) ==
    SatRange(a, b, UMulSat(UMinOf(a), UMinOf(b), a.half), UMulSat(UMaxOf(a), UMaxOf(b), a.half))
SMulSatRange(a, b) ==
    LET products == {SMulSat(x, y, a.half) : x \in SEnds(a), y \in SEnds(b)}
    IN  SatRange(a, b, SLeast(products, a.half), SGreatest(products, a.half))

-----------------------------------------------------------------------------
(* Change of width, from half modulus r.half to half modulus d.             *)

ZeroExtend(r, d) ==
    IF IsEmptySet(r) THEN Empty(d)
    ELSE IF IsFullSet(r) \/ IsWrappedSet(r) THEN Interval(0, 2 * r.half, d)
    ELSE IF r.upper = 0 THEN Interval(r.lower, 2 * r.half, d)
    ELSE Interval(r.lower, r.upper, d)

SignExtend(r, d) ==
    IF IsEmptySet(r) THEN Empty(d)
    ELSE IF IsFullSet(r) \/ IsSignWrappedSet(r) THEN Interval(2 * d - r.half, r.half, d)
    ELSE IF r.upper = SMinValue(r.half) THEN Interval(SExt(r.lower, r.half, d), r.upper, d)
    ELSE Interval(SExt(r.lower, r.half, d), SExt(r.upper, r.half, d), d)

\* A range over the end of the unsigned order is cut in [all ones, upper),
\* which is exact in the smaller width, and [lower, all ones).
Truncate(r, d) ==
    LET h == r.half
        wrapped == IsUpperWrapped(r)
        wrappedPart == IF wrapped THEN Interval(UMaxValue(d), Trunc(r.upper, d), d) ELSE Empty(d)
        upper == IF wrapped THEN UMaxValue(h) ELSE r.upper
        \* The bits of lower beyond the width are taken off both ends.
        beyond == r.lower - Trunc(r.lower, d)
        lo == r.lower - beyond
        up == Minus(upper, beyond, h)
    IN  CASE IsEmptySet(r) -> Empty(d)
          [] IsFullSet(r) -> Full(d)
          [] r.lower # r.upper ->
               IF wrapped /\ r.upper >= UMaxValue(d) THEN Full(d)
               ELSE IF wrapped /\ r.lower = UMaxValue(h) THEN wrappedPart
               ELSE IF up < 2 * d THEN UnionWith(Interval(lo, up, d), wrappedPart, "Smallest")
               ELSE IF up < 4 * d /\ up - 2 * d < lo
               THEN UnionWith(Interval(lo, up - 2 * d, d), wrappedPart, "Smallest")
               ELSE Full(d)
=============================================================================
