----------------------------- MODULE SIntDomain -----------------------------
(***************************************************************************)
(* What the range analysis knows of one integer value                      *)
(* (CHIR/Analysis/SIntDomain.cpp): a range of values, and for some other   *)
(* values, the symbols, a range of the difference from them.  A domain is  *)
(* a record: numeric, its range; bounds, a function from symbols to        *)
(* ranges, always read as signed; unsigned, the signedness of its type.    *)
(***************************************************************************)
EXTENDS ConstantRange

Strategies == {"THROWING", "WRAPPING", "SATURATING"}
Relations == {"LT", "LE", "EQ", "GT", "GE", "NE"}

Domain(numeric, bounds, unsigned) ==
    [numeric |-> numeric, bounds |-> bounds, unsigned |-> unsigned]

NoBounds == [s \in {} |-> {}]
Bare(numeric, unsigned) == Domain(numeric, NoBounds, unsigned)
Top(h, unsigned) == Bare(Full(h), unsigned)
Bottom(h, unsigned) == Bare(Empty(h), unsigned)

IsBottom(d) == IsEmptySet(d.numeric)
IsSingleValue(d) == IsSingleElement(d.numeric)
HasBound(d, s) == s \in DOMAIN d.bounds

FromNumeric(rel, v, unsigned, h) == Bare(From(rel, v, ~unsigned, h), unsigned)

\* The domain of the values that are rel the symbol s.
FromSymbolic(rel, s, unsigned, h) ==
    Domain(Full(h),
           IF rel = "NE" THEN NoBounds ELSE [t \in {s} |-> From(rel, 0, ~unsigned, h)],
           unsigned)

-----------------------------------------------------------------------------
(* Meet and join of two domains.  A symbol of one domain only is kept by    *)
(* the meet and dropped by the join.                                        *)

\* An empty bound empties the domain; a full one says nothing.
Merged(numeric, bounds, unsigned) ==
    IF IsEmptySet(numeric) \/ \E s \in DOMAIN bounds : IsEmptySet(bounds[s])
    THEN Bottom(numeric.half, unsigned)
    ELSE Domain(numeric,
                [s \in {t \in DOMAIN bounds : ~IsFullSet(bounds[t])} |-> bounds[s]],
                unsigned)

Intersects(c, d) ==
    Merged(IntersectWith(c.numeric, d.numeric, "Smallest"),
           [s \in DOMAIN c.bounds \union DOMAIN d.bounds |->
               IF ~HasBound(c, s) THEN d.bounds[s]
               ELSE IF ~HasBound(d, s) THEN c.bounds[s]
               ELSE IntersectWith(c.bounds[s], d.bounds[s], "Smallest")],
           c.unsigned)

Unions(c, d) ==
    Merged(UnionWith(c.numeric, d.numeric, "Smallest"),
           [s \in DOMAIN c.bounds \intersect DOMAIN d.bounds |->
               UnionWith(c.bounds[s], d.bounds[s], "Smallest")],
           c.unsigned)

IsSame(c, d) == c.numeric = d.numeric

-----------------------------------------------------------------------------
(* Conversion of a range to another width and signedness.  Under THROWING   *)
(* the values that do not fit are dropped, under SATURATING the end they    *)
(* lie beyond is added, under WRAPPING anything may result.                 *)

\* Values kept as they are: those the destination can represent.
AtLeast(v, unsigned, h) == From("GE", v, ~unsigned, h)
AtMost(v, unsigned, h) == From("LE", v, ~unsigned, h)

\* The cut of a wrapped range at the end of its order.
SplitWrapping(r, unsigned) ==
    <<From("LT", r.upper, ~unsigned, r.half), From("GE", r.lower, ~unsigned, r.half)>>

\* A range over the end of its order is converted in the two parts of the cut.
PartsOf(r, unsigned) ==
    IF IF unsigned THEN IsWrappedSet(r) ELSE IsSignWrappedSet(r) THEN SplitWrapping(r, unsigned) ELSE <<r>>
UnionOfParts(parts, type) ==
    IF DOMAIN parts = {1} THEN parts[1] ELSE UnionWith(parts[1], parts[2], type)

\* Values that are lost beyond an end of the order count as that end.
WithEnd(kept, lost, end, type) == IF lost THEN UnionWith(kept, end, type) ELSE kept

\* Truncation of a range whose upper end is the first value that does not fit.
TruncWithUpperWrapped(r, dstUnsigned, d) ==
    LET lower == Trunc(r.lower, d)
        upper == Succ(Trunc(Pred(r.upper, r.half), d), d)
    IN  IF r.upper = Succ(IF dstUnsigned THEN UMaxValue(d) ELSE SMaxValue(d), r.half)
        THEN IF lower = upper THEN Full(d) ELSE Interval(lower, upper, d)
        ELSE Truncate(r, d)

\* A part of a range that does not wrap, to a smaller width of its signedness.
NCSameSignessInner(r, d, unsigned, ov) ==
    LET h == r.half
        prefer == PreferFromBool(unsigned)
        least == IF unsigned THEN 0 ELSE SMinValue(d)
        greatest == IF unsigned THEN UMaxValue(d) ELSE SMaxValue(d)
        higherPart ==
            IntersectWith(AtLeast(IF unsigned THEN 0 ELSE SExt(least, d, h), unsigned, h), r, prefer)
        unchangedPart == IntersectWith(AtMost(greatest, unsigned, h), higherPart, prefer)
        kept == Truncate(unchangedPart, d)
        withLeast == WithEnd(kept, ~IsEmptySet(Difference(r, higherPart)), Single(least, d), prefer)
        withGreatest == WithEnd(withLeast, ~IsEmptySet(Difference(higherPart, unchangedPart)),
                                Single(greatest, d), prefer)
    IN  CASE IsFullSet(r) -> Full(d)
          [] IsEmptySet(r) -> Empty(d)
          [] r.lower # r.upper ->
               IF r = unchangedPart \/ ov = "THROWING" THEN kept
               ELSE IF ov = "WRAPPING" THEN Full(d) ELSE withGreatest

NumericConversionWithSameSigness(r, d, unsigned, ov) ==
    LET parts == PartsOf(r, unsigned)
    IN  CASE r.half = d -> r
          [] r.half < d -> IF unsigned THEN ZeroExtend(r, d) ELSE SignExtend(r, d)
          [] r.half > d ->
               UnionOfParts([i \in DOMAIN parts |-> NCSameSignessInner(parts[i], d, unsigned, ov)],
                            PreferFromBool(unsigned))

\* Unsigned to signed, to a width that is not larger.
NCU2SInner(r, d, ov) ==
    LET dstMax == SMaxValue(d)
        unchanged == IntersectWith(AtMost(dstMax, TRUE, r.half), r, "Unsigned")
        saturated == UnionWith(unchanged, Single(dstMax, r.half), "Signed")
        narrow(s) == IF r.half > d THEN TruncWithUpperWrapped(s, FALSE, d) ELSE s
    IN  IF IsEmptySet(r) THEN Empty(d)
        ELSE IF unchanged = r \/ ov = "THROWING" THEN narrow(unchanged)
        ELSE IF ov = "SATURATING" THEN narrow(saturated)
        ELSE IF r.half = d THEN r ELSE Full(d)

NumericConversionU2S(r, d, ov) ==
    LET parts == PartsOf(r, TRUE)
    IN  IF d > r.half THEN ZeroExtend(r, d)
        ELSE UnionOfParts([i \in DOMAIN parts |-> NCU2SInner(parts[i], d, ov)], "Signed")

NonNegative(r) == IntersectWith(r, AtLeast(0, FALSE, r.half), "Signed")

\* Signed to unsigned, to a smaller width.
NCS2UInnerTrunc(r, d, ov) ==
    LET greatest == UMaxValue(d)
        nonNeg == NonNegative(r)
        unchanged == IntersectWith(nonNeg, AtMost(greatest, FALSE, r.half), "Smallest")
        withZero == WithEnd(unchanged, ~IsEmptySet(Difference(r, nonNeg)), Single(0, r.half), "Unsigned")
        withGreatest == WithEnd(withZero, unchanged # nonNeg, Single(greatest, r.half), "Unsigned")
        exact == unchanged = r \/ ov = "THROWING"
    IN  IF IsEmptySet(r) THEN Empty(d)
        ELSE IF ~exact /\ ov = "WRAPPING" THEN Full(d)
        ELSE TruncWithUpperWrapped(IF exact THEN unchanged ELSE withGreatest, TRUE, d)

\* Signed to unsigned, to a width that is not smaller.
NCS2UInnerExtend(r, d, ov) ==
    LET nonNeg == NonNegative(r)
        neg == Difference(r, nonNeg)
        extend(s) == IF r.half = d THEN s ELSE ZeroExtend(s, d)
        saturated == WithEnd(nonNeg, ~IsEmptySet(neg), Single(0, r.half), "Smallest")
        overflown == Interval(SExt(SMinOf(neg), r.half, d), Succ(SExt(SMaxOf(neg), r.half, d), d), d)
    IN  IF IsEmptySet(r) THEN Empty(d)
        ELSE IF nonNeg = r \/ ov = "THROWING" THEN extend(nonNeg)
        ELSE IF ov = "SATURATING" THEN extend(saturated)
        ELSE UnionWith(overflown, extend(nonNeg), "Unsigned")

NumericConversionS2U(r, d, ov) ==
    LET parts == PartsOf(r, FALSE)
    IN  IF d >= r.half THEN NCS2UInnerExtend(r, d, ov)
        ELSE UnionOfParts([i \in DOMAIN parts |-> NCS2UInnerTrunc(parts[i], d, ov)], "Unsigned")

NumericConversion(r, d, srcUnsigned, dstUnsigned, ov) ==
    CASE srcUnsigned = dstUnsigned -> NumericConversionWithSameSigness(r, d, srcUnsigned, ov)
      [] srcUnsigned /\ ~dstUnsigned -> NumericConversionU2S(r, d, ov)
      [] ~srcUnsigned /\ dstUnsigned -> NumericConversionS2U(r, d, ov)

-----------------------------------------------------------------------------
(* Binary arithmetic on the domains c of symbol l and d of symbol r.        *)

\* Mutated: every range is taken for a bound.
AnyBound(r, unsigned) == TRUE

\* A range as a bound: one of an unsigned value must fit the signed width.
IsSymbolicBound(r, unsigned) ==
    unsigned => NumericConversionU2S(r, r.half, "THROWING") = r

ComputeAdd(c, d, l, r, ov, unsigned) ==
    LET ln == c.numeric
        rn == d.numeric
        numeric == IF ov # "SATURATING" THEN Add(ln, rn)
                   ELSE IF unsigned THEN UAddSatRange(ln, rn) ELSE SAddSatRange(ln, rn)
        \* The result differs from an operand by the range of the other one.
        addends == {p \in {<<l, ln, rn>>, <<r, rn, ln>>} :
                      ~IsSingleElement(p[2]) /\ ~IsFullSet(p[3]) /\ IsSymbolicBound(p[3], unsigned)}
    IN  IF IsEmptySet(numeric) \/ ov # "THROWING" THEN Bare(numeric, unsigned)
        ELSE Domain(numeric,
                    [s \in {p[1] : p \in addends} |-> IF s = l THEN rn ELSE ln],
                    unsigned)

ComputeSub(c, d, l, r, ov, unsigned) ==
    LET ln == c.numeric
        rn == d.numeric
        difference == IF ov # "SATURATING" THEN Sub(ln, rn)
                      ELSE IF unsigned THEN USubSatRange(ln, rn) ELSE SSubSatRange(ln, rn)
        \* What each operand knows of the other bounds the difference as well.
        direct == IF unsigned \/ ~HasBound(c, r) THEN difference
                  ELSE IntersectWith(difference, c.bounds[r], "Signed")
        numeric == IF unsigned \/ ~HasBound(d, l) THEN direct
                   ELSE IntersectWith(direct, Negate(d.bounds[l]), "Signed")
    IN  IF IsEmptySet(difference) \/ ov # "THROWING" THEN Bare(difference, unsigned)
        ELSE IF /\ ~IsEmptySet(numeric)
                /\ ~IsSingleElement(ln)
                /\ ~IsFullSet(rn)
                /\ rn # Single(SMinValue(rn.half), rn.half)
        THEN Domain(numeric, [s \in {l} |-> Negate(rn)], unsigned)
        ELSE Bare(numeric, unsigned)

ComputeMul(c, d, ov, unsigned) ==
    Bare(IF ov # "SATURATING"
         THEN IF unsigned THEN UMul(c.numeric, d.numeric) ELSE SMul(c.numeric, d.numeric)
         ELSE IF unsigned THEN UMulSatRange(c.numeric, d.numeric) ELSE SMulSatRange(c.numeric, d.numeric),
         unsigned)

ComputeDiv(c, d, ov, unsigned) ==
    IF Contains(d.numeric, 0) THEN Top(c.numeric.half, unsigned)
    ELSE Bare(IF unsigned THEN UDivRange(c.numeric, d.numeric)
              ELSE SDivImpl(c.numeric, d.numeric, ov = "SATURATING"), unsigned)

ComputeMod(c, d, unsigned) ==
    Bare(IF unsigned THEN URemRange(c.numeric, d.numeric) ELSE SRemRange(c.numeric, d.numeric), unsigned)

ComputeArithmeticBinop(op, c, d, l, r, ov, unsigned) ==
    CASE op = "ADD" -> ComputeAdd(c, d, l, r, ov, unsigned)
      [] op = "SUB" -> ComputeSub(c, d, l, r, ov, unsigned)
      [] op = "MUL" -> ComputeMul(c, d, ov, unsigned)
      [] op = "DIV" -> ComputeDiv(c, d, ov, unsigned)
      [] op = "MOD" -> ComputeMod(c, d, unsigned)

-----------------------------------------------------------------------------
(* Verdicts on a relation between two values: "true", "false", "unordered"  *)
(* when neither follows, "bottom" when a domain is empty.                   *)

\* Mutated: the operands are exchanged and the relation is not.
SwapNothing(rel) == rel

\* The relation that holds exactly when rel does not, and the one that holds
\* of the operands exchanged.
NegOf(rel) ==
    CASE rel = "LT" -> "GE" [] rel = "LE" -> "GT" [] rel = "EQ" -> "NE"
      [] rel = "GE" -> "LT" [] rel = "GT" -> "LE" [] rel = "NE" -> "EQ"
SwapOf(rel) ==
    CASE rel = "LT" -> "GT" [] rel = "LE" -> "GE" [] rel = "GT" -> "LT"
      [] rel = "GE" -> "LE" [] rel \in {"EQ", "NE"} -> rel

FromBool(b) == IF b THEN "true" ELSE "false"
Decided == {"true", "false"}

Lt(a, b, unsigned) ==
    IF unsigned THEN UMaxOf(a) < UMinOf(b) ELSE Slt(SMaxOf(a), SMinOf(b), a.half)
Le(a, b, unsigned) ==
    IF unsigned THEN UMaxOf(a) <= UMinOf(b) ELSE Sle(SMaxOf(a), SMinOf(b), a.half)

\* Every value of a is rel every value of b.
PartialCompare(rel, a, b, unsigned) ==
    /\ IF unsigned THEN ~IsWrappedSet(a) /\ ~IsWrappedSet(b)
                   ELSE ~IsSignWrappedSet(a) /\ ~IsSignWrappedSet(b)
    /\ CASE rel = "LE" -> Le(a, b, unsigned)
         [] rel = "LT" -> Lt(a, b, unsigned)
         [] rel = "GT" -> Lt(b, a, unsigned)
         [] rel = "GE" -> Le(b, a, unsigned)

Compare(rel, a, b, unsigned) ==
    LET zero == Single(0, a.half)
    IN  IF \/ IsEmptySet(a) \/ IsEmptySet(b)
           \/ IsFullSet(a) /\ b # zero
           \/ IsFullSet(b) /\ a # zero
        THEN "unordered"
        ELSE IF PartialCompare(rel, a, b, unsigned) THEN "true"
        ELSE IF PartialCompare(NegOf(rel), a, b, unsigned) THEN "false"
        ELSE "unordered"

\* The first verdict of a sequence that decides.
FirstDecided(verdicts) ==
    IF \E i \in DOMAIN verdicts : verdicts[i] \in Decided
    THEN verdicts[CHOOSE i \in DOMAIN verdicts :
                    /\ verdicts[i] \in Decided
                    /\ \A j \in DOMAIN verdicts : verdicts[j] \in Decided => i <= j]
    ELSE "unordered"

\* The symbols both domains bound are tried in the order of their addresses,
\* which may be any: the first that decides gives the verdict.
AnyDecided(first, common) ==
    IF first \in Decided THEN {first}
    ELSE IF common \intersect Decided = {} THEN {"unordered"} ELSE common \intersect Decided

ComputeTotalOrdering(rel, c, d, l, r, unsigned) ==
    LET zero == Single(0, c.numeric.half)
        direct == IF HasBound(c, r) THEN Compare(rel, c.bounds[r], zero, FALSE) ELSE "unordered"
        reverse == IF HasBound(d, l) THEN Compare(SwapOf(rel), d.bounds[l], zero, FALSE) ELSE "unordered"
        common == {Compare(rel, c.bounds[s], d.bounds[s], FALSE) : s \in DOMAIN c.bounds \intersect DOMAIN d.bounds}
    IN  AnyDecided(FirstDecided(<<Compare(rel, c.numeric, d.numeric, unsigned), direct, reverse>>), common)

\* Equality of two values that differ from one symbol by a and by b.
CompareTransitiveEquality(a, b) ==
    IF IsSingleElement(a) /\ IsSingleElement(b) THEN FromBool(a.lower = b.lower)
    ELSE IF IsEmptySet(IntersectWith(a, b, "Signed")) THEN "false"
    ELSE "unordered"

\* The verdicts on equality; those on inequality are their negations.
ComputeEquality(c, d, l, r) ==
    LET direct == IF HasBound(c, r) /\ IsSingleElement(c.bounds[r])
                  THEN FromBool(c.bounds[r].lower = 0) ELSE "unordered"
        reverse == IF ~HasBound(d, l) THEN "unordered"
                   ELSE IF IsSingleElement(d.bounds[l]) THEN FromBool(d.bounds[l].lower = 0)
                   ELSE IF ~Contains(d.bounds[l], 0) THEN "false" ELSE "unordered"
        numeric == IF IsSingleValue(c) /\ IsSingleValue(d)
                   THEN FromBool(c.numeric.lower = d.numeric.lower)
                   ELSE IF IsEmptySet(IntersectWith(c.numeric, d.numeric, PreferFromBool(c.unsigned)))
                   THEN "false" ELSE "unordered"
        common == {CompareTransitiveEquality(c.bounds[s], d.bounds[s]) :
                     s \in DOMAIN c.bounds \intersect DOMAIN d.bounds}
    IN  AnyDecided(FirstDecided(<<numeric, direct, reverse>>), common)

NegVerdict(v) == CASE v = "true" -> "false" [] v = "false" -> "true" [] v \notin Decided -> v

ComputeRelIntBinop(rel, c, d, l, r, unsigned) ==
    IF l = r THEN {FromBool(rel \in {"EQ", "LE", "GE"})}
    ELSE IF IsBottom(c) \/ IsBottom(d) THEN {"bottom"}
    ELSE CASE rel = "EQ" -> ComputeEquality(c, d, l, r)
           [] rel = "NE" -> {NegVerdict(v) : v \in ComputeEquality(c, d, l, r)}
           [] rel \notin {"EQ", "NE"} -> ComputeTotalOrdering(rel, c, d, l, r, unsigned)
=============================================================================
