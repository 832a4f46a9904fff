------------------------ MODULE RangeTransfer_proofs ------------------------
(***************************************************************************)
(* Theorems about RangeTransfer, for every family of programs, any widths  *)
(* of bits and any number of values and steps: the covers of two operands  *)
(* are the smallest; every range the transfer functions compute is legal,  *)
(* so that the constructor's assertion on equal ends never fails, unless a *)
(* program reaches the gap ends; and, for the programs that reach no gap,  *)
(* in every execution each value lies in its range, each difference in its *)
(* bound, and each decided comparison has the outcome decided.             *)
(*                                                                         *)
(* The three last follow from one invariant, Sound: the domains fit every  *)
(* execution (Fit), whose values are what their definitions give           *)
(* (Executes, Sources).  Operations are proved sound on one pattern of     *)
(* each range, then on the domains of one execution, then as steps.        *)
(***************************************************************************)
EXTENDS RangeTransfer, SIntDomain_proofs

-----------------------------------------------------------------------------
(* Domains of legal ranges, with bounds by symbols of a set.                *)

DomainsOf(h, S) ==
    [numeric : RangesOf(h), bounds : UNION {[D -> RangesOf(h)] : D \in SUBSET S}, unsigned : BOOLEAN]

\* What a domain is made of.
LEMMA DomainParts ==
  ASSUME NEW h \in Nat \ {0, 1}, NEW S, NEW d \in DomainsOf(h, S)
  PROVE  /\ d.numeric \in RangesOf(h) /\ d.numeric.half = h
         /\ d.unsigned \in BOOLEAN
         /\ DOMAIN d.bounds \subseteq S
         /\ \A s \in DOMAIN d.bounds : d.bounds[s] \in RangesOf(h)
BY HalfOfRange DEF DomainsOf

\* What makes a domain.
LEMMA DomainMade ==
  ASSUME NEW h \in Nat \ {0, 1}, NEW S, NEW numeric \in RangesOf(h),
         NEW D \in SUBSET S, NEW bounds \in [D -> RangesOf(h)], NEW unsigned \in BOOLEAN
  PROVE  Domain(numeric, bounds, unsigned) \in DomainsOf(h, S)
BY DEF Domain, DomainsOf

\* A range without bounds.
LEMMA BareMade ==
  ASSUME NEW h \in Nat \ {0, 1}, NEW S, NEW numeric \in RangesOf(h), NEW unsigned \in BOOLEAN
  PROVE  Bare(numeric, unsigned) \in DomainsOf(h, S)
<1>1. NoBounds \in [{} -> RangesOf(h)] /\ {} \in SUBSET S
  BY DEF NoBounds
<1> QED
  BY <1>1, DomainMade DEF Bare

\* What says nothing of a value, and what no value satisfies.
LEMMA ExtremesMade ==
  ASSUME NEW h \in Nat \ {0, 1}, NEW S, NEW unsigned \in BOOLEAN
  PROVE  Top(h, unsigned) \in DomainsOf(h, S) /\ Bottom(h, unsigned) \in DomainsOf(h, S)
BY ExtremesLegal, BareMade DEF Top, Bottom

\* SIntDomain's comparison with a constant.
LEMMA FromNumericMade ==
  ASSUME NEW h \in Nat \ {0, 1}, NEW S, NEW v \in SIntPatterns(h), NEW unsigned \in BOOLEAN,
         NEW rel \in Relations
  PROVE  FromNumeric(rel, v, unsigned, h) \in DomainsOf(h, S)
BY FromLegal, BareMade DEF FromNumeric

\* SIntDomain's comparison with a symbol.
LEMMA FromSymbolicMade ==
  ASSUME NEW h \in Nat \ {0, 1}, NEW S, NEW s \in S, NEW unsigned \in BOOLEAN, NEW rel \in Relations
  PROVE  FromSymbolic(rel, s, unsigned, h) \in DomainsOf(h, S)
<1> DEFINE bound == From(rel, 0, ~unsigned, h)
<1>1. bound \in RangesOf(h)
  <2>1. 0 \in SIntPatterns(h)
    BY DEF SIntPatterns
  <2> QED
    BY <2>1, FromLegal
<1>2. Full(h) \in RangesOf(h)
  BY ExtremesLegal
<1> HIDE DEF bound
<1>3. [t \in {s} |-> bound] \in [{s} -> RangesOf(h)] /\ {s} \in SUBSET S
  BY <1>1
<1>4. NoBounds \in [{} -> RangesOf(h)] /\ {} \in SUBSET S
  BY DEF NoBounds
<1>5. Domain(Full(h), [t \in {s} |-> bound], unsigned) \in DomainsOf(h, S)
  BY <1>2, <1>3, DomainMade
<1>6. Domain(Full(h), NoBounds, unsigned) \in DomainsOf(h, S)
  BY <1>2, <1>4, DomainMade
<1> QED
  BY <1>5, <1>6 DEF FromSymbolic, bound

\* A domain without the bounds that say nothing, or none if one is empty.
LEMMA MergedMade ==
  ASSUME NEW h \in Nat \ {0, 1}, NEW S, NEW numeric \in RangesOf(h),
         NEW D \in SUBSET S, NEW bounds \in [D -> RangesOf(h)], NEW unsigned \in BOOLEAN
  PROVE  Merged(numeric, bounds, unsigned) \in DomainsOf(h, S)
<1> DEFINE K == {t \in DOMAIN bounds : ~IsFullSet(bounds[t])}
           kept == [s \in K |-> bounds[s]]
<1>1. numeric.half = h
  BY HalfOfRange
<1>2. K \in SUBSET S /\ \A s \in K : bounds[s] \in RangesOf(h)
  OBVIOUS
<1> HIDE DEF K
<1>3. kept \in [K -> RangesOf(h)]
  BY <1>2
<1> HIDE DEF kept
<1>4. Domain(numeric, kept, unsigned) \in DomainsOf(h, S)
  BY <1>2, <1>3, DomainMade
<1>5. Bottom(h, unsigned) \in DomainsOf(h, S)
  BY ExtremesMade
<1> QED
  BY <1>1, <1>4, <1>5 DEF Merged, kept, K

\* SIntDomain's meet.
LEMMA IntersectsMade ==
  ASSUME NEW h \in Nat \ {0, 1}, NEW S, NEW c \in DomainsOf(h, S), NEW d \in DomainsOf(h, S)
  PROVE  Intersects(c, d) \in DomainsOf(h, S)
<1> DEFINE D == DOMAIN c.bounds \union DOMAIN d.bounds
           met(s) == IF ~HasBound(c, s) THEN d.bounds[s]
                     ELSE IF ~HasBound(d, s) THEN c.bounds[s]
                     ELSE IntersectWith(c.bounds[s], d.bounds[s], "Smallest")
           bounds == [s \in D |-> met(s)]
           numeric == IntersectWith(c.numeric, d.numeric, "Smallest")
<1>1. /\ c.numeric \in RangesOf(h) /\ DOMAIN c.bounds \subseteq S /\ c.unsigned \in BOOLEAN
      /\ \A s \in DOMAIN c.bounds : c.bounds[s] \in RangesOf(h)
  BY DomainParts
<1>2. /\ d.numeric \in RangesOf(h) /\ DOMAIN d.bounds \subseteq S
      /\ \A s \in DOMAIN d.bounds : d.bounds[s] \in RangesOf(h)
  BY DomainParts
<1>3. numeric \in RangesOf(h)
  BY <1>1, <1>2, SetsLegal
<1>4. \A s \in D : met(s) \in RangesOf(h)
  BY <1>1, <1>2, SetsLegal DEF HasBound
<1>5. D \in SUBSET S
  BY <1>1, <1>2
<1>6. Intersects(c, d) = Merged(numeric, bounds, c.unsigned)
  BY DEF Intersects
<1> HIDE DEF met, numeric, D
<1>7. bounds \in [D -> RangesOf(h)]
  BY <1>4
<1> HIDE DEF bounds
<1> QED
  BY <1>1, <1>3, <1>5, <1>6, <1>7, MergedMade

\* SIntDomain's join.
LEMMA UnionsMade ==
  ASSUME NEW h \in Nat \ {0, 1}, NEW S, NEW c \in DomainsOf(h, S), NEW d \in DomainsOf(h, S)
  PROVE  Unions(c, d) \in DomainsOf(h, S)
<1> DEFINE D == DOMAIN c.bounds \intersect DOMAIN d.bounds
           bounds == [s \in D |-> UnionWith(c.bounds[s], d.bounds[s], "Smallest")]
           numeric == UnionWith(c.numeric, d.numeric, "Smallest")
<1>1. /\ c.numeric \in RangesOf(h) /\ DOMAIN c.bounds \subseteq S /\ c.unsigned \in BOOLEAN
      /\ \A s \in DOMAIN c.bounds : c.bounds[s] \in RangesOf(h)
  BY DomainParts
<1>2. /\ d.numeric \in RangesOf(h) /\ DOMAIN d.bounds \subseteq S
      /\ \A s \in DOMAIN d.bounds : d.bounds[s] \in RangesOf(h)
  BY DomainParts
<1>3. numeric \in RangesOf(h)
  BY <1>1, <1>2, SetsLegal
<1>4. \A s \in D : UnionWith(c.bounds[s], d.bounds[s], "Smallest") \in RangesOf(h)
  BY <1>1, <1>2, SetsLegal
<1>5. D \in SUBSET S
  BY <1>1
<1>6. Unions(c, d) = Merged(numeric, bounds, c.unsigned)
  BY DEF Unions
<1> HIDE DEF numeric, D
<1>7. bounds \in [D -> RangesOf(h)]
  BY <1>4
<1> HIDE DEF bounds
<1> QED
  BY <1>1, <1>3, <1>5, <1>6, <1>7, MergedMade

\* The join of the analysis, which may keep the one side.
LEMMA JoinMade ==
  ASSUME NEW h \in Nat \ {0, 1}, NEW S, NEW c \in DomainsOf(h, S), NEW d \in DomainsOf(h, S)
  PROVE  Join(c, d) \in DomainsOf(h, S)
BY UnionsMade DEF Join, JoinedOrKept

\* Narrowing by a domain.
LEMMA NarrowingMade ==
  ASSUME NEW h \in Nat \ {0, 1}, NEW S, NEW c \in DomainsOf(h, S), NEW d \in DomainsOf(h, S)
  PROVE  IntersectForNarrowing(c, d) \in DomainsOf(h, S)
<1> DEFINE retried == IntersectWith(c.numeric, d.numeric, "Unsigned")
<1>1. Intersects(c, d) \in DomainsOf(h, S)
  BY IntersectsMade
<1>2. retried \in RangesOf(h)
  BY DomainParts, SetsLegal
<1> HIDE DEF retried
<1>3. Bare(retried, TRUE) \in DomainsOf(h, S)
  BY <1>2, BareMade
<1> QED
  BY <1>1, <1>3 DEF IntersectForNarrowing, NarrowedOrRetried, retried

\* SIntDomain's sum: each operand bounds the result by the other.
LEMMA AddMade ==
  ASSUME NEW h \in Nat \ {0, 1}, NEW S, NEW c \in DomainsOf(h, S), NEW d \in DomainsOf(h, S),
         NEW l \in S, NEW r \in S, NEW ov, NEW unsigned \in BOOLEAN
  PROVE  ComputeAdd(c, d, l, r, ov, unsigned) \in DomainsOf(h, S)
<1> DEFINE ln == c.numeric
           rn == d.numeric
           numeric == IF ov # "SATURATING" THEN Add(ln, rn)
                      ELSE IF unsigned THEN UAddSatRange(ln, rn) ELSE SAddSatRange(ln, rn)
           addends == {p \in {<<l, ln, rn>>, <<r, rn, ln>>} :
                         ~IsSingleElement(p[2]) /\ ~IsFullSet(p[3]) /\ IsSymbolicBound(p[3], unsigned)}
           D == {p[1] : p \in addends}
           bounds == [s \in D |-> IF s = l THEN rn ELSE ln]
<1>1. ln \in RangesOf(h) /\ rn \in RangesOf(h)
  BY DomainParts
<1>2. numeric \in RangesOf(h)
  BY <1>1, SumsLegal
<1>3. D \in SUBSET S
  OBVIOUS
<1>4. /\ IsEmptySet(numeric) \/ ov # "THROWING" =>
            ComputeAdd(c, d, l, r, ov, unsigned) = Bare(numeric, unsigned)
      /\ ~(IsEmptySet(numeric) \/ ov # "THROWING") =>
            ComputeAdd(c, d, l, r, ov, unsigned) = Domain(numeric, bounds, unsigned)
  BY Zenon DEF ComputeAdd
<1> HIDE DEF D, ln, rn, numeric
<1>5. bounds \in [D -> RangesOf(h)]
  BY <1>1
<1> HIDE DEF bounds
<1>6. Domain(numeric, bounds, unsigned) \in DomainsOf(h, S)
  BY <1>2, <1>3, <1>5, DomainMade
<1> QED
  BY <1>2, <1>4, <1>6, BareMade

\* SIntDomain's difference, when the bound of the right operand on the left one
\* is not the smallest value alone, which has no negation.
LEMMA SubMade ==
  ASSUME NEW h \in Nat \ {0, 1}, NEW S, NEW c \in DomainsOf(h, S), NEW d \in DomainsOf(h, S),
         NEW l \in S, NEW r \in S, NEW ov, NEW unsigned \in BOOLEAN,
         ~unsigned /\ HasBound(d, l) => d.bounds[l] # Single(SMinValue(h), h)
  PROVE  ComputeSub(c, d, l, r, ov, unsigned) \in DomainsOf(h, S)
<1> DEFINE ln == c.numeric
           rn == d.numeric
           difference == IF ov # "SATURATING" THEN Sub(ln, rn)
                         ELSE IF unsigned THEN USubSatRange(ln, rn) ELSE SSubSatRange(ln, rn)
           direct == IF unsigned \/ ~HasBound(c, r) THEN difference
                     ELSE IntersectWith(difference, c.bounds[r], "Signed")
           numeric == IF unsigned \/ ~HasBound(d, l) THEN direct
                      ELSE IntersectWith(direct, Negate(d.bounds[l]), "Signed")
           bounds == [s \in {l} |-> Negate(rn)]
<1>1. ln \in RangesOf(h) /\ rn \in RangesOf(h) /\ rn.half = h
  BY DomainParts
<1>2. difference \in RangesOf(h)
  BY <1>1, SumsLegal
<1>3. direct \in RangesOf(h)
  <2>1. HasBound(c, r) => c.bounds[r] \in RangesOf(h)
    BY DomainParts DEF HasBound
  <2> HIDE DEF difference
  <2> QED
    BY <1>2, <2>1, SetsLegal
<1>4. numeric \in RangesOf(h)
  <2>1. ~unsigned /\ HasBound(d, l) => Negate(d.bounds[l]) \in RangesOf(h)
    <3>1. HasBound(d, l) => d.bounds[l] \in RangesOf(h)
      BY DomainParts DEF HasBound
    <3> QED
      BY <3>1, NegateLegal
  <2> HIDE DEF direct
  <2> QED
    BY <1>3, <2>1, SetsLegal
<1>5. \/ ComputeSub(c, d, l, r, ov, unsigned) = Bare(difference, unsigned)
      \/ ComputeSub(c, d, l, r, ov, unsigned) = Bare(numeric, unsigned)
      \/ /\ ComputeSub(c, d, l, r, ov, unsigned) = Domain(numeric, bounds, unsigned)
         /\ rn # Single(SMinValue(h), h)
  BY <1>1, Zenon DEF ComputeSub
<1> HIDE DEF ln, difference, numeric
<1>6. CASE ComputeSub(c, d, l, r, ov, unsigned) = Domain(numeric, bounds, unsigned)
           /\ rn # Single(SMinValue(h), h)
  <2>1. Negate(rn) \in RangesOf(h)
    BY <1>1, <1>6, NegateLegal
  <2> HIDE DEF rn
  <2>2. bounds \in [{l} -> RangesOf(h)] /\ {l} \in SUBSET S
    BY <2>1
  <2> HIDE DEF bounds
  <2> QED
    BY <1>4, <1>6, <2>2, DomainMade
<1> QED
  BY <1>2, <1>4, <1>5, <1>6, BareMade

\* SIntDomain::ComputeArithmeticBinop.
LEMMA BinopMade ==
  ASSUME NEW h \in Nat \ {0, 1}, NEW S, NEW c \in DomainsOf(h, S), NEW d \in DomainsOf(h, S),
         NEW l \in S, NEW r \in S, NEW ov, NEW unsigned \in BOOLEAN, NEW op \in Operators,
         op = "SUB" /\ ~unsigned /\ HasBound(d, l) => d.bounds[l] # Single(SMinValue(h), h)
  PROVE  ComputeArithmeticBinop(op, c, d, l, r, ov, unsigned) \in DomainsOf(h, S)
<1>1. c.numeric \in RangesOf(h) /\ d.numeric \in RangesOf(h) /\ c.numeric.half = h
  BY DomainParts
<1>2. CASE op = "ADD"
  BY <1>2, AddMade DEF ComputeArithmeticBinop
<1>3. CASE op = "SUB"
  BY <1>3, SubMade DEF ComputeArithmeticBinop
<1>4. CASE op = "MUL"
  <2>1. ComputeMul(c, d, ov, unsigned) \in DomainsOf(h, S)
    BY <1>1, UMulLegal, SMulLegal, BareMade DEF ComputeMul
  <2> QED
    BY <1>4, <2>1 DEF ComputeArithmeticBinop
<1>5. CASE op = "DIV"
  <2>1. UDivRange(c.numeric, d.numeric) \in RangesOf(h)
    BY <1>1, UDivLegal
  <2>2. SDivImpl(c.numeric, d.numeric, ov = "SATURATING") \in RangesOf(h)
    BY <1>1, SDivLegal
  <2>3. ComputeDiv(c, d, ov, unsigned) \in DomainsOf(h, S)
    BY <1>1, <2>1, <2>2, ExtremesMade, BareMade DEF ComputeDiv
  <2> QED
    BY <1>5, <2>3 DEF ComputeArithmeticBinop
<1>6. CASE op = "MOD"
  <2>1. ComputeMod(c, d, unsigned) \in DomainsOf(h, S)
    BY <1>1, URemLegal, SRemLegal, BareMade DEF ComputeMod
  <2> QED
    BY <1>6, <2>1 DEF ComputeArithmeticBinop
<1> QED
  BY <1>2, <1>3, <1>4, <1>5, <1>6 DEF Operators

-----------------------------------------------------------------------------
(* Expressions.                                                             *)

\* The value a pattern stands for, and the patterns an exact result gives.
LEMMA ResultingPatterns ==
  ASSUME NEW type, type.half \in Nat \ {0, 1}, type.unsigned \in BOOLEAN, NEW ov
  PROVE  /\ \A p \in SIntPatterns(type.half) : ValueIn(p, type) \in Int
         /\ \A x \in Int : Resulting(x, type, ov) \subseteq SIntPatterns(type.half)
<1> DEFINE h == type.half
<1>1. \A p \in SIntPatterns(h) : ValueIn(p, type) \in Int
  BY DEF ValueIn, SVal, IsNeg, SIntPatterns
<1>2. ASSUME NEW x \in Int
      PROVE  Resulting(x, type, ov) \subseteq SIntPatterns(h)
  <2>1. x % (2 * h) \in SIntPatterns(h)
    BY ModuloIsPattern
  <2>2. /\ 0 \in SIntPatterns(h) /\ SMinValue(h) \in SIntPatterns(h)
        /\ UMaxValue(h) \in SIntPatterns(h) /\ SMaxValue(h) \in SIntPatterns(h)
    BY DEF SMinValue, UMaxValue, SMaxValue, SIntPatterns
  <2> QED
    BY <2>1, <2>2, Zenon DEF Resulting
<1> QED
  BY <1>1, <1>2

\* The patterns an operation gives.
LEMMA OutcomePatterns ==
  ASSUME NEW type, type.half \in Nat \ {0, 1}, type.unsigned \in BOOLEAN, NEW ov,
         NEW x \in Int, NEW y \in Int
  PROVE  /\ \A op \in Operators : Outcome(op, x, y, type, ov) \subseteq SIntPatterns(type.half)
         /\ \A op : UnaryOutcome(op, x, type, ov) \subseteq SIntPatterns(type.half)
<1>1. ASSUME NEW z \in Int, NEW w
      PROVE  Resulting(z, type, w) \subseteq SIntPatterns(type.half)
  BY ResultingPatterns
<1>2. y # 0 => Quotient(x, y) \in Int
  <2>1. AbsOf(x) \in Nat /\ AbsOf(y) \in Nat /\ (y # 0 => AbsOf(y) # 0)
    BY DEF AbsOf
  <2>2. y # 0 => AbsOf(x) \div AbsOf(y) \in Nat
    BY <2>1, Division
  <2> QED
    BY <2>2 DEF Quotient
<1>3. y # 0 => x - y * Quotient(x, y) \in Int
  <2>1. \A q \in Int : x - y * q \in Int
    OBVIOUS
  <2> QED
    BY <1>2, <2>1
<1>4. x + y \in Int /\ x - y \in Int /\ x * y \in Int /\ -x \in Int /\ -x - 1 \in Int
  OBVIOUS
<1>5. \A op : UnaryOutcome(op, x, type, ov) \subseteq SIntPatterns(type.half)
  BY <1>1, <1>4, Zenon DEF UnaryOutcome
<1>6. Outcome("ADD", x, y, type, ov) \subseteq SIntPatterns(type.half)
  <2>1. Outcome("ADD", x, y, type, ov) = Resulting(x + y, type, ov)
    BY DEF Outcome
  <2> QED
    BY <1>1, <1>4, <2>1
<1>7. Outcome("SUB", x, y, type, ov) \subseteq SIntPatterns(type.half)
  <2>1. Outcome("SUB", x, y, type, ov) = Resulting(x - y, type, ov)
    BY DEF Outcome
  <2> QED
    BY <1>1, <1>4, <2>1
<1>8. Outcome("MUL", x, y, type, ov) \subseteq SIntPatterns(type.half)
  <2>1. Outcome("MUL", x, y, type, ov) = Resulting(x * y, type, ov)
    BY DEF Outcome
  <2> QED
    BY <1>1, <1>4, <2>1
<1>9. Outcome("DIV", x, y, type, ov) \subseteq SIntPatterns(type.half)
  <2>1. Outcome("DIV", x, y, type, ov) = IF y = 0 THEN {} ELSE Resulting(Quotient(x, y), type, ov)
    BY DEF Outcome
  <2> QED
    BY <1>1, <1>2, <2>1
<1>10. Outcome("MOD", x, y, type, ov) \subseteq SIntPatterns(type.half)
  <2>1. Outcome("MOD", x, y, type, ov) =
           IF y = 0 THEN {} ELSE Resulting(x - y * Quotient(x, y), type, ov)
    BY DEF Outcome
  <2> QED
    BY <1>1, <1>3, <2>1
<1> QED
  BY <1>5, <1>6, <1>7, <1>8, <1>9, <1>10 DEF Operators

\* The domain of an outcome.
LEMMA SingleResultMade ==
  ASSUME NEW S, NEW type, type.half \in Nat \ {0, 1}, type.unsigned \in BOOLEAN,
         NEW outcome, outcome \subseteq SIntPatterns(type.half)
  PROVE  SingleResult(outcome, type) \in DomainsOf(type.half, S)
<1> DEFINE v == CHOOSE x \in outcome : TRUE
<1>1. outcome # {} => v \in SIntPatterns(type.half)
  OBVIOUS
<1> HIDE DEF v
<1>2. outcome # {} => Bare(Single(v, type.half), type.unsigned) \in DomainsOf(type.half, S)
  BY <1>1, SingleLegal, BareMade
<1> QED
  BY <1>2, ExtremesMade DEF SingleResult, v

\* The domains the analysis knows are legal, each with bounds by the symbols.
DomainsLegal ==
    \A s \in Symbols :
        /\ dom[s].numeric.half \in Nat \ {0, 1}
        /\ dom[s] \in DomainsOf(dom[s].numeric.half, Symbols)

\* The type of a symbol and the parts of its domain.
LEMMA SymbolParts ==
  ASSUME DomainsLegal, NEW s \in Symbols
  PROVE  /\ TypeOf(s).half = dom[s].numeric.half /\ TypeOf(s).half \in Nat \ {0, 1}
         /\ TypeOf(s).unsigned = dom[s].unsigned /\ dom[s].unsigned \in BOOLEAN
         /\ dom[s] \in DomainsOf(TypeOf(s).half, Symbols)
         /\ dom[s].numeric \in RangesOf(TypeOf(s).half)
         /\ dom[s].numeric.lower \in SIntPatterns(TypeOf(s).half)
         /\ DOMAIN dom[s].bounds \subseteq Symbols
         /\ \A t \in DOMAIN dom[s].bounds : dom[s].bounds[t] \in RangesOf(TypeOf(s).half)
<1>1. /\ TypeOf(s).half = dom[s].numeric.half /\ TypeOf(s).unsigned = dom[s].unsigned
      /\ TypeOf(s).half \in Nat \ {0, 1} /\ dom[s] \in DomainsOf(TypeOf(s).half, Symbols)
  BY DEF DomainsLegal, TypeOf
<1> QED
  BY <1>1, DomainParts, HalfOfRange

\* A range that does not begin with the smallest value has a negation.
LEMMA NegateOther ==
  ASSUME NEW h \in Nat \ {0, 1}, NEW r \in RangesOf(h), r.lower # SMinValue(h)
  PROVE  Negate(r) \in RangesOf(h)
<1>1. Single(SMinValue(h), h).lower = SMinValue(h)
  BY DEF Single, Interval
<1> QED
  BY <1>1, NegateLegal

\* Negation and complement, outside the gap ends.
LEMMA UnaryMade ==
  ASSUME DomainsLegal, NEW s \in Symbols, NEW ov, NEW op \in {"NEG", "BITNOT"}, ~LosesEnd(op, s, s)
  PROVE  /\ ComputeNegRange(s, ov) \in DomainsOf(TypeOf(s).half, Symbols)
         /\ ComputeBitNotRange(s) \in DomainsOf(TypeOf(s).half, Symbols)
<1> DEFINE h == TypeOf(s).half
           x == ValueIn(dom[s].numeric.lower, TypeOf(s))
           single == SingleResult(UnaryOutcome("NEG", x, TypeOf(s), ov), TypeOf(s))
           negated == Negate(dom[s].numeric)
<1>1. /\ h \in Nat \ {0, 1} /\ h = dom[s].numeric.half
      /\ TypeOf(s).unsigned \in BOOLEAN /\ TypeOf(s).unsigned = dom[s].unsigned
      /\ dom[s] \in DomainsOf(h, Symbols)
      /\ dom[s].numeric \in RangesOf(h) /\ dom[s].numeric.lower \in SIntPatterns(h)
  BY SymbolParts
<1>2. negated \in RangesOf(h)
  <2>1. dom[s].numeric.lower # SMinValue(h)
    BY <1>1 DEF LosesEnd
  <2> QED
    BY <1>1, <2>1, NegateOther
<1>3. single \in DomainsOf(h, Symbols)
  <2>1. x \in Int
    BY <1>1, ResultingPatterns
  <2>2. UnaryOutcome("NEG", x, TypeOf(s), ov) \subseteq SIntPatterns(h)
    BY <1>1, <2>1, OutcomePatterns
  <2> QED
    BY <1>1, <2>2, SingleResultMade
<1>4. Bare(negated, TypeOf(s).unsigned) \in DomainsOf(h, Symbols)
  BY <1>1, <1>2, BareMade
<1>5. /\ Top(h, TypeOf(s).unsigned) \in DomainsOf(h, Symbols)
      /\ Bottom(h, TypeOf(s).unsigned) \in DomainsOf(h, Symbols)
  BY <1>1, ExtremesMade
<1>6. ComputeNegRange(s, ov) \in
         {Bottom(h, TypeOf(s).unsigned), single, Top(h, TypeOf(s).unsigned),
          Bare(negated, TypeOf(s).unsigned)}
  BY Zenon DEF ComputeNegRange
<1>7. Bare(Subtract(negated, 1), dom[s].unsigned) \in DomainsOf(h, Symbols)
  <2>1. 1 \in SIntPatterns(h)
    BY <1>1 DEF SIntPatterns
  <2> QED
    BY <1>1, <1>2, <2>1, SubtractLegal, BareMade
<1>8. ComputeBitNotRange(s) \in DomainsOf(h, Symbols)
  BY <1>1, <1>7, Zenon DEF ComputeBitNotRange
<1> QED
  BY <1>3, <1>4, <1>5, <1>6, <1>8

\* A difference through common symbols is one of the type.
LEMMA CommonDifferenceFits ==
  ASSUME NEW s, NEW t, NEW d \in CommonSymbolDifference(s, t)
  PROVE  Fits(d, TypeOf(s))
BY Zenon DEF CommonSymbolDifference

\* Binary expressions, outside the gap ends.
LEMMA BinaryMade ==
  ASSUME DomainsLegal, NEW s \in Symbols, NEW t \in Symbols, NEW ov, NEW op \in Operators,
         TypeOf(s) = TypeOf(t), ~LosesEnd(op, s, t)
  PROVE  BinaryRange(op, s, t, ov) \in DomainsOf(TypeOf(s).half, Symbols)
<1> DEFINE h == TypeOf(s).half
           x == ValueIn(dom[s].numeric.lower, TypeOf(s))
           y == ValueIn(dom[t].numeric.lower, TypeOf(s))
           common == IF op = "SUB" /\ ov = "THROWING" /\ ~dom[s].unsigned
                     THEN CommonSymbolDifference(s, t) ELSE {}
           chosen == CHOOSE d \in common : TRUE
           generic == ComputeArithmeticBinop(op, dom[s], dom[t], s, t, ov, dom[s].unsigned)
<1>1. /\ h \in Nat \ {0, 1} /\ h = dom[s].numeric.half
      /\ TypeOf(s).unsigned \in BOOLEAN /\ TypeOf(s).unsigned = dom[s].unsigned
      /\ dom[s] \in DomainsOf(h, Symbols) /\ dom[s].numeric.lower \in SIntPatterns(h)
      /\ dom[t] \in DomainsOf(h, Symbols) /\ dom[t].numeric.lower \in SIntPatterns(h)
  BY SymbolParts
<1>2. common # {} => Bare(Single(chosen % (2 * h), h), FALSE) \in DomainsOf(h, Symbols)
  <2>1. common # {} => chosen \in Int
    <3>1. common # {} => chosen \in CommonSymbolDifference(s, t)
      OBVIOUS
    <3>2. \A d : Fits(d, TypeOf(s)) => d \in Int
      BY <1>1 DEF Fits
    <3> QED
      BY <3>1, <3>2, CommonDifferenceFits
  <2> HIDE DEF chosen, common
  <2> QED
    BY <1>1, <2>1, ModuloIsPattern, SingleLegal, BareMade
<1>3. CheckSingleValueOverflow(op, s, t, ov) \in DomainsOf(h, Symbols)
  <2>1. x \in Int /\ y \in Int
    BY <1>1, ResultingPatterns
  <2>2. Outcome(op, x, y, TypeOf(s), ov) \subseteq SIntPatterns(h)
    BY <1>1, <2>1, OutcomePatterns
  <2>3. SingleResult(Outcome(op, x, y, TypeOf(s), ov), TypeOf(s)) \in DomainsOf(h, Symbols)
    BY <1>1, <2>2, SingleResultMade
  <2>4. Top(h, TypeOf(s).unsigned) \in DomainsOf(h, Symbols)
    BY <1>1, ExtremesMade
  <2> QED
    BY <2>3, <2>4, Zenon DEF CheckSingleValueOverflow
<1>4. generic \in DomainsOf(h, Symbols)
  <2>1. op = "SUB" /\ ~dom[s].unsigned /\ HasBound(dom[t], s) =>
           dom[t].bounds[s] # Single(SMinValue(h), h)
    BY <1>1 DEF LosesEnd
  <2> QED
    BY <1>1, <2>1, BinopMade
<1>5. \/ common # {} /\ BinaryRange(op, s, t, ov) = Bare(Single(chosen % (2 * h), h), FALSE)
      \/ BinaryRange(op, s, t, ov) = CheckSingleValueOverflow(op, s, t, ov)
      \/ BinaryRange(op, s, t, ov) = generic
  BY Zenon DEF BinaryRange
<1> QED
  BY <1>2, <1>3, <1>4, <1>5

\* Casts: what is kept of the bounds is bounded by the same symbols, and by the
\* one that was cast.
LEMMA CastMade ==
  ASSUME DomainsLegal, NEW s \in Symbols, NEW type, type.half \in Nat \ {0, 1},
         type.unsigned \in BOOLEAN, NEW ov
  PROVE  ComputeTypeCast(s, type, ov) \in DomainsOf(type.half, Symbols)
<1> DEFINE c == dom[s]
           numeric == IF IsBottom(c) THEN Empty(type.half)
                      ELSE NumericConversion(c.numeric, type.half, c.unsigned, type.unsigned, ov)
           kept == {t \in DOMAIN c.bounds : IsNonNeg(SMinOf(dom[t].numeric), dom[t].numeric.half)}
           bound(t) == IF t = s THEN Single(0, type.half)
                       ELSE NumericConversionWithSameSigness(c.bounds[t], type.half, FALSE, "THROWING")
           bounds == [t \in kept \union {s} |-> bound(t)]
<1>1. /\ TypeOf(s).half \in Nat \ {0, 1} /\ c.unsigned \in BOOLEAN
      /\ c.numeric \in RangesOf(TypeOf(s).half) /\ DOMAIN c.bounds \subseteq Symbols
      /\ \A t \in DOMAIN c.bounds : c.bounds[t] \in RangesOf(TypeOf(s).half)
  BY SymbolParts
<1>2. numeric \in RangesOf(type.half)
  BY <1>1, ConversionLegal, ExtremesLegal
<1>3. kept \union {s} \in SUBSET Symbols
  BY <1>1
<1>4. \A t \in kept \union {s} : bound(t) \in RangesOf(type.half)
  <2>1. Single(0, type.half) \in RangesOf(type.half)
    <3>1. 0 \in SIntPatterns(type.half)
      BY DEF SIntPatterns
    <3> QED
      BY <3>1, SingleLegal
  <2>2. \A t \in kept :
           NumericConversionWithSameSigness(c.bounds[t], type.half, FALSE, "THROWING") \in RangesOf(type.half)
    BY <1>1, SameSignessLegal
  <2> QED
    BY <2>1, <2>2
<1>5. \/ ComputeTypeCast(s, type, ov) = Bare(numeric, type.unsigned)
      \/ ComputeTypeCast(s, type, ov) = Domain(numeric, bounds, type.unsigned)
  <2>1. ComputeTypeCast(s, type, ov) = CastDomain(s, numeric, type, ov)
    BY Zenon DEF ComputeTypeCast
  <2> HIDE DEF numeric
  <2> QED
    BY <2>1, Zenon DEF CastDomain
<1> HIDE DEF c, numeric, bound, kept
<1>6. bounds \in [kept \union {s} -> RangesOf(type.half)]
  BY <1>4
<1> HIDE DEF bounds
<1>7. Domain(numeric, bounds, type.unsigned) \in DomainsOf(type.half, Symbols)
  BY <1>2, <1>3, <1>6, DomainMade
<1> QED
  BY <1>2, <1>5, <1>7, BareMade

-----------------------------------------------------------------------------
(* Narrowing.                                                               *)

\* Domains of the symbols, each of the width of its symbol.
DomainMaps == {f \in [Symbols -> UNION {DomainsOf(TypeOf(u).half, Symbols) : u \in Symbols}] :
                 \A u \in Symbols : f[u] \in DomainsOf(TypeOf(u).half, Symbols)}

\* A domain narrowed by a domain.
LEMMA ValueNarrowed ==
  ASSUME DomainsLegal, NEW doms \in DomainMaps, NEW s \in Symbols,
         NEW d \in DomainsOf(TypeOf(s).half, Symbols)
  PROVE  NarrowSIntValue(doms, s, d) \in DomainMaps
<1> DEFINE made == IntersectForNarrowing(doms[s], d)
<1>1. made \in DomainsOf(TypeOf(s).half, Symbols)
  BY SymbolParts, NarrowingMade DEF DomainMaps
<1>2. NarrowSIntValue(doms, s, d) = [doms EXCEPT ![s] = made]
  BY DEF NarrowSIntValue
<1> HIDE DEF made
<1> QED
  BY <1>1, <1>2 DEF DomainMaps

\* The two sides of a comparison, narrowed by each other.
LEMMA SymbolsNarrowed ==
  ASSUME DomainsLegal, NEW doms \in DomainMaps, NEW s \in Symbols, NEW t \in Symbols,
         TypeOf(s) = TypeOf(t), NEW rel \in Relations
  PROVE  NarrowBySymbols(doms, s, t, rel) \in DomainMaps
<1> DEFINE bySymbol(r, u) == FromSymbolic(r, u, TypeOf(s).unsigned, TypeOf(s).half)
<1>1. SwapOf(rel) \in Relations
  BY DEF SwapOf, Relations
<1>2. /\ bySymbol(rel, t) \in DomainsOf(TypeOf(s).half, Symbols)
      /\ bySymbol(SwapOf(rel), s) \in DomainsOf(TypeOf(t).half, Symbols)
  BY <1>1, SymbolParts, FromSymbolicMade
<1>3. NarrowBySymbols(doms, s, t, rel) =
         IF s = t THEN doms
         ELSE NarrowSIntValue(NarrowSIntValue(doms, s, bySymbol(rel, t)), t, bySymbol(SwapOf(rel), s))
  BY Zenon DEF NarrowBySymbols
<1> HIDE DEF bySymbol
<1>4. NarrowSIntValue(doms, s, bySymbol(rel, t)) \in DomainMaps
  BY <1>2, ValueNarrowed
<1>5. NarrowSIntValue(NarrowSIntValue(doms, s, bySymbol(rel, t)), t, bySymbol(SwapOf(rel), s)) \in DomainMaps
  BY <1>2, <1>4, ValueNarrowed
<1> QED
  BY <1>3, <1>5

\* A domain narrowed by a constant.
LEMMA NarrowedMade ==
  ASSUME NEW h \in Nat \ {0, 1}, NEW S, NEW c \in DomainsOf(h, S), NEW v \in SIntPatterns(h),
         NEW rel \in Relations
  PROVE  Narrowed(c, rel, v) \in DomainsOf(h, S)
<1>1. c.numeric.half = h /\ c.unsigned \in BOOLEAN
  BY DomainParts
<1>2. IntersectForNarrowing(c, FromNumeric(rel, v, c.unsigned, h)) \in DomainsOf(h, S)
  BY <1>1, FromNumericMade, NarrowingMade
<1>3. ExcludeSIntConstant(c, v) \in DomainsOf(h, S)
  BY <1>1, ExtremesMade DEF ExcludeSIntConstant
<1> QED
  BY <1>1, <1>2, <1>3 DEF Narrowed

\* A symbol and all it was cast or computed from, narrowed by a constant: each
\* by a pattern of its own width, whatever the chain.
LEMMA ConstantNarrowed ==
  ASSUME DomainsLegal, NEW doms \in DomainMaps, NEW s \in Symbols, NEW rel \in Relations, NEW v
  PROVE  NarrowByConstant(doms, s, rel, v) \in DomainMaps
<1> DEFINE sources[n \in 0 .. s] ==
              IF n = 0 THEN {<<s, v>>}
              ELSE LET known == sources[n - 1]
                   IN  known \union UNION {SourceOf(doms, rel, p) : p \in known}
           related == sources[s]
           constants(t) == {c \in SIntPatterns(TypeOf(t).half) : <<t, c>> \in related}
           narrowed(t) == IF constants(t) = {} THEN doms[t]
                          ELSE Narrowed(doms[t], rel, CHOOSE c \in constants(t) : TRUE)
<1>1. NarrowByConstant(doms, s, rel, v) = [t \in Symbols |-> narrowed(t)]
  BY Zenon DEF NarrowByConstant
<1> HIDE DEF related
<1>2. ASSUME NEW t \in Symbols
      PROVE  narrowed(t) \in DomainsOf(TypeOf(t).half, Symbols)
  <2>1. doms[t] \in DomainsOf(TypeOf(t).half, Symbols) /\ TypeOf(t).half \in Nat \ {0, 1}
    BY SymbolParts DEF DomainMaps
  <2>2. CASE constants(t) = {}
    BY <2>1, <2>2
  <2>3. CASE constants(t) # {}
    <3>1. (CHOOSE c \in constants(t) : TRUE) \in SIntPatterns(TypeOf(t).half)
      BY <2>3
    <3> HIDE DEF constants
    <3> QED
      BY <2>1, <2>3, <3>1, NarrowedMade
  <2> QED
    BY <2>2, <2>3
<1> HIDE DEF narrowed
<1> QED
  BY <1>1, <1>2 DEF DomainMaps

\* What one edge of a branch on a comparison narrows.
LEMMA ComparisonNarrowed ==
  ASSUME DomainsLegal, dom \in DomainMaps, NEW s \in Symbols, NEW t \in Symbols,
         TypeOf(s) = TypeOf(t), NEW rel \in Relations
  PROVE  ApplyIntComparisonConstraint(dom, s, t, rel) \in DomainMaps
<1> DEFINE left == NarrowByConstants(dom, s, rel, ConstantsOf(dom, t))
           right == NarrowByConstants(left, t, SwapOf(rel), ConstantsOf(dom, s))
<1>1. SwapOf(rel) \in Relations
  BY DEF SwapOf, Relations
<1>2. left \in DomainMaps
  BY ConstantNarrowed DEF NarrowByConstants
<1>3. ApplyIntComparisonConstraint(dom, s, t, rel) = NarrowBySymbols(right, s, t, rel)
  BY DEF ApplyIntComparisonConstraint
<1> HIDE DEF left
<1>4. right \in DomainMaps
  BY <1>1, <1>2, ConstantNarrowed DEF NarrowByConstants
<1> HIDE DEF right
<1> QED
  BY <1>3, <1>4, SymbolsNarrowed

-----------------------------------------------------------------------------
(* Smallest covers.                                                         *)

\* Until a first step is taken every domain is that of an operand: a legal
\* range without bounds.
OperandDomains ==
    UNION {{Bare(r, unsigned) : r \in RangesOf(h), unsigned \in BOOLEAN} : h \in Nat \ {0, 1}}
OperandsOnly ==
    /\ family \in DOMAIN Families
    /\ steps \in Nat
    /\ steps = 0 => dom \in Seq(OperandDomains)

\* Every action but the entry of an operand is a step.
LEMMA StepsCount ==
  ASSUME OperandsOnly, [Next]_vars
  PROVE  \/ UNCHANGED vars
         \/ \E r \in Program.ranges, type \in Program.types :
               r.half = type.half /\ Operand(r, type.unsigned)
         \/ steps' = steps + 1 /\ UNCHANGED family
<1>1. ASSUME NEW s \in Symbols, NEW ov \in Program.strategies, NEW op, HandleUnaryExpr(op, s, ov)
      PROVE  steps' = steps + 1 /\ UNCHANGED family
  BY <1>1 DEF HandleUnaryExpr, Define, Step
<1>2. ASSUME NEW s \in Symbols, NEW ov \in Program.strategies, NEW type \in Program.types, HandleTypeCast(s, type, ov)
      PROVE  steps' = steps + 1 /\ UNCHANGED family
  BY <1>2 DEF HandleTypeCast, Define, Step
<1>3. ASSUME NEW s \in Symbols, NEW ov \in Program.strategies, NEW op, NEW t \in Symbols, HandleBinaryExpr(op, s, t, ov)
      PROVE  steps' = steps + 1 /\ UNCHANGED family
  BY <1>3 DEF HandleBinaryExpr, Define, Step
<1>4. ASSUME NEW s \in Symbols, NEW t \in Symbols, NEW rel \in Relations,
             TakeBranch(s, t, rel) \/ MergeBranch(s, t, rel)
      PROVE  steps' = steps + 1 /\ UNCHANGED family
  BY <1>4 DEF TakeBranch, MergeBranch, Step
<1> QED
  BY <1>1, <1>2, <1>3, <1>4, Zenon DEF Next

\* Every step keeps the domains of the operands what they were when they entered.
LEMMA OperandsOnlyInductive ==
  ASSUME OperandsOnly, [Next]_vars
  PROVE  OperandsOnly'
<1>1. CASE UNCHANGED vars
  BY <1>1 DEF OperandsOnly, vars
<1>2. ASSUME NEW r \in Program.ranges, NEW type \in Program.types, Operand(r, type.unsigned)
      PROVE  OperandsOnly'
  <2>1. r.half \in Nat \ {0, 1} /\ r \in RangesOf(r.half) /\ type.unsigned \in BOOLEAN
    BY FamiliesAssumption DEF OperandsOnly, Program
  <2>2. Bare(r, type.unsigned) \in OperandDomains
    BY <2>1 DEF OperandDomains
  <2>3. steps = 0 /\ dom' = Append(dom, Bare(r, type.unsigned)) /\ UNCHANGED <<family, steps>>
    BY <1>2 DEF Operand
  <2> QED
    BY <2>2, <2>3 DEF OperandsOnly
<1>3. CASE steps' = steps + 1 /\ UNCHANGED family
  BY <1>3 DEF OperandsOnly
<1> QED
  BY <1>1, <1>2, <1>3, StepsCount

\* What is in a range is what the range denotes.
LEMMA ElementsOfRange ==
  ASSUME NEW h \in Nat \ {0, 1}, NEW a \in RangesOf(h), NEW b \in RangesOf(h)
  PROVE  /\ ElementsOf(a) = {v \in SIntPatterns(h) : Contains(a, v)}
         /\ ElementsOf(a) \union ElementsOf(b) = Either(a, b, h)
         /\ ElementsOf(a) \intersect ElementsOf(b) = Common(a, b, h)
<1>1. a.half = h /\ b.half = h
  BY HalfOfRange
<1> QED
  BY <1>1 DEF ElementsOf, Either, Common

\* The best range for a set, where the smallest is preferred, is its smallest cover.
LEMMA BestIsSmallest ==
  ASSUME NEW h \in Nat \ {0, 1}, NEW S \in SUBSET SIntPatterns(h), NEW r, Best(r, S, "Smallest", h)
  PROVE  /\ S \subseteq ElementsOf(r)
         /\ \A q \in RangesOf(h) : S \subseteq ElementsOf(q) => ~IsSizeStrictlySmallerThan(q, r)
<1>1. r \in RangesOf(h)
  BY DEF Best
<1>2. S \subseteq ElementsOf(r)
  BY <1>1, ElementsOfRange DEF Best
<1>3. ASSUME NEW q \in RangesOf(h), S \subseteq ElementsOf(q)
      PROVE  ~IsSizeStrictlySmallerThan(q, r)
  <2>1. \A v \in S : Contains(q, v)
    BY <1>3, ElementsOfRange
  <2> QED
    BY <2>1 DEF Best
<1> QED
  BY <1>2, <1>3

\* The smallest covers of any two operands.
LEMMA OperandsCovered ==
  ASSUME OperandsOnly
  PROVE  CoversSmallest
<1> SUFFICES ASSUME steps = 0, Len(dom) = 2, TypeOf(1) = TypeOf(2)
             PROVE  CoversSmallest
  BY DEF CoversSmallest
<1> DEFINE a == dom[1].numeric
           b == dom[2].numeric
<1>1. dom \in Seq(OperandDomains) /\ 1 \in DOMAIN dom /\ 2 \in DOMAIN dom
  BY DEF OperandsOnly
<1>2. dom[1] \in OperandDomains /\ dom[2] \in OperandDomains
  BY <1>1
<1>3. PICK h \in Nat \ {0, 1} : a \in RangesOf(h)
  BY <1>2 DEF OperandDomains, Bare, Domain
<1>4. PICK k \in Nat \ {0, 1} : b \in RangesOf(k)
  BY <1>2 DEF OperandDomains, Bare, Domain
<1>5. a.half = h /\ b \in RangesOf(h)
  <2>1. a.half = h /\ b.half = k
    BY <1>3, <1>4, HalfOfRange
  <2>2. a.half = b.half
    BY DEF TypeOf
  <2> QED
    BY <1>4, <2>1, <2>2
<1> HIDE DEF a, b
<1>6. /\ Best(UnionWith(a, b, "Smallest"), ElementsOf(a) \union ElementsOf(b), "Smallest", h)
      /\ Best(IntersectWith(a, b, "Smallest"), ElementsOf(a) \intersect ElementsOf(b), "Smallest", h)
  <2>1. /\ Best(UnionWith(a, b, "Smallest"), Either(a, b, h), "Smallest", h)
        /\ Best(IntersectWith(a, b, "Smallest"), Common(a, b, h), "Smallest", h)
    BY <1>3, <1>5, UnionBest, IntersectionBest, Zenon
  <2>2. /\ ElementsOf(a) \union ElementsOf(b) = Either(a, b, h)
        /\ ElementsOf(a) \intersect ElementsOf(b) = Common(a, b, h)
    BY <1>3, <1>5, ElementsOfRange, Zenon
  <2> QED
    BY <2>1, <2>2, Zenon
<1>7. /\ ElementsOf(a) \union ElementsOf(b) \in SUBSET SIntPatterns(h)
      /\ ElementsOf(a) \intersect ElementsOf(b) \in SUBSET SIntPatterns(h)
  BY <1>3, <1>5, ElementsOfRange
<1> DEFINE smallest(r, exact) ==
              /\ exact \subseteq ElementsOf(r)
              /\ \A q \in RangesOf(a.half) :
                    exact \subseteq ElementsOf(q) => ~IsSizeStrictlySmallerThan(q, r)
<1>8. smallest(UnionWith(a, b, "Smallest"), ElementsOf(a) \union ElementsOf(b))
  BY <1>5, <1>6, <1>7, BestIsSmallest
<1>9. smallest(IntersectWith(a, b, "Smallest"), ElementsOf(a) \intersect ElementsOf(b))
  BY <1>5, <1>6, <1>7, BestIsSmallest
<1> QED
  BY <1>8, <1>9 DEF CoversSmallest, a, b

\* CoversSmallest: for every family of programs, whatever the widths and the
\* ranges, the union and the intersection ConstantRange returns for any two
\* operands cover the exact result, and no legal range that does is smaller.
THEOREM SmallestCovers == Spec => []CoversSmallest
<1>1. Init => OperandsOnly
  BY DEF Init, OperandsOnly
<1>2. OperandsOnly /\ [Next]_vars => OperandsOnly'
  BY OperandsOnlyInductive
<1>3. OperandsOnly => CoversSmallest
  BY OperandsCovered
<1> QED
  BY <1>1, <1>2, <1>3, PTL DEF Spec

-----------------------------------------------------------------------------
(* Type correctness.  The ranges of the domains stay legal as long as no    *)
(* program reaches the gap ends.                                            *)

AnyDomain == UNION {DomainsOf(h, Nat) : h \in Nat \ {0, 1}}

Definitions ==
    [kind : {"literal"}, value : Nat] \union [kind : {"operand", "unary"}]
      \union [kind : {"binary"}, op : Operators, left : Nat, right : Nat]
      \union [kind : {"cast"}, of : Nat]

RangesLegal ==
    /\ family \in DOMAIN Families
    /\ dom \in Seq(AnyDomain) /\ DomainsLegal
    /\ def \in Seq(Definitions) /\ Len(def) = Len(dom)
    /\ \A run \in runs : run \in Seq(Int) /\ Len(run) = Len(dom)

\* More symbols bound no less.
LEMMA DomainsGrow ==
  ASSUME NEW h \in Nat \ {0, 1}, NEW S, NEW T, S \subseteq T
  PROVE  DomainsOf(h, S) \subseteq DomainsOf(h, T)
<1>1. SUBSET S \subseteq SUBSET T
  OBVIOUS
<1>2. UNION {[D -> RangesOf(h)] : D \in SUBSET S} \subseteq UNION {[D -> RangesOf(h)] : D \in SUBSET T}
  BY <1>1
<1> QED
  BY <1>2 DEF DomainsOf

\* A legal domain bounded by numbers is one of all.
LEMMA DomainIsAny ==
  ASSUME NEW h \in Nat \ {0, 1}, NEW S, S \subseteq Nat, NEW d \in DomainsOf(h, S)
  PROVE  d \in AnyDomain
<1>1. d \in DomainsOf(h, Nat)
  BY DomainsGrow
<1> HIDE DEF DomainsOf
<1> QED
  BY <1>1, Zenon DEF AnyDomain

\* A new value with a legal domain keeps the domains legal.
LEMMA ValueAdded ==
  ASSUME RangesLegal, NEW h \in Nat \ {0, 1}, NEW d \in DomainsOf(h, Symbols), NEW f \in Definitions,
         dom' = Append(dom, d), def' = Append(def, f), UNCHANGED family,
         \A run \in runs' : \E q \in runs, v \in Int : run = Append(q, v)
  PROVE  RangesLegal'
<1>1. /\ dom \in Seq(AnyDomain) /\ Symbols = 1 .. Len(dom) /\ Symbols \subseteq Nat
      /\ def \in Seq(Definitions) /\ Len(def) = Len(dom)
  BY DEF RangesLegal, Symbols
<1>2. d \in AnyDomain
  BY <1>1, DomainIsAny
<1>3. dom' \in Seq(AnyDomain) /\ Len(dom') = Len(dom) + 1
  BY <1>1, <1>2
<1>4. Symbols' = Symbols \union {Len(dom) + 1}
  BY <1>1, <1>3 DEF Symbols
<1>5. DomainsLegal'
  <2>1. ASSUME NEW s \in Symbols'
        PROVE  /\ dom'[s].numeric.half \in Nat \ {0, 1}
               /\ dom'[s] \in DomainsOf(dom'[s].numeric.half, Symbols')
    <3>1. CASE s \in Symbols
      <4>1. dom'[s] = dom[s]
        BY <1>1, <1>2, <3>1
      <4>2. /\ dom[s].numeric.half \in Nat \ {0, 1}
            /\ dom[s] \in DomainsOf(dom[s].numeric.half, Symbols)
        BY <3>1 DEF RangesLegal, DomainsLegal
      <4> QED
        BY <1>4, <4>1, <4>2, DomainsGrow
    <3>2. CASE s = Len(dom) + 1
      <4>1. dom'[s] = d
        BY <1>1, <1>2, <3>2
      <4>2. d.numeric.half = h
        BY DomainParts
      <4> QED
        BY <1>4, <4>1, <4>2, DomainsGrow
    <3> QED
      BY <1>4, <2>1, <3>1, <3>2
  <2> QED
    BY <2>1 DEF DomainsLegal
<1>6. def' \in Seq(Definitions) /\ Len(def') = Len(dom')
  BY <1>1, <1>3
<1>7. ASSUME NEW run \in runs'
      PROVE  run \in Seq(Int) /\ Len(run) = Len(dom')
  <2>1. PICK q \in runs, v \in Int : run = Append(q, v)
    OBVIOUS
  <2>2. q \in Seq(Int) /\ Len(q) = Len(dom)
    BY DEF RangesLegal
  <2> QED
    BY <1>3, <2>1, <2>2
<1> QED
  BY <1>3, <1>5, <1>6, <1>7 DEF RangesLegal

\* New domains of the same values keep the domains legal.
LEMMA ValuesNarrowed ==
  ASSUME RangesLegal, dom' \in DomainMaps, UNCHANGED <<family, def>>, runs' \subseteq runs
  PROVE  RangesLegal'
<1>1. dom \in Seq(AnyDomain) /\ Symbols = 1 .. Len(dom) /\ Symbols \subseteq Nat /\ Len(dom) \in Nat
  BY DEF RangesLegal, Symbols
<1>2. \A u \in Symbols : TypeOf(u).half \in Nat \ {0, 1}
  BY SymbolParts DEF RangesLegal
<1>3. \A u \in Symbols : dom'[u] \in DomainsOf(TypeOf(u).half, Symbols) /\ dom'[u] \in AnyDomain
  <2>1. ASSUME NEW u \in Symbols
        PROVE  dom'[u] \in DomainsOf(TypeOf(u).half, Symbols)
    BY DEF DomainMaps
  <2> QED
    BY <1>1, <1>2, <2>1, DomainIsAny
<1>4. dom' \in [1 .. Len(dom) -> AnyDomain]
  BY <1>1, <1>3 DEF DomainMaps
<1>5. dom' \in Seq(AnyDomain) /\ Len(dom') = Len(dom) /\ Symbols' = Symbols
  BY <1>1, <1>4 DEF Symbols
<1>6. DomainsLegal'
  <2>1. ASSUME NEW s \in Symbols
        PROVE  /\ dom'[s].numeric.half \in Nat \ {0, 1}
               /\ dom'[s] \in DomainsOf(dom'[s].numeric.half, Symbols)
    <3>1. dom'[s].numeric.half = TypeOf(s).half
      BY <1>2, <1>3, DomainParts
    <3> QED
      BY <1>2, <1>3, <3>1
  <2> QED
    BY <1>5, <2>1 DEF DomainsLegal
<1> QED
  BY <1>5, <1>6 DEF RangesLegal

\* The value of a symbol in an execution is a number, and so is each outcome.
LEMMA ValuesAreNumbers ==
  ASSUME RangesLegal, NEW run \in runs, NEW s \in Symbols
  PROVE  Val(run, s) \in Int
<1>1. run[s] \in Int
  BY DEF RangesLegal, Symbols
<1>2. TypeOf(s).half \in Nat \ {0, 1}
  BY SymbolParts DEF RangesLegal
<1> QED
  BY <1>1, <1>2 DEF Val, ValueIn, SVal, IsNeg

\* The entry of an operand.
LEMMA OperandEnters ==
  ASSUME RangesLegal, NEW r \in Program.ranges, NEW type \in Program.types, r.half = type.half,
         Operand(r, type.unsigned)
  PROVE  RangesLegal'
<1>1. r.half \in Nat \ {0, 1} /\ r \in RangesOf(r.half) /\ type.unsigned \in BOOLEAN
  BY FamiliesAssumption DEF RangesLegal, Program
<1>2. Bare(r, type.unsigned) \in DomainsOf(r.half, Symbols)
  BY <1>1, BareMade
<1> DEFINE f == IF IsSingleElement(r) THEN [kind |-> "literal", value |-> r.lower]
                                      ELSE [kind |-> "operand"]
<1>3. f \in Definitions
  <2>1. r.lower \in Nat
    BY <1>1 DEF RangesOf, SIntPatterns
  <2> QED
    BY <2>1 DEF Definitions
<1>4. /\ dom' = Append(dom, Bare(r, type.unsigned)) /\ def' = Append(def, f) /\ UNCHANGED family
      /\ runs' = {Append(run, v) : run \in runs, v \in ElementsOf(r)}
  BY DEF Operand
<1>5. ElementsOf(r) \subseteq Int
  BY <1>1 DEF ElementsOf, SIntPatterns
<1> HIDE DEF f
<1>6. \A run \in runs' : \E q \in runs, v \in Int : run = Append(q, v)
  BY <1>4, <1>5
<1> QED
  BY <1>1, <1>2, <1>3, <1>4, <1>6, ValueAdded

\* A unary expression.
LEMMA UnaryDefines ==
  ASSUME RangesLegal, "ends" \notin KnownGaps, NEW s \in Symbols, NEW ov, NEW op \in {"NEG", "BITNOT"},
         HandleUnaryExpr(op, s, ov)
  PROVE  RangesLegal'
<1> DEFINE d == IF op = "NEG" THEN ComputeNegRange(s, ov) ELSE ComputeBitNotRange(s)
<1>1. TypeOf(s).half \in Nat \ {0, 1} /\ TypeOf(s).unsigned \in BOOLEAN
  BY SymbolParts DEF RangesLegal
<1>2. d \in DomainsOf(TypeOf(s).half, Symbols)
  <2>1. ~LosesEnd(op, s, s)
    BY DEF HandleUnaryExpr, Reachable
  <2> QED
    BY <2>1, UnaryMade DEF RangesLegal
<1>3. [kind |-> "unary"] \in Definitions
  BY DEF Definitions
<1>4. /\ dom' = Append(dom, d) /\ def' = Append(def, [kind |-> "unary"]) /\ UNCHANGED family
      /\ runs' = UNION {{Append(run, v) : v \in UnaryOutcome(op, Val(run, s), TypeOf(s), ov)} : run \in runs}
  BY Zenon DEF HandleUnaryExpr, Define, Step
<1>5. \A run \in runs : UnaryOutcome(op, Val(run, s), TypeOf(s), ov) \subseteq Int
  <2>1. \A run \in runs : UnaryOutcome(op, Val(run, s), TypeOf(s), ov) \subseteq SIntPatterns(TypeOf(s).half)
    BY <1>1, ValuesAreNumbers, OutcomePatterns
  <2> QED
    BY <1>1, <2>1 DEF SIntPatterns
<1> HIDE DEF d
<1>6. \A run \in runs' : \E q \in runs, v \in Int : run = Append(q, v)
  BY <1>4, <1>5
<1> QED
  BY <1>1, <1>2, <1>3, <1>4, <1>6, ValueAdded

\* A binary expression.
LEMMA BinaryDefines ==
  ASSUME RangesLegal, "ends" \notin KnownGaps, NEW s \in Symbols, NEW t \in Symbols, NEW ov,
         NEW op \in Operators, HandleBinaryExpr(op, s, t, ov)
  PROVE  RangesLegal'
<1> DEFINE f == [kind |-> "binary", op |-> op, left |-> s, right |-> t]
<1>1. TypeOf(s).half \in Nat \ {0, 1} /\ TypeOf(s).unsigned \in BOOLEAN
  BY SymbolParts DEF RangesLegal
<1>2. BinaryRange(op, s, t, ov) \in DomainsOf(TypeOf(s).half, Symbols)
  <2>1. ~LosesEnd(op, s, t) /\ TypeOf(s) = TypeOf(t)
    BY DEF HandleBinaryExpr, Reachable
  <2> QED
    BY <2>1, BinaryMade DEF RangesLegal
<1>3. f \in Definitions
  <2>1. s \in Nat /\ t \in Nat
    BY DEF RangesLegal, Symbols
  <2> QED
    BY <2>1 DEF Definitions
<1>4. /\ dom' = Append(dom, BinaryRange(op, s, t, ov)) /\ def' = Append(def, f) /\ UNCHANGED family
      /\ runs' = UNION {{Append(run, v) : v \in Outcome(op, Val(run, s), Val(run, t), TypeOf(s), ov)} : run \in runs}
  BY Zenon DEF HandleBinaryExpr, Define, Step
<1>5. \A run \in runs : Outcome(op, Val(run, s), Val(run, t), TypeOf(s), ov) \subseteq Int
  <2>1. \A run \in runs :
           Outcome(op, Val(run, s), Val(run, t), TypeOf(s), ov) \subseteq SIntPatterns(TypeOf(s).half)
    BY <1>1, ValuesAreNumbers, OutcomePatterns
  <2> QED
    BY <1>1, <2>1 DEF SIntPatterns
<1> HIDE DEF f
<1>6. \A run \in runs' : \E q \in runs, v \in Int : run = Append(q, v)
  BY <1>4, <1>5
<1> QED
  BY <1>1, <1>2, <1>3, <1>4, <1>6, ValueAdded

\* A cast.
LEMMA CastDefines ==
  ASSUME RangesLegal, NEW s \in Symbols, NEW type \in Program.types, NEW ov, HandleTypeCast(s, type, ov)
  PROVE  RangesLegal'
<1>1. type.half \in Nat \ {0, 1} /\ type.unsigned \in BOOLEAN
  BY FamiliesAssumption DEF RangesLegal, Program, IsHalfModulus
<1>2. ComputeTypeCast(s, type, ov) \in DomainsOf(type.half, Symbols)
  BY <1>1, CastMade DEF RangesLegal
<1>3. [kind |-> "cast", of |-> s] \in Definitions
  <2>1. s \in Nat
    BY DEF RangesLegal, Symbols
  <2> QED
    BY <2>1 DEF Definitions
<1>4. /\ dom' = Append(dom, ComputeTypeCast(s, type, ov)) /\ def' = Append(def, [kind |-> "cast", of |-> s])
      /\ UNCHANGED family
      /\ runs' = UNION {{Append(run, v) : v \in Resulting(Val(run, s), type, ov)} : run \in runs}
  BY Zenon DEF HandleTypeCast, Define, Step
<1>5. \A run \in runs : Resulting(Val(run, s), type, ov) \subseteq Int
  <2>1. \A run \in runs : Resulting(Val(run, s), type, ov) \subseteq SIntPatterns(type.half)
    BY <1>1, ValuesAreNumbers, ResultingPatterns
  <2> QED
    BY <1>1, <2>1 DEF SIntPatterns
<1>6. \A run \in runs' : \E q \in runs, v \in Int : run = Append(q, v)
  BY <1>4, <1>5
<1> QED
  BY <1>1, <1>2, <1>3, <1>4, <1>6, ValueAdded

\* The domains known at any time are maps of their own symbols.
LEMMA DomainsAreMaps ==
  ASSUME RangesLegal
  PROVE  dom \in DomainMaps
<1>1. \A u \in Symbols : dom[u] \in DomainsOf(TypeOf(u).half, Symbols)
  BY SymbolParts DEF RangesLegal
<1>2. dom = [u \in Symbols |-> dom[u]]
  BY DEF RangesLegal, Symbols
<1> QED
  BY <1>1, <1>2 DEF DomainMaps

\* One edge of a branch.
LEMMA BranchNarrows ==
  ASSUME RangesLegal, NEW s \in Symbols, NEW t \in Symbols, NEW rel \in Relations, TakeBranch(s, t, rel)
  PROVE  RangesLegal'
<1>1. ApplyIntComparisonConstraint(dom, s, t, rel) \in DomainMaps
  BY DomainsAreMaps, ComparisonNarrowed DEF RangesLegal, TakeBranch
<1>2. dom' \in DomainMaps /\ UNCHANGED <<family, def>> /\ runs' \subseteq runs
  BY <1>1 DEF TakeBranch, Step
<1> QED
  BY <1>2, ValuesNarrowed

\* Both edges of a branch, joined.
LEMMA MergeJoins ==
  ASSUME RangesLegal, NEW s \in Symbols, NEW t \in Symbols, NEW rel \in Relations, MergeBranch(s, t, rel)
  PROVE  RangesLegal'
<1> DEFINE taken == ApplyIntComparisonConstraint(dom, s, t, rel)
           other == ApplyIntComparisonConstraint(dom, s, t, NegOf(rel))
<1>1. NegOf(rel) \in Relations
  BY DEF NegOf, Relations
<1>2. taken \in DomainMaps /\ other \in DomainMaps
  BY <1>1, DomainsAreMaps, ComparisonNarrowed DEF RangesLegal, MergeBranch
<1>3. dom' = taken \/ dom' = other \/ dom' = [u \in Symbols |-> Join(taken[u], other[u])]
  BY Zenon DEF MergeBranch
<1>4. UNCHANGED <<family, def>> /\ runs' \subseteq runs
  BY DEF MergeBranch, Step
<1> HIDE DEF taken, other
<1>5. [u \in Symbols |-> Join(taken[u], other[u])] \in DomainMaps
  <2>1. ASSUME NEW u \in Symbols
        PROVE  Join(taken[u], other[u]) \in DomainsOf(TypeOf(u).half, Symbols)
    BY <1>2, SymbolParts, JoinMade DEF DomainMaps, RangesLegal
  <2> QED
    BY <2>1 DEF DomainMaps
<1>6. dom' \in DomainMaps
  BY <1>2, <1>3, <1>5
<1> QED
  BY <1>4, <1>6, ValuesNarrowed

\* Every step keeps the ranges legal.
LEMMA RangesLegalInductive ==
  ASSUME RangesLegal, "ends" \notin KnownGaps, [Next]_vars
  PROVE  RangesLegal'
<1>1. CASE UNCHANGED vars
  BY <1>1 DEF RangesLegal, DomainsLegal, Symbols, vars
<1>2. CASE \E r \in Program.ranges, type \in Program.types :
              r.half = type.half /\ Operand(r, type.unsigned)
  BY <1>2, OperandEnters
<1>3. CASE \E s \in Symbols, ov \in Program.strategies, op \in Program.operators :
              \/ op \in {"NEG", "BITNOT"} /\ HandleUnaryExpr(op, s, ov)
              \/ op = "CAST" /\ \E type \in Program.types : HandleTypeCast(s, type, ov)
              \/ op \in Operators /\ \E t \in Symbols : HandleBinaryExpr(op, s, t, ov)
  BY <1>3, UnaryDefines, CastDefines, BinaryDefines
<1>4. CASE \E s, t \in Symbols, rel \in Relations : TakeBranch(s, t, rel) \/ MergeBranch(s, t, rel)
  BY <1>4, BranchNarrows, MergeJoins
<1> QED
  BY <1>1, <1>2, <1>3, <1>4 DEF Next

\* Legal domains are what the type invariant asks for.
LEMMA LegalIsTyped ==
  ASSUME RangesLegal
  PROVE  TypeOK
<1>1. ASSUME NEW s \in Symbols
      PROVE  /\ IsRange(dom[s].numeric)
             /\ DOMAIN dom[s].bounds \subseteq Symbols
             /\ \A t \in DOMAIN dom[s].bounds :
                   IsRange(dom[s].bounds[t]) /\ dom[s].bounds[t].half = dom[s].numeric.half
  <2> DEFINE h == TypeOf(s).half
  <2>1. /\ h = dom[s].numeric.half /\ DOMAIN dom[s].bounds \subseteq Symbols
        /\ dom[s].numeric \in RangesOf(h)
        /\ \A t \in DOMAIN dom[s].bounds : dom[s].bounds[t] \in RangesOf(h)
    BY SymbolParts DEF RangesLegal
  <2>2. \A r \in RangesOf(h) : IsRange(r) /\ r.half = h
    BY DEF RangesOf
  <2> QED
    BY <2>1, <2>2
<1> QED
  BY <1>1 DEF TypeOK, RangesLegal

\* Every range the analysis computes, of a value or of a difference, is one the
\* constructor's assertion accepts, of the width of the value; for every family
\* of programs that does not reach the gap ends.
THEOREM RangesAreRanges ==
  ASSUME "ends" \notin KnownGaps
  PROVE  Spec => []TypeOK
<1>1. Init => RangesLegal
  BY DEF Init, RangesLegal, DomainsLegal, Symbols
<1>2. RangesLegal /\ [Next]_vars => RangesLegal'
  BY RangesLegalInductive
<1>3. RangesLegal => TypeOK
  BY LegalIsTyped
<1> QED
  BY <1>1, <1>2, <1>3, PTL DEF Spec

-----------------------------------------------------------------------------
(* Widths of bits: products, quotients and remainders, and what ranges of   *)
(* them cover.                                                              *)

\* It is a power of two.
LEMMA HalfIsPower ==
  ASSUME NEW h, IsHalfModulus(h)
  PROVE  IsPower(ActiveBits(h) - 1, h) /\ ActiveBits(h) - 1 \in Nat
<1>1. h \in Nat \ {0, 1} /\ h - 1 \in Nat
  BY DEF IsHalfModulus
<1>2. ActiveBits(h) \in Nat /\ ActiveBits(h - 1) \in Nat /\ ActiveBits(h) - 1 \in Nat
  <2>1. ActiveBits(h) \in Nat /\ ActiveBits(h - 1) \in Nat
    BY <1>1, BitsFact
  <2> QED
    BY <2>1 DEF IsHalfModulus
<1>3. PICK p \in Nat : IsPower(ActiveBits(h) - 1, p)
  BY <1>2, PowersMultiply
<1>4. h - 1 < p
  BY <1>1, <1>2, <1>3 DEF IsPower, IsHalfModulus
<1>5. ~(h < p)
  BY <1>1, <1>2, <1>3 DEF IsPower
<1>6. p = h
  BY <1>1, <1>3, <1>4, <1>5
<1> QED
  BY <1>2, <1>3, <1>6

\* SInt::UMulOvf, which counts the leading zeros of its operands and then multiplies
\* by halves, reports exactly the products that do not fit the width, for any
\* number of bits.
THEOREM UMulOvfExact ==
  ASSUME NEW h, IsHalfModulus(h), NEW a \in SIntPatterns(h), NEW b \in SIntPatterns(h)
  PROVE  UMulOvf(a, b, h) <=> a * b >= 2 * h
<1> DEFINE k == a \div 2
           half == Times(k, b, h)
<1>0. h \in Nat \ {0, 1}
  BY DEF IsHalfModulus
<1>1. a \in Nat /\ b \in Nat /\ b < 2 * h /\ k \in Nat /\ (a = 2 * k \/ a = 2 * k + 1) /\ (a % 2 = 1 => a = 2 * k + 1)
  BY <1>0 DEF SIntPatterns
<1>2. k * b \in Nat /\ a * b \in Nat
  BY <1>1
<1>3. a * b = IF a = 2 * k THEN 2 * (k * b) ELSE 2 * (k * b) + b
  BY <1>1
<1>4. ASSUME a * b < 2 * h
      PROVE  ~(ActiveBits(a) + ActiveBits(b) >= ActiveBits(h) + 2)
  <2> SUFFICES ASSUME ActiveBits(a) + ActiveBits(b) >= ActiveBits(h) + 2
               PROVE  FALSE
    OBVIOUS
  <2>1. /\ ActiveBits(a) \in Nat /\ ActiveBits(b) \in Nat /\ ActiveBits(h) \in Nat
        /\ ActiveBits(a) = 0 => a = 0
        /\ ActiveBits(b) = 0 => b = 0
        /\ ActiveBits(0) = 0 /\ ActiveBits(h) >= 1
    BY <1>0, <1>1, BitsFact, HalfIsSmaller
  <2>2. ActiveBits(a) <= ActiveBits(h) + 1 /\ ActiveBits(b) <= ActiveBits(h) + 1
    <3>1. IsPower(ActiveBits(h) - 1 + 1, 2 * h)
      BY <1>0, HalfIsPower, PowersFact
    <3>2. ActiveBits(h) - 1 + 1 = ActiveBits(h)
      BY <2>1
    <3>3. a < 2 * h
      BY <1>0 DEF SIntPatterns
    <3>4. ActiveBits(a) <= ActiveBits(h) /\ ActiveBits(b) <= ActiveBits(h)
      BY <1>1, <3>1, <3>2, <3>3 DEF IsPower
    <3> QED
      BY <2>1, <3>4
  <2>3. ActiveBits(a) >= 1 /\ ActiveBits(b) >= 1
    BY <2>1, <2>2
  <2> DEFINE m == ActiveBits(a) - 1
             n == ActiveBits(b) - 1
  <2>4. m \in Nat /\ n \in Nat /\ ActiveBits(a) = m + 1 /\ ActiveBits(b) = n + 1
    BY <2>1, <2>3
  <2>5. PICK p \in Nat : IsPower(m, p)
    BY <2>4, PowersMultiply
  <2>6. PICK q \in Nat : IsPower(n, q)
    BY <2>4, PowersMultiply
  <2> HIDE DEF m, n
  <2>7. p <= a /\ q <= b
    BY <1>1, <2>4, <2>5, <2>6 DEF IsPower
  <2>8. IsPower(m + n, p * q) /\ p * q \in Nat
    BY <2>4, <2>5, <2>6, PowersMultiply
  <2>9. IsPower(ActiveBits(h), 2 * h)
    <3>1. IsPower(ActiveBits(h) - 1 + 1, 2 * h)
      BY <1>0, HalfIsPower, PowersFact
    <3>2. ActiveBits(h) - 1 + 1 = ActiveBits(h)
      BY <2>1
    <3> QED
      BY <3>1, <3>2
  <2>10. 2 * h <= p * q
    <3>1. ActiveBits(h) <= m + n /\ m + n \in Nat /\ 2 * h \in Nat
      BY <1>0, <2>1, <2>4
    <3> QED
      BY <2>1, <2>8, <2>9, <3>1, PowersFact
  <2>11. p * q <= a * b
    BY <1>1, <2>7, ProductsGrow
  <2> QED
    BY <1>0, <1>2, <1>4, <2>8, <2>10, <2>11
<1>5. ASSUME a * b < 2 * h
      PROVE  ~UMulOvf(a, b, h)
  <2>1. k * b < h
    BY <1>0, <1>1, <1>2, <1>3, <1>5
  <2> HIDE DEF k
  <2>2. half = k * b
    BY <1>0, <1>2, <2>1 DEF Times
  <2> HIDE DEF half
  <2>3. ~IsNeg(half, h) /\ Times(half, 2, h) = 2 * half
    BY <1>0, <1>2, <2>1, <2>2 DEF IsNeg, Times
  <2>4. a % 2 = 1 => ~(Plus(2 * half, b, h) < b)
    BY <1>0, <1>1, <1>2, <1>3, <1>5, <2>1, <2>2 DEF Plus
  <2> QED
    BY <1>4, <1>5, <2>3, <2>4 DEF UMulOvf, half, k
<1>6. ASSUME a * b >= 2 * h
      PROVE  UMulOvf(a, b, h)
  <2>1. ~(a * b < 2 * h)
    BY <1>0, <1>2, <1>6
  <2> QED
    BY <1>0, <2>1, UMulOvfFinds
<1> QED
  BY <1>0, <1>2, <1>5, <1>6

\* SInt::UMulSat stops at the greatest pattern.
LEMMA UMulSatClamps ==
  ASSUME NEW h, IsHalfModulus(h), NEW a \in SIntPatterns(h), NEW b \in SIntPatterns(h)
  PROVE  UMulSat(a, b, h) = IF a * b > 2 * h - 1 THEN 2 * h - 1 ELSE a * b
<1>1. h \in Nat \ {0, 1} /\ a * b \in Nat
  BY DEF IsHalfModulus, SIntPatterns
<1>2. UMulOvf(a, b, h) <=> a * b >= 2 * h
  BY UMulOvfExact
<1>3. a * b < 2 * h => Times(a, b, h) = a * b
  BY <1>1 DEF Times
<1> QED
  BY <1>1, <1>2, <1>3 DEF UMulSat, UMaxValue

\* The sign and the magnitude of a product.
LEMMA ProductSigns ==
  ASSUME NEW x \in Int, NEW y \in Int
  PROVE  /\ x * y \in Int
         /\ x >= 0 /\ y >= 0 => x * y >= 0
         /\ x <= 0 /\ y <= 0 => x * y >= 0
         /\ x >= 0 /\ y <= 0 => x * y <= 0
         /\ x <= 0 /\ y >= 0 => x * y <= 0
         /\ x * y = 0 <=> x = 0 \/ y = 0
         /\ AbsOf(x * y) = AbsOf(x) * AbsOf(y)
<1>1. x * y \in Int
  OBVIOUS
<1>2. /\ x >= 0 /\ y >= 0 => x * y >= 0
      /\ x <= 0 /\ y <= 0 => x * y >= 0
      /\ x >= 0 /\ y <= 0 => x * y <= 0
      /\ x <= 0 /\ y >= 0 => x * y <= 0
  OBVIOUS
<1>3. x * y = 0 <=> x = 0 \/ y = 0
  OBVIOUS
<1>4. AbsOf(x * y) = AbsOf(x) * AbsOf(y)
  <2>1. CASE x >= 0 /\ y >= 0
    BY <1>2, <2>1 DEF AbsOf
  <2>2. CASE x < 0 /\ y < 0
    <3>1. (-x) * (-y) = x * y
      OBVIOUS
    <3> QED
      BY <1>2, <2>2, <3>1 DEF AbsOf
  <2>3. CASE x >= 0 /\ y < 0
    <3>1. x * (-y) = -(x * y)
      OBVIOUS
    <3> QED
      BY <1>1, <1>2, <2>3, <3>1 DEF AbsOf
  <2>4. CASE x < 0 /\ y >= 0
    <3>1. (-x) * y = -(x * y)
      OBVIOUS
    <3> QED
      BY <1>1, <1>2, <2>4, <3>1 DEF AbsOf
  <2> QED
    BY <2>1, <2>2, <2>3, <2>4
<1> QED
  BY <1>1, <1>2, <1>3, <1>4

\* A quotient times its divisor is the number but for less than the divisor,
\* towards zero; of a multiple it is exact.
LEMMA QuotientFact ==
  ASSUME NEW x \in Int, NEW y \in Int, y # 0
  PROVE  /\ Quotient(x, y) \in Int
         /\ AbsOf(Quotient(x, y)) <= AbsOf(x)
         /\ Quotient(x, y) * y \in Int
         /\ x >= 0 => 0 <= x - Quotient(x, y) * y /\ x - Quotient(x, y) * y < AbsOf(y)
         /\ x <= 0 => 0 <= Quotient(x, y) * y - x /\ Quotient(x, y) * y - x < AbsOf(y)
         /\ \A z \in Int : x = z * y => Quotient(x, y) = z
<1> DEFINE m == AbsOf(x)
           n == AbsOf(y)
           q == m \div n
           r == m % n
<1>1. m \in Nat /\ n \in Nat \ {0}
  BY DEF AbsOf
<1>2. q \in Nat /\ q <= m /\ r \in Nat /\ r < n /\ r = m - q * n /\ q * n \in Int
  <2>1. q \in Nat /\ q <= m /\ r \in Nat /\ r < n
    BY <1>1, Division
  <2>2. m \in Int /\ n \in Nat \ {0}
    BY <1>1
  <2> HIDE DEF m, n
  <2>3. r = m - q * n
    BY <2>2, RemainderFact
  <2> QED
    BY <2>1, <2>2, <2>3
<1>3. Quotient(x, y) = IF (x < 0) = (y < 0) THEN q ELSE -q
  BY DEF Quotient
<1> HIDE DEF q, r
<1>4. CASE x >= 0 /\ y >= 0
  <2>1. Quotient(x, y) = q /\ m = x /\ n = y
    BY <1>3, <1>4 DEF AbsOf
  <2> QED
    BY <1>1, <1>2, <1>4, <2>1 DEF AbsOf
<1>5. CASE x < 0 /\ y < 0
  <2>1. Quotient(x, y) = q /\ m = -x /\ n = -y
    BY <1>3, <1>5 DEF AbsOf
  <2>2. q * y = -(q * n)
    BY <1>2, <2>1
  <2> QED
    BY <1>1, <1>2, <1>5, <2>1, <2>2 DEF AbsOf
<1>6. CASE x >= 0 /\ y < 0
  <2>1. Quotient(x, y) = -q /\ m = x /\ n = -y
    BY <1>3, <1>6 DEF AbsOf
  <2>2. (-q) * y = q * n
    BY <1>2, <2>1
  <2> QED
    BY <1>1, <1>2, <1>6, <2>1, <2>2 DEF AbsOf
<1>7. CASE x < 0 /\ y >= 0
  <2>1. Quotient(x, y) = -q /\ m = -x /\ n = y
    BY <1>3, <1>7 DEF AbsOf
  <2>2. (-q) * y = -(q * n)
    BY <1>2, <2>1
  <2> QED
    BY <1>1, <1>2, <1>7, <2>1, <2>2 DEF AbsOf
<1> QED
  BY <1>4, <1>5, <1>6, <1>7

\* SDiv computes the quotient of the signed values but for the smallest by -1.
LEMMA SDivIsQuotient ==
  ASSUME NEW h \in Nat \ {0, 1}, NEW a \in SIntPatterns(h), NEW b \in SIntPatterns(h), b # 0,
         ~(a = SMinValue(h) /\ b = UMaxValue(h))
  PROVE  SVal(SDiv(a, b, h), h) = Quotient(SVal(a, h), SVal(b, h))
<1>1. Magnitude(a, h) = AbsOf(SVal(a, h)) /\ Magnitude(b, h) = AbsOf(SVal(b, h))
  BY MagnitudeFact DEF AbsOf
<1> QED
  BY <1>1, SignedQuotient DEF Quotient

\* SInt::SMulOvf: a signed product overflows exactly if it is not in the width;
\* if it does not, its pattern is that of the product.
LEMMA SMulOvfExact ==
  ASSUME NEW h \in Nat \ {0, 1}, NEW a \in SIntPatterns(h), NEW b \in SIntPatterns(h)
  PROVE  /\ SMulOvf(a, b, h) <=> ~InWidth(SVal(a, h) * SVal(b, h), h)
         /\ ~SMulOvf(a, b, h) => SVal(Times(a, b, h), h) = SVal(a, h) * SVal(b, h)
<1> DEFINE x == SVal(a, h)
           y == SVal(b, h)
           t == Times(a, b, h)
           p == SVal(t, h)
<1>1. PICK k \in Int : p = x * y + k * (2 * h)
  BY SignedProduct
<1>2. t \in SIntPatterns(h)
  BY OperationsArePatterns
<1>3. /\ x \in Int /\ -h <= x /\ x < h /\ (x = 0 <=> a = 0)
      /\ y \in Int /\ -h <= y /\ y < h /\ (y = 0 <=> b = 0)
      /\ p \in Int /\ -h <= p /\ p < h
  BY <1>2, MagnitudeFact
<1>4. x * y \in Int /\ k * (2 * h) \in Int
  BY <1>3
<1>5. (a = SMinValue(h) /\ b = UMaxValue(h)) <=> x = -h /\ y = -1
  BY DEF SMinValue, UMaxValue, SVal, IsNeg, SIntPatterns
<1>6. b # 0 /\ ~(t = SMinValue(h) /\ b = UMaxValue(h)) =>
         SVal(SDiv(t, b, h), h) = Quotient(p, y) /\ SDiv(t, b, h) \in SIntPatterns(h)
  BY <1>2, SDivIsQuotient, QuotientsArePatterns
<1>7. SDiv(SMinValue(h), UMaxValue(h), h) = SMinValue(h)
  BY DEF SDiv, UDiv, Magnitude, SMinValue, UMaxValue, IsNeg, Neg, Minus
<1>8. (t = SMinValue(h) /\ b = UMaxValue(h)) <=> p = -h /\ y = -1
  BY <1>2 DEF SMinValue, UMaxValue, SVal, IsNeg, SIntPatterns
<1>9. 2 * h \in Nat \ {0}
  OBVIOUS
<1> HIDE DEF x, y, t, p
<1>10. ASSUME ~SMulOvf(a, b, h)
       PROVE  p = x * y
  <2>1. CASE b = 0
    BY <2>1, <1>3, <1>2 DEF t, p, Times, SVal, IsNeg, SIntPatterns
  <2>2. CASE b # 0
    <3>1. SDiv(t, b, h) = a /\ ~(x = -h /\ y = -1)
      BY <1>10, <1>5, <2>2 DEF SMulOvf, t
    <3>2. ~(t = SMinValue(h) /\ b = UMaxValue(h))
      BY <3>1, <1>5, <1>7
    <3>3. x = Quotient(p, y)
      BY <3>1, <3>2, <1>6, <2>2 DEF x
    <3>4. y # 0
      BY <1>3, <2>2
    <3>5. /\ p >= 0 => 0 <= p - x * y /\ p - x * y < AbsOf(y)
          /\ p <= 0 => 0 <= x * y - p /\ x * y - p < AbsOf(y)
      BY <3>3, <3>4, <1>3, QuotientFact
    <3>6. AbsOf(y) <= h
      BY <1>3 DEF AbsOf
    <3>7. AbsOf(y) \in Int
      BY <1>3 DEF AbsOf
    <3>8. -(2 * h) < k * (2 * h) /\ k * (2 * h) < 2 * h
      BY <1>1, <1>3, <1>4, <3>5, <3>6, <3>7
    <3>9. k = 0
      BY <1>9, <3>8, MultipleIsZero
    <3> QED
      BY <1>1, <1>4, <3>9
  <2> QED
    BY <2>1, <2>2
<1>11. ASSUME InWidth(x * y, h)
       PROVE  ~SMulOvf(a, b, h)
  <2>1. -(2 * h) < k * (2 * h) /\ k * (2 * h) < 2 * h
    BY <1>1, <1>3, <1>4, <1>11 DEF InWidth
  <2>2. p = x * y
    BY <1>1, <1>4, <1>9, <2>1, MultipleIsZero
  <2> SUFFICES ASSUME b # 0
               PROVE  SDiv(t, b, h) = a /\ ~(x = -h /\ y = -1)
    BY <1>5 DEF SMulOvf, t
  <2>3. ~(x = -h /\ y = -1)
    BY <1>11, <1>3 DEF InWidth
  <2>4. ~(p = -h /\ y = -1)
    BY <2>2, <1>3
  <2>5. y # 0
    BY <1>3
  <2>6. Quotient(p, y) = x
    BY <2>2, <2>5, <1>3, QuotientFact
  <2>7. SVal(SDiv(t, b, h), h) = x /\ SDiv(t, b, h) \in SIntPatterns(h)
    BY <1>6, <1>8, <2>4, <2>6
  <2> QED
    BY <2>3, <2>7, PatternOfValue DEF x
<1>12. InWidth(p, h)
  BY <1>3 DEF InWidth
<1> QED
  BY <1>10, <1>11, <1>12 DEF x, y, p, t

\* SInt::SMulSat: the signed product, or the end that it lies beyond.
LEMMA SMulSatClamps ==
  ASSUME NEW h \in Nat \ {0, 1}, NEW a \in SIntPatterns(h), NEW b \in SIntPatterns(h)
  PROVE  SVal(SMulSat(a, b, h), h) = LET z == SVal(a, h) * SVal(b, h)
                                     IN  IF z < -h THEN -h ELSE IF z > h - 1 THEN h - 1 ELSE z
<1> DEFINE x == SVal(a, h)
           y == SVal(b, h)
<1>1. /\ x \in Int /\ -h <= x /\ x < h /\ (IsNeg(a, h) <=> x < 0)
      /\ y \in Int /\ -h <= y /\ y < h /\ (IsNeg(b, h) <=> y < 0)
  BY MagnitudeFact
<1>2. /\ x * y \in Int
      /\ (x < 0 <=> y < 0) => x * y >= 0
      /\ ~(x < 0 <=> y < 0) => x * y <= 0
  <2>1. x \in Int /\ y \in Int
    BY <1>1
  <2> HIDE DEF x, y
  <2>2. /\ x * y \in Int
        /\ x >= 0 /\ y >= 0 => x * y >= 0
        /\ x <= 0 /\ y <= 0 => x * y >= 0
        /\ x >= 0 /\ y <= 0 => x * y <= 0
        /\ x <= 0 /\ y >= 0 => x * y <= 0
    BY <2>1, ProductSigns
  <2> QED
    BY <2>1, <2>2
<1>3. SVal(SMinValue(h), h) = -h /\ SVal(SMaxValue(h), h) = h - 1
  BY DEF SVal, SMinValue, SMaxValue, IsNeg
<1>4. SMulOvf(a, b, h) <=> ~InWidth(x * y, h)
  BY SMulOvfExact
<1>5. ~SMulOvf(a, b, h) => SVal(Times(a, b, h), h) = x * y
  BY SMulOvfExact
<1>6. (IsNeg(a, h) # IsNeg(b, h)) <=> ~(x < 0 <=> y < 0)
  <2>1. (IsNeg(a, h) # IsNeg(b, h)) <=> ~(a >= h <=> b >= h)
    BY DEF IsNeg, SIntPatterns
  <2> QED
    BY <2>1, <1>1 DEF IsNeg
<1> HIDE DEF x, y
<1>7. CASE ~SMulOvf(a, b, h)
  <2>1. -h <= x * y /\ x * y <= h - 1
    BY <1>2, <1>4, <1>7 DEF InWidth
  <2> QED
    BY <1>2, <1>5, <1>7, <2>1 DEF SMulSat, x, y
<1>8. CASE SMulOvf(a, b, h)
  <2>1. x * y < -h \/ x * y > h - 1
    BY <1>2, <1>4, <1>8 DEF InWidth
  <2>2. CASE x < 0 <=> y < 0
    <3>1. SMulSat(a, b, h) = SMaxValue(h)
      BY <1>6, <1>8, <2>2 DEF SMulSat, SEnd
    <3>2. x * y > h - 1 /\ ~(x * y < -h)
      BY <1>2, <2>1, <2>2
    <3> QED
      BY <1>3, <3>1, <3>2 DEF x, y
  <2>3. CASE ~(x < 0 <=> y < 0)
    <3>1. SMulSat(a, b, h) = SMinValue(h)
      BY <1>6, <1>8, <2>3 DEF SMulSat, SEnd
    <3>2. x * y < -h
      BY <1>2, <2>1, <2>3
    <3> QED
      BY <1>3, <3>1, <3>2 DEF x, y
  <2> QED
    BY <2>2, <2>3
<1> QED
  BY <1>7, <1>8

\* What a pattern that results from an exact number may be.
LEMMA ResultingFact ==
  ASSUME NEW type, NEW h \in Nat \ {0, 1}, type.half = h, type.unsigned \in BOOLEAN,
         NEW ov \in Strategies, NEW z \in Int, NEW v \in Resulting(z, type, ov)
  PROVE  /\ v \in SIntPatterns(h)
         /\ Fits(z, type) <=> LeastOf(type.unsigned, h) <= z /\ z <= GreatestOf(type.unsigned, h)
         /\ Fits(z, type) => Order(type.unsigned, v, h) = z
         /\ ~Fits(z, type) => ov # "THROWING"
         /\ ov = "SATURATING" => Order(type.unsigned, v, h) = ClampedTo(z, type.unsigned, h)
         /\ ov = "WRAPPING" => v = z % (2 * h)
<1>1. v \in SIntPatterns(h)
  BY ResultingPatterns
<1>2. Fits(z, type) <=> LeastOf(type.unsigned, h) <= z /\ z <= GreatestOf(type.unsigned, h)
  BY DEF Fits, LeastOf, GreatestOf
<1>3. 2 * h \in Nat \ {0}
  OBVIOUS
<1>4. Fits(z, type) => v = z % (2 * h)
  BY DEF Resulting
<1>5. Fits(z, type) => z % (2 * h) = IF z < 0 THEN z + 2 * h ELSE z
  <2>1. Fits(z, type) => z \in 0 .. 2 * h - 1 \/ z \in -(2 * h) .. -1
    BY DEF Fits
  <2>2. /\ z \in 0 .. 2 * h - 1 => z % (2 * h) = z
        /\ z \in -(2 * h) .. -1 => z % (2 * h) = z + 2 * h
    BY <1>3, ModuloFact
  <2> QED
    BY <2>1, <2>2
<1>6. Fits(z, type) => Order(type.unsigned, v, h) = z
  BY <1>4, <1>5 DEF Fits, Order, SVal, IsNeg
<1>7. ~Fits(z, type) => ov # "THROWING"
  BY DEF Resulting
<1>8. ASSUME ov = "SATURATING"
      PROVE  Order(type.unsigned, v, h) = ClampedTo(z, type.unsigned, h)
  <2>1. CASE Fits(z, type)
    BY <1>2, <1>6, <2>1 DEF ClampedTo, LeastOf, GreatestOf
  <2>2. CASE ~Fits(z, type)
    <3>1. v = IF z < 0
              THEN IF type.unsigned THEN 0 ELSE SMinValue(h)
              ELSE IF type.unsigned THEN UMaxValue(h) ELSE SMaxValue(h)
      BY <1>8, <2>2 DEF Resulting
    <3>2. CASE type.unsigned
      BY <2>2, <3>1, <3>2 DEF Fits, ClampedTo, LeastOf, GreatestOf, Order, UMaxValue
    <3>3. CASE ~type.unsigned
      BY <2>2, <3>1, <3>3 DEF Fits, ClampedTo, LeastOf, GreatestOf, Order, SVal, IsNeg, SMinValue, SMaxValue
    <3> QED
      BY <3>2, <3>3
  <2> QED
    BY <2>1, <2>2
<1>9. ov = "WRAPPING" => v = z % (2 * h)
  BY DEF Resulting
<1> QED
  BY <1>1, <1>2, <1>6, <1>7, <1>8, <1>9

\* A product lies between those of the ends.
LEMMA ProductBetweenEnds ==
  ASSUME NEW p \in Int, NEW x \in Int, NEW q \in Int, p <= x, x <= q,
         NEW r \in Int, NEW y \in Int, NEW s \in Int, r <= y, y <= s
  PROVE  /\ \E c \in {p, q}, d \in {r, s} : c * d <= x * y
         /\ \E c \in {p, q}, d \in {r, s} : x * y <= c * d
<1>1. /\ p * y \in Int /\ q * y \in Int /\ x * y \in Int
      /\ p * r \in Int /\ p * s \in Int /\ q * r \in Int /\ q * s \in Int
  OBVIOUS
<1>2. /\ y >= 0 => p * y <= x * y /\ x * y <= q * y
      /\ y <= 0 => q * y <= x * y /\ x * y <= p * y
  <2>1. /\ y >= 0 => (x - p) * y >= 0 /\ (q - x) * y >= 0
        /\ y <= 0 => (x - p) * y <= 0 /\ (q - x) * y <= 0
    BY ProductSigns
  <2>2. (x - p) * y = x * y - p * y /\ (q - x) * y = q * y - x * y
    OBVIOUS
  <2> QED
    BY <1>1, <2>1, <2>2
<1>3. \A c \in {p, q} : /\ c >= 0 => c * r <= c * y /\ c * y <= c * s
                        /\ c <= 0 => c * s <= c * y /\ c * y <= c * r
  <2> TAKE c \in {p, q}
  <2>1. /\ c >= 0 => c * (y - r) >= 0 /\ c * (s - y) >= 0
        /\ c <= 0 => c * (y - r) <= 0 /\ c * (s - y) <= 0
    BY ProductSigns
  <2>2. c * (y - r) = c * y - c * r /\ c * (s - y) = c * s - c * y
    OBVIOUS
  <2>3. c * y \in Int /\ c * r \in Int /\ c * s \in Int
    OBVIOUS
  <2> QED
    BY <2>1, <2>2, <2>3
<1>4. \A c \in {p, q} : (\E d \in {r, s} : c * d <= c * y) /\ (\E d \in {r, s} : c * y <= c * d)
  <2> TAKE c \in {p, q}
  <2>1. c \in Int /\ (c >= 0 \/ c <= 0)
    OBVIOUS
  <2> QED
    BY <2>1, <1>3
<1>5. y >= 0 \/ y <= 0
  OBVIOUS
<1>6. PICK c \in {p, q} : c * y <= x * y
  BY <1>2, <1>5
<1>7. PICK d \in {p, q} : x * y <= d * y
  BY <1>2, <1>5
<1>8. PICK e \in {r, s} : c * e <= c * y
  BY <1>4
<1>9. PICK f \in {r, s} : d * y <= d * f
  BY <1>4
<1>10. c * e <= x * y
  BY <1>1, <1>6, <1>8
<1>11. x * y <= d * f
  BY <1>1, <1>7, <1>9
<1> QED
  BY <1>10, <1>11

\* ConstantRange::UMul and UMulSat: the ranges contain every product.
LEMMA UnsignedProductsCovered ==
  ASSUME NEW h \in Nat \ {0, 1}, NEW a \in RangesOf(h), NEW b \in RangesOf(h),
         NEW x \in SIntPatterns(h), NEW y \in SIntPatterns(h), Contains(a, x), Contains(b, y),
         NEW v \in SIntPatterns(h)
  PROVE  /\ (x * y < 2 * h => v = x * y) => Contains(UMul(a, b), v)
         /\ IsHalfModulus(h) /\ v = ClampedTo(x * y, TRUE, h) => Contains(UMulSatRange(a, b), v)
<1> DEFINE p == UMinOf(a)
           q == UMaxOf(a)
           r == UMinOf(b)
           s == UMaxOf(b)
<1>1. /\ p \in SIntPatterns(h) /\ q \in SIntPatterns(h) /\ r \in SIntPatterns(h) /\ s \in SIntPatterns(h)
      /\ p <= x /\ x <= q /\ r <= y /\ y <= s
  BY ExtremesArePatterns, UnsignedExtremes
<1>2. a.half = h /\ ~IsEmptySet(a) /\ ~IsEmptySet(b)
  BY HalfOfRange, EmptyContainsNothing
<1> HIDE DEF p, q, r, s
<1>3. /\ p * r \in Nat /\ x * y \in Nat /\ q * s \in Nat
      /\ p * r <= x * y /\ x * y <= q * s
  BY <1>1, ProductsGrow DEF SIntPatterns
<1>4. ASSUME x * y < 2 * h => v = x * y
      PROVE  Contains(UMul(a, b), v)
  <2>1. CASE UMulOvf(p, r, h) \/ UMulOvf(q, s, h)
    <3>1. UMul(a, b) = Full(h)
      BY <1>2, <2>1 DEF UMul, p, q, r, s
    <3> QED
      BY <3>1, ExtremesContain
  <2>2. CASE ~UMulOvf(p, r, h) /\ ~UMulOvf(q, s, h)
    <3>1. UMul(a, b) = NonEmpty(Times(p, r, h), Succ(Times(q, s, h), h), h)
      BY <1>2, <2>2 DEF UMul, p, q, r, s
    <3>2. q * s < 2 * h
      BY <1>1, <2>2, UMulOvfFinds
    <3>3. Times(p, r, h) = p * r /\ Times(q, s, h) = q * s
      <4>1. p * r \in 0 .. 2 * h - 1 /\ q * s \in 0 .. 2 * h - 1
        BY <1>3, <3>2
      <4>2. 2 * h \in Nat \ {0}
        OBVIOUS
      <4> QED
        BY <4>1, <4>2, ModuloFact DEF Times
    <3>4. Times(p, r, h) \in SIntPatterns(h) /\ Times(q, s, h) \in SIntPatterns(h)
      BY <1>1, OperationsArePatterns
    <3>5. Times(p, r, h) <= v /\ v <= Times(q, s, h)
      BY <1>3, <1>4, <3>2, <3>3
    <3> QED
      BY <3>1, <3>4, <3>5, NonEmptyBetween DEF Order
  <2> QED
    BY <2>1, <2>2
<1>5. ASSUME IsHalfModulus(h), v = ClampedTo(x * y, TRUE, h)
      PROVE  Contains(UMulSatRange(a, b), v)
  <2>1. /\ UMulSat(p, r, h) = IF p * r > 2 * h - 1 THEN 2 * h - 1 ELSE p * r
        /\ UMulSat(q, s, h) = IF q * s > 2 * h - 1 THEN 2 * h - 1 ELSE q * s
    BY <1>1, <1>5, UMulSatClamps
  <2>2. UMulSat(p, r, h) \in SIntPatterns(h) /\ UMulSat(q, s, h) \in SIntPatterns(h)
    BY <1>1, SaturatedArePatterns
  <2>3. UMulSat(p, r, h) <= v /\ v <= UMulSat(q, s, h)
    BY <1>3, <1>5, <2>1 DEF ClampedTo, LeastOf, GreatestOf
  <2>4. Contains(NonEmpty(UMulSat(p, r, h), Succ(UMulSat(q, s, h), h), h), v)
    BY <2>2, <2>3, NonEmptyBetween DEF Order
  <2> QED
    BY <1>2, <2>4 DEF UMulSatRange, SatRange, p, q, r, s
<1> QED
  BY <1>4, <1>5

\* ConstantRange::SMul and SMulSat: the ranges contain every product.
LEMMA SignedProductsCovered ==
  ASSUME NEW h \in Nat \ {0, 1}, NEW a \in RangesOf(h), NEW b \in RangesOf(h),
         NEW x \in SIntPatterns(h), NEW y \in SIntPatterns(h), Contains(a, x), Contains(b, y),
         NEW v \in SIntPatterns(h)
  PROVE  LET z == SVal(x, h) * SVal(y, h)
         IN  /\ (InWidth(z, h) => SVal(v, h) = z) => Contains(SMul(a, b), v)
             /\ SVal(v, h) = ClampedTo(z, FALSE, h) => Contains(SMulSatRange(a, b), v)
<1> DEFINE p == SMinOf(a)
           q == SMaxOf(a)
           r == SMinOf(b)
           s == SMaxOf(b)
           exact(c, d) == SVal(c, h) * SVal(d, h)
           products == {Times(c, d, h) : c \in SEnds(a), d \in SEnds(b)}
           saturated == {SMulSat(c, d, h) : c \in SEnds(a), d \in SEnds(b)}
<1>1. /\ p \in SIntPatterns(h) /\ q \in SIntPatterns(h) /\ r \in SIntPatterns(h) /\ s \in SIntPatterns(h)
      /\ SVal(p, h) <= SVal(x, h) /\ SVal(x, h) <= SVal(q, h)
      /\ SVal(r, h) <= SVal(y, h) /\ SVal(y, h) <= SVal(s, h)
  BY ExtremesArePatterns, SignedExtremes DEF Sle
<1>2. a.half = h /\ ~IsEmptySet(a) /\ ~IsEmptySet(b)
  BY HalfOfRange, EmptyContainsNothing
<1>3. SEnds(a) = {p, q} /\ SEnds(b) = {r, s}
  BY DEF SEnds
<1> HIDE DEF p, q, r, s
<1>4. /\ SVal(p, h) \in Int /\ SVal(x, h) \in Int /\ SVal(q, h) \in Int
      /\ SVal(r, h) \in Int /\ SVal(y, h) \in Int /\ SVal(s, h) \in Int /\ SVal(v, h) \in Int
  BY <1>1, MagnitudeFact
<1>5. PICK c \in SEnds(a), d \in SEnds(b) : exact(c, d) <= exact(x, y)
  BY <1>1, <1>3, <1>4, ProductBetweenEnds
<1>6. PICK e \in SEnds(a), f \in SEnds(b) : exact(x, y) <= exact(e, f)
  BY <1>1, <1>3, <1>4, ProductBetweenEnds
<1>7. /\ c \in SIntPatterns(h) /\ d \in SIntPatterns(h) /\ e \in SIntPatterns(h) /\ f \in SIntPatterns(h)
      /\ SVal(c, h) \in Int /\ SVal(d, h) \in Int /\ SVal(e, h) \in Int /\ SVal(f, h) \in Int
  BY <1>1, <1>3, <1>4
<1>8. exact(c, d) \in Int /\ exact(x, y) \in Int /\ exact(e, f) \in Int
  BY <1>4, <1>7
<1>9. /\ products = {Times(p, r, h), Times(p, s, h), Times(q, r, h), Times(q, s, h)}
      /\ saturated = {SMulSat(p, r, h), SMulSat(p, s, h), SMulSat(q, r, h), SMulSat(q, s, h)}
  BY <1>3
<1>10. \A i, j \in SIntPatterns(h) : Times(i, j, h) \in SIntPatterns(h) /\ SMulSat(i, j, h) \in SIntPatterns(h)
  BY OperationsArePatterns, SaturatedArePatterns
<1>11. /\ Times(c, d, h) \in products /\ Times(e, f, h) \in products
       /\ SMulSat(c, d, h) \in saturated /\ SMulSat(e, f, h) \in saturated
  OBVIOUS
<1> HIDE DEF products, saturated
<1>12. \A S \in {products, saturated} :
         /\ SLeast(S, h) \in SIntPatterns(h) /\ SGreatest(S, h) \in SIntPatterns(h)
         /\ \A i \in S : SVal(SLeast(S, h), h) <= SVal(i, h) /\ SVal(i, h) <= SVal(SGreatest(S, h), h)
  <2> TAKE S \in {products, saturated}
  <2>1. \E i, j, k, l \in SIntPatterns(h) : S = {i, j, k, l}
    BY <1>1, <1>9, <1>10
  <2>2. S \subseteq SIntPatterns(h)
    BY <2>1
  <2>3. /\ SLeast(S, h) \in S /\ SGreatest(S, h) \in S
        /\ \A i \in S : SVal(SLeast(S, h), h) <= SVal(i, h) /\ SVal(i, h) <= SVal(SGreatest(S, h), h)
    BY <2>1, <2>2, ExtremesBound
  <2> QED
    BY <2>2, <2>3
<1>13. \A i \in SIntPatterns(h) : SVal(i, h) \in Int
  BY MagnitudeFact
<1>14. ASSUME InWidth(exact(x, y), h) => SVal(v, h) = exact(x, y)
       PROVE  Contains(SMul(a, b), v)
  <2>1. CASE \E i \in SEnds(a), j \in SEnds(b) : SMulOvf(i, j, h)
    <3>1. SMul(a, b) = Full(h)
      BY <1>2, <2>1 DEF SMul
    <3> QED
      BY <3>1, ExtremesContain
  <2>2. CASE ~\E i \in SEnds(a), j \in SEnds(b) : SMulOvf(i, j, h)
    <3>1. SMul(a, b) = NonEmpty(SLeast(products, h), Succ(SGreatest(products, h), h), h)
      BY <1>2, <2>2 DEF SMul, products
    <3>2. /\ SVal(Times(c, d, h), h) = exact(c, d) /\ InWidth(exact(c, d), h)
          /\ SVal(Times(e, f, h), h) = exact(e, f) /\ InWidth(exact(e, f), h)
      BY <1>5, <1>6, <1>7, <2>2, SMulOvfExact
    <3>3. InWidth(exact(x, y), h)
      <4> HIDE DEF exact
      <4> QED
        BY <1>5, <1>6, <1>8, <3>2 DEF InWidth
    <3>4. /\ SVal(SLeast(products, h), h) <= exact(c, d)
          /\ exact(e, f) <= SVal(SGreatest(products, h), h)
      BY <1>11, <1>12, <3>2
    <3>5. /\ SVal(SLeast(products, h), h) <= SVal(v, h)
          /\ SVal(v, h) <= SVal(SGreatest(products, h), h)
      <4>1. SVal(SLeast(products, h), h) \in Int /\ SVal(SGreatest(products, h), h) \in Int
        BY <1>12, <1>13
      <4>2. SVal(v, h) = exact(x, y)
        BY <1>14, <3>3
      <4> HIDE DEF exact
      <4> QED
        BY <1>5, <1>6, <1>8, <3>4, <4>1, <4>2
    <3> QED
      BY <1>12, <3>1, <3>5, NonEmptyBetween DEF Order
  <2> QED
    BY <2>1, <2>2
<1>15. ASSUME SVal(v, h) = ClampedTo(exact(x, y), FALSE, h)
       PROVE  Contains(SMulSatRange(a, b), v)
  <2> DEFINE lo == SVal(SMulSat(c, d, h), h)
             up == SVal(SMulSat(e, f, h), h)
  <2>1. /\ lo = IF exact(c, d) < -h THEN -h ELSE IF exact(c, d) > h - 1 THEN h - 1 ELSE exact(c, d)
        /\ up = IF exact(e, f) < -h THEN -h ELSE IF exact(e, f) > h - 1 THEN h - 1 ELSE exact(e, f)
    BY <1>7, SMulSatClamps
  <2> HIDE DEF exact
  <2>2. lo <= SVal(v, h) /\ SVal(v, h) <= up /\ lo \in Int /\ up \in Int
    BY <1>5, <1>6, <1>8, <1>15, <2>1 DEF ClampedTo, LeastOf, GreatestOf
  <2>3. SVal(SLeast(saturated, h), h) <= lo /\ up <= SVal(SGreatest(saturated, h), h)
    BY <1>11, <1>12
  <2>4. SVal(SLeast(saturated, h), h) <= SVal(v, h) /\ SVal(v, h) <= SVal(SGreatest(saturated, h), h)
    <3>1. SVal(SLeast(saturated, h), h) \in Int /\ SVal(SGreatest(saturated, h), h) \in Int
      BY <1>12, <1>13
    <3> HIDE DEF lo, up
    <3> QED
      BY <1>4, <2>2, <2>3, <3>1
  <2>5. Contains(NonEmpty(SLeast(saturated, h), Succ(SGreatest(saturated, h), h), h), v)
    BY <1>12, <2>4, NonEmptyBetween DEF Order
  <2> QED
    BY <1>2, <2>5 DEF SMulSatRange, SatRange, saturated
<1> QED
  BY <1>14, <1>15

\* Quotients lie between those of the ends, whatever the two signs.
LEMMA QuotientBetweenEnds ==
  ASSUME NEW p \in Int, NEW x \in Int, NEW q \in Int, p <= x, x <= q,
         NEW r \in Int, NEW y \in Int, NEW s \in Int, r <= y, y <= s
  PROVE  /\ p > 0 /\ r > 0 =>
               0 <= Quotient(p, s) /\ Quotient(p, s) <= Quotient(x, y) /\ Quotient(x, y) <= Quotient(q, r)
         /\ q < 0 /\ s < 0 =>
               0 <= Quotient(q, r) /\ Quotient(q, r) <= Quotient(x, y) /\ Quotient(x, y) <= Quotient(p, s)
         /\ p > 0 /\ s < 0 =>
               Quotient(p, r) <= 0 /\ Quotient(q, s) <= Quotient(x, y) /\ Quotient(x, y) <= Quotient(p, r)
         /\ q < 0 /\ r > 0 =>
               Quotient(q, s) <= 0 /\ Quotient(p, r) <= Quotient(x, y) /\ Quotient(x, y) <= Quotient(q, s)
<1>0. \A i, j, k \in Nat, l, m, n \in Nat \ {0} : i <= j /\ j <= k /\ l <= m /\ m <= n =>
         i \div n \in Nat /\ j \div m \in Nat /\ k \div l \in Nat /\ i \div n <= j \div m /\ j \div m <= k \div l
  <2> SUFFICES ASSUME NEW i \in Nat, NEW j \in Nat, NEW k \in Nat, NEW l \in Nat \ {0}, NEW m \in Nat \ {0},
                      NEW n \in Nat \ {0}, i <= j, j <= k, l <= m, m <= n
               PROVE  i \div n \in Nat /\ j \div m \in Nat /\ k \div l \in Nat /\ i \div n <= j \div m /\ j \div m <= k \div l
    OBVIOUS
  <2>1. i \div n \in Nat /\ j \div m \in Nat /\ k \div l \in Nat
    BY Division
  <2>2. i \div n <= j \div m
    BY DivisionMonotone
  <2>3. j \div m <= k \div l
    BY DivisionMonotone
  <2> QED
    BY <2>1, <2>2, <2>3
<1>1. ASSUME p > 0, r > 0
      PROVE  0 <= Quotient(p, s) /\ Quotient(p, s) <= Quotient(x, y) /\ Quotient(x, y) <= Quotient(q, r)
  <2>1. /\ Quotient(p, s) = p \div s /\ Quotient(x, y) = x \div y /\ Quotient(q, r) = q \div r
    BY <1>1 DEF Quotient, AbsOf
  <2>2. /\ p \div s \in Nat /\ p \div s <= x \div y /\ x \div y <= q \div r
    <3>1. p \in Nat /\ x \in Nat /\ q \in Nat /\ r \in Nat \ {0} /\ y \in Nat \ {0} /\ s \in Nat \ {0}
      BY <1>1
    <3> QED
      BY <3>1, <1>0
  <2> QED
    BY <2>1, <2>2
<1>2. ASSUME q < 0, s < 0
      PROVE  0 <= Quotient(q, r) /\ Quotient(q, r) <= Quotient(x, y) /\ Quotient(x, y) <= Quotient(p, s)
  <2>1. /\ Quotient(q, r) = (-q) \div (-r) /\ Quotient(x, y) = (-x) \div (-y) /\ Quotient(p, s) = (-p) \div (-s)
    BY <1>2 DEF Quotient, AbsOf
  <2>2. /\ (-q) \in Nat /\ (-x) \in Nat /\ (-p) \in Nat /\ (-q) <= (-x) /\ (-x) <= (-p)
        /\ (-r) \in Nat \ {0} /\ (-y) \in Nat \ {0} /\ (-s) \in Nat \ {0} /\ (-s) <= (-y) /\ (-y) <= (-r)
    BY <1>2
  <2>3. /\ (-q) \div (-r) \in Nat /\ (-q) \div (-r) <= (-x) \div (-y) /\ (-x) \div (-y) <= (-p) \div (-s)
    BY <2>2, <1>0
  <2> QED
    BY <2>1, <2>3
<1>3. ASSUME p > 0, s < 0
      PROVE  Quotient(p, r) <= 0 /\ Quotient(q, s) <= Quotient(x, y) /\ Quotient(x, y) <= Quotient(p, r)
  <2>1. /\ Quotient(p, r) = -(p \div (-r)) /\ Quotient(x, y) = -(x \div (-y)) /\ Quotient(q, s) = -(q \div (-s))
    BY <1>3 DEF Quotient, AbsOf
  <2>2. /\ p \in Nat /\ x \in Nat /\ q \in Nat
        /\ (-r) \in Nat \ {0} /\ (-y) \in Nat \ {0} /\ (-s) \in Nat \ {0} /\ (-s) <= (-y) /\ (-y) <= (-r)
    BY <1>3
  <2>3. /\ p \div (-r) \in Nat /\ x \div (-y) \in Nat /\ q \div (-s) \in Nat
        /\ p \div (-r) <= x \div (-y) /\ x \div (-y) <= q \div (-s)
    BY <2>2, <1>0
  <2> QED
    BY <2>1, <2>3
<1>4. ASSUME q < 0, r > 0
      PROVE  Quotient(q, s) <= 0 /\ Quotient(p, r) <= Quotient(x, y) /\ Quotient(x, y) <= Quotient(q, s)
  <2>1. /\ Quotient(q, s) = -((-q) \div s) /\ Quotient(x, y) = -((-x) \div y) /\ Quotient(p, r) = -((-p) \div r)
    BY <1>4 DEF Quotient, AbsOf
  <2>2. /\ (-q) \in Nat /\ (-x) \in Nat /\ (-p) \in Nat /\ (-q) <= (-x) /\ (-x) <= (-p)
        /\ r \in Nat \ {0} /\ y \in Nat \ {0} /\ s \in Nat \ {0}
    BY <1>4
  <2>3. /\ (-q) \div s \in Nat /\ (-x) \div y \in Nat /\ (-p) \div r \in Nat
        /\ (-q) \div s <= (-x) \div y /\ (-x) \div y <= (-p) \div r
    BY <2>2, <1>0
  <2> QED
    BY <2>1, <2>3
<1> QED
  BY <1>1, <1>2, <1>3, <1>4

\* ConstantRange::SDivImpl: unless the smallest value may be divided by -1, the
\* range contains every quotient.
LEMMA SignedQuotientsCovered ==
  ASSUME NEW h \in Nat \ {0, 1}, NEW a \in RangesOf(h), NEW b \in RangesOf(h),
         NEW x \in SIntPatterns(h), NEW y \in SIntPatterns(h), Contains(a, x), Contains(b, y), y # 0,
         ~(Contains(a, h) /\ Contains(b, 2 * h - 1)), NEW saturating \in BOOLEAN,
         NEW v \in SIntPatterns(h), SVal(v, h) = Quotient(SVal(x, h), SVal(y, h))
  PROVE  Contains(SDivImpl(a, b, saturating), v)
<1> DEFINE positive(r) == IntersectWith(r, Interval(1, SMinValue(h), h), "Smallest")
           negative(r) == IntersectWith(r, Interval(SMinValue(h), 0, h), "Smallest")
           posL == positive(a)
           negL == negative(a)
           posR == positive(b)
           negR == negative(b)
           quotient(z, w) == QuotientOf(z, w, saturating, h)
           first(r) == SVal(r.lower, h)
           last(r) == SVal(LastOf(r, h), h)
           X == SVal(x, h)
           Y == SVal(y, h)
<1>1. a.half = h /\ b.half = h
  BY HalfOfRange
<1>2. \A r \in RangesOf(h) : /\ positive(r) \in RangesOf(h) /\ negative(r) \in RangesOf(h)
                             /\ PositiveEnds(positive(r), h) /\ NegativeEnds(r, negative(r), h)
  BY PositivePart, NegativePart DEF PositiveEnds, NegativeEnds
<1>3. \A r \in RangesOf(h) : ~IsEmptySet(negative(r)) => /\ negative(r).lower = h => Contains(r, h)
                                                         /\ negative(r).upper = 0 => Contains(r, 2 * h - 1)
  BY NegativePart
<1>4. /\ X > 0 => Contains(posL, x)
      /\ X < 0 => Contains(negL, x)
      /\ Y > 0 => Contains(posR, y)
      /\ Y < 0 => Contains(negR, y)
  BY PartContains
<1>5. X \in Int /\ Y \in Int /\ Y # 0 /\ (X = 0 => SVal(v, h) = 0)
  BY MagnitudeFact DEF Quotient, AbsOf
<1>6. SDivImpl(a, b, saturating) = SDivOfParts(a, b, posL, negL, posR, negR, saturating)
  BY <1>1 DEF SDivImpl
<1> HIDE DEF positive, negative
<1>7. /\ posL \in RangesOf(h) /\ negL \in RangesOf(h) /\ posR \in RangesOf(h) /\ negR \in RangesOf(h)
      /\ PositiveEnds(posL, h) /\ NegativeEnds(a, negL, h) /\ PositiveEnds(posR, h) /\ NegativeEnds(b, negR, h)
  BY <1>2
<1>8. ~IsEmptySet(negL) /\ ~IsEmptySet(negR) => negL.lower # h \/ negR.upper # 0
  BY <1>3
<1> HIDE DEF posL, negL, posR, negR
<1>18. /\ QuotientsCover(v, posL, posR, posL.lower, LastOf(posR, h), LastOf(posL, h), posR.lower, saturating, h)
             => Contains(SDivImpl(a, b, saturating), v)
       /\ /\ negL.lower # h \/ negR.upper # 0
          /\ QuotientsCover(v, negL, negR, LastOf(negL, h), negR.lower, negL.lower, LastOf(negR, h), saturating, h)
          => Contains(SDivImpl(a, b, saturating), v)
       /\ QuotientsCover(v, posL, negR, LastOf(posL, h), LastOf(negR, h), posL.lower, negR.lower, saturating, h)
             => Contains(SDivImpl(a, b, saturating), v)
       /\ QuotientsCover(v, negL, posR, negL.lower, posR.lower, LastOf(negL, h), LastOf(posR, h), saturating, h)
             => Contains(SDivImpl(a, b, saturating), v)
       /\ v = 0 /\ Contains(a, 0) /\ ~(IsEmptySet(posR) /\ IsEmptySet(negR))
             => Contains(SDivImpl(a, b, saturating), v)
  <2>1. \A u \in SIntPatterns(h) :
           \/ QuotientsCover(u, posL, posR, posL.lower, LastOf(posR, h), LastOf(posL, h), posR.lower,
                             saturating, h)
           \/ /\ negL.lower # h \/ negR.upper # 0
              /\ QuotientsCover(u, negL, negR, LastOf(negL, h), negR.lower, negL.lower, LastOf(negR, h),
                                saturating, h)
           \/ QuotientsCover(u, posL, negR, LastOf(posL, h), LastOf(negR, h), posL.lower, negR.lower,
                             saturating, h)
           \/ QuotientsCover(u, negL, posR, negL.lower, posR.lower, LastOf(negL, h), LastOf(posR, h),
                             saturating, h)
           \/ u = 0 /\ Contains(a, 0) /\ ~(IsEmptySet(posR) /\ IsEmptySet(negR))
           => Contains(SDivOfParts(a, b, posL, negL, posR, negR, saturating), u)
    BY <1>7, SDivOfPartsLegal
  <2> QED
    BY <1>6, <2>1
<1>9. \A z, w \in SIntPatterns(h) : w # 0 /\ ~(z = h /\ w = 2 * h - 1) =>
         /\ quotient(z, w) \in SIntPatterns(h)
         /\ SVal(quotient(z, w), h) = Quotient(SVal(z, h), SVal(w, h))
  <2> SUFFICES ASSUME NEW z \in SIntPatterns(h), NEW w \in SIntPatterns(h), w # 0, ~(z = h /\ w = 2 * h - 1)
               PROVE  /\ quotient(z, w) \in SIntPatterns(h)
                      /\ SVal(quotient(z, w), h) = Quotient(SVal(z, h), SVal(w, h))
    OBVIOUS
  <2>1. ~(z = SMinValue(h) /\ w = UMaxValue(h))
    BY DEF SMinValue, UMaxValue
  <2>2. quotient(z, w) = SDiv(z, w, h)
    BY <2>1 DEF QuotientOf, SDivSat
  <2> QED
    BY <2>1, <2>2, SDivIsQuotient, QuotientsArePatterns
<1>10. \A n \in RangesOf(h), z \in SIntPatterns(h) : Contains(n, z) =>
          /\ n.lower \in SIntPatterns(h) /\ LastOf(n, h) \in SIntPatterns(h) /\ ~IsEmptySet(n)
          /\ first(n) \in Int /\ last(n) \in Int
          /\ PositiveEnds(n, h) => 0 < first(n) /\ first(n) <= SVal(z, h) /\ SVal(z, h) <= last(n)
          /\ \A r : NegativeEnds(r, n, h) => first(n) <= SVal(z, h) /\ SVal(z, h) <= last(n) /\ last(n) < 0
  BY PartsSpan, MagnitudeFact
<1>11. \A z \in SIntPatterns(h) : SVal(z, h) # 0 => z # 0 /\ (0 < SVal(z, h) => z # h /\ z # 2 * h - 1)
  BY DEF SVal, IsNeg, SIntPatterns
<1>12. \A lo, up \in SIntPatterns(h) :
          /\ SVal(lo, h) <= SVal(v, h) /\ SVal(v, h) <= SVal(up, h)
          /\ 0 <= SVal(lo, h) \/ SVal(up, h) <= 0
          => Contains(Interval(lo, Succ(up, h), h), v)
  BY IntervalBetween
<1> HIDE DEF quotient, first, last, X, Y
<1>13. CASE X > 0 /\ Y > 0
  <2> DEFINE lo == quotient(posL.lower, LastOf(posR, h))
             up == quotient(LastOf(posL, h), posR.lower)
  <2>1. /\ 0 < first(posL) /\ first(posL) <= X /\ X <= last(posL) /\ first(posL) \in Int /\ last(posL) \in Int
        /\ 0 < first(posR) /\ first(posR) <= Y /\ Y <= last(posR) /\ first(posR) \in Int /\ last(posR) \in Int
        /\ posL.lower \in SIntPatterns(h) /\ LastOf(posL, h) \in SIntPatterns(h) /\ ~IsEmptySet(posL)
        /\ posR.lower \in SIntPatterns(h) /\ LastOf(posR, h) \in SIntPatterns(h) /\ ~IsEmptySet(posR)
    BY <1>4, <1>7, <1>10, <1>13 DEF X, Y
  <2>2. /\ 0 <= Quotient(first(posL), last(posR))
        /\ Quotient(first(posL), last(posR)) <= Quotient(X, Y) /\ Quotient(X, Y) <= Quotient(last(posL), first(posR))
    BY <1>5, <2>1, QuotientBetweenEnds
  <2>3. 0 < last(posR) /\ 0 < first(posR)
    BY <1>5, <2>1
  <2>4. /\ lo \in SIntPatterns(h) /\ SVal(lo, h) = Quotient(first(posL), last(posR))
        /\ up \in SIntPatterns(h) /\ SVal(up, h) = Quotient(last(posL), first(posR))
    BY <1>9, <1>11, <2>1, <2>3 DEF first, last
  <2>5. Contains(Interval(lo, Succ(up, h), h), v)
    BY <1>12, <2>2, <2>4 DEF X, Y
  <2> QED
    BY <1>18, <2>1, <2>5 DEF QuotientsCover, quotient
<1>14. CASE X < 0 /\ Y < 0
  <2> DEFINE lo == quotient(LastOf(negL, h), negR.lower)
             up == quotient(negL.lower, LastOf(negR, h))
  <2>1. /\ last(negL) < 0 /\ first(negL) <= X /\ X <= last(negL) /\ first(negL) \in Int /\ last(negL) \in Int
        /\ last(negR) < 0 /\ first(negR) <= Y /\ Y <= last(negR) /\ first(negR) \in Int /\ last(negR) \in Int
        /\ negL.lower \in SIntPatterns(h) /\ LastOf(negL, h) \in SIntPatterns(h) /\ ~IsEmptySet(negL)
        /\ negR.lower \in SIntPatterns(h) /\ LastOf(negR, h) \in SIntPatterns(h) /\ ~IsEmptySet(negR)
    BY <1>4, <1>7, <1>10, <1>14 DEF X, Y
  <2>2. /\ 0 <= Quotient(last(negL), first(negR))
        /\ Quotient(last(negL), first(negR)) <= Quotient(X, Y) /\ Quotient(X, Y) <= Quotient(first(negL), last(negR))
    BY <1>5, <2>1, QuotientBetweenEnds
  <2>3. last(negR) # 0 /\ first(negR) # 0
    BY <1>5, <2>1
  <2>4. ~(negL.lower = h /\ LastOf(negR, h) = 2 * h - 1) /\ ~(LastOf(negL, h) = h /\ negR.lower = 2 * h - 1)
    <3>1. LastOf(negR, h) = 2 * h - 1 => negR.upper = 0
      BY <1>7, HalfOfRange DEF LastOf, Pred, Minus, SIntPatterns
    <3>2. LastOf(negL, h) = h => negL.lower = h
      BY <2>1 DEF first, last, X, SVal, IsNeg, SIntPatterns
    <3>3. negR.lower = 2 * h - 1 => LastOf(negR, h) = 2 * h - 1
      BY <2>1 DEF first, last, Y, SVal, IsNeg, SIntPatterns
    <3> QED
      BY <1>8, <2>1, <3>1, <3>2, <3>3
  <2>5. /\ lo \in SIntPatterns(h) /\ SVal(lo, h) = Quotient(last(negL), first(negR))
        /\ up \in SIntPatterns(h) /\ SVal(up, h) = Quotient(first(negL), last(negR))
    BY <1>9, <1>11, <2>1, <2>3, <2>4 DEF first, last
  <2>6. Contains(Interval(lo, Succ(up, h), h), v)
    BY <1>12, <2>2, <2>5 DEF X, Y
  <2> QED
    BY <1>8, <1>18, <2>1, <2>6 DEF QuotientsCover, quotient
<1>15. CASE X > 0 /\ Y < 0
  <2> DEFINE lo == quotient(LastOf(posL, h), LastOf(negR, h))
             up == quotient(posL.lower, negR.lower)
  <2>1. /\ 0 < first(posL) /\ first(posL) <= X /\ X <= last(posL) /\ first(posL) \in Int /\ last(posL) \in Int
        /\ last(negR) < 0 /\ first(negR) <= Y /\ Y <= last(negR) /\ first(negR) \in Int /\ last(negR) \in Int
        /\ posL.lower \in SIntPatterns(h) /\ LastOf(posL, h) \in SIntPatterns(h) /\ ~IsEmptySet(posL)
        /\ negR.lower \in SIntPatterns(h) /\ LastOf(negR, h) \in SIntPatterns(h) /\ ~IsEmptySet(negR)
    BY <1>4, <1>7, <1>10, <1>15 DEF X, Y
  <2>2. /\ Quotient(first(posL), first(negR)) <= 0
        /\ Quotient(last(posL), last(negR)) <= Quotient(X, Y) /\ Quotient(X, Y) <= Quotient(first(posL), first(negR))
    BY <1>5, <2>1, QuotientBetweenEnds
  <2>3. last(negR) # 0 /\ first(negR) # 0 /\ 0 < first(posL) /\ 0 < last(posL)
    BY <1>5, <2>1
  <2>4. /\ lo \in SIntPatterns(h) /\ SVal(lo, h) = Quotient(last(posL), last(negR))
        /\ up \in SIntPatterns(h) /\ SVal(up, h) = Quotient(first(posL), first(negR))
    BY <1>9, <1>11, <2>1, <2>3 DEF first, last
  <2>5. Contains(Interval(lo, Succ(up, h), h), v)
    BY <1>12, <2>2, <2>4 DEF X, Y
  <2> QED
    BY <1>18, <2>1, <2>5 DEF QuotientsCover, quotient
<1>16. CASE X < 0 /\ Y > 0
  <2> DEFINE lo == quotient(negL.lower, posR.lower)
             up == quotient(LastOf(negL, h), LastOf(posR, h))
  <2>1. /\ last(negL) < 0 /\ first(negL) <= X /\ X <= last(negL) /\ first(negL) \in Int /\ last(negL) \in Int
        /\ 0 < first(posR) /\ first(posR) <= Y /\ Y <= last(posR) /\ first(posR) \in Int /\ last(posR) \in Int
        /\ negL.lower \in SIntPatterns(h) /\ LastOf(negL, h) \in SIntPatterns(h) /\ ~IsEmptySet(negL)
        /\ posR.lower \in SIntPatterns(h) /\ LastOf(posR, h) \in SIntPatterns(h) /\ ~IsEmptySet(posR)
    BY <1>4, <1>7, <1>10, <1>16 DEF X, Y
  <2>2. /\ Quotient(last(negL), last(posR)) <= 0
        /\ Quotient(first(negL), first(posR)) <= Quotient(X, Y) /\ Quotient(X, Y) <= Quotient(last(negL), last(posR))
    BY <1>5, <2>1, QuotientBetweenEnds
  <2>3. 0 < last(posR) /\ 0 < first(posR)
    BY <1>5, <2>1
  <2>4. /\ lo \in SIntPatterns(h) /\ SVal(lo, h) = Quotient(first(negL), first(posR))
        /\ up \in SIntPatterns(h) /\ SVal(up, h) = Quotient(last(negL), last(posR))
    BY <1>9, <1>11, <2>1, <2>3 DEF first, last
  <2>5. Contains(Interval(lo, Succ(up, h), h), v)
    BY <1>12, <2>2, <2>4 DEF X, Y
  <2> QED
    BY <1>18, <2>1, <2>5 DEF QuotientsCover, quotient
<1>17. CASE X = 0
  <2>1. v = 0 /\ x = 0
    BY <1>5, <1>17, MagnitudeFact DEF X
  <2>2. ~IsEmptySet(posR) \/ ~IsEmptySet(negR)
    BY <1>4, <1>5, <1>7, <1>10
  <2> QED
    BY <1>18, <2>1, <2>2
<1> QED
  BY <1>5, <1>13, <1>14, <1>15, <1>16, <1>17

\* ConstantRange::SRem: the range contains every remainder.
LEMMA SignedRemaindersCovered ==
  ASSUME NEW h \in Nat \ {0, 1}, NEW a \in RangesOf(h), NEW b \in RangesOf(h),
         NEW x \in SIntPatterns(h), NEW y \in SIntPatterns(h), Contains(a, x), Contains(b, y), y # 0,
         NEW v \in SIntPatterns(h), SVal(v, h) = SVal(x, h) - SVal(y, h) * Quotient(SVal(x, h), SVal(y, h))
  PROVE  Contains(SRemRange(a, b), v)
<1> DEFINE X == SVal(x, h)
           Y == SVal(y, h)
           R == SVal(v, h)
           greatest == UMaxOf(Abs(b))
           least == IF UMinOf(Abs(b)) = 0 THEN 1 ELSE UMinOf(Abs(b))
           lo == ULarger(SMinOf(a), Succ(Neg(greatest, h), h))
           up == Succ(USmaller(SMaxOf(a), Pred(greatest, h)), h)
<1>1. /\ X \in Int /\ -h <= X /\ X < h
      /\ Y \in Int /\ -h <= Y /\ Y < h /\ Y # 0
      /\ R \in Int /\ -h <= R /\ R < h
      /\ Magnitude(y, h) = AbsOf(Y)
  BY MagnitudeFact DEF AbsOf
<1>2. /\ X >= 0 => 0 <= R /\ R <= X
      /\ X <= 0 => R <= 0 /\ X <= R
      /\ AbsOf(R) < AbsOf(Y)
  <2> DEFINE q == Quotient(X, Y)
  <2>1. /\ q \in Int /\ q * Y \in Int
        /\ X >= 0 => 0 <= X - q * Y /\ X - q * Y < AbsOf(Y)
        /\ X <= 0 => 0 <= q * Y - X /\ q * Y - X < AbsOf(Y)
    BY <1>1, QuotientFact
  <2>2. /\ X >= 0 => q * Y >= 0
        /\ X <= 0 => q * Y <= 0
    <3>1. (X >= 0 /\ Y > 0 => q >= 0) /\ (X >= 0 /\ Y < 0 => q <= 0)
          /\ (X < 0 /\ Y > 0 => q <= 0) /\ (X < 0 /\ Y < 0 => q >= 0) /\ (X = 0 => q = 0)
      <4>1. AbsOf(X) \in Nat /\ AbsOf(Y) \in Nat \ {0} /\ (X = 0 => AbsOf(X) = 0)
        BY <1>1 DEF AbsOf
      <4>2. AbsOf(X) \div AbsOf(Y) \in Nat /\ AbsOf(X) \div AbsOf(Y) <= AbsOf(X)
        BY <4>1, Division
      <4> QED
        BY <1>1, <4>1, <4>2 DEF Quotient
    <3> HIDE DEF q, X, Y
    <3>2. /\ q >= 0 /\ Y >= 0 => q * Y >= 0
          /\ q <= 0 /\ Y <= 0 => q * Y >= 0
          /\ q >= 0 /\ Y <= 0 => q * Y <= 0
          /\ q <= 0 /\ Y >= 0 => q * Y <= 0
      BY <1>1, <2>1, ProductSigns
    <3> QED
      BY <1>1, <2>1, <3>1, <3>2
  <2>3. R = X - q * Y
    <3>1. Y * q = q * Y
      BY <1>1, <2>1
    <3> QED
      BY <3>1
  <2> HIDE DEF q, X, Y, R
  <2> QED
    BY <1>1, <2>1, <2>2, <2>3 DEF AbsOf
<1>3. a.half = h /\ ~IsEmptySet(a) /\ ~IsEmptySet(b)
  BY HalfOfRange, EmptyContainsNothing
<1>4. /\ SMinOf(a) \in SIntPatterns(h) /\ SMaxOf(a) \in SIntPatterns(h)
      /\ SVal(SMinOf(a), h) <= X /\ X <= SVal(SMaxOf(a), h)
  BY ExtremesArePatterns, SignedExtremes DEF Sle
<1>5. /\ greatest \in Nat /\ greatest <= h /\ AbsOf(Y) <= greatest
      /\ UMinOf(Abs(b)) \in SIntPatterns(h) /\ UMinOf(Abs(b)) <= AbsOf(Y)
  <2>1. Abs(b) \in RangesOf(h) /\ greatest \in Nat /\ greatest <= h
    BY <1>3, AbsLegal
  <2>2. Contains(Abs(b), AbsOf(Y)) /\ AbsOf(Y) \in SIntPatterns(h)
    BY <1>1, AbsContains, OperationsArePatterns
  <2> QED
    BY <2>1, <2>2, UnsignedExtremes, ExtremesArePatterns
<1>6. greatest # 0 /\ least \in Nat \ {0} /\ least <= AbsOf(Y) /\ least <= h
  BY <1>1, <1>5 DEF AbsOf, SIntPatterns
<1> HIDE DEF greatest, least
<1>7. CASE IsSingleElement(a) /\ IsSingleElement(b)
  <2>1. x = a.lower /\ y = b.lower
    BY <1>7, SingleContains
  <2>2. SRemRange(a, b) = Single(SRem(x, y, h), h)
    BY <1>3, <1>6, <1>7, <2>1 DEF SRemRange, greatest
  <2>3. SRem(x, y, h) = v
    <3>1. AbsOf(X) \in Nat /\ AbsOf(Y) \in Nat \ {0} /\ Magnitude(x, h) = AbsOf(X)
      BY <1>1, MagnitudeFact DEF AbsOf
    <3> DEFINE d == AbsOf(X) \div AbsOf(Y)
               r == AbsOf(X) % AbsOf(Y)
    <3>2. /\ d \in Nat /\ r \in Nat /\ r < AbsOf(Y) /\ r <= AbsOf(X) /\ d <= AbsOf(X)
          /\ r = AbsOf(X) - d * AbsOf(Y)
      <4>1. d \in Nat /\ r \in Nat /\ r < AbsOf(Y) /\ r <= AbsOf(X) /\ d <= AbsOf(X)
        BY <3>1, Division
      <4>2. AbsOf(X) \in Int
        BY <3>1
      <4>3. r = AbsOf(X) - d * AbsOf(Y)
        BY <3>1, <4>2, RemainderFact
      <4> QED
        BY <4>1, <4>3
    <3>3. R = X - Y * Quotient(X, Y) /\ Quotient(X, Y) = IF (X < 0) = (Y < 0) THEN d ELSE -d
      BY DEF Quotient
    <3>4. SRem(x, y, h) = IF X < 0 THEN Neg(r, h) ELSE r
      BY <1>1, <3>1, MagnitudeFact DEF SRem, URem
    <3> HIDE DEF d, r, X, Y, R
    <3>5. R = IF X < 0 THEN -r ELSE r
      <4>1. CASE Y < 0
        <5>1. AbsOf(Y) = -Y /\ d * (-Y) = -(Y * d) /\ Y * (-d) = -(Y * d) /\ Y * d \in Int
          BY <1>1, <3>2, <4>1 DEF AbsOf
        <5> QED
          BY <1>1, <3>2, <3>3, <4>1, <5>1 DEF AbsOf
      <4>2. CASE Y >= 0
        <5>1. AbsOf(Y) = Y /\ d * Y = Y * d /\ Y * (-d) = -(Y * d) /\ Y * d \in Int
          BY <1>1, <3>2, <4>2 DEF AbsOf
        <5> QED
          BY <1>1, <3>2, <3>3, <4>2, <5>1 DEF AbsOf
      <4> QED
        BY <1>1, <4>1, <4>2
    <3>6. AbsOf(Y) <= h /\ AbsOf(Y) \in Nat
      BY <1>1 DEF AbsOf
    <3> QED
      BY <1>1, <3>2, <3>4, <3>5, <3>6 DEF R, Neg, Minus, SVal, IsNeg, SIntPatterns
  <2>4. Succ(v, h) # v /\ Succ(v, h) \in SIntPatterns(h) /\ Within(v, Succ(v, h), v, h)
    BY DEF Within, Succ, Plus, SIntPatterns
  <2> QED
    BY <2>2, <2>3, <2>4, IntervalIsWithin DEF Single
<1>8. ASSUME ~(IsSingleElement(a) /\ IsSingleElement(b))
      PROVE  Contains(SRemRange(a, b), v)
  <2>1. SRemRange(a, b) =
           IF IsNonNeg(SMinOf(a), h)
           THEN IF SMaxOf(a) < least THEN a ELSE Interval(0, up, h)
           ELSE IF IsNeg(SMaxOf(a), h)
           THEN IF SMinOf(a) > Neg(least, h) THEN a ELSE Interval(lo, 1, h)
           ELSE Interval(lo, up, h)
    BY <1>3, <1>6, <1>8 DEF SRemRange, greatest, least
  <2> HIDE DEF X, Y, R
  <2>2. /\ lo \in SIntPatterns(h) /\ up \in SIntPatterns(h) /\ 0 \in SIntPatterns(h) /\ 1 \in SIntPatterns(h)
        /\ IsNonNeg(SMinOf(a), h) => up # 0
        /\ ~IsNonNeg(SMinOf(a), h) => lo # 1 /\ lo # up
    BY <1>4, <1>5, <1>6 DEF ULarger, USmaller, Succ, Pred, Neg, Plus, Minus, IsNonNeg, SIntPatterns
  <2>3. R <= greatest - 1 /\ -greatest + 1 <= R
    BY <1>1, <1>2, <1>5 DEF AbsOf
  <2>4. CASE IsNonNeg(SMinOf(a), h)
    <3>1. 0 <= X /\ SMaxOf(a) < h /\ X <= SMaxOf(a)
      BY <1>1, <1>4, <2>4 DEF IsNonNeg, SVal, IsNeg, SIntPatterns
    <3>2. CASE SMaxOf(a) < least
      <4>1. X < AbsOf(Y) /\ X \in Nat
        BY <1>1, <1>4, <1>6, <3>1, <3>2 DEF AbsOf, SIntPatterns
      <4>2. R = X
        <5>1. Quotient(X, Y) = 0
          <6>1. AbsOf(X) = X /\ AbsOf(Y) \in Nat \ {0}
            BY <1>1, <4>1 DEF AbsOf
          <6>2. X \div AbsOf(Y) = 0
            BY <4>1, <6>1
          <6> QED
            BY <6>1, <6>2 DEF Quotient
        <5>2. Y * 0 = 0
          BY <1>1
        <5> QED
          BY <1>1, <5>1, <5>2 DEF R, X, Y
      <4>3. v = x
        BY <4>2, PatternOfValue DEF R, X
      <4> QED
        BY <2>1, <2>4, <3>2, <4>3
    <3>3. CASE ~(SMaxOf(a) < least)
      <4>1. v < up /\ 0 <= v /\ 0 # up
        BY <1>1, <1>2, <1>4, <1>5, <1>6, <2>2, <2>3, <2>4, <3>1
           DEF R, USmaller, Succ, Pred, Plus, Minus, SVal, IsNeg, SIntPatterns
      <4>2. Within(0, up, v, h)
        BY <2>2, <4>1 DEF Within, SIntPatterns
      <4> HIDE DEF up
      <4> QED
        BY <2>1, <2>2, <2>4, <3>3, <4>1, <4>2, IntervalIsWithin
    <3> QED
      BY <3>2, <3>3
  <2>5. CASE ~IsNonNeg(SMinOf(a), h) /\ IsNeg(SMaxOf(a), h)
    <3>1. X < 0
      BY <1>1, <1>4, <2>5 DEF IsNonNeg, SVal, IsNeg, SIntPatterns
    <3>2. CASE SMinOf(a) > Neg(least, h)
      <4>1. -X < AbsOf(Y) /\ -X \in Nat
        BY <1>1, <1>4, <1>6, <2>5, <3>1, <3>2 DEF AbsOf, Neg, Minus, SVal, IsNeg, IsNonNeg, SIntPatterns
      <4>2. R = X
        <5>1. Quotient(X, Y) = 0
          <6>1. AbsOf(X) = -X /\ AbsOf(Y) \in Nat \ {0}
            BY <1>1, <3>1 DEF AbsOf
          <6>2. (-X) \div AbsOf(Y) = 0
            BY <4>1, <6>1
          <6> QED
            BY <6>1, <6>2 DEF Quotient
        <5>2. Y * 0 = 0
          BY <1>1
        <5> QED
          BY <1>1, <5>1, <5>2 DEF R, X, Y
      <4>3. v = x
        BY <4>2, PatternOfValue DEF R, X
      <4> QED
        BY <2>1, <2>5, <3>2, <4>3
    <3>3. CASE ~(SMinOf(a) > Neg(least, h))
      <4>1. Within(lo, 1, v, h)
        BY <1>1, <1>2, <1>4, <1>5, <1>6, <2>2, <2>3, <2>5, <3>1
           DEF R, Within, ULarger, Succ, Neg, Plus, Minus, SVal, IsNeg, IsNonNeg, SIntPatterns
      <4> HIDE DEF lo
      <4> QED
        BY <2>1, <2>2, <2>5, <3>3, <4>1, IntervalIsWithin
    <3> QED
      BY <3>2, <3>3
  <2>6. CASE ~IsNonNeg(SMinOf(a), h) /\ ~IsNeg(SMaxOf(a), h)
    <3>1. R < 0 => v >= lo
      BY <1>1, <1>2, <1>4, <1>5, <1>6, <2>3, <2>6
         DEF R, ULarger, Succ, Neg, Plus, Minus, SVal, IsNeg, IsNonNeg, SIntPatterns
    <3>2. R >= 0 => v < up
      BY <1>1, <1>2, <1>4, <1>5, <1>6, <2>3, <2>6
         DEF R, USmaller, Succ, Pred, Plus, Minus, SVal, IsNeg, IsNonNeg, SIntPatterns
    <3>3. up < lo
      BY <1>4, <1>5, <1>6, <2>6
         DEF USmaller, ULarger, Succ, Pred, Neg, Plus, Minus, IsNeg, IsNonNeg, SIntPatterns
    <3> HIDE DEF lo, up
    <3>4. Within(lo, up, v, h)
      BY <1>1, <2>2, <3>1, <3>2, <3>3 DEF Within, SIntPatterns
    <3> QED
      BY <2>1, <2>2, <2>6, <3>4, IntervalIsWithin
  <2> QED
    BY <2>4, <2>5, <2>6
<1> QED
  BY <1>7, <1>8

-----------------------------------------------------------------------------
(* Multiplication, division and remainder.                                  *)

\* A pattern that results from the exact number is an outcome for it.
LEMMA ResultIsOutcome ==
  ASSUME NEW type, NEW h \in Nat \ {0, 1}, type.half = h, type.unsigned \in BOOLEAN,
         NEW ov \in Strategies, NEW z \in Int, NEW v \in Resulting(z, type, ov),
         -(2 * h) <= z, IF type.unsigned THEN z < 4 * h ELSE z < 2 * h
  PROVE  IsOutcome(v, z, type.unsigned, ov, h)
<1> DEFINE least == LeastOf(type.unsigned, h)
           greatest == GreatestOf(type.unsigned, h)
<1>1. /\ v \in SIntPatterns(h)
      /\ Fits(z, type) <=> least <= z /\ z <= greatest
      /\ Fits(z, type) => Order(type.unsigned, v, h) = z
      /\ ~Fits(z, type) => ov # "THROWING"
      /\ ov = "SATURATING" => Order(type.unsigned, v, h) = ClampedTo(z, type.unsigned, h)
      /\ ov = "WRAPPING" => v = z % (2 * h)
  BY ResultingFact
<1>2. /\ z \in 0 .. 2 * h - 1 => z % (2 * h) = z
      /\ z \in -(2 * h) .. -1 => z % (2 * h) = z + 2 * h
      /\ z \in 2 * h .. 4 * h - 1 => z % (2 * h) = z - 2 * h
  <2>1. 2 * h \in Nat \ {0}
    OBVIOUS
  <2> DEFINE n == 2 * h
  <2>2. /\ z \in 0 .. n - 1 => z % n = z
        /\ z \in -n .. -1 => z % n = z + n
        /\ z \in n .. 2 * n - 1 => z % n = z - n
    <3> HIDE DEF n
    <3> QED
      BY <2>1, ModuloFact DEF n
  <2> QED
    BY <2>2
<1>3. ASSUME ~Fits(z, type), ov = "WRAPPING"
      PROVE  /\ z < least => Order(type.unsigned, v, h) = z + 2 * h
             /\ z > greatest => Order(type.unsigned, v, h) = z - 2 * h
  <2>1. CASE type.unsigned
    <3>1. /\ z < least => v = z + 2 * h
          /\ z > greatest => v = z - 2 * h
      BY <1>1, <1>2, <1>3, <2>1 DEF LeastOf, GreatestOf
    <3> QED
      BY <2>1, <3>1 DEF Order
  <2>2. CASE ~type.unsigned
    <3>1. /\ z < least => v = z + 2 * h
          /\ z > greatest => v = z
      BY <1>1, <1>2, <1>3, <2>2 DEF LeastOf, GreatestOf
    <3> QED
      BY <2>2, <3>1 DEF Order, SVal, IsNeg, LeastOf, GreatestOf
  <2> QED
    BY <2>1, <2>2
<1>4. /\ least = IF type.unsigned THEN 0 ELSE -h
      /\ greatest = IF type.unsigned THEN 2 * h - 1 ELSE h - 1
  BY DEF LeastOf, GreatestOf
<1>5. ov = "SATURATING" => /\ z < least => Order(type.unsigned, v, h) = least
                           /\ z > greatest => Order(type.unsigned, v, h) = greatest
  BY <1>1, <1>4 DEF ClampedTo
<1>6. z < least \/ z > greatest => ~Fits(z, type) /\ ov \in {"SATURATING", "WRAPPING"}
  BY <1>1, <1>4 DEF Strategies
<1>7. least \in Int /\ greatest \in Int
  BY <1>4
<1> HIDE DEF least, greatest
<1> QED
  BY <1>1, <1>3, <1>4, <1>5, <1>6, <1>7 DEF IsOutcome

\* The value of a pattern in a type is its place in the order of the type.
LEMMA ValueIsOrder ==
  ASSUME NEW type, NEW h \in Nat \ {0, 1}, type.half = h, type.unsigned \in BOOLEAN,
         NEW p \in SIntPatterns(h)
  PROVE  /\ ValueIn(p, type) = Order(type.unsigned, p, h) /\ ValueIn(p, type) \in Int
         /\ LeastOf(type.unsigned, h) <= ValueIn(p, type)
         /\ ValueIn(p, type) <= GreatestOf(type.unsigned, h)
         /\ type.unsigned => ValueIn(p, type) = p
         /\ ~type.unsigned => ValueIn(p, type) = SVal(p, h)
BY DEF ValueIn, Order, SVal, IsNeg, LeastOf, GreatestOf, SIntPatterns

\* Whatever the overflow strategy, the range that ComputeMul gives contains the
\* outcome of every multiplication of a value of one range by one of the other.
THEOREM ProductSound ==
  ASSUME NEW type, NEW h, IsHalfModulus(h), type.half = h, type.unsigned \in BOOLEAN,
         NEW c, NEW d, IsDomain(c, h), IsDomain(d, h),
         NEW x \in SIntPatterns(h), NEW y \in SIntPatterns(h), Contains(c.numeric, x), Contains(d.numeric, y),
         NEW ov \in Strategies, NEW v \in Outcome("MUL", ValueIn(x, type), ValueIn(y, type), type, ov)
  PROVE  Contains(ComputeMul(c, d, ov, type.unsigned).numeric, v)
<1>0. h \in Nat \ {0, 1}
  BY DEF IsHalfModulus
<1> DEFINE a == c.numeric
           b == d.numeric
           z == ValueIn(x, type) * ValueIn(y, type)
<1>1. a \in RangesOf(h) /\ b \in RangesOf(h)
  BY DEF IsDomain
<1>2. ValueIn(x, type) \in Int /\ ValueIn(y, type) \in Int
  BY <1>0, ValueIsOrder
<1>3. z \in Int
  BY <1>2, ProductSigns
<1>4. v \in Resulting(z, type, ov)
  BY DEF Outcome
<1> HIDE DEF z
<1>5. /\ v \in SIntPatterns(h)
      /\ Fits(z, type) <=> LeastOf(type.unsigned, h) <= z /\ z <= GreatestOf(type.unsigned, h)
      /\ Fits(z, type) => Order(type.unsigned, v, h) = z
      /\ ov = "SATURATING" => Order(type.unsigned, v, h) = ClampedTo(z, type.unsigned, h)
  BY <1>0, <1>3, <1>4, ResultingFact
<1>6. CASE type.unsigned
  <2>1. z = x * y /\ x * y \in Nat
    <3>1. z = x * y
      BY <1>0, <1>6, ValueIsOrder DEF z
    <3>2. x \in Nat /\ y \in Nat
      BY <1>0 DEF SIntPatterns
    <3> QED
      BY <3>1, <3>2, ProductsGrow
  <2>2. x * y < 2 * h => v = x * y
    BY <1>0, <1>5, <1>6, <2>1 DEF LeastOf, GreatestOf, Order
  <2>3. ov = "SATURATING" => v = ClampedTo(x * y, TRUE, h)
    BY <1>5, <1>6, <2>1 DEF Order
  <2>4. Contains(UMul(a, b), v) /\ (ov = "SATURATING" => Contains(UMulSatRange(a, b), v))
    BY <1>0, <1>1, <1>5, <2>2, <2>3, UnsignedProductsCovered
  <2> QED
    BY <1>6, <2>4 DEF ComputeMul, Bare, Domain
<1>7. CASE ~type.unsigned
  <2>1. z = SVal(x, h) * SVal(y, h)
    BY <1>0, <1>7, ValueIsOrder DEF z
  <2>2. InWidth(z, h) => SVal(v, h) = z
    BY <1>0, <1>3, <1>5, <1>7 DEF LeastOf, GreatestOf, Order, InWidth
  <2>3. ov = "SATURATING" => SVal(v, h) = ClampedTo(z, FALSE, h)
    BY <1>5, <1>7 DEF Order
  <2>4. Contains(SMul(a, b), v) /\ (ov = "SATURATING" => Contains(SMulSatRange(a, b), v))
    BY <1>0, <1>1, <1>5, <2>1, <2>2, <2>3, SignedProductsCovered
  <2> QED
    BY <1>7, <2>4 DEF ComputeMul, Bare, Domain
<1> QED
  BY <1>6, <1>7

\* The ranges that ComputeDiv and ComputeMod give contain the outcome of every
\* division and remainder of their values, whatever the overflow strategy; where no
\* divisor -1 meets the smallest signed value, as far as divisions go.
THEOREM QuotientSound ==
  ASSUME NEW type, NEW h \in Nat \ {0, 1}, type.half = h, type.unsigned \in BOOLEAN,
         NEW c, NEW d, IsDomain(c, h), IsDomain(d, h),
         NEW x \in SIntPatterns(h), NEW y \in SIntPatterns(h), Contains(c.numeric, x), Contains(d.numeric, y),
         NEW ov \in Strategies
  PROVE  /\ type.unsigned \/ ~(Contains(c.numeric, SMinValue(h)) /\ Contains(d.numeric, UMaxValue(h))) =>
               \A v \in Outcome("DIV", ValueIn(x, type), ValueIn(y, type), type, ov) :
                  Contains(ComputeDiv(c, d, ov, type.unsigned).numeric, v)
         /\ \A v \in Outcome("MOD", ValueIn(x, type), ValueIn(y, type), type, ov) :
               Contains(ComputeMod(c, d, type.unsigned).numeric, v)
<1> DEFINE a == c.numeric
           b == d.numeric
           X == ValueIn(x, type)
           Y == ValueIn(y, type)
           q == Quotient(X, Y)
<1>1. a \in RangesOf(h) /\ b \in RangesOf(h) /\ a.half = h
  BY HalfOfRange DEF IsDomain
<1>2. /\ X \in Int /\ Y \in Int
      /\ LeastOf(type.unsigned, h) <= X /\ X <= GreatestOf(type.unsigned, h)
      /\ type.unsigned => X = x /\ Y = y
      /\ ~type.unsigned => X = SVal(x, h) /\ Y = SVal(y, h)
  BY ValueIsOrder
<1>3. Y = 0 <=> y = 0
  <2>1. SVal(y, h) = 0 <=> y = 0
    BY MagnitudeFact
  <2> QED
    BY <1>2, <2>1
<1>4. ASSUME Y # 0
      PROVE  q \in Int /\ X - Y * q \in Int
  <2>1. q \in Int
    BY <1>2, <1>4, QuotientFact
  <2>2. Y * q \in Int
    BY <1>2, <2>1, ProductSigns
  <2> QED
    BY <1>2, <2>1, <2>2
<1>5. x \in Nat /\ y \in Nat
  BY DEF SIntPatterns
<1>6. ASSUME type.unsigned, y # 0
      PROVE  q = x \div y /\ X - Y * q = x % y
  <2>1. X = x /\ Y = y /\ y \in Nat \ {0}
    BY <1>2, <1>5, <1>6
  <2>2. AbsOf(x) = x /\ AbsOf(y) = y /\ (x < 0) = (y < 0)
    BY <1>5 DEF AbsOf
  <2>3. q = x \div y
    BY <2>1, <2>2 DEF Quotient
  <2>4. x \div y \in Nat /\ x \in Int
    BY <1>5, <2>1, Division
  <2>5. x % y = x - (x \div y) * y
    BY <2>1, <2>4, RemainderFact
  <2>6. (x \div y) * y = y * (x \div y)
    BY <1>5, <2>4
  <2> QED
    BY <2>1, <2>3, <2>5, <2>6
<1> HIDE DEF X, Y, q
<1>7. ASSUME type.unsigned \/ ~(Contains(a, SMinValue(h)) /\ Contains(b, UMaxValue(h))),
             NEW v \in Outcome("DIV", X, Y, type, ov)
      PROVE  Contains(ComputeDiv(c, d, ov, type.unsigned).numeric, v)
  <2>1. Y # 0
    BY <1>7 DEF Outcome
  <2>2. v \in Resulting(q, type, ov)
    BY <1>7, <2>1 DEF Outcome, q
  <2>3. /\ v \in SIntPatterns(h)
        /\ Fits(q, type) <=> LeastOf(type.unsigned, h) <= q /\ q <= GreatestOf(type.unsigned, h)
        /\ Fits(q, type) => Order(type.unsigned, v, h) = q
    BY <1>4, <2>1, <2>2, ResultingFact
  <2>4. CASE Contains(b, 0)
    <3>1. ComputeDiv(c, d, ov, type.unsigned).numeric = Full(h)
      BY <1>1, <2>4 DEF ComputeDiv, Top, Bare, Domain
    <3> QED
      BY <2>3, <3>1, ExtremesContain
  <2>5. CASE ~Contains(b, 0) /\ type.unsigned
    <3>1. q = x \div y /\ q \in SIntPatterns(h) /\ Contains(UDivRange(a, b), q)
      BY <1>1, <1>3, <1>6, <2>1, <2>5, UnsignedQuotientsCovered
    <3>2. v = q
      BY <2>3, <2>5, <3>1 DEF LeastOf, GreatestOf, Order, SIntPatterns
    <3>3. ComputeDiv(c, d, ov, type.unsigned).numeric = UDivRange(a, b)
      BY <2>5 DEF ComputeDiv, Bare, Domain
    <3> QED
      BY <3>1, <3>2, <3>3
  <2>6. CASE ~Contains(b, 0) /\ ~type.unsigned
    <3>1. ~(Contains(a, h) /\ Contains(b, 2 * h - 1)) /\ ~(x = SMinValue(h) /\ y = UMaxValue(h))
      BY <1>7, <2>6 DEF SMinValue, UMaxValue
    <3>2. SVal(SDiv(x, y, h), h) = q
      BY <1>2, <1>3, <2>1, <2>6, <3>1, SDivIsQuotient DEF q
    <3>3. SDiv(x, y, h) \in SIntPatterns(h)
      BY <1>3, <2>1, QuotientsArePatterns
    <3>4. -h <= q /\ q < h
      BY <3>2, <3>3, MagnitudeFact
    <3>5. SVal(v, h) = q
      BY <1>4, <2>1, <2>3, <2>6, <3>4 DEF LeastOf, GreatestOf, Order
    <3>6. Contains(SDivImpl(a, b, ov = "SATURATING"), v)
      <4> DEFINE saturating == ov = "SATURATING"
      <4>1. SVal(v, h) = Quotient(SVal(x, h), SVal(y, h))
        BY <1>2, <2>6, <3>5 DEF q
      <4>2. saturating \in BOOLEAN /\ y # 0 /\ v \in SIntPatterns(h)
        BY <1>3, <2>1, <2>3
      <4> HIDE DEF saturating
      <4>3. Contains(SDivImpl(a, b, saturating), v)
        BY <1>1, <3>1, <4>1, <4>2, SignedQuotientsCovered
      <4> QED
        BY <4>3 DEF saturating
    <3>7. ComputeDiv(c, d, ov, type.unsigned).numeric = SDivImpl(a, b, ov = "SATURATING")
      BY <2>6 DEF ComputeDiv, Bare, Domain
    <3> QED
      BY <3>6, <3>7
  <2> QED
    BY <2>4, <2>5, <2>6
<1>8. ASSUME NEW v \in Outcome("MOD", X, Y, type, ov)
      PROVE  Contains(ComputeMod(c, d, type.unsigned).numeric, v)
  <2> DEFINE m == X - Y * q
  <2>1. Y # 0
    BY <1>8 DEF Outcome
  <2>2. v \in Resulting(m, type, ov)
    BY <1>8, <2>1 DEF Outcome, q
  <2>3. m \in Int
    BY <1>4, <2>1
  <2> HIDE DEF m
  <2>4. /\ v \in SIntPatterns(h)
        /\ Fits(m, type) <=> LeastOf(type.unsigned, h) <= m /\ m <= GreatestOf(type.unsigned, h)
        /\ Fits(m, type) => Order(type.unsigned, v, h) = m
    BY <2>2, <2>3, ResultingFact
  <2>5. CASE type.unsigned
    <3>1. m = x % y /\ m \in SIntPatterns(h) /\ Contains(URemRange(a, b), m)
      BY <1>1, <1>3, <1>6, <2>1, <2>5, UnsignedQuotientsCovered DEF m
    <3>2. v = m
      BY <2>4, <2>5, <3>1 DEF LeastOf, GreatestOf, Order, SIntPatterns
    <3>3. ComputeMod(c, d, type.unsigned).numeric = URemRange(a, b)
      BY <2>5 DEF ComputeMod, Bare, Domain
    <3> QED
      BY <3>1, <3>2, <3>3
  <2>6. CASE ~type.unsigned
    <3>0. (X >= 0 /\ Y > 0 => q >= 0) /\ (X >= 0 /\ Y < 0 => q <= 0)
          /\ (X < 0 /\ Y > 0 => q <= 0) /\ (X < 0 /\ Y < 0 => q >= 0) /\ (X = 0 => q = 0)
      <4>1. AbsOf(X) \in Nat /\ AbsOf(Y) \in Nat \ {0} /\ (X = 0 => AbsOf(X) = 0)
        BY <1>2, <2>1 DEF AbsOf
      <4>2. AbsOf(X) \div AbsOf(Y) \in Nat /\ AbsOf(X) \div AbsOf(Y) <= AbsOf(X)
        BY <4>1, Division
      <4> QED
        BY <1>2, <2>1, <4>1, <4>2 DEF q, Quotient
    <3>1. X >= 0 => 0 <= m /\ m <= X
      <4>1. ASSUME X >= 0
            PROVE  0 <= m /\ m <= X
        <5>1. 0 <= X - q * Y /\ AbsOf(q) <= AbsOf(X) /\ q * Y \in Int /\ q \in Int
          BY <1>2, <2>1, <4>1, QuotientFact DEF q
        <5>2. q * Y = Y * q
          BY <1>2, <5>1
        <5>3. q * Y >= 0
          <6>1. (q >= 0 /\ Y >= 0 => q * Y >= 0) /\ (q <= 0 /\ Y <= 0 => q * Y >= 0)
            BY <1>2, <5>1, ProductSigns
          <6> QED
            BY <1>2, <2>1, <3>0, <4>1, <5>1, <6>1
        <5> QED
          BY <1>2, <5>1, <5>2, <5>3 DEF m
      <4> QED
        BY <4>1
    <3>2. X <= 0 => X <= m /\ m <= 0
      <4>1. ASSUME X <= 0
            PROVE  X <= m /\ m <= 0
        <5>1. 0 <= q * Y - X /\ q * Y \in Int /\ q \in Int
          BY <1>2, <2>1, <4>1, QuotientFact DEF q
        <5>2. q * Y = Y * q
          BY <1>2, <5>1
        <5>3. q * Y <= 0
          <6>1. (q >= 0 /\ Y <= 0 => q * Y <= 0) /\ (q <= 0 /\ Y >= 0 => q * Y <= 0)
            BY <1>2, <5>1, ProductSigns
          <6> QED
            BY <1>2, <2>1, <3>0, <4>1, <5>1, <6>1
        <5> QED
          BY <1>2, <5>1, <5>2, <5>3 DEF m
      <4> QED
        BY <4>1
    <3>3. SVal(v, h) = m
      BY <1>2, <2>3, <2>4, <2>6, <3>1, <3>2 DEF LeastOf, GreatestOf, Order
    <3>4. Contains(SRemRange(a, b), v)
      BY <1>1, <1>2, <1>3, <2>1, <2>4, <2>6, <3>3, SignedRemaindersCovered DEF m, q
    <3>5. ComputeMod(c, d, type.unsigned).numeric = SRemRange(a, b)
      BY <2>6 DEF ComputeMod, Bare, Domain
    <3> QED
      BY <3>4, <3>5
  <2> QED
    BY <2>5, <2>6
<1> QED
  BY <1>7, <1>8 DEF X, Y

-----------------------------------------------------------------------------
(* Conversions keep the value.                                              *)

\* Half the modulus of a larger width is a multiple of that of a smaller one.
LEMMA HalvesDivide ==
  ASSUME NEW h, IsHalfModulus(h), NEW d, IsHalfModulus(d), d < h
  PROVE  /\ h \in Nat \ {0, 1} /\ d \in Nat \ {0, 1} /\ 2 * d <= h
         /\ \E k \in Nat : h = k * d
<1> DEFINE m == ActiveBits(h) - 1
           n == ActiveBits(d) - 1
<1>1. h \in Nat \ {0, 1} /\ d \in Nat \ {0, 1}
  BY DEF IsHalfModulus
<1>2. IsPower(m, h) /\ m \in Nat /\ IsPower(n, d) /\ n \in Nat
  BY HalfIsPower
<1> HIDE DEF m, n
<1>3. n < m
  <2>1. m <= n => h <= d
    BY <1>1, <1>2, PowersFact
  <2> QED
    BY <1>1, <1>2, <2>1
<1>4. PICK q \in Nat : IsPower(m - n, q)
  BY <1>2, <1>3, PowersMultiply
<1>5. IsPower(n + (m - n), d * q) /\ d * q \in Nat
  BY <1>1, <1>2, <1>3, <1>4, PowersMultiply
<1>6. n + (m - n) = m
  BY <1>2
<1>7. h = q * d
  <2>1. h = d * q
    BY <1>1, <1>2, <1>5, <1>6, PowersFact
  <2> QED
    BY <1>1, <2>1
<1>8. 2 * d <= h
  <2>1. q # 0 /\ q # 1
    BY <1>1, <1>7
  <2>2. (q - 2) * d >= 0
    BY <1>1, <2>1
  <2>3. (q - 2) * d = q * d - 2 * d
    BY <1>1
  <2> QED
    BY <1>1, <1>7, <2>2, <2>3
<1> QED
  BY <1>1, <1>7, <1>8

\* Numbers that differ by multiples of the modulus have one remainder.
LEMMA RemaindersAgree ==
  ASSUME NEW n \in Nat \ {0}, NEW x \in Int, NEW k \in Int
  PROVE  (x + k * n) % n = x % n
<1> DEFINE y == x + k * n
           a == x \div n
           b == y \div n
           r == x % n
           s == y % n
<1>1. k * n \in Int /\ y \in Int
  BY ProductSigns
<1>2. a \in Int /\ r = x - a * n
  BY RemainderFact
<1>3. b \in Int /\ s = y - b * n
  <2> HIDE DEF y
  <2> QED
    BY <1>1, RemainderFact
<1>4. r \in 0 .. n - 1 /\ s \in 0 .. n - 1
  <2> HIDE DEF y
  <2> QED
    BY <1>1
<1> HIDE DEF a, b, r, s
<1> DEFINE j == k + a - b
<1>5. j \in Int /\ j * n = k * n + a * n - b * n
  BY <1>2, <1>3
<1>6. a * n \in Int /\ b * n \in Int
  BY <1>2, <1>3, ProductSigns
<1>7. s - r = j * n
  BY <1>1, <1>2, <1>3, <1>5, <1>6
<1> HIDE DEF j, y
<1>8. j = 0
  <2>1. -n < j * n /\ j * n < n
    BY <1>4, <1>7
  <2> QED
    BY <1>5, <2>1, MultipleIsZero
<1>9. s = r
  BY <1>4, <1>7, <1>8
<1> QED
  BY <1>9 DEF s, r, y

\* The remainder of a value in a smaller width is that of its pattern.
LEMMA TruncOfValue ==
  ASSUME NEW h, IsHalfModulus(h), NEW d, IsHalfModulus(d), d <= h,
         NEW p \in SIntPatterns(h)
  PROVE  /\ p % (2 * d) \in SIntPatterns(d) /\ SVal(p, h) % (2 * d) = p % (2 * d)
         /\ p % (2 * d) = Trunc(p, d)
         /\ p < 2 * d => Trunc(p, d) = p
         /\ -d <= SVal(p, h) /\ SVal(p, h) < d => SVal(Trunc(p, d), d) = SVal(p, h)
         /\ Trunc(2 * h - 1, d) = 2 * d - 1
<1>1. h \in Nat \ {0, 1} /\ d \in Nat \ {0, 1} /\ 2 * d \in Nat \ {0}
  BY DEF IsHalfModulus
<1>2. PICK k \in Nat : h = k * d
  <2>1. CASE d = h
    BY <1>1, <2>1
  <2>2. CASE d < h
    BY <2>2, HalvesDivide
  <2> QED
    BY <1>1, <2>1, <2>2
<1> DEFINE n == 2 * d
<1>3. 2 * h = k * n
  BY <1>1, <1>2
<1>4. p \in Int /\ p \in 0 .. 2 * h - 1
  BY <1>1 DEF SIntPatterns
<1>5. SVal(p, h) = p \/ SVal(p, h) = p + (-k) * n
  <2>1. (-k) * n = -(k * n)
    BY <1>1
  <2> QED
    BY <1>1, <1>3, <1>4, <2>1 DEF SVal, IsNeg
<1>n. n \in Nat \ {0}
  BY <1>1
<1>6. SVal(p, h) % n = p % n
  <2> HIDE DEF n
  <2>0. -k \in Int
    BY <1>2
  <2>1. (p + (-k) * n) % n = p % n
    BY <1>n, <1>4, <2>0, RemaindersAgree
  <2> QED
    BY <1>5, <2>1
<1>7. p % n \in 0 .. n - 1
  BY <1>1, <1>4
<1>8. p < n => p % n = p
  <2>1. p < n => p \in 0 .. n - 1
    BY <1>1, <1>4
  <2> HIDE DEF n
  <2> QED
    BY <1>n, <1>4, <2>1, ModuloFact
<1>9. ASSUME -d <= SVal(p, h), SVal(p, h) < d
      PROVE  SVal(Trunc(p, d), d) = SVal(p, h)
  <2> DEFINE z == SVal(p, h)
  <2>1. z \in Int
    BY <1>1, MagnitudeFact
  <2> HIDE DEF z
  <2>2. z % n = IF z < 0 THEN z + n ELSE z
    <3>1. z \in 0 .. n - 1 \/ z \in -n .. -1
      BY <1>1, <1>9, <2>1 DEF z
    <3> HIDE DEF n
    <3>2. /\ z \in 0 .. n - 1 => z % n = z
          /\ z \in -n .. -1 => z % n = z + n
      BY <1>n, <2>1, ModuloFact
    <3> QED
      BY <1>n, <2>1, <3>1, <3>2
  <2>3. Trunc(p, d) = z % n
    BY <1>6 DEF Trunc, z
  <2> QED
    BY <1>1, <1>9, <2>1, <2>2, <2>3 DEF SVal, IsNeg, z
<1>10. Trunc(2 * h - 1, d) = 2 * d - 1
  <2>1. 2 * h - 1 = (n - 1) + (k - 1) * n
    <3>1. (k - 1) * n = k * n - n
      BY <1>1
    <3> QED
      BY <1>1, <1>3, <3>1
  <2>2. n \in Nat \ {0} /\ n - 1 \in 0 .. n - 1 /\ n - 1 \in Int /\ k - 1 \in Int
    BY <1>1
  <2>3. (n - 1) % n = n - 1
    <3> HIDE DEF n
    <3> QED
      BY <2>2, ModuloFact
  <2>4. ((n - 1) + (k - 1) * n) % n = (n - 1) % n
    <3> HIDE DEF n
    <3> QED
      BY <2>2, RemaindersAgree
  <2> QED
    BY <2>1, <2>3, <2>4 DEF Trunc
<1> QED
  BY <1>1, <1>6, <1>7, <1>8, <1>9, <1>10 DEF Trunc, SIntPatterns

\* ConstantRange::Truncate: the range contains what is left of every pattern.
LEMMA TruncateContains ==
  ASSUME NEW h, IsHalfModulus(h), NEW d, IsHalfModulus(d), d < h,
         NEW r \in RangesOf(h), NEW p \in SIntPatterns(h), Contains(r, p)
  PROVE  Truncate(r, d) \in RangesOf(d) /\ Contains(Truncate(r, d), Trunc(p, d))
<1> DEFINE n == 2 * d
           t == Trunc(p, d)
           wrapped == IsUpperWrapped(r)
           wrappedPart == IF wrapped THEN Interval(UMaxValue(d), Trunc(r.upper, d), d) ELSE Empty(d)
           upper == IF wrapped THEN UMaxValue(h) ELSE r.upper
           beyond == r.lower - Trunc(r.lower, d)
           lo == r.lower - beyond
           up == Minus(upper, beyond, h)
<1>1. h \in Nat \ {0, 1} /\ d \in Nat \ {0, 1} /\ 2 * d <= h
  BY HalvesDivide
<1>h. d <= h
  BY <1>1
<1>2. Truncate(r, d) \in RangesOf(d)
  BY <1>1, TruncateLegal
<1>3. t \in SIntPatterns(d) /\ t = p % n
  BY <1>h, TruncOfValue
<1>4. Ends(r, h) /\ r.half = h /\ Within(r.lower, r.upper, p, h) /\ ~IsEmptySet(r)
  BY <1>1, RangeEnds, ContainsIsWithin, EmptyContainsNothing DEF Ends
<1>5. p \in Nat /\ p < 2 * h
  BY <1>1 DEF SIntPatterns
<1>6. Trunc(r.lower, d) = r.lower % n /\ r.lower % n \in Nat /\ r.lower % n < n /\ r.lower % n <= r.lower
  <2>1. r.lower \in Nat /\ n \in Nat \ {0}
    BY <1>1, <1>4 DEF Ends
  <2> HIDE DEF n
  <2> QED
    BY <2>1, Division DEF Trunc, n
<1>7. lo = r.lower % n /\ beyond \in Nat /\ beyond <= r.lower /\ beyond = (r.lower \div n) * n
      /\ r.lower \div n \in Nat
  <2>1. r.lower \in Int /\ r.lower \in Nat /\ n \in Nat \ {0}
    BY <1>1, <1>4 DEF Ends
  <2>2. r.lower % n = r.lower - (r.lower \div n) * n /\ r.lower \div n \in Nat
    <3> HIDE DEF n
    <3> QED
      BY <2>1, RemainderFact, Division
  <2> QED
    BY <1>4, <1>6, <2>1, <2>2 DEF Ends
<1>8. ASSUME NEW q \in Nat, beyond <= q
      PROVE  /\ Trunc(q, d) = (q - beyond) % n /\ q - beyond \in Nat
             /\ q - beyond < n => Trunc(q, d) = q - beyond
             /\ n <= q - beyond /\ q - beyond < 2 * n => Trunc(q, d) = q - beyond - n
  <2> DEFINE k == r.lower \div n
             x == q - beyond
  <2>1. x \in Nat /\ x \in Int /\ k \in Int /\ q = x + k * n
    BY <1>7, <1>8
  <2>2. n \in Nat \ {0}
    BY <1>1
  <2> HIDE DEF n, k, x
  <2>3. (x + k * n) % n = x % n
    BY <2>1, <2>2, RemaindersAgree
  <2>4. /\ x < n => x % n = x
        /\ n <= x /\ x < 2 * n => x % n = x - n
    BY <2>1, <2>2, ModuloFact
  <2> QED
    BY <2>1, <2>3, <2>4 DEF Trunc, n, x
<1> HIDE DEF beyond, lo
<1>9. CASE IsFullSet(r)
  <2>1. Truncate(r, d) = Full(d)
    BY <1>4, <1>9 DEF Truncate, IsFullSet, IsEmptySet
  <2> QED
    BY <1>1, <1>2, <1>3, <2>1, ExtremesContain
<1>10. CASE ~IsFullSet(r)
  <2>1. r.lower # r.upper
    BY <1>1, <1>4, <1>10, ExtremeTests
  <2>2. Truncate(r, d) =
           IF wrapped /\ r.upper >= UMaxValue(d) THEN Full(d)
           ELSE IF wrapped /\ r.lower = UMaxValue(h) THEN wrappedPart
           ELSE IF up < 2 * d THEN UnionWith(Interval(lo, up, d), wrappedPart, "Smallest")
           ELSE IF up < 4 * d /\ up - 2 * d < lo
           THEN UnionWith(Interval(lo, up - 2 * d, d), wrappedPart, "Smallest")
           ELSE Full(d)
    BY <1>4, <1>10, <2>1 DEF Truncate, beyond, lo
  <2>3. CASE wrapped /\ r.upper >= UMaxValue(d)
    BY <1>1, <1>2, <1>3, <2>2, <2>3, ExtremesContain
  <2>4. CASE ~(wrapped /\ r.upper >= UMaxValue(d))
    <3>1. wrapped => Trunc(r.upper, d) = r.upper /\ r.upper < 2 * d - 1 /\ r.upper \in SIntPatterns(d)
      <4>1. wrapped => r.upper \in SIntPatterns(h) /\ r.upper < 2 * d - 1
        BY <1>1, <1>4, <2>4 DEF Ends, UMaxValue, SIntPatterns
      <4>2. wrapped => Trunc(r.upper, d) = r.upper
        <5>1. wrapped => r.upper < 2 * d
          BY <1>1, <4>1 DEF SIntPatterns
        <5> HIDE DEF wrapped
        <5> QED
          BY <1>h, <4>1, <5>1, TruncOfValue
      <4> QED
        BY <1>1, <4>1, <4>2 DEF SIntPatterns
    <3>2. wrapped => wrappedPart = Interval(2 * d - 1, r.upper, d) /\ 2 * d - 1 # r.upper /\ 2 * d - 1 \in SIntPatterns(d)
      BY <1>1, <3>1 DEF UMaxValue, SIntPatterns
    <3>3. wrappedPart \in RangesOf(d)
      <4>1. CASE wrapped
        BY <1>1, <3>1, <3>2, <4>1, IntervalLegal
      <4>2. CASE ~wrapped
        BY <1>1, <4>2, ExtremesLegal
      <4> QED
        BY <4>1, <4>2
    <3>4. ASSUME wrapped, p < r.upper \/ p = 2 * h - 1
          PROVE  Contains(wrappedPart, t)
      <4>1. p < r.upper => t = p
        <5>1. p < r.upper => p < 2 * d
          BY <1>1, <1>5, <3>1, <3>4 DEF SIntPatterns
        <5> QED
          BY <1>h, <5>1, TruncOfValue
      <4>2. p = 2 * h - 1 => t = 2 * d - 1
        BY <1>h, TruncOfValue
      <4>3. Within(2 * d - 1, r.upper, t, d)
        BY <1>1, <1>5, <3>1, <3>4, <4>1, <4>2 DEF Within, SIntPatterns
      <4> QED
        BY <1>1, <1>3, <3>1, <3>2, <3>4, <4>3, IntervalIsWithin
    <3> HIDE DEF wrappedPart
    <3>5. CASE wrapped /\ (p < r.upper \/ p = 2 * h - 1)
      <4>1. Contains(wrappedPart, t)
        BY <3>4, <3>5
      <4>2. up \in Int /\ lo \in Nat /\ lo < n /\ r.lower < 2 * h
        BY <1>1, <1>4, <1>6, <1>7, <3>5 DEF Ends, Minus, UMaxValue, n
      <4>3. CASE r.lower = UMaxValue(h)
        BY <1>2, <2>2, <2>4, <3>5, <4>1, <4>3
      <4>4. CASE r.lower # UMaxValue(h)
        <5>1. up \in Nat /\ lo < up
          BY <1>1, <1>4, <1>6, <1>7, <3>5, <4>4 DEF Ends, Minus, UMaxValue, n
        <5>2. CASE up < 2 * d
          <6>1. Interval(lo, up, d) \in RangesOf(d)
            <7>1. lo \in SIntPatterns(d) /\ up \in SIntPatterns(d) /\ lo # up
              BY <1>1, <4>2, <5>1, <5>2 DEF SIntPatterns
            <7> QED
              BY <1>1, <7>1, IntervalLegal
          <6>2. Truncate(r, d) = UnionWith(Interval(lo, up, d), wrappedPart, "Smallest")
            BY <2>2, <2>4, <4>4, <5>2
          <6> QED
            BY <1>1, <1>2, <1>3, <3>3, <4>1, <6>1, <6>2, UnionContains
        <5>3. CASE ~(up < 2 * d) /\ up < 4 * d /\ up - 2 * d < lo
          <6>1. Interval(lo, up - 2 * d, d) \in RangesOf(d)
            <7>1. lo \in SIntPatterns(d) /\ up - 2 * d \in SIntPatterns(d) /\ lo # up - 2 * d
              BY <1>1, <4>2, <5>1, <5>3 DEF SIntPatterns
            <7> QED
              BY <1>1, <7>1, IntervalLegal
          <6>2. Truncate(r, d) = UnionWith(Interval(lo, up - 2 * d, d), wrappedPart, "Smallest")
            BY <2>2, <2>4, <4>4, <5>3
          <6> QED
            BY <1>1, <1>2, <1>3, <3>3, <4>1, <6>1, <6>2, UnionContains
        <5>4. CASE ~(up < 2 * d) /\ ~(up < 4 * d /\ up - 2 * d < lo)
          <6>1. Truncate(r, d) = Full(d)
            BY <2>2, <2>4, <4>4, <5>4
          <6> QED
            BY <1>1, <1>2, <1>3, <6>1, ExtremesContain
        <5> QED
          BY <5>2, <5>3, <5>4
      <4> QED
        BY <4>3, <4>4
    <3>6. CASE ~(wrapped /\ (p < r.upper \/ p = 2 * h - 1))
      <4>1. r.lower <= p /\ p < upper /\ upper < 2 * h /\ upper \in Nat
        BY <1>1, <1>4, <1>5, <1>10, <2>1, <3>6 DEF Ends, Within, IsUpperWrapped, UMaxValue
      <4>2. beyond <= p /\ p - beyond \in Nat /\ up = upper - beyond /\ up \in Nat /\ lo \in Nat
            /\ lo <= p - beyond /\ p - beyond < up /\ lo < n /\ lo = r.lower - beyond
        BY <1>1, <1>4, <1>5, <1>6, <1>7, <4>1 DEF Ends, Minus, lo
      <4>3. ~(wrapped /\ r.lower = UMaxValue(h))
        BY <1>1, <1>5, <3>6, <4>1 DEF UMaxValue
      <4>4. /\ p - beyond < n => t = p - beyond
            /\ n <= p - beyond /\ p - beyond < 2 * n => t = p - beyond - n
        BY <1>5, <1>8, <4>2
      <4> HIDE DEF up, t
      <4>5. CASE up < 2 * d
        <5>1. lo \in SIntPatterns(d) /\ up \in SIntPatterns(d) /\ lo # up
          BY <1>1, <4>2, <4>5 DEF SIntPatterns
        <5>2. Within(lo, up, t, d)
          BY <1>1, <4>2, <4>4, <4>5 DEF Within
        <5>3. Interval(lo, up, d) \in RangesOf(d) /\ Contains(Interval(lo, up, d), t)
          BY <1>1, <1>3, <5>1, <5>2, IntervalLegal, IntervalIsWithin
        <5>4. Truncate(r, d) = UnionWith(Interval(lo, up, d), wrappedPart, "Smallest")
          BY <2>2, <2>4, <4>3, <4>5
        <5> QED
          BY <1>1, <1>2, <1>3, <3>3, <5>3, <5>4, UnionContains DEF t
      <4>6. CASE ~(up < 2 * d) /\ up < 4 * d /\ up - 2 * d < lo
        <5>1. lo \in SIntPatterns(d) /\ up - 2 * d \in SIntPatterns(d) /\ lo # up - 2 * d
          BY <1>1, <4>2, <4>6 DEF SIntPatterns
        <5>2. Within(lo, up - 2 * d, t, d)
          BY <1>1, <4>2, <4>4, <4>6 DEF Within
        <5>3. Interval(lo, up - 2 * d, d) \in RangesOf(d) /\ Contains(Interval(lo, up - 2 * d, d), t)
          BY <1>1, <1>3, <5>1, <5>2, IntervalLegal, IntervalIsWithin
        <5>4. Truncate(r, d) = UnionWith(Interval(lo, up - 2 * d, d), wrappedPart, "Smallest")
          BY <2>2, <2>4, <4>3, <4>6
        <5> QED
          BY <1>1, <1>2, <1>3, <3>3, <5>3, <5>4, UnionContains DEF t
      <4>7. CASE ~(up < 2 * d) /\ ~(up < 4 * d /\ up - 2 * d < lo)
        <5>1. Truncate(r, d) = Full(d)
          BY <2>2, <2>4, <4>3, <4>7
        <5> QED
          BY <1>1, <1>2, <1>3, <5>1, ExtremesContain DEF t
      <4> QED
        BY <4>5, <4>6, <4>7
    <3> QED
      BY <3>5, <3>6
  <2> QED
    BY <2>3, <2>4
<1> QED
  BY <1>9, <1>10

\* A range whose values are those of the order from lo to hi.
Spans(r, lo, hi, unsigned, h) ==
    /\ r \in RangesOf(h)
    /\ \A w \in SIntPatterns(h) :
          Contains(r, w) <=> lo <= Order(unsigned, w, h) /\ Order(unsigned, w, h) <= hi

\* The pattern at a place of the order.
PatternAt(z, h) == IF z < 0 THEN z + 2 * h ELSE z

\* A pattern is at its place in the order.
LEMMA PatternAtPlace ==
  ASSUME NEW h \in Nat \ {0, 1}, NEW unsigned \in BOOLEAN, NEW z \in Int,
         LeastOf(unsigned, h) <= z, z <= GreatestOf(unsigned, h)
  PROVE  PatternAt(z, h) \in SIntPatterns(h) /\ Order(unsigned, PatternAt(z, h), h) = z
BY DEF PatternAt, LeastOf, GreatestOf, Order, SVal, IsNeg, SIntPatterns

\* The places of the order are numbers between its ends.
LEMMA OrderBetween ==
  ASSUME NEW h \in Nat \ {0, 1}, NEW unsigned \in BOOLEAN, NEW w \in SIntPatterns(h)
  PROVE  /\ Order(unsigned, w, h) \in Int
         /\ LeastOf(unsigned, h) <= Order(unsigned, w, h) /\ Order(unsigned, w, h) <= GreatestOf(unsigned, h)
         /\ LeastOf(unsigned, h) \in Int /\ GreatestOf(unsigned, h) \in Int
BY DEF LeastOf, GreatestOf, Order, SVal, IsNeg, SIntPatterns

\* Every stretch of the order is the set of a range.
LEMMA SpanExists ==
  ASSUME NEW h \in Nat \ {0, 1}, NEW unsigned \in BOOLEAN, NEW lo \in Int, NEW hi \in Int
  PROVE  \E q : Spans(q, lo, hi, unsigned, h)
<1> DEFINE least == LeastOf(unsigned, h)
           greatest == GreatestOf(unsigned, h)
           l == IF lo < least THEN least ELSE lo
           u == IF hi > greatest THEN greatest ELSE hi
           p == PatternAt(l, h)
           q == PatternAt(u, h)
<1>1. /\ least \in Int /\ greatest \in Int /\ l \in Int /\ u \in Int
      /\ \A w \in SIntPatterns(h) : /\ Order(unsigned, w, h) \in Int
                                    /\ least <= Order(unsigned, w, h) /\ Order(unsigned, w, h) <= greatest
  BY OrderBetween DEF LeastOf, GreatestOf
<1>n. \A z \in Int : least <= z /\ z <= greatest => (lo <= z /\ z <= hi <=> l <= z /\ z <= u)
  <2> HIDE DEF least, greatest
  <2> QED
    BY <1>1
<1>2. CASE u < l
  <2>1. \A w \in SIntPatterns(h) : ~(lo <= Order(unsigned, w, h) /\ Order(unsigned, w, h) <= hi)
    <3> SUFFICES ASSUME NEW w \in SIntPatterns(h), lo <= Order(unsigned, w, h), Order(unsigned, w, h) <= hi
                 PROVE  FALSE
      OBVIOUS
    <3> HIDE DEF least, greatest, l, u
    <3>1. Order(unsigned, w, h) \in Int /\ least <= Order(unsigned, w, h) /\ Order(unsigned, w, h) <= greatest
      BY <1>1
    <3>2. l <= Order(unsigned, w, h) /\ Order(unsigned, w, h) <= u
      BY <1>n, <3>1
    <3> QED
      BY <1>1, <1>2, <3>1, <3>2
  <2>2. Empty(h) \in RangesOf(h) /\ \A w \in SIntPatterns(h) : ~Contains(Empty(h), w)
    BY ExtremesLegal, ExtremesContain
  <2> QED
    BY <2>1, <2>2 DEF Spans
<1>3. CASE ~(u < l)
  <2>1. least <= l /\ l <= u /\ u <= greatest
    BY <1>1, <1>3
  <2>2. /\ p \in SIntPatterns(h) /\ Order(unsigned, p, h) = l
        /\ q \in SIntPatterns(h) /\ Order(unsigned, q, h) = u
    <3> HIDE DEF l, u
    <3>1. l <= greatest /\ least <= u
      BY <1>1, <2>1
    <3> QED
      BY <1>1, <2>1, <3>1, PatternAtPlace
  <2>3. \A w \in SIntPatterns(h) : lo <= Order(unsigned, w, h) /\ Order(unsigned, w, h) <= hi
                                   <=> l <= Order(unsigned, w, h) /\ Order(unsigned, w, h) <= u
    <3> HIDE DEF least, greatest, l, u
    <3> QED
      BY <1>1, <1>n
  <2> HIDE DEF p, q, l, u
  <2> DEFINE r == NonEmpty(p, Succ(q, h), h)
  <2>4. r \in RangesOf(h)
    BY <2>2, NonEmptyLegal
  <2>5. ASSUME NEW w \in SIntPatterns(h)
        PROVE  Contains(r, w) <=> l <= Order(unsigned, w, h) /\ Order(unsigned, w, h) <= u
    <3>1. l <= Order(unsigned, w, h) /\ Order(unsigned, w, h) <= u => Contains(r, w)
      BY <2>2, NonEmptyBetween
    <3>2. CASE p = Succ(q, h)
      <4>1. l = least /\ u = greatest
        BY <1>1, <2>1, <2>2, <3>2 DEF Succ, Plus, LeastOf, GreatestOf, Order, SVal, IsNeg, SIntPatterns
      <4> QED
        BY <1>1, <3>1, <4>1
    <3>3. CASE p # Succ(q, h)
      <4>1. Succ(q, h) \in SIntPatterns(h)
        BY <2>2, PatternFacts
      <4>2. Contains(r, w) <=> Within(p, Succ(q, h), w, h)
        BY <2>2, <3>3, <4>1, IntervalIsWithin DEF NonEmpty
      <4>3. Within(p, Succ(q, h), w, h) => l <= Order(unsigned, w, h) /\ Order(unsigned, w, h) <= u
        <5>1. CASE unsigned
          BY <1>1, <2>1, <2>2, <3>3, <5>1 DEF Within, Succ, Plus, Order, SIntPatterns
        <5>2. CASE ~unsigned
          BY <1>1, <2>1, <2>2, <3>3, <5>2 DEF Within, Succ, Plus, Order, SVal, IsNeg, SIntPatterns
        <5> QED
          BY <5>1, <5>2
      <4> QED
        BY <3>1, <4>2, <4>3
    <3> QED
      BY <3>2, <3>3
  <2> HIDE DEF r
  <2> QED
    BY <2>3, <2>4, <2>5 DEF Spans
<1> QED
  BY <1>2, <1>3

\* The meet of two stretches is the stretch they share.
LEMMA SpansMeet ==
  ASSUME NEW h \in Nat \ {0, 1}, NEW unsigned \in BOOLEAN, NEW type,
         NEW a, NEW lo \in Int, NEW hi \in Int, Spans(a, lo, hi, unsigned, h),
         NEW b, NEW k \in Int, NEW m \in Int, Spans(b, k, m, unsigned, h)
  PROVE  Spans(IntersectWith(a, b, type), ULarger(lo, k), USmaller(hi, m), unsigned, h)
<1> DEFINE l == ULarger(lo, k)
           u == USmaller(hi, m)
           r == IntersectWith(a, b, type)
<1>1. l \in Int /\ u \in Int
  BY DEF ULarger, USmaller
<1>2. PICK q : Spans(q, l, u, unsigned, h)
  <2> HIDE DEF l, u
  <2> QED
    BY <1>1, SpanExists
<1>3. \A w \in SIntPatterns(h) : w \in Common(a, b, h) <=> l <= Order(unsigned, w, h) /\ Order(unsigned, w, h) <= u
  <2>1. \A z \in Int : lo <= z /\ z <= hi /\ k <= z /\ z <= m <=> l <= z /\ z <= u
    BY DEF ULarger, USmaller
  <2>2. \A w \in SIntPatterns(h) : Order(unsigned, w, h) \in Int
    BY OrderBetween
  <2>3. \A w \in SIntPatterns(h) :
           w \in Common(a, b, h) <=> /\ lo <= Order(unsigned, w, h) /\ Order(unsigned, w, h) <= hi
                                     /\ k <= Order(unsigned, w, h) /\ Order(unsigned, w, h) <= m
    BY DEF Spans, Common
  <2> HIDE DEF l, u
  <2> QED
    BY <2>1, <2>2, <2>3
<1> HIDE DEF l, u
<1>4. q \in RangesOf(h) /\ Denotes(q, Common(a, b, h), h)
  BY <1>2, <1>3 DEF Spans, Denotes
<1>5. a \in RangesOf(h) /\ b \in RangesOf(h)
  BY DEF Spans
<1>6. r \in RangesOf(h) /\ Denotes(r, Common(a, b, h), h)
  BY <1>4, <1>5, IntersectionBest DEF Best
<1> QED
  BY <1>3, <1>6 DEF Spans, Denotes, l, u

\* The values that are not less, or not greater, than one.
LEMMA FromSpans ==
  ASSUME NEW h \in Nat \ {0, 1}, NEW unsigned \in BOOLEAN, NEW v \in SIntPatterns(h)
  PROVE  /\ Spans(From("GE", v, ~unsigned, h), Order(unsigned, v, h), GreatestOf(unsigned, h), unsigned, h)
         /\ Spans(From("LE", v, ~unsigned, h), LeastOf(unsigned, h), Order(unsigned, v, h), unsigned, h)
         /\ Spans(From("LT", v, ~unsigned, h), LeastOf(unsigned, h), Order(unsigned, v, h) - 1, unsigned, h)
<1>1. "GE" \in Relations /\ "LE" \in Relations /\ "LT" \in Relations
  BY DEF Relations
<1>2. \A rel \in {"GE", "LE", "LT"} :
        /\ From(rel, v, ~unsigned, h) \in RangesOf(h)
        /\ \A w \in SIntPatterns(h) :
              Contains(From(rel, v, ~unsigned, h), w) <=> Related(rel, Order(unsigned, w, h), Order(unsigned, v, h))
  BY <1>1, FromOrdered
<1>3. \A w \in SIntPatterns(h) :
        /\ Order(unsigned, w, h) \in Int
        /\ LeastOf(unsigned, h) <= Order(unsigned, w, h) /\ Order(unsigned, w, h) <= GreatestOf(unsigned, h)
        /\ LeastOf(unsigned, h) \in Int /\ GreatestOf(unsigned, h) \in Int
  BY OrderBetween
<1>4. \A x, y \in Int : /\ Related("GE", x, y) <=> y <= x
                        /\ Related("LE", x, y) <=> x <= y
                        /\ Related("LT", x, y) <=> x <= y - 1
  BY DEF Related
<1> QED
  BY <1>2, <1>3, <1>4 DEF Spans

\* A range that does not reach over the end of the order is a stretch of it.
LEMMA UnwrappedSpans ==
  ASSUME NEW h \in Nat \ {0, 1}, NEW unsigned \in BOOLEAN, NEW r \in RangesOf(h),
         IF unsigned THEN ~IsWrappedSet(r) ELSE ~IsSignWrappedSet(r)
  PROVE  \E lo, hi \in Int : Spans(r, lo, hi, unsigned, h)
<1>1. Ends(r, h) /\ r.half = h
  BY RangeEnds DEF Ends
<1>2. \A w \in SIntPatterns(h) : /\ Contains(r, w) <=> Within(r.lower, r.upper, w, h)
                                 /\ Order(unsigned, w, h) \in Int
                                 /\ LeastOf(unsigned, h) <= Order(unsigned, w, h)
                                 /\ Order(unsigned, w, h) <= GreatestOf(unsigned, h)
  BY ContainsIsWithin, OrderBetween
<1>3. CASE IsEmptySet(r)
  <2>1. \A w \in SIntPatterns(h) : ~Contains(r, w)
    BY <1>3, ExtremeTests
  <2>2. \A z \in Int : ~(1 <= z /\ z <= 0)
    OBVIOUS
  <2>3. Spans(r, 1, 0, unsigned, h)
    BY <1>2, <2>1, <2>2 DEF Spans
  <2> QED
    BY <2>3
<1>4. CASE IsFullSet(r)
  <2>1. \A w \in SIntPatterns(h) : Contains(r, w)
    BY <1>4, ExtremeTests
  <2>2. LeastOf(unsigned, h) \in Int /\ GreatestOf(unsigned, h) \in Int
    BY DEF LeastOf, GreatestOf
  <2> QED
    BY <1>2, <2>1, <2>2 DEF Spans
<1>5. CASE ~IsEmptySet(r) /\ ~IsFullSet(r)
  <2> DEFINE p == Pred(r.upper, h)
             lo == Order(unsigned, r.lower, h)
             hi == Order(unsigned, p, h)
  <2>1. r.lower # r.upper /\ r.lower \in SIntPatterns(h) /\ p \in SIntPatterns(h)
    BY <1>1, <1>5, NeitherFullNorEmpty DEF Ends, Pred, Minus, SIntPatterns
  <2>2. lo \in Int /\ hi \in Int
    BY <1>2, <2>1
  <2>3. ASSUME NEW w \in SIntPatterns(h)
        PROVE  Within(r.lower, r.upper, w, h) <=> lo <= Order(unsigned, w, h) /\ Order(unsigned, w, h) <= hi
    <3>1. CASE unsigned
      BY <1>1, <2>1, <3>1 DEF Ends, Within, Order, Pred, Minus, IsWrappedSet, SIntPatterns
    <3>2. CASE ~unsigned
      BY <1>1, <2>1, <3>2 DEF Ends, Within, Order, Pred, Minus, IsSignWrappedSet, Slt, SVal, IsNeg, SMinValue, SIntPatterns
    <3> QED
      BY <3>1, <3>2
  <2> HIDE DEF lo, hi
  <2>4. Spans(r, lo, hi, unsigned, h)
    BY <1>2, <2>3 DEF Spans
  <2> QED
    BY <2>2, <2>4
<1> QED
  BY <1>3, <1>4, <1>5

\* Both halves of the cut are stretches, and every value is in one of them.
LEMMA PartsCover ==
  ASSUME NEW h \in Nat \ {0, 1}, NEW r \in RangesOf(h), NEW unsigned \in BOOLEAN
  PROVE  LET parts == PartsOf(r, unsigned)
         IN  /\ DOMAIN parts \in {{1}, {1, 2}}
             /\ \A i \in DOMAIN parts : \E lo, hi \in Int : Spans(parts[i], lo, hi, unsigned, h)
             /\ \A p \in SIntPatterns(h) : Contains(r, p) => \E i \in DOMAIN parts : Contains(parts[i], p)
<1> DEFINE parts == PartsOf(r, unsigned)
           wrapped == IF unsigned THEN IsWrappedSet(r) ELSE IsSignWrappedSet(r)
           one == From("LT", r.upper, ~unsigned, h)
           two == From("GE", r.lower, ~unsigned, h)
<1>1. Ends(r, h) /\ r.half = h /\ r.lower \in SIntPatterns(h) /\ r.upper \in SIntPatterns(h)
  BY RangeEnds DEF Ends, SIntPatterns
<1>2. CASE wrapped
  <2>1. parts = <<one, two>>
    BY <1>1, <1>2 DEF PartsOf, SplitWrapping
  <2>2. /\ Spans(one, LeastOf(unsigned, h), Order(unsigned, r.upper, h) - 1, unsigned, h)
        /\ Spans(two, Order(unsigned, r.lower, h), GreatestOf(unsigned, h), unsigned, h)
    BY <1>1, FromSpans
  <2>3. /\ LeastOf(unsigned, h) \in Int /\ Order(unsigned, r.upper, h) - 1 \in Int
        /\ GreatestOf(unsigned, h) \in Int /\ Order(unsigned, r.lower, h) \in Int
    BY <1>1, OrderBetween
  <2>4. ASSUME NEW p \in SIntPatterns(h), Contains(r, p)
        PROVE  Contains(one, p) \/ Contains(two, p)
    <3>1. Within(r.lower, r.upper, p, h) /\ ~IsEmptySet(r)
      BY <2>4, ContainsIsWithin, EmptyContainsNothing
    <3>2. Order(unsigned, p, h) <= Order(unsigned, r.upper, h) - 1 \/ Order(unsigned, r.lower, h) <= Order(unsigned, p, h)
      <4>1. CASE unsigned
        BY <1>1, <1>2, <3>1, <4>1 DEF Ends, Within, Order, IsWrappedSet, SIntPatterns
      <4>2. CASE ~unsigned
        BY <1>1, <1>2, <3>1, <4>2 DEF Ends, Within, Order, IsSignWrappedSet, Slt, SVal, IsNeg, SMinValue, SIntPatterns
      <4> QED
        BY <4>1, <4>2
    <3>3. LeastOf(unsigned, h) <= Order(unsigned, p, h) /\ Order(unsigned, p, h) <= GreatestOf(unsigned, h)
      BY OrderBetween
    <3> HIDE DEF one, two
    <3> QED
      BY <2>2, <3>2, <3>3 DEF Spans
  <2> HIDE DEF one, two
  <2>5. DOMAIN parts = {1, 2} /\ parts[1] = one /\ parts[2] = two
    BY <2>1
  <2> HIDE DEF parts
  <2> QED
    BY <2>2, <2>3, <2>4, <2>5 DEF parts
<1>3. CASE ~wrapped
  <2>1. parts = <<r>>
    BY <1>3 DEF PartsOf
  <2>2. \E lo, hi \in Int : Spans(r, lo, hi, unsigned, h)
    BY <1>3, UnwrappedSpans
  <2>3. DOMAIN parts = {1} /\ parts[1] = r
    BY <2>1
  <2> HIDE DEF parts
  <2> QED
    BY <2>2, <2>3 DEF parts
<1> QED
  BY <1>2, <1>3

\* What one part contains, the union of the parts contains.
LEMMA UnionOfPartsContains ==
  ASSUME NEW d \in Nat \ {0, 1}, NEW parts, NEW type, DOMAIN parts \in {{1}, {1, 2}},
         \A i \in DOMAIN parts : parts[i] \in RangesOf(d),
         NEW i \in DOMAIN parts, NEW v \in SIntPatterns(d), Contains(parts[i], v)
  PROVE  Contains(UnionOfParts(parts, type), v)
<1>1. CASE DOMAIN parts = {1}
  BY <1>1 DEF UnionOfParts
<1>2. CASE DOMAIN parts = {1, 2}
  <2>1. {1, 2} # {1} /\ 1 \in DOMAIN parts /\ 2 \in DOMAIN parts /\ i \in {1, 2}
    BY <1>2
  <2>2. parts[1] \in RangesOf(d) /\ parts[2] \in RangesOf(d) /\ (Contains(parts[1], v) \/ Contains(parts[2], v))
    BY <2>1
  <2>3. UnionOfParts(parts, type) = UnionWith(parts[1], parts[2], type)
    BY <1>2, <2>1 DEF UnionOfParts
  <2> QED
    BY <2>2, <2>3, UnionContains
<1> QED
  BY <1>1, <1>2

\* A value of a that is none of b is left in the difference.
LEMMA DifferenceContains ==
  ASSUME NEW h \in Nat \ {0, 1}, NEW a \in RangesOf(h), NEW b \in RangesOf(h), NEW v \in SIntPatterns(h),
         Contains(a, v), ~Contains(b, v)
  PROVE  Difference(a, b) \in RangesOf(h) /\ Contains(Difference(a, b), v) /\ ~IsEmptySet(Difference(a, b))
<1>1. Inverse(b) \in RangesOf(h) /\ Contains(Inverse(b), v)
  BY InverseExact
<1>2. Difference(a, b) \in RangesOf(h) /\ Contains(Difference(a, b), v)
  BY <1>1, IntersectionCovers DEF Difference
<1> QED
  BY <1>2, EmptyContainsNothing

\* The single value is in its range.
LEMMA SingleHolds ==
  ASSUME NEW h \in Nat \ {0, 1}, NEW v \in SIntPatterns(h)
  PROVE  Single(v, h) \in RangesOf(h) /\ \A w \in SIntPatterns(h) : Contains(Single(v, h), w) <=> w = v
<1>1. Succ(v, h) \in SIntPatterns(h) /\ Succ(v, h) # v
  BY PatternFacts
<1>2. \A w \in SIntPatterns(h) : Within(v, Succ(v, h), w, h) <=> w = v
  BY DEF Within, Succ, Plus, SIntPatterns
<1> QED
  BY <1>1, <1>2, SingleLegal, IntervalIsWithin DEF Single

\* What was kept stays, and the end is added where values were lost.
LEMMA WithEndContains ==
  ASSUME NEW h \in Nat \ {0, 1}, NEW kept \in RangesOf(h), NEW end \in SIntPatterns(h), NEW lost \in BOOLEAN,
         NEW type, NEW v \in SIntPatterns(h), Contains(kept, v) \/ (lost /\ v = end)
  PROVE  WithEnd(kept, lost, Single(end, h), type) \in RangesOf(h)
         /\ Contains(WithEnd(kept, lost, Single(end, h), type), v)
<1>1. Single(end, h) \in RangesOf(h) /\ (v = end => Contains(Single(end, h), v))
  BY SingleHolds
<1>2. CASE lost
  <2>1. Contains(kept, v) \/ Contains(Single(end, h), v)
    BY <1>1
  <2> QED
    BY <1>1, <1>2, <2>1, UnionContains DEF WithEnd
<1>3. CASE ~lost
  BY <1>3 DEF WithEnd
<1> QED
  BY <1>2, <1>3

\* The lower end of a range that is not empty is in it.
LEMMA LowerInside ==
  ASSUME NEW h \in Nat \ {0, 1}, NEW r \in RangesOf(h)
  PROVE  r.lower \in SIntPatterns(h) /\ (Contains(r, r.lower) \/ (IsEmptySet(r) /\ r.lower = 0))
<1>1. Ends(r, h) /\ r.half = h /\ r.lower \in SIntPatterns(h)
  BY RangeEnds DEF Ends, SIntPatterns
<1>2. Contains(r, r.lower) <=> Within(r.lower, r.upper, r.lower, h)
  BY <1>1, ContainsIsWithin
<1>3. Within(r.lower, r.upper, r.lower, h) \/ (r.lower = r.upper /\ r.lower = 0)
  BY <1>1 DEF Ends, Within
<1> QED
  BY <1>1, <1>2, <1>3 DEF IsEmptySet

\* The lower end of a union is one of the two lower ends, unless it is full.
LEMMA UnionLower ==
  ASSUME NEW h \in Nat \ {0, 1}, NEW a \in RangesOf(h), NEW b \in RangesOf(h), NEW type
  PROVE  LET r == UnionWith(a, b, type)
         IN  r = Full(h) \/ r.lower = a.lower \/ r.lower = b.lower
<1>1. a.half = h /\ b.half = h
  BY HalfOfRange
<1>2. \A l, u : Interval(l, u, h).lower = l
  BY DEF Interval
<1>3. \A x, y : GetPreferredRange(x, y, type) = x \/ GetPreferredRange(x, y, type) = y
  BY PreferredIsOne
<1>4. USmaller(a.lower, b.lower) = a.lower \/ USmaller(a.lower, b.lower) = b.lower
  BY DEF USmaller
<1>5. UnionBothWrapped(a, b) = Full(h) \/ UnionBothWrapped(a, b).lower \in {a.lower, b.lower}
  BY <1>1, <1>2, <1>4 DEF UnionBothWrapped
<1>6. UnionBothUnwrapped(a, b, type) = Full(h) \/ UnionBothUnwrapped(a, b, type).lower \in {a.lower, b.lower}
  <2>1. UnionBothUnwrapped(a, b, type)
          \in {GetPreferredRange(Interval(a.lower, b.upper, h), Interval(b.lower, a.upper, h), type), Full(h)}
                \union {Interval(USmaller(a.lower, b.lower), u, h) : u \in {a.upper, b.upper}}
    BY <1>1 DEF UnionBothUnwrapped
  <2> QED
    BY <1>2, <1>3, <1>4, <2>1
<1>7. ASSUME NEW x \in {a, b}, NEW y \in {a, b}
      PROVE  LET r == UnionWrappedWithUnwrapped(x, y, type)
             IN  IsUpperWrapped(x) => r = Full(h) \/ r.lower \in {a.lower, b.lower}
  <2>1. /\ x.half = h /\ x.lower \in Nat /\ x.upper \in Nat /\ y.lower \in Nat /\ y.upper \in Nat
    BY <1>1, HalfOfRange DEF SIntPatterns
  <2>2. IsUpperWrapped(x) =>
        UnionWrappedWithUnwrapped(x, y, type)
          \in {GetPreferredRange(Interval(x.lower, y.upper, h), Interval(y.lower, x.upper, h), type),
               Full(h), x, Interval(x.lower, y.upper, h), Interval(y.lower, x.upper, h)}
    BY <2>1 DEF UnionWrappedWithUnwrapped, IsUpperWrapped
  <2> QED
    BY <1>2, <1>3, <2>2
<1> QED
  BY <1>5, <1>6, <1>7, UnionCases

\* Truncation of a range of values that fit keeps them.
LEMMA TruncWithUpperWrappedContains ==
  ASSUME NEW h, IsHalfModulus(h), NEW d, IsHalfModulus(d), d < h,
         NEW r \in RangesOf(h), NEW dstUnsigned \in BOOLEAN, NEW w \in SIntPatterns(h), Contains(r, w),
         w <= GreatestOf(dstUnsigned, d),
         r.upper = GreatestOf(dstUnsigned, d) + 1 => r.lower <= GreatestOf(dstUnsigned, d)
  PROVE  w \in SIntPatterns(d) /\ Contains(TruncWithUpperWrapped(r, dstUnsigned, d), w)
<1> DEFINE m == GreatestOf(dstUnsigned, d)
           lower == Trunc(r.lower, d)
           upper == Succ(Trunc(Pred(r.upper, h), d), d)
<1>1. h \in Nat \ {0, 1} /\ d \in Nat \ {0, 1} /\ 2 * d <= h /\ d <= h
  <2>1. h \in Nat \ {0, 1} /\ d \in Nat \ {0, 1} /\ 2 * d <= h
    BY HalvesDivide
  <2> QED
    BY <2>1
<1>2. Ends(r, h) /\ r.half = h /\ r.lower \in SIntPatterns(h) /\ Within(r.lower, r.upper, w, h)
  BY <1>1, RangeEnds, ContainsIsWithin DEF Ends, SIntPatterns
<1>3. m = (IF dstUnsigned THEN UMaxValue(d) ELSE SMaxValue(d)) /\ m \in Nat /\ m < 2 * d
      /\ (m = d - 1 \/ m = 2 * d - 1) /\ m \in SIntPatterns(h)
  BY <1>1 DEF GreatestOf, UMaxValue, SMaxValue, SIntPatterns
<1>4. w \in SIntPatterns(d) /\ Trunc(w, d) = w
  <2>1. w < 2 * d /\ w \in SIntPatterns(d)
    BY <1>1, <1>3 DEF SIntPatterns
  <2> QED
    BY <1>1, <2>1, TruncOfValue
<1>5. Succ(m, h) = m + 1
  BY <1>1, <1>3 DEF Succ, Plus
<1>6. CASE r.upper # m + 1
  <2>1. TruncWithUpperWrapped(r, dstUnsigned, d) = Truncate(r, d)
    BY <1>2, <1>3, <1>5, <1>6 DEF TruncWithUpperWrapped
  <2> QED
    BY <1>4, <2>1, TruncateContains
<1>7. CASE r.upper = m + 1
  <2>1. TruncWithUpperWrapped(r, dstUnsigned, d) = IF lower = upper THEN Full(d) ELSE Interval(lower, upper, d)
    BY <1>2, <1>3, <1>5, <1>7 DEF TruncWithUpperWrapped
  <2>2. r.lower <= m /\ r.lower <= w
    BY <1>1, <1>2, <1>3, <1>7 DEF Ends, Within, SIntPatterns
  <2>3. lower = r.lower /\ lower \in SIntPatterns(d)
    <3>1. r.lower < 2 * d
      BY <1>1, <1>2, <1>3, <2>2 DEF Ends
    <3> QED
      BY <1>1, <1>2, <3>1, TruncOfValue DEF SIntPatterns
  <2>4. Pred(r.upper, h) = m
    BY <1>1, <1>3, <1>7 DEF Pred, Minus
  <2>5. upper = Succ(m, d)
    <3>1. m < 2 * d /\ m \in SIntPatterns(h)
      BY <1>3
    <3>2. Trunc(m, d) = m
      BY <1>1, <3>1, TruncOfValue
    <3> QED
      BY <2>4, <3>2
  <2>6. upper \in SIntPatterns(d) /\ (upper = 0 \/ upper = m + 1)
    BY <1>1, <1>3, <2>5 DEF Succ, Plus, SIntPatterns
  <2>7. upper = 0 => m = 2 * d - 1
    BY <1>1, <1>3, <2>5 DEF Succ, Plus
  <2> HIDE DEF lower, upper
  <2>8. CASE lower = upper
    BY <1>1, <1>4, <2>1, <2>8, ExtremesContain
  <2>9. CASE lower # upper
    <3>1. Within(lower, upper, w, d)
      BY <1>1, <1>3, <1>4, <2>2, <2>3, <2>6, <2>7, <2>9 DEF Within, SIntPatterns
    <3> QED
      BY <1>1, <1>4, <2>1, <2>3, <2>6, <2>9, <3>1, IntervalIsWithin
  <2> QED
    BY <2>8, <2>9
<1> QED
  BY <1>4, <1>6, <1>7

\* A pattern that fits, or wraps, keeps its low bits; one that is saturated is
\* the end of the order that its value lies beyond.
LEMMA ConvertedPattern ==
  ASSUME NEW h, IsHalfModulus(h), NEW d, IsHalfModulus(d), d <= h,
         NEW unsigned \in BOOLEAN, NEW p \in SIntPatterns(h),
         NEW type, type.half = d, type.unsigned \in BOOLEAN, NEW ov \in Strategies,
         NEW v \in Resulting(Order(unsigned, p, h), type, ov)
  PROVE  LET z == Order(unsigned, p, h)
         IN  /\ z \in Int /\ v \in SIntPatterns(d)
             /\ Fits(z, type) <=> LeastOf(type.unsigned, d) <= z /\ z <= GreatestOf(type.unsigned, d)
             /\ Fits(z, type) \/ ov = "WRAPPING" => v = Trunc(p, d)
             /\ ~Fits(z, type) /\ ov # "WRAPPING" =>
                   /\ ov = "SATURATING"
                   /\ z < LeastOf(type.unsigned, d) => v = IF type.unsigned THEN 0 ELSE SMinValue(d)
                   /\ z > GreatestOf(type.unsigned, d) => v = IF type.unsigned THEN UMaxValue(d) ELSE SMaxValue(d)
<1> DEFINE z == Order(unsigned, p, h)
<1>1. h \in Nat \ {0, 1} /\ d \in Nat \ {0, 1}
  BY DEF IsHalfModulus
<1>2. z \in Int /\ (z = p \/ z = SVal(p, h)) /\ p \in Int
  BY <1>1, OrderBetween DEF Order, SIntPatterns
<1>3. z % (2 * d) = Trunc(p, d)
  <2>1. p % (2 * d) = Trunc(p, d) /\ SVal(p, h) % (2 * d) = p % (2 * d)
    BY TruncOfValue
  <2> HIDE DEF z
  <2> QED
    BY <1>2, <2>1
<1> HIDE DEF z
<1>4. /\ v \in SIntPatterns(d)
      /\ Fits(z, type) <=> LeastOf(type.unsigned, d) <= z /\ z <= GreatestOf(type.unsigned, d)
      /\ ~Fits(z, type) => ov # "THROWING"
      /\ v \in Resulting(z, type, ov)
  BY <1>1, <1>2, ResultingFact DEF z
<1>5. Fits(z, type) \/ ov = "WRAPPING" => v = Trunc(p, d)
  BY <1>3, <1>4 DEF Resulting
<1>6. ~Fits(z, type) /\ ov # "WRAPPING" =>
                   /\ ov = "SATURATING"
                   /\ z < LeastOf(type.unsigned, d) => v = IF type.unsigned THEN 0 ELSE SMinValue(d)
                   /\ z > GreatestOf(type.unsigned, d) => v = IF type.unsigned THEN UMaxValue(d) ELSE SMaxValue(d)
  <2> SUFFICES ASSUME ~Fits(z, type), ov # "WRAPPING"
               PROVE  /\ ov = "SATURATING"
                      /\ z < LeastOf(type.unsigned, d) => v = IF type.unsigned THEN 0 ELSE SMinValue(d)
                      /\ z > GreatestOf(type.unsigned, d) => v = IF type.unsigned THEN UMaxValue(d) ELSE SMaxValue(d)
    OBVIOUS
  <2>1. ov = "SATURATING"
    BY <1>4 DEF Strategies
  <2>2. v = IF z < 0 THEN IF type.unsigned THEN 0 ELSE SMinValue(d)
            ELSE IF type.unsigned THEN UMaxValue(d) ELSE SMaxValue(d)
    BY <1>4, <2>1 DEF Resulting
  <2>3. (z < LeastOf(type.unsigned, d) => z < 0) /\ (z > GreatestOf(type.unsigned, d) => ~(z < 0))
    BY <1>1, <1>2 DEF LeastOf, GreatestOf
  <2> QED
    BY <2>1, <2>2, <2>3
<1> QED
  BY <1>2, <1>4, <1>5, <1>6 DEF z

\* The values that fit both ways of a stretch, exactly.
LEMMA KeptBetween ==
  ASSUME NEW h \in Nat \ {0, 1}, NEW unsigned \in BOOLEAN, NEW r, NEW lo \in Int, NEW hi \in Int,
         Spans(r, lo, hi, unsigned, h), NEW least \in SIntPatterns(h), NEW greatest \in SIntPatterns(h),
         NEW type
  PROVE  /\ \E k, m \in Int : Spans(IntersectWith(AtLeast(least, unsigned, h), r, type), k, m, unsigned, h)
         /\ \E k, m \in Int : Spans(IntersectWith(r, AtLeast(least, unsigned, h), type), k, m, unsigned, h)
         /\ \E k, m \in Int : Spans(IntersectWith(AtMost(greatest, unsigned, h), r, type), k, m, unsigned, h)
         /\ \E k, m \in Int : Spans(IntersectWith(r, AtMost(greatest, unsigned, h), type), k, m, unsigned, h)
         /\ \A w \in SIntPatterns(h) :
               /\ Contains(IntersectWith(AtLeast(least, unsigned, h), r, type), w)
                    <=> Contains(r, w) /\ Order(unsigned, least, h) <= Order(unsigned, w, h)
               /\ Contains(IntersectWith(r, AtLeast(least, unsigned, h), type), w)
                    <=> Contains(r, w) /\ Order(unsigned, least, h) <= Order(unsigned, w, h)
               /\ Contains(IntersectWith(AtMost(greatest, unsigned, h), r, type), w)
                    <=> Contains(r, w) /\ Order(unsigned, w, h) <= Order(unsigned, greatest, h)
               /\ Contains(IntersectWith(r, AtMost(greatest, unsigned, h), type), w)
                    <=> Contains(r, w) /\ Order(unsigned, w, h) <= Order(unsigned, greatest, h)
<1> DEFINE L == Order(unsigned, least, h)
           G == Order(unsigned, greatest, h)
           top == GreatestOf(unsigned, h)
           bottom == LeastOf(unsigned, h)
           A == AtLeast(least, unsigned, h)
           B == AtMost(greatest, unsigned, h)
<1>1. /\ L \in Int /\ G \in Int /\ top \in Int /\ bottom \in Int
      /\ \A w \in SIntPatterns(h) : Order(unsigned, w, h) \in Int /\ bottom <= Order(unsigned, w, h) /\ Order(unsigned, w, h) <= top
  BY OrderBetween
<1>2. Spans(A, L, top, unsigned, h) /\ Spans(B, bottom, G, unsigned, h)
  BY FromSpans DEF AtLeast, AtMost
<1> HIDE DEF L, G, top, bottom, A, B
<1>3. /\ Spans(IntersectWith(A, r, type), ULarger(L, lo), USmaller(top, hi), unsigned, h)
      /\ Spans(IntersectWith(r, A, type), ULarger(lo, L), USmaller(hi, top), unsigned, h)
      /\ Spans(IntersectWith(B, r, type), ULarger(bottom, lo), USmaller(G, hi), unsigned, h)
      /\ Spans(IntersectWith(r, B, type), ULarger(lo, bottom), USmaller(hi, G), unsigned, h)
  BY <1>1, <1>2, SpansMeet
<1>4. \A x, y \in Int : /\ ULarger(x, y) \in Int /\ USmaller(x, y) \in Int
                        /\ \A z \in Int : /\ ULarger(x, y) <= z <=> x <= z /\ y <= z
                                          /\ z <= USmaller(x, y) <=> z <= x /\ z <= y
  BY DEF ULarger, USmaller
<1>5. \A w \in SIntPatterns(h) : Contains(r, w) <=> lo <= Order(unsigned, w, h) /\ Order(unsigned, w, h) <= hi
  BY DEF Spans
<1>6. ASSUME NEW w \in SIntPatterns(h)
      PROVE  /\ Contains(IntersectWith(A, r, type), w) <=> Contains(r, w) /\ L <= Order(unsigned, w, h)
             /\ Contains(IntersectWith(r, A, type), w) <=> Contains(r, w) /\ L <= Order(unsigned, w, h)
             /\ Contains(IntersectWith(B, r, type), w) <=> Contains(r, w) /\ Order(unsigned, w, h) <= G
             /\ Contains(IntersectWith(r, B, type), w) <=> Contains(r, w) /\ Order(unsigned, w, h) <= G
  <2> DEFINE z == Order(unsigned, w, h)
  <2>1. z \in Int /\ bottom <= z /\ z <= top /\ (Contains(r, w) <=> lo <= z /\ z <= hi)
    BY <1>1, <1>5
  <2>2. /\ Contains(IntersectWith(A, r, type), w) <=> ULarger(L, lo) <= z /\ z <= USmaller(top, hi)
        /\ Contains(IntersectWith(r, A, type), w) <=> ULarger(lo, L) <= z /\ z <= USmaller(hi, top)
        /\ Contains(IntersectWith(B, r, type), w) <=> ULarger(bottom, lo) <= z /\ z <= USmaller(G, hi)
        /\ Contains(IntersectWith(r, B, type), w) <=> ULarger(lo, bottom) <= z /\ z <= USmaller(hi, G)
    BY <1>3 DEF Spans
  <2> HIDE DEF z
  <2>3. /\ ULarger(L, lo) <= z <=> L <= z /\ lo <= z
        /\ ULarger(lo, L) <= z <=> L <= z /\ lo <= z
        /\ ULarger(bottom, lo) <= z <=> bottom <= z /\ lo <= z
        /\ ULarger(lo, bottom) <= z <=> bottom <= z /\ lo <= z
        /\ z <= USmaller(top, hi) <=> z <= top /\ z <= hi
        /\ z <= USmaller(hi, top) <=> z <= top /\ z <= hi
        /\ z <= USmaller(G, hi) <=> z <= G /\ z <= hi
        /\ z <= USmaller(hi, G) <=> z <= G /\ z <= hi
    BY <1>1, <1>4, <2>1
  <2> QED
    BY <2>1, <2>2, <2>3 DEF z
<1>7. /\ ULarger(L, lo) \in Int /\ USmaller(top, hi) \in Int /\ ULarger(lo, L) \in Int /\ USmaller(hi, top) \in Int
      /\ ULarger(bottom, lo) \in Int /\ USmaller(G, hi) \in Int /\ ULarger(lo, bottom) \in Int /\ USmaller(hi, G) \in Int
  BY <1>1, <1>4
<1>8. /\ \E k, m \in Int : Spans(IntersectWith(A, r, type), k, m, unsigned, h)
      /\ \E k, m \in Int : Spans(IntersectWith(r, A, type), k, m, unsigned, h)
      /\ \E k, m \in Int : Spans(IntersectWith(B, r, type), k, m, unsigned, h)
      /\ \E k, m \in Int : Spans(IntersectWith(r, B, type), k, m, unsigned, h)
  BY <1>3, <1>7
<1> QED
  BY <1>6, <1>8 DEF L, G, A, B

\* NCSameSignessInner: to a smaller width of the same signedness, a stretch.
LEMMA SameSignessInnerKeeps ==
  ASSUME NEW h, IsHalfModulus(h), NEW d, IsHalfModulus(d), d < h, NEW unsigned \in BOOLEAN,
         NEW r, \E lo, hi \in Int : Spans(r, lo, hi, unsigned, h),
         NEW p \in SIntPatterns(h), Contains(r, p),
         NEW type, type.half = d, type.unsigned = unsigned, NEW ov \in Strategies,
         NEW v \in Resulting(Order(unsigned, p, h), type, ov)
  PROVE  Contains(NCSameSignessInner(r, d, unsigned, ov), v)
<1> DEFINE z == Order(unsigned, p, h)
           prefer == PreferFromBool(unsigned)
           least == IF unsigned THEN 0 ELSE SMinValue(d)
           greatest == IF unsigned THEN UMaxValue(d) ELSE SMaxValue(d)
           first == IF unsigned THEN 0 ELSE SExt(least, d, h)
           higher == IntersectWith(AtLeast(first, unsigned, h), r, prefer)
           unchanged == IntersectWith(AtMost(greatest, unsigned, h), higher, prefer)
           kept == Truncate(unchanged, d)
           below == ~IsEmptySet(Difference(r, higher))
           above == ~IsEmptySet(Difference(higher, unchanged))
           withLeast == WithEnd(kept, below, Single(least, d), prefer)
           withGreatest == WithEnd(withLeast, above, Single(greatest, d), prefer)
           L == LeastOf(unsigned, d)
           G == GreatestOf(unsigned, d)
<1>1. h \in Nat \ {0, 1} /\ d \in Nat \ {0, 1} /\ 2 * d <= h /\ d <= h
  <2>1. h \in Nat \ {0, 1} /\ d \in Nat \ {0, 1} /\ 2 * d <= h
    BY HalvesDivide
  <2> QED
    BY <2>1
<1>2. PICK lo \in Int, hi \in Int : Spans(r, lo, hi, unsigned, h)
  OBVIOUS
<1>3. /\ first \in SIntPatterns(h) /\ Order(unsigned, first, h) = L
      /\ greatest \in SIntPatterns(h) /\ Order(unsigned, greatest, h) = G
      /\ least \in SIntPatterns(d) /\ greatest \in SIntPatterns(d)
  BY <1>1 DEF SExt, IsNeg, SMinValue, SMaxValue, UMaxValue, Order, SVal, LeastOf, GreatestOf, SIntPatterns
<1>4. /\ z \in Int /\ v \in SIntPatterns(d)
      /\ Fits(z, type) <=> L <= z /\ z <= G
      /\ Fits(z, type) \/ ov = "WRAPPING" => v = Trunc(p, d)
      /\ ~Fits(z, type) /\ ov # "WRAPPING" => /\ ov = "SATURATING"
                                              /\ z < L => v = least
                                              /\ z > G => v = greatest
  BY <1>1, ConvertedPattern
<1>5. L \in Int /\ G \in Int /\ L <= G
  BY <1>1 DEF LeastOf, GreatestOf
<1>6. r.half = h /\ r \in RangesOf(h) /\ ~IsEmptySet(r)
  BY <1>1, <1>2, HalfOfRange, EmptyContainsNothing DEF Spans
<1> HIDE DEF first, least, greatest, z, prefer
<1>7. /\ \E k, m \in Int : Spans(higher, k, m, unsigned, h)
      /\ \A w \in SIntPatterns(h) : Contains(higher, w) <=> Contains(r, w) /\ L <= Order(unsigned, w, h)
  BY <1>1, <1>2, <1>3, KeptBetween
<1> HIDE DEF higher, L, G
<1>8. /\ unchanged \in RangesOf(h)
      /\ \A w \in SIntPatterns(h) : Contains(unchanged, w) <=> Contains(higher, w) /\ Order(unsigned, w, h) <= G
  <2>1. PICK k \in Int, m \in Int : Spans(higher, k, m, unsigned, h)
    BY <1>7
  <2>2. /\ \E x, y \in Int : Spans(unchanged, x, y, unsigned, h)
        /\ \A w \in SIntPatterns(h) :
              Contains(unchanged, w) <=> Contains(higher, w) /\ Order(unsigned, w, h) <= Order(unsigned, greatest, h)
    BY <1>1, <1>3, <2>1, KeptBetween
  <2> QED
    BY <1>3, <2>2 DEF Spans
<1>9. higher \in RangesOf(h)
  BY <1>7 DEF Spans
<1> HIDE DEF unchanged
<1>10. Contains(unchanged, p) <=> Fits(z, type)
  BY <1>4, <1>7, <1>8 DEF z
<1>11. kept \in RangesOf(d) /\ (Contains(unchanged, p) => Contains(kept, Trunc(p, d)))
  BY <1>1, <1>8, TruncateContains, TruncateLegal
<1>12. NCSameSignessInner(r, d, unsigned, ov) =
          IF IsFullSet(r) THEN Full(d)
          ELSE IF r = unchanged \/ ov = "THROWING" THEN kept
          ELSE IF ov = "WRAPPING" THEN Full(d) ELSE withGreatest
  <2>1. ~IsFullSet(r) => r.lower # r.upper
    BY <1>1, <1>6, NeitherFullNorEmpty
  <2>2. NCSameSignessInner(r, d, unsigned, ov) =
          CASE IsFullSet(r) -> Full(d)
            [] IsEmptySet(r) -> Empty(d)
            [] r.lower # r.upper ->
                 IF r = unchanged \/ ov = "THROWING" THEN kept
                 ELSE IF ov = "WRAPPING" THEN Full(d) ELSE withGreatest
    BY <1>6, Zenon DEF NCSameSignessInner, first, least, greatest, prefer, higher, unchanged
  <2> HIDE DEF kept, withGreatest
  <2>3. CASE IsFullSet(r)
    <3>1. r.lower # r.upper => ~IsFullSet(r)
      BY DEF IsFullSet
    <3>2. ~IsEmptySet(r)
      BY <1>6
    <3> QED
      BY <2>2, <2>3, <3>1, <3>2
  <2>4. CASE ~IsFullSet(r)
    <3>1. r.lower # r.upper /\ ~IsEmptySet(r)
      BY <1>6, <2>1, <2>4
    <3> QED
      BY <2>2, <2>4, <3>1
  <2> QED
    BY <2>3, <2>4
<1> HIDE DEF kept
<1>13. CASE IsFullSet(r)
  BY <1>1, <1>4, <1>12, <1>13, ExtremesContain
<1>14. CASE ~IsFullSet(r) /\ (r = unchanged \/ ov = "THROWING")
  <2>1. Fits(z, type)
    BY <1>4, <1>10, <1>14 DEF Strategies
  <2> QED
    BY <1>4, <1>10, <1>11, <1>12, <1>14, <2>1
<1>15. CASE ~IsFullSet(r) /\ ~(r = unchanged \/ ov = "THROWING") /\ ov = "WRAPPING"
  BY <1>1, <1>4, <1>12, <1>15, ExtremesContain
<1>16. CASE ~IsFullSet(r) /\ ~(r = unchanged \/ ov = "THROWING") /\ ov # "WRAPPING"
  <2>1. Contains(kept, v) \/ (below /\ v = least) => Contains(withLeast, v)
    BY <1>1, <1>3, <1>4, <1>11, WithEndContains
  <2>2. withLeast \in RangesOf(d)
    BY <1>1, <1>3, <1>11, WithEndLegal
  <2>3. below \in BOOLEAN /\ above \in BOOLEAN
    OBVIOUS
  <2>4. z < L => below
    <3>1. z < L => ~Contains(higher, p)
      BY <1>4, <1>5, <1>7 DEF z
    <3> QED
      BY <1>1, <1>6, <1>9, <3>1, DifferenceContains
  <2>5. z > G => above
    <3>1. z > G => Contains(higher, p) /\ ~Contains(unchanged, p)
      BY <1>4, <1>5, <1>7, <1>8 DEF z
    <3> QED
      BY <1>1, <1>8, <1>9, <3>1, DifferenceContains
  <2> HIDE DEF withLeast, below, above
  <2>6. Contains(withLeast, v) \/ (above /\ v = greatest) => Contains(withGreatest, v)
    BY <1>1, <1>3, <1>4, <2>2, <2>3, WithEndContains
  <2>7. Contains(withGreatest, v)
    BY <1>4, <1>5, <1>10, <1>11, <1>16, <2>1, <2>4, <2>5, <2>6
  <2> QED
    BY <1>12, <1>16, <2>7
<1> QED
  BY <1>13, <1>14, <1>15, <1>16

\* A value of a smaller or equal width is the same number in the larger one.
LEMMA ExtendedPattern ==
  ASSUME NEW h \in Nat \ {0, 1}, NEW d \in Nat \ {0, 1}, 2 * h <= d,
         NEW unsigned \in BOOLEAN, NEW p \in SIntPatterns(h),
         NEW type, type.half = d, type.unsigned \in BOOLEAN, NEW ov \in Strategies,
         NEW v \in Resulting(Order(unsigned, p, h), type, ov)
  PROVE  LET z == Order(unsigned, p, h)
         IN  /\ z \in Int /\ v \in SIntPatterns(d)
             /\ unsigned => v = p
             /\ ~unsigned /\ (type.unsigned => p < h) => v = SExt(p, h, d)
             /\ ~unsigned /\ type.unsigned /\ p >= h =>
                   /\ ov # "THROWING"
                   /\ (ov = "SATURATING" => v = 0)
                   /\ (ov = "WRAPPING" => v = SExt(p, h, d))
<1> DEFINE z == Order(unsigned, p, h)
<1>1. z \in Int /\ LeastOf(unsigned, h) <= z /\ z <= GreatestOf(unsigned, h)
  BY OrderBetween
<1>2. z = IF unsigned THEN p ELSE IF p >= h THEN p - 2 * h ELSE p
  BY DEF Order, SVal, IsNeg
<1>3. p \in Nat /\ p < 2 * h
  BY DEF SIntPatterns
<1> HIDE DEF z
<1>4. /\ v \in SIntPatterns(d)
      /\ Fits(z, type) <=> LeastOf(type.unsigned, d) <= z /\ z <= GreatestOf(type.unsigned, d)
      /\ Fits(z, type) => Order(type.unsigned, v, d) = z
      /\ ~Fits(z, type) => ov # "THROWING"
      /\ ov = "SATURATING" => Order(type.unsigned, v, d) = ClampedTo(z, type.unsigned, d)
      /\ ov = "WRAPPING" => v = z % (2 * d)
  BY <1>1, ResultingFact DEF z
<1>5. v \in Nat /\ v < 2 * d
  BY <1>4 DEF SIntPatterns
<1>6. Order(type.unsigned, v, d) = IF type.unsigned THEN v ELSE IF v >= d THEN v - 2 * d ELSE v
  BY DEF Order, SVal, IsNeg
<1>7. SExt(p, h, d) = IF p >= h THEN p + 2 * d - 2 * h ELSE p
  BY DEF SExt, IsNeg
<1>8. unsigned => v = p
  BY <1>1, <1>2, <1>3, <1>4, <1>5, <1>6 DEF LeastOf, GreatestOf
<1>9. ~unsigned /\ (type.unsigned => p < h) => v = SExt(p, h, d)
  BY <1>1, <1>2, <1>3, <1>4, <1>5, <1>6, <1>7 DEF LeastOf, GreatestOf
<1>10. ASSUME ~unsigned, type.unsigned, p >= h
       PROVE  /\ ov # "THROWING" /\ (ov = "SATURATING" => v = 0)
              /\ (ov = "WRAPPING" => v = SExt(p, h, d))
  <2>1. z < 0 /\ z = p - 2 * h /\ z \in -(2 * d) .. -1
    BY <1>2, <1>3, <1>10
  <2>2. ~Fits(z, type)
    <3>1. LeastOf(type.unsigned, d) = 0
      BY <1>10 DEF LeastOf
    <3> QED
      BY <1>1, <1>4, <2>1, <3>1
  <2>3. ov = "SATURATING" => v = 0
    BY <1>4, <1>6, <1>10, <2>1 DEF ClampedTo, LeastOf
  <2> DEFINE n == 2 * d
  <2>4. n \in Nat \ {0} /\ z \in -n .. -1
    BY <2>1
  <2> HIDE DEF n
  <2>5. z % n = z + n
    BY <1>1, <2>4, ModuloFact
  <2>6. ov = "WRAPPING" => v = z + 2 * d
    BY <1>4, <2>5 DEF n
  <2> QED
    BY <1>3, <1>4, <1>7, <1>10, <2>1, <2>2, <2>3, <2>6
<1> QED
  BY <1>1, <1>4, <1>8, <1>9, <1>10 DEF z

\* A range over the end of its order is converted in two parts.
LEMMA SameSignessSound ==
  ASSUME NEW h, IsHalfModulus(h), NEW d, IsHalfModulus(d), NEW unsigned \in BOOLEAN,
         NEW r \in RangesOf(h), NEW p \in SIntPatterns(h), Contains(r, p),
         NEW type, type.half = d, type.unsigned = unsigned, NEW ov \in Strategies,
         NEW v \in Resulting(Order(unsigned, p, h), type, ov)
  PROVE  v \in SIntPatterns(d) /\ Contains(NumericConversionWithSameSigness(r, d, unsigned, ov), v)
<1>1. h \in Nat \ {0, 1} /\ d \in Nat \ {0, 1} /\ r.half = h
  BY HalfOfRange DEF IsHalfModulus
<1>2. CASE h = d
  <2>1. LeastOf(unsigned, h) <= Order(unsigned, p, h) /\ Order(unsigned, p, h) <= GreatestOf(unsigned, h)
    BY <1>1, OrderBetween
  <2>2. v = Trunc(p, d) /\ v \in SIntPatterns(d)
    BY <1>1, <1>2, <2>1, ConvertedPattern
  <2>3. p < 2 * d
    BY <1>1, <1>2 DEF SIntPatterns
  <2>4. v = p
    BY <1>1, <1>2, <2>2, <2>3, TruncOfValue
  <2> QED
    BY <1>1, <1>2, <2>2, <2>4 DEF NumericConversionWithSameSigness
<1>3. CASE h < d
  <2>1. 2 * h <= d
    BY <1>3, HalvesDivide
  <2>2. v \in SIntPatterns(d) /\ v = IF unsigned THEN p ELSE SExt(p, h, d)
    BY <1>1, <2>1, ExtendedPattern
  <2>3. Contains(IF unsigned THEN ZeroExtend(r, d) ELSE SignExtend(r, d), v)
    BY <1>1, <2>1, <2>2, ZeroExtendSound, SignExtendSound
  <2>4. h # d /\ ~(h > d)
    BY <1>1, <1>3
  <2> QED
    BY <1>1, <1>3, <2>2, <2>3, <2>4 DEF NumericConversionWithSameSigness
<1>4. CASE d < h
  <2> DEFINE parts == PartsOf(r, unsigned)
             converted == [i \in DOMAIN parts |-> NCSameSignessInner(parts[i], d, unsigned, ov)]
  <2>1. /\ DOMAIN parts \in {{1}, {1, 2}}
        /\ \A i \in DOMAIN parts : \E lo, hi \in Int : Spans(parts[i], lo, hi, unsigned, h)
        /\ \E i \in DOMAIN parts : Contains(parts[i], p)
    BY <1>1, PartsCover
  <2>2. PICK i \in DOMAIN parts : Contains(parts[i], p)
    BY <2>1
  <2>3. \A j \in DOMAIN parts : parts[j] \in RangesOf(h)
    BY <2>1 DEF Spans
  <2> HIDE DEF parts
  <2>4. \A j \in DOMAIN parts : converted[j] \in RangesOf(d)
    BY <1>1, <1>4, <2>3, SameSignessInnerLegal
  <2>5. v \in SIntPatterns(d)
    <3>1. d <= h
      BY <1>1, <1>4
    <3> QED
      BY <1>1, <3>1, ConvertedPattern
  <2>6. Contains(converted[i], v)
    BY <1>1, <1>4, <2>1, <2>2, SameSignessInnerKeeps
  <2>7. DOMAIN converted = DOMAIN parts
    OBVIOUS
  <2> HIDE DEF converted
  <2>8. Contains(UnionOfParts(converted, PreferFromBool(unsigned)), v)
    BY <1>1, <2>1, <2>4, <2>5, <2>6, <2>7, UnionOfPartsContains
  <2>9. h # d /\ ~(h < d) /\ h > d
    BY <1>1, <1>4
  <2>10. NumericConversionWithSameSigness(r, d, unsigned, ov) = UnionOfParts(converted, PreferFromBool(unsigned))
    BY <1>1, <2>9 DEF NumericConversionWithSameSigness, converted, parts
  <2> QED
    BY <2>5, <2>8, <2>10
<1> QED
  BY <1>1, <1>2, <1>3, <1>4

\* NCU2SInner: an unsigned stretch to a signed width that is not larger.
LEMMA UnsignedInnerKeeps ==
  ASSUME NEW h, IsHalfModulus(h), NEW d, IsHalfModulus(d), d <= h,
         NEW r, \E lo, hi \in Int : Spans(r, lo, hi, TRUE, h),
         NEW p \in SIntPatterns(h), Contains(r, p),
         NEW type, type.half = d, type.unsigned = FALSE, NEW ov \in Strategies,
         NEW v \in Resulting(Order(TRUE, p, h), type, ov)
  PROVE  NCU2SInner(r, d, ov) \in RangesOf(d) /\ Contains(NCU2SInner(r, d, ov), v)
<1> DEFINE unchanged == IntersectWith(AtMost(SMaxValue(d), TRUE, r.half), r, "Unsigned")
           saturated == UnionWith(unchanged, Single(SMaxValue(d), r.half), "Signed")
           narrow(s) == IF r.half > d THEN TruncWithUpperWrapped(s, FALSE, d) ELSE s
           inner == NCU2SInner(r, d, ov)
<1>1. h \in Nat \ {0, 1} /\ d \in Nat \ {0, 1} /\ (d < h => 2 * d <= h) /\ (d < h \/ d = h)
  <2>1. d < h => 2 * d <= h
    BY HalvesDivide
  <2>2. h \in Nat \ {0, 1} /\ d \in Nat \ {0, 1}
    BY DEF IsHalfModulus
  <2> QED
    BY <2>1, <2>2
<1>2. PICK lo \in Int, hi \in Int : Spans(r, lo, hi, TRUE, h)
  OBVIOUS
<1>3. r.half = h /\ r \in RangesOf(h) /\ ~IsEmptySet(r)
  BY <1>1, <1>2, HalfOfRange, EmptyContainsNothing DEF Spans
<1>4. /\ SMaxValue(d) \in SIntPatterns(h) /\ SMaxValue(d) = d - 1
      /\ \A w : Order(TRUE, w, h) = w
  BY <1>1 DEF SMaxValue, SIntPatterns, Order
<1>5. /\ p \in Nat /\ p < 2 * h /\ v \in SIntPatterns(d)
      /\ p <= d - 1 \/ ov = "WRAPPING" => v = Trunc(p, d)
      /\ p > d - 1 /\ ov # "WRAPPING" => ov = "SATURATING" /\ v = d - 1
  <2>1. LeastOf(FALSE, d) = -d /\ GreatestOf(FALSE, d) = d - 1 /\ SMaxValue(d) = d - 1
    BY DEF LeastOf, GreatestOf, SMaxValue
  <2>2. p \in Nat /\ p < 2 * h
    BY <1>1 DEF SIntPatterns
  <2>3. /\ v \in SIntPatterns(d)
        /\ Fits(p, type) <=> -d <= p /\ p <= d - 1
        /\ Fits(p, type) \/ ov = "WRAPPING" => v = Trunc(p, d)
        /\ ~Fits(p, type) /\ ov # "WRAPPING" => ov = "SATURATING" /\ (p > d - 1 => v = d - 1)
    <3> DEFINE z == Order(TRUE, p, h)
    <3>1. z = p
      BY <1>4
    <3>2. /\ v \in SIntPatterns(d)
          /\ Fits(z, type) <=> LeastOf(type.unsigned, d) <= z /\ z <= GreatestOf(type.unsigned, d)
          /\ Fits(z, type) \/ ov = "WRAPPING" => v = Trunc(p, d)
          /\ ~Fits(z, type) /\ ov # "WRAPPING" =>
                /\ ov = "SATURATING"
                /\ z > GreatestOf(type.unsigned, d) => v = IF type.unsigned THEN UMaxValue(d) ELSE SMaxValue(d)
      <4>1. ASSUME NEW unsigned \in BOOLEAN, v \in Resulting(Order(unsigned, p, h), type, ov)
            PROVE  LET x == Order(unsigned, p, h)
                   IN  /\ v \in SIntPatterns(d)
                       /\ Fits(x, type) <=> LeastOf(type.unsigned, d) <= x /\ x <= GreatestOf(type.unsigned, d)
                       /\ Fits(x, type) \/ ov = "WRAPPING" => v = Trunc(p, d)
                       /\ ~Fits(x, type) /\ ov # "WRAPPING" =>
                             /\ ov = "SATURATING"
                             /\ x > GreatestOf(type.unsigned, d) =>
                                   v = IF type.unsigned THEN UMaxValue(d) ELSE SMaxValue(d)
        <5>1. type.unsigned \in BOOLEAN
          OBVIOUS
        <5> QED
          BY <1>1, <4>1, <5>1, ConvertedPattern
      <4> QED
        BY <4>1
    <3> HIDE DEF z
    <3> QED
      BY <1>1, <2>1, <2>2, <3>1, <3>2
  <2> QED
    BY <1>1, <2>2, <2>3
<1>6. /\ \E k, m \in Int : Spans(unchanged, k, m, TRUE, h)
      /\ \A w \in SIntPatterns(h) : Contains(unchanged, w) <=> Contains(r, w) /\ w <= d - 1
  <2>1. /\ \E k, m \in Int : Spans(IntersectWith(AtMost(SMaxValue(d), TRUE, h), r, "Unsigned"), k, m, TRUE, h)
        /\ \A w \in SIntPatterns(h) :
              Contains(IntersectWith(AtMost(SMaxValue(d), TRUE, h), r, "Unsigned"), w)
                <=> Contains(r, w) /\ Order(TRUE, w, h) <= Order(TRUE, SMaxValue(d), h)
    BY <1>1, <1>2, <1>4, KeptBetween
  <2> QED
    BY <1>3, <1>4, <2>1
<1>7. inner = IF unchanged = r \/ ov = "THROWING" THEN narrow(unchanged)
              ELSE IF ov = "SATURATING" THEN narrow(saturated)
              ELSE IF r.half = d THEN r ELSE Full(d)
  BY <1>3 DEF NCU2SInner
<1> HIDE DEF unchanged, inner
<1>8. unchanged \in RangesOf(h) /\ unchanged.lower \in SIntPatterns(h) /\ unchanged.lower <= d - 1
  <2>1. unchanged \in RangesOf(h)
    BY <1>6 DEF Spans
  <2>2. unchanged.lower \in SIntPatterns(h) /\ (Contains(unchanged, unchanged.lower) \/ unchanged.lower = 0)
    BY <1>1, <2>1, LowerInside
  <2> QED
    BY <1>1, <1>6, <2>1, <2>2
<1>9. /\ saturated \in RangesOf(h)
      /\ \A w \in SIntPatterns(h) : Contains(unchanged, w) \/ w = d - 1 => Contains(saturated, w)
      /\ saturated.upper = d /\ d < h => saturated.lower <= d - 1
  <2>1. /\ Single(d - 1, h) \in RangesOf(h) /\ Single(d - 1, h).lower = d - 1
        /\ \A w \in SIntPatterns(h) : Contains(Single(d - 1, h), w) <=> w = d - 1
    <3>1. Single(d - 1, h).lower = d - 1
      BY DEF Single, Interval
    <3> QED
      BY <1>1, <1>4, <3>1, SingleHolds
  <2>2. saturated = UnionWith(unchanged, Single(d - 1, h), "Signed")
    BY <1>3, <1>4
  <2> HIDE DEF saturated
  <2>3. saturated \in RangesOf(h)
    BY <1>1, <1>8, <2>1, <2>2, SetsLegal
  <2>4. \A w \in SIntPatterns(h) : Contains(unchanged, w) \/ w = d - 1 => Contains(saturated, w)
    BY <1>1, <1>8, <2>1, <2>2, UnionContains
  <2>5. saturated = Full(h) \/ saturated.lower = unchanged.lower \/ saturated.lower = d - 1
    BY <1>1, <1>8, <2>1, <2>2, UnionLower
  <2>6. Full(h).upper = 2 * h - 1
    BY DEF Full, Interval, UMaxValue
  <2> QED
    BY <1>1, <1>8, <2>3, <2>4, <2>5, <2>6
<1> HIDE DEF saturated
<1>10. ASSUME NEW s \in RangesOf(h), NEW w \in SIntPatterns(h), Contains(s, w), w <= d - 1,
              s.upper = d /\ d < h => s.lower <= d - 1
       PROVE  Contains(narrow(s), w)
  <2>1. CASE d < h
    <3>1. GreatestOf(FALSE, d) = d - 1 /\ d - 1 + 1 = d
      BY <1>1 DEF GreatestOf
    <3>2. s.upper = GreatestOf(FALSE, d) + 1 => s.lower <= GreatestOf(FALSE, d)
      BY <1>10, <2>1, <3>1
    <3>3. Contains(TruncWithUpperWrapped(s, FALSE, d), w)
      BY <1>10, <2>1, <3>1, <3>2, TruncWithUpperWrappedContains
    <3> QED
      BY <1>3, <2>1, <3>3
  <2>2. CASE d = h
    <3>1. ~(r.half > d)
      BY <1>1, <1>3, <2>2
    <3>2. narrow(s) = s
      BY <3>1
    <3> QED
      BY <1>10, <3>2
  <2> QED
    BY <1>1, <2>1, <2>2
<1>11. ASSUME NEW s \in RangesOf(h)
       PROVE  narrow(s) \in RangesOf(d)
  BY <1>1, <1>3, <1>11, TruncWithUpperWrappedLegal
<1>12. /\ narrow(unchanged) \in RangesOf(d) /\ narrow(saturated) \in RangesOf(d)
       /\ \A w \in SIntPatterns(h) : Contains(unchanged, w) => Contains(narrow(unchanged), w)
       /\ \A w \in SIntPatterns(h) : w <= d - 1 /\ Contains(saturated, w) => Contains(narrow(saturated), w)
  BY <1>6, <1>8, <1>9, <1>10, <1>11
<1> HIDE DEF narrow
<1>13. p <= d - 1 => v = p
  <2>1. p <= d - 1 => p < 2 * d
    BY <1>1, <1>5
  <2> QED
    BY <1>5, <2>1, TruncOfValue
<1>14. d - 1 \in SIntPatterns(h)
  BY <1>4
<1>15. CASE unchanged = r \/ ov = "THROWING"
  <2>1. Contains(unchanged, p)
    <3>1. ov = "THROWING" => p <= d - 1
      BY <1>1, <1>5
    <3>2. ov = "THROWING" => Contains(unchanged, p)
      BY <1>6, <3>1
    <3> QED
      BY <1>15, <3>2
  <2> QED
    BY <1>6, <1>7, <1>12, <1>13, <1>15, <2>1 DEF inner
<1>16. CASE ~(unchanged = r \/ ov = "THROWING") /\ ov = "SATURATING"
  <2>1. v \in SIntPatterns(h) /\ v <= d - 1 /\ Contains(saturated, v)
    BY <1>1, <1>5, <1>6, <1>9, <1>13, <1>14, <1>16
  <2> QED
    BY <1>7, <1>12, <1>16, <2>1 DEF inner
<1>17. CASE ~(unchanged = r \/ ov = "THROWING") /\ ov # "SATURATING"
  <2>1. ov = "WRAPPING" /\ v = Trunc(p, d)
    BY <1>5, <1>17 DEF Strategies
  <2>2. d = h => v = p
    BY <1>1, <1>5, <2>1, TruncOfValue
  <2> QED
    BY <1>1, <1>3, <1>5, <1>7, <1>17, <2>1, <2>2, ExtremesContain, ExtremesLegal DEF inner
<1> QED
  BY <1>15, <1>16, <1>17

\* An unsigned source and a signed target: the conversion keeps every value.
LEMMA UnsignedToSignedSound ==
  ASSUME NEW h, IsHalfModulus(h), NEW d, IsHalfModulus(d),
         NEW r \in RangesOf(h), NEW p \in SIntPatterns(h), Contains(r, p),
         NEW type, type.half = d, type.unsigned = FALSE, NEW ov \in Strategies,
         NEW unsigned \in BOOLEAN, unsigned, NEW v \in Resulting(Order(unsigned, p, h), type, ov)
  PROVE  v \in SIntPatterns(d) /\ Contains(NumericConversionU2S(r, d, ov), v)
<1>1. h \in Nat \ {0, 1} /\ d \in Nat \ {0, 1} /\ r.half = h /\ type.unsigned \in BOOLEAN
  BY HalfOfRange DEF IsHalfModulus
<1>2. CASE h < d
  <2>1. 2 * h <= d
    BY <1>2, HalvesDivide
  <2>2. v \in SIntPatterns(d) /\ v = p
    <3>1. ASSUME NEW u \in BOOLEAN, v \in Resulting(Order(u, p, h), type, ov)
          PROVE  v \in SIntPatterns(d) /\ (u => v = p)
      BY <1>1, <2>1, <3>1, ExtendedPattern
    <3> QED
      BY <3>1
  <2>3. Contains(ZeroExtend(r, d), v)
    BY <1>1, <2>1, <2>2, ZeroExtendSound
  <2>4. d > h
    BY <1>1, <1>2
  <2> QED
    BY <1>1, <2>2, <2>3, <2>4 DEF NumericConversionU2S
<1>3. CASE d <= h
  <2> DEFINE parts == PartsOf(r, unsigned)
             converted == [i \in DOMAIN parts |-> NCU2SInner(parts[i], d, ov)]
  <2>1. /\ DOMAIN parts \in {{1}, {1, 2}}
        /\ \A i \in DOMAIN parts : \E lo, hi \in Int : Spans(parts[i], lo, hi, unsigned, h)
        /\ \E i \in DOMAIN parts : Contains(parts[i], p)
    BY <1>1, PartsCover
  <2>2. PICK i \in DOMAIN parts : Contains(parts[i], p)
    BY <2>1
  <2>3. v \in SIntPatterns(d)
    BY <1>1, <1>3, ConvertedPattern
  <2>4. unsigned = TRUE
    OBVIOUS
  <2>5. v \in Resulting(Order(TRUE, p, h), type, ov)
    BY <2>4
  <2>6. \A j \in DOMAIN parts : \E lo, hi \in Int : Spans(parts[j], lo, hi, TRUE, h)
    BY <2>1, <2>4
  <2>7. Contains(converted[i], v)
    BY <1>3, <2>2, <2>5, <2>6, UnsignedInnerKeeps
  <2>8. \A j \in DOMAIN parts : converted[j] \in RangesOf(d)
    <3>1. SUFFICES ASSUME NEW j \in DOMAIN parts PROVE NCU2SInner(parts[j], d, ov) \in RangesOf(d)
      OBVIOUS
    <3>2. parts[j] \in RangesOf(h)
      BY <2>6 DEF Spans
    <3> DEFINE q == parts[j]
               unchanged == IntersectWith(AtMost(SMaxValue(d), TRUE, q.half), q, "Unsigned")
               saturated == UnionWith(unchanged, Single(SMaxValue(d), q.half), "Signed")
               narrow(s) == IF q.half > d THEN TruncWithUpperWrapped(s, FALSE, d) ELSE s
    <3>3. q.half = h /\ q \in RangesOf(h)
      BY <1>1, <3>2, HalfOfRange
    <3>4. SMaxValue(d) \in SIntPatterns(h)
      BY <1>1, <1>3 DEF SMaxValue, SIntPatterns
    <3>5. AtMost(SMaxValue(d), TRUE, h) \in RangesOf(h)
      BY <1>1, <3>4, FromLegal DEF AtMost, Relations
    <3>6. unchanged \in RangesOf(h)
      BY <1>1, <3>3, <3>5, SetsLegal
    <3>7. saturated \in RangesOf(h)
      BY <1>1, <3>3, <3>4, <3>6, SingleLegal, SetsLegal
    <3>8. ASSUME NEW s \in RangesOf(h) PROVE narrow(s) \in RangesOf(d)
      <4>1. d < h => TruncWithUpperWrapped(s, FALSE, d) \in RangesOf(d)
        BY <1>1, TruncWithUpperWrappedLegal
      <4>2. ~(d < h) => h = d
        BY <1>1, <1>3
      <4> QED
        BY <1>1, <3>3, <4>1, <4>2
    <3>9. narrow(unchanged) \in RangesOf(d) /\ narrow(saturated) \in RangesOf(d)
      BY <3>6, <3>7, <3>8
    <3>10. Empty(d) \in RangesOf(d) /\ Full(d) \in RangesOf(d) /\ (h = d => q \in RangesOf(d))
      BY <1>1, <3>3, ExtremesLegal
    <3>11. NCU2SInner(q, d, ov) = IF IsEmptySet(q) THEN Empty(d)
               ELSE IF unchanged = q \/ ov = "THROWING" THEN narrow(unchanged)
               ELSE IF ov = "SATURATING" THEN narrow(saturated)
               ELSE IF q.half = d THEN q ELSE Full(d)
      BY DEF NCU2SInner
    <3> HIDE DEF q, unchanged, saturated, narrow
    <3>12. NCU2SInner(q, d, ov) \in RangesOf(d)
      BY <3>3, <3>9, <3>10, <3>11
    <3> QED
      BY <3>12 DEF q
  <2>9. DOMAIN converted = DOMAIN parts
    OBVIOUS
  <2>10. ~(d > r.half)
    BY <1>1, <1>3
  <2>11. NumericConversionU2S(r, d, ov) = UnionOfParts(converted, "Signed")
    BY <2>4, <2>10 DEF NumericConversionU2S
  <2> HIDE DEF parts, converted
  <2>12. Contains(UnionOfParts(converted, "Signed"), v)
    BY <1>1, <2>1, <2>2, <2>3, <2>7, <2>8, <2>9, UnionOfPartsContains
  <2> QED
    BY <2>3, <2>11, <2>12
<1> QED
  BY <1>1, <1>2, <1>3

\* A union with one value that is small starts low, unless it is full.
LEMMA WithEndLow ==
  ASSUME NEW h \in Nat \ {0, 1}, NEW kept \in RangesOf(h), NEW end \in SIntPatterns(h), NEW lost \in BOOLEAN,
         NEW type, NEW greatest \in Nat, end <= greatest,
         kept = Full(h) \/ kept.lower <= greatest
  PROVE  LET r == WithEnd(kept, lost, Single(end, h), type) IN r = Full(h) \/ r.lower <= greatest
<1> DEFINE single == Single(end, h)
           r == UnionWith(kept, single, type)
<1>1. single \in RangesOf(h) /\ single.lower = end
  <2>1. single.lower = end
    BY DEF Single, Interval
  <2> QED
    BY <2>1, SingleLegal
<1>2. IsFullSet(Full(h))
  BY DEF IsFullSet, Full, Interval
<1> HIDE DEF single
<1>3. r = Full(h) \/ r.lower = kept.lower \/ r.lower = end
  BY <1>1, UnionLower
<1>4. IsFullSet(kept) => r = kept
  BY UnionCases
<1> HIDE DEF r
<1>5. r = Full(h) \/ r.lower <= greatest
  BY <1>2, <1>3, <1>4
<1>6. WithEnd(kept, lost, Single(end, h), type) = IF lost THEN r ELSE kept
  BY DEF WithEnd, r, single
<1> QED
  BY <1>5, <1>6

\* NCS2UInnerTrunc: a signed stretch to a smaller unsigned width.
LEMMA SignedTruncKeeps ==
  ASSUME NEW h, IsHalfModulus(h), NEW d, IsHalfModulus(d), d < h,
         NEW r, NEW signed, signed = FALSE, \E lo, hi \in Int : Spans(r, lo, hi, signed, h),
         NEW p \in SIntPatterns(h), Contains(r, p),
         NEW type, type.half = d, type.unsigned = TRUE, NEW ov \in Strategies,
         NEW v \in Resulting(Order(signed, p, h), type, ov)
  PROVE  Contains(NCS2UInnerTrunc(r, d, ov), v)
<1> DEFINE z == Order(signed, p, h)
           greatest == UMaxValue(d)
           nonNeg == NonNegative(r)
           unchanged == IntersectWith(nonNeg, AtMost(greatest, FALSE, r.half), "Smallest")
           below == ~IsEmptySet(Difference(r, nonNeg))
           above == unchanged # nonNeg
           withZero == WithEnd(unchanged, below, Single(0, r.half), "Unsigned")
           withGreatest == WithEnd(withZero, above, Single(greatest, r.half), "Unsigned")
           exact == unchanged = r \/ ov = "THROWING"
<1>1. h \in Nat \ {0, 1} /\ d \in Nat \ {0, 1} /\ 2 * d <= h /\ d <= h /\ signed \in BOOLEAN
  <2>1. h \in Nat \ {0, 1} /\ d \in Nat \ {0, 1} /\ 2 * d <= h
    BY HalvesDivide
  <2>2. d <= h
    BY <2>1
  <2>3. signed \in BOOLEAN
    OBVIOUS
  <2> QED
    BY <2>1, <2>2, <2>3
<1>2. PICK lo \in Int, hi \in Int : Spans(r, lo, hi, signed, h)
  OBVIOUS
<1>3. r.half = h /\ r \in RangesOf(h) /\ ~IsEmptySet(r)
  BY <1>1, <1>2, HalfOfRange, EmptyContainsNothing DEF Spans
<1>4. /\ 0 \in SIntPatterns(h) /\ greatest \in SIntPatterns(h) /\ greatest = 2 * d - 1
      /\ Order(signed, 0, h) = 0 /\ Order(signed, greatest, h) = 2 * d - 1
      /\ \A w \in SIntPatterns(h) : /\ Order(signed, w, h) \in Int
                                    /\ 0 <= Order(signed, w, h) /\ Order(signed, w, h) <= 2 * d - 1 <=> w <= 2 * d - 1
  <2>1. \A w \in SIntPatterns(h) : Order(signed, w, h) = IF w >= h THEN w - 2 * h ELSE w
    BY DEF Order, SVal, IsNeg
  <2>2. 0 \in SIntPatterns(h) /\ greatest \in SIntPatterns(h) /\ greatest = 2 * d - 1
    BY <1>1 DEF SIntPatterns, UMaxValue
  <2>3. ASSUME NEW w \in SIntPatterns(h)
        PROVE  /\ Order(signed, w, h) \in Int
               /\ 0 <= Order(signed, w, h) /\ Order(signed, w, h) <= 2 * d - 1 <=> w <= 2 * d - 1
    <3>1. Order(signed, w, h) = (IF w >= h THEN w - 2 * h ELSE w) /\ w \in Nat /\ w < 2 * h
      BY <1>1, <2>1 DEF SIntPatterns
    <3> QED
      BY <1>1, <3>1
  <2>4. Order(signed, 0, h) = 0 /\ Order(signed, greatest, h) = 2 * d - 1
    BY <1>1, <2>1, <2>2
  <2> QED
    BY <2>2, <2>3, <2>4
<1> HIDE DEF greatest
<1>5. /\ p \in Nat /\ p < 2 * h /\ v \in SIntPatterns(d) /\ z \in Int
      /\ (0 <= z /\ z <= 2 * d - 1) \/ ov = "WRAPPING" => v = Trunc(p, d)
      /\ ov = "THROWING" => 0 <= z /\ z <= 2 * d - 1
      /\ z < 0 /\ ov # "WRAPPING" => v = 0
      /\ z > 2 * d - 1 /\ ov # "WRAPPING" => v = 2 * d - 1
  <2>1. LeastOf(type.unsigned, d) = 0 /\ GreatestOf(type.unsigned, d) = 2 * d - 1 /\ UMaxValue(d) = 2 * d - 1
    BY DEF LeastOf, GreatestOf, UMaxValue
  <2>2. p \in Nat /\ p < 2 * h
    BY <1>1 DEF SIntPatterns
  <2>3. /\ v \in SIntPatterns(d) /\ z \in Int
        /\ Fits(z, type) <=> LeastOf(type.unsigned, d) <= z /\ z <= GreatestOf(type.unsigned, d)
        /\ Fits(z, type) \/ ov = "WRAPPING" => v = Trunc(p, d)
        /\ ~Fits(z, type) /\ ov # "WRAPPING" =>
              /\ ov = "SATURATING"
              /\ z < LeastOf(type.unsigned, d) => v = IF type.unsigned THEN 0 ELSE SMinValue(d)
              /\ z > GreatestOf(type.unsigned, d) => v = IF type.unsigned THEN UMaxValue(d) ELSE SMaxValue(d)
    <3>1. ASSUME NEW u \in BOOLEAN, v \in Resulting(Order(u, p, h), type, ov)
          PROVE  LET x == Order(u, p, h)
                 IN  /\ v \in SIntPatterns(d) /\ x \in Int
                     /\ Fits(x, type) <=> LeastOf(type.unsigned, d) <= x /\ x <= GreatestOf(type.unsigned, d)
                     /\ Fits(x, type) \/ ov = "WRAPPING" => v = Trunc(p, d)
                     /\ ~Fits(x, type) /\ ov # "WRAPPING" =>
                           /\ ov = "SATURATING"
                           /\ x < LeastOf(type.unsigned, d) => v = IF type.unsigned THEN 0 ELSE SMinValue(d)
                           /\ x > GreatestOf(type.unsigned, d) =>
                                 v = IF type.unsigned THEN UMaxValue(d) ELSE SMaxValue(d)
      <4>1. type.unsigned \in BOOLEAN
        OBVIOUS
      <4> QED
        BY <1>1, <3>1, <4>1, ConvertedPattern
    <3> QED
      BY <1>1, <3>1
  <2> HIDE DEF z
  <2> QED
    BY <1>1, <2>1, <2>2, <2>3
<1>6. /\ \E k, m \in Int : Spans(nonNeg, k, m, signed, h)
      /\ \A w \in SIntPatterns(h) : Contains(nonNeg, w) <=> Contains(r, w) /\ 0 <= Order(signed, w, h)
  <2>1. /\ \E k, m \in Int : Spans(IntersectWith(r, AtLeast(0, signed, h), "Signed"), k, m, signed, h)
        /\ \A w \in SIntPatterns(h) :
              Contains(IntersectWith(r, AtLeast(0, signed, h), "Signed"), w)
                <=> Contains(r, w) /\ Order(signed, 0, h) <= Order(signed, w, h)
    BY <1>1, <1>2, <1>4, KeptBetween
  <2>2. nonNeg = IntersectWith(r, AtLeast(0, signed, h), "Signed")
    BY <1>3 DEF NonNegative
  <2> QED
    BY <1>4, <2>1, <2>2
<1> HIDE DEF nonNeg
<1>7. /\ unchanged \in RangesOf(h)
      /\ \A w \in SIntPatterns(h) : Contains(unchanged, w) <=> Contains(nonNeg, w) /\ Order(signed, w, h) <= 2 * d - 1
  <2>1. PICK k \in Int, m \in Int : Spans(nonNeg, k, m, signed, h)
    BY <1>6
  <2>2. /\ \E x, y \in Int : Spans(IntersectWith(nonNeg, AtMost(greatest, signed, h), "Smallest"), x, y, signed, h)
        /\ \A w \in SIntPatterns(h) :
              Contains(IntersectWith(nonNeg, AtMost(greatest, signed, h), "Smallest"), w)
                <=> Contains(nonNeg, w) /\ Order(signed, w, h) <= Order(signed, greatest, h)
    BY <1>1, <1>4, <2>1, KeptBetween
  <2>3. unchanged = IntersectWith(nonNeg, AtMost(greatest, signed, h), "Smallest")
    BY <1>3
  <2> HIDE DEF unchanged
  <2>4. unchanged \in RangesOf(h)
    BY <2>2, <2>3 DEF Spans
  <2> QED
    BY <1>4, <2>2, <2>3, <2>4
<1>8. nonNeg \in RangesOf(h) /\ below \in BOOLEAN /\ above \in BOOLEAN
  BY <1>6 DEF Spans
<1>9. NCS2UInnerTrunc(r, d, ov) =
         IF ~exact /\ ov = "WRAPPING" THEN Full(d)
         ELSE TruncWithUpperWrapped(IF exact THEN unchanged ELSE withGreatest, TRUE, d)
  BY <1>3, Zenon DEF NCS2UInnerTrunc, nonNeg, greatest
<1> HIDE DEF unchanged
<1>10. \A w \in SIntPatterns(h) : Contains(unchanged, w) <=> Contains(r, w) /\ w <= 2 * d - 1
  BY <1>4, <1>6, <1>7
<1>11. unchanged.lower \in SIntPatterns(h) /\ unchanged.lower <= 2 * d - 1
  <2>1. unchanged.lower \in SIntPatterns(h) /\ (Contains(unchanged, unchanged.lower) \/ unchanged.lower = 0)
    BY <1>1, <1>7, LowerInside
  <2> QED
    BY <1>1, <1>10, <2>1
<1>12. z < 0 => below
  <2>1. z < 0 => ~Contains(nonNeg, p)
    BY <1>5, <1>6 DEF z
  <2> QED
    BY <1>1, <1>3, <1>8, <2>1, DifferenceContains
<1>13. z > 2 * d - 1 => above
  <2>1. z > 2 * d - 1 => Contains(nonNeg, p) /\ ~Contains(unchanged, p)
    BY <1>1, <1>5, <1>6, <1>7 DEF z
  <2> QED
    BY <2>1
<1>14. /\ withZero = WithEnd(unchanged, below, Single(0, h), "Unsigned")
       /\ withGreatest = WithEnd(withZero, above, Single(greatest, h), "Unsigned")
  BY <1>3
<1> HIDE DEF below, above, withZero, withGreatest
<1>15. /\ withZero \in RangesOf(h) /\ withGreatest \in RangesOf(h)
       /\ withZero = Full(h) \/ withZero.lower <= 2 * d - 1
       /\ withGreatest = Full(h) \/ withGreatest.lower <= 2 * d - 1
  <2> DEFINE g == 2 * d - 1
  <2>1. g \in Nat /\ 0 <= g /\ greatest <= g
    BY <1>1, <1>4
  <2> HIDE DEF g
  <2>2. withZero \in RangesOf(h) /\ withGreatest \in RangesOf(h)
    BY <1>1, <1>4, <1>7, <1>14, WithEndLegal
  <2>3. unchanged.lower <= g
    BY <1>11 DEF g
  <2>4. withZero = Full(h) \/ withZero.lower <= g
    BY <1>1, <1>4, <1>7, <1>8, <1>14, <2>1, <2>3, WithEndLow
  <2>5. withGreatest = Full(h) \/ withGreatest.lower <= g
    BY <1>1, <1>4, <1>8, <1>14, <2>1, <2>2, <2>4, WithEndLow
  <2> QED
    BY <2>2, <2>4, <2>5 DEF g
<1>16. ASSUME NEW w \in SIntPatterns(h)
       PROVE  Contains(unchanged, w) \/ (below /\ w = 0) \/ (above /\ w = greatest) => Contains(withGreatest, w)
  <2>1. Contains(unchanged, w) \/ (below /\ w = 0) => Contains(withZero, w)
    BY <1>1, <1>4, <1>7, <1>8, <1>14, WithEndContains
  <2>2. Contains(withZero, w) \/ (above /\ w = greatest) => Contains(withGreatest, w)
    BY <1>1, <1>4, <1>8, <1>14, <1>15, WithEndContains
  <2> QED
    BY <2>1, <2>2
<1>17. ASSUME NEW s \in RangesOf(h), NEW w \in SIntPatterns(h), Contains(s, w), w <= 2 * d - 1,
              s = Full(h) \/ s.lower <= 2 * d - 1
       PROVE  Contains(TruncWithUpperWrapped(s, TRUE, d), w)
  <2>1. \A u \in BOOLEAN : u => GreatestOf(u, d) = 2 * d - 1
    BY DEF GreatestOf
  <2>2. Full(h).upper = 2 * h - 1 /\ 2 * h - 1 # 2 * d - 1 + 1
    <3>1. Full(h).upper = 2 * h - 1
      BY DEF Full, Interval, UMaxValue
    <3> QED
      BY <1>1, <3>1
  <2>3. ASSUME NEW u \in BOOLEAN, u PROVE Contains(TruncWithUpperWrapped(s, u, d), w)
    <3>1. GreatestOf(u, d) = 2 * d - 1
      BY <2>1, <2>3
    <3>2. w <= GreatestOf(u, d) /\ (s.upper = GreatestOf(u, d) + 1 => s.lower <= GreatestOf(u, d))
      BY <1>17, <2>2, <3>1
    <3> QED
      BY <1>17, <3>2, TruncWithUpperWrappedContains
  <2> QED
    BY <2>3
<1>18. z >= 0 /\ z <= 2 * d - 1 => Contains(unchanged, p) /\ v = p /\ p <= 2 * d - 1
  <2>1. z >= 0 /\ z <= 2 * d - 1 => p <= 2 * d - 1 /\ p < 2 * d
    <3>1. z >= 0 /\ z <= 2 * d - 1 => p <= 2 * d - 1
      BY <1>1, <1>4, <1>5 DEF z
    <3> QED
      BY <1>1, <1>5, <3>1
  <2>2. z >= 0 /\ z <= 2 * d - 1 => v = Trunc(p, d)
    BY <1>5
  <2> QED
    BY <1>1, <1>10, <2>1, <2>2, TruncOfValue
<1> HIDE DEF z
<1>19. unchanged = Full(h) \/ unchanged.lower <= 2 * d - 1
  BY <1>11
<1>20. CASE exact
  <2>1. Contains(unchanged, p)
    <3>1. ov = "THROWING" => Contains(unchanged, p)
      BY <1>5, <1>18
    <3> QED
      BY <1>20, <3>1
  <2>2. p <= 2 * d - 1 /\ p < 2 * d
    <3>1. p <= 2 * d - 1
      BY <1>10, <2>1
    <3> QED
      BY <1>1, <1>5, <3>1
  <2>3. v = p
    <3>1. 0 <= z /\ z <= 2 * d - 1
      BY <1>4, <2>2 DEF z
    <3> QED
      BY <1>18, <3>1, <1>5
  <2>4. Contains(TruncWithUpperWrapped(unchanged, TRUE, d), v)
    BY <1>7, <1>17, <1>19, <2>1, <2>2, <2>3
  <2> QED
    BY <1>9, <1>20, <2>4
<1>21. CASE ~exact /\ ov = "WRAPPING"
  BY <1>1, <1>5, <1>9, <1>21, ExtremesContain
<1>22. CASE ~exact /\ ov # "WRAPPING"
  <2>1. v \in SIntPatterns(h) /\ v <= 2 * d - 1
    <3>1. v \in Nat /\ v < 2 * d
      BY <1>1, <1>5 DEF SIntPatterns
    <3> QED
      BY <1>1, <3>1 DEF SIntPatterns
  <2>2. \/ Contains(unchanged, v)
        \/ below /\ v = 0
        \/ above /\ v = greatest
    <3>1. (0 <= z /\ z <= 2 * d - 1) \/ z < 0 \/ z > 2 * d - 1
      BY <1>1, <1>5
    <3> QED
      BY <1>4, <1>5, <1>12, <1>13, <1>18, <1>22, <3>1
  <2>3. Contains(withGreatest, v)
    BY <1>16, <2>1, <2>2
  <2>4. Contains(TruncWithUpperWrapped(withGreatest, TRUE, d), v)
    BY <1>15, <1>17, <2>1, <2>3
  <2> QED
    BY <1>9, <1>22, <2>4
<1> QED
  BY <1>20, <1>21, <1>22

\* NonNegative: no value that is negative, whatever the range wraps over.
LEMMA NonNegativeExact ==
  ASSUME NEW h \in Nat \ {0, 1}, NEW r \in RangesOf(h), NEW w \in SIntPatterns(h)
  PROVE  /\ NonNegative(r) \in RangesOf(h)
         /\ Contains(NonNegative(r), w) => w < h
         /\ Contains(r, w) /\ w < h => Contains(NonNegative(r), w)
<1> DEFINE p == NonNegative(r)
<1>1. r.half = h /\ 0 \in SIntPatterns(h) /\ h \in SIntPatterns(h) /\ w \in Nat /\ w < 2 * h
  BY HalfOfRange DEF SIntPatterns
<1>2. AtLeast(0, FALSE, h) \in RangesOf(h) /\ (Contains(AtLeast(0, FALSE, h), w) <=> w < h)
  <2>1. \A u \in BOOLEAN : ~u => /\ From("GE", 0, ~u, h) \in RangesOf(h)
                                 /\ Contains(From("GE", 0, ~u, h), w) <=> Order(u, w, h) >= Order(u, 0, h)
    BY <1>1, FromOrdered DEF Related, Relations
  <2>2. \A u \in BOOLEAN : ~u => (Order(u, w, h) >= Order(u, 0, h) <=> w < h)
    BY <1>1 DEF Order, SVal, IsNeg
  <2>3. \A u \in BOOLEAN : ~u => AtLeast(0, u, h) = From("GE", 0, ~u, h)
    BY DEF AtLeast
  <2>4. \A u \in BOOLEAN : ~u => AtLeast(0, u, h) \in RangesOf(h) /\ (Contains(AtLeast(0, u, h), w) <=> w < h)
    BY <2>1, <2>2, <2>3
  <2> QED
    BY <2>4
<1>3. p = IntersectWith(r, AtLeast(0, FALSE, h), "Signed")
  BY <1>1 DEF NonNegative
<1>4. p \in RangesOf(h) /\ (Contains(r, w) /\ w < h => Contains(p, w))
  BY <1>2, <1>3, SetsLegal, IntersectionCovers
<1> HIDE DEF p
<1>5. ASSUME Contains(p, w), h <= w PROVE FALSE
  <2>1. Within(p.lower, p.upper, w, h)
    BY <1>4, <1>5, ContainsIsWithin
  <2>2. Ends(p, h) /\ Ends(r, h)
    BY <1>4, RangeEnds
  <2>3. CASE p = r /\ (IsEmptySet(r) \/ (r.lower < r.upper /\ r.upper <= h))
    BY <1>1, <1>5, <2>1, <2>2, <2>3 DEF Ends, Within, IsEmptySet
  <2>4. CASE p = Interval(0, h, h) \/ p = Empty(h)
    BY <1>1, <1>5, <2>1, <2>4 DEF Within, Interval, Empty
  <2>5. CASE p = Interval(r.lower, h, h) /\ r.lower < h
    BY <1>1, <1>5, <2>1, <2>2, <2>5 DEF Ends, Within, Interval
  <2>6. CASE p = Interval(0, r.upper, h) /\ 0 < r.upper /\ r.upper <= h
    BY <1>1, <1>5, <2>1, <2>2, <2>6 DEF Ends, Within, Interval
  <2> QED
    BY <2>3, <2>4, <2>5, <2>6, NonNegativeCases DEF p
<1> QED
  BY <1>1, <1>4, <1>5 DEF p

\* NCS2UInnerExtend: a signed range to an unsigned width that is not smaller.
LEMMA SignedExtendKeeps ==
  ASSUME NEW h, IsHalfModulus(h), NEW d, IsHalfModulus(d), h <= d,
         NEW r \in RangesOf(h), NEW p \in SIntPatterns(h), Contains(r, p),
         NEW ov \in Strategies, NEW v \in SIntPatterns(d),
         p < h => v = p,
         p >= h => /\ ov # "THROWING"
                   /\ (ov = "SATURATING" => v = 0)
                   /\ (ov = "WRAPPING" => v = SExt(p, h, d))
  PROVE  Contains(NCS2UInnerExtend(r, d, ov), v)
<1> DEFINE nonNeg == NonNegative(r)
           neg == Difference(r, nonNeg)
           extend(s) == IF r.half = d THEN s ELSE ZeroExtend(s, d)
           saturated == WithEnd(nonNeg, ~IsEmptySet(neg), Single(0, r.half), "Smallest")
           lo == SExt(SMinOf(neg), h, d)
           up == SExt(SMaxOf(neg), h, d)
           overflown == Interval(SExt(SMinOf(neg), r.half, d), Succ(SExt(SMaxOf(neg), r.half, d), d), d)
<1>1. h \in Nat \ {0, 1} /\ d \in Nat \ {0, 1} /\ (h < d => 2 * h <= d) /\ (h < d \/ h = d)
  <2>1. h < d => 2 * h <= d
    BY HalvesDivide
  <2>2. h \in Nat \ {0, 1} /\ d \in Nat \ {0, 1}
    BY DEF IsHalfModulus
  <2> QED
    BY <2>1, <2>2
<1>2. r.half = h /\ ~IsEmptySet(r)
  BY <1>1, HalfOfRange, EmptyContainsNothing
<1>3. p \in Nat /\ p < 2 * h /\ 0 \in SIntPatterns(h)
  BY <1>1 DEF SIntPatterns
<1>4. /\ nonNeg \in RangesOf(h)
      /\ Contains(nonNeg, p) <=> p < h
  <2>1. p \in SIntPatterns(h)
    OBVIOUS
  <2> QED
    BY <1>1, <1>3, <2>1, NonNegativeExact
<1>5. NCS2UInnerExtend(r, d, ov) =
         IF nonNeg = r \/ ov = "THROWING" THEN extend(nonNeg)
         ELSE IF ov = "SATURATING" THEN extend(saturated)
         ELSE UnionWith(overflown, extend(nonNeg), "Unsigned")
  BY <1>2 DEF NCS2UInnerExtend
<1> HIDE DEF nonNeg
<1>6. ASSUME NEW s \in RangesOf(h), NEW w \in SIntPatterns(h)
      PROVE  extend(s) \in RangesOf(d) /\ (Contains(s, w) => Contains(extend(s), w))
  <2>1. CASE h < d
    <3>1. ZeroExtend(s, d) \in RangesOf(d) /\ (Contains(s, w) => Contains(ZeroExtend(s, d), w))
      BY <1>1, <1>6, <2>1, ZeroExtendSound
    <3>2. r.half # d
      BY <1>1, <1>2, <2>1
    <3> QED
      BY <3>1, <3>2
  <2>2. CASE h = d
    <3>1. extend(s) = s
      BY <1>2, <2>2
    <3> HIDE DEF extend
    <3> QED
      BY <1>6, <2>2, <3>1
  <2> QED
    BY <1>1, <2>1, <2>2
<1>7. extend(nonNeg) \in RangesOf(d) /\ (p < h => Contains(extend(nonNeg), v))
  <2> HIDE DEF extend
  <2>1. extend(nonNeg) \in RangesOf(d) /\ (Contains(nonNeg, p) => Contains(extend(nonNeg), p))
    BY <1>4, <1>6
  <2> QED
    BY <1>4, <2>1
<1>8. p >= h => neg \in RangesOf(h) /\ Contains(neg, p) /\ ~IsEmptySet(neg)
  <2>1. p >= h => ~Contains(nonNeg, p)
    BY <1>1, <1>3, <1>4
  <2> QED
    BY <1>1, <1>4, <2>1, DifferenceContains
<1>9. CASE nonNeg = r \/ ov = "THROWING"
  <2>1. p < h
    <3>1. nonNeg = r => p < h
      BY <1>4
    <3>2. ov = "THROWING" => p < h
      BY <1>1, <1>3
    <3> QED
      BY <1>9, <3>1, <3>2
  <2> HIDE DEF extend
  <2> QED
    BY <1>5, <1>7, <1>9, <2>1
<1>10. CASE ~(nonNeg = r \/ ov = "THROWING") /\ ov = "SATURATING"
  <2> DEFINE w == IF p < h THEN p ELSE 0
  <2>1. v = w /\ w \in SIntPatterns(h)
    BY <1>1, <1>3, <1>10
  <2>2. Contains(nonNeg, w) \/ (~IsEmptySet(neg) /\ w = 0)
    BY <1>1, <1>3, <1>4, <1>8
  <2> DEFINE lost == ~IsEmptySet(neg)
  <2>3. lost \in BOOLEAN /\ saturated = WithEnd(nonNeg, lost, Single(0, h), "Smallest")
    BY <1>2
  <2>4. Contains(nonNeg, w) \/ (lost /\ w = 0)
    BY <2>2
  <2> HIDE DEF w, lost, saturated, extend
  <2>5. saturated \in RangesOf(h) /\ Contains(saturated, w)
    BY <1>1, <1>3, <1>4, <2>1, <2>3, <2>4, WithEndContains
  <2>6. Contains(extend(saturated), v)
    BY <1>6, <2>1, <2>5
  <2> QED
    BY <1>5, <1>10, <2>6
<1>11. CASE ~(nonNeg = r \/ ov = "THROWING") /\ ov = "WRAPPING"
  <2>1. /\ neg \in RangesOf(h) /\ h <= neg.lower /\ neg.lower <= Pred(neg.upper, h)
        /\ Pred(neg.upper, h) \in SIntPatterns(h)
    BY <1>1, <1>2, <1>11, NegativesLeft DEF nonNeg
  <2>2. overflown = Interval(lo, Succ(up, d), d)
    BY <1>2
  <2> HIDE DEF neg
  <2>3. Ends(neg, h)
    BY <1>1, <2>1, RangeEnds
  <2>4. ~IsFullSet(neg) => SMinOf(neg) = neg.lower /\ SMaxOf(neg) = Pred(neg.upper, h)
    BY <1>1, <2>1, <2>3 DEF Ends, SMinOf, SMaxOf, IsUpperSignWrapped, IsSignWrappedSet, Slt, SVal, IsNeg, Pred, Minus
  <2>5. ~IsFullSet(neg)
    BY <1>1, <2>1, <2>3 DEF Ends, IsFullSet, UMaxValue, Pred, Minus
  <2> DEFINE a == neg.lower
             b == Pred(neg.upper, h)
  <2>6. a \in Nat /\ b \in Nat /\ h <= a /\ a <= b /\ b < 2 * h
    BY <1>1, <2>1, <2>3 DEF Ends, SIntPatterns
  <2>7. lo = a + 2 * d - 2 * h /\ up = b + 2 * d - 2 * h
    BY <1>1, <2>4, <2>5, <2>6 DEF SExt, IsNeg
  <2> HIDE DEF a, b, lo, up
  <2>8. /\ lo \in SIntPatterns(d) /\ up \in SIntPatterns(d) /\ lo <= up /\ 0 < lo
    BY <1>1, <2>6, <2>7 DEF SIntPatterns
  <2>9. /\ Succ(up, d) \in SIntPatterns(d) /\ lo # Succ(up, d)
        /\ \A w \in SIntPatterns(d) : lo <= w /\ w <= up => Within(lo, Succ(up, d), w, d)
    BY <1>1, <2>8 DEF SIntPatterns, Succ, Plus, Within
  <2>10. overflown \in RangesOf(d) /\ (\A w \in SIntPatterns(d) : lo <= w /\ w <= up => Contains(overflown, w))
    BY <1>1, <2>2, <2>8, <2>9, IntervalLegal, IntervalIsWithin
  <2>11. p >= h => Contains(overflown, v)
    <3>1. p >= h => a <= p /\ p <= b
      <4>1. p >= h => Within(neg.lower, neg.upper, p, h)
        BY <1>1, <1>8, <2>1, ContainsIsWithin
      <4> QED
        BY <1>1, <1>3, <2>1, <2>3, <4>1 DEF Within, a, b, Pred, Minus, Ends
    <3>2. p >= h => v = p + 2 * d - 2 * h
      BY <1>1, <1>3, <1>11 DEF SExt, IsNeg
    <3>3. p >= h => lo <= v /\ v <= up
      BY <1>1, <1>3, <2>6, <2>7, <3>1, <3>2
    <3> QED
      BY <2>10, <3>3
  <2> HIDE DEF overflown, extend
  <2>12. Contains(overflown, v) \/ Contains(extend(nonNeg), v)
    BY <1>1, <1>3, <1>7, <2>11
  <2>13. Contains(UnionWith(overflown, extend(nonNeg), "Unsigned"), v)
    BY <1>1, <1>7, <2>10, <2>12, UnionContains
  <2> QED
    BY <1>5, <1>11, <2>13
<1> QED
  BY <1>9, <1>10, <1>11 DEF Strategies

\* A signed source and an unsigned target: the conversion keeps every value.
LEMMA SignedToUnsignedSound ==
  ASSUME NEW h, IsHalfModulus(h), NEW d, IsHalfModulus(d),
         NEW r \in RangesOf(h), NEW p \in SIntPatterns(h), Contains(r, p),
         NEW type, type.half = d, type.unsigned = TRUE, NEW ov \in Strategies,
         NEW signed \in BOOLEAN, ~signed, NEW v \in Resulting(Order(signed, p, h), type, ov)
  PROVE  v \in SIntPatterns(d) /\ Contains(NumericConversionS2U(r, d, ov), v)
<1>1. h \in Nat \ {0, 1} /\ d \in Nat \ {0, 1} /\ r.half = h /\ type.unsigned \in BOOLEAN
  BY HalfOfRange DEF IsHalfModulus
<1>2. CASE h <= d
  <2>1. /\ v \in SIntPatterns(d) /\ (p < h => v = p)
        /\ p >= h => /\ ov # "THROWING"
                     /\ (ov = "SATURATING" => v = 0)
                     /\ (ov = "WRAPPING" => v = SExt(p, h, d))
    <3>1. p \in Nat /\ p < 2 * h /\ SExt(p, h, d) = IF p >= h THEN p + 2 * d - 2 * h ELSE p
      BY <1>1 DEF SExt, IsNeg, SIntPatterns
    <3>2. CASE h < d
      <4>1. 2 * h <= d
        BY <3>2, HalvesDivide
      <4>2. ASSUME NEW u \in BOOLEAN, v \in Resulting(Order(u, p, h), type, ov)
            PROVE  /\ v \in SIntPatterns(d)
                   /\ ~u /\ (type.unsigned => p < h) => v = SExt(p, h, d)
                   /\ ~u /\ type.unsigned /\ p >= h =>
                         /\ ov # "THROWING"
                         /\ (ov = "SATURATING" => v = 0)
                         /\ (ov = "WRAPPING" => v = SExt(p, h, d))
        BY <1>1, <4>1, <4>2, ExtendedPattern
      <4> QED
        BY <1>1, <3>1, <4>2
    <3>3. CASE h = d
      <4>1. ASSUME NEW u \in BOOLEAN, v \in Resulting(Order(u, p, h), type, ov)
            PROVE  LET z == Order(u, p, h)
                   IN  /\ z \in Int /\ v \in SIntPatterns(d)
                       /\ Fits(z, type) <=> LeastOf(type.unsigned, d) <= z /\ z <= GreatestOf(type.unsigned, d)
                       /\ Fits(z, type) \/ ov = "WRAPPING" => v = Trunc(p, d)
                       /\ ~Fits(z, type) /\ ov # "WRAPPING" =>
                             /\ ov = "SATURATING"
                             /\ z < LeastOf(type.unsigned, d) => v = IF type.unsigned THEN 0 ELSE SMinValue(d)
        <5>1. d <= h
          BY <1>1, <3>3
        <5> QED
          BY <1>1, <4>1, <5>1, ConvertedPattern
      <4> DEFINE z == Order(signed, p, h)
      <4>2. /\ z \in Int /\ v \in SIntPatterns(d)
            /\ Fits(z, type) <=> LeastOf(type.unsigned, d) <= z /\ z <= GreatestOf(type.unsigned, d)
            /\ Fits(z, type) \/ ov = "WRAPPING" => v = Trunc(p, d)
            /\ ~Fits(z, type) /\ ov # "WRAPPING" =>
                  /\ ov = "SATURATING"
                  /\ z < LeastOf(type.unsigned, d) => v = IF type.unsigned THEN 0 ELSE SMinValue(d)
        BY <4>1
      <4>3. Trunc(p, d) = p
        <5>1. d <= h /\ p < 2 * d
          BY <1>1, <3>1, <3>3
        <5> QED
          BY <5>1, TruncOfValue
      <4>4. z = IF p >= h THEN p - 2 * h ELSE p
        BY DEF Order, SVal, IsNeg
      <4>5. LeastOf(type.unsigned, d) = 0 /\ GreatestOf(type.unsigned, d) = 2 * d - 1
        BY DEF LeastOf, GreatestOf
      <4>6. SExt(p, h, d) = p
        BY <1>1, <3>1, <3>3
      <4> HIDE DEF z
      <4>7. p >= h => z < 0
        BY <1>1, <3>1, <4>4
      <4>8. p < h => 0 <= z /\ z <= 2 * d - 1
        BY <1>1, <3>1, <3>3, <4>4
      <4>9. p < h => v = p
        BY <4>2, <4>3, <4>5, <4>8
      <4>10. p >= h => /\ ov # "THROWING"
                       /\ (ov = "SATURATING" => v = 0)
                       /\ (ov = "WRAPPING" => v = SExt(p, h, d))
        BY <4>2, <4>3, <4>5, <4>6, <4>7
      <4> QED
        BY <4>2, <4>9, <4>10
    <3> QED
      BY <1>1, <1>2, <3>2, <3>3
  <2>2. Contains(NCS2UInnerExtend(r, d, ov), v)
    BY <1>2, <2>1, SignedExtendKeeps
  <2>3. d >= r.half
    BY <1>1, <1>2
  <2> QED
    BY <2>1, <2>2, <2>3 DEF NumericConversionS2U
<1>3. CASE d < h
  <2> DEFINE parts == PartsOf(r, signed)
             converted == [i \in DOMAIN parts |-> NCS2UInnerTrunc(parts[i], d, ov)]
  <2>1. /\ DOMAIN parts \in {{1}, {1, 2}}
        /\ \A i \in DOMAIN parts : \E lo, hi \in Int : Spans(parts[i], lo, hi, signed, h)
        /\ \E i \in DOMAIN parts : Contains(parts[i], p)
    BY <1>1, PartsCover
  <2>2. PICK i \in DOMAIN parts : Contains(parts[i], p)
    BY <2>1
  <2>3. v \in SIntPatterns(d)
    <3>1. ASSUME NEW u \in BOOLEAN, v \in Resulting(Order(u, p, h), type, ov) PROVE v \in SIntPatterns(d)
      <4>1. d <= h
        BY <1>1, <1>3
      <4> QED
        BY <1>1, <3>1, <4>1, ConvertedPattern
    <3> QED
      BY <3>1
  <2>4. signed = FALSE
    OBVIOUS
  <2>5. Contains(converted[i], v)
    BY <1>3, <2>1, <2>2, <2>4, SignedTruncKeeps
  <2>6. \A j \in DOMAIN parts : parts[j] \in RangesOf(h)
    BY <2>1 DEF Spans
  <2>7. ~(d >= r.half)
    BY <1>1, <1>3
  <2>8. NumericConversionS2U(r, d, ov) = UnionOfParts(converted, "Unsigned")
    BY <2>4, <2>7 DEF NumericConversionS2U
  <2> HIDE DEF parts
  <2>9. \A j \in DOMAIN parts : converted[j] \in RangesOf(d)
    BY <1>1, <1>3, <2>6, SignedTruncLegal
  <2>10. DOMAIN converted = DOMAIN parts
    OBVIOUS
  <2> HIDE DEF converted
  <2>11. Contains(UnionOfParts(converted, "Unsigned"), v)
    BY <1>1, <2>1, <2>2, <2>3, <2>5, <2>9, <2>10, UnionOfPartsContains
  <2> QED
    BY <2>3, <2>8, <2>11
<1> QED
  BY <1>1, <1>2, <1>3

\* NumericConversion keeps every value that a cast can give, between any two widths,
\* whatever the signedness of either side and the overflow strategy.
THEOREM ConversionSound ==
  ASSUME NEW source, IsHalfModulus(source.half), source.unsigned \in BOOLEAN,
         NEW type, IsHalfModulus(type.half), type.unsigned \in BOOLEAN,
         NEW r \in RangesOf(source.half), NEW p \in SIntPatterns(source.half), Contains(r, p),
         NEW ov \in Strategies, NEW v \in Resulting(ValueIn(p, source), type, ov)
  PROVE  /\ v \in SIntPatterns(type.half)
         /\ Contains(NumericConversion(r, type.half, source.unsigned, type.unsigned, ov), v)
<1> DEFINE h == source.half
           d == type.half
           su == source.unsigned
           du == type.unsigned
<1>1. v \in Resulting(Order(su, p, h), type, ov)
  BY ValueIsOrder DEF IsHalfModulus
<1>2. /\ su = du => NumericConversion(r, d, su, du, ov) = NumericConversionWithSameSigness(r, d, su, ov)
      /\ su /\ ~du => NumericConversion(r, d, su, du, ov) = NumericConversionU2S(r, d, ov)
      /\ ~su /\ du => NumericConversion(r, d, su, du, ov) = NumericConversionS2U(r, d, ov)
  BY DEF NumericConversion
<1> HIDE DEF h, d, su, du
<1>3. /\ IsHalfModulus(h) /\ IsHalfModulus(d) /\ su \in BOOLEAN /\ du \in BOOLEAN
      /\ type.half = d /\ type.unsigned = du
      /\ r \in RangesOf(h) /\ p \in SIntPatterns(h)
  BY DEF h, d, su, du
<1>4. CASE su = du
  <2>1. v \in SIntPatterns(d) /\ Contains(NumericConversionWithSameSigness(r, d, su, ov), v)
    BY <1>1, <1>3, <1>4, SameSignessSound
  <2> QED
    BY <1>2, <1>4, <2>1 DEF d, su, du
<1>5. CASE su /\ ~du
  <2>1. type.unsigned = FALSE
    BY <1>3, <1>5
  <2>2. v \in SIntPatterns(d) /\ Contains(NumericConversionU2S(r, d, ov), v)
    BY <1>1, <1>3, <1>5, <2>1, UnsignedToSignedSound
  <2> QED
    BY <1>2, <1>5, <2>2 DEF d, su, du
<1>6. CASE ~su /\ du
  <2>1. type.unsigned = TRUE
    BY <1>3, <1>6
  <2>2. v \in SIntPatterns(d) /\ Contains(NumericConversionS2U(r, d, ov), v)
    BY <1>1, <1>3, <1>6, <2>1, SignedToUnsignedSound
  <2> QED
    BY <1>2, <1>6, <2>2 DEF d, su, du
<1> QED
  BY <1>3, <1>4, <1>5, <1>6

-----------------------------------------------------------------------------
(* The domain of a value in one execution.                                  *)

\* c is a legal domain of the type, and of the pattern v where the values of the
\* symbols are val and their types are types: it contains v and bounds what v
\* differs by from the symbols.  A signed value is bounded by values of its type.
IsDomainOf(c, type, v, val, types) ==
    /\ c \in DomainsOf(type.half, DOMAIN types) /\ c.unsigned = type.unsigned
    /\ ~type.unsigned =>
          \A t \in DOMAIN c.bounds : ~types[t].unsigned /\ types[t].half = type.half
    /\ Describes(c, v, DifferencesOf(c, ValueIn(v, type), val, type.half))

IsType(type) == IsHalfModulus(type.half) /\ type.unsigned \in BOOLEAN

\* The parts of the definition.
LEMMA DomainOfParts ==
  ASSUME NEW type, IsType(type), NEW val, NEW types, \A t \in DOMAIN types : val[t] \in Int,
         NEW v \in SIntPatterns(type.half), NEW c, IsDomainOf(c, type, v, val, types)
  PROVE  /\ type.half \in Nat \ {0, 1}
         /\ ValueIn(v, type) = Order(type.unsigned, v, type.half) /\ ValueIn(v, type) \in Int
         /\ IsDomain(c, type.half) /\ c.numeric \in RangesOf(type.half) /\ c.numeric.half = type.half
         /\ Contains(c.numeric, v) /\ ~IsBottom(c)
         /\ DOMAIN c.bounds \subseteq DOMAIN types
         /\ \A t \in DOMAIN c.bounds :
               /\ c.bounds[t] \in RangesOf(type.half)
               /\ ValueIn(v, type) - val[t] \in Int
               /\ Clamped(ValueIn(v, type) - val[t], type.half) \in SIntPatterns(type.half)
               /\ Contains(c.bounds[t], Clamped(ValueIn(v, type) - val[t], type.half))
<1> DEFINE h == type.half
           x == ValueIn(v, type)
<1>1. h \in Nat \ {0, 1} /\ type.unsigned \in BOOLEAN
  BY DEF IsType, IsHalfModulus
<1>2. x = Order(type.unsigned, v, h) /\ x \in Int
  BY <1>1, ValueIsOrder
<1>3. /\ c.numeric \in RangesOf(h) /\ c.numeric.half = h /\ DOMAIN c.bounds \subseteq DOMAIN types
      /\ \A t \in DOMAIN c.bounds : c.bounds[t] \in RangesOf(h)
  BY <1>1, DomainParts DEF IsDomainOf
<1>4. /\ Contains(c.numeric, v)
      /\ \A t \in DOMAIN c.bounds : Contains(c.bounds[t], Clamped(x - val[t], h))
  BY DEF IsDomainOf, Describes, DifferencesOf
<1>5. ~IsBottom(c)
  BY <1>1, <1>3, <1>4, EmptyContainsNothing DEF IsBottom
<1> HIDE DEF x
<1>6. ASSUME NEW t \in DOMAIN c.bounds
      PROVE  x - val[t] \in Int /\ Clamped(x - val[t], h) \in SIntPatterns(h)
  <2>1. val[t] \in Int
    BY <1>3
  <2>2. x - val[t] \in Int
    BY <1>2, <2>1
  <2> QED
    BY <1>1, <2>2, ClampedFact
<1> QED
  BY <1>1, <1>2, <1>3, <1>4, <1>5, <1>6 DEF IsDomain, x

\* The differences by which one function describes all domains of a value.
LEMMA DescribedAlike ==
  ASSUME NEW h, NEW v, NEW x, NEW val, NEW S, NEW c, DOMAIN c.bounds \subseteq S
  PROVE  Describes(c, v, DifferencesOf(c, x, val, h)) <=> Describes(c, v, [t \in S |-> Clamped(x - val[t], h)])
BY DEF Describes, DifferencesOf

\* A domain without bounds is one of each pattern in its range.
LEMMA BareOf ==
  ASSUME NEW type, IsType(type), NEW val, NEW types, NEW v,
         NEW numeric \in RangesOf(type.half), Contains(numeric, v)
  PROVE  IsDomainOf(Bare(numeric, type.unsigned), type, v, val, types)
<1>1. type.half \in Nat \ {0, 1} /\ type.unsigned \in BOOLEAN
  BY DEF IsType, IsHalfModulus
<1>2. Bare(numeric, type.unsigned) \in DomainsOf(type.half, DOMAIN types)
  BY <1>1, BareMade
<1>3. /\ Bare(numeric, type.unsigned).numeric = numeric
      /\ Bare(numeric, type.unsigned).unsigned = type.unsigned
      /\ DOMAIN Bare(numeric, type.unsigned).bounds = {}
  BY DEF Bare, Domain, NoBounds
<1> QED
  BY <1>2, <1>3 DEF IsDomainOf, Describes

\* What is merged keeps the signedness and adds no bound.
LEMMA MergedParts ==
  ASSUME NEW numeric, NEW bounds, NEW unsigned
  PROVE  /\ Merged(numeric, bounds, unsigned).unsigned = unsigned
         /\ DOMAIN Merged(numeric, bounds, unsigned).bounds \subseteq DOMAIN bounds
<1> DEFINE K == {t \in DOMAIN bounds : ~IsFullSet(bounds[t])}
<1>1. \/ Merged(numeric, bounds, unsigned) = Bottom(numeric.half, unsigned)
      \/ Merged(numeric, bounds, unsigned) = Domain(numeric, [s \in K |-> bounds[s]], unsigned)
  BY Zenon DEF Merged
<1>2. K \subseteq DOMAIN bounds
  OBVIOUS
<1> HIDE DEF K
<1> QED
  BY <1>1, <1>2 DEF Bottom, Bare, Domain, NoBounds

\* The signedness of the meet and the join, and the symbols they bound.
LEMMA MeetAndJoinParts ==
  ASSUME NEW c, NEW d
  PROVE  /\ Intersects(c, d).unsigned = c.unsigned /\ Unions(c, d).unsigned = c.unsigned
         /\ DOMAIN Intersects(c, d).bounds \subseteq DOMAIN c.bounds \union DOMAIN d.bounds
         /\ DOMAIN Unions(c, d).bounds \subseteq DOMAIN c.bounds \intersect DOMAIN d.bounds
<1> DEFINE met == [s \in DOMAIN c.bounds \union DOMAIN d.bounds |->
                     IF ~HasBound(c, s) THEN d.bounds[s]
                     ELSE IF ~HasBound(d, s) THEN c.bounds[s]
                     ELSE IntersectWith(c.bounds[s], d.bounds[s], "Smallest")]
           joined == [s \in DOMAIN c.bounds \intersect DOMAIN d.bounds |->
                        UnionWith(c.bounds[s], d.bounds[s], "Smallest")]
<1>1. /\ Intersects(c, d) = Merged(IntersectWith(c.numeric, d.numeric, "Smallest"), met, c.unsigned)
      /\ Unions(c, d) = Merged(UnionWith(c.numeric, d.numeric, "Smallest"), joined, c.unsigned)
  BY DEF Intersects, Unions
<1>2. /\ DOMAIN met = DOMAIN c.bounds \union DOMAIN d.bounds
      /\ DOMAIN joined = DOMAIN c.bounds \intersect DOMAIN d.bounds
  OBVIOUS
<1> HIDE DEF met, joined
<1> QED
  BY <1>1, <1>2, MergedParts

\* A legal domain that describes v and is bounded as one of its type is one of v.
LEMMA DomainOfMade ==
  ASSUME NEW type, IsType(type), NEW val, NEW types, NEW v, NEW c,
         c \in DomainsOf(type.half, DOMAIN types), c.unsigned = type.unsigned,
         ~type.unsigned => \A t \in DOMAIN c.bounds : ~types[t].unsigned /\ types[t].half = type.half,
         Describes(c, v, [t \in DOMAIN types |-> Clamped(ValueIn(v, type) - val[t], type.half)])
  PROVE  IsDomainOf(c, type, v, val, types)
<1>1. type.half \in Nat \ {0, 1}
  BY DEF IsType, IsHalfModulus
<1>2. DOMAIN c.bounds \subseteq DOMAIN types
  BY <1>1, DomainParts
<1>3. Describes(c, v, DifferencesOf(c, ValueIn(v, type), val, type.half))
  BY <1>2, DescribedAlike
<1> QED
  BY <1>3 DEF IsDomainOf

\* The differences from all symbols are patterns.
LEMMA DifferencesArePatterns ==
  ASSUME NEW type, IsType(type), NEW val, NEW types, \A t \in DOMAIN types : val[t] \in Int,
         NEW v \in SIntPatterns(type.half)
  PROVE  \A t \in DOMAIN types : Clamped(ValueIn(v, type) - val[t], type.half) \in SIntPatterns(type.half)
<1>1. type.half \in Nat \ {0, 1} /\ type.unsigned \in BOOLEAN
  BY DEF IsType, IsHalfModulus
<1>2. ValueIn(v, type) \in Int
  BY <1>1, ValueIsOrder
<1> SUFFICES ASSUME NEW t \in DOMAIN types
             PROVE  Clamped(ValueIn(v, type) - val[t], type.half) \in SIntPatterns(type.half)
  OBVIOUS
<1>3. ValueIn(v, type) - val[t] \in Int
  BY <1>2
<1> QED
  BY <1>1, <1>3, ClampedFact

\* The meet of two domains of a value is one, and so is the join of a domain of it
\* with any domain of its type.
LEMMA MeetOf ==
  ASSUME NEW type, IsType(type), NEW val, NEW types, \A t \in DOMAIN types : val[t] \in Int,
         NEW v \in SIntPatterns(type.half), NEW c, NEW d,
         IsDomainOf(c, type, v, val, types), IsDomainOf(d, type, v, val, types)
  PROVE  IsDomainOf(Intersects(c, d), type, v, val, types)
<1> DEFINE h == type.half
           differences == [t \in DOMAIN types |-> Clamped(ValueIn(v, type) - val[t], h)]
<1>1. /\ h \in Nat \ {0, 1} /\ IsDomain(c, h) /\ IsDomain(d, h)
      /\ DOMAIN c.bounds \subseteq DOMAIN types /\ DOMAIN d.bounds \subseteq DOMAIN types
  BY DomainOfParts
<1>2. Describes(c, v, differences) /\ Describes(d, v, differences)
  BY <1>1, DescribedAlike DEF IsDomainOf
<1>3. \A s \in DOMAIN c.bounds \union DOMAIN d.bounds : differences[s] \in SIntPatterns(h)
  BY <1>1, DifferencesArePatterns
<1>4. Describes(Intersects(c, d), v, differences)
  <2> HIDE DEF differences
  <2> QED
    BY <1>1, <1>2, <1>3, MeetKeeps
<1>5. Intersects(c, d) \in DomainsOf(h, DOMAIN types)
  BY <1>1, IntersectsMade DEF IsDomainOf
<1>6. /\ Intersects(c, d).unsigned = type.unsigned
      /\ ~type.unsigned => \A t \in DOMAIN Intersects(c, d).bounds : ~types[t].unsigned /\ types[t].half = h
  BY MeetAndJoinParts DEF IsDomainOf
<1> QED
  BY <1>4, <1>5, <1>6, DomainOfMade

\* The join of two domains, one of them that of the value, is that of the value.
LEMMA JoinOf ==
  ASSUME NEW type, IsType(type), NEW val, NEW types, \A t \in DOMAIN types : val[t] \in Int,
         NEW v \in SIntPatterns(type.half),
         NEW c \in DomainsOf(type.half, DOMAIN types), NEW d \in DomainsOf(type.half, DOMAIN types),
         c.unsigned = type.unsigned,
         IsDomainOf(c, type, v, val, types) \/ IsDomainOf(d, type, v, val, types)
  PROVE  IsDomainOf(Unions(c, d), type, v, val, types)
<1> DEFINE h == type.half
           differences == [t \in DOMAIN types |-> Clamped(ValueIn(v, type) - val[t], h)]
<1>1. /\ h \in Nat \ {0, 1} /\ IsDomain(c, h) /\ IsDomain(d, h)
      /\ DOMAIN c.bounds \subseteq DOMAIN types /\ DOMAIN d.bounds \subseteq DOMAIN types
  BY DomainParts DEF IsType, IsHalfModulus, IsDomain
<1>2. Describes(c, v, differences) \/ Describes(d, v, differences)
  BY <1>1, DescribedAlike DEF IsDomainOf
<1>3. \A s \in DOMAIN c.bounds \union DOMAIN d.bounds : differences[s] \in SIntPatterns(h)
  BY <1>1, DifferencesArePatterns
<1>4. Describes(Unions(c, d), v, differences)
  <2> HIDE DEF differences
  <2> QED
    BY <1>1, <1>2, <1>3, JoinCovers
<1>5. Unions(c, d) \in DomainsOf(h, DOMAIN types)
  BY <1>1, UnionsMade
<1>6. /\ Unions(c, d).unsigned = type.unsigned
      /\ ~type.unsigned => \A t \in DOMAIN Unions(c, d).bounds : ~types[t].unsigned /\ types[t].half = h
  BY MeetAndJoinParts DEF IsDomainOf
<1> QED
  BY <1>4, <1>5, <1>6, DomainOfMade

\* The join of the analysis: it keeps the first domain, with its bounds, when its
\* range covers that of the other, which is no harm if their bounds are the same.
LEMMA JoinKeeps ==
  ASSUME NEW type, IsType(type), NEW val, NEW types, \A t \in DOMAIN types : val[t] \in Int,
         NEW v \in SIntPatterns(type.half),
         NEW c \in DomainsOf(type.half, DOMAIN types), NEW d \in DomainsOf(type.half, DOMAIN types),
         c.unsigned = type.unsigned,
         IsDomainOf(c, type, v, val, types) \/ IsDomainOf(d, type, v, val, types), ~KeepsBounds(c, d)
  PROVE  IsDomainOf(Join(c, d), type, v, val, types)
<1> DEFINE u == Unions(c, d)
<1>1. IsDomainOf(u, type, v, val, types)
  BY JoinOf
<1>2. Join(c, d) = IF IsSame(c, u) /\ ~(IsFullSet(c.numeric) /\ DOMAIN c.bounds # {}) THEN c ELSE u
  BY DEF Join, JoinedOrKept
<1>3. IsSame(c, u) /\ ~IsFullSet(c.numeric) => c.bounds = d.bounds
  BY DEF KeepsBounds
<1> HIDE DEF u
<1>4. CASE IsSame(c, u) /\ ~(IsFullSet(c.numeric) /\ DOMAIN c.bounds # {})
  <2>1. Contains(c.numeric, v)
    BY <1>1, <1>4 DEF IsSame, IsDomainOf, Describes
  <2>2. CASE DOMAIN c.bounds = {}
    BY <2>1, <2>2, <1>2, <1>4 DEF IsDomainOf, Describes
  <2>3. CASE c.bounds = d.bounds
    BY <2>1, <2>3, <1>2, <1>4 DEF IsDomainOf, Describes, DifferencesOf
  <2> QED
    BY <1>3, <1>4, <2>2, <2>3
<1> QED
  BY <1>1, <1>2, <1>4

-----------------------------------------------------------------------------
(* Narrowing in one execution.                                              *)

\* The outcome of a comparison in the program is the relation of the theorems.
LEMMA HoldsRelated ==
  ASSUME NEW rel \in Relations, NEW x \in Int, NEW y \in Int
  PROVE  /\ Holds(rel, x, y) <=> Related(rel, x, y)
         /\ Holds(NegOf(rel), x, y) <=> ~Holds(rel, x, y)
         /\ Holds(SwapOf(rel), y, x) <=> Holds(rel, x, y)
         /\ SwapOf(rel) \in Relations /\ NegOf(rel) \in Relations
<1>1. \/ rel = "LT" \/ rel = "LE" \/ rel = "EQ" \/ rel = "GT" \/ rel = "GE" \/ rel = "NE"
  BY DEF Relations
<1>2. SwapOf(rel) \in Relations /\ NegOf(rel) \in Relations
  BY <1>1 DEF SwapOf, NegOf, Relations
<1>3. Holds(rel, x, y) <=> Related(rel, x, y)
  BY <1>1 DEF Holds, Related
<1>4. Holds(NegOf(rel), x, y) <=> ~Holds(rel, x, y)
  <2>1. /\ Holds("LT", x, y) <=> x < y
        /\ Holds("LE", x, y) <=> x <= y
        /\ Holds("EQ", x, y) <=> x = y
        /\ Holds("GT", x, y) <=> x > y
        /\ Holds("GE", x, y) <=> x >= y
        /\ Holds("NE", x, y) <=> x # y
    BY DEF Holds
  <2>2. /\ NegOf("LT") = "GE" /\ NegOf("LE") = "GT" /\ NegOf("EQ") = "NE"
        /\ NegOf("GT") = "LE" /\ NegOf("GE") = "LT" /\ NegOf("NE") = "EQ"
    BY DEF NegOf
  <2> QED
    BY <1>1, <2>1, <2>2
<1>5. Holds(SwapOf(rel), y, x) <=> Holds(rel, x, y)
  BY <1>1 DEF Holds, SwapOf
<1> QED
  BY <1>2, <1>3, <1>4, <1>5

\* Narrowing by a domain of the value keeps it a domain of the value.
LEMMA NarrowingOf ==
  ASSUME NEW type, IsType(type), NEW val, NEW types, \A t \in DOMAIN types : val[t] \in Int,
         NEW v \in SIntPatterns(type.half), NEW c, NEW d, IsDomainOf(Intersects(c, d), type, v, val, types)
  PROVE  IsDomainOf(IntersectForNarrowing(c, d), type, v, val, types)
<1>1. ~IsBottom(Intersects(c, d))
  BY DomainOfParts
<1>2. IntersectForNarrowing(c, d) = Intersects(c, d)
  BY <1>1 DEF IntersectForNarrowing, NarrowedOrRetried
<1> QED
  BY <1>2

\* A value that is rel a constant is narrowed to a domain of it.
LEMMA ConstantNarrows ==
  ASSUME NEW type, IsType(type), NEW val, NEW types, \A t \in DOMAIN types : val[t] \in Int,
         NEW v \in SIntPatterns(type.half), NEW c, IsDomainOf(c, type, v, val, types),
         NEW rel \in Relations, NEW k \in SIntPatterns(type.half), Holds(rel, ValueIn(v, type), ValueIn(k, type))
  PROVE  IsDomainOf(Narrowed(c, rel, k), type, v, val, types)
<1> DEFINE h == type.half
<1>1. /\ h \in Nat \ {0, 1} /\ c.numeric.half = h /\ c.numeric \in RangesOf(h) /\ Contains(c.numeric, v)
      /\ ValueIn(v, type) = Order(type.unsigned, v, h) /\ ValueIn(v, type) \in Int
  BY DomainOfParts
<1>2. c.unsigned = type.unsigned /\ type.unsigned \in BOOLEAN
  BY DEF IsDomainOf, IsType
<1>3. ValueIn(k, type) = Order(type.unsigned, k, h) /\ ValueIn(k, type) \in Int
  BY <1>1, <1>2, ValueIsOrder
<1>4. Related(rel, Order(type.unsigned, v, h), Order(type.unsigned, k, h))
  <2>1. Related(rel, ValueIn(v, type), ValueIn(k, type))
    BY <1>1, <1>3, HoldsRelated
  <2> QED
    BY <1>1, <1>3, <2>1
<1>5. CASE rel = "NE"
  <2>1. v # k
    BY <1>4, <1>5 DEF Related
  <2>2. c.numeric # Single(k, h)
    <3>1. ASSUME c.numeric = Single(k, h)
          PROVE  FALSE
      <4>1. IsSingleElement(c.numeric) /\ c.numeric.lower = k
        BY <3>1 DEF IsSingleElement, Single, Interval
      <4> QED
        BY <1>1, <2>1, <4>1, SingleContains
    <3> QED
      BY <3>1
  <2>3. Narrowed(c, rel, k) = c
    BY <1>1, <1>5, <2>2 DEF Narrowed, ExcludeSIntConstant
  <2> QED
    BY <2>3
<1>6. CASE rel # "NE"
  <2> DEFINE d == FromNumeric(rel, k, type.unsigned, h)
  <2>1. From(rel, k, ~type.unsigned, h) \in RangesOf(h) /\ Contains(From(rel, k, ~type.unsigned, h), v)
    BY <1>1, <1>2, <1>4, FromOrdered
  <2>2. IsDomainOf(d, type, v, val, types)
    BY <2>1, BareOf DEF FromNumeric
  <2> HIDE DEF d
  <2>3. IsDomainOf(Intersects(c, d), type, v, val, types)
    BY <2>2, MeetOf
  <2>4. IsDomainOf(IntersectForNarrowing(c, d), type, v, val, types)
    BY <2>3, NarrowingOf
  <2>5. Narrowed(c, rel, k) = IntersectForNarrowing(c, d)
    BY <1>1, <1>2, <1>6 DEF Narrowed, d
  <2> QED
    BY <2>4, <2>5
<1> QED
  BY <1>5, <1>6

\* The bound of an unsigned value below a symbol is empty, and so is the meet: the
\* range is tried again, and kept.
LEMMA UnsignedBelowKept ==
  ASSUME NEW h \in Nat \ {0, 1}, NEW c, c.numeric \in RangesOf(h), ~IsBottom(c), c.unsigned = TRUE, NEW t,
         \A s \in DOMAIN c.bounds : c.bounds[s] \in RangesOf(h)
  PROVE  IntersectForNarrowing(c, FromSymbolic("LT", t, TRUE, h)) = Bare(c.numeric, TRUE)
<1> DEFINE d == FromSymbolic("LT", t, TRUE, h)
           met == [s \in DOMAIN c.bounds \union DOMAIN d.bounds |->
                     IF ~HasBound(c, s) THEN d.bounds[s]
                     ELSE IF ~HasBound(d, s) THEN c.bounds[s]
                     ELSE IntersectWith(c.bounds[s], d.bounds[s], "Smallest")]
           numeric == IntersectWith(c.numeric, d.numeric, "Smallest")
<1>1. From("LT", 0, FALSE, h) = Empty(h) /\ "LT" # "NE"
  BY DEF From
<1>2. d.numeric = Full(h) /\ DOMAIN d.bounds = {t} /\ d.bounds[t] = Empty(h)
  BY <1>1 DEF FromSymbolic, Domain
<1>3. IsEmptySet(Empty(h)) /\ ~IsFullSet(Empty(h)) /\ IsFullSet(Full(h))
  BY DEF IsEmptySet, IsFullSet, Empty, Full, Interval, UMaxValue
<1> HIDE DEF d
<1>4. t \in DOMAIN met /\ IsEmptySet(met[t])
  <2>1. met[t] = IF ~HasBound(c, t) THEN Empty(h) ELSE IntersectWith(c.bounds[t], Empty(h), "Smallest")
    BY <1>2 DEF HasBound
  <2>2. \A a : IsEmptySet(IntersectWith(a, Empty(h), "Smallest"))
    BY <1>3, Zenon DEF IntersectWith
  <2> QED
    BY <1>2, <1>3, <2>1, <2>2
<1>5. Intersects(c, d) = Merged(numeric, met, TRUE)
  BY DEF Intersects
<1>6. \E s \in DOMAIN met : IsEmptySet(met[s])
  BY <1>4
<1> HIDE DEF met, numeric
<1>7. Merged(numeric, met, TRUE) = Bottom(numeric.half, TRUE)
  BY <1>6 DEF Merged
<1>8. IsBottom(Bottom(numeric.half, TRUE))
  BY DEF IsBottom, Bottom, Bare, Domain, IsEmptySet, Empty, Interval
<1>9. IntersectWith(c.numeric, d.numeric, "Unsigned") = c.numeric
  BY <1>2, <1>3, Zenon DEF IntersectWith
<1>10. IntersectForNarrowing(c, d) = Bare(c.numeric, TRUE)
  BY <1>5, <1>7, <1>8, <1>9 DEF IntersectForNarrowing, NarrowedOrRetried, IsBottom
<1> QED
  BY <1>10 DEF d

\* A value that is rel a symbol of its type is narrowed to a domain of it, but for an
\* unsigned one that is not above the symbol.
LEMMA SymbolNarrows ==
  ASSUME NEW type, IsType(type), NEW val, NEW types, \A t \in DOMAIN types : val[t] \in Int,
         NEW v \in SIntPatterns(type.half), NEW c, IsDomainOf(c, type, v, val, types),
         NEW rel \in Relations, NEW s \in DOMAIN types,
         types[s].half = type.half, types[s].unsigned = type.unsigned,
         Holds(rel, ValueIn(v, type), val[s]), type.unsigned => rel # "LE"
  PROVE  IsDomainOf(IntersectForNarrowing(c, FromSymbolic(rel, s, type.unsigned, type.half)), type, v, val, types)
<1> DEFINE h == type.half
           d == FromSymbolic(rel, s, type.unsigned, h)
           x == ValueIn(v, type)
           differences == [t \in DOMAIN types |-> Clamped(x - val[t], h)]
<1>1. /\ h \in Nat \ {0, 1} /\ c.numeric.half = h /\ c.numeric \in RangesOf(h) /\ Contains(c.numeric, v)
      /\ ~IsBottom(c) /\ x = Order(type.unsigned, v, h) /\ x \in Int /\ IsDomain(c, h)
      /\ DOMAIN c.bounds \subseteq DOMAIN types /\ (\A t \in DOMAIN c.bounds : c.bounds[t] \in RangesOf(h))
  BY DomainOfParts
<1>2. /\ c.unsigned = type.unsigned /\ type.unsigned \in BOOLEAN /\ val[s] \in Int
      /\ c \in DomainsOf(h, DOMAIN types)
  BY DEF IsDomainOf, IsType
<1>3. CASE type.unsigned /\ rel = "LT"
  <2>1. c.unsigned = TRUE /\ type.unsigned = TRUE
    BY <1>2, <1>3
  <2>2. IntersectForNarrowing(c, FromSymbolic("LT", s, TRUE, h)) = Bare(c.numeric, TRUE)
    BY <1>1, <2>1, UnsignedBelowKept
  <2>3. IsDomainOf(Bare(c.numeric, type.unsigned), type, v, val, types)
    BY <1>1, BareOf
  <2> QED
    BY <1>3, <2>1, <2>2, <2>3
<1>4. CASE ~(type.unsigned /\ rel = "LT")
  <2>1. type.unsigned => rel \notin {"LT", "LE"}
    BY <1>4
  <2>2. Related(rel, Order(type.unsigned, v, h), val[s])
    <3>1. Related(rel, x, val[s])
      BY <1>1, <1>2, HoldsRelated
    <3> QED
      BY <1>1, <3>1
  <2>3. /\ Describes(c, v, differences)
        /\ \A t \in DOMAIN c.bounds \union {s} : differences[t] \in SIntPatterns(h)
        /\ differences[s] = Clamped(Order(type.unsigned, v, h) - val[s], h)
    <3>1. Describes(c, v, differences)
      BY <1>1, DescribedAlike DEF IsDomainOf
    <3> QED
      BY <1>1, <3>1, DifferencesArePatterns
  <2>4. Describes(Intersects(c, d), v, differences)
    <3> HIDE DEF differences, x
    <3> QED
      BY <1>1, <1>2, <2>1, <2>2, <2>3, ComparisonKeeps
  <2>5. d \in DomainsOf(h, DOMAIN types)
    BY <1>1, <1>2, FromSymbolicMade
  <2>6. Intersects(c, d) \in DomainsOf(h, DOMAIN types) /\ Intersects(c, d).unsigned = type.unsigned
    BY <1>1, <1>2, <2>5, IntersectsMade, MeetAndJoinParts
  <2>7. DOMAIN d.bounds \subseteq {s}
    BY DEF FromSymbolic, Domain, NoBounds
  <2> HIDE DEF d
  <2>8. ~type.unsigned => \A t \in DOMAIN Intersects(c, d).bounds : ~types[t].unsigned /\ types[t].half = h
    <3> SUFFICES ASSUME ~type.unsigned, NEW t \in DOMAIN Intersects(c, d).bounds
                 PROVE  ~types[t].unsigned /\ types[t].half = h
      OBVIOUS
    <3>1. t \in DOMAIN c.bounds \/ t = s
      BY <2>7, MeetAndJoinParts
    <3> QED
      BY <3>1 DEF IsDomainOf
  <2>9. IsDomainOf(Intersects(c, d), type, v, val, types)
    BY <2>4, <2>6, <2>8, DomainOfMade
  <2>10. IsDomainOf(IntersectForNarrowing(c, d), type, v, val, types)
    BY <2>9, NarrowingOf
  <2> QED
    BY <2>10 DEF d
<1> QED
  BY <1>3, <1>4

-----------------------------------------------------------------------------
(* The executions.                                                          *)

\* The values of an execution, and the types of the symbols.
ValuesOf(run) == [s \in Symbols |-> Val(run, s)]
Types == [s \in Symbols |-> TypeOf(s)]

\* The domains doms are those of the values of an execution.
Fit(doms, run) ==
    /\ DOMAIN doms = Symbols
    /\ \A s \in Symbols : IsDomainOf(doms[s], TypeOf(s), run[s], ValuesOf(run), Types)

\* A value is computed from values defined before, the operands of its type.
Sources ==
    \A s \in Symbols :
        /\ IsType(TypeOf(s))
        /\ def[s].kind = "cast" => def[s].of \in Symbols /\ def[s].of < s
        /\ def[s].kind = "binary" =>
              /\ def[s].left \in Symbols /\ def[s].left < s /\ TypeOf(def[s].left) = TypeOf(s)
              /\ def[s].right \in Symbols /\ def[s].right < s /\ TypeOf(def[s].right) = TypeOf(s)

\* The expression f gives the pattern v of a type in an execution.
Gives(f, run, v, type) ==
    /\ v \in SIntPatterns(type.half)
    /\ f.kind = "literal" => v = f.value
    /\ f.kind = "cast" => \E ov \in Strategies : v \in Resulting(Val(run, f.of), type, ov)
    /\ f.kind = "binary" =>
          \E ov \in Strategies : v \in Outcome(f.op, Val(run, f.left), Val(run, f.right), type, ov)

\* The values of an execution are what their definitions give.
Executes(run) == \A s \in Symbols : Gives(def[s], run, run[s], TypeOf(s))

\* What an execution says of one symbol.
LEMMA RunParts ==
  ASSUME Sources, NEW run, Executes(run)
  PROVE  /\ DOMAIN Types = Symbols /\ (\A t \in DOMAIN Types : ValuesOf(run)[t] \in Int)
         /\ \A s \in Symbols :
               /\ Types[s] = TypeOf(s) /\ IsType(TypeOf(s))
               /\ TypeOf(s).half \in Nat \ {0, 1} /\ TypeOf(s).unsigned \in BOOLEAN
               /\ run[s] \in SIntPatterns(TypeOf(s).half)
               /\ ValuesOf(run)[s] = Val(run, s)
               /\ Val(run, s) = ValueIn(run[s], TypeOf(s)) /\ Val(run, s) \in Int
               /\ Val(run, s) = Order(TypeOf(s).unsigned, run[s], TypeOf(s).half)
               /\ ~TypeOf(s).unsigned => Val(run, s) = SVal(run[s], TypeOf(s).half)
<1>1. DOMAIN Types = Symbols /\ DOMAIN ValuesOf(run) = Symbols
  BY DEF Types, ValuesOf
<1>2. ASSUME NEW s \in Symbols
      PROVE  /\ Types[s] = TypeOf(s) /\ IsType(TypeOf(s))
             /\ TypeOf(s).half \in Nat \ {0, 1} /\ TypeOf(s).unsigned \in BOOLEAN
             /\ run[s] \in SIntPatterns(TypeOf(s).half)
             /\ ValuesOf(run)[s] = Val(run, s)
             /\ Val(run, s) = ValueIn(run[s], TypeOf(s)) /\ Val(run, s) \in Int
             /\ Val(run, s) = Order(TypeOf(s).unsigned, run[s], TypeOf(s).half)
             /\ ~TypeOf(s).unsigned => Val(run, s) = SVal(run[s], TypeOf(s).half)
  <2>1. IsType(TypeOf(s)) /\ run[s] \in SIntPatterns(TypeOf(s).half)
    BY DEF Sources, Executes, Gives
  <2>2. TypeOf(s).half \in Nat \ {0, 1} /\ TypeOf(s).unsigned \in BOOLEAN
    BY <2>1 DEF IsType, IsHalfModulus
  <2>3. Val(run, s) = ValueIn(run[s], TypeOf(s))
    BY DEF Val
  <2>4. /\ ValueIn(run[s], TypeOf(s)) = Order(TypeOf(s).unsigned, run[s], TypeOf(s).half)
        /\ ValueIn(run[s], TypeOf(s)) \in Int
        /\ ~TypeOf(s).unsigned => ValueIn(run[s], TypeOf(s)) = SVal(run[s], TypeOf(s).half)
    BY <2>1, <2>2, ValueIsOrder
  <2>5. Types[s] = TypeOf(s) /\ ValuesOf(run)[s] = Val(run, s)
    BY DEF Types, ValuesOf
  <2> QED
    BY <2>1, <2>2, <2>3, <2>4, <2>5
<1> QED
  BY <1>1, <1>2

\* What the domain of a symbol says in an execution it fits.
LEMMA FitParts ==
  ASSUME Sources, NEW run, Executes(run), NEW doms, Fit(doms, run), NEW s \in Symbols
  PROVE  /\ IsDomainOf(doms[s], TypeOf(s), run[s], ValuesOf(run), Types)
         /\ IsDomain(doms[s], TypeOf(s).half)
         /\ doms[s].numeric \in RangesOf(TypeOf(s).half) /\ doms[s].numeric.half = TypeOf(s).half
         /\ doms[s].numeric.lower \in SIntPatterns(TypeOf(s).half)
         /\ doms[s].unsigned = TypeOf(s).unsigned
         /\ Contains(doms[s].numeric, run[s]) /\ ~IsBottom(doms[s])
         /\ IsSingleValue(doms[s]) => run[s] = doms[s].numeric.lower
         /\ DOMAIN doms[s].bounds \subseteq Symbols
         /\ \A t \in DOMAIN doms[s].bounds :
               /\ doms[s].bounds[t] \in RangesOf(TypeOf(s).half)
               /\ Val(run, s) - Val(run, t) \in Int
               /\ Clamped(Val(run, s) - Val(run, t), TypeOf(s).half) \in SIntPatterns(TypeOf(s).half)
               /\ Contains(doms[s].bounds[t], Clamped(Val(run, s) - Val(run, t), TypeOf(s).half))
               /\ ~TypeOf(s).unsigned => TypeOf(t) = TypeOf(s)
<1>1. IsDomainOf(doms[s], TypeOf(s), run[s], ValuesOf(run), Types)
  BY DEF Fit
<1>2. /\ IsDomain(doms[s], TypeOf(s).half)
      /\ doms[s].numeric \in RangesOf(TypeOf(s).half) /\ doms[s].numeric.half = TypeOf(s).half
      /\ Contains(doms[s].numeric, run[s]) /\ ~IsBottom(doms[s])
      /\ DOMAIN doms[s].bounds \subseteq Symbols
      /\ \A t \in DOMAIN doms[s].bounds :
            /\ doms[s].bounds[t] \in RangesOf(TypeOf(s).half)
            /\ Val(run, s) - ValuesOf(run)[t] \in Int
            /\ Clamped(Val(run, s) - ValuesOf(run)[t], TypeOf(s).half) \in SIntPatterns(TypeOf(s).half)
            /\ Contains(doms[s].bounds[t], Clamped(Val(run, s) - ValuesOf(run)[t], TypeOf(s).half))
  BY <1>1, RunParts, DomainOfParts
<1>3. \A t \in DOMAIN doms[s].bounds : ValuesOf(run)[t] = Val(run, t)
  BY <1>2, RunParts
<1>4. doms[s].numeric.lower \in SIntPatterns(TypeOf(s).half)
  BY <1>2, RunParts, HalfOfRange
<1>5. IsSingleValue(doms[s]) => run[s] = doms[s].numeric.lower
  BY <1>2, RunParts, SingleContains DEF IsSingleValue
<1>6. doms[s].unsigned = TypeOf(s).unsigned
  BY <1>1 DEF IsDomainOf
<1>7. ASSUME NEW t \in DOMAIN doms[s].bounds, ~TypeOf(s).unsigned
      PROVE  TypeOf(t) = TypeOf(s)
  <2>1. t \in Symbols /\ Types[t] = TypeOf(t) /\ TypeOf(t).unsigned \in BOOLEAN /\ TypeOf(s).unsigned \in BOOLEAN
    BY <1>2, RunParts
  <2>2. TypeOf(t).unsigned = TypeOf(s).unsigned /\ TypeOf(t).half = TypeOf(s).half
    BY <1>1, <1>7, <2>1 DEF IsDomainOf
  <2> QED
    BY <2>2 DEF TypeOf
<1> QED
  BY <1>1, <1>2, <1>3, <1>4, <1>5, <1>6, <1>7

-----------------------------------------------------------------------------
(* The domain of a result, in one execution.                                *)

\* A range moved by a constant contains the moved values.
LEMMA SubtractSound ==
  ASSUME NEW h \in Nat \ {0, 1}, NEW r \in RangesOf(h), NEW x \in SIntPatterns(h), NEW v \in SIntPatterns(h),
         Contains(r, v)
  PROVE  Subtract(r, x) \in RangesOf(h) /\ Contains(Subtract(r, x), Minus(v, x, h))
<1>1. Subtract(r, x) \in RangesOf(h)
  BY SubtractLegal
<1>2. r.half = h /\ r.lower \in SIntPatterns(h) /\ r.upper \in SIntPatterns(h)
  BY HalfOfRange
<1>3. Minus(v, x, h) \in SIntPatterns(h) /\ Minus(r.lower, x, h) \in SIntPatterns(h) /\ Minus(r.upper, x, h) \in SIntPatterns(h)
  BY <1>2, ArithmeticEnds
<1>4. CASE r.lower = r.upper
  <2>1. r.lower = 2 * h - 1
    BY <1>2, <1>4, ContainsIsWithin DEF Within, SIntPatterns
  <2>2. IsFullSet(r) /\ Subtract(r, x) = r
    BY <1>2, <1>4, <2>1 DEF IsFullSet, Subtract, UMaxValue
  <2> QED
    BY <1>3, <2>2, ExtremeTests
<1>5. CASE r.lower # r.upper
  <2> DEFINE l == Minus(r.lower, x, h)
             u == Minus(r.upper, x, h)
             w == Minus(v, x, h)
  <2>1. Within(r.lower, r.upper, v, h)
    BY ContainsIsWithin
  <2>2. Minus(v, r.lower, h) < Minus(r.upper, r.lower, h)
    BY <1>2, <1>5, <2>1, OffsetBelowSize
  <2>3. \A p, q \in SIntPatterns(h) : /\ Minus(Minus(p, x, h), Minus(q, x, h), h) = Minus(p, q, h)
                                      /\ (Minus(p, x, h) = Minus(q, x, h) => p = q)
    BY SMT DEF Minus, SIntPatterns
  <2>4. Minus(w, l, h) < Minus(u, l, h) /\ l # u
    BY <1>2, <1>5, <2>2, <2>3
  <2> HIDE DEF l, u, w
  <2>5. l \in SIntPatterns(h) /\ u \in SIntPatterns(h) /\ w \in SIntPatterns(h)
    BY <1>3 DEF l, u, w
  <2>6. Within(l, u, w, h)
    BY <2>4, <2>5, OffsetBelowSize
  <2>7. Contains(Interval(l, u, h), w)
    BY <2>4, <2>5, <2>6, IntervalIsWithin
  <2> QED
    BY <1>1, <1>2, <1>5, <2>7 DEF Subtract, l, u, w
<1> QED
  BY <1>4, <1>5

\* An operation has at most one outcome.
LEMMA OneResult ==
  ASSUME NEW x, NEW type, NEW ov, NEW v \in Resulting(x, type, ov)
  PROVE  Resulting(x, type, ov) = {v}
BY Zenon DEF Resulting

\* An operation has one outcome at most.
LEMMA OneOutcome ==
  ASSUME NEW op \in Operators, NEW x, NEW y, NEW type, NEW ov, NEW v \in Outcome(op, x, y, type, ov)
  PROVE  Outcome(op, x, y, type, ov) = {v}
<1>1. op = "ADD" \/ op = "SUB" \/ op = "MUL" \/ op = "DIV" \/ op = "MOD"
  BY DEF Operators
<1>2. CASE op = "ADD"
  BY <1>2, OneResult DEF Outcome
<1>3. CASE op = "SUB"
  BY <1>3, OneResult DEF Outcome
<1>4. CASE op = "MUL"
  BY <1>4, OneResult DEF Outcome
<1>5. CASE op = "DIV"
  <2>1. y # 0
    BY <1>5 DEF Outcome
  <2> QED
    BY <1>5, <2>1, OneResult DEF Outcome
<1>6. CASE op = "MOD"
  <2>1. y # 0
    BY <1>6 DEF Outcome
  <2> QED
    BY <1>6, <2>1, OneResult DEF Outcome
<1> QED
  BY <1>1, <1>2, <1>3, <1>4, <1>5, <1>6

\* Everything is a domain of a pattern; so is the pattern alone.
LEMMA TopOf ==
  ASSUME NEW type, IsType(type), NEW val, NEW types, NEW v \in SIntPatterns(type.half)
  PROVE  IsDomainOf(Top(type.half, type.unsigned), type, v, val, types)
<1>1. type.half \in Nat \ {0, 1}
  BY DEF IsType, IsHalfModulus
<1>2. Full(type.half) \in RangesOf(type.half) /\ Contains(Full(type.half), v)
  BY <1>1, ExtremesLegal, ExtremesContain
<1> QED
  BY <1>2, BareOf DEF Top

\* The domain of an outcome that is known.
LEMMA SingleResultOf ==
  ASSUME NEW type, IsType(type), NEW val, NEW types, NEW v \in SIntPatterns(type.half), NEW outcome, outcome = {v}
  PROVE  IsDomainOf(SingleResult(outcome, type), type, v, val, types)
<1>1. type.half \in Nat \ {0, 1}
  BY DEF IsType, IsHalfModulus
<1>2. Single(v, type.half) \in RangesOf(type.half) /\ Contains(Single(v, type.half), v)
  BY <1>1, SingleHolds
<1>3. SingleResult(outcome, type) = Bare(Single(v, type.half), type.unsigned)
  BY DEF SingleResult
<1> QED
  BY <1>2, <1>3, BareOf

\* The negation of a range contains that of a value, its complement that of the value.
LEMMA NegationOf ==
  ASSUME NEW type, IsType(type), NEW r \in RangesOf(type.half), NEW p \in SIntPatterns(type.half), Contains(r, p),
         r.lower # SMinValue(type.half), NEW ov \in Strategies, NEW v
  PROVE  /\ v \in UnaryOutcome("NEG", ValueIn(p, type), type, ov) /\ ov # "SATURATING" =>
               Negate(r) \in RangesOf(type.half) /\ Contains(Negate(r), v)
         /\ v \in UnaryOutcome("BITNOT", ValueIn(p, type), type, ov) =>
               Subtract(Negate(r), 1) \in RangesOf(type.half) /\ Contains(Subtract(Negate(r), 1), v)
<1> DEFINE h == type.half
           u == type.unsigned
<1>1. h \in Nat \ {0, 1} /\ u \in BOOLEAN
  BY DEF IsType, IsHalfModulus
<1>2. /\ ValueIn(p, type) = Order(u, p, h) /\ ValueIn(p, type) \in Int
      /\ LeastOf(u, h) <= ValueIn(p, type) /\ ValueIn(p, type) <= GreatestOf(u, h)
  BY <1>1, ValueIsOrder
<1>3. Negate(r) \in RangesOf(h) /\ Contains(Negate(r), Neg(p, h))
  BY <1>1, NegateSound
<1>4. 0 \in SIntPatterns(h) /\ 1 \in SIntPatterns(h) /\ Order(u, 0, h) = 0 /\ Neg(p, h) \in SIntPatterns(h)
  <2>1. 0 \in SIntPatterns(h) /\ 1 \in SIntPatterns(h)
    BY <1>1 DEF SIntPatterns
  <2>2. Order(u, 0, h) = 0
    BY <1>1 DEF Order, SVal, IsNeg
  <2>3. Neg(p, h) \in SIntPatterns(h)
    BY <1>1, OperationsArePatterns
  <2> QED
    BY <2>1, <2>2, <2>3
<1>5. Subtract(Negate(r), 1) \in RangesOf(h) /\ Contains(Subtract(Negate(r), 1), Minus(Neg(p, h), 1, h))
  BY <1>1, <1>3, <1>4, SubtractSound
<1>6. -(2 * h) <= -ValueIn(p, type) /\ -(2 * h) <= -ValueIn(p, type) - 1
      /\ -ValueIn(p, type) < 2 * h /\ -ValueIn(p, type) - 1 < 2 * h /\ -ValueIn(p, type) \in Int /\ -ValueIn(p, type) - 1 \in Int
  BY <1>1, <1>2 DEF LeastOf, GreatestOf
<1>7. ASSUME v \in UnaryOutcome("NEG", ValueIn(p, type), type, ov), ov # "SATURATING"
      PROVE  v = Neg(p, h)
  <2>1. v \in Resulting(-ValueIn(p, type), type, ov)
    BY <1>7 DEF UnaryOutcome
  <2>2. IsOutcome(v, -ValueIn(p, type), u, ov, h)
    BY <1>1, <1>6, <2>1, ResultIsOutcome
  <2>3. Order(u, 0, h) - Order(u, p, h) = -ValueIn(p, type)
    BY <1>2, <1>4
  <2>4. ov \in {"THROWING", "WRAPPING"}
    BY <1>7 DEF Strategies
  <2>5. v = Minus(0, p, h)
    BY <1>1, <1>4, <2>2, <2>3, <2>4, ModularOutcome
  <2> QED
    BY <2>5 DEF Neg
<1>8. ASSUME v \in UnaryOutcome("BITNOT", ValueIn(p, type), type, ov)
      PROVE  v = Minus(Neg(p, h), 1, h)
  <2>1. v \in Resulting(-ValueIn(p, type) - 1, type, "WRAPPING")
    BY <1>8 DEF UnaryOutcome
  <2>2. IsOutcome(v, -ValueIn(p, type) - 1, u, "WRAPPING", h)
    BY <1>1, <1>6, <2>1, ResultIsOutcome DEF Strategies
  <2>3. CASE u
    BY <1>1, <1>2, <2>2, <2>3 DEF IsOutcome, Order, Minus, Neg, SIntPatterns
  <2>4. CASE ~u
    <3>1. SVal(v, h) = -SVal(p, h) - 1 /\ v \in SIntPatterns(h)
      <4>1. ValueIn(p, type) = SVal(p, h)
        BY <1>2, <2>4 DEF Order
      <4>2. -h <= -ValueIn(p, type) - 1 /\ -ValueIn(p, type) - 1 <= h - 1
        BY <1>1, <1>2, <2>4 DEF LeastOf, GreatestOf
      <4> QED
        BY <2>2, <2>4, <4>1, <4>2 DEF IsOutcome, Order
    <3> QED
      BY <1>1, <3>1 DEF SVal, IsNeg, Minus, Neg, SIntPatterns
  <2> QED
    BY <2>3, <2>4
<1> QED
  BY <1>3, <1>5, <1>7, <1>8

\* The domain of a negation, or of a complement, is one of its value, outside the gap.
LEMMA UnarySound ==
  ASSUME Sources, NEW run, Executes(run), Fit(dom, run), NEW s \in Symbols,
         NEW op \in {"NEG", "BITNOT"}, NEW ov \in Strategies, ~LosesEnd(op, s, s),
         NEW v \in UnaryOutcome(op, Val(run, s), TypeOf(s), ov)
  PROVE  /\ v \in SIntPatterns(TypeOf(s).half)
         /\ IsDomainOf(IF op = "NEG" THEN ComputeNegRange(s, ov) ELSE ComputeBitNotRange(s),
                       TypeOf(s), v, ValuesOf(run), Types)
<1> DEFINE c == dom[s]
           type == TypeOf(s)
           h == type.half
<1>1. /\ IsType(type) /\ h \in Nat \ {0, 1} /\ type.unsigned \in BOOLEAN /\ run[s] \in SIntPatterns(h)
      /\ Val(run, s) = ValueIn(run[s], type) /\ Val(run, s) \in Int
  BY RunParts
<1>2. /\ c.numeric \in RangesOf(h) /\ c.unsigned = type.unsigned /\ Contains(c.numeric, run[s])
      /\ ~IsBottom(c) /\ (IsSingleValue(c) => run[s] = c.numeric.lower) /\ c.numeric.half = h
  BY FitParts
<1>3. v \in SIntPatterns(h)
  BY <1>1, OutcomePatterns
<1>4. c.numeric.lower # SMinValue(h)
  BY <1>2 DEF LosesEnd
<1> HIDE DEF c, type, h
<1>5. CASE op = "NEG" /\ IsSingleValue(c)
  <2>1. UnaryOutcome("NEG", ValueIn(c.numeric.lower, type), type, ov) = {v}
    BY <1>1, <1>2, <1>5, OneResult DEF UnaryOutcome, type, h
  <2>2. ComputeNegRange(s, ov) = SingleResult(UnaryOutcome("NEG", ValueIn(c.numeric.lower, type), type, ov), type)
    BY <1>2, <1>5, Zenon DEF ComputeNegRange, c, type
  <2>3. IsDomainOf(ComputeNegRange(s, ov), type, v, ValuesOf(run), Types)
    BY <1>1, <1>3, <2>1, <2>2, SingleResultOf DEF h
  <2> QED
    BY <1>3, <1>5, <2>3 DEF type, h
<1>6. CASE op = "NEG" /\ ~IsSingleValue(c) /\ ov = "SATURATING"
  <2>1. ComputeNegRange(s, ov) = Top(h, type.unsigned)
    BY <1>2, <1>6, Zenon DEF ComputeNegRange, c, type, h
  <2>2. IsDomainOf(ComputeNegRange(s, ov), type, v, ValuesOf(run), Types)
    BY <1>1, <1>3, <2>1, TopOf DEF h
  <2> QED
    BY <1>3, <1>6, <2>2 DEF type, h
<1>7. CASE op = "NEG" /\ ~IsSingleValue(c) /\ ov # "SATURATING"
  <2>1. ComputeNegRange(s, ov) = Bare(Negate(c.numeric), type.unsigned)
    BY <1>2, <1>7, Zenon DEF ComputeNegRange, c, type
  <2>2. Negate(c.numeric) \in RangesOf(h) /\ Contains(Negate(c.numeric), v)
    <3>1. v \in UnaryOutcome("NEG", ValueIn(run[s], type), type, ov)
      BY <1>1, <1>7 DEF type
    <3> QED
      BY <1>1, <1>2, <1>4, <1>7, <3>1, NegationOf DEF h
  <2>3. IsDomainOf(ComputeNegRange(s, ov), type, v, ValuesOf(run), Types)
    BY <1>1, <2>1, <2>2, BareOf DEF h
  <2> QED
    BY <1>3, <1>7, <2>3 DEF type, h
<1>8. CASE op = "BITNOT"
  <2>1. ComputeBitNotRange(s) = Bare(Subtract(Negate(c.numeric), 1), type.unsigned)
    BY <1>2 DEF ComputeBitNotRange, c
  <2>2. Subtract(Negate(c.numeric), 1) \in RangesOf(h) /\ Contains(Subtract(Negate(c.numeric), 1), v)
    <3>1. v \in UnaryOutcome("BITNOT", ValueIn(run[s], type), type, ov)
      BY <1>1, <1>8 DEF type
    <3> QED
      BY <1>1, <1>2, <1>4, <1>8, <3>1, NegationOf DEF h
  <2>3. IsDomainOf(ComputeBitNotRange(s), type, v, ValuesOf(run), Types)
    BY <1>1, <2>1, <2>2, BareOf DEF h
  <2> QED
    BY <1>3, <1>8, <2>3 DEF type, h
<1> QED
  BY <1>5, <1>6, <1>7, <1>8

\* A bound of a difference that stays within the source's width bounds it in a wider one.
LEMMA BoundWidened ==
  ASSUME NEW h, IsHalfModulus(h), NEW d, IsHalfModulus(d), h <= d,
         NEW r \in RangesOf(h), NEW x \in Int, InWidth(x, h), Contains(r, Clamped(x, h)), NEW signed, signed = FALSE
  PROVE  LET wide == NumericConversionWithSameSigness(r, d, signed, "THROWING")
         IN  wide \in RangesOf(d) /\ Contains(wide, Clamped(x, d))
<1> DEFINE p == Clamped(x, h)
           type == [half |-> d, unsigned |-> signed]
<1>1. h \in Nat \ {0, 1} /\ d \in Nat \ {0, 1} /\ signed \in BOOLEAN
  BY DEF IsHalfModulus
<1>2. /\ p \in SIntPatterns(h) /\ SVal(p, h) = x /\ Order(signed, p, h) = x
      /\ Clamped(x, d) \in SIntPatterns(d) /\ SVal(Clamped(x, d), d) = x
  <2>1. InWidth(x, d)
    BY <1>1 DEF InWidth
  <2> QED
    BY <1>1, <2>1, ClampedFact DEF Order
<1>3. NumericConversionWithSameSigness(r, d, signed, "THROWING") \in RangesOf(d)
  BY <1>1, SameSignessLegal
<1>4. Clamped(x, d) \in Resulting(x, type, "THROWING")
  <2>1. Fits(x, type)
    BY <1>1 DEF Fits, InWidth
  <2>2. Clamped(x, d) = x % (2 * d)
    <3> DEFINE n == 2 * d
    <3>1. /\ n \in Nat \ {0}
          /\ x \in 0 .. n - 1 \/ x \in -n .. -1
      BY <1>1 DEF InWidth
    <3> HIDE DEF n
    <3>2. x % n = IF x < 0 THEN x + n ELSE x
      <4>1. (x \in 0 .. n - 1 => x % n = x) /\ (x \in -n .. -1 => x % n = x + n)
        BY <3>1, ModuloFact
      <4>2. x \in 0 .. n - 1 => ~(x < 0)
        BY <3>1
      <4>3. x \in -n .. -1 => x < 0
        BY <3>1
      <4> QED
        BY <3>1, <4>1, <4>2, <4>3
    <3> QED
      BY <1>1, <3>2 DEF Clamped, InWidth, n
  <2> QED
    BY <2>1, <2>2 DEF Resulting
<1> HIDE DEF p
<1>5. Contains(NumericConversionWithSameSigness(r, d, signed, "THROWING"), Clamped(x, d))
  <2>1. Contains(r, p)
    BY DEF p
  <2>2. Clamped(x, d) \in Resulting(Order(signed, p, h), type, "THROWING") /\ "THROWING" \in Strategies
    BY <1>2, <1>4 DEF Strategies
  <2>3. type.half = d /\ type.unsigned = signed
    OBVIOUS
  <2> HIDE DEF type
  <2> QED
    BY <1>1, <1>2, <2>1, <2>2, <2>3, SameSignessSound
<1> QED
  BY <1>3, <1>5

\* In an execution whose values the domains describe, the domain that
\* ComputeTypeCast makes describes the value of the cast: its range contains it,
\* and the bounds it keeps hold in the new width.
THEOREM CastSound ==
  ASSUME Sources, NEW run, Executes(run), Fit(dom, run), NEW s \in Symbols,
         NEW type, IsType(type), NEW ov \in Strategies, NEW v \in Resulting(Val(run, s), type, ov)
  PROVE  v \in SIntPatterns(type.half) /\ IsDomainOf(ComputeTypeCast(s, type, ov), type, v, ValuesOf(run), Types)
<1> DEFINE c == dom[s]
           source == TypeOf(s)
           numeric == IF IsBottom(c) THEN Empty(type.half)
                      ELSE NumericConversion(c.numeric, type.half, c.unsigned, type.unsigned, ov)
           kept == {t \in DOMAIN c.bounds : IsNonNeg(SMinOf(dom[t].numeric), dom[t].numeric.half)}
           bounds == [t \in kept \union {s} |->
                        IF t = s THEN Single(0, type.half)
                        ELSE NumericConversionWithSameSigness(c.bounds[t], type.half, FALSE, "THROWING")]
<1>1. /\ IsType(source) /\ source.half \in Nat \ {0, 1} /\ source.unsigned \in BOOLEAN
      /\ run[s] \in SIntPatterns(source.half) /\ Val(run, s) \in Int
      /\ Val(run, s) = ValueIn(run[s], source)
      /\ ~source.unsigned => Val(run, s) = SVal(run[s], source.half)
  BY RunParts
<1>2. /\ c.numeric \in RangesOf(source.half) /\ c.unsigned = source.unsigned /\ Contains(c.numeric, run[s])
      /\ ~IsBottom(c) /\ c.numeric.half = source.half /\ DOMAIN c.bounds \subseteq Symbols
  BY FitParts
<1>3. /\ IsHalfModulus(source.half) /\ IsHalfModulus(type.half) /\ type.half \in Nat \ {0, 1}
      /\ type.unsigned \in BOOLEAN
  BY <1>1 DEF IsType, IsHalfModulus
<1>4. v \in SIntPatterns(type.half) /\ Contains(numeric, v) /\ numeric \in RangesOf(type.half)
  <2>1. v \in Resulting(ValueIn(run[s], source), type, ov)
    BY <1>1
  <2>2. /\ v \in SIntPatterns(type.half)
        /\ Contains(NumericConversion(c.numeric, type.half, source.unsigned, type.unsigned, ov), v)
    <3> HIDE DEF c, source
    <3> QED
      BY <1>1, <1>2, <1>3, <2>1, ConversionSound
  <2>3. NumericConversion(c.numeric, type.half, source.unsigned, type.unsigned, ov) \in RangesOf(type.half)
    BY <1>1, <1>2, <1>3, ConversionLegal
  <2> QED
    BY <1>2, <2>2, <2>3
<1>5. ComputeTypeCast(s, type, ov) = CastDomain(s, numeric, type, ov)
  BY DEF ComputeTypeCast
<1> HIDE DEF numeric
<1>6. CASE \/ type.half < c.numeric.half \/ c.unsigned \/ ~type.unsigned
           \/ ov = "SATURATING" \/ IsNeg(SMinOf(numeric), type.half)
  <2>1. CastDomain(s, numeric, type, ov) = Bare(numeric, type.unsigned)
    BY <1>6 DEF CastDomain
  <2> QED
    BY <1>4, <1>5, <2>1, BareOf
<1>7. CASE ~(\/ type.half < c.numeric.half \/ c.unsigned \/ ~type.unsigned
             \/ ov = "SATURATING" \/ IsNeg(SMinOf(numeric), type.half))
  <2>1. CastDomain(s, numeric, type, ov) = Domain(numeric, bounds, type.unsigned)
    BY <1>7 DEF CastDomain
  <2>2. source.half <= type.half /\ source.unsigned = FALSE /\ type.unsigned = TRUE /\ ov \in {"THROWING", "WRAPPING"}
    BY <1>1, <1>2, <1>3, <1>7 DEF Strategies
  <2>3. 0 <= SVal(v, type.half) /\ v < type.half
    <3>1. Sle(SMinOf(numeric), v, type.half) /\ SMinOf(numeric) \in SIntPatterns(type.half)
      BY <1>3, <1>4, SignedExtremes, ExtremesArePatterns
    <3>2. ~IsNeg(SMinOf(numeric), type.half)
      BY <1>7
    <3> QED
      BY <1>3, <1>4, <3>1, <3>2 DEF Sle, SVal, IsNeg, SIntPatterns
  <2>4. v = Val(run, s) /\ 0 <= Val(run, s) /\ Val(run, s) < source.half
    <3>1. -source.half <= Val(run, s) /\ Val(run, s) < source.half
      BY <1>1, <2>2, ValueIsOrder DEF LeastOf, GreatestOf
    <3>2. CASE Val(run, s) >= 0
      <4>1. Fits(Val(run, s), type)
        BY <1>1, <1>3, <2>2, <3>1, <3>2 DEF Fits
      <4>2. Order(type.unsigned, v, type.half) = Val(run, s)
        BY <1>1, <1>3, <4>1, ResultingFact
      <4> QED
        BY <2>2, <3>1, <3>2, <4>2 DEF Order
    <3>3. CASE Val(run, s) < 0
      <4>1. ~Fits(Val(run, s), type)
        BY <1>1, <1>3, <2>2, <3>3 DEF Fits
      <4>2. v = Val(run, s) % (2 * type.half)
        BY <1>1, <1>3, <2>2, <4>1, ResultingFact
      <4>3. 2 * type.half \in Nat \ {0} /\ Val(run, s) \in -(2 * type.half) .. -1
        BY <1>1, <1>3, <2>2, <3>1, <3>3
      <4>4. v = Val(run, s) + 2 * type.half
        BY <1>1, <4>2, <4>3, ModuloFact
      <4> QED
        BY <1>1, <1>3, <2>2, <2>3, <3>1, <4>4
    <3> QED
      BY <1>1, <3>1, <3>2, <3>3
  <2>5. ValueIn(v, type) = Val(run, s)
    BY <2>2, <2>4 DEF ValueIn
  <2>6. ASSUME NEW t \in kept \union {s}
        PROVE  /\ t \in Symbols /\ bounds[t] \in RangesOf(type.half)
               /\ Contains(bounds[t], Clamped(Val(run, s) - Val(run, t), type.half))
    <3>1. CASE t = s
      <4>1. Clamped(Val(run, s) - Val(run, t), type.half) = 0
        BY <1>1, <1>3, <3>1 DEF Clamped
      <4>2. bounds[t] = Single(0, type.half)
        BY <3>1
      <4> QED
        BY <1>3, <3>1, <4>1, <4>2, ZeroFact
    <3>2. CASE t # s
      <4>1. t \in DOMAIN c.bounds /\ IsNonNeg(SMinOf(dom[t].numeric), dom[t].numeric.half)
        BY <3>2
      <4>2. /\ t \in Symbols /\ TypeOf(t) = source /\ c.bounds[t] \in RangesOf(source.half)
            /\ Contains(c.bounds[t], Clamped(Val(run, s) - Val(run, t), source.half))
        BY <2>2, <4>1, FitParts
      <4>3. /\ dom[t].numeric \in RangesOf(source.half) /\ dom[t].numeric.half = source.half
            /\ Contains(dom[t].numeric, run[t]) /\ run[t] \in SIntPatterns(source.half)
            /\ Val(run, t) = SVal(run[t], source.half) /\ Val(run, t) \in Int
        BY <2>2, <4>2, FitParts, RunParts
      <4>4. Sle(SMinOf(dom[t].numeric), run[t], source.half) /\ SMinOf(dom[t].numeric) \in SIntPatterns(source.half)
        BY <1>1, <4>3, SignedExtremes, ExtremesArePatterns
      <4>5. 0 <= Val(run, t) /\ Val(run, t) < source.half
        BY <1>1, <4>1, <4>3, <4>4 DEF Sle, SVal, IsNeg, IsNonNeg, SIntPatterns
      <4>6. InWidth(Val(run, s) - Val(run, t), source.half) /\ Val(run, s) - Val(run, t) \in Int
        BY <1>1, <2>4, <4>3, <4>5 DEF InWidth
      <4>7. bounds[t] = NumericConversionWithSameSigness(c.bounds[t], type.half, FALSE, "THROWING")
        BY <3>2
      <4>8. \A signed : signed = FALSE =>
               LET wide == NumericConversionWithSameSigness(c.bounds[t], type.half, signed, "THROWING")
               IN  wide \in RangesOf(type.half) /\ Contains(wide, Clamped(Val(run, s) - Val(run, t), type.half))
        <5> HIDE DEF c, source
        <5> QED
          BY <1>3, <2>2, <4>2, <4>6, BoundWidened
      <4> QED
        BY <4>2, <4>7, <4>8
    <3> QED
      BY <3>1, <3>2
  <2>7. kept \union {s} \in SUBSET Symbols /\ bounds \in [kept \union {s} -> RangesOf(type.half)]
    <3>1. \A t \in kept \union {s} : t \in Symbols /\ bounds[t] \in RangesOf(type.half)
      BY <2>6
    <3>2. DOMAIN bounds = kept \union {s} /\ bounds = [t \in kept \union {s} |-> bounds[t]]
      OBVIOUS
    <3> HIDE DEF bounds, kept
    <3> QED
      BY <3>1, <3>2
  <2> DEFINE made == Domain(numeric, bounds, type.unsigned)
  <2>8. made \in DomainsOf(type.half, DOMAIN Types)
    <3>1. DOMAIN Types = Symbols
      BY RunParts
    <3> HIDE DEF bounds, kept
    <3> QED
      BY <1>3, <1>4, <2>7, <3>1, DomainMade
  <2>9. made.unsigned = type.unsigned /\ made.numeric = numeric /\ made.bounds = bounds
    BY DEF Domain
  <2> HIDE DEF made
  <2>10. Describes(made, v, [t \in DOMAIN Types |-> Clamped(ValueIn(v, type) - ValuesOf(run)[t], type.half)])
    <3>1. ASSUME NEW t \in DOMAIN made.bounds
          PROVE  Contains(made.bounds[t],
                          [u \in DOMAIN Types |-> Clamped(ValueIn(v, type) - ValuesOf(run)[u], type.half)][t])
      <4>1. t \in kept \union {s} /\ made.bounds[t] = bounds[t]
        BY <2>9, <3>1
      <4>2. t \in Symbols /\ Contains(bounds[t], Clamped(Val(run, s) - Val(run, t), type.half))
        BY <2>6, <4>1
      <4>3. t \in DOMAIN Types /\ ValuesOf(run)[t] = Val(run, t)
        BY <4>2, RunParts
      <4> QED
        BY <2>5, <4>1, <4>2, <4>3
    <3> QED
      BY <1>4, <2>9, <3>1 DEF Describes
  <2>11. IsDomainOf(made, type, v, ValuesOf(run), Types)
    BY <2>2, <2>8, <2>9, <2>10, DomainOfMade
  <2> QED
    BY <1>4, <1>5, <2>1, <2>11 DEF made
<1> QED
  BY <1>6, <1>7

-----------------------------------------------------------------------------
(* The chains of exact bounds.                                              *)

\* The values that the values of the pairs P are bounded by exactly, and their
\* differences from s.
Further(s, P) ==
    UNION {{<<v, p[2] + SVal(dom[p[1]].bounds[v].lower, dom[p[1]].numeric.half)>> :
               v \in {v \in DOMAIN dom[p[1]].bounds :
                        TypeOf(v) = TypeOf(s) /\ IsSingleElement(dom[p[1]].bounds[v])}} : p \in P}

\* f follows the chains that start at s, to a length of n.
Follows(f, s, n) ==
    f = [m \in 0 .. n |-> IF m = 0 THEN {<<s, 0>>} ELSE f[m - 1] \union Further(s, f[m - 1])]

\* There is such a function, and Ancestors is its last value.
LEMMA ChainsFollowed ==
  ASSUME NEW s, NEW a \in Nat
  PROVE  \E f : Follows(f, s, a)
<1> DEFINE S == {n \in Nat : \E f : Follows(f, s, n)}
<1>1. ASSUME NEW n \in Nat, \A m \in 0 .. n - 1 : m \in S
      PROVE  n \in S
  <2>1. CASE n = 0
    <3> DEFINE f == [k \in 0 .. 0 |-> {<<s, 0>>}]
    <3>1. Follows(f, s, 0)
      BY DEF Follows
    <3> QED
      BY <2>1, <3>1
  <2>2. CASE n # 0
    <3>1. n - 1 \in 0 .. n - 1
      BY <2>2
    <3>2. PICK f : Follows(f, s, n - 1)
      BY <1>1, <3>1
    <3> DEFINE g == [k \in 0 .. n |-> IF k = n THEN f[n - 1] \union Further(s, f[n - 1]) ELSE f[k]]
    <3>3. ASSUME NEW k \in 0 .. n
          PROVE  g[k] = IF k = 0 THEN {<<s, 0>>} ELSE g[k - 1] \union Further(s, g[k - 1])
      <4>1. CASE k = 0
        <5>1. g[k] = f[0] /\ 0 \in 0 .. n - 1
          BY <2>2, <4>1
        <5>2. f[0] = {<<s, 0>>}
          BY <3>2, <5>1 DEF Follows
        <5> QED
          BY <4>1, <5>1, <5>2
      <4>2. CASE k # 0
        <5>1. k - 1 \in 0 .. n - 1 /\ k - 1 \in 0 .. n /\ k - 1 # n
          BY <4>2
        <5>2. g[k - 1] = f[k - 1]
          BY <5>1
        <5>3. k # n => k \in 0 .. n - 1 /\ g[k] = f[k]
          OBVIOUS
        <5>4. k # n => f[k] = f[k - 1] \union Further(s, f[k - 1])
          <6> SUFFICES ASSUME k # n PROVE f[k] = f[k - 1] \union Further(s, f[k - 1])
            OBVIOUS
          <6> QED
            BY <3>2, <4>2, <5>3, Zenon DEF Follows
        <5>5. k = n => g[k] = f[k - 1] \union Further(s, f[k - 1])
          OBVIOUS
        <5> QED
          BY <4>2, <5>2, <5>3, <5>4, <5>5, Zenon
      <4> QED
        BY <4>1, <4>2
    <3> HIDE DEF g
    <3>4. DOMAIN g = 0 .. n /\ g = [k \in 0 .. n |-> g[k]]
      BY DEF g
    <3>5. Follows(g, s, n)
      BY <3>3, <3>4, Zenon DEF Follows
    <3> QED
      BY <3>5
  <2> QED
    BY <2>1, <2>2
<1> HIDE DEF S
<1>2. a \in S
  BY <1>1, NumbersByInduction
<1> QED
  BY <1>2 DEF S

\* The ancestors of a value are those that chains of exact bounds lead to, up to
\* the limit.
LEMMA AncestorsFollowed ==
  ASSUME NEW s
  PROVE  \E f : /\ Follows(f, s, MAX_SYMBOLIC_ANCESTOR_DEPTH)
                /\ Ancestors(s) = f[MAX_SYMBOLIC_ANCESTOR_DEPTH]
<1> DEFINE f == CHOOSE f : Follows(f, s, MAX_SYMBOLIC_ANCESTOR_DEPTH)
<1>1. Follows(f, s, MAX_SYMBOLIC_ANCESTOR_DEPTH)
  BY ChainsFollowed DEF MAX_SYMBOLIC_ANCESTOR_DEPTH
<1>2. Ancestors(s) = f[MAX_SYMBOLIC_ANCESTOR_DEPTH]
  BY DEF Ancestors, Follows, Further
<1> QED
  BY <1>1, <1>2

\* A single difference that is not an end of the order is the exact one.
LEMMA AmountExact ==
  ASSUME NEW h \in Nat \ {0, 1}, NEW b \in RangesOf(h), IsSingleElement(b), ~IsEnd(b),
         NEW x \in Int, Contains(b, Clamped(x, h))
  PROVE  SVal(b.lower, h) = x
<1>1. /\ Clamped(x, h) \in SIntPatterns(h)
      /\ InWidth(x, h) => SVal(Clamped(x, h), h) = x
  BY ClampedFact
<1>2. Clamped(x, h) = b.lower
  BY <1>1, SingleContains
<1>3. b.half = h /\ b = Single(b.lower, h)
  BY DEF RangesOf, IsSingleElement, Single, Interval
<1>4. b.lower # SMinValue(h) /\ b.lower # SMaxValue(h)
  BY <1>3 DEF IsEnd
<1>5. InWidth(x, h)
  BY <1>2, <1>4 DEF Clamped, InWidth
<1> QED
  BY <1>1, <1>2, <1>5

\* Where no bound is an end of the order, every value that a chain reaches differs
\* from its start by the amount of the chain.
LEMMA AncestorsDiffer ==
  ASSUME Sources, NEW run, Executes(run), Fit(dom, run), NEW s \in Symbols, ~TypeOf(s).unsigned,
         \A u \in Symbols : ~KnowsEnd(u), NEW p \in Ancestors(s)
  PROVE  p[1] \in Symbols /\ p[2] = Val(run, s) - Val(run, p[1])
<1> DEFINE D == MAX_SYMBOLIC_ANCESTOR_DEPTH
<1>0. D \in Nat
  BY DEF MAX_SYMBOLIC_ANCESTOR_DEPTH
<1>1. PICK f : Follows(f, s, D) /\ Ancestors(s) = f[D]
  BY AncestorsFollowed
<1> HIDE DEF D
<1> DEFINE Exact(P) ==
             \A q \in P : q[1] \in Symbols /\ TypeOf(q[1]) = TypeOf(s) /\ q[2] = Val(run, s) - Val(run, q[1])
           S == {n \in Nat : n <= D => Exact(f[n])}
<1>2. ASSUME NEW P, Exact(P)
      PROVE  Exact(Further(s, P))
  <2> SUFFICES ASSUME NEW q \in Further(s, P)
               PROVE  q[1] \in Symbols /\ TypeOf(q[1]) = TypeOf(s) /\ q[2] = Val(run, s) - Val(run, q[1])
    OBVIOUS
  <2>0. PICK o \in P : \E v \in DOMAIN dom[o[1]].bounds :
           /\ TypeOf(v) = TypeOf(s) /\ IsSingleElement(dom[o[1]].bounds[v])
           /\ q = <<v, o[2] + SVal(dom[o[1]].bounds[v].lower, dom[o[1]].numeric.half)>>
    BY DEF Further
  <2>1. PICK v \in DOMAIN dom[o[1]].bounds :
           /\ TypeOf(v) = TypeOf(s) /\ IsSingleElement(dom[o[1]].bounds[v])
           /\ q = <<v, o[2] + SVal(dom[o[1]].bounds[v].lower, dom[o[1]].numeric.half)>>
    BY <2>0
  <2>2. o[1] \in Symbols /\ TypeOf(o[1]) = TypeOf(s) /\ o[2] = Val(run, s) - Val(run, o[1])
    BY <1>2
  <2> DEFINE h == TypeOf(s).half
             b == dom[o[1]].bounds[v]
             x == Val(run, o[1]) - Val(run, v)
  <2>3. /\ h \in Nat \ {0, 1} /\ b \in RangesOf(h) /\ x \in Int /\ Contains(b, Clamped(x, h))
        /\ v \in Symbols /\ dom[o[1]].numeric.half = h
    BY <2>2, FitParts, RunParts
  <2>4. ~IsEnd(b)
    BY <2>2 DEF KnowsEnd
  <2>5. IsSingleElement(b)
    BY <2>1
  <2>6. Val(run, s) \in Int /\ Val(run, o[1]) \in Int /\ Val(run, v) \in Int
    BY <2>2, <2>3, RunParts
  <2>7. q[1] = v /\ q[2] = o[2] + SVal(b.lower, h)
    BY <2>1, <2>3
  <2> HIDE DEF b, h
  <2>8. SVal(b.lower, h) = x
    <3> HIDE DEF x
    <3> QED
      BY <2>3, <2>4, <2>5, AmountExact
  <2>9. q[2] = Val(run, s) - Val(run, v)
    BY <2>2, <2>6, <2>7, <2>8
  <2> QED
    BY <2>1, <2>3, <2>7, <2>9
<1>3. ASSUME NEW n \in Nat, \A m \in 0 .. n - 1 : m \in S
      PROVE  n \in S
  <2> SUFFICES ASSUME n <= D
               PROVE  Exact(f[n])
    OBVIOUS
  <2>1. CASE n = 0
    <3>1. f[n] = {<<s, 0>>}
      <4>1. n \in 0 .. D
        BY <1>0, <2>1
      <4> QED
        BY <1>1, <2>1, <4>1 DEF Follows
    <3>2. Val(run, s) \in Int
      BY RunParts
    <3> QED
      BY <3>1, <3>2
  <2>2. CASE n # 0
    <3>1. n - 1 \in 0 .. n - 1 /\ n - 1 <= D /\ n \in 0 .. D
      BY <1>0, <2>2
    <3>2. Exact(f[n - 1])
      BY <1>3, <3>1
    <3>3. f[n] = f[n - 1] \union Further(s, f[n - 1])
      BY <1>1, <2>2, <3>1, Zenon DEF Follows
    <3>4. Exact(Further(s, f[n - 1]))
      BY <1>2, <3>2
    <3> QED
      BY <3>2, <3>3, <3>4
  <2> QED
    BY <2>1, <2>2
<1> HIDE DEF S
<1>4. D \in S
  BY <1>0, <1>3, NumbersByInduction
<1>5. Exact(f[D])
  BY <1>0, <1>4 DEF S
<1> QED
  BY <1>1, <1>5

\* The difference of two values that follows from the values both derive from.
LEMMA CommonDifferenceExact ==
  ASSUME Sources, NEW run, Executes(run), Fit(dom, run), NEW s \in Symbols, NEW t \in Symbols,
         TypeOf(s) = TypeOf(t), ~TypeOf(s).unsigned, \A u \in Symbols : ~KnowsEnd(u),
         NEW d \in CommonSymbolDifference(s, t)
  PROVE  d = Val(run, s) - Val(run, t)
<1>1. d \in {x[1][2] - x[2][2] : x \in {y \in Ancestors(s) \X Ancestors(t) : y[1][1] = y[2][1]}}
  BY Zenon DEF CommonSymbolDifference
<1>2. PICK x \in Ancestors(s) \X Ancestors(t) : x[1][1] = x[2][1] /\ d = x[1][2] - x[2][2]
  BY <1>1
<1>3. x[1] \in Ancestors(s) /\ x[2] \in Ancestors(t)
  OBVIOUS
<1>4. x[1][1] \in Symbols /\ x[1][2] = Val(run, s) - Val(run, x[1][1]) /\ x[2][2] = Val(run, t) - Val(run, x[2][1])
  BY <1>3, AncestorsDiffer
<1>5. Val(run, s) \in Int /\ Val(run, t) \in Int /\ Val(run, x[1][1]) \in Int
  BY <1>4, RunParts
<1> QED
  BY <1>2, <1>4, <1>5

-----------------------------------------------------------------------------
(* Binary expressions, in one execution.                                    *)

\* What the theorems on sums and differences ask of two operands.
LEMMA OperandsOf ==
  ASSUME Sources, NEW run, Executes(run), Fit(dom, run), NEW s \in Symbols, NEW t \in Symbols, TypeOf(s) = TypeOf(t)
  PROVE  Operands(dom[s], dom[t], s, t, run[s], run[t], ValuesOf(run), TypeOf(s).unsigned, TypeOf(s).half)
<1>1. /\ ValuesOf(run)[s] = Order(TypeOf(s).unsigned, run[s], TypeOf(s).half)
      /\ ValuesOf(run)[t] = Order(TypeOf(s).unsigned, run[t], TypeOf(s).half)
      /\ ValuesOf(run)[s] = ValueIn(run[s], TypeOf(s)) /\ ValuesOf(run)[t] = ValueIn(run[t], TypeOf(s))
  BY RunParts
<1>2. \A u \in DOMAIN dom[s].bounds \union DOMAIN dom[t].bounds : ValuesOf(run)[u] \in Int
  BY FitParts, RunParts
<1>3. /\ Describes(dom[s], run[s], DifferencesOf(dom[s], ValuesOf(run)[s], ValuesOf(run), TypeOf(s).half))
      /\ Describes(dom[t], run[t], DifferencesOf(dom[t], ValuesOf(run)[t], ValuesOf(run), TypeOf(s).half))
  BY <1>1 DEF Fit, IsDomainOf
<1> QED
  BY <1>1, <1>2, <1>3 DEF Operands

\* The domain of a sum or of a difference bounds it by its operands only.
LEMMA SumBounds ==
  ASSUME NEW c, NEW d, NEW l, NEW r, NEW ov, NEW unsigned
  PROVE  /\ DOMAIN ComputeAdd(c, d, l, r, ov, unsigned).bounds \subseteq {l, r}
         /\ DOMAIN ComputeSub(c, d, l, r, ov, unsigned).bounds \subseteq {l, r}
         /\ ComputeAdd(c, d, l, r, ov, unsigned).unsigned = unsigned
         /\ ComputeSub(c, d, l, r, ov, unsigned).unsigned = unsigned
<1>1. \A n : DOMAIN Bare(n, unsigned).bounds = {} /\ Bare(n, unsigned).unsigned = unsigned
  BY DEF Bare, Domain, NoBounds
<1>2. \A n, b : Domain(n, b, unsigned).bounds = b /\ Domain(n, b, unsigned).unsigned = unsigned
  BY DEF Domain
<1>3. /\ DOMAIN ComputeAdd(c, d, l, r, ov, unsigned).bounds \subseteq {l, r}
      /\ ComputeAdd(c, d, l, r, ov, unsigned).unsigned = unsigned
  <2> DEFINE addends == {p \in {<<l, c.numeric, d.numeric>>, <<r, d.numeric, c.numeric>>} :
                           ~IsSingleElement(p[2]) /\ ~IsFullSet(p[3]) /\ IsSymbolicBound(p[3], unsigned)}
             bounds == [s \in {p[1] : p \in addends} |-> IF s = l THEN d.numeric ELSE c.numeric]
  <2>1. \/ \E n : ComputeAdd(c, d, l, r, ov, unsigned) = Bare(n, unsigned)
        \/ \E n : ComputeAdd(c, d, l, r, ov, unsigned) = Domain(n, bounds, unsigned)
    BY Zenon DEF ComputeAdd
  <2>2. DOMAIN bounds \subseteq {l, r}
    OBVIOUS
  <2> HIDE DEF bounds
  <2> QED
    BY <1>1, <1>2, <2>1, <2>2
<1>4. /\ DOMAIN ComputeSub(c, d, l, r, ov, unsigned).bounds \subseteq {l, r}
      /\ ComputeSub(c, d, l, r, ov, unsigned).unsigned = unsigned
  <2> DEFINE bounds == [s \in {l} |-> Negate(d.numeric)]
  <2>1. \/ \E n : ComputeSub(c, d, l, r, ov, unsigned) = Bare(n, unsigned)
        \/ \E n : ComputeSub(c, d, l, r, ov, unsigned) = Domain(n, bounds, unsigned)
    BY Zenon DEF ComputeSub
  <2>2. DOMAIN bounds \subseteq {l, r}
    OBVIOUS
  <2> HIDE DEF bounds
  <2> QED
    BY <1>1, <1>2, <2>1, <2>2
<1> QED
  BY <1>3, <1>4

\* A domain that describes a result and bounds it by its operands is one of it.
LEMMA DescribedOf ==
  ASSUME Sources, NEW run, Executes(run), NEW s \in Symbols, NEW t \in Symbols, TypeOf(s) = TypeOf(t),
         NEW c \in DomainsOf(TypeOf(s).half, Symbols), c.unsigned = TypeOf(s).unsigned, DOMAIN c.bounds \subseteq {s, t},
         NEW v \in SIntPatterns(TypeOf(s).half),
         Describes(c, v, DifferencesOf(c, Order(TypeOf(s).unsigned, v, TypeOf(s).half), ValuesOf(run), TypeOf(s).half))
  PROVE  IsDomainOf(c, TypeOf(s), v, ValuesOf(run), Types)
<1>1. DOMAIN Types = Symbols /\ Types[s] = TypeOf(s) /\ Types[t] = TypeOf(s)
      /\ TypeOf(s).half \in Nat \ {0, 1} /\ TypeOf(s).unsigned \in BOOLEAN
  BY RunParts
<1>2. ValueIn(v, TypeOf(s)) = Order(TypeOf(s).unsigned, v, TypeOf(s).half)
  BY <1>1, ValueIsOrder
<1>3. \A u \in DOMAIN c.bounds : Types[u] = TypeOf(s)
  BY <1>1
<1> QED
  BY <1>1, <1>2, <1>3 DEF IsDomainOf

\* The sum and the difference of two values, outside the gaps.
LEMMA AdditionSound ==
  ASSUME Sources, NEW run, Executes(run), Fit(dom, run), NEW s \in Symbols, NEW t \in Symbols,
         TypeOf(s) = TypeOf(t), NEW ov \in Strategies,
         NEW v \in Outcome("ADD", Val(run, s), Val(run, t), TypeOf(s), ov),
         ComputeAdd(dom[s], dom[t], s, t, ov, TypeOf(s).unsigned) \in DomainsOf(TypeOf(s).half, Symbols)
  PROVE  IsDomainOf(ComputeAdd(dom[s], dom[t], s, t, ov, TypeOf(s).unsigned), TypeOf(s), v, ValuesOf(run), Types)
<1> DEFINE type == TypeOf(s)
           h == type.half
           u == type.unsigned
           sum == ComputeAdd(dom[s], dom[t], s, t, ov, u)
<1>1. /\ h \in Nat \ {0, 1} /\ u \in BOOLEAN /\ IsDomain(dom[s], h) /\ IsDomain(dom[t], h)
      /\ run[s] \in SIntPatterns(h) /\ run[t] \in SIntPatterns(h)
      /\ Val(run, s) = ValueIn(run[s], type) /\ Val(run, t) = ValueIn(run[t], type)
      /\ Val(run, s) \in Int /\ Val(run, t) \in Int
      /\ ValuesOf(run)[s] = Val(run, s) /\ ValuesOf(run)[t] = Val(run, t)
  BY RunParts, FitParts
<1>2. Operands(dom[s], dom[t], s, t, run[s], run[t], ValuesOf(run), u, h)
  BY OperandsOf
<1>3. /\ LeastOf(u, h) <= Val(run, s) /\ Val(run, s) <= GreatestOf(u, h)
      /\ LeastOf(u, h) <= Val(run, t) /\ Val(run, t) <= GreatestOf(u, h)
  BY <1>1, ValueIsOrder
<1>4. v \in Resulting(Val(run, s) + Val(run, t), type, ov)
  BY DEF Outcome
<1>5. IsOutcome(v, Val(run, s) + Val(run, t), u, ov, h) /\ v \in SIntPatterns(h)
  <2>1. -(2 * h) <= Val(run, s) + Val(run, t) /\ (IF u THEN Val(run, s) + Val(run, t) < 4 * h ELSE Val(run, s) + Val(run, t) < 2 * h)
    BY <1>1, <1>3 DEF LeastOf, GreatestOf
  <2>2. Val(run, s) + Val(run, t) \in Int
    BY <1>1
  <2> QED
    BY <1>1, <1>4, <2>1, <2>2, ResultIsOutcome DEF IsOutcome
<1>6. Describes(sum, v, DifferencesOf(sum, Order(u, v, h), ValuesOf(run), h))
  <2>1. s = t => dom[s] = dom[t]
    OBVIOUS
  <2>2. IsOutcome(v, ValuesOf(run)[s] + ValuesOf(run)[t], u, ov, h)
    BY <1>1, <1>5
  <2> HIDE DEF h, u, type
  <2> QED
    BY <1>1, <1>2, <2>1, <2>2, ComputeAddSound
<1>7. DOMAIN sum.bounds \subseteq {s, t} /\ sum.unsigned = u
  BY SumBounds
<1> HIDE DEF sum
<1> QED
  BY <1>5, <1>6, <1>7, DescribedOf DEF sum

\* The domain of a difference that does not use the common symbols.
LEMMA SubtractionSound ==
  ASSUME Sources, NEW run, Executes(run), Fit(dom, run), NEW s \in Symbols, NEW t \in Symbols,
         TypeOf(s) = TypeOf(t), NEW ov \in Strategies,
         ~LosesEnd("SUB", s, t), ~SubtractsUnsigned("SUB", s, t),
         NEW v \in Outcome("SUB", Val(run, s), Val(run, t), TypeOf(s), ov),
         ComputeSub(dom[s], dom[t], s, t, ov, TypeOf(s).unsigned) \in DomainsOf(TypeOf(s).half, Symbols)
  PROVE  IsDomainOf(ComputeSub(dom[s], dom[t], s, t, ov, TypeOf(s).unsigned), TypeOf(s), v, ValuesOf(run), Types)
<1> DEFINE type == TypeOf(s)
           h == type.half
           u == type.unsigned
           difference == ComputeSub(dom[s], dom[t], s, t, ov, u)
<1>1. /\ h \in Nat \ {0, 1} /\ u \in BOOLEAN /\ IsDomain(dom[s], h) /\ IsDomain(dom[t], h)
      /\ run[s] \in SIntPatterns(h) /\ run[t] \in SIntPatterns(h)
      /\ Val(run, s) = ValueIn(run[s], type) /\ Val(run, t) = ValueIn(run[t], type)
      /\ Val(run, s) \in Int /\ Val(run, t) \in Int
      /\ ValuesOf(run)[s] = Val(run, s) /\ ValuesOf(run)[t] = Val(run, t)
      /\ dom[s].numeric \in RangesOf(h) /\ dom[t].numeric \in RangesOf(h)
      /\ dom[s].numeric.half = h /\ dom[t].numeric.half = h
      /\ dom[s].unsigned = u /\ dom[t].unsigned = u
      /\ Contains(dom[s].numeric, run[s]) /\ Contains(dom[t].numeric, run[t])
  BY RunParts, FitParts
<1>2. Operands(dom[s], dom[t], s, t, run[s], run[t], ValuesOf(run), u, h)
  BY OperandsOf
<1>3. /\ LeastOf(u, h) <= Val(run, s) /\ Val(run, s) <= GreatestOf(u, h)
      /\ LeastOf(u, h) <= Val(run, t) /\ Val(run, t) <= GreatestOf(u, h)
      /\ (~u => Val(run, t) = SVal(run[t], h))
      /\ Val(run, s) = Order(u, run[s], h) /\ Val(run, t) = Order(u, run[t], h)
  BY <1>1, ValueIsOrder
<1>4. v \in Resulting(Val(run, s) - Val(run, t), type, ov)
  BY DEF Outcome
<1>5. IsOutcome(v, Val(run, s) - Val(run, t), u, ov, h) /\ v \in SIntPatterns(h)
  <2>1. -(2 * h) <= Val(run, s) - Val(run, t) /\ (IF u THEN Val(run, s) - Val(run, t) < 4 * h ELSE Val(run, s) - Val(run, t) < 2 * h)
    BY <1>1, <1>3 DEF LeastOf, GreatestOf
  <2>2. Val(run, s) - Val(run, t) \in Int
    BY <1>1
  <2> QED
    BY <1>1, <1>4, <2>1, <2>2, ResultIsOutcome DEF IsOutcome
<1>6. ASSUME ov = "THROWING", ~u, HasBound(dom[t], s)
      PROVE  v # SMinValue(h)
  <2> SUFFICES ASSUME v = SMinValue(h)
               PROVE  FALSE
    OBVIOUS
  <2>1. Val(run, t) - Val(run, s) = h
    <3>1. Order(u, v, h) = -h
      BY <1>1, <1>6 DEF Order, SVal, IsNeg, SMinValue
    <3>2. Fits(Val(run, s) - Val(run, t), type)
      BY <1>1, <1>4, <1>6, ResultingFact
    <3>3. Order(u, v, h) = Val(run, s) - Val(run, t)
      BY <1>1, <1>4, <3>2, ResultingFact
    <3> QED
      BY <1>1, <3>1, <3>3
  <2>2. Contains(dom[t].bounds[s], SMaxValue(h))
    <3>1. Contains(dom[t].bounds[s], Clamped(Val(run, t) - Val(run, s), h))
      BY <1>6, FitParts DEF HasBound
    <3>2. Clamped(Val(run, t) - Val(run, s), h) = SMaxValue(h)
      BY <1>1, <2>1 DEF Clamped
    <3> QED
      BY <3>1, <3>2
  <2>3. v = Minus(run[s], run[t], h)
    BY <1>1, <1>3, <1>5, <1>6, ModularOutcome
  <2>4. Contains(Sub(dom[s].numeric, dom[t].numeric), SMinValue(h))
    BY <1>1, <2>3, SubSound
  <2> QED
    BY <1>1, <1>6, <2>2, <2>4 DEF LosesEnd
<1>7. ASSUME ov = "THROWING"
      PROVE  IF u THEN run[t] < h
             ELSE run[t] = SMinValue(h) => IsFullSet(dom[t].numeric) \/ dom[t].numeric.lower = SMinValue(h)
  <2>1. CASE u
    <3>1. ~(UMaxOf(dom[t].numeric) > SMaxValue(h))
      BY <1>1, <2>1 DEF SubtractsUnsigned
    <3>2. run[t] <= UMaxOf(dom[t].numeric) /\ UMaxOf(dom[t].numeric) \in SIntPatterns(h)
      BY <1>1, UnsignedExtremes, ExtremesArePatterns
    <3> QED
      BY <1>1, <2>1, <3>1, <3>2 DEF SMaxValue, SIntPatterns
  <2>2. CASE ~u
    BY <1>1, <2>2 DEF LosesEnd
  <2> QED
    BY <2>1, <2>2
<1>8. Describes(difference, v, DifferencesOf(difference, Order(u, v, h), ValuesOf(run), h))
  <2>1. IsOutcome(v, ValuesOf(run)[s] - ValuesOf(run)[t], u, ov, h)
    BY <1>1, <1>5
  <2> HIDE DEF h, u, type
  <2> QED
    BY <1>1, <1>2, <1>6, <1>7, <2>1, ComputeSubSound
<1>9. DOMAIN difference.bounds \subseteq {s, t} /\ difference.unsigned = u
  BY SumBounds
<1> HIDE DEF difference
<1> QED
  BY <1>5, <1>8, <1>9, DescribedOf DEF difference

\* A domain without bounds that contains a pattern is one of it.
LEMMA UnboundedOf ==
  ASSUME NEW type, NEW val, NEW types, NEW v, NEW c \in DomainsOf(type.half, DOMAIN types),
         c.unsigned = type.unsigned, DOMAIN c.bounds = {}, Contains(c.numeric, v)
  PROVE  IsDomainOf(c, type, v, val, types)
BY DEF IsDomainOf, Describes

\* Products, quotients and remainders, outside the gap.
LEMMA ScalingSound ==
  ASSUME Sources, NEW run, Executes(run), Fit(dom, run), NEW s \in Symbols, NEW t \in Symbols,
         TypeOf(s) = TypeOf(t), NEW ov \in Strategies, NEW op \in {"MUL", "DIV", "MOD"}, ~LosesEnd(op, s, t),
         NEW v \in Outcome(op, Val(run, s), Val(run, t), TypeOf(s), ov), v \in SIntPatterns(TypeOf(s).half),
         ComputeArithmeticBinop(op, dom[s], dom[t], s, t, ov, TypeOf(s).unsigned) \in DomainsOf(TypeOf(s).half, Symbols)
  PROVE  IsDomainOf(ComputeArithmeticBinop(op, dom[s], dom[t], s, t, ov, TypeOf(s).unsigned),
                    TypeOf(s), v, ValuesOf(run), Types)
<1> DEFINE type == TypeOf(s)
           h == type.half
           u == type.unsigned
           c == dom[s]
           d == dom[t]
           made == ComputeArithmeticBinop(op, c, d, s, t, ov, u)
<1>1. /\ IsHalfModulus(h) /\ h \in Nat \ {0, 1} /\ u \in BOOLEAN /\ IsDomain(c, h) /\ IsDomain(d, h)
      /\ run[s] \in SIntPatterns(h) /\ run[t] \in SIntPatterns(h)
      /\ Val(run, s) = ValueIn(run[s], type) /\ Val(run, t) = ValueIn(run[t], type)
      /\ Contains(c.numeric, run[s]) /\ Contains(d.numeric, run[t])
      /\ c.numeric.half = h /\ c.unsigned = u /\ DOMAIN Types = Symbols
  BY RunParts, FitParts DEF IsType
<1>2. \A n : DOMAIN Bare(n, u).bounds = {} /\ Bare(n, u).unsigned = u /\ Bare(n, u).numeric = n
  BY DEF Bare, Domain, NoBounds
<1>3. v \in Outcome(op, ValueIn(run[s], type), ValueIn(run[t], type), type, ov)
  BY <1>1
<1> HIDE DEF c, d, h, u
<1>4. /\ op = "MUL" => made = ComputeMul(c, d, ov, u)
      /\ op = "DIV" => made = ComputeDiv(c, d, ov, u)
      /\ op = "MOD" => made = ComputeMod(c, d, u)
  BY DEF ComputeArithmeticBinop
<1>5. CASE op = "MUL"
  <2>1. Contains(ComputeMul(c, d, ov, u).numeric, v)
    <3> HIDE DEF type
    <3> QED
      BY <1>1, <1>3, <1>5, ProductSound DEF h, u
  <2>2. ComputeMul(c, d, ov, u).unsigned = u /\ DOMAIN ComputeMul(c, d, ov, u).bounds = {}
    BY <1>2 DEF ComputeMul
  <2> QED
    BY <1>1, <1>4, <1>5, <2>1, <2>2, UnboundedOf DEF c, d, h, u
<1>6. CASE op = "DIV"
  <2>1. u \/ ~(Contains(c.numeric, SMinValue(h)) /\ Contains(d.numeric, UMaxValue(h)))
    BY <1>1, <1>6 DEF LosesEnd, c, d, u
  <2>2. Contains(ComputeDiv(c, d, ov, u).numeric, v)
    <3> HIDE DEF type
    <3> QED
      BY <1>1, <1>3, <1>6, <2>1, QuotientSound DEF h, u
  <2>3. ComputeDiv(c, d, ov, u).unsigned = u /\ DOMAIN ComputeDiv(c, d, ov, u).bounds = {}
    BY <1>2 DEF ComputeDiv, Top
  <2> QED
    BY <1>1, <1>4, <1>6, <2>2, <2>3, UnboundedOf DEF c, d, h, u
<1>7. CASE op = "MOD"
  <2>1. Contains(ComputeMod(c, d, u).numeric, v)
    <3> HIDE DEF type
    <3> QED
      BY <1>1, <1>3, <1>7, QuotientSound DEF h, u
  <2>2. ComputeMod(c, d, u).unsigned = u /\ DOMAIN ComputeMod(c, d, u).bounds = {}
    BY <1>2 DEF ComputeMod
  <2> QED
    BY <1>1, <1>4, <1>7, <2>1, <2>2, UnboundedOf DEF c, d, h, u
<1> QED
  BY <1>5, <1>6, <1>7

\* In an execution whose values the domains describe, the domain of a binary
\* expression describes its value, by numeric range, by single values, by bounds or by
\* the difference from a common ancestor, outside the gaps ends and unsigned.
THEOREM BinarySound ==
  ASSUME DomainsLegal, Len(dom) \in Nat, Sources, NEW run, Executes(run), Fit(dom, run),
         NEW s \in Symbols, NEW t \in Symbols, TypeOf(s) = TypeOf(t), NEW ov \in Strategies, NEW op \in Operators,
         ~LosesEnd(op, s, t), ~SubtractsUnsigned(op, s, t),
         NEW v \in Outcome(op, Val(run, s), Val(run, t), TypeOf(s), ov)
  PROVE  v \in SIntPatterns(TypeOf(s).half) /\ IsDomainOf(BinaryRange(op, s, t, ov), TypeOf(s), v, ValuesOf(run), Types)
<1> DEFINE type == TypeOf(s)
           h == type.half
           x == ValueIn(dom[s].numeric.lower, type)
           y == ValueIn(dom[t].numeric.lower, type)
           common == IF op = "SUB" /\ ov = "THROWING" /\ ~dom[s].unsigned
                     THEN CommonSymbolDifference(s, t) ELSE {}
           chosen == CHOOSE d \in common : TRUE
           generic == ComputeArithmeticBinop(op, dom[s], dom[t], s, t, ov, dom[s].unsigned)
<1>1. /\ IsType(type) /\ h \in Nat \ {0, 1} /\ type.unsigned \in BOOLEAN /\ dom[s].unsigned = type.unsigned
      /\ Val(run, s) \in Int /\ Val(run, t) \in Int
      /\ Val(run, s) = ValueIn(run[s], type) /\ Val(run, t) = ValueIn(run[t], type)
      /\ IsSingleValue(dom[s]) => run[s] = dom[s].numeric.lower
      /\ IsSingleValue(dom[t]) => run[t] = dom[t].numeric.lower
      /\ dom[s].numeric.half = h
  BY RunParts, FitParts
<1>2. v \in SIntPatterns(h)
  BY <1>1, OutcomePatterns
<1>3. CASE common # {}
  <2>1. op = "SUB" /\ ov = "THROWING" /\ ~type.unsigned /\ chosen \in CommonSymbolDifference(s, t)
    BY <1>1, <1>3
  <2>2. \A w \in Symbols : ~KnowsEnd(w)
    BY <2>1 DEF LosesEnd
  <2>3. chosen = Val(run, s) - Val(run, t)
    <3> HIDE DEF chosen
    <3> QED
      BY <2>1, <2>2, CommonDifferenceExact
  <2>4. v = chosen % (2 * h)
    <3>1. v \in Resulting(chosen, type, ov)
      BY <2>1, <2>3 DEF Outcome
    <3>2. Resulting(chosen, type, ov) \subseteq {chosen % (2 * h)}
      <4> HIDE DEF chosen
      <4> QED
        BY <2>1 DEF Resulting
    <3> QED
      BY <3>1, <3>2
  <2>5. BinaryRange(op, s, t, ov) = Bare(Single(v, h), FALSE)
    <3>1. BinaryRange(op, s, t, ov) = Bare(Single(chosen % (2 * h), h), FALSE)
      BY <1>3, Zenon DEF BinaryRange
    <3> QED
      BY <2>4, <3>1
  <2>6. type.unsigned = FALSE
    BY <1>1, <2>1
  <2>7. Single(v, h) \in RangesOf(h) /\ Contains(Single(v, h), v)
    BY <1>1, <1>2, SingleHolds
  <2> QED
    BY <1>1, <1>2, <2>5, <2>6, <2>7, BareOf
<1>4. CASE common = {} /\ IsSingleValue(dom[s]) /\ IsSingleValue(dom[t])
  <2>1. BinaryRange(op, s, t, ov) = CheckSingleValueOverflow(op, s, t, ov)
    BY <1>4, Zenon DEF BinaryRange
  <2>2. \/ CheckSingleValueOverflow(op, s, t, ov) = Top(h, type.unsigned)
        \/ CheckSingleValueOverflow(op, s, t, ov) = SingleResult(Outcome(op, x, y, type, ov), type)
    BY Zenon DEF CheckSingleValueOverflow
  <2>3. Outcome(op, x, y, type, ov) = {v}
    BY <1>1, <1>4, OneOutcome
  <2> HIDE DEF x, y
  <2>4. IsDomainOf(Top(h, type.unsigned), type, v, ValuesOf(run), Types)
    BY <1>1, <1>2, TopOf
  <2>5. IsDomainOf(SingleResult(Outcome(op, x, y, type, ov), type), type, v, ValuesOf(run), Types)
    <3> DEFINE outcome == Outcome(op, x, y, type, ov)
    <3>1. outcome = {v}
      BY <2>3
    <3> HIDE DEF outcome
    <3>2. IsDomainOf(SingleResult(outcome, type), type, v, ValuesOf(run), Types)
      BY <1>1, <1>2, <3>1, SingleResultOf
    <3> QED
      BY <3>2 DEF outcome
  <2> QED
    BY <1>2, <2>1, <2>2, <2>4, <2>5
<1>5. CASE common = {} /\ ~(IsSingleValue(dom[s]) /\ IsSingleValue(dom[t]))
  <2>1. BinaryRange(op, s, t, ov) = generic
    BY <1>5, Zenon DEF BinaryRange
  <2>2. generic \in DomainsOf(h, Symbols)
    <3>1. op = "SUB" /\ ~dom[s].unsigned /\ HasBound(dom[t], s) => dom[t].bounds[s] # Single(SMinValue(h), h)
      BY <1>1 DEF LosesEnd
    <3>2. dom[s] \in DomainsOf(h, Symbols) /\ dom[t] \in DomainsOf(h, Symbols)
      BY SymbolParts
    <3> QED
      BY <1>1, <3>1, <3>2, BinopMade
  <2>3. CASE op = "ADD"
    <3>1. generic = ComputeAdd(dom[s], dom[t], s, t, ov, type.unsigned)
      BY <1>1, <2>3 DEF ComputeArithmeticBinop
    <3> HIDE DEF generic
    <3> QED
      BY <1>2, <2>1, <2>2, <2>3, <3>1, AdditionSound
  <2>4. CASE op = "SUB"
    <3>1. generic = ComputeSub(dom[s], dom[t], s, t, ov, type.unsigned)
      BY <1>1, <2>4 DEF ComputeArithmeticBinop
    <3> HIDE DEF generic
    <3> QED
      BY <1>2, <2>1, <2>2, <2>4, <3>1, SubtractionSound
  <2>5. CASE op \in {"MUL", "DIV", "MOD"}
    <3>1. generic = ComputeArithmeticBinop(op, dom[s], dom[t], s, t, ov, type.unsigned)
      BY <1>1
    <3> HIDE DEF generic
    <3> QED
      BY <1>2, <2>1, <2>2, <2>5, <3>1, ScalingSound
  <2>6. op = "ADD" \/ op = "SUB" \/ op \in {"MUL", "DIV", "MOD"}
    BY DEF Operators
  <2> QED
    BY <2>3, <2>4, <2>5, <2>6
<1> QED
  BY <1>3, <1>4, <1>5

-----------------------------------------------------------------------------
(* Narrowing by a constant, and what it was computed from.                  *)

\* The sources of the pairs P that are related to a constant too.
Derived(doms, rel, P) == UNION {SourceOf(doms, rel, p) : p \in P}

\* f collects the sources of s, which is rel v, up to n expressions back.
Derives(f, doms, s, rel, v, n) ==
    f = [m \in 0 .. n |-> IF m = 0 THEN {<<s, v>>} ELSE f[m - 1] \union Derived(doms, rel, f[m - 1])]

\* There is such a function, and NarrowByConstant takes its last value.
LEMMA SourcesDerived ==
  ASSUME NEW doms, NEW s, NEW rel, NEW v, NEW a \in Nat
  PROVE  \E f : Derives(f, doms, s, rel, v, a)
<1> DEFINE S == {n \in Nat : \E f : Derives(f, doms, s, rel, v, n)}
<1>1. ASSUME NEW n \in Nat, \A m \in 0 .. n - 1 : m \in S
      PROVE  n \in S
  <2>1. CASE n = 0
    <3> DEFINE f == [k \in 0 .. 0 |-> {<<s, v>>}]
    <3>1. Derives(f, doms, s, rel, v, 0)
      BY DEF Derives
    <3> QED
      BY <2>1, <3>1
  <2>2. CASE n # 0
    <3>1. n - 1 \in 0 .. n - 1
      BY <2>2
    <3>2. PICK f : Derives(f, doms, s, rel, v, n - 1)
      BY <1>1, <3>1
    <3> DEFINE g == [k \in 0 .. n |-> IF k = n THEN f[n - 1] \union Derived(doms, rel, f[n - 1]) ELSE f[k]]
    <3>3. ASSUME NEW k \in 0 .. n
          PROVE  g[k] = IF k = 0 THEN {<<s, v>>} ELSE g[k - 1] \union Derived(doms, rel, g[k - 1])
      <4>1. CASE k = 0
        <5>1. g[k] = f[0] /\ 0 \in 0 .. n - 1
          BY <2>2, <4>1
        <5>2. f[0] = {<<s, v>>}
          BY <3>2, <5>1 DEF Derives
        <5> QED
          BY <4>1, <5>1, <5>2
      <4>2. CASE k # 0
        <5>1. k - 1 \in 0 .. n - 1 /\ k - 1 \in 0 .. n /\ k - 1 # n
          BY <4>2
        <5>2. g[k - 1] = f[k - 1]
          BY <5>1
        <5>3. k # n => k \in 0 .. n - 1 /\ g[k] = f[k]
          OBVIOUS
        <5>4. k # n => f[k] = f[k - 1] \union Derived(doms, rel, f[k - 1])
          <6> SUFFICES ASSUME k # n PROVE f[k] = f[k - 1] \union Derived(doms, rel, f[k - 1])
            OBVIOUS
          <6> QED
            BY <3>2, <4>2, <5>3, Zenon DEF Derives
        <5>5. k = n => g[k] = f[k - 1] \union Derived(doms, rel, f[k - 1])
          OBVIOUS
        <5> QED
          BY <4>2, <5>2, <5>3, <5>4, <5>5, Zenon
      <4> QED
        BY <4>1, <4>2
    <3> HIDE DEF g
    <3>4. DOMAIN g = 0 .. n /\ g = [k \in 0 .. n |-> g[k]]
      BY DEF g
    <3>5. Derives(g, doms, s, rel, v, n)
      BY <3>3, <3>4, Zenon DEF Derives
    <3> QED
      BY <3>5
  <2> QED
    BY <2>1, <2>2
<1> HIDE DEF S
<1>2. a \in S
  BY <1>1, NumbersByInduction
<1> QED
  BY <1>2 DEF S

\* The domains after narrowing, by the pairs collected.
NarrowedBy(doms, rel, related) ==
    [t \in Symbols |->
        IF {c \in SIntPatterns(TypeOf(t).half) : <<t, c>> \in related} = {} THEN doms[t]
        ELSE Narrowed(doms[t], rel, CHOOSE c \in {c \in SIntPatterns(TypeOf(t).half) : <<t, c>> \in related} : TRUE)]

\* NarrowByConstant narrows by the pairs collected.
LEMMA NarrowedByDerived ==
  ASSUME NEW doms, NEW s \in Nat, NEW rel, NEW v
  PROVE  \E f : Derives(f, doms, s, rel, v, s) /\ NarrowByConstant(doms, s, rel, v) = NarrowedBy(doms, rel, f[s])
<1> DEFINE f == CHOOSE f : Derives(f, doms, s, rel, v, s)
<1>1. Derives(f, doms, s, rel, v, s)
  BY SourcesDerived
<1>2. NarrowByConstant(doms, s, rel, v) = NarrowedBy(doms, rel, f[s])
  BY DEF NarrowByConstant, NarrowedBy, Derives, Derived
<1> QED
  BY <1>1, <1>2

\* The pattern of a number that a type has.
LEMMA PatternOfNumber ==
  ASSUME NEW type, IsType(type), NEW x \in Int, Fits(x, type)
  PROVE  x % (2 * type.half) \in SIntPatterns(type.half) /\ ValueIn(x % (2 * type.half), type) = x
<1>1. type.half \in Nat \ {0, 1} /\ type.unsigned \in BOOLEAN
  BY DEF IsType, IsHalfModulus
<1>2. x % (2 * type.half) \in Resulting(x, type, "WRAPPING")
  BY DEF Resulting
<1>3. /\ x % (2 * type.half) \in SIntPatterns(type.half)
      /\ Order(type.unsigned, x % (2 * type.half), type.half) = x
  BY <1>1, <1>2, ResultingFact DEF Strategies
<1> QED
  BY <1>1, <1>3, ValueIsOrder

\* A widening cast keeps the value.
LEMMA WideningKeeps ==
  ASSUME Sources, NEW run, Executes(run), NEW s \in Symbols, IsWideningCast(s)
  PROVE  def[s].of \in Symbols /\ Val(run, def[s].of) = Val(run, s)
<1> DEFINE u == def[s].of
<1>1. u \in Symbols /\ TypeOf(u).unsigned = TypeOf(s).unsigned /\ TypeOf(u).half < TypeOf(s).half
  BY DEF IsWideningCast, Sources
<1>2. PICK ov \in Strategies : run[s] \in Resulting(Val(run, u), TypeOf(s), ov)
  BY DEF Executes, Gives, IsWideningCast
<1>3. /\ TypeOf(s).half \in Nat \ {0, 1} /\ TypeOf(s).unsigned \in BOOLEAN
      /\ TypeOf(u).half \in Nat \ {0, 1} /\ TypeOf(u).unsigned \in BOOLEAN
      /\ Val(run, u) \in Int /\ Val(run, u) = ValueIn(run[u], TypeOf(u)) /\ run[u] \in SIntPatterns(TypeOf(u).half)
      /\ Val(run, s) = Order(TypeOf(s).unsigned, run[s], TypeOf(s).half)
  BY <1>1, RunParts
<1>4. LeastOf(TypeOf(u).unsigned, TypeOf(u).half) <= Val(run, u) /\ Val(run, u) <= GreatestOf(TypeOf(u).unsigned, TypeOf(u).half)
  BY <1>3, ValueIsOrder
<1>5. Fits(Val(run, u), TypeOf(s))
  BY <1>1, <1>3, <1>4 DEF Fits, LeastOf, GreatestOf
<1>6. Order(TypeOf(s).unsigned, run[s], TypeOf(s).half) = Val(run, u)
  BY <1>2, <1>3, <1>5, ResultingFact
<1> QED
  BY <1>1, <1>3, <1>6

\* A sum of a value and a literal that does not overflow is the sum of their values.
LEMMA AffineKeeps ==
  ASSUME Sources, NEW run, Executes(run), NEW doms, Fit(doms, run), NEW s \in Symbols, IsNonWrappingAffine(doms, s)
  PROVE  /\ AffineSource(s) \in Symbols /\ TypeOf(AffineSource(s)) = TypeOf(s)
         /\ AffineOffset(s) \in Int /\ Val(run, s) = Val(run, AffineSource(s)) + AffineOffset(s)
<1> DEFINE l == def[s].left
           r == def[s].right
           h == TypeOf(s).half
           source == AffineSource(s)
           offset == AffineOffset(s)
<1>1. IsAffine(s) /\ def[s].kind = "binary" /\ ~TypeOf(s).unsigned /\ def[s].op \in {"ADD", "SUB"}
  BY DEF IsNonWrappingAffine, IsAffine
<1>2. l \in Symbols /\ r \in Symbols /\ TypeOf(l) = TypeOf(s) /\ TypeOf(r) = TypeOf(s)
  BY <1>1 DEF Sources
<1>3. /\ h \in Nat \ {0, 1} /\ TypeOf(s).unsigned \in BOOLEAN /\ Val(run, l) \in Int /\ Val(run, r) \in Int
      /\ Val(run, l) = SVal(run[l], h) /\ Val(run, r) = SVal(run[r], h)
      /\ Val(run, s) = Order(TypeOf(s).unsigned, run[s], h)
  BY <1>1, <1>2, RunParts
<1>4. /\ IsLiteral(l) => SVal(def[l].value, h) = Val(run, l)
      /\ IsLiteral(r) => SVal(def[r].value, h) = Val(run, r)
  BY <1>2, <1>3 DEF IsLiteral, Executes, Gives
<1>5. PICK ov \in Strategies : run[s] \in Outcome(def[s].op, Val(run, l), Val(run, r), TypeOf(s), ov)
  BY <1>1 DEF Executes, Gives
<1>6. /\ source \in Symbols /\ TypeOf(source) = TypeOf(s) /\ offset \in Int /\ Val(run, source) \in Int
      /\ run[s] \in Resulting(Val(run, source) + offset, TypeOf(s), ov)
  <2>1. CASE def[s].op = "ADD"
    <3>1. run[s] \in Resulting(Val(run, l) + Val(run, r), TypeOf(s), ov) /\ Val(run, l) + Val(run, r) = Val(run, r) + Val(run, l)
      BY <1>3, <1>5, <2>1 DEF Outcome
    <3>2. CASE IsLiteral(l)
      <4>1. source = r /\ offset = Val(run, l)
        BY <1>4, <2>1, <3>2 DEF AffineSource, AffineOffset
      <4> QED
        BY <1>2, <1>3, <3>1, <4>1
    <3>3. CASE ~IsLiteral(l)
      <4>1. IsLiteral(r)
        <5>1. "ADD" # "SUB"
          OBVIOUS
        <5>2. IsLiteral(l) # IsLiteral(r)
          BY <1>1, <2>1, <5>1 DEF IsAffine
        <5>3. IsLiteral(l) \in BOOLEAN /\ IsLiteral(r) \in BOOLEAN
          BY DEF IsLiteral
        <5> QED
          BY <3>3, <5>2, <5>3
      <4>2. source = l /\ offset = Val(run, r)
        BY <1>4, <2>1, <3>3, <4>1 DEF AffineSource, AffineOffset
      <4> QED
        BY <1>2, <1>3, <3>1, <4>2
    <3> QED
      BY <3>2, <3>3
  <2>2. CASE def[s].op = "SUB"
    <3>1. run[s] \in Resulting(Val(run, l) - Val(run, r), TypeOf(s), ov) /\ Val(run, l) - Val(run, r) = Val(run, l) + (-Val(run, r))
      BY <1>3, <1>5, <2>2 DEF Outcome
    <3>2. ~IsLiteral(l) /\ IsLiteral(r)
      BY <1>1, <2>2 DEF IsAffine
    <3>3. source = l /\ offset = -Val(run, r)
      BY <1>4, <2>2, <3>2 DEF AffineSource, AffineOffset
    <3> QED
      BY <1>2, <1>3, <3>1, <3>3
  <2> QED
    BY <1>1, <2>1, <2>2
<1> HIDE DEF source, offset
<1>7. Fits(Val(run, source) + offset, TypeOf(s))
  <2> DEFINE q == doms[source].numeric
  <2>1. /\ q \in RangesOf(h) /\ q.half = h /\ Contains(q, run[source]) /\ run[source] \in SIntPatterns(h)
        /\ Val(run, source) = SVal(run[source], h)
    BY <1>1, <1>6, FitParts, RunParts
  <2>2. SVal(SMinOf(q), h) <= Val(run, source) /\ Val(run, source) <= SVal(SMaxOf(q), h)
    BY <1>3, <2>1, SignedExtremes DEF Sle
  <2>3. SVal(SMinOf(q), h) \in Int /\ SVal(SMaxOf(q), h) \in Int
    BY <1>3, <2>1, ExtremesArePatterns, MagnitudeFact
  <2>4. Fits(SVal(SMinOf(q), h) + offset, TypeOf(s)) /\ Fits(SVal(SMaxOf(q), h) + offset, TypeOf(s))
    BY <2>1 DEF IsNonWrappingAffine, source, offset
  <2>5. /\ -h <= SVal(SMinOf(q), h) + offset /\ SVal(SMaxOf(q), h) + offset <= h - 1
    <3> HIDE DEF q
    <3> QED
      BY <1>1, <1>3, <2>4 DEF Fits
  <2>6. Val(run, source) + offset \in -h .. h - 1
    <3> HIDE DEF q
    <3> QED
      BY <1>3, <1>6, <2>2, <2>3, <2>5
  <2> QED
    BY <1>1, <2>6 DEF Fits
<1>8. Val(run, s) = Val(run, source) + offset
  <2>1. Val(run, source) + offset \in Int
    BY <1>6
  <2> QED
    BY <1>3, <1>6, <1>7, <2>1, ResultingFact
<1> QED
  BY <1>6, <1>8 DEF source, offset

\* A relation of numbers is kept when both are moved by the same amount.
LEMMA HoldsMoved ==
  ASSUME NEW rel \in Relations, NEW x \in Int, NEW y \in Int, NEW k \in Int, Holds(rel, x + k, y)
  PROVE  Holds(rel, x, y - k)
<1>1. \/ rel = "LT" \/ rel = "LE" \/ rel = "EQ" \/ rel = "GT" \/ rel = "GE" \/ rel = "NE"
  BY DEF Relations
<1>2. \A a, b : /\ Holds("LT", a, b) <=> a < b
                /\ Holds("LE", a, b) <=> a <= b
                /\ Holds("EQ", a, b) <=> a = b
                /\ Holds("GT", a, b) <=> a > b
                /\ Holds("GE", a, b) <=> a >= b
                /\ Holds("NE", a, b) <=> a # b
  BY DEF Holds
<1>3. CASE rel = "LT"
  BY <1>2, <1>3
<1>4. CASE rel = "LE"
  BY <1>2, <1>4
<1>5. CASE rel = "EQ"
  BY <1>2, <1>5
<1>6. CASE rel = "GT"
  BY <1>2, <1>6
<1>7. CASE rel = "GE"
  BY <1>2, <1>7
<1>8. CASE rel = "NE"
  BY <1>2, <1>8
<1> QED
  BY <1>1, <1>3, <1>4, <1>5, <1>6, <1>7, <1>8

\* The value of p is rel the constant of p in an execution.
Knows(run, rel, p) ==
    /\ p[1] \in Symbols /\ p[2] \in SIntPatterns(TypeOf(p[1]).half)
    /\ Holds(rel, Val(run, p[1]), ValueIn(p[2], TypeOf(p[1])))

\* The same is true of what that value was computed from.
LEMMA SourceKnows ==
  ASSUME Sources, NEW run, Executes(run), NEW doms, Fit(doms, run), NEW rel \in Relations,
         NEW p, Knows(run, rel, p), NEW q \in SourceOf(doms, rel, p)
  PROVE  Knows(run, rel, q)
<1> DEFINE s == p[1]
           value == ValueIn(p[2], TypeOf(s))
           at(source, x) == <<source, x % (2 * TypeOf(source).half)>>
<1>1. /\ s \in Symbols /\ p[2] \in SIntPatterns(TypeOf(s).half) /\ Holds(rel, Val(run, s), value)
      /\ IsType(TypeOf(s)) /\ TypeOf(s).half \in Nat \ {0, 1} /\ TypeOf(s).unsigned \in BOOLEAN
      /\ Val(run, s) \in Int
  BY RunParts DEF Knows
<1>2. value \in Int
  BY <1>1, ValueIsOrder
<1>3. ASSUME NEW source \in Symbols, NEW x \in Int, Fits(x, TypeOf(source)), Holds(rel, Val(run, source), x)
      PROVE  Knows(run, rel, at(source, x))
  <2>1. IsType(TypeOf(source))
    BY RunParts
  <2>2. /\ x % (2 * TypeOf(source).half) \in SIntPatterns(TypeOf(source).half)
        /\ ValueIn(x % (2 * TypeOf(source).half), TypeOf(source)) = x
    BY <1>3, <2>1, PatternOfNumber
  <2>3. at(source, x)[1] = source /\ at(source, x)[2] = x % (2 * TypeOf(source).half)
    OBVIOUS
  <2> QED
    BY <1>3, <2>2, <2>3, Zenon DEF Knows
<1>4. \/ IsWideningCast(s) /\ Fits(value, TypeOf(def[s].of)) /\ q = at(def[s].of, value)
      \/ /\ IsNonWrappingAffine(doms, s) /\ Fits(value - AffineOffset(s), TypeOf(s))
         /\ q = at(AffineSource(s), value - AffineOffset(s))
  <2> DEFINE wide == rel # "NE" /\ IsWideningCast(s) /\ Fits(value, TypeOf(def[s].of))
             affine == IsAffine(s) /\ IsNonWrappingAffine(doms, s) /\ Fits(value - AffineOffset(s), TypeOf(s))
  <2>1. SourceOf(doms, rel, p) = IF wide THEN {at(def[s].of, value)}
                                 ELSE IF affine THEN {at(AffineSource(s), value - AffineOffset(s))} ELSE {}
    BY Zenon DEF SourceOf
  <2>2. CASE wide
    BY <2>1, <2>2
  <2>3. CASE ~wide /\ affine
    BY <2>1, <2>3
  <2>4. CASE ~wide /\ ~affine
    BY <2>1, <2>4
  <2> QED
    BY <2>2, <2>3, <2>4
<1>5. CASE IsWideningCast(s) /\ Fits(value, TypeOf(def[s].of)) /\ q = at(def[s].of, value)
  <2>1. def[s].of \in Symbols /\ Val(run, def[s].of) = Val(run, s)
    BY <1>1, <1>5, WideningKeeps
  <2> QED
    BY <1>1, <1>2, <1>3, <1>5, <2>1
<1>6. CASE /\ IsNonWrappingAffine(doms, s) /\ Fits(value - AffineOffset(s), TypeOf(s))
           /\ q = at(AffineSource(s), value - AffineOffset(s))
  <2> DEFINE source == AffineSource(s)
             offset == AffineOffset(s)
  <2>1. /\ source \in Symbols /\ TypeOf(source) = TypeOf(s) /\ offset \in Int
        /\ Val(run, s) = Val(run, source) + offset
    BY <1>1, <1>6, AffineKeeps
  <2>2. Val(run, source) \in Int
    BY <2>1, RunParts
  <2>3. Holds(rel, Val(run, source), value - offset) /\ value - offset \in Int
    <3> HIDE DEF source, offset, value
    <3> QED
      BY <1>1, <1>2, <2>1, <2>2, HoldsMoved
  <2> QED
    BY <1>3, <1>6, <2>1, <2>3
<1> QED
  BY <1>4, <1>5, <1>6

\* The same is true of all the pairs collected.
LEMMA DerivedKnows ==
  ASSUME Sources, NEW run, Executes(run), NEW doms, Fit(doms, run), NEW rel \in Relations,
         NEW s, NEW v, Knows(run, rel, <<s, v>>), NEW a \in Nat, NEW f, Derives(f, doms, s, rel, v, a)
  PROVE  \A p \in f[a] : Knows(run, rel, p)
<1> DEFINE S == {n \in Nat : n <= a => \A p \in f[n] : Knows(run, rel, p)}
<1>1. ASSUME NEW n \in Nat, \A m \in 0 .. n - 1 : m \in S
      PROVE  n \in S
  <2> SUFFICES ASSUME n <= a, NEW p \in f[n] PROVE Knows(run, rel, p)
    OBVIOUS
  <2>1. n \in 0 .. a
    OBVIOUS
  <2>2. f[n] = IF n = 0 THEN {<<s, v>>} ELSE f[n - 1] \union Derived(doms, rel, f[n - 1])
    BY <2>1, Zenon DEF Derives
  <2>3. CASE n = 0
    BY <2>2, <2>3
  <2>4. CASE n # 0
    <3>1. n - 1 \in 0 .. n - 1 /\ n - 1 <= a
      BY <2>1, <2>4
    <3>2. \A q \in f[n - 1] : Knows(run, rel, q)
      BY <1>1, <3>1
    <3>3. CASE p \in f[n - 1]
      BY <3>2, <3>3
    <3>4. CASE p \in Derived(doms, rel, f[n - 1])
      <4>1. PICK q \in f[n - 1] : p \in SourceOf(doms, rel, q)
        BY <3>4, Zenon DEF Derived
      <4> QED
        BY <3>2, <4>1, SourceKnows
    <3> QED
      BY <2>2, <2>4, <3>3, <3>4
  <2> QED
    BY <2>3, <2>4
<1> HIDE DEF S
<1>2. a \in S
  BY <1>1, NumbersByInduction
<1> QED
  BY <1>2 DEF S

\* Narrowing a value by a constant it is related to keeps every domain right.
LEMMA ByConstantFits ==
  ASSUME Sources, NEW run, Executes(run), NEW doms, Fit(doms, run), NEW rel \in Relations,
         Symbols \subseteq Nat, NEW s \in Symbols, NEW v, Knows(run, rel, <<s, v>>)
  PROVE  Fit(NarrowByConstant(doms, s, rel, v), run)
<1>1. PICK f : Derives(f, doms, s, rel, v, s) /\ NarrowByConstant(doms, s, rel, v) = NarrowedBy(doms, rel, f[s])
  BY NarrowedByDerived
<1>2. \A p \in f[s] : Knows(run, rel, p)
  BY <1>1, DerivedKnows
<1> DEFINE narrowed == NarrowedBy(doms, rel, f[s])
           constants(t) == {c \in SIntPatterns(TypeOf(t).half) : <<t, c>> \in f[s]}
<1>3. DOMAIN narrowed = Symbols
  BY DEF NarrowedBy
<1>4. ASSUME NEW t \in Symbols
      PROVE  IsDomainOf(narrowed[t], TypeOf(t), run[t], ValuesOf(run), Types)
  <2>1. narrowed[t] = IF constants(t) = {} THEN doms[t]
                      ELSE Narrowed(doms[t], rel, CHOOSE c \in constants(t) : TRUE)
    BY DEF NarrowedBy
  <2>2. IsDomainOf(doms[t], TypeOf(t), run[t], ValuesOf(run), Types)
    BY FitParts
  <2>3. CASE constants(t) = {}
    BY <2>1, <2>2, <2>3
  <2>4. CASE constants(t) # {}
    <3> DEFINE k == CHOOSE c \in constants(t) : TRUE
    <3>1. k \in constants(t)
      BY <2>4
    <3>2. k \in SIntPatterns(TypeOf(t).half) /\ <<t, k>> \in f[s]
      BY <3>1
    <3> HIDE DEF k
    <3>3. Knows(run, rel, <<t, k>>)
      BY <1>2, <3>2
    <3>4. Holds(rel, Val(run, t), ValueIn(k, TypeOf(t)))
      BY <3>3 DEF Knows
    <3>5. /\ IsType(TypeOf(t)) /\ (\A u \in DOMAIN Types : ValuesOf(run)[u] \in Int)
          /\ run[t] \in SIntPatterns(TypeOf(t).half) /\ Val(run, t) = ValueIn(run[t], TypeOf(t))
      BY RunParts
    <3>6. IsDomainOf(Narrowed(doms[t], rel, k), TypeOf(t), run[t], ValuesOf(run), Types)
      BY <2>2, <3>2, <3>4, <3>5, ConstantNarrows
    <3> QED
      BY <2>1, <2>4, <3>6 DEF k
  <2> QED
    BY <2>3, <2>4
<1> QED
  BY <1>1, <1>3, <1>4 DEF Fit

\* A value known to be a constant is that constant.
LEMMA ConstantIsValue ==
  ASSUME Sources, NEW run, Executes(run), NEW doms, Fit(doms, run), NEW t \in Symbols,
         NEW v \in ConstantsOf(doms, t)
  PROVE  v = run[t] /\ ValueIn(v, TypeOf(t)) = Val(run, t) /\ v \in SIntPatterns(TypeOf(t).half)
<1>1. v = run[t]
  <2>1. CASE IsSingleValue(doms[t])
    BY <2>1, FitParts DEF ConstantsOf
  <2>2. CASE ~IsSingleValue(doms[t])
    BY <2>2 DEF ConstantsOf, IsLiteral, Executes, Gives
  <2> QED
    BY <2>1, <2>2
<1> QED
  BY <1>1, RunParts

\* So does narrowing by the constant that the other side is known to be.
LEMMA ByConstantsFits ==
  ASSUME Sources, NEW run, Executes(run), NEW doms, Fit(doms, run), NEW rel \in Relations,
         Symbols \subseteq Nat, NEW s \in Symbols, NEW t \in Symbols, TypeOf(s) = TypeOf(t),
         NEW known, Fit(known, run), Holds(rel, Val(run, s), Val(run, t))
  PROVE  Fit(NarrowByConstants(doms, s, rel, ConstantsOf(known, t)), run)
<1>1. CASE ConstantsOf(known, t) = {}
  BY <1>1 DEF NarrowByConstants
<1>2. CASE ConstantsOf(known, t) # {}
  <2> DEFINE v == CHOOSE v \in ConstantsOf(known, t) : TRUE
  <2>1. v \in ConstantsOf(known, t)
    BY <1>2
  <2> HIDE DEF v
  <2>2. ValueIn(v, TypeOf(t)) = Val(run, t) /\ v \in SIntPatterns(TypeOf(t).half)
    BY <2>1, ConstantIsValue
  <2>3. Knows(run, rel, <<s, v>>)
    BY <2>2 DEF Knows
  <2>4. Fit(NarrowByConstant(doms, s, rel, v), run)
    BY <2>3, ByConstantFits
  <2> QED
    BY <1>2, <2>4 DEF NarrowByConstants, v
<1> QED
  BY <1>1, <1>2

\* Narrowing a value by a symbol it is related to keeps every domain right.
LEMMA BySymbolFits ==
  ASSUME Sources, NEW run, Executes(run), NEW doms, Fit(doms, run), NEW rel \in Relations,
         NEW s \in Symbols, NEW t \in Symbols, TypeOf(s) = TypeOf(t), NEW type, type = TypeOf(s),
         Holds(rel, Val(run, s), Val(run, t)), type.unsigned => rel # "LE"
  PROVE  Fit(NarrowSIntValue(doms, s, FromSymbolic(rel, t, type.unsigned, type.half)), run)
<1> DEFINE constraint == FromSymbolic(rel, t, type.unsigned, type.half)
           narrowed == NarrowSIntValue(doms, s, constraint)
<1>1. DOMAIN doms = Symbols
  BY DEF Fit
<1>2. /\ DOMAIN narrowed = Symbols
      /\ narrowed[s] = IntersectForNarrowing(doms[s], constraint)
      /\ \A u \in Symbols : u # s => narrowed[u] = doms[u]
  <2> HIDE DEF constraint
  <2> QED
    BY <1>1 DEF NarrowSIntValue
<1>3. /\ DOMAIN Types = Symbols /\ (\A u \in DOMAIN Types : ValuesOf(run)[u] \in Int)
      /\ IsType(type) /\ run[s] \in SIntPatterns(type.half) /\ Val(run, s) = ValueIn(run[s], type)
      /\ ValuesOf(run)[t] = Val(run, t) /\ Types[t] = type
  BY RunParts
<1>4. IsDomainOf(doms[s], type, run[s], ValuesOf(run), Types)
  BY FitParts
<1>5. IsDomainOf(narrowed[s], type, run[s], ValuesOf(run), Types)
  BY <1>2, <1>3, <1>4, SymbolNarrows
<1>6. ASSUME NEW u \in Symbols
      PROVE  IsDomainOf(narrowed[u], TypeOf(u), run[u], ValuesOf(run), Types)
  <2>1. CASE u = s
    BY <1>5, <2>1
  <2>2. CASE u # s
    BY <1>2, <2>2, FitParts
  <2> QED
    BY <2>1, <2>2
<1> QED
  BY <1>2, <1>6 DEF Fit

\* So does narrowing both sides by each other.
LEMMA BySymbolsFits ==
  ASSUME Sources, NEW run, Executes(run), NEW doms, Fit(doms, run), NEW rel \in Relations,
         NEW s \in Symbols, NEW t \in Symbols, TypeOf(s) = TypeOf(t),
         Holds(rel, Val(run, s), Val(run, t)), s # t /\ TypeOf(s).unsigned => rel \notin {"LE", "GE"}
  PROVE  Fit(NarrowBySymbols(doms, s, t, rel), run)
<1> DEFINE type == TypeOf(s)
           left == NarrowSIntValue(doms, s, FromSymbolic(rel, t, type.unsigned, type.half))
           right == NarrowSIntValue(left, t, FromSymbolic(SwapOf(rel), s, type.unsigned, type.half))
<1>1. CASE s = t
  BY <1>1 DEF NarrowBySymbols
<1>2. CASE s # t
  <2>1. Fit(left, run)
    BY <1>2, BySymbolFits
  <2>2. Val(run, s) \in Int /\ Val(run, t) \in Int
    BY RunParts
  <2>3. SwapOf(rel) \in Relations /\ Holds(SwapOf(rel), Val(run, t), Val(run, s))
    BY <2>2, HoldsRelated
  <2>4. type.unsigned => SwapOf(rel) # "LE"
    BY <1>2 DEF SwapOf, Relations
  <2>5. Fit(right, run)
    <3> HIDE DEF left
    <3> QED
      BY <2>1, <2>3, <2>4, BySymbolFits
  <2>6. NarrowBySymbols(doms, s, t, rel) = right
    BY <1>2 DEF NarrowBySymbols
  <2> QED
    BY <2>5, <2>6
<1> QED
  BY <1>1, <1>2

\* In an execution whose values the domains describe and that takes an edge of a
\* comparison, the domains after ApplyIntComparisonConstraint describe them too: the
\* sides, and what they were cast or computed from, narrowed by constants and by
\* each other.
THEOREM ComparisonFits ==
  ASSUME Sources, NEW run, Executes(run), Fit(dom, run), NEW rel \in Relations,
         Symbols \subseteq Nat, NEW s \in Symbols, NEW t \in Symbols, TypeOf(s) = TypeOf(t),
         Holds(rel, Val(run, s), Val(run, t)), ~RelatesUnsigned(s, t, rel)
  PROVE  Fit(ApplyIntComparisonConstraint(dom, s, t, rel), run)
<1> DEFINE left == NarrowByConstants(dom, s, rel, ConstantsOf(dom, t))
           both == NarrowByConstants(left, t, SwapOf(rel), ConstantsOf(dom, s))
<1>1. Val(run, s) \in Int /\ Val(run, t) \in Int
  BY RunParts
<1>2. SwapOf(rel) \in Relations /\ Holds(SwapOf(rel), Val(run, t), Val(run, s))
  BY <1>1, HoldsRelated
<1>3. Fit(left, run)
  BY ByConstantsFits
<1>4. Fit(both, run)
  <2> HIDE DEF left
  <2> QED
    BY <1>2, <1>3, ByConstantsFits
<1>5. s # t /\ TypeOf(s).unsigned => rel \notin {"LE", "GE"}
  BY DEF RelatesUnsigned, TypeOf
<1>6. Fit(NarrowBySymbols(both, s, t, rel), run)
  <2> HIDE DEF both
  <2> QED
    BY <1>4, <1>5, BySymbolsFits
<1>7. ApplyIntComparisonConstraint(dom, s, t, rel) = NarrowBySymbols(both, s, t, rel)
  BY DEF ApplyIntComparisonConstraint
<1> QED
  BY <1>6, <1>7

-----------------------------------------------------------------------------
(* The steps keep the domains those of every execution.                     *)

\* A narrowed domain is signed as it was.
LEMMA NarrowedSigns ==
  ASSUME NEW c, c.unsigned \in BOOLEAN, NEW d, NEW rel, NEW v
  PROVE  /\ IntersectForNarrowing(c, d).unsigned = c.unsigned
         /\ Narrowed(c, rel, v).unsigned = c.unsigned
         /\ Join(c, d).unsigned = c.unsigned
<1>1. ASSUME NEW e
      PROVE  IntersectForNarrowing(c, e).unsigned = c.unsigned
  <2>1. Intersects(c, e).unsigned = c.unsigned
    BY MeetAndJoinParts
  <2>2. \A r : Bare(r, TRUE).unsigned = TRUE
    BY DEF Bare, Domain
  <2> QED
    BY <2>1, <2>2 DEF IntersectForNarrowing, NarrowedOrRetried
<1>2. ExcludeSIntConstant(c, v).unsigned = c.unsigned
  BY DEF ExcludeSIntConstant, Bottom, Bare, Domain
<1>3. Narrowed(c, rel, v).unsigned = c.unsigned
  BY <1>1, <1>2 DEF Narrowed
<1>4. Unions(c, d).unsigned = c.unsigned
  BY MeetAndJoinParts
<1>5. Join(c, d).unsigned = c.unsigned
  BY <1>4 DEF Join, JoinedOrKept
<1> QED
  BY <1>1, <1>3, <1>5

\* The domains doms are signed as the values are.
SignsKept(doms) == DOMAIN doms = Symbols /\ \A u \in Symbols : doms[u].unsigned = dom[u].unsigned

\* Narrowing by a constant changes no type.
LEMMA ConstantsSigned ==
  ASSUME DomainsLegal, NEW doms, SignsKept(doms), NEW s \in Nat, NEW rel, NEW constants
  PROVE  SignsKept(NarrowByConstants(doms, s, rel, constants))
<1>1. CASE constants = {}
  BY <1>1 DEF NarrowByConstants
<1>2. CASE constants # {}
  <2> DEFINE v == CHOOSE v \in constants : TRUE
  <2>1. NarrowByConstants(doms, s, rel, constants) = NarrowByConstant(doms, s, rel, v)
    BY <1>2 DEF NarrowByConstants
  <2> HIDE DEF v
  <2>2. PICK f : NarrowByConstant(doms, s, rel, v) = NarrowedBy(doms, rel, f[s])
    BY NarrowedByDerived
  <2> DEFINE narrowed == NarrowedBy(doms, rel, f[s])
             related(t) == {c \in SIntPatterns(TypeOf(t).half) : <<t, c>> \in f[s]}
  <2>3. DOMAIN narrowed = Symbols
    BY DEF NarrowedBy
  <2>4. ASSUME NEW t \in Symbols
        PROVE  narrowed[t].unsigned = dom[t].unsigned
    <3>1. narrowed[t] = IF related(t) = {} THEN doms[t]
                        ELSE Narrowed(doms[t], rel, CHOOSE c \in related(t) : TRUE)
      BY DEF NarrowedBy
    <3>2. doms[t].unsigned = dom[t].unsigned /\ dom[t].unsigned \in BOOLEAN
      BY SymbolParts DEF SignsKept
    <3> HIDE DEF related, narrowed
    <3> QED
      BY <3>1, <3>2, NarrowedSigns
  <2> QED
    BY <2>1, <2>2, <2>3, <2>4 DEF SignsKept
<1> QED
  BY <1>1, <1>2

\* Narrowing one value changes no type.
LEMMA ValueSigned ==
  ASSUME DomainsLegal, NEW doms, SignsKept(doms), NEW s \in Symbols, NEW constraint
  PROVE  SignsKept(NarrowSIntValue(doms, s, constraint))
<1> DEFINE narrowed == NarrowSIntValue(doms, s, constraint)
<1>1. /\ DOMAIN narrowed = Symbols
      /\ narrowed[s] = IntersectForNarrowing(doms[s], constraint)
      /\ \A u \in Symbols : u # s => narrowed[u] = doms[u]
  BY DEF NarrowSIntValue, SignsKept
<1>2. IntersectForNarrowing(doms[s], constraint).unsigned = dom[s].unsigned
  BY SymbolParts, NarrowedSigns DEF SignsKept
<1> HIDE DEF narrowed
<1>3. SignsKept(narrowed)
  BY <1>1, <1>2 DEF SignsKept
<1> QED
  BY <1>3 DEF narrowed

\* A comparison changes no type.
LEMMA ComparisonSigned ==
  ASSUME DomainsLegal, Symbols \subseteq Nat, NEW s \in Symbols, NEW t \in Symbols, NEW rel
  PROVE  SignsKept(ApplyIntComparisonConstraint(dom, s, t, rel))
<1> DEFINE left == NarrowByConstants(dom, s, rel, ConstantsOf(dom, t))
           both == NarrowByConstants(left, t, SwapOf(rel), ConstantsOf(dom, s))
           bySymbol(r, u) == FromSymbolic(r, u, TypeOf(s).unsigned, TypeOf(s).half)
           first == NarrowSIntValue(both, s, bySymbol(rel, t))
           second == NarrowSIntValue(first, t, bySymbol(SwapOf(rel), s))
<1>1. SignsKept(dom)
  BY DEF SignsKept, Symbols
<1>2. SignsKept(left)
  BY <1>1, ConstantsSigned
<1> HIDE DEF left
<1>3. SignsKept(both)
  BY <1>2, ConstantsSigned
<1>4. ApplyIntComparisonConstraint(dom, s, t, rel) = IF s = t THEN both ELSE second
  BY Zenon DEF ApplyIntComparisonConstraint, NarrowBySymbols, left
<1> HIDE DEF both, bySymbol
<1>5. SignsKept(first)
  BY <1>3, ValueSigned
<1> HIDE DEF first
<1>6. SignsKept(second)
  BY <1>5, ValueSigned
<1> QED
  BY <1>3, <1>4, <1>6

\* The domains are legal, and those of every execution.
Sound ==
    /\ RangesLegal
    /\ Sources
    /\ \A run \in runs : Executes(run) /\ Fit(dom, run)

\* What is known of the symbols.
LEMMA SoundParts ==
  ASSUME Sound
  PROVE  /\ RangesLegal /\ DomainsLegal /\ Sources /\ family \in DOMAIN Families
         /\ dom \in Seq(AnyDomain) /\ Symbols = 1 .. Len(dom) /\ Symbols \subseteq Nat /\ Len(dom) \in Nat
         /\ def \in Seq(Definitions) /\ Len(def) = Len(dom)
         /\ \A run \in runs : Executes(run) /\ Fit(dom, run) /\ run \in Seq(Int) /\ Len(run) = Len(dom)
BY DEF Sound, RangesLegal, Symbols

\* New domains that keep the types, right for the executions that are left.
LEMMA NarrowedSound ==
  ASSUME Sound, RangesLegal', dom' \in DomainMaps, SignsKept(dom'), UNCHANGED def, runs' \subseteq runs,
         \A run \in runs' : Fit(dom', run)
  PROVE  Sound'
<1>1. Symbols' = Symbols
  BY DEF SignsKept, Symbols
<1>2. ASSUME NEW u \in Symbols
      PROVE  TypeOf(u)' = TypeOf(u)
  <2>1. TypeOf(u).half \in Nat \ {0, 1} /\ TypeOf(u).unsigned = dom[u].unsigned
    BY SoundParts, SymbolParts
  <2>2. dom'[u] \in DomainsOf(TypeOf(u).half, Symbols) /\ dom'[u].unsigned = dom[u].unsigned
    BY DEF DomainMaps, SignsKept
  <2>3. dom'[u].numeric.half = TypeOf(u).half
    BY <2>1, <2>2, DomainParts
  <2>4. TypeOf(u).half = dom[u].numeric.half
    BY SoundParts, SymbolParts
  <2> QED
    BY <2>2, <2>3, <2>4 DEF TypeOf
<1>3. Sources'
  BY <1>1, <1>2, SoundParts DEF Sources
<1>4. ASSUME NEW run \in runs'
      PROVE  Executes(run)' /\ Fit(dom, run)'
  <2>1. Sources /\ Executes(run) /\ Fit(dom', run)
    BY SoundParts
  <2>2. \A u \in Symbols : Val(run, u)' = Val(run, u)
    BY <1>2 DEF Val
  <2>3. ASSUME NEW s \in Symbols
        PROVE  Gives(def[s], run, run[s], TypeOf(s))'
    <3>1. Gives(def[s], run, run[s], TypeOf(s))
      BY <2>1 DEF Executes
    <3>2. def'[s] = def[s] /\ TypeOf(s)' = TypeOf(s)
      BY <1>2
    <3>3. def[s].kind = "cast" => def[s].of \in Symbols
      BY <2>1 DEF Sources
    <3>4. def[s].kind = "binary" => def[s].left \in Symbols /\ def[s].right \in Symbols
      BY <2>1 DEF Sources
    <3> QED
      BY <2>2, <3>1, <3>2, <3>3, <3>4 DEF Gives
  <2>4. Executes(run)'
    BY <1>1, <2>3 DEF Executes
  <2>5. Types' = Types /\ ValuesOf(run)' = ValuesOf(run)
    BY <1>1, <1>2, <2>2 DEF Types, ValuesOf
  <2>6. Fit(dom, run)'
    BY <1>1, <1>2, <2>1, <2>5 DEF Fit
  <2> QED
    BY <2>4, <2>6
<1> QED
  BY <1>3, <1>4 DEF Sound

\* A bound by a symbol stays right when more symbols enter.
LEMMA DomainOfMore ==
  ASSUME NEW c, NEW type, type.half \in Nat \ {0, 1}, NEW v, NEW val, NEW types, IsDomainOf(c, type, v, val, types),
         NEW more, NEW wider, DOMAIN types \subseteq DOMAIN wider,
         \A t \in DOMAIN types : wider[t] = types[t] /\ more[t] = val[t]
  PROVE  IsDomainOf(c, type, v, more, wider)
<1>1. c \in DomainsOf(type.half, DOMAIN types) /\ c \in DomainsOf(type.half, DOMAIN wider)
  BY DomainsGrow DEF IsDomainOf
<1>2. DOMAIN c.bounds \subseteq DOMAIN types
  BY <1>1, DomainParts
<1>3. DifferencesOf(c, ValueIn(v, type), more, type.half) = DifferencesOf(c, ValueIn(v, type), val, type.half)
  BY <1>2 DEF DifferencesOf
<1> QED
  BY <1>1, <1>2, <1>3 DEF IsDomainOf

\* A value that an expression gives, with a domain that is right for it, enters.
LEMMA ValueSound ==
  ASSUME Sound, RangesLegal', NEW type, IsType(type), type = [half |-> type.half, unsigned |-> type.unsigned],
         NEW d \in DomainsOf(type.half, Symbols), d.unsigned = type.unsigned, NEW f \in Definitions,
         f.kind = "cast" => f.of \in Symbols,
         f.kind = "binary" => /\ f.left \in Symbols /\ f.right \in Symbols
                              /\ TypeOf(f.left) = type /\ TypeOf(f.right) = type,
         dom' = Append(dom, d), def' = Append(def, f),
         \A run \in runs' : \E q \in runs : \E v \in SIntPatterns(type.half) :
            run = Append(q, v) /\ Gives(f, q, v, type) /\ IsDomainOf(d, type, v, ValuesOf(q), Types)
  PROVE  Sound'
<1>0. PICK n \in Nat : n = Len(dom) + 1
  BY SoundParts
<1>1. /\ Symbols = 1 .. Len(dom) /\ Symbols \subseteq Nat /\ Len(dom) \in Nat /\ n \in Nat /\ n \notin Symbols
      /\ dom \in Seq(AnyDomain) /\ def \in Seq(Definitions) /\ Len(def) = Len(dom)
  BY <1>0, SoundParts
<1>2. type.half \in Nat \ {0, 1}
  BY DEF IsType, IsHalfModulus
<1>3. Symbols' = Symbols \union {n}
  <2>1. Len(dom') = n /\ DOMAIN dom' = 1 .. n
    BY <1>0, <1>1
  <2> QED
    BY <1>1, <2>1 DEF Symbols
<1>4. /\ dom'[n] = d /\ def'[n] = f
      /\ \A u \in Symbols : dom'[u] = dom[u] /\ def'[u] = def[u]
  BY <1>0, <1>1
<1>5. TypeOf(n)' = type
  <2>1. d.numeric.half = type.half
    BY <1>2, DomainParts
  <2>2. TypeOf(n)' = [half |-> type.half, unsigned |-> type.unsigned]
    <3>1. TypeOf(n)' = [half |-> dom'[n].numeric.half, unsigned |-> dom'[n].unsigned]
      BY DEF TypeOf
    <3> QED
      BY <1>4, <2>1, <3>1
  <2> QED
    BY <2>2
<1>6. \A u \in Symbols : TypeOf(u)' = TypeOf(u)
  BY <1>4 DEF TypeOf
<1>7. Sources'
  <2>1. ASSUME NEW s \in Symbols'
        PROVE  /\ IsType(TypeOf(s)')
               /\ def'[s].kind = "cast" => def'[s].of \in Symbols /\ def'[s].of < s
               /\ def'[s].kind = "binary" =>
                     /\ def'[s].left \in Symbols /\ def'[s].left < s /\ TypeOf(def'[s].left) = TypeOf(s)'
                     /\ def'[s].right \in Symbols /\ def'[s].right < s /\ TypeOf(def'[s].right) = TypeOf(s)'
    <3>1. CASE s \in Symbols
      <4>1. def'[s] = def[s] /\ TypeOf(s)' = TypeOf(s)
        BY <1>4, <1>6, <3>1
      <4> QED
        BY <3>1, <4>1, SoundParts DEF Sources
    <3>2. CASE s = n
      <4>1. def'[s] = f /\ TypeOf(s)' = type
        BY <1>4, <1>5, <3>2
      <4>2. \A u \in Symbols : u < s
        BY <1>0, <1>1, <3>2
      <4> QED
        BY <4>1, <4>2
    <3> QED
      BY <1>3, <3>1, <3>2
  <2> QED
    BY <1>3, <1>6, <2>1 DEF Sources
<1>8. ASSUME NEW run \in runs'
      PROVE  Executes(run)' /\ Fit(dom, run)'
  <2>1. PICK q \in runs : \E v \in SIntPatterns(type.half) :
           run = Append(q, v) /\ Gives(f, q, v, type) /\ IsDomainOf(d, type, v, ValuesOf(q), Types)
    OBVIOUS
  <2>2. PICK v \in SIntPatterns(type.half) :
           run = Append(q, v) /\ Gives(f, q, v, type) /\ IsDomainOf(d, type, v, ValuesOf(q), Types)
    BY <2>1
  <2>3. Sources /\ Executes(q) /\ Fit(dom, q) /\ q \in Seq(Int) /\ Len(q) = Len(dom)
    BY SoundParts
  <2>4. run[n] = v /\ \A u \in Symbols : run[u] = q[u]
    BY <1>0, <1>1, <2>2, <2>3
  <2>5. \A u \in Symbols : Val(run, u)' = Val(q, u)
    BY <1>6, <2>4 DEF Val
  <2>6. ASSUME NEW s \in Symbols'
        PROVE  Gives(def[s], run, run[s], TypeOf(s))'
    <3>1. CASE s \in Symbols
      <4>1. Gives(def[s], q, q[s], TypeOf(s))
        BY <2>3, <3>1 DEF Executes
      <4>2. def'[s] = def[s] /\ TypeOf(s)' = TypeOf(s) /\ run[s] = q[s]
        BY <1>4, <1>6, <2>4, <3>1
      <4>3. def[s].kind = "cast" => def[s].of \in Symbols
        BY <2>3, <3>1 DEF Sources
      <4>4. def[s].kind = "binary" => def[s].left \in Symbols /\ def[s].right \in Symbols
        BY <2>3, <3>1 DEF Sources
      <4> QED
        BY <2>5, <4>1, <4>2, <4>3, <4>4 DEF Gives
    <3>2. CASE s = n
      <4>1. def'[s] = f /\ TypeOf(s)' = type /\ run[s] = v
        BY <1>4, <1>5, <2>4, <3>2
      <4> QED
        BY <2>2, <2>5, <4>1 DEF Gives
    <3> QED
      BY <1>3, <3>1, <3>2
  <2>7. Executes(run)'
    BY <2>6 DEF Executes
  <2>8. /\ DOMAIN Types = Symbols /\ DOMAIN Types' = Symbols' /\ DOMAIN Types \subseteq DOMAIN Types'
        /\ \A t \in DOMAIN Types : Types'[t] = Types[t] /\ ValuesOf(run)'[t] = ValuesOf(q)[t]
    <3>1. DOMAIN Types = Symbols /\ DOMAIN Types' = Symbols' /\ DOMAIN Types \subseteq DOMAIN Types'
      BY <1>3 DEF Types
    <3>2. ASSUME NEW t \in Symbols
          PROVE  Types'[t] = Types[t] /\ ValuesOf(run)'[t] = ValuesOf(q)[t]
      BY <1>3, <1>6, <2>5 DEF Types, ValuesOf
    <3> QED
      BY <3>1, <3>2
  <2>9. ASSUME NEW s \in Symbols'
        PROVE  IsDomainOf(dom'[s], TypeOf(s)', run[s], ValuesOf(run)', Types')
    <3>1. CASE s \in Symbols
      <4>1. IsDomainOf(dom[s], TypeOf(s), q[s], ValuesOf(q), Types) /\ TypeOf(s).half \in Nat \ {0, 1}
        BY <2>3, <3>1, FitParts, RunParts
      <4>2. dom'[s] = dom[s] /\ TypeOf(s)' = TypeOf(s) /\ run[s] = q[s]
        BY <1>4, <1>6, <2>4, <3>1
      <4> QED
        BY <2>8, <4>1, <4>2, DomainOfMore
    <3>2. CASE s = n
      <4>1. dom'[s] = d /\ TypeOf(s)' = type /\ run[s] = v
        BY <1>4, <1>5, <2>4, <3>2
      <4> QED
        BY <1>2, <2>2, <2>8, <4>1, DomainOfMore
    <3> QED
      BY <1>3, <3>1, <3>2
  <2>10. Fit(dom, run)'
    BY <2>9 DEF Fit, Symbols
  <2> QED
    BY <2>7, <2>10
<1> QED
  BY <1>7, <1>8 DEF Sound

\* The entry of an operand.
LEMMA OperandSound ==
  ASSUME Sound, RangesLegal', NEW r \in Program.ranges, NEW kind \in Program.types, r.half = kind.half,
         Operand(r, kind.unsigned)
  PROVE  Sound'
<1> DEFINE type == [half |-> kind.half, unsigned |-> kind.unsigned]
           d == Bare(r, kind.unsigned)
           f == IF IsSingleElement(r) THEN [kind |-> "literal", value |-> r.lower] ELSE [kind |-> "operand"]
<1>1. r \in RangesOf(r.half) /\ IsHalfModulus(kind.half) /\ kind.unsigned \in BOOLEAN
  BY FamiliesAssumption, SoundParts DEF Program
<1>2. IsType(type) /\ type.half \in Nat \ {0, 1} /\ r \in RangesOf(type.half)
  BY <1>1 DEF IsType, IsHalfModulus
<1>3. d \in DomainsOf(type.half, Symbols) /\ d.unsigned = type.unsigned
  <2>1. d.unsigned = type.unsigned
    BY DEF Bare, Domain
  <2> QED
    BY <1>1, <1>2, <2>1, BareMade
<1>4. f \in Definitions /\ f.kind # "cast" /\ f.kind # "binary"
  <2>1. r.lower \in Nat
    BY <1>2 DEF RangesOf, SIntPatterns
  <2> QED
    BY <2>1 DEF Definitions
<1>5. /\ dom' = Append(dom, d) /\ def' = Append(def, f)
      /\ runs' = {Append(run, v) : run \in runs, v \in ElementsOf(r)}
  BY DEF Operand
<1>6. ASSUME NEW q \in runs, NEW v \in ElementsOf(r)
      PROVE  v \in SIntPatterns(type.half) /\ Gives(f, q, v, type) /\ IsDomainOf(d, type, v, ValuesOf(q), Types)
  <2>1. v \in SIntPatterns(type.half) /\ Contains(r, v)
    BY DEF ElementsOf
  <2>2. f.kind = "literal" => v = f.value
    BY <1>2, <2>1, SingleContains
  <2>3. Gives(f, q, v, type)
    <3> HIDE DEF f, type
    <3> QED
      BY <1>4, <2>1, <2>2 DEF Gives
  <2>4. IsDomainOf(Bare(r, type.unsigned), type, v, ValuesOf(q), Types)
    BY <1>2, <2>1, BareOf
  <2> QED
    BY <2>1, <2>3, <2>4
<1>7. type = [half |-> type.half, unsigned |-> type.unsigned]
  OBVIOUS
<1> HIDE DEF type, d, f
<1>8. \A run \in runs' : \E q \in runs : \E v \in SIntPatterns(type.half) :
         run = Append(q, v) /\ Gives(f, q, v, type) /\ IsDomainOf(d, type, v, ValuesOf(q), Types)
  BY <1>5, <1>6
<1> QED
  BY <1>2, <1>3, <1>4, <1>5, <1>7, <1>8, ValueSound

\* A unary expression.
LEMMA UnaryStep ==
  ASSUME Sound, RangesLegal', KnownGaps = {}, NEW s \in Symbols, NEW ov \in Strategies, NEW op \in {"NEG", "BITNOT"},
         HandleUnaryExpr(op, s, ov)
  PROVE  Sound'
<1> DEFINE d == IF op = "NEG" THEN ComputeNegRange(s, ov) ELSE ComputeBitNotRange(s)
           f == [kind |-> "unary"]
<1>1. ~LosesEnd(op, s, s)
  BY DEF HandleUnaryExpr, Reachable
<1>2. /\ IsType(TypeOf(s)) /\ TypeOf(s).half \in Nat \ {0, 1}
      /\ TypeOf(s) = [half |-> TypeOf(s).half, unsigned |-> TypeOf(s).unsigned]
  <2>1. TypeOf(s) = [half |-> TypeOf(s).half, unsigned |-> TypeOf(s).unsigned]
    BY DEF TypeOf
  <2> QED
    BY <2>1, SoundParts, SymbolParts DEF Sources
<1>3. d \in DomainsOf(TypeOf(s).half, Symbols)
  BY <1>1, SoundParts, UnaryMade
<1>4. f \in Definitions /\ f.kind = "unary"
  BY DEF Definitions
<1>5. /\ dom' = Append(dom, d) /\ def' = Append(def, f)
      /\ runs' = UNION {{Append(run, v) : v \in UnaryOutcome(op, Val(run, s), TypeOf(s), ov)} : run \in runs}
  BY Zenon DEF HandleUnaryExpr, Define, Step
<1>6. ASSUME NEW q \in runs, NEW v \in UnaryOutcome(op, Val(q, s), TypeOf(s), ov)
      PROVE  /\ v \in SIntPatterns(TypeOf(s).half) /\ Gives(f, q, v, TypeOf(s))
             /\ IsDomainOf(d, TypeOf(s), v, ValuesOf(q), Types)
  <2>1. v \in SIntPatterns(TypeOf(s).half) /\ IsDomainOf(d, TypeOf(s), v, ValuesOf(q), Types)
    BY <1>1, SoundParts, UnarySound
  <2> QED
    BY <2>1 DEF Gives
<1> HIDE DEF d, f
<1>7. \A run \in runs' : \E q \in runs : \E v \in SIntPatterns(TypeOf(s).half) :
         /\ run = Append(q, v) /\ Gives(f, q, v, TypeOf(s))
         /\ IsDomainOf(d, TypeOf(s), v, ValuesOf(q), Types)
  BY <1>5, <1>6
<1>8. d.unsigned = TypeOf(s).unsigned
  BY DEF d, ComputeNegRange, ComputeBitNotRange, SingleResult, Bottom, Top, Bare, Domain, TypeOf
<1> QED
  BY <1>2, <1>3, <1>4, <1>5, <1>7, <1>8, ValueSound

\* A binary expression is signed as its operands.
LEMMA BinarySigned ==
  ASSUME DomainsLegal, NEW op \in Operators, NEW s \in Symbols, NEW t \in Symbols, NEW ov
  PROVE  BinaryRange(op, s, t, ov).unsigned = TypeOf(s).unsigned
<1> DEFINE c == dom[s]
           d == dom[t]
           unsigned == dom[s].unsigned
<1>1. unsigned \in BOOLEAN /\ TypeOf(s).unsigned = unsigned
  BY SymbolParts
<1>2. \A numeric, bounds, u : Domain(numeric, bounds, u).unsigned = u /\ Bare(numeric, u).unsigned = u
  BY DEF Domain, Bare
<1>3. \A h, u : Top(h, u).unsigned = u
  BY <1>2 DEF Top
<1>4. \A outcome, type : SingleResult(outcome, type).unsigned = type.unsigned
  BY <1>2, <1>3 DEF SingleResult
<1>5. CheckSingleValueOverflow(op, s, t, ov).unsigned = unsigned
  <2> DEFINE type == TypeOf(s)
             x == ValueIn(dom[s].numeric.lower, type)
             y == ValueIn(dom[t].numeric.lower, type)
             lost == op = "MOD" /\ ov = "THROWING" /\ ~type.unsigned /\ x = -type.half /\ y = -1
             top == Top(type.half, type.unsigned)
             single == SingleResult(Outcome(op, x, y, type, ov), type)
  <2>1. CheckSingleValueOverflow(op, s, t, ov) = IF lost THEN top ELSE single
    BY Zenon DEF CheckSingleValueOverflow
  <2>2. top.unsigned = unsigned /\ single.unsigned = unsigned
    BY <1>1, <1>3, <1>4
  <2> HIDE DEF top, single, lost
  <2> QED
    BY <2>1, <2>2
<1>6. ComputeArithmeticBinop(op, c, d, s, t, ov, unsigned).unsigned = unsigned
  <2> HIDE DEF unsigned, c, d
  <2>1. ComputeAdd(c, d, s, t, ov, unsigned).unsigned = unsigned
    BY <1>2, Zenon DEF ComputeAdd
  <2>2. ComputeSub(c, d, s, t, ov, unsigned).unsigned = unsigned
    BY <1>2 DEF ComputeSub
  <2>3. ComputeMul(c, d, ov, unsigned).unsigned = unsigned
    BY <1>2, Zenon DEF ComputeMul
  <2>4. ComputeDiv(c, d, ov, unsigned).unsigned = unsigned
    BY <1>2, <1>3, Zenon DEF ComputeDiv
  <2>5. ComputeMod(c, d, unsigned).unsigned = unsigned
    BY <1>2, Zenon DEF ComputeMod
  <2>6. op = "ADD" \/ op = "SUB" \/ op = "MUL" \/ op = "DIV" \/ op = "MOD"
    BY DEF Operators
  <2> QED
    BY <2>1, <2>2, <2>3, <2>4, <2>5, <2>6 DEF ComputeArithmeticBinop
<1> DEFINE common == IF op = "SUB" /\ ov = "THROWING" /\ ~dom[s].unsigned THEN CommonSymbolDifference(s, t) ELSE {}
           h == TypeOf(s).half
           one == Bare(Single((CHOOSE x \in common : TRUE) % (2 * h), h), FALSE)
           made == IF IsSingleValue(dom[s]) /\ IsSingleValue(dom[t]) THEN CheckSingleValueOverflow(op, s, t, ov)
                   ELSE ComputeArithmeticBinop(op, c, d, s, t, ov, unsigned)
<1>7. BinaryRange(op, s, t, ov) = IF common # {} THEN one ELSE made
  BY Zenon DEF BinaryRange
<1>8. made.unsigned = unsigned
  BY <1>5, <1>6
<1>9. common # {} => unsigned = FALSE
  BY <1>1
<1>10. one.unsigned = FALSE
  BY <1>2
<1> HIDE DEF one, made, common
<1> QED
  BY <1>1, <1>7, <1>8, <1>9, <1>10

\* A binary expression.
LEMMA BinaryStep ==
  ASSUME Sound, RangesLegal', KnownGaps = {}, NEW s \in Symbols, NEW t \in Symbols, NEW ov \in Strategies,
         NEW op \in Operators, HandleBinaryExpr(op, s, t, ov)
  PROVE  Sound'
<1> DEFINE d == BinaryRange(op, s, t, ov)
           f == [kind |-> "binary", op |-> op, left |-> s, right |-> t]
<1>1. ~LosesEnd(op, s, t) /\ ~SubtractsUnsigned(op, s, t) /\ TypeOf(s) = TypeOf(t)
  BY DEF HandleBinaryExpr, Reachable
<1>2. /\ IsType(TypeOf(s)) /\ TypeOf(s).half \in Nat \ {0, 1}
      /\ TypeOf(s) = [half |-> TypeOf(s).half, unsigned |-> TypeOf(s).unsigned]
  <2>1. TypeOf(s) = [half |-> TypeOf(s).half, unsigned |-> TypeOf(s).unsigned]
    BY DEF TypeOf
  <2> QED
    BY <2>1, SoundParts, SymbolParts DEF Sources
<1>3. d \in DomainsOf(TypeOf(s).half, Symbols)
  BY <1>1, SoundParts, BinaryMade
<1>4. f \in Definitions /\ f.kind = "binary" /\ f.op = op /\ f.left = s /\ f.right = t
  <2>1. s \in Nat /\ t \in Nat
    BY SoundParts
  <2> QED
    BY <2>1 DEF Definitions
<1>5. /\ dom' = Append(dom, d) /\ def' = Append(def, f)
      /\ runs' = UNION {{Append(run, v) : v \in Outcome(op, Val(run, s), Val(run, t), TypeOf(s), ov)} : run \in runs}
  BY Zenon DEF HandleBinaryExpr, Define, Step
<1>6. ASSUME NEW q \in runs, NEW v \in Outcome(op, Val(q, s), Val(q, t), TypeOf(s), ov)
      PROVE  /\ v \in SIntPatterns(TypeOf(s).half) /\ Gives(f, q, v, TypeOf(s))
             /\ IsDomainOf(d, TypeOf(s), v, ValuesOf(q), Types)
  <2>1. v \in SIntPatterns(TypeOf(s).half) /\ IsDomainOf(d, TypeOf(s), v, ValuesOf(q), Types)
    BY <1>1, SoundParts, BinarySound
  <2> HIDE DEF f
  <2> QED
    BY <1>4, <2>1 DEF Gives
<1> HIDE DEF d, f
<1>7. \A run \in runs' : \E q \in runs : \E v \in SIntPatterns(TypeOf(s).half) :
         /\ run = Append(q, v) /\ Gives(f, q, v, TypeOf(s))
         /\ IsDomainOf(d, TypeOf(s), v, ValuesOf(q), Types)
  BY <1>5, <1>6
<1>8. d.unsigned = TypeOf(s).unsigned
  BY SoundParts, BinarySigned DEF d
<1> QED
  BY <1>1, <1>2, <1>3, <1>4, <1>5, <1>7, <1>8, ValueSound

\* A cast.
LEMMA CastStep ==
  ASSUME Sound, RangesLegal', NEW s \in Symbols, NEW kind \in Program.types, NEW ov \in Strategies,
         HandleTypeCast(s, kind, ov)
  PROVE  Sound'
<1> DEFINE type == [half |-> kind.half, unsigned |-> kind.unsigned]
           d == ComputeTypeCast(s, type, ov)
           f == [kind |-> "cast", of |-> s]
<1>1. IsHalfModulus(kind.half) /\ kind.unsigned \in BOOLEAN
  BY FamiliesAssumption, SoundParts DEF Program
<1>2. IsType(type) /\ type.half \in Nat \ {0, 1} /\ type.unsigned \in BOOLEAN
  BY <1>1 DEF IsType, IsHalfModulus
<1>3. /\ d \in DomainsOf(type.half, Symbols)
      /\ type.unsigned = d.unsigned /\ type = [half |-> type.half, unsigned |-> type.unsigned]
  <2>1. d \in DomainsOf(type.half, Symbols)
    BY <1>2, SoundParts, CastMade
  <2>2. d.unsigned = type.unsigned
    BY DEF ComputeTypeCast, CastDomain, Bare, Domain
  <2> QED
    BY <2>1, <2>2
<1>4. f \in Definitions /\ f.kind = "cast" /\ f.of = s
  <2>1. s \in Nat
    BY SoundParts
  <2> QED
    BY <2>1 DEF Definitions
<1>5. /\ dom' = Append(dom, d) /\ def' = Append(def, f)
      /\ runs' = UNION {{Append(run, v) : v \in Resulting(Val(run, s), type, ov)} : run \in runs}
  <2>1. ComputeTypeCast(s, kind, ov) = d
    BY DEF ComputeTypeCast, CastDomain
  <2>2. \A x : Resulting(x, kind, ov) = Resulting(x, type, ov)
    BY DEF Resulting, Fits
  <2>3. /\ dom' = Append(dom, ComputeTypeCast(s, kind, ov)) /\ def' = Append(def, f)
        /\ runs' = UNION {{Append(run, v) : v \in Resulting(Val(run, s), kind, ov)} : run \in runs}
    BY Zenon DEF HandleTypeCast, Define, Step
  <2>4. ASSUME NEW run
        PROVE  {Append(run, v) : v \in Resulting(Val(run, s), kind, ov)} =
                 {Append(run, v) : v \in Resulting(Val(run, s), type, ov)}
    BY <2>2
  <2>5. UNION {{Append(run, v) : v \in Resulting(Val(run, s), kind, ov)} : run \in runs} =
          UNION {{Append(run, v) : v \in Resulting(Val(run, s), type, ov)} : run \in runs}
    <3> HIDE DEF type
    <3> QED
      BY <2>4
  <2> QED
    BY <2>1, <2>3, <2>5
<1>6. ASSUME NEW q \in runs, NEW v \in Resulting(Val(q, s), type, ov)
      PROVE  v \in SIntPatterns(type.half) /\ Gives(f, q, v, type) /\ IsDomainOf(d, type, v, ValuesOf(q), Types)
  <2>1. v \in SIntPatterns(type.half) /\ IsDomainOf(d, type, v, ValuesOf(q), Types)
    BY <1>2, SoundParts, CastSound
  <2> HIDE DEF f, type
  <2> QED
    BY <1>4, <2>1 DEF Gives
<1> HIDE DEF type, d, f
<1>7. \A run \in runs' : \E q \in runs : \E v \in SIntPatterns(type.half) :
         run = Append(q, v) /\ Gives(f, q, v, type) /\ IsDomainOf(d, type, v, ValuesOf(q), Types)
  BY <1>5, <1>6
<1> QED
  BY <1>2, <1>3, <1>4, <1>5, <1>7, ValueSound

\* A verdict on a comparison is that of every execution.
LEMMA VerdictHolds ==
  ASSUME Sound, NEW run \in runs, NEW s \in Symbols, NEW t \in Symbols, TypeOf(s) = TypeOf(t), NEW rel \in Relations,
         ~ComparesEnd(s, t), NEW verdict \in ComputeRelIntBinop(rel, dom[s], dom[t], s, t, dom[s].unsigned)
  PROVE  Truthful(verdict, Holds(rel, Val(run, s), Val(run, t)))
<1> DEFINE h == TypeOf(s).half
           val == ValuesOf(run)
<1>1. Sources /\ Executes(run) /\ Fit(dom, run)
  BY SoundParts
<1>2. /\ h \in Nat \ {0, 1} /\ run[s] \in SIntPatterns(h) /\ run[t] \in SIntPatterns(h)
      /\ val[s] = Val(run, s) /\ val[t] = Val(run, t) /\ Val(run, s) \in Int /\ Val(run, t) \in Int
  BY <1>1, RunParts
<1>3. IsDomain(dom[s], h) /\ IsDomain(dom[t], h)
  BY <1>1, FitParts
<1>4. Operands(dom[s], dom[t], s, t, run[s], run[t], val, dom[s].unsigned, h)
  BY <1>1, OperandsOf DEF TypeOf
<1>5. dom[s].unsigned \in BOOLEAN
  BY SoundParts, SymbolParts
<1>6. ASSUME NEW u \in DOMAIN dom[s].bounds \intersect DOMAIN dom[t].bounds
      PROVE  Tell(dom[s].bounds[u], val[s] - val[u], dom[t].bounds[u], val[t] - val[u], h)
  <2>1. ~IsEnd(dom[s].bounds[u]) /\ ~IsEnd(dom[t].bounds[u])
    BY DEF ComparesEnd
  <2>2. dom[s].bounds[u] \in RangesOf(h) /\ dom[t].bounds[u] \in RangesOf(h)
    BY <1>3 DEF IsDomain
  <2>3. dom[s].bounds[u].half = h /\ dom[t].bounds[u].half = h
    BY <2>2 DEF RangesOf
  <2> HIDE DEF h
  <2> QED
    BY <2>1, <2>3 DEF Tell, AtEnd, IsEnd
<1> HIDE DEF h, val
<1>7. Between(dom[s], dom[t], s, t, run[s], run[t], val, dom[s].unsigned, h)
  BY <1>4, <1>6 DEF Between
<1>8. Truthful(verdict, Related(rel, val[s], val[t]))
  BY <1>2, <1>3, <1>5, <1>7, VerdictSound
<1>9. Holds(rel, Val(run, s), Val(run, t)) <=> Related(rel, val[s], val[t])
  BY <1>2, HoldsRelated
<1> QED
  BY <1>8, <1>9 DEF Truthful

\* One edge of a branch.
LEMMA BranchSound ==
  ASSUME Sound, RangesLegal', KnownGaps = {}, NEW s \in Symbols, NEW t \in Symbols, NEW rel \in Relations,
         TakeBranch(s, t, rel)
  PROVE  Sound'
<1>1. /\ TypeOf(s) = TypeOf(t) /\ ~RelatesUnsigned(s, t, rel)
      /\ dom' = ApplyIntComparisonConstraint(dom, s, t, rel) /\ UNCHANGED def
      /\ runs' = {run \in runs : Holds(rel, Val(run, s), Val(run, t))}
  BY DEF TakeBranch, Reachable
<1>2. dom' \in DomainMaps /\ SignsKept(dom')
  BY <1>1, SoundParts, DomainsAreMaps, ComparisonNarrowed, ComparisonSigned
<1>3. \A run \in runs' : Fit(dom', run)
  BY <1>1, SoundParts, ComparisonFits
<1> QED
  BY <1>1, <1>2, <1>3, NarrowedSound

\* Both edges of a branch, joined, and the one edge that the verdict leaves.
LEMMA MergeSound ==
  ASSUME Sound, RangesLegal', KnownGaps = {}, NEW s \in Symbols, NEW t \in Symbols, NEW rel \in Relations,
         MergeBranch(s, t, rel)
  PROVE  Sound'
<1> DEFINE taken == ApplyIntComparisonConstraint(dom, s, t, rel)
           other == ApplyIntComparisonConstraint(dom, s, t, NegOf(rel))
           joined == [u \in Symbols |-> Join(taken[u], other[u])]
<1>1. /\ TypeOf(s) = TypeOf(t) /\ ~RelatesUnsigned(s, t, rel) /\ ~RelatesUnsigned(s, t, NegOf(rel))
      /\ ~ComparesEnd(s, t) /\ UNCHANGED <<def, runs>> /\ NegOf(rel) \in Relations
  BY DEF MergeBranch, Reachable, NegOf, Relations
<1>2. PICK verdict \in ComputeRelIntBinop(rel, dom[s], dom[t], s, t, dom[s].unsigned) :
         \/ verdict = "true" /\ dom' = taken
         \/ verdict = "false" /\ dom' = other
         \/ (\A u \in Symbols : ~KeepsBounds(taken[u], other[u])) /\ dom' = joined
  BY DEF MergeBranch, Reachable
<1>3. taken \in DomainMaps /\ SignsKept(taken) /\ other \in DomainMaps /\ SignsKept(other)
  BY <1>1, SoundParts, DomainsAreMaps, ComparisonNarrowed, ComparisonSigned
<1>4. ASSUME NEW run \in runs
      PROVE  /\ Holds(rel, Val(run, s), Val(run, t)) => Fit(taken, run)
             /\ ~Holds(rel, Val(run, s), Val(run, t)) => Fit(other, run)
             /\ Truthful(verdict, Holds(rel, Val(run, s), Val(run, t)))
  <2>1. Sources /\ Executes(run) /\ Fit(dom, run) /\ Symbols \subseteq Nat
    BY SoundParts
  <2>2. Val(run, s) \in Int /\ Val(run, t) \in Int
    BY <2>1, RunParts
  <2>3. ~Holds(rel, Val(run, s), Val(run, t)) => Holds(NegOf(rel), Val(run, s), Val(run, t))
    BY <2>2, HoldsRelated
  <2>4. Holds(rel, Val(run, s), Val(run, t)) => Fit(taken, run)
    BY <1>1, <2>1, ComparisonFits
  <2>5. ~Holds(rel, Val(run, s), Val(run, t)) => Fit(other, run)
    BY <1>1, <2>1, <2>3, ComparisonFits
  <2> QED
    BY <1>1, <2>4, <2>5, VerdictHolds
<1> HIDE DEF taken, other
<1>5. CASE verdict = "true" /\ dom' = taken
  <2>1. \A run \in runs' : Fit(dom', run)
    BY <1>1, <1>4, <1>5 DEF Truthful
  <2> QED
    BY <1>1, <1>3, <1>5, <2>1, NarrowedSound
<1>6. CASE verdict = "false" /\ dom' = other
  <2>1. \A run \in runs' : Fit(dom', run)
    BY <1>1, <1>4, <1>6 DEF Truthful
  <2> QED
    BY <1>1, <1>3, <1>6, <2>1, NarrowedSound
<1>7. CASE (\A u \in Symbols : ~KeepsBounds(taken[u], other[u])) /\ dom' = joined
  <2>1. ASSUME NEW u \in Symbols
        PROVE  /\ TypeOf(u).half \in Nat \ {0, 1}
               /\ taken[u] \in DomainsOf(TypeOf(u).half, Symbols) /\ other[u] \in DomainsOf(TypeOf(u).half, Symbols)
               /\ taken[u].unsigned = TypeOf(u).unsigned /\ taken[u].unsigned \in BOOLEAN
    BY <1>3, SoundParts, SymbolParts DEF DomainMaps, SignsKept
  <2>2. joined \in DomainMaps
    <3>1. \A u \in Symbols : Join(taken[u], other[u]) \in DomainsOf(TypeOf(u).half, Symbols)
      BY <2>1, JoinMade
    <3> QED
      BY <3>1 DEF DomainMaps
  <2>3. SignsKept(joined)
    <3>1. ASSUME NEW u \in Symbols
          PROVE  Join(taken[u], other[u]).unsigned = dom[u].unsigned
      BY <1>3, <2>1, NarrowedSigns DEF SignsKept
    <3> QED
      BY <3>1 DEF SignsKept
  <2>4. ASSUME NEW run \in runs
        PROVE  Fit(joined, run)
    <3>1. Sources /\ Executes(run)
      BY SoundParts
    <3>2. ASSUME NEW u \in Symbols
          PROVE  IsDomainOf(joined[u], TypeOf(u), run[u], ValuesOf(run), Types)
      <4>1. /\ IsType(TypeOf(u)) /\ (\A x \in DOMAIN Types : ValuesOf(run)[x] \in Int)
            /\ run[u] \in SIntPatterns(TypeOf(u).half) /\ DOMAIN Types = Symbols
        BY <3>1, RunParts
      <4>2. \/ IsDomainOf(taken[u], TypeOf(u), run[u], ValuesOf(run), Types)
            \/ IsDomainOf(other[u], TypeOf(u), run[u], ValuesOf(run), Types)
        BY <1>4 DEF Fit
      <4>3. IsDomainOf(Join(taken[u], other[u]), TypeOf(u), run[u], ValuesOf(run), Types)
        BY <1>7, <2>1, <4>1, <4>2, JoinKeeps
      <4> QED
        BY <4>3
    <3> QED
      BY <3>2 DEF Fit
  <2> HIDE DEF joined
  <2> QED
    BY <1>1, <1>7, <2>2, <2>3, <2>4, NarrowedSound
<1> QED
  BY <1>2, <1>5, <1>6, <1>7

\* Every step keeps the domains those of every execution.
LEMMA SoundInductive ==
  ASSUME Sound, KnownGaps = {}, [Next]_vars
  PROVE  Sound'
<1>1. RangesLegal'
  BY SoundParts, RangesLegalInductive
<1>2. Program.strategies \subseteq Strategies
  BY FamiliesAssumption, SoundParts DEF Program
<1>3. CASE UNCHANGED vars
  <2>1. UNCHANGED <<dom, def, runs>>
    BY <1>3 DEF vars
  <2>2. Sources'
    BY <2>1, SoundParts DEF Sources, TypeOf, Symbols
  <2>3. ASSUME NEW run \in runs'
        PROVE  Executes(run)' /\ Fit(dom, run)'
    <3>1. Executes(run) /\ Fit(dom, run)
      BY <2>1, SoundParts
    <3>2. Symbols' = Symbols /\ \A u : TypeOf(u)' = TypeOf(u)
      BY <2>1 DEF Symbols, TypeOf
    <3>3. \A u : Val(run, u)' = Val(run, u)
      BY <3>2 DEF Val
    <3>4. Executes(run)'
      BY <2>1, <3>1, <3>2, <3>3 DEF Executes, Gives
    <3>5. Types' = Types /\ ValuesOf(run)' = ValuesOf(run)
      BY <3>2, <3>3 DEF Types, ValuesOf
    <3> QED
      BY <2>1, <3>1, <3>2, <3>4, <3>5 DEF Fit
  <2> QED
    BY <1>1, <2>1, <2>2, <2>3 DEF Sound
<1>4. CASE \E r \in Program.ranges, type \in Program.types :
              r.half = type.half /\ Operand(r, type.unsigned)
  BY <1>1, <1>4, OperandSound
<1>5. CASE \E s \in Symbols, ov \in Program.strategies, op \in Program.operators :
              \/ op \in {"NEG", "BITNOT"} /\ HandleUnaryExpr(op, s, ov)
              \/ op = "CAST" /\ \E type \in Program.types : HandleTypeCast(s, type, ov)
              \/ op \in Operators /\ \E t \in Symbols : HandleBinaryExpr(op, s, t, ov)
  BY <1>1, <1>2, <1>5, UnaryStep, CastStep, BinaryStep
<1>6. CASE \E s, t \in Symbols, rel \in Relations : TakeBranch(s, t, rel) \/ MergeBranch(s, t, rel)
  BY <1>1, <1>6, BranchSound, MergeSound
<1> QED
  BY <1>3, <1>4, <1>5, <1>6 DEF Next

\* The domains are those of every execution, always.
LEMMA SoundAlways ==
  ASSUME KnownGaps = {}
  PROVE  Spec => []Sound
<1>1. Init => Sound
  BY DEF Init, Sound, RangesLegal, DomainsLegal, Sources, Executes, Fit, Symbols
<1>2. Sound /\ [Next]_vars => Sound'
  BY SoundInductive
<1> QED
  BY <1>1, <1>2, PTL DEF Spec

\* In every execution each value lies in the range the analysis gives it,
\* whatever wrapped, saturated, was cast, narrowed or merged on the way; for every
\* program that reaches none of the known gaps.
THEOREM ValuesInRanges ==
  ASSUME KnownGaps = {}
  PROVE  Spec => []RangesSound
<1>1. Sound => RangesSound
  <2> SUFFICES ASSUME Sound, NEW run \in runs, NEW s \in Symbols PROVE Contains(dom[s].numeric, run[s])
    BY DEF RangesSound
  <2> QED
    BY SoundParts, FitParts
<1> QED
  BY <1>1, SoundAlways, PTL

\* In every execution a value differs from each symbol it is bounded by as the
\* bound says; for every program that reaches none of the known gaps.
THEOREM DifferencesInBounds ==
  ASSUME KnownGaps = {}
  PROVE  Spec => []BoundsSound
<1>1. Sound => BoundsSound
  <2> SUFFICES ASSUME Sound, NEW run \in runs, NEW s \in Symbols, NEW t \in DOMAIN dom[s].bounds
               PROVE  Contains(dom[s].bounds[t], ClampedDifference(run, s, t))
    BY DEF BoundsSound
  <2> DEFINE h == TypeOf(s).half
             x == Val(run, s) - Val(run, t)
  <2>1. Contains(dom[s].bounds[t], Clamped(x, h)) /\ x \in Int
    BY SoundParts, FitParts
  <2>2. h \in Nat \ {0, 1} /\ h = dom[s].numeric.half
    BY SoundParts, SymbolParts
  <2>3. ClampedDifference(run, s, t) = IF x < -h THEN SMinValue(h) ELSE IF x >= h THEN SMaxValue(h) ELSE x % (2 * h)
    BY <2>2, Zenon DEF ClampedDifference
  <2> HIDE DEF x, h
  <2>4. ~(x < -h) /\ ~(x >= h) => x % (2 * h) = IF x < 0 THEN x + 2 * h ELSE x
    <3> DEFINE n == 2 * h
    <3>1. n \in Nat \ {0} /\ (~(x < -h) /\ ~(x >= h) => x \in 0 .. n - 1 \/ x \in -n .. -1)
      BY <2>1, <2>2
    <3>2. (x \in 0 .. n - 1 => x % n = x) /\ (x \in -n .. -1 => x % n = x + n)
      BY <2>1, <3>1, ModuloFact
    <3> QED
      BY <2>1, <3>1, <3>2
  <2> QED
    BY <2>1, <2>3, <2>4 DEF Clamped
<1> QED
  BY <1>1, SoundAlways, PTL

\* A comparison the analysis decides has that outcome in every execution,
\* whichever of the common symbols it is decided by; for every program that reaches
\* none of the known gaps.
THEOREM VerdictsHold ==
  ASSUME KnownGaps = {}
  PROVE  Spec => []VerdictsSound
<1>1. Sound => VerdictsSound
  <2> SUFFICES ASSUME Sound, NEW s \in Symbols, NEW t \in Symbols, NEW rel \in Relations,
                      TypeOf(s) = TypeOf(t), Reachable("ends", ComparesEnd(s, t)),
                      NEW verdict \in ComputeRelIntBinop(rel, dom[s], dom[t], s, t, dom[s].unsigned) \ {"unordered"},
                      NEW run \in runs
               PROVE  verdict \in Decided /\ verdict = FromBool(Holds(rel, Val(run, s), Val(run, t)))
    BY DEF VerdictsSound
  <2>1. ~ComparesEnd(s, t)
    BY DEF Reachable
  <2>2. Truthful(verdict, Holds(rel, Val(run, s), Val(run, t)))
    BY <2>1, VerdictHolds
  <2>3. verdict = "true" \/ verdict = "false"
    BY <2>2 DEF Truthful
  <2>4. verdict = "true" => Holds(rel, Val(run, s), Val(run, t))
    BY <2>2 DEF Truthful
  <2>5. verdict = "false" => ~Holds(rel, Val(run, s), Val(run, t))
    BY <2>2 DEF Truthful
  <2> QED
    BY <2>3, <2>4, <2>5 DEF Decided, FromBool
<1> QED
  BY <1>1, SoundAlways, PTL

=============================================================================
