--------------------------- MODULE RangeTransfer ---------------------------
(***************************************************************************)
(* The transfer functions of the range analysis on integers                *)
(* (CHIR/Analysis/ValueRangeAnalysis.cpp): a straight-line program of      *)
(* operands, unary, binary and cast expressions, branches on comparisons   *)
(* and the merges behind them.  A value is a symbol, the index at which it *)
(* was defined.  Beside the domains the analysis computes, runs keeps what *)
(* the values are in every execution that reaches this point.  Ranges are  *)
(* those too large for the exact sets the code keeps of small ones: only   *)
(* two single values are computed exactly.  Values come from no memory and *)
(* no loop, so that the shortcuts for those do not apply.                  *)
(***************************************************************************)
EXTENDS SIntDomain, Sequences, FiniteSets

CONSTANTS
    Families,    \* the families of programs: types, ranges, expressions, bounds
    KnownGaps    \* the known gaps of the rules that a program may reach

Operators == {"ADD", "SUB", "MUL", "DIV", "MOD"}
Gaps == {"ends", "unsigned", "join"}

\* A width of w bits is given by 2^(w - 1), half its modulus: a number that has
\* more bits than the one before it.
IsHalfModulus(h) == h \in Nat \ {0, 1} /\ ActiveBits(h - 1) < ActiveBits(h)

\* A family bounds the operands, the values and the steps of its programs.
ASSUME FamiliesAssumption ==
    \A f \in DOMAIN Families :
        /\ \A type \in Families[f].types : IsHalfModulus(type.half) /\ type.unsigned \in BOOLEAN
        /\ \A r \in Families[f].ranges : r.half \in Nat \ {0, 1} /\ r \in RangesOf(r.half)
        /\ Families[f].operators \subseteq Operators \union {"NEG", "BITNOT", "CAST"}
        /\ Families[f].strategies \subseteq Strategies
        /\ {Families[f].operands, Families[f].symbols, Families[f].steps} \subseteq Nat

ASSUME GapsAssumption == KnownGaps \subseteq Gaps

VARIABLES
    family, \* the family of the program
    dom,    \* the domain of each value, as the analysis knows it here
    def,    \* the expression that defines each value
    runs,   \* the patterns of the values, in each execution that gets here
    steps   \* the expressions, branches and merges so far

vars == <<family, dom, def, runs, steps>>

Program == Families[family]

Symbols == DOMAIN dom
TypeOf(s) == [half |-> dom[s].numeric.half, unsigned |-> dom[s].unsigned]

ElementsOf(r) == {v \in SIntPatterns(r.half) : Contains(r, v)}

ValueIn(pattern, type) == IF type.unsigned THEN pattern ELSE SVal(pattern, type.half)
Val(run, s) == ValueIn(run[s], TypeOf(s))

-----------------------------------------------------------------------------
(* What the program computes: the outcome of an operation, no pattern when  *)
(* it throws.                                                               *)

Fits(x, type) ==
    IF type.unsigned THEN x \in 0 .. 2 * type.half - 1 ELSE x \in -type.half .. type.half - 1

\* The exact result x under an overflow strategy.
Resulting(x, type, ov) ==
    LET end == IF x < 0
               THEN IF type.unsigned THEN 0 ELSE SMinValue(type.half)
               ELSE IF type.unsigned THEN UMaxValue(type.half) ELSE SMaxValue(type.half)
    IN  IF Fits(x, type) \/ ov = "WRAPPING" THEN {x % (2 * type.half)}
        ELSE IF ov = "SATURATING" THEN {end} ELSE {}

AbsOf(x) == IF x < 0 THEN -x ELSE x
Quotient(x, y) ==
    IF (x < 0) = (y < 0) THEN AbsOf(x) \div AbsOf(y) ELSE -(AbsOf(x) \div AbsOf(y))

Outcome(op, x, y, type, ov) ==
    CASE op = "ADD" -> Resulting(x + y, type, ov)
      [] op = "SUB" -> Resulting(x - y, type, ov)
      [] op = "MUL" -> Resulting(x * y, type, ov)
      [] op \in {"DIV", "MOD"} /\ y = 0 -> {}
      [] op = "DIV" /\ y # 0 -> Resulting(Quotient(x, y), type, ov)
      [] op = "MOD" /\ y # 0 -> Resulting(x - y * Quotient(x, y), type, ov)

UnaryOutcome(op, x, type, ov) ==
    IF op = "NEG" THEN Resulting(-x, type, ov) ELSE Resulting(-x - 1, type, "WRAPPING")

Holds(rel, x, y) ==
    CASE rel = "LT" -> x < y [] rel = "LE" -> x <= y [] rel = "EQ" -> x = y
      [] rel = "GT" -> x > y [] rel = "GE" -> x >= y [] rel = "NE" -> x # y

-----------------------------------------------------------------------------
(* The domain of the result of an expression.                               *)

\* Of two single values, or of one negated: the outcome, nothing if it throws.
SingleResult(outcome, type) ==
    IF outcome = {} THEN Top(type.half, type.unsigned)
    ELSE Bare(Single(CHOOSE v \in outcome : TRUE, type.half), type.unsigned)

ComputeNegRange(s, ov) ==
    LET c == dom[s]
        type == TypeOf(s)
    IN  CASE IsBottom(c) -> Bottom(type.half, type.unsigned)
          [] IsSingleValue(c) ->
                SingleResult(UnaryOutcome("NEG", ValueIn(c.numeric.lower, type), type, ov), type)
          [] ~IsBottom(c) /\ ~IsSingleValue(c) ->
                IF ov = "SATURATING" THEN Top(type.half, type.unsigned)
                ELSE Bare(Negate(c.numeric), type.unsigned)

\* ~x is -x - 1.
ComputeBitNotRange(s) ==
    IF IsBottom(dom[s]) THEN dom[s] ELSE Bare(Subtract(Negate(dom[s].numeric), 1), dom[s].unsigned)

\* Two single values: the smallest value modulo -1 is taken for an overflow.
CheckSingleValueOverflow(op, s, t, ov) ==
    LET type == TypeOf(s)
        x == ValueIn(dom[s].numeric.lower, type)
        y == ValueIn(dom[t].numeric.lower, type)
    IN  IF op = "MOD" /\ ov = "THROWING" /\ ~type.unsigned /\ x = -type.half /\ y = -1
        THEN Top(type.half, type.unsigned)
        ELSE SingleResult(Outcome(op, x, y, type, ov), type)

MAX_SYMBOLIC_ANCESTOR_DEPTH == 6
MAX_SYMBOLIC_ANCESTORS == 32

\* s and the values it differs from by one known amount, through chains of
\* bounds no longer than the limit, each with that amount.
Ancestors(s) ==
    LET exact(u) == {v \in DOMAIN dom[u].bounds :
                       TypeOf(v) = TypeOf(s) /\ IsSingleElement(dom[u].bounds[v])}
        amount(u, v) == SVal(dom[u].bounds[v].lower, dom[u].numeric.half)
        reached[n \in 0 .. MAX_SYMBOLIC_ANCESTOR_DEPTH] ==
            IF n = 0 THEN {<<s, 0>>}
            ELSE LET nearer == reached[n - 1]
                 IN  nearer \union
                     UNION {{<<v, p[2] + amount(p[1], v)>> : v \in exact(p[1])} : p \in nearer}
    IN  reached[MAX_SYMBOLIC_ANCESTOR_DEPTH]

\* The one difference of s and t that follows from every value both derive from.
CommonSymbolDifference(s, t) ==
    LET left == Ancestors(s)
        right == Ancestors(t)
        consistent(pairs) ==
            /\ Cardinality(pairs) <= MAX_SYMBOLIC_ANCESTORS
            /\ \A p \in pairs : Fits(p[2], TypeOf(s)) /\ \A q \in pairs : p[1] = q[1] => p = q
        differences == {d \in {x[1][2] - x[2][2] : x \in {y \in left \X right : y[1][1] = y[2][1]}} :
                          Fits(d, TypeOf(s))}
        generic == ComputeSub(dom[s], dom[t], s, t, "THROWING", FALSE).numeric
    IN  IF consistent(left) /\ consistent(right) /\ Cardinality(differences) = 1
        THEN {d \in differences : Contains(generic, d % (2 * TypeOf(s).half))}
        ELSE {}

BinaryRange(op, s, t, ov) ==
    LET common == IF op = "SUB" /\ ov = "THROWING" /\ ~dom[s].unsigned
                  THEN CommonSymbolDifference(s, t) ELSE {}
    IN  IF common # {}
        THEN Bare(Single((CHOOSE d \in common : TRUE) % (2 * TypeOf(s).half), TypeOf(s).half), FALSE)
        ELSE IF IsSingleValue(dom[s]) /\ IsSingleValue(dom[t])
        THEN CheckSingleValueOverflow(op, s, t, ov)
        ELSE ComputeArithmeticBinop(op, dom[s], dom[t], s, t, ov, dom[s].unsigned)

\* A value that is not negative keeps what is known of it against the symbols
\* that are not negative either, and equals the value it was cast from.
CastDomain(s, numeric, type, ov) ==
    LET c == dom[s]
        kept == {t \in DOMAIN c.bounds : IsNonNeg(SMinOf(dom[t].numeric), dom[t].numeric.half)}
    IN  IF \/ type.half < c.numeric.half \/ c.unsigned \/ ~type.unsigned
           \/ ov = "SATURATING" \/ IsNeg(SMinOf(numeric), type.half)
        THEN Bare(numeric, type.unsigned)
        ELSE Domain(numeric,
                    [t \in kept \union {s} |->
                        IF t = s THEN Single(0, type.half)
                        ELSE NumericConversionWithSameSigness(c.bounds[t], type.half, FALSE, "THROWING")],
                    type.unsigned)

ComputeTypeCast(s, type, ov) ==
    LET c == dom[s]
    IN  CastDomain(s, IF IsBottom(c) THEN Empty(type.half)
                      ELSE NumericConversion(c.numeric, type.half, c.unsigned, type.unsigned, ov),
                   type, ov)

-----------------------------------------------------------------------------
(* Narrowing by a comparison.  Every operator takes the domains before and  *)
(* returns those after.                                                     *)

\* An empty meet of unsigned values is tried again in the unsigned order.
NarrowedOrRetried(narrowed, retried, unsigned) ==
    IF ~IsBottom(narrowed) \/ ~unsigned \/ IsEmptySet(retried) THEN narrowed ELSE Bare(retried, TRUE)

IntersectForNarrowing(c, d) ==
    NarrowedOrRetried(Intersects(c, d), IntersectWith(c.numeric, d.numeric, "Unsigned"), c.unsigned)

NarrowSIntValue(doms, s, constraint) ==
    [doms EXCEPT ![s] = IntersectForNarrowing(@, constraint)]

ExcludeSIntConstant(c, v) ==
    IF c.numeric = Single(v, c.numeric.half) THEN Bottom(c.numeric.half, c.unsigned) ELSE c

\* Both types are signed or both unsigned and the source's is smaller.
IsWideningCast(s) ==
    /\ def[s].kind = "cast"
    /\ TypeOf(def[s].of).unsigned = TypeOf(s).unsigned
    /\ TypeOf(def[s].of).half < TypeOf(s).half

IsLiteral(s) == def[s].kind = "literal"

\* A signed sum or difference of one value and a literal.
IsAffine(s) ==
    /\ def[s].kind = "binary"
    /\ ~TypeOf(s).unsigned
    /\ \/ def[s].op = "ADD" /\ IsLiteral(def[s].left) # IsLiteral(def[s].right)
       \/ def[s].op = "SUB" /\ ~IsLiteral(def[s].left) /\ IsLiteral(def[s].right)

AffineSource(s) == IF IsLiteral(def[s].left) THEN def[s].right ELSE def[s].left
AffineOffset(s) ==
    LET literal == IF IsLiteral(def[s].left) THEN def[s].left ELSE def[s].right
        value == SVal(def[literal].value, TypeOf(s).half)
    IN  IF def[s].op = "ADD" THEN value ELSE -value

\* No value of the source, as it is known now, overflows with the offset.
IsNonWrappingAffine(doms, s) ==
    LET r == doms[AffineSource(s)].numeric
    IN  /\ IsAffine(s)
        /\ ~IsFullSet(r) /\ ~IsEmptySet(r) /\ ~IsWrappedSet(r) /\ ~IsSignWrappedSet(r)
        /\ Fits(SVal(SMinOf(r), r.half) + AffineOffset(s), TypeOf(s))
        /\ Fits(SVal(SMaxOf(r), r.half) + AffineOffset(s), TypeOf(s))

\* A value that is rel the constant v.
Narrowed(c, rel, v) ==
    IF rel = "NE" THEN ExcludeSIntConstant(c, v)
    ELSE IntersectForNarrowing(c, FromNumeric(rel, v, c.unsigned, c.numeric.half))

\* What the value of p, which is rel the constant of p, was cast from or computed
\* from, if that is then rel a constant too: the value, less what was added.
SourceOf(doms, rel, p) ==
    LET s == p[1]
        value == ValueIn(p[2], TypeOf(s))
        at(source, x) == {<<source, x % (2 * TypeOf(source).half)>>}
    IN  IF rel # "NE" /\ IsWideningCast(s) /\ Fits(value, TypeOf(def[s].of))
        THEN at(def[s].of, value)
        ELSE IF IsAffine(s) /\ IsNonWrappingAffine(doms, s) /\ Fits(value - AffineOffset(s), TypeOf(s))
        THEN at(AffineSource(s), value - AffineOffset(s))
        ELSE {}

\* s is rel the constant v; so is its source, the source of that, and so on.  A
\* source was defined before, and narrowing s does not change what is asked of it.
NarrowByConstant(doms, s, rel, v) ==
    LET sources[n \in 0 .. s] ==
            IF n = 0 THEN {<<s, v>>}
            ELSE LET known == sources[n - 1]
                 IN  known \union UNION {SourceOf(doms, rel, p) : p \in known}
        related == sources[s]
        constants(t) == {c \in SIntPatterns(TypeOf(t).half) : <<t, c>> \in related}
    IN  [t \in Symbols |->
            IF constants(t) = {} THEN doms[t]
            ELSE Narrowed(doms[t], rel, CHOOSE c \in constants(t) : TRUE)]

\* The constant a value is known to be, if any.
ConstantsOf(doms, s) ==
    IF IsSingleValue(doms[s]) THEN {doms[s].numeric.lower}
    ELSE IF IsLiteral(s) THEN {def[s].value} ELSE {}

NarrowByConstants(doms, s, rel, constants) ==
    IF constants = {} THEN doms ELSE NarrowByConstant(doms, s, rel, CHOOSE v \in constants : TRUE)

\* The two sides bound each other.
NarrowBySymbols(doms, s, t, rel) ==
    LET symbolic(r, u) == FromSymbolic(r, u, TypeOf(s).unsigned, TypeOf(s).half)
    IN  IF s = t THEN doms
        ELSE NarrowSIntValue(NarrowSIntValue(doms, s, symbolic(rel, t)), t, symbolic(SwapOf(rel), s))

\* s is rel t.  The constants are read before either side is narrowed.
ApplyIntComparisonConstraint(doms, s, t, rel) ==
    LET leftNarrowed == NarrowByConstants(doms, s, rel, ConstantsOf(doms, t))
    IN  NarrowBySymbols(NarrowByConstants(leftNarrowed, t, SwapOf(rel), ConstantsOf(doms, s)), s, t, rel)

\* The join keeps c, bounds and all, when the numeric range does not change.
JoinedOrKept(c, joined) ==
    IF IsSame(c, joined) /\ ~(IsFullSet(c.numeric) /\ DOMAIN c.bounds # {}) THEN c ELSE joined
Join(c, d) == JoinedOrKept(c, Unions(c, d))

-----------------------------------------------------------------------------
(* The gaps: where the rules are known to give a wrong result.              *)

\* A difference known to be an end of the order alone: the exact one may lie beyond.
IsEnd(r) == r \in {Single(SMinValue(r.half), r.half), Single(SMaxValue(r.half), r.half)}
KnowsEnd(s) == \E t \in DOMAIN dom[s].bounds : IsEnd(dom[s].bounds[t])
ComparesEnd(s, t) ==
    \E u \in DOMAIN dom[s].bounds \intersect DOMAIN dom[t].bounds :
        IsEnd(dom[s].bounds[u]) \/ IsEnd(dom[t].bounds[u])

\* ends: the smallest value is lost where a range is negated or divided, alone it
\* has no negation at all, and a difference clamped to an end of the order is
\* taken for an exact one, in a subtraction or in a comparison.
LosesEnd(op, s, t) ==
    LET a == dom[s].numeric
        b == dom[t].numeric
        smallest == SMinValue(a.half)
        greatest == SMaxValue(a.half)
    IN  \/ op \in {"NEG", "BITNOT"} /\ a.lower = smallest
        \/ op = "DIV" /\ ~dom[s].unsigned /\ Contains(a, smallest) /\ Contains(b, UMaxValue(a.half))
        \/ /\ op = "SUB" /\ ~IsFullSet(b)
           /\ Contains(b, smallest) /\ b.lower # smallest
        \/ /\ op = "SUB" /\ HasBound(dom[t], s)
           /\ \/ ~dom[s].unsigned /\ dom[t].bounds[s] = Single(smallest, a.half)
              \/ Contains(dom[t].bounds[s], greatest) /\ Contains(Sub(a, b), smallest)
        \/ op = "SUB" /\ \E u \in Symbols : KnowsEnd(u)

\* unsigned: the bounds of unsigned values are taken in the unsigned order and
\* read in the signed one, in which not above zero is not equal to zero.
RelatesUnsigned(s, t, rel) == dom[s].unsigned /\ s # t /\ rel \in {"LE", "GE"}
SubtractsUnsigned(op, s, t) ==
    op = "SUB" /\ dom[s].unsigned /\ UMaxOf(dom[t].numeric) > SMaxValue(dom[t].numeric.half)

\* join: the bounds of one side are kept when its numeric range covers the other's.
KeepsBounds(c, d) == IsSame(c, Unions(c, d)) /\ ~IsFullSet(c.numeric) /\ c.bounds # d.bounds

Reachable(gap, reached) == reached => gap \in KnownGaps

-----------------------------------------------------------------------------
(* The steps of a program.                                                  *)

\* A program of one step uses its operands, in the order they entered.
Step(s, t) ==
    /\ steps < Program.steps /\ steps' = steps + 1
    /\ Program.steps = 1 => {s, t} = Symbols /\ s <= t
    /\ UNCHANGED family

\* A value enters with a range: a parameter, one narrowed earlier, or a
\* literal, which a single value is taken to be.
Operand(r, unsigned) ==
    /\ steps = 0 /\ Len(dom) < Program.operands
    /\ dom' = Append(dom, Bare(r, unsigned))
    /\ def' = Append(def, IF IsSingleElement(r) THEN [kind |-> "literal", value |-> r.lower]
                                                ELSE [kind |-> "operand"])
    /\ runs' = {Append(run, v) : run \in runs, v \in ElementsOf(r)}
    /\ UNCHANGED <<family, steps>>

Define(s, t, d, definition, outcomes(_)) ==
    /\ Step(s, t) /\ Len(dom) < Program.symbols
    /\ dom' = Append(dom, d)
    /\ def' = Append(def, definition)
    /\ runs' = UNION {{Append(run, v) : v \in outcomes(run)} : run \in runs}

HandleUnaryExpr(op, s, ov) ==
    /\ Reachable("ends", LosesEnd(op, s, s))
    /\ LET outcomes(run) == UnaryOutcome(op, Val(run, s), TypeOf(s), ov)
       IN  Define(s, s, IF op = "NEG" THEN ComputeNegRange(s, ov) ELSE ComputeBitNotRange(s),
                  [kind |-> "unary"], outcomes)

HandleBinaryExpr(op, s, t, ov) ==
    /\ TypeOf(s) = TypeOf(t)
    /\ Reachable("ends", LosesEnd(op, s, t))
    /\ Reachable("unsigned", SubtractsUnsigned(op, s, t))
    /\ LET outcomes(run) == Outcome(op, Val(run, s), Val(run, t), TypeOf(s), ov)
       IN  Define(s, t, BinaryRange(op, s, t, ov),
                  [kind |-> "binary", op |-> op, left |-> s, right |-> t], outcomes)

HandleTypeCast(s, type, ov) ==
    LET outcomes(run) == Resulting(Val(run, s), type, ov)
    IN  Define(s, s, ComputeTypeCast(s, type, ov), [kind |-> "cast", of |-> s], outcomes)

\* One edge of a branch on s rel t.
TakeBranch(s, t, rel) ==
    /\ Step(s, t)
    /\ TypeOf(s) = TypeOf(t)
    /\ Reachable("unsigned", RelatesUnsigned(s, t, rel))
    /\ dom' = ApplyIntComparisonConstraint(dom, s, t, rel)
    /\ runs' = {run \in runs : Holds(rel, Val(run, s), Val(run, t))}
    /\ UNCHANGED def

\* Both edges, or the one that the verdict leaves, meet again.
MergeBranch(s, t, rel) ==
    /\ Step(s, t)
    /\ TypeOf(s) = TypeOf(t)
    /\ \A edge \in {rel, NegOf(rel)} : Reachable("unsigned", RelatesUnsigned(s, t, edge))
    /\ Reachable("ends", ComparesEnd(s, t))
    /\ \E taken \in {ApplyIntComparisonConstraint(dom, s, t, rel)},
          other \in {ApplyIntComparisonConstraint(dom, s, t, NegOf(rel))},
          verdict \in ComputeRelIntBinop(rel, dom[s], dom[t], s, t, dom[s].unsigned) :
             \/ verdict = "true" /\ dom' = taken
             \/ verdict = "false" /\ dom' = other
             \/ /\ verdict \notin Decided
                /\ Reachable("join", \E u \in Symbols : KeepsBounds(taken[u], other[u]))
                /\ dom' = [u \in Symbols |-> Join(taken[u], other[u])]
    /\ UNCHANGED <<def, runs>>

Init ==
    /\ family \in DOMAIN Families
    /\ dom = <<>> /\ def = <<>> /\ runs = {<<>>} /\ steps = 0

Next ==
    \/ \E r \in Program.ranges, type \in Program.types :
          r.half = type.half /\ Operand(r, type.unsigned)
    \/ \E s \in Symbols, ov \in Program.strategies, op \in Program.operators :
          \/ op \in {"NEG", "BITNOT"} /\ HandleUnaryExpr(op, s, ov)
          \/ op = "CAST" /\ \E type \in Program.types : HandleTypeCast(s, type, ov)
          \/ op \in Operators /\ \E t \in Symbols : HandleBinaryExpr(op, s, t, ov)
    \/ \E s, t \in Symbols, rel \in Relations : TakeBranch(s, t, rel) \/ MergeBranch(s, t, rel)

Spec == Init /\ [][Next]_vars

-----------------------------------------------------------------------------
(* Properties.                                                              *)

\* Every range the analysis computes, of a value or of a difference, is one
\* the constructor's assertion accepts, of the width of the value.
TypeOK ==
    /\ Len(def) = Len(dom)
    /\ \A s \in Symbols :
          /\ IsRange(dom[s].numeric)
          /\ DOMAIN dom[s].bounds \subseteq Symbols
          /\ \A t \in DOMAIN dom[s].bounds :
                IsRange(dom[s].bounds[t]) /\ dom[s].bounds[t].half = dom[s].numeric.half
    /\ \A run \in runs : Len(run) = Len(dom)

\* In every execution each value lies in the range the analysis gives it,
\* whatever wrapped, saturated, was cast, narrowed or merged on the way.
RangesSound ==
    \A run \in runs, s \in Symbols : Contains(dom[s].numeric, run[s])

\* The difference of two values, clamped to the signed values of the width.
ClampedDifference(run, s, t) ==
    LET h == dom[s].numeric.half
        x == Val(run, s) - Val(run, t)
    IN  IF x < -h THEN SMinValue(h) ELSE IF x >= h THEN SMaxValue(h) ELSE x % (2 * h)

\* In every execution a value differs from each symbol it is bounded by as the
\* bound says; a difference that leaves the width counts as the end it leaves by.
BoundsSound ==
    \A run \in runs, s \in Symbols : \A t \in DOMAIN dom[s].bounds :
        Contains(dom[s].bounds[t], ClampedDifference(run, s, t))

\* A comparison the analysis decides has that outcome in every execution,
\* whichever of the common symbols it is decided by, outside the gap ends.
VerdictsSound ==
    \A s, t \in Symbols, rel \in Relations :
        s # t /\ TypeOf(s) = TypeOf(t) /\ Reachable("ends", ComparesEnd(s, t)) =>
        \A verdict \in ComputeRelIntBinop(rel, dom[s], dom[t], s, t, dom[s].unsigned) \ {"unordered"} :
            \A run \in runs :
                verdict \in Decided /\ verdict = FromBool(Holds(rel, Val(run, s), Val(run, t)))

\* Where the exact result is no interval, the smallest cover is returned: no
\* range that covers the union, or the intersection, of two ranges is smaller.
CoversSmallest ==
    steps = 0 /\ Len(dom) = 2 /\ TypeOf(1) = TypeOf(2) =>
        LET a == dom[1].numeric
            b == dom[2].numeric
            smallest(r, exact) ==
                /\ exact \subseteq ElementsOf(r)
                /\ \A q \in RangesOf(a.half) :
                      exact \subseteq ElementsOf(q) => ~IsSizeStrictlySmallerThan(q, r)
        IN  /\ smallest(UnionWith(a, b, "Smallest"), ElementsOf(a) \union ElementsOf(b))
            /\ smallest(IntersectWith(a, b, "Smallest"), ElementsOf(a) \intersect ElementsOf(b))
=============================================================================
