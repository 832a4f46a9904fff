-------------------------- MODULE SIntDomain_proofs --------------------------
(***************************************************************************)
(* The set operations, the arithmetic and the comparisons of ranges, and   *)
(* the meet, the join, the sums, the differences and the verdicts of       *)
(* domains, for every width, every legal range and every pattern; then     *)
(* that every operation and every conversion gives a legal range, and what *)
(* the bits of a number tell of it.  A width enters as h, half of its      *)
(* modulus.                                                                *)
(*                                                                         *)
(* Ends restates what a legal range is, and Within what it contains, in    *)
(* linear arithmetic of its two ends; the cases of an operation are then   *)
(* decided on the ends.                                                    *)
(***************************************************************************)
EXTENDS SIntDomain, TLAPS, WellFoundedInduction

Ends(r, h) ==
    /\ r.lower \in Nat /\ r.lower < 2 * h
    /\ r.upper \in Nat /\ r.upper < 2 * h
    /\ r.half = h
    /\ r.lower = r.upper => r.lower = 0 \/ r.lower = 2 * h - 1

Within(l, u, v, h) ==
    \/ l < u /\ l <= v /\ v < u
    \/ u < l /\ (l <= v \/ v < u)
    \/ l = u /\ l = 2 * h - 1

\* The ends of a legal range.
LEMMA RangeEnds ==
  ASSUME NEW h \in Nat \ {0, 1}, NEW r \in RangesOf(h)
  PROVE  Ends(r, h)
BY DEF RangesOf, IsRange, SIntPatterns, UMaxValue, Ends

\* The fields of an interval.
LEMMA IntervalEnds ==
  ASSUME NEW l, NEW u, NEW h
  PROVE  Interval(l, u, h).lower = l /\ Interval(l, u, h).upper = u /\ Interval(l, u, h).half = h
BY DEF Interval

\* Two different ends make a range the constructor accepts.
LEMMA IntervalLegal ==
  ASSUME NEW h \in Nat \ {0, 1},
         NEW l \in SIntPatterns(h), NEW u \in SIntPatterns(h), l # u
  PROVE  Interval(l, u, h) \in RangesOf(h)
BY DEF RangesOf, IsRange, SIntPatterns, Interval

\* The empty and the full range are legal.
LEMMA ExtremesLegal ==
  ASSUME NEW h \in Nat \ {0, 1}
  PROVE  Empty(h) \in RangesOf(h) /\ Full(h) \in RangesOf(h)
BY DEF RangesOf, IsRange, SIntPatterns, Interval, Empty, Full, UMaxValue

\* Membership of a legal range is decided by its ends.
LEMMA ContainsIsWithin ==
  ASSUME NEW h \in Nat \ {0, 1}, NEW r \in RangesOf(h), NEW v \in SIntPatterns(h)
  PROVE  Contains(r, v) <=> Within(r.lower, r.upper, v, h)
<1>1. Ends(r, h)
  BY RangeEnds
<1>2. v \in Nat /\ v < 2 * h
  BY DEF SIntPatterns
<1>3. CASE r.lower = r.upper
  <2>1. ~(r.lower < r.upper) /\ ~(r.lower > r.upper)
    BY <1>1, <1>3 DEF Ends
  <2>2. Contains(r, v) <=> IsFullSet(r)
    BY <1>3, <2>1, Zenon DEF Contains
  <2> QED
    BY <1>1, <1>3, <2>2 DEF Ends, Within, IsFullSet, UMaxValue
<1>4. CASE r.lower < r.upper
  <2>1. r.lower # r.upper /\ ~(r.lower > r.upper)
    BY <1>1, <1>4 DEF Ends
  <2>2. Contains(r, v) <=> r.lower <= v /\ v < r.upper
    BY <1>4, <2>1, Zenon DEF Contains
  <2> QED
    BY <1>1, <1>2, <1>4, <2>2 DEF Ends, Within
<1>5. CASE r.lower > r.upper
  <2>1. r.lower # r.upper /\ ~(r.lower < r.upper)
    BY <1>1, <1>5 DEF Ends
  <2>2. Contains(r, v) <=> r.lower <= v \/ v < r.upper
    BY <1>5, <2>1, Zenon DEF Contains
  <2> QED
    BY <1>1, <1>2, <1>5, <2>2 DEF Ends, Within
<1> QED
  BY <1>1, <1>3, <1>4, <1>5 DEF Ends

\* The same of an interval built from its ends.
LEMMA IntervalIsWithin ==
  ASSUME NEW h \in Nat \ {0, 1},
         NEW l \in SIntPatterns(h), NEW u \in SIntPatterns(h), l # u, NEW v \in SIntPatterns(h)
  PROVE  Contains(Interval(l, u, h), v) <=> Within(l, u, v, h)
<1>1. Interval(l, u, h) \in RangesOf(h)
  BY IntervalLegal
<1>2. Contains(Interval(l, u, h), v) <=> Within(Interval(l, u, h).lower, Interval(l, u, h).upper, v, h)
  BY <1>1, ContainsIsWithin
<1> QED
  BY <1>2, IntervalEnds

\* The empty range contains nothing and the full one everything.
LEMMA ExtremesContain ==
  ASSUME NEW h \in Nat \ {0, 1}, NEW v \in SIntPatterns(h)
  PROVE  ~Contains(Empty(h), v) /\ Contains(Full(h), v)
<1>1. Empty(h) \in RangesOf(h) /\ Full(h) \in RangesOf(h)
  BY ExtremesLegal
<1>2. /\ Empty(h).lower = 0 /\ Empty(h).upper = 0
      /\ Full(h).lower = 2 * h - 1 /\ Full(h).upper = 2 * h - 1
  BY DEF Empty, Full, Interval, UMaxValue
<1>3. /\ Contains(Empty(h), v) <=> Within(0, 0, v, h)
      /\ Contains(Full(h), v) <=> Within(2 * h - 1, 2 * h - 1, v, h)
  BY <1>1, <1>2, ContainsIsWithin
<1> QED
  BY <1>3 DEF Within

\* The two tests on equal ends are what their names say.
LEMMA ExtremeTests ==
  ASSUME NEW h \in Nat \ {0, 1}, NEW r \in RangesOf(h), NEW v \in SIntPatterns(h)
  PROVE  /\ IsFullSet(r) => Contains(r, v)
         /\ IsEmptySet(r) => ~Contains(r, v)
         /\ ~IsFullSet(r) /\ ~IsEmptySet(r) => r.lower # r.upper
<1>1. Ends(r, h)
  BY RangeEnds
<1>2. Contains(r, v) <=> Within(r.lower, r.upper, v, h)
  BY ContainsIsWithin
<1> QED
  BY <1>1, <1>2 DEF Ends, Within, IsFullSet, IsEmptySet, UMaxValue

\* The preference chooses between the two covers it is given.
LEMMA PreferredIsOne ==
  ASSUME NEW a, NEW b, NEW type
  PROVE  GetPreferredRange(a, b, type) = a \/ GetPreferredRange(a, b, type) = b
BY DEF GetPreferredRange

-----------------------------------------------------------------------------
(* The best range for a set of patterns: it is legal, it covers the set,    *)
(* it is the set itself if any range is, and where the smallest cover is    *)
(* preferred no range that covers the set is smaller.                       *)

Denotes(r, S, h) == \A v \in SIntPatterns(h) : Contains(r, v) <=> v \in S

Best(r, S, type, h) ==
    /\ r \in RangesOf(h)
    /\ \A v \in S : Contains(r, v)
    /\ (\E q \in RangesOf(h) : Denotes(q, S, h)) => Denotes(r, S, h)
    /\ type = "Smallest" =>
          \A q \in RangesOf(h) :
             (\A v \in S : Contains(q, v)) => ~IsSizeStrictlySmallerThan(q, r)

Either(a, b, h) == {v \in SIntPatterns(h) : Contains(a, v) \/ Contains(b, v)}
Common(a, b, h) == {v \in SIntPatterns(h) : Contains(a, v) /\ Contains(b, v)}

\* Going round the patterns, the four come in this order.
Around(l1, u1, l2, u2) ==
    \/ l1 < u1 /\ u1 < l2 /\ l2 < u2
    \/ u1 < l2 /\ l2 < u2 /\ u2 < l1
    \/ l2 < u2 /\ u2 < l1 /\ l1 < u1
    \/ u2 < l1 /\ l1 < u1 /\ u1 < l2

\* Both sets, by the ends of the ranges.
LEMMA SetsAreWithin ==
  ASSUME NEW h \in Nat \ {0, 1}, NEW a \in RangesOf(h), NEW b \in RangesOf(h), NEW v \in SIntPatterns(h)
  PROVE  /\ v \in Either(a, b, h) <=> Within(a.lower, a.upper, v, h) \/ Within(b.lower, b.upper, v, h)
         /\ v \in Common(a, b, h) <=> Within(a.lower, a.upper, v, h) /\ Within(b.lower, b.upper, v, h)
<1>1. /\ Contains(a, v) <=> Within(a.lower, a.upper, v, h)
      /\ Contains(b, v) <=> Within(b.lower, b.upper, v, h)
  BY ContainsIsWithin
<1> QED
  BY <1>1 DEF Either, Common

\* Neither set depends on the order of the ranges.
LEMMA SetsCommute ==
  ASSUME NEW h, NEW a, NEW b
  PROVE  Either(a, b, h) = Either(b, a, h) /\ Common(a, b, h) = Common(b, a, h)
BY DEF Either, Common

\* A range that contains another is not smaller.
LEMMA CoverNotSmaller ==
  ASSUME NEW h \in Nat \ {0, 1}, NEW q \in RangesOf(h), NEW r \in RangesOf(h),
         \A v \in SIntPatterns(h) : Contains(r, v) => Contains(q, v)
  PROVE  ~IsSizeStrictlySmallerThan(q, r)
<1> DEFINE last == IF r.upper = 0 THEN 2 * h - 1 ELSE r.upper - 1
           before == IF q.lower = 0 THEN 2 * h - 1 ELSE q.lower - 1
<1>1. Ends(q, h) /\ Ends(r, h)
  BY RangeEnds
<1>2. /\ r.lower \in SIntPatterns(h) /\ last \in SIntPatterns(h)
      /\ q.upper \in SIntPatterns(h) /\ before \in SIntPatterns(h)
  BY <1>1 DEF Ends, SIntPatterns
<1>3. \A v \in SIntPatterns(h) : Within(r.lower, r.upper, v, h) => Within(q.lower, q.upper, v, h)
  BY ContainsIsWithin
<1>4. /\ Within(r.lower, r.upper, r.lower, h) => Within(q.lower, q.upper, r.lower, h)
      /\ Within(r.lower, r.upper, last, h) => Within(q.lower, q.upper, last, h)
      /\ Within(r.lower, r.upper, q.upper, h) => Within(q.lower, q.upper, q.upper, h)
      /\ Within(r.lower, r.upper, before, h) => Within(q.lower, q.upper, before, h)
  BY <1>2, <1>3
<1> QED
  BY <1>1, <1>4 DEF Ends, Within, IsSizeStrictlySmallerThan, IsFullSet, UMaxValue, Minus

\* A legal range is the best one for what it denotes.
LEMMA BestIfDenotes ==
  ASSUME NEW h \in Nat \ {0, 1}, NEW S \in SUBSET SIntPatterns(h), NEW r \in RangesOf(h), NEW type,
         Denotes(r, S, h)
  PROVE  Best(r, S, type, h)
<1>1. ASSUME NEW q \in RangesOf(h), \A v \in S : Contains(q, v)
      PROVE  ~IsSizeStrictlySmallerThan(q, r)
  <2>1. \A v \in SIntPatterns(h) : Contains(r, v) => Contains(q, v)
    BY <1>1 DEF Denotes
  <2> QED
    BY <2>1, CoverNotSmaller
<1>2. \A v \in S : Contains(r, v)
  BY DEF Denotes
<1> QED
  BY <1>1, <1>2, Zenon DEF Best

\* So is an interval that contains exactly the set.
LEMMA BestByEnds ==
  ASSUME NEW h \in Nat \ {0, 1}, NEW S \in SUBSET SIntPatterns(h), NEW type,
         NEW l \in SIntPatterns(h), NEW u \in SIntPatterns(h), l # u,
         \A v \in SIntPatterns(h) : Within(l, u, v, h) <=> v \in S
  PROVE  Best(Interval(l, u, h), S, type, h)
<1>1. Interval(l, u, h) \in RangesOf(h)
  BY IntervalLegal
<1>2. ASSUME NEW v \in SIntPatterns(h)
      PROVE  Contains(Interval(l, u, h), v) <=> v \in S
  BY IntervalIsWithin
<1> QED
  BY <1>1, <1>2, BestIfDenotes DEF Denotes

\* A set that is left and entered twice on the way round is no interval.
LEMMA TwoPieces ==
  ASSUME NEW h \in Nat \ {0, 1}, NEW S,
         NEW p \in SIntPatterns(h), NEW q \in SIntPatterns(h),
         NEW s \in SIntPatterns(h), NEW t \in SIntPatterns(h), p < q, q < s, s < t,
         \/ p \in S /\ q \notin S /\ s \in S /\ t \notin S
         \/ p \notin S /\ q \in S /\ s \notin S /\ t \in S
  PROVE  ~\E r \in RangesOf(h) : Denotes(r, S, h)
<1>1. SUFFICES ASSUME NEW r \in RangesOf(h), Denotes(r, S, h)
               PROVE  FALSE
  OBVIOUS
<1>2. Ends(r, h)
  BY RangeEnds
<1>3. /\ p \in S <=> Within(r.lower, r.upper, p, h)
      /\ q \in S <=> Within(r.lower, r.upper, q, h)
      /\ s \in S <=> Within(r.lower, r.upper, s, h)
      /\ t \in S <=> Within(r.lower, r.upper, t, h)
  BY <1>1, ContainsIsWithin DEF Denotes
<1> QED
  BY <1>2, <1>3 DEF Ends, Within, SIntPatterns

\* Two pieces: each of the two intervals that cover them skips one of the gaps,
\* and a range that covers both is not smaller than both of these.
LEMMA TwoCovers ==
  ASSUME NEW h \in Nat \ {0, 1}, NEW q \in RangesOf(h),
         NEW l1 \in SIntPatterns(h), NEW u1 \in SIntPatterns(h),
         NEW l2 \in SIntPatterns(h), NEW u2 \in SIntPatterns(h), Around(l1, u1, l2, u2),
         \A v \in SIntPatterns(h) : Within(l1, u1, v, h) \/ Within(l2, u2, v, h) => Contains(q, v)
  PROVE  \/ ~IsSizeStrictlySmallerThan(q, Interval(l1, u2, h))
         \/ ~IsSizeStrictlySmallerThan(q, Interval(l2, u1, h))
<1> DEFINE last(u) == IF u = 0 THEN 2 * h - 1 ELSE u - 1
<1>1. Ends(q, h)
  BY RangeEnds
<1>2. \A v \in SIntPatterns(h) :
         Within(l1, u1, v, h) \/ Within(l2, u2, v, h) => Within(q.lower, q.upper, v, h)
  BY ContainsIsWithin
<1>3. /\ last(u1) \in SIntPatterns(h) /\ last(u2) \in SIntPatterns(h)
      /\ last(q.lower) \in SIntPatterns(h) /\ q.upper \in SIntPatterns(h)
  BY <1>1 DEF Ends, SIntPatterns
<1>4. \A v \in {l1, l2, last(u1), last(u2), q.upper, last(q.lower)} :
         Within(l1, u1, v, h) \/ Within(l2, u2, v, h) => Within(q.lower, q.upper, v, h)
  BY <1>2, <1>3
<1>5. /\ l1 \in Nat /\ l1 < 2 * h /\ u1 \in Nat /\ u1 < 2 * h
      /\ l2 \in Nat /\ l2 < 2 * h /\ u2 \in Nat /\ u2 < 2 * h
  BY DEF SIntPatterns
<1>6. /\ Within(q.lower, q.upper, l1, h) /\ Within(q.lower, q.upper, last(u1), h)
      /\ Within(q.lower, q.upper, l2, h) /\ Within(q.lower, q.upper, last(u2), h)
  BY <1>4, <1>5 DEF Within, Around
<1>7. q.lower # q.upper =>
         /\ ~Within(l1, u1, q.upper, h) /\ ~Within(l2, u2, q.upper, h)
         /\ ~Within(l1, u1, last(q.lower), h) /\ ~Within(l2, u2, last(q.lower), h)
  BY <1>1, <1>4 DEF Within, Ends
<1> QED
  BY <1>1, <1>5, <1>6, <1>7
     DEF Ends, Within, Around, IsSizeStrictlySmallerThan, IsFullSet, UMaxValue, Minus, Interval

\* What is smaller than the preferred one of two ranges is smaller than both.
LEMMA SmallerThanBoth ==
  ASSUME NEW h \in Nat \ {0, 1}, NEW q \in RangesOf(h), NEW a \in RangesOf(h), NEW b \in RangesOf(h),
         IsSizeStrictlySmallerThan(q, GetPreferredRange(a, b, "Smallest"))
  PROVE  IsSizeStrictlySmallerThan(q, a) /\ IsSizeStrictlySmallerThan(q, b)
<1>1. GetPreferredRange(a, b, "Smallest") = IF IsSizeStrictlySmallerThan(a, b) THEN a ELSE b
  BY DEF GetPreferredRange
<1>2. Ends(q, h) /\ Ends(a, h) /\ Ends(b, h)
  BY RangeEnds
<1> QED
  BY <1>1, <1>2 DEF Ends, IsSizeStrictlySmallerThan, IsFullSet, UMaxValue, Minus

\* Of a set that is no interval, the preferred cover is best.
LEMMA BestOfTwo ==
  ASSUME NEW h \in Nat \ {0, 1}, NEW S \in SUBSET SIntPatterns(h), NEW type,
         NEW l1 \in SIntPatterns(h), NEW u1 \in SIntPatterns(h),
         NEW l2 \in SIntPatterns(h), NEW u2 \in SIntPatterns(h), Around(l1, u1, l2, u2),
         \A v \in SIntPatterns(h) : v \in S <=> Within(l1, u1, v, h) \/ Within(l2, u2, v, h)
  PROVE  Best(GetPreferredRange(Interval(l1, u2, h), Interval(l2, u1, h), type), S, type, h)
<1> DEFINE a == Interval(l1, u2, h)
           b == Interval(l2, u1, h)
           res == GetPreferredRange(a, b, type)
<1>1. l1 # u2 /\ l2 # u1
  BY DEF Around, SIntPatterns
<1>2. a \in RangesOf(h) /\ b \in RangesOf(h)
  BY <1>1, IntervalLegal
<1>3. res = a \/ res = b
  BY PreferredIsOne
<1>4. ASSUME NEW v \in S
      PROVE  Contains(a, v) /\ Contains(b, v)
  <2>1. v \in SIntPatterns(h) /\ (Within(l1, u1, v, h) \/ Within(l2, u2, v, h))
    OBVIOUS
  <2>2. Within(l1, u2, v, h) /\ Within(l2, u1, v, h)
    BY <2>1 DEF Within, Around, SIntPatterns
  <2> QED
    BY <1>1, <2>1, <2>2, IntervalIsWithin
<1>5. l1 \in S /\ l2 \in S /\ u1 \notin S /\ u2 \notin S
  BY DEF Within, Around, SIntPatterns
<1>6. ~\E r \in RangesOf(h) : Denotes(r, S, h)
  <2>1. CASE l1 < u1 /\ u1 < l2 /\ l2 < u2
    BY <1>5, <2>1, TwoPieces
  <2>2. CASE u1 < l2 /\ l2 < u2 /\ u2 < l1
    BY <1>5, <2>2, TwoPieces
  <2>3. CASE l2 < u2 /\ u2 < l1 /\ l1 < u1
    BY <1>5, <2>3, TwoPieces
  <2>4. CASE u2 < l1 /\ l1 < u1 /\ u1 < l2
    BY <1>5, <2>4, TwoPieces
  <2> QED
    BY <2>1, <2>2, <2>3, <2>4 DEF Around
<1>7. ASSUME NEW q \in RangesOf(h), \A v \in S : Contains(q, v), type = "Smallest"
      PROVE  ~IsSizeStrictlySmallerThan(q, res)
  <2>1. ~IsSizeStrictlySmallerThan(q, a) \/ ~IsSizeStrictlySmallerThan(q, b)
    BY <1>7, TwoCovers
  <2> HIDE DEF a, b
  <2> QED
    BY <1>2, <1>7, <2>1, SmallerThanBoth
<1> HIDE DEF a, b, res
<1>8. Best(res, S, type, h)
  BY <1>2, <1>3, <1>4, <1>6, <1>7 DEF Best
<1> QED
  BY <1>8 DEF res, a, b

-----------------------------------------------------------------------------
(* Union.                                                                   *)

\* The full range is best for a union that reaches every pattern.
LEMMA FullBest ==
  ASSUME NEW h \in Nat \ {0, 1}, NEW S \in SUBSET SIntPatterns(h), NEW type,
         \A v \in SIntPatterns(h) : v \in S
  PROVE  Best(Full(h), S, type, h)
<1>1. ASSUME NEW v \in SIntPatterns(h)
      PROVE  Contains(Full(h), v) <=> v \in S
  BY ExtremesContain
<1> QED
  BY <1>1, ExtremesLegal, BestIfDenotes DEF Denotes

\* Union of two ranges that do not wrap: the two gaps between disjoint ones
\* leave a choice of two covers.
LEMMA UnwrappedUnion ==
  ASSUME NEW h \in Nat \ {0, 1}, NEW a \in RangesOf(h), NEW b \in RangesOf(h), NEW type,
         a.lower < a.upper, b.lower < b.upper
  PROVE  Best(UnionBothUnwrapped(a, b, type), Either(a, b, h), type, h)
<1> DEFINE res == UnionBothUnwrapped(a, b, type)
           S == Either(a, b, h)
<1>0. Ends(a, h) /\ Ends(b, h)
  BY RangeEnds
<1>1. /\ a.lower \in SIntPatterns(h) /\ a.upper \in SIntPatterns(h)
      /\ b.lower \in SIntPatterns(h) /\ b.upper \in SIntPatterns(h)
  BY <1>0 DEF Ends, SIntPatterns
<1>2. S \in SUBSET SIntPatterns(h)
  BY DEF Either
<1>3. \A v \in SIntPatterns(h) : v \in S <=> Within(a.lower, a.upper, v, h) \/ Within(b.lower, b.upper, v, h)
  BY SetsAreWithin
<1> HIDE DEF S
<1>4. CASE b.upper < a.lower \/ a.upper < b.lower
  <2>1. res = GetPreferredRange(Interval(a.lower, b.upper, h), Interval(b.lower, a.upper, h), type)
    BY <1>0, <1>4 DEF UnionBothUnwrapped, Ends
  <2>2. Around(a.lower, a.upper, b.lower, b.upper)
    BY <1>0, <1>4 DEF Around, Ends
  <2>3. Best(GetPreferredRange(Interval(a.lower, b.upper, h), Interval(b.lower, a.upper, h), type), S, type, h)
    BY <1>1, <1>2, <1>3, <2>2, BestOfTwo
  <2> QED
    BY <2>1, <2>3 DEF S
<1>5. CASE ~(b.upper < a.lower \/ a.upper < b.lower)
  <2> DEFINE l == IF a.lower <= b.lower THEN a.lower ELSE b.lower
             u == IF b.upper > a.upper THEN b.upper ELSE a.upper
  <2>1. res = Interval(l, u, h)
    BY <1>0, <1>5 DEF UnionBothUnwrapped, USmaller, Pred, Minus, Ends
  <2>2. l \in SIntPatterns(h) /\ u \in SIntPatterns(h) /\ l # u
    BY <1>0 DEF Ends, SIntPatterns
  <2>3. ASSUME NEW v \in SIntPatterns(h)
        PROVE  Within(l, u, v, h) <=> v \in S
    BY <1>0, <1>3, <1>5, <2>3 DEF Within, Ends, SIntPatterns
  <2> HIDE DEF l, u
  <2>4. Best(Interval(l, u, h), S, type, h)
    BY <1>2, <2>2, <2>3, BestByEnds
  <2> QED
    BY <2>1, <2>4 DEF S
<1> QED
  BY <1>4, <1>5

\* Union of two ranges that wrap.
LEMMA WrappedUnion ==
  ASSUME NEW h \in Nat \ {0, 1}, NEW a \in RangesOf(h), NEW b \in RangesOf(h), NEW type,
         a.lower > a.upper, b.lower > b.upper
  PROVE  Best(UnionBothWrapped(a, b), Either(a, b, h), type, h)
<1> DEFINE S == Either(a, b, h)
<1>0. Ends(a, h) /\ Ends(b, h)
  BY RangeEnds
<1>1. S \in SUBSET SIntPatterns(h)
  BY DEF Either
<1>2. \A v \in SIntPatterns(h) : v \in S <=> Within(a.lower, a.upper, v, h) \/ Within(b.lower, b.upper, v, h)
  BY SetsAreWithin
<1> HIDE DEF S
<1>3. CASE b.lower <= a.upper \/ a.lower <= b.upper
  <2>1. UnionBothWrapped(a, b) = Full(h)
    BY <1>0, <1>3 DEF UnionBothWrapped, Ends
  <2>2. \A v \in SIntPatterns(h) : v \in S
    BY <1>0, <1>2, <1>3 DEF Within, Ends, SIntPatterns
  <2> QED
    BY <1>1, <2>1, <2>2, FullBest DEF S
<1>4. CASE ~(b.lower <= a.upper \/ a.lower <= b.upper)
  <2> DEFINE l == IF a.lower <= b.lower THEN a.lower ELSE b.lower
             u == IF a.upper >= b.upper THEN a.upper ELSE b.upper
  <2>1. UnionBothWrapped(a, b) = Interval(l, u, h)
    BY <1>0, <1>4 DEF UnionBothWrapped, USmaller, ULarger, Ends
  <2>2. l \in SIntPatterns(h) /\ u \in SIntPatterns(h) /\ l # u
    BY <1>0, <1>4 DEF Ends, SIntPatterns
  <2>3. ASSUME NEW v \in SIntPatterns(h)
        PROVE  Within(l, u, v, h) <=> v \in S
    BY <1>0, <1>2, <1>4, <2>3 DEF Within, Ends, SIntPatterns
  <2> HIDE DEF l, u
  <2>4. Best(Interval(l, u, h), S, type, h)
    BY <1>1, <2>2, <2>3, BestByEnds
  <2> QED
    BY <2>1, <2>4 DEF S
<1> QED
  BY <1>3, <1>4

\* Union of a range that wraps with one that does not.
LEMMA MixedUnion ==
  ASSUME NEW h \in Nat \ {0, 1}, NEW a \in RangesOf(h), NEW b \in RangesOf(h), NEW type,
         a.lower > a.upper, b.lower < b.upper
  PROVE  Best(UnionWrappedWithUnwrapped(a, b, type), Either(a, b, h), type, h)
<1> DEFINE res == UnionWrappedWithUnwrapped(a, b, type)
           S == Either(a, b, h)
<1>0. Ends(a, h) /\ Ends(b, h)
  BY RangeEnds
<1>1. /\ a.lower \in SIntPatterns(h) /\ a.upper \in SIntPatterns(h)
      /\ b.lower \in SIntPatterns(h) /\ b.upper \in SIntPatterns(h)
  BY <1>0 DEF Ends, SIntPatterns
<1>2. S \in SUBSET SIntPatterns(h)
  BY DEF Either
<1>3. \A v \in SIntPatterns(h) : v \in S <=> Within(a.lower, a.upper, v, h) \/ Within(b.lower, b.upper, v, h)
  BY SetsAreWithin
<1> HIDE DEF S
<1>4. CASE \/ b.lower <= a.upper /\ b.upper < a.upper
           \/ b.lower > a.upper /\ a.lower <= b.lower
  <2>1. res = a
    BY <1>0, <1>4 DEF UnionWrappedWithUnwrapped, Ends
  <2>2. ASSUME NEW v \in SIntPatterns(h)
        PROVE  Contains(a, v) <=> v \in S
    <3>1. Contains(a, v) <=> Within(a.lower, a.upper, v, h)
      BY ContainsIsWithin
    <3> QED
      BY <1>0, <1>3, <1>4, <3>1 DEF Within, Ends, SIntPatterns
  <2> QED
    BY <1>2, <2>1, <2>2, BestIfDenotes DEF Denotes, S
<1>5. CASE b.lower <= a.upper /\ a.upper <= b.upper /\ b.upper < a.lower
  <2>1. res = Interval(a.lower, b.upper, h) /\ a.lower # b.upper
    BY <1>0, <1>5 DEF UnionWrappedWithUnwrapped, Ends
  <2>2. ASSUME NEW v \in SIntPatterns(h)
        PROVE  Within(a.lower, b.upper, v, h) <=> v \in S
    BY <1>0, <1>3, <1>5, <2>2 DEF Within, Ends, SIntPatterns
  <2> QED
    BY <1>1, <1>2, <2>1, <2>2, BestByEnds DEF S
<1>6. CASE b.lower <= a.upper /\ a.lower <= b.upper
  <2>1. res = Full(h)
    BY <1>0, <1>6 DEF UnionWrappedWithUnwrapped, Ends
  <2>2. \A v \in SIntPatterns(h) : v \in S
    BY <1>0, <1>3, <1>6 DEF Within, Ends, SIntPatterns
  <2> QED
    BY <1>2, <2>1, <2>2, FullBest DEF S
<1>7. CASE b.lower > a.upper /\ b.lower < a.lower /\ b.upper < a.lower
  <2>1. res = GetPreferredRange(Interval(a.lower, b.upper, h), Interval(b.lower, a.upper, h), type)
    BY <1>0, <1>7 DEF UnionWrappedWithUnwrapped, Ends
  <2>2. Around(a.lower, a.upper, b.lower, b.upper)
    BY <1>0, <1>7 DEF Around, Ends
  <2>3. Best(GetPreferredRange(Interval(a.lower, b.upper, h), Interval(b.lower, a.upper, h), type), S, type, h)
    BY <1>1, <1>2, <1>3, <2>2, BestOfTwo
  <2> QED
    BY <2>1, <2>3 DEF S
<1>8. CASE b.lower > a.upper /\ b.lower < a.lower /\ a.lower <= b.upper
  <2>1. res = Interval(b.lower, a.upper, h) /\ b.lower # a.upper
    BY <1>0, <1>8 DEF UnionWrappedWithUnwrapped, Ends
  <2>2. ASSUME NEW v \in SIntPatterns(h)
        PROVE  Within(b.lower, a.upper, v, h) <=> v \in S
    BY <1>0, <1>3, <1>8, <2>2 DEF Within, Ends, SIntPatterns
  <2> QED
    BY <1>1, <1>2, <2>1, <2>2, BestByEnds DEF S
<1>9. \/ b.lower <= a.upper /\ b.upper < a.upper
      \/ b.lower > a.upper /\ a.lower <= b.lower
      \/ b.lower <= a.upper /\ a.upper <= b.upper /\ b.upper < a.lower
      \/ b.lower <= a.upper /\ a.lower <= b.upper
      \/ b.lower > a.upper /\ b.lower < a.lower /\ b.upper < a.lower
      \/ b.lower > a.upper /\ b.lower < a.lower /\ a.lower <= b.upper
  BY <1>0 DEF Ends
<1> QED
  BY <1>4, <1>5, <1>6, <1>7, <1>8, <1>9

\* Which ranges the two tests and the comparison of the ends tell apart.
LEMMA WrapTests ==
  ASSUME NEW h \in Nat \ {0, 1}, NEW r \in RangesOf(h), ~IsFullSet(r), ~IsEmptySet(r)
  PROVE  /\ IsUpperWrapped(r) => r.lower > r.upper
         /\ ~IsUpperWrapped(r) => r.lower < r.upper
BY RangeEnds DEF Ends, IsUpperWrapped, IsFullSet, IsEmptySet, UMaxValue

\* The cases of UnionWith.
LEMMA UnionCases ==
  ASSUME NEW a, NEW b, NEW type
  PROVE  /\ IsFullSet(a) \/ IsEmptySet(b) => UnionWith(a, b, type) = a
         /\ ~IsFullSet(a) /\ ~IsEmptySet(b) /\ (IsFullSet(b) \/ IsEmptySet(a)) => UnionWith(a, b, type) = b
         /\ ~IsFullSet(a) /\ ~IsEmptySet(b) /\ ~IsFullSet(b) /\ ~IsEmptySet(a) =>
               /\ IsUpperWrapped(a) /\ IsUpperWrapped(b) =>
                     UnionWith(a, b, type) = UnionBothWrapped(a, b)
               /\ IsUpperWrapped(a) /\ ~IsUpperWrapped(b) =>
                     UnionWith(a, b, type) = UnionWrappedWithUnwrapped(a, b, type)
               /\ ~IsUpperWrapped(a) /\ IsUpperWrapped(b) =>
                     UnionWith(a, b, type) = UnionWrappedWithUnwrapped(b, a, type)
               /\ ~IsUpperWrapped(a) /\ ~IsUpperWrapped(b) =>
                     UnionWith(a, b, type) = UnionBothUnwrapped(a, b, type)
<1> DEFINE C == UnionOfProper(a, b, type)
<1>1. UnionWith(a, b, type) =
         IF IsFullSet(a) \/ IsEmptySet(b) THEN a
         ELSE IF IsFullSet(b) \/ IsEmptySet(a) THEN b
         ELSE C
  BY DEF UnionWith
<1>2. /\ IsUpperWrapped(a) /\ IsUpperWrapped(b) => C = UnionBothWrapped(a, b)
      /\ IsUpperWrapped(a) /\ ~IsUpperWrapped(b) => C = UnionWrappedWithUnwrapped(a, b, type)
      /\ ~IsUpperWrapped(a) /\ IsUpperWrapped(b) => C = UnionWrappedWithUnwrapped(b, a, type)
      /\ ~IsUpperWrapped(a) /\ ~IsUpperWrapped(b) => C = UnionBothUnwrapped(a, b, type)
  BY Zenon DEF UnionOfProper
<1> HIDE DEF C
<1> QED
  BY <1>1, <1>2

\* ConstantRange::UnionWith: whatever the preference, the union is a legal
\* range, it contains every value of both ranges, and it contains no other
\* value unless the exact union is no interval.  Where the smallest cover is
\* preferred, no legal range that covers both is smaller.
THEOREM UnionBest ==
  ASSUME NEW h \in Nat \ {0, 1}, NEW a \in RangesOf(h), NEW b \in RangesOf(h), NEW type
  PROVE  Best(UnionWith(a, b, type), Either(a, b, h), type, h)
<1>1. CASE IsFullSet(a) \/ IsEmptySet(a) \/ IsFullSet(b) \/ IsEmptySet(b)
  <2>1. \/ UnionWith(a, b, type) = a /\ (IsFullSet(a) \/ IsEmptySet(b))
        \/ UnionWith(a, b, type) = b /\ (IsFullSet(b) \/ IsEmptySet(a))
    BY <1>1, UnionCases
  <2>2. UnionWith(a, b, type) \in RangesOf(h)
    BY <2>1
  <2>3. ASSUME NEW v \in SIntPatterns(h)
        PROVE  Contains(UnionWith(a, b, type), v) <=> v \in Either(a, b, h)
    <3>1. /\ IsFullSet(a) => Contains(a, v)
          /\ IsFullSet(b) => Contains(b, v)
          /\ IsEmptySet(a) => ~Contains(a, v)
          /\ IsEmptySet(b) => ~Contains(b, v)
      BY ExtremeTests
    <3> QED
      BY <2>1, <3>1 DEF Either
  <2>4. Either(a, b, h) \in SUBSET SIntPatterns(h)
    BY DEF Either
  <2> QED
    BY <2>2, <2>3, <2>4, BestIfDenotes DEF Denotes
<1>2. CASE ~(IsFullSet(a) \/ IsEmptySet(a) \/ IsFullSet(b) \/ IsEmptySet(b))
  <2>0. ~IsFullSet(a) /\ ~IsEmptySet(a) /\ ~IsFullSet(b) /\ ~IsEmptySet(b)
    BY <1>2
  <2>1. /\ IsUpperWrapped(a) => a.lower > a.upper
        /\ ~IsUpperWrapped(a) => a.lower < a.upper
        /\ IsUpperWrapped(b) => b.lower > b.upper
        /\ ~IsUpperWrapped(b) => b.lower < b.upper
    BY <1>2, WrapTests
  <2>2. CASE IsUpperWrapped(a) /\ IsUpperWrapped(b)
    <3>1. UnionWith(a, b, type) = UnionBothWrapped(a, b)
      BY <2>0, <2>2, UnionCases
    <3> QED
      BY <2>1, <2>2, <3>1, WrappedUnion
  <2>3. CASE IsUpperWrapped(a) /\ ~IsUpperWrapped(b)
    <3>1. UnionWith(a, b, type) = UnionWrappedWithUnwrapped(a, b, type)
      BY <2>0, <2>3, UnionCases
    <3> QED
      BY <2>1, <2>3, <3>1, MixedUnion
  <2>4. CASE ~IsUpperWrapped(a) /\ IsUpperWrapped(b)
    <3>1. UnionWith(a, b, type) = UnionWrappedWithUnwrapped(b, a, type)
      BY <2>0, <2>4, UnionCases
    <3>2. Best(UnionWrappedWithUnwrapped(b, a, type), Either(b, a, h), type, h)
      BY <2>1, <2>4, MixedUnion
    <3> QED
      BY <3>1, <3>2, SetsCommute
  <2>5. CASE ~IsUpperWrapped(a) /\ ~IsUpperWrapped(b)
    <3>1. UnionWith(a, b, type) = UnionBothUnwrapped(a, b, type)
      BY <2>0, <2>5, UnionCases
    <3> QED
      BY <2>1, <2>5, <3>1, UnwrappedUnion
  <2> QED
    BY <2>2, <2>3, <2>4, <2>5
<1> QED
  BY <1>1, <1>2

-----------------------------------------------------------------------------
(* Intersection.                                                            *)

\* The empty range is best for an intersection that has no pattern.
LEMMA EmptyBest ==
  ASSUME NEW h \in Nat \ {0, 1}, NEW S \in SUBSET SIntPatterns(h), NEW type,
         \A v \in SIntPatterns(h) : v \notin S
  PROVE  Best(Empty(h), S, type, h)
<1>1. ASSUME NEW v \in SIntPatterns(h)
      PROVE  Contains(Empty(h), v) <=> v \in S
  BY ExtremesContain
<1> QED
  BY <1>1, ExtremesLegal, BestIfDenotes DEF Denotes

\* Of an intersection of two pieces, the preferred operand is best.
LEMMA OperandBest ==
  ASSUME NEW h \in Nat \ {0, 1}, NEW a \in RangesOf(h), NEW b \in RangesOf(h), NEW type,
         Around(a.lower, b.upper, b.lower, a.upper),
         \A v \in SIntPatterns(h) :
            v \in Common(a, b, h) <=>
               Within(a.lower, b.upper, v, h) \/ Within(b.lower, a.upper, v, h)
  PROVE  Best(GetPreferredRange(a, b, type), Common(a, b, h), type, h)
<1>1. a = Interval(a.lower, a.upper, h) /\ b = Interval(b.lower, b.upper, h)
  BY DEF RangesOf, Interval
<1>2. /\ a.lower \in SIntPatterns(h) /\ a.upper \in SIntPatterns(h)
      /\ b.lower \in SIntPatterns(h) /\ b.upper \in SIntPatterns(h)
  BY DEF RangesOf
<1>3. Common(a, b, h) \in SUBSET SIntPatterns(h)
  BY DEF Common
<1>4. Best(GetPreferredRange(Interval(a.lower, a.upper, h), Interval(b.lower, b.upper, h), type),
           Common(a, b, h), type, h)
  BY <1>2, <1>3, BestOfTwo
<1> QED
  BY <1>1, <1>4

\* Intersection of two ranges that wrap.
LEMMA WrappedMeet ==
  ASSUME NEW h \in Nat \ {0, 1}, NEW a \in RangesOf(h), NEW b \in RangesOf(h), NEW type,
         a.lower > a.upper, b.lower > b.upper
  PROVE  Best(IntersectBothWrapped(a, b, type), Common(a, b, h), type, h)
<1> DEFINE res == IntersectBothWrapped(a, b, type)
           S == Common(a, b, h)
<1>0. Ends(a, h) /\ Ends(b, h)
  BY RangeEnds
<1>1. /\ a.lower \in SIntPatterns(h) /\ a.upper \in SIntPatterns(h)
      /\ b.lower \in SIntPatterns(h) /\ b.upper \in SIntPatterns(h)
  BY <1>0 DEF Ends, SIntPatterns
<1>2. S \in SUBSET SIntPatterns(h)
  BY DEF Common
<1>3. \A v \in SIntPatterns(h) : v \in S <=> Within(a.lower, a.upper, v, h) /\ Within(b.lower, b.upper, v, h)
  BY SetsAreWithin
<1> HIDE DEF S
<1>4. CASE b.upper < a.upper /\ b.lower < a.upper
  <2>1. res = GetPreferredRange(a, b, type)
    BY <1>0, <1>4 DEF IntersectBothWrapped, Ends
  <2>2. Around(a.lower, b.upper, b.lower, a.upper)
    BY <1>0, <1>4 DEF Around, Ends
  <2>3. ASSUME NEW v \in SIntPatterns(h)
        PROVE  v \in S <=> Within(a.lower, b.upper, v, h) \/ Within(b.lower, a.upper, v, h)
    BY <1>0, <1>3, <1>4, <2>3 DEF Within, Ends, SIntPatterns
  <2> QED
    BY <2>1, <2>2, <2>3, OperandBest DEF S
<1>5. CASE b.upper < a.upper /\ a.upper <= b.lower /\ b.lower < a.lower
  <2>1. res = Interval(a.lower, b.upper, h) /\ a.lower # b.upper
    BY <1>0, <1>5 DEF IntersectBothWrapped, Ends
  <2>2. ASSUME NEW v \in SIntPatterns(h)
        PROVE  Within(a.lower, b.upper, v, h) <=> v \in S
    BY <1>0, <1>3, <1>5, <2>2 DEF Within, Ends, SIntPatterns
  <2> QED
    BY <1>1, <1>2, <2>1, <2>2, BestByEnds DEF S
<1>6. CASE b.upper < a.upper /\ a.lower <= b.lower
  <2>1. res = b
    BY <1>0, <1>6 DEF IntersectBothWrapped, Ends
  <2>2. ASSUME NEW v \in SIntPatterns(h)
        PROVE  Contains(b, v) <=> v \in S
    <3>1. Contains(b, v) <=> Within(b.lower, b.upper, v, h)
      BY ContainsIsWithin
    <3> QED
      BY <1>0, <1>3, <1>6, <3>1 DEF Within, Ends, SIntPatterns
  <2> QED
    BY <1>2, <2>1, <2>2, BestIfDenotes DEF Denotes, S
<1>7. CASE a.upper <= b.upper /\ b.upper <= a.lower /\ b.lower < a.lower
  <2>1. res = a
    BY <1>0, <1>7 DEF IntersectBothWrapped, Ends
  <2>2. ASSUME NEW v \in SIntPatterns(h)
        PROVE  Contains(a, v) <=> v \in S
    <3>1. Contains(a, v) <=> Within(a.lower, a.upper, v, h)
      BY ContainsIsWithin
    <3> QED
      BY <1>0, <1>3, <1>7, <3>1 DEF Within, Ends, SIntPatterns
  <2> QED
    BY <1>2, <2>1, <2>2, BestIfDenotes DEF Denotes, S
<1>8. CASE a.upper <= b.upper /\ b.upper <= a.lower /\ a.lower <= b.lower
  <2>1. res = Interval(b.lower, a.upper, h) /\ b.lower # a.upper
    BY <1>0, <1>8 DEF IntersectBothWrapped, Ends
  <2>2. ASSUME NEW v \in SIntPatterns(h)
        PROVE  Within(b.lower, a.upper, v, h) <=> v \in S
    BY <1>0, <1>3, <1>8, <2>2 DEF Within, Ends, SIntPatterns
  <2> QED
    BY <1>1, <1>2, <2>1, <2>2, BestByEnds DEF S
<1>9. CASE a.upper <= b.upper /\ a.lower < b.upper
  <2>1. res = GetPreferredRange(a, b, type)
    BY <1>0, <1>9 DEF IntersectBothWrapped, Ends
  <2>2. Around(a.lower, b.upper, b.lower, a.upper)
    BY <1>0, <1>9 DEF Around, Ends
  <2>3. ASSUME NEW v \in SIntPatterns(h)
        PROVE  v \in S <=> Within(a.lower, b.upper, v, h) \/ Within(b.lower, a.upper, v, h)
    BY <1>0, <1>3, <1>9, <2>3 DEF Within, Ends, SIntPatterns
  <2> QED
    BY <2>1, <2>2, <2>3, OperandBest DEF S
<1>10. \/ b.upper < a.upper /\ b.lower < a.upper
       \/ b.upper < a.upper /\ a.upper <= b.lower /\ b.lower < a.lower
       \/ b.upper < a.upper /\ a.lower <= b.lower
       \/ a.upper <= b.upper /\ b.upper <= a.lower /\ b.lower < a.lower
       \/ a.upper <= b.upper /\ b.upper <= a.lower /\ a.lower <= b.lower
       \/ a.upper <= b.upper /\ a.lower < b.upper
  BY <1>0 DEF Ends
<1> QED
  BY <1>4, <1>5, <1>6, <1>7, <1>8, <1>9, <1>10

\* Intersection of a range that wraps with one that does not.
LEMMA MixedMeet ==
  ASSUME NEW h \in Nat \ {0, 1}, NEW a \in RangesOf(h), NEW b \in RangesOf(h), NEW type,
         a.lower > a.upper, b.lower < b.upper
  PROVE  Best(IntersectWrappedWithUnwrapped(a, b, type), Common(a, b, h), type, h)
<1> DEFINE res == IntersectWrappedWithUnwrapped(a, b, type)
           S == Common(a, b, h)
<1>0. Ends(a, h) /\ Ends(b, h)
  BY RangeEnds
<1>1. /\ a.lower \in SIntPatterns(h) /\ a.upper \in SIntPatterns(h)
      /\ b.lower \in SIntPatterns(h) /\ b.upper \in SIntPatterns(h)
  BY <1>0 DEF Ends, SIntPatterns
<1>2. S \in SUBSET SIntPatterns(h)
  BY DEF Common
<1>3. \A v \in SIntPatterns(h) : v \in S <=> Within(a.lower, a.upper, v, h) /\ Within(b.lower, b.upper, v, h)
  BY SetsAreWithin
<1> HIDE DEF S
<1>4. CASE b.lower < a.upper /\ b.upper < a.upper
  <2>1. res = b
    BY <1>0, <1>4 DEF IntersectWrappedWithUnwrapped, Ends
  <2>2. ASSUME NEW v \in SIntPatterns(h)
        PROVE  Contains(b, v) <=> v \in S
    <3>1. Contains(b, v) <=> Within(b.lower, b.upper, v, h)
      BY ContainsIsWithin
    <3> QED
      BY <1>0, <1>3, <1>4, <3>1 DEF Within, Ends, SIntPatterns
  <2> QED
    BY <1>2, <2>1, <2>2, BestIfDenotes DEF Denotes, S
<1>5. CASE b.lower < a.upper /\ a.upper <= b.upper /\ b.upper <= a.lower
  <2>1. res = Interval(b.lower, a.upper, h) /\ b.lower # a.upper
    BY <1>0, <1>5 DEF IntersectWrappedWithUnwrapped, Ends
  <2>2. ASSUME NEW v \in SIntPatterns(h)
        PROVE  Within(b.lower, a.upper, v, h) <=> v \in S
    BY <1>0, <1>3, <1>5, <2>2 DEF Within, Ends, SIntPatterns
  <2> QED
    BY <1>1, <1>2, <2>1, <2>2, BestByEnds DEF S
<1>6. CASE b.lower < a.upper /\ a.lower < b.upper
  <2>1. res = GetPreferredRange(a, b, type)
    BY <1>0, <1>6 DEF IntersectWrappedWithUnwrapped, Ends
  <2>2. Around(a.lower, b.upper, b.lower, a.upper)
    BY <1>0, <1>6 DEF Around, Ends
  <2>3. ASSUME NEW v \in SIntPatterns(h)
        PROVE  v \in S <=> Within(a.lower, b.upper, v, h) \/ Within(b.lower, a.upper, v, h)
    BY <1>0, <1>3, <1>6, <2>3 DEF Within, Ends, SIntPatterns
  <2> QED
    BY <2>1, <2>2, <2>3, OperandBest DEF S
<1>7. CASE a.upper <= b.lower /\ a.lower <= b.lower
  <2>1. res = b
    BY <1>0, <1>7 DEF IntersectWrappedWithUnwrapped, Ends
  <2>2. ASSUME NEW v \in SIntPatterns(h)
        PROVE  Contains(b, v) <=> v \in S
    <3>1. Contains(b, v) <=> Within(b.lower, b.upper, v, h)
      BY ContainsIsWithin
    <3> QED
      BY <1>0, <1>3, <1>7, <3>1 DEF Within, Ends, SIntPatterns
  <2> QED
    BY <1>2, <2>1, <2>2, BestIfDenotes DEF Denotes, S
<1>8. CASE a.upper <= b.lower /\ b.lower < a.lower /\ b.upper <= a.lower
  <2>1. res = Empty(h)
    BY <1>0, <1>8 DEF IntersectWrappedWithUnwrapped, Ends
  <2>2. ASSUME NEW v \in SIntPatterns(h)
        PROVE  v \notin S
    BY <1>0, <1>3, <1>8, <2>2 DEF Within, Ends, SIntPatterns
  <2> QED
    BY <1>2, <2>1, <2>2, EmptyBest DEF S
<1>9. CASE a.upper <= b.lower /\ b.lower < a.lower /\ a.lower < b.upper
  <2>1. res = Interval(a.lower, b.upper, h) /\ a.lower # b.upper
    BY <1>0, <1>9 DEF IntersectWrappedWithUnwrapped, Ends
  <2>2. ASSUME NEW v \in SIntPatterns(h)
        PROVE  Within(a.lower, b.upper, v, h) <=> v \in S
    BY <1>0, <1>3, <1>9, <2>2 DEF Within, Ends, SIntPatterns
  <2> QED
    BY <1>1, <1>2, <2>1, <2>2, BestByEnds DEF S
<1>10. \/ b.lower < a.upper /\ b.upper < a.upper
       \/ b.lower < a.upper /\ a.upper <= b.upper /\ b.upper <= a.lower
       \/ b.lower < a.upper /\ a.lower < b.upper
       \/ a.upper <= b.lower /\ a.lower <= b.lower
       \/ a.upper <= b.lower /\ b.lower < a.lower /\ b.upper <= a.lower
       \/ a.upper <= b.lower /\ b.lower < a.lower /\ a.lower < b.upper
  BY <1>0 DEF Ends
<1> QED
  BY <1>4, <1>5, <1>6, <1>7, <1>8, <1>9, <1>10

\* Intersection of two ranges that do not wrap: never two pieces.
LEMMA UnwrappedMeet ==
  ASSUME NEW h \in Nat \ {0, 1}, NEW a \in RangesOf(h), NEW b \in RangesOf(h), NEW type,
         a.lower < a.upper, b.lower < b.upper
  PROVE  Best(IntersectBothUnwrapped(a, b), Common(a, b, h), type, h)
<1> DEFINE res == IntersectBothUnwrapped(a, b)
           S == Common(a, b, h)
<1>0. Ends(a, h) /\ Ends(b, h)
  BY RangeEnds
<1>1. /\ a.lower \in SIntPatterns(h) /\ a.upper \in SIntPatterns(h)
      /\ b.lower \in SIntPatterns(h) /\ b.upper \in SIntPatterns(h)
  BY <1>0 DEF Ends, SIntPatterns
<1>2. S \in SUBSET SIntPatterns(h)
  BY DEF Common
<1>3. \A v \in SIntPatterns(h) : v \in S <=> Within(a.lower, a.upper, v, h) /\ Within(b.lower, b.upper, v, h)
  BY SetsAreWithin
<1> HIDE DEF S
<1>4. CASE a.upper <= b.lower \/ b.upper <= a.lower
  <2>1. res = Empty(h)
    BY <1>0, <1>4 DEF IntersectBothUnwrapped, Ends
  <2>2. ASSUME NEW v \in SIntPatterns(h)
        PROVE  v \notin S
    BY <1>0, <1>3, <1>4, <2>2 DEF Within, Ends, SIntPatterns
  <2> QED
    BY <1>2, <2>1, <2>2, EmptyBest DEF S
<1>5. CASE a.lower < b.lower /\ b.lower < a.upper /\ a.upper < b.upper
  <2>1. res = Interval(b.lower, a.upper, h) /\ b.lower # a.upper
    BY <1>0, <1>5 DEF IntersectBothUnwrapped, Ends
  <2>2. ASSUME NEW v \in SIntPatterns(h)
        PROVE  Within(b.lower, a.upper, v, h) <=> v \in S
    BY <1>0, <1>3, <1>5, <2>2 DEF Within, Ends, SIntPatterns
  <2> QED
    BY <1>1, <1>2, <2>1, <2>2, BestByEnds DEF S
<1>6. CASE a.lower < b.lower /\ b.lower < a.upper /\ b.upper <= a.upper
  <2>1. res = b
    BY <1>0, <1>6 DEF IntersectBothUnwrapped, Ends
  <2>2. ASSUME NEW v \in SIntPatterns(h)
        PROVE  Contains(b, v) <=> v \in S
    <3>1. Contains(b, v) <=> Within(b.lower, b.upper, v, h)
      BY ContainsIsWithin
    <3> QED
      BY <1>0, <1>3, <1>6, <3>1 DEF Within, Ends, SIntPatterns
  <2> QED
    BY <1>2, <2>1, <2>2, BestIfDenotes DEF Denotes, S
<1>7. CASE b.lower <= a.lower /\ a.lower < b.upper /\ b.upper < a.upper
  <2>1. res = Interval(a.lower, b.upper, h) /\ a.lower # b.upper
    BY <1>0, <1>7 DEF IntersectBothUnwrapped, Ends
  <2>2. ASSUME NEW v \in SIntPatterns(h)
        PROVE  Within(a.lower, b.upper, v, h) <=> v \in S
    BY <1>0, <1>3, <1>7, <2>2 DEF Within, Ends, SIntPatterns
  <2> QED
    BY <1>1, <1>2, <2>1, <2>2, BestByEnds DEF S
<1>8. CASE b.lower <= a.lower /\ a.lower < b.upper /\ a.upper <= b.upper
  <2>1. res = a
    BY <1>0, <1>8 DEF IntersectBothUnwrapped, Ends
  <2>2. ASSUME NEW v \in SIntPatterns(h)
        PROVE  Contains(a, v) <=> v \in S
    <3>1. Contains(a, v) <=> Within(a.lower, a.upper, v, h)
      BY ContainsIsWithin
    <3> QED
      BY <1>0, <1>3, <1>8, <3>1 DEF Within, Ends, SIntPatterns
  <2> QED
    BY <1>2, <2>1, <2>2, BestIfDenotes DEF Denotes, S
<1>9. \/ a.upper <= b.lower
       \/ b.upper <= a.lower
      \/ a.lower < b.lower /\ b.lower < a.upper /\ a.upper < b.upper
      \/ a.lower < b.lower /\ b.lower < a.upper /\ b.upper <= a.upper
      \/ b.lower <= a.lower /\ a.lower < b.upper /\ b.upper < a.upper
      \/ b.lower <= a.lower /\ a.lower < b.upper /\ a.upper <= b.upper
  BY <1>0 DEF Ends
<1> QED
  BY <1>4, <1>5, <1>6, <1>7, <1>8, <1>9

\* ConstantRange::IntersectWith: whatever the preference, the intersection is
\* a legal range, it contains every value both ranges contain, and no other
\* value unless the exact intersection is no interval.  Where the smallest
\* cover is preferred, no legal range that covers it is smaller.
THEOREM IntersectionBest ==
  ASSUME NEW h \in Nat \ {0, 1}, NEW a \in RangesOf(h), NEW b \in RangesOf(h), NEW type
  PROVE  Best(IntersectWith(a, b, type), Common(a, b, h), type, h)
<1>1. CASE IsFullSet(a) \/ IsEmptySet(a) \/ IsFullSet(b) \/ IsEmptySet(b)
  <2>1. \/ IntersectWith(a, b, type) = a /\ (IsEmptySet(a) \/ IsFullSet(b))
        \/ IntersectWith(a, b, type) = b /\ (IsEmptySet(b) \/ IsFullSet(a))
    <3>1. CASE IsEmptySet(a) \/ IsFullSet(b)
      <4>1. IntersectWith(a, b, type) = a
        BY <3>1, Zenon DEF IntersectWith
      <4> QED
        BY <3>1, <4>1
    <3>2. CASE ~(IsEmptySet(a) \/ IsFullSet(b)) /\ (IsEmptySet(b) \/ IsFullSet(a))
      <4>1. IntersectWith(a, b, type) = b
        BY <3>2, Zenon DEF IntersectWith
      <4> QED
        BY <3>2, <4>1
    <3> QED
      BY <1>1, <3>1, <3>2
  <2>2. IntersectWith(a, b, type) \in RangesOf(h)
    BY <2>1
  <2>3. ASSUME NEW v \in SIntPatterns(h)
        PROVE  Contains(IntersectWith(a, b, type), v) <=> v \in Common(a, b, h)
    <3>1. /\ IsFullSet(a) => Contains(a, v)
          /\ IsFullSet(b) => Contains(b, v)
          /\ IsEmptySet(a) => ~Contains(a, v)
          /\ IsEmptySet(b) => ~Contains(b, v)
      BY ExtremeTests
    <3> QED
      BY <2>1, <3>1 DEF Common
  <2>4. Common(a, b, h) \in SUBSET SIntPatterns(h)
    BY DEF Common
  <2> QED
    BY <2>2, <2>3, <2>4, BestIfDenotes DEF Denotes
<1>2. CASE ~(IsFullSet(a) \/ IsEmptySet(a) \/ IsFullSet(b) \/ IsEmptySet(b))
  <2>0. ~IsFullSet(a) /\ ~IsEmptySet(a) /\ ~IsFullSet(b) /\ ~IsEmptySet(b)
    BY <1>2
  <2>1. /\ IsUpperWrapped(a) => a.lower > a.upper
        /\ ~IsUpperWrapped(a) => a.lower < a.upper
        /\ IsUpperWrapped(b) => b.lower > b.upper
        /\ ~IsUpperWrapped(b) => b.lower < b.upper
    BY <1>2, WrapTests
  <2>2. CASE IsUpperWrapped(a) /\ IsUpperWrapped(b)
    <3>1. IntersectWith(a, b, type) = IntersectBothWrapped(a, b, type)
      BY <2>0, <2>2, Zenon DEF IntersectWith
    <3> QED
      BY <2>1, <2>2, <3>1, WrappedMeet
  <2>3. CASE IsUpperWrapped(a) /\ ~IsUpperWrapped(b)
    <3>1. IntersectWith(a, b, type) = IntersectWrappedWithUnwrapped(a, b, type)
      BY <2>0, <2>3, Zenon DEF IntersectWith
    <3> QED
      BY <2>1, <2>3, <3>1, MixedMeet
  <2>4. CASE ~IsUpperWrapped(a) /\ IsUpperWrapped(b)
    <3>1. IntersectWith(a, b, type) = IntersectWrappedWithUnwrapped(b, a, type)
      BY <2>0, <2>4, Zenon DEF IntersectWith
    <3>2. Best(IntersectWrappedWithUnwrapped(b, a, type), Common(b, a, h), type, h)
      BY <2>1, <2>4, MixedMeet
    <3> QED
      BY <3>1, <3>2, SetsCommute
  <2>5. CASE ~IsUpperWrapped(a) /\ ~IsUpperWrapped(b)
    <3>1. IntersectWith(a, b, type) = IntersectBothUnwrapped(a, b)
      BY <2>0, <2>5, Zenon DEF IntersectWith
    <3> QED
      BY <2>1, <2>5, <3>1, UnwrappedMeet
  <2> QED
    BY <2>2, <2>3, <2>4, <2>5
<1> QED
  BY <1>1, <1>2

-----------------------------------------------------------------------------
(* Arithmetic modulo 2^w.                                                   *)

\* The operations modulo 2^w give patterns.
LEMMA ArithmeticEnds ==
  ASSUME NEW h \in Nat \ {0, 1}, NEW x \in SIntPatterns(h), NEW y \in SIntPatterns(h)
  PROVE  /\ Plus(x, y, h) \in SIntPatterns(h)
         /\ Minus(x, y, h) \in SIntPatterns(h)
         /\ Succ(x, h) \in SIntPatterns(h)
         /\ Pred(x, h) \in SIntPatterns(h)
BY DEF Plus, Minus, Succ, Pred, SIntPatterns

\* An interval contains what lies at an offset below its size.
LEMMA OffsetBelowSize ==
  ASSUME NEW h \in Nat \ {0, 1}, NEW l \in SIntPatterns(h), NEW u \in SIntPatterns(h),
         NEW v \in SIntPatterns(h), l # u
  PROVE  Within(l, u, v, h) <=> Minus(v, l, h) < Minus(u, l, h)
BY DEF Within, Minus, SIntPatterns

\* The offsets of two values from two ends add up.
LEMMA OffsetsAdd ==
  ASSUME NEW h \in Nat \ {0, 1}, NEW x \in SIntPatterns(h), NEW y \in SIntPatterns(h),
         NEW l \in SIntPatterns(h), NEW m \in SIntPatterns(h)
  PROVE  Minus(Plus(x, y, h), Plus(l, m, h), h) = Plus(Minus(x, l, h), Minus(y, m, h), h)
BY DEF Minus, Plus, SIntPatterns

\* ConstantRange::Inverse: the inverse of a legal range is one, and contains
\* exactly the values the range does not.
THEOREM InverseExact ==
  ASSUME NEW h \in Nat \ {0, 1}, NEW r \in RangesOf(h)
  PROVE  /\ Inverse(r) \in RangesOf(h)
         /\ \A v \in SIntPatterns(h) : Contains(Inverse(r), v) <=> ~Contains(r, v)
<1>0. Ends(r, h)
  BY RangeEnds
<1>1. CASE r.lower = r.upper
  <2>1. (IsFullSet(r) /\ ~IsEmptySet(r)) \/ (IsEmptySet(r) /\ ~IsFullSet(r))
    BY <1>0, <1>1 DEF Ends, IsFullSet, IsEmptySet, UMaxValue
  <2>2. CASE IsFullSet(r) /\ ~IsEmptySet(r)
    <3>1. Inverse(r) = Empty(h)
      BY <1>0, <1>1, <2>2 DEF Inverse, Ends
    <3>2. ASSUME NEW v \in SIntPatterns(h) PROVE Contains(r, v) /\ ~Contains(Empty(h), v)
      <4>1. v \in Nat /\ v < 2 * h
        BY DEF SIntPatterns
      <4>2. Contains(r, v)
        BY <4>1, <1>0, <2>2, ContainsIsWithin DEF Within, Ends, IsFullSet, UMaxValue
      <4> QED
        BY <4>1, <4>2, ExtremesContain
    <3> QED
      BY <3>1, <3>2, ExtremesLegal
  <2>3. CASE IsEmptySet(r) /\ ~IsFullSet(r)
    <3>1. Inverse(r) = Full(h)
      BY <1>0, <1>1, <2>3 DEF Inverse, Ends
    <3>2. ASSUME NEW v \in SIntPatterns(h) PROVE ~Contains(r, v) /\ Contains(Full(h), v)
      <4>1. v \in Nat /\ v < 2 * h
        BY DEF SIntPatterns
      <4>2. Contains(r, v) <=> Within(r.lower, r.upper, v, h)
        BY <4>1, ContainsIsWithin
      <4>3. ~Contains(r, v)
        BY <4>2, <1>0, <2>3 DEF Within, Ends, IsEmptySet
      <4> QED
        BY <4>1, <4>3, ExtremesContain
    <3> QED
      BY <3>1, <3>2, ExtremesLegal
  <2> QED
    BY <2>1, <2>2, <2>3
<1>2. CASE r.lower # r.upper
  <2>1. Inverse(r) = Interval(r.upper, r.lower, h)
    BY <1>0, <1>2 DEF Inverse, Ends, IsFullSet, IsEmptySet
  <2>2. ASSUME NEW v \in SIntPatterns(h)
        PROVE  Contains(Inverse(r), v) <=> ~Contains(r, v)
    <3>1. v \in Nat /\ v < 2 * h
      BY DEF SIntPatterns
    <3>2. Contains(Inverse(r), v) <=> Within(r.upper, r.lower, v, h)
      BY <1>0, <1>2, <2>1, IntervalIsWithin DEF Ends, SIntPatterns
    <3>3. Contains(r, v) <=> Within(r.lower, r.upper, v, h)
      BY <3>1, ContainsIsWithin
    <3> QED
      BY <1>0, <1>2, <3>1, <3>2, <3>3 DEF Within, Ends
  <2> QED
    BY <1>0, <1>2, <2>1, <2>2, IntervalLegal DEF Ends, SIntPatterns
<1> QED
  BY <1>1, <1>2

\* The ends of any other range differ.
LEMMA NeitherFullNorEmpty ==
  ASSUME NEW h \in Nat \ {0, 1}, NEW r \in RangesOf(h), ~IsFullSet(r), ~IsEmptySet(r)
  PROVE  r.lower # r.upper
BY RangeEnds DEF Ends, IsFullSet, IsEmptySet, UMaxValue

\* A range that contains a value is not empty.
LEMMA EmptyContainsNothing ==
  ASSUME NEW h \in Nat \ {0, 1}, NEW r \in RangesOf(h), NEW v \in SIntPatterns(h), Contains(r, v)
  PROVE  ~IsEmptySet(r)
<1>1. Ends(r, h)
  BY RangeEnds
<1>2. Within(r.lower, r.upper, v, h)
  BY ContainsIsWithin
<1> QED
  BY <1>1, <1>2 DEF Ends, Within, IsEmptySet

\* The check of Add and Sub against going round the modulus: of an interval as
\* long as the two operands together, less one, either its ends meet, or it
\* seems shorter than the first operand, or it contains every sum of offsets.
LEMMA FullIfWrappedSound ==
  ASSUME NEW h \in Nat \ {0, 1}, NEW a \in RangesOf(h), NEW b \in RangesOf(h),
         a.lower # a.upper, b.lower # b.upper,
         NEW l \in SIntPatterns(h), NEW u \in SIntPatterns(h), NEW v \in SIntPatterns(h),
         NEW i \in Nat, NEW j \in Nat,
         i < Minus(a.upper, a.lower, h), j < Minus(b.upper, b.lower, h),
         Minus(v, l, h) = Plus(i, j, h),
         Minus(u, l, h) = Pred(Plus(Minus(a.upper, a.lower, h), Minus(b.upper, b.lower, h), h), h)
  PROVE  /\ FullIfWrapped(l, u, a, b) \in RangesOf(h)
         /\ Contains(FullIfWrapped(l, u, a, b), v)
<1> DEFINE r == Interval(l, u, h)
           A == Minus(a.upper, a.lower, h)
           B == Minus(b.upper, b.lower, h)
<1>0. Ends(a, h) /\ Ends(b, h)
  BY RangeEnds
<1>1. CASE FullIfWrapped(l, u, a, b) = Full(h)
  BY <1>1, ExtremesLegal, ExtremesContain
<1>2. CASE FullIfWrapped(l, u, a, b) # Full(h)
  <2>1. /\ FullIfWrapped(l, u, a, b) = r
        /\ l # u
        /\ ~IsSizeStrictlySmallerThan(r, a)
    BY <1>0, <1>2, Zenon DEF FullIfWrapped, Ends
  <2>2. ~IsFullSet(r)
    BY <2>1, IntervalEnds DEF IsFullSet
  <2>3. ~(Minus(u, l, h) < A)
    <3>1. r.lower = l /\ r.upper = u /\ r.half = h /\ a.half = h
      BY <1>0, IntervalEnds DEF Ends
    <3> HIDE DEF r
    <3> QED
      BY <2>1, <2>2, <3>1, Zenon DEF IsSizeStrictlySmallerThan
  <2>4. A \in Nat /\ A < 2 * h /\ B \in Nat /\ B < 2 * h /\ A > 0 /\ B > 0
    BY <1>0 DEF Ends, Minus
  <2> HIDE DEF A, B
  <2>5. Minus(u, l, h) = Pred(Plus(A, B, h), h) /\ Minus(v, l, h) = Plus(i, j, h) /\ i < A /\ j < B
    BY DEF A, B
  <2>6. Plus(i, j, h) < Pred(Plus(A, B, h), h)
    BY <2>3, <2>4, <2>5 DEF Plus, Pred, Minus
  <2>7. Within(l, u, v, h)
    BY <2>1, <2>5, <2>6, OffsetBelowSize
  <2> QED
    BY <2>1, <2>7, IntervalIsWithin, IntervalLegal
<1> QED
  BY <1>1, <1>2

\* ConstantRange::Add: the sum of two legal ranges is legal and contains the
\* sum, modulo 2^w, of any value of the one and any value of the other.
THEOREM AddSound ==
  ASSUME NEW h \in Nat \ {0, 1}, NEW a \in RangesOf(h), NEW b \in RangesOf(h),
         NEW x \in SIntPatterns(h), NEW y \in SIntPatterns(h), Contains(a, x), Contains(b, y)
  PROVE  Add(a, b) \in RangesOf(h) /\ Contains(Add(a, b), Plus(x, y, h))
<1>0. Ends(a, h) /\ Ends(b, h)
  BY RangeEnds
<1>1. Plus(x, y, h) \in SIntPatterns(h)
  BY ArithmeticEnds
<1>2. ~IsEmptySet(a) /\ ~IsEmptySet(b)
  BY EmptyContainsNothing
<1>3. CASE IsFullSet(a) \/ IsFullSet(b)
  <2>1. Add(a, b) = Full(h)
    BY <1>0, <1>2, <1>3 DEF Add, Ends
  <2> QED
    BY <1>1, <2>1, ExtremesLegal, ExtremesContain
<1>4. CASE ~(IsFullSet(a) \/ IsFullSet(b))
  <2> DEFINE l == Plus(a.lower, b.lower, h)
             s == Plus(a.upper, b.upper, h)
             u == Pred(s, h)
  <2>1. Add(a, b) = FullIfWrapped(l, u, a, b)
    BY <1>0, <1>2, <1>4 DEF Add, Ends
  <2>2. a.lower # a.upper /\ b.lower # b.upper
    BY <1>2, <1>4, NeitherFullNorEmpty
  <2>3. /\ a.lower \in SIntPatterns(h) /\ a.upper \in SIntPatterns(h)
        /\ b.lower \in SIntPatterns(h) /\ b.upper \in SIntPatterns(h)
    BY <1>0 DEF Ends, SIntPatterns
  <2>4. l \in SIntPatterns(h) /\ s \in SIntPatterns(h) /\ u \in SIntPatterns(h)
    BY <2>3, ArithmeticEnds
  <2>5. /\ Within(a.lower, a.upper, x, h)
        /\ Within(b.lower, b.upper, y, h)
    BY ContainsIsWithin
  <2>6. /\ Minus(x, a.lower, h) < Minus(a.upper, a.lower, h)
        /\ Minus(y, b.lower, h) < Minus(b.upper, b.lower, h)
    BY <2>2, <2>3, <2>5, OffsetBelowSize
  <2>7. Minus(Plus(x, y, h), l, h) = Plus(Minus(x, a.lower, h), Minus(y, b.lower, h), h)
    BY <2>3, OffsetsAdd
  <2>8. Minus(s, l, h) = Plus(Minus(a.upper, a.lower, h), Minus(b.upper, b.lower, h), h)
    BY <2>3, OffsetsAdd
  <2>9. Minus(x, a.lower, h) \in Nat /\ Minus(y, b.lower, h) \in Nat
    <3>1. Minus(x, a.lower, h) \in SIntPatterns(h) /\ Minus(y, b.lower, h) \in SIntPatterns(h)
      BY <2>3, ArithmeticEnds
    <3> QED
      BY <3>1 DEF SIntPatterns
  <2> HIDE DEF l, s
  <2>10. Minus(u, l, h) = Pred(Minus(s, l, h), h)
    BY <2>4 DEF Pred, Minus, SIntPatterns
  <2> HIDE DEF u
  <2> QED
    BY <1>1, <2>1, <2>2, <2>4, <2>6, <2>7, <2>8, <2>9, <2>10, FullIfWrappedSound
<1> QED
  BY <1>3, <1>4

\* The offsets of a difference, the second counted down from its range's end.
LEMMA OffsetsSubtract ==
  ASSUME NEW h \in Nat \ {0, 1}, NEW x \in SIntPatterns(h), NEW y \in SIntPatterns(h),
         NEW l \in SIntPatterns(h), NEW u \in SIntPatterns(h)
  PROVE  /\ Minus(Minus(x, y, h), Succ(Minus(l, u, h), h), h) = Plus(Minus(x, l, h), Minus(Minus(u, y, h), 1, h), h)
BY DEF Minus, Plus, Succ, SIntPatterns

\* ConstantRange::Sub: the same of the difference.
THEOREM SubSound ==
  ASSUME NEW h \in Nat \ {0, 1}, NEW a \in RangesOf(h), NEW b \in RangesOf(h),
         NEW x \in SIntPatterns(h), NEW y \in SIntPatterns(h), Contains(a, x), Contains(b, y)
  PROVE  Sub(a, b) \in RangesOf(h) /\ Contains(Sub(a, b), Minus(x, y, h))
<1>0. Ends(a, h) /\ Ends(b, h)
  BY RangeEnds
<1>1. Minus(x, y, h) \in SIntPatterns(h)
  BY ArithmeticEnds
<1>2. ~IsEmptySet(a) /\ ~IsEmptySet(b)
  BY EmptyContainsNothing
<1>3. CASE IsFullSet(a) \/ IsFullSet(b)
  <2>1. Sub(a, b) = Full(h)
    BY <1>0, <1>2, <1>3 DEF Sub, Ends
  <2> QED
    BY <1>1, <2>1, ExtremesLegal, ExtremesContain
<1>4. CASE ~(IsFullSet(a) \/ IsFullSet(b))
  <2> DEFINE l == Succ(Minus(a.lower, b.upper, h), h)
             u == Minus(a.upper, b.lower, h)
             A == Minus(a.upper, a.lower, h)
             B == Minus(b.upper, b.lower, h)
             i == Minus(x, a.lower, h)
             j == Minus(Minus(b.upper, y, h), 1, h)
  <2>1. Sub(a, b) = FullIfWrapped(l, u, a, b)
    BY <1>0, <1>2, <1>4 DEF Sub, Ends
  <2>2. a.lower # a.upper /\ b.lower # b.upper
    BY <1>2, <1>4, NeitherFullNorEmpty
  <2>3. /\ a.lower \in SIntPatterns(h) /\ a.upper \in SIntPatterns(h)
        /\ b.lower \in SIntPatterns(h) /\ b.upper \in SIntPatterns(h)
    BY <1>0 DEF Ends, SIntPatterns
  <2>4. l \in SIntPatterns(h) /\ u \in SIntPatterns(h)
    BY <2>3, ArithmeticEnds
  <2>5. /\ Within(a.lower, a.upper, x, h)
        /\ Within(b.lower, b.upper, y, h)
    BY ContainsIsWithin
  <2>6. i \in Nat /\ j \in Nat /\ i < A
    <3>0. 1 \in SIntPatterns(h)
      BY DEF SIntPatterns
    <3>1. Minus(b.upper, y, h) \in SIntPatterns(h)
      BY <2>3, ArithmeticEnds
    <3>2. i \in SIntPatterns(h) /\ j \in SIntPatterns(h)
      BY <2>3, <3>0, <3>1, ArithmeticEnds
    <3>3. i < A
      BY <2>2, <2>3, <2>5, OffsetBelowSize
    <3> QED
      BY <3>2, <3>3 DEF SIntPatterns
  <2>7. j < B
    BY <1>0, <2>2, <2>5 DEF Within, Ends, Minus, SIntPatterns
  <2>8. Minus(Minus(x, y, h), l, h) = Plus(i, j, h)
    BY <2>3, OffsetsSubtract
  <2>9. Minus(u, l, h) = Pred(Plus(A, B, h), h)
    <3>1. Minus(u, l, h) = Plus(A, Minus(B, 1, h), h)
      BY <2>3, OffsetsSubtract
    <3>2. A \in SIntPatterns(h) /\ B \in SIntPatterns(h) /\ A # 0 /\ B # 0
      BY <1>0, <2>2 DEF Ends, Minus, SIntPatterns
    <3> HIDE DEF A, B, u, l
    <3>3. Plus(A, Minus(B, 1, h), h) = Pred(Plus(A, B, h), h)
      BY <3>2 DEF Plus, Minus, Pred, SIntPatterns
    <3> QED
      BY <3>1, <3>3
  <2> HIDE DEF l, u, i, j
  <2> QED
    BY <1>1, <2>1, <2>2, <2>4, <2>6, <2>7, <2>8, <2>9, FullIfWrappedSound
<1> QED
  BY <1>3, <1>4

-----------------------------------------------------------------------------
(* Orders and relations.                                                    *)

\* A pattern as a number of its signedness.
Order(unsigned, v, h) == IF unsigned THEN v ELSE SVal(v, h)

\* Negation turns an interval round.
LEMMA NegateEnds ==
  ASSUME NEW h \in Nat \ {0, 1}, NEW l \in SIntPatterns(h), NEW u \in SIntPatterns(h),
         NEW v \in SIntPatterns(h), l # u, Within(l, u, v, h)
  PROVE  Within(Neg(Pred(u, h), h), Succ(Neg(l, h), h), Neg(v, h), h)
BY DEF Neg, Pred, Succ, Plus, Minus, Within, SIntPatterns

\* ConstantRange::Negate: the negation of a range that does not start at the
\* smallest value contains the negation of each of its values.  Of a range that
\* starts there it does not, which a run shows.
THEOREM NegateSound ==
  ASSUME NEW h \in Nat \ {0, 1}, NEW r \in RangesOf(h), NEW v \in SIntPatterns(h), Contains(r, v),
         r.lower # SMinValue(h)
  PROVE  Negate(r) \in RangesOf(h) /\ Contains(Negate(r), Neg(v, h))
<1>0. Ends(r, h)
  BY RangeEnds
<1>1. 0 \in SIntPatterns(h)
  BY DEF SIntPatterns
<1>2. ~IsEmptySet(r) /\ Neg(v, h) \in SIntPatterns(h)
  BY <1>1, EmptyContainsNothing, ArithmeticEnds DEF Neg
<1>3. CASE IsFullSet(r)
  <2>1. Negate(r) = r
    BY <1>3 DEF Negate
  <2>2. r.lower = 2 * h - 1 /\ r.upper = 2 * h - 1
    BY <1>0, <1>3 DEF IsFullSet, Ends, UMaxValue
  <2>3. Within(r.lower, r.upper, Neg(v, h), h)
    BY <1>2, <2>2 DEF Within
  <2> QED
    BY <1>2, <2>1, <2>3, ContainsIsWithin
<1>4. CASE ~IsFullSet(r)
  <2> DEFINE l == Neg(Pred(r.upper, h), h)
             u == Succ(Neg(r.lower, h), h)
  <2>1. r.half = h /\ SMinValue(r.half) = h /\ SMinValue(h) = h
    BY <1>0 DEF Ends, SMinValue
  <2>2. Negate(r) = Interval(l, u, h)
    BY <1>2, <1>4, <2>1, Zenon DEF Negate
  <2>3. r.lower # r.upper
    BY <1>2, <1>4, NeitherFullNorEmpty
  <2>4. r.lower \in SIntPatterns(h) /\ r.upper \in SIntPatterns(h)
    BY <1>0 DEF Ends, SIntPatterns
  <2>5. Within(r.lower, r.upper, v, h)
    BY ContainsIsWithin
  <2>6. Within(l, u, Neg(v, h), h)
    BY <2>3, <2>4, <2>5, NegateEnds
  <2>7. l \in SIntPatterns(h) /\ u \in SIntPatterns(h)
    BY <1>1, <2>4, ArithmeticEnds DEF Neg
  <2>8. l # u
    BY <2>3, <2>4 DEF Neg, Pred, Succ, Plus, Minus, SIntPatterns
  <2> HIDE DEF l, u
  <2> QED
    BY <1>2, <2>2, <2>6, <2>7, <2>8, IntervalLegal, IntervalIsWithin
<1> QED
  BY <1>3, <1>4

\* ConstantRange::UMinValue and UMaxValue bound every value of the range in
\* the unsigned order.
THEOREM UnsignedExtremes ==
  ASSUME NEW h \in Nat \ {0, 1}, NEW r \in RangesOf(h), NEW v \in SIntPatterns(h), Contains(r, v)
  PROVE  UMinOf(r) <= v /\ v <= UMaxOf(r)
<1>0. Ends(r, h) /\ Within(r.lower, r.upper, v, h)
  BY RangeEnds, ContainsIsWithin
<1> QED
  BY <1>0 DEF Ends, Within, UMinOf, UMaxOf, IsFullSet, IsWrappedSet, IsUpperWrapped, UMaxValue, Pred, Minus, SIntPatterns

\* ConstantRange::SMinValue and SMaxValue bound every value of the range in
\* the signed order.
THEOREM SignedExtremes ==
  ASSUME NEW h \in Nat \ {0, 1}, NEW r \in RangesOf(h), NEW v \in SIntPatterns(h), Contains(r, v)
  PROVE  Sle(SMinOf(r), v, h) /\ Sle(v, SMaxOf(r), h)
<1>0. Ends(r, h) /\ Within(r.lower, r.upper, v, h)
  BY RangeEnds, ContainsIsWithin
<1> QED
  BY <1>0 DEF Ends, Within, SMinOf, SMaxOf, IsFullSet, IsSignWrappedSet, IsUpperSignWrapped, UMaxValue,
              SMinValue, SMaxValue, Pred, Minus, SIntPatterns, Sle, Slt, SVal, IsNeg

\* An interval is legal and denotes what its ends say.
LEMMA LiesFrom ==
  ASSUME NEW h \in Nat \ {0, 1}, NEW l \in SIntPatterns(h), NEW u \in SIntPatterns(h), l # u,
         NEW P, NEW v \in SIntPatterns(h), Within(l, u, v, h) <=> P
  PROVE  Interval(l, u, h) \in RangesOf(h) /\ (Contains(Interval(l, u, h), v) <=> P)
BY IntervalLegal, IntervalIsWithin

Related(rel, x, y) ==
    \/ rel = "LT" /\ x < y
    \/ rel = "LE" /\ x <= y
    \/ rel = "EQ" /\ x = y
    \/ rel = "GT" /\ x > y
    \/ rel = "GE" /\ x >= y
    \/ rel = "NE" /\ x # y

\* The patterns next to a pattern and at the ends of the orders.
LEMMA PatternFacts ==
  ASSUME NEW h \in Nat \ {0, 1}, NEW v \in SIntPatterns(h)
  PROVE  /\ v \in Nat /\ v < 2 * h
         /\ 0 \in SIntPatterns(h) /\ h \in SIntPatterns(h)
         /\ h - 1 \in SIntPatterns(h) /\ 2 * h - 1 \in SIntPatterns(h)
         /\ Succ(v, h) \in SIntPatterns(h) /\ Pred(v, h) \in SIntPatterns(h)
         /\ Succ(v, h) # v
BY DEF SIntPatterns, Succ, Pred, Plus, Minus

\* ConstantRange::From: for each relation, each value v and either order, the
\* range is legal and contains exactly the values w with w rel v.
THEOREM FromExact ==
  ASSUME NEW h \in Nat \ {0, 1}, NEW v \in SIntPatterns(h), NEW w \in SIntPatterns(h),
         NEW signed \in BOOLEAN, NEW rel \in Relations
  PROVE  /\ From(rel, v, signed, h) \in RangesOf(h)
         /\ Contains(From(rel, v, signed, h), w) <=> Related(rel, Order(~signed, w, h), Order(~signed, v, h))
<1> DEFINE least    == IF signed THEN h ELSE 0
           greatest == IF signed THEN h - 1 ELSE 2 * h - 1
           R == Related(rel, Order(~signed, w, h), Order(~signed, v, h))
           range == From(rel, v, signed, h)
<1>1. /\ v \in Nat /\ v < 2 * h /\ w \in Nat /\ w < 2 * h
      /\ least \in SIntPatterns(h) /\ greatest \in SIntPatterns(h)
      /\ Succ(v, h) \in SIntPatterns(h) /\ Succ(v, h) # v
      /\ Succ(greatest, h) = least
      /\ SMinValue(h) = h /\ SMaxValue(h) = h - 1 /\ UMaxValue(h) = 2 * h - 1
  BY PatternFacts DEF Succ, Plus, SMinValue, SMaxValue, UMaxValue
<1>2. CASE rel = "EQ"
  <2>1. range = Interval(v, Succ(v, h), h)
    BY <1>2, Zenon DEF From, Single
  <2>2. Within(v, Succ(v, h), w, h) <=> R
    BY <1>1, <1>2 DEF Within, Succ, Plus, Related, Order, SVal, IsNeg
  <2> HIDE DEF R
  <2>3. Interval(v, Succ(v, h), h) \in RangesOf(h) /\ (Contains(Interval(v, Succ(v, h), h), w) <=> R)
    BY <1>1, <2>2, LiesFrom
  <2> QED
    BY <2>1, <2>3 DEF R
<1>3. CASE rel = "NE"
  <2>1. range = Interval(Succ(v, h), v, h)
    BY <1>3, Zenon DEF From
  <2>2. Within(Succ(v, h), v, w, h) <=> R
    BY <1>1, <1>3 DEF Within, Succ, Plus, Related, Order, SVal, IsNeg
  <2> HIDE DEF R
  <2>3. Interval(Succ(v, h), v, h) \in RangesOf(h) /\ (Contains(Interval(Succ(v, h), v, h), w) <=> R)
    BY <1>1, <2>2, LiesFrom
  <2> QED
    BY <2>1, <2>3 DEF R
<1>4. CASE \/ rel = "LT" /\ v = least
           \/ rel = "GT" /\ v = greatest
  <2>1. range = Empty(h)
    BY <1>1, <1>4, Zenon DEF From
  <2>2. ~R
    BY <1>1, <1>4 DEF Related, Order, SVal, IsNeg
  <2> HIDE DEF R
  <2> QED
    BY <1>1, <2>1, <2>2, ExtremesLegal, ExtremesContain DEF R
<1>5. CASE \/ rel = "LE" /\ v = greatest
           \/ rel = "GE" /\ v = least
  <2>1. range = Full(h)
    BY <1>1, <1>5, Zenon DEF From
  <2>2. R
    BY <1>1, <1>5 DEF Related, Order, SVal, IsNeg
  <2> HIDE DEF R
  <2> QED
    BY <1>1, <2>1, <2>2, ExtremesLegal, ExtremesContain DEF R
<1>6. CASE rel = "GE" /\ v # least
  <2>1. range = Interval(v, least, h)
    BY <1>1, <1>6, Zenon DEF From
  <2>2. Within(v, least, w, h) <=> R
    BY <1>1, <1>6 DEF Within, Related, Order, SVal, IsNeg
  <2> HIDE DEF R
  <2>3. Interval(v, least, h) \in RangesOf(h) /\ (Contains(Interval(v, least, h), w) <=> R)
    BY <1>1, <1>6, <2>2, LiesFrom
  <2> QED
    BY <2>1, <2>3 DEF R
<1>7. CASE rel = "GT" /\ v # greatest
  <2>1. range = Interval(Succ(v, h), least, h)
    BY <1>1, <1>7, Zenon DEF From
  <2>2. Succ(v, h) # least
    BY <1>1, <1>7 DEF Succ, Plus
  <2>3. Within(Succ(v, h), least, w, h) <=> R
    BY <1>1, <1>7 DEF Within, Succ, Plus, Related, Order, SVal, IsNeg
  <2> HIDE DEF R
  <2>4. Interval(Succ(v, h), least, h) \in RangesOf(h) /\ (Contains(Interval(Succ(v, h), least, h), w) <=> R)
    BY <1>1, <2>2, <2>3, LiesFrom
  <2> QED
    BY <2>1, <2>4 DEF R
<1>8. CASE rel = "LE" /\ v # greatest
  <2>1. range = Interval(least, Succ(v, h), h)
    BY <1>1, <1>8, Zenon DEF From
  <2>2. Succ(v, h) # least
    BY <1>1, <1>8 DEF Succ, Plus
  <2>3. Within(least, Succ(v, h), w, h) <=> R
    BY <1>1, <1>8 DEF Within, Succ, Plus, Related, Order, SVal, IsNeg
  <2> HIDE DEF R
  <2>4. Interval(least, Succ(v, h), h) \in RangesOf(h) /\ (Contains(Interval(least, Succ(v, h), h), w) <=> R)
    BY <1>1, <2>2, <2>3, LiesFrom
  <2> QED
    BY <2>1, <2>4 DEF R
<1>9. CASE rel = "LT" /\ v # least
  <2>1. range = Interval(least, v, h)
    BY <1>1, <1>9, Zenon DEF From
  <2>2. Within(least, v, w, h) <=> R
    BY <1>1, <1>9 DEF Within, Related, Order, SVal, IsNeg
  <2> HIDE DEF R
  <2>3. Interval(least, v, h) \in RangesOf(h) /\ (Contains(Interval(least, v, h), w) <=> R)
    BY <1>1, <1>9, <2>2, LiesFrom
  <2> QED
    BY <2>1, <2>3 DEF R
<1>10. \/ rel = "EQ" \/ rel = "NE" \/ rel = "LT" \/ rel = "GT" \/ rel = "LE" \/ rel = "GE"
  BY DEF Relations
<1> QED
  BY <1>2, <1>3, <1>4, <1>5, <1>6, <1>7, <1>8, <1>9, <1>10, Zenon

\* A strict or a weak order of the extremes holds of all values.
LEMMA LtSound ==
  ASSUME NEW h \in Nat \ {0, 1}, NEW a \in RangesOf(h), NEW b \in RangesOf(h),
         NEW x \in SIntPatterns(h), NEW y \in SIntPatterns(h), Contains(a, x), Contains(b, y),
         NEW unsigned \in BOOLEAN
  PROVE  /\ Lt(a, b, unsigned) => Order(unsigned, x, h) < Order(unsigned, y, h)
         /\ Le(a, b, unsigned) => Order(unsigned, x, h) <= Order(unsigned, y, h)
<1>0. Ends(a, h) /\ Ends(b, h)
  BY RangeEnds
<1>1. x <= UMaxOf(a) /\ UMinOf(b) <= y
  BY UnsignedExtremes
<1>2. Sle(x, SMaxOf(a), h) /\ Sle(SMinOf(b), y, h)
  BY SignedExtremes
<1>3. UMaxOf(a) \in Nat /\ UMinOf(b) \in Nat /\ SMaxOf(a) \in Nat /\ SMinOf(b) \in Nat
  BY <1>0 DEF Ends, UMaxOf, UMinOf, SMaxOf, SMinOf, UMaxValue, SMaxValue, SMinValue, Pred, Minus
<1>4. SVal(SMaxOf(a), h) \in Int /\ SVal(SMinOf(b), h) \in Int /\ SVal(x, h) \in Int /\ SVal(y, h) \in Int
      /\ x \in Int /\ y \in Int
  BY <1>3 DEF SVal, IsNeg, SIntPatterns
<1>5. a.half = h
  BY <1>0 DEF Ends
<1>6. CASE unsigned = TRUE
  <2>1. /\ Lt(a, b, unsigned) => UMaxOf(a) < UMinOf(b)
        /\ Le(a, b, unsigned) => UMaxOf(a) <= UMinOf(b)
    BY <1>6, Zenon DEF Lt, Le
  <2>2. Order(unsigned, x, h) = x /\ Order(unsigned, y, h) = y
    BY <1>6 DEF Order
  <2> QED
    BY <2>1, <2>2, <1>1, <1>3, <1>4
<1>7. CASE unsigned = FALSE
  <2>1. /\ Lt(a, b, unsigned) => SVal(SMaxOf(a), h) < SVal(SMinOf(b), h)
        /\ Le(a, b, unsigned) => SVal(SMaxOf(a), h) <= SVal(SMinOf(b), h)
    BY <1>5, <1>7, Zenon DEF Lt, Le, Slt, Sle
  <2>2. Order(unsigned, x, h) = SVal(x, h) /\ Order(unsigned, y, h) = SVal(y, h)
    BY <1>7 DEF Order
  <2>3. SVal(x, h) <= SVal(SMaxOf(a), h) /\ SVal(SMinOf(b), h) <= SVal(y, h)
    BY <1>2 DEF Sle
  <2> QED
    BY <2>1, <2>2, <2>3, <1>4
<1> QED
  BY <1>6, <1>7

\* A comparison that succeeds on the ranges succeeds on their values.
LEMMA PartialCompareSound ==
  ASSUME NEW h \in Nat \ {0, 1}, NEW a \in RangesOf(h), NEW b \in RangesOf(h),
         NEW x \in SIntPatterns(h), NEW y \in SIntPatterns(h), Contains(a, x), Contains(b, y),
         NEW unsigned \in BOOLEAN, NEW rel \in {"LT", "LE", "GT", "GE"}, PartialCompare(rel, a, b, unsigned)
  PROVE  Related(rel, Order(unsigned, x, h), Order(unsigned, y, h))
<1>1. /\ rel = "LT" => Lt(a, b, unsigned)
      /\ rel = "LE" => Le(a, b, unsigned)
      /\ rel = "GT" => Lt(b, a, unsigned)
      /\ rel = "GE" => Le(b, a, unsigned)
  <2>1. "LT" # "LE" /\ "LT" # "GT" /\ "LT" # "GE" /\ "LE" # "GT" /\ "LE" # "GE" /\ "GT" # "GE"
    OBVIOUS
  <2> QED
    BY <2>1, Zenon DEF PartialCompare
<1>2. Order(unsigned, x, h) \in Int /\ Order(unsigned, y, h) \in Int
  BY DEF Order, SVal, IsNeg, SIntPatterns
<1>3. /\ Lt(a, b, unsigned) => Order(unsigned, x, h) < Order(unsigned, y, h)
      /\ Le(a, b, unsigned) => Order(unsigned, x, h) <= Order(unsigned, y, h)
      /\ Lt(b, a, unsigned) => Order(unsigned, y, h) < Order(unsigned, x, h)
      /\ Le(b, a, unsigned) => Order(unsigned, y, h) <= Order(unsigned, x, h)
  BY LtSound
<1> QED
  BY <1>1, <1>2, <1>3 DEF Related

\* SIntDomain's comparison of two ranges: what it decides, true or false, of an
\* order relation is so of any value of the one and any value of the other, in
\* the order of their signedness.
THEOREM CompareSound ==
  ASSUME NEW h \in Nat \ {0, 1}, NEW a \in RangesOf(h), NEW b \in RangesOf(h),
         NEW x \in SIntPatterns(h), NEW y \in SIntPatterns(h), Contains(a, x), Contains(b, y),
         NEW unsigned \in BOOLEAN, NEW rel \in {"LT", "LE", "GT", "GE"}
  PROVE  /\ Compare(rel, a, b, unsigned) = "true" =>
               Related(rel, Order(unsigned, x, h), Order(unsigned, y, h))
         /\ Compare(rel, a, b, unsigned) = "false" =>
               ~Related(rel, Order(unsigned, x, h), Order(unsigned, y, h))
<1>1. Order(unsigned, x, h) \in Int /\ Order(unsigned, y, h) \in Int
  BY DEF Order, SVal, IsNeg, SIntPatterns
<1>2. NegOf(rel) \in {"LT", "LE", "GT", "GE"}
  BY DEF NegOf
<1>3. Related(NegOf(rel), Order(unsigned, x, h), Order(unsigned, y, h)) =>
         ~Related(rel, Order(unsigned, x, h), Order(unsigned, y, h))
  BY <1>1 DEF NegOf, Related
<1>4. /\ Compare(rel, a, b, unsigned) = "true" => PartialCompare(rel, a, b, unsigned)
      /\ Compare(rel, a, b, unsigned) = "false" => PartialCompare(NegOf(rel), a, b, unsigned)
  <2>1. "true" # "false" /\ "true" # "unordered" /\ "false" # "unordered"
    OBVIOUS
  <2> QED
    BY <2>1, Zenon DEF Compare
<1> QED
  BY <1>2, <1>3, <1>4, PartialCompareSound

-----------------------------------------------------------------------------
(* Domains.                                                                 *)

\* A domain of legal ranges; and one that describes a value v, given the
\* differences of v from the symbols.
IsDomain(d, h) ==
    /\ d.numeric \in RangesOf(h)
    /\ \A s \in DOMAIN d.bounds : d.bounds[s] \in RangesOf(h)

Describes(d, v, differences) ==
    /\ Contains(d.numeric, v)
    /\ \A s \in DOMAIN d.bounds : Contains(d.bounds[s], differences[s])

\* A domain built from a range and bounds that describe a value describes it:
\* no bound is empty, and a full one that is dropped says nothing.
LEMMA MergedDescribes ==
  ASSUME NEW h \in Nat \ {0, 1}, NEW numeric \in RangesOf(h), NEW S, NEW bounds \in [S -> RangesOf(h)],
         NEW unsigned, NEW v \in SIntPatterns(h), NEW differences,
         Contains(numeric, v),
         \A s \in S : differences[s] \in SIntPatterns(h) /\ Contains(bounds[s], differences[s])
  PROVE  /\ IsDomain(Merged(numeric, bounds, unsigned), h)
         /\ Describes(Merged(numeric, bounds, unsigned), v, differences)
<1> DEFINE K == {t \in S : ~IsFullSet(bounds[t])}
<1>1. ~IsEmptySet(numeric) /\ \A s \in S : ~IsEmptySet(bounds[s])
  BY EmptyContainsNothing
<1>2. DOMAIN bounds = S
  OBVIOUS
<1>3. Merged(numeric, bounds, unsigned) = Domain(numeric, [s \in K |-> bounds[s]], unsigned)
  BY <1>1, <1>2 DEF Merged
<1>4. /\ Merged(numeric, bounds, unsigned).numeric = numeric
      /\ DOMAIN Merged(numeric, bounds, unsigned).bounds = K
      /\ \A s \in K : Merged(numeric, bounds, unsigned).bounds[s] = bounds[s]
  BY <1>3 DEF Domain
<1>5. \A s \in K : s \in S
  OBVIOUS
<1> HIDE DEF K
<1> QED
  BY <1>4, <1>5 DEF IsDomain, Describes

\* What both ranges contain is in their intersection.
LEMMA IntersectionCovers ==
  ASSUME NEW h \in Nat \ {0, 1}, NEW a \in RangesOf(h), NEW b \in RangesOf(h), NEW type,
         NEW v \in SIntPatterns(h), Contains(a, v), Contains(b, v)
  PROVE  IntersectWith(a, b, type) \in RangesOf(h) /\ Contains(IntersectWith(a, b, type), v)
BY IntersectionBest DEF Best, Common

\* SIntDomain::Intersects: the meet of two domains of legal ranges is one, and
\* a value that both describe, with its differences from the other symbols, is
\* described by the meet.
THEOREM MeetKeeps ==
  ASSUME NEW h \in Nat \ {0, 1}, NEW c, NEW d, IsDomain(c, h), IsDomain(d, h),
         NEW v \in SIntPatterns(h), NEW differences,
         \A s \in DOMAIN c.bounds \union DOMAIN d.bounds : differences[s] \in SIntPatterns(h),
         Describes(c, v, differences), Describes(d, v, differences)
  PROVE  IsDomain(Intersects(c, d), h) /\ Describes(Intersects(c, d), v, differences)
<1> DEFINE S == DOMAIN c.bounds \union DOMAIN d.bounds
           met(s) == IF ~HasBound(c, s) THEN d.bounds[s]
                     ELSE IF ~HasBound(d, s) THEN c.bounds[s]
                     ELSE IntersectWith(c.bounds[s], d.bounds[s], "Smallest")
           bounds == [s \in S |-> met(s)]
           numeric == IntersectWith(c.numeric, d.numeric, "Smallest")
<1>1. numeric \in RangesOf(h) /\ Contains(numeric, v)
  BY IntersectionCovers DEF IsDomain, Describes
<1>2. ASSUME NEW s \in S
      PROVE  met(s) \in RangesOf(h) /\ Contains(met(s), differences[s])
  <2>1. differences[s] \in SIntPatterns(h)
    OBVIOUS
  <2>2. CASE ~HasBound(c, s)
    <3>1. s \in DOMAIN d.bounds /\ met(s) = d.bounds[s]
      BY <2>2 DEF HasBound
    <3> QED
      BY <3>1 DEF IsDomain, Describes
  <2>3. CASE HasBound(c, s) /\ ~HasBound(d, s)
    <3>1. s \in DOMAIN c.bounds /\ met(s) = c.bounds[s]
      BY <2>3 DEF HasBound
    <3> QED
      BY <3>1 DEF IsDomain, Describes
  <2>4. CASE HasBound(c, s) /\ HasBound(d, s)
    <3>1. /\ s \in DOMAIN c.bounds /\ s \in DOMAIN d.bounds
          /\ met(s) = IntersectWith(c.bounds[s], d.bounds[s], "Smallest")
      BY <2>4 DEF HasBound
    <3>2. /\ c.bounds[s] \in RangesOf(h) /\ Contains(c.bounds[s], differences[s])
          /\ d.bounds[s] \in RangesOf(h) /\ Contains(d.bounds[s], differences[s])
      BY <3>1 DEF IsDomain, Describes
    <3> QED
      BY <2>1, <3>1, <3>2, IntersectionCovers
  <2> QED
    BY <2>2, <2>3, <2>4
<1>3. Intersects(c, d) = Merged(numeric, bounds, c.unsigned)
  BY DEF Intersects
<1> HIDE DEF met, numeric, S
<1>4. bounds \in [S -> RangesOf(h)] /\ \A s \in S : bounds[s] = met(s)
  BY <1>2
<1>5. \A s \in S : differences[s] \in SIntPatterns(h)
  BY DEF S
<1> HIDE DEF bounds
<1>6. \A s \in S : Contains(bounds[s], differences[s])
  BY <1>2, <1>4
<1> QED
  BY <1>1, <1>3, <1>4, <1>5, <1>6, MergedDescribes

\* What one of two ranges contains is in their union.
LEMMA UnionContains ==
  ASSUME NEW h \in Nat \ {0, 1}, NEW a \in RangesOf(h), NEW b \in RangesOf(h), NEW type,
         NEW v \in SIntPatterns(h), Contains(a, v) \/ Contains(b, v)
  PROVE  UnionWith(a, b, type) \in RangesOf(h) /\ Contains(UnionWith(a, b, type), v)
BY UnionBest DEF Best, Either

\* SIntDomain::Unions: the join of two domains of legal ranges is one, and a
\* value that either describes is described by the join, with whichever bounds
\* the join keeps.
THEOREM JoinCovers ==
  ASSUME NEW h \in Nat \ {0, 1}, NEW c, NEW d, IsDomain(c, h), IsDomain(d, h),
         NEW v \in SIntPatterns(h), NEW differences,
         \A s \in DOMAIN c.bounds \union DOMAIN d.bounds : differences[s] \in SIntPatterns(h),
         Describes(c, v, differences) \/ Describes(d, v, differences)
  PROVE  IsDomain(Unions(c, d), h) /\ Describes(Unions(c, d), v, differences)
<1> DEFINE S == DOMAIN c.bounds \intersect DOMAIN d.bounds
           joined(s) == UnionWith(c.bounds[s], d.bounds[s], "Smallest")
           bounds == [s \in S |-> joined(s)]
           numeric == UnionWith(c.numeric, d.numeric, "Smallest")
<1>1. numeric \in RangesOf(h) /\ Contains(numeric, v)
  BY UnionContains DEF IsDomain, Describes
<1>2. ASSUME NEW s \in S
      PROVE  joined(s) \in RangesOf(h) /\ Contains(joined(s), differences[s])
  <2>1. /\ differences[s] \in SIntPatterns(h)
        /\ c.bounds[s] \in RangesOf(h) /\ d.bounds[s] \in RangesOf(h)
    BY DEF IsDomain
  <2>2. Contains(c.bounds[s], differences[s]) \/ Contains(d.bounds[s], differences[s])
    BY DEF Describes
  <2> QED
    BY <2>1, <2>2, UnionContains
<1>3. Unions(c, d) = Merged(numeric, bounds, c.unsigned)
  BY DEF Unions
<1> HIDE DEF joined, numeric, S
<1>4. bounds \in [S -> RangesOf(h)] /\ \A s \in S : bounds[s] = joined(s)
  BY <1>2
<1>5. \A s \in S : differences[s] \in SIntPatterns(h)
  BY DEF S
<1> HIDE DEF bounds
<1>6. \A s \in S : Contains(bounds[s], differences[s])
  BY <1>2, <1>4
<1> QED
  BY <1>1, <1>3, <1>4, <1>5, <1>6, MergedDescribes

-----------------------------------------------------------------------------
(* Change of width.                                                         *)

\* ConstantRange::ZeroExtend: to a larger width, the range stays legal and
\* contains each of its values, extended by zeros.
THEOREM ZeroExtendSound ==
  ASSUME NEW h \in Nat \ {0, 1}, NEW d \in Nat \ {0, 1}, 2 * h <= d,
         NEW r \in RangesOf(h), NEW v \in SIntPatterns(h)
  PROVE  /\ ZeroExtend(r, d) \in RangesOf(d)
         /\ Contains(r, v) => Contains(ZeroExtend(r, d), v)
<1>0. Ends(r, h)
  BY RangeEnds
<1>1. v \in Nat /\ v < 2 * h /\ v < 2 * d /\ v \in SIntPatterns(d) /\ 2 * h < 2 * d
  BY DEF SIntPatterns
<1>2. CASE IsEmptySet(r)
  <2>1. ZeroExtend(r, d) = Empty(d)
    BY <1>2 DEF ZeroExtend
  <2> QED
    BY <1>2, <2>1, EmptyContainsNothing, ExtremesLegal
<1>3. CASE ~IsEmptySet(r)
  <2>1. \E l, u \in SIntPatterns(d) :
           /\ ZeroExtend(r, d) = Interval(l, u, d)
           /\ l # u
           /\ Within(r.lower, r.upper, v, h) => Within(l, u, v, d)
    <3>1. CASE IsFullSet(r) \/ IsWrappedSet(r)
      <4>1. ZeroExtend(r, d) = Interval(0, 2 * h, d)
        BY <1>0, <1>3, <3>1 DEF ZeroExtend, Ends
      <4>2. 0 \in SIntPatterns(d) /\ 2 * h \in SIntPatterns(d) /\ 0 # 2 * h
        BY <1>1 DEF SIntPatterns
      <4>3. Within(0, 2 * h, v, d)
        BY <1>1 DEF Within
      <4> QED
        BY <4>1, <4>2, <4>3
    <3>2. CASE ~(IsFullSet(r) \/ IsWrappedSet(r)) /\ r.upper = 0
      <4>1. ZeroExtend(r, d) = Interval(r.lower, 2 * h, d)
        BY <1>0, <1>3, <3>2 DEF ZeroExtend, Ends
      <4>2. r.lower \in SIntPatterns(d) /\ 2 * h \in SIntPatterns(d) /\ r.lower # 2 * h
        BY <1>0, <1>1 DEF SIntPatterns, Ends
      <4>3. Within(r.lower, r.upper, v, h) => Within(r.lower, 2 * h, v, d)
        BY <1>0, <1>1, <1>3, <3>2 DEF Within, Ends, IsEmptySet
      <4> QED
        BY <4>1, <4>2, <4>3
    <3>3. CASE ~(IsFullSet(r) \/ IsWrappedSet(r)) /\ r.upper # 0
      <4>1. ZeroExtend(r, d) = Interval(r.lower, r.upper, d)
        BY <1>0, <1>3, <3>3 DEF ZeroExtend, Ends
      <4>2. r.lower \in SIntPatterns(d) /\ r.upper \in SIntPatterns(d) /\ r.lower # r.upper
        BY <1>0, <1>1, <1>3, <3>3, NeitherFullNorEmpty DEF SIntPatterns, Ends
      <4>3. Within(r.lower, r.upper, v, h) => Within(r.lower, r.upper, v, d)
        BY <1>0, <1>1, <3>3, <4>2 DEF Within, Ends, IsWrappedSet
      <4> QED
        BY <4>1, <4>2, <4>3
    <3> QED
      BY <3>1, <3>2, <3>3
  <2>2. Contains(r, v) <=> Within(r.lower, r.upper, v, h)
    BY <1>1, ContainsIsWithin
  <2>3. PICK l \in SIntPatterns(d), u \in SIntPatterns(d) :
           /\ ZeroExtend(r, d) = Interval(l, u, d)
           /\ l # u
           /\ Within(r.lower, r.upper, v, h) => Within(l, u, v, d)
    BY <2>1
  <2>4. Interval(l, u, d) \in RangesOf(d) /\ (Contains(Interval(l, u, d), v) <=> Within(l, u, v, d))
    BY <1>1, <2>3, LiesFrom
  <2> QED
    BY <2>2, <2>3, <2>4
<1> QED
  BY <1>2, <1>3

\* ConstantRange::SignExtend: the same by the sign.
THEOREM SignExtendSound ==
  ASSUME NEW h \in Nat \ {0, 1}, NEW d \in Nat \ {0, 1}, 2 * h <= d,
         NEW r \in RangesOf(h), NEW v \in SIntPatterns(h)
  PROVE  /\ SignExtend(r, d) \in RangesOf(d)
         /\ Contains(r, v) => Contains(SignExtend(r, d), SExt(v, h, d))
<1> DEFINE w == SExt(v, h, d)
<1>0. Ends(r, h)
  BY RangeEnds
<1>1. v \in Nat /\ v < 2 * h /\ w \in Nat /\ w < 2 * d /\ w \in SIntPatterns(d) /\ 2 * h < 2 * d
  BY DEF SIntPatterns, SExt, IsNeg
<1>2. CASE IsEmptySet(r)
  <2>1. SignExtend(r, d) = Empty(d)
    BY <1>2 DEF SignExtend
  <2> QED
    BY <1>2, <2>1, EmptyContainsNothing, ExtremesLegal
<1>3. CASE ~IsEmptySet(r)
  <2>1. \E l, u \in SIntPatterns(d) :
           /\ SignExtend(r, d) = Interval(l, u, d)
           /\ l # u
           /\ Within(r.lower, r.upper, v, h) => Within(l, u, w, d)
    <3>1. CASE IsFullSet(r) \/ IsSignWrappedSet(r)
      <4>1. SignExtend(r, d) = Interval(2 * d - h, h, d)
        BY <1>0, <1>3, <3>1 DEF SignExtend, Ends
      <4>2. 2 * d - h \in SIntPatterns(d) /\ h \in SIntPatterns(d) /\ 2 * d - h # h
        BY <1>1 DEF SIntPatterns
      <4>3. Within(2 * d - h, h, w, d)
        BY <1>1 DEF Within, SExt, IsNeg
      <4> QED
        BY <4>1, <4>2, <4>3
    <3>2. CASE ~(IsFullSet(r) \/ IsSignWrappedSet(r)) /\ r.upper = SMinValue(r.half)
      <4> DEFINE l == SExt(r.lower, h, d)
      <4>1. SignExtend(r, d) = Interval(l, h, d)
        BY <1>0, <1>3, <3>2 DEF SignExtend, Ends, SMinValue
      <4>2. l \in SIntPatterns(d) /\ h \in SIntPatterns(d) /\ l # h
        <5>1. r.lower # h
          BY <1>0, <1>3, <3>2, NeitherFullNorEmpty DEF Ends, SMinValue
        <5> QED
          BY <1>0, <1>1, <5>1 DEF SIntPatterns, Ends, SExt, IsNeg
      <4>3. Within(r.lower, r.upper, v, h) => Within(l, h, w, d)
        BY <1>0, <1>1, <1>3, <3>2 DEF Within, Ends, IsEmptySet, IsFullSet, UMaxValue, SExt, IsNeg, SMinValue
      <4> QED
        BY <4>1, <4>2, <4>3
    <3>3. CASE ~(IsFullSet(r) \/ IsSignWrappedSet(r)) /\ r.upper # SMinValue(r.half)
      <4> DEFINE l == SExt(r.lower, h, d)
                 u == SExt(r.upper, h, d)
      <4>1. SignExtend(r, d) = Interval(l, u, d)
        BY <1>0, <1>3, <3>3 DEF SignExtend, Ends
      <4>2. l \in SIntPatterns(d) /\ u \in SIntPatterns(d) /\ l # u
        <5>1. r.lower # r.upper
          BY <1>3, <3>3, NeitherFullNorEmpty
        <5> QED
          BY <1>0, <1>1, <5>1 DEF SIntPatterns, Ends, SExt, IsNeg
      <4>3. Within(r.lower, r.upper, v, h) => Within(l, u, w, d)
        <5>1. r.lower # r.upper
          BY <1>3, <3>3, NeitherFullNorEmpty
        <5>2. ~(SVal(r.upper, h) < SVal(r.lower, h)) /\ r.upper # h
          BY <1>0, <3>3 DEF Ends, IsSignWrappedSet, Slt, SMinValue
        <5> QED
          BY <1>0, <1>1, <5>1, <5>2 DEF Within, Ends, SExt, IsNeg, SVal
      <4> QED
        BY <4>1, <4>2, <4>3
    <3> QED
      BY <3>1, <3>2, <3>3
  <2>2. Contains(r, v) <=> Within(r.lower, r.upper, v, h)
    BY <1>1, ContainsIsWithin
  <2>3. PICK l \in SIntPatterns(d), u \in SIntPatterns(d) :
           /\ SignExtend(r, d) = Interval(l, u, d)
           /\ l # u
           /\ Within(r.lower, r.upper, v, h) => Within(l, u, w, d)
    BY <2>1
  <2> HIDE DEF w
  <2>4. Interval(l, u, d) \in RangesOf(d) /\ (Contains(Interval(l, u, d), w) <=> Within(l, u, w, d))
    BY <1>1, <2>3, LiesFrom
  <2>5. Contains(r, v) => Contains(SignExtend(r, d), w)
    BY <2>2, <2>3, <2>4
  <2> QED
    BY <2>3, <2>4, <2>5 DEF w
<1> QED
  BY <1>2, <1>3

-----------------------------------------------------------------------------
(* Verdicts.                                                                *)

\* The pattern of an integer as a signed value of the width, one that lies
\* beyond an end of the width counting as that end.
InWidth(x, h) == -h <= x /\ x < h
Clamped(x, h) ==
    IF x < -h THEN SMinValue(h)
    ELSE IF x >= h THEN SMaxValue(h)
    ELSE IF x < 0 THEN x + 2 * h ELSE x

\* A verdict that says nothing wrong of P.
Truthful(verdict, P) ==
    /\ verdict \in {"true", "false", "unordered"}
    /\ verdict = "true" => P
    /\ verdict = "false" => ~P

\* The verdicts are three.
LEMMA VerdictsDiffer == "true" # "false" /\ "true" # "unordered" /\ "false" # "unordered"
OBVIOUS

\* A clamped integer is on the same side of zero, and is itself if it fits.
LEMMA ClampedFact ==
  ASSUME NEW h \in Nat \ {0, 1}, NEW x \in Int
  PROVE  /\ Clamped(x, h) \in SIntPatterns(h)
         /\ SVal(Clamped(x, h), h) \in Int
         /\ SVal(Clamped(x, h), h) < 0 <=> x < 0
         /\ SVal(Clamped(x, h), h) = 0 <=> x = 0
         /\ Clamped(x, h) = 0 <=> x = 0
         /\ InWidth(x, h) => SVal(Clamped(x, h), h) = x
BY DEF Clamped, SIntPatterns, SVal, IsNeg, SMinValue, SMaxValue, InWidth

\* What the code's order relations say of zero and of exchanged operands.
LEMMA RelatedFact ==
  ASSUME NEW x \in Int, NEW y \in Int, NEW rel \in Relations
  PROVE  /\ SwapOf(rel) \in Relations
         /\ Related(rel, x, y) <=> Related(rel, x - y, 0)
         /\ Related(rel, x, y) <=> Related(SwapOf(rel), y - x, 0)
         /\ rel = "NE" => (Related(rel, x, y) <=> x # y)
         /\ rel = "EQ" => (Related(rel, x, y) <=> x = y)
<1>1. CASE rel = "LT"
  BY <1>1 DEF Related, SwapOf, Relations
<1>2. CASE rel = "LE"
  BY <1>2 DEF Related, SwapOf, Relations
<1>3. CASE rel = "EQ"
  BY <1>3 DEF Related, SwapOf, Relations
<1>4. CASE rel = "GE"
  BY <1>4 DEF Related, SwapOf, Relations
<1>5. CASE rel = "GT"
  BY <1>5 DEF Related, SwapOf, Relations
<1>6. CASE rel = "NE"
  BY <1>6 DEF Related, SwapOf, Relations
<1> QED
  BY <1>1, <1>2, <1>3, <1>4, <1>5, <1>6 DEF Relations

\* A single element is all that its range contains.
LEMMA SingleContains ==
  ASSUME NEW h \in Nat \ {0, 1}, NEW r \in RangesOf(h), NEW v \in SIntPatterns(h),
         IsSingleElement(r), Contains(r, v)
  PROVE  v = r.lower
<1>1. Ends(r, h) /\ Within(r.lower, r.upper, v, h)
  BY RangeEnds, ContainsIsWithin
<1> QED
  BY <1>1 DEF Ends, Within, IsSingleElement, Succ, Plus, SIntPatterns

\* The range of zero.
LEMMA ZeroFact ==
  ASSUME NEW h \in Nat \ {0, 1}
  PROVE  /\ 0 \in SIntPatterns(h) /\ SVal(0, h) = 0
         /\ Single(0, h) \in RangesOf(h) /\ Contains(Single(0, h), 0)
<1>1. 0 \in SIntPatterns(h) /\ SVal(0, h) = 0 /\ Succ(0, h) = 1 /\ 1 \in SIntPatterns(h)
  BY DEF SIntPatterns, SVal, IsNeg, Succ, Plus
<1>2. Within(0, 1, 0, h)
  BY DEF Within
<1> QED
  BY <1>1, <1>2, IntervalLegal, IntervalIsWithin DEF Single

\* A comparison says nothing wrong.
LEMMA CompareTruthful ==
  ASSUME NEW h \in Nat \ {0, 1}, NEW a \in RangesOf(h), NEW b \in RangesOf(h),
         NEW x \in SIntPatterns(h), NEW y \in SIntPatterns(h), Contains(a, x), Contains(b, y),
         NEW unsigned \in BOOLEAN, NEW rel \in {"LT", "LE", "GT", "GE"}
  PROVE  Truthful(Compare(rel, a, b, unsigned), Related(rel, Order(unsigned, x, h), Order(unsigned, y, h)))
<1>1. Compare(rel, a, b, unsigned) \in {"true", "false", "unordered"}
  BY Zenon DEF Compare
<1> QED
  BY <1>1, CompareSound DEF Truthful

\* Nor does the first of several verdicts that decides.
LEMMA FirstTruthful ==
  ASSUME NEW P, NEW u, NEW v, NEW w, Truthful(u, P), Truthful(v, P), Truthful(w, P)
  PROVE  Truthful(FirstDecided(<<u, v, w>>), P)
<1> DEFINE s == <<u, v, w>>
           first(i) == s[i] \in Decided /\ \A j \in DOMAIN s : s[j] \in Decided => i <= j
<1>1. DOMAIN s = 1 .. 3 /\ s[1] = u /\ s[2] = v /\ s[3] = w
  OBVIOUS
<1>2. \A i \in DOMAIN s : Truthful(s[i], P)
  BY <1>1
<1>3. CASE ~\E i \in DOMAIN s : s[i] \in Decided
  <2>1. FirstDecided(s) = "unordered"
    BY <1>3 DEF FirstDecided
  <2> QED
    BY <2>1, VerdictsDiffer DEF Truthful
<1>4. CASE \E i \in DOMAIN s : s[i] \in Decided
  <2>1. \E i \in DOMAIN s : first(i)
    BY <1>1, <1>4
  <2> DEFINE k == CHOOSE i \in DOMAIN s : first(i)
  <2>2. FirstDecided(s) = s[k]
    BY <1>4 DEF FirstDecided
  <2> HIDE DEF first, s
  <2>3. k \in DOMAIN s
    BY <2>1, Zenon
  <2> HIDE DEF k
  <2>4. Truthful(s[k], P)
    BY <1>2, <2>3, Zenon
  <2> QED
    BY <2>2, <2>4 DEF s
<1> QED
  BY <1>3, <1>4

\* Nor any that AnyDecided may give.
LEMMA AnyTruthful ==
  ASSUME NEW P, NEW first, NEW common, Truthful(first, P), \A v \in common : Truthful(v, P),
         NEW verdict \in AnyDecided(first, common)
  PROVE  Truthful(verdict, P)
<1>1. verdict = first \/ verdict = "unordered" \/ verdict \in common
  BY DEF AnyDecided
<1> QED
  BY <1>1, VerdictsDiffer DEF Truthful

\* A bound of nothing but an end of the order: a difference that is there, and
\* every one beyond.
AtEnd(r, h) == r \in {Single(SMinValue(h), h), Single(SMaxValue(h), h)}

\* Two clamped differences u and v in a and b tell how u and v compare, if both fit
\* the width or neither bound is an end alone.
Tell(a, u, b, v, h) == \/ InWidth(u, h) /\ InWidth(v, h)
                       \/ ~AtEnd(a, h) /\ ~AtEnd(b, h)

\* A range below the smallest value, or above the greatest, is that value.
LEMMA ExtremeAlone ==
  ASSUME NEW h \in Nat \ {0, 1}, NEW r \in RangesOf(h)
  PROVE  /\ SMaxOf(r) = SMinValue(h) => r = Single(SMinValue(h), h)
         /\ SMinOf(r) = SMaxValue(h) => r = Single(SMaxValue(h), h)
<1>0. Ends(r, h) /\ r = [lower |-> r.lower, upper |-> r.upper, half |-> r.half]
  BY RangeEnds DEF RangesOf
<1>1. /\ SMaxOf(r) = SMinValue(h) => r.lower = SMinValue(h) /\ r.upper = Succ(SMinValue(h), h)
      /\ SMinOf(r) = SMaxValue(h) => r.lower = SMaxValue(h) /\ r.upper = Succ(SMaxValue(h), h)
  BY <1>0 DEF Ends, SMaxOf, SMinOf, IsFullSet, IsUpperSignWrapped, IsSignWrappedSet, Slt, SVal, IsNeg,
              SMinValue, SMaxValue, UMaxValue, Pred, Minus, Succ, Plus
<1>2. r.half = h
  BY <1>0 DEF Ends
<1> QED
  BY <1>0, <1>1, <1>2 DEF Single, Interval

\* Clamping keeps the order.
LEMMA ClampingKeepsOrder ==
  ASSUME NEW h \in Nat \ {0, 1}, NEW u \in Int, NEW v \in Int
  PROVE  /\ SVal(Clamped(u, h), h) < SVal(Clamped(v, h), h) => u < v
         /\ SVal(Clamped(u, h), h) = SVal(Clamped(v, h), h) =>
               \/ u = v
               \/ Clamped(u, h) = SMinValue(h) /\ SVal(Clamped(u, h), h) = -h
               \/ Clamped(u, h) = SMaxValue(h) /\ SVal(Clamped(u, h), h) = h - 1
         /\ SVal(Clamped(u, h), h) \in -h .. h - 1
         /\ Clamped(u, h) = Clamped(v, h) => u = v \/ Clamped(u, h) \in {SMinValue(h), SMaxValue(h)}
BY DEF Clamped, SVal, IsNeg, SMinValue, SMaxValue

\* What the extremes of two bounds say of the differences.
LEMMA ExtremesTell ==
  ASSUME NEW h \in Nat \ {0, 1}, NEW a \in RangesOf(h), NEW b \in RangesOf(h),
         NEW u \in Int, NEW v \in Int, Contains(a, Clamped(u, h)), Contains(b, Clamped(v, h)),
         Tell(a, u, b, v, h)
  PROVE  /\ Lt(a, b, FALSE) => u < v
         /\ Le(a, b, FALSE) => u <= v
<1> DEFINE i == Clamped(u, h)
           j == Clamped(v, h)
<1>0. Ends(a, h) /\ Ends(b, h) /\ i \in SIntPatterns(h) /\ j \in SIntPatterns(h)
  BY RangeEnds, ClampedFact
<1>1. /\ SMaxOf(a) \in SIntPatterns(h) /\ SMinOf(b) \in SIntPatterns(h)
      /\ a.half = h
  BY <1>0 DEF Ends, SMaxOf, SMinOf, SMaxValue, SMinValue, Pred, Minus, SIntPatterns
<1>2. SVal(i, h) <= SVal(SMaxOf(a), h) /\ SVal(SMinOf(b), h) <= SVal(j, h)
  BY <1>0, SignedExtremes DEF Sle
<1>3. /\ Lt(a, b, FALSE) <=> SVal(SMaxOf(a), h) < SVal(SMinOf(b), h)
      /\ Le(a, b, FALSE) <=> SVal(SMaxOf(a), h) <= SVal(SMinOf(b), h)
  BY <1>1, Zenon DEF Lt, Le, Slt, Sle
<1>4. /\ SVal(i, h) < SVal(j, h) => u < v
      /\ SVal(i, h) = SVal(j, h) => \/ u = v
                                    \/ i = SMinValue(h) /\ SVal(i, h) = -h
                                    \/ i = SMaxValue(h) /\ SVal(i, h) = h - 1
      /\ SVal(i, h) \in -h .. h - 1 /\ SVal(j, h) \in -h .. h - 1
  BY ClampingKeepsOrder
<1>5. /\ SVal(SMaxOf(a), h) = -h => SMaxOf(a) = SMinValue(h)
      /\ SVal(SMinOf(b), h) = h - 1 => SMinOf(b) = SMaxValue(h)
      /\ SVal(SMaxOf(a), h) \in Int /\ SVal(SMinOf(b), h) \in Int
  BY <1>1 DEF SVal, IsNeg, SMinValue, SMaxValue, SIntPatterns
<1>6. /\ SMaxOf(a) = SMinValue(h) => AtEnd(a, h)
      /\ SMinOf(b) = SMaxValue(h) => AtEnd(b, h)
  BY ExtremeAlone DEF AtEnd
<1>7. InWidth(u, h) /\ InWidth(v, h) => SVal(i, h) = u /\ SVal(j, h) = v
  BY ClampedFact
<1> HIDE DEF i, j
<1> DEFINE p == SVal(SMaxOf(a), h)
           q == SVal(SMinOf(b), h)
           w == SVal(i, h)
           z == SVal(j, h)
<1>8. p \in Int /\ q \in Int /\ w \in -h .. h - 1 /\ z \in -h .. h - 1 /\ w <= p /\ q <= z
  BY <1>2, <1>4, <1>5
<1>9. (p < q => u < v) /\ (p <= q => u <= v)
  <2>1. CASE InWidth(u, h) /\ InWidth(v, h)
    <3>1. u = w /\ v = z
      BY <1>7, <2>1
    <3> HIDE DEF p, q, w, z
    <3> QED
      BY <1>8, <3>1
  <2>2. CASE ~AtEnd(a, h) /\ ~AtEnd(b, h)
    <3>1. /\ w < z => u < v
          /\ w = z => u = v \/ w = -h \/ w = h - 1
      BY <1>4
    <3>2. p # -h /\ q # h - 1
      BY <1>5, <1>6, <2>2
    <3> HIDE DEF p, q, w, z
    <3> QED
      BY <1>8, <3>1, <3>2
  <2> QED
    BY <2>1, <2>2 DEF Tell
<1> HIDE DEF p, q
<1> QED
  BY <1>3, <1>9 DEF p, q

\* What two bounds decide of an order relation holds of the differences.
LEMMA BoundsDecide ==
  ASSUME NEW h \in Nat \ {0, 1}, NEW a \in RangesOf(h), NEW b \in RangesOf(h),
         NEW u \in Int, NEW v \in Int, Contains(a, Clamped(u, h)), Contains(b, Clamped(v, h)),
         Tell(a, u, b, v, h), NEW rel \in {"LT", "LE", "GT", "GE"}
  PROVE  Truthful(Compare(rel, a, b, FALSE), Related(rel, u, v))
<1>1. Tell(b, v, a, u, h)
  BY DEF Tell
<1>2. /\ Lt(a, b, FALSE) => u < v
      /\ Le(a, b, FALSE) => u <= v
      /\ Lt(b, a, FALSE) => v < u
      /\ Le(b, a, FALSE) => v <= u
  BY <1>1, ExtremesTell
<1>3. ASSUME NEW order \in {"LT", "LE", "GT", "GE"}, PartialCompare(order, a, b, FALSE)
      PROVE  Related(order, u, v)
  <2>1. /\ order = "LT" => Lt(a, b, FALSE)
        /\ order = "LE" => Le(a, b, FALSE)
        /\ order = "GT" => Lt(b, a, FALSE)
        /\ order = "GE" => Le(b, a, FALSE)
    <3>1. "LT" # "LE" /\ "LT" # "GT" /\ "LT" # "GE" /\ "LE" # "GT" /\ "LE" # "GE" /\ "GT" # "GE"
      OBVIOUS
    <3> QED
      BY <1>3, <3>1, Zenon DEF PartialCompare
  <2> QED
    BY <1>2, <2>1 DEF Related
<1>4. NegOf(rel) \in {"LT", "LE", "GT", "GE"}
  BY DEF NegOf
<1>5. Related(NegOf(rel), u, v) => ~Related(rel, u, v)
  BY DEF NegOf, Related
<1>6. /\ Compare(rel, a, b, FALSE) = "true" => PartialCompare(rel, a, b, FALSE)
      /\ Compare(rel, a, b, FALSE) = "false" => PartialCompare(NegOf(rel), a, b, FALSE)
      /\ Compare(rel, a, b, FALSE) \in {"true", "false", "unordered"}
  <2>1. "true" # "false" /\ "true" # "unordered" /\ "false" # "unordered"
    OBVIOUS
  <2> QED
    BY <2>1, Zenon DEF Compare
<1>7. /\ Compare(rel, a, b, FALSE) = "true" => Related(rel, u, v)
      /\ Compare(rel, a, b, FALSE) = "false" => ~Related(rel, u, v)
  BY <1>3, <1>4, <1>5, <1>6, Zenon
<1> QED
  BY <1>6, <1>7 DEF Truthful

\* What two bounds decide of equality holds of the differences.
LEMMA BoundsDistinguish ==
  ASSUME NEW h \in Nat \ {0, 1}, NEW a \in RangesOf(h), NEW b \in RangesOf(h),
         NEW u \in Int, NEW v \in Int, Contains(a, Clamped(u, h)), Contains(b, Clamped(v, h)),
         Tell(a, u, b, v, h)
  PROVE  Truthful(CompareTransitiveEquality(a, b), u = v)
<1> DEFINE i == Clamped(u, h)
           j == Clamped(v, h)
           both == IntersectWith(a, b, "Signed")
<1>1. i \in SIntPatterns(h) /\ j \in SIntPatterns(h)
  BY ClampedFact
<1>2. IsSingleElement(a) /\ IsSingleElement(b) => i = a.lower /\ j = b.lower
  BY <1>1, SingleContains
<1>3. IsSingleElement(a) /\ a.lower \in {SMinValue(h), SMaxValue(h)} => AtEnd(a, h)
  <2>1. Ends(a, h) /\ a = [lower |-> a.lower, upper |-> a.upper, half |-> a.half]
    BY RangeEnds DEF RangesOf
  <2>2. a.half = h
    BY <2>1 DEF Ends
  <2> QED
    BY <2>1, <2>2 DEF IsSingleElement, AtEnd, Single, Interval
<1>4. IsSingleElement(a) /\ IsSingleElement(b) => (u = v <=> a.lower = b.lower)
  <2>1. InWidth(u, h) /\ InWidth(v, h) => SVal(i, h) = u /\ SVal(j, h) = v
    BY ClampedFact
  <2>2. i = j => u = v \/ i \in {SMinValue(h), SMaxValue(h)}
    BY ClampingKeepsOrder
  <2> HIDE DEF i, j
  <2>3. i = j /\ InWidth(u, h) /\ InWidth(v, h) => u = v
    BY <2>1
  <2>4. u = v => i = j
    BY DEF i, j
  <2> QED
    BY <1>2, <1>3, <2>2, <2>3, <2>4 DEF Tell
<1>5. u = v => ~IsEmptySet(both)
  <2>1. ASSUME u = v PROVE both \in RangesOf(h) /\ Contains(both, i)
    BY <1>1, <2>1, IntersectionCovers
  <2> HIDE DEF both, i
  <2> QED
    BY <1>1, <2>1, EmptyContainsNothing
<1> HIDE DEF both, i, j
<1>6. CASE IsSingleElement(a) /\ IsSingleElement(b)
  <2>1. CompareTransitiveEquality(a, b) = FromBool(a.lower = b.lower)
    BY <1>6 DEF CompareTransitiveEquality
  <2> QED
    BY <1>4, <1>6, <2>1, VerdictsDiffer DEF Truthful, FromBool
<1>7. CASE ~(IsSingleElement(a) /\ IsSingleElement(b))
  <2>1. CompareTransitiveEquality(a, b) = IF IsEmptySet(both) THEN "false" ELSE "unordered"
    BY <1>7 DEF CompareTransitiveEquality, both
  <2> QED
    BY <1>5, <2>1, VerdictsDiffer DEF Truthful
<1> QED
  BY <1>6, <1>7

\* The comparison of a bound to zero, which no clamping reaches.
LEMMA BoundsTruthful ==
  ASSUME NEW h \in Nat \ {0, 1}, NEW a \in RangesOf(h), NEW u \in Int, Contains(a, Clamped(u, h)),
         NEW rel \in {"LT", "LE", "GT", "GE"}
  PROVE  Truthful(Compare(rel, a, Single(0, h), FALSE), Related(rel, u, 0))
<1>1. Clamped(u, h) \in SIntPatterns(h) /\ FALSE \in BOOLEAN
  BY ClampedFact
<1>2. \A p \in SIntPatterns(h) : Order(FALSE, p, h) = SVal(p, h)
  BY DEF Order
<1>3. Truthful(Compare(rel, a, Single(0, h), FALSE), Related(rel, SVal(Clamped(u, h), h), 0))
  <2>1. Truthful(Compare(rel, a, Single(0, h), FALSE),
                 Related(rel, Order(FALSE, Clamped(u, h), h), Order(FALSE, 0, h)))
    BY <1>1, ZeroFact, CompareTruthful
  <2> QED
    BY <1>1, <1>2, <2>1, ZeroFact
<1>4. Related(rel, SVal(Clamped(u, h), h), 0) <=> Related(rel, u, 0)
  <2>1. /\ SVal(Clamped(u, h), h) \in Int
        /\ SVal(Clamped(u, h), h) < 0 <=> u < 0
        /\ SVal(Clamped(u, h), h) = 0 <=> u = 0
    BY ClampedFact
  <2> QED
    BY <2>1 DEF Related
<1> QED
  BY <1>3, <1>4 DEF Truthful

\* The differences of a value from the symbols of its bounds, as bounds hold them.
DifferencesOf(d, value, val, h) == [s \in DOMAIN d.bounds |-> Clamped(value - val[s], h)]

\* What the theorems assume of the values of two symbols l and r: x and y are
\* their patterns, each described by its domain.
Operands(c, d, l, r, x, y, val, unsigned, h) ==
    /\ val[l] = Order(unsigned, x, h) /\ val[r] = Order(unsigned, y, h)
    /\ \A s \in DOMAIN c.bounds \union DOMAIN d.bounds : val[s] \in Int
    /\ Describes(c, x, DifferencesOf(c, val[l], val, h))
    /\ Describes(d, y, DifferencesOf(d, val[r], val, h))

\* Where both domains bound the difference from one symbol the bounds tell how the
\* two differences compare.
Between(c, d, l, r, x, y, val, unsigned, h) ==
    /\ Operands(c, d, l, r, x, y, val, unsigned, h)
    /\ \A s \in DOMAIN c.bounds \intersect DOMAIN d.bounds :
          Tell(c.bounds[s], val[l] - val[s], d.bounds[s], val[r] - val[s], h)

\* The parts, of the symbols that matter.
KnownOperands(c, d, l, r, x, y, val, h) ==
    /\ val[l] \in Int /\ val[r] \in Int /\ (val[l] = val[r] <=> x = y)
    /\ c.numeric \in RangesOf(h) /\ d.numeric \in RangesOf(h) /\ c.numeric.half = h
    /\ Contains(c.numeric, x) /\ Contains(d.numeric, y)
    /\ HasBound(c, r) => /\ c.bounds[r] \in RangesOf(h)
                         /\ Contains(c.bounds[r], Clamped(val[l] - val[r], h))
    /\ HasBound(d, l) => /\ d.bounds[l] \in RangesOf(h)
                         /\ Contains(d.bounds[l], Clamped(val[r] - val[l], h))

KnownBetween(c, d, l, r, x, y, val, h) ==
    /\ KnownOperands(c, d, l, r, x, y, val, h)
    /\ \A s \in DOMAIN c.bounds \intersect DOMAIN d.bounds :
          /\ val[s] \in Int
          /\ c.bounds[s] \in RangesOf(h) /\ d.bounds[s] \in RangesOf(h)
          /\ Contains(c.bounds[s], Clamped(val[l] - val[s], h))
          /\ Contains(d.bounds[s], Clamped(val[r] - val[s], h))
          /\ Tell(c.bounds[s], val[l] - val[s], d.bounds[s], val[r] - val[s], h)

\* What the operands of an operation know, without their types.
LEMMA OperandsFact ==
  ASSUME NEW h \in Nat \ {0, 1}, NEW c, NEW d, IsDomain(c, h), IsDomain(d, h),
         NEW l, NEW r, NEW x \in SIntPatterns(h), NEW y \in SIntPatterns(h), NEW val,
         NEW unsigned \in BOOLEAN, Operands(c, d, l, r, x, y, val, unsigned, h)
  PROVE  KnownOperands(c, d, l, r, x, y, val, h)
<1>1. /\ Order(unsigned, x, h) \in Int /\ Order(unsigned, y, h) \in Int
      /\ Order(unsigned, x, h) = Order(unsigned, y, h) <=> x = y
  BY DEF Order, SVal, IsNeg, SIntPatterns
<1>2. c.numeric.half = h
  BY RangeEnds DEF IsDomain, Ends
<1> QED
  BY <1>1, <1>2 DEF Operands, DifferencesOf, KnownOperands, Describes, IsDomain, HasBound

\* What two compared values know, without their types.
LEMMA BetweenFact ==
  ASSUME NEW h \in Nat \ {0, 1}, NEW c, NEW d, IsDomain(c, h), IsDomain(d, h),
         NEW l, NEW r, NEW x \in SIntPatterns(h), NEW y \in SIntPatterns(h), NEW val,
         NEW unsigned \in BOOLEAN, Between(c, d, l, r, x, y, val, unsigned, h)
  PROVE  KnownBetween(c, d, l, r, x, y, val, h)
<1>1. Operands(c, d, l, r, x, y, val, unsigned, h)
  BY DEF Between
<1>2. KnownOperands(c, d, l, r, x, y, val, h)
  BY <1>1, OperandsFact, Zenon
<1> QED
  BY <1>1, <1>2 DEF Between, Operands, DifferencesOf, KnownBetween, Describes, IsDomain

\* SIntDomain::ComputeTotalOrdering.
LEMMA OrderingTruthful ==
  ASSUME NEW h \in Nat \ {0, 1}, NEW c, NEW d, IsDomain(c, h), IsDomain(d, h),
         NEW l, NEW r, NEW x \in SIntPatterns(h), NEW y \in SIntPatterns(h), NEW val,
         NEW unsigned \in BOOLEAN, Between(c, d, l, r, x, y, val, unsigned, h),
         NEW rel \in {"LT", "LE", "GT", "GE"},
         NEW verdict \in ComputeTotalOrdering(rel, c, d, l, r, unsigned)
  PROVE  Truthful(verdict, Related(rel, val[l], val[r]))
<1> DEFINE P == Related(rel, val[l], val[r])
           zero == Single(0, c.numeric.half)
           numeric == Compare(rel, c.numeric, d.numeric, unsigned)
           direct == IF HasBound(c, r) THEN Compare(rel, c.bounds[r], zero, FALSE) ELSE "unordered"
           reverse == IF HasBound(d, l) THEN Compare(SwapOf(rel), d.bounds[l], zero, FALSE) ELSE "unordered"
           common == {Compare(rel, c.bounds[s], d.bounds[s], FALSE) : s \in DOMAIN c.bounds \intersect DOMAIN d.bounds}
<1>0. KnownBetween(c, d, l, r, x, y, val, h)
  BY BetweenFact, Zenon
<1>1. /\ val[l] \in Int /\ val[r] \in Int /\ rel \in Relations
      /\ SwapOf(rel) \in {"LT", "LE", "GT", "GE"}
      /\ zero = Single(0, h)
  BY <1>0 DEF KnownBetween, KnownOperands, Relations, SwapOf
<1>2. Truthful("unordered", P)
  BY VerdictsDiffer DEF Truthful
<1>3. Truthful(numeric, P)
  <2>1. /\ val[l] = Order(unsigned, x, h) /\ val[r] = Order(unsigned, y, h)
        /\ c.numeric \in RangesOf(h) /\ d.numeric \in RangesOf(h)
        /\ Contains(c.numeric, x) /\ Contains(d.numeric, y)
    BY <1>0 DEF KnownBetween, KnownOperands, Between, Operands
  <2> QED
    BY <2>1, CompareTruthful
<1>4. Truthful(direct, P)
  <2>1. CASE HasBound(c, r)
    <3>1. /\ val[l] - val[r] \in Int
          /\ c.bounds[r] \in RangesOf(h) /\ Contains(c.bounds[r], Clamped(val[l] - val[r], h))
      BY <1>0, <1>1, <2>1 DEF KnownBetween, KnownOperands
    <3>2. Truthful(Compare(rel, c.bounds[r], Single(0, h), FALSE), Related(rel, val[l] - val[r], 0))
      BY <3>1, BoundsTruthful
    <3>3. P <=> Related(rel, val[l] - val[r], 0)
      BY <1>1, RelatedFact
    <3> QED
      BY <1>1, <2>1, <3>2, <3>3 DEF Truthful
  <2> QED
    BY <1>2, <2>1
<1>5. Truthful(reverse, P)
  <2>1. CASE HasBound(d, l)
    <3>1. /\ val[r] - val[l] \in Int
          /\ d.bounds[l] \in RangesOf(h) /\ Contains(d.bounds[l], Clamped(val[r] - val[l], h))
      BY <1>0, <1>1, <2>1 DEF KnownBetween, KnownOperands
    <3>2. Truthful(Compare(SwapOf(rel), d.bounds[l], Single(0, h), FALSE),
                   Related(SwapOf(rel), val[r] - val[l], 0))
      BY <1>1, <3>1, BoundsTruthful
    <3>3. P <=> Related(SwapOf(rel), val[r] - val[l], 0)
      BY <1>1, RelatedFact
    <3> QED
      BY <1>1, <2>1, <3>2, <3>3 DEF Truthful
  <2> QED
    BY <1>2, <2>1
<1>6. \A v \in common : Truthful(v, P)
  <2> SUFFICES ASSUME NEW s \in DOMAIN c.bounds \intersect DOMAIN d.bounds
               PROVE  Truthful(Compare(rel, c.bounds[s], d.bounds[s], FALSE), P)
    OBVIOUS
  <2>1. /\ val[l] - val[s] \in Int /\ val[r] - val[s] \in Int
        /\ c.bounds[s] \in RangesOf(h) /\ d.bounds[s] \in RangesOf(h)
        /\ Contains(c.bounds[s], Clamped(val[l] - val[s], h))
        /\ Contains(d.bounds[s], Clamped(val[r] - val[s], h))
        /\ Tell(c.bounds[s], val[l] - val[s], d.bounds[s], val[r] - val[s], h) /\ val[s] \in Int
    BY <1>0, <1>1 DEF KnownBetween, KnownOperands
  <2>2. Truthful(Compare(rel, c.bounds[s], d.bounds[s], FALSE), Related(rel, val[l] - val[s], val[r] - val[s]))
    BY <2>1, BoundsDecide
  <2>3. P <=> Related(rel, val[l] - val[s], val[r] - val[s])
    BY <1>1, <2>1 DEF Related
  <2> QED
    BY <2>2, <2>3 DEF Truthful
<1>7. Truthful(FirstDecided(<<numeric, direct, reverse>>), P)
  BY <1>3, <1>4, <1>5, FirstTruthful
<1>8. verdict \in AnyDecided(FirstDecided(<<numeric, direct, reverse>>), common)
  BY DEF ComputeTotalOrdering
<1> HIDE DEF P, numeric, direct, reverse, common
<1>9. Truthful(verdict, P)
  BY <1>6, <1>7, <1>8, AnyTruthful
<1> QED
  BY <1>9 DEF P

\* SIntDomain::ComputeEquality.
LEMMA EqualityTruthful ==
  ASSUME NEW h \in Nat \ {0, 1}, NEW c, NEW d, IsDomain(c, h), IsDomain(d, h),
         NEW l, NEW r, NEW x \in SIntPatterns(h), NEW y \in SIntPatterns(h), NEW val,
         NEW unsigned \in BOOLEAN, Between(c, d, l, r, x, y, val, unsigned, h),
         NEW verdict \in ComputeEquality(c, d, l, r)
  PROVE  Truthful(verdict, val[l] = val[r])
<1> DEFINE P == val[l] = val[r]
           numeric == IF IsSingleValue(c) /\ IsSingleValue(d)
                      THEN FromBool(c.numeric.lower = d.numeric.lower)
                      ELSE IF IsEmptySet(IntersectWith(c.numeric, d.numeric, PreferFromBool(c.unsigned)))
                      THEN "false" ELSE "unordered"
           direct == IF HasBound(c, r) /\ IsSingleElement(c.bounds[r])
                     THEN FromBool(c.bounds[r].lower = 0) ELSE "unordered"
           reverse == IF ~HasBound(d, l) THEN "unordered"
                      ELSE IF IsSingleElement(d.bounds[l]) THEN FromBool(d.bounds[l].lower = 0)
                      ELSE IF ~Contains(d.bounds[l], 0) THEN "false" ELSE "unordered"
           common == {CompareTransitiveEquality(c.bounds[s], d.bounds[s]) :
                        s \in DOMAIN c.bounds \intersect DOMAIN d.bounds}
<1>0. KnownBetween(c, d, l, r, x, y, val, h)
  BY BetweenFact, Zenon
<1>1. val[l] \in Int /\ val[r] \in Int /\ (P <=> x = y)
  BY <1>0 DEF KnownBetween, KnownOperands
<1>2. Truthful("unordered", P)
  BY VerdictsDiffer DEF Truthful
<1>3. ASSUME NEW Q \in BOOLEAN, Q <=> P PROVE Truthful(FromBool(Q), P)
  BY <1>3, VerdictsDiffer DEF Truthful, FromBool
<1>4. ASSUME ~P PROVE Truthful("false", P)
  BY <1>4, VerdictsDiffer DEF Truthful
<1>5. Truthful(numeric, P)
  <2>0. /\ c.numeric \in RangesOf(h) /\ d.numeric \in RangesOf(h)
        /\ Contains(c.numeric, x) /\ Contains(d.numeric, y)
    BY <1>0 DEF KnownBetween, KnownOperands
  <2>1. CASE IsSingleValue(c) /\ IsSingleValue(d)
    <3>1. x = c.numeric.lower /\ y = d.numeric.lower
      BY <2>0, <2>1, SingleContains DEF IsSingleValue
    <3>2. Truthful(FromBool(c.numeric.lower = d.numeric.lower), P)
      BY <1>1, <1>3, <3>1
    <3> QED
      BY <2>1, <3>2
  <2>2. CASE ~(IsSingleValue(c) /\ IsSingleValue(d))
    <3> DEFINE both == IntersectWith(c.numeric, d.numeric, PreferFromBool(c.unsigned))
    <3>1. P => ~IsEmptySet(both)
      <4>1. ASSUME P PROVE both \in RangesOf(h) /\ Contains(both, x)
        BY <1>1, <2>0, <4>1, IntersectionCovers
      <4> HIDE DEF both
      <4> QED
        BY <4>1, EmptyContainsNothing
    <3> HIDE DEF both
    <3>2. Truthful(IF IsEmptySet(both) THEN "false" ELSE "unordered", P)
      BY <1>2, <1>4, <3>1
    <3>3. numeric = IF IsEmptySet(both) THEN "false" ELSE "unordered"
      BY <2>2 DEF both
    <3> QED
      BY <3>2, <3>3
  <2> QED
    BY <2>1, <2>2
<1>6. Truthful(direct, P)
  <2>1. CASE HasBound(c, r) /\ IsSingleElement(c.bounds[r])
    <3>1. /\ val[l] - val[r] \in Int
          /\ c.bounds[r] \in RangesOf(h) /\ Contains(c.bounds[r], Clamped(val[l] - val[r], h))
      BY <1>0, <1>1, <2>1 DEF KnownBetween, KnownOperands
    <3>2. /\ Clamped(val[l] - val[r], h) \in SIntPatterns(h)
          /\ Clamped(val[l] - val[r], h) = 0 <=> val[l] - val[r] = 0
      BY <3>1, ClampedFact
    <3>3. Clamped(val[l] - val[r], h) = c.bounds[r].lower
      BY <2>1, <3>1, <3>2, SingleContains
    <3>4. c.bounds[r].lower = 0 <=> P
      BY <1>1, <3>2, <3>3
    <3>5. Truthful(FromBool(c.bounds[r].lower = 0), P)
      BY <1>3, <3>4
    <3> QED
      BY <2>1, <3>5
  <2> QED
    BY <1>2, <2>1
<1>7. Truthful(reverse, P)
  <2>1. CASE HasBound(d, l)
    <3>1. /\ val[r] - val[l] \in Int
          /\ d.bounds[l] \in RangesOf(h) /\ Contains(d.bounds[l], Clamped(val[r] - val[l], h))
      BY <1>0, <1>1, <2>1 DEF KnownBetween, KnownOperands
    <3>2. /\ Clamped(val[r] - val[l], h) \in SIntPatterns(h)
          /\ Clamped(val[r] - val[l], h) = 0 <=> val[r] - val[l] = 0
      BY <3>1, ClampedFact
    <3>3. CASE IsSingleElement(d.bounds[l])
      <4>1. Clamped(val[r] - val[l], h) = d.bounds[l].lower
        BY <3>1, <3>2, <3>3, SingleContains
      <4>2. d.bounds[l].lower = 0 <=> P
        BY <1>1, <3>2, <4>1
      <4>3. Truthful(FromBool(d.bounds[l].lower = 0), P)
        BY <1>3, <4>2
      <4> QED
        BY <2>1, <3>3, <4>3
    <3>4. CASE ~IsSingleElement(d.bounds[l])
      <4>1. P => Contains(d.bounds[l], 0)
        BY <1>1, <3>1, <3>2
      <4>2. Truthful(IF ~Contains(d.bounds[l], 0) THEN "false" ELSE "unordered", P)
        BY <1>2, <1>4, <4>1
      <4> QED
        BY <2>1, <3>4, <4>2
    <3> QED
      BY <3>3, <3>4
  <2> QED
    BY <1>2, <2>1
<1>8. \A v \in common : Truthful(v, P)
  <2> SUFFICES ASSUME NEW s \in DOMAIN c.bounds \intersect DOMAIN d.bounds
               PROVE  Truthful(CompareTransitiveEquality(c.bounds[s], d.bounds[s]), P)
    OBVIOUS
  <2>1. /\ val[l] - val[s] \in Int /\ val[r] - val[s] \in Int
        /\ c.bounds[s] \in RangesOf(h) /\ d.bounds[s] \in RangesOf(h)
        /\ Contains(c.bounds[s], Clamped(val[l] - val[s], h))
        /\ Contains(d.bounds[s], Clamped(val[r] - val[s], h))
        /\ Tell(c.bounds[s], val[l] - val[s], d.bounds[s], val[r] - val[s], h) /\ val[s] \in Int
    BY <1>0, <1>1 DEF KnownBetween, KnownOperands
  <2>2. Truthful(CompareTransitiveEquality(c.bounds[s], d.bounds[s]), val[l] - val[s] = val[r] - val[s])
    BY <2>1, BoundsDistinguish
  <2>3. P <=> val[l] - val[s] = val[r] - val[s]
    BY <1>1, <2>1
  <2> QED
    BY <2>2, <2>3 DEF Truthful
<1>9. Truthful(FirstDecided(<<numeric, direct, reverse>>), P)
  BY <1>5, <1>6, <1>7, FirstTruthful
<1>10. verdict \in AnyDecided(FirstDecided(<<numeric, direct, reverse>>), common)
  BY DEF ComputeEquality
<1> HIDE DEF P, numeric, direct, reverse, common
<1>11. Truthful(verdict, P)
  BY <1>8, <1>9, <1>10, AnyTruthful
<1> QED
  BY <1>11 DEF P

\* SIntDomain::ComputeRelIntBinop, for each relation, both signednesses and
\* whichever common symbol is looked at first: of two values that the domains
\* describe, the verdict says nothing wrong, and it is never "bottom".  Where both
\* domains bound the difference from one symbol, either the differences fit the
\* width or neither bound is an end of the order alone: 127 and 130, which eight
\* bits clamp to 127, look equal.
THEOREM VerdictSound ==
  ASSUME NEW h \in Nat \ {0, 1}, NEW c, NEW d, IsDomain(c, h), IsDomain(d, h),
         NEW l, NEW r, NEW x \in SIntPatterns(h), NEW y \in SIntPatterns(h), NEW val,
         NEW unsigned \in BOOLEAN, Between(c, d, l, r, x, y, val, unsigned, h),
         NEW rel \in Relations,
         NEW verdict \in ComputeRelIntBinop(rel, c, d, l, r, unsigned)
  PROVE  Truthful(verdict, Related(rel, val[l], val[r]))
<1> DEFINE P == Related(rel, val[l], val[r])
<1>0. KnownBetween(c, d, l, r, x, y, val, h)
  BY BetweenFact, Zenon
<1>1. val[l] \in Int /\ val[r] \in Int
  BY <1>0 DEF KnownBetween, KnownOperands
<1>2. ~IsBottom(c) /\ ~IsBottom(d)
  BY <1>0, EmptyContainsNothing DEF KnownBetween, KnownOperands, IsBottom
<1>3. CASE l = r
  <2>1. P <=> rel \in {"EQ", "LE", "GE"}
    BY <1>1, <1>3 DEF Related, Relations
  <2>2. verdict = FromBool(rel \in {"EQ", "LE", "GE"})
    BY <1>3 DEF ComputeRelIntBinop
  <2> HIDE DEF P
  <2>3. Truthful(verdict, P)
    BY <2>1, <2>2, VerdictsDiffer DEF Truthful, FromBool
  <2> QED
    BY <2>3 DEF P
<1>4. CASE l # r /\ rel = "EQ"
  <2>1. verdict \in ComputeEquality(c, d, l, r)
    BY <1>2, <1>4 DEF ComputeRelIntBinop
  <2>2. Truthful(verdict, val[l] = val[r])
    BY <2>1, EqualityTruthful
  <2>3. P <=> val[l] = val[r]
    BY <1>4 DEF Related
  <2> QED
    BY <2>2, <2>3 DEF Truthful
<1>5. CASE l # r /\ rel = "NE"
  <2>1. PICK v \in ComputeEquality(c, d, l, r) : verdict = NegVerdict(v)
    BY <1>2, <1>5 DEF ComputeRelIntBinop
  <2>2. Truthful(v, val[l] = val[r])
    BY EqualityTruthful
  <2>3. P <=> ~(val[l] = val[r])
    BY <1>5 DEF Related
  <2>4. /\ v = "true" => verdict = "false"
        /\ v = "false" => verdict = "true"
        /\ v = "unordered" => verdict = "unordered"
    BY <2>1 DEF NegVerdict, Decided
  <2> HIDE DEF P
  <2>5. Truthful(verdict, P)
    BY <2>2, <2>3, <2>4, VerdictsDiffer DEF Truthful
  <2> QED
    BY <2>5 DEF P
<1>6. CASE l # r /\ rel \notin {"EQ", "NE"}
  <2>1. rel \in {"LT", "LE", "GT", "GE"}
    BY <1>6 DEF Relations
  <2>2. verdict \in ComputeTotalOrdering(rel, c, d, l, r, unsigned)
    BY <1>2, <1>6, <2>1 DEF ComputeRelIntBinop
  <2> QED
    BY <2>1, <2>2, OrderingTruthful
<1> QED
  BY <1>3, <1>4, <1>5, <1>6

-----------------------------------------------------------------------------
(* Narrowing by a comparison.                                               *)

\* From in the order of a type's signedness.
LEMMA FromOrdered ==
  ASSUME NEW h \in Nat \ {0, 1}, NEW v \in SIntPatterns(h), NEW w \in SIntPatterns(h),
         NEW unsigned \in BOOLEAN, NEW rel \in Relations
  PROVE  /\ From(rel, v, ~unsigned, h) \in RangesOf(h)
         /\ Contains(From(rel, v, ~unsigned, h), w)
              <=> Related(rel, Order(unsigned, w, h), Order(unsigned, v, h))
<1>1. \A signed \in BOOLEAN :
         /\ From(rel, v, signed, h) \in RangesOf(h)
         /\ Contains(From(rel, v, signed, h), w)
              <=> Related(rel, Order(~signed, w, h), Order(~signed, v, h))
  BY FromExact
<1>2. CASE unsigned = TRUE
  <2>1. ~unsigned = FALSE /\ ~FALSE = TRUE
    BY <1>2
  <2> QED
    BY <1>1, <1>2, <2>1
<1>3. CASE unsigned = FALSE
  <2>1. ~unsigned = TRUE /\ ~TRUE = FALSE
    BY <1>3
  <2> QED
    BY <1>1, <1>3, <2>1
<1> QED
  BY <1>2, <1>3

\* SIntDomain::FromNumeric and FromSymbolic, met with what is known of a value:
\* a value that compares as they say, with a constant or with another symbol,
\* is still described.  Not so below a symbol in the unsigned order, where the
\* bound is taken in that order and read in the signed one.
THEOREM ComparisonKeeps ==
  ASSUME NEW h \in Nat \ {0, 1}, NEW d, IsDomain(d, h), NEW v \in SIntPatterns(h), NEW differences,
         NEW s, \A t \in DOMAIN d.bounds \union {s} : differences[t] \in SIntPatterns(h),
         Describes(d, v, differences),
         NEW unsigned \in BOOLEAN, NEW rel \in Relations
  PROVE  /\ \A k \in SIntPatterns(h) :
               Related(rel, Order(unsigned, v, h), Order(unsigned, k, h)) =>
                  LET met == Intersects(d, FromNumeric(rel, k, unsigned, h))
                  IN  IsDomain(met, h) /\ Describes(met, v, differences)
         /\ \A other \in Int :
               /\ Related(rel, Order(unsigned, v, h), other)
               /\ differences[s] = Clamped(Order(unsigned, v, h) - other, h)
               /\ unsigned => rel \notin {"LT", "LE"}
               => LET met == Intersects(d, FromSymbolic(rel, s, unsigned, h))
                  IN  IsDomain(met, h) /\ Describes(met, v, differences)
<1>0. Order(unsigned, v, h) \in Int
  BY DEF Order, SVal, IsNeg, SIntPatterns
<1>1. ASSUME NEW k \in SIntPatterns(h), Related(rel, Order(unsigned, v, h), Order(unsigned, k, h))
      PROVE  LET met == Intersects(d, FromNumeric(rel, k, unsigned, h))
             IN  IsDomain(met, h) /\ Describes(met, v, differences)
  <2> DEFINE e == FromNumeric(rel, k, unsigned, h)
             range == From(rel, k, ~unsigned, h)
  <2>1. range \in RangesOf(h) /\ Contains(range, v)
    BY <1>1, FromOrdered
  <2>2. e.numeric = range /\ DOMAIN e.bounds = {}
    BY DEF FromNumeric, Bare, Domain, NoBounds
  <2> HIDE DEF e, range
  <2>3. IsDomain(e, h) /\ Describes(e, v, differences)
    BY <2>1, <2>2 DEF IsDomain, Describes
  <2>4. \A t \in DOMAIN d.bounds \union DOMAIN e.bounds : differences[t] \in SIntPatterns(h)
    BY <2>2
  <2>5. IsDomain(Intersects(d, e), h) /\ Describes(Intersects(d, e), v, differences)
    BY <2>3, <2>4, MeetKeeps
  <2> QED
    BY <2>5 DEF e
<1>2. ASSUME NEW other \in Int, Related(rel, Order(unsigned, v, h), other),
             differences[s] = Clamped(Order(unsigned, v, h) - other, h),
             unsigned => rel \notin {"LT", "LE"}
      PROVE  LET met == Intersects(d, FromSymbolic(rel, s, unsigned, h))
             IN  IsDomain(met, h) /\ Describes(met, v, differences)
  <2> DEFINE e == FromSymbolic(rel, s, unsigned, h)
             range == From(rel, 0, ~unsigned, h)
             x == Order(unsigned, v, h) - other
             p == differences[s]
  <2>0. x \in Int /\ p = Clamped(x, h) /\ 0 \in SIntPatterns(h) /\ p \in SIntPatterns(h)
    BY <1>0, <1>2, ZeroFact
  <2>1. Related(rel, x, 0)
    BY <1>0, <1>2, RelatedFact
  <2>2. /\ SVal(p, h) \in Int
        /\ SVal(p, h) < 0 <=> x < 0
        /\ SVal(p, h) = 0 <=> x = 0
        /\ p = 0 <=> x = 0
    BY <2>0, ClampedFact
  <2>3. Related(rel, Order(unsigned, p, h), Order(unsigned, 0, h))
    <3>1. CASE ~unsigned
      <4>1. Order(unsigned, p, h) = SVal(p, h) /\ Order(unsigned, 0, h) = 0
        BY <3>1, ZeroFact DEF Order
      <4> HIDE DEF x, p
      <4> QED
        BY <2>0, <2>1, <2>2, <4>1 DEF Related
    <3>2. CASE unsigned
      <4>1. Order(unsigned, p, h) = p /\ Order(unsigned, 0, h) = 0
        BY <3>2 DEF Order
      <4>2. rel # "LT" /\ rel # "LE"
        BY <1>2, <3>2
      <4>3. rel \in {"EQ", "GT", "GE", "NE"} /\ p \in Nat
        BY <2>0, <4>2 DEF Relations, SIntPatterns
      <4> HIDE DEF x, p
      <4> QED
        BY <2>0, <2>1, <2>2, <4>1, <4>3 DEF Related
    <3> QED
      BY <3>1, <3>2
  <2>4. range \in RangesOf(h) /\ Contains(range, p)
    BY <2>0, <2>3, FromOrdered
  <2>5. /\ e.numeric = Full(h) /\ DOMAIN e.bounds \subseteq {s}
        /\ \A t \in DOMAIN e.bounds : t = s /\ e.bounds[t] = range
    BY DEF FromSymbolic, Domain, NoBounds
  <2>6. Full(h) \in RangesOf(h) /\ Contains(Full(h), v)
    BY ExtremesLegal, ExtremesContain
  <2> HIDE DEF e, range
  <2>7. IsDomain(e, h) /\ Describes(e, v, differences)
    BY <2>4, <2>5, <2>6 DEF IsDomain, Describes
  <2>8. \A t \in DOMAIN d.bounds \union DOMAIN e.bounds : differences[t] \in SIntPatterns(h)
    BY <2>5
  <2>9. IsDomain(Intersects(d, e), h) /\ Describes(Intersects(d, e), v, differences)
    BY <2>7, <2>8, MeetKeeps
  <2> QED
    BY <2>9 DEF e
<1> QED
  BY <1>1, <1>2

-----------------------------------------------------------------------------
(* The domains of sums and differences.                                     *)

\* v is the pattern of z, a sum or a difference of two values of a type, under
\* an overflow strategy: none if z does not fit and the operation throws.
IsOutcome(v, z, unsigned, ov, h) ==
    LET least == IF unsigned THEN 0 ELSE -h
        greatest == IF unsigned THEN 2 * h - 1 ELSE h - 1
    IN  /\ v \in SIntPatterns(h)
        /\ least <= z /\ z <= greatest => Order(unsigned, v, h) = z
        /\ z < least => \/ ov = "SATURATING" /\ Order(unsigned, v, h) = least
                        \/ ov = "WRAPPING" /\ Order(unsigned, v, h) = z + 2 * h
        /\ z > greatest => \/ ov = "SATURATING" /\ Order(unsigned, v, h) = greatest
                           \/ ov = "WRAPPING" /\ Order(unsigned, v, h) = z - 2 * h

\* Without saturation it is the sum, or the difference, of the patterns.
LEMMA ModularOutcome ==
  ASSUME NEW h \in Nat \ {0, 1}, NEW x \in SIntPatterns(h), NEW y \in SIntPatterns(h), NEW v,
         NEW unsigned \in BOOLEAN, NEW ov \in {"THROWING", "WRAPPING"}
  PROVE  /\ IsOutcome(v, Order(unsigned, x, h) + Order(unsigned, y, h), unsigned, ov, h) => v = Plus(x, y, h)
         /\ IsOutcome(v, Order(unsigned, x, h) - Order(unsigned, y, h), unsigned, ov, h) => v = Minus(x, y, h)
<1>1. CASE unsigned
  BY <1>1 DEF IsOutcome, Order, Plus, Minus, SIntPatterns
<1>2. CASE ~unsigned
  BY <1>2 DEF IsOutcome, Order, SVal, IsNeg, Plus, Minus, SIntPatterns
<1> QED
  BY <1>1, <1>2

\* The saturating operations on patterns clamp the exact result.
LEMMA SaturatingOrders ==
  ASSUME NEW h \in Nat \ {0, 1}, NEW x \in SIntPatterns(h), NEW y \in SIntPatterns(h)
  PROVE  /\ UAddSat(x, y, h) \in SIntPatterns(h) /\ USubSat(x, y, h) \in SIntPatterns(h)
         /\ SAddSat(x, y, h) \in SIntPatterns(h) /\ SSubSat(x, y, h) \in SIntPatterns(h)
         /\ UAddSat(x, y, h) = IF x + y > 2 * h - 1 THEN 2 * h - 1 ELSE x + y
         /\ USubSat(x, y, h) = IF x < y THEN 0 ELSE x - y
         /\ LET z == SVal(x, h) + SVal(y, h)
            IN  SVal(SAddSat(x, y, h), h) = IF z < -h THEN -h ELSE IF z > h - 1 THEN h - 1 ELSE z
         /\ LET z == SVal(x, h) - SVal(y, h)
            IN  SVal(SSubSat(x, y, h), h) = IF z < -h THEN -h ELSE IF z > h - 1 THEN h - 1 ELSE z
<1>1. /\ UAddSat(x, y, h) \in SIntPatterns(h) /\ USubSat(x, y, h) \in SIntPatterns(h)
      /\ UAddSat(x, y, h) = IF x + y > 2 * h - 1 THEN 2 * h - 1 ELSE x + y
      /\ USubSat(x, y, h) = IF x < y THEN 0 ELSE x - y
  BY DEF UAddSat, USubSat, UAddOvf, USubOvf, Plus, Minus, UMaxValue, SIntPatterns
<1>2. /\ SAddSat(x, y, h) \in SIntPatterns(h)
      /\ LET z == SVal(x, h) + SVal(y, h)
         IN  SVal(SAddSat(x, y, h), h) = IF z < -h THEN -h ELSE IF z > h - 1 THEN h - 1 ELSE z
  BY DEF SAddSat, SAddOvf, SEnd, SVal, IsNeg, Plus, SMinValue, SMaxValue, SIntPatterns
<1>3. /\ SSubSat(x, y, h) \in SIntPatterns(h)
      /\ LET z == SVal(x, h) - SVal(y, h)
         IN  SVal(SSubSat(x, y, h), h) = IF z < -h THEN -h ELSE IF z > h - 1 THEN h - 1 ELSE z
  BY DEF SSubSat, SSubOvf, SEnd, SVal, IsNeg, Minus, SMinValue, SMaxValue, SIntPatterns
<1> QED
  BY <1>1, <1>2, <1>3

\* The range from one pattern to another, both included, in either order.
LEMMA NonEmptyBetween ==
  ASSUME NEW h \in Nat \ {0, 1}, NEW lo \in SIntPatterns(h), NEW up \in SIntPatterns(h),
         NEW v \in SIntPatterns(h), NEW unsigned \in BOOLEAN,
         Order(unsigned, lo, h) <= Order(unsigned, v, h), Order(unsigned, v, h) <= Order(unsigned, up, h)
  PROVE  /\ NonEmpty(lo, Succ(up, h), h) \in RangesOf(h)
         /\ Contains(NonEmpty(lo, Succ(up, h), h), v)
<1>1. Succ(up, h) \in SIntPatterns(h)
  BY DEF Succ, Plus, SIntPatterns
<1>2. CASE lo = Succ(up, h)
  BY <1>2, ExtremesLegal, ExtremesContain DEF NonEmpty
<1>3. CASE lo # Succ(up, h)
  <2>1. Within(lo, Succ(up, h), v, h)
    <3>1. CASE unsigned
      BY <1>3, <3>1 DEF Within, Succ, Plus, Order, SIntPatterns
    <3>2. CASE ~unsigned
      BY <1>3, <3>2 DEF Within, Succ, Plus, Order, SVal, IsNeg, SIntPatterns
    <3> QED
      BY <3>1, <3>2
  <2>2. NonEmpty(lo, Succ(up, h), h) = Interval(lo, Succ(up, h), h)
    BY <1>3 DEF NonEmpty
  <2> QED
    BY <1>1, <1>3, <2>1, <2>2, IntervalLegal, IntervalIsWithin
<1> QED
  BY <1>2, <1>3

\* The extremes of a range are patterns.
LEMMA ExtremesArePatterns ==
  ASSUME NEW h \in Nat \ {0, 1}, NEW r \in RangesOf(h)
  PROVE  /\ UMinOf(r) \in SIntPatterns(h) /\ UMaxOf(r) \in SIntPatterns(h)
         /\ SMinOf(r) \in SIntPatterns(h) /\ SMaxOf(r) \in SIntPatterns(h)
<1>1. Ends(r, h)
  BY RangeEnds
<1> QED
  BY <1>1 DEF Ends, UMinOf, UMaxOf, SMinOf, SMaxOf, UMaxValue, SMinValue, SMaxValue, Pred, Minus, SIntPatterns

\* The range of the sum, and of the difference, under each strategy.
SumRange(a, b, unsigned, ov) ==
    IF ov # "SATURATING" THEN Add(a, b)
    ELSE IF unsigned THEN UAddSatRange(a, b) ELSE SAddSatRange(a, b)
DifferenceRange(a, b, unsigned, ov) ==
    IF ov # "SATURATING" THEN Sub(a, b)
    ELSE IF unsigned THEN USubSatRange(a, b) ELSE SSubSatRange(a, b)

\* The saturated sum and difference of two ranges.
LEMMA SaturatedCovers ==
  ASSUME NEW h \in Nat \ {0, 1}, NEW a \in RangesOf(h), NEW b \in RangesOf(h),
         NEW x \in SIntPatterns(h), NEW y \in SIntPatterns(h), Contains(a, x), Contains(b, y),
         NEW v, NEW unsigned \in BOOLEAN
  PROVE  /\ IsOutcome(v, Order(unsigned, x, h) + Order(unsigned, y, h), unsigned, "SATURATING", h) =>
               LET r == SumRange(a, b, unsigned, "SATURATING") IN r \in RangesOf(h) /\ Contains(r, v)
         /\ IsOutcome(v, Order(unsigned, x, h) - Order(unsigned, y, h), unsigned, "SATURATING", h) =>
               LET r == DifferenceRange(a, b, unsigned, "SATURATING") IN r \in RangesOf(h) /\ Contains(r, v)
<1>1. ~IsEmptySet(a) /\ ~IsEmptySet(b) /\ a.half = h /\ b.half = h
  BY EmptyContainsNothing, RangeEnds DEF Ends
<1>2. ASSUME NEW lo \in SIntPatterns(h), NEW up \in SIntPatterns(h), v \in SIntPatterns(h),
             Order(unsigned, lo, h) <= Order(unsigned, v, h), Order(unsigned, v, h) <= Order(unsigned, up, h)
      PROVE  SatRange(a, b, lo, up) \in RangesOf(h) /\ Contains(SatRange(a, b, lo, up), v)
  <2>1. SatRange(a, b, lo, up) = NonEmpty(lo, Succ(up, h), h)
    BY <1>1 DEF SatRange
  <2> QED
    BY <1>2, <2>1, NonEmptyBetween
<1>3. CASE unsigned
  <2> DEFINE aMin == UMinOf(a) aMax == UMaxOf(a) bMin == UMinOf(b) bMax == UMaxOf(b)
  <2>1. /\ aMin \in SIntPatterns(h) /\ aMax \in SIntPatterns(h)
        /\ bMin \in SIntPatterns(h) /\ bMax \in SIntPatterns(h)
        /\ aMin <= x /\ x <= aMax /\ bMin <= y /\ y <= bMax
    BY ExtremesArePatterns, UnsignedExtremes
  <2>2. \A p : Order(unsigned, p, h) = p
    BY <1>3 DEF Order
  <2>a. x \in Nat /\ x < 2 * h /\ y \in Nat /\ y < 2 * h
    BY DEF SIntPatterns
  <2> HIDE DEF aMin, aMax, bMin, bMax
  <2>3. ASSUME IsOutcome(v, x + y, unsigned, "SATURATING", h)
        PROVE  /\ v \in SIntPatterns(h)
               /\ UAddSat(aMin, bMin, h) \in SIntPatterns(h) /\ UAddSat(aMax, bMax, h) \in SIntPatterns(h)
               /\ UAddSat(aMin, bMin, h) <= v /\ v <= UAddSat(aMax, bMax, h)
    <3>0. /\ v \in SIntPatterns(h)
          /\ 0 <= x + y /\ x + y <= 2 * h - 1 => v = x + y
          /\ x + y > 2 * h - 1 => v = 2 * h - 1
      BY <1>3, <2>2, <2>3 DEF IsOutcome
    <3>1. /\ v \in SIntPatterns(h)
          /\ v = IF x + y > 2 * h - 1 THEN 2 * h - 1 ELSE x + y
      BY <2>a, <3>0
    <3>2. /\ UAddSat(aMin, bMin, h) \in SIntPatterns(h) /\ UAddSat(aMax, bMax, h) \in SIntPatterns(h)
          /\ UAddSat(aMin, bMin, h) = IF aMin + bMin > 2 * h - 1 THEN 2 * h - 1 ELSE aMin + bMin
          /\ UAddSat(aMax, bMax, h) = IF aMax + bMax > 2 * h - 1 THEN 2 * h - 1 ELSE aMax + bMax
      BY <2>1, SaturatingOrders
    <3> QED
      BY <2>1, <3>1, <3>2 DEF SIntPatterns
  <2>4. ASSUME IsOutcome(v, x - y, unsigned, "SATURATING", h)
        PROVE  /\ v \in SIntPatterns(h)
               /\ USubSat(aMin, bMax, h) \in SIntPatterns(h) /\ USubSat(aMax, bMin, h) \in SIntPatterns(h)
               /\ USubSat(aMin, bMax, h) <= v /\ v <= USubSat(aMax, bMin, h)
    <3>0. /\ v \in SIntPatterns(h)
          /\ 0 <= x - y /\ x - y <= 2 * h - 1 => v = x - y
          /\ x - y < 0 => v = 0
      BY <1>3, <2>2, <2>4 DEF IsOutcome
    <3>1. /\ v \in SIntPatterns(h)
          /\ v = IF x < y THEN 0 ELSE x - y
      BY <2>a, <3>0
    <3>2. /\ USubSat(aMin, bMax, h) \in SIntPatterns(h) /\ USubSat(aMax, bMin, h) \in SIntPatterns(h)
          /\ USubSat(aMin, bMax, h) = IF aMin < bMax THEN 0 ELSE aMin - bMax
          /\ USubSat(aMax, bMin, h) = IF aMax < bMin THEN 0 ELSE aMax - bMin
      BY <2>1, SaturatingOrders
    <3> QED
      BY <2>1, <3>1, <3>2 DEF SIntPatterns
  <2>5. /\ SumRange(a, b, unsigned, "SATURATING") = SatRange(a, b, UAddSat(aMin, bMin, h), UAddSat(aMax, bMax, h))
        /\ DifferenceRange(a, b, unsigned, "SATURATING") = SatRange(a, b, USubSat(aMin, bMax, h), USubSat(aMax, bMin, h))
    BY <1>1, <1>3 DEF SumRange, DifferenceRange, UAddSatRange, USubSatRange, aMin, aMax, bMin, bMax
  <2>6. Order(unsigned, x, h) = x /\ Order(unsigned, y, h) = y
    BY <2>2
  <2> QED
    BY <1>2, <2>2, <2>3, <2>4, <2>5, <2>6
<1>4. CASE ~unsigned
  <2> DEFINE aMin == SMinOf(a) aMax == SMaxOf(a) bMin == SMinOf(b) bMax == SMaxOf(b)
             X == SVal(x, h) Y == SVal(y, h)
             clamp(z) == IF z < -h THEN -h ELSE IF z > h - 1 THEN h - 1 ELSE z
  <2>1. /\ aMin \in SIntPatterns(h) /\ aMax \in SIntPatterns(h)
        /\ bMin \in SIntPatterns(h) /\ bMax \in SIntPatterns(h)
        /\ SVal(aMin, h) <= X /\ X <= SVal(aMax, h) /\ SVal(bMin, h) <= Y /\ Y <= SVal(bMax, h)
    BY ExtremesArePatterns, SignedExtremes DEF Sle
  <2>2. \A p : Order(unsigned, p, h) = SVal(p, h)
    BY <1>4 DEF Order
  <2>a. \A p \in SIntPatterns(h) : SVal(p, h) \in Int
    BY DEF SVal, IsNeg, SIntPatterns
  <2> HIDE DEF aMin, aMax, bMin, bMax
  <2>b. X \in Int /\ Y \in Int
    BY <2>a
  <2> HIDE DEF X, Y
  <2>3. ASSUME IsOutcome(v, X + Y, unsigned, "SATURATING", h)
        PROVE  /\ v \in SIntPatterns(h)
               /\ SAddSat(aMin, bMin, h) \in SIntPatterns(h) /\ SAddSat(aMax, bMax, h) \in SIntPatterns(h)
               /\ SVal(SAddSat(aMin, bMin, h), h) <= SVal(v, h) /\ SVal(v, h) <= SVal(SAddSat(aMax, bMax, h), h)
    <3>1. v \in SIntPatterns(h) /\ SVal(v, h) = clamp(X + Y)
      BY <1>4, <2>b, <2>2, <2>3 DEF IsOutcome
    <3>2. /\ SAddSat(aMin, bMin, h) \in SIntPatterns(h) /\ SAddSat(aMax, bMax, h) \in SIntPatterns(h)
          /\ SVal(SAddSat(aMin, bMin, h), h) = clamp(SVal(aMin, h) + SVal(bMin, h))
          /\ SVal(SAddSat(aMax, bMax, h), h) = clamp(SVal(aMax, h) + SVal(bMax, h))
      BY <2>1, SaturatingOrders
    <3> QED
      BY <2>1, <2>a, <2>b, <3>1, <3>2
  <2>4. ASSUME IsOutcome(v, X - Y, unsigned, "SATURATING", h)
        PROVE  /\ v \in SIntPatterns(h)
               /\ SSubSat(aMin, bMax, h) \in SIntPatterns(h) /\ SSubSat(aMax, bMin, h) \in SIntPatterns(h)
               /\ SVal(SSubSat(aMin, bMax, h), h) <= SVal(v, h) /\ SVal(v, h) <= SVal(SSubSat(aMax, bMin, h), h)
    <3>1. v \in SIntPatterns(h) /\ SVal(v, h) = clamp(X - Y)
      BY <1>4, <2>b, <2>2, <2>4 DEF IsOutcome
    <3>2. /\ SSubSat(aMin, bMax, h) \in SIntPatterns(h) /\ SSubSat(aMax, bMin, h) \in SIntPatterns(h)
          /\ SVal(SSubSat(aMin, bMax, h), h) = clamp(SVal(aMin, h) - SVal(bMax, h))
          /\ SVal(SSubSat(aMax, bMin, h), h) = clamp(SVal(aMax, h) - SVal(bMin, h))
      BY <2>1, SaturatingOrders
    <3> QED
      BY <2>1, <2>a, <2>b, <3>1, <3>2
  <2>5. /\ SumRange(a, b, unsigned, "SATURATING") = SatRange(a, b, SAddSat(aMin, bMin, h), SAddSat(aMax, bMax, h))
        /\ DifferenceRange(a, b, unsigned, "SATURATING") = SatRange(a, b, SSubSat(aMin, bMax, h), SSubSat(aMax, bMin, h))
    BY <1>1, <1>4 DEF SumRange, DifferenceRange, SAddSatRange, SSubSatRange, aMin, aMax, bMin, bMax
  <2>6. Order(unsigned, x, h) = X /\ Order(unsigned, y, h) = Y
    BY <2>2 DEF X, Y
  <2> QED
    BY <1>2, <2>2, <2>3, <2>4, <2>5, <2>6
<1> QED
  BY <1>3, <1>4

\* ... and under any strategy: ComputeAdd and ComputeSub, without the bounds.
LEMMA OutcomeCovered ==
  ASSUME NEW h \in Nat \ {0, 1}, NEW a \in RangesOf(h), NEW b \in RangesOf(h),
         NEW x \in SIntPatterns(h), NEW y \in SIntPatterns(h), Contains(a, x), Contains(b, y),
         NEW v, NEW unsigned \in BOOLEAN, NEW ov \in Strategies
  PROVE  /\ IsOutcome(v, Order(unsigned, x, h) + Order(unsigned, y, h), unsigned, ov, h) =>
               /\ SumRange(a, b, unsigned, ov) \in RangesOf(h)
               /\ Contains(SumRange(a, b, unsigned, ov), v)
         /\ IsOutcome(v, Order(unsigned, x, h) - Order(unsigned, y, h), unsigned, ov, h) =>
               /\ DifferenceRange(a, b, unsigned, ov) \in RangesOf(h)
               /\ Contains(DifferenceRange(a, b, unsigned, ov), v)
<1>1. CASE ov = "SATURATING"
  BY <1>1, SaturatedCovers
<1>2. CASE ov \in {"THROWING", "WRAPPING"}
  <2>1. SumRange(a, b, unsigned, ov) = Add(a, b) /\ DifferenceRange(a, b, unsigned, ov) = Sub(a, b)
    BY <1>2 DEF SumRange, DifferenceRange
  <2>2. /\ IsOutcome(v, Order(unsigned, x, h) + Order(unsigned, y, h), unsigned, ov, h) => v = Plus(x, y, h)
        /\ IsOutcome(v, Order(unsigned, x, h) - Order(unsigned, y, h), unsigned, ov, h) => v = Minus(x, y, h)
    BY <1>2, ModularOutcome
  <2> QED
    BY <2>1, <2>2, AddSound, SubSound
<1> QED
  BY <1>1, <1>2 DEF Strategies

\* ConstantRange::Negate of any range but that of the smallest value alone: only
\* the smallest value can be lost, and where the range starts with it, the
\* largest, which its negation saturates to, is there instead.
LEMMA NegateBeyond ==
  ASSUME NEW h \in Nat \ {0, 1}, NEW r \in RangesOf(h), NEW v \in SIntPatterns(h), Contains(r, v),
         r # Single(SMinValue(h), h)
  PROVE  /\ Negate(r) \in RangesOf(h)
         /\ v # SMinValue(h) => Contains(Negate(r), Neg(v, h))
         /\ r.lower = SMinValue(h) => Contains(Negate(r), SMaxValue(h))
<1>0. Ends(r, h) /\ Within(r.lower, r.upper, v, h) /\ SMinValue(h) = h /\ SMaxValue(h) = h - 1
  BY RangeEnds, ContainsIsWithin DEF SMinValue, SMaxValue
<1>1. CASE r.lower # SMinValue(h)
  BY <1>1, NegateSound
<1>2. CASE r.lower = SMinValue(h)
  <2> DEFINE l == Neg(Pred(r.upper, h), h)
  <2>1. /\ r.lower = h /\ r.upper # h /\ ~IsFullSet(r) /\ ~IsEmptySet(r)
        /\ SMinValue(r.half) = h /\ r.half = h
    BY <1>0, <1>2 DEF Ends, IsFullSet, IsEmptySet, UMaxValue
  <2>2. r.upper # h + 1
    <3>1. ASSUME r.upper = h + 1 PROVE FALSE
      <4>1. Succ(h, h) = h + 1 /\ r \in [lower : SIntPatterns(h), upper : SIntPatterns(h), half : {h}]
        BY DEF Succ, Plus, RangesOf
      <4>2. r = [lower |-> h, upper |-> h + 1, half |-> h]
        BY <2>1, <3>1, <4>1
      <4> QED
        BY <1>0, <4>1, <4>2 DEF Single, Interval
    <3> QED
      BY <3>1
  <2>3. Negate(r) = Interval(l, h, h)
    BY <2>1 DEF Negate
  <2>4. l \in SIntPatterns(h) /\ h \in SIntPatterns(h) /\ l # h
    BY <1>0, <2>1, <2>2 DEF Ends, Neg, Pred, Minus, SIntPatterns
  <2>5. v # h => Neg(v, h) \in SIntPatterns(h) /\ Within(l, h, Neg(v, h), h)
    BY <1>0, <2>1, <2>2 DEF Ends, Within, Neg, Pred, Minus, SIntPatterns
  <2>6. h - 1 \in SIntPatterns(h) /\ Within(l, h, h - 1, h)
    BY <1>0, <2>1, <2>2 DEF Ends, Within, Neg, Pred, Minus, SIntPatterns
  <2> HIDE DEF l
  <2>7. Negate(r) \in RangesOf(h)
    BY <2>3, <2>4, IntervalLegal
  <2>8. v # h => Contains(Negate(r), Neg(v, h))
    BY <2>3, <2>4, <2>5, IntervalIsWithin
  <2>9. Contains(Negate(r), h - 1)
    BY <2>3, <2>4, <2>6, IntervalIsWithin
  <2> QED
    BY <1>0, <2>7, <2>8, <2>9
<1> QED
  BY <1>1, <1>2

\* SIntDomain::IsSymbolicBound: an unsigned range that a bound may be has no
\* value beyond the signed order.
LEMMA SymbolicBoundFits ==
  ASSUME NEW h \in Nat \ {0, 1}, NEW r \in RangesOf(h), NEW v \in SIntPatterns(h), Contains(r, v),
         IsSymbolicBound(r, TRUE)
  PROVE  v < h
<1> DEFINE small == AtMost(SMaxValue(h), TRUE, h)
           inner(s) == IntersectWith(small, s, "Unsigned")
<1>0. Ends(r, h) /\ Within(r.lower, r.upper, v, h) /\ r.half = h
  BY RangeEnds, ContainsIsWithin DEF Ends
<1>1. small = [lower |-> 0, upper |-> h, half |-> h]
  BY DEF AtMost, From, Interval, Succ, Plus, SMaxValue, UMaxValue
<1>2. ~IsEmptySet(r)
  BY EmptyContainsNothing
<1>3. ASSUME NEW s, s.half = h, ~IsEmptySet(s)
      PROVE  NCU2SInner(s, h, "THROWING") = inner(s)
  <2>1. ~(s.half > h)
    BY <1>3
  <2> QED
    BY <1>3, <2>1, Zenon DEF NCU2SInner
<1>4. UnionOfParts([i \in DOMAIN PartsOf(r, TRUE) |-> NCU2SInner(PartsOf(r, TRUE)[i], h, "THROWING")], "Signed") = r
  BY <1>0 DEF IsSymbolicBound, NumericConversionU2S
<1>5. CASE ~IsWrappedSet(r)
  <2>1. PartsOf(r, TRUE) = <<r>>
    BY <1>5 DEF PartsOf
  <2>2. inner(r) = r
    <3>1. [i \in DOMAIN <<r>> |-> NCU2SInner(<<r>>[i], h, "THROWING")] = [i \in {1} |-> NCU2SInner(r, h, "THROWING")]
      OBVIOUS
    <3>2. UnionOfParts([i \in {1} |-> NCU2SInner(r, h, "THROWING")], "Signed") = NCU2SInner(r, h, "THROWING")
      BY DEF UnionOfParts
    <3>3. NCU2SInner(r, h, "THROWING") = inner(r)
      BY <1>0, <1>2, <1>3
    <3> QED
      BY <1>4, <2>1, <3>1, <3>2, <3>3
  <2>3. IntersectWith([lower |-> 0, upper |-> h, half |-> h], r, "Unsigned") = r
    BY <1>1, <2>2
  <2> QED
    BY <1>0, <1>5, <2>3 DEF Ends, Within, IntersectWith, IsEmptySet, IsFullSet, UMaxValue, IsUpperWrapped,
       IsWrappedSet, IntersectWrappedWithUnwrapped, IntersectBothUnwrapped, Interval, Empty, SIntPatterns
<1>6. CASE IsWrappedSet(r)
  <2> DEFINE p == From("LT", r.upper, FALSE, h)
             q == From("GE", r.lower, FALSE, h)
  <2>1. PartsOf(r, TRUE) = <<p, q>>
    BY <1>0, <1>6 DEF PartsOf, SplitWrapping
  <2>2. r.upper # 0 /\ r.upper < r.lower /\ r.lower \in Nat /\ r.upper \in Nat /\ r.lower < 2 * h
    BY <1>0, <1>6 DEF IsWrappedSet, Ends
  <2>3. p = [lower |-> 0, upper |-> r.upper, half |-> h]
    BY <2>2 DEF From, Interval
  <2>4. q = [lower |-> r.lower, upper |-> 0, half |-> h]
    BY <2>2 DEF From, Interval, Succ, Plus, UMaxValue
  <2>5. UnionWith(inner(p), inner(q), "Signed") = r
    <3> DEFINE conv == [i \in DOMAIN <<p, q>> |-> NCU2SInner(<<p, q>>[i], h, "THROWING")]
    <3>1. p.half = h /\ q.half = h /\ ~IsEmptySet(p) /\ ~IsEmptySet(q)
      <4> HIDE DEF p, q
      <4> QED
        BY <2>2, <2>3, <2>4 DEF IsEmptySet
    <3>2. NCU2SInner(p, h, "THROWING") = inner(p) /\ NCU2SInner(q, h, "THROWING") = inner(q)
      BY <1>3, <3>1
    <3>3. DOMAIN conv # {1} /\ conv[1] = NCU2SInner(p, h, "THROWING") /\ conv[2] = NCU2SInner(q, h, "THROWING")
      <4> HIDE DEF p, q
      <4>1. DOMAIN <<p, q>> = {1, 2} /\ <<p, q>>[1] = p /\ <<p, q>>[2] = q
        OBVIOUS
      <4> QED
        BY <4>1
    <3>4. UnionOfParts(conv, "Signed") = r
      BY <1>4, <2>1
    <3> HIDE DEF conv, p, q, inner
    <3> QED
      BY <3>2, <3>3, <3>4 DEF UnionOfParts
  <2>6. inner(p) = [lower |-> 0, upper |-> IF r.upper < h THEN r.upper ELSE h, half |-> h]
    <3>1. IntersectWith([lower |-> 0, upper |-> h, half |-> h], [lower |-> 0, upper |-> r.upper, half |-> h], "Unsigned")
            = [lower |-> 0, upper |-> IF r.upper < h THEN r.upper ELSE h, half |-> h]
      <4> DEFINE a == [lower |-> 0, upper |-> h, half |-> h]
                 b == [lower |-> 0, upper |-> r.upper, half |-> h]
      <4>1. IntersectWith(a, b, "Unsigned") = IntersectBothUnwrapped(a, b)
        BY <2>2 DEF IntersectWith, IsEmptySet, IsFullSet, IsUpperWrapped
      <4>2. IntersectBothUnwrapped(a, b) = IF r.upper < h THEN b ELSE a
        BY <2>2 DEF IntersectBothUnwrapped, Interval
      <4> QED
        BY <4>1, <4>2
    <3> QED
      BY <1>1, <2>3, <3>1
  <2>7. inner(q) = IF r.lower < h THEN [lower |-> r.lower, upper |-> h, half |-> h]
                   ELSE [lower |-> 0, upper |-> 0, half |-> h]
    <3>1. IntersectWith([lower |-> 0, upper |-> h, half |-> h], [lower |-> r.lower, upper |-> 0, half |-> h], "Unsigned")
            = IF r.lower < h THEN [lower |-> r.lower, upper |-> h, half |-> h]
              ELSE [lower |-> 0, upper |-> 0, half |-> h]
      BY <2>2 DEF IntersectWith, IsEmptySet, IsFullSet, UMaxValue, IsUpperWrapped,
         IntersectWrappedWithUnwrapped, Interval, Empty
    <3> QED
      BY <1>1, <2>4, <3>1
  <2> DEFINE P == inner(p)
             Q == inner(q)
  <2>8. UnionWith(P, Q, "Signed").lower = 0
    <3>1. CASE r.lower >= h
      <4>1. IsEmptySet(Q) /\ P.lower = 0
        <5> HIDE DEF p, q, inner
        <5> QED
          BY <2>2, <2>6, <2>7, <3>1 DEF IsEmptySet
      <4> HIDE DEF P, Q
      <4> QED
        BY <4>1 DEF UnionWith
    <3>2. CASE r.lower < h
      <4>1. /\ P = [lower |-> 0, upper |-> r.upper, half |-> h]
            /\ Q = [lower |-> r.lower, upper |-> h, half |-> h]
        <5> HIDE DEF p, q, inner
        <5> QED
          BY <2>2, <2>6, <2>7, <3>2
      <4> HIDE DEF P, Q
      <4>2. UnionWith(P, Q, "Signed") = UnionBothUnwrapped(P, Q, "Signed")
        <5>1. ~IsFullSet(P) /\ ~IsFullSet(Q) /\ ~IsEmptySet(P) /\ ~IsEmptySet(Q)
          BY <2>2, <3>2, <4>1 DEF IsFullSet, IsEmptySet
        <5>2. ~IsUpperWrapped(P) /\ ~IsUpperWrapped(Q)
          BY <2>2, <3>2, <4>1 DEF IsUpperWrapped
        <5> QED
          BY <5>1, <5>2, Zenon DEF UnionWith, UnionOfProper
      <4>3. UnionBothUnwrapped(P, Q, "Signed") = GetPreferredRange(Interval(0, h, h), Interval(r.lower, r.upper, h), "Signed")
        BY <2>2, <3>2, <4>1 DEF UnionBothUnwrapped
      <4>4. /\ ~IsSignWrappedSet(Interval(0, h, h))
            /\ IsSignWrappedSet(Interval(r.lower, r.upper, h))
        BY <2>2, <3>2 DEF IsSignWrappedSet, Interval, Slt, SVal, IsNeg, SMinValue
      <4>5. GetPreferredRange(Interval(0, h, h), Interval(r.lower, r.upper, h), "Signed") = Interval(0, h, h)
        BY <4>4 DEF GetPreferredRange
      <4> QED
        BY <4>2, <4>3, <4>5 DEF Interval
    <3> HIDE DEF P, Q
    <3> QED
      BY <2>2, <3>1, <3>2
  <2> HIDE DEF p, q, inner
  <2> QED
    BY <2>2, <2>5, <2>8
<1> QED
  BY <1>5, <1>6

\* A pattern that a signed comparison reads as what the type says of it is the
\* bound of its value; the bound of the negated value is the negated pattern, or
\* the largest, which minus the smallest value is clamped to.
LEMMA ClampedOrder ==
  ASSUME NEW h \in Nat \ {0, 1}, NEW y \in SIntPatterns(h), NEW unsigned \in BOOLEAN,
         unsigned => y < h
  PROVE  /\ Order(unsigned, y, h) = SVal(y, h) /\ SVal(y, h) \in Int
         /\ Clamped(Order(unsigned, y, h), h) = y
         /\ y # SMinValue(h) => Clamped(-Order(unsigned, y, h), h) = Neg(y, h)
         /\ y = SMinValue(h) => Clamped(-Order(unsigned, y, h), h) = SMaxValue(h)
<1>1. Order(unsigned, y, h) = SVal(y, h) /\ SVal(y, h) \in Int
  BY DEF Order, SVal, IsNeg, SIntPatterns
<1>2. /\ Clamped(SVal(y, h), h) = y
      /\ y # SMinValue(h) => Clamped(-SVal(y, h), h) = Neg(y, h)
      /\ y = SMinValue(h) => Clamped(-SVal(y, h), h) = SMaxValue(h)
  BY DEF Clamped, SVal, IsNeg, Neg, Minus, SMinValue, SMaxValue, SIntPatterns
<1> QED
  BY <1>1, <1>2

\* SIntDomain::ComputeAdd: whatever the sum of two described values is under
\* the overflow strategy, the domain describes it: its range, and, where the
\* operation throws, how far it is from either operand.
THEOREM ComputeAddSound ==
  ASSUME NEW h \in Nat \ {0, 1}, NEW c, NEW d, IsDomain(c, h), IsDomain(d, h),
         NEW l, NEW r, NEW x \in SIntPatterns(h), NEW y \in SIntPatterns(h), NEW val,
         NEW unsigned \in BOOLEAN, Operands(c, d, l, r, x, y, val, unsigned, h), l = r => c = d,
         NEW ov \in Strategies, NEW v, IsOutcome(v, val[l] + val[r], unsigned, ov, h)
  PROVE  LET sum == ComputeAdd(c, d, l, r, ov, unsigned)
         IN  /\ IsDomain(sum, h)
             /\ Describes(sum, v, DifferencesOf(sum, Order(unsigned, v, h), val, h))
<1> DEFINE ln == c.numeric
           rn == d.numeric
           numeric == SumRange(ln, rn, unsigned, ov)
           addends == {p \in {<<l, ln, rn>>, <<r, rn, ln>>} :
                         ~IsSingleElement(p[2]) /\ ~IsFullSet(p[3]) /\ IsSymbolicBound(p[3], unsigned)}
           bounds == [s \in {p[1] : p \in addends} |-> IF s = l THEN rn ELSE ln]
           sum == ComputeAdd(c, d, l, r, ov, unsigned)
<1>0. KnownOperands(c, d, l, r, x, y, val, h)
  BY OperandsFact, Zenon
<1>1. /\ ln \in RangesOf(h) /\ rn \in RangesOf(h) /\ Contains(ln, x) /\ Contains(rn, y)
      /\ val[l] \in Int /\ val[r] \in Int
  BY <1>0 DEF KnownOperands
<1>2. val[l] = Order(unsigned, x, h) /\ val[r] = Order(unsigned, y, h) /\ v \in SIntPatterns(h)
  BY DEF Operands, IsOutcome
<1>3. numeric \in RangesOf(h) /\ Contains(numeric, v)
  BY <1>1, <1>2, OutcomeCovered
<1>4. ~IsEmptySet(numeric)
  BY <1>2, <1>3, EmptyContainsNothing
<1>5. sum = IF ov # "THROWING" THEN Bare(numeric, unsigned) ELSE Domain(numeric, bounds, unsigned)
  BY <1>4 DEF ComputeAdd, SumRange
<1>6. CASE ov # "THROWING"
  <2>1. sum.numeric = numeric /\ DOMAIN sum.bounds = {}
    BY <1>5, <1>6 DEF Bare, Domain, NoBounds
  <2> HIDE DEF sum, numeric
  <2>2. IsDomain(sum, h) /\ Describes(sum, v, DifferencesOf(sum, Order(unsigned, v, h), val, h))
    BY <1>3, <2>1 DEF IsDomain, Describes
  <2> QED
    BY <2>2 DEF sum
<1>7. CASE ov = "THROWING"
  <2>1. sum.numeric = numeric /\ sum.bounds = bounds
    BY <1>5, <1>7 DEF Domain
  <2>2. Order(unsigned, v, h) = val[l] + val[r]
    BY <1>1, <1>7 DEF IsOutcome
  <2>3. ASSUME NEW s \in DOMAIN bounds
        PROVE  bounds[s] \in RangesOf(h) /\ Contains(bounds[s], Clamped(Order(unsigned, v, h) - val[s], h))
    <3>1. PICK p \in addends : s = p[1]
      OBVIOUS
    <3>2. s \in {l, r}
      BY <3>1
    <3>3. CASE s = l
      <4>1. IsSymbolicBound(rn, unsigned)
        BY <3>1, <3>3
      <4>2. unsigned => y < h
        BY <1>1, <4>1, SymbolicBoundFits
      <4>3. Order(unsigned, v, h) - val[s] = Order(unsigned, y, h)
        BY <1>1, <1>2, <2>2, <3>3
      <4>4. Clamped(Order(unsigned, v, h) - val[s], h) = y
        BY <4>2, <4>3, ClampedOrder
      <4>5. bounds[s] = rn
        BY <3>3
      <4> QED
        BY <1>1, <4>4, <4>5
    <3>4. CASE s # l
      <4>1. IsSymbolicBound(ln, unsigned) /\ s = r
        BY <3>1, <3>4
      <4>2. unsigned => x < h
        BY <1>1, <4>1, SymbolicBoundFits
      <4>3. Order(unsigned, v, h) - val[s] = Order(unsigned, x, h)
        BY <1>1, <1>2, <2>2, <4>1
      <4>4. Clamped(Order(unsigned, v, h) - val[s], h) = x
        BY <4>2, <4>3, ClampedOrder
      <4>5. bounds[s] = ln
        BY <3>4
      <4> QED
        BY <1>1, <4>4, <4>5
    <3> QED
      BY <3>3, <3>4
  <2> HIDE DEF sum, numeric, bounds
  <2>4. \A s \in DOMAIN sum.bounds :
           DifferencesOf(sum, Order(unsigned, v, h), val, h)[s] = Clamped(Order(unsigned, v, h) - val[s], h)
    BY DEF DifferencesOf
  <2>5. IsDomain(sum, h) /\ Describes(sum, v, DifferencesOf(sum, Order(unsigned, v, h), val, h))
    BY <1>3, <2>1, <2>3, <2>4 DEF IsDomain, Describes
  <2> QED
    BY <2>5 DEF sum
<1> QED
  BY <1>6, <1>7

\* SIntDomain::ComputeSub: the same of the difference, which what the operands
\* know of each other bounds as well.  Where the operation throws two results
\* are excluded: the smallest value, when the right operand knows the left one,
\* since minus it is clamped; and, of the bounds, a subtracted value whose
\* negation is clamped or, unsigned, is read with another sign.
THEOREM ComputeSubSound ==
  ASSUME NEW h \in Nat \ {0, 1}, NEW c, NEW d, IsDomain(c, h), IsDomain(d, h),
         NEW l, NEW r, NEW x \in SIntPatterns(h), NEW y \in SIntPatterns(h), NEW val,
         NEW unsigned \in BOOLEAN, Operands(c, d, l, r, x, y, val, unsigned, h),
         NEW ov \in Strategies, NEW v, IsOutcome(v, val[l] - val[r], unsigned, ov, h),
         ov = "THROWING" /\ ~unsigned /\ HasBound(d, l) => v # SMinValue(h),
         ov = "THROWING" =>
            IF unsigned THEN y < h
            ELSE y = SMinValue(h) => IsFullSet(d.numeric) \/ d.numeric.lower = SMinValue(h)
  PROVE  LET difference == ComputeSub(c, d, l, r, ov, unsigned)
         IN  /\ IsDomain(difference, h)
             /\ Describes(difference, v, DifferencesOf(difference, Order(unsigned, v, h), val, h))
<1> DEFINE ln == c.numeric
           rn == d.numeric
           numeric == DifferenceRange(ln, rn, unsigned, ov)
           direct == IF unsigned \/ ~HasBound(c, r) THEN numeric
                     ELSE IntersectWith(numeric, c.bounds[r], "Signed")
           both == IF unsigned \/ ~HasBound(d, l) THEN direct
                   ELSE IntersectWith(direct, Negate(d.bounds[l]), "Signed")
           bounds == [s \in {l} |-> Negate(rn)]
           res == ComputeSub(c, d, l, r, ov, unsigned)
<1>0. KnownOperands(c, d, l, r, x, y, val, h)
  BY OperandsFact, Zenon
<1>1. /\ ln \in RangesOf(h) /\ rn \in RangesOf(h) /\ Contains(ln, x) /\ Contains(rn, y)
      /\ val[l] \in Int /\ val[r] \in Int
  BY <1>0 DEF KnownOperands
<1>2. val[l] = Order(unsigned, x, h) /\ val[r] = Order(unsigned, y, h) /\ v \in SIntPatterns(h)
  BY DEF Operands, IsOutcome
<1>3. numeric \in RangesOf(h) /\ Contains(numeric, v)
  BY <1>1, <1>2, OutcomeCovered
<1>4. ~IsEmptySet(numeric)
  BY <1>2, <1>3, EmptyContainsNothing
<1>5. CASE ov # "THROWING"
  <2>1. res = Bare(numeric, unsigned)
    BY <1>5, Zenon DEF ComputeSub, DifferenceRange
  <2>2. res.numeric = numeric /\ DOMAIN res.bounds = {}
    BY <2>1 DEF Bare, Domain, NoBounds
  <2> HIDE DEF res, numeric
  <2>3. IsDomain(res, h) /\ Describes(res, v, DifferencesOf(res, Order(unsigned, v, h), val, h))
    BY <1>3, <2>2 DEF IsDomain, Describes
  <2> QED
    BY <2>3 DEF res
<1>6. CASE ov = "THROWING"
  <2>1. Order(unsigned, v, h) = val[l] - val[r]
    BY <1>1, <1>6 DEF IsOutcome
  <2>2. direct \in RangesOf(h) /\ Contains(direct, v)
    <3>1. CASE unsigned \/ ~HasBound(c, r)
      BY <1>3, <3>1
    <3>2. CASE ~(unsigned \/ ~HasBound(c, r))
      <4>1. c.bounds[r] \in RangesOf(h) /\ Contains(c.bounds[r], Clamped(val[l] - val[r], h))
        BY <1>0, <3>2 DEF KnownOperands
      <4>2. Clamped(val[l] - val[r], h) = v
        BY <1>2, <2>1, <3>2, ClampedOrder
      <4>3. direct = IntersectWith(numeric, c.bounds[r], "Signed")
        BY <3>2
      <4> HIDE DEF numeric
      <4> QED
        BY <1>2, <1>3, <4>1, <4>2, <4>3, IntersectionCovers
    <3> QED
      BY <3>1, <3>2
  <2>3. both \in RangesOf(h) /\ Contains(both, v)
    <3>1. CASE unsigned \/ ~HasBound(d, l)
      BY <2>2, <3>1
    <3>2. CASE ~(unsigned \/ ~HasBound(d, l))
      <4> DEFINE e == d.bounds[l]
                 q == Clamped(val[r] - val[l], h)
      <4>1. e \in RangesOf(h) /\ Contains(e, q)
        BY <1>0, <3>2 DEF KnownOperands
      <4>2. val[r] - val[l] = -Order(unsigned, v, h)
        BY <1>1, <2>1
      <4>3. v # SMinValue(h) /\ q = Neg(v, h)
        BY <1>2, <1>6, <3>2, <4>2, ClampedOrder
      <4>4. q \in SIntPatterns(h) /\ q # SMinValue(h) /\ Neg(q, h) = v
        BY <1>2, <4>3 DEF Neg, Minus, SMinValue, SIntPatterns
      <4>5. e # Single(SMinValue(h), h)
        <5>1. ASSUME e = Single(SMinValue(h), h) PROVE FALSE
          <6>1. e.lower = SMinValue(h) /\ IsSingleElement(e)
            BY <5>1 DEF Single, Interval, IsSingleElement
          <6> HIDE DEF e, q
          <6> QED
            BY <4>1, <4>4, <6>1, SingleContains
        <5> QED
          BY <5>1
      <4>6. Negate(e) \in RangesOf(h) /\ Contains(Negate(e), v)
        <5> HIDE DEF e, q
        <5> QED
          BY <4>1, <4>4, <4>5, NegateBeyond
      <4>7. both = IntersectWith(direct, Negate(e), "Signed")
        BY <3>2
      <4> HIDE DEF direct, e
      <4> QED
        BY <1>2, <2>2, <4>6, <4>7, IntersectionCovers
    <3> QED
      BY <3>1, <3>2
  <2>4. ~IsEmptySet(both)
    BY <1>2, <2>3, EmptyContainsNothing
  <2>5. /\ res.numeric = both
        /\ \/ DOMAIN res.bounds = {}
           \/ res.bounds = bounds /\ ~IsFullSet(rn) /\ rn # Single(SMinValue(rn.half), rn.half)
    <3>1. \/ res = Bare(both, unsigned)
          \/ res = Domain(both, bounds, unsigned) /\ ~IsFullSet(rn) /\ rn # Single(SMinValue(rn.half), rn.half)
      BY <1>4, <1>6, <2>4, Zenon DEF ComputeSub, DifferenceRange
    <3> HIDE DEF res, both, bounds
    <3> QED
      BY <3>1 DEF Bare, Domain, NoBounds
  <2>6. ASSUME ~IsFullSet(rn), rn # Single(SMinValue(rn.half), rn.half)
        PROVE  Negate(rn) \in RangesOf(h) /\ Contains(Negate(rn), Clamped(Order(unsigned, v, h) - val[l], h))
    <3>0. rn # Single(SMinValue(h), h)
      BY <1>1, <2>6, RangeEnds DEF Ends
    <3>1. Order(unsigned, v, h) - val[l] = -Order(unsigned, y, h)
      BY <1>1, <1>2, <2>1
    <3>2. unsigned => y < h
      BY <1>6
    <3>3. CASE y = SMinValue(h)
      <4>1. ~unsigned
        BY <3>2, <3>3 DEF SMinValue
      <4>2. rn.lower = SMinValue(h)
        BY <1>6, <2>6, <3>3, <4>1
      <4>3. Clamped(Order(unsigned, v, h) - val[l], h) = SMaxValue(h)
        BY <3>1, <3>2, <3>3, ClampedOrder
      <4> QED
        BY <1>1, <3>0, <4>2, <4>3, NegateBeyond
    <3>4. CASE y # SMinValue(h)
      <4>1. Clamped(Order(unsigned, v, h) - val[l], h) = Neg(y, h)
        BY <3>1, <3>2, <3>4, ClampedOrder
      <4> QED
        BY <1>1, <3>0, <3>4, <4>1, NegateBeyond
    <3> QED
      BY <3>3, <3>4
  <2>7. ASSUME NEW s \in DOMAIN res.bounds
        PROVE  /\ res.bounds[s] \in RangesOf(h)
               /\ Contains(res.bounds[s], Clamped(Order(unsigned, v, h) - val[s], h))
    <3> HIDE DEF res
    <3>1. res.bounds = bounds /\ ~IsFullSet(rn) /\ rn # Single(SMinValue(rn.half), rn.half)
      BY <2>5
    <3>2. s = l /\ res.bounds[s] = Negate(rn)
      BY <3>1
    <3> QED
      BY <2>6, <3>1, <3>2
  <2> HIDE DEF res, both, bounds
  <2>8. \A s \in DOMAIN res.bounds :
           DifferencesOf(res, Order(unsigned, v, h), val, h)[s] = Clamped(Order(unsigned, v, h) - val[s], h)
    BY DEF DifferencesOf
  <2>9. IsDomain(res, h) /\ Describes(res, v, DifferencesOf(res, Order(unsigned, v, h), val, h))
    BY <2>3, <2>5, <2>7, <2>8 DEF IsDomain, Describes
  <2> QED
    BY <2>9 DEF res
<1> QED
  BY <1>5, <1>6

-----------------------------------------------------------------------------
(* Patterns.                                                                *)

\* A number modulo the width is a pattern.
LEMMA ModuloIsPattern ==
  ASSUME NEW h \in Nat \ {0, 1}, NEW x \in Int
  PROVE  x % (2 * h) \in SIntPatterns(h)
BY DEF SIntPatterns

\* The operations give patterns; those that divide, when they do not by zero.
LEMMA OperationsArePatterns ==
  ASSUME NEW h \in Nat \ {0, 1}, NEW x \in SIntPatterns(h), NEW y \in SIntPatterns(h)
  PROVE  /\ Plus(x, y, h) \in SIntPatterns(h) /\ Minus(x, y, h) \in SIntPatterns(h)
         /\ Succ(x, h) \in SIntPatterns(h) /\ Pred(x, h) \in SIntPatterns(h)
         /\ Neg(x, h) \in SIntPatterns(h) /\ Times(x, y, h) \in SIntPatterns(h)
         /\ USmaller(x, y) \in SIntPatterns(h) /\ ULarger(x, y) \in SIntPatterns(h)
         /\ Magnitude(x, h) \in SIntPatterns(h) /\ (x # 0 => Magnitude(x, h) # 0)
<1>1. x * y \in Int
  BY DEF SIntPatterns
<1>2. Times(x, y, h) \in SIntPatterns(h)
  BY <1>1, ModuloIsPattern DEF Times
<1> QED
  BY <1>2 DEF Plus, Minus, Succ, Pred, Neg, USmaller, ULarger, Magnitude, IsNeg, SIntPatterns

\* The saturating operations give patterns.
LEMMA SaturatedArePatterns ==
  ASSUME NEW h \in Nat \ {0, 1}, NEW x \in SIntPatterns(h), NEW y \in SIntPatterns(h)
  PROVE  /\ UAddSat(x, y, h) \in SIntPatterns(h) /\ SAddSat(x, y, h) \in SIntPatterns(h)
         /\ USubSat(x, y, h) \in SIntPatterns(h) /\ SSubSat(x, y, h) \in SIntPatterns(h)
         /\ UMulSat(x, y, h) \in SIntPatterns(h) /\ SMulSat(x, y, h) \in SIntPatterns(h)
<1>1. /\ Plus(x, y, h) \in SIntPatterns(h) /\ Minus(x, y, h) \in SIntPatterns(h)
      /\ Times(x, y, h) \in SIntPatterns(h)
  BY OperationsArePatterns
<1>2. 0 \in SIntPatterns(h) /\ UMaxValue(h) \in SIntPatterns(h)
  BY DEF SIntPatterns, UMaxValue
<1>3. \A negative : SEnd(negative, h) \in SIntPatterns(h)
  BY DEF SEnd, SMinValue, SMaxValue, SIntPatterns
<1> QED
  BY <1>1, <1>2, <1>3, Zenon DEF UAddSat, SAddSat, USubSat, SSubSat, UMulSat, SMulSat

\* A quotient and a remainder of naturals.
LEMMA Division ==
  ASSUME NEW x \in Nat, NEW y \in Nat \ {0}
  PROVE  /\ x \div y \in Nat /\ x \div y <= x
         /\ x % y \in Nat /\ x % y < y /\ x % y <= x
OBVIOUS

\* The divisions give patterns, but by zero.
LEMMA QuotientsArePatterns ==
  ASSUME NEW h \in Nat \ {0, 1}, NEW x \in SIntPatterns(h), NEW y \in SIntPatterns(h), y # 0
  PROVE  /\ UDiv(x, y) \in SIntPatterns(h) /\ URem(x, y) \in SIntPatterns(h)
         /\ SDiv(x, y, h) \in SIntPatterns(h) /\ SRem(x, y, h) \in SIntPatterns(h)
         /\ SDivSat(x, y, h) \in SIntPatterns(h)
<1>1. ASSUME NEW a \in SIntPatterns(h), NEW b \in SIntPatterns(h), b # 0
      PROVE  UDiv(a, b) \in SIntPatterns(h) /\ URem(a, b) \in SIntPatterns(h)
  <2>1. a \in Nat /\ a < 2 * h /\ b \in Nat \ {0}
    BY <1>1 DEF SIntPatterns
  <2>2. a \div b \in Nat /\ a \div b <= a /\ a % b \in Nat /\ a % b <= a
    BY <2>1, Division
  <2> QED
    BY <2>1, <2>2 DEF UDiv, URem, SIntPatterns
<1>2. /\ Magnitude(x, h) \in SIntPatterns(h) /\ Magnitude(y, h) \in SIntPatterns(h) /\ Magnitude(y, h) # 0
  BY OperationsArePatterns
<1>3. /\ UDiv(Magnitude(x, h), Magnitude(y, h)) \in SIntPatterns(h)
      /\ URem(Magnitude(x, h), Magnitude(y, h)) \in SIntPatterns(h)
  BY <1>1, <1>2
<1>4. \A a \in SIntPatterns(h) : Neg(a, h) \in SIntPatterns(h)
  BY OperationsArePatterns
<1>5. SDiv(x, y, h) \in SIntPatterns(h) /\ SRem(x, y, h) \in SIntPatterns(h)
  BY <1>3, <1>4, Zenon DEF SDiv, SRem
<1>6. SMaxValue(h) \in SIntPatterns(h)
  BY DEF SMaxValue, SIntPatterns
<1> QED
  BY <1>1, <1>5, <1>6, Zenon DEF SDivSat

-----------------------------------------------------------------------------
(* Products.                                                                *)

\* Two patterns, made a range.
LEMMA NonEmptyLegal ==
  ASSUME NEW h \in Nat \ {0, 1}, NEW l \in SIntPatterns(h), NEW u \in SIntPatterns(h)
  PROVE  NonEmpty(l, u, h) \in RangesOf(h) /\ NonEmpty(l, Succ(u, h), h) \in RangesOf(h)
<1>1. Succ(u, h) \in SIntPatterns(h)
  BY OperationsArePatterns
<1> QED
  BY <1>1, IntervalLegal, ExtremesLegal DEF NonEmpty

\* A range of one value.
LEMMA SingleLegal ==
  ASSUME NEW h \in Nat \ {0, 1}, NEW v \in SIntPatterns(h)
  PROVE  Single(v, h) \in RangesOf(h)
<1>1. Succ(v, h) \in SIntPatterns(h) /\ Succ(v, h) # v
  BY PatternFacts
<1> QED
  BY <1>1, IntervalLegal DEF Single

\* The ends a saturating operation gives, made a range.
LEMMA SatRangeLegal ==
  ASSUME NEW h \in Nat \ {0, 1}, NEW a \in RangesOf(h), NEW b,
         NEW lo \in SIntPatterns(h), NEW up \in SIntPatterns(h)
  PROVE  SatRange(a, b, lo, up) \in RangesOf(h)
<1>1. a.half = h
  BY RangeEnds DEF Ends
<1> QED
  BY <1>1, NonEmptyLegal, ExtremesLegal DEF SatRange

\* The least and the greatest of the products of the ends.
LEMMA EndsHaveExtremes ==
  ASSUME NEW h \in Nat \ {0, 1},
         NEW p \in SIntPatterns(h), NEW q \in SIntPatterns(h), NEW r \in SIntPatterns(h), NEW s \in SIntPatterns(h)
  PROVE  /\ SLeast({p, q, r, s}, h) \in SIntPatterns(h)
         /\ SGreatest({p, q, r, s}, h) \in SIntPatterns(h)
<1> DEFINE S == {p, q, r, s}
<1>1. \A x \in S : SVal(x, h) \in Int
  BY DEF SVal, IsNeg, SIntPatterns
<1>2. (\E x \in S : \A y \in S : Sle(x, y, h)) /\ (\E x \in S : \A y \in S : Sle(y, x, h))
  BY <1>1 DEF Sle
<1>3. SLeast(S, h) \in S /\ SGreatest(S, h) \in S
  BY <1>2, Zenon DEF SLeast, SGreatest
<1> QED
  BY <1>3

\* The fields of a legal range.
LEMMA HalfOfRange ==
  ASSUME NEW h \in Nat \ {0, 1}, NEW r \in RangesOf(h)
  PROVE  r.half = h /\ r.lower \in SIntPatterns(h) /\ r.upper \in SIntPatterns(h)
BY DEF RangesOf

\* ConstantRange's products in the unsigned order, exact and saturating.
LEMMA UMulLegal ==
  ASSUME NEW h \in Nat \ {0, 1}, NEW a \in RangesOf(h), NEW b \in RangesOf(h)
  PROVE  UMul(a, b) \in RangesOf(h) /\ UMulSatRange(a, b) \in RangesOf(h)
<1>1. /\ UMinOf(a) \in SIntPatterns(h) /\ UMaxOf(a) \in SIntPatterns(h)
      /\ UMinOf(b) \in SIntPatterns(h) /\ UMaxOf(b) \in SIntPatterns(h)
  BY ExtremesArePatterns
<1>2. /\ Times(UMinOf(a), UMinOf(b), h) \in SIntPatterns(h)
      /\ Times(UMaxOf(a), UMaxOf(b), h) \in SIntPatterns(h)
      /\ UMulSat(UMinOf(a), UMinOf(b), h) \in SIntPatterns(h)
      /\ UMulSat(UMaxOf(a), UMaxOf(b), h) \in SIntPatterns(h)
  BY <1>1, OperationsArePatterns, SaturatedArePatterns
<1>3. a.half = h
  BY HalfOfRange
<1>4. NonEmpty(Times(UMinOf(a), UMinOf(b), h), Succ(Times(UMaxOf(a), UMaxOf(b), h), h), h) \in RangesOf(h)
  BY <1>2, NonEmptyLegal
<1>5. UMul(a, b) \in RangesOf(h)
  BY <1>3, <1>4, ExtremesLegal, Zenon DEF UMul
<1>6. UMulSatRange(a, b) \in RangesOf(h)
  BY <1>2, <1>3, SatRangeLegal DEF UMulSatRange
<1> QED
  BY <1>5, <1>6

\* ConstantRange's products in the signed order, exact and saturating.
LEMMA SMulLegal ==
  ASSUME NEW h \in Nat \ {0, 1}, NEW a \in RangesOf(h), NEW b \in RangesOf(h)
  PROVE  SMul(a, b) \in RangesOf(h) /\ SMulSatRange(a, b) \in RangesOf(h)
<1>0. a.half = h
  BY HalfOfRange
<1>1. /\ SMinOf(a) \in SIntPatterns(h) /\ SMaxOf(a) \in SIntPatterns(h)
      /\ SMinOf(b) \in SIntPatterns(h) /\ SMaxOf(b) \in SIntPatterns(h)
  BY ExtremesArePatterns
<1> DEFINE products == {Times(x, y, h) : x \in SEnds(a), y \in SEnds(b)}
           saturated == {SMulSat(x, y, h) : x \in SEnds(a), y \in SEnds(b)}
<1>2. /\ products = {Times(SMinOf(a), SMinOf(b), h), Times(SMinOf(a), SMaxOf(b), h),
                     Times(SMaxOf(a), SMinOf(b), h), Times(SMaxOf(a), SMaxOf(b), h)}
      /\ saturated = {SMulSat(SMinOf(a), SMinOf(b), h), SMulSat(SMinOf(a), SMaxOf(b), h),
                      SMulSat(SMaxOf(a), SMinOf(b), h), SMulSat(SMaxOf(a), SMaxOf(b), h)}
  BY DEF SEnds
<1>3. \A x, y \in SIntPatterns(h) : Times(x, y, h) \in SIntPatterns(h) /\ SMulSat(x, y, h) \in SIntPatterns(h)
  BY OperationsArePatterns, SaturatedArePatterns
<1> HIDE DEF products, saturated
<1>4. SLeast(products, h) \in SIntPatterns(h) /\ SGreatest(products, h) \in SIntPatterns(h)
  BY <1>1, <1>2, <1>3, EndsHaveExtremes
<1>5. SLeast(saturated, h) \in SIntPatterns(h) /\ SGreatest(saturated, h) \in SIntPatterns(h)
  BY <1>1, <1>2, <1>3, EndsHaveExtremes
<1>6. NonEmpty(SLeast(products, h), Succ(SGreatest(products, h), h), h) \in RangesOf(h)
  BY <1>4, NonEmptyLegal
<1>7. SMul(a, b) \in RangesOf(h)
  BY <1>0, <1>6, ExtremesLegal DEF SMul, products
<1>8. SatRange(a, b, SLeast(saturated, h), SGreatest(saturated, h)) \in RangesOf(h)
  BY <1>5, SatRangeLegal
<1>9. SMulSatRange(a, b) \in RangesOf(h)
  BY <1>0, <1>8 DEF SMulSatRange, saturated
<1> QED
  BY <1>7, <1>9

-----------------------------------------------------------------------------
(* Quotients and remainders.                                                *)

\* The least divisor of a range that has one is not zero.
LEMMA UDivLegal ==
  ASSUME NEW h \in Nat \ {0, 1}, NEW a \in RangesOf(h), NEW b \in RangesOf(h)
  PROVE  UDivRange(a, b) \in RangesOf(h)
<1> DEFINE least == IF UMinOf(b) # 0 THEN UMinOf(b)
                    ELSE IF b.upper = 1 THEN b.lower ELSE 1
           lo == UDiv(UMinOf(a), UMaxOf(b))
           up == UDiv(UMaxOf(a), least)
<1>1. /\ UMinOf(a) \in SIntPatterns(h) /\ UMaxOf(a) \in SIntPatterns(h)
      /\ UMinOf(b) \in SIntPatterns(h) /\ UMaxOf(b) \in SIntPatterns(h)
  BY ExtremesArePatterns
<1>2. a.half = h
  BY HalfOfRange
<1>3. CASE IsEmptySet(a) \/ IsEmptySet(b) \/ UMaxOf(b) = 0
  BY <1>2, <1>3, ExtremesLegal DEF UDivRange
<1>4. CASE ~(IsEmptySet(a) \/ IsEmptySet(b) \/ UMaxOf(b) = 0)
  <2>1. least \in SIntPatterns(h) /\ least # 0
    <3>1. Ends(b, h)
      BY RangeEnds
    <3>2. b.lower = 0 => b.upper # 1
      BY <1>4, <3>1 DEF Ends, UMaxOf, IsFullSet, IsUpperWrapped, Pred, Minus
    <3> QED
      BY <1>1, <3>1, <3>2 DEF Ends, SIntPatterns
  <2>2. UDivRange(a, b) = NonEmpty(lo, Succ(up, h), h)
    BY <1>2, <1>4 DEF UDivRange
  <2> HIDE DEF least
  <2>3. lo \in SIntPatterns(h) /\ up \in SIntPatterns(h)
    BY <1>1, <1>4, <2>1, QuotientsArePatterns
  <2> QED
    BY <2>2, <2>3, NonEmptyLegal
<1> QED
  BY <1>3, <1>4

\* ConstantRange's remainders in the unsigned order.
LEMMA URemLegal ==
  ASSUME NEW h \in Nat \ {0, 1}, NEW a \in RangesOf(h), NEW b \in RangesOf(h)
  PROVE  URemRange(a, b) \in RangesOf(h)
<1> DEFINE up == USmaller(UMaxOf(a), Pred(UMaxOf(b), h))
<1>1. UMaxOf(a) \in SIntPatterns(h) /\ UMaxOf(b) \in SIntPatterns(h) /\ 0 \in SIntPatterns(h)
  BY ExtremesArePatterns DEF SIntPatterns
<1>2. a.half = h /\ b.half = h /\ a.lower \in SIntPatterns(h) /\ b.lower \in SIntPatterns(h)
  BY HalfOfRange
<1>3. NonEmpty(0, Succ(up, h), h) \in RangesOf(h)
  BY <1>1, OperationsArePatterns, NonEmptyLegal
<1>4. ASSUME IsSingleElement(b), UMaxOf(b) # 0
      PROVE  Single(URem(a.lower, b.lower), h) \in RangesOf(h)
  <2>1. b.lower # 0
    BY <1>2, <1>4 DEF IsSingleElement, UMaxOf, IsFullSet, IsUpperWrapped, Pred, Succ, Plus, Minus, SIntPatterns
  <2>2. URem(a.lower, b.lower) \in SIntPatterns(h)
    BY <1>2, <2>1, QuotientsArePatterns
  <2> QED
    BY <2>2, SingleLegal
<1> QED
  BY <1>2, <1>3, <1>4, ExtremesLegal DEF URemRange

\* The magnitudes of a range: legal, and none beyond that of the smallest value.
LEMMA AbsLegal ==
  ASSUME NEW h \in Nat \ {0, 1}, NEW r \in RangesOf(h), ~IsEmptySet(r)
  PROVE  /\ Abs(r) \in RangesOf(h) /\ UMaxOf(Abs(r)) \in Nat /\ UMaxOf(Abs(r)) <= h
         /\ IsSingleElement(r) /\ r.lower = 0 => UMaxOf(Abs(r)) = 0
<1> DEFINE mixed == Interval(0, Succ(ULarger(Neg(SMinOf(r), h), SMaxOf(r)), h), h)
           negative == Interval(Neg(SMaxOf(r), h), Succ(Neg(SMinOf(r), h), h), h)
           crossesZero == IsPositive(r.upper, h) \/ ~IsPositive(r.lower, h)
           first == IF crossesZero THEN 0 ELSE USmaller(r.lower, Succ(Neg(r.upper, h), h))
<1>0. Ends(r, h) /\ r.half = h
  BY RangeEnds DEF Ends
<1>1. \A l, u \in SIntPatterns(h) :
         l < u /\ u <= h + 1 => /\ Interval(l, u, h) \in RangesOf(h)
                                /\ UMaxOf(Interval(l, u, h)) \in Nat /\ UMaxOf(Interval(l, u, h)) <= h
  <2> SUFFICES ASSUME NEW l \in SIntPatterns(h), NEW u \in SIntPatterns(h), l < u, u <= h + 1
               PROVE  /\ Interval(l, u, h) \in RangesOf(h)
                      /\ UMaxOf(Interval(l, u, h)) \in Nat /\ UMaxOf(Interval(l, u, h)) <= h
    OBVIOUS
  <2>1. Interval(l, u, h) \in RangesOf(h)
    BY IntervalLegal DEF SIntPatterns
  <2> QED
    BY <2>1 DEF UMaxOf, IsFullSet, IsUpperWrapped, Interval, Pred, Minus, SIntPatterns
<1>2. CASE IsSignWrappedSet(r)
  <2>1. Abs(r) = Interval(first, Succ(SMinValue(h), h), h)
    BY <1>0, <1>2 DEF Abs
  <2>2. /\ first \in SIntPatterns(h) /\ first < h + 1
        /\ Succ(SMinValue(h), h) = h + 1 /\ h + 1 \in SIntPatterns(h)
    BY <1>0 DEF Ends, USmaller, Succ, Neg, Plus, Minus, IsPositive, SMinValue, SIntPatterns
  <2>3. ~(IsSingleElement(r) /\ r.lower = 0)
    BY <1>0, <1>2 DEF IsSignWrappedSet, IsSingleElement, Slt, SVal, IsNeg, Succ, Plus, SMinValue
  <2> HIDE DEF first
  <2> QED
    BY <1>1, <2>1, <2>2, <2>3
<1>3. CASE ~IsSignWrappedSet(r) /\ IsNonNeg(SMinOf(r), h)
  <2>0. SMinOf(r) \in SIntPatterns(h) /\ SMaxOf(r) \in SIntPatterns(h) /\ SMaxOf(r) < h
    BY <1>0, <1>3, ExtremesArePatterns
       DEF Ends, SMinOf, SMaxOf, IsEmptySet, IsFullSet, IsNonNeg, IsSignWrappedSet, IsUpperSignWrapped,
           Slt, SVal, IsNeg, UMaxValue, SMinValue, SMaxValue, Pred, Minus
  <2>1. Abs(r) = r
    BY <1>0, <1>3, <2>0 DEF Abs, IsNonNeg, IsNeg, SIntPatterns
  <2>2. UMaxOf(r) \in Nat /\ UMaxOf(r) <= h /\ (IsSingleElement(r) /\ r.lower = 0 => UMaxOf(r) = 0)
    BY <1>0, <1>3 DEF Ends, IsEmptySet, UMaxOf, SMinOf, IsNonNeg, IsSignWrappedSet, IsFullSet, IsUpperWrapped,
                      IsSingleElement, Slt, SVal, IsNeg, Succ, Plus, UMaxValue, SMinValue, Pred, Minus
  <2> QED
    BY <2>1, <2>2
<1>4. CASE ~IsSignWrappedSet(r) /\ ~IsNonNeg(SMinOf(r), h)
  <2>1. ~(IsSingleElement(r) /\ r.lower = 0)
    BY <1>0, <1>4 DEF SMinOf, IsNonNeg, IsFullSet, IsSingleElement, Succ, Plus, UMaxValue, SMinValue
  <2>2. SMinOf(r) \in SIntPatterns(h) /\ SMaxOf(r) \in SIntPatterns(h) /\ SMinOf(r) >= h
    BY <1>4, ExtremesArePatterns DEF IsNonNeg, SIntPatterns
  <2>3. SMaxOf(r) >= h => SMinOf(r) <= SMaxOf(r)
    BY <1>0, <1>4 DEF Ends, SMinOf, SMaxOf, IsEmptySet, IsFullSet, IsSignWrappedSet, IsUpperSignWrapped,
                      Slt, SVal, IsNeg, UMaxValue, SMinValue, SMaxValue, Pred, Minus
  <2>4. CASE SMaxOf(r) >= h
    <3>1. Abs(r) = negative
      BY <1>0, <1>4, <2>2, <2>4 DEF Abs, IsNonNeg, IsNeg, SIntPatterns
    <3>2. /\ Neg(SMaxOf(r), h) \in SIntPatterns(h) /\ Succ(Neg(SMinOf(r), h), h) \in SIntPatterns(h)
          /\ Neg(SMaxOf(r), h) < Succ(Neg(SMinOf(r), h), h) /\ Succ(Neg(SMinOf(r), h), h) <= h + 1
      BY <2>2, <2>3, <2>4 DEF Neg, Succ, Plus, Minus, SIntPatterns
    <3> QED
      BY <1>1, <2>1, <3>1, <3>2
  <2>5. CASE ~(SMaxOf(r) >= h)
    <3>1. Abs(r) = mixed
      BY <1>0, <1>4, <2>2, <2>5 DEF Abs, IsNonNeg, IsNeg, SIntPatterns
    <3>2. /\ 0 \in SIntPatterns(h) /\ Succ(ULarger(Neg(SMinOf(r), h), SMaxOf(r)), h) \in SIntPatterns(h)
          /\ 0 < Succ(ULarger(Neg(SMinOf(r), h), SMaxOf(r)), h)
          /\ Succ(ULarger(Neg(SMinOf(r), h), SMaxOf(r)), h) <= h + 1
      BY <2>2, <2>5 DEF Neg, Succ, Plus, Minus, ULarger, SIntPatterns
    <3> QED
      BY <1>1, <2>1, <3>1, <3>2
  <2> QED
    BY <2>4, <2>5
<1> QED
  BY <1>2, <1>3, <1>4

\* ConstantRange's remainders in the signed order: the ends taken from the
\* dividends and from the divisors never meet.
LEMMA SRemLegal ==
  ASSUME NEW h \in Nat \ {0, 1}, NEW a \in RangesOf(h), NEW b \in RangesOf(h)
  PROVE  SRemRange(a, b) \in RangesOf(h)
<1> DEFINE greatest == UMaxOf(Abs(b))
           least == IF UMinOf(Abs(b)) = 0 THEN 1 ELSE UMinOf(Abs(b))
           lo == ULarger(SMinOf(a), Succ(Neg(greatest, h), h))
           up == Succ(USmaller(SMaxOf(a), Pred(greatest, h)), h)
<1>1. a.half = h /\ a.lower \in SIntPatterns(h) /\ b.lower \in SIntPatterns(h)
  BY HalfOfRange
<1>2. CASE IsEmptySet(a) \/ IsEmptySet(b) \/ greatest = 0
  BY <1>1, <1>2, ExtremesLegal DEF SRemRange
<1>3. CASE ~(IsEmptySet(a) \/ IsEmptySet(b) \/ greatest = 0)
  <2>1. greatest \in Nat \ {0} /\ greatest <= h
    BY <1>3, AbsLegal
  <2>2. SMinOf(a) \in SIntPatterns(h) /\ SMaxOf(a) \in SIntPatterns(h)
    BY ExtremesArePatterns
  <2>3. IsSingleElement(b) => Single(SRem(a.lower, b.lower, h), h) \in RangesOf(h)
    <3>1. ASSUME IsSingleElement(b) PROVE b.lower # 0
      BY <1>3, <3>1, AbsLegal
    <3> QED
      BY <1>1, <3>1, QuotientsArePatterns, SingleLegal
  <2> HIDE DEF greatest
  <2>4. /\ lo \in SIntPatterns(h) /\ up \in SIntPatterns(h) /\ 0 \in SIntPatterns(h) /\ 1 \in SIntPatterns(h)
        /\ IsNonNeg(SMinOf(a), h) => up # 0
        /\ ~IsNonNeg(SMinOf(a), h) => lo # 1 /\ lo # up
    BY <2>1, <2>2 DEF ULarger, USmaller, Succ, Pred, Neg, Plus, Minus, IsNonNeg, SIntPatterns
  <2> HIDE DEF lo, up, least
  <2>5. /\ IsNonNeg(SMinOf(a), h) => Interval(0, up, h) \in RangesOf(h)
        /\ ~IsNonNeg(SMinOf(a), h) => Interval(lo, 1, h) \in RangesOf(h) /\ Interval(lo, up, h) \in RangesOf(h)
    BY <2>4, IntervalLegal
  <2> QED
    BY <1>1, <1>3, <2>3, <2>5 DEF SRemRange, greatest, lo, up, least
<1> QED
  BY <1>2, <1>3

\* The positive values of a range.
LEMMA PositivePart ==
  ASSUME NEW h \in Nat \ {0, 1}, NEW r \in RangesOf(h)
  PROVE  LET p == IntersectWith(r, Interval(1, SMinValue(h), h), "Smallest")
         IN  /\ p \in RangesOf(h)
             /\ ~IsEmptySet(p) => 1 <= p.lower /\ p.lower < p.upper /\ p.upper <= h
<1> DEFINE P == Interval(1, SMinValue(h), h)
           p == IntersectWith(r, P, "Smallest")
<1>0. Ends(r, h) /\ r.half = h
  BY RangeEnds DEF Ends
<1>1. P \in RangesOf(h) /\ P.lower = 1 /\ P.upper = h /\ P.half = h /\ ~IsFullSet(P) /\ ~IsEmptySet(P)
  BY IntervalLegal DEF Interval, SMinValue, SIntPatterns, IsFullSet, IsEmptySet
<1> HIDE DEF P
<1>2. p \in RangesOf(h)
  BY <1>1, IntersectionBest DEF Best
<1>3. CASE IsEmptySet(r)
  <2>1. p = r
    BY <1>3 DEF IntersectWith
  <2> QED
    BY <1>2, <1>3, <2>1 DEF P
<1>4. CASE ~IsEmptySet(r)
  <2>1. \/ p = Empty(h)
        \/ p = P
        \/ p = Interval(1, r.upper, h) /\ 1 < r.upper /\ r.upper <= h
        \/ p = Interval(r.lower, h, h) /\ 1 < r.lower /\ r.lower < h
        \/ p = r /\ 1 <= r.lower /\ r.lower < r.upper /\ r.upper <= h
    <3>1. CASE IsFullSet(r)
      <4>1. p = P
        BY <1>1, <1>4, <3>1 DEF IntersectWith
      <4> QED
        BY <4>1
    <3>2. CASE ~IsFullSet(r) /\ r.lower > r.upper
      <4>1. p = IntersectWrappedWithUnwrapped(r, P, "Smallest")
        BY <1>1, <1>4, <3>2 DEF IntersectWith, IsUpperWrapped
      <4> QED
        BY <1>0, <1>1, <3>2, <4>1
           DEF Ends, IntersectWrappedWithUnwrapped, GetPreferredRange, IsSizeStrictlySmallerThan, Minus
    <3>3. CASE ~IsFullSet(r) /\ ~(r.lower > r.upper)
      <4>1. p = IntersectBothUnwrapped(r, P)
        BY <1>1, <1>4, <3>3 DEF IntersectWith, IsUpperWrapped
      <4>2. r.lower < r.upper
        BY <1>4, <3>3, WrapTests DEF IsUpperWrapped
      <4>3. r = Interval(r.lower, r.upper, h) /\ P = Interval(1, h, h)
        BY <1>0 DEF RangesOf, Interval, P, SMinValue
      <4> QED
        BY <1>0, <1>1, <4>1, <4>2, <4>3 DEF Ends, IntersectBothUnwrapped
    <3> QED
      BY <3>1, <3>2, <3>3
  <2>2. /\ p = P => p.lower = 1 /\ p.upper = h
        /\ \A l, u : p = Interval(l, u, h) => p.lower = l /\ p.upper = u
        /\ p = Empty(h) => IsEmptySet(p)
    BY <1>1 DEF Interval, Empty, IsEmptySet
  <2> HIDE DEF p
  <2>3. ~IsEmptySet(p) => 1 <= p.lower /\ p.lower < p.upper /\ p.upper <= h
    BY <1>0, <2>1, <2>2 DEF Ends
  <2> QED
    BY <1>2, <2>3 DEF p, P
<1> QED
  BY <1>3, <1>4

\* The negative values of a range; when the range has them in two pieces, all.
LEMMA NegativePart ==
  ASSUME NEW h \in Nat \ {0, 1}, NEW r \in RangesOf(h)
  PROVE  LET n == IntersectWith(r, Interval(SMinValue(h), 0, h), "Smallest")
         IN  /\ n \in RangesOf(h)
             /\ ~IsEmptySet(n) =>
                   /\ h <= n.lower /\ n.lower <= Pred(n.upper, h) /\ Pred(n.upper, h) \in SIntPatterns(h)
                   /\ n.lower = h /\ n.upper # h + 1 /\ r.upper = h + 1 => h < r.lower /\ n.upper = 0
                   /\ n.upper = 0 /\ n.lower # 2 * h - 1 /\ r.lower = 2 * h - 1 => h < r.upper /\ n.lower = h
                   /\ n.lower = h => Contains(r, h)
                   /\ n.upper = 0 => Contains(r, 2 * h - 1)
<1> DEFINE N == Interval(SMinValue(h), 0, h)
           n == IntersectWith(r, N, "Smallest")
<1>0. Ends(r, h) /\ r.half = h
  BY RangeEnds DEF Ends
<1>1. N \in RangesOf(h) /\ N.lower = h /\ N.upper = 0 /\ N.half = h /\ ~IsFullSet(N) /\ ~IsEmptySet(N)
  BY IntervalLegal DEF Interval, SMinValue, SIntPatterns, IsFullSet, IsEmptySet
<1> HIDE DEF N
<1>2. n \in RangesOf(h)
  BY <1>1, IntersectionBest DEF Best
<1>3. CASE IsEmptySet(r)
  <2>1. n = r
    BY <1>3 DEF IntersectWith
  <2> QED
    BY <1>2, <1>3, <2>1 DEF N
<1>4. CASE ~IsEmptySet(r)
  <2>1. \/ n = Empty(h)
        \/ n = N /\ (IsFullSet(r) \/ (r.lower > r.upper /\ (h < r.upper \/ r.lower <= h)))
        \/ n = Interval(r.lower, 0, h) /\ h < r.lower /\ r.upper <= h
        \/ n = Interval(r.lower, r.upper, h) /\ h <= r.lower /\ r.lower < r.upper
        \/ n = Interval(h, r.upper, h) /\ r.lower < h /\ h < r.upper
    <3>1. CASE IsFullSet(r)
      <4>1. n = N
        BY <1>1, <1>4, <3>1 DEF IntersectWith
      <4> QED
        BY <3>1, <4>1
    <3>2. CASE ~IsFullSet(r) /\ r.lower > r.upper
      <4>1. n = IntersectBothWrapped(r, N, "Smallest")
        BY <1>0, <1>1, <1>4, <3>2 DEF IntersectWith, IsUpperWrapped, Ends
      <4>2. r = Interval(r.lower, r.upper, h)
        BY <1>0 DEF RangesOf, Interval
      <4>3. \/ n = N /\ (h < r.upper \/ r.lower <= h)
            \/ n = Interval(r.lower, 0, h) /\ h < r.lower /\ r.upper <= h
        BY <1>0, <1>1, <3>2, <4>1, <4>2
           DEF Ends, IntersectBothWrapped, GetPreferredRange, IsSizeStrictlySmallerThan, Minus, Interval, N, SMinValue
      <4> QED
        BY <3>2, <4>3
    <3>3. CASE ~IsFullSet(r) /\ ~(r.lower > r.upper)
      <4>1. n = IntersectWrappedWithUnwrapped(N, r, "Smallest")
        BY <1>0, <1>1, <1>4, <3>3 DEF IntersectWith, IsUpperWrapped, Ends
      <4>2. r.lower < r.upper
        BY <1>4, <3>3, WrapTests DEF IsUpperWrapped
      <4>3. r = Interval(r.lower, r.upper, h)
        BY <1>0 DEF RangesOf, Interval
      <4> QED
        BY <1>0, <1>1, <4>1, <4>2, <4>3 DEF Ends, IntersectWrappedWithUnwrapped
    <3> QED
      BY <3>1, <3>2, <3>3
  <2>2. /\ n = N => n.lower = h /\ n.upper = 0
        /\ \A l, u : n = Interval(l, u, h) => n.lower = l /\ n.upper = u
        /\ n = Empty(h) => IsEmptySet(n)
        /\ IsFullSet(r) => r.lower = 2 * h - 1 /\ r.upper = 2 * h - 1
    BY <1>0, <1>1 DEF Interval, Empty, IsEmptySet, IsFullSet, UMaxValue
  <2> HIDE DEF n
  <2>3. ASSUME ~IsEmptySet(n)
        PROVE  /\ h <= n.lower /\ n.lower <= Pred(n.upper, h) /\ Pred(n.upper, h) \in SIntPatterns(h)
               /\ n.lower = h /\ n.upper # h + 1 /\ r.upper = h + 1 => h < r.lower /\ n.upper = 0
               /\ n.upper = 0 /\ n.lower # 2 * h - 1 /\ r.lower = 2 * h - 1 => h < r.upper /\ n.lower = h
    BY <1>0, <2>1, <2>2, <2>3 DEF Ends, Pred, Minus, SIntPatterns
  <2>4. h \in SIntPatterns(h) /\ 2 * h - 1 \in SIntPatterns(h)
    BY DEF SIntPatterns
  <2>5. ASSUME ~IsEmptySet(n)
        PROVE  (n.lower = h => Contains(r, h)) /\ (n.upper = 0 => Contains(r, 2 * h - 1))
    <3>1. /\ n.lower = h => Within(r.lower, r.upper, h, h)
          /\ n.upper = 0 => Within(r.lower, r.upper, 2 * h - 1, h)
      BY <1>0, <2>1, <2>2, <2>5 DEF Ends, Within
    <3> QED
      BY <2>4, <3>1, ContainsIsWithin
  <2> QED
    BY <1>2, <2>3, <2>5 DEF n, N
<1> QED
  BY <1>3, <1>4

-----------------------------------------------------------------------------
(* Signed quotients.                                                        *)

\* A greater dividend and a smaller divisor make no smaller quotient.
LEMMA DivisionMonotone ==
  ASSUME NEW x \in Nat, NEW z \in Nat, NEW y \in Nat \ {0}, NEW w \in Nat \ {0}, x <= z, w <= y
  PROVE  x \div y <= z \div w
<1> DEFINE p == x \div y
           q == z \div w
<1>1. p \in Nat /\ q \in Nat
  BY Division
<1>2. p * y <= x /\ z < (q + 1) * w
  OBVIOUS
<1> HIDE DEF p, q
<1>3. (q + 1) * w <= (q + 1) * y
  <2>1. (q + 1) * (y - w) >= 0
    BY <1>1
  <2> QED
    BY <1>1, <2>1
<1>4. ~(q + 1 <= p)
  <2> SUFFICES ASSUME q + 1 <= p
               PROVE  FALSE
    OBVIOUS
  <2>1. (p - (q + 1)) * y >= 0
    BY <1>1
  <2>2. p * y >= (q + 1) * y
    BY <1>1, <2>1
  <2>3. p * y \in Int /\ (q + 1) * y \in Int /\ (q + 1) * w \in Int
    BY <1>1
  <2> QED
    BY <1>2, <1>3, <2>2, <2>3
<1>5. p <= q
  BY <1>1, <1>4
<1> QED
  BY <1>5 DEF p, q

QuotientOf(x, y, saturating, h) == IF saturating THEN SDivSat(x, y, h) ELSE SDiv(x, y, h)

\* The smaller and the greater of two quotients of one sign are the ends of a
\* legal range: that from the one to the other.
LEMMA QuotientsLegal ==
  ASSUME NEW h \in Nat \ {0, 1}, NEW saturating,
         NEW x \in SIntPatterns(h), NEW z \in SIntPatterns(h),
         NEW y \in SIntPatterns(h), NEW w \in SIntPatterns(h), y # 0, w # 0,
         Magnitude(x, h) <= Magnitude(z, h), Magnitude(w, h) <= Magnitude(y, h)
  PROVE  LET less == QuotientOf(x, y, saturating, h)
             more == QuotientOf(z, w, saturating, h)
         IN  /\ (x >= h <=> y >= h) /\ (z >= h <=> w >= h) => Interval(less, Succ(more, h), h) \in RangesOf(h)
             /\ ~(x >= h <=> y >= h) /\ ~(z >= h <=> w >= h) => Interval(more, Succ(less, h), h) \in RangesOf(h)
<1> DEFINE less == QuotientOf(x, y, saturating, h)
           more == QuotientOf(z, w, saturating, h)
           p == Magnitude(x, h) \div Magnitude(y, h)
           q == Magnitude(z, h) \div Magnitude(w, h)
<1>1. /\ Magnitude(x, h) \in 0 .. h /\ Magnitude(y, h) \in 1 .. h
      /\ Magnitude(z, h) \in 0 .. h /\ Magnitude(w, h) \in 1 .. h
  BY DEF Magnitude, IsNeg, Neg, Minus, SIntPatterns
<1>2. p \in Nat /\ q \in Nat /\ p <= q /\ q <= h
  <2>1. p <= q
    BY <1>1, DivisionMonotone
  <2>2. p \in Nat /\ q \in Nat /\ q <= Magnitude(z, h)
    BY <1>1, Division
  <2> QED
    BY <1>1, <2>1, <2>2
<1>3. \A a, b \in SIntPatterns(h) : b # 0 =>
         LET m == Magnitude(a, h) \div Magnitude(b, h)
             d == QuotientOf(a, b, saturating, h)
         IN  /\ (a >= h <=> b >= h) => d = IF saturating /\ m = h THEN h - 1 ELSE m
             /\ ~(a >= h <=> b >= h) => d = Neg(m, h)
  <2> SUFFICES ASSUME NEW a \in SIntPatterns(h), NEW b \in SIntPatterns(h), b # 0
               PROVE  LET m == Magnitude(a, h) \div Magnitude(b, h)
                          d == QuotientOf(a, b, saturating, h)
                      IN  /\ (a >= h <=> b >= h) => d = IF saturating /\ m = h THEN h - 1 ELSE m
                          /\ ~(a >= h <=> b >= h) => d = Neg(m, h)
    OBVIOUS
  <2> DEFINE m == Magnitude(a, h) \div Magnitude(b, h)
             d == QuotientOf(a, b, saturating, h)
  <2>1. SDiv(a, b, h) = IF a >= h <=> b >= h THEN m ELSE Neg(m, h)
    BY DEF SDiv, UDiv, IsNeg
  <2>2. Magnitude(a, h) \in 0 .. h
    BY DEF Magnitude, IsNeg, Neg, Minus, SIntPatterns
  <2>3. CASE m = h /\ (a >= h <=> b >= h)
    <3>1. Magnitude(b, h) \in 1 .. h
      BY <2>3 DEF Magnitude, IsNeg, Neg, Minus, SIntPatterns
    <3>2. h * Magnitude(b, h) <= Magnitude(a, h)
      BY <2>2, <2>3, <3>1
    <3>3. Magnitude(b, h) = 1
      <4> SUFFICES ASSUME Magnitude(b, h) >= 2
                   PROVE  FALSE
        BY <3>1
      <4>1. h * (Magnitude(b, h) - 2) >= 0
        BY <3>1
      <4> QED
        BY <2>2, <3>1, <3>2, <4>1
    <3>4. Magnitude(a, h) = h
      BY <2>2, <2>3, <3>3
    <3>5. a = h /\ b = 2 * h - 1
      BY <2>3, <3>3, <3>4 DEF Magnitude, IsNeg, Neg, Minus, SIntPatterns
    <3>6. saturating => d = h - 1
      BY <3>5 DEF QuotientOf, SDivSat, UMaxValue, SMinValue, SMaxValue
    <3>7. ~saturating => d = m
      BY <2>1, <2>3 DEF QuotientOf
    <3> QED
      BY <2>3, <3>6, <3>7
  <2>4. CASE ~(m = h /\ (a >= h <=> b >= h))
    <3>1. ~(b = 2 * h - 1 /\ a = h)
      <4> SUFFICES ASSUME b = 2 * h - 1, a = h
                   PROVE  FALSE
        OBVIOUS
      <4>1. Magnitude(a, h) = h /\ Magnitude(b, h) = 1
        BY DEF Magnitude, IsNeg, Neg, Minus, SIntPatterns
      <4>2. m = h
        BY <4>1
      <4> QED
        BY <2>4, <4>2
    <3>2. d = SDiv(a, b, h)
      BY <3>1 DEF QuotientOf, SDivSat, UMaxValue, SMinValue
    <3> HIDE DEF m, d
    <3>3. /\ (a >= h <=> b >= h) => d = IF saturating /\ m = h THEN h - 1 ELSE m
          /\ ~(a >= h <=> b >= h) => d = Neg(m, h)
      BY <2>1, <2>4, <3>2
    <3> QED
      BY <3>3 DEF m, d
  <2> QED
    BY <2>3, <2>4
<1>4. /\ (x >= h <=> y >= h) => less = IF saturating /\ p = h THEN h - 1 ELSE p
      /\ ~(x >= h <=> y >= h) => less = Neg(p, h)
  BY <1>3
<1>5. /\ (z >= h <=> w >= h) => more = IF saturating /\ q = h THEN h - 1 ELSE q
      /\ ~(z >= h <=> w >= h) => more = Neg(q, h)
  BY <1>3
<1> HIDE DEF less, more, p, q
<1>6. ASSUME (x >= h <=> y >= h) /\ (z >= h <=> w >= h)
      PROVE  Interval(less, Succ(more, h), h) \in RangesOf(h)
  <2>1. /\ less \in SIntPatterns(h) /\ Succ(more, h) \in SIntPatterns(h)
        /\ less # Succ(more, h)
    BY <1>2, <1>4, <1>5, <1>6 DEF Succ, Plus, SIntPatterns
  <2> QED
    BY <2>1, IntervalLegal
<1>7. ASSUME ~(x >= h <=> y >= h) /\ ~(z >= h <=> w >= h)
      PROVE  Interval(more, Succ(less, h), h) \in RangesOf(h)
  <2>1. /\ more \in SIntPatterns(h) /\ Succ(less, h) \in SIntPatterns(h)
        /\ more # Succ(less, h)
    BY <1>2, <1>4, <1>5, <1>7 DEF Succ, Neg, Plus, Minus, SIntPatterns
  <2> QED
    BY <2>1, IntervalLegal
<1> QED
  BY <1>6, <1>7 DEF less, more

\* Unions, intersections and differences of legal ranges are legal.
LEMMA SetsLegal ==
  ASSUME NEW h \in Nat \ {0, 1}, NEW a \in RangesOf(h), NEW b \in RangesOf(h), NEW type
  PROVE  UnionWith(a, b, type) \in RangesOf(h) /\ IntersectWith(a, b, type) \in RangesOf(h)
BY UnionBest, IntersectionBest DEF Best

\* The ends of the positive and of the negative part of a range, if not empty.
PositiveEnds(p, h) == ~IsEmptySet(p) => 1 <= p.lower /\ p.lower < p.upper /\ p.upper <= h
NegativeEnds(r, n, h) ==
    ~IsEmptySet(n) =>
       /\ h <= n.lower /\ n.lower <= Pred(n.upper, h) /\ Pred(n.upper, h) \in SIntPatterns(h)
       /\ n.lower = h /\ n.upper # h + 1 /\ r.upper = h + 1 => h < r.lower /\ n.upper = 0
       /\ n.upper = 0 /\ n.lower # 2 * h - 1 /\ r.lower = 2 * h - 1 => h < r.upper /\ n.lower = h

\* The quotient of two negative parts without that of the smallest value by -1:
\* the greatest of the rest has a smaller dividend or a greater divisor.
LEMMA GreatestQuotient ==
  ASSUME NEW h \in Nat \ {0, 1}, NEW a \in RangesOf(h), NEW b \in RangesOf(h),
         NEW n \in RangesOf(h), NEW m \in RangesOf(h), ~IsEmptySet(n), ~IsEmptySet(m),
         NegativeEnds(a, n, h), NegativeEnds(b, m, h), NEW saturating
  PROVE  LET div(x, y) == IF saturating THEN SDivSat(x, y, h) ELSE SDiv(x, y, h)
             last(r) == Pred(r.upper, h)
             smallestByMinusOne == n.lower = SMinValue(h) /\ m.upper = 0
             dropMinusOne ==
                div(n.lower, Pred(IF b.lower = UMaxValue(h) THEN b.upper ELSE last(m), h))
             dropSmallest ==
                div(IF a.upper = Succ(SMinValue(h), h) THEN a.lower ELSE Succ(n.lower, h), last(m))
             up ==
                CASE smallestByMinusOne /\ n.upper # Succ(SMinValue(h), h) -> dropSmallest
                  [] smallestByMinusOne /\ n.upper = Succ(SMinValue(h), h)
                                        /\ m.lower # UMaxValue(h) -> dropMinusOne
                  [] OTHER -> div(n.lower, last(m))
         IN  Interval(div(last(n), m.lower), Succ(up, h), h) \in RangesOf(h)
<1> DEFINE Q(x, y) == QuotientOf(x, y, saturating, h)
           last(r) == Pred(r.upper, h)
           z == IF a.upper = h + 1 THEN a.lower ELSE h + 1
           w == Pred(IF b.lower = 2 * h - 1 THEN b.upper ELSE last(m), h)
           up == CASE (n.lower = h /\ m.upper = 0) /\ n.upper # h + 1 -> Q(z, last(m))
                   [] (n.lower = h /\ m.upper = 0) /\ n.upper = h + 1 /\ m.lower # 2 * h - 1 -> Q(n.lower, w)
                   [] OTHER -> Q(n.lower, last(m))
<1>0. Ends(a, h) /\ Ends(b, h) /\ Ends(n, h) /\ Ends(m, h)
  BY RangeEnds
<1>1. /\ n.lower \in h .. 2 * h - 1 /\ last(n) \in h .. 2 * h - 1 /\ n.lower <= last(n)
      /\ m.lower \in h .. 2 * h - 1 /\ last(m) \in h .. 2 * h - 1 /\ m.lower <= last(m)
  BY <1>0 DEF NegativeEnds, Ends, SIntPatterns
<1>2. \A x \in h .. 2 * h - 1 : x \in SIntPatterns(h) /\ x # 0 /\ Magnitude(x, h) = 2 * h - x
  BY DEF Magnitude, IsNeg, Neg, Minus, SIntPatterns
<1>3. ASSUME NEW x \in h .. 2 * h - 1, NEW y \in h .. 2 * h - 1, x <= last(n), m.lower <= y
      PROVE  Interval(Q(last(n), m.lower), Succ(Q(x, y), h), h) \in RangesOf(h)
  <2>1. /\ Magnitude(last(n), h) <= Magnitude(x, h) /\ Magnitude(y, h) <= Magnitude(m.lower, h)
        /\ last(n) >= h /\ m.lower >= h /\ x >= h /\ y >= h
        /\ last(n) \in SIntPatterns(h) /\ m.lower \in SIntPatterns(h) /\ m.lower # 0
        /\ x \in SIntPatterns(h) /\ y \in SIntPatterns(h) /\ y # 0
    BY <1>1, <1>2, <1>3
  <2> HIDE DEF Q
  <2> QED
    BY <2>1, QuotientsLegal DEF Q
<1>4. n.lower = h /\ m.upper = 0 /\ n.upper # h + 1 => z \in h .. 2 * h - 1 /\ z <= last(n)
  BY <1>0, <1>1 DEF NegativeEnds, Ends, Pred, Minus
<1>5. n.lower = h /\ m.upper = 0 /\ n.upper = h + 1 /\ m.lower # 2 * h - 1 =>
         w \in h .. 2 * h - 1 /\ m.lower <= w
  BY <1>0, <1>1 DEF NegativeEnds, Ends, Pred, Minus
<1> HIDE DEF Q, z, w
<1>6. Interval(Q(last(n), m.lower), Succ(up, h), h) \in RangesOf(h)
  <2>1. CASE (n.lower = h /\ m.upper = 0) /\ n.upper # h + 1
    BY <1>1, <1>3, <1>4, <2>1
  <2>2. CASE (n.lower = h /\ m.upper = 0) /\ n.upper = h + 1 /\ m.lower # 2 * h - 1
    BY <1>1, <1>3, <1>5, <2>2
  <2>3. CASE ~((n.lower = h /\ m.upper = 0) /\ n.upper # h + 1)
             /\ ~((n.lower = h /\ m.upper = 0) /\ n.upper = h + 1 /\ m.lower # 2 * h - 1)
    BY <1>1, <1>3, <2>3
  <2> QED
    BY <2>1, <2>2, <2>3
<1>7. SMinValue(h) = h /\ UMaxValue(h) = 2 * h - 1 /\ Succ(SMinValue(h), h) = h + 1
  BY DEF SMinValue, UMaxValue, Succ, Plus
<1>8. n.lower = h => Succ(n.lower, h) = h + 1
  BY DEF Succ, Plus
<1> QED
  BY <1>6, <1>7, <1>8 DEF Q, QuotientOf, z, w

\* A value lies between two quotients of parts that are not empty.
LastOf(r, h) == Pred(r.upper, h)
QuotientsCover(v, l, r, x, y, z, w, saturating, h) ==
    /\ ~IsEmptySet(l) /\ ~IsEmptySet(r)
    /\ Contains(Interval(QuotientOf(x, y, saturating, h), Succ(QuotientOf(z, w, saturating, h), h), h), v)

\* The union of the quotients of the parts is legal.
LEMMA SDivOfPartsLegal ==
  ASSUME NEW h \in Nat \ {0, 1}, NEW a \in RangesOf(h), NEW b \in RangesOf(h),
         NEW posL \in RangesOf(h), NEW negL \in RangesOf(h),
         NEW posR \in RangesOf(h), NEW negR \in RangesOf(h),
         PositiveEnds(posL, h), NegativeEnds(a, negL, h),
         PositiveEnds(posR, h), NegativeEnds(b, negR, h), NEW saturating
  PROVE  /\ SDivOfParts(a, b, posL, negL, posR, negR, saturating) \in RangesOf(h)
         /\ \A v \in SIntPatterns(h) :
               \/ QuotientsCover(v, posL, posR, posL.lower, LastOf(posR, h), LastOf(posL, h), posR.lower,
                                 saturating, h)
               \/ /\ negL.lower # h \/ negR.upper # 0
                  /\ QuotientsCover(v, negL, negR, LastOf(negL, h), negR.lower, negL.lower, LastOf(negR, h),
                                    saturating, h)
               \/ QuotientsCover(v, posL, negR, LastOf(posL, h), LastOf(negR, h), posL.lower, negR.lower,
                                 saturating, h)
               \/ QuotientsCover(v, negL, posR, negL.lower, posR.lower, LastOf(negL, h), LastOf(posR, h),
                                 saturating, h)
               \/ v = 0 /\ Contains(a, 0) /\ ~(IsEmptySet(posR) /\ IsEmptySet(negR))
               => Contains(SDivOfParts(a, b, posL, negL, posR, negR, saturating), v)
<1> DEFINE div(x, y) == IF saturating THEN SDivSat(x, y, h) ELSE SDiv(x, y, h)
           last(r) == Pred(r.upper, h)
           quotients(l, r, lo, up) ==
              IF IsEmptySet(l) \/ IsEmptySet(r) THEN Empty(h) ELSE Interval(lo, Succ(up, h), h)
           smallestByMinusOne == negL.lower = SMinValue(h) /\ negR.upper = 0
           dropMinusOne ==
              div(negL.lower, Pred(IF b.lower = UMaxValue(h) THEN b.upper ELSE last(negR), h))
           dropSmallest ==
              div(IF a.upper = Succ(SMinValue(h), h) THEN a.lower ELSE Succ(negL.lower, h), last(negR))
           negNegUp ==
              CASE smallestByMinusOne /\ negL.upper # Succ(SMinValue(h), h) -> dropSmallest
                [] smallestByMinusOne /\ negL.upper = Succ(SMinValue(h), h)
                                      /\ negR.lower # UMaxValue(h) -> dropMinusOne
                [] OTHER -> div(negL.lower, last(negR))
           posPos == quotients(posL, posR, div(posL.lower, last(posR)), div(last(posL), posR.lower))
           negNeg == quotients(negL, negR, div(last(negL), negR.lower), negNegUp)
           posNeg == quotients(posL, negR, div(last(posL), last(negR)), div(posL.lower, negR.lower))
           negPos == quotients(negL, posR, div(negL.lower, posR.lower), div(last(negL), last(posR)))
           zero == IF Contains(a, 0) /\ ~(IsEmptySet(posR) /\ IsEmptySet(negR)) THEN Single(0, h) ELSE Empty(h)
<1>0. Ends(posL, h) /\ Ends(posR, h) /\ Ends(negL, h) /\ Ends(negR, h) /\ a.half = h
  BY RangeEnds, HalfOfRange
<1>1. /\ ~IsEmptySet(posL) => /\ posL.lower \in 1 .. h - 1 /\ last(posL) \in 1 .. h - 1
                              /\ posL.lower <= last(posL)
      /\ ~IsEmptySet(posR) => /\ posR.lower \in 1 .. h - 1 /\ last(posR) \in 1 .. h - 1
                              /\ posR.lower <= last(posR)
      /\ ~IsEmptySet(negL) => /\ negL.lower \in h .. 2 * h - 1 /\ last(negL) \in h .. 2 * h - 1
                              /\ negL.lower <= last(negL)
      /\ ~IsEmptySet(negR) => /\ negR.lower \in h .. 2 * h - 1 /\ last(negR) \in h .. 2 * h - 1
                              /\ negR.lower <= last(negR)
  BY <1>0 DEF NegativeEnds, PositiveEnds, Ends, SIntPatterns, Pred, Minus
<1>2. \A x \in h .. 2 * h - 1 : x \in SIntPatterns(h) /\ x # 0 /\ Magnitude(x, h) = 2 * h - x
  BY DEF Magnitude, IsNeg, Neg, Minus, SIntPatterns
<1>3. \A x \in 1 .. h - 1 : x \in SIntPatterns(h) /\ x # 0 /\ Magnitude(x, h) = x /\ ~(x >= h)
  BY DEF Magnitude, IsNeg, SIntPatterns
<1>4. ASSUME NEW x \in SIntPatterns(h), NEW z \in SIntPatterns(h),
             NEW y \in SIntPatterns(h), NEW w \in SIntPatterns(h), y # 0, w # 0,
             Magnitude(x, h) <= Magnitude(z, h), Magnitude(w, h) <= Magnitude(y, h)
      PROVE  /\ (x >= h <=> y >= h) /\ (z >= h <=> w >= h) =>
                   Interval(div(x, y), Succ(div(z, w), h), h) \in RangesOf(h)
             /\ ~(x >= h <=> y >= h) /\ ~(z >= h <=> w >= h) =>
                   Interval(div(z, w), Succ(div(x, y), h), h) \in RangesOf(h)
  BY <1>4, QuotientsLegal DEF QuotientOf
<1>5. \A l, r, lo, up :
         (~IsEmptySet(l) /\ ~IsEmptySet(r) => Interval(lo, Succ(up, h), h) \in RangesOf(h))
            => quotients(l, r, lo, up) \in RangesOf(h)
  BY ExtremesLegal
<1>6. posPos \in RangesOf(h)
  <2>1. ASSUME ~IsEmptySet(posL), ~IsEmptySet(posR)
        PROVE  Interval(div(posL.lower, last(posR)), Succ(div(last(posL), posR.lower), h), h) \in RangesOf(h)
    <3> HIDE DEF div, last
    <3>1. /\ posL.lower \in SIntPatterns(h) /\ last(posL) \in SIntPatterns(h)
          /\ posR.lower \in SIntPatterns(h) /\ last(posR) \in SIntPatterns(h)
          /\ posR.lower # 0 /\ last(posR) # 0
          /\ Magnitude(posL.lower, h) <= Magnitude(last(posL), h)
          /\ Magnitude(posR.lower, h) <= Magnitude(last(posR), h)
          /\ ~(posL.lower >= h) /\ ~(last(posL) >= h) /\ ~(posR.lower >= h) /\ ~(last(posR) >= h)
      BY <1>1, <1>3, <2>1
    <3> QED
      BY <1>4, <3>1
  <2> HIDE DEF div, last, quotients
  <2> QED
    BY <1>5, <2>1
<1>7. negNeg \in RangesOf(h)
  <2>1. ASSUME ~IsEmptySet(negL), ~IsEmptySet(negR)
        PROVE  Interval(div(last(negL), negR.lower), Succ(negNegUp, h), h) \in RangesOf(h)
    BY <2>1, GreatestQuotient, ZenonT(60)
  <2> HIDE DEF div, last, quotients, negNegUp
  <2> QED
    BY <1>5, <2>1
<1>8. posNeg \in RangesOf(h)
  <2>1. ASSUME ~IsEmptySet(posL), ~IsEmptySet(negR)
        PROVE  Interval(div(last(posL), last(negR)), Succ(div(posL.lower, negR.lower), h), h) \in RangesOf(h)
    <3> HIDE DEF div, last
    <3>1. /\ posL.lower \in SIntPatterns(h) /\ last(posL) \in SIntPatterns(h)
          /\ negR.lower \in SIntPatterns(h) /\ last(negR) \in SIntPatterns(h)
          /\ negR.lower # 0 /\ last(negR) # 0
          /\ Magnitude(posL.lower, h) <= Magnitude(last(posL), h)
          /\ Magnitude(last(negR), h) <= Magnitude(negR.lower, h)
          /\ ~(posL.lower >= h) /\ ~(last(posL) >= h) /\ negR.lower >= h /\ last(negR) >= h
      BY <1>1, <1>2, <1>3, <2>1
    <3> QED
      BY <1>4, <3>1
  <2> HIDE DEF div, last, quotients
  <2> QED
    BY <1>5, <2>1
<1>9. negPos \in RangesOf(h)
  <2>1. ASSUME ~IsEmptySet(negL), ~IsEmptySet(posR)
        PROVE  Interval(div(negL.lower, posR.lower), Succ(div(last(negL), last(posR)), h), h) \in RangesOf(h)
    <3> HIDE DEF div, last
    <3>1. /\ negL.lower \in SIntPatterns(h) /\ last(negL) \in SIntPatterns(h)
          /\ posR.lower \in SIntPatterns(h) /\ last(posR) \in SIntPatterns(h)
          /\ posR.lower # 0 /\ last(posR) # 0
          /\ Magnitude(last(negL), h) <= Magnitude(negL.lower, h)
          /\ Magnitude(posR.lower, h) <= Magnitude(last(posR), h)
          /\ negL.lower >= h /\ last(negL) >= h /\ ~(posR.lower >= h) /\ ~(last(posR) >= h)
      BY <1>1, <1>2, <1>3, <2>1
    <3> QED
      BY <1>4, <3>1
  <2> HIDE DEF div, last, quotients
  <2> QED
    BY <1>5, <2>1
<1>10. zero \in RangesOf(h)
  <2>1. 0 \in SIntPatterns(h)
    BY DEF SIntPatterns
  <2> QED
    BY <2>1, SingleLegal, ExtremesLegal
<1>14. ASSUME NEW v \in SIntPatterns(h)
       PROVE  /\ QuotientsCover(v, posL, posR, posL.lower, LastOf(posR, h), LastOf(posL, h), posR.lower,
                                saturating, h) => Contains(posPos, v)
              /\ /\ negL.lower # h \/ negR.upper # 0
                 /\ QuotientsCover(v, negL, negR, LastOf(negL, h), negR.lower, negL.lower, LastOf(negR, h),
                                   saturating, h)
                 => Contains(negNeg, v)
              /\ QuotientsCover(v, posL, negR, LastOf(posL, h), LastOf(negR, h), posL.lower, negR.lower,
                                saturating, h) => Contains(posNeg, v)
              /\ QuotientsCover(v, negL, posR, negL.lower, posR.lower, LastOf(negL, h), LastOf(posR, h),
                                saturating, h) => Contains(negPos, v)
              /\ v = 0 /\ Contains(a, 0) /\ ~(IsEmptySet(posR) /\ IsEmptySet(negR)) => Contains(zero, v)
  <2>1. \A x, y : QuotientOf(x, y, saturating, h) = div(x, y)
    BY DEF QuotientOf
  <2>2. \A r : LastOf(r, h) = last(r)
    BY DEF LastOf
  <2> HIDE DEF div, last
  <2>3. /\ QuotientsCover(v, posL, posR, posL.lower, LastOf(posR, h), LastOf(posL, h), posR.lower,
                          saturating, h) => Contains(posPos, v)
        /\ QuotientsCover(v, posL, negR, LastOf(posL, h), LastOf(negR, h), posL.lower, negR.lower,
                          saturating, h) => Contains(posNeg, v)
        /\ QuotientsCover(v, negL, posR, negL.lower, posR.lower, LastOf(negL, h), LastOf(posR, h),
                          saturating, h) => Contains(negPos, v)
    BY <2>1, <2>2, Zenon DEF QuotientsCover
  <2>4. ASSUME negL.lower # h \/ negR.upper # 0
        PROVE  negNegUp = div(negL.lower, last(negR))
    <3>1. ~smallestByMinusOne
      BY <2>4 DEF SMinValue
    <3> HIDE DEF smallestByMinusOne
    <3> QED
      BY <3>1, Zenon
  <2> HIDE DEF negNegUp
  <2>5. /\ negL.lower # h \/ negR.upper # 0
        /\ QuotientsCover(v, negL, negR, LastOf(negL, h), negR.lower, negL.lower, LastOf(negR, h),
                          saturating, h)
        => Contains(negNeg, v)
    BY <2>1, <2>2, <2>4, Zenon DEF QuotientsCover
  <2>6. v = 0 /\ Contains(a, 0) /\ ~(IsEmptySet(posR) /\ IsEmptySet(negR)) => Contains(zero, v)
    BY ZeroFact
  <2> QED
    BY <2>3, <2>5, <2>6
<1> HIDE DEF posPos, negNeg, posNeg, negPos, zero
<1>11. UnionWith(posPos, negNeg, "Smallest") \in RangesOf(h) /\ UnionWith(posNeg, negPos, "Smallest") \in RangesOf(h)
  BY <1>6, <1>7, <1>8, <1>9, SetsLegal
<1>12. UnionWith(UnionWith(posNeg, negPos, "Smallest"), UnionWith(posPos, negNeg, "Smallest"), "Signed")
          \in RangesOf(h)
  BY <1>11, SetsLegal
<1>13. UnionWith(UnionWith(UnionWith(posNeg, negPos, "Smallest"), UnionWith(posPos, negNeg, "Smallest"), "Signed"),
                 zero, "Smallest") \in RangesOf(h)
  BY <1>10, <1>12, SetsLegal
<1>15. SDivOfParts(a, b, posL, negL, posR, negR, saturating)
         = UnionWith(UnionWith(UnionWith(posNeg, negPos, "Smallest"), UnionWith(posPos, negNeg, "Smallest"), "Signed"),
                     zero, "Smallest")
  BY <1>0, Zenon DEF SDivOfParts, posPos, negNeg, posNeg, negPos, zero
<1>16. ASSUME NEW v \in SIntPatterns(h),
              \/ Contains(posPos, v) \/ Contains(negNeg, v) \/ Contains(posNeg, v) \/ Contains(negPos, v)
              \/ Contains(zero, v)
       PROVE  Contains(SDivOfParts(a, b, posL, negL, posR, negR, saturating), v)
  <2>1. /\ Contains(posPos, v) \/ Contains(negNeg, v) => Contains(UnionWith(posPos, negNeg, "Smallest"), v)
        /\ Contains(posNeg, v) \/ Contains(negPos, v) => Contains(UnionWith(posNeg, negPos, "Smallest"), v)
    BY <1>6, <1>7, <1>8, <1>9, UnionContains
  <2>2. Contains(posPos, v) \/ Contains(negNeg, v) \/ Contains(posNeg, v) \/ Contains(negPos, v) =>
           Contains(UnionWith(UnionWith(posNeg, negPos, "Smallest"), UnionWith(posPos, negNeg, "Smallest"), "Signed"), v)
    BY <1>11, <2>1, UnionContains
  <2> QED
    BY <1>10, <1>12, <1>15, <1>16, <2>2, UnionContains
<1> QED
  BY <1>13, <1>14, <1>15, <1>16

\* ConstantRange's quotients in the signed order.
LEMMA SDivLegal ==
  ASSUME NEW h \in Nat \ {0, 1}, NEW a \in RangesOf(h), NEW b \in RangesOf(h), NEW saturating
  PROVE  SDivImpl(a, b, saturating) \in RangesOf(h)
<1> DEFINE positive(r) == IntersectWith(r, Interval(1, SMinValue(h), h), "Smallest")
           negative(r) == IntersectWith(r, Interval(SMinValue(h), 0, h), "Smallest")
<1>1. a.half = h /\ b.half = h
  BY HalfOfRange
<1>2. ASSUME NEW r \in RangesOf(h)
      PROVE  /\ positive(r) \in RangesOf(h) /\ negative(r) \in RangesOf(h)
             /\ PositiveEnds(positive(r), h) /\ NegativeEnds(r, negative(r), h)
  BY PositivePart, NegativePart DEF PositiveEnds, NegativeEnds
<1> HIDE DEF positive, negative
<1>3. SDivOfParts(a, b, positive(a), negative(a), positive(b), negative(b), saturating) \in RangesOf(h)
  BY <1>2, SDivOfPartsLegal
<1> QED
  BY <1>1, <1>3 DEF SDivImpl, positive, negative

-----------------------------------------------------------------------------
(* Sums, differences and negations.                                         *)

\* ConstantRange::Add and Sub, and their saturating forms.
LEMMA SumsLegal ==
  ASSUME NEW h \in Nat \ {0, 1}, NEW a \in RangesOf(h), NEW b \in RangesOf(h)
  PROVE  /\ Add(a, b) \in RangesOf(h) /\ Sub(a, b) \in RangesOf(h)
         /\ UAddSatRange(a, b) \in RangesOf(h) /\ SAddSatRange(a, b) \in RangesOf(h)
         /\ USubSatRange(a, b) \in RangesOf(h) /\ SSubSatRange(a, b) \in RangesOf(h)
<1>1. /\ a.half = h /\ a.lower \in SIntPatterns(h) /\ a.upper \in SIntPatterns(h)
      /\ b.half = h /\ b.lower \in SIntPatterns(h) /\ b.upper \in SIntPatterns(h)
  BY HalfOfRange
<1>2. \A l, u \in SIntPatterns(h) : FullIfWrapped(l, u, a, b) \in RangesOf(h)
  BY <1>1, IntervalLegal, ExtremesLegal DEF FullIfWrapped
<1>3. \A x, y \in SIntPatterns(h) :
         /\ Plus(x, y, h) \in SIntPatterns(h) /\ Minus(x, y, h) \in SIntPatterns(h)
         /\ Pred(x, h) \in SIntPatterns(h) /\ Succ(x, h) \in SIntPatterns(h)
         /\ UAddSat(x, y, h) \in SIntPatterns(h) /\ SAddSat(x, y, h) \in SIntPatterns(h)
         /\ USubSat(x, y, h) \in SIntPatterns(h) /\ SSubSat(x, y, h) \in SIntPatterns(h)
  BY OperationsArePatterns, SaturatedArePatterns
<1>4. Add(a, b) \in RangesOf(h) /\ Sub(a, b) \in RangesOf(h)
  BY <1>1, <1>2, <1>3, ExtremesLegal DEF Add, Sub
<1>5. /\ UMinOf(a) \in SIntPatterns(h) /\ UMaxOf(a) \in SIntPatterns(h)
      /\ SMinOf(a) \in SIntPatterns(h) /\ SMaxOf(a) \in SIntPatterns(h)
      /\ UMinOf(b) \in SIntPatterns(h) /\ UMaxOf(b) \in SIntPatterns(h)
      /\ SMinOf(b) \in SIntPatterns(h) /\ SMaxOf(b) \in SIntPatterns(h)
  BY ExtremesArePatterns
<1>6. \A lo, up \in SIntPatterns(h) : SatRange(a, b, lo, up) \in RangesOf(h)
  BY SatRangeLegal
<1> QED
  BY <1>1, <1>3, <1>4, <1>5, <1>6 DEF UAddSatRange, SAddSatRange, USubSatRange, SSubSatRange

\* ConstantRange::Negate, but of the smallest value alone.
LEMMA NegateLegal ==
  ASSUME NEW h \in Nat \ {0, 1}, NEW r \in RangesOf(h), r # Single(SMinValue(h), h)
  PROVE  Negate(r) \in RangesOf(h)
<1> DEFINE lo == Neg(Pred(r.upper, h), h)
           up == IF r.lower = SMinValue(h) THEN r.lower ELSE Succ(Neg(r.lower, h), h)
<1>1. Ends(r, h) /\ r.half = h
  BY RangeEnds DEF Ends
<1>2. CASE IsEmptySet(r) \/ IsFullSet(r)
  BY <1>2 DEF Negate
<1>3. CASE ~(IsEmptySet(r) \/ IsFullSet(r))
  <2>1. r.lower # r.upper
    BY <1>3, NeitherFullNorEmpty
  <2>2. ~(r.lower = h /\ r.upper = h + 1)
    <3>1. r = Interval(r.lower, r.upper, h)
      BY <1>1 DEF RangesOf, Interval
    <3>2. Single(SMinValue(h), h) = Interval(h, h + 1, h)
      BY DEF Single, SMinValue, Succ, Plus
    <3> QED
      BY <3>1, <3>2
  <2>3. lo \in SIntPatterns(h) /\ up \in SIntPatterns(h) /\ lo # up
    BY <1>1, <2>1, <2>2 DEF Ends, Neg, Pred, Succ, Plus, Minus, SMinValue, SIntPatterns
  <2> QED
    BY <1>1, <1>3, <2>3, IntervalLegal DEF Negate
<1> QED
  BY <1>2, <1>3

\* ConstantRange::Subtract.
LEMMA SubtractLegal ==
  ASSUME NEW h \in Nat \ {0, 1}, NEW r \in RangesOf(h), NEW v \in SIntPatterns(h)
  PROVE  Subtract(r, v) \in RangesOf(h)
<1> DEFINE lo == Minus(r.lower, v, h)
           up == Minus(r.upper, v, h)
<1>1. Ends(r, h) /\ r.half = h
  BY RangeEnds DEF Ends
<1>2. CASE r.lower = r.upper
  BY <1>2 DEF Subtract
<1>3. CASE r.lower # r.upper
  <2>1. lo \in SIntPatterns(h) /\ up \in SIntPatterns(h) /\ lo # up
    BY <1>1, <1>3 DEF Ends, Minus, SIntPatterns
  <2> QED
    BY <1>1, <1>3, <2>1, IntervalLegal DEF Subtract
<1> QED
  BY <1>2, <1>3

-----------------------------------------------------------------------------
(* Conversions.                                                             *)

\* ConstantRange::ZeroExtend and SignExtend, to any greater width.
LEMMA ExtensionsLegal ==
  ASSUME NEW h \in Nat \ {0, 1}, NEW d \in Nat \ {0, 1}, h < d, NEW r \in RangesOf(h)
  PROVE  ZeroExtend(r, d) \in RangesOf(d) /\ SignExtend(r, d) \in RangesOf(d)
<1>1. Ends(r, h) /\ r.half = h
  BY RangeEnds DEF Ends
<1>2. \A l, u \in 0 .. 2 * d - 1 : l # u => Interval(l, u, d) \in RangesOf(d)
  BY IntervalLegal DEF SIntPatterns
<1>3. CASE IsEmptySet(r)
  BY <1>3, ExtremesLegal DEF ZeroExtend, SignExtend
<1>4. CASE ~IsEmptySet(r)
  <2>1. ZeroExtend(r, d) \in RangesOf(d)
    <3>1. CASE IsFullSet(r) \/ IsWrappedSet(r)
      BY <1>1, <1>2, <1>4, <3>1 DEF ZeroExtend
    <3>2. CASE ~(IsFullSet(r) \/ IsWrappedSet(r)) /\ r.upper = 0
      <4>1. r.lower # 2 * h /\ r.lower \in 0 .. 2 * d - 1 /\ 2 * h \in 0 .. 2 * d - 1
        BY <1>1 DEF Ends
      <4> QED
        BY <1>1, <1>2, <1>4, <3>2, <4>1 DEF ZeroExtend
    <3>3. CASE ~(IsFullSet(r) \/ IsWrappedSet(r)) /\ r.upper # 0
      <4>1. r.lower # r.upper /\ r.lower \in 0 .. 2 * d - 1 /\ r.upper \in 0 .. 2 * d - 1
        BY <1>1, <1>4, <3>3, NeitherFullNorEmpty DEF Ends
      <4> QED
        BY <1>1, <1>2, <1>4, <3>3, <4>1 DEF ZeroExtend
    <3> QED
      BY <3>1, <3>2, <3>3
  <2>2. SignExtend(r, d) \in RangesOf(d)
    <3> DEFINE l == SExt(r.lower, h, d)
               u == SExt(r.upper, h, d)
    <3>0. /\ l \in 0 .. 2 * d - 1 /\ u \in 0 .. 2 * d - 1 /\ h \in 0 .. 2 * d - 1
          /\ l # h /\ (r.lower # r.upper => l # u)
          /\ 2 * d - h \in 0 .. 2 * d - 1 /\ 2 * d - h # h
      BY <1>1 DEF Ends, SExt, IsNeg
    <3>1. CASE IsFullSet(r) \/ IsSignWrappedSet(r)
      BY <1>1, <1>2, <1>4, <3>0, <3>1 DEF SignExtend
    <3>2. CASE ~(IsFullSet(r) \/ IsSignWrappedSet(r))
      <4>1. r.lower # r.upper
        BY <1>4, <3>2, NeitherFullNorEmpty
      <4> HIDE DEF l, u
      <4>2. Interval(l, h, d) \in RangesOf(d) /\ Interval(l, u, d) \in RangesOf(d)
        BY <1>2, <3>0, <4>1
      <4>3. r.upper = SMinValue(h) => r.upper = h
        BY DEF SMinValue
      <4> QED
        BY <1>1, <1>4, <3>2, <4>2, <4>3 DEF SignExtend, l, u
    <3> QED
      BY <3>1, <3>2
  <2> QED
    BY <2>1, <2>2
<1> QED
  BY <1>3, <1>4

\* ConstantRange::Truncate, and truncation to a range that ends with the
\* greatest value of the smaller width.
LEMMA TruncateLegal ==
  ASSUME NEW h \in Nat \ {0, 1}, NEW d \in Nat \ {0, 1}, d < h, NEW r \in RangesOf(h)
  PROVE  Truncate(r, d) \in RangesOf(d)
<1> DEFINE t == Trunc(r.lower, d)
           wrapped == IsUpperWrapped(r)
           part == IF wrapped THEN Interval(UMaxValue(d), Trunc(r.upper, d), d) ELSE Empty(d)
           upper == IF wrapped THEN UMaxValue(h) ELSE r.upper
           beyond == r.lower - t
           lo == r.lower - beyond
           up == Minus(upper, beyond, h)
<1>1. Ends(r, h) /\ r.half = h
  BY RangeEnds DEF Ends
<1>2. t \in 0 .. 2 * d - 1 /\ t <= r.lower
  <2>1. r.lower \in Nat /\ 2 * d \in Nat \ {0}
    BY <1>1 DEF Ends
  <2>2. r.lower % (2 * d) \in Nat /\ r.lower % (2 * d) < 2 * d /\ r.lower % (2 * d) <= r.lower
    BY <2>1, Division
  <2> QED
    BY <2>2 DEF Trunc
<1>3. \A l, u \in 0 .. 2 * d - 1 : l # u => Interval(l, u, d) \in RangesOf(d)
  BY IntervalLegal DEF SIntPatterns
<1>4. CASE IsEmptySet(r) \/ IsFullSet(r)
  <2>1. /\ IsEmptySet(r) => r.lower = r.upper /\ ~IsFullSet(r)
        /\ IsFullSet(r) => r.lower = r.upper /\ ~IsEmptySet(r)
    BY <1>1 DEF Ends, IsEmptySet, IsFullSet, UMaxValue
  <2>2. Truncate(r, d) = Empty(d) \/ Truncate(r, d) = Full(d)
    BY <1>1, <1>4, <2>1, Zenon DEF Truncate
  <2> QED
    BY <2>2, ExtremesLegal
<1>5. CASE ~(IsEmptySet(r) \/ IsFullSet(r))
  <2>0. r.lower # r.upper
    BY <1>5, NeitherFullNorEmpty
  <2>1. CASE wrapped /\ r.upper >= UMaxValue(d)
    <3>1. Truncate(r, d) = Full(d)
      BY <1>1, <1>5, <2>0, <2>1 DEF Truncate
    <3> QED
      BY <3>1, ExtremesLegal
  <2>2. CASE ~(wrapped /\ r.upper >= UMaxValue(d))
    <3> HIDE DEF t
    <3>1. wrapped => r.upper \in 0 .. 2 * d - 1 /\ r.upper # 2 * d - 1 /\ Trunc(r.upper, d) = r.upper
      <4>1. wrapped => r.upper \in 0 .. 2 * d - 1 /\ r.upper # 2 * d - 1
        BY <1>1, <2>2 DEF Ends, UMaxValue
      <4>2. r.upper \in 0 .. 2 * d - 1 => r.upper % (2 * d) = r.upper
        OBVIOUS
      <4> QED
        BY <4>1, <4>2 DEF Trunc
    <3>2. part \in RangesOf(d)
      BY <1>3, <3>1, ExtremesLegal DEF UMaxValue
    <3>3. lo = t
      BY <1>1, <1>2 DEF Ends
    <3>4. ~(wrapped /\ r.lower = UMaxValue(h)) => up \in 0 .. 2 * h - 1 /\ up > t
      BY <1>1, <1>2, <2>0 DEF Ends, IsUpperWrapped, UMaxValue, Minus
    <3>5. Truncate(r, d) =
             IF wrapped /\ r.lower = UMaxValue(h) THEN part
             ELSE IF up < 2 * d THEN UnionWith(Interval(lo, up, d), part, "Smallest")
             ELSE IF up < 4 * d /\ up - 2 * d < lo
             THEN UnionWith(Interval(lo, up - 2 * d, d), part, "Smallest")
             ELSE Full(d)
      <4> HIDE DEF wrapped, part, upper, beyond, lo, up
      <4> QED
        BY <1>1, <1>5, <2>0, <2>2, Zenon DEF Truncate, wrapped, part, upper, beyond, lo, up, t
    <3> HIDE DEF wrapped, part, lo, up
    <3>6. CASE wrapped /\ r.lower = UMaxValue(h)
      BY <3>2, <3>5, <3>6
    <3>7. CASE ~(wrapped /\ r.lower = UMaxValue(h)) /\ up < 2 * d
      <4>1. Interval(lo, up, d) \in RangesOf(d)
        BY <1>2, <1>3, <3>3, <3>4, <3>7
      <4> QED
        BY <3>2, <3>5, <3>7, <4>1, SetsLegal
    <3>8. CASE ~(wrapped /\ r.lower = UMaxValue(h)) /\ ~(up < 2 * d) /\ up < 4 * d /\ up - 2 * d < lo
      <4>1. Interval(lo, up - 2 * d, d) \in RangesOf(d)
        BY <1>2, <1>3, <3>3, <3>4, <3>8
      <4> QED
        BY <3>2, <3>5, <3>8, <4>1, SetsLegal
    <3>9. CASE ~(wrapped /\ r.lower = UMaxValue(h)) /\ ~(up < 2 * d) /\ ~(up < 4 * d /\ up - 2 * d < lo)
      BY <3>5, <3>9, ExtremesLegal
    <3> QED
      BY <3>6, <3>7, <3>8, <3>9
  <2> QED
    BY <2>1, <2>2
<1> QED
  BY <1>4, <1>5

\* Truncation of a range that ends at the first value that does not fit.
LEMMA TruncWithUpperWrappedLegal ==
  ASSUME NEW h \in Nat \ {0, 1}, NEW d \in Nat \ {0, 1}, d < h, NEW r \in RangesOf(h), NEW dstUnsigned
  PROVE  TruncWithUpperWrapped(r, dstUnsigned, d) \in RangesOf(d)
<1> DEFINE lower == Trunc(r.lower, d)
           upper == Succ(Trunc(Pred(r.upper, h), d), d)
<1>1. r.half = h /\ r.lower \in SIntPatterns(h) /\ r.upper \in SIntPatterns(h)
  BY HalfOfRange
<1>2. Pred(r.upper, h) \in Int /\ r.lower \in Int
  BY <1>1 DEF Pred, Minus, SIntPatterns
<1>3. lower \in SIntPatterns(d) /\ Trunc(Pred(r.upper, h), d) \in SIntPatterns(d)
  BY <1>2, ModuloIsPattern DEF Trunc
<1>4. upper \in SIntPatterns(d)
  BY <1>3, OperationsArePatterns
<1> HIDE DEF lower, upper
<1>5. lower # upper => Interval(lower, upper, d) \in RangesOf(d)
  BY <1>3, <1>4, IntervalLegal
<1> QED
  BY <1>1, <1>5, TruncateLegal, ExtremesLegal DEF TruncWithUpperWrapped, lower, upper

\* A comparison with a pattern gives a legal range.
LEMMA FromLegal ==
  ASSUME NEW h \in Nat \ {0, 1}, NEW v \in SIntPatterns(h), NEW unsigned \in BOOLEAN, NEW rel \in Relations
  PROVE  From(rel, v, ~unsigned, h) \in RangesOf(h)
BY FromOrdered

\* The parts of a range are one or two legal ranges.
LEMMA PartsLegal ==
  ASSUME NEW h \in Nat \ {0, 1}, NEW r \in RangesOf(h), NEW unsigned \in BOOLEAN
  PROVE  /\ DOMAIN PartsOf(r, unsigned) \in {{1}, {1, 2}}
         /\ \A i \in DOMAIN PartsOf(r, unsigned) : PartsOf(r, unsigned)[i] \in RangesOf(h)
<1> DEFINE first == From("LT", r.upper, ~unsigned, h)
           second == From("GE", r.lower, ~unsigned, h)
<1>1. r.half = h /\ r.lower \in SIntPatterns(h) /\ r.upper \in SIntPatterns(h)
  BY HalfOfRange
<1>2. first \in RangesOf(h) /\ second \in RangesOf(h)
  BY <1>1, FromLegal DEF Relations
<1> HIDE DEF first, second
<1>3. PartsOf(r, unsigned) = <<r>> \/ PartsOf(r, unsigned) = <<first, second>>
  BY <1>1, Zenon DEF PartsOf, SplitWrapping, first, second
<1> QED
  BY <1>2, <1>3

\* The parts of a range, each converted, united again.
LEMMA UnionOfPartsLegal ==
  ASSUME NEW d \in Nat \ {0, 1}, NEW parts, NEW type, DOMAIN parts \in {{1}, {1, 2}},
         \A i \in DOMAIN parts : parts[i] \in RangesOf(d)
  PROVE  UnionOfParts(parts, type) \in RangesOf(d)
<1>1. CASE DOMAIN parts = {1}
  BY <1>1 DEF UnionOfParts
<1>2. CASE DOMAIN parts = {1, 2}
  <2>1. parts[1] \in RangesOf(d) /\ parts[2] \in RangesOf(d)
    BY <1>2
  <2>2. UnionWith(parts[1], parts[2], type) \in RangesOf(d)
    BY <2>1, SetsLegal
  <2> QED
    BY <2>1, <2>2 DEF UnionOfParts
<1> QED
  BY <1>1, <1>2

\* A range and the end that lost values count as.
LEMMA WithEndLegal ==
  ASSUME NEW h \in Nat \ {0, 1}, NEW kept \in RangesOf(h), NEW end \in SIntPatterns(h), NEW lost, NEW type
  PROVE  WithEnd(kept, lost, Single(end, h), type) \in RangesOf(h)
BY SingleLegal, SetsLegal DEF WithEnd

\* A part of a range, to a smaller width of its signedness.
LEMMA SameSignessInnerLegal ==
  ASSUME NEW h \in Nat \ {0, 1}, NEW d \in Nat \ {0, 1}, d < h, NEW r \in RangesOf(h),
         NEW unsigned \in BOOLEAN, NEW ov
  PROVE  NCSameSignessInner(r, d, unsigned, ov) \in RangesOf(d)
<1> DEFINE prefer == PreferFromBool(unsigned)
           least == IF unsigned THEN 0 ELSE SMinValue(d)
           greatest == IF unsigned THEN UMaxValue(d) ELSE SMaxValue(d)
           first == IF unsigned THEN 0 ELSE SExt(least, d, h)
           higherPart == IntersectWith(AtLeast(first, unsigned, h), r, prefer)
           unchangedPart == IntersectWith(AtMost(greatest, unsigned, h), higherPart, prefer)
           kept == Truncate(unchangedPart, d)
           withLeast == WithEnd(kept, ~IsEmptySet(Difference(r, higherPart)), Single(least, d), prefer)
           withGreatest == WithEnd(withLeast, ~IsEmptySet(Difference(higherPart, unchangedPart)),
                                   Single(greatest, d), prefer)
<1>1. r.half = h
  BY HalfOfRange
<1>2. /\ least \in SIntPatterns(d) /\ greatest \in SIntPatterns(d)
      /\ first \in SIntPatterns(h) /\ greatest \in SIntPatterns(h)
  BY DEF SMinValue, SMaxValue, UMaxValue, SExt, IsNeg, SIntPatterns
<1> HIDE DEF prefer, least, greatest, first
<1>3. higherPart \in RangesOf(h)
  BY <1>2, FromLegal, SetsLegal DEF AtLeast, Relations
<1> HIDE DEF higherPart
<1>4. unchangedPart \in RangesOf(h)
  BY <1>2, <1>3, FromLegal, SetsLegal DEF AtMost, Relations
<1> HIDE DEF unchangedPart
<1>5. kept \in RangesOf(d)
  BY <1>4, TruncateLegal
<1> HIDE DEF kept
<1>6. withLeast \in RangesOf(d)
  BY <1>2, <1>5, WithEndLegal
<1> HIDE DEF withLeast
<1>7. withGreatest \in RangesOf(d)
  BY <1>2, <1>6, WithEndLegal
<1> HIDE DEF withGreatest
<1>8. NCSameSignessInner(r, d, unsigned, ov) =
         CASE IsFullSet(r) -> Full(d)
           [] IsEmptySet(r) -> Empty(d)
           [] r.lower # r.upper ->
                IF r = unchangedPart \/ ov = "THROWING" THEN kept
                ELSE IF ov = "WRAPPING" THEN Full(d) ELSE withGreatest
  BY <1>1, Zenon
     DEF NCSameSignessInner, prefer, least, greatest, first, higherPart, unchangedPart, kept, withLeast, withGreatest
<1>9. \/ IsFullSet(r) /\ ~IsEmptySet(r) /\ r.lower = r.upper
      \/ IsEmptySet(r) /\ ~IsFullSet(r) /\ r.lower = r.upper
      \/ ~IsFullSet(r) /\ ~IsEmptySet(r) /\ r.lower # r.upper
  BY RangeEnds DEF Ends, IsEmptySet, IsFullSet, UMaxValue
<1>10. NCSameSignessInner(r, d, unsigned, ov) \in {Full(d), Empty(d), kept, withGreatest}
  BY <1>8, <1>9
<1> QED
  BY <1>5, <1>7, <1>10, ExtremesLegal

\* ConstantRange::NumericConversion between types of one signedness.
LEMMA SameSignessLegal ==
  ASSUME NEW h \in Nat \ {0, 1}, NEW d \in Nat \ {0, 1}, NEW r \in RangesOf(h),
         NEW unsigned \in BOOLEAN, NEW ov
  PROVE  NumericConversionWithSameSigness(r, d, unsigned, ov) \in RangesOf(d)
<1> DEFINE parts == PartsOf(r, unsigned)
           converted == [i \in DOMAIN parts |-> NCSameSignessInner(parts[i], d, unsigned, ov)]
<1>1. r.half = h
  BY HalfOfRange
<1>2. CASE h = d
  <2>1. NumericConversionWithSameSigness(r, d, unsigned, ov) = r
    BY <1>1, <1>2 DEF NumericConversionWithSameSigness
  <2> QED
    BY <1>2, <2>1
<1>3. CASE h < d
  <2>1. NumericConversionWithSameSigness(r, d, unsigned, ov) =
           IF unsigned THEN ZeroExtend(r, d) ELSE SignExtend(r, d)
    BY <1>1, <1>3 DEF NumericConversionWithSameSigness
  <2> QED
    BY <1>3, <2>1, ExtensionsLegal
<1>4. CASE h > d
  <2>1. DOMAIN parts \in {{1}, {1, 2}} /\ \A i \in DOMAIN parts : parts[i] \in RangesOf(h)
    BY PartsLegal
  <2>2. NumericConversionWithSameSigness(r, d, unsigned, ov) = UnionOfParts(converted, PreferFromBool(unsigned))
    BY <1>1, <1>4 DEF NumericConversionWithSameSigness
  <2> HIDE DEF parts
  <2>3. DOMAIN converted = DOMAIN parts /\ \A i \in DOMAIN parts : converted[i] \in RangesOf(d)
    BY <1>4, <2>1, SameSignessInnerLegal
  <2> HIDE DEF converted
  <2> QED
    BY <2>1, <2>2, <2>3, UnionOfPartsLegal
<1> QED
  BY <1>2, <1>3, <1>4

\* Between an unsigned type and a signed one that is not larger.
LEMMA UnsignedToSignedLegal ==
  ASSUME NEW h \in Nat \ {0, 1}, NEW d \in Nat \ {0, 1}, NEW r \in RangesOf(h), NEW ov
  PROVE  NumericConversionU2S(r, d, ov) \in RangesOf(d)
<1> DEFINE parts == PartsOf(r, TRUE)
           converted == [i \in DOMAIN parts |-> NCU2SInner(parts[i], d, ov)]
<1>1. r.half = h
  BY HalfOfRange
<1>2. ASSUME NEW s \in RangesOf(h), d <= h
      PROVE  NCU2SInner(s, d, ov) \in RangesOf(d)
  <2> DEFINE dstMax == SMaxValue(d)
             unchanged == IntersectWith(AtMost(dstMax, TRUE, h), s, "Unsigned")
             saturated == UnionWith(unchanged, Single(dstMax, h), "Signed")
             narrow(q) == IF h > d THEN TruncWithUpperWrapped(q, FALSE, d) ELSE q
  <2>1. s.half = h
    BY HalfOfRange
  <2>2. dstMax \in SIntPatterns(h)
    BY <1>2 DEF SMaxValue, SIntPatterns
  <2> HIDE DEF dstMax
  <2>3. unchanged \in RangesOf(h)
    BY <2>2, FromLegal, SetsLegal DEF AtMost, Relations
  <2> HIDE DEF unchanged
  <2>4. saturated \in RangesOf(h)
    BY <2>2, <2>3, SingleLegal, SetsLegal
  <2> HIDE DEF saturated
  <2>5. \A q \in RangesOf(h) : narrow(q) \in RangesOf(d)
    <3>1. CASE h > d
      <4>1. \A q \in RangesOf(h) : TruncWithUpperWrapped(q, FALSE, d) \in RangesOf(d)
        BY <3>1, TruncWithUpperWrappedLegal
      <4> QED
        BY <3>1, <4>1
    <3>2. CASE ~(h > d)
      <4>1. h = d
        BY <1>2, <3>2
      <4>2. \A q : narrow(q) = q
        BY <3>2
      <4> QED
        BY <4>1, <4>2
    <3> QED
      BY <3>1, <3>2
  <2> HIDE DEF narrow
  <2>6. \/ NCU2SInner(s, d, ov) \in {Empty(d), Full(d), narrow(unchanged), narrow(saturated)}
        \/ NCU2SInner(s, d, ov) = s /\ h = d
    BY <2>1, Zenon DEF NCU2SInner, dstMax, unchanged, saturated, narrow
  <2> QED
    BY <2>3, <2>4, <2>5, <2>6, ExtremesLegal
<1>3. CASE d > h
  BY <1>1, <1>3, ExtensionsLegal DEF NumericConversionU2S
<1>4. CASE d <= h
  <2>1. DOMAIN parts \in {{1}, {1, 2}} /\ \A i \in DOMAIN parts : parts[i] \in RangesOf(h)
    BY PartsLegal
  <2>2. NumericConversionU2S(r, d, ov) = UnionOfParts(converted, "Signed")
    BY <1>1, <1>4 DEF NumericConversionU2S
  <2> HIDE DEF parts
  <2>3. DOMAIN converted = DOMAIN parts /\ \A i \in DOMAIN parts : converted[i] \in RangesOf(d)
    BY <1>2, <1>4, <2>1
  <2> HIDE DEF converted
  <2> QED
    BY <2>1, <2>2, <2>3, UnionOfPartsLegal
<1> QED
  BY <1>3, <1>4

\* The values of a range that are not negative, case by case: where a range has
\* them on both ends, all of them are taken.
LEMMA NonNegativeCases ==
  ASSUME NEW h \in Nat \ {0, 1}, NEW r \in RangesOf(h)
  PROVE  LET p == NonNegative(r)
         IN  \/ p = r /\ (IsEmptySet(r) \/ (r.lower < r.upper /\ r.upper <= h))
             \/ p = Interval(0, h, h) /\ (IsFullSet(r) \/ (r.lower > r.upper /\ r.upper > 0 /\ (h <= r.upper \/ r.lower < h)))
             \/ p = Empty(h) /\ h <= r.lower /\ (r.lower < r.upper \/ r.upper = 0)
             \/ p = Interval(r.lower, h, h) /\ r.lower < h /\ (h < r.upper \/ r.upper = 0)
             \/ p = Interval(0, r.upper, h) /\ h <= r.lower /\ 0 < r.upper /\ r.upper <= h
<1> DEFINE P == From("GE", 0, TRUE, h)
           p == IntersectWith(r, P, "Signed")
<1>0. Ends(r, h) /\ r.half = h /\ r = Interval(r.lower, r.upper, h)
  BY RangeEnds DEF Ends, RangesOf, Interval
<1>1. P = Interval(0, h, h)
  BY DEF From, SMinValue, SMaxValue, Succ, Plus
<1>2. /\ P \in RangesOf(h) /\ P.lower = 0 /\ P.upper = h /\ P.half = h /\ ~IsFullSet(P) /\ ~IsEmptySet(P)
      /\ ~IsUpperWrapped(P) /\ ~IsSignWrappedSet(P)
  <2> HIDE DEF P
  <2>1. 0 \in SIntPatterns(h) /\ h \in SIntPatterns(h) /\ 0 # h
    BY DEF SIntPatterns
  <2>2. P \in RangesOf(h)
    BY <1>1, <2>1, IntervalLegal
  <2>3. P.lower = 0 /\ P.upper = h /\ P.half = h
    BY <1>1 DEF Interval
  <2> QED
    BY <2>2, <2>3 DEF IsFullSet, IsEmptySet, UMaxValue, IsUpperWrapped, IsSignWrappedSet, Slt, SVal, IsNeg, SMinValue
<1> HIDE DEF P
<1>3. \/ p = r /\ (IsEmptySet(r) \/ (r.lower < r.upper /\ r.upper <= h))
      \/ p = P /\ (IsFullSet(r) \/ (r.lower > r.upper /\ r.upper > 0 /\ (h <= r.upper \/ r.lower < h)))
      \/ p = Empty(h) /\ h <= r.lower /\ (r.lower < r.upper \/ r.upper = 0)
      \/ p = Interval(r.lower, h, h) /\ r.lower < h /\ (h < r.upper \/ r.upper = 0)
      \/ p = Interval(0, r.upper, h) /\ h <= r.lower /\ 0 < r.upper /\ r.upper <= h
  <2>1. CASE IsFullSet(r)
    <3>1. p = P
      <4>1. ~IsEmptySet(r)
        BY <1>0, <2>1 DEF IsFullSet, IsEmptySet, UMaxValue, Ends
      <4> QED
        BY <1>2, <2>1, <4>1 DEF IntersectWith
    <3> QED
      BY <2>1, <3>1
  <2>2. CASE ~IsFullSet(r) /\ ~IsEmptySet(r) /\ r.lower > r.upper
    <3>1. p = IntersectWrappedWithUnwrapped(r, P, "Signed")
      BY <1>0, <1>2, <2>2 DEF IntersectWith, IsUpperWrapped, Ends
    <3>2. r.lower < h /\ 0 < r.upper => GetPreferredRange(r, P, "Signed") = P
      <4> SUFFICES ASSUME r.lower < h, 0 < r.upper
                   PROVE  GetPreferredRange(r, P, "Signed") = P
        OBVIOUS
      <4>1. IsSignWrappedSet(r) <=> r.lower > r.upper /\ r.upper # h
        BY <1>0, <2>2 DEF IsSignWrappedSet, Slt, SVal, IsNeg, SMinValue, Ends
      <4>2. IsSignWrappedSet(r)
        BY <1>0, <2>2, <4>1 DEF Ends
      <4> QED
        BY <1>2, <4>2, Zenon DEF GetPreferredRange
    <3>3. p = IF 0 < r.upper
              THEN IF h < r.upper THEN P
                   ELSE IF h <= r.lower THEN Interval(0, r.upper, h) ELSE P
              ELSE IF h <= r.lower THEN Empty(h) ELSE Interval(r.lower, h, h)
      BY <1>0, <1>2, <2>2, <3>1, <3>2 DEF IntersectWrappedWithUnwrapped, Ends
    <3> QED
      BY <1>0, <2>2, <3>3 DEF Ends
  <2>3. CASE ~IsFullSet(r) /\ ~IsEmptySet(r) /\ ~(r.lower > r.upper)
    <3>1. p = IntersectBothUnwrapped(r, P)
      BY <1>0, <1>2, <2>3 DEF IntersectWith, IsUpperWrapped, Ends
    <3>2. r.lower < r.upper
      BY <2>3, WrapTests DEF IsUpperWrapped
    <3> QED
      BY <1>0, <1>1, <1>2, <3>1, <3>2 DEF Ends, IntersectBothUnwrapped
  <2>4. CASE IsEmptySet(r)
    <3>1. p = r
      BY <2>4 DEF IntersectWith
    <3> QED
      BY <2>4, <3>1
  <2> QED
    BY <2>1, <2>2, <2>3, <2>4
<1>4. NonNegative(r) = p
  BY <1>0 DEF NonNegative, AtLeast, P
<1> QED
  BY <1>1, <1>3, <1>4

\* The values of a range that are not negative; the others, if there are any,
\* are negative from the first to the last.
LEMMA NegativesLeft ==
  ASSUME NEW h \in Nat \ {0, 1}, NEW r \in RangesOf(h), ~IsEmptySet(r), NonNegative(r) # r
  PROVE  LET n == Difference(r, NonNegative(r))
         IN  n \in RangesOf(h) /\ h <= n.lower /\ n.lower <= Pred(n.upper, h) /\ Pred(n.upper, h) \in SIntPatterns(h)
<1> DEFINE P == From("GE", 0, TRUE, h)
           p == IntersectWith(r, P, "Signed")
           n == IntersectWith(r, Inverse(p), "Smallest")
<1>0. Ends(r, h) /\ r.half = h /\ r = Interval(r.lower, r.upper, h)
  BY RangeEnds DEF Ends, RangesOf, Interval
<1>1. P = Interval(0, h, h)
  BY DEF From, SMinValue, SMaxValue, Succ, Plus
<1>2. /\ P \in RangesOf(h) /\ P.lower = 0 /\ P.upper = h /\ P.half = h /\ ~IsFullSet(P) /\ ~IsEmptySet(P)
      /\ ~IsUpperWrapped(P) /\ ~IsSignWrappedSet(P)
  <2> HIDE DEF P
  <2>1. 0 \in SIntPatterns(h) /\ h \in SIntPatterns(h) /\ 0 # h
    BY DEF SIntPatterns
  <2>2. P \in RangesOf(h)
    BY <1>1, <2>1, IntervalLegal
  <2>3. P.lower = 0 /\ P.upper = h /\ P.half = h
    BY <1>1 DEF Interval
  <2> QED
    BY <2>2, <2>3 DEF IsFullSet, IsEmptySet, UMaxValue, IsUpperWrapped, IsSignWrappedSet, Slt, SVal, IsNeg, SMinValue
<1> HIDE DEF P
<1>3. \/ p = P /\ (IsFullSet(r) \/ (r.lower > r.upper /\ r.upper > 0 /\ (h <= r.upper \/ r.lower < h)))
      \/ p = Empty(h) /\ h <= r.lower /\ (r.lower < r.upper \/ r.upper = 0)
      \/ p = Interval(r.lower, h, h) /\ r.lower < h /\ (h < r.upper \/ r.upper = 0)
      \/ p = Interval(0, r.upper, h) /\ h <= r.lower /\ 0 < r.upper /\ r.upper <= h
  <2>1. p = NonNegative(r) /\ p # r
    BY <1>0 DEF NonNegative, AtLeast, P
  <2> HIDE DEF p
  <2> QED
    BY <1>1, <2>1, NonNegativeCases
<1>4. p \in RangesOf(h)
  BY <1>2, SetsLegal
<1>5. Inverse(p) \in RangesOf(h)
  BY <1>4, InverseExact
<1>6. n \in RangesOf(h)
  BY <1>5, SetsLegal
<1> HIDE DEF p
<1>7. h \in SIntPatterns(h) /\ 0 \in SIntPatterns(h) /\ 2 * h - 1 \in SIntPatterns(h)
  BY DEF SIntPatterns
<1>8. h <= n.lower /\ n.lower <= Pred(n.upper, h) /\ Pred(n.upper, h) \in SIntPatterns(h)
  <2>1. CASE p = P /\ (IsFullSet(r) \/ (r.lower > r.upper /\ r.upper > 0 /\ (h <= r.upper \/ r.lower < h)))
    <3>1. Inverse(p) = Interval(SMinValue(h), 0, h)
      BY <1>2, <2>1 DEF Inverse, SMinValue
    <3>2. Contains(r, 2 * h - 1) /\ Contains(Inverse(p), 2 * h - 1)
      BY <1>0, <1>5, <1>7, <2>1, <3>1, ContainsIsWithin DEF Ends, Within, IsFullSet, UMaxValue, Interval, SMinValue
    <3>3. Contains(n, 2 * h - 1)
      BY <1>5, <1>7, <3>2, IntersectionCovers
    <3>4. ~IsEmptySet(n)
      BY <1>6, <1>7, <3>3, EmptyContainsNothing
    <3> QED
      BY <3>1, <3>4, NegativePart
  <2>2. CASE p = Empty(h) /\ h <= r.lower /\ (r.lower < r.upper \/ r.upper = 0)
    <3>1. IsEmptySet(p) /\ ~IsFullSet(p) /\ p.half = h
      BY <2>2 DEF Empty, Interval, IsEmptySet, IsFullSet, UMaxValue
    <3>2. Inverse(p) = Full(h)
      BY <3>1 DEF Inverse, IsEmptySet
    <3>3. IsFullSet(Full(h))
      BY DEF Full, Interval, IsFullSet
    <3>4. n = r
      BY <3>2, <3>3 DEF IntersectWith
    <3> HIDE DEF n
    <3> QED
      BY <1>0, <2>2, <3>4 DEF Ends, Pred, Minus, SIntPatterns
  <2>3. CASE p = Interval(r.lower, h, h) /\ r.lower < h /\ (h < r.upper \/ r.upper = 0)
    <3>1. Inverse(p) = Interval(h, r.lower, h)
      BY <1>0, <2>3 DEF Ends, Inverse, Interval, IsFullSet, IsEmptySet, UMaxValue
    <3>2. r.upper = 0 => r.lower > 0
      BY <1>0 DEF Ends, IsEmptySet
    <3> DEFINE q == Interval(h, r.lower, h)
    <3>3. /\ q.lower = h /\ q.upper = r.lower /\ q.half = h
          /\ ~IsEmptySet(q) /\ ~IsFullSet(q) /\ IsUpperWrapped(q) /\ ~IsFullSet(r)
      BY <1>0, <2>3 DEF Ends, Interval, IsEmptySet, IsFullSet, UMaxValue, IsUpperWrapped
    <3> HIDE DEF q
    <3>4. n = Interval(h, r.upper, h)
      <4>1. CASE r.upper = 0
        <5>1. n = IntersectBothWrapped(r, q, "Smallest")
          BY <1>0, <3>1, <3>2, <3>3, <4>1 DEF IntersectWith, IsUpperWrapped, q
        <5> QED
          BY <1>0, <2>3, <3>2, <3>3, <4>1, <5>1 DEF Ends, IntersectBothWrapped
      <4>2. CASE h < r.upper
        <5>1. n = IntersectWrappedWithUnwrapped(q, r, "Smallest")
          BY <1>0, <2>3, <3>1, <3>3, <4>2 DEF IntersectWith, IsUpperWrapped, q, Ends
        <5> QED
          BY <1>0, <2>3, <3>3, <4>2, <5>1 DEF Ends, IntersectWrappedWithUnwrapped
      <4> QED
        BY <2>3, <4>1, <4>2
    <3>5. n.lower = h /\ n.upper = r.upper
      BY <3>4 DEF Interval
    <3> HIDE DEF n
    <3> QED
      BY <1>0, <2>3, <3>5 DEF Ends, Pred, Minus, SIntPatterns
  <2>4. CASE p = Interval(0, r.upper, h) /\ h <= r.lower /\ 0 < r.upper /\ r.upper <= h
    <3>1. Inverse(p) = Interval(r.upper, 0, h)
      BY <1>0, <2>4 DEF Ends, Inverse, Interval, IsFullSet, IsEmptySet, UMaxValue
    <3> DEFINE q == Interval(r.upper, 0, h)
    <3>2. /\ q.lower = r.upper /\ q.upper = 0 /\ q.half = h
          /\ ~IsEmptySet(q) /\ ~IsFullSet(q) /\ IsUpperWrapped(q) /\ ~IsFullSet(r)
      BY <1>0, <2>4 DEF Ends, Interval, IsEmptySet, IsFullSet, UMaxValue, IsUpperWrapped
    <3> HIDE DEF q
    <3>3. n = Interval(r.lower, 0, h)
      <4>1. r.lower # r.upper
        BY <3>2, NeitherFullNorEmpty
      <4>2. n = IntersectBothWrapped(r, q, "Smallest")
        BY <1>0, <2>4, <3>1, <3>2, <4>1 DEF IntersectWith, IsUpperWrapped, q, Ends
      <4> QED
        BY <1>0, <2>4, <3>2, <4>1, <4>2 DEF Ends, IntersectBothWrapped
    <3>4. n.lower = r.lower /\ n.upper = 0
      BY <3>3 DEF Interval
    <3> HIDE DEF n
    <3> QED
      BY <1>0, <2>4, <3>4 DEF Ends, Pred, Minus, SIntPatterns
  <2> HIDE DEF n
  <2> QED
    BY <1>3, <2>1, <2>2, <2>3, <2>4
<1>9. NonNegative(r) = p
  BY <1>0 DEF NonNegative, AtLeast, p, P
<1> QED
  BY <1>6, <1>8, <1>9 DEF Difference

\* Signed to unsigned, a part to a smaller width.
LEMMA SignedTruncLegal ==
  ASSUME NEW h \in Nat \ {0, 1}, NEW d \in Nat \ {0, 1}, d < h, NEW r \in RangesOf(h), NEW ov
  PROVE  NCS2UInnerTrunc(r, d, ov) \in RangesOf(d)
<1> DEFINE greatest == UMaxValue(d)
           nonNeg == NonNegative(r)
           unchanged == IntersectWith(nonNeg, AtMost(greatest, FALSE, h), "Smallest")
           withZero == WithEnd(unchanged, ~IsEmptySet(Difference(r, nonNeg)), Single(0, h), "Unsigned")
           withGreatest == WithEnd(withZero, unchanged # nonNeg, Single(greatest, h), "Unsigned")
           exact == unchanged = r \/ ov = "THROWING"
<1>1. r.half = h
  BY HalfOfRange
<1>2. 0 \in SIntPatterns(h) /\ greatest \in SIntPatterns(h)
  BY DEF UMaxValue, SIntPatterns
<1> HIDE DEF greatest
<1>3. nonNeg \in RangesOf(h)
  BY <1>1, <1>2, FromLegal, SetsLegal DEF NonNegative, AtLeast, Relations
<1> HIDE DEF nonNeg
<1>4. unchanged \in RangesOf(h)
  BY <1>2, <1>3, FromLegal, SetsLegal DEF AtMost, Relations
<1> HIDE DEF unchanged
<1>5. withZero \in RangesOf(h)
  BY <1>2, <1>4, WithEndLegal
<1> HIDE DEF withZero
<1>6. withGreatest \in RangesOf(h)
  BY <1>2, <1>5, WithEndLegal
<1> HIDE DEF withGreatest
<1>7. /\ TruncWithUpperWrapped(unchanged, TRUE, d) \in RangesOf(d)
      /\ TruncWithUpperWrapped(withGreatest, TRUE, d) \in RangesOf(d)
  BY <1>4, <1>6, TruncWithUpperWrappedLegal
<1>8. NCS2UInnerTrunc(r, d, ov) =
         IF IsEmptySet(r) THEN Empty(d)
         ELSE IF ~exact /\ ov = "WRAPPING" THEN Full(d)
         ELSE TruncWithUpperWrapped(IF exact THEN unchanged ELSE withGreatest, TRUE, d)
  BY <1>1, Zenon DEF NCS2UInnerTrunc, greatest, nonNeg, unchanged, withZero, withGreatest
<1> HIDE DEF exact
<1> QED
  BY <1>7, <1>8, ExtremesLegal

\* Signed to unsigned, to a width that is not smaller.
LEMMA SignedExtendLegal ==
  ASSUME NEW h \in Nat \ {0, 1}, NEW d \in Nat \ {0, 1}, h <= d, NEW r \in RangesOf(h), NEW ov
  PROVE  NCS2UInnerExtend(r, d, ov) \in RangesOf(d)
<1> DEFINE nonNeg == NonNegative(r)
           neg == Difference(r, nonNeg)
           extend(s) == IF h = d THEN s ELSE ZeroExtend(s, d)
           saturated == WithEnd(nonNeg, ~IsEmptySet(neg), Single(0, h), "Smallest")
           lo == SExt(SMinOf(neg), h, d)
           up == Succ(SExt(SMaxOf(neg), h, d), d)
<1>1. r.half = h
  BY HalfOfRange
<1>2. 0 \in SIntPatterns(h)
  BY DEF SIntPatterns
<1>3. nonNeg \in RangesOf(h)
  BY <1>1, <1>2, FromLegal, SetsLegal DEF NonNegative, AtLeast, Relations
<1> HIDE DEF nonNeg
<1>4. saturated \in RangesOf(h)
  BY <1>2, <1>3, WithEndLegal
<1> HIDE DEF saturated
<1>5. \A s \in RangesOf(h) : extend(s) \in RangesOf(d)
  <2>1. CASE h < d
    <3>1. \A s \in RangesOf(h) : ZeroExtend(s, d) \in RangesOf(d)
      BY <2>1, ExtensionsLegal
    <3> QED
      BY <2>1, <3>1
  <2>2. CASE h = d
    <3>1. \A s : extend(s) = s
      BY <2>2
    <3> QED
      BY <2>2, <3>1
  <2> QED
    BY <2>1, <2>2
<1> HIDE DEF extend
<1>6. ASSUME ~IsEmptySet(r), nonNeg # r
      PROVE  Interval(lo, up, d) \in RangesOf(d)
  <2>1. /\ neg \in RangesOf(h) /\ h <= neg.lower /\ neg.lower <= Pred(neg.upper, h)
        /\ Pred(neg.upper, h) \in SIntPatterns(h)
    BY <1>6, NegativesLeft DEF nonNeg
  <2> HIDE DEF neg
  <2>2. Ends(neg, h)
    BY <2>1, RangeEnds
  <2>3. SMinOf(neg) = neg.lower /\ SMaxOf(neg) = Pred(neg.upper, h)
    BY <2>1, <2>2 DEF Ends, SMinOf, SMaxOf, IsFullSet, IsSignWrappedSet, IsUpperSignWrapped, Slt, SVal, IsNeg,
                      UMaxValue, SMinValue, SMaxValue, Pred, Minus, SIntPatterns
  <2>4. lo \in SIntPatterns(d) /\ up \in SIntPatterns(d) /\ lo # up
    BY <2>1, <2>2, <2>3 DEF Ends, SExt, IsNeg, Succ, Plus, SIntPatterns
  <2> HIDE DEF lo, up
  <2> QED
    BY <2>4, IntervalLegal
<1>7. extend(nonNeg) \in RangesOf(d) /\ extend(saturated) \in RangesOf(d)
  BY <1>3, <1>4, <1>5
<1>8. ~IsEmptySet(r) /\ nonNeg # r => UnionWith(Interval(lo, up, d), extend(nonNeg), "Unsigned") \in RangesOf(d)
  BY <1>6, <1>7, SetsLegal
<1>9. NCS2UInnerExtend(r, d, ov) =
         IF IsEmptySet(r) THEN Empty(d)
         ELSE IF nonNeg = r \/ ov = "THROWING" THEN extend(nonNeg)
         ELSE IF ov = "SATURATING" THEN extend(saturated)
         ELSE UnionWith(Interval(lo, up, d), extend(nonNeg), "Unsigned")
  BY <1>1, Zenon DEF NCS2UInnerExtend, nonNeg, extend, saturated
<1> HIDE DEF lo, up
<1> QED
  BY <1>7, <1>8, <1>9, ExtremesLegal

\* ConstantRange::NumericConversion: every conversion of a legal range is a
\* legal range of the width it goes to.
LEMMA ConversionLegal ==
  ASSUME NEW h \in Nat \ {0, 1}, NEW d \in Nat \ {0, 1}, NEW r \in RangesOf(h),
         NEW srcUnsigned \in BOOLEAN, NEW dstUnsigned \in BOOLEAN, NEW ov
  PROVE  NumericConversion(r, d, srcUnsigned, dstUnsigned, ov) \in RangesOf(d)
<1> DEFINE parts == PartsOf(r, FALSE)
           converted == [i \in DOMAIN parts |-> NCS2UInnerTrunc(parts[i], d, ov)]
<1>1. r.half = h
  BY HalfOfRange
<1>2. NumericConversionS2U(r, d, ov) \in RangesOf(d)
  <2>1. CASE d >= h
    BY <1>1, <2>1, SignedExtendLegal DEF NumericConversionS2U
  <2>2. CASE d < h
    <3>1. DOMAIN parts \in {{1}, {1, 2}} /\ \A i \in DOMAIN parts : parts[i] \in RangesOf(h)
      BY PartsLegal
    <3>2. NumericConversionS2U(r, d, ov) = UnionOfParts(converted, "Unsigned")
      BY <1>1, <2>2 DEF NumericConversionS2U
    <3> HIDE DEF parts
    <3>3. DOMAIN converted = DOMAIN parts /\ \A i \in DOMAIN parts : converted[i] \in RangesOf(d)
      BY <2>2, <3>1, SignedTruncLegal
    <3> HIDE DEF converted
    <3> QED
      BY <3>1, <3>2, <3>3, UnionOfPartsLegal
  <2> QED
    BY <2>1, <2>2
<1>3. CASE srcUnsigned = dstUnsigned
  <2>1. NumericConversion(r, d, srcUnsigned, dstUnsigned, ov) =
           NumericConversionWithSameSigness(r, d, srcUnsigned, ov)
    BY <1>3, Zenon DEF NumericConversion
  <2> QED
    BY <2>1, SameSignessLegal
<1>4. CASE srcUnsigned = TRUE /\ dstUnsigned = FALSE
  <2>1. NumericConversion(r, d, srcUnsigned, dstUnsigned, ov) = NumericConversionU2S(r, d, ov)
    BY <1>4, Zenon DEF NumericConversion
  <2> QED
    BY <2>1, UnsignedToSignedLegal
<1>5. CASE srcUnsigned = FALSE /\ dstUnsigned = TRUE
  <2>1. NumericConversion(r, d, srcUnsigned, dstUnsigned, ov) = NumericConversionS2U(r, d, ov)
    BY <1>5, Zenon DEF NumericConversion
  <2> QED
    BY <1>2, <2>1
<1> QED
  BY <1>3, <1>4, <1>5

-----------------------------------------------------------------------------
(* The bits of a number.                                                    *)

\* Strong induction, for sets of numbers.
LEMMA NumbersByInduction ==
  ASSUME NEW S, \A n \in Nat : (\A m \in 0 .. n - 1 : m \in S) => n \in S
  PROVE  \A n \in Nat : n \in S
<1> SUFFICES ASSUME NEW n \in Nat, n \notin S
             PROVE  FALSE
  OBVIOUS
<1> DEFINE T == {m \in Nat : m \notin S}
<1>1. T \subseteq Nat /\ T # {}
  OBVIOUS
<1>2. PICK m \in T : \A k \in T : <<k, m>> \notin OpToRel(<, Nat)
  BY <1>1, NatLessThanWellFounded, WFMin
<1>3. \A k \in 0 .. m - 1 : k \in S
  <2> SUFFICES ASSUME NEW k \in 0 .. m - 1, k \notin S
               PROVE  FALSE
    OBVIOUS
  <2>1. k \in T /\ m \in Nat /\ k < m
    OBVIOUS
  <2> QED
    BY <1>2, <2>1 DEF OpToRel
<1> QED
  BY <1>3

\* f counts the bits of the numbers up to a.
CountsBits(f, a) == f = [n \in 0 .. a |-> IF n = 0 THEN 0 ELSE 1 + f[n \div 2]]

\* Half of a number is smaller.
LEMMA HalfIsSmaller ==
  ASSUME NEW n \in Nat \ {0}
  PROVE  n \div 2 \in 0 .. n - 1
OBVIOUS

\* There is such a function.
LEMMA BitsCounted ==
  ASSUME NEW a \in Nat
  PROVE  \E f : CountsBits(f, a)
<1> DEFINE S == {n \in Nat : \E f : CountsBits(f, n)}
<1>1. ASSUME NEW n \in Nat, \A m \in 0 .. n - 1 : m \in S
      PROVE  n \in S
  <2>1. CASE n = 0
    <3> DEFINE f == [k \in 0 .. 0 |-> 0]
    <3>1. CountsBits(f, 0)
      BY DEF CountsBits
    <3> QED
      BY <2>1, <3>1
  <2>2. CASE n # 0
    <3>1. n - 1 \in 0 .. n - 1
      BY <2>2
    <3>2. PICK f : CountsBits(f, n - 1)
      BY <1>1, <3>1
    <3> DEFINE g == [k \in 0 .. n |-> IF k = n THEN 1 + f[n \div 2] ELSE f[k]]
    <3>3. ASSUME NEW k \in 0 .. n
          PROVE  g[k] = IF k = 0 THEN 0 ELSE 1 + g[k \div 2]
      <4>1. CASE k = 0
        BY <2>2, <3>2, <4>1 DEF CountsBits
      <4>2. CASE k # 0
        <5>1. k \div 2 \in 0 .. k - 1
          BY <4>2, HalfIsSmaller
        <5>2. k \div 2 \in 0 .. n - 1 /\ k \div 2 # n
          BY <5>1
        <5>3. g[k \div 2] = f[k \div 2]
          BY <5>2
        <5>4. k # n => f[k] = 1 + f[k \div 2]
          BY <3>2, <4>2 DEF CountsBits
        <5> QED
          BY <4>2, <5>3, <5>4
      <4> QED
        BY <4>1, <4>2
    <3> HIDE DEF g
    <3>4. DOMAIN g = 0 .. n /\ g = [k \in 0 .. n |-> g[k]]
      BY DEF g
    <3>5. CountsBits(g, n)
      BY <3>3, <3>4 DEF CountsBits
    <3> QED
      BY <3>5
  <2> QED
    BY <2>1, <2>2
<1> HIDE DEF S
<1>2. a \in S
  BY <1>1, NumbersByInduction
<1> QED
  BY <1>2 DEF S

\* Two such functions agree where both are defined, on numbers.
LEMMA BitsAgree ==
  ASSUME NEW a \in Nat, NEW b \in Nat, NEW f, NEW g, CountsBits(f, a), CountsBits(g, b),
         NEW n \in Nat, n <= a, n <= b
  PROVE  f[n] = g[n] /\ f[n] \in Nat
<1> DEFINE S == {k \in Nat : k <= a /\ k <= b => f[k] = g[k] /\ f[k] \in Nat}
<1>1. ASSUME NEW k \in Nat, \A m \in 0 .. k - 1 : m \in S
      PROVE  k \in S
  <2> SUFFICES ASSUME k <= a, k <= b
               PROVE  f[k] = g[k] /\ f[k] \in Nat
    OBVIOUS
  <2>1. k \in 0 .. a /\ k \in 0 .. b
    OBVIOUS
  <2>2. /\ f[k] = IF k = 0 THEN 0 ELSE 1 + f[k \div 2]
        /\ g[k] = IF k = 0 THEN 0 ELSE 1 + g[k \div 2]
    BY <2>1 DEF CountsBits
  <2>3. CASE k # 0
    <3>1. k \div 2 \in 0 .. k - 1
      BY <2>3, HalfIsSmaller
    <3>2. f[k \div 2] = g[k \div 2] /\ f[k \div 2] \in Nat
      BY <1>1, <3>1
    <3> QED
      BY <2>2, <2>3, <3>2
  <2> QED
    BY <2>2, <2>3
<1> HIDE DEF S
<1>2. n \in S
  BY <1>1, NumbersByInduction
<1> QED
  BY <1>2 DEF S

\* The number of bits: one more than that of the half.
LEMMA BitsFact ==
  ASSUME NEW a \in Nat
  PROVE  ActiveBits(a) \in Nat /\ ActiveBits(a) = IF a = 0 THEN 0 ELSE 1 + ActiveBits(a \div 2)
<1> DEFINE F(n) == CHOOSE f : CountsBits(f, n)
<1>1. \A n \in Nat : CountsBits(F(n), n)
  BY BitsCounted
<1>2. \A n \in Nat : ActiveBits(n) = F(n)[n]
  BY DEF ActiveBits, CountsBits
<1> HIDE DEF F
<1>3. ActiveBits(a) \in Nat
  BY <1>1, <1>2, BitsAgree
<1>4. ActiveBits(a) = IF a = 0 THEN 0 ELSE 1 + F(a)[a \div 2]
  BY <1>1, <1>2 DEF CountsBits
<1>5. CASE a # 0
  <2>1. a \div 2 \in Nat /\ a \div 2 <= a
    BY <1>5, HalfIsSmaller
  <2>2. F(a)[a \div 2] = F(a \div 2)[a \div 2]
    BY <1>1, <2>1, BitsAgree
  <2> QED
    BY <1>2, <1>3, <1>4, <1>5, <2>1, <2>2
<1> QED
  BY <1>3, <1>4, <1>5

\* p is the power of two above the numbers of n bits.
IsPower(n, p) == p \in Nat \ {0} /\ \A a \in Nat : a < p <=> ActiveBits(a) <= n

\* The first power is one, each is twice the one before, and they grow.
LEMMA PowersFact ==
  ASSUME NEW n \in Nat
  PROVE  /\ IsPower(0, 1)
         /\ \A p \in Nat : IsPower(n, p) => IsPower(n + 1, 2 * p)
         /\ \A p, q \in Nat : IsPower(n, p) /\ IsPower(n, q) => p = q
         /\ \A m \in Nat, p, q \in Nat : IsPower(n, p) /\ IsPower(m, q) /\ n <= m => p <= q
<1>1. \A a \in Nat : ActiveBits(a) \in Nat
  BY BitsFact
<1>2. IsPower(0, 1)
  <2> SUFFICES ASSUME NEW a \in Nat
               PROVE  a < 1 <=> ActiveBits(a) <= 0
    BY DEF IsPower
  <2>1. a # 0 => a \div 2 \in Nat
    BY HalfIsSmaller
  <2> QED
    BY <2>1, <1>1, BitsFact
<1>3. ASSUME NEW p \in Nat, IsPower(n, p)
      PROVE  IsPower(n + 1, 2 * p)
  <2> SUFFICES ASSUME NEW a \in Nat
               PROVE  a < 2 * p <=> ActiveBits(a) <= n + 1
    BY <1>3 DEF IsPower
  <2>1. CASE a = 0
    BY <2>1, <1>3, BitsFact DEF IsPower
  <2>2. CASE a # 0
    <3>1. a \div 2 \in Nat /\ (a < 2 * p <=> a \div 2 < p)
      OBVIOUS
    <3>2. ActiveBits(a) = 1 + ActiveBits(a \div 2)
      BY <2>2, BitsFact
    <3>3. a \div 2 < p <=> ActiveBits(a \div 2) <= n
      BY <1>3, <3>1 DEF IsPower
    <3> QED
      BY <1>1, <3>1, <3>2, <3>3
  <2> QED
    BY <2>1, <2>2
<1>4. ASSUME NEW m \in Nat, NEW p \in Nat, NEW q \in Nat, IsPower(n, p), IsPower(m, q), n <= m
      PROVE  p <= q
  <2>1. p - 1 \in Nat /\ p - 1 < p
    BY <1>4 DEF IsPower
  <2>2. ActiveBits(p - 1) <= n
    BY <1>4, <2>1 DEF IsPower
  <2>3. ActiveBits(p - 1) <= m
    BY <1>1, <1>4, <2>1, <2>2
  <2>4. p - 1 < q
    BY <1>4, <2>1, <2>3 DEF IsPower
  <2> QED
    BY <2>4
<1>5. ASSUME NEW p \in Nat, NEW q \in Nat, IsPower(n, p), IsPower(n, q)
      PROVE  p = q
  <2>1. p <= q /\ q <= p
    BY <1>4, <1>5
  <2> QED
    BY <2>1
<1> QED
  BY <1>2, <1>3, <1>4, <1>5

\* Every power exists, and powers multiply.
LEMMA PowersMultiply ==
  ASSUME NEW n \in Nat
  PROVE  /\ \E p \in Nat : IsPower(n, p)
         /\ \A m \in Nat, p, q \in Nat : IsPower(n, p) /\ IsPower(m, q) => IsPower(n + m, p * q)
<1> DEFINE S == {k \in Nat :
                   /\ \E p \in Nat : IsPower(k, p)
                   /\ \A m \in Nat, p, q \in Nat : IsPower(k, p) /\ IsPower(m, q) => IsPower(k + m, p * q)}
<1>1. ASSUME NEW k \in Nat, \A m \in 0 .. k - 1 : m \in S
      PROVE  k \in S
  <2>1. CASE k = 0
    <3>1. IsPower(0, 1) /\ \A p \in Nat : IsPower(0, p) => p = 1
      BY PowersFact
    <3>2. ASSUME NEW m \in Nat, NEW p \in Nat, NEW q \in Nat, IsPower(0, p), IsPower(m, q)
          PROVE  IsPower(0 + m, p * q)
      <4>1. 0 + m = m /\ p * q = q
        BY <3>1, <3>2
      <4> QED
        BY <3>2, <4>1
    <3> QED
      BY <2>1, <3>1, <3>2
  <2>2. CASE k # 0
    <3> DEFINE j == k - 1
    <3>1. j \in Nat /\ j \in 0 .. k - 1 /\ j + 1 = k
      BY <2>2
    <3> HIDE DEF j
    <3>2. j \in S
      BY <1>1, <3>1
    <3>3. PICK r \in Nat : IsPower(j, r)
      BY <3>2
    <3>4. IsPower(k, 2 * r)
      BY <3>1, <3>3, PowersFact
    <3>5. ASSUME NEW m \in Nat, NEW p \in Nat, NEW q \in Nat, IsPower(k, p), IsPower(m, q)
          PROVE  IsPower(k + m, p * q)
      <4>1. p = 2 * r
        BY <3>4, <3>5, PowersFact
      <4>2. IsPower(j + m, r * q) /\ r * q \in Nat /\ j + m \in Nat
        BY <3>1, <3>2, <3>3, <3>5
      <4>3. IsPower(j + m + 1, 2 * (r * q))
        BY <4>2, PowersFact
      <4>4. j + m + 1 = k + m /\ 2 * (r * q) = p * q
        BY <3>1, <4>1
      <4> QED
        BY <4>3, <4>4
    <3>6. 2 * r \in Nat
      OBVIOUS
    <3> QED
      BY <3>4, <3>5, <3>6
  <2> QED
    BY <2>1, <2>2
<1> HIDE DEF S
<1>2. n \in S
  BY <1>1, NumbersByInduction
<1> QED
  BY <1>2 DEF S

\* Products of naturals grow with their factors.
LEMMA ProductsGrow ==
  ASSUME NEW a \in Nat, NEW b \in Nat, NEW p \in Nat, NEW q \in Nat, a <= p, b <= q
  PROVE  a * b <= p * q /\ a * b \in Nat /\ p * q \in Nat
<1>1. (p - a) * b >= 0 /\ p * (q - b) >= 0
  OBVIOUS
<1>2. (p - a) * b = p * b - a * b /\ p * (q - b) = p * q - p * b
  OBVIOUS
<1>3. a * b \in Nat /\ p * q \in Nat /\ p * b \in Nat
  OBVIOUS
<1> QED
  BY <1>1, <1>2, <1>3

\* Two numbers with no more bits than h and one more have a product below 4 * h.
LEMMA BitsBoundProduct ==
  ASSUME NEW a \in Nat, NEW b \in Nat, NEW h \in Nat \ {0},
         ActiveBits(a) + ActiveBits(b) <= ActiveBits(h) + 1
  PROVE  a * b < 4 * h
<1>1. ActiveBits(a) \in Nat /\ ActiveBits(b) \in Nat /\ ActiveBits(h) \in Nat /\ ActiveBits(h) >= 1
  BY BitsFact, HalfIsSmaller
<1> DEFINE n == ActiveBits(h) - 1
<1>2. n \in Nat /\ ActiveBits(h) = n + 1
  BY <1>1
<1>3. PICK p \in Nat : IsPower(ActiveBits(a), p)
  BY <1>1, PowersMultiply
<1>4. PICK q \in Nat : IsPower(ActiveBits(b), q)
  BY <1>1, PowersMultiply
<1>5. PICK r \in Nat : IsPower(n, r)
  BY <1>2, PowersMultiply
<1> HIDE DEF n
<1>6. a < p /\ b < q
  BY <1>1, <1>3, <1>4 DEF IsPower
<1>7. r <= h
  BY <1>2, <1>5 DEF IsPower
<1>8. IsPower(n + 1, 2 * r) /\ IsPower(n + 2, 4 * r)
  <2>1. IsPower(n + 1, 2 * r) /\ n + 1 \in Nat /\ 2 * r \in Nat
    BY <1>2, <1>5, PowersFact
  <2>2. IsPower(n + 1 + 1, 2 * (2 * r))
    BY <2>1, PowersFact
  <2>3. n + 1 + 1 = n + 2 /\ 2 * (2 * r) = 4 * r
    BY <1>2
  <2> QED
    BY <2>1, <2>2, <2>3
<1>9. IsPower(ActiveBits(a) + ActiveBits(b), p * q) /\ p * q \in Nat
  <2>1. \A n1 \in Nat, m \in Nat, p1, q1 \in Nat :
           IsPower(n1, p1) /\ IsPower(m, q1) => IsPower(n1 + m, p1 * q1)
    BY PowersMultiply
  <2>2. IsPower(ActiveBits(a) + ActiveBits(b), p * q)
    BY <1>1, <1>3, <1>4, <2>1, Zenon
  <2> QED
    BY <2>2
<1>10. p * q <= 4 * r
  <2>1. ActiveBits(a) + ActiveBits(b) \in Nat /\ n + 2 \in Nat /\ 4 * r \in Nat
        /\ ActiveBits(a) + ActiveBits(b) <= n + 2
    BY <1>1, <1>2
  <2> QED
    BY <1>8, <1>9, <2>1, PowersFact
<1>11. a * b <= (p - 1) * q /\ (p - 1) * q = p * q - q /\ a * b \in Nat
  BY <1>6, ProductsGrow
<1> QED
  BY <1>6, <1>7, <1>9, <1>10, <1>11

\* SInt::UMulOvf reports every product of patterns that is no pattern.
LEMMA UMulOvfFinds ==
  ASSUME NEW h \in Nat \ {0, 1}, NEW a \in SIntPatterns(h), NEW b \in SIntPatterns(h),
         ~UMulOvf(a, b, h)
  PROVE  a * b < 2 * h
<1> DEFINE k == a \div 2
           half == Times(k, b, h)
<1>1. a \in Nat /\ b \in Nat /\ b < 2 * h /\ k \in Nat /\ (a = 2 * k \/ a = 2 * k + 1) /\ (a = 2 * k + 1 => a % 2 = 1)
  BY DEF SIntPatterns
<1>2. k * b \in Nat /\ a * b \in Nat
  BY <1>1
<1>3. a * b = IF a = 2 * k THEN 2 * (k * b) ELSE 2 * (k * b) + b
  BY <1>1
<1>4. a * b < 4 * h
  <2>1. ActiveBits(a) \in Nat /\ ActiveBits(b) \in Nat /\ ActiveBits(h) \in Nat
    BY <1>1, BitsFact
  <2>2. ~(ActiveBits(a) + ActiveBits(b) >= ActiveBits(h) + 2)
    BY DEF UMulOvf
  <2>3. ActiveBits(a) + ActiveBits(b) <= ActiveBits(h) + 1
    BY <2>1, <2>2
  <2> QED
    BY <1>1, <2>3, BitsBoundProduct
<1>5. /\ ~IsNeg(half, h)
      /\ ~(a % 2 = 1 /\ Plus(Times(half, 2, h), b, h) < b)
  BY DEF UMulOvf
<1> HIDE DEF k
<1>6. half = k * b
  BY <1>1, <1>2, <1>3, <1>4 DEF Times
<1> HIDE DEF half
<1>7. half < h
  BY <1>2, <1>5, <1>6 DEF IsNeg
<1>8. Times(half, 2, h) = 2 * half
  BY <1>2, <1>6, <1>7 DEF Times
<1>9. CASE a = 2 * k
  BY <1>2, <1>3, <1>6, <1>7, <1>9
<1>10. CASE a # 2 * k
  <2>1. ~(Plus(2 * half, b, h) < b)
    BY <1>1, <1>5, <1>8, <1>10
  <2> QED
    BY <1>1, <1>2, <1>3, <1>6, <1>7, <1>10, <2>1 DEF Plus
<1> QED
  BY <1>9, <1>10

\* A remainder is what is left of the number after the multiples of the divisor.
LEMMA RemainderFact ==
  ASSUME NEW x \in Int, NEW n \in Nat \ {0}
  PROVE  x \div n \in Int /\ x % n = x - (x \div n) * n
OBVIOUS

\* The product of two patterns as signed numbers, and its pattern.
LEMMA SignedProduct ==
  ASSUME NEW h \in Nat \ {0, 1}, NEW a \in SIntPatterns(h), NEW b \in SIntPatterns(h)
  PROVE  /\ SVal(a, h) * SVal(b, h) \in Int
         /\ \E k \in Int : SVal(Times(a, b, h), h) = SVal(a, h) * SVal(b, h) + k * (2 * h)
<1>1. PICK i \in {0, 1} : SVal(a, h) = a - i * (2 * h)
  BY DEF SVal, IsNeg, SIntPatterns
<1>2. PICK j \in {0, 1} : SVal(b, h) = b - j * (2 * h)
  BY DEF SVal, IsNeg, SIntPatterns
<1>3. Times(a, b, h) \in SIntPatterns(h)
  BY OperationsArePatterns
<1>4. PICK l \in {0, 1} : SVal(Times(a, b, h), h) = Times(a, b, h) - l * (2 * h)
  BY <1>3 DEF SVal, IsNeg, SIntPatterns
<1>5. a \in Int /\ b \in Int /\ h \in Int
  BY DEF SIntPatterns
<1>6. a * b \in Int
  BY <1>5
<1> DEFINE m == (a * b) \div (2 * h)
<1>7. m \in Int /\ Times(a, b, h) = a * b - m * (2 * h)
  <2>1. 2 * h \in Nat \ {0}
    OBVIOUS
  <2> QED
    BY <1>6, <2>1, RemainderFact DEF Times
<1> HIDE DEF m
<1>8. SVal(a, h) * SVal(b, h) = a * b - (i * b + j * a - i * j * (2 * h)) * (2 * h)
  BY <1>1, <1>2, <1>5
<1> DEFINE k == (i * b + j * a - i * j * (2 * h)) - m - l
<1>9. k \in Int
  BY <1>1, <1>2, <1>4, <1>5, <1>7
<1>10. k * (2 * h) = (i * b + j * a - i * j * (2 * h)) * (2 * h) - m * (2 * h) - l * (2 * h)
  BY <1>1, <1>2, <1>4, <1>5, <1>7
<1>11. SVal(Times(a, b, h), h) = SVal(a, h) * SVal(b, h) + k * (2 * h)
  BY <1>4, <1>7, <1>8, <1>10, <1>5, <1>6
<1>12. SVal(a, h) * SVal(b, h) \in Int
  BY <1>1, <1>2, <1>5
<1> QED
  BY <1>9, <1>11, <1>12

\* A multiple of a number that is less than the number apart from zero is zero.
LEMMA MultipleIsZero ==
  ASSUME NEW n \in Nat \ {0}, NEW k \in Int, -n < k * n, k * n < n
  PROVE  k = 0
<1>1. CASE k >= 1
  <2>1. (k - 1) * n >= 0
    BY <1>1
  <2>2. (k - 1) * n = k * n - n
    OBVIOUS
  <2> QED
    BY <2>1, <2>2
<1>2. CASE k <= -1
  <2>1. (-1 - k) * n >= 0
    BY <1>2
  <2>2. (-1 - k) * n = -n - k * n
    OBVIOUS
  <2> QED
    BY <2>1, <2>2
<1> QED
  BY <1>1, <1>2

\* The magnitude of a pattern is that of its signed value.
LEMMA MagnitudeFact ==
  ASSUME NEW h \in Nat \ {0, 1}, NEW a \in SIntPatterns(h)
  PROVE  /\ Magnitude(a, h) \in Nat /\ Magnitude(a, h) <= h
         /\ SVal(a, h) \in Int /\ -h <= SVal(a, h) /\ SVal(a, h) < h
         /\ Magnitude(a, h) = IF SVal(a, h) < 0 THEN -SVal(a, h) ELSE SVal(a, h)
         /\ IsNeg(a, h) <=> SVal(a, h) < 0
         /\ SVal(a, h) = 0 <=> a = 0
BY DEF Magnitude, SVal, IsNeg, Neg, Minus, SIntPatterns

\* A pattern is that of its signed value.
LEMMA PatternOfValue ==
  ASSUME NEW h \in Nat \ {0, 1}, NEW a \in SIntPatterns(h), NEW b \in SIntPatterns(h)
  PROVE  SVal(a, h) = SVal(b, h) <=> a = b
BY DEF SVal, IsNeg, SIntPatterns

\* Signed division: its quotient is exact but for the smallest value by -1.
LEMMA SignedQuotient ==
  ASSUME NEW h \in Nat \ {0, 1}, NEW a \in SIntPatterns(h), NEW b \in SIntPatterns(h), b # 0,
         ~(a = SMinValue(h) /\ b = UMaxValue(h))
  PROVE  /\ SVal(SDiv(a, b, h), h) = LET q == Magnitude(a, h) \div Magnitude(b, h)
                                     IN  IF (SVal(a, h) < 0) = (SVal(b, h) < 0) THEN q ELSE -q
         /\ Magnitude(a, h) \div Magnitude(b, h) \in 0 .. Magnitude(a, h)
<1> DEFINE m == Magnitude(a, h)
           n == Magnitude(b, h)
           q == m \div n
<1>1. /\ m \in Nat /\ m <= h /\ n \in Nat \ {0} /\ n <= h
      /\ IsNeg(a, h) <=> SVal(a, h) < 0
      /\ IsNeg(b, h) <=> SVal(b, h) < 0
      /\ m = IF SVal(a, h) < 0 THEN -SVal(a, h) ELSE SVal(a, h)
      /\ n = IF SVal(b, h) < 0 THEN -SVal(b, h) ELSE SVal(b, h)
      /\ SVal(a, h) \in Int /\ -h <= SVal(a, h) /\ SVal(a, h) < h
      /\ SVal(b, h) \in Int /\ -h <= SVal(b, h) /\ SVal(b, h) < h
  BY MagnitudeFact
<1>2. q \in Nat /\ q <= m /\ (n = 1 => q = m) /\ (n > 1 => q < h)
  <2>1. q \in Nat /\ q <= m
    BY <1>1, Division
  <2>2. n = 1 => q = m
    BY <1>1
  <2>3. n > 1 => q < h
    <3> HIDE DEF m, n
    <3>1. n > 1 /\ m # 0 => m \div n < m
      BY <1>1
    <3> QED
      BY <1>1, <2>1, <3>1 DEF q
  <2> QED
    BY <2>1, <2>2, <2>3
<1>3. SDiv(a, b, h) = IF IsNeg(a, h) # IsNeg(b, h) THEN Neg(q, h) ELSE q
  BY DEF SDiv, UDiv
<1>4. ASSUME IsNeg(a, h) = IsNeg(b, h)
      PROVE  q < h
  <2> SUFFICES ASSUME q >= h
               PROVE  FALSE
    BY <1>1, <1>2
  <2>1. q = h /\ m = h /\ n = 1
    BY <1>1, <1>2
  <2>2. SVal(a, h) = -h
    BY <1>1, <2>1
  <2>3. SVal(b, h) = -1
    BY <1>1, <1>4, <2>1, <2>2
  <2>4. a = h /\ b = 2 * h - 1
    BY <2>2, <2>3 DEF SVal, IsNeg, SIntPatterns
  <2> QED
    BY <2>4 DEF SMinValue, UMaxValue
<1> HIDE DEF m, n, q
<1>5. CASE IsNeg(a, h) = IsNeg(b, h)
  <2>1. SDiv(a, b, h) = q /\ q < h
    BY <1>3, <1>4, <1>5
  <2>2. SVal(q, h) = q
    BY <1>2, <2>1 DEF SVal, IsNeg
  <2>3. (SVal(a, h) < 0) = (SVal(b, h) < 0)
    BY <1>1, <1>5
  <2> QED
    BY <1>1, <1>2, <2>1, <2>2, <2>3 DEF m, n, q
<1>6. CASE IsNeg(a, h) # IsNeg(b, h)
  <2>1. SDiv(a, b, h) = Neg(q, h) /\ q <= h
    BY <1>1, <1>2, <1>3, <1>6
  <2>2. SVal(Neg(q, h), h) = -q
    BY <1>1, <1>2, <2>1 DEF SVal, IsNeg, Neg, Minus
  <2>3. (IF (SVal(a, h) < 0) = (SVal(b, h) < 0) THEN q ELSE -q) = -q
    <3>1. CASE SVal(a, h) < 0 /\ ~(SVal(b, h) < 0)
      BY <3>1
    <3>2. CASE ~(SVal(a, h) < 0) /\ SVal(b, h) < 0
      BY <3>2
    <3>3. SVal(a, h) < 0 => ~(SVal(b, h) < 0)
      <4>1. a >= h /\ b >= h => FALSE
        BY <1>6 DEF IsNeg, SIntPatterns
      <4> QED
        BY <4>1, <1>1 DEF IsNeg
    <3>4. ~(SVal(a, h) < 0) => SVal(b, h) < 0
      <4>1. ~(a >= h) /\ ~(b >= h) => FALSE
        BY <1>6 DEF IsNeg, SIntPatterns
      <4> QED
        BY <4>1, <1>1 DEF IsNeg
    <3> QED
      BY <3>1, <3>2, <3>3, <3>4
  <2> QED
    BY <1>1, <1>2, <2>1, <2>2, <2>3 DEF m, n, q
<1> QED
  BY <1>5, <1>6

-----------------------------------------------------------------------------
(* What ranges of quotients and of absolute values cover.                   *)

\* The least and the greatest value of a type, and a result brought between them.
LeastOf(unsigned, h) == IF unsigned THEN 0 ELSE -h

GreatestOf(unsigned, h) == IF unsigned THEN 2 * h - 1 ELSE h - 1

ClampedTo(z, unsigned, h) ==
    IF z < LeastOf(unsigned, h) THEN LeastOf(unsigned, h)
    ELSE IF z > GreatestOf(unsigned, h) THEN GreatestOf(unsigned, h) ELSE z

\* A number of one modulus on either side of zero, modulo.
LEMMA ModuloFact ==
  ASSUME NEW n \in Nat \ {0}, NEW z \in Int
  PROVE  /\ z \in 0 .. n - 1 => z % n = z
         /\ z \in -n .. -1 => z % n = z + n
         /\ z \in n .. 2 * n - 1 => z % n = z - n
OBVIOUS

\* The four ends of a product: the least and the greatest of what they give.
LEMMA ExtremesBound ==
  ASSUME NEW h \in Nat \ {0, 1}, NEW S, S \subseteq SIntPatterns(h),
         \E p, q, r, s \in SIntPatterns(h) : S = {p, q, r, s}
  PROVE  /\ SLeast(S, h) \in S /\ SGreatest(S, h) \in S
         /\ \A x \in S : SVal(SLeast(S, h), h) <= SVal(x, h) /\ SVal(x, h) <= SVal(SGreatest(S, h), h)
<1>1. PICK p, q, r, s \in SIntPatterns(h) : S = {p, q, r, s}
  OBVIOUS
<1>2. \A x \in S : SVal(x, h) \in Int
  BY DEF SVal, IsNeg, SIntPatterns
<1>3. (\E x \in S : \A y \in S : Sle(x, y, h)) /\ (\E x \in S : \A y \in S : Sle(y, x, h))
  BY <1>1, <1>2 DEF Sle
<1>4. /\ SLeast(S, h) \in S /\ SGreatest(S, h) \in S
      /\ \A y \in S : Sle(SLeast(S, h), y, h) /\ Sle(y, SGreatest(S, h), h)
  BY <1>3, Zenon DEF SLeast, SGreatest
<1> QED
  BY <1>4 DEF Sle

\* The range between two signed ends on one side of zero.
LEMMA IntervalBetween ==
  ASSUME NEW h \in Nat \ {0, 1}, NEW lo \in SIntPatterns(h), NEW up \in SIntPatterns(h),
         NEW v \in SIntPatterns(h), SVal(lo, h) <= SVal(v, h), SVal(v, h) <= SVal(up, h),
         0 <= SVal(lo, h) \/ SVal(up, h) <= 0
  PROVE  Contains(Interval(lo, Succ(up, h), h), v)
<1>1. Succ(up, h) \in SIntPatterns(h)
  BY OperationsArePatterns
<1>2. lo # Succ(up, h)
  BY DEF Succ, Plus, SVal, IsNeg, SIntPatterns
<1>3. NonEmpty(lo, Succ(up, h), h) = Interval(lo, Succ(up, h), h)
  BY <1>2 DEF NonEmpty
<1> QED
  BY <1>3, NonEmptyBetween DEF Order

\* A value of a part of one sign lies between the ends of the part.
LEMMA PartsSpan ==
  ASSUME NEW h \in Nat \ {0, 1}, NEW n \in RangesOf(h), NEW x \in SIntPatterns(h), Contains(n, x)
  PROVE  /\ n.lower \in SIntPatterns(h) /\ LastOf(n, h) \in SIntPatterns(h) /\ ~IsEmptySet(n)
         /\ PositiveEnds(n, h) => /\ 0 < SVal(n.lower, h) /\ SVal(n.lower, h) <= SVal(x, h)
                                  /\ SVal(x, h) <= SVal(LastOf(n, h), h)
         /\ \A r : NegativeEnds(r, n, h) => /\ SVal(n.lower, h) <= SVal(x, h)
                                            /\ SVal(x, h) <= SVal(LastOf(n, h), h) /\ SVal(LastOf(n, h), h) < 0
<1>1. Within(n.lower, n.upper, x, h) /\ Ends(n, h) /\ ~IsEmptySet(n)
  BY RangeEnds, ContainsIsWithin, EmptyContainsNothing
<1>2. n.lower \in SIntPatterns(h) /\ LastOf(n, h) \in SIntPatterns(h)
  BY <1>1 DEF Ends, LastOf, Pred, Minus, SIntPatterns
<1>3. ASSUME PositiveEnds(n, h)
      PROVE  /\ 0 < SVal(n.lower, h) /\ SVal(n.lower, h) <= SVal(x, h)
             /\ SVal(x, h) <= SVal(LastOf(n, h), h)
  BY <1>1, <1>3 DEF Ends, Within, PositiveEnds, LastOf, Pred, Minus, SVal, IsNeg, SIntPatterns
<1>4. ASSUME NEW r, NegativeEnds(r, n, h)
      PROVE  /\ SVal(n.lower, h) <= SVal(x, h)
             /\ SVal(x, h) <= SVal(LastOf(n, h), h) /\ SVal(LastOf(n, h), h) < 0
  <2>1. h <= n.lower /\ n.lower <= Pred(n.upper, h)
    BY <1>1, <1>4 DEF NegativeEnds
  <2> QED
    BY <1>1, <2>1 DEF Ends, Within, LastOf, Pred, Minus, SVal, IsNeg, SIntPatterns
<1> QED
  BY <1>1, <1>2, <1>3, <1>4

\* The part of a range between two patterns contains the values there.
LEMMA PartContains ==
  ASSUME NEW h \in Nat \ {0, 1}, NEW r \in RangesOf(h), NEW x \in SIntPatterns(h), Contains(r, x)
  PROVE  /\ 0 < SVal(x, h) => Contains(IntersectWith(r, Interval(1, SMinValue(h), h), "Smallest"), x)
         /\ SVal(x, h) < 0 => Contains(IntersectWith(r, Interval(SMinValue(h), 0, h), "Smallest"), x)
<1>1. 0 \in SIntPatterns(h) /\ 1 \in SIntPatterns(h) /\ SMinValue(h) \in SIntPatterns(h)
  BY DEF SMinValue, SIntPatterns
<1>2. 0 < SVal(x, h) => Within(1, SMinValue(h), x, h)
  BY DEF Within, SVal, IsNeg, SMinValue, SIntPatterns
<1>3. SVal(x, h) < 0 => Within(SMinValue(h), 0, x, h)
  BY DEF Within, SVal, IsNeg, SMinValue, SIntPatterns
<1>4. 1 # SMinValue(h) /\ SMinValue(h) # 0
  BY DEF SMinValue
<1>5. /\ Interval(1, SMinValue(h), h) \in RangesOf(h) /\ Interval(SMinValue(h), 0, h) \in RangesOf(h)
      /\ 0 < SVal(x, h) => Contains(Interval(1, SMinValue(h), h), x)
      /\ SVal(x, h) < 0 => Contains(Interval(SMinValue(h), 0, h), x)
  BY <1>1, <1>2, <1>3, <1>4, IntervalLegal, IntervalIsWithin
<1> QED
  BY <1>5, IntersectionCovers

\* ConstantRange::UDiv and URem: the ranges contain every quotient and remainder.
LEMMA UnsignedQuotientsCovered ==
  ASSUME NEW h \in Nat \ {0, 1}, NEW a \in RangesOf(h), NEW b \in RangesOf(h),
         NEW x \in SIntPatterns(h), NEW y \in SIntPatterns(h), Contains(a, x), Contains(b, y), y # 0
  PROVE  /\ x \div y \in SIntPatterns(h) /\ Contains(UDivRange(a, b), x \div y)
         /\ x % y \in SIntPatterns(h) /\ Contains(URemRange(a, b), x % y)
<1> DEFINE p == UMinOf(a)
           q == UMaxOf(a)
           r == UMinOf(b)
           s == UMaxOf(b)
           least == IF r # 0 THEN r ELSE IF b.upper = 1 THEN b.lower ELSE 1
<1>1. /\ p \in SIntPatterns(h) /\ q \in SIntPatterns(h) /\ r \in SIntPatterns(h) /\ s \in SIntPatterns(h)
      /\ p <= x /\ x <= q /\ r <= y /\ y <= s
  BY ExtremesArePatterns, UnsignedExtremes
<1>2. a.half = h /\ ~IsEmptySet(a) /\ ~IsEmptySet(b) /\ Ends(b, h)
  BY HalfOfRange, EmptyContainsNothing, RangeEnds
<1>3. x \in Nat /\ y \in Nat \ {0}
  BY DEF SIntPatterns
<1>4. least \in Nat \ {0} /\ least <= y /\ least \in SIntPatterns(h)
  <2>1. CASE r # 0
    BY <1>1, <2>1 DEF SIntPatterns
  <2>2. CASE r = 0 /\ b.upper # 1
    BY <1>3, <2>2 DEF SIntPatterns
  <2>3. CASE r = 0 /\ b.upper = 1
    <3>1. Within(b.lower, b.upper, y, h)
      BY ContainsIsWithin
    <3> QED
      BY <1>2, <1>3, <2>3, <3>1 DEF Ends, Within, SIntPatterns
  <2> QED
    BY <2>1, <2>2, <2>3
<1>5. s # 0 /\ s \in Nat /\ p \in Nat /\ q \in Nat
  BY <1>1, <1>3 DEF SIntPatterns
<1>6. UDivRange(a, b) = NonEmpty(p \div s, Succ(q \div least, h), h)
  BY <1>2, <1>5 DEF UDivRange, UDiv
<1> HIDE DEF p, q, r, s, least
<1>7. /\ p \div s <= x \div y /\ x \div y <= q \div least
      /\ p \div s \in Nat /\ x \div y \in Nat /\ q \div least \in Nat
      /\ p \div s <= p /\ x \div y <= x /\ q \div least <= q
  BY <1>1, <1>3, <1>4, <1>5, Division, DivisionMonotone
<1>8. p \div s \in SIntPatterns(h) /\ x \div y \in SIntPatterns(h) /\ q \div least \in SIntPatterns(h)
  BY <1>1, <1>7 DEF SIntPatterns
<1>9. Contains(UDivRange(a, b), x \div y)
  BY <1>6, <1>7, <1>8, NonEmptyBetween DEF Order
<1>10. /\ x % y \in Nat /\ x % y < y /\ x % y <= x /\ x % y \in SIntPatterns(h)
  BY <1>3, Division DEF SIntPatterns
<1>11. CASE IsSingleElement(a) /\ IsSingleElement(b)
  <2>1. x = a.lower /\ y = b.lower
    BY <1>11, SingleContains
  <2>2. URemRange(a, b) = Single(x % y, h)
    BY <1>2, <1>5, <1>11, <2>1 DEF URemRange, URem, s
  <2>3. Succ(x % y, h) # x % y /\ Succ(x % y, h) \in SIntPatterns(h)
    BY <1>10, PatternFacts
  <2>4. Within(x % y, Succ(x % y, h), x % y, h)
    BY <1>10 DEF Within, Succ, Plus, SIntPatterns
  <2> QED
    BY <1>8, <1>9, <1>10, <2>2, <2>3, <2>4, IntervalIsWithin DEF Single
<1>12. CASE ~(IsSingleElement(a) /\ IsSingleElement(b)) /\ q < r
  <2>1. URemRange(a, b) = a
    BY <1>2, <1>5, <1>12 DEF URemRange, q, r, s
  <2>2. x < y
    BY <1>1, <1>12 DEF SIntPatterns
  <2>3. x % y = x
    BY <1>3, <2>2
  <2> QED
    BY <1>8, <1>9, <1>10, <2>1, <2>3
<1>13. CASE ~(IsSingleElement(a) /\ IsSingleElement(b)) /\ ~(q < r)
  <2> DEFINE up == USmaller(q, Pred(s, h))
  <2>1. URemRange(a, b) = NonEmpty(0, Succ(up, h), h)
    BY <1>2, <1>5, <1>13 DEF URemRange, q, r, s
  <2>2. up \in SIntPatterns(h) /\ x % y <= up /\ 0 \in SIntPatterns(h)
    BY <1>1, <1>3, <1>5, <1>10 DEF USmaller, Pred, Minus, SIntPatterns
  <2> HIDE DEF up
  <2>3. Contains(NonEmpty(0, Succ(up, h), h), x % y)
    <3>1. Order(TRUE, 0, h) <= Order(TRUE, x % y, h) /\ Order(TRUE, x % y, h) <= Order(TRUE, up, h)
      BY <1>10, <2>2 DEF Order
    <3> QED
      BY <1>10, <2>2, <3>1, NonEmptyBetween
  <2> QED
    BY <1>8, <1>9, <1>10, <2>1, <2>3
<1> QED
  BY <1>11, <1>12, <1>13

\* ConstantRange::Abs: the magnitudes of the values of a range.
LEMMA AbsContains ==
  ASSUME NEW h \in Nat \ {0, 1}, NEW r \in RangesOf(h), NEW x \in SIntPatterns(h), Contains(r, x)
  PROVE  Contains(Abs(r), Magnitude(x, h))
<1> DEFINE mixed == Interval(0, Succ(ULarger(Neg(SMinOf(r), h), SMaxOf(r)), h), h)
           negative == Interval(Neg(SMaxOf(r), h), Succ(Neg(SMinOf(r), h), h), h)
           crossesZero == IsPositive(r.upper, h) \/ ~IsPositive(r.lower, h)
           first == IF crossesZero THEN 0 ELSE USmaller(r.lower, Succ(Neg(r.upper, h), h))
           m == Magnitude(x, h)
<1>0. Ends(r, h) /\ r.half = h /\ ~IsEmptySet(r)
  BY RangeEnds, EmptyContainsNothing DEF Ends
<1>1. /\ m \in Nat /\ m <= h /\ m \in SIntPatterns(h)
      /\ SVal(x, h) \in Int /\ -h <= SVal(x, h) /\ SVal(x, h) < h
      /\ m = IF SVal(x, h) < 0 THEN -SVal(x, h) ELSE SVal(x, h)
  BY MagnitudeFact, OperationsArePatterns
<1>2. /\ SMinOf(r) \in SIntPatterns(h) /\ SMaxOf(r) \in SIntPatterns(h)
      /\ SVal(SMinOf(r), h) <= SVal(x, h) /\ SVal(x, h) <= SVal(SMaxOf(r), h)
  BY ExtremesArePatterns, SignedExtremes DEF Sle
<1>3. \A l, u \in SIntPatterns(h) : l <= m /\ m < u => Contains(Interval(l, u, h), m)
  <2> SUFFICES ASSUME NEW l \in SIntPatterns(h), NEW u \in SIntPatterns(h), l <= m, m < u
               PROVE  Contains(Interval(l, u, h), m)
    OBVIOUS
  <2>1. l # u /\ Within(l, u, m, h)
    BY <1>1 DEF Within, SIntPatterns
  <2> QED
    BY <1>1, <2>1, IntervalIsWithin
<1>4. CASE IsSignWrappedSet(r)
  <2>1. Abs(r) = Interval(first, Succ(SMinValue(h), h), h)
    BY <1>0, <1>4 DEF Abs
  <2>2. /\ first \in SIntPatterns(h)
        /\ Succ(SMinValue(h), h) = h + 1 /\ h + 1 \in SIntPatterns(h)
    BY <1>0 DEF Ends, USmaller, Succ, Neg, Plus, Minus, IsPositive, SMinValue, SIntPatterns
  <2>3. Within(r.lower, r.upper, x, h)
    BY ContainsIsWithin
  <2>4. first <= m
    BY <1>0, <1>1, <1>4, <2>3
       DEF Ends, Within, USmaller, Succ, Neg, Plus, Minus, IsPositive, IsSignWrappedSet, Slt, SVal, IsNeg, SMinValue,
           Magnitude, SIntPatterns
  <2> HIDE DEF first, m
  <2> QED
    BY <1>1, <1>3, <2>1, <2>2, <2>4 DEF m
<1>5. CASE ~IsSignWrappedSet(r) /\ IsNonNeg(SMinOf(r), h)
  <2>1. SVal(x, h) >= 0
    BY <1>1, <1>2, <1>5 DEF SVal, IsNeg, IsNonNeg, SIntPatterns
  <2>2. m = x
    BY <1>1, <2>1 DEF SVal, IsNeg, SIntPatterns
  <2>3. SMaxOf(r) < h
    BY <1>1, <1>2, <1>5 DEF SVal, IsNeg, IsNonNeg, SIntPatterns
  <2>4. Abs(r) = r
    BY <1>0, <1>2, <1>5, <2>3 DEF Abs, IsNonNeg, IsNeg, SIntPatterns
  <2> QED
    BY <2>2, <2>4
<1>6. CASE ~IsSignWrappedSet(r) /\ ~IsNonNeg(SMinOf(r), h) /\ SMaxOf(r) >= h
  <2>1. Abs(r) = negative
    BY <1>0, <1>2, <1>6 DEF Abs, IsNonNeg, IsNeg, SIntPatterns
  <2>2. /\ Neg(SMaxOf(r), h) \in SIntPatterns(h) /\ Succ(Neg(SMinOf(r), h), h) \in SIntPatterns(h)
        /\ Neg(SMaxOf(r), h) <= m /\ m < Succ(Neg(SMinOf(r), h), h)
    BY <1>1, <1>2, <1>6 DEF Neg, Succ, Plus, Minus, SVal, IsNeg, IsNonNeg, SIntPatterns
  <2> QED
    BY <1>3, <2>1, <2>2
<1>7. CASE ~IsSignWrappedSet(r) /\ ~IsNonNeg(SMinOf(r), h) /\ ~(SMaxOf(r) >= h)
  <2>1. Abs(r) = mixed
    BY <1>0, <1>2, <1>7 DEF Abs, IsNonNeg, IsNeg, SIntPatterns
  <2>2. /\ 0 \in SIntPatterns(h) /\ Succ(ULarger(Neg(SMinOf(r), h), SMaxOf(r)), h) \in SIntPatterns(h)
        /\ m < Succ(ULarger(Neg(SMinOf(r), h), SMaxOf(r)), h)
    BY <1>1, <1>2, <1>7 DEF Neg, Succ, Plus, Minus, ULarger, SVal, IsNeg, IsNonNeg, SIntPatterns
  <2> QED
    BY <1>1, <1>3, <2>1, <2>2
<1> QED
  BY <1>4, <1>5, <1>6, <1>7

=============================================================================
