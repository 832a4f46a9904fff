-------------------------- MODULE MCRangeTransfer --------------------------
(***************************************************************************)
(* Integers of two, three and four bits, in families of short programs.    *)
(***************************************************************************)
EXTENDS RangeTransfer

IntType(h, u) == [half |-> h, unsigned |-> u]
AllRanges(h) == RangesOf(h) \ {Empty(h)}
ProgramOf(types, ranges, ops, strategies, bounds) ==
    [types |-> types, ranges |-> ranges, operators |-> ops, strategies |-> strategies,
     operands |-> bounds[1], symbols |-> bounds[2], steps |-> bounds[3]]

AllOperators == Operators \union {"NEG", "BITNOT", "CAST"}

\* Ranges of three bits that begin and stop at, or next to, an end of an order.
NearEnds == {r \in AllRanges(4) : {r.lower, r.upper} \intersect {2, 6} = {}}

\* One step, on every range of two bits and on those.
OneStep ==
    ProgramOf([half : {2, 4}, unsigned : BOOLEAN], AllRanges(2) \union NearEnds,
             AllOperators, Strategies, <<2, 3, 1>>)
\* Two steps, between two widths.
Widths ==
    ProgramOf([half : {4, 8}, unsigned : BOOLEAN],
             {Interval(6, 2, 4), Full(4), Single(2, 8), Interval(13, 6, 8)},
             AllOperators, Strategies, <<2, 3, 2>>)
\* Two steps, on three operands.
Related ==
    ProgramOf({IntType(4, FALSE)}, {Interval(0, 3, 4), Interval(6, 2, 4)},
             {"ADD", "SUB"}, {"THROWING"}, <<3, 4, 2>>)
\* Three steps, between the signed and the unsigned type of a width.
Signs ==
    ProgramOf([half : {4}, unsigned : BOOLEAN], {Interval(0, 3, 4), Interval(6, 2, 4)},
             {"CAST"}, {"THROWING", "WRAPPING"}, <<2, 4, 3>>)

\* Three steps, of differences from one operand and a literal.
Chains ==
    ProgramOf({IntType(4, FALSE)}, {Interval(7, 2, 4), Single(1, 4)},
             {"SUB"}, {"THROWING"}, <<2, 4, 3>>)

\* Branches and merges alone, for the runs that reach a gap.
Branches ==
    ProgramOf([half : {4}, unsigned : BOOLEAN], {Interval(0, 3, 4), Interval(6, 2, 4), Full(4)},
              {}, {}, <<2, 2, 2>>)

MCFamilies ==
    [OneStep |-> OneStep, Widths |-> Widths, Related |-> Related, Signs |-> Signs, Chains |-> Chains]
MCOneStep == [OneStep |-> OneStep]
MCBranches == [Branches |-> Branches]
=============================================================================
