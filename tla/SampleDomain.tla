---------------------------- MODULE SampleDomain ----------------------------
(***************************************************************************)
(* The sampling domain of a run (utils/domain.rs): a tree of discrete axes *)
(* whose leaves are boxes of continuous coordinates, with the stratum axes *)
(* before the integrand axes on every path.                                *)
(***************************************************************************)
EXTENDS Integers, Sequences, SequencesExt, FiniteSets, FiniteSetsExt

None == -1
Rect(strata, cards, dims) == [rect |-> TRUE, strata |-> strata, cards |-> cards, dims |-> dims]
Disc(role, branches) == [rect |-> FALSE, role |-> role, branches |-> branches]
Branch(i, d) == [index |-> i, domain |-> d]
Branches(d) == {d.branches[i] : i \in DOMAIN d.branches}

\* validate: labels strictly increase, no empty axis, strata only before integrand axes.
Valid(d) ==
  LET RECURSIVE Visit(_, _)
      Visit(x, seen) ==
        IF x.rect THEN x.strata <= Len(x.cards) /\ 0 \notin Range(x.cards) /\ ~(seen /\ x.strata # 0)
        ELSE /\ x.branches # <<>>
             /\ \A i \in 1 .. Len(x.branches) - 1 : x.branches[i].index < x.branches[i + 1].index
             /\ ~(seen /\ x.role = "stratum")
             /\ \A b \in Branches(x) : Visit(b.domain, seen \/ x.role # "stratum")
  IN Visit(d, FALSE)

Tuples(cards) ==
  LET RECURSIVE Build(_)
      Build(k) == IF k > Len(cards) THEN << <<>> >>
                  ELSE FlattenSeq([i \in 1 .. cards[k] |-> [j \in DOMAIN Build(k + 1) |-> <<i - 1>> \o Build(k + 1)[j]]])
  IN Build(1)

\* stratum_prefixes: the joint strata in lexicographic order, without the integrand axes.
StratumPrefixes(d) ==
  LET RECURSIVE Visit(_)
      Visit(x) == IF x.rect THEN Tuples(SubSeq(x.cards, 1, x.strata))
                  ELSE IF x.role # "stratum" THEN << <<>> >>
                  ELSE FlattenSeq([i \in DOMAIN x.branches |->
                         LET inner == Visit(x.branches[i].domain)
                         IN [j \in DOMAIN inner |-> <<x.branches[i].index>> \o inner[j]]])
  IN Visit(d)

\* with_integrand, for a stratum-only tree and an unstratified integrand.
StratumOnly(d) ==
  LET RECURSIVE Only(_)
      Only(x) == IF x.rect THEN x.dims = 0 /\ x.strata = Len(x.cards)
                 ELSE x.role = "stratum" /\ \A b \in Branches(x) : Only(b.domain)
  IN Only(d) /\ \A i \in DOMAIN StratumPrefixes(d) : StratumPrefixes(d)[i] # <<>>

Wrap(cards, d) == FoldRight(LAMBDA n, acc : Disc("stratum", [i \in 1 .. n |-> Branch(i - 1, acc)]), cards, d)
WithIntegrand(s, d) ==
  LET RECURSIVE Graft(_)
      Graft(x) == IF ~x.rect
                  THEN Disc("stratum", [i \in DOMAIN x.branches |-> Branch(x.branches[i].index, Graft(x.branches[i].domain))])
                  ELSE IF d.rect THEN Rect(x.strata, x.cards \o d.cards, d.dims)
                  ELSE Wrap(x.cards, d)
  IN Graft(s)

\* The value all branches agree on, or None.
Agreed(values) == IF Cardinality(values) = 1 THEN CHOOSE v \in values : TRUE ELSE None

FixedContinuousDims(d) ==
  LET RECURSIVE Dims(_)
      Dims(x) == IF x.rect THEN x.dims ELSE Agreed({Dims(b.domain) : b \in Branches(x)})
  IN Dims(d)

FixedDiscreteDepth(d) ==
  LET RECURSIVE Depth(_)
      Depth(x) == IF x.rect THEN Len(x.cards)
                  ELSE LET inner == Agreed({Depth(b.domain) : b \in Branches(x)})
                       IN IF inner = None THEN None ELSE inner + 1
  IN Depth(d)

Select(d, label) == {b \in Branches(d) : b.index = label}
InBox(path, cards) == \A i \in DOMAIN path : path[i] \in 0 .. cards[i] - 1

\* continuous_dims_at_discrete_path: of a path that may stop early.  None is the error.
DimsAtPath(d, path) ==
  LET RECURSIVE At(_, _)
      At(x, p) == IF p = <<>> THEN FixedContinuousDims(x)
                  ELSE IF x.rect THEN IF Len(p) <= Len(x.cards) /\ InBox(p, x.cards) THEN x.dims ELSE None
                  ELSE IF Select(x, p[1]) = {} THEN None
                  ELSE At((CHOOSE b \in Select(x, p[1]) : TRUE).domain, Tail(p))
  IN At(d, path)

\* continuous_dims_at_leaf_path: of a path that must end at a leaf.
LeafDims(d, path) ==
  LET RECURSIVE At(_, _)
      At(x, p) == IF x.rect THEN IF Len(p) = Len(x.cards) /\ InBox(p, x.cards) THEN x.dims ELSE None
                  ELSE IF p = <<>> THEN None
                  ELSE IF Select(x, p[1]) = {} THEN None
                  ELSE At((CHOOSE b \in Select(x, p[1]) : TRUE).domain, Tail(p))
  IN At(d, path)

\* validate_point_parts
ValidPoint(d, discrete, dims) == LeafDims(d, discrete) # None /\ LeafDims(d, discrete) = dims

\* map_discrete_path: from dense grid positions to branch labels.
ToLabels(d, path) ==
  LET RECURSIVE Map(_, _)
      Map(x, p) == IF x.rect THEN p
                   ELSE LET b == x.branches[p[1] + 1] IN <<b.index>> \o Map(b.domain, Tail(p))
  IN Map(d, path)
\* build_havana_grid: a grid has one bin per branch, whatever the labels.
GridPaths(d) ==
  LET RECURSIVE Paths(_)
      Paths(x) == IF x.rect THEN ToSet(Tuples(x.cards))
                  ELSE UNION {{<<i - 1>> \o p : p \in Paths(x.branches[i].domain)} : i \in DOMAIN x.branches}
  IN Paths(d)

\* The reference: the leaves of a domain as pairs of a discrete path and a number of coordinates.
Leaves(d) ==
  LET RECURSIVE L(_)
      L(x) == IF x.rect THEN {<<p, x.dims>> : p \in ToSet(Tuples(x.cards))}
              ELSE UNION {{<<<<b.index>> \o l[1], l[2]>> : l \in L(b.domain)} : b \in Branches(x)}
  IN L(d)
=============================================================================
