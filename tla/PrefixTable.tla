---------------------------- MODULE PrefixTable -----------------------------
(***************************************************************************)
(* prefix/table.go: the map of the keyspace into regions, each named by    *)
(* the prefix its keys share.  The trie is the function from the prefixes  *)
(* of its leaves to the population of each; of the time of a survey only   *)
(* whether there was one matters.                                          *)
(***************************************************************************)
EXTENDS Integers, Sequences, SequencesExt, FiniteSets

CONSTANTS
  BitLen,            \* the length of a key
  InitialPrefixLen,  \* Config.InitialPrefixLen
  MinPopulation,     \* Config.MinPopulation
  MaxPopulation      \* Config.MaxPopulation

ASSUME PrefixTableAssumption ==
  /\ BitLen \in Nat
  /\ InitialPrefixLen \in 0..BitLen
  /\ MinPopulation \in Nat
  /\ MaxPopulation \in Nat
  /\ MaxPopulation > MinPopulation

Key == [1..BitLen -> {0, 1}]

Prefix == SeqOf({0, 1}, BitLen)

Unsurveyed == -1

\* The order of prefixes of which neither starts the other.
Before(p, q) ==
  \E i \in 1..Len(p) :
    i <= Len(q) /\ p[i] < q[i] /\ \A j \in 1..(i - 1) : p[j] = q[j]

Under(p, keys) == {k \in keys : IsPrefix(p, k)}

\* buildTrie.
NewTable == [p \in [1..InitialPrefixLen -> {0, 1}] |-> Unsurveyed]

\* Locate.
Locate(t, k) == CHOOSE p \in DOMAIN t : IsPrefix(p, k)

\* Mutant: a region that is too large is split once.
BuildLeaf_SplitOnce(p, members) ==
  LET pop(q) == Cardinality(Under(q, members))
      leaves == IF pop(p) <= MaxPopulation \/ Len(p) = BitLen THEN {p}
                ELSE {Append(p, 0), Append(p, 1)}
  IN  [q \in leaves |-> pop(q)]

\* buildLeaf: the region p, split until every part is small enough or one key.
BuildLeaf(p, members) ==
  LET pop(q)   == Cardinality(Under(q, members))
      small(q) == pop(q) <= MaxPopulation \/ Len(q) = BitLen
      leaves   == {q \in Prefix : /\ IsPrefix(p, q) /\ small(q)
                                  /\ \A r \in Prefix : IsPrefix(p, r) /\ IsStrictPrefix(r, q) => ~small(r)}
  IN  [q \in leaves |-> pop(q)]

\* sparseSurveyedLeaf.
SparseSurveyedLeaf(t, p) == p \in DOMAIN t /\ t[p] \in 0..MinPopulation

Sibling(p) == [p EXCEPT ![Len(p)] = 1 - @]

\* The region p and its sibling become one when both are sparse.
MergeAt(t, p) ==
  LET pair == {p, Sibling(p)}
  IN  IF \E q \in pair : ~SparseSurveyedLeaf(t, q) THEN t
      ELSE [q \in (DOMAIN t \ pair) \cup {Front(p)} |->
              IF q = Front(p) THEN t[p] + t[Sibling(p)] ELSE t[q]]

\* buildLeaf takes the place of the leaf p.
Regrown(t, p, members) ==
  LET new == BuildLeaf(p, members)
  IN  [q \in (DOMAIN t \ {p}) \cup DOMAIN new |-> IF q \in DOMAIN t \ {p} THEN t[q] ELSE new[q]]

\* The merges on the way back to the root.
MergeUp(t, p) ==
  LET up[i \in 0..Len(p)] ==
        IF i = 0 THEN t ELSE MergeAt(up[i - 1], SubSeq(p, 1, Len(p) + 1 - i))
  IN  up[Len(p)]

\* Observe and observeNode: the region takes on its members, is split, or is merged
\* with its sibling, and what they become with its own, up to the root.  A prefix
\* that is not that of a region is ignored.
Observe(t, p, members) ==
  IF p \notin DOMAIN t THEN t ELSE MergeUp(Regrown(t, p, members), p)
=============================================================================
