--------------------------- MODULE MCSdwanRouter ---------------------------
(***************************************************************************)
(* Instances of SdwanRouter for TLC.                                       *)
(***************************************************************************)
EXTENDS SdwanRouter

P(l, v) == [len |-> l, val |-> v]

\* One site has the default route and later also one address of the other's
\* half, which then has the other half.
TwoLists ==
  LET s0 == CHOOSE s \in Sites : TRUE
  IN  {[s \in Sites |-> IF s = s0 THEN {P(0, 0)} ELSE {P(1, 1)}],
       [s \in Sites |-> IF s = s0 THEN {P(0, 0), P(2, 2)} ELSE {P(1, 0)}]}

\* Whatever one or two subnets each of two entries has, nested, equal or apart,
\* the walk down the trie agrees with a scan of them, as the tests of lpm.go
\* demand for theirs.
ASSUME TrieAgrees ==
  \A c \in [1 .. 2 -> {q \in SUBSET Prefix : Cardinality(q) \in 1 .. 2}] : \A d \in Dst :
    LET trie    == InsertAll(InsertAll(NewTrie, c[1], 1), c[2], 2)
        lens(k) == {p.len : p \in {q \in c[k] : Covers(q, d)}}
        found   == LongestPrefix(trie, d)
    IN  IF found = NoValue THEN lens(1) \cup lens(2) = {}
        ELSE Max(lens(1) \cup lens(2)) \in lens(found)
=============================================================================
