------------------------------ MODULE LpmTrie ------------------------------
(***************************************************************************)
(* The prefix table of internal/dptunnel/lpm.go: a binary trie in which an *)
(* address finds the value of its longest prefix.                          *)
(*                                                                         *)
(* A node is named by the bits that lead to it, their number and their     *)
(* value, so a trie is a function that gives every possible node its       *)
(* value, a positive number, NoValue for a node with hasValue = false, and *)
(* NoNode where the child pointer is nil.  One address family is modelled: *)
(* the Router keeps one trie for each and never looks into both.  Keys of  *)
(* the wrong length, which both operations refuse, are not in Prefix.      *)
(***************************************************************************)
EXTENDS Integers, FiniteSetsExt

CONSTANT Bits   \* width of an address

Prefix == {p \in [len : 0 .. Bits, val : 0 .. 2^Bits - 1] : p.val < 2^p.len}
Dst == 0 .. 2^Bits - 1

NoNode == -1
NoValue == 0

\* bitAt, from the left: the node that the first i bits of d lead to.
NodeAt(d, i) == [len |-> i, val |-> d \div 2^(Bits - i)]

\* The nodes that insert passes on its way to p, p included.
PathTo(p) == {[len |-> i, val |-> p.val \div 2^(p.len - i)] : i \in 0 .. p.len}

\* newLPMTrie: the root alone.
NewTrie == [q \in Prefix |-> IF q.len = 0 THEN NoValue ELSE NoNode]

\* insert: make the missing nodes of the path, and set the value of the last
\* one, over any value it had.
Insert(t, p, v) ==
  [q \in Prefix |-> CASE q = p -> v
                      [] q # p /\ q \in PathTo(p) /\ t[q] = NoNode -> NoValue
                      [] OTHER -> t[q]]

\* The inner loop of rebuildRoutesLocked: one entry's subnets.
InsertAll(t, cidrs, v) == FoldSet(LAMBDA p, acc : Insert(acc, p, v), t, cidrs)

\* longestPrefix: go down along the bits of the address until a child is
\* missing; every value on the way replaces the one before.
LongestPrefix(t, d) ==
  LET walk[i \in 0 .. Bits] ==
        LET before == IF i = 0 THEN [on |-> TRUE, best |-> NoValue] ELSE walk[i - 1]
            node   == t[NodeAt(d, i)]
        IN  IF before.on /\ node # NoNode
            THEN [on |-> TRUE, best |-> IF node = NoValue THEN before.best ELSE node]
            ELSE [before EXCEPT !.on = FALSE]
  IN  walk[Bits].best
=============================================================================
