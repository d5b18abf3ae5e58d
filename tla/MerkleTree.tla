------------------------------ MODULE MerkleTree ----------------------------
(***************************************************************************)
(* The Merkle root of the events of a block (apps/audit/merkle.py).  A     *)
(* SHA-256 digest is the term it is taken of, so that digests are equal    *)
(* only if what was hashed is, and leaves and nodes have their own tags.   *)
(***************************************************************************)
EXTENDS Naturals, Sequences

HashLeaf(event) == <<"leaf", event>>
HashNode(left, right) == <<"node", left, right>>

\* 1 << (n.bit_length() - 1): as many doublings as n can be halved
HighestBit[n \in Nat] == IF n <= 1 THEN 1 ELSE 2 * HighestBit[n \div 2]

LargestPowerOfTwoLessThan(n) == HighestBit[n - 1]

\* one level of a tree, neighbours paired; odd is what becomes of the last
Pairs(s, odd) ==
  [i \in 1..((Len(s) + 1) \div 2) |->
     IF 2 * i <= Len(s) THEN HashNode(s[2 * i - 1], s[2 * i]) ELSE odd]

\* level by level, the last of an odd level going up as it is
RootByLevels(s) ==
  LET level[k \in 0..Len(s)] ==
        IF k = 0 THEN s ELSE Pairs(level[k - 1], level[k - 1][Len(level[k - 1])])
  IN  level[Len(s)][1]

\* mutant of MerkleRootFromHashes: the last of an odd level is paired with itself
RootDuplicatingLast(s) ==
  LET level[k \in 0..Len(s)] ==
        IF k = 0 THEN s
        ELSE LET below == level[k - 1]
                 last == below[Len(below)]
             IN  IF Len(below) = 1 THEN below ELSE Pairs(below, HashNode(last, last))
  IN  level[Len(s)][1]

\* root[n][i] is the root of the n hashes from the i-th on
MerkleRootFromHashes(s) ==
  LET root[n \in 1..Len(s)] ==
        LET split == LargestPowerOfTwoLessThan(n)
        IN  [i \in 1..(Len(s) - n + 1) |->
               IF n = 1 THEN s[i] ELSE HashNode(root[split][i], root[n - split][i + split])]
  IN  root[Len(s)][1]

\* merkle_root; there is none of no events
MerkleRoot(events) == MerkleRootFromHashes([i \in DOMAIN events |-> HashLeaf(events[i])])

=============================================================================
