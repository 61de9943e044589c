------------------------------ MODULE JoinStages ------------------------------
(***************************************************************************)
(* The stages of the reference encoding, as sets of boundaries.            *)
(*                                                                         *)
(* ReferenceEncoding joins parts of a text until no two neighbours join.   *)
(* Its state is the set of the boundaries that are left, and a join takes  *)
(* one away.  rank[<<i, j>>] is the token between the positions i and j,   *)
(* or UINT32_MAX.  Stages of a region lo .. hi are those of its own        *)
(* encoding.                                                               *)
(***************************************************************************)
EXTENDS BytePairEncoding

Gap(B, i, j) ==
  /\ i \in B /\ j \in B /\ i < j
  /\ \A k \in B : k <= i \/ j <= k

Joinable(rank, B, i, m, j) ==
  Gap(B, i, m) /\ Gap(B, m, j) /\ rank[<<i, j>>] # UINT32_MAX

LowestJoin(rank, B, i, m, j) ==
  /\ Joinable(rank, B, i, m, j)
  /\ \A a, c, b \in B : Joinable(rank, B, a, c, b) =>
       \/ rank[<<i, j>>] < rank[<<a, b>>]
       \/ rank[<<i, j>>] = rank[<<a, b>>] /\ m <= c

ClosedUnderJoins(rank, F) ==
  \A B \in F : \A i, m, j \in B : LowestJoin(rank, B, i, m, j) => B \ {m} \in F

IsStage(rank, lo, hi, B) ==
  \A F \in SUBSET SUBSET (lo .. hi) : lo .. hi \in F /\ ClosedUnderJoins(rank, F) => B \in F

-----------------------------------------------------------------------------
(* A single byte is not split; a longer token is its left part followed by *)
(* its right part, both with lower ranks, and pairs has the pair.          *)
SplitsTo(len, left, right, pairs, t) ==
  /\ len[t] = 1 => left[t] = t /\ right[t] = t
  /\ len[t] # 1 =>
       /\ left[t] \in DOMAIN len /\ right[t] \in DOMAIN len
       /\ left[t] < t /\ right[t] < t
       /\ len[t] = len[left[t]] + len[right[t]]
       /\ <<left[t], right[t]>> \in DOMAIN pairs
       /\ pairs[<<left[t], right[t]>>] = t

(***************************************************************************)
(* The merges below token K, and what they say of the regions of a text of *)
(* n bytes: len[t] is the length of token t, a longer token is its left    *)
(* part followed by its right part, both with lower ranks, and pairs has   *)
(* just these pairs.                                                       *)
(***************************************************************************)
Merged(rank, n, len, left, right, pairs, K) ==
  LET ids == DOMAIN len
  IN  /\ ids \subseteq 0 .. UINT32_MAX - 1
      /\ \A t \in ids : len[t] \in Nat \ {0}
      /\ \A i, j \in 0 .. n : rank[<<i, j>>] # UINT32_MAX =>
           rank[<<i, j>>] \in ids /\ j = i + len[rank[<<i, j>>]]
      /\ \A t \in ids : t < K => SplitsTo(len, left, right, pairs, t)
      /\ \A p \in DOMAIN pairs :
           /\ pairs[p] \in ids /\ pairs[p] < K /\ len[pairs[p]] > 1
           /\ p = <<left[pairs[p]], right[pairs[p]]>>
      /\ \A t \in ids : t < K /\ len[t] > 1 =>
           \A i, m, j \in 0 .. n :
             /\ rank[<<i, j>>] = t /\ m = i + len[left[t]] =>
                  rank[<<i, m>>] = left[t] /\ rank[<<m, j>>] = right[t]
             /\ rank[<<i, m>>] = left[t] /\ rank[<<m, j>>] = right[t] =>
                  rank[<<i, j>>] = t

(***************************************************************************)
(* The loop of bpe_is_valid_token_pair, for all arguments.                 *)
(***************************************************************************)
Checks(valid, ids, left, right, pairs) ==
  \A t1, t2 \in ids, limit \in 0 .. UINT32_MAX :
    valid[<<t1, t2, limit>>] <=>
      /\ ~(<<t1, t2>> \in DOMAIN pairs /\ pairs[<<t1, t2>>] < limit)
      /\ ~(right[t1] = t1 /\ left[t2] = t2) =>
           IF right[t1] # t1 /\ (t1 > t2 \/ left[t2] = t2)
           THEN valid[<<right[t1], t2, t1>>]
           ELSE valid[<<t1, left[t2], t2 + 1>>]

(***************************************************************************)
(* Wherever token t is, the stages before it is complete keep the boundary *)
(* between its parts, and a join of a rank up to t is next.                *)
(***************************************************************************)
MergesTo(rank, n, len, left, t) ==
  \A lo, hi \in 0 .. n : rank[<<lo, hi>>] = t =>
    \A B : IsStage(rank, lo, hi, B) =>
      \/ B = {lo, hi}
      \/ /\ len[t] > 1
         /\ lo + len[left[t]] \in B
         /\ \E i, m, j \in B : Joinable(rank, B, i, m, j) /\ rank[<<i, j>>] <= t

(* A join of a rank below limit and K takes the boundary m away. *)
Broken(rank, l, m, r, limit, K) ==
  \E B : \E i, j \in B :
    /\ IsStage(rank, l, r, B)
    /\ LowestJoin(rank, B, i, m, j)
    /\ rank[<<i, j>>] < limit /\ rank[<<i, j>>] < K
=============================================================================
