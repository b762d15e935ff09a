-------------------------- MODULE MCSemanticTokens --------------------------
(* Small instances of SemanticTokens.                                       *)
EXTENDS SemanticTokens, TLC

(* With these, edits insert, delete and replace; the last one is oversized. *)
TokenArrays == {<<1>>, <<1, 1>>, <<1, 2, 1>>, <<1, 2, 1, 1, 1>>}

(* Every single rename, and every swap.                                     *)
OneOrTwoFiles ==
  {[v \in {u} |-> w] : u \in Uris, w \in Uris}
    \cup {[v \in {u, w} |-> IF v = u THEN w ELSE u] : u \in Uris, w \in Uris}

Symmetries == Permutations(Uris) \cup Permutations(Calls)
=============================================================================
