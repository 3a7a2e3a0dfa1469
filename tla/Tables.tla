------------------------------- MODULE Tables -------------------------------
(* Operators on sequences and on functions, which stand for tables.            *)
EXTENDS Integers, Sequences

(* Of a sequence, what is in a set, in its order.                             *)
Selected(s, S) ==
  LET selected[i \in 0..Len(s)] ==
        IF i = 0 THEN <<>>
        ELSE IF s[i] \in S THEN Append(selected[i - 1], s[i]) ELSE selected[i - 1]
  IN  selected[Len(s)]

(* Tables are functions: of two, the first counts; a row is put in.           *)
Merge(f, g) == [z \in DOMAIN f \cup DOMAIN g |-> IF z \in DOMAIN f THEN f[z] ELSE g[z]]
Put(f, x, y) == [z \in DOMAIN f \cup {x} |-> IF z = x THEN y ELSE f[z]]
=============================================================================
