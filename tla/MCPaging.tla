------------------------------ MODULE MCPaging ------------------------------
(* An instance of Paging. *)
EXTENDS Paging

Ln(m, s, j, k) == [match |-> m, size |-> s, json |-> j, key |-> k]

MCLines == {Ln(TRUE, 1, 1, "no"), Ln(TRUE, 2, 2, "no"), Ln(FALSE, 2, 2, "no"),
             Ln(FALSE, 1, 4, "no"), Ln(TRUE, 1, 1, "begin"), Ln(TRUE, 1, 1, "end")}

Sr(b, a, m) == [before |-> b, after |-> a, max |-> m]

MCSearches == {Sr(0, 0, 1), Sr(1, 1, 1), Sr(2, 0, 1), Sr(1, 2, 4)}
=============================================================================
