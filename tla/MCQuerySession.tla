--------------------------- MODULE MCQuerySession ---------------------------
(* Two functions, edited, removed and added again, over a few texts.        *)
EXTENDS QuerySession

CONSTANTS f, g

\* Two bodies that differ in what was parsed but not in what optimize_function
\* leaves (0 + 0 against 0 - 0), and one that differs in all.
lit   == [raw |-> "zero+zero", listed |-> "0", leftover |-> "zeroes"]
same  == [raw |-> "zero-zero", listed |-> "0", leftover |-> "zeroes"]
big   == [raw |-> "9", listed |-> "9", leftover |-> "nothing"]

Fun(n, b) == [name |-> n, body |-> b]

Text(layout, fns) == [layout |-> layout, fns |-> fns]

BadText == [layout |-> "bad", fns |-> <<>>]

Texts ==
    { Text("plain", <<Fun(f, lit), Fun(g, big)>>),
      Text("plain", <<Fun(f, lit), Fun(f, big)>>),   \* f twice
      Text("plain", <<Fun(f, same), Fun(g, big)>>),
      Text("plain", <<Fun(f, big), Fun(g, big)>>),
      Text("plain", <<Fun(g, big)>>),
      BadText }
=============================================================================
