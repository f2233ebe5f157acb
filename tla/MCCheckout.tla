----------------------------- MODULE MCCheckout -----------------------------
(* Instances of Checkout for TLC. *)
EXTENDS Checkout, TLC

\* NUMERIC(12,2) pads "999", keeps "999.00" and "5.00", and refuses "abc" and
\* "1e12".
Column(a) ==
  CASE a = "999" -> "999.00" [] a \in {"abc", "1e12"} -> NoAmount [] OTHER -> a

MCAmounts == {"999", "999.00", "5.00", "abc", "1e12"}
MCOverflows == {"1e12"}
MCNumeric == [a \in MCAmounts |-> Column(a)]

\* Two amounts that differ in worth.
MCPairAmounts == {"999.00", "5.00"}
MCPairNumeric == [a \in MCPairAmounts |-> Column(a)]

\* One amount, where the question is not about amounts.
MCOneAmount == {"5.00"}
MCOneNumeric == [a \in MCOneAmount |-> Column(a)]

Symmetry == Permutations(Clients)
=============================================================================
