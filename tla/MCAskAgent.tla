----------------------------- MODULE MCAskAgent -----------------------------
(***************************************************************************)
(* Instances of AskAgent: q1 and q3 about p1, q2 about p2.                 *)
(***************************************************************************)
EXTENDS AskAgent

CONSTANTS q1, q2, q3, p1, p2

MCPrOf == [q \in Questions |-> IF q = q2 THEN p2 ELSE p1]

=============================================================================
