----------------------------- MODULE MCRichTypes -----------------------------
(***************************************************************************)
(* Instances of RichTypes: checkouts t1 and t2 with the same dependencies  *)
(* (a pull request and a later push), t3 without dependency files, and an  *)
(* installer that may rewrite the lockfile f1 into another, which no fresh *)
(* checkout has.                                                           *)
(***************************************************************************)
EXTENDS RichTypes, TLC

CONSTANTS t1, t2, t3, f1

MCPristineFp == [t \in Trees |-> IF t = t3 THEN NoFp ELSE f1]
MCRewrites   == [f \in Fps |-> IF f = f1 THEN Fps \ {f1} ELSE {}]

\* Install threads and request threads are interchangeable.
MCSymmetry == Permutations(Runs) \cup Permutations(Handlers)

=============================================================================
