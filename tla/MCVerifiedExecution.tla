------------------------ MODULE MCVerifiedExecution ------------------------
(* Two reporters of one dispatch, or of two dispatches that share a key.     *)
EXTENDS VerifiedExecution, TLC
CONSTANTS r1, r2, q1, q2, k1, e1, e2, x, y, f1, f2, o1, o2

Receipt(request, key, envelope) == [request |-> request, key |-> key, envelope |-> envelope]

MCReceipts    == {Receipt(q1, k1, e1)}
MCReceiptsTwo == {Receipt(q1, k1, e1), Receipt(q2, k1, e2)}
MCKeys        == Methods \X {x} \cup {<<"dispatch", y>>}
MCTimes       == 0..1
Symmetry      == Permutations(Reporters)

\* The locals of a call that has ended are gone: no step reads them again.
Ongoing(r) == IF stage[r] = "idle" THEN Null ELSE <<stage[r], args[r], seen[r]>>
View       == <<tables, clock, [r \in Reporters |-> Ongoing(r)]>>
=============================================================================
