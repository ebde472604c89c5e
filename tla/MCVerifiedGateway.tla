------------------------- MODULE MCVerifiedGateway -------------------------
(* Two gateway processes, one approval, one request, whose receipt the        *)
(* provider dates before, at or after the time it arrives.                    *)
EXTENDS VerifiedGateway
CONSTANTS r1, r2, k1, p1, a1, s1, f1, f2, o1, x1

MCTimes     == 0..1
MCRequests  == [key : {k1}, plan : {p1}]
MCEnvelopes == [key : Keys, plan : Plans, createdAt : MCTimes]
MCReceipts  == [request : MCRequests, key : {k1}, envelope : MCEnvelopes, receivedAt : MCTimes]
MCKeys      == Methods \X MCRequests

MCApprovals ==
  {[id |-> a1, key |-> k1, plan |-> p1, signer |-> s1, genuine |-> TRUE,
    issuedAt |-> 0, expiresAt |-> 1]}
MCTrustStores ==
  {[s \in {s1} |-> [status |-> "active", notBefore |-> 0, notAfter |-> 1, retiredAt |-> 1]]}

\* No step reads the locals of a call that has ended, and no step or property
\* asks how it ended, but for what its caller was told.
Told(r)      == step[r] \in {"confirmed", "reconciled"}
Fencing(r)   == IF pc[r] \in D!Working THEN <<pc[r], call[r]>> ELSE <<pc[r] = "down">>
Recording(r) == IF step[r] \notin Resting THEN <<step[r], stage[r], args[r], seen[r], outcome[r]>>
                ELSE IF Told(r) THEN <<step[r], args[r].request, args[r].evidence>> ELSE <<>>
View == <<tables, clock, answered, approvals, permits, schema, attempts, deliveries,
          [r \in Reporters |-> <<Fencing(r), Recording(r)>>]>>
=============================================================================
