--------------------------- MODULE MCVerticalSlice ---------------------------
(* Two calls, each one of two moves of one key with different payloads, its    *)
(* retry or a compensation of its result, with an approval for each move and   *)
(* one for the first compensation.                                            *)
EXTENDS VerticalSlice, TLC
CONSTANTS c1, c2, j1, u1, k1, uk1, p1, p2, up1, up2, a1, a2, a3, s1, r1

Request(job_, key, plan, operation) ==
  [job |-> job_, key |-> key, plan |-> plan, operation |-> operation]
MCMoves == {Request(j1, k1, p, "move") : p \in {p1, p2}}
MCCompensation ==
  [m \in MCMoves |-> Request(u1, uk1, IF m.plan = p1 THEN up1 ELSE up2, "compensate")]

MCTimes == 0..1

Approval(id, key, job_, plan) ==
  [id |-> id, key |-> key, plan |-> [job |-> job_, plan |-> plan], signer |-> s1,
   genuine |-> TRUE, issuedAt |-> 0, expiresAt |-> 1]

MCApprovals ==
  {Approval(a1, k1, j1, p1), Approval(a2, uk1, u1, up1), Approval(a3, k1, j1, p2)}

MCTrustStores ==
  {[s \in {s1} |-> [status |-> "active", notBefore |-> 0, notAfter |-> 1, retiredAt |-> 1]]}
MCEnvelopes == [key : Keys, plan : Bindings, createdAt : MCTimes]
Symmetry == Permutations(Calls)

\* What still matters of a call: nothing of one that has ended, and the gateway's side of
\* it only while the orchestrator waits for the gateway.  The job records and the verdict
\* are written and never read, the audit only for the results it is evidence of.
Outer(c) ==
  IF at[c] \in Resting THEN "resting"
  ELSE <<at[c], request[c], job[c], fresh[c], boundary[c], reached[c], given[c]>>
Inner(c) == IF at[c] = "gateway" THEN <<pc[c], call[c]>> ELSE <<pc[c] = "down">>

Underway ==
  <<claims, Results, deliveries, approvals, permits, schema, attempts, trust, clock, keyring,
    entries, [c \in Calls |-> <<Outer(c), Inner(c)>>]>>
=============================================================================
