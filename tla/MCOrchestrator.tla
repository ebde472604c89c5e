--------------------------- MODULE MCOrchestrator ---------------------------
(* Two calls, each one of two moves of one key with different payloads, the   *)
(* retry of a move, or a compensation of its result: the first, a repeated    *)
(* one, or one made while another is under way.                               *)
EXTENDS Orchestrator
CONSTANTS c1, c2, j1, u1, k1, uk1, p1, up1, p2, up2

Request(job_, key, plan, operation) ==
  [job |-> job_, key |-> key, plan |-> plan, operation |-> operation]

MCMoves == {Request(j1, k1, p, "move") : p \in {p1, p2}}
MCCompensation ==
  [m \in MCMoves |-> Request(u1, uk1, IF m.plan = p1 THEN up1 ELSE up2, "compensate")]

\* The stored job records and the verdict are written and never read by dispatch: neither
\* what is still to come nor a property of the run under this view depends on them.
Seen == <<claims, audit, at, request, job, fresh, boundary, reached, deliveries>>
=============================================================================
