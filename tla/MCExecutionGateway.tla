------------------------- MODULE MCExecutionGateway -------------------------
(* Two gateway processes and one request, whose receipt the provider dates    *)
(* before, at or after the time it arrives.                                   *)
EXTENDS ExecutionGateway
CONSTANTS r1, r2, q1, k1, e1, f1, f2, o1

MCTimes    == 0..1
MCReceipts == [request : {q1}, key : {k1}, envelope : {e1}, receivedAt : MCTimes]
MCKeys     == Methods \X Requests
=============================================================================
