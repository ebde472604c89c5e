------------------------- MODULE MCColossusDispatch -------------------------
(* Two calls in processes of their own competing for a key, with approvals of *)
(* different signers, one of whose signing keys gets revoked.                 *)
EXTENDS ColossusDispatch, TLC
CONSTANTS k1, p1, a1, a2, s1, s2, r1, w1, w2

MCTimes == 0..1

Doc(id, key, plan, signer, from, to) ==
  [id |-> id, key |-> key, plan |-> plan, signer |-> signer,
   genuine |-> TRUE, issuedAt |-> from, expiresAt |-> to]

\* Two approvals for the same key, the second under a signer that is revoked
\* in the later key records; both are in force at 0 and expired at 1.
MCApprovals == {Doc(a1, k1, p1, s1, 0, 1), Doc(a2, k1, p1, s2, 0, 1)}

KeyRecord(status) == [status |-> status, notBefore |-> 0, notAfter |-> 1, retiredAt |-> 1]
MCTrustStores ==
  { [s \in {s1, s2} |-> KeyRecord("active")],
    [s \in {s1, s2} |-> IF s = s1 THEN KeyRecord("retired") ELSE KeyRecord("revoked")] }

MCEnvelopes == EnvelopeShape
=============================================================================
