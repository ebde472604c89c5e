--------------------------- MODULE MCClaimLedger ---------------------------
(* A small ledger: two keys, approval documents of different windows, signers  *)
(* and plans (two share an id), one recorded unsigned, one attempted under v1. *)
EXTENDS ClaimLedger
CONSTANTS k1, k2, p1, p2, a1, a2, a3, a4, s1, s2, e1, e2, r1, r2

MCTimes == 0..3

Doc(id, key, plan, signer, genuine, from, to) ==
  [id |-> id, key |-> key, plan |-> plan, signer |-> signer,
   genuine |-> genuine, issuedAt |-> from, expiresAt |-> to]

DocA1   == Doc(a1, k1, p1, s1, TRUE, 0, 3)
DocA1x  == Doc(a1, k1, p2, s1, TRUE, 0, 3)
DocA2   == Doc(a2, k1, p1, s2, TRUE, 1, 2)
DocA2f  == Doc(a2, k1, p1, s1, FALSE, 1, 3)
DocA3   == Doc(a3, k1, p1, s1, TRUE, 0, 3)
DocA4   == Doc(a4, k2, p1, s1, TRUE, 0, 2)

MCApprovals == {DocA1, DocA1x, DocA2, DocA2f, DocA3, DocA4}
MCUnsigned  == {DocA3}
MCLegacy    == {DocA4}

KeyRecord(status, retiredAt) ==
  [status |-> status, notBefore |-> 0, notAfter |-> 3, retiredAt |-> retiredAt]
MCTrustStores ==
  { [s \in {s1, s2} |-> KeyRecord("active", 3)],
    [s \in {s1, s2} |-> IF s = s1 THEN KeyRecord("active", 3) ELSE KeyRecord("retired", 1)],
    [s \in {s1, s2} |-> IF s = s1 THEN KeyRecord("revoked", 3) ELSE KeyRecord("unknown", 3)] }
=============================================================================
