------------------------ MODULE ReconciledExecution ------------------------
(* What the execution ledger promises for each request                       *)
(* (src/docs/EXECUTION_LEDGER.md): one dispatch of it, with an idempotency   *)
(* key and an envelope of its own, and then one path, on which acceptance,   *)
(* attempt, confirmation and reconciliation stay apart and only an           *)
(* observation of the very state that was confirmed reconciles.              *)
CONSTANTS Requests, Receipts, Prints, Null

VARIABLES
  dispatched, \* the receipt each request was dispatched under
  standing,   \* how far it is
  confirmed,  \* the fingerprint the provider confirmed
  observed    \* the fingerprint that was observed in the end

vars == <<dispatched, standing, confirmed, observed>>

Init ==
  /\ dispatched = [q \in Requests |-> Null]
  /\ standing = [q \in Requests |-> "none"]
  /\ confirmed = [q \in Requests |-> Null]
  /\ observed = [q \in Requests |-> Null]

Moves(q, from, to) ==
  /\ standing[q] = from
  /\ standing' = [standing EXCEPT ![q] = to]

Dispatch(receipt) ==
  /\ Moves(receipt.request, "none", "dispatched")
  /\ \A p \in Requests : dispatched[p] # Null =>
       dispatched[p].key # receipt.key /\ dispatched[p].envelope # receipt.envelope
  /\ dispatched' = [dispatched EXCEPT ![receipt.request] = receipt]
  /\ UNCHANGED <<confirmed, observed>>

Attempt(q) ==
  /\ Moves(q, "dispatched", "attempted")
  /\ UNCHANGED <<dispatched, confirmed, observed>>

Confirm(q, print) ==
  /\ Moves(q, "attempted", "provider_confirmed")
  /\ confirmed' = [confirmed EXCEPT ![q] = print]
  /\ UNCHANGED <<dispatched, observed>>

Start(q) ==
  /\ Moves(q, "provider_confirmed", "reconciling")
  /\ UNCHANGED <<dispatched, confirmed, observed>>

Observe(q, print) ==
  /\ Moves(q, "reconciling", IF print = confirmed[q] THEN "reconciled" ELSE "recovery_required")
  /\ observed' = [observed EXCEPT ![q] = print]
  /\ UNCHANGED <<dispatched, confirmed>>

Next ==
  \/ \E receipt \in Receipts : Dispatch(receipt)
  \/ \E q \in Requests :
       Attempt(q) \/ Start(q) \/ \E print \in Prints : Confirm(q, print) \/ Observe(q, print)

Spec == Init /\ [][Next]_vars
=============================================================================
