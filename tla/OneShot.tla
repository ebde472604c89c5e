------------------------------ MODULE OneShot ------------------------------
(* What the fence promises (src/docs/CLAIM_LEDGER.md, "Truth boundary"): for  *)
(* each idempotency key the right to mutate is reserved at most once, the    *)
(* provider is entered at most once, only after the reservation, and an      *)
(* outcome is recorded at most once, only after the provider was entered.    *)
EXTENDS Naturals

CONSTANT Keys

VARIABLES reserved,  \* keys whose single transport attempt is durably taken
          entered,   \* how often transport.dispatch was called, by key
          outcome    \* the recorded provider answer, by key

vars == <<reserved, entered, outcome>>

Outcomes == {"accepted", "rejected"}

Init ==
  /\ reserved \in SUBSET Keys
  /\ entered = [k \in Keys |-> IF k \in reserved THEN 1 ELSE 0]
  /\ outcome = [k \in Keys |-> "unknown"]

Reserve(k) ==
  /\ k \notin reserved
  /\ reserved' = reserved \cup {k}
  /\ UNCHANGED <<entered, outcome>>

Enter(k) ==
  /\ k \in reserved
  /\ entered[k] = 0
  /\ entered' = [entered EXCEPT ![k] = 1]
  /\ UNCHANGED <<reserved, outcome>>

Record(k, o) ==
  /\ entered[k] = 1
  /\ outcome[k] = "unknown"
  /\ outcome' = [outcome EXCEPT ![k] = o]
  /\ UNCHANGED <<reserved, entered>>

Next == \E k \in Keys : Reserve(k) \/ Enter(k) \/ \E o \in Outcomes : Record(k, o)

Spec == Init /\ [][Next]_vars
=============================================================================
