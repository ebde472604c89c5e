------------------------------ MODULE KeyClaim ------------------------------
(* What a claim of the orchestrator promises for each idempotency key        *)
(* (src/docs/SPEC.md, "one-mutation idempotency"): it is taken for one plan,  *)
(* may be given back as long as nothing was sent under it, covers one         *)
(* mutation, and is finished after that mutation and for good.                *)
EXTENDS Naturals

CONSTANTS Keys, Plans, Null

VARIABLES subject,    \* the plan each key is claimed for
          mutations,  \* how often the provider was reached, by key
          finished    \* keys whose mutation is known to be done

vars == <<subject, mutations, finished>>

Init ==
  /\ subject = [k \in Keys |-> Null]
  /\ mutations = [k \in Keys |-> 0]
  /\ finished = {}

Take(k, p) ==
  /\ subject[k] = Null
  /\ subject' = [subject EXCEPT ![k] = p]
  /\ UNCHANGED <<mutations, finished>>

GiveBack(k) ==
  /\ subject[k] # Null /\ mutations[k] = 0
  /\ subject' = [subject EXCEPT ![k] = Null]
  /\ UNCHANGED <<mutations, finished>>

Mutate(k) ==
  /\ subject[k] # Null /\ mutations[k] = 0
  /\ mutations' = [mutations EXCEPT ![k] = 1]
  /\ UNCHANGED <<subject, finished>>

Finish(k) ==
  /\ mutations[k] = 1 /\ k \notin finished
  /\ finished' = finished \cup {k}
  /\ UNCHANGED <<subject, mutations>>

Next == \E k \in Keys : (\E p \in Plans : Take(k, p)) \/ GiveBack(k) \/ Mutate(k) \/ Finish(k)

Spec == Init /\ [][Next]_vars
=============================================================================
