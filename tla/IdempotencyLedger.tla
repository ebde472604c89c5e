------------------------- MODULE IdempotencyLedger -------------------------
(***************************************************************************)
(* The file-per-key claim ledger of                                        *)
(* src/src/persistence/idempotency-ledger.mjs.  Every method awaits one    *)
(* file operation after another and no lock spans them, so each operator   *)
(* here is one file operation and a caller strings them together.          *)
(***************************************************************************)
EXTENDS Naturals

CONSTANTS
  Keys,   \* idempotency keys: one file each
  Plans,  \* plan fingerprint, provider and operation of a claim's subject
  Null    \* no plan

VARIABLE claims  \* the file of each key

ClaimStates == {"absent", "torn", "claimed", "completed"}
Claims      == [state : ClaimStates, plan : Plans \cup {Null}]

Absent == [state |-> "absent", plan |-> Null]
\* A file that was created and holds no complete record: read() throws on it.
Torn   == [state |-> "torn", plan |-> Null]

ClaimsTypeOK == claims \in [Keys -> Claims]

ClaimsInit == claims = [k \in Keys |-> Absent]

\* What read() followed by sameSubject() finds for a plan.
SameSubject(key, plan) ==
  claims[key].state \in {"claimed", "completed"} /\ claims[key].plan = plan

HoldsClaim(key, plan) == SameSubject(key, plan) /\ claims[key].state = "claimed"

Put(key, file) == claims' = [claims EXCEPT ![key] = file]

\* A mutant of CreateClaim: the file is opened without the exclusive flag.
CreateClaimShared(key) == Put(key, Torn)

\* claim(): writeFile with flag 'wx' creates the file, exclusively, ...
CreateClaim(key) == claims[key].state = "absent" /\ Put(key, Torn)

\* ... and then writes the record into it.
WriteClaim(key, plan) == Put(key, [state |-> "claimed", plan |-> plan])

\* release(), after its read: unlink whatever file is there by now.
UnlinkClaim(key) == claims[key].state # "absent" /\ Put(key, Absent)

\* complete(), after its read: rename the finished record over the file.
RenameCompleted(key, plan) == Put(key, [state |-> "completed", plan |-> plan])
=============================================================================
