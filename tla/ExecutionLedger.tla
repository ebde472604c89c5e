-------------------------- MODULE ExecutionLedger --------------------------
(***************************************************************************)
(* The execution and reconciliation ledger of                              *)
(* src/src/ledger/sqlite-execution-ledger.mjs: an operation per accepted   *)
(* dispatch and an append-only chain of events for each.  Every method     *)
(* runs in one BEGIN IMMEDIATE transaction and is one action here.  A call *)
(* the code refuses changes no row and is not enabled.                     *)
(***************************************************************************)
EXTENDS Integers, Sequences, FiniteSets

CONSTANTS
  Requests,    \* request identities; an operation is named by its request
  Receipts,    \* dispatched receipts: request, idempotency key, envelope, identity
  TransitionKeys, \* pairs of a method and what tells its keys apart
  Prints,      \* fingerprints of provider states
  Observers,   \* observation methods
  Times,       \* readings of clocks
  Null         \* SQL NULL, and an absent row

VARIABLES
  operations,  \* table execution_operations, by request
  events       \* table execution_events, by operation, in order of sequence

tables == <<operations, events>>

Methods == {"dispatch", "attempt", "confirmation", "start", "result"}

\* The state a method expects; recordDispatched expects no operation.
Expected == [attempt |-> "dispatched", confirmation |-> "attempted",
             start |-> "provider_confirmed", result |-> "reconciling"]

\* What each method is told and what its event stores.
Attempts      == [startedAt : Times]
Confirmations == [after : Prints, confirmedAt : Times]
Starts        == [observer : Observers, startedAt : Times]
Results       == [observer : Observers, expected : Prints, observed : Prints,
                  matches : BOOLEAN, observedAt : Times]

Evidence(method) ==
  CASE method = "dispatch"     -> Receipts
    [] method = "attempt"      -> Attempts
    [] method = "confirmation" -> Confirmations
    [] method = "start"        -> Starts
    [] method = "result"       -> Results

\* The state a transition leads to.
TargetState(method, evidence) ==
  CASE method = "dispatch"     -> "dispatched"
    [] method = "attempt"      -> "attempted"
    [] method = "confirmation" -> "provider_confirmed"
    [] method = "start"        -> "reconciling"
    [] method = "result"       -> IF evidence.matches THEN "reconciled" ELSE "recovery_required"

STATES == {"dispatched", "attempted", "provider_confirmed", "reconciling", "reconciled",
           "recovery_required"}

OperationRows == [receipt : Receipts, state : STATES, version : Nat, updatedAt : Times]
EventRows     == [key : TransitionKeys, method : Methods, from : STATES \cup {Null}, to : STATES,
                  evidence : UNION {Evidence(m) : m \in Methods}, occurredAt : Times]

ASSUME KeysAssumption    == \A key \in TransitionKeys : key[1] \in Methods
ASSUME TimesAssumption   == Times \subseteq Nat
ASSUME ReceiptAssumption == \A receipt \in Receipts : receipt.request \in Requests
ASSUME NullAssumption    == Null \notin OperationRows /\ Null \notin STATES

TypeOK ==
  /\ operations \in [Requests -> OperationRows \cup {Null}]
  /\ \A q \in Requests : \A i \in 1..Len(events[q]) : events[q][i] \in EventRows

-----------------------------------------------------------------------------
\* The event recorded under a transition key, of whatever operation.
Recorded(key) ==
  {e \in UNION {{<<q, i>> : i \in 1..Len(events[q])} : q \in Requests} : events[e[1]][e[2]].key = key}

\* existingTransition: the key was used for exactly this.
IsReplay(q, key, evidence) ==
  \E e \in Recorded(key) :
    e[1] = q /\ events[q][e[2]].method = key[1] /\ events[q][e[2]].evidence = evidence

\* Mutants of Append_, SameIdentity and Transition: the sequence is reversed, only
\* the request identifies a dispatch, the version is not raised.
AppendFirst(q, key, evidence, from, now) ==
  events' = [events EXCEPT ![q] =
    <<[key |-> key, method |-> key[1], from |-> from, to |-> TargetState(key[1], evidence),
       evidence |-> evidence, occurredAt |-> now]>> \o @]
SameRequest(receipt) ==
  {q \in Requests : operations[q] # Null /\ operations[q].receipt.request = receipt.request}

Append_(q, key, evidence, from, now) ==
  events' = [events EXCEPT ![q] = Append(@,
    [key |-> key, method |-> key[1], from |-> from, to |-> TargetState(key[1], evidence),
     evidence |-> evidence, occurredAt |-> now])]

\* Rows that share the request, the idempotency key or the envelope of a receipt.
SameIdentity(receipt) ==
  {q \in Requests :
     /\ operations[q] # Null
     /\ LET other == operations[q].receipt IN
          \/ other.request = receipt.request
          \/ other.key = receipt.key
          \/ other.envelope = receipt.envelope}

CanDispatch(receipt, key) == Recorded(key) = {} /\ SameIdentity(receipt) = {}

\* The same receipt again finds its operation, under the old key or a new one.
CanReplayDispatch(receipt, key) ==
  \/ IsReplay(receipt.request, key, receipt)
  \/ Recorded(key) = {} /\ \E q \in SameIdentity(receipt) : operations[q].receipt = receipt

RecordDispatched(receipt, key, now) ==
  \/ CanReplayDispatch(receipt, key) /\ UNCHANGED tables
  \/ /\ CanDispatch(receipt, key)
     /\ operations' = [operations EXCEPT ![receipt.request] =
          [receipt |-> receipt, state |-> "dispatched", version |-> 1, updatedAt |-> now]]
     /\ Append_(receipt.request, key, receipt, Null, now)

\* A mutant of CanTransition: an operation moves from wherever it stands.
CanTransitionAnywhere(q, key) == operations[q] # Null /\ Recorded(key) = {}

CanTransition(q, key) ==
  operations[q] # Null /\ Recorded(key) = {} /\ operations[q].state = Expected[key[1]]

TransitionUncounted(q, key, evidence, now) ==
  /\ CanTransition(q, key)
  /\ operations' = [operations EXCEPT ![q].state = TargetState(key[1], evidence),
                                      ![q].updatedAt = now]
  /\ Append_(q, key, evidence, operations[q].state, now)

\* recordAttempt, recordProviderConfirmation, startReconciliation and
\* completeReconciliation.
Transition(q, key, evidence, now) ==
  \/ operations[q] # Null /\ IsReplay(q, key, evidence) /\ UNCHANGED tables
  \/ /\ CanTransition(q, key)
     /\ operations' = [operations EXCEPT ![q].state = TargetState(key[1], evidence),
                                         ![q].version = @ + 1, ![q].updatedAt = now]
     /\ Append_(q, key, evidence, operations[q].state, now)

TablesInit ==
  /\ operations = [q \in Requests |-> Null]
  /\ events = [q \in Requests |-> <<>>]

\* The last event of a method, as getEvents and find return it.
HasEvent(chain, method) == \E i \in 1..Len(chain) : chain[i].method = method
LastEvidence(chain, method) ==
  chain[CHOOSE i \in 1..Len(chain) :
          /\ chain[i].method = method
          /\ \A j \in 1..Len(chain) : chain[j].method = method => j <= i].evidence

-----------------------------------------------------------------------------
(* Properties of the tables, whoever writes them.                           *)

\* What verifyEventChain verifies: the chain is as long as the operation's
\* version, starts at the dispatch, each event starts where the one before it
\* ended, and the operation stands where its last event put it.
ChainIsWhole ==
  \A q \in Requests :
    IF operations[q] = Null THEN events[q] = <<>>
    ELSE /\ Len(events[q]) = operations[q].version
         /\ events[q][1].from = Null
         /\ \A i \in 2..Len(events[q]) : events[q][i].from = events[q][i - 1].to
         /\ events[q][Len(events[q])].to = operations[q].state
         /\ events[q][Len(events[q])].occurredAt = operations[q].updatedAt

\* A transition key stands for one event of one operation, and a dispatch
\* identity for one operation, however often and by whomever they are reported.
IdentitiesAreSingle ==
  /\ \A key \in TransitionKeys : Cardinality(Recorded(key)) <= 1
  /\ \A p, q \in Requests :
       p # q /\ operations[p] # Null /\ operations[q] # Null =>
         /\ operations[p].receipt.key # operations[q].receipt.key
         /\ operations[p].receipt.envelope # operations[q].receipt.envelope

\* Events are only ever appended, one at a time; a finished operation stands.
ChainIsAppendOnly ==
  [][\A q \in Requests :
       /\ Len(events'[q]) \in Len(events[q])..(Len(events[q]) + 1)
       /\ SubSeq(events'[q], 1, Len(events[q])) = events[q]
       /\ operations[q] # Null /\ operations[q].state \in {"reconciled", "recovery_required"} =>
            operations'[q] = operations[q]]_tables
=============================================================================
