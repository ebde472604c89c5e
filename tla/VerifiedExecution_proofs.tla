---------------------- MODULE VerifiedExecution_proofs ----------------------
(***************************************************************************)
(* Proofs about the execution ledger and its verified facade, for any      *)
(* number of reporters, operations, keys and receipts.  An operation walks *)
(* one path, so its chain has at each position the method of that          *)
(* position.  What a reporter has read of a chain stays true while others  *)
(* write, and that makes checks before the transaction sufficient.         *)
(***************************************************************************)
EXTENDS VerifiedExecution, FiniteSetTheorems, SequenceTheorems, TLAPS

Typed ==
  /\ operations \in [Requests -> OperationRows \cup {Null}]
  /\ events \in [Requests -> Seq(EventRows)]

\* The methods in the order in which an operation lives through them.
Order == <<"dispatch", "attempt", "confirmation", "start", "result">>

\* The event at each position is of the method of that position, and the
\* operation stands where that method leads to.
ChainIsLinear ==
  \A q \in Requests :
    /\ Len(events[q]) <= 5
    /\ \A i \in 1..Len(events[q]) : events[q][i].method = Order[i]
    /\ operations[q] # Null =>
         /\ Len(events[q]) >= 1
         /\ operations[q].receipt.request = q
         /\ operations[q].receipt = events[q][1].evidence
         /\ LET last == events[q][Len(events[q])] IN
              operations[q].state = TargetState(last.method, last.evidence)

KeysAreUsedOnce ==
  \A p, q \in Requests : \A i \in 1..Len(events[p]), j \in 1..Len(events[q]) :
    events[p][i].key = events[q][j].key => p = q /\ i = j

DispatchesDiffer ==
  \A p, q \in Requests :
    p # q /\ operations[p] # Null /\ operations[q] # Null =>
      /\ operations[p].receipt.key # operations[q].receipt.key
      /\ operations[p].receipt.envelope # operations[q].receipt.envelope

\* What each method demands of the result of an operation that ended.
ResultsFit ==
  \A q \in Requests :
    Len(events[q]) = 5 =>
      LET result == events[q][5].evidence IN
      /\ result.expected = events[q][3].evidence.after
      /\ result.observer = events[q][4].evidence.observer
      /\ result.matches = (result.observed = result.expected)

TablesInv ==
  /\ Typed
  /\ ChainIsWhole
  /\ ChainIsLinear
  /\ KeysAreUsedOnce
  /\ DispatchesDiffer
  /\ ResultsFit

\* A call has arguments that belong to its method, and a result that is about
\* to be stored fits what its reporter read, which still stands.
CallFits(r) ==
  stage[r] # "idle" =>
    /\ args[r] \in CallArgs
    /\ args[r].key[1] = "dispatch" => args[r].request = args[r].evidence.request
    /\ stage[r] = "commit" /\ args[r].key[1] = "result" =>
         LET chain == events[args[r].request]
             result == args[r].evidence
         IN /\ Len(chain) >= 4
            /\ result.expected = chain[3].evidence.after
            /\ result.observer = chain[4].evidence.observer
            /\ result.matches = (result.observed = result.expected)

RInv ==
  /\ TablesInv
  /\ stage \in [Reporters -> {"idle", "operation", "events", "commit"}]
  /\ args \in [Reporters -> CallArgs \cup {Null}]
  /\ seen \in [Reporters -> OperationRows \cup {Null}]
  /\ outcome \in [Reporters -> {"none", "done", "thrown"}]
  /\ clock \in Times
  /\ \A r \in Reporters : CallFits(r)

\* A reporter's process dies: its call is gone.
Drops(r) ==
  /\ Goto(r, "idle")
  /\ args' = [args EXCEPT ![r] = Null]
  /\ seen' = [seen EXCEPT ![r] = Null]
  /\ outcome' = [outcome EXCEPT ![r] = "none"]
  /\ UNCHANGED <<tables, clock>>

\* A report of anything, true or not, at whatever time the caller gives it.
Reports(r) ==
  \E key \in TransitionKeys, request \in Requests, now \in Times : \E evidence \in Evidence(key[1]) :
    /\ key[1] = "dispatch" => request = evidence.request
    /\ Report(r, request, key, evidence, now)

\* All that any caller of the facade may do; its users do less.
AnyStep == Tick \/ \E r \in Reporters : CallNext(r) \/ Drops(r) \/ Reports(r)

-----------------------------------------------------------------------------
(* Chains.                                                                  *)

\* Which events a key has.
LEMMA RecordedMembers ==
  ASSUME NEW key
  PROVE  /\ Recorded(key) = {} <=>
              \A q \in Requests : \A i \in 1..Len(events[q]) : events[q][i].key # key
         /\ \A e \in Recorded(key) :
              /\ e[1] \in Requests /\ e[2] \in 1..Len(events[e[1]]) /\ e = <<e[1], e[2]>>
              /\ events[e[1]][e[2]].key = key
<1>1. ASSUME NEW q \in Requests, NEW i \in 1..Len(events[q]), events[q][i].key = key
      PROVE  <<q, i>> \in Recorded(key)
  BY <1>1 DEF Recorded
<1>2. ASSUME NEW e \in Recorded(key)
      PROVE  /\ e[1] \in Requests /\ e[2] \in 1..Len(events[e[1]]) /\ e = <<e[1], e[2]>>
             /\ events[e[1]][e[2]].key = key
  BY <1>2 DEF Recorded
<1> QED
  BY <1>1, <1>2

\* Keys that are used once have at most one event.
LEMMA RecordedOnce ==
  ASSUME KeysAreUsedOnce, NEW key
  PROVE  Cardinality(Recorded(key)) <= 1
<1>1. CASE Recorded(key) = {}
  BY <1>1, FS_EmptySet
<1>2. CASE Recorded(key) # {}
  <2>1. PICK e \in Recorded(key) : TRUE
    BY <1>2
  <2>2. \A f \in Recorded(key) : f = e
    BY RecordedMembers DEF KeysAreUsedOnce
  <2>3. Recorded(key) = {e}
    BY <2>1, <2>2
  <2> QED
    BY <2>3, FS_Singleton
<1> QED
  BY <1>1, <1>2

\* In a linear chain the last event of a method is the one at its position.
LEMMA LastOfMethod ==
  ASSUME NEW chain \in Seq(EventRows), NEW n \in 1..5, n <= Len(chain), Len(chain) <= 5,
         \A i \in 1..Len(chain) : chain[i].method = Order[i]
  PROVE  /\ HasEvent(chain, Order[n])
         /\ LastEvidence(chain, Order[n]) = chain[n].evidence
<1>1. n \in 1..Len(chain) /\ Len(chain) \in Nat
  OBVIOUS
<1>2. \A i \in 1..Len(chain) : chain[i].method = Order[n] <=> i = n
  BY <1>1 DEF Order
<1>3. HasEvent(chain, Order[n])
  BY <1>1, <1>2 DEF HasEvent
<1> DEFINE P(i) == /\ chain[i].method = Order[n]
                   /\ \A j \in 1..Len(chain) : chain[j].method = Order[n] => j <= i
<1>4. \A i \in 1..Len(chain) : P(i) <=> i = n
  BY <1>1, <1>2
<1>5. (CHOOSE i \in 1..Len(chain) : P(i)) = n
  <2> HIDE DEF P
  <2> QED
    BY <1>1, <1>4
<1> QED
  BY <1>3, <1>5 DEF LastEvidence

\* A chain that has an event of a method is as long as its position.
LEMMA LongEnough ==
  ASSUME NEW chain \in Seq(EventRows), NEW n \in 1..5, Len(chain) <= 5,
         \A i \in 1..Len(chain) : chain[i].method = Order[i],
         HasEvent(chain, Order[n])
  PROVE  n <= Len(chain)
<1>1. PICK i \in 1..Len(chain) : chain[i].method = Order[n]
  BY DEF HasEvent
<1>2. i = n
  BY <1>1 DEF Order
<1> QED
  BY <1>1, <1>2

-----------------------------------------------------------------------------
(* What a transaction does to the tables.                                   *)

Extends(q, row, op) ==
  /\ events' = [events EXCEPT ![q] = Append(@, row)]
  /\ operations' = [operations EXCEPT ![q] = op]

\* A new operation with its first event.
Opens(q, row, op) ==
  /\ operations[q] = Null
  /\ row.method = "dispatch" /\ row.from = Null /\ row.to = "dispatched"
  /\ op.version = 1 /\ op.receipt.request = q /\ op.receipt = row.evidence
  /\ SameIdentity(op.receipt) = {}

\* The next event of an operation.
Continues(q, row, op) ==
  /\ operations[q] # Null
  /\ row.method \in Methods \ {"dispatch"}
  /\ operations[q].state = Expected[row.method]
  /\ row.from = operations[q].state
  /\ row.to = TargetState(row.method, row.evidence)
  /\ op.version = operations[q].version + 1 /\ op.receipt = operations[q].receipt

TableStep(q, row, op) ==
  /\ Extends(q, row, op)
  /\ Recorded(row.key) = {}
  /\ op.state = row.to /\ op.updatedAt = row.occurredAt
  /\ Opens(q, row, op) \/ Continues(q, row, op)

\* States are where transitions lead.
LEMMA TargetTyped ==
  ASSUME NEW method \in Methods, NEW evidence
  PROVE  TargetState(method, evidence) \in STATES
BY DEF TargetState, STATES, Methods

\* One event more, at the end of one chain.
LEMMA Extended ==
  ASSUME Typed, NEW q \in Requests, NEW row \in EventRows, NEW op \in OperationRows,
         Extends(q, row, op)
  PROVE  /\ Typed'
         /\ operations'[q] = op /\ op # Null
         /\ \A p \in Requests \ {q} : operations'[p] = operations[p] /\ events'[p] = events[p]
         /\ Len(events'[q]) = Len(events[q]) + 1 /\ Len(events[q]) \in Nat
         /\ events'[q][Len(events[q]) + 1] = row
         /\ \A i \in 1..Len(events[q]) : events'[q][i] = events[q][i]
<1>1. events[q] \in Seq(EventRows) /\ events'[q] = Append(events[q], row)
  BY DEF Typed, Extends
<1>2. op # Null
  BY NullAssumption
<1> QED
  BY <1>1, <1>2 DEF Typed, Extends

\* The arguments of a call, one by one.
LEMMA ArgsTyped ==
  ASSUME NEW a \in CallArgs
  PROVE  /\ a.request \in Requests /\ a.key \in TransitionKeys /\ a.key[1] \in Methods
         /\ a.evidence \in Evidence(a.key[1]) /\ a.now \in Times
<1>1. PICK key \in TransitionKeys :
        a \in [request : Requests, key : {key}, evidence : Evidence(key[1]), now : Times]
  BY DEF CallArgs
<1>2. a.request \in Requests /\ a.key = key /\ a.evidence \in Evidence(key[1]) /\ a.now \in Times
  BY <1>1
<1> QED
  BY <1>2, KeysAssumption

\* A first report of a dispatch opens an operation.
LEMMA DispatchStep ==
  ASSUME TablesInv, NEW receipt \in Receipts, NEW key \in TransitionKeys, key[1] = "dispatch",
         NEW now \in Times, RecordDispatched(receipt, key, now)
  PROVE  \/ UNCHANGED tables
         \/ \E row \in EventRows, op \in OperationRows :
              row.method = key[1] /\ row.evidence = receipt /\ row.occurredAt = now
              /\ receipt.request \in Requests /\ TableStep(receipt.request, row, op)
<1> SUFFICES ASSUME CanDispatch(receipt, key),
                    operations' = [operations EXCEPT ![receipt.request] =
                      [receipt |-> receipt, state |-> "dispatched", version |-> 1,
                       updatedAt |-> now]],
                    Append_(receipt.request, key, receipt, Null, now)
             PROVE  \E row \in EventRows, op \in OperationRows :
                      row.method = key[1] /\ row.evidence = receipt /\ row.occurredAt = now
                      /\ receipt.request \in Requests /\ TableStep(receipt.request, row, op)
  BY DEF RecordDispatched
<1> DEFINE op == [receipt |-> receipt, state |-> "dispatched", version |-> 1, updatedAt |-> now]
           row == [key |-> key, method |-> key[1], from |-> Null,
                   to |-> TargetState(key[1], receipt), evidence |-> receipt, occurredAt |-> now]
<1>1. receipt.request \in Requests
  BY ReceiptAssumption
<1>2. op \in OperationRows
  BY DEF OperationRows, STATES
<1>3. TargetState(key[1], receipt) = "dispatched"
  BY DEF TargetState
<1>4. row \in EventRows
  <2>1. receipt \in UNION {Evidence(m) : m \in Methods}
    BY DEF Evidence, Methods
  <2> QED
    BY <1>3, <2>1 DEF EventRows, Methods, STATES
<1>5. operations[receipt.request] = Null
  BY <1>1 DEF CanDispatch, SameIdentity, TablesInv, ChainIsLinear
<1>6. TableStep(receipt.request, row, op)
  BY <1>3, <1>5 DEF TableStep, Extends, Opens, Append_, CanDispatch
<1> QED
  BY <1>1, <1>2, <1>4, <1>6

\* A first report of anything else continues an operation.
LEMMA TransitionStep ==
  ASSUME TablesInv, NEW q \in Requests, NEW key \in TransitionKeys, key[1] # "dispatch",
         NEW evidence \in Evidence(key[1]), NEW now \in Times, Transition(q, key, evidence, now)
  PROVE  \/ UNCHANGED tables
         \/ \E row \in EventRows, op \in OperationRows :
              row.method = key[1] /\ row.evidence = evidence /\ row.occurredAt = now
              /\ TableStep(q, row, op)
<1> DEFINE to == TargetState(key[1], evidence)
<1> SUFFICES ASSUME CanTransition(q, key),
                    operations' = [operations EXCEPT ![q].state = to,
                                                     ![q].version = @ + 1, ![q].updatedAt = now],
                    Append_(q, key, evidence, operations[q].state, now)
             PROVE  \E row \in EventRows, op \in OperationRows :
                      row.method = key[1] /\ row.evidence = evidence /\ row.occurredAt = now
                      /\ TableStep(q, row, op)
  BY DEF Transition
<1>1. key[1] \in Methods /\ to \in STATES
  BY KeysAssumption, TargetTyped
<1> DEFINE row == [key |-> key, method |-> key[1], from |-> operations[q].state,
                   to |-> to, evidence |-> evidence, occurredAt |-> now]
<1>2. operations[q] \in OperationRows /\ operations[q] # Null
  BY DEF CanTransition, TablesInv, Typed
<1>3. row \in EventRows
  <2>1. evidence \in UNION {Evidence(m) : m \in Methods}
    BY <1>1
  <2> HIDE DEF to
  <2> QED
    BY <1>1, <1>2, <2>1 DEF EventRows, OperationRows
<1>4. PICK old \in OperationRows : old = operations[q]
  BY <1>2
<1> DEFINE moved == [old EXCEPT !.state = to]
           counted == [moved EXCEPT !.version = old.version + 1]
           op == [counted EXCEPT !.updatedAt = now]
<1> HIDE DEF to
<1>a. /\ moved \in OperationRows /\ moved.state = to /\ moved.receipt = old.receipt
      /\ moved.version = old.version
  BY <1>1 DEF OperationRows
<1> HIDE DEF moved
<1>b. /\ counted \in OperationRows /\ counted.state = to /\ counted.receipt = old.receipt
      /\ counted.version = old.version + 1
  BY <1>a DEF OperationRows
<1> HIDE DEF counted
<1>5. /\ op \in OperationRows
      /\ op.state = to /\ op.version = old.version + 1 /\ op.updatedAt = now
      /\ op.receipt = old.receipt
  BY <1>b DEF OperationRows
<1> HIDE DEF op
<1>6. operations' = [operations EXCEPT ![q] = op]
  BY <1>4 DEF op, counted, moved, TablesInv, Typed
<1>7. TableStep(q, row, op)
  <2>1. Extends(q, row, op)
    BY <1>6 DEF Extends, Append_, to
  <2>2. Continues(q, row, op)
    BY <1>1, <1>4, <1>5 DEF Continues, CanTransition, to
  <2> HIDE DEF op
  <2> QED
    BY <1>5, <2>1, <2>2 DEF TableStep, CanTransition
<1> QED
  BY <1>3, <1>5, <1>7

\* The position of a state on the path of an operation.
LEMMA Positions ==
  ASSUME TablesInv, NEW q \in Requests, operations[q] # Null
  PROVE  LET n == Len(events[q])
             state == operations[q].state
         IN /\ n \in 1..5 /\ n = operations[q].version
            /\ state = "dispatched" <=> n = 1
            /\ state = "attempted" <=> n = 2
            /\ state = "provider_confirmed" <=> n = 3
            /\ state = "reconciling" <=> n = 4
            /\ state \in {"reconciled", "recovery_required"} <=> n = 5
            /\ n = 5 => (state = "reconciled" <=> events[q][5].evidence.matches)
<1> DEFINE n == Len(events[q])
           last == events[q][n]
<1>1. events[q] \in Seq(EventRows) /\ n \in Nat
  BY DEF TablesInv, Typed
<1>a. n = operations[q].version
  BY DEF TablesInv, ChainIsWhole
<1>b. n <= 5 /\ n >= 1
  BY DEF TablesInv, ChainIsLinear
<1>2. n \in 1..5 /\ n = operations[q].version
  BY <1>1, <1>a, <1>b
<1>3. last.method = Order[n] /\ operations[q].state = TargetState(last.method, last.evidence)
  BY <1>2 DEF TablesInv, ChainIsLinear
<1>4. n = 1 \/ n = 2 \/ n = 3 \/ n = 4 \/ n = 5
  BY <1>2
<1>5. CASE n = 1
  BY <1>2, <1>3, <1>5 DEF Order, TargetState
<1>6. CASE n = 2
  BY <1>2, <1>3, <1>6 DEF Order, TargetState
<1>7. CASE n = 3
  BY <1>2, <1>3, <1>7 DEF Order, TargetState
<1>8. CASE n = 4
  BY <1>2, <1>3, <1>8 DEF Order, TargetState
<1>9. CASE n = 5
  BY <1>2, <1>3, <1>9 DEF Order, TargetState
<1> QED
  BY <1>4, <1>5, <1>6, <1>7, <1>8, <1>9

\* Where the next event of a method goes.
LEMMA NextPosition ==
  ASSUME TablesInv, NEW q \in Requests, NEW row \in EventRows, NEW op \in OperationRows,
         TableStep(q, row, op)
  PROVE  /\ Len(events[q]) \in 0..4
         /\ row.method = Order[Len(events[q]) + 1]
         /\ row.to = TargetState(row.method, row.evidence)
         /\ op.version = Len(events[q]) + 1
         /\ operations[q] = Null <=> Len(events[q]) = 0
<1>1. CASE Opens(q, row, op)
  <2>1. events[q] = <<>>
    BY <1>1 DEF Opens, TablesInv, ChainIsWhole
  <2>2. Len(events[q]) = 0
    BY <2>1
  <2> QED
    BY <1>1, <2>2 DEF Opens, Order, TargetState
<1>2. CASE Continues(q, row, op)
  <2> DEFINE n == Len(events[q])
  <2>1. operations[q] # Null /\ operations[q].state = Expected[row.method]
        /\ row.method \in {"attempt", "confirmation", "start", "result"}
    BY <1>2 DEF Continues, Methods
  <2>2. n \in 1..5 /\ n = operations[q].version
    BY <2>1, Positions
  <2>3. /\ operations[q].state = "dispatched" <=> n = 1
        /\ operations[q].state = "attempted" <=> n = 2
        /\ operations[q].state = "provider_confirmed" <=> n = 3
        /\ operations[q].state = "reconciling" <=> n = 4
    BY <2>1, Positions
  <2>4. n \in 0..4 /\ row.method = Order[n + 1]
    BY <2>1, <2>2, <2>3 DEF Expected, Order
  <2> QED
    BY <1>2, <2>1, <2>2, <2>4 DEF Continues
<1> QED
  BY <1>1, <1>2 DEF TableStep

\* What is to be shown of a result before it is stored.
Fits(q, result) ==
  /\ result.expected = events[q][3].evidence.after
  /\ result.observer = events[q][4].evidence.observer
  /\ result.matches = (result.observed = result.expected)

\* One transaction keeps everything that holds of the tables.
LEMMA TableStepInv ==
  ASSUME TablesInv, NEW q \in Requests, NEW row \in EventRows, NEW op \in OperationRows,
         TableStep(q, row, op),
         row.method = "result" => Fits(q, row.evidence)
  PROVE  TablesInv'
<1> USE DEF TablesInv
<1>1. /\ Typed' /\ operations'[q] = op /\ op # Null
      /\ \A p \in Requests \ {q} : operations'[p] = operations[p] /\ events'[p] = events[p]
      /\ Len(events[q]) \in Nat
      /\ \A i \in 1..Len(events[q]) : events'[q][i] = events[q][i]
  BY Extended DEF TableStep
<1>2. PICK n \in 0..4 : n = Len(events[q])
  BY NextPosition
<1>3. Len(events'[q]) = n + 1 /\ events'[q][n + 1] = row
  BY <1>2, Extended DEF TableStep
<1>4. /\ row.method = Order[n + 1] /\ row.to = TargetState(row.method, row.evidence)
      /\ op.version = n + 1 /\ (operations[q] = Null <=> n = 0)
      /\ op.state = row.to /\ op.updatedAt = row.occurredAt
  BY <1>2, NextPosition DEF TableStep
<1>5. ChainIsWhole'
  <2>1. row.from = IF n = 0 THEN Null ELSE operations[q].state
    BY <1>4 DEF TableStep, Opens, Continues
  <2>2. /\ Len(events'[q]) = operations'[q].version /\ operations'[q] # Null
        /\ events'[q][n + 1].to = operations'[q].state
        /\ events'[q][n + 1].occurredAt = operations'[q].updatedAt
    BY <1>1, <1>3, <1>4
  <2>3. events'[q][1].from = Null
    <3>1. CASE n = 0
      BY <1>3, <2>1, <3>1
    <3>2. CASE n # 0
      BY <1>1, <1>2, <1>4, <3>2 DEF ChainIsWhole
    <3> QED
      BY <3>1, <3>2
  <2>4. ASSUME NEW i \in 2..(n + 1)
        PROVE  events'[q][i].from = events'[q][i - 1].to
    <3>1. CASE i = n + 1
      <4>1. i - 1 = n /\ n \in 1..Len(events[q]) /\ n # 0
        BY <1>2, <3>1
      <4>2. events[q][n].to = operations[q].state
        BY <1>2, <1>4, <4>1 DEF ChainIsWhole
      <4> QED
        BY <1>1, <1>3, <2>1, <3>1, <4>1, <4>2
    <3>2. CASE i # n + 1
      <4>1. i \in 2..Len(events[q]) /\ i \in 1..Len(events[q]) /\ i - 1 \in 1..Len(events[q])
            /\ n # 0
        BY <1>2, <3>2
      <4>2. events[q][i].from = events[q][i - 1].to
        BY <1>4, <4>1 DEF ChainIsWhole
      <4> QED
        BY <1>1, <4>1, <4>2
    <3> QED
      BY <3>1, <3>2
  <2>5. ASSUME NEW p \in Requests, p # q
        PROVE  operations'[p] = operations[p] /\ events'[p] = events[p]
    BY <1>1, <2>5
  <2> QED
    BY <1>3, <2>2, <2>3, <2>4, <2>5 DEF ChainIsWhole
<1>6. ChainIsLinear'
  <2>1. ASSUME NEW i \in 1..(n + 1)
        PROVE  events'[q][i].method = Order[i]
    <3>1. CASE i = n + 1
      BY <1>3, <1>4, <3>1
    <3>2. CASE i # n + 1
      <4>1. i \in 1..Len(events[q])
        BY <1>2, <3>2
      <4> QED
        BY <1>1, <4>1 DEF ChainIsLinear
    <3> QED
      BY <3>1, <3>2
  <2>2. op.receipt.request = q
    BY DEF TableStep, Opens, Continues, ChainIsLinear
  <2>5. operations'[q].receipt = events'[q][1].evidence
    <3>1. CASE n = 0
      <4>1. op.receipt = row.evidence
        BY <1>4, <3>1 DEF TableStep, Continues, Opens
      <4> QED
        BY <1>1, <1>3, <3>1, <4>1
    <3>2. CASE n # 0
      <4>1. op.receipt = operations[q].receipt /\ operations[q] # Null
        BY <1>4, <3>2 DEF TableStep, Opens, Continues
      <4>2. 1 \in 1..Len(events[q])
        BY <1>2, <3>2
      <4> QED
        BY <1>1, <4>1, <4>2 DEF ChainIsLinear
    <3> QED
      BY <3>1, <3>2
  <2>3. /\ Len(events'[q]) <= 5 /\ Len(events'[q]) >= 1
        /\ operations'[q].receipt.request = q
        /\ operations'[q].receipt = events'[q][1].evidence
        /\ LET last == events'[q][Len(events'[q])] IN
             operations'[q].state = TargetState(last.method, last.evidence)
    BY <1>1, <1>3, <1>4, <2>2, <2>5
  <2>4. ASSUME NEW p \in Requests, p # q
        PROVE  operations'[p] = operations[p] /\ events'[p] = events[p]
    BY <1>1, <2>4
  <2> QED
    BY <1>3, <2>1, <2>3, <2>4 DEF ChainIsLinear
<1>7. KeysAreUsedOnce'
  <2>1. \A p \in Requests : \A i \in 1..Len(events[p]) : events[p][i].key # row.key
    BY RecordedMembers DEF TableStep
  <2>2. ASSUME NEW p \in Requests, NEW i \in 1..Len(events'[p])
        PROVE  \/ p = q /\ i = n + 1 /\ events'[p][i] = row
               \/ i \in 1..Len(events[p]) /\ events'[p][i] = events[p][i]
    <3>1. CASE p = q /\ i = n + 1
      BY <1>3, <3>1
    <3>2. CASE p = q /\ i # n + 1
      BY <1>1, <1>2, <1>3, <3>2
    <3>3. CASE p # q
      BY <1>1, <3>3
    <3> QED
      BY <3>1, <3>2, <3>3
  <2>3. ASSUME NEW p \in Requests, NEW u \in Requests,
               NEW i \in 1..Len(events'[p]), NEW j \in 1..Len(events'[u]),
               events'[p][i].key = events'[u][j].key
        PROVE  p = u /\ i = j
    <3>1. \/ p = q /\ i = n + 1 /\ events'[p][i] = row
          \/ i \in 1..Len(events[p]) /\ events'[p][i] = events[p][i]
      BY <2>2
    <3>2. \/ u = q /\ j = n + 1 /\ events'[u][j] = row
          \/ j \in 1..Len(events[u]) /\ events'[u][j] = events[u][j]
      BY <2>2
    <3>3. CASE i \in 1..Len(events[p]) /\ events'[p][i] = events[p][i]
               /\ j \in 1..Len(events[u]) /\ events'[u][j] = events[u][j]
      BY <2>3, <3>3 DEF KeysAreUsedOnce
    <3> QED
      BY <2>1, <2>3, <3>1, <3>2, <3>3
  <2> QED
    BY <2>3 DEF KeysAreUsedOnce
<1>8. DispatchesDiffer'
  <2>1. ASSUME NEW p \in Requests \ {q}, operations[p] # Null
        PROVE  /\ operations[p].receipt.key # op.receipt.key
               /\ operations[p].receipt.envelope # op.receipt.envelope
    <3>1. CASE Opens(q, row, op)
      BY <2>1, <3>1 DEF Opens, SameIdentity
    <3>2. CASE Continues(q, row, op)
      BY <2>1, <3>2 DEF Continues, DispatchesDiffer
    <3> QED
      BY <3>1, <3>2 DEF TableStep
  <2> QED
    BY <1>1, <2>1 DEF DispatchesDiffer
<1>9. ResultsFit'
  <2>1. ASSUME Len(events'[q]) = 5
        PROVE  LET result == events'[q][5].evidence IN
               /\ result.expected = events'[q][3].evidence.after
               /\ result.observer = events'[q][4].evidence.observer
               /\ result.matches = (result.observed = result.expected)
    <3>0. n = 4 /\ Len(events[q]) = 4
      <4>1. n + 1 = 5
        BY <1>3, <2>1
      <4>2. n \in Nat
        OBVIOUS
      <4>3. n = 4
        BY <4>1, <4>2
      <4> QED
        BY <1>2, <4>3
    <3>1. 3 \in 1..Len(events[q]) /\ 4 \in 1..Len(events[q])
      BY <3>0
    <3>2. row.method = "result"
      BY <1>4, <3>0 DEF Order
    <3> QED
      BY <1>1, <1>3, <3>0, <3>1, <3>2 DEF Fits
  <2> QED
    BY <1>1, <2>1 DEF ResultsFit
<1> QED
  BY <1>1, <1>5, <1>6, <1>7, <1>8, <1>9

-----------------------------------------------------------------------------
(* The steps of reporters.                                                  *)

\* There is nothing to tell before the first report.
LEMMA InitRInv == ReportersInit => RInv
<1> SUFFICES ASSUME ReportersInit PROVE RInv
  OBVIOUS
<1> USE DEF ReportersInit, TablesInit
<1>1. \A q \in Requests : events[q] = <<>> /\ Len(events[q]) = 0 /\ operations[q] = Null
  OBVIOUS
<1>2. Typed
  BY DEF Typed
<1>3. ChainIsWhole /\ ChainIsLinear /\ KeysAreUsedOnce /\ DispatchesDiffer /\ ResultsFit
  BY <1>1 DEF ChainIsWhole, ChainIsLinear, KeysAreUsedOnce, DispatchesDiffer, ResultsFit
<1> QED
  BY <1>2, <1>3 DEF RInv, TablesInv, CallFits

\* Every chain keeps what it has and gets at most one event more; an operation
\* that has ended stands.
Grown ==
  \A q \in Requests :
    /\ Len(events'[q]) \in Len(events[q])..(Len(events[q]) + 1)
    /\ \A i \in 1..Len(events[q]) : events'[q][i] = events[q][i]
    /\ Len(events'[q]) = Len(events[q]) => operations'[q] = operations[q]
    /\ operations[q] # Null /\ operations[q].state \in {"reconciled", "recovery_required"} =>
         operations'[q] = operations[q]

\* A step either leaves the tables alone or stores what its call was told.
LEMMA TablesStep ==
  ASSUME RInv, [AnyStep]_vars
  PROVE  \/ UNCHANGED tables
         \/ \E q \in Requests, row \in EventRows, op \in OperationRows :
              /\ TableStep(q, row, op)
              /\ row.method # "dispatch" => row.evidence \in Evidence(row.method)
              /\ row.method = "result" => Fits(q, row.evidence)
<1>1. ASSUME NEW r \in Reporters, Commit(r), ~ UNCHANGED tables
      PROVE  \E q \in Requests, row \in EventRows, op \in OperationRows :
               /\ TableStep(q, row, op)
               /\ row.method # "dispatch" => row.evidence \in Evidence(row.method)
               /\ row.method = "result" => Fits(q, row.evidence)
  <2>1. PICK a \in CallArgs : a = args[r]
    BY <1>1 DEF Commit, RInv, CallFits
  <2>2. /\ a.request \in Requests /\ a.key \in TransitionKeys /\ a.key[1] \in Methods
        /\ a.evidence \in Evidence(a.key[1]) /\ a.now \in Times
    BY ArgsTyped
  <2>3. CASE a.key[1] = "dispatch"
    <3>1. a.evidence \in Receipts /\ RecordDispatched(a.evidence, a.key, a.now)
      BY <1>1, <2>1, <2>2, <2>3 DEF Commit, Evidence
    <3>2. PICK row \in EventRows, op \in OperationRows :
            /\ row.method = a.key[1] /\ a.evidence.request \in Requests
            /\ TableStep(a.evidence.request, row, op)
      BY <1>1, <2>2, <2>3, <3>1, DispatchStep DEF RInv
    <3> QED
      BY <2>3, <3>2
  <2>4. CASE a.key[1] # "dispatch"
    <3>1. Transition(a.request, a.key, a.evidence, a.now)
      BY <1>1, <2>1, <2>4 DEF Commit
    <3>2. PICK row \in EventRows, op \in OperationRows :
            /\ row.method = a.key[1] /\ row.evidence = a.evidence
            /\ TableStep(a.request, row, op)
      BY <1>1, <2>2, <2>4, <3>1, TransitionStep DEF RInv
    <3>3. row.method = "result" => Fits(a.request, row.evidence)
      BY <1>1, <2>1, <3>2 DEF Commit, RInv, CallFits, Fits
    <3> QED
      BY <2>2, <3>2, <3>3
  <2> QED
    BY <2>3, <2>4
<1>2. ASSUME NEW r \in Reporters, ReadOperation(r) \/ ReadEvents(r) \/ Refuse(r)
      PROVE  UNCHANGED tables
  BY <1>2 DEF ReadOperation, ReadEvents, Refuse
<1> QED
  BY <1>1, <1>2 DEF AnyStep, CallNext, vars, Tick, Drops, Reports, Report

\* What holds of the tables holds after every step, and chains only grow.
LEMMA NextTables ==
  ASSUME RInv, [AnyStep]_vars
  PROVE  TablesInv' /\ Grown
<1>1. CASE UNCHANGED tables
  <2>1. TablesInv'
    BY <1>1 DEF RInv, TablesInv, tables, Typed, ChainIsWhole, ChainIsLinear, KeysAreUsedOnce,
                DispatchesDiffer, ResultsFit
  <2>2. \A q \in Requests : Len(events[q]) \in Nat
    BY DEF RInv, TablesInv, Typed
  <2> QED
    BY <1>1, <2>1, <2>2 DEF Grown, tables
<1>2. ASSUME NEW q \in Requests, NEW row \in EventRows, NEW op \in OperationRows,
             TableStep(q, row, op), row.method = "result" => Fits(q, row.evidence)
      PROVE  TablesInv' /\ Grown
  <2>1. TablesInv'
    BY <1>2, TableStepInv DEF RInv
  <2>2. /\ \A p \in Requests \ {q} : operations'[p] = operations[p] /\ events'[p] = events[p]
        /\ Len(events'[q]) = Len(events[q]) + 1 /\ Len(events[q]) \in Nat
        /\ \A i \in 1..Len(events[q]) : events'[q][i] = events[q][i]
    BY <1>2, Extended DEF RInv, TablesInv, TableStep
  <2>3. operations[q] # Null => operations[q].state \notin {"reconciled", "recovery_required"}
    <3>1. Len(events[q]) # 5
      <4>1. TablesInv
        BY DEF RInv
      <4>2. PICK n \in 0..4 : n = Len(events[q])
        BY <1>2, <4>1, NextPosition
      <4>3. n # 5
        OBVIOUS
      <4> QED
        BY <4>2, <4>3
    <3> QED
      BY <3>1, Positions DEF RInv
  <2>4. \A p \in Requests : Len(events[p]) \in Nat
    BY DEF RInv, TablesInv, Typed
  <2> QED
    BY <2>1, <2>2, <2>3, <2>4 DEF Grown
<1> QED
  BY <1>1, <1>2, TablesStep

\* A call that does not move still fits the chain it has read.
LEMMA FitStays ==
  ASSUME RInv, Grown, TablesInv', NEW r \in Reporters, stage'[r] = stage[r], args'[r] = args[r]
  PROVE  CallFits(r)'
<1> SUFFICES ASSUME stage[r] # "idle"
             PROVE  CallFits(r)'
  BY DEF CallFits
<1>1. PICK a \in CallArgs : a = args[r]
  BY DEF RInv, CallFits
<1>2. a.request \in Requests
  BY ArgsTyped
<1>3. Len(events[a.request]) \in Nat /\ Len(events'[a.request]) \in Nat
  BY <1>2 DEF RInv, TablesInv, Typed
<1>4. ASSUME Len(events[a.request]) >= 4
      PROVE  /\ Len(events'[a.request]) >= 4
             /\ events'[a.request][3] = events[a.request][3]
             /\ events'[a.request][4] = events[a.request][4]
  BY <1>2, <1>3, <1>4 DEF Grown
<1> QED
  BY <1>1, <1>4 DEF RInv, CallFits

\* Reading a chain that lets a result pass shows that the result fits.
LEMMA ReadFits ==
  ASSUME TablesInv, NEW q \in Requests, NEW result, ResultFits(events[q], result)
  PROVE  Len(events[q]) >= 4 /\ Fits(q, result)
<1>1. /\ events[q] \in Seq(EventRows) /\ Len(events[q]) <= 5
      /\ \A i \in 1..Len(events[q]) : events[q][i].method = Order[i]
  BY DEF TablesInv, Typed, ChainIsLinear
<1>2. Order[3] = "confirmation" /\ Order[4] = "start"
  BY DEF Order
<1>3. HasEvent(events[q], Order[3]) /\ HasEvent(events[q], Order[4])
  BY <1>2 DEF ResultFits
<1>4. 4 <= Len(events[q])
  BY <1>1, <1>3, LongEnough
<1>5. 3 <= Len(events[q])
  BY <1>1, <1>3, LongEnough
<1>6. /\ LastEvidence(events[q], Order[3]) = events[q][3].evidence
      /\ LastEvidence(events[q], Order[4]) = events[q][4].evidence
  BY <1>1, <1>4, <1>5, LastOfMethod
<1> QED
  BY <1>1, <1>2, <1>4, <1>6 DEF ResultFits, Fits

\* A step of one call leaves the others alone.
LEMMA OthersStand ==
  ASSUME RInv, NEW r \in Reporters, NEW v \in Reporters \ {r},
         CallNext(r) \/ Drops(r) \/ Reports(r)
  PROVE  /\ stage'[v] = stage[v] /\ args'[v] = args[v]
         /\ seen'[v] = seen[v] /\ outcome'[v] = outcome[v]
<1> USE DEF RInv
<1>1. CASE ReadOperation(r)
  BY <1>1 DEF ReadOperation, Goto, Ends
<1>2. CASE ReadEvents(r)
  BY <1>2 DEF ReadEvents, Goto, Ends
<1>3. CASE Commit(r) \/ Refuse(r)
  BY <1>3 DEF Commit, Refuse, Goto, Ends
<1>4. CASE Drops(r) \/ Reports(r)
  BY <1>4 DEF Drops, Reports, Report, Goto
<1> QED
  BY <1>1, <1>2, <1>3, <1>4 DEF CallNext

\* The variables of the calls keep their types.
LEMMA NextCallsTyped ==
  ASSUME RInv, [AnyStep]_vars
  PROVE  /\ stage' \in [Reporters -> {"idle", "operation", "events", "commit"}]
         /\ args' \in [Reporters -> CallArgs \cup {Null}]
         /\ seen' \in [Reporters -> OperationRows \cup {Null}]
         /\ outcome' \in [Reporters -> {"none", "done", "thrown"}]
         /\ clock' \in Times
<1> USE DEF RInv
<1>1. CASE Tick \/ UNCHANGED vars
  BY <1>1 DEF Tick, vars, reporterVars
<1>2. ASSUME NEW r \in Reporters, NEW key \in TransitionKeys, NEW request \in Requests,
             NEW evidence \in Evidence(key[1]), NEW now \in Times,
             Report(r, request, key, evidence, now)
      PROVE  /\ stage' \in [Reporters -> {"idle", "operation", "events", "commit"}]
             /\ args' \in [Reporters -> CallArgs \cup {Null}]
             /\ seen' \in [Reporters -> OperationRows \cup {Null}]
             /\ outcome' \in [Reporters -> {"none", "done", "thrown"}]
             /\ clock' \in Times
  <2>1. [request |-> request, key |-> key, evidence |-> evidence, now |-> now] \in CallArgs
    BY DEF CallArgs
  <2> QED
    BY <1>2, <2>1 DEF Report, Goto
<1>3. ASSUME NEW r \in Reporters, CallNext(r)
      PROVE  /\ stage' \in [Reporters -> {"idle", "operation", "events", "commit"}]
             /\ args' \in [Reporters -> CallArgs \cup {Null}]
             /\ seen' \in [Reporters -> OperationRows \cup {Null}]
             /\ outcome' \in [Reporters -> {"none", "done", "thrown"}]
             /\ clock' \in Times
  <2>0. stage[r] # "idle" /\ args' = args /\ clock' = clock
    BY <1>3 DEF CallNext, ReadOperation, ReadEvents, Commit, Refuse
  <2>1. args[r].request \in Requests
    BY <2>0, ArgsTyped DEF CallFits
  <2>2. operations[args[r].request] \in OperationRows \cup {Null}
        /\ operations'[args[r].request] \in OperationRows \cup {Null}
    BY <2>1, NextTables, <1>3 DEF TablesInv, Typed, AnyStep
  <2>3. seen' \in [Reporters -> OperationRows \cup {Null}]
    BY <1>3, <2>2 DEF CallNext, ReadOperation, ReadEvents, Commit, Refuse
  <2>4. CASE ReadOperation(r)
    BY <2>0, <2>3, <2>4 DEF ReadOperation, Goto, Ends
  <2>5. CASE ReadEvents(r)
    BY <2>0, <2>3, <2>5 DEF ReadEvents, Goto, Ends
  <2>6. CASE Commit(r) \/ Refuse(r)
    BY <2>0, <2>3, <2>6 DEF Commit, Refuse, Goto, Ends
  <2> QED
    BY <1>3, <2>4, <2>5, <2>6 DEF CallNext
<1>4. ASSUME NEW r \in Reporters, Drops(r)
      PROVE  /\ stage' \in [Reporters -> {"idle", "operation", "events", "commit"}]
             /\ args' \in [Reporters -> CallArgs \cup {Null}]
             /\ seen' \in [Reporters -> OperationRows \cup {Null}]
             /\ outcome' \in [Reporters -> {"none", "done", "thrown"}]
             /\ clock' \in Times
  BY <1>4 DEF Drops, Goto
<1> QED
  BY <1>1, <1>2, <1>3, <1>4 DEF AnyStep, Reports

\* No call reaches its transaction with a result that does not fit.
LEMMA NextCallsFit ==
  ASSUME RInv, [AnyStep]_vars, NEW v \in Reporters
  PROVE  CallFits(v)'
<1>0. TablesInv' /\ Grown
  BY NextTables
<1> USE DEF RInv
<1>1. CASE stage'[v] = stage[v] /\ args'[v] = args[v]
  BY <1>0, <1>1, FitStays
<1>2. ASSUME NEW key \in TransitionKeys, NEW request \in Requests,
             NEW evidence \in Evidence(key[1]), NEW now \in Times,
             key[1] = "dispatch" => request = evidence.request,
             Report(v, request, key, evidence, now)
      PROVE  CallFits(v)'
  <2> DEFINE a == [request |-> request, key |-> key, evidence |-> evidence, now |-> now]
  <2>1. a \in CallArgs
    BY DEF CallArgs
  <2>2. args'[v] = a /\ stage'[v] = IF key[1] = "dispatch" THEN "commit" ELSE "operation"
    BY <1>2 DEF Report, Goto
  <2> QED
    BY <1>2, <2>1, <2>2 DEF CallFits
<1>3. CASE ReadOperation(v)
  <2>1. PICK a \in CallArgs : a = args[v]
    BY <1>3 DEF ReadOperation, CallFits
  <2>2. /\ args'[v] = a /\ stage[v] # "idle"
        /\ stage'[v] = "commit" => a.key[1] \notin {"confirmation", "result"}
    BY <1>3, <2>1 DEF ReadOperation, Goto, Ends
  <2> QED
    BY <2>1, <2>2 DEF CallFits
<1>4. CASE ReadEvents(v)
  <2>1. PICK a \in CallArgs : a = args[v]
    BY <1>4 DEF ReadEvents, CallFits
  <2>2. /\ args'[v] = a /\ stage[v] # "idle" /\ UNCHANGED tables
        /\ stage'[v] = "commit" /\ a.key[1] = "result" => ResultFits(events[a.request], a.evidence)
    BY <1>4, <2>1 DEF ReadEvents, Goto, Ends
  <2>3. a.request \in Requests
    BY ArgsTyped
  <2>4. stage'[v] = "commit" /\ a.key[1] = "result" =>
          Len(events[a.request]) >= 4 /\ Fits(a.request, a.evidence)
    BY <2>2, <2>3, ReadFits
  <2> QED
    BY <2>1, <2>2, <2>4 DEF CallFits, Fits, tables
<1>5. CASE Commit(v) \/ Refuse(v)
  BY <1>5 DEF Commit, Refuse, Ends, Goto, CallFits
<1>6. ASSUME NEW r \in Reporters, r # v, CallNext(r) \/ Drops(r) \/ Reports(r)
      PROVE  CallFits(v)'
  BY <1>1, <1>6, OthersStand
<1>7. CASE Drops(v)
  BY <1>7 DEF Drops, Goto, CallFits
<1> QED
  BY <1>1, <1>2, <1>3, <1>4, <1>5, <1>6, <1>7
  DEF AnyStep, CallNext, Reports, vars, reporterVars, Tick

\* RInv is inductive, whatever the callers do.
LEMMA NextRInv == RInv /\ [AnyStep]_vars => RInv'
BY NextTables, NextCallsTyped, NextCallsFit DEF RInv

\* Reporters of what they know do nothing else.
LEMMA ReportersStep == RInv /\ [ReportersNext]_vars => [AnyStep]_vars
BY DEF RInv, ReportersNext, AnyStep, Reports

\* In every reachable state, whatever the number of reporters and operations.
LEMMA RInvHolds == ReportersSpec => []RInv
BY InitRInv, ReportersStep, NextRInv, PTL DEF ReportersSpec

-----------------------------------------------------------------------------
(* The properties.                                                          *)

\* Keys and dispatch identities stand for one event, one operation.
LEMMA SingleFromRInv == RInv => IdentitiesAreSingle
<1> SUFFICES ASSUME RInv PROVE IdentitiesAreSingle
  OBVIOUS
<1>1. \A key \in TransitionKeys : Cardinality(Recorded(key)) <= 1
  BY RecordedOnce DEF RInv, TablesInv
<1> QED
  BY <1>1 DEF RInv, TablesInv, DispatchesDiffer, IdentitiesAreSingle

\* An operation has ended with a result that fits its chain.
LEMMA ProvenFromRInv == RInv => ReconciledIsProven
<1> SUFFICES ASSUME RInv, NEW q \in Requests, operations[q] # Null,
                    operations[q].state \in {"reconciled", "recovery_required"}
             PROVE  LET chain == events[q]
                        result == LastEvidence(chain, "result")
                    IN /\ HasEvent(chain, "attempt")
                       /\ ResultFits(chain, result)
                       /\ operations[q].state = "reconciled" <=>
                            result.observed = LastEvidence(chain, "confirmation").after
  BY DEF ReconciledIsProven
<1>1. /\ Len(events[q]) = 5
      /\ operations[q].state = "reconciled" <=> events[q][5].evidence.matches
  BY Positions DEF RInv
<1>2. /\ events[q] \in Seq(EventRows)
      /\ \A i \in 1..Len(events[q]) : events[q][i].method = Order[i]
  BY DEF RInv, TablesInv, Typed, ChainIsLinear
<1>3. \A n \in 1..5 : /\ HasEvent(events[q], Order[n])
                      /\ LastEvidence(events[q], Order[n]) = events[q][n].evidence
  <2> SUFFICES ASSUME NEW n \in 1..5
               PROVE  /\ HasEvent(events[q], Order[n])
                      /\ LastEvidence(events[q], Order[n]) = events[q][n].evidence
    OBVIOUS
  <2>1. n <= Len(events[q]) /\ Len(events[q]) <= 5
    BY <1>1
  <2> QED
    BY <1>2, <2>1, LastOfMethod
<1>4. /\ Order[2] = "attempt" /\ Order[3] = "confirmation" /\ Order[4] = "start"
      /\ Order[5] = "result"
  BY DEF Order
<1>5. /\ HasEvent(events[q], "attempt") /\ HasEvent(events[q], "confirmation")
      /\ HasEvent(events[q], "start")
      /\ LastEvidence(events[q], "confirmation") = events[q][3].evidence
      /\ LastEvidence(events[q], "start") = events[q][4].evidence
      /\ LastEvidence(events[q], "result") = events[q][5].evidence
  BY <1>3, <1>4
<1>6. LET result == events[q][5].evidence IN
      /\ result.expected = events[q][3].evidence.after
      /\ result.observer = events[q][4].evidence.observer
      /\ result.matches = (result.observed = result.expected)
  BY <1>1 DEF RInv, TablesInv, ResultsFit
<1> QED
  BY <1>1, <1>5, <1>6 DEF ResultFits

\* The chain in a later state begins with the chain as it was.
LEMMA StepAppends ==
  RInv /\ [AnyStep]_vars =>
    \A q \in Requests :
      /\ Len(events'[q]) \in Len(events[q])..(Len(events[q]) + 1)
      /\ SubSeq(events'[q], 1, Len(events[q])) = events[q]
      /\ operations[q] # Null /\ operations[q].state \in {"reconciled", "recovery_required"} =>
           operations'[q] = operations[q]
<1> SUFFICES ASSUME RInv, [AnyStep]_vars, NEW q \in Requests
             PROVE  /\ Len(events'[q]) \in Len(events[q])..(Len(events[q]) + 1)
                    /\ SubSeq(events'[q], 1, Len(events[q])) = events[q]
                    /\ operations[q] # Null
                         /\ operations[q].state \in {"reconciled", "recovery_required"} =>
                         operations'[q] = operations[q]
  OBVIOUS
<1>1. Grown
  BY NextTables
<1>2. PICK s \in Seq(EventRows), t \in Seq(EventRows) : s = events[q] /\ t = events'[q]
  BY NextTables DEF RInv, TablesInv, Typed
<1>3. Len(s) \in Nat /\ Len(t) \in Nat /\ Len(s) <= Len(t)
      /\ \A i \in 1..Len(s) : t[i] = s[i] /\ s[i] \in EventRows
  BY <1>1, <1>2 DEF Grown
<1>4. /\ SubSeq(t, 1, Len(s)) \in Seq(EventRows)
      /\ Len(SubSeq(t, 1, Len(s))) = Len(s)
      /\ \A i \in 1..Len(s) : SubSeq(t, 1, Len(s))[i] = t[i]
  <2>1. \A i \in 1..Len(s) : t[i] \in EventRows
    BY <1>3
  <2>2. /\ SubSeq(t, 1, Len(s)) \in Seq(EventRows)
        /\ Len(SubSeq(t, 1, Len(s))) = IF 1 <= Len(s) THEN Len(s) - 1 + 1 ELSE 0
        /\ \A i \in 1..(Len(s) - 1 + 1) : SubSeq(t, 1, Len(s))[i] = t[1 + i - 1]
    BY <1>3, <2>1, SubSeqProperties
  <2> QED
    BY <1>3, <2>2
<1>5. SubSeq(t, 1, Len(s)) = s
  BY <1>3, <1>4, SeqEqual
<1> QED
  BY <1>1, <1>2, <1>5 DEF Grown

-----------------------------------------------------------------------------
(* The protocol the tables implement.                                       *)

\* What the protocol knows of a chain stands at its third and fifth position.
ReadsByPosition ==
  \A q \in Requests :
    /\ Confirmed(q) = IF 3 <= Len(events[q]) THEN events[q][3].evidence.after ELSE Null
    /\ Observed(q) = IF 5 <= Len(events[q]) THEN events[q][5].evidence.observed ELSE Null

\* That is so of every chain that is linear.
LEMMA ProtocolReads == TablesInv => ReadsByPosition
<1> SUFFICES ASSUME TablesInv, NEW q \in Requests
             PROVE  /\ Confirmed(q) = IF 3 <= Len(events[q]) THEN events[q][3].evidence.after ELSE Null
                    /\ Observed(q) = IF 5 <= Len(events[q]) THEN events[q][5].evidence.observed ELSE Null
  BY DEF ReadsByPosition
<1>1. /\ events[q] \in Seq(EventRows) /\ Len(events[q]) <= 5
      /\ \A i \in 1..Len(events[q]) : events[q][i].method = Order[i]
  BY DEF TablesInv, Typed, ChainIsLinear
<1>2. Order[3] = "confirmation" /\ Order[5] = "result"
  BY DEF Order
<1>3. HasEvent(events[q], Order[3]) => 3 <= Len(events[q])
  BY <1>1, LongEnough
<1>4. HasEvent(events[q], Order[5]) => 5 <= Len(events[q])
  BY <1>1, LongEnough
<1>5. 3 <= Len(events[q]) =>
        /\ HasEvent(events[q], Order[3])
        /\ LastEvidence(events[q], Order[3]) = events[q][3].evidence
  BY <1>1, LastOfMethod
<1>6. 5 <= Len(events[q]) =>
        /\ HasEvent(events[q], Order[5])
        /\ LastEvidence(events[q], Order[5]) = events[q][5].evidence
  BY <1>1, LastOfMethod
<1>7. Confirmed(q) = IF 3 <= Len(events[q]) THEN events[q][3].evidence.after ELSE Null
  BY <1>2, <1>3, <1>5 DEF Confirmed
<1>8. Observed(q) = IF 5 <= Len(events[q]) THEN events[q][5].evidence.observed ELSE Null
  BY <1>2, <1>4, <1>6 DEF Observed
<1> QED
  BY <1>7, <1>8

\* The same of the next state.
LEMMA ProtocolReadsNext == TablesInv' => ReadsByPosition'
BY ProtocolReads, PTL

\* A transaction that writes is one step of the protocol: that of the next
\* position of its operation.
LEMMA StepOfProtocol ==
  ASSUME TablesInv, TablesInv', NEW q \in Requests, NEW row \in EventRows, NEW op \in OperationRows,
         TableStep(q, row, op),
         row.method # "dispatch" => row.evidence \in Evidence(row.method),
         row.method = "result" => Fits(q, row.evidence)
  PROVE  Protocol!Next
<1> DEFINE dispatched == [p \in Requests |-> IF operations[p] = Null THEN Null ELSE operations[p].receipt]
           standing == [p \in Requests |-> IF operations[p] = Null THEN "none" ELSE operations[p].state]
           confirmed == [p \in Requests |-> Confirmed(p)]
           observed == [p \in Requests |-> Observed(p)]
<1>1. PICK n \in 0..4 : n = Len(events[q])
  BY NextPosition
<1>2. /\ row.method = Order[n + 1] /\ row.to = TargetState(row.method, row.evidence)
      /\ operations[q] = Null <=> n = 0
  BY <1>1, NextPosition
<1>3. /\ operations'[q] = op /\ op # Null
      /\ \A p \in Requests \ {q} : operations'[p] = operations[p] /\ events'[p] = events[p]
      /\ Len(events'[q]) = n + 1
      /\ events'[q][n + 1] = row
      /\ \A i \in 1..n : events'[q][i] = events[q][i]
  BY <1>1, Extended DEF TablesInv, TableStep
<1>4. op.state = row.to /\ (Opens(q, row, op) \/ Continues(q, row, op))
  BY DEF TableStep
<1>5. standing' = [standing EXCEPT ![q] = row.to]
  BY <1>3, <1>4
<1>6. \A p \in Requests :
        /\ Confirmed(p) = IF 3 <= Len(events[p]) THEN events[p][3].evidence.after ELSE Null
        /\ Observed(p) = IF 5 <= Len(events[p]) THEN events[p][5].evidence.observed ELSE Null
        /\ Confirmed(p)' = IF 3 <= Len(events'[p]) THEN events'[p][3].evidence.after ELSE Null
        /\ Observed(p)' = IF 5 <= Len(events'[p]) THEN events'[p][5].evidence.observed ELSE Null
  BY ProtocolReads, ProtocolReadsNext DEF ReadsByPosition
<1>7. /\ confirmed = [p \in Requests |-> IF 3 <= Len(events[p]) THEN events[p][3].evidence.after ELSE Null]
      /\ observed = [p \in Requests |-> IF 5 <= Len(events[p]) THEN events[p][5].evidence.observed ELSE Null]
      /\ confirmed' = [p \in Requests |-> IF 3 <= Len(events'[p]) THEN events'[p][3].evidence.after ELSE Null]
      /\ observed' = [p \in Requests |-> IF 5 <= Len(events'[p]) THEN events'[p][5].evidence.observed ELSE Null]
  BY <1>6
<1>8. n # 0 => standing[q] = operations[q].state /\ op.receipt = operations[q].receipt /\ dispatched' = dispatched
  <2>1. n # 0 => operations[q] # Null /\ Continues(q, row, op)
    BY <1>2, <1>4 DEF Opens
  <2> QED
    BY <1>3, <2>1 DEF Continues
<1>9. n # 2 => confirmed' = confirmed
  <2> SUFFICES ASSUME n # 2
               PROVE  (3 <= n <=> 3 <= n + 1) /\ (3 <= n => events'[q][3] = events[q][3])
    BY <1>1, <1>3, <1>7
  <2> QED
    BY <1>3
<1>10. n # 4 => observed' = observed
  <2> SUFFICES ASSUME n # 4
               PROVE  ~ (5 <= n) /\ ~ (5 <= n + 1)
    BY <1>1, <1>3, <1>7
  <2> QED
    OBVIOUS
<1>11. /\ 3 <= n => confirmed[q] = events[q][3].evidence.after
       /\ n = 2 => confirmed' = [confirmed EXCEPT ![q] = row.evidence.after]
       /\ n = 4 => observed' = [observed EXCEPT ![q] = row.evidence.observed]
  <2>1. 3 <= n => confirmed[q] = events[q][3].evidence.after
    BY <1>1, <1>7
  <2>2. ASSUME n = 2
        PROVE  confirmed' = [confirmed EXCEPT ![q] = row.evidence.after]
    <3>1. 3 <= Len(events'[q]) /\ events'[q][3] = row
      BY <1>3, <2>2
    <3>2. confirmed'[q] = row.evidence.after
      BY <1>7, <3>1
    <3>3. \A p \in Requests \ {q} : confirmed'[p] = confirmed[p]
      BY <1>3, <1>7
    <3>4. DOMAIN confirmed = Requests /\ DOMAIN confirmed' = Requests
          /\ confirmed = [p \in Requests |-> confirmed[p]] /\ confirmed' = [p \in Requests |-> confirmed'[p]]
      OBVIOUS
    <3> HIDE DEF confirmed
    <3> QED
      BY <3>2, <3>3, <3>4
  <2>3. ASSUME n = 4
        PROVE  observed' = [observed EXCEPT ![q] = row.evidence.observed]
    <3>1. 5 <= Len(events'[q]) /\ events'[q][5] = row
      BY <1>3, <2>3
    <3>2. observed'[q] = row.evidence.observed
      BY <1>7, <3>1
    <3>3. \A p \in Requests \ {q} : observed'[p] = observed[p]
      BY <1>3, <1>7
    <3>4. DOMAIN observed = Requests /\ DOMAIN observed' = Requests
          /\ observed = [p \in Requests |-> observed[p]] /\ observed' = [p \in Requests |-> observed'[p]]
      OBVIOUS
    <3> HIDE DEF observed
    <3> QED
      BY <3>2, <3>3, <3>4
  <2> QED
    BY <2>1, <2>2, <2>3
<1>12. n # 0 =>
         /\ standing[q] = "dispatched" <=> n = 1
         /\ standing[q] = "attempted" <=> n = 2
         /\ standing[q] = "provider_confirmed" <=> n = 3
         /\ standing[q] = "reconciling" <=> n = 4
  <2> SUFFICES ASSUME operations[q] # Null, standing[q] = operations[q].state
               PROVE  /\ standing[q] = "dispatched" <=> n = 1
                      /\ standing[q] = "attempted" <=> n = 2
                      /\ standing[q] = "provider_confirmed" <=> n = 3
                      /\ standing[q] = "reconciling" <=> n = 4
    BY <1>2, <1>8
  <2> HIDE DEF standing
  <2> QED
    BY <1>1, Positions
<1>a. CASE n = 0
  <2>1. Opens(q, row, op)
    BY <1>2, <1>4, <1>a DEF Continues
  <2>2. op.receipt \in Receipts /\ op.receipt.request = q /\ SameIdentity(op.receipt) = {}
    BY <2>1 DEF Opens, OperationRows
  <2>3. \A p \in Requests : dispatched[p] # Null =>
          dispatched[p].key # op.receipt.key /\ dispatched[p].envelope # op.receipt.envelope
    BY <2>2 DEF SameIdentity
  <2>4. dispatched' = [dispatched EXCEPT ![q] = op.receipt]
    BY <1>3
  <2>5. standing[q] = "none" /\ row.to = "dispatched"
    BY <1>2, <1>a, <2>1 DEF Opens
  <2>6. Protocol!Dispatch(op.receipt)
    BY <1>5, <1>9, <1>10, <1>a, <2>2, <2>3, <2>4, <2>5 DEF Protocol!Dispatch, Protocol!Moves
  <2> QED
    BY <2>2, <2>6 DEF Protocol!Next
<1>b. CASE n = 1
  <2>1. standing[q] = "dispatched"
    BY <1>12, <1>b
  <2>2. row.to = "attempted"
    BY <1>2, <1>b DEF Order, TargetState
  <2>3. Protocol!Attempt(q)
    BY <1>5, <1>8, <1>9, <1>10, <1>b, <2>1, <2>2 DEF Protocol!Attempt, Protocol!Moves
  <2> QED
    BY <2>3 DEF Protocol!Next
<1>c. CASE n = 2
  <2>1. standing[q] = "attempted"
    BY <1>12, <1>c
  <2>2. row.to = "provider_confirmed" /\ row.evidence.after \in Prints
    BY <1>2, <1>c DEF Order, TargetState, Evidence, Confirmations
  <2>3. Protocol!Confirm(q, row.evidence.after)
    BY <1>5, <1>8, <1>10, <1>11, <1>c, <2>1, <2>2 DEF Protocol!Confirm, Protocol!Moves
  <2> QED
    BY <2>2, <2>3 DEF Protocol!Next
<1>d. CASE n = 3
  <2>1. standing[q] = "provider_confirmed"
    BY <1>12, <1>d
  <2>2. row.to = "reconciling"
    BY <1>2, <1>d DEF Order, TargetState
  <2>3. Protocol!Start(q)
    BY <1>5, <1>8, <1>9, <1>10, <1>d, <2>1, <2>2 DEF Protocol!Start, Protocol!Moves
  <2> QED
    BY <2>3 DEF Protocol!Next
<1>e. CASE n = 4
  <2> DEFINE result == row.evidence
  <2>1. standing[q] = "reconciling"
    BY <1>12, <1>e
  <2>2. /\ row.method = "result" /\ result.observed \in Prints
        /\ row.to = IF result.matches THEN "reconciled" ELSE "recovery_required"
    BY <1>2, <1>e DEF Order, TargetState, Evidence, Results
  <2>3. result.matches = (result.observed = confirmed[q])
    BY <1>11, <1>e, <2>2 DEF Fits
  <2>4. row.to = IF result.observed = confirmed[q] THEN "reconciled" ELSE "recovery_required"
    BY <2>2, <2>3
  <2>5. Protocol!Observe(q, result.observed)
    BY <1>5, <1>8, <1>9, <1>11, <1>e, <2>1, <2>4 DEF Protocol!Observe, Protocol!Moves
  <2> QED
    BY <2>2, <2>5 DEF Protocol!Next
<1> QED
  BY <1>1, <1>a, <1>b, <1>c, <1>d, <1>e

\* What leaves the tables alone leaves the protocol alone.
LEMMA ProtocolStutters ==
  UNCHANGED tables => UNCHANGED Protocol!vars
BY DEF tables, Protocol!vars, Confirmed, Observed, HasEvent, LastEvidence

\* Whatever callers do, each step is a step of the protocol or none.
LEMMA NextProtocol == RInv /\ [AnyStep]_vars => [Protocol!Next]_(Protocol!vars)
<1> SUFFICES ASSUME RInv, [AnyStep]_vars
             PROVE  Protocol!Next \/ UNCHANGED Protocol!vars
  OBVIOUS
<1>1. TablesInv /\ TablesInv'
  BY NextTables DEF RInv
<1> QED
  BY <1>1, TablesStep, StepOfProtocol, ProtocolStutters

\* Empty tables are the protocol before any dispatch.
LEMMA InitProtocol == ReportersInit => Protocol!Init
<1> SUFFICES ASSUME ReportersInit
             PROVE  Protocol!Init
  OBVIOUS
<1>1. \A q \in Requests : operations[q] = Null /\ Len(events[q]) = 0
  BY DEF ReportersInit, TablesInit
<1>2. \A q \in Requests : Confirmed(q) = Null /\ Observed(q) = Null
  BY <1>1 DEF Confirmed, Observed, HasEvent
<1> QED
  BY <1>1, <1>2 DEF Protocol!Init

-----------------------------------------------------------------------------
(* The theorems.                                                            *)

\* Types: tables and calls keep their shape.
THEOREM ReportersTypes == ReportersSpec => []ReportersTypeOK
<1>1. RInv => ReportersTypeOK
  BY DEF RInv, TablesInv, Typed, ReportersTypeOK, TypeOK
<1> QED
  BY <1>1, RInvHolds, PTL

\* The chain of every operation is whole, whoever reports in whatever order.
THEOREM ChainsAreWhole == ReportersSpec => []ChainIsWhole
BY RInvHolds, PTL DEF RInv, TablesInv

\* No key and no dispatch is ever recorded twice.
THEOREM IdentitiesStaySingle == ReportersSpec => []IdentitiesAreSingle
BY RInvHolds, SingleFromRInv, PTL

\* Nothing that was recorded is taken back or rewritten.
THEOREM ChainsAreAppendOnly == ReportersSpec => ChainIsAppendOnly
<1>1. RInv /\ [ReportersNext]_vars =>
        [\A q \in Requests :
           /\ Len(events'[q]) \in Len(events[q])..(Len(events[q]) + 1)
           /\ SubSeq(events'[q], 1, Len(events[q])) = events[q]
           /\ operations[q] # Null /\ operations[q].state \in {"reconciled", "recovery_required"} =>
                operations'[q] = operations[q]]_tables
  BY ReportersStep, StepAppends
<1> QED
  BY <1>1, RInvHolds, PTL DEF ReportersSpec, ChainIsAppendOnly

\* An operation ends as reconciled exactly when what was observed is what was
\* confirmed, although the facade compares before the transaction.
THEOREM ReconciliationIsProven == ReportersSpec => []ReconciledIsProven
BY RInvHolds, ProvenFromRInv, PTL

\* Racing, repeated and disordered reports never add up to more than one path
\* per request, with one key and one envelope, which only an observation of the
\* state that was confirmed ends in reconciled.
THEOREM ProtocolImplemented == ReportersSpec => ImplementsProtocol
<1>1. RInv /\ [ReportersNext]_vars => [Protocol!Next]_(Protocol!vars)
  BY ReportersStep, NextProtocol
<1> QED
  BY <1>1, InitProtocol, RInvHolds, PTL DEF ReportersSpec, ImplementsProtocol, Protocol!Spec
=============================================================================
