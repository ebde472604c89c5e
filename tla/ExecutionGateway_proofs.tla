---------------------- MODULE ExecutionGateway_proofs ----------------------
(***************************************************************************)
(* Proofs about the gateway's records for any number of calls, requests    *)
(* and receipts.  A gateway call goes through the façade's methods in the  *)
(* order of the operation's path, each after the one before it returned.   *)
(* So the chain is at least as long as the path behind the call, and if    *)
(* the call is the one that stores the next event, the row it read before  *)
(* the transaction is the row of the transaction: its check of the time    *)
(* holds, which the façade alone cannot promise.                           *)
(***************************************************************************)
EXTENDS VerifiedGateway, VerifiedExecution_proofs

Working == {"recording", "attempting", "confirming", "starting", "resolving"}

\* The position on the path of an operation that a step of a call works on.
Position == [recording |-> 1, attempting |-> 2, confirming |-> 3, starting |-> 4, resolving |-> 5]

\* A call at work on position n, told a.
InPlace(r, a, n) ==
  LET q == a.request
      length == Len(events[q])
  IN
  /\ a \in CallArgs /\ a.key = <<Order[n], q>>
  /\ length >= n - 1
  /\ length = n - 1 /\ n # 1 =>
       /\ stage[r] = "events" => seen[r] = operations[q]
       /\ stage[r] = "commit" => InTime(Order[n], a.evidence, operations[q], a.now)
  /\ stage[r] = "idle" /\ outcome[r] = "done" =>
       /\ length >= n
       /\ n # 1 => events[q][n].evidence = a.evidence
       /\ n = 5 => seen[r] = operations[q]

CallInPlace(r) == step[r] \in Working => InPlace(r, args[r], Position[step[r]])

\* What a call that returned leaves behind.
Stored(a, n) ==
  /\ a \in CallArgs
  /\ Len(events[a.request]) >= n
  /\ events[a.request][n].evidence = a.evidence

CallRests(r) ==
  /\ stage[r] # "idle" => step[r] \in Working
  /\ step[r] = "confirmed" => Stored(args[r], 3)
  /\ step[r] = "reconciled" =>
       Stored(args[r], 5) /\ operations[args[r].request].state = "reconciled"

\* The time of each event after the first one.
Timed(previous, event) ==
  /\ previous.occurredAt <= EvidenceTime(event.method, event.evidence)
  /\ EvidenceTime(event.method, event.evidence) <= event.occurredAt

ChainsAreTimed ==
  \A q \in Requests : \A i \in 2..Len(events[q]) : Timed(events[q][i - 1], events[q][i])

GatewayTyped ==
  /\ step \in [Reporters -> Resting \cup Working]
  /\ answered \subseteq {receipt.key : receipt \in Receipts}

GInv ==
  /\ RInv
  /\ GatewayTyped
  /\ ChainsAreTimed
  /\ \A r \in Reporters : CallInPlace(r) /\ CallRests(r)

-----------------------------------------------------------------------------
(* The steps of a gateway call, by kind.                                    *)

\* A call begins to work on a position that the chain has reached.
Begins(r, n, a) ==
  /\ Position[step'[r]] = n /\ step'[r] \in Working
  /\ a \in CallArgs /\ a.key = <<Order[n], a.request>>
  /\ n = 1 => a.request = a.evidence.request
  /\ Len(events[a.request]) >= n - 1
  /\ Report(r, a.request, a.key, a.evidence, a.now)

\* A call comes to rest with what it has.
Rests(r) ==
  /\ UNCHANGED vars
  /\ stage[r] = "idle" /\ step'[r] \in Resting
  /\ step'[r] = "confirmed" => step[r] = "confirming" /\ outcome[r] = "done"
  /\ step'[r] = "reconciled" =>
       step[r] = "resolving" /\ outcome[r] = "done" /\ seen[r].state = "reconciled"

\* The arguments of a report.
LEMMA CallArgsBuilt ==
  ASSUME NEW q \in Requests, NEW n \in 1..5, NEW evidence \in Evidence(Order[n]), NEW now \in Times
  PROVE  [request |-> q, key |-> <<Order[n], q>>, evidence |-> evidence, now |-> now] \in CallArgs
<1>1. Order[n] \in Methods
  BY DEF Order, Methods
<1>2. <<Order[n], q>> \in TransitionKeys
  BY <1>1, GatewayKeys
<1> DEFINE key == <<Order[n], q>>
<1>3. key[1] = Order[n]
  OBVIOUS
<1>4. [request |-> q, key |-> key, evidence |-> evidence, now |-> now]
        \in [request : Requests, key : {key}, evidence : Evidence(key[1]), now : Times]
  BY <1>3
<1> QED
  BY <1>2, <1>4 DEF CallArgs

\* A call that continues has done the step before.
LEMMA ContinueBegins ==
  ASSUME GInv, NEW r \in Reporters, NEW n \in 2..5, NEW from \in Working, NEW to \in Working,
         Position[from] = n - 1, Position[to] = n, NEW evidence \in Evidence(Order[n]),
         Continue(r, from, Order[n], evidence, to)
  PROVE  \E a : Begins(r, n, a)
<1>1. step[r] = from /\ stage[r] = "idle" /\ outcome[r] = "done"
  BY DEF Continue, Returned
<1>2. InPlace(r, args[r], n - 1)
  BY <1>1 DEF GInv, CallInPlace
<1>3. args[r] \in CallArgs
  BY <1>2 DEF InPlace
<1>4. PICK q \in Requests : q = args[r].request
  BY <1>3, ArgsTyped
<1>5. Len(events[q]) >= n - 1
  BY <1>1, <1>2, <1>4 DEF InPlace
<1> DEFINE a == [request |-> q, key |-> <<Order[n], q>>, evidence |-> evidence, now |-> clock]
<1>6. a \in CallArgs
  <2>1. n \in 1..5 /\ clock \in Times
    BY DEF GInv, RInv
  <2> QED
    BY <2>1, CallArgsBuilt
<1>7. Report(r, a.request, a.key, a.evidence, a.now)
  BY <1>4 DEF Continue
<1>8. step'[r] = to
  BY DEF Continue, Becomes, GInv, GatewayTyped
<1> QED
  BY <1>5, <1>6, <1>7, <1>8 DEF Begins

\* A dispatch begins with a receipt.
LEMMA AcceptBegins ==
  ASSUME GInv, NEW r \in Reporters, NEW receipt \in Receipts, Accept(r, receipt)
  PROVE  \E a : Begins(r, 1, a)
<1>1. PICK q \in Requests : q = receipt.request
  BY ReceiptAssumption
<1> DEFINE a == [request |-> q, key |-> <<Order[1], q>>, evidence |-> receipt,
                 now |-> receipt.receivedAt]
<1>2. Order[1] = "dispatch" /\ receipt \in Evidence(Order[1])
  BY DEF Order, Evidence
<1>3. receipt.receivedAt \in Times
  BY ReceivedAssumption
<1>4. a \in CallArgs
  BY <1>2, <1>3, CallArgsBuilt
<1>5. Report(r, a.request, a.key, a.evidence, a.now)
  BY <1>1, <1>2 DEF Accept
<1>6. step'[r] = "recording"
  BY DEF Accept, Becomes, GInv, GatewayTyped
<1>7. Len(events[q]) >= 1 - 1
  <2>1. Len(events[q]) \in Nat
    BY DEF GInv, RInv, TablesInv, Typed
  <2> QED
    BY <2>1
<1> QED
  BY <1>1, <1>4, <1>5, <1>6, <1>7 DEF Begins, Working, Position

\* A reconciliation begins with an operation found provider-confirmed.
LEMMA StartBegins ==
  ASSUME GInv, NEW r \in Reporters, NEW q \in Requests, NEW observer \in Observers,
         StartReconciliation(r, q, observer)
  PROVE  \E a : Begins(r, 4, a)
<1> DEFINE evidence == [observer |-> observer, startedAt |-> clock]
           a == [request |-> q, key |-> <<Order[4], q>>, evidence |-> evidence, now |-> clock]
<1>1. clock \in Times /\ TablesInv
  BY DEF GInv, RInv
<1>2. Order[4] = "start" /\ evidence \in Evidence(Order[4])
  BY <1>1 DEF Order, Evidence, Starts
<1>3. a \in CallArgs
  BY <1>1, <1>2, CallArgsBuilt
<1>4. Report(r, a.request, a.key, a.evidence, a.now)
  BY <1>2 DEF StartReconciliation
<1>5. step'[r] = "starting"
  BY DEF StartReconciliation, Becomes, GInv, GatewayTyped
<1>6. PICK m \in 1..5 : m = Len(events[q]) /\ m = 3
  BY <1>1, Positions DEF StartReconciliation
<1>7. Len(events[q]) >= 4 - 1
  BY <1>6
<1>8. Position["starting"] = 4 /\ "starting" \in Working
  BY DEF Position, Working
<1> QED
  BY <1>3, <1>4, <1>5, <1>7, <1>8 DEF Begins

\* What a step of a gateway call is.
LEMMA GatewayStepKinds ==
  ASSUME GInv, NEW r \in Reporters, GatewayCall(r)
  PROVE  \/ CallNext(r) /\ step' = step
         \/ \E n \in 1..5 : \E a : Begins(r, n, a)
         \/ Rests(r)
         \/ Drops(r) /\ step'[r] = "free"
<1>0. clock \in Times /\ step \in [Reporters -> Resting \cup Working]
  BY DEF GInv, RInv, GatewayTyped
<1>o. /\ Order[2] = "attempt" /\ Order[3] = "confirmation" /\ Order[4] = "start"
      /\ Order[5] = "result"
  BY DEF Order
<1>1. CASE CallNext(r) /\ UNCHANGED gatewayVars
  BY <1>1 DEF gatewayVars
<1>2. CASE \E receipt \in Receipts : Accept(r, receipt)
  <2>1. 1 \in 1..5
    OBVIOUS
  <2> QED
    BY <1>2, <2>1, AcceptBegins
<1>3. CASE Attempt(r)
  <2>1. [startedAt |-> clock] \in Evidence(Order[2])
    BY <1>0, <1>o DEF Evidence, Attempts
  <2>2. /\ "recording" \in Working /\ "attempting" \in Working
        /\ Position["recording"] = 2 - 1 /\ Position["attempting"] = 2 /\ 2 \in 2..5 /\ 2 \in 1..5
    BY DEF Working, Position
  <2>3. Continue(r, "recording", Order[2], [startedAt |-> clock], "attempting")
    BY <1>3, <1>o DEF Attempt
  <2> QED
    BY <2>1, <2>2, <2>3, ContinueBegins
<1>4. CASE \E confirmation \in Confirmations : Confirm(r, confirmation)
  <2>1. PICK confirmation \in Confirmations : Confirm(r, confirmation)
    BY <1>4
  <2>2. confirmation \in Evidence(Order[3])
    BY <1>o DEF Evidence
  <2>3. /\ "attempting" \in Working /\ "confirming" \in Working
        /\ Position["attempting"] = 3 - 1 /\ Position["confirming"] = 3 /\ 3 \in 2..5 /\ 3 \in 1..5
    BY DEF Working, Position
  <2>4. Continue(r, "attempting", Order[3], confirmation, "confirming")
    BY <2>1, <1>o DEF Confirm
  <2> QED
    BY <2>2, <2>3, <2>4, ContinueBegins
<1>5. CASE ReturnConfirmation(r)
  BY <1>0, <1>5 DEF ReturnConfirmation, Returned, Becomes, Rests, Resting
<1>6. CASE \E q \in Requests, observer \in Observers : StartReconciliation(r, q, observer)
  <2>1. 4 \in 1..5
    OBVIOUS
  <2> QED
    BY <1>6, <2>1, StartBegins
<1>7. CASE \E result \in Results : Resolve(r, result)
  <2>1. PICK result \in Results : Resolve(r, result)
    BY <1>7
  <2>2. result \in Evidence(Order[5])
    BY <1>o DEF Evidence
  <2>3. /\ "starting" \in Working /\ "resolving" \in Working
        /\ Position["starting"] = 5 - 1 /\ Position["resolving"] = 5 /\ 5 \in 2..5 /\ 5 \in 1..5
    BY DEF Working, Position
  <2>4. Continue(r, "starting", Order[5], result, "resolving")
    BY <2>1, <1>o DEF Resolve
  <2> QED
    BY <2>2, <2>3, <2>4, ContinueBegins
<1>8. CASE ReturnReconciliation(r)
  BY <1>0, <1>8 DEF ReturnReconciliation, Returned, Becomes, Rests, Resting
<1>9. CASE Fail(r)
  BY <1>0, <1>9 DEF Fail, Becomes, Rests, Resting
<1>10. CASE Crash(r)
  BY <1>0, <1>10 DEF Crash, Becomes, Drops
<1> QED
  BY <1>1, <1>2, <1>3, <1>4, <1>5, <1>6, <1>7, <1>8, <1>9, <1>10 DEF GatewayCall

\* Every gateway step is one of the façade's users.
LEMMA BeginsReports ==
  ASSUME NEW r \in Reporters, NEW n \in 1..5, NEW a, Begins(r, n, a)
  PROVE  Reports(r)
<1>1. /\ a \in CallArgs /\ Report(r, a.request, a.key, a.evidence, a.now)
      /\ a.key = <<Order[n], a.request>>
  BY DEF Begins
<1>2. /\ a.request \in Requests /\ a.key \in TransitionKeys /\ a.now \in Times
      /\ a.evidence \in Evidence(a.key[1])
  BY <1>1, ArgsTyped
<1>3. a.key[1] = "dispatch" => a.request = a.evidence.request
  BY <1>1 DEF Order, Begins
<1>4. PICK key \in TransitionKeys : key = a.key
  BY <1>2
<1>5. PICK request \in Requests : request = a.request
  BY <1>2
<1>6. PICK now \in Times : now = a.now
  BY <1>2
<1>7. PICK evidence \in Evidence(key[1]) : evidence = a.evidence
  BY <1>2, <1>4
<1>8. (key[1] = "dispatch" => request = evidence.request) /\ Report(r, request, key, evidence, now)
  BY <1>1, <1>3, <1>4, <1>5, <1>6, <1>7
<1> QED
  BY <1>8 DEF Reports

\* Everything the gateway does to the tables and the calls, the façade allows.
LEMMA GatewaySteps ==
  ASSUME GInv, [GatewayNext]_allVars
  PROVE  [AnyStep]_vars
<1>1. ASSUME NEW r \in Reporters, GatewayCall(r) PROVE [AnyStep]_vars
  <2>1. CASE Rests(r)
    BY <2>1 DEF Rests
  <2>2. CASE CallNext(r) \/ Drops(r)
    BY <2>2 DEF AnyStep
  <2>3. CASE \E n \in 1..5 : \E a : Begins(r, n, a)
    BY <2>3, BeginsReports DEF AnyStep
  <2> QED
    BY <1>1, <2>1, <2>2, <2>3, GatewayStepKinds
<1> QED
  BY <1>1 DEF GatewayNext, AnyStep, allVars

-----------------------------------------------------------------------------
(* A call stays in place.                                                   *)

\* While others write, a call that does not move stays where it is.
LEMMA PlaceStays ==
  ASSUME RInv, RInv', Grown, NEW r \in Reporters, CallInPlace(r), CallRests(r),
         step'[r] = step[r], stage'[r] = stage[r], args'[r] = args[r], seen'[r] = seen[r],
         outcome'[r] = outcome[r]
  PROVE  CallInPlace(r)' /\ CallRests(r)'
<1>0. \A q \in Requests : /\ Len(events[q]) \in Nat /\ Len(events'[q]) \in Nat
                          /\ Len(events'[q]) <= 5
  BY DEF RInv, TablesInv, Typed, ChainIsLinear
<1>1. ASSUME NEW a \in CallArgs, NEW n \in 1..5, Stored(a, n)
      PROVE  Stored(a, n)'
  <2>1. PICK q \in Requests : q = a.request
    BY ArgsTyped
  <2>2. events'[q][n] = events[q][n] /\ Len(events'[q]) >= n
    BY <1>0, <1>1, <2>1 DEF Stored, Grown
  <2> QED
    BY <1>1, <2>1, <2>2 DEF Stored
<1>2. CallRests(r)'
  <2>1. ASSUME step[r] = "confirmed" PROVE Stored(args[r], 3)'
    <3>1. PICK a \in CallArgs : a = args[r] /\ Stored(a, 3)
      BY <2>1 DEF CallRests, Stored
    <3>2. Stored(a, 3)'
      BY <1>1, <3>1
    <3> QED
      BY <3>1, <3>2 DEF Stored
  <2>2. ASSUME step[r] = "reconciled"
        PROVE  Stored(args[r], 5)' /\ operations'[args'[r].request].state = "reconciled"
    <3>1. PICK a \in CallArgs : a = args[r] /\ Stored(a, 5)
      BY <2>2 DEF CallRests, Stored
    <3>2. Stored(a, 5)'
      BY <1>1, <3>1
    <3>3. PICK q \in Requests : q = a.request
      BY ArgsTyped
    <3>4. Len(events[q]) = 5 /\ Len(events'[q]) = 5
      <4>1. PICK m \in Nat, k \in Nat : m = Len(events[q]) /\ k = Len(events'[q])
        BY <1>0
      <4>2. m >= 5 /\ k >= 5
        BY <3>1, <3>2, <3>3, <4>1 DEF Stored
      <4>3. m <= 5 /\ k <= 5
        BY <1>0, <4>1 DEF RInv, TablesInv, ChainIsLinear
      <4>4. m = 5 /\ k = 5
        BY <4>2, <4>3
      <4> QED
        BY <4>1, <4>4
    <3>5. operations'[q] = operations[q]
      BY <3>4 DEF Grown
    <3> QED
      BY <2>2, <3>1, <3>2, <3>3, <3>5 DEF Stored, CallRests
  <2> QED
    BY <2>1, <2>2 DEF CallRests
<1>3. ASSUME step[r] \in Working PROVE InPlace(r, args[r], Position[step[r]])'
  <2>1. PICK a, n : a = args[r] /\ n = Position[step[r]] /\ InPlace(r, a, n)
    BY <1>3 DEF CallInPlace
  <2>2. n \in 1..5
    BY <1>3, <2>1 DEF Working, Position
  <2>3. PICK q \in Requests : q = a.request
    BY <2>1, ArgsTyped DEF InPlace
  <2> DEFINE length == Len(events[q])
             longer == Len(events'[q])
  <2>4. /\ length \in Nat /\ longer \in length..(length + 1) /\ length >= n - 1
        /\ longer = length => operations'[q] = operations[q]
        /\ \A i \in 1..length : events'[q][i] = events[q][i]
    BY <1>0, <2>1, <2>3 DEF Grown, InPlace
  <2>5. longer >= n - 1 /\ (longer = n - 1 => length = n - 1)
    BY <2>2, <2>4
  <2>6. ASSUME longer = n - 1, n # 1
        PROVE  /\ stage'[r] = "events" => seen'[r] = operations'[q]
               /\ stage'[r] = "commit" => InTime(Order[n], a.evidence, operations'[q], a.now)
    BY <2>1, <2>3, <2>4, <2>5, <2>6 DEF InPlace
  <2>7. ASSUME stage'[r] = "idle", outcome'[r] = "done"
        PROVE  /\ longer >= n
               /\ n # 1 => events'[q][n].evidence = a.evidence
               /\ n = 5 => seen'[r] = operations'[q]
    <3>1. /\ length >= n
          /\ n # 1 => events[q][n].evidence = a.evidence
          /\ n = 5 => seen[r] = operations[q]
      BY <2>1, <2>3, <2>7 DEF InPlace
    <3>2. n \in 1..length /\ longer >= n
      BY <2>2, <2>4, <3>1
    <3>3. events'[q][n] = events[q][n]
      BY <2>4, <3>2
    <3>4. n = 5 => longer = length
      <4>1. longer <= 5
        BY <1>0
      <4> QED
        BY <2>4, <3>1, <4>1
    <3> QED
      BY <2>4, <3>1, <3>2, <3>3, <3>4
  <2>8. InPlace(r, a, n)'
    BY <2>1, <2>3, <2>5, <2>6, <2>7 DEF InPlace
  <2> QED
    BY <2>1, <2>8 DEF InPlace
<1> QED
  BY <1>2, <1>3 DEF CallInPlace

\* Each position has a method of its own.
LEMMA OrderInjective ==
  \A i, j \in 1..5 : Order[i] = Order[j] => i = j
BY DEF Order

\* What a transaction of the gateway stores is what its call was told; and when it
\* returns, the chain holds it.
LEMMA CommitStores ==
  ASSUME RInv, RInv', Grown, NEW r \in Reporters, NEW a \in CallArgs, a = args[r], NEW n \in 1..5,
         a.key = <<Order[n], a.request>>, Commit(r)
  PROVE  LET q == a.request IN
         /\ q \in Requests /\ Len(events'[q]) >= n
         /\ n # 1 => events'[q][n].evidence = a.evidence
         /\ \/ UNCHANGED tables
            \/ \E row \in EventRows, op \in OperationRows :
                 /\ TableStep(q, row, op) /\ Len(events[q]) = n - 1
                 /\ row.method = Order[n] /\ row.evidence = a.evidence /\ row.occurredAt = a.now
<1>1. PICK q \in Requests : q = a.request
  BY ArgsTyped
<1>2. /\ a.key \in TransitionKeys /\ a.key[1] = Order[n] /\ a.now \in Times
      /\ a.evidence \in Evidence(Order[n]) /\ TablesInv
      /\ n = 1 => q = a.evidence.request
  <2>1. a.key[1] = Order[n]
    OBVIOUS
  <2>2. CallFits(r) /\ stage[r] = "commit"
    BY DEF RInv, Commit
  <2>3. n = 1 => a.key[1] = "dispatch"
    BY <2>1 DEF Order
  <2>4. a.key[1] = "dispatch" => a.request = a.evidence.request
    BY <2>2 DEF CallFits
  <2>5. a.key \in TransitionKeys /\ a.now \in Times /\ a.evidence \in Evidence(a.key[1])
    BY ArgsTyped
  <2>6. TablesInv
    BY DEF RInv
  <2> QED
    BY <1>1, <2>1, <2>3, <2>4, <2>5, <2>6
<1>3. Order[n] = "dispatch" <=> n = 1
  BY DEF Order
<1>4. Len(events[q]) \in Nat /\ Len(events'[q]) \in Nat /\ Len(events[q]) <= 5
      /\ Len(events[q]) <= Len(events'[q])
      /\ \A i \in 1..Len(events[q]) : events'[q][i] = events[q][i]
  BY DEF RInv, TablesInv, Typed, Grown, ChainIsLinear
\* A replay.
<1>5. ASSUME IsReplay(q, a.key, a.evidence), UNCHANGED tables
      PROVE  Len(events'[q]) >= n /\ events'[q][n].evidence = a.evidence
  <2>1. PICK e \in Recorded(a.key) :
          e[1] = q /\ events[q][e[2]].method = Order[n] /\ events[q][e[2]].evidence = a.evidence
    BY <1>2, <1>5 DEF IsReplay
  <2>2. PICK i \in 1..Len(events[q]) : i = e[2]
    BY <2>1, RecordedMembers
  <2>3. events[q][i].method = Order[i]
    BY <1>2 DEF TablesInv, ChainIsLinear
  <2>4. i \in 1..5
    BY <1>4
  <2>5. i = n
    BY <2>1, <2>2, <2>3, <2>4 DEF Order
  <2> QED
    BY <1>4, <1>5, <2>1, <2>2, <2>5 DEF tables
\* A row of its own.
<1>6. ASSUME NEW row \in EventRows, NEW op \in OperationRows, TableStep(q, row, op),
             row.method = Order[n], row.evidence = a.evidence, row.occurredAt = a.now
      PROVE  /\ Len(events[q]) = n - 1 /\ Len(events'[q]) >= n
             /\ events'[q][n].evidence = a.evidence
  <2>1. PICK m \in 0..4 : m = Len(events[q]) /\ Order[n] = Order[m + 1]
    BY <1>2, <1>6, NextPosition
  <2>2. n = m + 1
    <3>1. m + 1 \in 1..5
      OBVIOUS
    <3> QED
      BY <2>1, <3>1, OrderInjective
  <2>3. Len(events'[q]) = Len(events[q]) + 1 /\ events'[q][Len(events[q]) + 1] = row
    BY <1>2, <1>6, Extended DEF TablesInv, TableStep
  <2> QED
    BY <1>6, <2>1, <2>2, <2>3
\* What is appended changes the tables.
<1>7. ASSUME NEW from, Append_(q, a.key, a.evidence, from, a.now), UNCHANGED tables
      PROVE  FALSE
  <2> DEFINE row == [key |-> a.key, method |-> a.key[1], from |-> from,
                     to |-> TargetState(a.key[1], a.evidence), evidence |-> a.evidence,
                     occurredAt |-> a.now]
  <2>1. events[q] \in Seq(EventRows)
    BY <1>2 DEF TablesInv, Typed
  <2>2. events'[q] = Append(events[q], row)
    BY <1>2, <1>7 DEF Append_, TablesInv, Typed
  <2> HIDE DEF row
  <2>3. Len(events'[q]) = Len(events[q]) + 1
    BY <2>1, <2>2
  <2> QED
    BY <1>4, <1>7, <2>3 DEF tables
<1>8. CASE n = 1
  <2>1. /\ a.evidence \in Receipts /\ RecordDispatched(a.evidence, a.key, a.now)
        /\ q = a.evidence.request
    BY <1>2, <1>3, <1>8 DEF Commit, Evidence
  <2>2. CASE UNCHANGED tables
    <3>1. operations[q] # Null
      <4>1. CASE CanReplayDispatch(a.evidence, a.key) /\ UNCHANGED tables
        <5>1. CASE IsReplay(q, a.key, a.evidence)
          <6>1. Len(events[q]) # 0
            BY <1>4, <1>5, <2>2, <5>1, <1>8 DEF tables
          <6> QED
            BY <1>2, <6>1 DEF TablesInv, ChainIsWhole
        <5>2. CASE \E p \in SameIdentity(a.evidence) : operations[p].receipt = a.evidence
          BY <1>2, <2>1, <5>2 DEF SameIdentity, TablesInv, ChainIsLinear
        <5> QED
          BY <2>1, <4>1, <5>1, <5>2 DEF CanReplayDispatch
      <4>2. CASE ~ (CanReplayDispatch(a.evidence, a.key) /\ UNCHANGED tables)
        BY <1>7, <2>1, <2>2, <4>2 DEF RecordDispatched
      <4> QED
        BY <4>1, <4>2
    <3>2. Len(events[q]) >= 1
      BY <1>2, <3>1 DEF TablesInv, ChainIsLinear
    <3> QED
      BY <1>1, <1>4, <1>8, <2>2, <3>2
  <2>3. CASE ~ UNCHANGED tables
    <3>1. PICK row \in EventRows, op \in OperationRows :
            /\ row.method = a.key[1] /\ row.evidence = a.evidence /\ row.occurredAt = a.now
            /\ TableStep(a.evidence.request, row, op)
      BY <1>2, <1>3, <1>8, <2>1, <2>3, DispatchStep
    <3> QED
      BY <1>1, <1>2, <1>6, <2>1, <3>1
  <2> QED
    BY <2>2, <2>3
<1>9. CASE n # 1
  <2>1. Transition(q, a.key, a.evidence, a.now)
    BY <1>1, <1>2, <1>3, <1>9 DEF Commit
  <2>2. CASE IsReplay(q, a.key, a.evidence) /\ UNCHANGED tables
    BY <1>1, <1>5, <2>2
  <2>3. CASE ~ UNCHANGED tables
    <3>1. PICK row \in EventRows, op \in OperationRows :
            /\ row.method = a.key[1] /\ row.evidence = a.evidence /\ row.occurredAt = a.now
            /\ TableStep(q, row, op)
      BY <1>2, <1>3, <1>9, <2>1, <2>3, TransitionStep
    <3> QED
      BY <1>1, <1>2, <1>6, <3>1
  <2>4. CASE UNCHANGED tables
    BY <1>7, <2>1, <2>2, <2>4 DEF Transition
  <2> QED
    BY <2>3, <2>4
<1> QED
  BY <1>8, <1>9

\* A step of a call's own façade call leaves the gateway call in place.
LEMMA FacadeKeepsPlace ==
  ASSUME GInv, RInv', Grown, NEW r \in Reporters, CallNext(r), step' = step
  PROVE  CallInPlace(r)' /\ CallRests(r)'
<1>0. stage[r] # "idle" /\ args' = args /\ RInv
  BY DEF GInv, CallNext, ReadOperation, ReadEvents, Commit, Refuse
<1>1. step[r] \in Working
  BY <1>0 DEF GInv, CallRests
<1>2. PICK a, n : a = args[r] /\ n = Position[step[r]] /\ InPlace(r, a, n)
  BY <1>1 DEF GInv, CallInPlace
<1>3. n \in 1..5 /\ a \in CallArgs /\ a.key = <<Order[n], a.request>> /\ a.key[1] = Order[n]
  BY <1>1, <1>2 DEF Working, Position, InPlace
<1>4. PICK q \in Requests : q = a.request
  BY <1>3, ArgsTyped
<1>5. CallRests(r)'
  BY <1>1 DEF CallRests, Working
<1>6. /\ stage \in [Reporters -> {"idle", "operation", "events", "commit"}]
      /\ seen \in [Reporters -> OperationRows \cup {Null}]
      /\ outcome \in [Reporters -> {"none", "done", "thrown"}]
  BY <1>0 DEF RInv
<1>7. CASE ReadOperation(r)
  <2>1. UNCHANGED tables /\ seen'[r] = operations[q]
    BY <1>2, <1>4, <1>6, <1>7 DEF ReadOperation
  <2>2. \/ stage'[r] = "idle" /\ outcome'[r] = "thrown"
        \/ stage'[r] = "events"
        \/ stage'[r] = "commit" /\ InTime(a.key[1], a.evidence, operations[q], a.now)
    BY <1>2, <1>4, <1>6, <1>7 DEF ReadOperation, Ends, Goto
  <2>3. InPlace(r, a, n)'
    BY <1>2, <1>3, <1>4, <2>1, <2>2 DEF InPlace, tables
  <2> QED
    BY <1>0, <1>2, <1>5, <2>3 DEF CallInPlace, InPlace
<1>8. CASE ReadEvents(r)
  <2>1. UNCHANGED <<tables, seen>> /\ stage[r] = "events"
    BY <1>8 DEF ReadEvents
  <2>2. \/ stage'[r] = "idle" /\ outcome'[r] = "thrown"
        \/ stage'[r] = "commit" /\ InTime(a.key[1], a.evidence, seen[r], a.now)
    BY <1>2, <1>4, <1>6, <1>8 DEF ReadEvents, Ends, Goto
  <2>3. InPlace(r, a, n)'
    BY <1>2, <1>3, <1>4, <2>1, <2>2 DEF InPlace, tables
  <2> QED
    BY <1>0, <1>2, <1>5, <2>3 DEF CallInPlace, InPlace
<1>9. CASE Commit(r)
  <2>1. /\ Len(events'[q]) >= n
        /\ n # 1 => events'[q][n].evidence = a.evidence
    BY <1>0, <1>2, <1>3, <1>4, <1>9, CommitStores
  <2>2. stage'[r] = "idle" /\ seen'[r] = operations'[q]
    BY <1>2, <1>4, <1>6, <1>9 DEF Commit, Ends, Goto
  <2>3. Len(events'[q]) >= n - 1 /\ Len(events'[q]) # n - 1
    <3>1. PICK m \in Nat : m = Len(events'[q])
      BY DEF RInv, TablesInv, Typed
    <3>2. m >= n - 1 /\ m # n - 1
      BY <1>3, <2>1, <3>1
    <3> QED
      BY <3>1, <3>2
  <2>4. InPlace(r, a, n)'
    BY <1>3, <1>4, <2>1, <2>2, <2>3 DEF InPlace
  <2> QED
    BY <1>0, <1>2, <1>5, <2>4 DEF CallInPlace, InPlace
<1>10. CASE Refuse(r)
  <2>1. UNCHANGED <<tables, seen>> /\ stage'[r] = "idle" /\ outcome'[r] = "thrown"
    BY <1>6, <1>10 DEF Refuse, Ends, Goto
  <2>2. InPlace(r, a, n)'
    BY <1>2, <1>3, <1>4, <2>1 DEF InPlace, tables
  <2> QED
    BY <1>0, <1>2, <1>5, <2>2 DEF CallInPlace, InPlace
<1> QED
  BY <1>7, <1>8, <1>9, <1>10 DEF CallNext

\* A call that begins is in place: nothing is read yet.
LEMMA BeginsInPlace ==
  ASSUME GInv, NEW r \in Reporters, NEW n \in 1..5, NEW a, Begins(r, n, a)
  PROVE  CallInPlace(r)' /\ CallRests(r)'
<1>1. /\ args'[r] = [request |-> a.request, key |-> a.key, evidence |-> a.evidence, now |-> a.now]
      /\ stage'[r] = IF n = 1 THEN "commit" ELSE "operation"
      /\ UNCHANGED tables
  BY DEF Begins, Report, Goto, GInv, RInv, Order
<1>2. args'[r] = a
  <2>1. PICK key \in TransitionKeys :
          a \in [request : Requests, key : {key}, evidence : Evidence(key[1]), now : Times]
    BY DEF Begins, CallArgs
  <2> QED
    BY <1>1, <2>1
<1>3. InPlace(r, a, n)'
  BY <1>1 DEF Begins, InPlace, tables
<1> QED
  BY <1>1, <1>2, <1>3 DEF Begins, CallInPlace, CallRests, InPlace, Working

\* A call that comes to rest has stored what it returns.
LEMMA RestsInPlace ==
  ASSUME GInv, NEW r \in Reporters, Rests(r)
  PROVE  CallInPlace(r)' /\ CallRests(r)'
<1>0. UNCHANGED <<tables, stage, args>> /\ step'[r] \notin Working
  BY DEF Rests, vars, reporterVars, Resting, Working
<1>1. CallInPlace(r)'
  BY <1>0 DEF CallInPlace
<1>2. ASSUME NEW n \in 2..5, step[r] \in Working, Position[step[r]] = n, outcome[r] = "done"
      PROVE  /\ Stored(args[r], n)' /\ args[r] \in CallArgs
             /\ n = 5 => seen[r] = operations[args[r].request]
  <2>1. InPlace(r, args[r], n) /\ stage[r] = "idle"
    BY <1>2 DEF GInv, CallInPlace, Rests
  <2> QED
    BY <1>0, <1>2, <2>1 DEF InPlace, Stored, tables
<1>3. ASSUME step'[r] = "confirmed" PROVE Stored(args[r], 3)'
  <2>1. step[r] \in Working /\ Position[step[r]] = 3 /\ outcome[r] = "done" /\ 3 \in 2..5
    BY <1>3 DEF Rests, Working, Position
  <2> QED
    BY <1>2, <2>1
<1>4. ASSUME step'[r] = "reconciled"
      PROVE  Stored(args[r], 5)' /\ operations'[args'[r].request].state = "reconciled"
  <2>1. /\ step[r] \in Working /\ Position[step[r]] = 5 /\ outcome[r] = "done" /\ 5 \in 2..5
        /\ seen[r].state = "reconciled"
    BY <1>4 DEF Rests, Working, Position
  <2> QED
    BY <1>0, <1>2, <2>1 DEF tables
<1>5. stage'[r] = "idle"
  BY <1>0 DEF Rests
<1> QED
  BY <1>1, <1>3, <1>4, <1>5 DEF CallRests

\* A call whose process died holds nothing.
LEMMA DropsInPlace ==
  ASSUME GInv, NEW r \in Reporters, Drops(r), step'[r] = "free"
  PROVE  CallInPlace(r)' /\ CallRests(r)'
<1>1. stage'[r] = "idle"
  BY DEF Drops, Goto, GInv, RInv
<1> QED
  BY <1>1 DEF CallInPlace, CallRests, Working

-----------------------------------------------------------------------------
(* The invariant.                                                           *)

\* Nothing is recorded and nobody is at work at first.
LEMMA InitGInv == GatewayInit => GInv
<1> SUFFICES ASSUME GatewayInit PROVE GInv
  OBVIOUS
<1>1. RInv
  BY InitRInv DEF GatewayInit
<1>2. GatewayTyped
  BY DEF GatewayInit, GatewayTyped, Resting
<1>3. ChainsAreTimed
  BY DEF GatewayInit, ReportersInit, TablesInit, ChainsAreTimed
<1>4. \A r \in Reporters : CallInPlace(r) /\ CallRests(r)
  BY DEF GatewayInit, ReportersInit, CallInPlace, CallRests, Working
<1> QED
  BY <1>1, <1>2, <1>3, <1>4 DEF GInv

\* Every step of a gateway call changes its own step alone.
LEMMA GatewayMoves ==
  ASSUME GInv, NEW r \in Reporters, GatewayCall(r)
  PROVE  /\ \A v \in Reporters \ {r} : step'[v] = step[v]
         /\ GatewayTyped'
<1> USE DEF GInv, GatewayTyped, Resting, Working, Becomes
<1>1. CASE CallNext(r) /\ UNCHANGED gatewayVars
  BY <1>1 DEF gatewayVars
<1>2. CASE \E receipt \in Receipts : Accept(r, receipt)
  BY <1>2 DEF Accept
<1>3. CASE Attempt(r) \/ (\E confirmation \in Confirmations : Confirm(r, confirmation))
           \/ (\E result \in Results : Resolve(r, result))
  BY <1>3 DEF Attempt, Confirm, Resolve, Continue
<1>4. CASE ReturnConfirmation(r) \/ ReturnReconciliation(r)
  BY <1>4 DEF ReturnConfirmation, ReturnReconciliation
<1>5. CASE \E q \in Requests, observer \in Observers : StartReconciliation(r, q, observer)
  BY <1>5 DEF StartReconciliation
<1>6. CASE Fail(r) \/ Crash(r)
  BY <1>6 DEF Fail, Crash
<1> QED
  BY <1>1, <1>2, <1>3, <1>4, <1>5, <1>6 DEF GatewayCall

\* Whatever one call does, every call is in place afterwards.
LEMMA NextInPlace ==
  ASSUME GInv, RInv', Grown, NEW r \in Reporters, GatewayCall(r), NEW v \in Reporters
  PROVE  CallInPlace(v)' /\ CallRests(v)'
<1>1. CASE v = r
  BY <1>1, GatewayStepKinds, FacadeKeepsPlace, BeginsInPlace, RestsInPlace, DropsInPlace
<1>2. CASE v # r
  <2>1. step'[v] = step[v]
    BY <1>2, GatewayMoves
  <2>2. /\ stage'[v] = stage[v] /\ args'[v] = args[v]
        /\ seen'[v] = seen[v] /\ outcome'[v] = outcome[v]
    <3>1. CASE Rests(r)
      BY <3>1 DEF Rests, vars, reporterVars
    <3>2. CASE CallNext(r) \/ Drops(r) \/ Reports(r)
      BY <1>2, <3>2, OthersStand DEF GInv
    <3> QED
      BY <3>1, <3>2, GatewayStepKinds, BeginsReports
  <2>3. CallInPlace(v) /\ CallRests(v) /\ RInv
    BY DEF GInv
  <2> QED
    BY <2>1, <2>2, <2>3, PlaceStays
<1> QED
  BY <1>1, <1>2

\* Every new event lies between the state it follows and its own record.
LEMMA NextTimed ==
  ASSUME GInv, RInv', Grown, NEW r \in Reporters, GatewayCall(r)
  PROVE  ChainsAreTimed'
<1>0. RInv /\ TablesInv
  BY DEF GInv, RInv
<1>1. CASE UNCHANGED tables
  BY <1>1 DEF GInv, ChainsAreTimed, tables
<1>2. CASE Commit(r) /\ step' = step /\ ~ UNCHANGED tables
  <2>1. step[r] \in Working /\ stage[r] = "commit"
    BY <1>2 DEF GInv, CallRests, Commit
  <2>2. PICK a, n : a = args[r] /\ n = Position[step[r]] /\ InPlace(r, a, n)
    BY <2>1 DEF GInv, CallInPlace
  <2>3. n \in 1..5 /\ a \in CallArgs /\ a.key = <<Order[n], a.request>>
    BY <2>1, <2>2 DEF Working, Position, InPlace
  <2>4. PICK q \in Requests : q = a.request
    BY <2>3, ArgsTyped
  <2>5. PICK row \in EventRows, op \in OperationRows :
          /\ TableStep(q, row, op) /\ Len(events[q]) = n - 1
          /\ row.method = Order[n] /\ row.evidence = a.evidence /\ row.occurredAt = a.now
    BY <1>0, <1>2, <2>2, <2>3, <2>4, CommitStores
  <2>6. /\ \A p \in Requests \ {q} : events'[p] = events[p]
        /\ Len(events'[q]) = n /\ events'[q][n] = row
        /\ \A i \in 1..(n - 1) : events'[q][i] = events[q][i]
    <3>1. /\ \A p \in Requests \ {q} : events'[p] = events[p]
          /\ Len(events'[q]) = (n - 1) + 1 /\ events'[q][(n - 1) + 1] = row
          /\ \A i \in 1..(n - 1) : events'[q][i] = events[q][i]
      BY <1>0, <2>5, Extended DEF TablesInv, TableStep
    <3>2. (n - 1) + 1 = n
      BY <2>3
    <3> QED
      BY <3>1, <3>2
  <2>7. n # 1 => Timed(events[q][n - 1], row)
    <3> SUFFICES ASSUME n # 1 PROVE Timed(events[q][n - 1], row)
      OBVIOUS
    <3>1. InTime(Order[n], a.evidence, operations[q], a.now)
      BY <2>1, <2>2, <2>4, <2>5 DEF InPlace
    <3>2. operations[q] # Null
      <4>1. Len(events[q]) # 0
        BY <2>3, <2>5
      <4> QED
        BY <1>0, <4>1 DEF TablesInv, ChainIsWhole
    <3>3. events[q][n - 1].occurredAt = operations[q].updatedAt
      BY <1>0, <2>5, <3>2 DEF TablesInv, ChainIsWhole
    <3> QED
      BY <2>5, <3>1, <3>3 DEF InTime, Timed
  <2>8. ASSUME NEW i \in 2..n PROVE Timed(events'[q][i - 1], events'[q][i])
    <3>1. CASE i = n
      <4>1. i - 1 \in 1..(n - 1) /\ n # 1
        BY <2>3, <2>8, <3>1
      <4> QED
        BY <2>6, <2>7, <3>1, <4>1
    <3>2. CASE i # n
      <4>1. i \in 2..(n - 1) /\ i - 1 \in 1..(n - 1) /\ i \in 1..(n - 1)
        BY <2>3, <2>8, <3>2
      <4>2. Timed(events[q][i - 1], events[q][i])
        BY <2>5, <4>1 DEF GInv, ChainsAreTimed
      <4> QED
        BY <2>6, <4>1, <4>2
    <3> QED
      BY <3>1, <3>2
  <2>9. ASSUME NEW p \in Requests, NEW i \in 2..Len(events'[p])
        PROVE  Timed(events'[p][i - 1], events'[p][i])
    <3>1. CASE p = q
      BY <2>6, <2>8, <2>9, <3>1
    <3>2. CASE p # q
      BY <2>6, <2>9, <3>2 DEF GInv, ChainsAreTimed
    <3> QED
      BY <3>1, <3>2
  <2> QED
    BY <2>9 DEF ChainsAreTimed, Timed
<1>3. CASE ReadOperation(r) \/ ReadEvents(r) \/ Refuse(r)
  BY <1>1, <1>3 DEF ReadOperation, ReadEvents, Refuse
<1>4. CASE Rests(r) \/ Drops(r) \/ Reports(r)
  BY <1>1, <1>4 DEF Rests, vars, Drops, Reports, Report
<1> QED
  BY <1>1, <1>2, <1>3, <1>4, GatewayStepKinds, BeginsReports DEF CallNext

\* GInv is inductive.
LEMMA NextGInv == GInv /\ [GatewayNext]_allVars => GInv'
<1> SUFFICES ASSUME GInv, [GatewayNext]_allVars PROVE GInv'
  OBVIOUS
<1>1. RInv' /\ Grown
  <2>1. [AnyStep]_vars /\ RInv
    BY GatewaySteps DEF GInv
  <2> QED
    BY <2>1, NextRInv, NextTables
<1>2. CASE \E r \in Reporters : GatewayCall(r)
  BY <1>1, <1>2, NextInPlace, NextTimed, GatewayMoves DEF GInv
<1>3. CASE (Tick /\ UNCHANGED gatewayVars) \/ UNCHANGED allVars
  <2>1. UNCHANGED <<tables, reporterVars, gatewayVars>>
    BY <1>3 DEF Tick, allVars, vars
  <2>2. GatewayTyped' /\ ChainsAreTimed'
    BY <2>1 DEF GInv, GatewayTyped, ChainsAreTimed, tables, gatewayVars
  <2>3. \A r \in Reporters : CallInPlace(r)' /\ CallRests(r)'
    BY <2>1, <1>1, PlaceStays DEF GInv, reporterVars, gatewayVars
  <2> QED
    BY <1>1, <2>2, <2>3 DEF GInv
<1> QED
  BY <1>2, <1>3 DEF GatewayNext

\* GInv holds throughout.
LEMMA GInvHolds == GatewaySpec => []GInv
BY InitGInv, NextGInv, PTL DEF GatewaySpec

-----------------------------------------------------------------------------
(* Stranded operations.                                                     *)

\* The receipts on record, and those being recorded, were answered.
ReceiptsAnswered ==
  /\ \A q \in Requests : operations[q] # Null => operations[q].receipt.key \in answered
  /\ \A r \in Reporters : step[r] = "recording" => args[r].evidence.key \in answered

AInv == GInv /\ ReceiptsAnswered

\* Whoever works on the operation records another receipt, in vain.
Stuck(r, q) ==
  step[r] \in Working /\ args[r].request = q =>
    /\ step[r] = "recording" /\ args[r].evidence # operations[q].receipt
    /\ ~ (stage[r] = "idle" /\ outcome[r] = "done")

Stranded(q, state) == Stands(q, state) /\ \A r \in Reporters : Stuck(r, q)

OpenStates == {"dispatched", "attempted", "reconciling"}

\* A call leaves the other calls where they are.
LEMMA BystandersStand ==
  ASSUME GInv, NEW r \in Reporters, GatewayCall(r), NEW v \in Reporters \ {r}
  PROVE  step'[v] = step[v] /\ args'[v] = args[v]
<1>0. RInv
  BY DEF GInv
<1>1. step'[v] = step[v]
  BY GatewayMoves
<1>2. CASE Rests(r)
  BY <1>1, <1>2 DEF Rests, vars, reporterVars
<1>3. CASE CallNext(r) \/ Drops(r) \/ Reports(r)
  BY <1>0, <1>1, <1>3, OthersStand
<1> QED
  BY <1>2, <1>3, GatewayStepKinds, BeginsReports

\* The receipt of a row is the one of the call that opened it, for good.
LEMMA RowsAreRecorded ==
  ASSUME GInv, NEW r \in Reporters, GatewayCall(r), NEW q \in Requests, operations'[q] # Null
  PROVE  \/ operations[q] # Null /\ operations'[q].receipt = operations[q].receipt
         \/ step[r] = "recording" /\ operations'[q].receipt = args[r].evidence
<1>0. /\ RInv /\ step \in [Reporters -> Resting \cup Working]
      /\ args \in [Reporters -> CallArgs \cup {Null}] /\ TablesInv
  BY DEF GInv, RInv, GatewayTyped
<1>1. CASE operations'[q] = operations[q]
  BY <1>1
<1>2. CASE operations'[q] # operations[q]
  <2>1. Commit(r) /\ step' = step
    BY <1>0, <1>2, GatewayStepKinds
    DEF CallNext, ReadOperation, ReadEvents, Refuse, Begins, Report, Rests, vars, Drops, tables
  <2>2. step[r] \in Working /\ stage[r] = "commit"
    BY <1>0, <2>1 DEF GInv, CallRests, Commit
  <2>3. PICK a, n : a = args[r] /\ n = Position[step[r]] /\ InPlace(r, a, n)
    BY <1>0, <2>2 DEF GInv, CallInPlace
  <2>4. n \in 1..5 /\ a \in CallArgs /\ a.key = <<Order[n], a.request>>
    BY <2>2, <2>3 DEF Working, Position, InPlace
  <2>5. PICK p \in Requests : p = a.request
    BY <2>4, ArgsTyped
  <2>6. RInv' /\ Grown
    <3>1. [AnyStep]_vars
      BY <2>1 DEF AnyStep, CallNext
    <3> QED
      BY <1>0, <3>1, NextRInv, NextTables
  <2>7. PICK row \in EventRows, op \in OperationRows :
          /\ TableStep(p, row, op) /\ row.method = Order[n] /\ row.evidence = a.evidence
    BY <1>0, <1>2, <2>1, <2>3, <2>4, <2>5, <2>6, CommitStores DEF tables
  <2>8. p = q /\ operations'[q] = op
    BY <1>0, <1>2, <2>7, Extended DEF TablesInv, TableStep
  <2>9. CASE Opens(q, row, op)
    <3>1. Order[n] = "dispatch"
      BY <2>7, <2>9 DEF Opens
    <3>2. n = 1
      BY <2>4, <3>1 DEF Order
    <3>3. step[r] = "recording"
      BY <2>2, <2>3, <3>2 DEF Working, Position
    <3> QED
      BY <2>3, <2>7, <2>8, <2>9, <3>3 DEF Opens
  <2>10. CASE Continues(q, row, op)
    BY <2>8, <2>10 DEF Continues
  <2> QED
    BY <2>7, <2>8, <2>9, <2>10 DEF TableStep
<1> QED
  BY <1>1, <1>2

\* A call is at its recording if it was, or if it just took a receipt.
LEMMA WaysToRecord ==
  ASSUME GInv, NEW r \in Reporters, GatewayCall(r), step'[r] = "recording"
  PROVE  \/ step[r] = "recording" /\ args'[r] = args[r]
         \/ \E receipt \in Receipts : Accept(r, receipt) /\ args'[r].evidence = receipt
<1>0. /\ step \in [Reporters -> Resting \cup Working]
      /\ args \in [Reporters -> CallArgs \cup {Null}]
  BY DEF GInv, RInv, GatewayTyped
<1>1. CASE \E receipt \in Receipts : Accept(r, receipt)
  <2>1. PICK receipt \in Receipts : Accept(r, receipt)
    BY <1>1
  <2>2. args'[r].evidence = receipt
    BY <1>0, <2>1 DEF Accept, Report
  <2> QED
    BY <2>1, <2>2
<1>2. CASE CallNext(r) /\ UNCHANGED gatewayVars
  BY <1>2 DEF CallNext, gatewayVars, ReadOperation, ReadEvents, Commit, Refuse
<1>3. CASE /\ ~ (CallNext(r) /\ UNCHANGED gatewayVars)
           /\ ~ \E receipt \in Receipts : Accept(r, receipt)
  <2>1. step'[r] # "recording"
    BY <1>0, <1>3
    DEF GatewayCall, Attempt, Confirm, Continue, ReturnConfirmation, StartReconciliation,
        Resolve, ReturnReconciliation, Fail, Crash, Becomes
  <2> QED
    BY <2>1
<1> QED
  BY <1>1, <1>2, <1>3

\* Receipts that are or may be recorded were answered.
LEMMA NextAnswered ==
  ASSUME AInv, NEW r \in Reporters, GatewayCall(r)
  PROVE  ReceiptsAnswered'
<1>0. GInv
  BY DEF AInv
<1>1. answered \subseteq answered'
  BY DEF GatewayCall, gatewayVars, Accept, Attempt, Confirm, Continue, ReturnConfirmation,
         StartReconciliation, Resolve, ReturnReconciliation, Fail, Crash
<1>2. ASSUME NEW v \in Reporters, step'[v] = "recording"
      PROVE  args'[v].evidence.key \in answered'
  <2>1. CASE step[v] = "recording" /\ args'[v] = args[v]
    BY <1>1, <2>1 DEF AInv, ReceiptsAnswered
  <2>2. CASE v # r
    BY <1>0, <1>2, <2>1, <2>2, BystandersStand
  <2>3. CASE v = r
    <3>1. CASE \E receipt \in Receipts : Accept(r, receipt) /\ args'[r].evidence = receipt
      BY <2>3, <3>1 DEF Accept
    <3> QED
      BY <1>0, <1>2, <2>1, <2>3, <3>1, WaysToRecord
  <2> QED
    BY <2>2, <2>3
<1>3. ASSUME NEW q \in Requests, operations'[q] # Null
      PROVE  operations'[q].receipt.key \in answered'
  BY <1>0, <1>1, <1>3, RowsAreRecorded DEF AInv, ReceiptsAnswered
<1> QED
  BY <1>2, <1>3 DEF ReceiptsAnswered

\* AInv holds throughout.
LEMMA AInvHolds == GatewaySpec => []AInv
<1>1. GatewayInit => AInv
  <2> SUFFICES ASSUME GatewayInit PROVE ReceiptsAnswered
    BY InitGInv DEF AInv
  <2> QED
    BY DEF GatewayInit, ReportersInit, TablesInit, ReceiptsAnswered
<1>2. AInv /\ [GatewayNext]_allVars => AInv'
  <2> SUFFICES ASSUME AInv, [GatewayNext]_allVars PROVE ReceiptsAnswered'
    BY NextGInv DEF AInv
  <2>1. CASE \E r \in Reporters : GatewayCall(r)
    BY <2>1, NextAnswered
  <2>2. CASE (Tick /\ UNCHANGED gatewayVars) \/ UNCHANGED allVars
    BY <2>2 DEF AInv, ReceiptsAnswered, Tick, allVars, vars, tables, reporterVars, gatewayVars
  <2> QED
    BY <2>1, <2>2 DEF GatewayNext
<1> QED
  BY <1>1, <1>2, PTL DEF GatewaySpec

\* The façade call of whoever works on a stranded operation stores nothing: its
\* receipt is another one.
LEMMA StuckFacade ==
  ASSUME AInv, NEW q \in Requests, NEW state \in OpenStates, Stranded(q, state),
         NEW r \in Reporters, CallNext(r), step' = step
  PROVE  operations'[q] = operations[q] /\ Stuck(r, q)'
<1>0. /\ GInv /\ RInv /\ TablesInv /\ step[r] \in Working /\ stage[r] # "idle" /\ args' = args
      /\ stage \in [Reporters -> {"idle", "operation", "events", "commit"}]
      /\ outcome \in [Reporters -> {"none", "done", "thrown"}]
  BY DEF AInv, GInv, RInv, CallRests, CallNext, ReadOperation, ReadEvents, Commit, Refuse
<1>1. PICK a, n : a = args[r] /\ n = Position[step[r]] /\ InPlace(r, a, n)
  BY <1>0 DEF GInv, CallInPlace
<1>2. n \in 1..5 /\ a \in CallArgs /\ a.key = <<Order[n], a.request>>
  BY <1>0, <1>1 DEF Working, Position, InPlace
<1>3. PICK p \in Requests : p = a.request
  BY <1>2, ArgsTyped
<1>4. CASE ReadOperation(r) \/ ReadEvents(r) \/ Refuse(r)
  <2>1. UNCHANGED tables
    BY <1>4 DEF ReadOperation, ReadEvents, Refuse
  <2>2. ~ (stage'[r] = "idle" /\ outcome'[r] = "done")
    BY <1>0, <1>4 DEF ReadOperation, ReadEvents, Refuse, Ends, Goto
  <2> QED
    BY <1>0, <2>1, <2>2 DEF Stranded, Stuck, tables
<1>5. CASE Commit(r) /\ p # q
  <2>1. args'[r].request # q
    BY <1>0, <1>1, <1>3, <1>5
  <2>2. RInv' /\ Grown
    <3>1. [AnyStep]_vars
      BY <1>5 DEF AnyStep, CallNext
    <3> QED
      BY <1>0, <3>1, NextRInv, NextTables
  <2>3. CASE UNCHANGED tables
    BY <2>1, <2>3 DEF Stuck, tables
  <2>4. CASE ~ UNCHANGED tables
    <3>1. PICK row \in EventRows, op \in OperationRows : TableStep(p, row, op)
      BY <1>0, <1>1, <1>2, <1>3, <1>5, <2>2, <2>4, CommitStores
    <3>2. operations'[q] = operations[q]
      BY <1>0, <1>5, <3>1, Extended DEF TablesInv, TableStep
    <3> QED
      BY <2>1, <3>2 DEF Stuck
  <2> QED
    BY <2>3, <2>4
<1>6. CASE Commit(r) /\ p = q
  <2>1. step[r] = "recording" /\ a.evidence # operations[q].receipt
    BY <1>0, <1>1, <1>3, <1>6 DEF Stranded, Stuck
  <2>2. n = 1 /\ a.key[1] = "dispatch"
    BY <1>1, <1>2, <2>1 DEF Position, Order
  <2>3. /\ RecordDispatched(a.evidence, a.key, a.now) /\ a.evidence.request = q
        /\ operations[q] # Null /\ operations[q].receipt.request = q
        /\ operations[q].receipt = events[q][1].evidence
    BY <1>0, <1>1, <1>3, <1>6, <2>2
    DEF Commit, RInv, CallFits, TablesInv, ChainIsLinear, Stranded, Stands
  <2>4. ~ CanDispatch(a.evidence, a.key)
    BY <2>3 DEF CanDispatch, SameIdentity
  <2>5. ~ IsReplay(q, a.key, a.evidence)
    <3> SUFFICES ASSUME NEW e \in Recorded(a.key), e[1] = q,
                        events[q][e[2]].method = "dispatch",
                        events[q][e[2]].evidence = a.evidence
                 PROVE  FALSE
      BY <2>2 DEF IsReplay
    <3>1. PICK i \in 1..Len(events[q]) : i = e[2]
      BY RecordedMembers
    <3>2. events[q][i].method = Order[i] /\ Len(events[q]) <= 5
      BY <1>0, <3>1 DEF TablesInv, ChainIsLinear
    <3>3. PICK m \in Nat : m = Len(events[q])
      BY <1>0 DEF TablesInv, Typed
    <3>4. i \in 1..5
      BY <3>2, <3>3
    <3>5. i = 1
      BY <3>1, <3>2, <3>4 DEF Order
    <3> QED
      BY <2>1, <2>3, <3>1, <3>5
  <2>6. \A u \in SameIdentity(a.evidence) : operations[u].receipt # a.evidence
    BY <1>0, <2>1, <2>3 DEF SameIdentity, TablesInv, ChainIsLinear
  <2> QED
    BY <2>3, <2>4, <2>5, <2>6 DEF RecordDispatched, CanReplayDispatch
<1> QED
  BY <1>4, <1>5, <1>6 DEF CallNext

\* No step of any call moves a stranded operation.
LEMMA NextStranded ==
  ASSUME AInv, NEW q \in Requests, NEW state \in OpenStates, Stranded(q, state),
         [GatewayNext]_allVars
  PROVE  Stranded(q, state)'
<1>0. /\ GInv /\ RInv /\ step \in [Reporters -> Resting \cup Working]
      /\ args \in [Reporters -> CallArgs \cup {Null}]
      /\ stage \in [Reporters -> {"idle", "operation", "events", "commit"}]
  BY DEF AInv, GInv, RInv, GatewayTyped
<1>1. ASSUME NEW r \in Reporters, GatewayCall(r)
      PROVE  operations'[q] = operations[q] /\ Stuck(r, q)'
  <2> USE <1>0 DEF Becomes, Working, Resting
  <2>1. CASE CallNext(r) /\ UNCHANGED gatewayVars
    BY <2>1, StuckFacade DEF gatewayVars
  <2>2. CASE \E receipt \in Receipts : Accept(r, receipt)
    <3>1. PICK receipt \in Receipts : Accept(r, receipt)
      BY <2>2
    <3>2. /\ UNCHANGED tables /\ step'[r] = "recording" /\ stage'[r] = "commit"
          /\ args'[r].evidence = receipt
      BY <3>1 DEF Accept, Report, Goto
    <3>3. receipt # operations[q].receipt
      BY <3>1 DEF Accept, AInv, ReceiptsAnswered, Stranded, Stands
    <3> QED
      BY <3>2, <3>3 DEF Stuck, tables
  <2>3. CASE Attempt(r)
    <3>1. UNCHANGED tables /\ args'[r].request = args[r].request
      BY <2>3 DEF Attempt, Continue, Report
    <3>2. args[r].request # q
      BY <2>3 DEF Attempt, Continue, Returned, Stranded, Stuck
    <3> QED
      BY <3>1, <3>2 DEF Stuck, tables
  <2>4. CASE \E confirmation \in Confirmations : Confirm(r, confirmation)
    <3>1. UNCHANGED tables /\ args'[r].request = args[r].request
      BY <2>4 DEF Confirm, Continue, Report
    <3>2. args[r].request # q
      BY <2>4 DEF Confirm, Continue, Returned, Stranded, Stuck
    <3> QED
      BY <3>1, <3>2 DEF Stuck, tables
  <2>5. CASE \E result \in Results : Resolve(r, result)
    <3>1. UNCHANGED tables /\ args'[r].request = args[r].request
      BY <2>5 DEF Resolve, Continue, Report
    <3>2. args[r].request # q
      BY <2>5 DEF Resolve, Continue, Returned, Stranded, Stuck
    <3> QED
      BY <3>1, <3>2 DEF Stuck, tables
  <2>6. CASE \E p \in Requests, observer \in Observers : StartReconciliation(r, p, observer)
    <3>1. PICK p \in Requests, observer \in Observers : StartReconciliation(r, p, observer)
      BY <2>6
    <3>2. UNCHANGED tables /\ args'[r].request = p
      BY <3>1 DEF StartReconciliation, Report
    <3>3. p # q
      BY <3>1 DEF StartReconciliation, Stranded, Stands, OpenStates
    <3> QED
      BY <3>2, <3>3 DEF Stuck, tables
  <2>7. CASE ReturnConfirmation(r) \/ ReturnReconciliation(r) \/ Fail(r)
    <3>1. UNCHANGED tables /\ step'[r] \notin Working
      BY <2>7 DEF ReturnConfirmation, ReturnReconciliation, Fail, vars
    <3> QED
      BY <3>1 DEF Stuck, tables
  <2>8. CASE Crash(r)
    BY <2>8 DEF Crash, Stuck, tables
  <2> QED
    BY <1>1, <2>1, <2>2, <2>3, <2>4, <2>5, <2>6, <2>7, <2>8 DEF GatewayCall
<1>2. ASSUME NEW r \in Reporters, GatewayCall(r), NEW v \in Reporters \ {r}
      PROVE  Stuck(v, q)'
  <2>1. step'[v] = step[v] /\ operations'[q] = operations[q]
    BY <1>0, <1>1, <1>2, GatewayMoves
  <2>2. args'[v] = args[v] /\ stage'[v] = stage[v] /\ outcome'[v] = outcome[v]
    <3>1. CASE Rests(r)
      BY <3>1 DEF Rests, vars, reporterVars
    <3>2. CASE CallNext(r) \/ Drops(r) \/ Reports(r)
      BY <1>0, <3>2, OthersStand
    <3> QED
      BY <1>0, <1>2, <3>1, <3>2, GatewayStepKinds, BeginsReports
  <2> QED
    BY <2>1, <2>2 DEF Stranded, Stuck
<1>3. CASE \E r \in Reporters : GatewayCall(r)
  <2>1. PICK r \in Reporters : GatewayCall(r)
    BY <1>3
  <2> QED
    BY <1>1, <1>2, <2>1 DEF Stranded, Stands
<1>4. CASE (Tick /\ UNCHANGED gatewayVars) \/ UNCHANGED allVars
  BY <1>4 DEF Tick, allVars, vars, tables, reporterVars, gatewayVars, Stranded, Stands, Stuck
<1> QED
  BY <1>3, <1>4 DEF GatewayNext

-----------------------------------------------------------------------------
(* Results.                                                                 *)

\* Types: gateway calls, tables and answers keep their shape.
THEOREM GatewayTypes == GatewaySpec => []GatewayTypeOK
<1>1. GInv => GatewayTypeOK
  <2> SUFFICES ASSUME GInv PROVE GatewayTypeOK
    OBVIOUS
  <2>1. ReportersTypeOK
    BY DEF GInv, RInv, TablesInv, Typed, ReportersTypeOK, TypeOK
  <2> QED
    BY <2>1 DEF GInv, GatewayTyped, GatewayTypeOK, Working
<1> QED
  BY <1>1, GInvHolds, PTL

\* No evidence on record predates the state it follows or postdates its record.
THEOREM EvidenceStaysInside == GatewaySpec => []EvidenceInsideWindow
<1>1. GInv => EvidenceInsideWindow
  BY DEF GInv, ChainsAreTimed, Timed, EvidenceInsideWindow, EvidenceInOrder
<1> QED
  BY <1>1, GInvHolds, PTL

\* An operation the gateway reconciled was observed as confirmed.
THEOREM GatewayReconcilesProven == GatewaySpec => []ReconciledIsProven
<1>1. GInv => ReconciledIsProven
  BY ProvenFromRInv DEF GInv
<1> QED
  BY <1>1, GInvHolds, PTL

\* What a gateway call returned is on record and stays there.
THEOREM ReturnsStayDurable == GatewaySpec => []ReturnsAreDurable
<1>1. GInv => ReturnsAreDurable
  <2> SUFFICES ASSUME GInv, NEW r \in Reporters
               PROVE  /\ step[r] = "confirmed" =>
                           LastEvidence(events[args[r].request], "confirmation") = args[r].evidence
                      /\ step[r] = "reconciled" =>
                           /\ operations[args[r].request].state = "reconciled"
                           /\ LastEvidence(events[args[r].request], "result") = args[r].evidence
    BY DEF ReturnsAreDurable
  <2>1. CallRests(r) /\ TablesInv
    BY DEF GInv, RInv
  <2>2. ASSUME NEW n \in 1..5, Stored(args[r], n)
        PROVE  LastEvidence(events[args[r].request], Order[n]) = args[r].evidence
    <3>1. PICK q \in Requests : q = args[r].request
      BY <2>2, ArgsTyped DEF Stored
    <3>2. /\ events[q] \in Seq(EventRows) /\ Len(events[q]) <= 5 /\ n <= Len(events[q])
          /\ \A i \in 1..Len(events[q]) : events[q][i].method = Order[i]
      <4>1. PICK m \in Nat : m = Len(events[q])
        BY <2>1 DEF TablesInv, Typed
      <4>2. m >= n
        BY <2>2, <3>1, <4>1 DEF Stored
      <4>3. n <= m
        BY <4>2
      <4> QED
        BY <2>1, <4>1, <4>3 DEF TablesInv, Typed, ChainIsLinear
    <3>3. LastEvidence(events[q], Order[n]) = events[q][n].evidence
      BY <3>2, LastOfMethod
    <3> QED
      BY <2>2, <3>1, <3>3 DEF Stored
  <2>3. Order[3] = "confirmation" /\ Order[5] = "result" /\ 3 \in 1..5 /\ 5 \in 1..5
    BY DEF Order
  <2> QED
    BY <2>1, <2>2, <2>3 DEF CallRests
<1> QED
  BY <1>1, GInvHolds, PTL

\* An operation whose call died keeps its state for ever.
THEOREM StrandedStayOpen == GatewaySpec => StrandedOperationsStayOpen
<1>1. ASSUME NEW q \in Requests, NEW state \in OpenStates
      PROVE  GatewaySpec => [](Unattended(q, state) => []Stands(q, state))
  <2>1. AInv /\ Unattended(q, state) => Stranded(q, state)
    BY DEF Unattended, Stranded, Stuck, Working, Resting
  <2>2. AInv /\ Stranded(q, state) /\ [GatewayNext]_allVars => Stranded(q, state)'
    BY NextStranded
  <2>3. Stranded(q, state) => Stands(q, state)
    BY DEF Stranded
  <2> QED
    BY <2>1, <2>2, <2>3, AInvHolds, PTL DEF GatewaySpec
<1> QED
  BY <1>1 DEF StrandedOperationsStayOpen, OpenStates

\* Under the gateway too the ledger, whose calls may die between any two steps,
\* implements the protocol its document draws.
THEOREM GatewayFollowsTheProtocol == GatewaySpec => ImplementsProtocol
<1>1. GatewayInit => Protocol!Init
  BY InitProtocol DEF GatewayInit
<1>2. GInv /\ [GatewayNext]_allVars => [Protocol!Next]_(Protocol!vars)
  BY GatewaySteps, NextProtocol DEF GInv
<1> QED
  BY <1>1, <1>2, GInvHolds, PTL DEF GatewaySpec, ImplementsProtocol, Protocol!Spec

\* And its chains keep what they promise to any reporters: whole, append-only,
\* one event per key and one operation per dispatch.
THEOREM GatewayKeepsTheChains ==
  GatewaySpec => []ChainIsWhole /\ []IdentitiesAreSingle /\ ChainIsAppendOnly
<1>1. GInv => ChainIsWhole /\ IdentitiesAreSingle
  BY SingleFromRInv DEF GInv, RInv, TablesInv
<1>2. GInv /\ [GatewayNext]_allVars =>
        [\A q \in Requests :
           /\ Len(events'[q]) \in Len(events[q])..(Len(events[q]) + 1)
           /\ SubSeq(events'[q], 1, Len(events[q])) = events[q]
           /\ operations[q] # Null /\ operations[q].state \in {"reconciled", "recovery_required"} =>
                operations'[q] = operations[q]]_tables
  BY GatewaySteps, StepAppends DEF GInv
<1> QED
  BY <1>1, <1>2, GInvHolds, PTL DEF GatewaySpec, ChainIsAppendOnly
-----------------------------------------------------------------------------
(* Behind the fence.  The dispatch of VerifiedGateway is the one the         *)
(* theorems of ColossusDispatch_proofs speak of.                             *)

\* Those theorems, with the parameters of the composed gateway.
DP == INSTANCE ColossusDispatch_proofs WITH Workers <- Reporters, Prints <- Fingerprints

\* What the theorems about the fence assume of its constants.
LEMMA FenceAssumptions ==
  /\ Times \subseteq Nat /\ PermitTtl \in Nat \ {0} /\ Approvals \subseteq DP!ApprovalDocs
  /\ TrustStores \subseteq [Signers -> DP!KeyRecords] /\ Envelopes = DP!EnvelopeShape
  /\ Null \notin DP!ApprovalRows /\ Null \notin DP!PermitRows /\ Null \notin Keys
  /\ Null \notin Times /\ Null \notin Envelopes /\ Null \notin Fingerprints
  /\ Null \notin DP!ReceiptStatuses
  /\ UnsignedApprovals \subseteq Approvals /\ LegacyApprovals \subseteq Approvals
  /\ \A c, d \in UnsignedApprovals \cup LegacyApprovals : c.id = d.id => c = d
  /\ \A c, d \in LegacyApprovals : c.key = d.key => c = d
  /\ UnsignedApprovals \cap LegacyApprovals = {}
  /\ \A c \in LegacyApprovals :
       c.issuedAt < c.expiresAt /\ c.expiresAt <= c.issuedAt + PermitTtl
BY TimesAssumption, TtlAssumption, DocsAssumption, TrustAssumption, NoRowAssumption,
   EnvelopeAssumption, LegacyAssumption
DEF D!ApprovalDocs, DP!ApprovalDocs, D!KeyRecords, DP!KeyRecords, D!KeyStatuses, DP!KeyStatuses,
    D!EnvelopeShape, DP!EnvelopeShape, D!ApprovalRows, DP!ApprovalRows, D!PermitRows,
    DP!PermitRows, D!ReceiptStatuses, DP!ReceiptStatuses

\* The two instances of the fence start alike.
LEMMA SameFenceInit == D!DispatchInit => DP!DispatchInit
BY DEF D!DispatchInit, DP!DispatchInit, D!Init, DP!Init, D!LegacyPermit, DP!LegacyPermit,
       D!LegacyRows, DP!LegacyRows, D!LegacyRow, DP!LegacyRow, D!NoAttempt, DP!NoAttempt,
       D!NoCall, DP!NoCall

\* They register, claim and authorize alike.
LEMMA SamePermit ==
  ASSUME NEW r \in Reporters
  PROVE  /\ D!Register(r) => DP!Register(r)
         /\ D!Claim(r) => DP!Claim(r)
         /\ D!Authorize(r) => DP!Authorize(r)
         /\ D!AuthorityFails(r) => DP!AuthorityFails(r)
<1>1. D!Register(r) => DP!Register(r)
  BY DEF D!Register, DP!Register, D!RegisterApproval, DP!RegisterApproval, D!CanRegister,
         DP!CanRegister, D!VerifiesUnder, DP!VerifiesUnder, D!InWindow, DP!InWindow,
         D!NewApprovalRow, DP!NewApprovalRow, D!Goto, DP!Goto
<1>2. D!Claim(r) => DP!Claim(r)
  BY DEF D!Claim, DP!Claim, D!ClaimDispatchPermit, DP!ClaimDispatchPermit, D!CanClaim,
         DP!CanClaim, D!CanReplayClaim, DP!CanReplayClaim, D!SubjectOf, DP!SubjectOf, D!Binds,
         DP!Binds, D!VerifiesUnder, DP!VerifiesUnder, D!InWindow, DP!InWindow, D!NewPermit,
         DP!NewPermit, D!Earlier, DP!Earlier, D!Goto, DP!Goto, D!ledgerVars, DP!ledgerVars
<1>3. /\ D!Authorize(r) => DP!Authorize(r)
      /\ D!AuthorityFails(r) => DP!AuthorityFails(r)
  BY DEF D!Authorize, DP!Authorize, D!AuthorityFails, DP!AuthorityFails, D!Goto, DP!Goto,
         D!ledgerVars, DP!ledgerVars
<1> QED
  BY <1>1, <1>2, <1>3

\* They reserve, enter the transport and settle alike.
LEMMA SameAttempt ==
  ASSUME NEW r \in Reporters
  PROVE  /\ D!Begin(r) => DP!Begin(r)
         /\ D!EnterTransport(r) => DP!EnterTransport(r)
         /\ \A receipt \in D!ReceiptShape :
              receipt \in DP!ReceiptShape /\ (D!Receive(r, receipt) => DP!Receive(r, receipt))
         /\ D!TransportFails(r) => DP!TransportFails(r)
         /\ D!Complete(r) => DP!Complete(r)
         /\ D!Refuse(r) => DP!Refuse(r)
         /\ D!Classify(r) => DP!Classify(r)
<1> USE DEF D!Goto, DP!Goto, D!ledgerVars, DP!ledgerVars
<1>1. D!Begin(r) => DP!Begin(r)
  BY DEF D!Begin, DP!Begin, D!BeginDispatchAttempt, DP!BeginDispatchAttempt, D!CanBegin,
         DP!CanBegin, D!NewAttempt, DP!NewAttempt
<1>2. D!EnterTransport(r) => DP!EnterTransport(r)
  BY DEF D!EnterTransport, DP!EnterTransport
<1>3. \A receipt \in D!ReceiptShape :
        receipt \in DP!ReceiptShape /\ (D!Receive(r, receipt) => DP!Receive(r, receipt))
  BY DEF D!Receive, DP!Receive, D!ReceiptShape, DP!ReceiptShape,
         D!ReceiptStatuses, DP!ReceiptStatuses
<1>4. D!Complete(r) => DP!Complete(r)
  BY DEF D!Complete, DP!Complete, D!CompleteDispatchAttempt, DP!CompleteDispatchAttempt,
         D!CanComplete, DP!CanComplete, D!CanReplayCompletion, DP!CanReplayCompletion,
         D!Settled, DP!Settled
<1>5. /\ D!TransportFails(r) => DP!TransportFails(r)
      /\ D!Refuse(r) => DP!Refuse(r)
      /\ D!Classify(r) => DP!Classify(r)
  BY DEF D!TransportFails, DP!TransportFails, D!Refuse, DP!Refuse, D!Classify, DP!Classify
<1> QED
  BY <1>1, <1>2, <1>3, <1>4, <1>5

\* Every step of the one is a step of the other.
LEMMA SameWorker ==
  ASSUME NEW r \in Reporters, D!WorkerNext(r)
  PROVE  DP!WorkerNext(r)
<1>1. D!Start(r) => DP!Start(r)
  BY DEF D!Start, DP!Start, D!OpenStore, DP!OpenStore, D!Migrated, DP!Migrated, D!Goto, DP!Goto
<1>2. /\ D!Crash(r) => DP!Crash(r)
      /\ \A doc \in Approvals : D!Submit(r, doc) => DP!Submit(r, doc)
  BY DEF D!Crash, DP!Crash, D!Submit, DP!Submit, D!NoCall, DP!NoCall, D!Goto, DP!Goto,
         D!ledgerVars, DP!ledgerVars, D!Resting, DP!Resting
<1> QED
  BY <1>1, <1>2, SamePermit, SameAttempt DEF D!WorkerNext, DP!WorkerNext, D!Step, DP!Step

\* So every step of the composed gateway's fence is one the theorems speak of.
LEMMA SameFenceNext == [D!DispatchNext]_(D!vars) => [DP!DispatchNext]_(DP!vars)
<1>1. D!vars = DP!vars /\ D!vars' = DP!vars'
  BY DEF D!vars, DP!vars, D!ledgerVars, DP!ledgerVars, D!workerVars, DP!workerVars
<1>2. D!Tick \/ D!RotateKeys => DP!Tick \/ DP!RotateKeys
  BY DEF D!Tick, DP!Tick, D!RotateKeys, DP!RotateKeys, D!ledgerVars, DP!ledgerVars,
         D!workerVars, DP!workerVars
<1> QED
  BY <1>1, <1>2, SameWorker DEF D!DispatchNext, DP!DispatchNext
-----------------------------------------------------------------------------
(* What a step of the composed gateway is for its two halves.               *)

\* What is on record, or about to be, went through the fence.
Vouched(receipt) == receipt.key \in Keys /\ Followed(receipt)

VInv ==
  /\ DP!EInv
  /\ GInv
  /\ \A r \in Reporters : pc[r] \in D!Working => step[r] \in Resting
  /\ \A k \in answered : k \in Keys /\ attempts[k].state = "accepted"
  /\ \A q \in Requests : operations[q] # Null => Vouched(operations[q].receipt)
  /\ \A r \in Reporters : step[r] = "recording" => Vouched(args[r].evidence)

\* Calls of the fence do not move the clock.
LEMMA FenceCallsKeepTheClock ==
  ASSUME NEW r \in Reporters, D!WorkerNext(r)
  PROVE  clock' = clock
BY DEF D!WorkerNext, D!Step, D!Start, D!Crash, D!Submit, D!Register, D!Claim, D!Authorize,
       D!AuthorityFails, D!Begin, D!EnterTransport, D!Receive, D!TransportFails, D!Complete,
       D!Refuse, D!Classify

\* Nor do those of the records.
LEMMA RecordsKeepTheClock ==
  ASSUME NEW r \in Reporters, GatewayCall(r)
  PROVE  clock' = clock
<1>1. CASE CallNext(r)
  BY <1>1 DEF CallNext, ReadOperation, ReadEvents, Commit, Refuse
<1>2. CASE ~ CallNext(r)
  BY <1>2
  DEF GatewayCall, Accept, Attempt, Confirm, Resolve, Continue, StartReconciliation, Report,
      ReturnConfirmation, ReturnReconciliation, Fail, Crash, vars
<1> QED
  BY <1>1, <1>2

\* A step of a call is a step of its half before the fence or leaves that alone.
LEMMA FenceActs ==
  ASSUME NEW r \in Reporters, VerifiedCall(r)
  PROVE  \/ D!WorkerNext(r)
         \/ UNCHANGED fenceVars /\ GatewayCall(r)
<1>1. CASE \E doc \in Approvals : Dispatch(r, doc)
  BY <1>1 DEF Dispatch, D!WorkerNext
<1>2. CASE Fence(r)
  BY <1>2 DEF Fence, D!WorkerNext, D!Step
<1>3. CASE Rejected(r) \/ Accepted(r)
  BY <1>3 DEF Rejected, Accepted, D!WorkerNext, D!Step
<1>4. CASE Record(r)
  BY <1>4 DEF Record, GatewayCall
<1>5. CASE \E q \in Requests, observer \in Observers : Reconcile(r, q, observer)
  BY <1>5 DEF Reconcile, GatewayCall
<1>6. CASE StartProcess(r) \/ EndProcess(r)
  BY <1>6 DEF StartProcess, EndProcess, D!WorkerNext
<1> QED
  BY <1>1, <1>2, <1>3, <1>4, <1>5, <1>6 DEF VerifiedCall

\* Every step of the composed gateway is one of its fence, or leaves that alone.
LEMMA NextFence == [VerifiedNext]_verifiedVars => [D!DispatchNext]_(D!vars)
<1> USE DEF D!vars, D!ledgerVars, D!workerVars, fenceVars
<1>1. ASSUME NEW r \in Reporters, VerifiedCall(r)
      PROVE  [D!DispatchNext]_(D!vars)
  <2>1. CASE D!WorkerNext(r)
    BY <2>1 DEF D!DispatchNext
  <2>2. CASE UNCHANGED fenceVars /\ GatewayCall(r)
    BY <2>2, RecordsKeepTheClock
  <2> QED
    BY <1>1, <2>1, <2>2, FenceActs
<1>2. CASE Surroundings
  BY <1>2 DEF Surroundings, D!DispatchNext
<1>3. CASE UNCHANGED verifiedVars
  BY <1>3 DEF verifiedVars, allVars, vars
<1> QED
  BY <1>1, <1>2, <1>3 DEF VerifiedNext

\* What the fence has settled stays settled.
LEMMA SettledStands ==
  ASSUME DP!EInv, [D!DispatchNext]_(D!vars), NEW k \in Keys, attempts[k].state = "accepted"
  PROVE  /\ attempts'[k] = attempts[k]
         /\ permits[k] # Null => permits'[k] = permits[k]
         /\ deliveries[k] = 1 => deliveries'[k] = 1
<1>1. DP!EInv' /\ [DP!DispatchNext]_(DP!vars)
  BY SameFenceNext, FenceAssumptions, DP!NextEInv
<1>2. DP!TypeOK /\ [DP!Next]_(DP!ledgerVars)
  BY <1>1, FenceAssumptions, DP!LedgerStep DEF DP!EInv, DP!DInv, DP!WorkersTypeOK
<1>3. attempts'[k] = attempts[k] /\ (permits[k] # Null => permits'[k] = permits[k])
  BY <1>2, FenceAssumptions, DP!StepKeepsHistory
<1>4. deliveries[k] = 1 => deliveries'[k] = 1
  <2>1. deliveries \in [Keys -> Nat] /\ deliveries'[k] \in {0, 1}
    BY <1>1 DEF DP!EInv, DP!DInv, DP!WorkersTypeOK, DP!EntriesFollowReservations
  <2>2. \/ deliveries' = deliveries
        \/ \E j \in Keys : deliveries' = [deliveries EXCEPT ![j] = @ + 1]
    <3>1. ASSUME NEW r \in Reporters, D!EnterTransport(r)
          PROVE  \E j \in Keys : deliveries' = [deliveries EXCEPT ![j] = @ + 1]
      <4>1. call[r].doc.key \in Keys
        BY <3>1, FenceAssumptions, DP!DocFacts
        DEF D!EnterTransport, DP!EInv, DP!DInv, DP!CallsInOrder, DP!Working
      <4> QED
        BY <3>1, <4>1 DEF D!EnterTransport
    <3> QED
      BY <3>1
      DEF D!DispatchNext, D!Tick, D!RotateKeys, D!WorkerNext, D!Step, D!Start, D!Crash, D!Submit,
          D!Register, D!Claim, D!Authorize, D!AuthorityFails, D!Begin, D!Receive,
          D!TransportFails, D!Complete, D!Refuse, D!Classify, D!vars
  <2> QED
    BY <2>1, <2>2
<1> QED
  BY <1>3, <1>4

\* So whoever went through the fence has for good.
LEMMA VouchedStays ==
  ASSUME DP!EInv, [D!DispatchNext]_(D!vars), NEW receipt, Vouched(receipt)
  PROVE  Vouched(receipt)'
BY SettledStands DEF Vouched, Followed

\* A receipt that leaves the fence answers the one attempt of its key, which was
\* open until then.
LEMMA AnswerIsVouched ==
  ASSUME VInv, NEW r \in Reporters, D!Complete(r), pc'[r] = "accepted",
         NEW receipt \in Receipts, Answers(receipt, call[r])
  PROVE  attempts[receipt.key].state = "started" /\ Vouched(receipt)'
<1> DEFINE k == call[r].doc.key
<1>1. /\ DP!EInv /\ pc[r] = "received"
      /\ pc \in [Reporters -> {"down"} \cup DP!Resting \cup DP!Working]
      /\ attempts \in [Keys -> DP!AttemptRows]
  BY DEF VInv, D!Complete, DP!EInv, DP!DInv, DP!WorkersTypeOK, DP!TypeOK
<1>2. call[r].doc \in Approvals /\ k \in Keys
  BY <1>1, FenceAssumptions, DP!DocFacts DEF DP!EInv, DP!DInv, DP!CallsInOrder, DP!Working
<1>3. attempts[k].state = "started" /\ attempts[k].envelope = call[r].envelope
  BY <1>1 DEF DP!EInv, DP!DInv, DP!ReservationIsExclusive, DP!InFlight
<1>4. /\ permits[k] # Null /\ permits[k].plan = call[r].doc.plan
      /\ deliveries[k] = 1
  BY <1>1 DEF DP!EInv, DP!DInv, DP!CallIsApproved, DP!InFlight, DP!EntriesFollowReservations
<1>5. call[r].receipt.status = "dispatched"
  BY <1>1 DEF D!Complete, D!Goto
<1>6. /\ attempts'[k].state = "accepted" /\ attempts'[k].envelope = call[r].envelope
      /\ permits' = permits /\ deliveries' = deliveries
  <2>1. PICK permit, envelope, print, now :
          D!CompleteDispatchAttempt(k, permit, envelope, "dispatched", print, now)
    BY <1>5 DEF D!Complete
  <2>2. /\ attempts' = [attempts EXCEPT ![k] = D!Settled(attempts[k], "dispatched", print, now)]
        /\ permits' = permits
    BY <1>3, <2>1 DEF D!CompleteDispatchAttempt, D!CanReplayCompletion
  <2>3. attempts'[k] = D!Settled(attempts[k], "dispatched", print, now)
    BY <1>1, <1>2, <2>2
  <2>4. /\ D!Settled(attempts[k], "dispatched", print, now).state = "accepted"
        /\ D!Settled(attempts[k], "dispatched", print, now).envelope = attempts[k].envelope
    <3>1. PICK row \in DP!AttemptRows : row = attempts[k]
      BY <1>1, <1>2
    <3> QED
      BY <3>1 DEF D!Settled, DP!AttemptRows
  <2> QED
    BY <1>3, <2>2, <2>3, <2>4 DEF D!Complete
<1> QED
  BY <1>2, <1>3, <1>4, <1>6 DEF Answers, Vouched, Followed

\* For the half behind the fence a step of a call is a step of the gateway's
\* records, or nothing: a receipt that leaves the fence was not answered before.
LEMMA RecordsAct ==
  ASSUME VInv, NEW r \in Reporters, VerifiedCall(r)
  PROVE  GatewayCall(r) \/ UNCHANGED allVars
<1> USE DEF ledgerSide, allVars, vars
<1>1. CASE \E doc \in Approvals : Dispatch(r, doc)
  BY <1>1, FenceCallsKeepTheClock DEF Dispatch, D!WorkerNext
<1>2. CASE Fence(r) \/ Rejected(r)
  BY <1>2, FenceCallsKeepTheClock DEF Fence, Rejected, D!WorkerNext, D!Step
<1>3. CASE Accepted(r)
  <2>1. PICK receipt \in Receipts :
          /\ Answers(receipt, call[r])
          /\ Report(r, receipt.request, <<"dispatch", receipt.request>>, receipt,
                    receipt.receivedAt)
          /\ answered' = answered \cup {receipt.key}
    BY <1>3 DEF Accepted
  <2>2. receipt.key \notin answered
    BY <1>3, <2>1, AnswerIsVouched DEF Accepted, VInv
  <2>3. step[r] \in Resting
    BY <1>3 DEF Accepted, D!Complete, D!Working, VInv
  <2>4. Accept(r, receipt)
    BY <1>3, <2>1, <2>2, <2>3 DEF Accept, Accepted
  <2> QED
    BY <2>4 DEF GatewayCall
<1>4. CASE Record(r)
  BY <1>4 DEF Record, GatewayCall
<1>5. CASE \E q \in Requests, observer \in Observers : Reconcile(r, q, observer)
  BY <1>5 DEF Reconcile, GatewayCall
<1>6. CASE StartProcess(r) \/ EndProcess(r)
  BY <1>6, FenceCallsKeepTheClock DEF StartProcess, EndProcess, D!WorkerNext, GatewayCall
<1> QED
  BY <1>1, <1>2, <1>3, <1>4, <1>5, <1>6 DEF VerifiedCall

\* Every step of the composed gateway is one the records allow.
LEMMA NextRecords == VInv /\ [VerifiedNext]_verifiedVars => [GatewayNext]_allVars
<1> SUFFICES ASSUME VInv, [VerifiedNext]_verifiedVars PROVE [GatewayNext]_allVars
  OBVIOUS
<1>1. ASSUME NEW r \in Reporters, VerifiedCall(r) PROVE [GatewayNext]_allVars
  BY <1>1, RecordsAct DEF GatewayNext
<1>2. CASE Surroundings
  BY <1>2
  DEF Surroundings, D!Tick, D!RotateKeys, ledgerSide, GatewayNext, Tick, allVars, vars
<1>3. CASE UNCHANGED verifiedVars
  BY <1>3 DEF verifiedVars
<1> QED
  BY <1>1, <1>2, <1>3 DEF VerifiedNext
-----------------------------------------------------------------------------
(* The invariant of the composed gateway.                                   *)

\* Nothing has been sent or recorded in the beginning.
LEMMA InitVInv == VerifiedInit => VInv
<1> SUFFICES ASSUME VerifiedInit PROVE VInv
  OBVIOUS
<1>1. DP!EInv
  BY SameFenceInit, FenceAssumptions, DP!InitEInv DEF VerifiedInit
<1>2. GInv
  BY InitGInv DEF VerifiedInit
<1>3. /\ \A r \in Reporters : step[r] = "free"
      /\ answered = {} /\ \A q \in Requests : operations[q] = Null
  BY DEF VerifiedInit, GatewayInit, ReportersInit, TablesInit
<1> QED
  BY <1>1, <1>2, <1>3 DEF VInv, Resting

\* Calls of the fence move their own call alone.
LEMMA FenceMoves ==
  ASSUME DP!EInv, NEW r \in Reporters, D!WorkerNext(r), NEW v \in Reporters \ {r}
  PROVE  pc'[v] = pc[v]
<1>1. pc \in [Reporters -> {"down"} \cup DP!Resting \cup DP!Working]
  BY DEF DP!EInv, DP!DInv, DP!WorkersTypeOK
<1> QED
  BY <1>1
  DEF D!WorkerNext, D!Step, D!Start, D!Crash, D!Submit, D!Register, D!Claim, D!Authorize,
      D!AuthorityFails, D!Begin, D!EnterTransport, D!Receive, D!TransportFails, D!Complete,
      D!Refuse, D!Classify, D!Goto

\* Before a call is past the fence it records nothing.
LEMMA NextHalves ==
  ASSUME VInv, NEW r \in Reporters, VerifiedCall(r), NEW v \in Reporters, pc'[v] \in D!Working
  PROVE  step'[v] \in Resting
<1>0. /\ DP!EInv /\ GInv /\ GatewayTyped
      /\ pc \in [Reporters -> {"down"} \cup DP!Resting \cup DP!Working]
  BY DEF VInv, GInv, DP!EInv, DP!DInv, DP!WorkersTypeOK
<1>1. CASE v # r
  <2>1. pc'[v] = pc[v]
    BY <1>0, <1>1, FenceActs, FenceMoves DEF fenceVars
  <2>2. step'[v] = step[v]
    BY <1>0, <1>1, RecordsAct, BystandersStand DEF allVars, gatewayVars
  <2> QED
    BY <2>1, <2>2 DEF VInv
<1>2. CASE v = r
  <2> USE DEF D!Working, D!Resting
  <2>1. CASE \E doc \in Approvals : Dispatch(r, doc)
    BY <1>2, <2>1 DEF Dispatch, ledgerSide, gatewayVars
  <2>2. CASE Fence(r) \/ Rejected(r)
    <3>1. pc[r] \in D!Working /\ step' = step
      BY <2>2
      DEF Fence, Rejected, ledgerSide, gatewayVars, D!Register, D!Claim, D!Authorize,
          D!AuthorityFails, D!Begin, D!EnterTransport, D!Receive, D!TransportFails, D!Complete,
          D!Refuse, D!Classify
    <3> QED
      BY <1>2, <3>1 DEF VInv
  <2>3. CASE Accepted(r)
    BY <1>2, <2>3 DEF Accepted
  <2>4. CASE Record(r)
    <3>1. step[r] \in Resting
      BY <1>2, <2>4 DEF Record, fenceVars, VInv
    <3>2. stage[r] = "idle"
      BY <1>0, <3>1 DEF GInv, CallRests, Resting, Working
    <3> QED
      BY <2>4, <3>1, <3>2
      DEF Record, CallNext, ReadOperation, ReadEvents, Commit, Refuse, Attempt, Confirm, Resolve,
          Continue, Returned, ReturnConfirmation, ReturnReconciliation, Fail, Resting
  <2>5. CASE \E q \in Requests, observer \in Observers : Reconcile(r, q, observer)
    BY <1>2, <2>5 DEF Reconcile, fenceVars
  <2>6. CASE StartProcess(r) \/ EndProcess(r)
    BY <1>0, <1>2, <2>6 DEF StartProcess, EndProcess, D!Start, D!Crash, D!Goto
  <2> QED
    BY <2>1, <2>2, <2>3, <2>4, <2>5, <2>6 DEF VerifiedCall
<1> QED
  BY <1>1, <1>2

\* Only a receipt that leaves the fence is answered.
LEMMA AnswersLeaveTheFence ==
  ASSUME VInv, NEW r \in Reporters, VerifiedCall(r)
  PROVE  \/ answered' = answered
         \/ \E receipt \in Receipts :
              /\ D!Complete(r) /\ pc'[r] = "accepted" /\ Answers(receipt, call[r])
              /\ answered' = answered \cup {receipt.key} /\ args'[r].evidence = receipt
<1>1. CASE Accepted(r)
  <2>1. args \in [Reporters -> CallArgs \cup {Null}]
    BY DEF VInv, GInv, RInv
  <2>2. PICK receipt \in Receipts :
          /\ Answers(receipt, call[r])
          /\ Report(r, receipt.request, <<"dispatch", receipt.request>>, receipt,
                    receipt.receivedAt)
          /\ answered' = answered \cup {receipt.key}
    BY <1>1 DEF Accepted
  <2>3. args'[r].evidence = receipt
    BY <2>1, <2>2 DEF Report
  <2> QED
    BY <1>1, <2>2, <2>3 DEF Accepted
<1>2. CASE ~ Accepted(r)
  BY <1>2
  DEF VerifiedCall, Dispatch, Fence, Rejected, Record, Reconcile, StartProcess, EndProcess,
      ledgerSide, gatewayVars, Attempt, Confirm, Resolve, Continue, StartReconciliation,
      ReturnConfirmation, ReturnReconciliation, Fail, Crash
<1> QED
  BY <1>1, <1>2

\* A call of the composed gateway keeps what is on record tied to the fence.
LEMMA NextVouched ==
  ASSUME VInv, NEW r \in Reporters, VerifiedCall(r)
  PROVE  /\ \A k \in answered' : k \in Keys /\ attempts'[k].state = "accepted"
         /\ \A q \in Requests : operations'[q] # Null => Vouched(operations[q].receipt)'
         /\ \A v \in Reporters : step'[v] = "recording" => Vouched(args[v].evidence)'
<1>0. DP!EInv /\ GInv /\ [D!DispatchNext]_(D!vars)
  BY NextFence DEF VInv, VerifiedNext
<1>1. ASSUME NEW receipt, Vouched(receipt) PROVE Vouched(receipt)'
  BY <1>0, <1>1, VouchedStays
<1>2. ASSUME NEW k \in answered' PROVE k \in Keys /\ attempts'[k].state = "accepted"
  <2>1. CASE k \in answered
    BY <1>0, <2>1, SettledStands DEF VInv
  <2>2. CASE k \notin answered
    <3>1. PICK receipt \in Receipts :
            /\ D!Complete(r) /\ pc'[r] = "accepted" /\ Answers(receipt, call[r])
            /\ answered' = answered \cup {receipt.key}
      BY <1>2, <2>2, AnswersLeaveTheFence
    <3>2. Vouched(receipt)' /\ k = receipt.key
      BY <1>2, <2>2, <3>1, AnswerIsVouched
    <3> QED
      BY <3>2 DEF Vouched, Followed
  <2> QED
    BY <2>1, <2>2
<1>3. ASSUME NEW q \in Requests, operations'[q] # Null
      PROVE  Vouched(operations[q].receipt)'
  <2>1. \E receipt : receipt = operations'[q].receipt /\ Vouched(receipt)
    <3>1. CASE UNCHANGED allVars
      BY <1>3, <3>1 DEF VInv, allVars, vars, tables
    <3>2. CASE GatewayCall(r)
      BY <1>0, <1>3, <3>2, RowsAreRecorded DEF VInv
    <3> QED
      BY <3>1, <3>2, RecordsAct
  <2>2. PICK receipt : receipt = operations'[q].receipt /\ Vouched(receipt)
    BY <2>1
  <2>3. Vouched(receipt)'
    BY <1>1, <2>2
  <2> QED
    BY <2>2, <2>3 DEF Vouched, Followed
<1>4. ASSUME NEW v \in Reporters, step'[v] = "recording"
      PROVE  Vouched(args[v].evidence)'
  <2>1. CASE step[v] = "recording" /\ args'[v] = args[v]
    <3>1. PICK receipt : receipt = args[v].evidence /\ Vouched(receipt)
      BY <2>1 DEF VInv
    <3>2. Vouched(receipt)'
      BY <1>1, <3>1
    <3> QED
      BY <2>1, <3>1, <3>2 DEF Vouched, Followed
  <2>2. CASE UNCHANGED allVars
    BY <1>4, <2>1, <2>2 DEF allVars, vars, reporterVars, gatewayVars
  <2>3. CASE GatewayCall(r) /\ v # r
    BY <1>0, <1>4, <2>1, <2>3, BystandersStand
  <2>4. CASE GatewayCall(r) /\ v = r /\ \E receipt \in Receipts : Accept(r, receipt)
    <3>1. answered' # answered
      BY <2>4 DEF Accept
    <3>2. PICK receipt \in Receipts :
            /\ D!Complete(r) /\ pc'[r] = "accepted" /\ Answers(receipt, call[r])
            /\ args'[r].evidence = receipt
      BY <3>1, AnswersLeaveTheFence
    <3>3. Vouched(receipt)'
      BY <3>2, AnswerIsVouched
    <3> QED
      BY <2>4, <3>2, <3>3 DEF Vouched, Followed
  <2> QED
    BY <1>0, <1>4, <2>1, <2>2, <2>3, <2>4, RecordsAct, WaysToRecord
<1> QED
  BY <1>2, <1>3, <1>4

\* VInv is inductive.
LEMMA NextVInv == VInv /\ [VerifiedNext]_verifiedVars => VInv'
<1> SUFFICES ASSUME VInv, [VerifiedNext]_verifiedVars PROVE VInv'
  OBVIOUS
<1>1. DP!EInv'
  BY NextFence, SameFenceNext, FenceAssumptions, DP!NextEInv DEF VInv
<1>2. GInv'
  BY NextRecords, NextGInv DEF VInv
<1>3. ASSUME NEW r \in Reporters, VerifiedCall(r) PROVE VInv'
  BY <1>1, <1>2, <1>3, NextHalves, NextVouched DEF VInv, D!Working
<1>4. CASE Surroundings \/ UNCHANGED verifiedVars
  <2>1. UNCHANGED <<pc, step, answered, attempts, operations, args, permits, deliveries>>
    BY <1>4
    DEF Surroundings, D!Tick, D!RotateKeys, D!ledgerVars, D!workerVars, ledgerSide, verifiedVars,
        allVars, vars, tables, reporterVars, gatewayVars, fenceVars
  <2> QED
    BY <1>1, <1>2, <2>1 DEF VInv, Vouched, Followed, D!Working
<1> QED
  BY <1>3, <1>4 DEF VerifiedNext

\* VInv holds throughout.
LEMMA VInvHolds == VerifiedSpec => []VInv
BY InitVInv, NextVInv, PTL DEF VerifiedSpec

-----------------------------------------------------------------------------
(* Results behind the fence.                                                *)

\* Whatever the calls of all processes do, die and repeat, the fence of the
\* composed gateway lets one receipt per key through, so its records behave as
\* those of ExecutionGateway.
THEOREM VerifiedIsGateway == VerifiedSpec => ImplementsGateway
<1>1. VerifiedInit => GatewayInit
  BY DEF VerifiedInit
<1> QED
  BY <1>1, NextRecords, VInvHolds, PTL DEF VerifiedSpec, GatewaySpec, ImplementsGateway

\* And its fence as the workers of ColossusDispatch.
THEOREM VerifiedIsDispatch == VerifiedSpec => D!DispatchSpec
<1>1. VerifiedInit => D!DispatchInit
  BY DEF VerifiedInit
<1> QED
  BY <1>1, NextFence, PTL DEF VerifiedSpec, D!DispatchSpec

\* No operation is on record but for the one accepted attempt of its key, which
\* was permitted for its plan and sent once.
THEOREM RecordsAlwaysFollow == VerifiedSpec => []RecordsFollowTheFence
<1>1. VInv => RecordsFollowTheFence
  <2> SUFFICES ASSUME VInv, NEW q \in Requests, operations[q] # Null
               PROVE  operations[q].receipt.request = q /\ Followed(operations[q].receipt)
    BY DEF RecordsFollowTheFence
  <2>1. Vouched(operations[q].receipt) /\ TablesInv
    BY DEF VInv, GInv, RInv
  <2> QED
    BY <2>1 DEF Vouched, TablesInv, ChainIsLinear
<1> QED
  BY <1>1, VInvHolds, PTL

\* So the promises of the records hold of the composed gateway.
THEOREM VerifiedKeepsItsRecords ==
  VerifiedSpec => /\ []EvidenceInsideWindow
                  /\ []ReconciledIsProven
                  /\ []ReturnsAreDurable
                  /\ StrandedOperationsStayOpen
                  /\ ImplementsProtocol
BY VerifiedIsGateway, EvidenceStaysInside, GatewayReconcilesProven, ReturnsStayDurable,
   StrandedStayOpen, GatewayFollowsTheProtocol, PTL DEF ImplementsGateway
=============================================================================
