-------------------------- MODULE TestRoot_proofs --------------------------
(***************************************************************************)
(* Proofs about TestRoot for any number of calls, requests and paths.  A   *)
(* call that shares no path with another finds the files of its plan where *)
(* it left them: what it has moved is at its destination with the source   *)
(* free, the rest is as it was.  So a destination found free one operation *)
(* ago is free, and the way back is free as well.                          *)
(***************************************************************************)
EXTENDS TestRoot, SequenceTheorems, TLAPS

Stages  == {"idle", "inspect", "check", "move", "undo", "sourceGone", "arrived"}
Answers == {"none", "replayed", "thrown", "provider_confirmed", "reconciled"}
Trees   == [Locations -> Locations \cup {None}]
Calls   == [stage : Stages, plan : Plans \cup {None}, next : Int, before : Trees \cup {None},
            alone : BOOLEAN, stuck : BOOLEAN, result : Answers]

Typed ==
  /\ where \in Trees
  /\ call \in [Callers -> Calls]
  /\ receipts \in [Keys -> Plans \cup {None}]
  /\ confirmed \subseteq Plans
  /\ raced \in BOOLEAN

Moving == {"inspect", "check", "move", "undo"}

From(k, i) == k.plan.items[i].source
To(k, i)   == k.plan.items[i].destination

\* The items a call has moved.
Moved(k, i) == \/ k.stage \in {"check", "move"} /\ i < k.next
               \/ k.stage = "undo" /\ i <= k.next

\* Where a call that is alone finds the files of its plan.
InHand(k) ==
  k.stage \in Moving /\ k.alone =>
    \A i \in DOMAIN k.plan.items :
      /\ Moved(k, i) => where[From(k, i)] = None
      /\ k.stage = "move" /\ i = k.next => where[To(k, i)] = None
      /\ ~ k.stuck =>
           IF Moved(k, i)
             THEN where[To(k, i)] = k.before[From(k, i)] /\ k.before[To(k, i)] = None
             ELSE where[From(k, i)] = k.before[From(k, i)] /\ where[To(k, i)] = k.before[To(k, i)]

InStep(k) ==
  k.stage # "idle" => /\ k.plan \in Plans /\ k.before \in Trees
                      /\ k.next \in DOMAIN k.plan.items /\ k.result = "none"

\* A call that is alone shares no path with another.
Apart ==
  \A c, d \in Callers :
    c # d /\ Active(c) /\ Active(d) /\ call[c].alone =>
      Paths(call[c].plan) \cap Paths(call[d].plan) = {}

IInv ==
  /\ Typed
  /\ \A c \in Callers : InStep(call[c]) /\ InHand(call[c])
  /\ Apart
  /\ ~ raced => /\ \A c \in Callers : Active(c) => call[c].alone
                /\ NothingIsLost

-----------------------------------------------------------------------------
(* Plans.                                                                   *)

\* The way there and the way back name each path once.
LEMMA PlanFacts ==
  ASSUME NEW plan \in Plans
  PROVE  /\ plan.key \in Keys
         /\ Len(plan.items) \in Nat \ {0} /\ DOMAIN plan.items = 1..Len(plan.items)
         /\ \A i \in DOMAIN plan.items :
              /\ plan.items[i].source \in Locations /\ plan.items[i].destination \in Locations
              /\ plan.items[i].source # plan.items[i].destination
              /\ plan.items[i].source \in Paths(plan) /\ plan.items[i].destination \in Paths(plan)
         /\ \A i, j \in DOMAIN plan.items :
              i # j => {plan.items[i].source, plan.items[i].destination} \cap
                       {plan.items[j].source, plan.items[j].destination} = {}
<1>1. PICK q \in Requests, operation \in Operations : plan = PlanOf(q, operation)
  BY DEF Plans
<1>2. q.items \in Seq([source : Locations, destination : Locations]) /\ WellFormed(q.items)
  BY RequestsAssumption
<1>3. /\ Len(q.items) \in Nat \ {0} /\ DOMAIN q.items = 1..Len(q.items)
      /\ \A i \in DOMAIN q.items : q.items[i] \in [source : Locations, destination : Locations]
  <2>1. PICK items \in Seq([source : Locations, destination : Locations]) : items = q.items
    BY <1>2
  <2>2. Len(items) \in Nat /\ DOMAIN items = 1..Len(items) /\ items # <<>>
    BY <1>2, <2>1 DEF WellFormed
  <2>3. Len(items) # 0
    BY <2>2
  <2>4. \A i \in 1..Len(items) : items[i] \in [source : Locations, destination : Locations]
    BY ElementOfSeq
  <2> QED
    BY <2>1, <2>2, <2>3, <2>4
<1>4. CASE operation = "move"
  BY <1>1, <1>2, <1>3, <1>4 DEF PlanOf, WellFormed, Keys, Paths
<1>5. CASE operation # "move"
  <2> DEFINE back == [i \in DOMAIN q.items |-> [source |-> q.items[i].destination,
                                                destination |-> q.items[i].source]]
  <2>1. plan.items = back
    BY <1>1, <1>5 DEF PlanOf
  <2>2. back \in Seq([source : Locations, destination : Locations]) /\ Len(back) = Len(q.items)
    BY <1>3
  <2>3. \A i \in DOMAIN q.items :
          back[i].source = q.items[i].destination /\ back[i].destination = q.items[i].source
    OBVIOUS
  <2>4. DOMAIN back = DOMAIN q.items
    OBVIOUS
  <2> HIDE DEF back
  <2> QED
    BY <1>2, <1>3, <2>1, <2>2, <2>3, <2>4 DEF WellFormed, Keys, Paths
<1> QED
  BY <1>4, <1>5

-----------------------------------------------------------------------------
(* What a step does to a call.                                              *)

\* The call goes on with its plan.
Turns(c, stage, next, stuck) ==
  /\ call' \in [Callers -> Calls]
  /\ \A d \in Callers \ {c} : call'[d] = call[d]
  /\ call'[c].stage = stage /\ call'[c].next = next /\ call'[c].stuck = stuck
  /\ call'[c].plan = call[c].plan /\ call'[c].before = call[c].before
  /\ call'[c].alone = call[c].alone /\ call'[c].result = call[c].result

\* The call is over.
Over(c, result, stuck) ==
  /\ call' \in [Callers -> Calls]
  /\ \A d \in Callers \ {c} : call'[d] = call[d]
  /\ call'[c].stage = "idle" /\ call'[c].result = result /\ call'[c].stuck = stuck

\* A step keeps everything but stage and position.
LEMMA StepTurns ==
  ASSUME Typed, NEW c \in Callers, NEW stage \in Stages, NEW next \in Int, Step(c, stage, next)
  PROVE  Turns(c, stage, next, call[c].stuck)
<1>1. PICK k \in Calls : k = call[c]
  BY DEF Typed
<1> DEFINE staged == [k EXCEPT !.stage = stage]
           turned == [staged EXCEPT !.next = next]
<1>2. /\ staged \in Calls /\ staged.stage = stage /\ staged.plan = k.plan
      /\ staged.before = k.before /\ staged.alone = k.alone /\ staged.stuck = k.stuck
      /\ staged.result = k.result
  BY DEF Calls
<1> HIDE DEF staged
<1>3. /\ turned \in Calls /\ turned.stage = stage /\ turned.plan = k.plan /\ turned.next = next
      /\ turned.before = k.before /\ turned.alone = k.alone /\ turned.stuck = k.stuck
      /\ turned.result = k.result
  BY <1>2 DEF Calls
<1>4. call' = [call EXCEPT ![c] = turned]
  BY <1>1 DEF Step, staged, Typed
<1> HIDE DEF turned
<1> QED
  BY <1>1, <1>3, <1>4 DEF Turns, Typed

\* A return leaves a call that is over.
LEMMA ReturnIsOver ==
  ASSUME Typed, NEW c \in Callers, NEW result \in Answers, Return(c, result)
  PROVE  Over(c, result, call[c].stuck)
<1>1. PICK k \in Calls : k = call[c]
  BY DEF Typed
<1>2. Idle \in Calls /\ Idle.stage = "idle"
  BY DEF Idle, Calls, Stages, Answers
<1>3. PICK idle \in Calls : idle = Idle
  BY <1>2
<1> DEFINE left == [idle EXCEPT !.stuck = k.stuck]
           over == [left EXCEPT !.result = result]
<1>4. left \in Calls /\ left.stage = "idle" /\ left.stuck = k.stuck
  BY <1>2, <1>3 DEF Calls
<1> HIDE DEF left
<1>5. over \in Calls /\ over.stage = "idle" /\ over.stuck = k.stuck /\ over.result = result
  BY <1>4 DEF Calls
<1>6. call' = [call EXCEPT ![c] = over]
  BY <1>1, <1>3 DEF Return, left
<1> HIDE DEF over
<1> QED
  BY <1>1, <1>5, <1>6 DEF Over, Typed

\* How a call goes on without a rename.
Follows(k, stage, next, stuck) ==
  /\ next \in DOMAIN k.plan.items
  /\ \/ k.stage = "inspect" /\ stage = "inspect" /\ stuck = k.stuck
     \/ k.stage = "inspect" /\ stage = "check" /\ next = 1 /\ stuck = k.stuck
     \/ /\ k.stage = "check" /\ stage = "move" /\ next = k.next /\ where[To(k, next)] = None
        /\ stuck = k.stuck
     \/ k.stage \in {"check", "move"} /\ stage = "undo" /\ next = k.next - 1 /\ stuck = k.stuck
     \/ k.stage = "undo" /\ stage = "undo" /\ next = k.next - 1 /\ stuck
     \/ k.stage \notin Moving /\ stage \in {"sourceGone", "arrived"} /\ stuck = k.stuck

\* A call ends without a rename: nothing is left to undo, or undoing it failed.
Gives(k, result, stuck) ==
  /\ result # "provider_confirmed"
  /\ k.stage = "undo" => stuck
  /\ k.stage \in {"check", "move"} => k.next = 1
  /\ k.stage # "undo" => stuck = k.stuck

Quiet(c) ==
  /\ Active(c) /\ UNCHANGED <<where, receipts, confirmed, raced>>
  /\ \/ \E result \in Answers, stuck \in BOOLEAN :
          Over(c, result, stuck) /\ Gives(call[c], result, stuck)
     \/ \E stage \in Stages \ {"idle"}, next \in Int, stuck \in BOOLEAN :
          Turns(c, stage, next, stuck) /\ Follows(call[c], stage, next, stuck)

\* A throw with nothing to undo ends the call, any other one turns back.
LEMMA ThrowIsQuiet ==
  ASSUME IInv, NEW c \in Callers, Active(c), call[c].stage # "undo", Throw(c),
         UNCHANGED <<where, receipts, confirmed, raced>>
  PROVE  Quiet(c)
<1>1. Typed /\ InStep(call[c]) /\ call[c] \in Calls
  BY DEF IInv, Typed
<1>2. call[c].plan \in Plans /\ call[c].next \in DOMAIN call[c].plan.items
      /\ call[c].stuck \in BOOLEAN
  BY <1>1 DEF InStep, Active, Calls
<1>3. PICK n \in Nat : n = Len(call[c].plan.items) /\ DOMAIN call[c].plan.items = 1..n
  BY <1>2, PlanFacts
<1>4. PICK next \in 1..n : next = call[c].next
  BY <1>2, <1>3
<1>5. CASE call[c].stage \in {"check", "move"} /\ next > 1
  <2>1. next - 1 \in 1..n /\ next - 1 \in Int /\ "undo" \in Stages \ {"idle"}
    BY <1>4, <1>5 DEF Stages
  <2>2. Step(c, "undo", next - 1)
    BY <1>4, <1>5 DEF Throw
  <2>3. Turns(c, "undo", next - 1, call[c].stuck)
    BY <1>1, <2>1, <2>2, StepTurns
  <2>4. Follows(call[c], "undo", next - 1, call[c].stuck)
    BY <1>3, <1>4, <1>5, <2>1 DEF Follows
  <2> QED
    BY <1>2, <2>1, <2>3, <2>4 DEF Quiet
<1>6. CASE ~ (call[c].stage \in {"check", "move"} /\ next > 1)
  <2>1. Return(c, "thrown") /\ "thrown" \in Answers
    BY <1>4, <1>6 DEF Throw, Answers
  <2>2. Over(c, "thrown", call[c].stuck)
    BY <1>1, <2>1, ReturnIsOver
  <2>3. call[c].stage \in {"check", "move"} => next = 1
    BY <1>6
  <2>4. Gives(call[c], "thrown", call[c].stuck)
    BY <1>4, <2>3 DEF Gives
  <2> QED
    BY <1>2, <2>1, <2>2, <2>4 DEF Quiet
<1> QED
  BY <1>5, <1>6

\* Every step of a call that renames nothing is quiet.
LEMMA QuietSteps ==
  ASSUME IInv, NEW c \in Callers,
         \/ Inspect(c) \/ CheckDestination(c) \/ FailOperation(c) \/ FailUndo(c)
         \/ SourceGone(c) \/ Arrived(c)
  PROVE  Quiet(c)
<1>0. Active(c) /\ UNCHANGED <<where, receipts, confirmed, raced>>
  BY DEF Inspect, CheckDestination, FailOperation, FailUndo, SourceGone, Arrived, Active, Unchanged
<1>1. Typed /\ InStep(call[c]) /\ call[c] \in Calls
  BY DEF IInv, Typed
<1>2. call[c].plan \in Plans /\ call[c].next \in DOMAIN call[c].plan.items
      /\ call[c].stuck \in BOOLEAN
  BY <1>0, <1>1 DEF InStep, Active, Calls
<1>3. PICK n \in Nat : n # 0 /\ n = Len(call[c].plan.items) /\ DOMAIN call[c].plan.items = 1..n
  BY <1>2, PlanFacts
<1>4. PICK next \in 1..n : next = call[c].next
  BY <1>2, <1>3
<1>5. CASE Throw(c) /\ call[c].stage # "undo"
  BY <1>0, <1>5, ThrowIsQuiet
<1>6. CASE \E result \in Answers : /\ Return(c, result) /\ result # "provider_confirmed"
                                   /\ call[c].stage \notin {"check", "move", "undo"}
  BY <1>0, <1>1, <1>2, <1>6, ReturnIsOver DEF Quiet, Gives
<1>7. ASSUME NEW stage \in Stages \ {"idle"}, NEW m \in 1..n, Step(c, stage, m),
             Follows(call[c], stage, m, call[c].stuck)
      PROVE  Quiet(c)
  <2>1. m \in Int
    OBVIOUS
  <2>2. Turns(c, stage, m, call[c].stuck)
    BY <1>1, <1>7, <2>1, StepTurns
  <2> QED
    BY <1>0, <1>2, <1>7, <2>1, <2>2 DEF Quiet
<1>8. /\ next + 1 \in Int /\ (next # n => next + 1 \in 1..n) /\ 1 \in 1..n
      /\ (LastItem(c) <=> next = n)
  BY <1>3, <1>4 DEF LastItem
<1>9. CASE Inspect(c)
  <2>1. CASE LastItem(c) /\ Step(c, "check", 1)
    <3>1. Follows(call[c], "check", 1, call[c].stuck)
      BY <1>3, <1>8, <1>9 DEF Inspect, Follows
    <3> QED
      BY <1>7, <1>8, <2>1, <3>1 DEF Stages
  <2>2. CASE ~ LastItem(c) /\ Step(c, "inspect", call[c].next + 1)
    <3>1. Follows(call[c], "inspect", next + 1, call[c].stuck)
      BY <1>3, <1>8, <1>9, <2>2 DEF Inspect, Follows
    <3> QED
      BY <1>4, <1>7, <1>8, <2>2, <3>1 DEF Stages
  <2> QED
    BY <1>5, <1>9, <2>1, <2>2 DEF Inspect
<1>10. CASE CheckDestination(c)
  <2>1. CASE ~ Occupied(Item(c).destination) /\ Step(c, "move", call[c].next)
    <3>1. where[To(call[c], next)] = None
      BY <1>4, <2>1 DEF Occupied, Exists, Item, To
    <3>2. Follows(call[c], "move", next, call[c].stuck)
      BY <1>3, <1>4, <1>10, <3>1 DEF CheckDestination, Follows
    <3> QED
      BY <1>4, <1>7, <2>1, <3>2 DEF Stages
  <2> QED
    BY <1>5, <1>10, <2>1 DEF CheckDestination
<1>11. CASE FailOperation(c)
  BY <1>5, <1>11 DEF FailOperation
<1>12. CASE FailUndo(c)
  <2>1. PICK k \in Calls : k = call[c] /\ k.stage = "undo"
    BY <1>1, <1>12 DEF FailUndo
  <2>2. CASE next = 1
    <3>i. Idle \in Calls /\ Idle.stage = "idle"
      BY DEF Idle, Calls, Stages, Answers
    <3>j. PICK idle \in Calls : idle = Idle /\ idle.stage = "idle"
      BY <3>i
    <3> DEFINE left == [idle EXCEPT !.stuck = TRUE]
               over == [left EXCEPT !.result = "thrown"]
    <3>2. call' = [call EXCEPT ![c] = over]
      BY <1>4, <1>12, <2>2, <3>j DEF FailUndo
    <3>k. left \in Calls /\ left.stage = "idle" /\ left.stuck = TRUE
      BY <3>j DEF Calls
    <3> HIDE DEF left
    <3>1. over \in Calls /\ over.stage = "idle" /\ over.stuck = TRUE /\ over.result = "thrown"
      BY <3>k DEF Calls, Answers
    <3> HIDE DEF over
    <3>3. Over(c, "thrown", TRUE)
      BY <1>1, <3>1, <3>2 DEF Over, Typed
    <3>4. Gives(call[c], "thrown", TRUE) /\ "thrown" \in Answers
      BY <2>1 DEF Gives, Answers
    <3> QED
      BY <1>0, <3>3, <3>4 DEF Quiet
  <2>3. CASE next # 1
    <3> DEFINE left == [k EXCEPT !.stuck = TRUE]
               back == [left EXCEPT !.next = next - 1]
    <3>1. /\ left \in Calls /\ left.stage = "undo" /\ left.stuck = TRUE /\ left.plan = k.plan
          /\ left.before = k.before /\ left.alone = k.alone /\ left.result = k.result
          /\ left.next = next
      BY <1>4, <2>1 DEF Calls
    <3>2. call' = [call EXCEPT ![c] = back]
      BY <1>1, <1>4, <1>12, <2>1, <2>3 DEF FailUndo, Typed
    <3> HIDE DEF left
    <3>3. /\ back \in Calls /\ back.stage = "undo" /\ back.stuck = TRUE /\ back.plan = k.plan
          /\ back.before = k.before /\ back.alone = k.alone /\ back.result = k.result
          /\ back.next = next - 1
      BY <3>1 DEF Calls
    <3> HIDE DEF back
    <3>4. Turns(c, "undo", next - 1, TRUE)
      BY <1>1, <2>1, <3>2, <3>3 DEF Turns, Typed
    <3>5. next - 1 \in 1..n /\ next - 1 \in Int
      BY <2>3
    <3>6. Follows(call[c], "undo", next - 1, TRUE)
      BY <1>3, <1>4, <2>1, <3>5 DEF Follows
    <3> QED
      BY <1>0, <3>4, <3>5, <3>6 DEF Quiet, Stages
  <2> QED
    BY <2>2, <2>3
<1>13. CASE SourceGone(c)
  <2>1. CASE Step(c, "arrived", call[c].next)
    <3>1. Follows(call[c], "arrived", next, call[c].stuck)
      BY <1>3, <1>13 DEF SourceGone, Follows, Moving
    <3> QED
      BY <1>4, <1>7, <2>1, <3>1 DEF Stages
  <2> QED
    BY <1>5, <1>13, <2>1 DEF SourceGone
<1>14. CASE Arrived(c)
  <2>1. CASE ~ LastItem(c) /\ Step(c, "sourceGone", call[c].next + 1)
    <3>1. Follows(call[c], "sourceGone", next + 1, call[c].stuck)
      BY <1>3, <1>8, <1>14, <2>1 DEF Arrived, Follows, Moving
    <3> QED
      BY <1>4, <1>7, <1>8, <2>1, <3>1 DEF Stages
  <2>2. CASE Return(c, "reconciled")
    BY <1>6, <1>14, <2>2 DEF Arrived, Answers
  <2> QED
    BY <1>5, <1>14, <2>1, <2>2 DEF Arrived
<1> QED
  BY <1>9, <1>10, <1>11, <1>12, <1>13, <1>14

-----------------------------------------------------------------------------
(* Renames.                                                                 *)

\* What a rename does to the tree.
LEMMA Renamed ==
  ASSUME where \in Trees, NEW from \in Locations, NEW to \in Locations, from # to,
         Rename(from, to)
  PROVE  /\ where' \in Trees
         /\ where'[to] = where[from] /\ where'[from] = None
         /\ \A l \in Locations \ {from, to} : where'[l] = where[l]
BY DEF Rename, Trees

\* A rename to a free path loses nothing.
LEMMA RenameLosesNothing ==
  ASSUME where \in Trees, NEW from \in Locations, NEW to \in Locations, from # to,
         Rename(from, to), where[to] = None, NothingIsLost, ~ raced
  PROVE  \A f \in Files : \E l \in Locations : where'[l] = f
<1> SUFFICES ASSUME NEW f \in Files PROVE \E l \in Locations : where'[l] = f
  OBVIOUS
<1>1. f # None
  BY RequestsAssumption DEF Files
<1>2. PICK l \in Locations : where[l] = f
  BY DEF NothingIsLost
<1>3. l # to
  BY <1>1, <1>2
<1> QED
  BY <1>2, <1>3, Renamed

\* InHand of a given record after a step: only the tree can have changed.
LEMMA InHandNext ==
  ASSUME NEW k
  PROVE  InHand(k)' <=>
           (k.stage \in Moving /\ k.alone =>
              \A i \in DOMAIN k.plan.items :
                /\ Moved(k, i) => where'[From(k, i)] = None
                /\ k.stage = "move" /\ i = k.next => where'[To(k, i)] = None
                /\ ~ k.stuck =>
                     IF Moved(k, i)
                       THEN where'[To(k, i)] = k.before[From(k, i)] /\ k.before[To(k, i)] = None
                       ELSE /\ where'[From(k, i)] = k.before[From(k, i)]
                            /\ where'[To(k, i)] = k.before[To(k, i)])
BY DEF InHand, Moved, From, To

\* A record is in hand as long as the tree is as it was.
LEMMA InHandStays ==
  ASSUME NEW k, InHand(k), where' = where
  PROVE  InHand(k)'
<1> SUFFICES ASSUME k.stage \in Moving, k.alone, NEW i \in DOMAIN k.plan.items
             PROVE  /\ Moved(k, i) => where'[From(k, i)] = None
                    /\ k.stage = "move" /\ i = k.next => where'[To(k, i)] = None
                    /\ ~ k.stuck =>
                         IF Moved(k, i)
                           THEN where'[To(k, i)] = k.before[From(k, i)] /\ k.before[To(k, i)] = None
                           ELSE /\ where'[From(k, i)] = k.before[From(k, i)]
                                /\ where'[To(k, i)] = k.before[To(k, i)]
  BY InHandNext
<1> QED
  BY DEF InHand

\* What is so of the record a step leaves to a call is so of the call.
LEMMA InHandOf ==
  ASSUME NEW c \in Callers, NEW k, k = call'[c], InHand(k)'
  PROVE  InHand(call[c])'
BY DEF InHand, Moved, From, To

\* Another call, alone, finds its files where they were: a step changes the tree at
\* the paths of its own plan at most.
LEMMA OthersInHand ==
  ASSUME IInv, NEW c \in Callers, Active(c), NEW d \in Callers \ {c}, call'[d] = call[d],
         \A l \in Locations \ Paths(call[c].plan) : where'[l] = where[l]
  PROVE  InHand(call[d])'
<1>1. PICK k \in Calls : k = call[d] /\ k = call'[d] /\ InStep(k) /\ InHand(k)
  BY DEF IInv, Typed
<1>2. ASSUME k.stage \in Moving, k.alone, NEW i \in DOMAIN k.plan.items
      PROVE  where'[From(k, i)] = where[From(k, i)] /\ where'[To(k, i)] = where[To(k, i)]
  <2>1. Active(d) /\ k.plan \in Plans
    BY <1>1, <1>2 DEF Active, Moving, InStep
  <2>2. Paths(k.plan) \cap Paths(call[c].plan) = {}
    BY <1>1, <1>2, <2>1 DEF IInv, Apart
  <2>3. /\ From(k, i) \in Locations /\ To(k, i) \in Locations
        /\ From(k, i) \in Paths(k.plan) /\ To(k, i) \in Paths(k.plan)
    BY <1>2, <2>1, PlanFacts DEF From, To
  <2> QED
    BY <2>2, <2>3
<1>3. InHand(k)'
  <2> SUFFICES ASSUME k.stage \in Moving, k.alone, NEW i \in DOMAIN k.plan.items
               PROVE  /\ Moved(k, i) => where'[From(k, i)] = None
                      /\ k.stage = "move" /\ i = k.next => where'[To(k, i)] = None
                      /\ ~ k.stuck =>
                           IF Moved(k, i)
                             THEN /\ where'[To(k, i)] = k.before[From(k, i)]
                                  /\ k.before[To(k, i)] = None
                             ELSE /\ where'[From(k, i)] = k.before[From(k, i)]
                                  /\ where'[To(k, i)] = k.before[To(k, i)]
    BY InHandNext
  <2>1. where'[From(k, i)] = where[From(k, i)] /\ where'[To(k, i)] = where[To(k, i)]
    BY <1>2
  <2> QED
    BY <1>1, <2>1 DEF InHand
<1> QED
  BY <1>1, <1>3, InHandOf

\* What is invariant when a call goes on or ends, given the tree of its plan.
LEMMA FrameInv ==
  ASSUME IInv, NEW c \in Callers, Active(c),
         call' \in [Callers -> Calls],
         \A d \in Callers \ {c} : call'[d] = call[d],
         \/ call'[c].stage = "idle"
         \/ call'[c].plan = call[c].plan /\ call'[c].alone = call[c].alone,
         \A l \in Locations \ Paths(call[c].plan) : where'[l] = where[l],
         raced' = raced
  PROVE  /\ \A d \in Callers \ {c} : InStep(call'[d]) /\ InHand(call[d])'
         /\ Apart'
         /\ ~ raced' => \A d \in Callers : Active(d)' => call'[d].alone
<1>1. \A d \in Callers \ {c} : InStep(call'[d]) /\ InHand(call[d])'
  BY OthersInHand DEF IInv
<1>2. Apart'
  BY DEF IInv, Apart, Active
<1>3. ~ raced' => \A d \in Callers : Active(d)' => call'[d].alone
  BY DEF IInv, Active
<1> QED
  BY <1>1, <1>2, <1>3

\* A step that renames nothing keeps the invariant.
LEMMA QuietInv ==
  ASSUME IInv, NEW c \in Callers, Quiet(c)
  PROVE  IInv'
<1> DEFINE k == call[c]
<1>1. /\ Active(c) /\ UNCHANGED <<where, receipts, confirmed, raced>> /\ InStep(k) /\ InHand(k)
      /\ Typed /\ k.plan \in Plans /\ k.before \in Trees /\ k.next \in DOMAIN k.plan.items
      /\ k.result = "none"
  BY DEF Quiet, IInv, InStep, Active
<1>2. PICK n \in Nat : n = Len(k.plan.items) /\ DOMAIN k.plan.items = 1..n
  BY <1>1, PlanFacts
<1>3. CASE \E result \in Answers, stuck \in BOOLEAN : Over(c, result, stuck)
  <2>1. /\ call' \in [Callers -> Calls] /\ call'[c].stage = "idle"
        /\ \A d \in Callers \ {c} : call'[d] = call[d]
    BY <1>3 DEF Over
  <2>2. InStep(call'[c]) /\ InHand(call[c])'
    BY <2>1 DEF InStep, InHand, Moving
  <2>3. /\ \A d \in Callers \ {c} : InStep(call'[d]) /\ InHand(call[d])'
        /\ Apart'
        /\ ~ raced' => \A d \in Callers : Active(d)' => call'[d].alone
    BY <1>1, <2>1, FrameInv
  <2>4. NothingIsLost => NothingIsLost'
    BY <1>1 DEF NothingIsLost
  <2>5. Typed'
    BY <1>1, <2>1 DEF Typed
  <2> QED
    BY <1>1, <2>2, <2>3, <2>4, <2>5 DEF IInv
<1>4. ASSUME NEW stage \in Stages \ {"idle"}, NEW next \in Int, NEW stuck \in BOOLEAN,
             Turns(c, stage, next, stuck), Follows(k, stage, next, stuck)
      PROVE  IInv'
  <2>1. /\ call' \in [Callers -> Calls] /\ call'[c].stage = stage /\ call'[c].next = next
        /\ call'[c].plan = k.plan /\ call'[c].before = k.before /\ call'[c].alone = k.alone
        /\ call'[c].stuck = stuck /\ call'[c].result = k.result
        /\ \A d \in Callers \ {c} : call'[d] = call[d]
    BY <1>4 DEF Turns
  <2>2. InStep(call'[c])
    BY <1>1, <1>4, <2>1 DEF InStep, Follows
  <2>3. InHand(call[c])'
    <3>0. PICK k2 \in Calls : k2 = call'[c]
      BY <2>1
    <3>1. k2.stage \in Moving => k.stage \in Moving /\ (~ stuck => ~ k.stuck)
      BY <1>4, <2>1, <3>0 DEF Follows, Moving
    <3>2. ASSUME k2.stage \in Moving, NEW i \in DOMAIN k.plan.items
          PROVE  /\ Moved(k2, i) => Moved(k, i)
                 /\ ~ stuck => (Moved(k, i) => Moved(k2, i))
      <4>1. i \in 1..n /\ k.next \in 1..n
        BY <1>1, <1>2
      <4> QED
        BY <1>4, <2>1, <3>0, <3>1, <3>2, <4>1 DEF Follows, Moved, Moving
    <3>3. k2.stage = "move" => where[To(k, next)] = None
      BY <1>4, <2>1, <3>0, <3>1 DEF Follows, Moving
    <3>4. /\ \A i : From(k2, i) = From(k, i) /\ To(k2, i) = To(k, i)
          /\ k2.plan = k.plan /\ k2.alone = k.alone /\ k2.stuck = stuck /\ k2.next = next
          /\ k2.before = k.before
      BY <2>1, <3>0 DEF From, To
    <3>5. InHand(k2)
      BY <1>1, <3>1, <3>2, <3>3, <3>4 DEF InHand
    <3>6. InHand(k2)'
      BY <1>1, <3>5, InHandStays
    <3> QED
      BY <3>0, <3>6, InHandOf
  <2>4. /\ \A d \in Callers \ {c} : InStep(call'[d]) /\ InHand(call[d])'
        /\ Apart'
        /\ ~ raced' => \A d \in Callers : Active(d)' => call'[d].alone
    BY <1>1, <2>1, FrameInv
  <2>5. NothingIsLost => NothingIsLost'
    BY <1>1 DEF NothingIsLost
  <2>6. Typed'
    BY <1>1, <2>1 DEF Typed
  <2> QED
    BY <1>1, <2>2, <2>3, <2>4, <2>5, <2>6 DEF IInv
<1> QED
  BY <1>3, <1>4 DEF Quiet
\* The tree after an item has been moved.
LEMMA AfterMove ==
  ASSUME IInv, NEW c \in Callers, MoveItem(c), call[c].alone, NEW k, k = call[c]
  PROVE  /\ where[To(k, k.next)] = None
         /\ \A i \in DOMAIN k.plan.items :
              /\ i <= k.next => where'[From(k, i)] = None
              /\ ~ k.stuck =>
                   IF i <= k.next
                     THEN where'[To(k, i)] = k.before[From(k, i)] /\ k.before[To(k, i)] = None
                     ELSE /\ where'[From(k, i)] = k.before[From(k, i)]
                          /\ where'[To(k, i)] = k.before[To(k, i)]
<1>1. /\ Typed /\ InHand(k) /\ k.stage = "move" /\ k.plan \in Plans
      /\ k.next \in DOMAIN k.plan.items
  BY DEF IInv, MoveItem, InStep
<1>2. PICK n \in Nat : n = Len(k.plan.items) /\ DOMAIN k.plan.items = 1..n
  BY <1>1, PlanFacts
<1>3. PICK m \in 1..n : m = k.next
  BY <1>1, <1>2
<1>4. /\ \A i \in 1..n : From(k, i) \in Locations /\ To(k, i) \in Locations /\ From(k, i) # To(k, i)
      /\ \A i \in 1..n : i # m => {From(k, i), To(k, i)} \cap {From(k, m), To(k, m)} = {}
  BY <1>1, <1>2, PlanFacts DEF From, To
<1>5. Rename(From(k, m), To(k, m))
  BY <1>3 DEF MoveItem, From, To, Item
<1>6. /\ where'[To(k, m)] = where[From(k, m)] /\ where'[From(k, m)] = None
      /\ \A l \in Locations \ {From(k, m), To(k, m)} : where'[l] = where[l]
  BY <1>1, <1>4, <1>5, Renamed DEF Typed
<1>7. \A i \in 1..n :
        i # m => where'[From(k, i)] = where[From(k, i)] /\ where'[To(k, i)] = where[To(k, i)]
  BY <1>4, <1>6
<1>8. \A i \in 1..n : Moved(k, i) <=> i < m
  BY <1>1, <1>3 DEF Moved
<1>9. /\ where[To(k, m)] = None
      /\ \A i \in 1..n :
           /\ i < m => where[From(k, i)] = None
           /\ ~ k.stuck =>
                IF i < m
                  THEN where[To(k, i)] = k.before[From(k, i)] /\ k.before[To(k, i)] = None
                  ELSE /\ where[From(k, i)] = k.before[From(k, i)]
                       /\ where[To(k, i)] = k.before[To(k, i)]
  BY <1>1, <1>2, <1>3, <1>8 DEF InHand, Moving
<1>10. ASSUME NEW i \in 1..n
       PROVE  /\ i <= m => where'[From(k, i)] = None
              /\ ~ k.stuck =>
                   IF i <= m
                     THEN where'[To(k, i)] = k.before[From(k, i)] /\ k.before[To(k, i)] = None
                     ELSE /\ where'[From(k, i)] = k.before[From(k, i)]
                          /\ where'[To(k, i)] = k.before[To(k, i)]
  <2>1. CASE i = m
    BY <1>6, <1>9, <2>1
  <2>2. CASE i # m
    <3>1. i <= m <=> i < m
      BY <2>2
    <3> QED
      BY <1>7, <1>9, <2>2, <3>1
  <2> QED
    BY <2>1, <2>2
<1> QED
  BY <1>2, <1>3, <1>9, <1>10

\* The tree after an item has been moved back.
LEMMA AfterMoveBack ==
  ASSUME IInv, NEW c \in Callers, UndoItem(c), call[c].alone, NEW k, k = call[c]
  PROVE  /\ where[From(k, k.next)] = None
         /\ \A i \in DOMAIN k.plan.items :
              /\ i < k.next => where'[From(k, i)] = None
              /\ ~ k.stuck =>
                   IF i < k.next
                     THEN where'[To(k, i)] = k.before[From(k, i)] /\ k.before[To(k, i)] = None
                     ELSE /\ where'[From(k, i)] = k.before[From(k, i)]
                          /\ where'[To(k, i)] = k.before[To(k, i)]
<1>1. /\ Typed /\ InHand(k) /\ k.stage = "undo" /\ k.plan \in Plans
      /\ k.next \in DOMAIN k.plan.items
  BY DEF IInv, UndoItem, InStep
<1>2. PICK n \in Nat : n = Len(k.plan.items) /\ DOMAIN k.plan.items = 1..n
  BY <1>1, PlanFacts
<1>3. PICK m \in 1..n : m = k.next
  BY <1>1, <1>2
<1>4. /\ \A i \in 1..n : From(k, i) \in Locations /\ To(k, i) \in Locations /\ From(k, i) # To(k, i)
      /\ \A i \in 1..n : i # m => {From(k, i), To(k, i)} \cap {From(k, m), To(k, m)} = {}
  BY <1>1, <1>2, PlanFacts DEF From, To
<1>5. Rename(To(k, m), From(k, m))
  BY <1>3 DEF UndoItem, From, To, Item
<1>6. /\ where'[From(k, m)] = where[To(k, m)] /\ where'[To(k, m)] = None
      /\ \A l \in Locations \ {From(k, m), To(k, m)} : where'[l] = where[l]
  BY <1>1, <1>4, <1>5, Renamed DEF Typed
<1>7. \A i \in 1..n :
        i # m => where'[From(k, i)] = where[From(k, i)] /\ where'[To(k, i)] = where[To(k, i)]
  BY <1>4, <1>6
<1>8. \A i \in 1..n : Moved(k, i) <=> i <= m
  BY <1>1, <1>3 DEF Moved
<1>9. \A i \in 1..n :
        /\ i <= m => where[From(k, i)] = None
        /\ ~ k.stuck =>
             IF i <= m
               THEN where[To(k, i)] = k.before[From(k, i)] /\ k.before[To(k, i)] = None
               ELSE /\ where[From(k, i)] = k.before[From(k, i)]
                    /\ where[To(k, i)] = k.before[To(k, i)]
  BY <1>1, <1>2, <1>3, <1>8 DEF InHand, Moving
<1>10. ASSUME NEW i \in 1..n
       PROVE  /\ i < m => where'[From(k, i)] = None
              /\ ~ k.stuck =>
                   IF i < m
                     THEN where'[To(k, i)] = k.before[From(k, i)] /\ k.before[To(k, i)] = None
                     ELSE /\ where'[From(k, i)] = k.before[From(k, i)]
                          /\ where'[To(k, i)] = k.before[To(k, i)]
  <2>1. CASE i = m
    <3>1. i <= m /\ ~ (i < m)
      BY <2>1
    <3> QED
      BY <1>6, <1>9, <2>1, <3>1
  <2>2. CASE i # m
    <3>1. i <= m <=> i < m
      BY <2>2
    <3> QED
      BY <1>7, <1>9, <2>2, <3>1
  <2> QED
    BY <2>1, <2>2
<1>11. where[From(k, m)] = None
  BY <1>9
<1> QED
  BY <1>2, <1>3, <1>10, <1>11

\* A rename of a call to a path that is free keeps what does not concern the call.
LEMMA RenameInv ==
  ASSUME IInv, NEW c \in Callers, Active(c),
         NEW from \in Paths(call[c].plan), NEW to \in Paths(call[c].plan), from # to,
         Rename(from, to), call[c].alone => where[to] = None,
         call' \in [Callers -> Calls],
         \A d \in Callers \ {c} : call'[d] = call[d],
         \/ call'[c].stage = "idle"
         \/ call'[c].plan = call[c].plan /\ call'[c].alone = call[c].alone,
         InStep(call'[c]), InHand(call[c])', raced' = raced,
         receipts' \in [Keys -> Plans \cup {None}], confirmed' \subseteq Plans
  PROVE  IInv'
<1>1. call[c].plan \in Plans /\ Typed
  BY DEF IInv, InStep, Active
<1>2. from \in Locations /\ to \in Locations
  BY <1>1, PlanFacts DEF Paths
<1>3. where' \in Trees /\ \A l \in Locations \ {from, to} : where'[l] = where[l]
  BY <1>1, <1>2, Renamed DEF Typed
<1>4. /\ \A d \in Callers \ {c} : InStep(call'[d]) /\ InHand(call[d])'
      /\ Apart'
      /\ ~ raced' => \A d \in Callers : Active(d)' => call'[d].alone
  BY <1>3, FrameInv
<1>5. ~ raced => NothingIsLost'
  <2> SUFFICES ASSUME ~ raced PROVE \A f \in Files : \E l \in Locations : where'[l] = f
    BY DEF NothingIsLost, Files
  <2>1. where[to] = None /\ NothingIsLost
    BY DEF IInv
  <2> QED
    BY <1>1, <1>2, <2>1, RenameLosesNothing DEF Typed
<1>6. Typed'
  BY <1>1, <1>3 DEF Typed
<1> QED
  BY <1>4, <1>5, <1>6 DEF IInv

\* Moving an item keeps the invariant.
LEMMA MoveInv ==
  ASSUME IInv, NEW c \in Callers, MoveItem(c)
  PROVE  IInv'
<1>1. PICK k \in Calls : k = call[c]
  BY DEF IInv, Typed
<1>2. /\ Typed /\ InHand(k) /\ InStep(k) /\ k.stage = "move" /\ k.plan \in Plans
      /\ k.next \in DOMAIN k.plan.items /\ k.before \in Trees /\ k.result = "none"
      /\ Active(c)
  BY <1>1 DEF IInv, MoveItem, InStep, Active
<1>3. PICK n \in Nat : n = Len(k.plan.items) /\ DOMAIN k.plan.items = 1..n
  BY <1>2, PlanFacts
<1>4. PICK m \in 1..n : m = k.next
  BY <1>2, <1>3
<1>5. LastItem(c) <=> m = n
  BY <1>1, <1>3, <1>4 DEF LastItem
<1>6. /\ From(k, m) \in Paths(k.plan) /\ To(k, m) \in Paths(k.plan) /\ From(k, m) # To(k, m)
  BY <1>2, <1>3, PlanFacts DEF From, To
<1>7. Rename(From(k, m), To(k, m)) /\ raced' = raced
  BY <1>1, <1>4 DEF MoveItem, From, To, Item
<1>8. k.alone => where[To(k, m)] = None
  BY <1>1, <1>4, AfterMove
<1>9. receipts' \in [Keys -> Plans \cup {None}] /\ confirmed' \subseteq Plans
  <2>1. k.plan.key \in Keys
    BY <1>2, PlanFacts
  <2> QED
    BY <1>1, <1>2, <2>1 DEF MoveItem, Typed
<1>10. CASE m = n
  <2>1. Over(c, "provider_confirmed", k.stuck)
    BY <1>1, <1>2, <1>5, <1>10, ReturnIsOver DEF MoveItem, Answers
  <2>2. /\ call' \in [Callers -> Calls] /\ \A d \in Callers \ {c} : call'[d] = call[d]
        /\ call'[c].stage = "idle"
    BY <2>1 DEF Over
  <2>3. InStep(call'[c]) /\ InHand(call[c])'
    BY <2>2 DEF InStep, InHand, Moving
  <2> QED
    BY <1>1, <1>2, <1>6, <1>7, <1>8, <1>9, <2>2, <2>3, RenameInv
<1>11. CASE m # n
  <2>1. m + 1 \in 1..n /\ m + 1 \in Int
    BY <1>11
  <2>2. Turns(c, "check", m + 1, k.stuck)
    BY <1>1, <1>2, <1>4, <1>5, <1>11, <2>1, StepTurns DEF MoveItem, Stages
  <2>3. /\ call' \in [Callers -> Calls] /\ \A d \in Callers \ {c} : call'[d] = call[d]
        /\ call'[c].plan = k.plan /\ call'[c].alone = k.alone
    BY <1>1, <2>2 DEF Turns
  <2>4. PICK k2 \in Calls : k2 = call'[c]
    BY <2>3
  <2>5. /\ k2.stage = "check" /\ k2.next = m + 1 /\ k2.plan = k.plan /\ k2.alone = k.alone
        /\ k2.stuck = k.stuck /\ k2.before = k.before /\ k2.result = k.result
        /\ \A i : From(k2, i) = From(k, i) /\ To(k2, i) = To(k, i)
    BY <1>1, <2>2, <2>4 DEF Turns, From, To
  <2>6. InStep(k2)
    BY <1>2, <1>3, <2>1, <2>5 DEF InStep
  <2>7. \A i \in 1..n : Moved(k2, i) <=> i <= m
    BY <2>5 DEF Moved
  <2>8. InHand(k2)'
    <3> SUFFICES ASSUME k.alone, NEW i \in 1..n
                 PROVE  /\ i <= m => where'[From(k, i)] = None
                        /\ ~ k.stuck =>
                             IF i <= m
                               THEN /\ where'[To(k, i)] = k.before[From(k, i)]
                                    /\ k.before[To(k, i)] = None
                               ELSE /\ where'[From(k, i)] = k.before[From(k, i)]
                                    /\ where'[To(k, i)] = k.before[To(k, i)]
      BY <1>3, <2>5, <2>7, InHandNext
    <3> QED
      BY <1>1, <1>3, <1>4, AfterMove
  <2>9. InHand(call[c])'
    BY <2>4, <2>8, InHandOf
  <2> QED
    BY <1>1, <1>2, <1>6, <1>7, <1>8, <1>9, <2>3, <2>4, <2>6, <2>9, RenameInv
<1> QED
  BY <1>10, <1>11

\* Moving an item back keeps the invariant.
LEMMA UndoInv ==
  ASSUME IInv, NEW c \in Callers, UndoItem(c)
  PROVE  IInv'
<1>1. PICK k \in Calls : k = call[c]
  BY DEF IInv, Typed
<1>2. /\ Typed /\ InHand(k) /\ InStep(k) /\ k.stage = "undo" /\ k.plan \in Plans
      /\ k.next \in DOMAIN k.plan.items /\ k.before \in Trees /\ k.result = "none"
      /\ Active(c)
  BY <1>1 DEF IInv, UndoItem, InStep, Active
<1>3. PICK n \in Nat : n = Len(k.plan.items) /\ DOMAIN k.plan.items = 1..n
  BY <1>2, PlanFacts
<1>4. PICK m \in 1..n : m = k.next
  BY <1>2, <1>3
<1>6. /\ From(k, m) \in Paths(k.plan) /\ To(k, m) \in Paths(k.plan) /\ From(k, m) # To(k, m)
  BY <1>2, <1>3, PlanFacts DEF From, To
<1>7. Rename(To(k, m), From(k, m)) /\ UNCHANGED <<receipts, confirmed, raced>>
  BY <1>1, <1>4 DEF UndoItem, From, To, Item, Unchanged
<1>8. k.alone => where[From(k, m)] = None
  BY <1>1, <1>4, AfterMoveBack
<1>9. receipts' \in [Keys -> Plans \cup {None}] /\ confirmed' \subseteq Plans
  BY <1>2, <1>7 DEF Typed
<1>10. CASE m = 1
  <2>1. Over(c, "thrown", k.stuck)
    BY <1>1, <1>2, <1>4, <1>10, ReturnIsOver DEF UndoItem, AfterUndo, Answers
  <2>2. /\ call' \in [Callers -> Calls] /\ \A d \in Callers \ {c} : call'[d] = call[d]
        /\ call'[c].stage = "idle"
    BY <2>1 DEF Over
  <2>3. InStep(call'[c]) /\ InHand(call[c])'
    BY <2>2 DEF InStep, InHand, Moving
  <2> QED
    BY <1>1, <1>2, <1>6, <1>7, <1>8, <1>9, <2>2, <2>3, RenameInv
<1>11. CASE m # 1
  <2>1. m - 1 \in 1..n /\ m - 1 \in Int
    BY <1>11
  <2>2. Turns(c, "undo", m - 1, k.stuck)
    BY <1>1, <1>2, <1>4, <1>11, <2>1, StepTurns DEF UndoItem, AfterUndo, Stages
  <2>3. /\ call' \in [Callers -> Calls] /\ \A d \in Callers \ {c} : call'[d] = call[d]
        /\ call'[c].plan = k.plan /\ call'[c].alone = k.alone
    BY <1>1, <2>2 DEF Turns
  <2>4. PICK k2 \in Calls : k2 = call'[c]
    BY <2>3
  <2>5. /\ k2.stage = "undo" /\ k2.next = m - 1 /\ k2.plan = k.plan /\ k2.alone = k.alone
        /\ k2.stuck = k.stuck /\ k2.before = k.before /\ k2.result = k.result
        /\ \A i : From(k2, i) = From(k, i) /\ To(k2, i) = To(k, i)
    BY <1>1, <2>2, <2>4 DEF Turns, From, To
  <2>6. InStep(k2)
    BY <1>2, <1>3, <2>1, <2>5 DEF InStep
  <2>7. \A i \in 1..n : Moved(k2, i) <=> i < m
    BY <2>5 DEF Moved
  <2>8. InHand(k2)'
    <3> SUFFICES ASSUME k.alone, NEW i \in 1..n
                 PROVE  /\ i < m => where'[From(k, i)] = None
                        /\ ~ k.stuck =>
                             IF i < m
                               THEN /\ where'[To(k, i)] = k.before[From(k, i)]
                                    /\ k.before[To(k, i)] = None
                               ELSE /\ where'[From(k, i)] = k.before[From(k, i)]
                                    /\ where'[To(k, i)] = k.before[To(k, i)]
      BY <1>3, <2>5, <2>7, InHandNext
    <3> QED
      BY <1>1, <1>3, <1>4, AfterMoveBack
  <2>9. InHand(call[c])'
    BY <2>4, <2>8, InHandOf
  <2> QED
    BY <1>1, <1>2, <1>6, <1>7, <1>8, <1>9, <2>3, <2>4, <2>6, <2>9, RenameInv
<1> QED
  BY <1>10, <1>11
-----------------------------------------------------------------------------
(* Calls begin, and the process begins again.                               *)

\* A call that begins is alone only if no call under way shares a path with it, and
\* takes that from those that do.
LEMMA BeginInv ==
  ASSUME IInv, NEW c \in Callers, ~ Active(c), NEW plan \in Plans,
         NEW stage \in {"inspect", "sourceGone"}, Begin(c, plan, stage), Races(plan),
         UNCHANGED <<where, receipts, confirmed>>
  PROVE  IInv'
<1>1. Typed /\ Apart
  BY DEF IInv
<1> DEFINE fresh == [stage |-> stage, plan |-> plan, next |-> 1, before |-> where,
                     alone |-> Contenders(plan) = {}, stuck |-> FALSE, result |-> "none"]
<1>2. /\ fresh \in Calls /\ fresh.stage = stage /\ fresh.plan = plan /\ fresh.next = 1
      /\ fresh.before = where /\ fresh.alone = (Contenders(plan) = {}) /\ fresh.stuck = FALSE
      /\ fresh.result = "none"
  BY <1>1 DEF Calls, Stages, Answers, Typed
<1>3. call' = [d \in Callers |-> IF d = c THEN fresh
                                 ELSE IF d \in Contenders(plan)
                                   THEN [call[d] EXCEPT !.alone = FALSE]
                                 ELSE call[d]]
  BY DEF Begin
<1> HIDE DEF fresh
<1>4. call'[c] = fresh /\ c \notin Contenders(plan)
  BY <1>3 DEF Contenders
<1>5. ASSUME NEW d \in Callers \ {c}
      PROVE  /\ call'[d] \in Calls /\ call'[d].stage = call[d].stage /\ call'[d].plan = call[d].plan
             /\ call'[d].next = call[d].next /\ call'[d].before = call[d].before
             /\ call'[d].stuck = call[d].stuck /\ call'[d].result = call[d].result
             /\ call'[d].alone => call[d].alone /\ d \notin Contenders(plan)
             /\ d \notin Contenders(plan) => call'[d].alone = call[d].alone
  <2>1. PICK k \in Calls : k = call[d]
    BY <1>1 DEF Typed
  <2> DEFINE left == [k EXCEPT !.alone = FALSE]
  <2>2. /\ left \in Calls /\ left.stage = k.stage /\ left.plan = k.plan /\ left.next = k.next
        /\ left.before = k.before /\ left.stuck = k.stuck /\ left.result = k.result
        /\ left.alone = FALSE
    BY DEF Calls
  <2>3. call'[d] = IF d \in Contenders(plan) THEN left ELSE k
    BY <1>3, <2>1
  <2> HIDE DEF left
  <2> QED
    BY <2>1, <2>2, <2>3
<1>6. Typed'
  <2>1. call' \in [Callers -> Calls]
    <3>1. \A d \in Callers : call'[d] \in Calls
      BY <1>2, <1>4, <1>5
    <3>2. call' = [d \in Callers |-> call'[d]]
      BY <1>3
    <3> QED
      BY <3>1, <3>2
  <2>2. raced' \in BOOLEAN
    BY DEF Races
  <2> QED
    BY <1>1, <2>1, <2>2 DEF Typed
<1>7. ASSUME NEW d \in Callers
      PROVE  InStep(call'[d]) /\ InHand(call[d])'
  <2>1. PICK k2 \in Calls : k2 = call'[d]
    BY <1>6 DEF Typed
  <2>2. CASE d = c
    <3>1. 1 \in DOMAIN plan.items
      BY PlanFacts
    <3>2. k2 = fresh
      BY <1>4, <2>1, <2>2
    <3>3. InStep(k2)
      BY <1>1, <1>2, <3>1, <3>2 DEF InStep, Typed
    <3>4. InHand(k2)
      BY <1>2, <3>2 DEF InHand, Moving, Moved, From, To
    <3>5. InHand(k2)'
      BY <3>4, InHandStays
    <3>6. InHand(call[d])'
      BY <2>1, <3>5, InHandOf
    <3> QED
      BY <2>1, <3>3, <3>6
  <2>3. CASE d # c
    <3>1. PICK k \in Calls : k = call[d]
      BY <1>1 DEF Typed
    <3>2. InStep(k) /\ InHand(k)
      BY <3>1 DEF IInv
    <3>3. /\ k2.stage = k.stage /\ k2.plan = k.plan /\ k2.next = k.next /\ k2.before = k.before
          /\ k2.stuck = k.stuck /\ k2.result = k.result
      BY <1>5, <2>1, <2>3, <3>1
    <3>4. InStep(k2)
      BY <3>2, <3>3 DEF InStep
    <3>a. k2.alone => k.alone
      BY <1>5, <2>1, <2>3, <3>1
    <3>b. \A i : (Moved(k2, i) <=> Moved(k, i)) /\ From(k2, i) = From(k, i) /\ To(k2, i) = To(k, i)
      BY <3>3 DEF Moved, From, To
    <3>5. InHand(k2)
      BY <3>2, <3>3, <3>a, <3>b DEF InHand
    <3>6. InHand(k2)'
      BY <3>5, InHandStays
    <3>7. InHand(call[d])'
      BY <2>1, <3>6, InHandOf
    <3> QED
      BY <2>1, <3>4, <3>7
  <2> QED
    BY <2>2, <2>3
<1>8. Apart'
  <2> SUFFICES ASSUME NEW a \in Callers, NEW b \in Callers, a # b,
                      call'[a].stage # "idle", call'[b].stage # "idle", call'[a].alone
               PROVE  Paths(call'[a].plan) \cap Paths(call'[b].plan) = {}
    BY DEF Apart, Active
  <2>1. CASE a = c
    <3>1. Contenders(plan) = {}
      BY <1>2, <1>4, <2>1
    <3>2. Active(b) /\ call'[b].plan = call[b].plan
      BY <1>5, <2>1 DEF Active
    <3> QED
      BY <1>2, <1>4, <2>1, <3>1, <3>2 DEF Contenders
  <2>2. CASE b = c
    <3>1. Active(a) /\ call'[a].plan = call[a].plan /\ a \notin Contenders(plan)
      BY <1>5, <2>2 DEF Active
    <3> QED
      BY <1>2, <1>4, <2>2, <3>1 DEF Contenders
  <2>3. CASE a # c /\ b # c
    <3>1. /\ Active(a) /\ Active(b) /\ call[a].alone
          /\ call'[a].plan = call[a].plan /\ call'[b].plan = call[b].plan
      BY <1>5, <2>3 DEF Active
    <3> QED
      BY <1>1, <3>1 DEF Apart
  <2> QED
    BY <2>1, <2>2, <2>3
<1>9. ASSUME ~ raced'
      PROVE  /\ \A d \in Callers : Active(d)' => call'[d].alone
             /\ NothingIsLost'
  <2>1. ~ raced /\ Contenders(plan) = {}
    BY <1>9 DEF Races
  <2>2. \A d \in Callers : Active(d)' => call'[d].alone
    BY <1>2, <1>4, <1>5, <2>1 DEF IInv, Active
  <2>3. NothingIsLost'
    BY <2>1 DEF IInv, NothingIsLost
  <2> QED
    BY <2>2, <2>3
<1> QED
  BY <1>6, <1>7, <1>8, <1>9 DEF IInv

\* A call that is answered from the receipts of its key changes nothing else.
LEMMA ReplayInv ==
  ASSUME IInv, NEW c \in Callers, ~ Active(c), NEW result \in Answers,
         call' = [call EXCEPT ![c] = [Idle EXCEPT !.result = result]],
         UNCHANGED <<where, receipts, confirmed, raced>>
  PROVE  IInv'
<1>1. Idle \in Calls /\ Idle.stage = "idle"
  BY DEF Idle, Calls, Stages, Answers
<1>2. PICK idle \in Calls : idle = Idle
  BY <1>1
<1> DEFINE over == [idle EXCEPT !.result = result]
<1>3. over \in Calls /\ over.stage = "idle"
  BY <1>1, <1>2 DEF Calls, Answers
<1>4. call' = [call EXCEPT ![c] = over]
  BY <1>2
<1> HIDE DEF over
<1>5. /\ call' \in [Callers -> Calls] /\ call'[c].stage = "idle"
      /\ \A d \in Callers \ {c} : call'[d] = call[d]
  BY <1>3, <1>4 DEF IInv, Typed
<1>6. ASSUME NEW d \in Callers
      PROVE  InStep(call'[d]) /\ InHand(call[d])'
  <2>1. CASE d = c
    BY <1>5, <2>1 DEF InStep, InHand, Moving
  <2>2. CASE d # c
    <3>1. PICK k \in Calls : k = call[d] /\ k = call'[d]
      BY <1>5, <2>2 DEF IInv, Typed
    <3>2. InStep(k) /\ InHand(k)
      BY <3>1 DEF IInv
    <3>3. InHand(k)'
      BY <3>2, InHandStays
    <3>4. InHand(call[d])'
      BY <3>1, <3>3, InHandOf
    <3> QED
      BY <3>1, <3>2, <3>4
  <2> QED
    BY <2>1, <2>2
<1>7. Apart'
  BY <1>5 DEF IInv, Apart, Active
<1>8. NothingIsLost => NothingIsLost'
  BY DEF NothingIsLost
<1>9. Typed'
  BY <1>5 DEF IInv, Typed
<1>10. ~ raced' => \A d \in Callers : Active(d)' => call'[d].alone
  BY <1>5 DEF IInv, Active
<1> QED
  BY <1>6, <1>7, <1>8, <1>9, <1>10 DEF IInv

\* Without calls and receipts the invariant is about the tree alone.
LEMMA IdleInv ==
  ASSUME where \in Trees, raced \in BOOLEAN, ~ raced => NothingIsLost,
         call = [c \in Callers |-> Idle], receipts = [k \in Keys |-> None], confirmed = {}
  PROVE  IInv
<1>1. Idle \in Calls /\ Idle.stage = "idle"
  BY DEF Idle, Calls, Stages, Answers
<1>2. Typed
  BY <1>1 DEF Typed
<1>3. \A c \in Callers : InStep(call[c]) /\ InHand(call[c])
  BY <1>1 DEF InStep, InHand, Moving
<1>4. Apart /\ \A c \in Callers : ~ Active(c)
  BY <1>1 DEF Apart, Active
<1> QED
  BY <1>2, <1>3, <1>4 DEF IInv

\* Every file begins at the path it is named after.
LEMMA InitIInv == Init => IInv
<1> SUFFICES ASSUME Init PROVE IInv
  OBVIOUS
<1>1. where = [l \in Locations |-> IF l \in Files THEN l ELSE None]
  BY DEF Init, Files
<1>2. Files \subseteq Locations
  BY DEF Files
<1>3. where \in Trees /\ \A f \in Files : where[f] = f
  BY <1>1, <1>2 DEF Trees
<1>4. NothingIsLost
  BY <1>2, <1>3 DEF NothingIsLost
<1> QED
  BY <1>3, <1>4, IdleInv DEF Init

\* Every step keeps the invariant.
LEMMA NextIInv == IInv /\ [Next]_vars => IInv'
<1> SUFFICES ASSUME IInv, [Next]_vars PROVE IInv'
  OBVIOUS
<1>1. ASSUME NEW c \in Callers, NEW plan \in Plans, Execute(c, plan)
      PROVE  IInv'
  <2>1. CASE HasReceipt(plan)
    <3>1. PICK result \in Answers : call' = [call EXCEPT ![c] = [Idle EXCEPT !.result = result]]
      BY <1>1, <2>1 DEF Execute, Answers
    <3> QED
      BY <1>1, <2>1, <3>1, ReplayInv DEF Execute
  <2>2. CASE ~ HasReceipt(plan)
    BY <1>1, <2>2, BeginInv DEF Execute
  <2> QED
    BY <2>1, <2>2
<1>2. ASSUME NEW c \in Callers, NEW plan \in Plans, Reconcile(c, plan)
      PROVE  IInv'
  BY <1>2, BeginInv DEF Reconcile
<1>3. ASSUME NEW c \in Callers,
             \/ Inspect(c) \/ CheckDestination(c) \/ FailOperation(c) \/ FailUndo(c)
             \/ SourceGone(c) \/ Arrived(c)
      PROVE  IInv'
  BY <1>3, QuietSteps, QuietInv
<1>4. ASSUME Restart PROVE IInv'
  <2>1. /\ where' \in Trees /\ raced' \in BOOLEAN /\ (~ raced' => NothingIsLost')
        /\ call' = [c \in Callers |-> Idle] /\ receipts' = [k \in Keys |-> None] /\ confirmed' = {}
    BY <1>4 DEF Restart, IInv, Typed, NothingIsLost
  <2>2. Idle \in Calls /\ Idle.stage = "idle"
    BY DEF Idle, Calls, Stages, Answers
  <2>3. Typed'
    BY <2>1, <2>2 DEF Typed
  <2>4. \A c \in Callers : InStep(call'[c]) /\ InHand(call[c])'
    BY <2>1, <2>2 DEF InStep, InHand, Moving
  <2>5. Apart' /\ \A c \in Callers : ~ Active(c)'
    BY <2>1, <2>2 DEF Apart, Active
  <2> QED
    BY <2>1, <2>3, <2>4, <2>5 DEF IInv
<1>5. CASE UNCHANGED vars
  <2>1. UNCHANGED <<where, call, receipts, confirmed, raced>>
    BY <1>5 DEF vars
  <2>2. Typed' /\ (NothingIsLost => NothingIsLost')
    BY <2>1 DEF IInv, Typed, NothingIsLost
  <2>3. Apart' /\ \A c \in Callers : Active(c)' = Active(c)
    BY <2>1 DEF IInv, Apart, Active
  <2>4. ASSUME NEW c \in Callers
        PROVE  InStep(call'[c]) /\ InHand(call[c])'
    <3>1. PICK k \in Calls : k = call[c] /\ k = call'[c] /\ InStep(k) /\ InHand(k)
      BY <2>1 DEF IInv, Typed
    <3>2. InHand(call[c])'
      BY <2>1, <3>1, InHandStays, InHandOf
    <3> QED
      BY <3>1, <3>2
  <2> QED
    BY <2>1, <2>2, <2>3, <2>4 DEF IInv
<1> QED
  BY <1>1, <1>2, <1>3, <1>4, <1>5, MoveInv, UndoInv DEF Next

-----------------------------------------------------------------------------
(* What a call answers.                                                     *)

\* AllOrNothing of one call and one step.
Honest(c) ==
  /\ call[c].stage \in {"move", "undo"}
  /\ call[c].alone /\ ~ call'[c].stuck
  =>
  /\ call'[c].result = "provider_confirmed" =>
       \A i \in DOMAIN call[c].plan.items :
         /\ where'[call[c].plan.items[i].destination] = call[c].before[call[c].plan.items[i].source]
         /\ where'[call[c].plan.items[i].source] = None
  /\ call'[c].result = "thrown" =>
       \A l \in Paths(call[c].plan) : where'[l] = call[c].before[l]

\* A call that has not answered has nothing to be held to.
LEMMA Unanswered ==
  ASSUME NEW c \in Callers, call'[c].result = "none"
  PROVE  Honest(c)
BY DEF Honest

\* A call without a rename that answers by throwing has left everything in its place.
LEMMA QuietIsHonest ==
  ASSUME IInv, NEW c \in Callers, Quiet(c)
  PROVE  Honest(c)
<1>1. PICK k \in Calls : k = call[c]
  BY DEF IInv, Typed
<1>2. /\ InStep(k) /\ InHand(k) /\ k.stage # "idle" /\ where' = where
      /\ k.plan \in Plans /\ k.next \in DOMAIN k.plan.items /\ k.result = "none"
  BY <1>1 DEF IInv, Quiet, Active, InStep
<1>3. PICK n \in Nat : n = Len(k.plan.items) /\ DOMAIN k.plan.items = 1..n
  BY <1>2, PlanFacts
<1>4. ASSUME NEW stage, NEW next, NEW stuck, Turns(c, stage, next, stuck)
      PROVE  Honest(c)
  BY <1>1, <1>2, <1>4, Unanswered DEF Turns
<1>5. ASSUME NEW result \in Answers, NEW stuck \in BOOLEAN, Over(c, result, stuck),
             Gives(call[c], result, stuck)
      PROVE  Honest(c)
  <2> SUFFICES ASSUME k.stage \in {"move", "undo"}, k.alone, ~ stuck
               PROVE  \A l \in Paths(k.plan) : where[l] = k.before[l]
    BY <1>1, <1>2, <1>5 DEF Honest, Over, Gives
  <2>1. k.stage = "move" /\ k.next = 1 /\ ~ k.stuck
    BY <1>1, <1>5 DEF Gives
  <2>2. \A i \in 1..n : ~ Moved(k, i)
    BY <2>1 DEF Moved
  <2>3. \A i \in 1..n :
          where[From(k, i)] = k.before[From(k, i)] /\ where[To(k, i)] = k.before[To(k, i)]
    BY <1>2, <1>3, <2>1, <2>2 DEF InHand, Moving
  <2> QED
    BY <1>3, <2>3 DEF Paths, From, To
<1> QED
  BY <1>4, <1>5 DEF Quiet

\* The last rename of a move, or of the way back, leaves what the answer says.
LEMMA RenamesAreHonest ==
  ASSUME IInv, NEW c \in Callers, MoveItem(c) \/ UndoItem(c)
  PROVE  Honest(c)
<1>1. PICK k \in Calls : k = call[c]
  BY DEF IInv, Typed
<1>2. /\ Typed /\ InStep(k) /\ k.stage \in {"move", "undo"}
      /\ k.plan \in Plans /\ k.next \in DOMAIN k.plan.items /\ k.result = "none"
  BY <1>1 DEF IInv, MoveItem, UndoItem, InStep
<1>3. PICK n \in Nat : n = Len(k.plan.items) /\ DOMAIN k.plan.items = 1..n
  BY <1>2, PlanFacts
<1>4. PICK m \in 1..n : m = k.next
  BY <1>2, <1>3
<1>5. ASSUME NEW stage \in Stages, NEW next \in Int, Step(c, stage, next)
      PROVE  Honest(c)
  <2>1. call'[c].result = "none"
    BY <1>1, <1>2, <1>5, StepTurns DEF Turns
  <2> QED
    BY <2>1, Unanswered
<1>6. CASE MoveItem(c)
  <2>1. CASE m # n
    <3>1. Step(c, "check", m + 1) /\ m + 1 \in Int /\ "check" \in Stages
      BY <1>1, <1>3, <1>4, <1>6, <2>1 DEF MoveItem, LastItem, Stages
    <3> QED
      BY <1>5, <3>1
  <2>2. CASE m = n
    <3>1. Over(c, "provider_confirmed", k.stuck)
      BY <1>1, <1>2, <1>3, <1>4, <1>6, <2>2, ReturnIsOver DEF MoveItem, LastItem, Answers
    <3> SUFFICES ASSUME k.alone, ~ k.stuck, NEW i \in 1..n
                 PROVE  where'[To(k, i)] = k.before[From(k, i)] /\ where'[From(k, i)] = None
      BY <1>1, <1>3, <3>1 DEF Honest, Over, From, To
    <3>2. i \in DOMAIN k.plan.items /\ i <= k.next
      BY <1>3, <1>4, <2>2
    <3> QED
      BY <1>1, <1>6, <3>2, AfterMove
  <2> QED
    BY <2>1, <2>2
<1>7. CASE UndoItem(c)
  <2>1. CASE m # 1
    <3>1. Step(c, "undo", m - 1) /\ m - 1 \in Int /\ "undo" \in Stages
      BY <1>1, <1>4, <1>7, <2>1 DEF UndoItem, AfterUndo, Stages
    <3> QED
      BY <1>5, <3>1
  <2>2. CASE m = 1
    <3>1. Over(c, "thrown", k.stuck)
      BY <1>1, <1>2, <1>4, <1>7, <2>2, ReturnIsOver DEF UndoItem, AfterUndo, Answers
    <3>2. ASSUME k.alone, ~ k.stuck, NEW i \in 1..n
          PROVE  where'[From(k, i)] = k.before[From(k, i)] /\ where'[To(k, i)] = k.before[To(k, i)]
      <4>1. i \in DOMAIN k.plan.items /\ ~ (i < k.next)
        BY <1>3, <1>4, <2>2
      <4> QED
        BY <1>1, <1>7, <3>2, <4>1, AfterMoveBack
    <3>3. k.alone /\ ~ k.stuck => \A l \in Paths(k.plan) : where'[l] = k.before[l]
      BY <1>3, <3>2 DEF Paths, From, To
    <3> QED
      BY <1>1, <3>1, <3>3 DEF Honest, Over
  <2> QED
    BY <2>1, <2>2
<1> QED
  BY <1>6, <1>7

\* No step makes any call answer what is not so.
LEMMA StepsAreHonest ==
  ASSUME IInv, [Next]_vars, NEW c \in Callers
  PROVE  UNCHANGED vars \/ Honest(c)
<1> SUFFICES ASSUME Next, call[c].stage \in {"move", "undo"} PROVE Honest(c)
  BY DEF Honest
<1>1. call[c].result = "none" /\ Active(c) /\ Typed
  BY DEF IInv, InStep, Active
<1>2. ASSUME NEW d \in Callers \ {c}, call'[c] = call[c]
      PROVE  Honest(c)
  BY <1>1, <1>2, Unanswered
<1>3. ASSUME NEW d \in Callers, NEW plan \in Plans, Execute(d, plan) \/ Reconcile(d, plan)
      PROVE  Honest(c)
  <2>1. d # c
    BY <1>1, <1>3 DEF Execute, Reconcile
  <2>2. CASE call'[c] = call[c]
    BY <1>2, <2>1, <2>2
  <2>3. CASE call'[c] # call[c]
    <3>1. PICK k \in Calls : k = call[c]
      BY <1>1 DEF Typed
    <3> DEFINE left == [k EXCEPT !.alone = FALSE]
    <3>2. left.result = k.result
      BY DEF Calls
    <3>3. call'[c] = left
      <4>1. PICK stage \in {"inspect", "sourceGone"} : Begin(d, plan, stage)
        BY <1>1, <1>3, <2>1, <2>3 DEF Execute, Reconcile, Typed
      <4>2. call'[c] = IF c \in Contenders(plan) THEN [call[c] EXCEPT !.alone = FALSE] ELSE call[c]
        BY <2>1, <4>1 DEF Begin
      <4> QED
        BY <2>3, <3>1, <4>2
    <3> QED
      BY <1>1, <3>1, <3>2, <3>3, Unanswered
  <2> QED
    BY <2>2, <2>3
<1>4. ASSUME NEW d \in Callers,
             \/ Inspect(d) \/ CheckDestination(d) \/ FailOperation(d) \/ FailUndo(d)
             \/ SourceGone(d) \/ Arrived(d)
      PROVE  Honest(c)
  <2>1. Quiet(d)
    BY <1>4, QuietSteps
  <2>2. d # c => call'[c] = call[c]
    BY <2>1 DEF Quiet, Over, Turns
  <2> QED
    BY <1>2, <2>1, <2>2, QuietIsHonest
<1>5. ASSUME NEW d \in Callers, MoveItem(d) \/ UndoItem(d)
      PROVE  Honest(c)
  <2>1. d # c => call'[c] = call[c]
    BY <1>1, <1>5 DEF MoveItem, UndoItem, AfterUndo, Step, Return, Typed
  <2> QED
    BY <1>2, <1>5, <2>1, RenamesAreHonest
<1>6. ASSUME Restart PROVE Honest(c)
  BY <1>6, Unanswered DEF Restart, Idle
<1> QED
  BY <1>3, <1>4, <1>5, <1>6 DEF Next

-----------------------------------------------------------------------------
(* What a reconciliation has seen.                                          *)

Observing == {"sourceGone", "arrived"}

\* What a call that is alone has found is still so.
Observed(k) ==
  k.stage \in Observing /\ k.alone =>
    \A i \in DOMAIN k.plan.items :
      /\ i < k.next => where[From(k, i)] = None /\ where[To(k, i)] # None
      /\ k.stage = "arrived" /\ i = k.next => where[From(k, i)] = None

OInv == \A c \in Callers : Observed(call[c])

\* What is so of the record a step leaves to a call is so of the call.
LEMMA ObservedOf ==
  ASSUME NEW c \in Callers, NEW k, k = call'[c],
         k.stage \in Observing /\ k.alone =>
           \A i \in DOMAIN k.plan.items :
             /\ i < k.next => where'[From(k, i)] = None /\ where'[To(k, i)] # None
             /\ k.stage = "arrived" /\ i = k.next => where'[From(k, i)] = None
  PROVE  Observed(call[c])'
BY DEF Observed, From, To

\* A call that does not observe has seen nothing.
LEMMA NothingSeen ==
  ASSUME NEW c \in Callers, call'[c].stage \notin Observing
  PROVE  Observed(call[c])'
BY DEF Observed

\* What a call has seen stays so while others act: a step of a call changes the tree at
\* the paths of its own plan at most.
LEMMA OthersObserve ==
  ASSUME IInv, OInv, NEW c \in Callers, Active(c), NEW d \in Callers \ {c}, call'[d] = call[d],
         \A l \in Locations \ Paths(call[c].plan) : where'[l] = where[l]
  PROVE  Observed(call[d])'
<1>1. PICK k \in Calls : k = call[d] /\ k = call'[d] /\ InStep(k) /\ Observed(k)
  BY DEF IInv, OInv, Typed
<1>2. ASSUME k.stage \in Observing, k.alone, NEW i \in DOMAIN k.plan.items
      PROVE  where'[From(k, i)] = where[From(k, i)] /\ where'[To(k, i)] = where[To(k, i)]
  <2>1. Active(d) /\ k.plan \in Plans
    BY <1>1, <1>2 DEF Active, Observing, InStep
  <2>2. Paths(k.plan) \cap Paths(call[c].plan) = {}
    BY <1>1, <1>2, <2>1 DEF IInv, Apart
  <2>3. /\ From(k, i) \in Locations /\ To(k, i) \in Locations
        /\ From(k, i) \in Paths(k.plan) /\ To(k, i) \in Paths(k.plan)
    BY <1>2, <2>1, PlanFacts DEF From, To
  <2> QED
    BY <2>2, <2>3
<1> QED
  BY <1>1, <1>2, ObservedOf DEF Observed

\* What a call saw before another one began, it has seen; one that begins has seen nothing.
LEMMA BeginObserved ==
  ASSUME IInv, OInv, NEW c \in Callers, NEW plan \in Plans,
         NEW stage \in {"inspect", "sourceGone"}, Begin(c, plan, stage), where' = where
  PROVE  OInv'
<1> DEFINE fresh == [stage |-> stage, plan |-> plan, next |-> 1, before |-> where,
                     alone |-> Contenders(plan) = {}, stuck |-> FALSE, result |-> "none"]
<1>1. fresh.stage # "arrived" /\ fresh.next = 1 /\ fresh.plan = plan
  OBVIOUS
<1>2. call' = [d \in Callers |-> IF d = c THEN fresh
                                 ELSE IF d \in Contenders(plan)
                                   THEN [call[d] EXCEPT !.alone = FALSE]
                                 ELSE call[d]]
  BY DEF Begin
<1> HIDE DEF fresh
<1> SUFFICES ASSUME NEW d \in Callers PROVE Observed(call[d])'
  BY DEF OInv
<1>3. CASE d = c
  <2>1. fresh = call'[d]
    BY <1>2, <1>3
  <2>2. DOMAIN plan.items = 1..Len(plan.items) /\ Len(plan.items) \in Nat
    BY PlanFacts
  <2>3. \A i \in DOMAIN fresh.plan.items : ~ (i < fresh.next)
    BY <1>1, <2>2
  <2> QED
    BY <1>1, <2>1, <2>3, ObservedOf
<1>4. CASE d # c
  <2>1. PICK k \in Calls : k = call[d]
    BY DEF IInv, Typed
  <2> DEFINE left == [k EXCEPT !.alone = FALSE]
  <2>2. left.alone = FALSE
    BY DEF Calls
  <2>3. call'[d] = IF d \in Contenders(plan) THEN left ELSE k
    BY <1>2, <1>4, <2>1
  <2> HIDE DEF left
  <2>4. CASE call'[d] = left
    BY <2>2, <2>4, ObservedOf
  <2>5. CASE call'[d] = k
    BY <2>1, <2>5, ObservedOf DEF OInv, Observed
  <2> QED
    BY <2>3, <2>4, <2>5
<1> QED
  BY <1>3, <1>4

\* A reconciliation that goes on has seen one thing more.
LEMMA ObservesMore ==
  ASSUME IInv, OInv, NEW c \in Callers, SourceGone(c) \/ Arrived(c)
  PROVE  Observed(call[c])'
<1>1. PICK k \in Calls : k = call[c]
  BY DEF IInv, Typed
<1>2. /\ Typed /\ InStep(k) /\ Observed(k) /\ k.stage \in Observing /\ where' = where
      /\ k.plan \in Plans /\ k.next \in DOMAIN k.plan.items
  BY <1>1 DEF IInv, OInv, SourceGone, Arrived, InStep, Observing
<1>3. PICK n \in Nat : n = Len(k.plan.items) /\ DOMAIN k.plan.items = 1..n
  BY <1>2, PlanFacts
<1>4. PICK m \in 1..n : m = k.next
  BY <1>2, <1>3
<1>5. CASE \E result \in Answers : Return(c, result)
  <2>1. call'[c].stage = "idle"
    BY <1>2, <1>5, ReturnIsOver DEF Over
  <2> QED
    BY <2>1, NothingSeen DEF Observing
<1>6. Throw(c) => Return(c, "thrown") /\ "thrown" \in Answers
  BY <1>1, <1>2 DEF Throw, Observing, Answers
<1>7. CASE SourceGone(c) /\ ~ Throw(c)
  <2>1. where[From(k, m)] = None /\ Step(c, "arrived", m) /\ "arrived" \in Stages /\ m \in Int
    BY <1>1, <1>4, <1>7 DEF SourceGone, Exists, Item, From, Stages
  <2>2. Turns(c, "arrived", m, k.stuck)
    BY <1>1, <1>2, <2>1, StepTurns
  <2>3. PICK k2 \in Calls : k2 = call'[c]
    BY <2>2 DEF Turns
  <2>4. /\ k2.stage = "arrived" /\ k2.next = m /\ k2.plan = k.plan /\ k2.alone = k.alone
        /\ \A i : From(k2, i) = From(k, i) /\ To(k2, i) = To(k, i)
    BY <1>1, <2>2, <2>3 DEF Turns, From, To
  <2> QED
    BY <1>2, <1>4, <2>1, <2>3, <2>4, ObservedOf DEF Observed
<1>8. CASE Arrived(c) /\ ~ Throw(c) /\ ~ Return(c, "reconciled")
  <2>1. /\ where[To(k, m)] # None /\ m # n /\ Step(c, "sourceGone", m + 1)
        /\ "sourceGone" \in Stages /\ m + 1 \in Int /\ k.stage = "arrived"
    BY <1>1, <1>3, <1>4, <1>8 DEF Arrived, Exists, Item, LastItem, To, Stages
  <2>2. Turns(c, "sourceGone", m + 1, k.stuck)
    BY <1>1, <1>2, <2>1, StepTurns
  <2>3. PICK k2 \in Calls : k2 = call'[c]
    BY <2>2 DEF Turns
  <2>4. /\ k2.stage = "sourceGone" /\ k2.next = m + 1 /\ k2.plan = k.plan /\ k2.alone = k.alone
        /\ \A i : From(k2, i) = From(k, i) /\ To(k2, i) = To(k, i)
    BY <1>1, <2>2, <2>3 DEF Turns, From, To
  <2>5. ASSUME k.alone, NEW i \in 1..n, i < m + 1
        PROVE  where[From(k, i)] = None /\ where[To(k, i)] # None
    <3>1. CASE i = m
      BY <1>2, <1>3, <1>4, <2>1, <2>5, <3>1 DEF Observed
    <3>2. CASE i < m
      BY <1>2, <1>3, <1>4, <2>5, <3>2 DEF Observed
    <3> QED
      BY <2>5, <3>1, <3>2
  <2> QED
    BY <1>2, <1>3, <2>3, <2>4, <2>5, ObservedOf
<1>9. "reconciled" \in Answers
  BY DEF Answers
<1> QED
  BY <1>5, <1>6, <1>7, <1>8, <1>9

\* Every step keeps what was seen.
LEMMA NextOInv == IInv /\ OInv /\ [Next]_vars => OInv'
<1> SUFFICES ASSUME IInv, OInv, [Next]_vars PROVE OInv'
  OBVIOUS
<1>1. ASSUME NEW c \in Callers, NEW plan \in Plans, Execute(c, plan)
      PROVE  OInv'
  <2>1. CASE HasReceipt(plan)
    <3>1. /\ where' = where /\ \A d \in Callers \ {c} : call'[d] = call[d]
          /\ call'[c].stage = "idle"
      BY <1>1, <2>1 DEF Execute, Idle, IInv, Typed
    <3>2. \A d \in Callers \ {c} : Observed(call[d])'
      BY <3>1, ObservedOf DEF OInv, Observed
    <3> QED
      BY <3>1, <3>2, NothingSeen DEF OInv, Observing
  <2>2. CASE ~ HasReceipt(plan)
    BY <1>1, <2>2, BeginObserved DEF Execute
  <2> QED
    BY <2>1, <2>2
<1>2. ASSUME NEW c \in Callers, NEW plan \in Plans, Reconcile(c, plan)
      PROVE  OInv'
  BY <1>2, BeginObserved DEF Reconcile
<1>3. ASSUME NEW c \in Callers, Active(c), Observed(call[c])',
             \A d \in Callers \ {c} : call'[d] = call[d],
             \A l \in Locations \ Paths(call[c].plan) : where'[l] = where[l]
      PROVE  OInv'
  BY <1>3, OthersObserve DEF OInv
<1>4. ASSUME NEW c \in Callers,
             Inspect(c) \/ CheckDestination(c) \/ FailOperation(c) \/ FailUndo(c)
      PROVE  OInv'
  <2>1. Quiet(c) /\ Active(c) /\ where' = where /\ call[c].stage \in Moving
    BY <1>4, QuietSteps DEF Quiet, Inspect, CheckDestination, FailOperation, FailUndo, Moving
  <2>2. \A d \in Callers \ {c} : call'[d] = call[d]
    BY <2>1 DEF Quiet, Over, Turns
  <2>3. call'[c].stage \notin Observing
    BY <2>1 DEF Quiet, Over, Turns, Follows, Moving, Observing
  <2> QED
    BY <1>3, <2>1, <2>2, <2>3, NothingSeen
<1>5. ASSUME NEW c \in Callers, SourceGone(c) \/ Arrived(c)
      PROVE  OInv'
  <2>1. Quiet(c) /\ Active(c) /\ where' = where
    BY <1>5, QuietSteps DEF Quiet
  <2>2. \A d \in Callers \ {c} : call'[d] = call[d]
    BY <2>1 DEF Quiet, Over, Turns
  <2> QED
    BY <1>3, <1>5, <2>1, <2>2, ObservesMore
<1>6. ASSUME NEW c \in Callers, MoveItem(c) \/ UndoItem(c)
      PROVE  OInv'
  <2>1. PICK k \in Calls : k = call[c]
    BY DEF IInv, Typed
  <2>2. /\ Typed /\ InStep(k) /\ k.stage \in {"move", "undo"} /\ Active(c)
        /\ k.plan \in Plans /\ k.next \in DOMAIN k.plan.items
    BY <1>6, <2>1 DEF IInv, MoveItem, UndoItem, InStep, Active
  <2>3. /\ From(k, k.next) \in Locations /\ To(k, k.next) \in Locations
        /\ From(k, k.next) # To(k, k.next)
        /\ From(k, k.next) \in Paths(k.plan) /\ To(k, k.next) \in Paths(k.plan)
    BY <2>2, PlanFacts DEF From, To
  <2>4. Rename(From(k, k.next), To(k, k.next)) \/ Rename(To(k, k.next), From(k, k.next))
    BY <1>6, <2>1 DEF MoveItem, UndoItem, Item, From, To
  <2>5. \A l \in Locations \ Paths(k.plan) : where'[l] = where[l]
    BY <2>2, <2>3, <2>4, Renamed DEF Typed
  <2>6. PICK n \in Nat : n = Len(k.plan.items) /\ DOMAIN k.plan.items = 1..n
    BY <2>2, PlanFacts
  <2>7. k.next \in Int
    BY <2>2, <2>6
  <2>8. \/ \E result \in Answers : Return(c, result)
        \/ \E stage \in {"check", "undo"}, next \in Int : Step(c, stage, next)
    BY <1>6, <2>1, <2>7 DEF MoveItem, UndoItem, AfterUndo, Answers
  <2>9. /\ \A d \in Callers \ {c} : call'[d] = call[d]
        /\ call'[c].stage \in {"idle", "check", "undo"}
    <3>1. CASE \E result \in Answers : Return(c, result)
      BY <2>2, <3>1, ReturnIsOver DEF Over
    <3>2. CASE \E stage \in {"check", "undo"}, next \in Int : Step(c, stage, next)
      BY <2>2, <3>2, StepTurns DEF Turns, Stages
    <3> QED
      BY <2>8, <3>1, <3>2
  <2> QED
    BY <1>3, <2>1, <2>2, <2>5, <2>9, NothingSeen DEF Observing
<1>7. CASE Restart
  BY <1>7, NothingSeen DEF OInv, Restart, Idle, Observing
<1>8. CASE UNCHANGED vars
  <2>1. where' = where /\ call' = call
    BY <1>8 DEF vars
  <2> QED
    BY <2>1, ObservedOf DEF OInv, Observed
<1> QED
  BY <1>1, <1>2, <1>4, <1>5, <1>6, <1>7, <1>8 DEF Next

\* ReconciledIsSo of one call and one step.
Sure(c) ==
  Active(c) /\ call[c].alone /\ call'[c].result = "reconciled" =>
    \A i \in DOMAIN call[c].plan.items :
      /\ where'[call[c].plan.items[i].source] = None
      /\ where'[call[c].plan.items[i].destination] # None

\* A call that resolves has seen every item in its place, the last one just now.
LEMMA ArrivedIsSure ==
  ASSUME IInv, OInv, NEW c \in Callers, Arrived(c)
  PROVE  Sure(c)
<1>1. PICK k \in Calls : k = call[c]
  BY DEF IInv, Typed
<1>2. /\ Typed /\ InStep(k) /\ Observed(k) /\ k.stage = "arrived" /\ where' = where
      /\ k.plan \in Plans /\ k.next \in DOMAIN k.plan.items /\ k.result = "none"
  BY <1>1 DEF IInv, OInv, Arrived, InStep
<1>3. PICK n \in Nat : n = Len(k.plan.items) /\ DOMAIN k.plan.items = 1..n
  BY <1>2, PlanFacts
<1>4. PICK m \in 1..n : m = k.next
  BY <1>2, <1>3
<1> SUFFICES ASSUME k.alone, call'[c].result = "reconciled", NEW i \in 1..n
             PROVE  where[From(k, i)] = None /\ where[To(k, i)] # None
  BY <1>1, <1>2, <1>3 DEF Sure, From, To
<1>5. ~ Throw(c)
  <2>1. Throw(c) => Return(c, "thrown") /\ "thrown" \in Answers
    BY <1>1, <1>2 DEF Throw, Answers
  <2> QED
    BY <1>2, <2>1, ReturnIsOver DEF Over
<1>6. where[To(k, m)] # None
  BY <1>1, <1>4, <1>5 DEF Arrived, Exists, Item, To
<1>7. m = n
  <2> SUFFICES ASSUME m # n PROVE FALSE
    OBVIOUS
  <2>1. Step(c, "sourceGone", m + 1) /\ m + 1 \in Int /\ "sourceGone" \in Stages
    BY <1>1, <1>3, <1>4, <1>5 DEF Arrived, LastItem, Stages
  <2>2. call'[c].result = "none"
    BY <1>1, <1>2, <2>1, StepTurns DEF Turns
  <2> QED
    BY <2>2
<1>8. CASE i = m
  BY <1>2, <1>3, <1>4, <1>6, <1>8 DEF Observed, Observing
<1>9. CASE i < m
  BY <1>2, <1>3, <1>4, <1>9 DEF Observed, Observing
<1> QED
  BY <1>7, <1>8, <1>9

\* No other step resolves a reconciliation.
LEMMA StepsAreSure ==
  ASSUME IInv, OInv, [Next]_vars, NEW c \in Callers
  PROVE  UNCHANGED vars \/ Sure(c)
<1> SUFFICES ASSUME Next, Active(c), call'[c].result = "reconciled" PROVE Sure(c)
  BY DEF Sure
<1>1. Typed /\ call[c].result = "none"
  BY DEF IInv, InStep, Active
<1>2. PICK k \in Calls : k = call[c]
  BY <1>1 DEF Typed
<1>3. call'[c] # call[c]
  BY <1>1
<1>4. ASSUME NEW d \in Callers, NEW plan \in Plans, Execute(d, plan) \/ Reconcile(d, plan)
      PROVE  FALSE
  <2>1. d # c
    BY <1>4 DEF Execute, Reconcile
  <2>2. PICK stage \in {"inspect", "sourceGone"} : Begin(d, plan, stage)
    BY <1>1, <1>3, <1>4, <2>1 DEF Execute, Reconcile, Typed
  <2> DEFINE left == [k EXCEPT !.alone = FALSE]
  <2>3. left.result = k.result
    BY DEF Calls
  <2>4. call'[c] = left
    BY <1>2, <1>3, <2>1, <2>2 DEF Begin
  <2> HIDE DEF left
  <2> QED
    BY <1>1, <1>2, <2>3, <2>4
<1>5. ASSUME NEW d \in Callers,
             Inspect(d) \/ CheckDestination(d) \/ FailOperation(d) \/ FailUndo(d) \/ SourceGone(d)
      PROVE  FALSE
  <2>1. Quiet(d)
    BY <1>5, QuietSteps
  <2>2. d = c
    BY <1>3, <2>1 DEF Quiet, Over, Turns
  <2>3. PICK n \in Nat : n = Len(k.plan.items) /\ DOMAIN k.plan.items = 1..n
    BY <1>2, PlanFacts DEF IInv, InStep, Active
  <2>4. k.next \in Int
    BY <1>2, <2>3 DEF IInv, InStep, Active
  <2>5. CASE FailUndo(c)
    <3>0. Idle \in Calls
      BY DEF Idle, Calls, Stages, Answers
    <3>1. PICK idle \in Calls : idle = Idle
      BY <3>0
    <3>2. [[idle EXCEPT !.stuck = TRUE] EXCEPT !.result = "thrown"].result = "thrown"
      BY DEF Calls
    <3>3. [[k EXCEPT !.stuck = TRUE] EXCEPT !.next = k.next - 1].result = k.result
      BY DEF Calls
    <3> QED
      BY <1>1, <1>2, <2>5, <3>1, <3>2, <3>3 DEF FailUndo, Typed
  <2>6. CASE \E stage \in Stages, next \in Int : Step(c, stage, next)
    BY <1>1, <2>6, StepTurns DEF Turns
  <2>7. CASE \E result \in {"thrown"} : Return(c, result)
    BY <1>1, <2>7, ReturnIsOver DEF Over, Answers
  <2>8. ~ FailUndo(c) =>
          \/ \E stage \in Stages, next \in Int : Step(c, stage, next)
          \/ \E result \in {"thrown"} : Return(c, result)
    BY <1>2, <1>5, <2>2, <2>4
    DEF Inspect, CheckDestination, FailOperation, SourceGone, Throw, Stages
  <2> QED
    BY <2>5, <2>6, <2>7, <2>8
<1>6. ASSUME NEW d \in Callers, Arrived(d)
      PROVE  Sure(c)
  <2>1. d = c
    BY <1>3, <1>6, QuietSteps DEF Quiet, Over, Turns
  <2> QED
    BY <1>6, <2>1, ArrivedIsSure
<1>7. ASSUME NEW d \in Callers, MoveItem(d) \/ UndoItem(d)
      PROVE  FALSE
  <2>1. d = c
    BY <1>1, <1>3, <1>7 DEF MoveItem, UndoItem, AfterUndo, Step, Return, Typed
  <2>2. PICK n \in Nat : n = Len(k.plan.items) /\ DOMAIN k.plan.items = 1..n
    BY <1>2, PlanFacts DEF IInv, InStep, Active
  <2>3. k.next \in Int
    BY <1>2, <2>2 DEF IInv, InStep, Active
  <2>4. \/ \E result \in {"thrown", "provider_confirmed"} : Return(c, result)
        \/ \E stage \in {"check", "undo"}, next \in Int : Step(c, stage, next)
    BY <1>2, <1>7, <2>1, <2>3 DEF MoveItem, UndoItem, AfterUndo
  <2>5. CASE \E result \in {"thrown", "provider_confirmed"} : Return(c, result)
    BY <1>1, <2>5, ReturnIsOver DEF Over, Answers
  <2>6. CASE \E stage \in {"check", "undo"}, next \in Int : Step(c, stage, next)
    BY <1>1, <2>6, StepTurns DEF Turns, Stages
  <2> QED
    BY <2>4, <2>5, <2>6
<1>8. ~ Restart
  BY DEF Restart, Idle
<1> QED
  BY <1>4, <1>5, <1>6, <1>7, <1>8 DEF Next

-----------------------------------------------------------------------------
(* The theorems.                                                            *)

\* The invariant holds in every reachable state.
LEMMA Kept == Spec => []IInv
<1>1. Init => IInv
  BY InitIInv
<1>2. IInv /\ [Next]_vars => IInv'
  BY NextIInv
<1> QED
  BY <1>1, <1>2, PTL DEF Spec

\* No file is lost while calls that share a path do not overlap.
THEOREM FilesSurvive == Spec => []NothingIsLost
<1>1. IInv => NothingIsLost
  BY DEF IInv, NothingIsLost
<1> QED
  BY <1>1, Kept, PTL

\* A call that was alone has moved everything when it confirms and nothing when it throws,
\* unless undoing what it had moved failed.
THEOREM MovesAreWhole == Spec => AllOrNothing
<1>1. IInv /\ [Next]_vars =>
        [\A c \in Callers :
           /\ call[c].stage \in {"move", "undo"}
           /\ call[c].alone /\ ~ call'[c].stuck
           =>
           /\ call'[c].result = "provider_confirmed" =>
                \A i \in DOMAIN call[c].plan.items :
                  /\ where'[call[c].plan.items[i].destination] =
                       call[c].before[call[c].plan.items[i].source]
                  /\ where'[call[c].plan.items[i].source] = None
           /\ call'[c].result = "thrown" =>
                \A l \in Paths(call[c].plan) : where'[l] = call[c].before[l]]_vars
  BY StepsAreHonest DEF Honest
<1> QED
  BY <1>1, Kept, PTL DEF Spec, AllOrNothing

\* A reconciliation that was alone resolves only while every item is in its place, whatever
\* became of the receipt it was asked for.
THEOREM ReconciliationIsTrue == Spec => ReconciledIsSo
<1>1. Init => OInv
  BY DEF Init, OInv, Observed, Idle, Observing
<1>2. IInv /\ OInv /\ [Next]_vars => OInv'
  BY NextOInv
<1>3. IInv /\ OInv /\ [Next]_vars =>
        [\A c \in Callers :
           Active(c) /\ call[c].alone /\ call'[c].result = "reconciled" =>
             \A i \in DOMAIN call[c].plan.items :
               /\ where'[call[c].plan.items[i].source] = None
               /\ where'[call[c].plan.items[i].destination] # None]_vars
  BY StepsAreSure DEF Sure
<1> QED
  BY <1>1, <1>2, <1>3, Kept, PTL DEF Spec, ReconciledIsSo
=============================================================================
