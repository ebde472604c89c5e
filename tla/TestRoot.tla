----------------------------- MODULE TestRoot -----------------------------
(***************************************************************************)
(* TestRootCommander (src/src/runtime/test-root-commander.mjs) behind      *)
(* TestRootColossusGateway: the moves of one process over a directory      *)
(* tree, each file operation a step of its own, so that calls interleave   *)
(* wherever the code awaits.  Any file operation may fail; undoing one may *)
(* fail unnoticed; the process may die between any two.                    *)
(***************************************************************************)
EXTENDS Integers, Sequences, FiniteSets

CONSTANTS
  Callers,     \* calls that may be under way at a time
  Locations,   \* paths below the root
  Requests,    \* move requests: [key, items]; a key may be used for several
  None

Operations == {"move", "compensate"}

\* normalizeMoveRequest: no path is named twice in a request.
WellFormed(items) ==
  /\ items # <<>>
  /\ \A i \in DOMAIN items : items[i].source # items[i].destination
  /\ \A i, j \in DOMAIN items :
       i # j => {items[i].source, items[i].destination} \cap
                {items[j].source, items[j].destination} = {}

ASSUME RequestsAssumption ==
  /\ None \notin Locations
  /\ \A q \in Requests :
       /\ q.items \in Seq([source : Locations, destination : Locations])
       /\ WellFormed(q.items)

\* makeMovePlan and makeCompensationPlan: the way back has a key of its own.
PlanOf(q, operation) ==
  [key |-> <<q.key, operation>>, request |-> q, operation |-> operation,
   items |-> IF operation = "move" THEN q.items
             ELSE [i \in DOMAIN q.items |-> [source |-> q.items[i].destination,
                                             destination |-> q.items[i].source]]]

Plans == {PlanOf(q, operation) : q \in Requests, operation \in Operations}
Keys  == {plan.key : plan \in Plans}
Paths(plan) == {plan.items[i].source : i \in DOMAIN plan.items} \cup
               {plan.items[i].destination : i \in DOMAIN plan.items}

VARIABLES
  where,      \* the file at each path; a file is named after its first path
  call,       \* the call each caller has under way
  receipts,   \* the plan on the receipt of each key, lost with the process
  confirmed,  \* plans the running process has given a receipt for
  reconciled, \* plans that were reconciled
  raced       \* whether calls that share a path have overlapped

vars == <<where, call, receipts, confirmed, reconciled, raced>>

Idle == [stage |-> "idle", plan |-> None, next |-> 0, before |-> None,
         alone |-> TRUE, stuck |-> FALSE, result |-> "none"]

Active(c) == call[c].stage # "idle"
Item(c) == call[c].plan.items[call[c].next]
LastItem(c) == call[c].next = Len(call[c].plan.items)

Exists(path) == where[path] # None

\* rename(2): a file already at the new path is replaced.
Rename(from, to) == where' = [where EXCEPT ![to] = where[from], ![from] = None]

Step(c, stage, next) ==
  call' = [call EXCEPT ![c].stage = stage, ![c].next = next]

Return(c, result) ==
  call' = [call EXCEPT ![c] = [Idle EXCEPT !.stuck = call[c].stuck, !.result = result]]

\* A mutant of Throw: what was moved stays where it is.
ThrowAtOnce(c) == Return(c, "thrown")

\* The catch of execute: what was moved is moved back, the last item first.
Throw(c) ==
  IF call[c].stage \in {"check", "move"} /\ call[c].next > 1
    THEN Step(c, "undo", call[c].next - 1)
    ELSE Return(c, "thrown")

Unchanged == UNCHANGED <<receipts, confirmed, reconciled, raced>>

----------------------------------------------------------------------------
(* execute and compensate.                                                 *)

Contenders(plan) == {d \in Callers : Active(d) /\ Paths(call[d].plan) \cap Paths(plan) # {}}

Begin(c, plan, stage) ==
  call' = [d \in Callers |->
    IF d = c THEN [stage |-> stage, plan |-> plan, next |-> 1, before |-> where,
                   alone |-> Contenders(plan) = {}, stuck |-> FALSE, result |-> "none"]
    ELSE IF d \in Contenders(plan) THEN [call[d] EXCEPT !.alone = FALSE] ELSE call[d]]

Races(plan) == raced' = (raced \/ Contenders(plan) # {})

HasReceipt(plan) == receipts[plan.key] # None

\* assertIdempotencySubject: a receipt answers for the plan it was given for.
SameSubject(plan) == receipts[plan.key] = plan

\* Only a reconciled move is compensated.  A receipt is looked for once, when the
\* call begins, and nothing marks the key until the files have been moved: calls of
\* one key, with one payload or with several, may be under way together.
Execute(c, plan) ==
  /\ ~ Active(c)
  /\ plan.operation = "compensate" => PlanOf(plan.request, "move") \in reconciled
  /\ IF HasReceipt(plan)
       THEN /\ call' = [call EXCEPT ![c] = [Idle EXCEPT !.result =
                          IF SameSubject(plan) THEN "replayed" ELSE "thrown"]]
            /\ UNCHANGED raced
       ELSE Begin(c, plan, "inspect") /\ Races(plan)
  /\ UNCHANGED <<where, receipts, confirmed, reconciled>>

Inspect(c) ==
  /\ call[c].stage = "inspect"
  /\ IF ~ Exists(Item(c).source) THEN Throw(c)
     ELSE IF LastItem(c) THEN Step(c, "check", 1)
     ELSE Step(c, "inspect", call[c].next + 1)
  /\ UNCHANGED where /\ Unchanged

\* A mutant of Occupied: stat(destination) is left out.
NeverOccupied(path) == FALSE

Occupied(path) == Exists(path)

CheckDestination(c) ==
  /\ call[c].stage = "check"
  /\ IF Occupied(Item(c).destination) THEN Throw(c) ELSE Step(c, "move", call[c].next)
  /\ UNCHANGED where /\ Unchanged

\* The file is renamed one operation after its destination was found free.
MoveItem(c) ==
  /\ call[c].stage = "move"
  /\ Exists(Item(c).source)
  /\ Rename(Item(c).source, Item(c).destination)
  /\ IF LastItem(c)
       THEN /\ receipts' = [receipts EXCEPT ![call[c].plan.key] = call[c].plan]
            /\ confirmed' = confirmed \cup {call[c].plan}
            /\ Return(c, "provider_confirmed")
       ELSE /\ Step(c, "check", call[c].next + 1)
            /\ UNCHANGED <<receipts, confirmed>>
  /\ UNCHANGED <<reconciled, raced>>

\* A file operation fails: the source is gone, the disk is full, a path is a
\* symbolic link, ...
FailOperation(c) ==
  /\ call[c].stage \in {"inspect", "check", "move"}
  /\ Throw(c)
  /\ UNCHANGED where /\ Unchanged

AfterUndo(c) ==
  IF call[c].next = 1 THEN Return(c, "thrown") ELSE Step(c, "undo", call[c].next - 1)

UndoItem(c) ==
  /\ call[c].stage = "undo"
  /\ Exists(Item(c).destination)
  /\ Rename(Item(c).destination, Item(c).source)
  /\ AfterUndo(c)
  /\ Unchanged

\* Its failure is swallowed: .catch(() => {}).
FailUndo(c) ==
  /\ call[c].stage = "undo"
  /\ call' = [call EXCEPT ![c] =
       IF call[c].next = 1 THEN [Idle EXCEPT !.stuck = TRUE, !.result = "thrown"]
       ELSE [call[c] EXCEPT !.stuck = TRUE, !.next = @ - 1]]
  /\ UNCHANGED where /\ Unchanged

----------------------------------------------------------------------------
(* reconcile, which the gateway asks for what was confirmed to it, now or   *)
(* some time ago: every source is gone and every destination there, one     *)
(* after the other.  What the receipt stood for may have been undone since. *)

Reconcile(c, plan) ==
  /\ ~ Active(c)
  /\ plan \in confirmed
  /\ Begin(c, plan, "sourceGone") /\ Races(plan)
  /\ UNCHANGED <<where, receipts, confirmed, reconciled>>

SourceGone(c) ==
  /\ call[c].stage = "sourceGone"
  /\ IF Exists(Item(c).source) THEN Throw(c) ELSE Step(c, "arrived", call[c].next)
  /\ UNCHANGED where /\ Unchanged

\* A mutant of Arrived: the first item that is in its place is enough.
ArrivedAtOnce(c) ==
  /\ call[c].stage = "arrived"
  /\ IF ~ Exists(Item(c).destination) THEN Throw(c) /\ UNCHANGED reconciled
     ELSE reconciled' = reconciled \cup {call[c].plan} /\ Return(c, "reconciled")
  /\ UNCHANGED <<where, receipts, confirmed, raced>>

Arrived(c) ==
  /\ call[c].stage = "arrived"
  /\ IF ~ Exists(Item(c).destination) THEN Throw(c) /\ UNCHANGED reconciled
     ELSE IF LastItem(c) THEN /\ reconciled' = reconciled \cup {call[c].plan}
                              /\ Return(c, "reconciled")
     ELSE Step(c, "sourceGone", call[c].next + 1) /\ UNCHANGED reconciled
  /\ UNCHANGED <<where, receipts, confirmed, raced>>

\* The process dies and comes back without its receipts.
Restart ==
  /\ call' = [c \in Callers |-> Idle]
  /\ receipts' = [k \in Keys |-> None]
  /\ confirmed' = {}
  /\ UNCHANGED <<where, reconciled, raced>>

Init ==
  /\ where = [l \in Locations |->
                IF \E q \in Requests : \E i \in DOMAIN q.items : q.items[i].source = l
                THEN l ELSE None]
  /\ call = [c \in Callers |-> Idle]
  /\ receipts = [k \in Keys |-> None]
  /\ confirmed = {} /\ reconciled = {}
  /\ raced = FALSE

Next ==
  \/ \E c \in Callers :
       \/ \E plan \in Plans : Execute(c, plan) \/ Reconcile(c, plan)
       \/ Inspect(c) \/ CheckDestination(c) \/ MoveItem(c)
       \/ FailOperation(c) \/ UndoItem(c) \/ FailUndo(c)
       \/ SourceGone(c) \/ Arrived(c)
  \/ Restart

Spec == Init /\ [][Next]_vars

----------------------------------------------------------------------------
Files == {l \in Locations : \E q \in Requests : \E i \in DOMAIN q.items : q.items[i].source = l}

\* NothingIsLost: as long as calls that share a path do not overlap, every
\* file is at some path: whatever failed or was interrupted, and whatever
\* other plan wanted the same destination before, no rename, be it a move or a
\* rollback, replaces a file.
NothingIsLost ==
  raced \/ \A f \in Files : \E l \in Locations : where[l] = f

\* AllOrNothing: a call that shared no path with another, and whose rollback
\* did not fail, has moved all its items when it confirms and has every file
\* back in its place when it throws.
AllOrNothing ==
  [][\A c \in Callers :
       /\ call[c].stage \in {"move", "undo"}
       /\ call[c].alone /\ ~ call'[c].stuck
       =>
       /\ call'[c].result = "provider_confirmed" =>
            \A i \in DOMAIN call[c].plan.items :
              /\ where'[call[c].plan.items[i].destination] =
                   call[c].before[call[c].plan.items[i].source]
              /\ where'[call[c].plan.items[i].source] = None
       /\ call'[c].result = "thrown" =>
            \A l \in Paths(call[c].plan) : where'[l] = call[c].before[l]]_vars

\* ReconciledIsSo: a reconciliation that shared no path with another call resolves
\* only if at that moment every item of the plan is at its destination and none at
\* its source: never on the strength of a receipt whose move has been undone since,
\* wholly or, by a compensation that failed and could not roll back, in part.
ReconciledIsSo ==
  [][\A c \in Callers :
       Active(c) /\ call[c].alone /\ call'[c].result = "reconciled" =>
         \A i \in DOMAIN call[c].plan.items :
           /\ where'[call[c].plan.items[i].source] = None
           /\ where'[call[c].plan.items[i].destination] # None]_vars
=============================================================================
