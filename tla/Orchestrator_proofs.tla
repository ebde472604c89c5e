------------------------ MODULE Orchestrator_proofs ------------------------
(***************************************************************************)
(* Proofs about Orchestrator for any number of calls, requests and keys.   *)
(* A claim has at most one owner: the call that created its file and has   *)
(* not finished with it.  The owner alone can reach the provider, and as   *)
(* long as it has not, nothing has been sent under its key; so giving the  *)
(* claim back is safe, and a key that was used never loses its claim.      *)
(***************************************************************************)
EXTENDS Orchestrator, TLAPS

\* The stages in which a call works under a claim of its own.
Holding == {"approve", "dispatch", "gateway", "attempt", "confirm", "reconcile", "observe",
            "settle", "record", "complete", "rename", "release", "unlink"}
\* The stages a call may be in once it has reached the provider.
Later == {"gateway", "attempt", "confirm", "reconcile", "observe", "settle", "record",
          "complete", "rename", "caught", "mark", "report", "done", "failed"}

CallInOrder(c) ==
  /\ at[c] \in Holding => fresh[c]
  /\ at[c] # "idle" => request[c] \in Requests
  /\ fresh[c] => at[c] # "idle"
  /\ reached[c] => boundary[c] /\ at[c] \in Later
  /\ at[c] = "gateway" => boundary[c]
  /\ at[c] \in {"release", "unlink"} => ~ boundary[c]

Owns(c) == fresh[c] \/ at[c] = "write"

OwnersHold ==
  \A c \in Calls :
    /\ fresh[c] => /\ claims[Key(c)].state = "claimed" /\ claims[Key(c)].plan = Plan(c)
                   /\ deliveries[Key(c)] = IF reached[c] THEN 1 ELSE 0
    /\ at[c] = "write" => claims[Key(c)].state = "torn"

OwnersDiffer ==
  \A c, d \in Calls : c # d /\ Owns(c) /\ Owns(d) => Key(c) # Key(d)

OpenKeysAreUnused ==
  \A k \in Keys :
    /\ deliveries[k] <= 1
    /\ claims[k].state \in {"absent", "torn"} => deliveries[k] = 0

IInv ==
  /\ TypeOK
  /\ \A c \in Calls : CallInOrder(c)
  /\ OwnersHold
  /\ OwnersDiffer
  /\ OpenKeysAreUnused

-----------------------------------------------------------------------------
\* A request names a key, a plan and a job.
LEMMA RequestFacts ==
  ASSUME NEW r \in Requests
  PROVE  r.key \in Keys /\ r.plan \in Plans /\ r.job \in Jobs
BY RequestsAssumption DEF Requests

\* Before any call nothing is claimed and nothing was sent.
LEMMA InitIInv == Init => IInv
<1> SUFFICES ASSUME Init PROVE IInv
  OBVIOUS
<1>1. TypeOK
  <2>1. \A k \in Keys : Absent \in Claims
    BY DEF Absent, Claims, ClaimStates
  <2> QED
    BY <2>1 DEF Init, ClaimsInit, StoreInit, TypeOK, ClaimsTypeOK, StoreTypeOK, States, Stages,
                Resting
<1>2. \A c \in Calls : CallInOrder(c)
  BY DEF Init, CallInOrder, Holding
<1>3. OwnersHold /\ OwnersDiffer /\ OpenKeysAreUnused
  BY DEF Init, OwnersHold, OwnersDiffer, Owns, OpenKeysAreUnused
<1> QED
  BY <1>1, <1>2, <1>3 DEF IInv

\* A step of one call leaves the locals of the others alone.
LEMMA OthersStand ==
  ASSUME TypeOK, NEW c \in Calls, CallNext(c), NEW d \in Calls \ {c}
  PROVE  /\ at'[d] = at[d] /\ request'[d] = request[d] /\ fresh'[d] = fresh[d]
         /\ boundary'[d] = boundary[d] /\ reached'[d] = reached[d] /\ job'[d] = job[d]
<1> USE DEF TypeOK
<1>1. CASE (\E m \in Moves : Move(c, m)) \/ Compensate(c) \/ Crash(c)
  BY <1>1 DEF Move, Compensate, Crash, Enter, Goto
<1>2. CASE \/ Advance(c) \/ Throw(c) \/ StoreFails(c)
           \/ \E answer \in {"bound", "unbound"} : Decide(c, answer)
  BY <1>2 DEF Advance, Throw, StoreFails, Decide, Goto
<1>3. CASE Claim(c) \/ Write(c) \/ Lookup(c) \/ ReachProvider(c) \/ Receipt(c)
           \/ RefusedBeforeProvider(c)
  BY <1>3 DEF Claim, Write, Lookup, ReachProvider, Receipt, RefusedBeforeProvider, Goto
<1>4. CASE Observe(c) \/ RecordOutcome(c) \/ Complete(c) \/ Rename(c)
  BY <1>4 DEF Observe, RecordOutcome, Complete, Rename, Goto
<1>5. CASE Catch(c) \/ Release(c) \/ Unlink(c) \/ Mark(c) \/ Report(c)
  BY <1>5 DEF Catch, Release, Unlink, Mark, Report, Goto
<1> QED
  BY <1>1, <1>2, <1>3, <1>4, <1>5 DEF CallNext, Step

-----------------------------------------------------------------------------
(* Types.                                                                   *)

\* The stages and states the tables of the happy path lead to exist.
LEMMA Stage ==
  /\ \A s \in Advancing : Target[s] \in States /\ After[s] \in Stages
  /\ Resting \subseteq Stages
  /\ {"approval", "claim", "write", "lookup", "gateway", "observe", "record", "complete",
      "rename", "caught", "release", "unlink", "mark", "report"} \subseteq Stages
  /\ {"normalize", "recover", "stale", "approve", "attempt", "settle"} \subseteq Stages
BY DEF Advancing, Target, After, States, Stages, Resting

\* One call or one file changed at a time keeps the functions typed.
LEMMA SetsTyped ==
  ASSUME TypeOK, NEW c \in Calls
  PROVE  /\ \A s \in Stages : [at EXCEPT ![c] = s] \in [Calls -> Stages]
         /\ \A s \in States : [job EXCEPT ![c] = s] \in [Calls -> States]
         /\ \A b \in BOOLEAN : /\ [fresh EXCEPT ![c] = b] \in [Calls -> BOOLEAN]
                               /\ [boundary EXCEPT ![c] = b] \in [Calls -> BOOLEAN]
                               /\ [reached EXCEPT ![c] = b] \in [Calls -> BOOLEAN]
         /\ \A k \in Keys, f \in Claims : [claims EXCEPT ![k] = f] \in [Keys -> Claims]
BY DEF TypeOK, ClaimsTypeOK

\* Every step of a call keeps claims, jobs, audit and calls well typed.
LEMMA NextTypeOK ==
  ASSUME TypeOK, NEW c \in Calls, CallInOrder(c), CallNext(c)
  PROVE  TypeOK'
<1>1. at' \in [Calls -> Stages]
  <2>1. CASE UNCHANGED at
    BY <2>1 DEF TypeOK
  <2>2. CASE Advance(c)
    BY <2>2, Stage, SetsTyped DEF Advance, Goto
  <2>3. CASE (\E m \in Moves : Move(c, m)) \/ Compensate(c) \/ Crash(c)
    BY <2>3, Stage, SetsTyped DEF Move, Compensate, Crash, Enter, Goto, Resting
  <2>4. CASE Throw(c) \/ StoreFails(c) \/ (\E answer \in {"bound", "unbound"} : Decide(c, answer))
             \/ Claim(c) \/ Write(c) \/ Lookup(c)
    BY <2>4, Stage, SetsTyped DEF Throw, StoreFails, Decide, Claim, Write, Lookup, Goto
  <2>5. CASE Receipt(c) \/ RefusedBeforeProvider(c) \/ Observe(c) \/ RecordOutcome(c)
             \/ Complete(c) \/ Rename(c)
    BY <2>5, Stage, SetsTyped
    DEF Receipt, RefusedBeforeProvider, Observe, RecordOutcome, Complete, Rename, Goto, Resting
  <2>6. CASE Catch(c) \/ Release(c) \/ Unlink(c) \/ Mark(c) \/ Report(c)
    BY <2>6, Stage, SetsTyped DEF Catch, Release, Unlink, Mark, Report, Goto, Resting
  <2> QED
    BY <2>1, <2>2, <2>3, <2>4, <2>5, <2>6 DEF CallNext, Step, ReachProvider
<1>2. request' \in [Calls -> Requests \cup {Null}]
  <2>1. CASE UNCHANGED request
    BY <2>1 DEF TypeOK
  <2>2. ASSUME NEW r \in Requests \cup {Null}, request' = [request EXCEPT ![c] = r]
        PROVE  request' \in [Calls -> Requests \cup {Null}]
    BY <2>2 DEF TypeOK
  <2>3. CASE (\E m \in Moves : Move(c, m)) \/ Compensate(c) \/ Crash(c)
    BY <2>2, <2>3 DEF Move, Compensate, Results, Crash, Enter, Requests
  <2> QED
    BY <2>1, <2>3
    DEF CallNext, Step, Advance, Throw, StoreFails, Decide, Claim, Write, Lookup, ReachProvider,
        Receipt, RefusedBeforeProvider, Observe, RecordOutcome, Complete, Rename, Catch, Release,
        Unlink, Mark, Report
<1>3. fresh' \in [Calls -> BOOLEAN] /\ boundary' \in [Calls -> BOOLEAN]
      /\ reached' \in [Calls -> BOOLEAN]
  <2>1. CASE UNCHANGED <<fresh, boundary, reached>>
    BY <2>1 DEF TypeOK
  <2>2. CASE (\E m \in Moves : Move(c, m)) \/ Compensate(c) \/ Crash(c)
    BY <2>2, SetsTyped DEF Move, Compensate, Crash, Enter, TypeOK
  <2>3. CASE Advance(c) \/ Write(c) \/ ReachProvider(c) \/ RefusedBeforeProvider(c)
    BY <2>3, SetsTyped DEF Advance, Write, ReachProvider, RefusedBeforeProvider, TypeOK
  <2>4. CASE Rename(c) \/ Unlink(c)
    BY <2>4, SetsTyped DEF Rename, Unlink, TypeOK
  <2> QED
    BY <2>1, <2>2, <2>3, <2>4
    DEF CallNext, Step, Throw, StoreFails, Decide, Claim, Lookup, Receipt, Observe,
        RecordOutcome, Complete, Catch, Release, Mark, Report
<1>4. verdict' \in [Calls -> {"none", "bound", "unbound"}]
  BY DEF TypeOK, CallNext, Step, Move, Compensate, Crash, Enter, Advance, Throw, StoreFails,
         Decide, Claim, Write, Lookup, ReachProvider, Receipt, RefusedBeforeProvider, Observe,
         RecordOutcome, Complete, Rename, Catch, Release, Unlink, Mark, Report
<1>5. deliveries' \in [Keys -> Nat]
  <2>1. CASE UNCHANGED deliveries
    BY <2>1 DEF TypeOK
  <2>2. CASE ReachProvider(c)
    <3>1. Key(c) \in Keys
      BY <2>2, RequestFacts DEF ReachProvider, CallInOrder, Key
    <3> QED
      BY <2>2, <3>1 DEF ReachProvider, TypeOK
  <2> QED
    BY <2>1, <2>2
    DEF CallNext, Step, Move, Compensate, Crash, Advance, Throw, StoreFails,
        Decide, Claim, Write, Lookup, Receipt, RefusedBeforeProvider, Observe,
        RecordOutcome, Complete, Rename, Catch, Release, Unlink, Mark, Report
<1>6. job' \in [Calls -> States]
  <2>1. CASE UNCHANGED job
    BY <2>1 DEF TypeOK
  <2>2. CASE (\E m \in Moves : Move(c, m)) \/ Compensate(c) \/ Crash(c)
    <3>1. "received" \in States /\ "reconciled" \in States
      BY DEF States
    <3> QED
      BY <2>2, <3>1, SetsTyped DEF Move, Compensate, Crash, Enter
  <2>3. CASE Advance(c)
    BY <2>3, Stage, SetsTyped DEF Advance
  <2>4. CASE Mark(c)
    <3>1. FailureState(c) \in States
      BY DEF FailureState, States, TypeOK
    <3> QED
      BY <2>1, <2>4, <3>1, SetsTyped DEF Mark
  <2> QED
    BY <2>1, <2>2, <2>3, <2>4
    DEF CallNext, Step, Throw, StoreFails, Decide, Claim, Write, Lookup, ReachProvider, Receipt,
        RefusedBeforeProvider, Observe, RecordOutcome, Complete, Rename, Catch, Release, Unlink,
        Report
<1>7. claims' \in [Keys -> Claims]
  <2>1. CASE UNCHANGED claims
    BY <2>1 DEF TypeOK, ClaimsTypeOK
  <2>2. Torn \in Claims /\ Absent \in Claims
    BY DEF Torn, Absent, Claims, ClaimStates
  <2>3. CASE Claim(c)
    <3>1. Key(c) \in Keys
      BY <2>3, RequestFacts DEF Claim, CallInOrder, Key
    <3> QED
      BY <2>1, <2>2, <2>3, <3>1, SetsTyped DEF Claim, CreateClaim, Put
  <2>4. CASE Write(c)
    <3>1. Key(c) \in Keys /\ Plan(c) \in Plans
      BY <2>4, RequestFacts DEF Write, CallInOrder, Key, Plan
    <3>2. [state |-> "claimed", plan |-> Plan(c)] \in Claims
      BY <3>1 DEF Claims, ClaimStates
    <3> QED
      BY <2>4, <3>1, <3>2, SetsTyped DEF Write, WriteClaim, Put
  <2>5. CASE Rename(c)
    <3>1. Key(c) \in Keys /\ Plan(c) \in Plans
      BY <2>5, RequestFacts DEF Rename, CallInOrder, Key, Plan
    <3>2. [state |-> "completed", plan |-> Plan(c)] \in Claims
      BY <3>1 DEF Claims, ClaimStates
    <3> QED
      BY <2>5, <3>1, <3>2, SetsTyped DEF Rename, RenameCompleted, Put
  <2>6. CASE Unlink(c)
    <3>1. Key(c) \in Keys
      BY <2>6, RequestFacts DEF Unlink, CallInOrder, Key
    <3> QED
      BY <2>1, <2>2, <2>6, <3>1, SetsTyped DEF Unlink, UnlinkClaim, Put
  <2> QED
    BY <2>1, <2>3, <2>4, <2>5, <2>6
    DEF CallNext, Step, Move, Compensate, Crash, Advance, Throw, StoreFails, Decide, Lookup,
        ReachProvider, Receipt, RefusedBeforeProvider, Observe, RecordOutcome, Complete, Catch,
        Release, Mark, Report
<1>8. jobs' \in [Jobs -> States \cup {NoJob}] /\ audit' \subseteq AuditLines
  <2> USE DEF TypeOK, StoreTypeOK
  <2>1. CASE UNCHANGED <<jobs, audit>>
    BY <2>1
  <2>2. ASSUME NEW j \in Jobs, NEW state \in States, NEW event,
               Recorded(j, state, event) \/ RecordingFails(j, state)
        PROVE  jobs' \in [Jobs -> States \cup {NoJob}] /\ audit' \subseteq AuditLines
    BY <2>2 DEF Recorded, RecordingFails, SaveJob, AppendAudit, AuditLines
  <2>3. CASE Advance(c) \/ StoreFails(c)
    <3>1. request[c].job \in Jobs /\ job[c] \in States
      BY <2>3, RequestFacts DEF CallInOrder, Advance, StoreFails, Advancing, Target
    <3>2. at[c] \in Advancing => Target[at[c]] \in States
      BY Stage
    <3> QED
      BY <2>2, <2>3, <3>1, <3>2 DEF Advance, StoreFails
  <2>4. CASE RecordOutcome(c) \/ Report(c)
    <3>1. request[c].job \in Jobs /\ job[c] \in States
      BY <2>4, RequestFacts DEF CallInOrder, RecordOutcome, Report
    <3> QED
      BY <2>2, <2>4, <3>1 DEF RecordOutcome, Report
  <2>5. CASE Mark(c)
    <3>1. request[c].job \in Jobs /\ FailureState(c) \in States
      BY <2>5, RequestFacts DEF CallInOrder, Mark, FailureState, States
    <3> QED
      BY <2>1, <2>2, <2>5, <3>1 DEF Mark
  <2> QED
    BY <2>1, <2>3, <2>4, <2>5
    DEF CallNext, Step, Move, Compensate, Crash, Throw, Decide, Claim, Write, Lookup,
        ReachProvider, Receipt, RefusedBeforeProvider, Observe, Complete, Rename, Catch,
        Release, Unlink
<1> QED
  BY <1>1, <1>2, <1>3, <1>4, <1>5, <1>6, <1>7, <1>8 DEF TypeOK, ClaimsTypeOK, StoreTypeOK

-----------------------------------------------------------------------------
(* A call keeps its own order.                                              *)

\* Every step of a call keeps its flags in step with where it stands.
LEMMA NextInOrder ==
  ASSUME TypeOK, NEW c \in Calls, CallInOrder(c), CallNext(c)
  PROVE  CallInOrder(c)'
<1> USE DEF TypeOK
<1>0. at[c] \in Stages
  OBVIOUS
<1>1. CASE (\E m \in Moves : Move(c, m)) \/ Compensate(c)
  <2>1. PICK r \in Requests, stage \in {"normalize", "recover"},
             state \in {"received", "reconciled"} : Enter(c, stage, r, state)
    BY <1>1 DEF Move, Compensate, Results, Requests
  <2> QED
    BY <2>1 DEF Enter, Goto, CallInOrder, Holding
<1>2. CASE Crash(c)
  BY <1>2 DEF Crash, Enter, Goto, CallInOrder, Holding
<1>3. CASE Advance(c)
  <2>1. /\ at'[c] = After[at[c]] /\ boundary'[c] = (boundary[c] \/ at[c] = "dispatch")
        /\ request' = request /\ fresh' = fresh /\ reached' = reached
    BY <1>3 DEF Advance, Goto
  <2>2. /\ at[c] \in Advancing
        /\ at[c] \in Advancing /\ After[at[c]] \in Holding =>
             at[c] \in Holding
        /\ at[c] \in Later => After[at[c]] \in Later
        /\ After[at[c]] = "gateway" => at[c] = "dispatch"
        /\ After[at[c]] \notin {"release", "unlink", "idle"} /\ at[c] # "idle"
    BY <1>3 DEF Advance, Advancing, Target, After, Holding, Later
  <2> QED
    BY <2>1, <2>2 DEF CallInOrder
<1>4. CASE Throw(c) \/ StoreFails(c)
  <2>1. /\ at'[c] = "caught" /\ at[c] # "idle" /\ boundary' = boundary
        /\ request' = request /\ fresh' = fresh /\ reached' = reached
    BY <1>4 DEF Throw, StoreFails, Goto, Advancing, Target
  <2> QED
    BY <2>1 DEF CallInOrder, Holding, Later
<1>5. CASE (\E answer \in {"bound", "unbound"} : Decide(c, answer)) \/ Claim(c) \/ Lookup(c)
  BY <1>5 DEF Decide, Claim, Lookup, Goto, CallInOrder, Holding, Later
<1>6. CASE Write(c) \/ ReachProvider(c) \/ Receipt(c) \/ RefusedBeforeProvider(c)
  BY <1>6 DEF Write, ReachProvider, Receipt, RefusedBeforeProvider, Goto, CallInOrder, Holding, Later
<1>7. CASE Observe(c) \/ RecordOutcome(c) \/ Complete(c) \/ Rename(c)
  BY <1>7 DEF Observe, RecordOutcome, Complete, Rename, Goto, CallInOrder, Holding, Later
<1>8. CASE Catch(c) \/ Release(c) \/ Unlink(c) \/ Mark(c) \/ Report(c)
  BY <1>8 DEF Catch, Release, Unlink, Mark, Report, Goto, CallInOrder, Holding, Later
<1> QED
  BY <1>1, <1>2, <1>3, <1>4, <1>5, <1>6, <1>7, <1>8 DEF CallNext, Step

-----------------------------------------------------------------------------
(* What a step does to the claim of its key.                                *)

\* Every step that keeps its request is one of these.
Quiet(c)   == UNCHANGED <<claims, deliveries, fresh, reached>> /\ at'[c] # "write"
Creates(c) == /\ claims[Key(c)].state = "absent"
              /\ claims' = [claims EXCEPT ![Key(c)] = Torn] /\ at'[c] = "write"
              /\ UNCHANGED <<deliveries, fresh, reached>>
Writes(c)  == /\ at[c] = "write" /\ at'[c] # "write" /\ fresh'[c]
              /\ claims' = [claims EXCEPT ![Key(c)] = [state |-> "claimed", plan |-> Plan(c)]]
              /\ UNCHANGED <<deliveries, reached>>
Reaches(c) == /\ fresh[c] /\ ~ reached[c] /\ reached'[c] /\ at'[c] # "write"
              /\ deliveries' = [deliveries EXCEPT ![Key(c)] = @ + 1]
              /\ UNCHANGED <<claims, fresh>>
Finishes(c) == /\ fresh[c] /\ ~ fresh'[c] /\ at'[c] # "write"
               /\ \/ claims' = [claims EXCEPT ![Key(c)] =
                                  [state |-> "completed", plan |-> Plan(c)]] /\ at[c] = "rename"
                  \/ claims' = [claims EXCEPT ![Key(c)] = Absent] /\ ~ reached[c]
               /\ UNCHANGED <<deliveries, reached>>

\* A step of a call forgets what it holds, or leaves claims and entries alone,
\* or is of a kind above.
LEMMA StepKinds ==
  ASSUME TypeOK, NEW c \in Calls, CallInOrder(c), CallNext(c)
  PROVE  \/ /\ ~ fresh'[c] /\ ~ reached'[c] /\ at'[c] # "write"
            /\ UNCHANGED <<claims, deliveries>>
         \/ /\ request' = request /\ at[c] # "idle"
            /\ Quiet(c) \/ Creates(c) \/ Writes(c) \/ Reaches(c) \/ Finishes(c)
<1> USE DEF TypeOK
<1>1. CASE (\E m \in Moves : Move(c, m)) \/ Compensate(c) \/ Crash(c)
  BY <1>1 DEF Move, Compensate, Crash, Enter, Goto
<1>2. CASE Advance(c)
  BY <1>2 DEF Advance, Goto, Advancing, Target, After, Quiet
<1>3. CASE Throw(c) \/ StoreFails(c) \/ (\E answer \in {"bound", "unbound"} : Decide(c, answer))
  BY <1>3 DEF Throw, StoreFails, Decide, Goto, Quiet, Advancing, Target
<1>4. CASE Claim(c)
  BY <1>4 DEF Claim, CreateClaim, Put, Goto, Quiet, Creates
<1>5. CASE Write(c)
  BY <1>5 DEF Write, WriteClaim, Put, Goto, Writes
<1>6. CASE ReachProvider(c)
  BY <1>6 DEF ReachProvider, Reaches, CallInOrder, Holding
<1>7. CASE Lookup(c) \/ Receipt(c) \/ RefusedBeforeProvider(c) \/ Observe(c)
  BY <1>7 DEF Lookup, Receipt, RefusedBeforeProvider, Observe, Goto, Quiet
<1>8. CASE RecordOutcome(c) \/ Complete(c) \/ Catch(c) \/ Release(c)
  BY <1>8 DEF RecordOutcome, Complete, Catch, Release, Goto, Quiet
<1>9. CASE Rename(c)
  BY <1>9 DEF Rename, RenameCompleted, Put, Goto, Finishes, CallInOrder, Holding
<1>10. CASE Unlink(c)
  BY <1>10 DEF Unlink, UnlinkClaim, Put, Goto, Finishes, Quiet, CallInOrder, Holding
<1>11. CASE Mark(c) \/ Report(c)
  BY <1>11 DEF Mark, Report, Goto, Quiet
<1> QED
  BY <1>1, <1>2, <1>3, <1>4, <1>5, <1>6, <1>7, <1>8, <1>9, <1>10, <1>11 DEF CallNext, Step

\* Every step keeps each claim with one owner, and a key without a claim unused.
LEMMA NextOwners ==
  ASSUME IInv, NEW c \in Calls, CallNext(c)
  PROVE  OwnersHold' /\ OwnersDiffer' /\ OpenKeysAreUnused'
<1> USE DEF IInv
<1>0. /\ claims \in [Keys -> Claims] /\ deliveries \in [Keys -> Nat]
      /\ fresh \in [Calls -> BOOLEAN] /\ reached \in [Calls -> BOOLEAN]
  BY DEF TypeOK, ClaimsTypeOK
<1>1. \A d \in Calls : at[d] # "idle" => Key(d) \in Keys /\ Plan(d) \in Plans
  BY RequestFacts DEF CallInOrder, Key, Plan
<1>2. \A d \in Calls : Owns(d) => at[d] # "idle"
  BY DEF Owns, CallInOrder
\* The others own what they owned.
<1>3. \A d \in Calls \ {c} :
        /\ Owns(d)' <=> Owns(d)
        /\ Key(d)' = Key(d) /\ Plan(d)' = Plan(d) /\ fresh'[d] = fresh[d]
        /\ reached'[d] = reached[d] /\ at'[d] = at[d]
  BY OthersStand DEF Owns, Key, Plan
<1>4. CASE /\ ~ fresh'[c] /\ ~ reached'[c] /\ at'[c] # "write"
           /\ UNCHANGED <<claims, deliveries>>
  <2>1. ~ Owns(c)'
    BY <1>4 DEF Owns
  <2>2. OwnersHold'
    BY <1>3, <1>4 DEF OwnersHold
  <2>3. OwnersDiffer'
    BY <1>3, <2>1 DEF OwnersDiffer
  <2> QED
    BY <1>4, <2>2, <2>3 DEF OpenKeysAreUnused
<1>5. ASSUME request' = request, at[c] # "idle",
             Quiet(c) \/ Creates(c) \/ Writes(c) \/ Reaches(c) \/ Finishes(c)
      PROVE  OwnersHold' /\ OwnersDiffer' /\ OpenKeysAreUnused'
  <2> DEFINE k == Key(c)
  <2>1. k \in Keys /\ Plan(c) \in Plans /\ Key(c)' = k /\ Plan(c)' = Plan(c)
    BY <1>1, <1>5 DEF Key, Plan
  <2>2. ASSUME Owns(c) PROVE \A d \in Calls \ {c} : Owns(d) => Key(d) # k
    BY <2>2 DEF OwnersDiffer
  <2>3. CASE Quiet(c)
    <3>1. OwnersHold'
      BY <1>3, <2>1, <2>3 DEF OwnersHold, Quiet
    <3>2. Owns(c)' => Owns(c)
      BY <2>3 DEF Owns, Quiet
    <3>3. OwnersDiffer'
      BY <1>3, <2>1, <3>2 DEF OwnersDiffer
    <3> QED
      BY <2>3, <3>1, <3>3 DEF OpenKeysAreUnused, Quiet
  <2>4. CASE Creates(c)
    <3>1. \A d \in Calls : Owns(d) => Key(d) # k
      BY <2>4 DEF Owns, OwnersHold, Creates
    <3>2. ~ fresh[c]
      BY <3>1 DEF Owns
    <3>3. /\ claims'[k].state = "torn"
          /\ \A j \in Keys \ {k} : claims'[j] = claims[j]
      BY <1>0, <2>1, <2>4 DEF Creates, Torn
    <3>4. OwnersHold'
      BY <1>1, <1>2, <1>3, <2>1, <2>4, <3>1, <3>2, <3>3 DEF OwnersHold, Owns, Creates
    <3>5. OwnersDiffer'
      BY <1>3, <2>1, <3>1 DEF OwnersDiffer
    <3>6. OpenKeysAreUnused'
      BY <2>4, <3>3 DEF OpenKeysAreUnused, Creates
    <3> QED
      BY <3>4, <3>5, <3>6
  <2>5. CASE Writes(c)
    <3>1. Owns(c) /\ claims[k].state = "torn" /\ deliveries[k] = 0 /\ ~ reached[c]
      BY <2>1, <2>5 DEF Owns, OwnersHold, OpenKeysAreUnused, Writes, CallInOrder, Later
    <3>2. /\ claims'[k] = [state |-> "claimed", plan |-> Plan(c)]
          /\ \A j \in Keys \ {k} : claims'[j] = claims[j]
      BY <1>0, <2>1, <2>5 DEF Writes
    <3>3. OwnersHold'
      BY <1>1, <1>2, <1>3, <2>1, <2>2, <2>5, <3>1, <3>2 DEF OwnersHold, Owns, Writes
    <3>4. OwnersDiffer'
      BY <1>3, <2>1, <2>2, <3>1 DEF OwnersDiffer
    <3>5. OpenKeysAreUnused'
      BY <2>5, <3>2 DEF OpenKeysAreUnused, Writes
    <3> QED
      BY <3>3, <3>4, <3>5
  <2>6. CASE Reaches(c)
    <3>1. Owns(c) /\ claims[k].state = "claimed" /\ deliveries[k] = 0
      BY <2>1, <2>6 DEF Owns, OwnersHold, Reaches
    <3>2. /\ deliveries'[k] = 1
          /\ \A j \in Keys \ {k} : deliveries'[j] = deliveries[j]
      BY <1>0, <2>1, <2>6, <3>1 DEF Reaches
    <3>3. OwnersHold'
      BY <1>1, <1>2, <1>3, <2>1, <2>2, <2>6, <3>1, <3>2 DEF OwnersHold, Owns, Reaches
    <3>4. OwnersDiffer'
      BY <1>3, <2>1, <2>2, <3>1 DEF OwnersDiffer
    <3>5. OpenKeysAreUnused'
      BY <2>1, <2>6, <3>1, <3>2 DEF OpenKeysAreUnused, Reaches
    <3> QED
      BY <3>3, <3>4, <3>5
  <2>7. CASE Finishes(c)
    <3>1. Owns(c) /\ deliveries[k] = IF reached[c] THEN 1 ELSE 0
      BY <2>1, <2>7 DEF Owns, OwnersHold, Finishes
    <3>2. /\ \/ claims'[k].state = "completed"
             \/ claims'[k].state = "absent" /\ ~ reached[c]
          /\ \A j \in Keys \ {k} : claims'[j] = claims[j]
      BY <1>0, <2>1, <2>7 DEF Finishes, Absent
    <3>3. ~ Owns(c)'
      BY <2>7 DEF Owns, Finishes
    <3>4. OwnersHold'
      BY <1>1, <1>2, <1>3, <2>1, <2>2, <2>7, <3>1, <3>2, <3>3 DEF OwnersHold, Owns, Finishes
    <3>5. OwnersDiffer'
      BY <1>3, <3>3 DEF OwnersDiffer
    <3>6. OpenKeysAreUnused'
      BY <2>7, <3>1, <3>2 DEF OpenKeysAreUnused, Finishes
    <3> QED
      BY <3>4, <3>5, <3>6
  <2> QED
    BY <1>5, <2>3, <2>4, <2>5, <2>6, <2>7
<1> QED
  BY <1>4, <1>5, StepKinds

\* The invariant is inductive.
LEMMA NextIInv == IInv /\ [Next]_vars => IInv'
<1>1. ASSUME IInv, NEW c \in Calls, CallNext(c) PROVE IInv'
  <2>1. TypeOK'
    BY <1>1, NextTypeOK DEF IInv
  <2>2. CallInOrder(c)'
    BY <1>1, NextInOrder DEF IInv
  <2>3. \A d \in Calls \ {c} : CallInOrder(d)'
    BY <1>1, OthersStand DEF IInv, CallInOrder
  <2> QED
    BY <1>1, <2>1, <2>2, <2>3, NextOwners DEF IInv
<1>2. ASSUME IInv, UNCHANGED vars PROVE IInv'
  BY <1>2 DEF IInv, vars, callVars, TypeOK, ClaimsTypeOK, StoreTypeOK, CallInOrder, OwnersHold,
              OwnersDiffer, Owns, OpenKeysAreUnused, Key, Plan
<1> QED
  BY <1>1, <1>2 DEF Next

-----------------------------------------------------------------------------
(* Results.                                                                 *)

\* The invariant holds in every reachable state.
THEOREM Inductive == Spec => []IInv
BY InitIInv, NextIInv, PTL DEF Spec

\* The state of calls, claims and store is well formed throughout.
THEOREM TypeCorrect == Spec => []TypeOK
BY Inductive, PTL DEF IInv

\* However many calls compete, fail, retry, compensate and die, a mutation is
\* sent at most once per key.
THEOREM OneEntry == Spec => []OneEntryPerKey
<1>1. IInv => OneEntryPerKey
  BY DEF IInv, OpenKeysAreUnused, OneEntryPerKey
<1> QED
  BY <1>1, Inductive, PTL

\* A key that was used keeps its claim.
THEOREM EntryStaysClaimed == Spec => []NoUnclaimedEntry
<1>1. IInv => NoUnclaimedEntry
  BY DEF IInv, OpenKeysAreUnused, NoUnclaimedEntry, TypeOK, ClaimsTypeOK, Claims, ClaimStates
<1> QED
  BY <1>1, Inductive, PTL

\* A completed claim is final.
LEMMA StepKeepsCompleted ==
  IInv /\ [Next]_vars =>
    \A k \in Keys : claims[k].state = "completed" => claims'[k] = claims[k]
<1> SUFFICES ASSUME IInv, [Next]_vars, NEW k \in Keys, claims[k].state = "completed"
             PROVE  claims'[k] = claims[k]
  OBVIOUS
<1>1. CASE UNCHANGED claims
  BY <1>1
<1>2. ASSUME NEW c \in Calls, CallNext(c) PROVE claims'[k] = claims[k]
  <2>1. claims \in [Keys -> Claims] /\ TypeOK /\ CallInOrder(c)
    BY DEF IInv, TypeOK, ClaimsTypeOK
  <2>2. Owns(c) => claims[Key(c)].state \in {"claimed", "torn"}
    BY DEF IInv, OwnersHold, Owns
  <2>3. CASE Creates(c) \/ Writes(c) \/ Finishes(c)
    BY <2>1, <2>2, <2>3 DEF Creates, Writes, Finishes, Owns
  <2> QED
    BY <1>2, <2>1, <2>3, StepKinds DEF Quiet, Reaches
<1> QED
  BY <1>1, <1>2 DEF Next, vars

\* No step of any call changes a completed claim: the check before rename and
\* unlink is one operation old, but the call that passed it owns the claim.
THEOREM CompletedStand == Spec => CompletedClaimsStand
<1>1. IInv /\ [Next]_vars =>
        [\A k \in Keys : claims[k].state = "completed" => claims'[k] = claims[k]]_vars
  BY StepKeepsCompleted
<1> QED
  BY <1>1, Inductive, PTL DEF Spec, CompletedClaimsStand

-----------------------------------------------------------------------------
(* What a call has behind it.                                               *)

\* The job state that goes with each stage of the body.
InTurn(c) ==
  /\ at[c] = "normalize" => job[c] = "received"
  /\ at[c] = "recover"   => job[c] = "reconciled"
  /\ at[c] = "check"     => job[c] \in {"normalized", "recovery_required"}
  /\ at[c] = "plan"      => job[c] = "capability_checked"
  /\ at[c] = "ask"       => job[c] = "planned"
  /\ at[c] \in {"approval", "claim", "write", "lookup", "stale", "approve"} =>
       job[c] = "awaiting_approval"
  /\ at[c] = "dispatch"  => job[c] = "approved"
  /\ at[c] \in {"gateway", "attempt"} => job[c] = "dispatched"
  /\ at[c] = "confirm"   => job[c] = "attempted"
  /\ at[c] = "reconcile" => job[c] = "provider_confirmed"
  /\ at[c] \in {"observe", "settle"} => job[c] = "reconciling"

\* The stages before the provider boundary, and those a receipt leads to.
Before   == {"idle", "normalize", "recover", "check", "plan", "ask", "approval", "claim",
             "write", "lookup", "stale", "approve", "dispatch"}
Received == {"attempt", "confirm", "reconcile", "observe", "settle", "record", "complete",
             "rename"}

Line(c, event) == [job |-> request[c].job, event |-> event]

Uncertain(state) == state = "recovery_required" \/ (StoreMayFail /\ state \in RECOVERY_STATES)

InRecord(c) ==
  /\ at[c] \in Before => ~ boundary[c]
  /\ at[c] \in Received => reached[c]
  /\ boundary[c] => /\ Line(c, "dispatched") \in audit
                    /\ job[c] \in RECOVERY_STATES \cup {"recovery_required"}
  /\ at[c] \in {"complete", "rename"} => Line(c, "execution_outcome") \in audit
  /\ at[c] \in {"report", "failed"} /\ reached[c] => Uncertain(job[c])

\* A call that reached the provider holds its claim or has completed it.
InClaim(c) ==
  reached[c] /\ ~ fresh[c] =>
    SameSubject(Key(c), Plan(c)) /\ claims[Key(c)].state = "completed"

OInv ==
  /\ IInv
  /\ \A c \in Calls : InTurn(c) /\ InRecord(c) /\ InClaim(c)
  /\ CompletionIsEvidenced

\* The audit trail only grows.
LEMMA AuditGrows ==
  ASSUME NEW c \in Calls, CallNext(c)
  PROVE  audit \subseteq audit'
BY DEF CallNext, Step, Move, Compensate, Crash, Enter, Advance, Throw, StoreFails, Decide, Claim,
       Write, Lookup, ReachProvider, Receipt, RefusedBeforeProvider, Observe, RecordOutcome,
       Complete, Rename, Catch, Release, Unlink, Mark, Report, Recorded, RecordingFails, AppendAudit

\* Before any call there is nothing to have on record.
LEMMA InitOInv == Init => OInv
<1> SUFFICES ASSUME Init PROVE OInv
  OBVIOUS
<1>1. IInv
  BY InitIInv
<1>2. \A c \in Calls : InTurn(c) /\ InRecord(c) /\ InClaim(c)
  BY DEF Init, InTurn, InRecord, InClaim, Received
<1>3. CompletionIsEvidenced
  BY DEF Init, ClaimsInit, Absent, CompletionIsEvidenced
<1> QED
  BY <1>1, <1>2, <1>3 DEF OInv

\* Every step of a call leaves its job where its next stage expects it.
LEMMA NextInTurn ==
  ASSUME TypeOK, NEW c \in Calls, InTurn(c), CallNext(c)
  PROVE  InTurn(c)'
<1> USE DEF TypeOK
<1>1. CASE (\E m \in Moves : Move(c, m)) \/ Compensate(c) \/ Crash(c)
  BY <1>1 DEF Move, Compensate, Crash, Enter, Goto, InTurn
<1>2. CASE Advance(c)
  <2>1. at'[c] = After[at[c]] /\ job'[c] = Target[at[c]] /\ at[c] \in Advancing
    <3>1. Target[at[c]] \in States /\ After[at[c]] \in Stages
      BY <1>2, Stage DEF Advance
    <3> QED
      BY <1>2, <3>1 DEF Advance, Goto
  <2> QED
    BY <2>1 DEF Advancing, Target, After, InTurn
<1>3. CASE Throw(c) \/ StoreFails(c)
  BY <1>3 DEF Throw, StoreFails, Goto, InTurn
<1>4. CASE (\E answer \in {"bound", "unbound"} : Decide(c, answer)) \/ Claim(c) \/ Write(c)
           \/ Lookup(c)
  BY <1>4 DEF Decide, Claim, Write, Lookup, Goto, InTurn
<1>5. CASE ReachProvider(c) \/ Receipt(c) \/ RefusedBeforeProvider(c) \/ Observe(c)
  BY <1>5 DEF ReachProvider, Receipt, RefusedBeforeProvider, Observe, Goto, InTurn
<1>6. CASE RecordOutcome(c) \/ Complete(c) \/ Rename(c)
  BY <1>6 DEF RecordOutcome, Complete, Rename, Goto, InTurn
<1>7. CASE Catch(c) \/ Release(c) \/ Unlink(c) \/ Mark(c) \/ Report(c)
  BY <1>7 DEF Catch, Release, Unlink, Mark, Report, Goto, InTurn
<1> QED
  BY <1>1, <1>2, <1>3, <1>4, <1>5, <1>6, <1>7 DEF CallNext, Step

\* Every step of a call keeps what it has on record in step with where it stands.
LEMMA NextInRecord ==
  ASSUME TypeOK, NEW c \in Calls, CallInOrder(c), InTurn(c), InRecord(c), CallNext(c)
  PROVE  InRecord(c)'
<1> USE DEF TypeOK
<1>0. audit \subseteq audit'
  BY AuditGrows
<1>1. CASE (\E m \in Moves : Move(c, m)) \/ Compensate(c) \/ Crash(c)
  BY <1>1 DEF Move, Compensate, Crash, Enter, Goto, InRecord, Received
<1>2. CASE Advance(c)
  <2>1. /\ at'[c] = After[at[c]] /\ job'[c] = Target[at[c]] /\ at[c] \in Advancing
        /\ boundary'[c] = (boundary[c] \/ at[c] = "dispatch")
        /\ request' = request /\ reached' = reached
    <3>1. Target[at[c]] \in States /\ After[at[c]] \in Stages
      BY <1>2, Stage DEF Advance
    <3> QED
      BY <1>2, <3>1 DEF Advance, Goto
  <2>2. at[c] = "dispatch" => Line(c, "dispatched") \in audit'
    <3>1. ASSUME at[c] = "dispatch" PROVE Target[at[c]] = "dispatched"
      BY <3>1 DEF Target
    <3> QED
      BY <1>2, <3>1 DEF Advance, Recorded, AppendAudit, Audited, Line
  <2>3. /\ After[at[c]] \in Before => ~ boundary[c] /\ at[c] # "dispatch"
        /\ After[at[c]] \in Received => reached[c]
        /\ boundary[c] \/ at[c] = "dispatch" =>
             Target[at[c]] \in RECOVERY_STATES \cup {"recovery_required"}
        /\ After[at[c]] \notin {"complete", "rename", "report", "failed"}
    BY <2>1 DEF Advancing, Target, After, InRecord, Before, Received, RECOVERY_STATES
  <2> QED
    BY <1>0, <2>1, <2>2, <2>3 DEF InRecord, Line
<1>3. CASE Throw(c) \/ StoreFails(c)
  BY <1>0, <1>3 DEF Throw, StoreFails, Goto, InRecord, Line, Before, Received
<1>4. CASE (\E answer \in {"bound", "unbound"} : Decide(c, answer)) \/ Claim(c) \/ Write(c)
           \/ Lookup(c)
  BY <1>4 DEF Decide, Claim, Write, Lookup, Goto, InRecord, Line, Before, Received
<1>5. CASE ReachProvider(c) \/ Receipt(c) \/ RefusedBeforeProvider(c) \/ Observe(c)
  BY <1>5 DEF ReachProvider, Receipt, RefusedBeforeProvider, Observe, Goto, InRecord, Line,
              Before, Received
<1>6. CASE RecordOutcome(c)
  BY <1>0, <1>6 DEF RecordOutcome, Goto, InRecord, Line, Before, Received, Recorded, AppendAudit,
                    Audited
<1>7. CASE Complete(c) \/ Rename(c)
  BY <1>7 DEF Complete, Rename, Goto, InRecord, Line, Before, Received
<1>8. CASE Catch(c) \/ Release(c) \/ Unlink(c)
  BY <1>8 DEF Catch, Release, Unlink, Goto, InRecord, Line, Before, Received
<1>9. CASE Mark(c)
  <2>1. at'[c] = "report" /\ UNCHANGED <<request, boundary, reached>>
    BY <1>9 DEF Mark, Goto
  <2>2. CASE boundary[c]
    <3>1. FailureState(c) = "recovery_required"
      BY <2>2 DEF FailureState, InRecord, RECOVERY_STATES
    <3>2. \/ job'[c] = "recovery_required"
          \/ StoreMayFail /\ job' = job /\ job[c] # "recovery_required"
      BY <1>9, <3>1 DEF Mark
    <3>3. Uncertain(job[c])' /\ job'[c] \in RECOVERY_STATES \cup {"recovery_required"}
      BY <2>2, <3>2 DEF InRecord, Uncertain
    <3> QED
      BY <1>0, <2>1, <2>2, <3>3 DEF InRecord, Line, Before, Received
  <2>3. CASE ~ boundary[c]
    <3>1. ~ reached[c]
      BY <2>3 DEF CallInOrder
    <3> QED
      BY <2>1, <2>3, <3>1 DEF InRecord, Before, Received
  <2> QED
    BY <2>2, <2>3
<1>10. CASE Report(c)
  BY <1>0, <1>10 DEF Report, Goto, InRecord, Line, Before, Received, Uncertain
<1> QED
  BY <1>1, <1>2, <1>3, <1>4, <1>5, <1>6, <1>7, <1>8, <1>9, <1>10 DEF CallNext, Step

\* A call that reached the provider keeps its claim, whoever else takes a step.
LEMMA NextInClaim ==
  ASSUME IInv, IInv', NEW c \in Calls, CallNext(c), NEW d \in Calls, InClaim(d)
  PROVE  InClaim(d)'
<1> SUFFICES ASSUME reached'[d], ~ fresh'[d]
             PROVE  SameSubject(Key(d), Plan(d))' /\ claims'[Key(d)'].state = "completed"
  BY DEF InClaim
<1>0. /\ claims \in [Keys -> Claims] /\ TypeOK /\ CallInOrder(c)
      /\ reached \in [Calls -> BOOLEAN]
  BY DEF IInv, TypeOK, ClaimsTypeOK
<1>1. [Next]_vars
  BY DEF Next
<1>2. ASSUME request'[d] = request[d], reached[d], ~ fresh[d], at[d] # "idle"
      PROVE  SameSubject(Key(d), Plan(d))' /\ claims'[Key(d)'].state = "completed"
  <2>1. Key(d) \in Keys /\ claims[Key(d)].state = "completed" /\ SameSubject(Key(d), Plan(d))
    BY <1>2, RequestFacts DEF InClaim, IInv, CallInOrder, Key
  <2>2. claims'[Key(d)] = claims[Key(d)]
    BY <1>1, <2>1, StepKeepsCompleted
  <2> QED
    BY <1>2, <2>1, <2>2 DEF Key, Plan, SameSubject
<1>3. CASE d # c
  <2>1. request'[d] = request[d] /\ reached[d] /\ ~ fresh[d] /\ at[d] # "idle"
    BY <1>0, <1>3, OthersStand DEF IInv, CallInOrder, Later
  <2> QED
    BY <1>2, <2>1
<1>4. CASE d = c
  <2>1. request' = request /\ at[c] # "idle"
        /\ (Quiet(c) \/ Creates(c) \/ Writes(c) \/ Reaches(c) \/ Finishes(c))
    BY <1>0, <1>4, StepKinds
  <2>2. CASE Finishes(c)
    <3>1. Key(c) \in Keys
      BY <2>1, RequestFacts DEF IInv, CallInOrder, Key
    <3>2. claims' = [claims EXCEPT ![Key(c)] = [state |-> "completed", plan |-> Plan(c)]]
      BY <1>4, <2>2 DEF Finishes
    <3>3. claims'[Key(c)] = [state |-> "completed", plan |-> Plan(c)]
      BY <1>0, <3>1, <3>2
    <3>4. Key(c)' = Key(c) /\ Plan(c)' = Plan(c)
      BY <2>1 DEF Key, Plan
    <3> QED
      BY <1>4, <3>3, <3>4 DEF SameSubject
  <2>3. CASE Quiet(c) \/ Creates(c)
    <3>1. reached[c] /\ ~ fresh[c]
      BY <1>4, <2>3 DEF Quiet, Creates
    <3> QED
      BY <1>2, <1>4, <2>1, <3>1
  <2>4. CASE Writes(c) \/ Reaches(c)
    BY <1>4, <2>4 DEF Writes, Reaches
  <2> QED
    BY <2>1, <2>2, <2>3, <2>4
<1> QED
  BY <1>3, <1>4

\* Every step leaves each completed claim with its one mutation and its outcome.
LEMMA NextEvidenced ==
  ASSUME OInv, NEW c \in Calls, CallNext(c)
  PROVE  CompletionIsEvidenced'
<1> SUFFICES ASSUME NEW k \in Keys, claims'[k].state = "completed"
             PROVE  /\ deliveries'[k] = 1
                    /\ \E r \in Requests :
                         r.key = k /\ r.plan = claims'[k].plan
                           /\ [job |-> r.job, event |-> "execution_outcome"] \in audit'
  BY DEF CompletionIsEvidenced
<1>0. /\ IInv /\ TypeOK /\ CallInOrder(c) /\ InRecord(c) /\ audit \subseteq audit'
      /\ claims \in [Keys -> Claims] /\ deliveries \in [Keys -> Nat] /\ [Next]_vars
  BY AuditGrows DEF OInv, IInv, TypeOK, ClaimsTypeOK, Next
<1>1. CASE claims[k].state = "completed"
  <2>1. claims'[k] = claims[k]
    BY <1>0, <1>1, StepKeepsCompleted
  <2>2. /\ deliveries[k] = 1
        /\ \E r \in Requests :
             r.key = k /\ r.plan = claims[k].plan
               /\ [job |-> r.job, event |-> "execution_outcome"] \in audit
    BY <1>1 DEF OInv, CompletionIsEvidenced
  <2>3. deliveries'[k] = deliveries[k]
    <3>1. CASE UNCHANGED deliveries
      BY <3>1
    <3>2. CASE Reaches(c)
      <4>1. claims[Key(c)].state = "claimed"
        BY <1>0, <3>2 DEF Reaches, IInv, OwnersHold
      <4>2. Key(c) # k
        BY <1>1, <4>1
      <4> QED
        BY <1>0, <3>2, <4>2 DEF Reaches
    <3> QED
      BY <1>0, <3>1, <3>2, StepKinds DEF Quiet, Creates, Writes, Finishes
  <2> QED
    BY <1>0, <2>1, <2>2, <2>3
<1>2. CASE claims[k].state # "completed"
  <2>1. Rename(c)
    <3>1. Torn.state # "completed" /\ Absent.state # "completed"
      BY DEF Torn, Absent
    <3>2. CASE Claim(c) \/ Write(c) \/ Unlink(c)
      <4>1. PICK f : /\ f.state # "completed"
                     /\ UNCHANGED claims \/ claims' = [claims EXCEPT ![Key(c)] = f]
        BY <3>1, <3>2 DEF Claim, Write, Unlink, CreateClaim, WriteClaim, UnlinkClaim, Put
      <4> QED
        BY <1>0, <1>2, <4>1
    <3>3. ~ UNCHANGED claims
      BY <1>2
    <3> QED
      BY <1>0, <3>2, <3>3
      DEF CallNext, Step, Move, Compensate, Crash, Advance, Throw, StoreFails, Decide, Lookup,
          ReachProvider, Receipt, RefusedBeforeProvider, Observe, RecordOutcome, Complete, Catch,
          Release, Mark, Report
  <2>2. /\ at[c] = "rename" /\ request[c] \in Requests /\ deliveries' = deliveries
        /\ claims' = [claims EXCEPT ![Key(c)] = [state |-> "completed", plan |-> Plan(c)]]
    BY <1>0, <2>1 DEF Rename, RenameCompleted, Put, CallInOrder
  <2>3. Key(c) = k /\ claims'[k].plan = Plan(c)
    BY <1>0, <1>2, <2>2
  <2>4. deliveries[k] = 1 /\ Line(c, "execution_outcome") \in audit
    BY <1>0, <2>2, <2>3 DEF InRecord, Received, CallInOrder, Holding, IInv, OwnersHold
  <2> QED
    BY <1>0, <2>2, <2>3, <2>4 DEF Line, Key, Plan
<1> QED
  BY <1>1, <1>2

\* The stronger invariant is inductive too.
LEMMA NextOInv == OInv /\ [Next]_vars => OInv'
<1>1. ASSUME OInv, NEW c \in Calls, CallNext(c) PROVE OInv'
  <2>1. IInv /\ IInv' /\ TypeOK
    BY <1>1, NextIInv DEF OInv, IInv, Next
  <2>2. ASSUME NEW d \in Calls PROVE InTurn(d)' /\ InRecord(d)' /\ InClaim(d)'
    <3>1. InTurn(d) /\ InRecord(d) /\ InClaim(d) /\ CallInOrder(d)
      BY <1>1 DEF OInv, IInv
    <3>2. InClaim(d)'
      BY <1>1, <2>1, <3>1, NextInClaim
    <3>3. CASE d = c
      BY <1>1, <2>1, <3>1, <3>2, <3>3, NextInTurn, NextInRecord
    <3>4. CASE d # c
      <4>1. /\ at'[d] = at[d] /\ request'[d] = request[d]
            /\ boundary'[d] = boundary[d] /\ reached'[d] = reached[d] /\ job'[d] = job[d]
        BY <1>1, <2>1, <3>4, OthersStand
      <4>2. audit \subseteq audit'
        BY <1>1, AuditGrows
      <4> QED
        BY <3>1, <3>2, <4>1, <4>2 DEF InTurn, InRecord, Line, Uncertain
    <3> QED
      BY <3>3, <3>4
  <2> QED
    BY <1>1, <2>1, <2>2, NextEvidenced DEF OInv
<1>2. ASSUME OInv, UNCHANGED vars PROVE OInv'
  <2>1. IInv'
    BY <1>2, NextIInv DEF OInv
  <2> QED
    BY <1>2, <2>1 DEF OInv, vars, callVars, InTurn, InRecord, InClaim, Line, Uncertain, Key, Plan,
                      SameSubject, CompletionIsEvidenced
<1> QED
  BY <1>1, <1>2 DEF Next

\* What every call has behind it holds in every reachable state.
THEOREM OnRecord == Spec => []OInv
BY InitOInv, NextOInv, PTL DEF Spec

\* A call that reached the provider has its plan's claim.
LEMMA ReachedHoldsClaim ==
  ASSUME OInv, NEW c \in Calls, reached[c]
  PROVE  SameSubject(Key(c), Plan(c))
BY DEF OInv, IInv, OwnersHold, InClaim, SameSubject

\* The provider is reached only by a job whose dispatch is on durable record and
\* under the claim of its plan, for ever after.
THEOREM EntriesAreOnRecord == Spec => []EntryIsOnRecord
<1>1. OInv => EntryIsOnRecord
  BY ReachedHoldsClaim DEF OInv, IInv, CallInOrder, InRecord, Line, EntryIsOnRecord
<1> QED
  BY <1>1, OnRecord, PTL

\* A completed claim stands for one mutation with a recorded outcome, whatever
\* crashed or failed on the way.
THEOREM CompletionsAreEvidenced == Spec => []CompletionIsEvidenced
<1>1. OInv => CompletionIsEvidenced
  BY DEF OInv
<1> QED
  BY <1>1, OnRecord, PTL

\* The orchestrator asks the state machine for nothing its graph refuses.
THEOREM GraphAdmits == Spec => []GraphAdmitsEveryStep
<1>1. OInv => GraphAdmitsEveryStep
  <2> SUFFICES ASSUME OInv, NEW c \in Calls
               PROVE  /\ at[c] \in Advancing => Target[at[c]] \in Graph(job[c])
                      /\ at[c] = "mark" => FailureState(c) \in Graph(job[c]) \cup {job[c]}
    BY DEF GraphAdmitsEveryStep
  <2>1. InTurn(c)
    BY DEF OInv
  <2>2. ASSUME at[c] \in Advancing PROVE Target[at[c]] \in Graph(job[c])
    BY <2>1, <2>2 DEF InTurn, Advancing, Target, Graph
  <2>3. FailureState(c) \in Graph(job[c]) \cup {job[c]}
    BY DEF FailureState, RECOVERY_STATES, Graph
  <2> QED
    BY <2>2, <2>3
<1> QED
  BY <1>1, OnRecord, PTL

\* A call that mutated and then failed leaves its claim and a job that asks for
\* recovery.
THEOREM FailuresAskForRecovery == Spec => []UncertainCallsAskForRecovery
<1>1. OInv => UncertainCallsAskForRecovery
  BY ReachedHoldsClaim DEF OInv, InRecord, Uncertain, UncertainCallsAskForRecovery
<1> QED
  BY <1>1, OnRecord, PTL
-----------------------------------------------------------------------------
(* The abstract claim.                                                      *)

\* A claim file names a plan exactly when it holds a record.
RecordsNamePlans ==
  \A k \in Keys : claims[k].plan = Null <=> claims[k].state \in {"absent", "torn"}

\* What the refinement needs of the two invariants.
RInv == OInv /\ RecordsNamePlans

\* No file, no plan.
LEMMA InitRInv == Init => RInv
<1> SUFFICES ASSUME Init PROVE RInv
  OBVIOUS
<1>1. RecordsNamePlans
  BY DEF Init, ClaimsInit, RecordsNamePlans, Absent
<1> QED
  BY <1>1, InitOInv DEF RInv

\* Only a written record names a plan, and it always does.
LEMMA StepNamesPlans ==
  ASSUME RInv, NEW c \in Calls, CallNext(c)
  PROVE  RecordsNamePlans'
<1>1. TypeOK /\ CallInOrder(c) /\ claims \in [Keys -> Claims]
  BY DEF RInv, OInv, IInv, TypeOK, ClaimsTypeOK
<1>2. CASE UNCHANGED claims
  BY <1>2 DEF RInv, RecordsNamePlans
<1>3. CASE Creates(c)
  BY <1>1, <1>3 DEF RInv, RecordsNamePlans, Creates, Torn
<1>4. ASSUME at[c] # "idle" PROVE Plan(c) # Null
  BY <1>1, <1>4, RequestFacts, NoneAssumption DEF CallInOrder, Plan
<1>5. CASE at[c] # "idle" /\ (Writes(c) \/ Finishes(c))
  BY <1>1, <1>4, <1>5 DEF RInv, RecordsNamePlans, Writes, Finishes, Absent
<1> QED
  BY <1>1, <1>2, <1>3, <1>5, StepKinds DEF Quiet, Reaches

\* The invariant behind the refinement is inductive.
LEMMA NextRInv == RInv /\ [Next]_vars => RInv'
<1>1. ASSUME RInv, UNCHANGED vars PROVE RecordsNamePlans'
  BY <1>1 DEF RInv, RecordsNamePlans, vars
<1> QED
  BY <1>1, NextOInv, StepNamesPlans DEF RInv, Next

\* The refinement mapping.
Subject  == [k \in Keys |-> claims[k].plan]
Finished == {k \in Keys : claims[k].state = "completed"}

\* A fresh claim is open, names its call's plan, and counts what its call sent.
LEMMA FreshClaim ==
  ASSUME RInv, NEW c \in Calls, fresh[c]
  PROVE  /\ Key(c) \in Keys /\ Plan(c) \in Plans /\ Subject[Key(c)] # Null
         /\ Key(c) \notin Finished
         /\ deliveries[Key(c)] = IF reached[c] THEN 1 ELSE 0
<1>1. request[c] \in Requests
  BY DEF RInv, OInv, IInv, CallInOrder
<1>2. Key(c) \in Keys /\ Plan(c) \in Plans /\ Plan(c) # Null
  BY <1>1, RequestFacts, NoneAssumption DEF Key, Plan
<1>3. /\ claims[Key(c)].state = "claimed" /\ claims[Key(c)].plan = Plan(c)
      /\ deliveries[Key(c)] = IF reached[c] THEN 1 ELSE 0
  BY DEF RInv, OInv, IInv, OwnersHold
<1> QED
  BY <1>2, <1>3 DEF Subject, Finished

\* Writing the record takes the key, unlinking the file gives it back, the entry
\* mutates, the rename finishes; nothing else shows.
LEMMA StepClaims ==
  ASSUME RInv, NEW c \in Calls, CallNext(c)
  PROVE  [Claiming!Next]_<<Subject, deliveries, Finished>>
<1>1. TypeOK /\ CallInOrder(c) /\ claims \in [Keys -> Claims] /\ deliveries \in [Keys -> Nat]
  BY DEF RInv, OInv, IInv, TypeOK, ClaimsTypeOK
<1>2. CASE UNCHANGED <<claims, deliveries>>
  BY <1>2 DEF Subject, Finished
<1>3. ASSUME at[c] # "idle" PROVE Key(c) \in Keys /\ Plan(c) \in Plans
  BY <1>1, <1>3, RequestFacts DEF CallInOrder, Key, Plan
<1>4. CASE at[c] # "idle" /\ Creates(c)
  <2>1. claims[Key(c)].plan = Null
    BY <1>3, <1>4 DEF RInv, RecordsNamePlans, Creates
  <2>2. Subject' = Subject
    BY <1>1, <1>4, <2>1 DEF Subject, Creates, Torn
  <2>3. Finished' = Finished
    BY <1>1, <1>4 DEF Finished, Creates, Torn
  <2> QED
    BY <1>4, <2>2, <2>3 DEF Creates
<1>5. CASE at[c] # "idle" /\ Writes(c)
  <2>1. claims[Key(c)].state = "torn" /\ claims[Key(c)].plan = Null
    BY <1>3, <1>5 DEF RInv, OInv, IInv, OwnersHold, RecordsNamePlans, Writes
  <2>2. Subject[Key(c)] = Null /\ Subject' = [Subject EXCEPT ![Key(c)] = Plan(c)]
    BY <1>1, <1>3, <1>5, <2>1 DEF Subject, Writes
  <2>3. Finished' = Finished
    BY <1>1, <1>3, <1>5, <2>1 DEF Finished, Writes
  <2>4. PICK k \in Keys, p \in Plans : k = Key(c) /\ p = Plan(c)
    BY <1>3, <1>5
  <2>5. Claiming!Take(k, p)
    BY <1>5, <2>2, <2>3, <2>4 DEF Claiming!Take, Subject, Finished, Writes
  <2> QED
    BY <2>5 DEF Claiming!Next
<1>6. CASE at[c] # "idle" /\ Reaches(c)
  <2>1. Subject[Key(c)] # Null /\ deliveries[Key(c)] = 0
    BY <1>6, FreshClaim DEF Reaches
  <2>2. deliveries' = [deliveries EXCEPT ![Key(c)] = 1]
    BY <1>1, <1>3, <1>6, <2>1 DEF Reaches
  <2>3. Subject' = Subject /\ Finished' = Finished
    BY <1>6 DEF Reaches, Subject, Finished
  <2>4. PICK k \in Keys : k = Key(c)
    BY <1>3, <1>6
  <2>5. Claiming!Mutate(k)
    BY <2>1, <2>2, <2>3, <2>4 DEF Claiming!Mutate, Subject, Finished
  <2> QED
    BY <2>5 DEF Claiming!Next
<1>7. CASE at[c] # "idle" /\ Finishes(c) /\ claims' = [claims EXCEPT ![Key(c)] = Absent]
           /\ ~ reached[c]
  <2>1. Subject[Key(c)] # Null /\ deliveries[Key(c)] = 0 /\ Key(c) \notin Finished
    BY <1>7, FreshClaim DEF Finishes
  <2>2. Subject' = [Subject EXCEPT ![Key(c)] = Null]
    BY <1>1, <1>3, <1>7 DEF Subject, Absent
  <2>3. Finished' = Finished
    BY <1>1, <1>3, <1>7, <2>1 DEF Finished, Absent
  <2>4. PICK k \in Keys : k = Key(c)
    BY <1>3, <1>7
  <2>5. Claiming!GiveBack(k)
    BY <1>7, <2>1, <2>2, <2>3, <2>4 DEF Claiming!GiveBack, Subject, Finished, Finishes
  <2> QED
    BY <2>5 DEF Claiming!Next
<1>8. CASE at[c] = "rename" /\ Finishes(c)
           /\ claims' = [claims EXCEPT ![Key(c)] = [state |-> "completed", plan |-> Plan(c)]]
  <2>1. reached[c]
    BY <1>8 DEF RInv, OInv, InRecord, Received
  <2>2. deliveries[Key(c)] = 1 /\ Key(c) \notin Finished
    BY <1>8, <2>1, FreshClaim DEF Finishes
  <2>3. claims[Key(c)].plan = Plan(c)
    BY <1>8 DEF RInv, OInv, IInv, OwnersHold, Finishes
  <2>4. Subject' = Subject
    BY <1>1, <1>3, <1>8, <2>3 DEF Subject
  <2>5. Finished' = Finished \cup {Key(c)}
    BY <1>1, <1>3, <1>8 DEF Finished
  <2>6. PICK k \in Keys : k = Key(c)
    BY <1>3, <1>8
  <2>7. Claiming!Finish(k)
    BY <1>8, <2>2, <2>4, <2>5, <2>6 DEF Claiming!Finish, Subject, Finished, Finishes
  <2> QED
    BY <2>7 DEF Claiming!Next
<1> QED
  BY <1>1, <1>2, <1>4, <1>5, <1>6, <1>7, <1>8, StepKinds DEF Quiet, Finishes

\* A key is taken for one plan, given back only if nothing was sent, mutated once
\* and finished for good: the orchestrator over its claim files implements
\* KeyClaim, for any number of calls, keys and plans.
THEOREM ClaimsImplemented == Spec => ImplementsKeyClaim
<1>1. Init => Claiming!Init
  BY DEF Init, ClaimsInit, Absent, Claiming!Init
<1>2. RInv /\ [Next]_vars => [Claiming!Next]_(Claiming!vars)
  <2>1. ASSUME UNCHANGED vars PROVE UNCHANGED Claiming!vars
    BY <2>1 DEF vars, Claiming!vars
  <2>2. ASSUME RInv, Next PROVE [Claiming!Next]_(Claiming!vars)
    BY <2>2, StepClaims DEF Next, Claiming!vars, Subject, Finished
  <2> QED
    BY <2>1, <2>2
<1> QED
  BY <1>1, <1>2, InitRInv, NextRInv, PTL DEF Spec, ImplementsKeyClaim, Claiming!Spec
=============================================================================
