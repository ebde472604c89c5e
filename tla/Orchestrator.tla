---------------------------- MODULE Orchestrator ----------------------------
(***************************************************************************)
(* SigmaOrchestrator.dispatch and compensate                               *)
(* (src/src/orchestrator/orchestrator.mjs) over the idempotency ledger and *)
(* the job store.  Calls of several processes interleave at every await; a *)
(* process may die at any point.  Gatekeeper, Colossus gateway and the     *)
(* file system are the environment: the gatekeeper answers anything, the   *)
(* gateway has no fence of its own here (the orchestrator accepts any      *)
(* gateway) and gives the pre-boundary proof only for a call that did not  *)
(* reach the provider, which ColossusDispatch!PreBoundaryIsProven shows of *)
(* the real one.  File operations may fail.                                *)
(***************************************************************************)
EXTENDS IdempotencyLedger, JobStore

CONSTANTS
  Calls,          \* calls in processes of their own
  Moves,          \* normalized move requests
  Compensation,   \* the compensation request of each move
  StoreMayFail    \* whether the job store's file operations may fail

Requests == Moves \cup {Compensation[m] : m \in Moves}

ASSUME RequestsAssumption ==
  /\ Moves \subseteq [job : Jobs, key : Keys, plan : Plans, operation : {"move"}]
  /\ Compensation \in [Moves -> [job : Jobs, key : Keys, plan : Plans, operation : {"compensate"}]]
ASSUME NoneAssumption == Null \notin Plans /\ Null \notin Requests /\ NoJob \notin States
ASSUME StoreAssumption == StoreMayFail \in BOOLEAN

VARIABLES
  at,         \* where each call stands
  request,    \* its request
  job,        \* its local copy of the job's state
  fresh,      \* freshClaimPlan is set
  boundary,   \* providerBoundaryEntered
  reached,    \* whether this call's mutation did reach the provider
  verdict,    \* whether the approval it was given binds its plan
  deliveries  \* mutations that reached the provider, by key

callVars == <<at, request, job, fresh, boundary, reached, verdict>>
vars == <<claims, jobs, audit, callVars, deliveries>>

\* The transitions of the happy path, each with the stage that follows it.
Target == [normalize |-> "normalized", recover |-> "recovery_required",
           check |-> "capability_checked", plan |-> "planned", ask |-> "awaiting_approval",
           stale |-> "recovery_required", approve |-> "approved", dispatch |-> "dispatched",
           attempt |-> "attempted", confirm |-> "provider_confirmed",
           reconcile |-> "reconciling", settle |-> "reconciled"]
After  == [normalize |-> "check", recover |-> "check", check |-> "plan", plan |-> "ask",
           ask |-> "approval", stale |-> "caught", approve |-> "dispatch", dispatch |-> "gateway",
           attempt |-> "confirm", confirm |-> "reconcile", reconcile |-> "observe",
           settle |-> "record"]

Advancing == DOMAIN Target
Resting   == {"idle", "done", "failed"}
Stages    == Advancing \cup Resting \cup
             {"approval", "claim", "write", "lookup", "gateway", "observe", "record",
              "complete", "rename", "caught", "release", "unlink", "mark", "report"}

RECOVERY_STATES == {"dispatched", "attempted", "provider_confirmed", "reconciling", "reconciled"}

TypeOK ==
  /\ ClaimsTypeOK /\ StoreTypeOK
  /\ at \in [Calls -> Stages]
  /\ request \in [Calls -> Requests \cup {Null}]
  /\ job \in [Calls -> States]
  /\ fresh \in [Calls -> BOOLEAN] /\ boundary \in [Calls -> BOOLEAN]
  /\ reached \in [Calls -> BOOLEAN]
  /\ verdict \in [Calls -> {"none", "bound", "unbound"}]
  /\ deliveries \in [Keys -> Nat]

Goto(c, stage) == at' = [at EXCEPT ![c] = stage]

Key(c)  == request[c].key
Plan(c) == request[c].plan

\* The locals of a call that is being entered with a request and a job state.
Enter(c, stage, r, state) ==
  /\ Goto(c, stage)
  /\ request' = [request EXCEPT ![c] = r]
  /\ job' = [job EXCEPT ![c] = state]
  /\ fresh' = [fresh EXCEPT ![c] = FALSE]
  /\ boundary' = [boundary EXCEPT ![c] = FALSE]
  /\ reached' = [reached EXCEPT ![c] = FALSE]
  /\ verdict' = [verdict EXCEPT ![c] = "none"]

-----------------------------------------------------------------------------
(* Mutants: what a plausible slip in the code would make of the definitions  *)
(* below.  Nothing uses them but the runs that show which property notices.  *)

\* The outcome is not recorded before the claim is completed.
RecordOutcomeLater(c) ==
  /\ at[c] = "record"
  /\ Goto(c, "complete")
  /\ UNCHANGED <<claims, jobs, audit, request, job, fresh, boundary, reached, verdict, deliveries>>

\* A fresh claim is given back, wherever the call failed.
CatchReleasing(c) ==
  /\ at[c] = "caught"
  /\ Goto(c, IF fresh[c] THEN "release" ELSE "mark")
  /\ UNCHANGED <<claims, jobs, audit, request, job, fresh, boundary, reached, verdict, deliveries>>

\* A call that provably sent nothing goes back to the gateway.
CatchAndRetry(c) ==
  /\ at[c] = "caught"
  /\ Goto(c, IF fresh[c] /\ ~ boundary[c] THEN "gateway" ELSE "mark")
  /\ UNCHANGED <<claims, jobs, audit, request, job, fresh, boundary, reached, verdict, deliveries>>

\* A call that may have mutated ends as failed.
FailureStateFailed(c) ==
  IF boundary[c] /\ job[c] \in RECOVERY_STATES THEN "failed" ELSE job[c]

-----------------------------------------------------------------------------
(* Calls and processes.                                                     *)

Move(c, m) ==
  /\ at[c] \in Resting
  /\ Enter(c, "normalize", m, "received")
  /\ UNCHANGED <<claims, jobs, audit, deliveries>>

\* The moves some call has returned a result of: it returns one when it has
\* completed the claim, after the outcome was recorded.
Results ==
  {m \in Moves : /\ claims[m.key].state = "completed" /\ claims[m.key].plan = m.plan
                 /\ [job |-> m.job, event |-> "execution_outcome"] \in audit}

\* compensate(result): with a reconciled result in hand, as a job and under a key of
\* its own.  Nothing uses the result up: it may be compensated again, by several calls
\* at a time, and after a compensation that failed.
Compensate(c) ==
  /\ at[c] \in Resting
  /\ \E m \in Results : Enter(c, "recover", Compensation[m], "reconciled")
  /\ UNCHANGED <<claims, jobs, audit, deliveries>>

Crash(c) ==
  /\ at[c] \notin Resting
  /\ Enter(c, "idle", Null, "received")
  /\ UNCHANGED <<claims, jobs, audit, deliveries>>

-----------------------------------------------------------------------------
(* The body of dispatch.                                                    *)

\* advance(): transition(), then recordTransition().
Advance(c) ==
  LET to == Target[at[c]] IN
  /\ at[c] \in Advancing
  /\ to \in Graph(job[c])
  /\ Recorded(request[c].job, to, to)
  /\ job' = [job EXCEPT ![c] = to]
  /\ boundary' = [boundary EXCEPT ![c] = @ \/ at[c] = "dispatch"]
  /\ Goto(c, After[at[c]])
  /\ UNCHANGED <<claims, request, fresh, reached, verdict, deliveries>>

\* A step of the body throws: the graph refuses the transition, the registry
\* the method, the evidence does not bind, a service or a file fails.
Throw(c) ==
  /\ \/ at[c] \in Advancing /\ Target[at[c]] \notin Graph(job[c])
     \/ at[c] \in {"check", "plan", "confirm", "settle"}
     \/ at[c] \in {"approval", "claim", "write", "lookup", "gateway", "observe",
                   "complete", "rename"}
  /\ Goto(c, "caught")
  /\ UNCHANGED <<claims, jobs, audit, request, job, fresh, boundary, reached, verdict, deliveries>>

\* advance() or recordOutcome() throws out of the store.
StoreFails(c) ==
  /\ StoreMayFail
  /\ \/ /\ at[c] \in Advancing /\ Target[at[c]] \in Graph(job[c])
        /\ RecordingFails(request[c].job, Target[at[c]])
     \/ at[c] = "record" /\ RecordingFails(request[c].job, job[c])
  /\ Goto(c, "caught")
  /\ UNCHANGED <<claims, request, job, fresh, boundary, reached, verdict, deliveries>>

\* The gatekeeper answers; assertApprovalBinding accepts the answer or throws.
Decide(c, answer) ==
  /\ at[c] = "approval"
  /\ verdict' = [verdict EXCEPT ![c] = answer]
  /\ Goto(c, IF answer = "bound" THEN "claim" ELSE "caught")
  /\ UNCHANGED <<claims, jobs, audit, request, job, fresh, boundary, reached, deliveries>>

\* claim(): the file is created, or there is one to look at.
Claim(c) ==
  /\ at[c] = "claim"
  /\ \/ CreateClaim(Key(c)) /\ Goto(c, "write")
     \/ claims[Key(c)].state # "absent" /\ UNCHANGED claims /\ Goto(c, "lookup")
  /\ UNCHANGED <<jobs, audit, request, job, fresh, boundary, reached, verdict, deliveries>>

Write(c) ==
  /\ at[c] = "write"
  /\ WriteClaim(Key(c), Plan(c))
  /\ fresh' = [fresh EXCEPT ![c] = TRUE]
  /\ Goto(c, "approve")
  /\ UNCHANGED <<jobs, audit, request, job, boundary, reached, verdict, deliveries>>

\* The existing claim is active: the job needs recovery.  It is completed, of
\* another subject, unreadable, or gone again: the call throws.
Lookup(c) ==
  /\ at[c] = "lookup"
  /\ Goto(c, IF HoldsClaim(Key(c), Plan(c)) THEN "stale" ELSE "caught")
  /\ UNCHANGED <<claims, jobs, audit, request, job, fresh, boundary, reached, verdict, deliveries>>

\* The gateway lets the mutation through to the provider.
ReachProvider(c) ==
  /\ at[c] = "gateway" /\ ~ reached[c]
  /\ reached' = [reached EXCEPT ![c] = TRUE]
  /\ deliveries' = [deliveries EXCEPT ![Key(c)] = @ + 1]
  /\ UNCHANGED <<claims, jobs, audit, at, request, job, fresh, boundary, verdict>>

\* colossus.dispatch resolves with a receipt: the provider was reached.
Receipt(c) ==
  /\ at[c] = "gateway" /\ reached[c]
  /\ Goto(c, "attempt")
  /\ UNCHANGED <<claims, jobs, audit, request, job, fresh, boundary, reached, verdict, deliveries>>

\* colossus.dispatch rejects with the proof that nothing was sent.
RefusedBeforeProvider(c) ==
  /\ at[c] = "gateway" /\ ~ reached[c]
  /\ boundary' = [boundary EXCEPT ![c] = FALSE]
  /\ Goto(c, "caught")
  /\ UNCHANGED <<claims, jobs, audit, request, job, fresh, reached, verdict, deliveries>>

\* colossus.reconcile resolves.
Observe(c) ==
  /\ at[c] = "observe"
  /\ Goto(c, "settle")
  /\ UNCHANGED <<claims, jobs, audit, request, job, fresh, boundary, reached, verdict, deliveries>>

RecordOutcome(c) ==
  /\ at[c] = "record"
  /\ Recorded(request[c].job, job[c], "execution_outcome")
  /\ Goto(c, "complete")
  /\ UNCHANGED <<claims, request, job, fresh, boundary, reached, verdict, deliveries>>

\* complete(): read and check, then rename.
Complete(c) ==
  /\ at[c] = "complete"
  /\ Goto(c, IF HoldsClaim(Key(c), Plan(c)) THEN "rename" ELSE "caught")
  /\ UNCHANGED <<claims, jobs, audit, request, job, fresh, boundary, reached, verdict, deliveries>>

Rename(c) ==
  /\ at[c] = "rename"
  /\ RenameCompleted(Key(c), Plan(c))
  /\ fresh' = [fresh EXCEPT ![c] = FALSE]
  /\ Goto(c, "done")
  /\ UNCHANGED <<jobs, audit, request, job, boundary, reached, verdict, deliveries>>

-----------------------------------------------------------------------------
(* The catch block.                                                         *)

\* Only a fresh claim of a call that provably sent nothing is given back.
Catch(c) ==
  /\ at[c] = "caught"
  /\ Goto(c, IF fresh[c] /\ ~ boundary[c] THEN "release" ELSE "mark")
  /\ UNCHANGED <<claims, jobs, audit, request, job, fresh, boundary, reached, verdict, deliveries>>

\* release(): read and check, then unlink; either may throw.
Release(c) ==
  /\ at[c] = "release"
  /\ \/ HoldsClaim(Key(c), Plan(c)) /\ Goto(c, "unlink")
     \/ Goto(c, "mark")
  /\ UNCHANGED <<claims, jobs, audit, request, job, fresh, boundary, reached, verdict, deliveries>>

Unlink(c) ==
  /\ at[c] = "unlink"
  /\ \/ UnlinkClaim(Key(c)) /\ fresh' = [fresh EXCEPT ![c] = FALSE]
     \/ UNCHANGED <<claims, fresh>>
  /\ Goto(c, "mark")
  /\ UNCHANGED <<jobs, audit, request, job, boundary, reached, verdict, deliveries>>

\* The state the catch block moves the job to: the job itself if to none.
FailureState(c) ==
  IF ~ boundary[c] /\ job[c] = "dispatched"
    THEN IF fresh[c] THEN "recovery_required" ELSE "failed"
  ELSE IF boundary[c] /\ job[c] \in RECOVERY_STATES THEN "recovery_required"
  ELSE job[c]

Mark(c) ==
  LET to == FailureState(c) IN
  /\ at[c] = "mark"
  /\ \/ to = job[c] /\ UNCHANGED <<jobs, audit, job>>
     \/ /\ to # job[c] /\ to \in Graph(job[c])
        /\ Recorded(request[c].job, to, to)
        /\ job' = [job EXCEPT ![c] = to]
     \/ /\ to # job[c] /\ StoreMayFail        \* swallowed
        /\ RecordingFails(request[c].job, to)
        /\ UNCHANGED job
  /\ Goto(c, "report")
  /\ UNCHANGED <<claims, request, fresh, boundary, reached, verdict, deliveries>>

\* recordFailure(), whose own failure is swallowed; then the error is rethrown.
Report(c) ==
  /\ at[c] = "report"
  /\ \/ Recorded(request[c].job, job[c], "execution_failure")
     \/ StoreMayFail /\ RecordingFails(request[c].job, job[c])
  /\ Goto(c, "failed")
  /\ UNCHANGED <<claims, request, job, fresh, boundary, reached, verdict, deliveries>>

-----------------------------------------------------------------------------
Init ==
  /\ ClaimsInit /\ StoreInit
  /\ at = [c \in Calls |-> "idle"]
  /\ request = [c \in Calls |-> Null]
  /\ job = [c \in Calls |-> "received"]
  /\ fresh = [c \in Calls |-> FALSE]
  /\ boundary = [c \in Calls |-> FALSE]
  /\ reached = [c \in Calls |-> FALSE]
  /\ verdict = [c \in Calls |-> "none"]
  /\ deliveries = [k \in Keys |-> 0]

\* The steps of a call that wait for no answer of another service.
Step(c) ==
  \/ Advance(c) \/ StoreFails(c) \/ Claim(c) \/ Write(c) \/ Lookup(c)
  \/ RecordOutcome(c) \/ Complete(c) \/ Rename(c)
  \/ Catch(c) \/ Release(c) \/ Unlink(c) \/ Mark(c) \/ Report(c)

CallNext(c) ==
  \/ \E m \in Moves : Move(c, m)
  \/ Compensate(c) \/ Crash(c) \/ Throw(c)
  \/ \E answer \in {"bound", "unbound"} : Decide(c, answer)
  \/ ReachProvider(c) \/ Receipt(c) \/ RefusedBeforeProvider(c) \/ Observe(c)
  \/ Step(c)

Next == \E c \in Calls : CallNext(c)

Spec == Init /\ [][Next]_vars
FairSpec == Spec /\ \A c \in Calls : WF_vars(Step(c))

-----------------------------------------------------------------------------
(* Properties.                                                              *)

\* A key under which a mutation reached the provider keeps its claim for ever,
\* and so no second call gets past it: the claim is released only by a call that
\* sent nothing, after every earlier holder sent nothing.
NoUnclaimedEntry ==
  \A k \in Keys : deliveries[k] > 0 => claims[k].state \in {"claimed", "completed"}

\* Concurrent calls, retries, compensations and crashes together mutate at most
\* once per key, with a gateway that does not protect itself.
OneEntryPerKey == \A k \in Keys : deliveries[k] <= 1

\* The provider is reached only for a job whose dispatch is on durable record,
\* under a claim for exactly this plan.
EntryIsOnRecord ==
  \A c \in Calls :
    reached[c] =>
      /\ [job |-> request[c].job, event |-> "dispatched"] \in audit
      /\ SameSubject(Key(c), Plan(c))

\* A completed claim stands for one mutation whose outcome was recorded first,
\* so that a crash between the two leaves the key in need of recovery, not done.
CompletionIsEvidenced ==
  \A k \in Keys :
    claims[k].state = "completed" =>
      /\ deliveries[k] = 1
      /\ \E r \in Requests :
           r.key = k /\ r.plan = claims[k].plan
             /\ [job |-> r.job, event |-> "execution_outcome"] \in audit

\* The state machine admits every transition the orchestrator asks for, in the
\* body and in the catch block, for a move and for a compensation, so a call
\* that mutated is never stopped by its own graph.
GraphAdmitsEveryStep ==
  \A c \in Calls :
    /\ at[c] \in Advancing => Target[at[c]] \in Graph(job[c])
    /\ at[c] = "mark" => FailureState(c) \in Graph(job[c]) \cup {job[c]}

\* A call that mutated and then failed, wherever it failed, ends with its claim
\* in place and a job that asks for recovery; if the store could not keep that,
\* the job at least still stands past its dispatch.
UncertainCallsAskForRecovery ==
  \A c \in Calls :
    at[c] = "failed" /\ reached[c] =>
      /\ SameSubject(Key(c), Plan(c))
      /\ job[c] = "recovery_required" \/ (StoreMayFail /\ job[c] \in RECOVERY_STATES)

\* A completed claim is never touched again, although release() and complete()
\* check it one file operation before they replace it.
CompletedClaimsStand ==
  [][\A k \in Keys : claims[k].state = "completed" => claims'[k] = claims[k]]_vars

-----------------------------------------------------------------------------
\* The abstract claim, read off the claim files and the mutations sent.
Claiming == INSTANCE KeyClaim WITH
  subject   <- [k \in Keys |-> claims[k].plan],
  mutations <- deliveries,
  finished  <- {k \in Keys : claims[k].state = "completed"}

\* Calls, files and crashes together keep the promise of a claim, although no
\* lock spans the file operations of a claim, a release or a completion.
ImplementsKeyClaim == Claiming!Spec

\* A call that fails reports its failure, unless its process dies.
FailuresAreReported == \A c \in Calls : at[c] = "caught" ~> at[c] \in {"failed", "idle"}

\* src/docs/STATE_MACHINE.md: a mismatching approval is blocked or expired.
MismatchIsBlockedOrExpired ==
  \A c \in Calls :
    at[c] = "failed" /\ verdict[c] = "unbound" => job[c] \in {"blocked", "expired"}

\* src/docs/STATE_MACHINE.md: any transition outside the graph is rejected.
StoredJobsFollowTheGraph ==
  [][\A j \in Jobs :
       jobs[j] # NoJob /\ jobs'[j] # jobs[j] => jobs'[j] \in Graph(jobs[j])]_jobs
=============================================================================
