---------------------- MODULE ProviderRecovery_proofs ----------------------
(***************************************************************************)
(* Proofs about the contents provider and the recovery of uncertain        *)
(* mutations, for any number of requests, recoveries and other writers.    *)
(* The file's history only grows, so whatever was once read stays true of  *)
(* the state it was read from; a request writes at most once, and what it  *)
(* replaces has the version of its baseline.                               *)
(***************************************************************************)
EXTENDS ProviderRecovery, TLAPS

Positions == 1..Len(history)

\* A request that is under way has an intent, made from a state of the file.
IntentsAreReal ==
  \A r \in Requests :
    /\ stage[r] = "idle" <=> intent[r] = None
    /\ intent[r] # None =>
         /\ intent[r] \in Intents
         /\ intent[r].baseline.at \in Positions
         /\ intent[r].baseline = Observation(intent[r].baseline.at)

\* How far the PUT is, given how far the call is.
PutsFollowCalls ==
  \A r \in Requests :
    /\ stage[r] \in {"idle", "reading"} => put[r] = "none"
    /\ stage[r] = "rereading" => put[r] = "conflict"
    /\ stage[r] = "blocked" => put[r] \in {"none", "conflict"}
    /\ stage[r] = "failed" => put[r] = "rejected"
    /\ put[r] # "none" => sha[r] = intent[r].baseline.version

\* Only an applied PUT writes, once, over the version of its baseline.
WritesAreConditional ==
  /\ \A r \in Requests, i \in Positions :
       Wrote(r, i) =>
         /\ put[r] \in {"ok", "unproven"}
         /\ i - 1 \in Positions
         /\ Observation(i - 1).version = intent[r].baseline.version
  /\ \A r \in Requests, i, j \in Positions : Wrote(r, i) /\ Wrote(r, j) => i = j

DesiredWasSeen(r) == \E i \in Readable(r) : history[i].content = intent[r].desired

\* A success and a receipt of it are of content that stood in the file.
SuccessWasSeen ==
  \A r \in Requests :
    put[r] = "ok" \/ stage[r] = "dispatched" => DesiredWasSeen(r)

\* What an outcome says of a request is true of what it observed.
Sound(r, o) ==
  /\ o.observation # None =>
       /\ o.observation.at \in Positions
       /\ o.observation = Observation(o.observation.at)
  /\ o.state = "confirmed_applied" => DesiredWasSeen(r)
  /\ o.state = "confirmed_not_applied" \/ o.disposition = "requires_new_authorization" =>
       /\ o.observation # None
       /\ semantics = "monotonic_revision"
       /\ intent[r].baseline.content # Absent
       /\ o.observation.content = intent[r].baseline.content
       /\ o.observation.version = intent[r].baseline.version

OutcomesAreSound ==
  /\ \A p \in Recoverers : job[p] # None =>
       /\ intent[job[p].request] # None
       /\ job[p].outcome = None => job[p].reads < Attempts
       /\ job[p].outcome # None => Sound(job[p].request, job[p].outcome)
  /\ \A r \in Requests : record[r] # None => intent[r] # None /\ Sound(r, record[r])

\* Retries exist only for revisions that never come back, and share the
\* revision they replace.
FamiliesShareARevision ==
  \A q, r \in Requests : q # r /\ family[q] = family[r] =>
    /\ semantics = "monotonic_revision"
    /\ intent[q] # None /\ intent[r] # None
    /\ intent[q].baseline.content # Absent
    /\ intent[q].baseline.version = intent[r].baseline.version

PInv ==
  /\ TypeOK
  /\ IntentsAreReal
  /\ PutsFollowCalls
  /\ WritesAreConditional
  /\ SuccessWasSeen
  /\ OutcomesAreSound
  /\ FamiliesShareARevision
  /\ AnswersAreOnRecord

----------------------------------------------------------------------------
(* What is read.                                                           *)

\* Every position holds a state of the file.
LEMMA StateType ==
  ASSUME history \in Seq(States), NEW i \in 1..Len(history)
  PROVE  history[i] \in States /\ history[i].content \in Contents \cup {Absent}
<1>1. history[i] \in States
  OBVIOUS
<1> QED
  BY <1>1 DEF States

\* A read returns an observation of the position it was made at.
LEMMA ObservationType ==
  ASSUME semantics \in Semantics, history \in Seq(States), NEW i \in 1..Len(history)
  PROVE  Observation(i) \in Observations /\ Observation(i).at = i
         /\ Observation(i).content = history[i].content
<1>1. history[i].content \in Contents \cup {Absent}
  BY StateType
<1>2. CASE history[i].content = Absent
  BY <1>1, <1>2 DEF Observation, Observations, Versions
<1>3. CASE history[i].content # Absent
  BY <1>1, <1>3 DEF Observation, Observations, Versions, Semantics
<1> QED
  BY <1>2, <1>3

\* Equal versions mean equal contents; equal revisions mean the same state.
LEMMA VersionsIdentify ==
  ASSUME semantics \in Semantics, history \in Seq(States),
         NEW i \in 1..Len(history), NEW j \in 1..Len(history),
         Observation(i).version = Observation(j).version
  PROVE  /\ Observation(i).content = Observation(j).content
         /\ semantics = "monotonic_revision" /\ Observation(i).content # Absent => i = j
<1>1. /\ history[i].content \in Contents \cup {Absent}
      /\ history[j].content \in Contents \cup {Absent}
  BY StateType
<1>2. None \notin Contents /\ None \notin Int /\ Contents \cap Int = {}
  BY ContentsAssumption
<1> QED
  BY <1>1, <1>2 DEF Observation, Semantics

\* A step that leaves the file and the calls alone.
LEMMA Untouched ==
  ASSUME UNCHANGED <<semantics, history>>
  PROVE  /\ \A i : Observation(i)' = Observation(i)
         /\ \A r, i : Wrote(r, i)' = Wrote(r, i)
         /\ Positions' = Positions
BY DEF Observation, Wrote, Positions

\* A step that adds a state to the file.
LEMMA Appended ==
  ASSUME history \in Seq(States), NEW s \in States,
         UNCHANGED semantics, history' = Append(history, s)
  PROVE  /\ history' \in Seq(States)
         /\ Len(history') = Len(history) + 1
         /\ Positions' = Positions \cup {Len(history) + 1}
         /\ Positions \subseteq Positions'
         /\ history'[Len(history) + 1] = s
         /\ \A i \in Positions : history'[i] = history[i]
         /\ \A i \in Positions : Observation(i)' = Observation(i)
         /\ \A r \in Requests : \A i \in Positions : Wrote(r, i)' = Wrote(r, i)
<1>1. /\ history' \in Seq(States) /\ Len(history') = Len(history) + 1
      /\ history'[Len(history) + 1] = s
      /\ \A i \in 1..Len(history) : history'[i] = history[i]
  OBVIOUS
<1>2. Len(history) \in Nat
  OBVIOUS
<1>3. Positions' = Positions \cup {Len(history) + 1}
  BY <1>1, <1>2 DEF Positions
<1> QED
  BY <1>1, <1>3 DEF Observation, Wrote, Positions

----------------------------------------------------------------------------
(* The steps, in three groups.                                             *)

\* The file only gets longer.
Grown ==
  /\ semantics' = semantics
  /\ history' \in Seq(States) /\ history' # <<>>
  /\ Positions \subseteq Positions'
  /\ \A i \in Positions : history'[i] = history[i]
  /\ \A i \in Positions : Observation(i)' = Observation(i)

\* An intent, once there, stays.
IntentsStay ==
  \A r \in Requests : intent[r] # None => intent'[r] = intent[r]

\* A step of the file: someone else's edit, or a PUT that is applied.
FileStep ==
  \/ \E c \in Contents \cup {Absent} : Edit(c)
  \/ \E r \in Requests : ApplyPut(r)

\* A step of a call.
CallStep ==
  \/ \E r \in Requests, desired \in Contents, i \in Positions : Plan(r, desired, i)
  \/ \E r \in Requests :
       \/ RefusePut(r)
       \/ AlreadyThere(r) \/ BaselineMoved(r) \/ SubmitPut(r)
       \/ Respond(r) \/ Converge(r) \/ Interrupt(r)

\* A step of a recovery.
RecoveryStep ==
  \E p \in Recoverers :
    \/ \E r \in Requests, stamp \in Stamps : Recover(p, r, stamp)
    \/ /\ Observing(p)
       /\ \/ \E i \in Readable(job[p].request) : Observe(p, i)
          \/ \E reason \in {"PROVIDER_OBSERVATION_TIMEOUT", "PROVIDER_OBSERVATION_FAILED"} :
               GiveUp(p, reason)
    \/ Store(p) \/ Replay(p) \/ Abandon(p)

\* Every step is of one of the groups, a retry, or nothing.
LEMMA Groups ==
  ASSUME [Next]_vars
  PROVE  \/ FileStep /\ UNCHANGED recoveryVars
         \/ CallStep /\ UNCHANGED recoveryVars
         \/ \E q, r \in Requests : Retry(q, r)
         \/ RecoveryStep /\ UNCHANGED contentsVars
         \/ UNCHANGED vars
<1>1. CASE ContentsNext /\ UNCHANGED recoveryVars
  <2>1. ASSUME NEW r \in Fresh, NEW desired \in Contents, NEW i \in 1..Len(history),
               Plan(r, desired, i)
        PROVE  CallStep
    <3>1. r \in Requests /\ i \in Positions
      BY ContentsAssumption DEF Positions
    <3> QED
      BY <2>1, <3>1 DEF CallStep
  <2>2. CASE \E c \in Contents \cup {Absent} : Edit(c)
    BY <1>1, <2>2 DEF FileStep
  <2>3. ASSUME NEW r \in Requests,
               \/ ApplyPut(r) \/ RefusePut(r)
               \/ AlreadyThere(r) \/ BaselineMoved(r) \/ SubmitPut(r)
               \/ Respond(r) \/ Converge(r) \/ Interrupt(r)
        PROVE  FileStep \/ CallStep
    BY <2>3 DEF FileStep, CallStep
  <2> QED
    BY <1>1, <2>1, <2>2, <2>3 DEF ContentsNext
<1>2. CASE RecoveryStep
  BY <1>2 DEF RecoveryStep, Recover, Observe, GiveUp, Store, Replay, Abandon
<1> QED
  BY <1>1, <1>2 DEF Next, RecoveryStep

\* Stated of one position, so that it can be used of the last.
LEMMA LastPosition ==
  ASSUME ContentsTypeOK
  PROVE  Len(history) \in Positions
<1>1. history \in Seq(States) /\ history # <<>>
  BY DEF ContentsTypeOK
<1> QED
  BY <1>1 DEF Positions

\* A FileStep adds one state: an edit of nobody's, or the write of a PUT.
LEMMA FileSteps ==
  ASSUME ContentsTypeOK, IntentsAreReal, PutsFollowCalls, FileStep
  PROVE  \E s \in States :
           /\ history' = Append(history, s)
           /\ UNCHANGED <<semantics, stage, intent, sha>>
           /\ \/ s.by = Other /\ UNCHANGED put
              \/ \E r \in Requests :
                   /\ s = [content |-> intent[r].desired, by |-> r]
                   /\ put[r] = "queued"
                   /\ intent[r] # None
                   /\ Current.version = intent[r].baseline.version
                   /\ \E answer \in {"ok", "unproven"} : put' = [put EXCEPT ![r] = answer]
<1>1. ASSUME NEW c \in Contents \cup {Absent}, Edit(c)
      PROVE  \E s \in States : /\ history' = Append(history, s)
                               /\ UNCHANGED <<semantics, stage, intent, sha>>
                               /\ s.by = Other /\ UNCHANGED put
  <2>1. [content |-> c, by |-> Other] \in States
    BY DEF States
  <2> QED
    BY <1>1, <2>1 DEF Edit
<1>2. ASSUME NEW r \in Requests, ApplyPut(r)
      PROVE  /\ [content |-> intent[r].desired, by |-> r] \in States
             /\ history' = Append(history, [content |-> intent[r].desired, by |-> r])
             /\ UNCHANGED <<semantics, stage, intent, sha>>
             /\ put[r] = "queued"
             /\ intent[r] # None
             /\ Current.version = intent[r].baseline.version
             /\ \E answer \in {"ok", "unproven"} : put' = [put EXCEPT ![r] = answer]
  <2>1. intent[r] # None /\ intent[r] \in Intents
    BY <1>2 DEF ApplyPut, IntentsAreReal, PutsFollowCalls
  <2>2. [content |-> intent[r].desired, by |-> r] \in States
    BY <2>1 DEF States, Intents
  <2>3. sha[r] = intent[r].baseline.version
    BY <1>2 DEF ApplyPut, PutsFollowCalls
  <2> QED
    BY <1>2, <2>1, <2>2, <2>3 DEF ApplyPut, Answer
<1> QED
  BY <1>1, <1>2 DEF FileStep

\* In every step the file only gets longer and intents stay.
LEMMA Monotone ==
  ASSUME PInv, [Next]_vars
  PROVE  Grown /\ IntentsStay
<1> USE DEF PInv, TypeOK
<1>0. history \in Seq(States) /\ history # <<>> /\ intent \in [Requests -> Intents \cup {None}]
  BY DEF ContentsTypeOK
<1>1. CASE FileStep
  <2>1. PICK s \in States : history' = Append(history, s) /\ UNCHANGED <<semantics, intent>>
    BY <1>1, FileSteps
  <2>2. /\ history' \in Seq(States) /\ Positions \subseteq Positions'
        /\ \A i \in Positions : history'[i] = history[i]
        /\ \A i \in Positions : Observation(i)' = Observation(i)
    BY <1>0, <2>1, Appended
  <2>3. history' # <<>>
    BY <1>0, <2>1
  <2> QED
    BY <1>0, <2>1, <2>2, <2>3 DEF Grown, IntentsStay
<1>2. ASSUME UNCHANGED <<semantics, history>>
      PROVE  Grown
  <2>1. Positions' = Positions /\ \A i : Observation(i)' = Observation(i)
    BY <1>2, Untouched
  <2> QED
    BY <1>0, <1>2, <2>1 DEF Grown
<1>3. ASSUME NEW r \in Requests, NEW desired, NEW baseline, Intend(r, desired, baseline)
      PROVE  IntentsStay /\ UNCHANGED <<semantics, history>>
  <2>1. intent[r] = None
    BY <1>3 DEF Intend, IntentsAreReal
  <2> QED
    BY <1>0, <1>3, <2>1 DEF Intend, IntentsStay, provider
<1>4. CASE CallStep
  <2>1. CASE \E r \in Requests, desired \in Contents, i \in Positions : Plan(r, desired, i)
    BY <1>2, <1>3, <2>1 DEF Plan
  <2>2. CASE UNCHANGED <<provider, intent>>
    BY <1>2, <2>2 DEF provider, IntentsStay
  <2> QED
    BY <1>4, <2>1, <2>2 DEF CallStep, RefusePut, AlreadyThere, BaselineMoved, SubmitPut,
                            Respond, Converge, Interrupt, Goto
<1>5. CASE \E q, r \in Requests : Retry(q, r)
  BY <1>2, <1>3, <1>5 DEF Retry
<1>6. CASE UNCHANGED contentsVars
  BY <1>2, <1>6 DEF contentsVars, provider, IntentsStay
<1> QED
  BY <1>1, <1>4, <1>5, <1>6, Groups DEF vars

\* What was seen of the file stays seen.
LEMMA SeenStays ==
  ASSUME PInv, Grown, IntentsStay, NEW r \in Requests, intent[r] # None
  PROVE  /\ DesiredWasSeen(r) => DesiredWasSeen(r)'
         /\ \A o \in Outcomes : Sound(r, o) => Sound(r, o)'
<1>1. /\ intent'[r] = intent[r] /\ intent[r] \in Intents /\ intent[r].baseline.at \in Positions
  BY DEF PInv, IntentsStay, IntentsAreReal
<1>2. DesiredWasSeen(r) => DesiredWasSeen(r)'
  <2>1. Readable(r) \subseteq Positions /\ Readable(r) \subseteq Readable(r)'
    <3>1. history \in Seq(States) /\ history' \in Seq(States)
      BY DEF PInv, TypeOK, ContentsTypeOK, Grown
    <3>2. Len(history) \in Nat /\ Len(history') \in Nat
      BY <3>1
    <3>3. Len(history) <= Len(history')
      <4>1. Len(history) \in Positions
        BY LastPosition DEF PInv, TypeOK
      <4> QED
        BY <3>2, <4>1 DEF Grown, Positions
    <3> QED
      BY <1>1, <3>2, <3>3 DEF Readable, Positions
  <2> QED
    BY <1>1, <2>1 DEF DesiredWasSeen, Grown
<1>3. ASSUME NEW o \in Outcomes, Sound(r, o)
      PROVE  Sound(r, o)'
  BY <1>1, <1>2, <1>3 DEF Sound, Grown
<1> QED
  BY <1>2, <1>3

----------------------------------------------------------------------------
(* What holds of the provider and the calls, step by step.                 *)

CallsInv ==
  /\ ContentsTypeOK
  /\ IntentsAreReal
  /\ PutsFollowCalls
  /\ WritesAreConditional
  /\ SuccessWasSeen

\* Nothing has been asked or written before the first call.
LEMMA InitPInv == Init => PInv
<1> SUFFICES ASSUME Init PROVE PInv
  OBVIOUS
<1> USE DEF Init, ContentsInit
<1>1. PICK c \in Contents \cup {Absent} : history = <<[content |-> c, by |-> Other]>>
  OBVIOUS
<1>2. history \in Seq(States) /\ history # <<>> /\ Len(history) = 1 /\ history[1].by = Other
  <2>1. [content |-> c, by |-> Other] \in States
    BY DEF States
  <2> QED
    BY <1>1, <2>1
<1>3. ContentsTypeOK
  BY <1>2, ContentsAssumption DEF ContentsTypeOK, Stages, Versions, Puts
<1>4. TypeOK
  BY <1>3 DEF TypeOK
<1>5. IntentsAreReal /\ PutsFollowCalls /\ SuccessWasSeen
  BY DEF IntentsAreReal, PutsFollowCalls, SuccessWasSeen
<1>6. WritesAreConditional
  BY <1>2, ContentsAssumption DEF WritesAreConditional, Wrote, Positions
<1>7. OutcomesAreSound /\ FamiliesShareARevision /\ AnswersAreOnRecord
  BY DEF OutcomesAreSound, FamiliesShareARevision, AnswersAreOnRecord
<1> QED
  BY <1>4, <1>5, <1>6, <1>7 DEF PInv

\* An edit or a PUT that is applied: the new state replaces the version the
\* PUT is conditional on, and its author had written nothing before.
LEMMA FileStepInv ==
  ASSUME PInv, FileStep, edits' \in 0..MaxEdits
  PROVE  CallsInv'
<1> USE DEF PInv, TypeOK
<1>0. /\ history \in Seq(States) /\ put \in [Requests -> Puts]
      /\ Len(history) \in Positions /\ Len(history) \in Nat
  BY LastPosition DEF ContentsTypeOK, Positions
<1>1. PICK s \in States :
        /\ history' = Append(history, s)
        /\ UNCHANGED <<semantics, stage, intent, sha>>
        /\ \/ s.by = Other /\ UNCHANGED put
           \/ \E r \in Requests :
                /\ s = [content |-> intent[r].desired, by |-> r]
                /\ put[r] = "queued"
                /\ intent[r] # None
                /\ Current.version = intent[r].baseline.version
                /\ \E answer \in {"ok", "unproven"} : put' = [put EXCEPT ![r] = answer]
  BY FileSteps
<1>n. PICK n \in Nat : n = Len(history) + 1
  BY <1>0
<1>2. /\ history' \in Seq(States) /\ Len(history') = n
      /\ Positions' = Positions \cup {n} /\ n \notin Positions
      /\ history'[n] = s
      /\ \A i \in Positions : history'[i] = history[i]
      /\ \A i \in Positions : Observation(i)' = Observation(i)
      /\ \A r \in Requests : \A i \in Positions : Wrote(r, i)' = Wrote(r, i)
  <2>1. n \notin Positions
    BY <1>0, <1>n DEF Positions
  <2> QED
    BY <1>0, <1>1, <1>n, <2>1, Appended
<1>3. \A r \in Requests : Wrote(r, n)' <=> s.by = r
  BY <1>2 DEF Wrote
<1>4. history' # <<>>
  BY <1>n, <1>2
<1>5. CASE s.by = Other /\ UNCHANGED put
  <2>1. \A r \in Requests : ~ Wrote(r, n)'
    BY <1>3, <1>5, ContentsAssumption
  <2>2. ContentsTypeOK'
    BY <1>1, <1>2, <1>4, <1>5 DEF ContentsTypeOK
  <2>3. IntentsAreReal'
    BY <1>1, <1>2 DEF IntentsAreReal
  <2>4. PutsFollowCalls'
    BY <1>1, <1>5 DEF PutsFollowCalls
  <2>5. WritesAreConditional'
    BY <1>1, <1>2, <1>5, <2>1 DEF WritesAreConditional
  <2>6. SuccessWasSeen'
    <3> SUFFICES ASSUME NEW r \in Requests, put[r] = "ok" \/ stage[r] = "dispatched"
                 PROVE  DesiredWasSeen(r)'
      BY <1>1, <1>5 DEF SuccessWasSeen
    <3>1. PICK i \in Readable(r) : history[i].content = intent[r].desired
      BY DEF SuccessWasSeen, DesiredWasSeen
    <3>2. intent[r] # None
      BY DEF IntentsAreReal, PutsFollowCalls
    <3>3. i \in Positions /\ i \in Readable(r)'
      BY <1>0, <1>n, <1>1, <1>2, <3>1, <3>2 DEF Readable, Positions, IntentsAreReal
    <3> QED
      BY <1>1, <1>2, <3>1, <3>3 DEF DesiredWasSeen
  <2> QED
    BY <2>2, <2>3, <2>4, <2>5, <2>6 DEF CallsInv
<1>6. CASE ~ (s.by = Other /\ UNCHANGED put)
  <2>1. PICK r \in Requests :
          /\ s = [content |-> intent[r].desired, by |-> r]
          /\ put[r] = "queued"
          /\ intent[r] # None
          /\ Current.version = intent[r].baseline.version
          /\ \E answer \in {"ok", "unproven"} : put' = [put EXCEPT ![r] = answer]
    BY <1>1, <1>6
  <2>2. put' \in [Requests -> Puts] /\ put'[r] \in {"ok", "unproven"}
        /\ \A q \in Requests \ {r} : put'[q] = put[q]
    BY <1>0, <2>1 DEF Puts, Answers
  <2>3. /\ Wrote(r, n)'
        /\ \A q \in Requests \ {r} : ~ Wrote(q, n)'
        /\ \A i \in Positions : ~ Wrote(r, i)'
    BY <1>2, <1>3, <2>1 DEF WritesAreConditional
  <2>4. ContentsTypeOK'
    BY <1>1, <1>2, <1>4, <2>2 DEF ContentsTypeOK
  <2>5. IntentsAreReal'
    BY <1>1, <1>2 DEF IntentsAreReal
  <2>6. PutsFollowCalls'
    <3>1. stage[r] \notin {"idle", "reading", "rereading", "blocked", "failed"}
      BY <2>1 DEF PutsFollowCalls
    <3> QED
      BY <1>1, <2>1, <2>2, <3>1 DEF PutsFollowCalls
  <2>7. WritesAreConditional'
    <3>1. /\ n - 1 \in Positions /\ n - 1 = Len(history)
          /\ Observation(n - 1)' = Current
      BY <1>0, <1>n, <1>2 DEF Current
    <3>2. ASSUME NEW q \in Requests, NEW i \in Positions', Wrote(q, i)'
          PROVE  /\ put'[q] \in {"ok", "unproven"}
                 /\ i - 1 \in Positions'
                 /\ Observation(i - 1)'.version = intent'[q].baseline.version
      <4>1. CASE i = n
        BY <1>1, <1>2, <2>1, <2>2, <2>3, <3>1, <3>2, <4>1
      <4>2. CASE i # n
        <5>1. i \in Positions /\ Wrote(q, i) /\ q # r
          BY <1>2, <2>3, <3>2, <4>2
        <5>2. put[q] \in {"ok", "unproven"} /\ i - 1 \in Positions
              /\ Observation(i - 1).version = intent[q].baseline.version
          BY <5>1 DEF WritesAreConditional
        <5> QED
          BY <1>1, <1>2, <2>2, <5>1, <5>2
      <4> QED
        BY <4>1, <4>2
    <3>3. ASSUME NEW q \in Requests, NEW i \in Positions', NEW j \in Positions',
                 Wrote(q, i)', Wrote(q, j)'
          PROVE  i = j
      BY <1>2, <2>3, <3>3 DEF WritesAreConditional
    <3> QED
      BY <3>2, <3>3 DEF WritesAreConditional
  <2>8. SuccessWasSeen'
    <3> SUFFICES ASSUME NEW q \in Requests, put'[q] = "ok" \/ stage[q] = "dispatched"
                 PROVE  DesiredWasSeen(q)'
      BY <1>1 DEF SuccessWasSeen
    <3>1. CASE q = r
      <4>1. n \in Readable(q)'
        BY <1>0, <1>n, <1>1, <1>2, <2>1, <3>1 DEF Readable, Positions, IntentsAreReal
      <4> QED
        BY <1>1, <1>2, <2>1, <3>1, <4>1 DEF DesiredWasSeen
    <3>2. CASE q # r
      <4>1. PICK i \in Readable(q) : history[i].content = intent[q].desired
        BY <2>2, <3>2 DEF SuccessWasSeen, DesiredWasSeen
      <4>2. intent[q] # None
        BY <2>2, <3>2 DEF IntentsAreReal, PutsFollowCalls
      <4>3. i \in Positions /\ i \in Readable(q)'
        BY <1>0, <1>n, <1>1, <1>2, <4>1, <4>2 DEF Readable, Positions, IntentsAreReal
      <4> QED
        BY <1>1, <1>2, <4>1, <4>3 DEF DesiredWasSeen
    <3> QED
      BY <3>1, <3>2
  <2> QED
    BY <2>4, <2>5, <2>6, <2>7, <2>8 DEF CallsInv
<1> QED
  BY <1>5, <1>6

\* A new call starts from a state the file has had.
LEMMA IntendInv ==
  ASSUME PInv, NEW r \in Requests, NEW desired \in Contents, NEW i \in Positions,
         Intend(r, desired, Observation(i))
  PROVE  CallsInv'
<1> USE DEF PInv, TypeOK, Intend
<1> DEFINE new == [desired |-> desired, baseline |-> Observation(i)]
<1>1. /\ UNCHANGED <<semantics, history, edits, sha, put>>
      /\ stage[r] = "idle" /\ intent[r] = None /\ put[r] = "none"
      /\ intent' = [intent EXCEPT ![r] = new] /\ stage' = [stage EXCEPT ![r] = "reading"]
      /\ stage \in [Requests -> Stages] /\ intent \in [Requests -> Intents \cup {None}]
      /\ semantics \in Semantics /\ history \in Seq(States) /\ i \in 1..Len(history)
  BY DEF provider, IntentsAreReal, PutsFollowCalls, ContentsTypeOK, Positions
<1>2. /\ Observation(i) \in Observations /\ Observation(i).at = i
  BY <1>1, ObservationType
<1>3. new \in Intents /\ new # None
  <2>1. new \in Intents
    BY <1>2 DEF Intents
  <2> QED
    BY <2>1, NoneIsNoIntent
<1>4. /\ \A j : Observation(j)' = Observation(j)
      /\ \A q, j : Wrote(q, j)' = Wrote(q, j)
      /\ Positions' = Positions
  BY <1>1, Untouched
<1>5. /\ intent'[r] = new /\ stage'[r] = "reading"
      /\ \A q \in Requests \ {r} : intent'[q] = intent[q] /\ stage'[q] = stage[q]
      /\ intent' \in [Requests -> Intents \cup {None}] /\ stage' \in [Requests -> Stages]
  BY <1>1, <1>3 DEF Stages
<1> HIDE DEF new
<1>6. ContentsTypeOK'
  BY <1>1, <1>5 DEF ContentsTypeOK
<1>7. IntentsAreReal'
  <2>1. new.baseline.at = i /\ new.baseline = Observation(i)
    BY <1>2 DEF new
  <2> QED
    BY <1>3, <1>4, <1>5, <2>1 DEF IntentsAreReal
<1>8. PutsFollowCalls'
  BY <1>1, <1>5 DEF PutsFollowCalls
<1>9. WritesAreConditional'
  <2>1. \A j \in Positions : ~ Wrote(r, j)
    BY <1>1 DEF WritesAreConditional
  <2> QED
    BY <1>1, <1>4, <1>5, <2>1 DEF WritesAreConditional
<1>10. SuccessWasSeen'
  <2> SUFFICES ASSUME NEW q \in Requests, put'[q] = "ok" \/ stage'[q] = "dispatched"
               PROVE  DesiredWasSeen(q)'
    BY DEF SuccessWasSeen
  <2>1. q # r /\ (put[q] = "ok" \/ stage[q] = "dispatched")
    BY <1>1, <1>5
  <2> QED
    BY <1>1, <1>5, <2>1 DEF SuccessWasSeen, DesiredWasSeen, Readable
<1> QED
  BY <1>6, <1>7, <1>8, <1>9, <1>10 DEF CallsInv

\* A step that leaves the file, the plans and the PUTs that may have written
\* alone, and receipts as dispatched only what was seen.
LEMMA StageInv ==
  ASSUME PInv, UNCHANGED <<semantics, history, edits, intent>>,
         NEW r \in Requests, NEW s \in Stages \ {"idle"}, NEW a \in Puts,
         stage[r] # "idle", stage' = [stage EXCEPT ![r] = s],
         put' = [put EXCEPT ![r] = a], sha' \in [Requests -> Versions],
         \A q \in Requests \ {r} : sha'[q] = sha[q],
         a # "none" => sha'[r] = intent[r].baseline.version,
         put[r] \in {"ok", "unproven"} => a = put[r],
         s = "reading" => a = "none",
         s = "rereading" => a = "conflict",
         s = "blocked" => a \in {"none", "conflict"},
         s = "failed" => a = "rejected",
         a = "ok" \/ s = "dispatched" => DesiredWasSeen(r)
  PROVE  CallsInv'
<1> USE DEF PInv, TypeOK
<1>1. /\ \A j : Observation(j)' = Observation(j)
      /\ \A q, j : Wrote(q, j)' = Wrote(q, j)
      /\ Positions' = Positions
  BY Untouched
<1>2. /\ stage \in [Requests -> Stages] /\ put \in [Requests -> Puts]
  BY DEF ContentsTypeOK
<1>3. /\ stage'[r] = s /\ put'[r] = a
      /\ stage' \in [Requests -> Stages] /\ put' \in [Requests -> Puts]
      /\ \A q \in Requests \ {r} : stage'[q] = stage[q] /\ put'[q] = put[q]
  BY <1>2
<1>4. ContentsTypeOK'
  BY <1>3 DEF ContentsTypeOK
<1>5. IntentsAreReal'
  BY <1>1, <1>3 DEF IntentsAreReal
<1>6. PutsFollowCalls'
  BY <1>3 DEF PutsFollowCalls
<1>7. WritesAreConditional'
  BY <1>1, <1>3 DEF WritesAreConditional
<1>8. SuccessWasSeen'
  BY <1>3 DEF SuccessWasSeen, DesiredWasSeen, Readable
<1> QED
  BY <1>4, <1>5, <1>6, <1>7, <1>8 DEF CallsInv

\* Every other step of a call.
LEMMA CallStepInv ==
  ASSUME PInv, CallStep
  PROVE  CallsInv'
<1> USE DEF PInv, TypeOK
<1>0. /\ stage \in [Requests -> Stages] /\ put \in [Requests -> Puts]
      /\ sha \in [Requests -> Versions]
  BY DEF ContentsTypeOK
<1>1. ASSUME NEW r \in Requests, NEW desired \in Contents, NEW i \in Positions,
             Plan(r, desired, i)
      PROVE  CallsInv'
  BY <1>1, IntendInv DEF Plan
<1>2. ASSUME NEW r \in Requests, RefusePut(r)
      PROVE  CallsInv'
  <2>1. PICK a \in Answers \ {"ok"} : put' = [put EXCEPT ![r] = a]
    BY <1>2 DEF RefusePut, Answer
  <2>2. /\ put[r] = "queued" /\ UNCHANGED <<semantics, history, edits, stage, intent, sha>>
    BY <1>2 DEF RefusePut, provider
  <2>3. stage[r] \in Stages \ {"idle", "reading", "rereading", "blocked", "failed"}
    BY <1>0, <2>2 DEF PutsFollowCalls
  <2>4. stage' = [stage EXCEPT ![r] = stage[r]]
    BY <1>0, <2>2
  <2>5. a \in Puts /\ sha'[r] = intent[r].baseline.version
    BY <2>1, <2>2 DEF Puts, PutsFollowCalls
  <2>6. stage[r] = "dispatched" => DesiredWasSeen(r)
    BY DEF SuccessWasSeen
  <2> QED
    BY <1>0, <2>1, <2>2, <2>3, <2>4, <2>5, <2>6, StageInv
<1>3. ASSUME NEW r \in Requests, NEW s \in Stages \ {"idle"}, Goto(r, s),
             UNCHANGED <<sha, put>>, stage[r] # "idle",
             s = "reading" => put[r] = "none",
             s = "rereading" => put[r] = "conflict",
             s = "blocked" => put[r] \in {"none", "conflict"},
             s = "failed" => put[r] = "rejected",
             s = "dispatched" => DesiredWasSeen(r)
      PROVE  CallsInv'
  <2>1. /\ UNCHANGED <<semantics, history, edits, intent>>
        /\ stage' = [stage EXCEPT ![r] = s]
    BY <1>3 DEF Goto, provider
  <2>2. put' = [put EXCEPT ![r] = put[r]] /\ put[r] \in Puts
        /\ sha' \in [Requests -> Versions] /\ \A q \in Requests : sha'[q] = sha[q]
    BY <1>0, <1>3
  <2>3. put[r] # "none" => sha'[r] = intent[r].baseline.version
    BY <1>3 DEF PutsFollowCalls
  <2>4. put[r] = "ok" => DesiredWasSeen(r)
    BY DEF SuccessWasSeen
  <2> QED
    BY <1>3, <2>1, <2>2, <2>3, <2>4, StageInv
<1>4. ASSUME NEW r \in Requests, AlreadyThere(r)
      PROVE  CallsInv'
  BY <1>3, <1>4 DEF AlreadyThere, DesiredWasSeen, Stages, Receipts
<1>5. ASSUME NEW r \in Requests, BaselineMoved(r)
      PROVE  CallsInv'
  BY <1>3, <1>5 DEF BaselineMoved, Stages, Receipts, PutsFollowCalls
<1>6. ASSUME NEW r \in Requests, SubmitPut(r)
      PROVE  CallsInv'
  <2>1. PICK i \in Readable(r) :
          /\ SameBaseline(Observation(i), intent[r].baseline)
          /\ sha' = [sha EXCEPT ![r] = Observation(i).version]
    BY <1>6 DEF SubmitPut
  <2>2. /\ stage[r] = "reading" /\ put[r] = "none" /\ put' = [put EXCEPT ![r] = "queued"]
        /\ stage' = [stage EXCEPT ![r] = "sent"]
        /\ UNCHANGED <<semantics, history, edits, intent>>
    BY <1>6 DEF SubmitPut, PutsFollowCalls, Answer, Goto, provider
  <2>3. Observation(i).version = intent[r].baseline.version
    BY <2>1 DEF SameBaseline
  <2>4. intent[r].baseline.version \in Versions
    BY <2>2 DEF IntentsAreReal, Intents, Observations
  <2>5. /\ sha' \in [Requests -> Versions] /\ sha'[r] = intent[r].baseline.version
        /\ \A q \in Requests \ {r} : sha'[q] = sha[q]
    BY <1>0, <2>1, <2>3, <2>4
  <2>6. "sent" \in Stages \ {"idle"} /\ "queued" \in Puts
    BY DEF Stages, Puts
  <2> QED
    BY <2>2, <2>5, <2>6, StageInv
<1>7. ASSUME NEW r \in Requests, Respond(r)
      PROVE  CallsInv'
  <2> DEFINE s == ReceiptFor(put[r])
  <2>1. put[r] = "ok" => DesiredWasSeen(r)
    BY DEF SuccessWasSeen
  <2>2. /\ s \in Stages \ {"idle", "reading", "blocked"}
        /\ s = "rereading" => put[r] = "conflict"
        /\ s = "failed" => put[r] = "rejected"
        /\ s = "dispatched" => put[r] = "ok"
    BY DEF ReceiptFor, Stages, Receipts
  <2>3. Goto(r, s) /\ UNCHANGED <<sha, put>> /\ stage[r] # "idle"
    BY <1>7 DEF Respond
  <2> HIDE DEF s
  <2> QED
    BY <1>3, <2>1, <2>2, <2>3
<1>8. ASSUME NEW r \in Requests, Converge(r)
      PROVE  CallsInv'
  <2>1. PICK s \in {"dispatched", "blocked"} :
          Goto(r, s) /\ (s = "dispatched" => DesiredWasSeen(r))
    BY <1>8 DEF Converge, DesiredWasSeen
  <2>2. /\ stage[r] = "rereading" /\ put[r] = "conflict" /\ UNCHANGED <<sha, put>>
        /\ s \in Stages \ {"idle"}
    BY <1>8 DEF Converge, PutsFollowCalls, Stages, Receipts
  <2> QED
    BY <1>3, <2>1, <2>2
<1>9. ASSUME NEW r \in Requests, Interrupt(r)
      PROVE  CallsInv'
  BY <1>3, <1>9 DEF Interrupt, Stages
<1> QED
  BY <1>1, <1>2, <1>4, <1>5, <1>6, <1>7, <1>8, <1>9 DEF CallStep

----------------------------------------------------------------------------
(* What holds of the recoveries, step by step.                             *)

RecoveryTypeOK ==
  /\ job \in [Recoverers -> Jobs \cup {None}]
  /\ record \in [Requests -> Outcomes \cup {None}]
  /\ answers \in [Requests -> SUBSET Outcomes]
  /\ family \in [Requests -> Requests]

RecoveriesInv ==
  /\ RecoveryTypeOK
  /\ OutcomesAreSound
  /\ FamiliesShareARevision
  /\ AnswersAreOnRecord

\* A retry is approved over a state the file has had: the one that its
\* recovery observed, at the revision of the first request's baseline.
LEMMA RetryIntends ==
  ASSUME PInv, NEW q \in Requests, NEW r \in Requests, Retry(q, r)
  PROVE  /\ semantics = "monotonic_revision"
         /\ intent[q] = None /\ intent[r] # None /\ q # r
         /\ intent[r].baseline.content # Absent
         /\ \E i \in Positions :
              /\ Intend(q, intent[r].desired, Observation(i))
              /\ Observation(i).content = intent[r].baseline.content
              /\ Observation(i).version = intent[r].baseline.version
         /\ intent[r].desired \in Contents
<1>1. /\ record[r] # None /\ record[r].disposition = "requires_new_authorization"
      /\ Intend(q, intent[r].desired, record[r].observation)
  BY DEF Retry
<1>2. Sound(r, record[r]) /\ intent[r] # None
  BY <1>1 DEF PInv, OutcomesAreSound
<1>3. intent[q] = None
  BY <1>1 DEF PInv, IntentsAreReal, Intend
<1>4. intent[r].desired \in Contents
  BY <1>2 DEF PInv, IntentsAreReal, Intents
<1> QED
  BY <1>1, <1>2, <1>3, <1>4 DEF Sound

\* What was concluded stays true while the file and the calls go on.
LEMMA ConclusionsStay ==
  ASSUME PInv, Grown, IntentsStay, UNCHANGED <<job, record, answers>>
  PROVE  OutcomesAreSound' /\ AnswersAreOnRecord'
<1> USE DEF PInv, TypeOK
<1>1. ASSUME NEW p \in Recoverers, job[p] # None
      PROVE  /\ intent'[job[p].request] # None
             /\ job[p].outcome # None => Sound(job[p].request, job[p].outcome)'
  <2>1. job[p].request \in Requests /\ job[p].outcome \in Outcomes \cup {None}
    BY <1>1 DEF Jobs
  <2>2. intent[job[p].request] # None
        /\ (job[p].outcome # None => Sound(job[p].request, job[p].outcome))
    BY <1>1 DEF OutcomesAreSound
  <2>3. PICK r \in Requests : r = job[p].request
    BY <2>1
  <2>4. ASSUME job[p].outcome # None
        PROVE  Sound(job[p].request, job[p].outcome)'
    <3>1. PICK o \in Outcomes : o = job[p].outcome
      BY <2>1, <2>4
    <3>2. Sound(r, o)'
      BY <2>2, <2>3, <2>4, <3>1, SeenStays
    <3>3. job'[p].request = r /\ job'[p].outcome = o
      BY <2>3, <3>1
    <3> QED
      BY <3>2, <3>3
  <2> QED
    BY <2>1, <2>2, <2>4 DEF IntentsStay
<1>2. ASSUME NEW r \in Requests, record[r] # None
      PROVE  intent'[r] # None /\ Sound(r, record[r])'
  <2>1. intent[r] # None /\ Sound(r, record[r]) /\ record[r] \in Outcomes
    BY <1>2 DEF OutcomesAreSound
  <2>2. PICK o \in Outcomes : o = record[r]
    BY <2>1
  <2>3. Sound(r, o)'
    BY <2>1, <2>2, SeenStays
  <2>4. record'[r] = o
    BY <2>2
  <2> QED
    BY <2>1, <2>3, <2>4 DEF IntentsStay
<1>3. OutcomesAreSound'
  BY <1>1, <1>2 DEF OutcomesAreSound
<1> QED
  BY <1>3 DEF AnswersAreOnRecord

\* Steps of the file and of calls are seen by no recovery.
LEMMA BesideRecoveries ==
  ASSUME PInv, Grown, IntentsStay, UNCHANGED recoveryVars
  PROVE  RecoveriesInv'
<1> USE DEF PInv, TypeOK, recoveryVars
<1>1. RecoveryTypeOK'
  BY DEF RecoveryTypeOK
<1>2. FamiliesShareARevision'
  BY DEF FamiliesShareARevision, Grown, IntentsStay
<1> QED
  BY <1>1, <1>2, ConclusionsStay DEF RecoveriesInv

\* A retry joins the family of the request it retries.
LEMMA RetryInv ==
  ASSUME PInv, Grown, IntentsStay, NEW q \in Requests, NEW r \in Requests, Retry(q, r)
  PROVE  CallsInv' /\ RecoveriesInv'
<1> USE DEF PInv, TypeOK
<1>1. PICK i \in Positions :
        /\ Intend(q, intent[r].desired, Observation(i))
        /\ Observation(i).version = intent[r].baseline.version
        /\ Observation(i).content = intent[r].baseline.content
  BY RetryIntends
<1>2. /\ semantics = "monotonic_revision"
      /\ intent[q] = None /\ intent[r] # None /\ q # r
      /\ intent[r].baseline.content # Absent
      /\ intent[r].desired \in Contents
  BY RetryIntends
<1>3. CallsInv'
  BY <1>1, <1>2, IntendInv
<1>4. family \in [Requests -> Requests] /\ UNCHANGED <<job, record, answers>>
      /\ family' = [family EXCEPT ![q] = family[r]]
  BY DEF Retry
<1>5. RecoveryTypeOK'
  BY <1>4 DEF RecoveryTypeOK
<1>6. FamiliesShareARevision'
  <2>1. /\ semantics' = semantics
        /\ \A s \in Requests : intent[s] # None => intent'[s] = intent[s]
    BY DEF Grown, IntentsStay
  <2>2. /\ intent'[q] = [desired |-> intent[r].desired, baseline |-> Observation(i)]
        /\ intent'[q] # None
    <3>1. intent \in [Requests -> Intents \cup {None}]
      BY DEF ContentsTypeOK
    <3>2. intent' = [intent EXCEPT ![q] = [desired |-> intent[r].desired,
                                           baseline |-> Observation(i)]]
          /\ stage' = [stage EXCEPT ![q] = "reading"]
      BY <1>1 DEF Intend
    <3>3. stage'[q] # "idle"
      BY <3>2 DEF ContentsTypeOK
    <3> QED
      BY <1>3, <3>1, <3>2, <3>3 DEF CallsInv, IntentsAreReal
  <2>3. \A s \in Requests \ {q} : family[s] # family[q]
    BY <1>2 DEF FamiliesShareARevision
  <2>4. ASSUME NEW s \in Requests \ {q}, family'[s] = family'[q]
        PROVE  /\ intent'[s] # None /\ intent'[s].baseline.content # Absent
               /\ intent'[s].baseline.version = intent'[q].baseline.version
    <3>1. family[s] = family[r]
      BY <1>2, <1>4, <2>4
    <3>2. /\ intent[s] # None /\ intent[s].baseline.content # Absent
          /\ intent[s].baseline.version = intent[r].baseline.version
      BY <1>2, <3>1 DEF FamiliesShareARevision
    <3> QED
      BY <1>1, <2>1, <2>2, <3>2
  <2>5. intent'[q].baseline.content # Absent
    BY <1>1, <1>2, <2>2
  <2>6. ASSUME NEW s \in Requests \ {q}, NEW t \in Requests \ {q}, s # t,
               family'[s] = family'[t]
        PROVE  /\ intent'[s] # None /\ intent'[t] # None
               /\ intent'[s].baseline.content # Absent
               /\ intent'[s].baseline.version = intent'[t].baseline.version
    <3>1. family[s] = family[t]
      BY <1>4, <2>6
    <3> QED
      BY <2>1, <2>6, <3>1 DEF FamiliesShareARevision
  <2> QED
    BY <1>2, <2>1, <2>2, <2>4, <2>5, <2>6 DEF FamiliesShareARevision
<1> QED
  BY <1>3, <1>4, <1>5, <1>6, ConclusionsStay DEF RecoveriesInv

\* A classification is an outcome, and true of what was read.
LEMMA ClassifySound ==
  ASSUME PInv, NEW r \in Requests, intent[r] # None, NEW i \in Readable(r),
         NEW stamp \in Stamps
  PROVE  /\ Classify(intent[r], Observation(i), stamp) \in Outcomes
         /\ Sound(r, Classify(intent[r], Observation(i), stamp))
<1>1. /\ semantics \in Semantics /\ history \in Seq(States)
      /\ intent[r].baseline.at \in Positions /\ intent[r] \in Intents
  BY DEF PInv, TypeOK, ContentsTypeOK, IntentsAreReal
<1>2. i \in Positions
  BY <1>1 DEF Readable, Positions
<1>3. /\ Observation(i) \in Observations /\ Observation(i).at = i
      /\ Observation(i).content = history[i].content
  BY <1>1, <1>2, ObservationType DEF Positions
<1>4. Observation(i) # None
  BY <1>3, NoneIsNoIntent
<1> DEFINE seen == Observation(i)
           o == Classify(intent[r], seen, stamp)
<1>5. CASE ProvesApplication(intent[r], seen)
  <2>1. o = [state |-> "confirmed_applied", reason |-> "DESIRED_FINGERPRINT_OBSERVED",
             disposition |-> "do_not_retry_reconcile", observation |-> seen, stamp |-> stamp]
    BY <1>5 DEF Classify
  <2>2. o \in Outcomes
    BY <1>3, <2>1 DEF Outcomes, Dispositions
  <2>3. DesiredWasSeen(r)
    BY <1>3, <1>5 DEF ProvesApplication, DesiredWasSeen
  <2> QED
    BY <1>2, <1>3, <2>1, <2>2, <2>3 DEF Sound
<1>6. CASE ~ ProvesApplication(intent[r], seen) /\ ProvesNonApplication(intent[r].baseline, seen)
  <2>1. o = [state |-> "confirmed_not_applied",
             reason |-> "BASELINE_MONOTONIC_REVISION_UNCHANGED",
             disposition |-> "requires_new_authorization",
             observation |-> seen, stamp |-> stamp]
    BY <1>6 DEF Classify
  <2>2. o \in Outcomes
    BY <1>3, <2>1 DEF Outcomes, Dispositions
  <2>3. /\ seen.content = intent[r].baseline.content
        /\ seen.version = intent[r].baseline.version
        /\ intent[r].baseline.content # Absent
        /\ seen.semantics = "monotonic_revision"
    BY <1>6 DEF ProvesNonApplication, Unchanged, SameBaseline
  <2>4. semantics = "monotonic_revision"
    BY <2>3 DEF Observation
  <2> QED
    BY <1>2, <1>3, <1>4, <2>1, <2>2, <2>3, <2>4 DEF Sound
<1>7. CASE ~ ProvesApplication(intent[r], seen) /\ ~ ProvesNonApplication(intent[r].baseline, seen)
  <2>1. o = Unresolved(WhyUnknown(intent[r].baseline, seen), seen, stamp)
    BY <1>7 DEF Classify
  <2>2. WhyUnknown(intent[r].baseline, seen) \in
          {"ABSENCE_HISTORY_UNPROVEN", "BASELINE_RESTORATION_AMBIGUOUS", "PROVIDER_STATE_DIVERGED"}
    BY DEF WhyUnknown
  <2>3. o \in Outcomes
    BY <1>3, <2>1, <2>2 DEF Outcomes, Dispositions, Unresolved
  <2> QED
    BY <1>2, <1>3, <2>1, <2>3 DEF Sound, Unresolved
<1> QED
  BY <1>5, <1>6, <1>7

\* One recovery changed at a time.
LEMMA JobInv ==
  ASSUME PInv, UNCHANGED <<contentsVars, record, answers, family>>,
         NEW p \in Recoverers, NEW new \in Jobs \cup {None}, job' = [job EXCEPT ![p] = new],
         new # None => /\ intent[new.request] # None
                       /\ new.outcome = None => new.reads < Attempts
                       /\ new.outcome # None => Sound(new.request, new.outcome)
  PROVE  CallsInv' /\ RecoveriesInv'
<1> USE DEF PInv, TypeOK
<1>1. UNCHANGED <<semantics, history, edits, stage, intent, sha, put>>
  BY DEF contentsVars, provider
<1>2. CallsInv'
  BY <1>1 DEF CallsInv, ContentsTypeOK, IntentsAreReal, PutsFollowCalls, WritesAreConditional,
              SuccessWasSeen, DesiredWasSeen, Readable, Positions, Observation, Wrote
<1>3. \A r, o : Sound(r, o)' <=> Sound(r, o)
  BY <1>1 DEF Sound, Positions, Observation, DesiredWasSeen, Readable
<1>4. /\ job'[p] = new
      /\ \A s \in Recoverers \ {p} : job'[s] = job[s]
  OBVIOUS
<1>5. RecoveryTypeOK'
  BY DEF RecoveryTypeOK
<1>6. OutcomesAreSound'
  <2>1. ASSUME NEW s \in Recoverers, job'[s] # None
        PROVE  /\ intent'[job'[s].request] # None
               /\ job'[s].outcome = None => job'[s].reads < Attempts
               /\ job'[s].outcome # None => Sound(job[s].request, job[s].outcome)'
    <3>1. /\ intent[job'[s].request] # None
          /\ job'[s].outcome = None => job'[s].reads < Attempts
          /\ job'[s].outcome # None => Sound(job'[s].request, job'[s].outcome)
      <4>1. CASE s = p
        BY <1>4, <2>1, <4>1
      <4>2. CASE s # p
        BY <1>4, <2>1, <4>2 DEF OutcomesAreSound
      <4> QED
        BY <4>1, <4>2
    <3>2. PICK r, o : r = job'[s].request /\ o = job'[s].outcome
      OBVIOUS
    <3>3. Sound(r, o)' <=> Sound(r, o)
      BY <1>3
    <3> QED
      BY <1>1, <3>1, <3>2, <3>3
  <2>2. ASSUME NEW r \in Requests, record'[r] # None
        PROVE  intent'[r] # None /\ Sound(r, record[r])'
    <3>1. PICK o : o = record[r]
      OBVIOUS
    <3>2. Sound(r, o)' <=> Sound(r, o)
      BY <1>3
    <3> QED
      BY <1>1, <2>2, <3>1, <3>2 DEF OutcomesAreSound
  <2> QED
    BY <2>1, <2>2 DEF OutcomesAreSound
<1>7. FamiliesShareARevision' /\ AnswersAreOnRecord'
  BY <1>1 DEF FamiliesShareARevision, AnswersAreOnRecord
<1> QED
  BY <1>2, <1>5, <1>6, <1>7 DEF RecoveriesInv

\* A recovery that answers has its outcome on record, its own or the same
\* evidence.
LEMMA AnswerInv ==
  ASSUME PInv, NEW p \in Recoverers, Store(p) \/ Replay(p)
  PROVE  CallsInv' /\ RecoveriesInv'
<1> USE DEF PInv, TypeOK
<1>1. /\ job[p] # None /\ job[p].outcome # None /\ job' = [job EXCEPT ![p] = None]
      /\ UNCHANGED <<contentsVars, family>>
      /\ Reply(p)
  BY DEF Store, Replay, Concluded, Forget
<1>2. UNCHANGED <<semantics, history, edits, stage, intent, sha, put>>
  BY <1>1 DEF contentsVars, provider
<1>3. /\ job[p].request \in Requests /\ job[p].outcome \in Outcomes
      /\ intent[job[p].request] # None /\ Sound(job[p].request, job[p].outcome)
  BY <1>1 DEF Jobs, OutcomesAreSound
<1>4. PICK r \in Requests, o \in Outcomes : r = job[p].request /\ o = job[p].outcome
  BY <1>3
<1>5. answers' = [answers EXCEPT ![r] = @ \cup {o}]
  BY <1>1, <1>4 DEF Reply
<1>6. \/ record[r] = None /\ record' = [record EXCEPT ![r] = o]
      \/ record[r] # None /\ record' = record /\ Evidence(record[r]) = Evidence(o)
  BY <1>4 DEF Store, Replay, SameEvidence
<1>7. CallsInv'
  BY <1>2 DEF CallsInv, ContentsTypeOK, IntentsAreReal, PutsFollowCalls, WritesAreConditional,
              SuccessWasSeen, DesiredWasSeen, Readable, Positions, Observation, Wrote
<1>8. RecoveryTypeOK'
  BY <1>1, <1>5, <1>6 DEF RecoveryTypeOK
<1>9. OutcomesAreSound'
  <2>0. \A q, u : Sound(q, u)' <=> Sound(q, u)
    BY <1>2 DEF Sound, Positions, Observation, DesiredWasSeen, Readable
  <2>1. ASSUME NEW s \in Recoverers, job'[s] # None
        PROVE  /\ intent'[job'[s].request] # None
               /\ job'[s].outcome = None => job'[s].reads < Attempts
               /\ job'[s].outcome # None => Sound(job[s].request, job[s].outcome)'
    <3>1. s # p /\ job'[s] = job[s]
      BY <1>1, <2>1
    <3>2. PICK q, u : q = job[s].request /\ u = job[s].outcome
      OBVIOUS
    <3>3. Sound(q, u)' <=> Sound(q, u)
      BY <2>0
    <3> QED
      BY <1>2, <2>1, <3>1, <3>2, <3>3 DEF OutcomesAreSound
  <2>2. ASSUME NEW q \in Requests, record'[q] # None
        PROVE  intent'[q] # None /\ Sound(q, record[q])'
    <3>1. intent[q] # None /\ Sound(q, record'[q])
      <4>1. CASE q = r /\ record[r] = None
        BY <1>3, <1>4, <1>6, <4>1
      <4>2. CASE ~ (q = r /\ record[r] = None)
        BY <1>6, <2>2, <4>2 DEF OutcomesAreSound
      <4> QED
        BY <4>1, <4>2
    <3>2. PICK u : u = record'[q]
      OBVIOUS
    <3>3. Sound(q, u)' <=> Sound(q, u)
      BY <2>0
    <3> QED
      BY <1>2, <3>1, <3>2, <3>3
  <2> QED
    BY <2>1, <2>2 DEF OutcomesAreSound
<1>10. FamiliesShareARevision'
  BY <1>1, <1>2 DEF FamiliesShareARevision
<1>11. AnswersAreOnRecord'
  <2> SUFFICES ASSUME NEW q \in Requests, NEW answer \in answers'[q]
               PROVE  record'[q] # None /\ Evidence(answer) = Evidence(record'[q])
    BY DEF AnswersAreOnRecord
  <2>1. o # None
    BY NoneIsNoOutcome
  <2>2. CASE q # r
    BY <1>5, <1>6, <2>2 DEF AnswersAreOnRecord
  <2>3. CASE q = r
    <3>1. answer \in answers[r] \/ answer = o
      BY <1>5, <2>3
    <3>2. CASE record[r] = None
      BY <1>6, <2>1, <2>3, <3>1, <3>2 DEF AnswersAreOnRecord
    <3>3. CASE record[r] # None
      BY <1>6, <2>3, <3>1, <3>3 DEF AnswersAreOnRecord
    <3> QED
      BY <3>2, <3>3
  <2> QED
    BY <2>2, <2>3
<1> QED
  BY <1>7, <1>8, <1>9, <1>10, <1>11 DEF RecoveriesInv

\* Every step of a recovery.
LEMMA RecoveryStepInv ==
  ASSUME PInv, RecoveryStep, UNCHANGED contentsVars
  PROVE  CallsInv' /\ RecoveriesInv'
<1> USE DEF PInv, TypeOK
<1>1. ASSUME NEW p \in Recoverers, NEW r \in Requests, NEW stamp \in Stamps,
             Recover(p, r, stamp)
      PROVE  CallsInv' /\ RecoveriesInv'
  <2> DEFINE new == [request |-> r, stamp |-> stamp, reads |-> 0, outcome |-> None]
  <2>1. new \in Jobs /\ new.request = r /\ new.outcome = None /\ new.reads < Attempts
    BY RecoveryAssumption DEF Jobs
  <2>2. intent[r] # None
    BY <1>1 DEF Recover, IntentsAreReal
  <2>3. job' = [job EXCEPT ![p] = new] /\ UNCHANGED <<record, answers, family>>
    BY <1>1 DEF Recover
  <2> HIDE DEF new
  <2> QED
    BY <2>1, <2>2, <2>3, JobInv
<1>2. ASSUME NEW p \in Recoverers, Observing(p)
      PROVE  /\ job[p] \in Jobs /\ job[p].outcome = None /\ job[p].reads < Attempts
             /\ intent[job[p].request] # None /\ job[p].request \in Requests
  BY <1>2 DEF Observing, OutcomesAreSound, Jobs
<1>3. ASSUME NEW p \in Recoverers, Observing(p), NEW i \in Readable(job[p].request),
             Observe(p, i)
      PROVE  CallsInv' /\ RecoveriesInv'
  <2>1. PICK r \in Requests : r = job[p].request
    BY <1>2, <1>3
  <2> DEFINE last == OutOfReads(job[p].reads + 1) \/ Observation(i).content = intent[r].desired
             found == IF last THEN Classify(intent[r], Observation(i), job[p].stamp) ELSE None
             new == [job[p] EXCEPT !.reads = job[p].reads + 1, !.outcome = found]
  <2>2. job[p].stamp \in Stamps /\ job[p].reads \in Nat /\ job[p].reads < Attempts
        /\ intent[r] # None
    BY <1>2, <1>3, <2>1 DEF Jobs
  <2>3. /\ Classify(intent[r], Observation(i), job[p].stamp) \in Outcomes
        /\ Sound(r, Classify(intent[r], Observation(i), job[p].stamp))
    BY <1>3, <2>1, <2>2, ClassifySound
  <2>4. /\ found \in Outcomes \cup {None}
        /\ found = None => job[p].reads + 1 < Attempts
        /\ found # None => Sound(r, found)
    <3>1. CASE last
      BY <2>3, <3>1, NoneIsNoOutcome
    <3>2. CASE ~ last
      BY <2>2, <3>2, RecoveryAssumption DEF OutOfReads
    <3> QED
      BY <3>1, <3>2
  <2>5. job' = [job EXCEPT ![p] = new]
    BY <1>3, <2>1 DEF Observe
  <2>6. /\ new \in Jobs /\ new.request = r /\ new.outcome = found
        /\ new.reads = job[p].reads + 1
    <3>1. job[p] \in Jobs /\ job[p].reads + 1 \in 0..Attempts
      BY <1>2, <1>3, <2>2, RecoveryAssumption
    <3> HIDE DEF found
    <3>2. PICK j \in Jobs, n \in 0..Attempts, o \in Outcomes \cup {None} :
            j = job[p] /\ n = job[p].reads + 1 /\ o = found
      BY <2>4, <3>1
    <3>3. new = [j EXCEPT !.reads = n, !.outcome = o]
      BY <3>2
    <3> HIDE DEF new
    <3>4. /\ [j EXCEPT !.reads = n, !.outcome = o] \in Jobs
          /\ [j EXCEPT !.reads = n, !.outcome = o].request = j.request
          /\ [j EXCEPT !.reads = n, !.outcome = o].reads = n
          /\ [j EXCEPT !.reads = n, !.outcome = o].outcome = o
      BY DEF Jobs
    <3> QED
      BY <2>1, <3>2, <3>3, <3>4
  <2>7. UNCHANGED <<record, answers, family>>
    BY <1>3 DEF Observe
  <2> HIDE DEF new, found, last
  <2> QED
    BY <2>2, <2>4, <2>5, <2>6, <2>7, JobInv
<1>4. ASSUME NEW p \in Recoverers, Observing(p),
             NEW reason \in {"PROVIDER_OBSERVATION_TIMEOUT", "PROVIDER_OBSERVATION_FAILED"},
             GiveUp(p, reason)
      PROVE  CallsInv' /\ RecoveriesInv'
  <2> DEFINE o == Unresolved(reason, None, None)
             new == [job[p] EXCEPT !.outcome = o]
  <2>1. o \in Outcomes /\ o.observation = None /\ o.state = "still_unknown"
        /\ o.disposition = "forbidden_until_resolved"
    BY DEF Unresolved, Outcomes, Dispositions
  <2>2. job' = [job EXCEPT ![p] = new] /\ UNCHANGED <<record, answers, family>>
    BY <1>4 DEF GiveUp
  <2>3. o # None /\ \A r : Sound(r, o)
    BY <2>1, NoneIsNoOutcome DEF Sound
  <2> HIDE DEF o
  <2>4. new \in Jobs /\ new.request = job[p].request /\ new.outcome = o
    BY <1>2, <1>4, <2>1 DEF Jobs
  <2> HIDE DEF new
  <2> QED
    BY <1>2, <1>4, <2>2, <2>3, <2>4, JobInv
<1>5. ASSUME NEW p \in Recoverers, Store(p) \/ Replay(p)
      PROVE  CallsInv' /\ RecoveriesInv'
  BY <1>5, AnswerInv
<1>6. ASSUME NEW p \in Recoverers, Abandon(p)
      PROVE  CallsInv' /\ RecoveriesInv'
  BY <1>6, JobInv DEF Abandon, Forget
<1> QED
  BY <1>1, <1>3, <1>4, <1>5, <1>6 DEF RecoveryStep

\* Edits are bounded.
LEMMA EditsTyped ==
  ASSUME ContentsTypeOK, FileStep
  PROVE  edits' \in 0..MaxEdits
<1>1. edits \in 0..MaxEdits /\ MaxEdits \in Nat
  BY ContentsAssumption DEF ContentsTypeOK
<1>2. ASSUME NEW c \in Contents \cup {Absent}, Edit(c)
      PROVE  edits' \in 0..MaxEdits
  BY <1>1, <1>2 DEF Edit
<1>3. ASSUME NEW r \in Requests, ApplyPut(r)
      PROVE  edits' \in 0..MaxEdits
  BY <1>1, <1>3 DEF ApplyPut
<1> QED
  BY <1>2, <1>3 DEF FileStep

\* PInv is inductive.
LEMMA NextPInv ==
  ASSUME PInv, [Next]_vars
  PROVE  PInv'
<1>1. Grown /\ IntentsStay
  BY Monotone
<1>2. CASE FileStep /\ UNCHANGED recoveryVars
  <2>1. CallsInv'
    BY <1>2, EditsTyped, FileStepInv DEF PInv, TypeOK
  <2> QED
    BY <1>1, <1>2, <2>1, BesideRecoveries DEF PInv, TypeOK, CallsInv, RecoveriesInv, RecoveryTypeOK
<1>3. CASE CallStep /\ UNCHANGED recoveryVars
  BY <1>1, <1>3, CallStepInv, BesideRecoveries
  DEF PInv, TypeOK, CallsInv, RecoveriesInv, RecoveryTypeOK
<1>4. CASE \E q, r \in Requests : Retry(q, r)
  BY <1>1, <1>4, RetryInv DEF PInv, TypeOK, CallsInv, RecoveriesInv, RecoveryTypeOK
<1>5. CASE RecoveryStep /\ UNCHANGED contentsVars
  BY <1>5, RecoveryStepInv DEF PInv, TypeOK, CallsInv, RecoveriesInv, RecoveryTypeOK
<1>6. CASE UNCHANGED vars
  <2>1. UNCHANGED <<semantics, history, edits, stage, intent, sha, put>>
    BY <1>6 DEF vars, contentsVars, provider
  <2>2. CallsInv'
    BY <2>1 DEF PInv, TypeOK, CallsInv, ContentsTypeOK, IntentsAreReal, PutsFollowCalls,
                WritesAreConditional, SuccessWasSeen, DesiredWasSeen, Readable, Positions,
                Observation, Wrote
  <2> QED
    BY <1>1, <1>6, <2>2, BesideRecoveries
    DEF vars, PInv, TypeOK, CallsInv, RecoveriesInv, RecoveryTypeOK
<1> QED
  BY <1>2, <1>3, <1>4, <1>5, <1>6, Groups

\* In every reachable state, whatever the number of requests, recoveries,
\* readers and other writers.
LEMMA PInvHolds == Spec => []PInv
BY InitPInv, NextPInv, PTL DEF Spec

----------------------------------------------------------------------------
(* The properties.                                                         *)

\* A file is only replaced at the version the plan was approved over.
LEMMA WritesFromPInv == PInv => WritesReplaceTheirBaseline
<1> SUFFICES ASSUME PInv, NEW r \in Requests, NEW i \in DOMAIN history, Wrote(r, i)
             PROVE  /\ i > 1
                    /\ Observation(i - 1).content = intent[r].baseline.content
                    /\ Observation(i - 1).version = intent[r].baseline.version
  BY DEF WritesReplaceTheirBaseline
<1>1. /\ semantics \in Semantics /\ history \in Seq(States) /\ i \in Positions
  BY DEF PInv, TypeOK, ContentsTypeOK, Positions
<1>2. /\ i - 1 \in Positions /\ put[r] \in {"ok", "unproven"}
      /\ Observation(i - 1).version = intent[r].baseline.version
  BY <1>1 DEF PInv, WritesAreConditional
<1>3. /\ intent[r].baseline.at \in Positions
      /\ intent[r].baseline = Observation(intent[r].baseline.at)
  BY <1>2 DEF PInv, PutsFollowCalls, IntentsAreReal
<1>4. i > 1
  BY <1>1, <1>2 DEF Positions
<1>5. PICK b \in Positions : intent[r].baseline = Observation(b)
  BY <1>3
<1>6. Observation(i - 1).content = Observation(b).content
  BY <1>1, <1>2, <1>5, VersionsIdentify DEF Positions
<1> QED
  BY <1>2, <1>4, <1>5, <1>6

\* What a receipt says of the file is true.
LEMMA ReceiptsFromPInv == PInv => ReceiptsTellTheTruth
<1> SUFFICES ASSUME PInv, NEW r \in Requests
             PROVE  /\ stage[r] = "dispatched" => DesiredWasSeen(r)
                    /\ stage[r] \in {"blocked", "failed"} =>
                         /\ put[r] # "queued"
                         /\ \A i \in DOMAIN history : ~ Wrote(r, i)
  BY DEF ReceiptsTellTheTruth, DesiredWasSeen
<1>1. DOMAIN history = Positions
  BY DEF PInv, TypeOK, ContentsTypeOK, Positions
<1> QED
  BY <1>1 DEF PInv, SuccessWasSeen, PutsFollowCalls, WritesAreConditional

\* The revision of a request's baseline is only replaced by what comes after.
LEMMA ConclusionsFromPInv == PInv => ConclusionsAreProven
<1> SUFFICES ASSUME PInv, NEW r \in Requests, record[r] # None
             PROVE  /\ record[r].state = "confirmed_applied" => DesiredWasSeen(r)
                    /\ record[r].state = "confirmed_not_applied" =>
                         \A i \in 1..record[r].observation.at : ~ Wrote(r, i)
  BY DEF ConclusionsAreProven, DesiredWasSeen
<1>1. Sound(r, record[r]) /\ intent[r] # None
  BY DEF PInv, OutcomesAreSound
<1>2. ASSUME record[r].state = "confirmed_not_applied",
             NEW i \in 1..record[r].observation.at, Wrote(r, i)
      PROVE  FALSE
  <2>1. PICK a \in Positions : a = record[r].observation.at /\ record[r].observation = Observation(a)
    BY <1>1, <1>2 DEF Sound
  <2>2. PICK b \in Positions : b = intent[r].baseline.at /\ intent[r].baseline = Observation(b)
    BY <1>1 DEF PInv, IntentsAreReal
  <2>3. /\ semantics = "monotonic_revision" /\ Observation(b).content # Absent
        /\ Observation(a).version = Observation(b).version
        /\ Observation(a).content = Observation(b).content
    BY <1>1, <1>2, <2>1, <2>2 DEF Sound
  <2>4. semantics \in Semantics /\ history \in Seq(States) /\ Len(history) \in Nat
    BY DEF PInv, TypeOK, ContentsTypeOK
  <2>5. a = b
    BY <2>3, <2>4, VersionsIdentify DEF Positions
  <2>6. i \in Positions
    BY <1>2, <2>1, <2>4 DEF Positions
  <2>7. i - 1 \in Positions /\ Observation(i - 1).version = intent[r].baseline.version
    BY <1>2, <2>6 DEF PInv, WritesAreConditional
  <2>8. i - 1 = b
    BY <2>2, <2>3, <2>4, <2>7, VersionsIdentify DEF Positions
  <2> QED
    BY <1>2, <2>1, <2>4, <2>5, <2>6, <2>8 DEF Positions
<1> QED
  BY <1>1, <1>2 DEF Sound

\* Two writes of one family would replace the same revision.
LEMMA SingleFromPInv == PInv => NoDoubleMutation
<1> SUFFICES ASSUME PInv, NEW i \in DOMAIN history, NEW j \in DOMAIN history, i # j,
                    history[i].by # Other, history[j].by # Other,
                    family[history[i].by] = family[history[j].by]
             PROVE  FALSE
  BY DEF NoDoubleMutation
<1>1. /\ semantics \in Semantics /\ history \in Seq(States) /\ Len(history) \in Nat
      /\ i \in Positions /\ j \in Positions
  BY DEF PInv, TypeOK, ContentsTypeOK, Positions
<1>2. history[i] \in States /\ history[j] \in States
  BY <1>1, StateType DEF Positions
<1>3. PICK q \in Requests, r \in Requests : q = history[i].by /\ r = history[j].by
  BY <1>2 DEF States
<1>4. Wrote(q, i) /\ Wrote(r, j)
  BY <1>3 DEF Wrote
<1>5. q # r
  BY <1>1, <1>4 DEF PInv, WritesAreConditional
<1>6. /\ semantics = "monotonic_revision" /\ intent[q] # None
      /\ intent[q].baseline.content # Absent
      /\ intent[q].baseline.version = intent[r].baseline.version
  BY <1>3, <1>5 DEF PInv, FamiliesShareARevision
<1>7. /\ i - 1 \in Positions /\ j - 1 \in Positions
      /\ Observation(i - 1).version = intent[q].baseline.version
      /\ Observation(j - 1).version = intent[r].baseline.version
  BY <1>1, <1>4 DEF PInv, WritesAreConditional
<1>8. PICK b \in Positions : intent[q].baseline = Observation(b)
  BY <1>6 DEF PInv, IntentsAreReal
<1>9. i - 1 = b /\ j - 1 = b
  BY <1>1, <1>6, <1>7, <1>8, VersionsIdentify DEF Positions
<1> QED
  BY <1>1, <1>9 DEF Positions

\* Types: every variable of provider, calls and recoveries keeps its shape.
THEOREM RecoveryTypes == Spec => []TypeOK
BY PInvHolds, PTL DEF PInv

\* A request only replaces the file its plan was approved over.
THEOREM BaselinesAreReplaced == Spec => []WritesReplaceTheirBaseline
BY PInvHolds, WritesFromPInv, PTL

\* A receipt of success, of refusal or of a moved baseline is true.
THEOREM ReceiptsAreTrue == Spec => []ReceiptsTellTheTruth
BY PInvHolds, ReceiptsFromPInv, PTL

\* What recovery puts on record of an uncertain mutation is true.
THEOREM RecoveryConcludesWhatIsTrue == Spec => []ConclusionsAreProven
BY PInvHolds, ConclusionsFromPInv, PTL

\* A mutation and its retries are applied at most once.
THEOREM RetriesMutateOnce == Spec => []NoDoubleMutation
BY PInvHolds, SingleFromPInv, PTL

\* Every answer of a recovery is the one on record.
THEOREM RecoveryAnswersOnce == Spec => []AnswersAreOnRecord
BY PInvHolds, PTL DEF PInv
=============================================================================
