-------------------------- MODULE GitHubContents --------------------------
(***************************************************************************)
(* GitHubContentsColossusTransport (src/examples/colossus/github-          *)
(* contents-provider-v2.mjs): one conditional PUT per approved request,    *)
(* between reads of the same file, against a provider that other people    *)
(* also write to.  The provider is external: the sequence of states its    *)
(* one target file has had, and the answer it gave to each PUT.            *)
(***************************************************************************)
EXTENDS Integers, Sequences

CONSTANTS
  Requests,   \* approved mutation requests, each with a one-shot permit
  Contents,   \* contents the file can have (their fingerprints)
  Absent,     \* the content of a file that does not exist
  Other,      \* the author of a state no request wrote
  None,
  Fresh,      \* bound: the requests planned from a read of the file; the
              \* others are there to be approved as retries
  MaxEdits    \* bound: changes made by others

ASSUME ContentsAssumption ==
  /\ Fresh \subseteq Requests
  /\ Absent \notin Contents
  /\ Other \notin Requests
  /\ None \notin Contents \cup Int
  /\ Contents \cap Int = {}
  /\ MaxEdits \in Nat

VARIABLES
  semantics,  \* what the provider's version token identifies
  history,    \* every state of the file, the current one last
  edits,      \* how many of them others made
  stage,      \* where the call of each request stands
  intent,     \* what it was approved to write, over what
  sha,        \* the version its PUT is conditional on
  put         \* its PUT: not sent, on its way, or the provider's answer

provider == <<semantics, history, edits>>
contentsVars == <<provider, stage, intent, sha, put>>

Semantics == {"content_addressed", "monotonic_revision"}
Receipts  == {"dispatched", "blocked", "failed"}
Stages    == {"idle", "reading", "sent", "rereading", "unresolved"} \cup Receipts
Answers   == {"ok", "conflict", "rejected", "unproven"}
Puts      == {"none", "queued"} \cup Answers

States       == [content : Contents \cup {Absent}, by : Requests \cup {Other}]
Versions     == Contents \cup Nat \cup {None}
Observations == [content : Contents \cup {Absent}, version : Versions,
                 semantics : Semantics \cup {"unknown"}, at : Nat \ {0}]
Intents      == [desired : Contents, baseline : Observations]

ASSUME NoneIsNoIntent == None \notin Intents \cup Observations

ContentsTypeOK ==
  /\ semantics \in Semantics
  /\ history \in Seq(States) /\ history # <<>>
  /\ edits \in 0..MaxEdits
  /\ stage \in [Requests -> Stages]
  /\ intent \in [Requests -> Intents \cup {None}]
  /\ sha \in [Requests -> Versions]
  /\ put \in [Requests -> Puts]

----------------------------------------------------------------------------
(* What a read of the i-th state of the file returns.  "at" is not part of *)
(* what the code sees: it says which state was read.                       *)

Observation(i) ==
  IF history[i].content = Absent
    THEN [content |-> Absent, version |-> None, semantics |-> "unknown", at |-> i]
    ELSE [content |-> history[i].content,
          version |-> IF semantics = "monotonic_revision" THEN i ELSE history[i].content,
          semantics |-> semantics, at |-> i]

Current == Observation(Len(history))

\* Reads may be stale, but not older than the read the plan was made from.
Readable(r) == intent[r].baseline.at .. Len(history)

\* A mutant of SameBaseline: the version is not compared.
SameContent(actual, expected) == actual.content = expected.content

SameBaseline(actual, expected) ==
  /\ actual.content = expected.content
  /\ actual.version = expected.version

----------------------------------------------------------------------------
(* The provider and everyone else who writes to it.                        *)

Edit(c) ==
  /\ edits < MaxEdits
  /\ c # Current.content
  /\ history' = Append(history, [content |-> c, by |-> Other])
  /\ edits' = edits + 1
  /\ UNCHANGED <<semantics, stage, intent, sha, put>>

Answer(r, answer) == put' = [put EXCEPT ![r] = answer]

\* A PUT may arrive after its caller has given up.
ApplyPut(r) ==
  /\ put[r] = "queued"
  /\ Current.version = sha[r]
  /\ history' = Append(history, [content |-> intent[r].desired, by |-> r])
  /\ \E answer \in {"ok", "unproven"} : Answer(r, answer)
  /\ UNCHANGED <<semantics, edits, stage, intent, sha>>

RefusePut(r) ==
  /\ put[r] = "queued"
  /\ \E answer \in Answers \ {"ok"} : Answer(r, answer)
  /\ UNCHANGED <<provider, stage, intent, sha>>

----------------------------------------------------------------------------
(* The transport.                                                          *)

Goto(r, s) ==
  /\ stage' = [stage EXCEPT ![r] = s]
  /\ UNCHANGED <<provider, intent>>

Intend(r, desired, baseline) ==
  /\ stage[r] = "idle"
  /\ intent' = [intent EXCEPT ![r] = [desired |-> desired, baseline |-> baseline]]
  /\ stage' = [stage EXCEPT ![r] = "reading"]
  /\ UNCHANGED <<provider, sha, put>>

\* A plan is made from a read of the target (inspectBaseline), and its
\* approved payload reaches the transport.
Plan(r, desired, i) == Intend(r, desired, Observation(i))

AlreadyThere(r) ==
  /\ stage[r] = "reading"
  /\ \E i \in Readable(r) : history[i].content = intent[r].desired
  /\ Goto(r, "dispatched")
  /\ UNCHANGED <<sha, put>>

BaselineMoved(r) ==
  /\ stage[r] = "reading"
  /\ \E i \in Readable(r) :
       /\ history[i].content # intent[r].desired
       /\ ~ SameBaseline(Observation(i), intent[r].baseline)
  /\ Goto(r, "blocked")
  /\ UNCHANGED <<sha, put>>

SubmitPut(r) ==
  /\ stage[r] = "reading"
  /\ \E i \in Readable(r) :
       /\ history[i].content # intent[r].desired
       /\ SameBaseline(Observation(i), intent[r].baseline)
       /\ sha' = [sha EXCEPT ![r] = Observation(i).version]
  /\ Goto(r, "sent")
  /\ Answer(r, "queued")

\* A mutant of ReceiptFor: a 5xx or an incomplete success counts as refused.
ReceiptAnyway(answer) ==
  CASE answer = "ok"       -> "dispatched"
    [] answer = "conflict" -> "rereading"
    [] OTHER               -> "failed"

\* What the answer to a PUT makes of the call.  "unproven" is a 5xx, applied
\* or not, or a success whose body names no commit.
ReceiptFor(answer) ==
  CASE answer = "ok"       -> "dispatched"
    [] answer = "conflict" -> "rereading"
    [] answer = "rejected" -> "failed"
    [] OTHER               -> "unresolved"

Respond(r) ==
  /\ stage[r] = "sent"
  /\ put[r] \in Answers
  /\ Goto(r, ReceiptFor(put[r]))
  /\ UNCHANGED <<sha, put>>

\* After 409 or 422 the file is read once more.
Converge(r) ==
  /\ stage[r] = "rereading"
  /\ \E i \in Readable(r) :
       Goto(r, IF history[i].content = intent[r].desired THEN "dispatched" ELSE "blocked")
  /\ UNCHANGED <<sha, put>>

\* A read fails, the response is lost, the deadline passes, the process dies.
Interrupt(r) ==
  /\ stage[r] \in {"reading", "sent", "rereading"}
  /\ Goto(r, "unresolved")
  /\ UNCHANGED <<sha, put>>

ContentsInit ==
  /\ semantics \in Semantics
  /\ \E c \in Contents \cup {Absent} : history = <<[content |-> c, by |-> Other]>>
  /\ edits = 0
  /\ stage = [r \in Requests |-> "idle"]
  /\ intent = [r \in Requests |-> None]
  /\ sha = [r \in Requests |-> None]
  /\ put = [r \in Requests |-> "none"]

ContentsNext ==
  \/ \E c \in Contents \cup {Absent} : Edit(c)
  \/ \E r \in Fresh, desired \in Contents, i \in 1..Len(history) : Plan(r, desired, i)
  \/ \E r \in Requests :
       \/ ApplyPut(r) \/ RefusePut(r)
       \/ AlreadyThere(r) \/ BaselineMoved(r) \/ SubmitPut(r)
       \/ Respond(r) \/ Converge(r) \/ Interrupt(r)

----------------------------------------------------------------------------
Wrote(r, i) == history[i].by = r

\* WritesReplaceTheirBaseline: whatever others write between the reads and
\* the PUT, and however late the PUT arrives, a request only ever replaces a
\* file that is, by content and version, the one its plan was approved over.
WritesReplaceTheirBaseline ==
  \A r \in Requests, i \in DOMAIN history :
    Wrote(r, i) => /\ i > 1
                   /\ Observation(i - 1).content = intent[r].baseline.content
                   /\ Observation(i - 1).version = intent[r].baseline.version

\* ReceiptsTellTheTruth: a call receipted as dispatched had its desired
\* content in the file at some time since its plan, and one receipted as
\* blocked or failed has not written and, since its PUT was answered or never
\* sent, never will.
ReceiptsTellTheTruth ==
  \A r \in Requests :
    /\ stage[r] = "dispatched" =>
         \E i \in Readable(r) : history[i].content = intent[r].desired
    /\ stage[r] \in {"blocked", "failed"} =>
         /\ put[r] # "queued"
         /\ \A i \in DOMAIN history : ~ Wrote(r, i)
=============================================================================
