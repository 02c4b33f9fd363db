--------------------------- MODULE BusinessMatter ---------------------------
(***************************************************************************)
(* The domain kernel of Sage: one business matter, held by the code as a    *)
(* log of events that every command projects before it appends one more.    *)
(* The variables below are that projection, each action one command: its    *)
(* guard is the refusals of the command, its primed variables the branch    *)
(* of the projection that its event takes.  A refused command appends       *)
(* nothing and is no step.                                                  *)
(*                                                                          *)
(* Data is kept to what the guards tell apart.  A revision is its action    *)
(* scopes, those of them that need a human decision, and whether its        *)
(* evidence, unknowns and dependencies allow a run.  Event identity is      *)
(* left to EventStore; the time of an event is a natural number.            *)
(***************************************************************************)
EXTENDS Naturals

CONSTANTS
    Revisions, Scopes, Decisions, Attempts, Artifacts, Receipts,
    Roles,        \* human roles an actor may claim
    Responsible,  \* the role the matter was created for
    MaxTime,      \* bound: occurredAt is in 0 .. MaxTime
    None          \* an absent optional value

ASSUME NoneIsNoId ==
    None \notin Revisions \cup Scopes \cup Attempts \cup Artifacts
ASSUME ResponsibleIsARole == Responsible \in Roles
ASSUME MaxTimeIsNat == MaxTime \in Nat

VARIABLES
    stage, conclusion,
    currentRevision, revisions,
    pending,        \* the open clarification: asked, and about which scope
    decisions,
    activeAttempt, attempts,
    artifacts, latestArtifact,
    receipts,
    now             \* occurredAt of the last event of the log

vars == <<stage, conclusion, currentRevision, revisions, pending, decisions,
          activeAttempt, attempts, artifacts, latestArtifact, receipts, now>>

Time  == 0 .. MaxTime
Never == MaxTime + 1      \* expiresAt of an approval that carries no expiry

Stages      == {"created", "evidence", "running", "clarification",
                "artifact-receipt", "failed-retry"}
Conclusions == {"none", "completed", "stopped"}
Compatibility == {"equivalent", "requires-new-revision", "unknown"}

(***************************************************************************)
(* The facts the projection keeps; "absent" marks an identity not used yet. *)
(***************************************************************************)
Revision == [entered : BOOLEAN, ready : BOOLEAN,
             scopes : SUBSET Scopes, gated : SUBSET Scopes]
Decision == [status : {"absent", "approved", "rejected", "revoked"},
             revision : Revisions \cup {None}, scope : Scopes \cup {None},
             expiresAt : Time \cup {Never}]
Attempt  == [status : {"absent", "running", "blocked", "failed", "succeeded"},
             revision : Revisions \cup {None}, scopes : SUBSET Scopes,
             decisions : SUBSET Decisions, startedAt : Time,
             dispatchUnknown : BOOLEAN]
Artifact == [attempt : Attempts \cup {None}, revision : Revisions \cup {None}]
Receipt  == [artifact : Artifacts \cup {None},
             verdict : {"absent", "accepted", "rejected"},
             actor : Roles \cup {None}]
Pending  == [open : BOOLEAN, scope : Scopes \cup {None}]

NoClarification == [open |-> FALSE, scope |-> None]

\* createBusinessMatter: one matter-created event and nothing else.
Init ==
    /\ stage = "created"
    /\ conclusion = "none"
    /\ currentRevision = None
    /\ revisions = [r \in Revisions |->
           [entered |-> FALSE, ready |-> FALSE, scopes |-> {}, gated |-> {}]]
    /\ pending = NoClarification
    /\ decisions = [d \in Decisions |->
           [status |-> "absent", revision |-> None, scope |-> None,
            expiresAt |-> Never]]
    /\ activeAttempt = None
    /\ attempts = [a \in Attempts |->
           [status |-> "absent", revision |-> None, scopes |-> {},
            decisions |-> {}, startedAt |-> 0, dispatchUnknown |-> FALSE]]
    /\ artifacts = [f \in Artifacts |-> [attempt |-> None, revision |-> None]]
    /\ latestArtifact = None
    /\ receipts = [c \in Receipts |->
           [artifact |-> None, verdict |-> "absent", actor |-> None]]
    /\ now = 0

-----------------------------------------------------------------------------
(* A definition whose name ends in _Bug is a fault the code could have had.  *)
(* No definition of the specification uses one.                              *)

\* appendEvents: an event cannot precede the end of the log.
Occurs(t) ==
    /\ t >= now
    /\ now' = t

NoConclusion == conclusion = "none"

DecisionsAreOpen_Bug ==                            \* also under a run
    NoConclusion /\ stage \in {"clarification", "running"}

\* recordDecision and revokeDecision share this refusal.
DecisionsAreOpen ==
    /\ NoConclusion
    /\ stage = "clarification"

\* assertCurrentRevision and assertRevisionReady
CurrentIsReady ==
    /\ currentRevision # None
    /\ revisions[currentRevision].ready

Gated(r) == revisions[r].gated

EndActive_Bug(status) ==                           \* activeAttemptId not reset
    /\ attempts' = [attempts EXCEPT ![activeAttempt].status = status]
    /\ UNCHANGED activeAttempt

\* replaceAttempt on the active attempt, which the event ends.
EndActive(status) ==
    /\ attempts' = [attempts EXCEPT ![activeAttempt].status = status]
    /\ activeAttempt' = None

IsActiveRun(a) ==
    /\ NoConclusion
    /\ stage = "running"
    /\ activeAttempt = a

IsNewRevision_Bug(r) == r # currentRevision        \* only the last one compared

IsNewRevision(r) == ~ revisions[r].entered

EnterEvidence(r, ready, scopes, gated, t) ==
    /\ stage # "running"
    /\ stage = "artifact-receipt" => conclusion # "none"
    /\ IsNewRevision(r)
    /\ gated \subseteq scopes
    /\ Occurs(t)
    /\ revisions' = [revisions EXCEPT ![r] =
           [entered |-> TRUE, ready |-> ready,
            scopes |-> scopes, gated |-> gated]]
    /\ currentRevision' = r
    /\ activeAttempt' = None
    /\ pending' = NoClarification
    /\ conclusion' = "none"
    /\ stage' = "evidence"
    /\ UNCHANGED <<decisions, attempts, artifacts, latestArtifact, receipts>>

RequestClarification(s, t) ==
    /\ NoConclusion
    /\ stage \in {"evidence", "running"}
    /\ s # None => s \in revisions[currentRevision].scopes
    /\ Occurs(t)
    /\ IF activeAttempt # None THEN EndActive("blocked")
                               ELSE UNCHANGED <<attempts, activeAttempt>>
    /\ pending' = [open |-> TRUE, scope |-> s]
    /\ stage' = "clarification"
    /\ UNCHANGED <<conclusion, currentRevision, revisions, decisions,
                   artifacts, latestArtifact, receipts>>

RecordDecision(d, s, outcome, expiresAt, t) ==
    /\ DecisionsAreOpen
    /\ decisions[d].status = "absent"
    /\ s \in Gated(currentRevision)
    /\ outcome = "approved" => expiresAt > t
    /\ Occurs(t)
    /\ decisions' = [decisions EXCEPT ![d] =
           [status |-> outcome, revision |-> currentRevision, scope |-> s,
            expiresAt |-> expiresAt]]
    /\ stage' = IF outcome = "rejected" THEN "failed-retry" ELSE stage
    /\ UNCHANGED <<conclusion, currentRevision, revisions, pending,
                   activeAttempt, attempts, artifacts, latestArtifact, receipts>>

RevokeDecision(d, t) ==
    /\ DecisionsAreOpen
    /\ decisions[d].status = "approved"
    /\ Occurs(t)
    /\ decisions' = [decisions EXCEPT ![d].status = "revoked"]
    /\ UNCHANGED <<stage, conclusion, currentRevision, revisions, pending,
                   activeAttempt, attempts, artifacts, latestArtifact, receipts>>

-----------------------------------------------------------------------------
\* Only the answer to a decision-gated question leads back to a run.
ClarificationAllows(scopes) ==
    stage = "clarification" =>
        /\ pending.open
        /\ pending.scope \in Gated(currentRevision)
        /\ pending.scope \in scopes

Matches_Bug(d, s) ==                               \* the scope is not compared
    decisions[d].revision = currentRevision

Matches(d, s) ==
    /\ decisions[d].revision = currentRevision
    /\ decisions[d].scope = s

GatesOpen_Bug(scopes, supplied, t) ==              \* expired is not yet expired
    /\ \A s \in scopes \cap Gated(currentRevision) :
          \E d \in supplied : Matches(d, s) /\ decisions[d].expiresAt >= t
    /\ \A d \in supplied :
          /\ decisions[d].status = "approved"
          /\ \E s \in scopes \cap Gated(currentRevision) : Matches(d, s)

\* The code looks at the first matching decision of the request; which one is
\* first depends on the order of the request, so any of them may be.
GatesOpen(scopes, supplied, t) ==
    /\ \A s \in scopes \cap Gated(currentRevision) :
          \E d \in supplied : /\ Matches(d, s)
                              /\ decisions[d].status = "approved"
                              /\ decisions[d].expiresAt > t
    /\ \A d \in supplied :
          /\ decisions[d].status = "approved"
          /\ \E s \in scopes \cap Gated(currentRevision) : Matches(d, s)

StartAttempt(a, scopes, supplied, compatibility, t) ==
    /\ activeAttempt = None
    /\ NoConclusion
    /\ stage \in {"evidence", "clarification"}
    /\ CurrentIsReady
    /\ attempts[a].status = "absent"
    /\ scopes # {}
    /\ scopes \subseteq revisions[currentRevision].scopes
    /\ ClarificationAllows(scopes)
    /\ GatesOpen(scopes, supplied, t)
    /\ compatibility = "equivalent"
    /\ Occurs(t)
    /\ attempts' = [attempts EXCEPT ![a] =
           [status |-> "running", revision |-> currentRevision,
            scopes |-> scopes, decisions |-> supplied, startedAt |-> t,
            dispatchUnknown |-> FALSE]]
    /\ activeAttempt' = a
    /\ pending' = NoClarification
    /\ stage' = "running"
    /\ UNCHANGED <<conclusion, currentRevision, revisions, decisions,
                   artifacts, latestArtifact, receipts>>

FailAttempt(a, t) ==
    /\ IsActiveRun(a)
    /\ Occurs(t)
    /\ EndActive("failed")
    /\ pending' = NoClarification
    /\ stage' = "failed-retry"
    /\ UNCHANGED <<conclusion, currentRevision, revisions, decisions,
                   artifacts, latestArtifact, receipts>>

SucceedAttempt(a, t) ==
    /\ IsActiveRun(a)
    /\ Occurs(t)
    /\ EndActive("succeeded")
    /\ pending' = NoClarification
    /\ stage' = "evidence"
    /\ UNCHANGED <<conclusion, currentRevision, revisions, decisions,
                   artifacts, latestArtifact, receipts>>

MarkDispatchUnknown(a, t) ==
    /\ IsActiveRun(a)
    /\ Occurs(t)
    /\ attempts' = [attempts EXCEPT ![a].dispatchUnknown = TRUE]
    /\ UNCHANGED <<stage, conclusion, currentRevision, revisions, pending,
                   decisions, activeAttempt, artifacts, latestArtifact, receipts>>

ReconfirmRevision(compatibility, t) ==
    /\ NoConclusion
    /\ stage = "failed-retry"
    /\ CurrentIsReady
    /\ compatibility = "equivalent"
    /\ Occurs(t)
    /\ pending' = NoClarification
    /\ stage' = "evidence"
    /\ UNCHANGED <<conclusion, currentRevision, revisions, decisions,
                   activeAttempt, attempts, artifacts, latestArtifact, receipts>>

-----------------------------------------------------------------------------
RecordArtifact(f, a, t) ==
    /\ IsActiveRun(a)
    /\ artifacts[f].attempt = None
    /\ Occurs(t)
    /\ EndActive("succeeded")
    /\ artifacts' = [artifacts EXCEPT ![f] =
           [attempt |-> a, revision |-> currentRevision]]
    /\ latestArtifact' = f
    /\ pending' = NoClarification
    /\ stage' = "artifact-receipt"
    /\ UNCHANGED <<conclusion, currentRevision, revisions, decisions, receipts>>

AwaitsReceipt_Bug(f) ==                             \* also one replaced since
    /\ artifacts[f].attempt # None
    /\ artifacts[f].revision = currentRevision

\* The artifact is of the current revision, and no later one replaced it.
AwaitsReceipt(f) ==
    /\ artifacts[f].attempt # None
    /\ artifacts[f].revision = currentRevision
    /\ f = latestArtifact

RecordReceipt(c, f, verdict, actor, t) ==
    /\ NoConclusion
    /\ stage = "artifact-receipt"
    /\ receipts[c].verdict = "absent"
    /\ AwaitsReceipt(f)
    /\ actor = Responsible
    /\ Occurs(t)
    /\ receipts' = [receipts EXCEPT ![c] =
           [artifact |-> f, verdict |-> verdict, actor |-> actor]]
    /\ conclusion' = IF verdict = "accepted" THEN "completed" ELSE "none"
    /\ stage' = IF verdict = "accepted" THEN "artifact-receipt"
                                        ELSE "failed-retry"
    /\ pending' = NoClarification
    /\ UNCHANGED <<currentRevision, revisions, decisions, activeAttempt,
                   attempts, artifacts, latestArtifact>>

StopMatter(t) ==
    /\ NoConclusion
    /\ stage = "failed-retry"
    /\ currentRevision # None
    /\ Occurs(t)
    /\ conclusion' = "stopped"
    /\ pending' = NoClarification
    /\ stage' = "failed-retry"
    /\ UNCHANGED <<currentRevision, revisions, decisions, activeAttempt,
                   attempts, artifacts, latestArtifact, receipts>>

-----------------------------------------------------------------------------
Next == \E t \in Time :
    \/ \E r \in Revisions, ready \in BOOLEAN, ss, gg \in SUBSET Scopes :
          EnterEvidence(r, ready, ss, gg, t)
    \/ \E s \in Scopes \cup {None} : RequestClarification(s, t)
    \/ \E d \in Decisions, s \in Scopes, o \in {"approved", "rejected"},
          e \in Time \cup {Never} : RecordDecision(d, s, o, e, t)
    \/ \E d \in Decisions : RevokeDecision(d, t)
    \/ \E a \in Attempts, ss \in SUBSET Scopes, ds \in SUBSET Decisions,
          m \in Compatibility : StartAttempt(a, ss, ds, m, t)
    \/ \E a \in Attempts : \/ FailAttempt(a, t)
                           \/ SucceedAttempt(a, t)
                           \/ MarkDispatchUnknown(a, t)
    \/ \E m \in Compatibility : ReconfirmRevision(m, t)
    \/ \E f \in Artifacts, a \in Attempts : RecordArtifact(f, a, t)
    \/ \E c \in Receipts, f \in Artifacts, v \in {"accepted", "rejected"},
          q \in Roles : RecordReceipt(c, f, v, q, t)
    \/ StopMatter(t)

Spec == Init /\ [][Next]_vars

-----------------------------------------------------------------------------
TypeOK ==
    /\ stage \in Stages
    /\ conclusion \in Conclusions
    /\ currentRevision \in Revisions \cup {None}
    /\ revisions \in [Revisions -> Revision]
    /\ pending \in Pending
    /\ decisions \in [Decisions -> Decision]
    /\ activeAttempt \in Attempts \cup {None}
    /\ attempts \in [Attempts -> Attempt]
    /\ artifacts \in [Artifacts -> Artifact]
    /\ latestArtifact \in Artifacts \cup {None}
    /\ receipts \in [Receipts -> Receipt]
    /\ now \in Time

\* The stage, the active attempt and the statuses of the attempts are three
\* answers to one question.  They never disagree: the matter is running exactly
\* when there is an active attempt, that attempt is the only running one, it
\* belongs to the current revision, and the revision has no conclusion.
RunningIsTheActiveAttempt ==
    /\ stage = "running" <=> activeAttempt # None
    /\ \A a \in Attempts : attempts[a].status = "running" <=> a = activeAttempt
    /\ stage = "running" =>
          /\ conclusion = "none"
          /\ attempts[activeAttempt].revision = currentRevision

\* Whatever the order of questions, answers, failures, reconfirmations and new
\* revisions, an attempt that covers a gated scope was started under an approval
\* of that scope, given for the attempt's own revision and not expired when it
\* started; the approval was revoked, if ever, only later.
GatedWorkWasApproved ==
    \A a \in Attempts : attempts[a].status # "absent" =>
        \A s \in attempts[a].scopes \cap Gated(attempts[a].revision) :
            \E d \in attempts[a].decisions :
                /\ decisions[d].revision = attempts[a].revision
                /\ decisions[d].scope = s
                /\ decisions[d].status \in {"approved", "revoked"}
                /\ decisions[d].expiresAt > attempts[a].startedAt

\* An approval cannot be withdrawn under the run that relies on it.
RunningApprovalStands ==
    activeAttempt # None =>
        \A d \in attempts[activeAttempt].decisions :
            decisions[d].status = "approved"

\* A revision counts as completed exactly when the responsible role accepted an
\* artifact of that very revision, the latest: no acceptance is lost, none is
\* inherited from an earlier revision or given to what was replaced since, and no
\* other command completes a matter.
CompletedIffAccepted ==
    /\ conclusion = "completed" <=>
          \E c \in Receipts :
              /\ receipts[c].verdict = "accepted"
              /\ receipts[c].actor = Responsible
              /\ artifacts[receipts[c].artifact].revision = currentRevision
    /\ \A c \in Receipts :
          /\ receipts[c].verdict = "accepted"
          /\ receipts[c].actor = Responsible
          /\ artifacts[receipts[c].artifact].revision = currentRevision
          => receipts[c].artifact = latestArtifact

\* An attempt leaves at most one artifact and an artifact gets at most one
\* receipt, so a rejected artifact is never accepted later.
OneOutcomePerAttempt ==
    /\ \A f, g \in Artifacts :
          /\ artifacts[f].attempt # None
          /\ artifacts[f].attempt = artifacts[g].attempt
          => f = g
    /\ \A c, e \in Receipts :
          /\ receipts[c].artifact # None
          /\ receipts[c].artifact = receipts[e].artifact
          => c = e

\* No reference dangles: an attempt, an artifact and a receipt name a revision,
\* an attempt and an artifact that the log holds, an artifact only one whose
\* attempt succeeded; and an artifact that awaits its receipt has none yet.
ReferencesHold ==
    /\ stage # "created" => currentRevision # None
    /\ currentRevision # None => revisions[currentRevision].entered
    /\ \A a \in Attempts : attempts[a].status # "absent" =>
          /\ attempts[a].revision # None
          /\ revisions[attempts[a].revision].entered
    /\ \A f \in Artifacts : artifacts[f].attempt # None =>
          /\ attempts[artifacts[f].attempt].status = "succeeded"
          /\ artifacts[f].revision # None
          /\ revisions[artifacts[f].revision].entered
    /\ \A c \in Receipts :
          /\ receipts[c].verdict # "absent" <=> receipts[c].artifact # None
          /\ receipts[c].artifact # None =>
                artifacts[receipts[c].artifact].attempt # None
    /\ stage = "artifact-receipt" /\ conclusion = "none" =>
          /\ latestArtifact # None
          /\ \A c \in Receipts : receipts[c].artifact # latestArtifact

\* What the log says of the past stays said.  A revision is immutable, an ended
\* attempt keeps its end, a rejected or revoked decision never authorises again,
\* and artifacts and receipts are never rewritten, whatever command runs.
HistoryIsKept ==
    [][/\ \A r \in Revisions : revisions[r].entered => revisions'[r] = revisions[r]
       /\ \A a \in Attempts : attempts[a].status \notin {"absent", "running"}
                                => attempts'[a] = attempts[a]
       /\ \A d \in Decisions : decisions[d].status \in {"rejected", "revoked"}
                                => decisions'[d] = decisions[d]
       /\ \A f \in Artifacts : artifacts[f].attempt # None
                                => artifacts'[f] = artifacts[f]
       /\ \A c \in Receipts : receipts[c].artifact # None
                                => receipts'[c] = receipts[c]]_vars

\* The matter keeps the promise of ApprovalGate: the standing approvals are the
\* approved decisions, each for its revision and scope, and the subjects under
\* work are the gated scopes of the active attempt.
StandingApprovals ==
    {<<decisions[d].revision, decisions[d].scope>> :
        d \in {e \in Decisions : decisions[e].status = "approved"}}
GatedWork ==
    IF activeAttempt = None THEN {}
    ELSE {attempts[activeAttempt].revision}
         \X (attempts[activeAttempt].scopes
                \cap Gated(attempts[activeAttempt].revision))

Gate == INSTANCE ApprovalGate WITH
            Subjects <- Revisions \X Scopes,
            standing <- StandingApprovals,
            working  <- GatedWork

\* Every behaviour of the matter is one of the gate, hiding all the rest.
ImplementsApprovalGate == Gate!Spec
=============================================================================
