----------------------- MODULE BusinessMatterProofs -----------------------
(***************************************************************************)
(* The safety of the domain kernel for every set of identities, every bound *)
(* on time and every number of commands.                                    *)
(***************************************************************************)
EXTENDS BusinessMatter, TLAPS

\* Ending the active attempt changes the status of that attempt and no other
\* fact about any attempt.
LEMMA EndActiveFields ==
    ASSUME TypeOK, activeAttempt \in Attempts,
           NEW s \in {"blocked", "failed", "succeeded"}, EndActive(s)
    PROVE  /\ attempts' \in [Attempts -> Attempt]
           /\ activeAttempt' = None
           /\ \A x \in Attempts :
                 /\ attempts'[x].revision = attempts[x].revision
                 /\ attempts'[x].scopes = attempts[x].scopes
                 /\ attempts'[x].decisions = attempts[x].decisions
                 /\ attempts'[x].startedAt = attempts[x].startedAt
                 /\ attempts'[x].status = IF x = activeAttempt THEN s
                                          ELSE attempts[x].status
  <1> DEFINE ended == [attempts[activeAttempt] EXCEPT !.status = s]
  <1>1. ended \in Attempt
    BY DEF TypeOK, Attempt
  <1>2. attempts' = [attempts EXCEPT ![activeAttempt] = ended]
    BY DEF EndActive, TypeOK, Attempt
  <1>3. /\ attempts' \in [Attempts -> Attempt]
        /\ activeAttempt' = None
    BY <1>1, <1>2 DEF TypeOK, EndActive
  <1>4. ASSUME NEW x \in Attempts
        PROVE  /\ attempts'[x].revision = attempts[x].revision
               /\ attempts'[x].scopes = attempts[x].scopes
               /\ attempts'[x].decisions = attempts[x].decisions
               /\ attempts'[x].startedAt = attempts[x].startedAt
               /\ attempts'[x].status = IF x = activeAttempt THEN s
                                        ELSE attempts[x].status
    <2>1. CASE x = activeAttempt
      BY <1>2, <2>1 DEF TypeOK, Attempt
    <2>2. CASE x # activeAttempt
      BY <1>2, <2>2 DEF TypeOK
    <2>3. QED
      BY <2>1, <2>2
  <1>5. QED
    BY <1>3, <1>4

\* The types are inductive on their own: every command writes values of the
\* projection's types, whatever the history.
THEOREM TypeCorrect == Spec => []TypeOK
<1>1. Init => TypeOK
  BY MaxTimeIsNat DEF Init, TypeOK, Stages, Conclusions, Revision, Decision,
     Attempt, Artifact, Receipt, Pending, NoClarification, Time, Never
<1>2. TypeOK /\ [Next]_vars => TypeOK'
  <2> SUFFICES ASSUME TypeOK, [Next]_vars PROVE TypeOK'
    OBVIOUS
  <2>1. ASSUME NEW t \in Time, NEW r \in Revisions, NEW ready \in BOOLEAN,
                  NEW ss \in SUBSET Scopes, NEW gg \in SUBSET Scopes,
                  EnterEvidence(r, ready, ss, gg, t)
           PROVE  TypeOK'
    <3>1. [entered |-> TRUE, ready |-> ready, scopes |-> ss, gated |-> gg]
             \in Revision
      BY DEF Revision
    <3>2. revisions' \in [Revisions -> Revision]
      BY <2>1, <3>1 DEF EnterEvidence, TypeOK
    <3>3. QED
      BY <2>1, <3>2 DEF EnterEvidence, TypeOK, Stages, Conclusions, Pending,
         NoClarification, Occurs
  <2>2. ASSUME NEW t \in Time, NEW s \in Scopes \cup {None},
                  RequestClarification(s, t)
           PROVE  TypeOK'
    <3>1. /\ attempts' \in [Attempts -> Attempt]
          /\ activeAttempt' \in Attempts \cup {None}
      BY <2>2, EndActiveFields DEF RequestClarification, TypeOK
    <3>2. QED
      BY <2>2, <3>1 DEF RequestClarification, TypeOK, Stages, Conclusions, Pending,
         NoClarification, Occurs
  <2>3. ASSUME NEW t \in Time, NEW d \in Decisions, NEW s \in Scopes,
                  NEW o \in {"approved", "rejected"}, NEW e \in Time \cup {Never},
                  RecordDecision(d, s, o, e, t)
           PROVE  TypeOK'
    <3>1. [status |-> o, revision |-> currentRevision, scope |-> s,
           expiresAt |-> e] \in Decision
      BY DEF Decision, TypeOK
    <3>2. decisions' \in [Decisions -> Decision]
      BY <2>3, <3>1 DEF RecordDecision, TypeOK
    <3>3. QED
      BY <2>3, <3>2 DEF RecordDecision, TypeOK, Stages, Conclusions, Pending,
         NoClarification, Occurs
  <2>4. ASSUME NEW t \in Time, NEW d \in Decisions,
                  RevokeDecision(d, t)
           PROVE  TypeOK'
    <3>1. decisions' \in [Decisions -> Decision]
      BY <2>4 DEF RevokeDecision, TypeOK, Decision
    <3>2. QED
      BY <2>4, <3>1 DEF RevokeDecision, TypeOK, Stages, Conclusions, Pending,
         NoClarification, Occurs
  <2>5. ASSUME NEW t \in Time, NEW a \in Attempts, NEW ss \in SUBSET Scopes,
                  NEW ds \in SUBSET Decisions, NEW m \in Compatibility,
                  StartAttempt(a, ss, ds, m, t)
           PROVE  TypeOK'
    <3>1. [status |-> "running", revision |-> currentRevision, scopes |-> ss,
           decisions |-> ds, startedAt |-> t, dispatchUnknown |-> FALSE]
             \in Attempt
      BY DEF Attempt, TypeOK
    <3>2. attempts' \in [Attempts -> Attempt]
      BY <2>5, <3>1 DEF StartAttempt, TypeOK
    <3>3. QED
      BY <2>5, <3>2 DEF StartAttempt, TypeOK, Stages, Conclusions, Pending,
         NoClarification, Occurs
  <2>6. ASSUME NEW t \in Time, NEW a \in Attempts,
                  FailAttempt(a, t)
           PROVE  TypeOK'
    <3>1. /\ attempts' \in [Attempts -> Attempt]
          /\ activeAttempt' = None
      BY <2>6, EndActiveFields DEF FailAttempt, IsActiveRun
    <3>2. QED
      BY <2>6, <3>1 DEF FailAttempt, TypeOK, Stages, Conclusions, Pending,
         NoClarification, Occurs
  <2>7. ASSUME NEW t \in Time, NEW a \in Attempts,
                  SucceedAttempt(a, t)
           PROVE  TypeOK'
    <3>1. /\ attempts' \in [Attempts -> Attempt]
          /\ activeAttempt' = None
      BY <2>7, EndActiveFields DEF SucceedAttempt, IsActiveRun
    <3>2. QED
      BY <2>7, <3>1 DEF SucceedAttempt, TypeOK, Stages, Conclusions, Pending,
         NoClarification, Occurs
  <2>8. ASSUME NEW t \in Time, NEW a \in Attempts,
                  MarkDispatchUnknown(a, t)
           PROVE  TypeOK'
    <3>1. attempts' \in [Attempts -> Attempt]
      BY <2>8 DEF MarkDispatchUnknown, TypeOK, Attempt
    <3>2. QED
      BY <2>8, <3>1 DEF MarkDispatchUnknown, TypeOK, Stages, Conclusions, Pending,
         NoClarification, Occurs
  <2>9. ASSUME NEW t \in Time, NEW m \in Compatibility,
                  ReconfirmRevision(m, t)
           PROVE  TypeOK'
    BY <2>9 DEF ReconfirmRevision, TypeOK, Stages, Conclusions, Pending,
         NoClarification, Occurs
  <2>10. ASSUME NEW t \in Time, NEW f \in Artifacts, NEW a \in Attempts,
                  RecordArtifact(f, a, t)
           PROVE  TypeOK'
    <3>1. /\ attempts' \in [Attempts -> Attempt]
          /\ activeAttempt' = None
      BY <2>10, EndActiveFields DEF RecordArtifact, IsActiveRun
    <3>2. artifacts' \in [Artifacts -> Artifact]
      BY <2>10 DEF RecordArtifact, TypeOK, Artifact
    <3>3. QED
      BY <2>10, <3>1, <3>2 DEF RecordArtifact, TypeOK, Stages, Conclusions, Pending,
         NoClarification, Occurs
  <2>11. ASSUME NEW t \in Time, NEW c \in Receipts, NEW f \in Artifacts,
                  NEW v \in {"accepted", "rejected"}, NEW q \in Roles,
                  RecordReceipt(c, f, v, q, t)
           PROVE  TypeOK'
    <3>1. [artifact |-> f, verdict |-> v, actor |-> q] \in Receipt
      BY DEF Receipt
    <3>2. receipts' \in [Receipts -> Receipt]
      BY <2>11, <3>1 DEF RecordReceipt, TypeOK
    <3>3. QED
      BY <2>11, <3>2 DEF RecordReceipt, TypeOK, Stages, Conclusions, Pending,
         NoClarification, Occurs
  <2>12. ASSUME NEW t \in Time,
                  StopMatter(t)
           PROVE  TypeOK'
    BY <2>12 DEF StopMatter, TypeOK, Stages, Conclusions, Pending,
         NoClarification, Occurs
  <2>13. CASE UNCHANGED vars
    BY <2>13 DEF vars, TypeOK
  <2>14. QED
    BY <2>1, <2>2, <2>3, <2>4, <2>5, <2>6, <2>7, <2>8, <2>9, <2>10, <2>11,
       <2>12, <2>13 DEF Next
<1>3. QED
  BY <1>1, <1>2, PTL DEF Spec

-----------------------------------------------------------------------------
(***************************************************************************)
(* The inductive invariant.  None of the safety properties is inductive     *)
(* alone: that a gated run was approved needs revisions to be immutable     *)
(* once an attempt names them, that a revision is completed only by its own *)
(* receipt needs receipts to name recorded artifacts, and that an artifact  *)
(* has one receipt needs the pending artifact to have none.                 *)
(***************************************************************************)
IInv ==
    /\ TypeOK
    /\ RunningIsTheActiveAttempt
    /\ ReferencesHold
    /\ GatedWorkWasApproved
    /\ RunningApprovalStands
    /\ CompletedIffAccepted
    /\ OneOutcomePerAttempt

\* Only startAttempt makes an attempt run, and every command that leaves the
\* stage running ends it.
LEMMA RunningIsTheActiveAttemptStep ==
    ASSUME IInv, TypeOK', [Next]_vars
    PROVE  RunningIsTheActiveAttempt'
  <1>1. ASSUME NEW t \in Time, NEW r \in Revisions, NEW ready \in BOOLEAN,
               NEW ss \in SUBSET Scopes, NEW gg \in SUBSET Scopes,
               EnterEvidence(r, ready, ss, gg, t)
        PROVE  RunningIsTheActiveAttempt'
    BY <1>1 DEF EnterEvidence, RunningIsTheActiveAttempt, IInv
  <1>2. ASSUME NEW t \in Time, NEW s \in Scopes \cup {None},
               RequestClarification(s, t)
        PROVE  RunningIsTheActiveAttempt'
    BY <1>2, NoneIsNoId DEF RequestClarification, RunningIsTheActiveAttempt,
       IInv, TypeOK, EndActive, Attempt
  <1>3. ASSUME NEW t \in Time, NEW d \in Decisions, NEW s \in Scopes,
               NEW o \in {"approved", "rejected"}, NEW e \in Time \cup {Never},
               RecordDecision(d, s, o, e, t)
        PROVE  RunningIsTheActiveAttempt'
    BY <1>3 DEF RecordDecision, RunningIsTheActiveAttempt, IInv,
       DecisionsAreOpen
  <1>4. ASSUME NEW t \in Time, NEW d \in Decisions,
               RevokeDecision(d, t)
        PROVE  RunningIsTheActiveAttempt'
    BY <1>4 DEF RevokeDecision, RunningIsTheActiveAttempt, IInv
  <1>5. ASSUME NEW t \in Time, NEW a \in Attempts, NEW ss \in SUBSET Scopes,
               NEW ds \in SUBSET Decisions, NEW m \in Compatibility,
               StartAttempt(a, ss, ds, m, t)
        PROVE  RunningIsTheActiveAttempt'
    BY <1>5, NoneIsNoId DEF StartAttempt, RunningIsTheActiveAttempt, IInv,
       TypeOK, NoConclusion
  <1>6. ASSUME NEW t \in Time, NEW a \in Attempts,
               FailAttempt(a, t)
        PROVE  RunningIsTheActiveAttempt'
    BY <1>6, NoneIsNoId DEF FailAttempt, RunningIsTheActiveAttempt, IInv,
       TypeOK, EndActive
  <1>7. ASSUME NEW t \in Time, NEW a \in Attempts,
               SucceedAttempt(a, t)
        PROVE  RunningIsTheActiveAttempt'
    BY <1>7, NoneIsNoId DEF SucceedAttempt, RunningIsTheActiveAttempt, IInv,
       TypeOK, EndActive
  <1>8. ASSUME NEW t \in Time, NEW a \in Attempts,
               MarkDispatchUnknown(a, t)
        PROVE  RunningIsTheActiveAttempt'
    BY <1>8 DEF MarkDispatchUnknown, RunningIsTheActiveAttempt, IInv
  <1>9. ASSUME NEW t \in Time, NEW m \in Compatibility,
               ReconfirmRevision(m, t)
        PROVE  RunningIsTheActiveAttempt'
    BY <1>9 DEF ReconfirmRevision, RunningIsTheActiveAttempt, IInv
  <1>10. ASSUME NEW t \in Time, NEW f \in Artifacts, NEW a \in Attempts,
               RecordArtifact(f, a, t)
        PROVE  RunningIsTheActiveAttempt'
    BY <1>10, NoneIsNoId DEF RecordArtifact, RunningIsTheActiveAttempt,
       IInv, TypeOK, EndActive
  <1>11. ASSUME NEW t \in Time, NEW c \in Receipts, NEW f \in Artifacts,
               NEW v \in {"accepted", "rejected"}, NEW q \in Roles,
               RecordReceipt(c, f, v, q, t)
        PROVE  RunningIsTheActiveAttempt'
    BY <1>11 DEF RecordReceipt, RunningIsTheActiveAttempt, IInv
  <1>12. ASSUME NEW t \in Time,
               StopMatter(t)
        PROVE  RunningIsTheActiveAttempt'
    BY <1>12 DEF StopMatter, RunningIsTheActiveAttempt, IInv
  <1>13. CASE UNCHANGED vars
    BY <1>13 DEF vars, RunningIsTheActiveAttempt, IInv, Gated
  <1>14. QED
    BY <1>1, <1>2, <1>3, <1>4, <1>5, <1>6, <1>7,
       <1>8, <1>9, <1>10, <1>11, <1>12, <1>13 DEF Next

\* Commands add facts that name facts already in the log.
LEMMA ReferencesHoldStep ==
    ASSUME IInv, TypeOK', [Next]_vars
    PROVE  ReferencesHold'
  <1>1. ASSUME NEW t \in Time, NEW r \in Revisions, NEW ready \in BOOLEAN,
               NEW ss \in SUBSET Scopes, NEW gg \in SUBSET Scopes,
               EnterEvidence(r, ready, ss, gg, t)
        PROVE  ReferencesHold'
    BY <1>1, NoneIsNoId DEF EnterEvidence, ReferencesHold, IInv, TypeOK
  <1>2. ASSUME NEW t \in Time, NEW s \in Scopes \cup {None},
               RequestClarification(s, t)
        PROVE  ReferencesHold'
    <2>1. CASE activeAttempt = None
      BY <1>2, <2>1 DEF RequestClarification, ReferencesHold, IInv, TypeOK
    <2>2. CASE activeAttempt # None
      <3>1. /\ activeAttempt \in Attempts
            /\ EndActive("blocked")
            /\ attempts[activeAttempt].status = "running"
        BY <1>2, <2>2 DEF RequestClarification, IInv, TypeOK,
           RunningIsTheActiveAttempt
      <3>2. \A x \in Attempts :
               /\ attempts'[x].revision = attempts[x].revision
               /\ attempts'[x].status = IF x = activeAttempt THEN "blocked"
                                                 ELSE attempts[x].status
        BY <3>1, EndActiveFields DEF IInv
      <3>3. UNCHANGED <<currentRevision, revisions, artifacts, receipts>>
        BY <1>2 DEF RequestClarification
      <3>4. /\ stage' # "created" /\ stage' # "artifact-receipt"
            /\ currentRevision # None
        BY <1>2 DEF RequestClarification, IInv, ReferencesHold
      <3>5. \A f \in Artifacts : artifacts[f].attempt # None =>
               attempts'[artifacts[f].attempt].status = "succeeded"
        BY <3>1, <3>2 DEF ReferencesHold, IInv, TypeOK, Artifact
      <3>6. \A x \in Attempts : attempts'[x].status # "absent" =>
               attempts[x].status # "absent"
        BY <3>1, <3>2
      <3>7. QED
        BY <3>2, <3>3, <3>4, <3>5, <3>6 DEF ReferencesHold, IInv
    <2>3. QED
      BY <2>1, <2>2
  <1>3. ASSUME NEW t \in Time, NEW d \in Decisions, NEW s \in Scopes,
               NEW o \in {"approved", "rejected"}, NEW e \in Time \cup {Never},
               RecordDecision(d, s, o, e, t)
        PROVE  ReferencesHold'
    BY <1>3 DEF RecordDecision, ReferencesHold, IInv, DecisionsAreOpen
  <1>4. ASSUME NEW t \in Time, NEW d \in Decisions,
               RevokeDecision(d, t)
        PROVE  ReferencesHold'
    BY <1>4 DEF RevokeDecision, ReferencesHold, IInv
  <1>5. ASSUME NEW t \in Time, NEW a \in Attempts, NEW ss \in SUBSET Scopes,
               NEW ds \in SUBSET Decisions, NEW m \in Compatibility,
               StartAttempt(a, ss, ds, m, t)
        PROVE  ReferencesHold'
    BY <1>5 DEF StartAttempt, ReferencesHold, IInv
  <1>6. ASSUME NEW t \in Time, NEW a \in Attempts,
               FailAttempt(a, t)
        PROVE  ReferencesHold'
    <2>1. /\ activeAttempt \in Attempts
          /\ EndActive("failed")
          /\ attempts[activeAttempt].status = "running"
      BY <1>6, NoneIsNoId
      DEF FailAttempt, IsActiveRun, IInv, TypeOK, RunningIsTheActiveAttempt
    <2>2. \A x \in Attempts :
             /\ attempts'[x].revision = attempts[x].revision
             /\ attempts'[x].status = IF x = activeAttempt THEN "failed"
                                               ELSE attempts[x].status
      BY <2>1, EndActiveFields DEF IInv
    <2>3. UNCHANGED <<currentRevision, revisions, artifacts, receipts>>
      BY <1>6 DEF FailAttempt
    <2>4. /\ stage' # "created" /\ stage' # "artifact-receipt"
          /\ currentRevision # None
      BY <1>6 DEF FailAttempt, IsActiveRun, IInv, ReferencesHold
    <2>5. \A f \in Artifacts : artifacts[f].attempt # None =>
             attempts'[artifacts[f].attempt].status = "succeeded"
      BY <2>1, <2>2 DEF ReferencesHold, IInv, TypeOK, Artifact
    <2>6. \A x \in Attempts : attempts'[x].status # "absent" =>
             attempts[x].status # "absent"
      BY <2>1, <2>2
    <2>7. QED
      BY <2>2, <2>3, <2>4, <2>5, <2>6 DEF ReferencesHold, IInv
  <1>7. ASSUME NEW t \in Time, NEW a \in Attempts,
               SucceedAttempt(a, t)
        PROVE  ReferencesHold'
    <2>1. /\ activeAttempt \in Attempts
          /\ EndActive("succeeded")
          /\ attempts[activeAttempt].status = "running"
      BY <1>7, NoneIsNoId
      DEF SucceedAttempt, IsActiveRun, IInv, TypeOK, RunningIsTheActiveAttempt
    <2>2. \A x \in Attempts :
             /\ attempts'[x].revision = attempts[x].revision
             /\ attempts'[x].status = IF x = activeAttempt THEN "succeeded"
                                               ELSE attempts[x].status
      BY <2>1, EndActiveFields DEF IInv
    <2>3. UNCHANGED <<currentRevision, revisions, artifacts, receipts>>
      BY <1>7 DEF SucceedAttempt
    <2>4. /\ stage' # "created" /\ stage' # "artifact-receipt"
          /\ currentRevision # None
      BY <1>7 DEF SucceedAttempt, IsActiveRun, IInv, ReferencesHold
    <2>5. \A f \in Artifacts : artifacts[f].attempt # None =>
             attempts'[artifacts[f].attempt].status = "succeeded"
      BY <2>1, <2>2 DEF ReferencesHold, IInv, TypeOK, Artifact
    <2>6. \A x \in Attempts : attempts'[x].status # "absent" =>
             attempts[x].status # "absent"
      BY <2>1, <2>2
    <2>7. QED
      BY <2>2, <2>3, <2>4, <2>5, <2>6 DEF ReferencesHold, IInv
  <1>8. ASSUME NEW t \in Time, NEW a \in Attempts,
               MarkDispatchUnknown(a, t)
        PROVE  ReferencesHold'
    BY <1>8 DEF MarkDispatchUnknown, ReferencesHold, IInv
  <1>9. ASSUME NEW t \in Time, NEW m \in Compatibility,
               ReconfirmRevision(m, t)
        PROVE  ReferencesHold'
    BY <1>9 DEF ReconfirmRevision, ReferencesHold, IInv
  <1>10. ASSUME NEW t \in Time, NEW f \in Artifacts, NEW a \in Attempts,
               RecordArtifact(f, a, t)
        PROVE  ReferencesHold'
    <2>1. /\ activeAttempt = a
          /\ EndActive("succeeded")
          /\ attempts[a].status = "running"
          /\ attempts[a].revision = currentRevision
          /\ a # None
      BY <1>10, NoneIsNoId
      DEF RecordArtifact, IsActiveRun, IInv, TypeOK, RunningIsTheActiveAttempt
    <2>2. /\ artifacts[f].attempt = None
          /\ artifacts'[f].attempt = a
          /\ artifacts'[f].revision = currentRevision
          /\ \A g \in Artifacts \ {f} : artifacts'[g] = artifacts[g]
      BY <1>10 DEF RecordArtifact, IInv, TypeOK
    <2>3. \A x \in Attempts :
             /\ attempts'[x].revision = attempts[x].revision
             /\ attempts'[x].status = IF x = a THEN "succeeded"
                                               ELSE attempts[x].status
      BY <2>1, EndActiveFields DEF IInv
    <2>4. UNCHANGED <<currentRevision, revisions, receipts, conclusion>>
      BY <1>10 DEF RecordArtifact
    <2>5. \A g \in Artifacts : artifacts'[g].attempt # None =>
             /\ attempts'[artifacts'[g].attempt].status = "succeeded"
             /\ artifacts'[g].revision # None
             /\ revisions'[artifacts'[g].revision].entered
      <3>1. /\ currentRevision # None
            /\ revisions[currentRevision].entered
        BY <2>1 DEF IInv, ReferencesHold
      <3>2. attempts'[a].status = "succeeded"
        BY <2>1, <2>3 DEF IInv, TypeOK
      <3>3. ASSUME NEW g \in Artifacts \ {f}, artifacts[g].attempt # None
            PROVE  /\ attempts'[artifacts[g].attempt].status = "succeeded"
                   /\ artifacts[g].revision # None
                   /\ revisions[artifacts[g].revision].entered
        <4>1. /\ artifacts[g].attempt \in Attempts
              /\ attempts[artifacts[g].attempt].status = "succeeded"
              /\ artifacts[g].revision # None
              /\ revisions[artifacts[g].revision].entered
          BY <3>3 DEF IInv, ReferencesHold, TypeOK, Artifact
        <4>2. QED
          BY <4>1, <2>3
      <3>4. QED
        BY <2>2, <2>4, <3>1, <3>2, <3>3
    <2>6. \A c \in Receipts : receipts[c].artifact # f
      BY <2>2, NoneIsNoId DEF IInv, ReferencesHold, TypeOK
    <2>7. latestArtifact' = f /\ f # None
      BY <1>10, NoneIsNoId DEF RecordArtifact
    <2>8. \A c \in Receipts :
             /\ receipts'[c].verdict # "absent" <=> receipts'[c].artifact # None
             /\ receipts'[c].artifact # None =>
                   artifacts'[receipts'[c].artifact].attempt # None
      BY <2>2, <2>4, <2>6 DEF IInv, ReferencesHold, TypeOK, Receipt
    <2>9. /\ currentRevision # None
          /\ revisions[currentRevision].entered
          /\ \A x \in Attempts : attempts'[x].status # "absent" =>
                 /\ attempts'[x].revision # None
                 /\ revisions[attempts'[x].revision].entered
      BY <2>1, <2>3 DEF IInv, ReferencesHold
    <2>10. QED
      BY <2>4, <2>5, <2>6, <2>7, <2>8, <2>9 DEF ReferencesHold
  <1>11. ASSUME NEW t \in Time, NEW c \in Receipts, NEW f \in Artifacts,
               NEW v \in {"accepted", "rejected"}, NEW q \in Roles,
               RecordReceipt(c, f, v, q, t)
        PROVE  ReferencesHold'
    BY <1>11 DEF RecordReceipt, ReferencesHold, IInv, AwaitsReceipt,
       NoConclusion
  <1>12. ASSUME NEW t \in Time,
               StopMatter(t)
        PROVE  ReferencesHold'
    BY <1>12 DEF StopMatter, ReferencesHold, IInv
  <1>13. CASE UNCHANGED vars
    BY <1>13 DEF vars, ReferencesHold, IInv, Gated
  <1>14. QED
    BY <1>1, <1>2, <1>3, <1>4, <1>5, <1>6, <1>7,
       <1>8, <1>9, <1>10, <1>11, <1>12, <1>13 DEF Next

\* The approvals of an attempt are checked when it starts; later commands do not
\* touch the revision, and can only revoke.
LEMMA GatedWorkWasApprovedStep ==
    ASSUME IInv, TypeOK', [Next]_vars
    PROVE  GatedWorkWasApproved'
  <1>1. ASSUME NEW t \in Time, NEW r \in Revisions, NEW ready \in BOOLEAN,
               NEW ss \in SUBSET Scopes, NEW gg \in SUBSET Scopes,
               EnterEvidence(r, ready, ss, gg, t)
        PROVE  GatedWorkWasApproved'
    <2>1. /\ UNCHANGED <<attempts, decisions>>
          /\ \A x \in Revisions : revisions[x].entered =>
                revisions'[x] = revisions[x]
      BY <1>1 DEF EnterEvidence, IsNewRevision, IInv, TypeOK
    <2>2. \A x \in Attempts : attempts[x].status # "absent" =>
             /\ attempts[x].revision \in Revisions
             /\ revisions[attempts[x].revision].entered
      BY DEF IInv, ReferencesHold, TypeOK, Attempt
    <2>3. QED
      BY <2>1, <2>2 DEF GatedWorkWasApproved, Gated, IInv
  <1>2. ASSUME NEW t \in Time, NEW s \in Scopes \cup {None},
               RequestClarification(s, t)
        PROVE  GatedWorkWasApproved'
    <2>1. CASE activeAttempt = None
      BY <1>2, <2>1 DEF RequestClarification, GatedWorkWasApproved, Gated, IInv
    <2>2. CASE activeAttempt # None
      <3>1. /\ activeAttempt \in Attempts
            /\ EndActive("blocked")
            /\ attempts[activeAttempt].status = "running"
        BY <1>2, <2>2 DEF RequestClarification, IInv, TypeOK,
           RunningIsTheActiveAttempt
      <3>2. QED
        BY <1>2, <3>1, EndActiveFields
        DEF RequestClarification, GatedWorkWasApproved, Gated, IInv
    <2>3. QED
      BY <2>1, <2>2
  <1>3. ASSUME NEW t \in Time, NEW d \in Decisions, NEW s \in Scopes,
               NEW o \in {"approved", "rejected"}, NEW e \in Time \cup {Never},
               RecordDecision(d, s, o, e, t)
        PROVE  GatedWorkWasApproved'
    BY <1>3, NoneIsNoId DEF RecordDecision, GatedWorkWasApproved, IInv,
       Gated
  <1>4. ASSUME NEW t \in Time, NEW d \in Decisions,
               RevokeDecision(d, t)
        PROVE  GatedWorkWasApproved'
    <2>1. /\ UNCHANGED <<attempts, revisions>>
          /\ \A x \in Decisions :
                /\ decisions'[x].revision = decisions[x].revision
                /\ decisions'[x].scope = decisions[x].scope
                /\ decisions'[x].expiresAt = decisions[x].expiresAt
                /\ decisions[x].status \in {"approved", "revoked"} =>
                      decisions'[x].status \in {"approved", "revoked"}
      BY <1>4 DEF RevokeDecision, IInv, TypeOK, Decision
    <2>2. \A x \in Attempts : attempts[x].decisions \subseteq Decisions
      BY DEF IInv, TypeOK, Attempt
    <2>3. QED
      BY <2>1, <2>2 DEF GatedWorkWasApproved, Gated, IInv
  <1>5. ASSUME NEW t \in Time, NEW a \in Attempts, NEW ss \in SUBSET Scopes,
               NEW ds \in SUBSET Decisions, NEW m \in Compatibility,
               StartAttempt(a, ss, ds, m, t)
        PROVE  GatedWorkWasApproved'
    <2>1. /\ UNCHANGED <<decisions, revisions>>
          /\ \A x \in Attempts \ {a} : attempts'[x] = attempts[x]
          /\ attempts'[a].revision = currentRevision
          /\ attempts'[a].scopes = ss
          /\ attempts'[a].decisions = ds
          /\ attempts'[a].startedAt = t
      BY <1>5 DEF StartAttempt, IInv, TypeOK
    <2>2. \A s \in ss \cap Gated(currentRevision) : \E d \in ds :
             /\ decisions[d].revision = currentRevision
             /\ decisions[d].scope = s
             /\ decisions[d].status = "approved"
             /\ decisions[d].expiresAt > t
      BY <1>5 DEF StartAttempt, GatesOpen, Matches
    <2>3. QED
      BY <2>1, <2>2 DEF GatedWorkWasApproved, Gated, IInv
  <1>6. ASSUME NEW t \in Time, NEW a \in Attempts,
               FailAttempt(a, t)
        PROVE  GatedWorkWasApproved'
    <2>1. EndActive("failed") /\ activeAttempt \in Attempts
      BY <1>6 DEF FailAttempt, IsActiveRun
    <2>2. attempts[activeAttempt].status = "running"
      BY <1>6 DEF FailAttempt, IsActiveRun, IInv, RunningIsTheActiveAttempt
    <2>3. QED
      BY <1>6, <2>1, <2>2, EndActiveFields
      DEF FailAttempt, GatedWorkWasApproved, Gated, IInv
  <1>7. ASSUME NEW t \in Time, NEW a \in Attempts,
               SucceedAttempt(a, t)
        PROVE  GatedWorkWasApproved'
    <2>1. EndActive("succeeded") /\ activeAttempt \in Attempts
      BY <1>7 DEF SucceedAttempt, IsActiveRun
    <2>2. attempts[activeAttempt].status = "running"
      BY <1>7 DEF SucceedAttempt, IsActiveRun, IInv, RunningIsTheActiveAttempt
    <2>3. QED
      BY <1>7, <2>1, <2>2, EndActiveFields
      DEF SucceedAttempt, GatedWorkWasApproved, Gated, IInv
  <1>8. ASSUME NEW t \in Time, NEW a \in Attempts,
               MarkDispatchUnknown(a, t)
        PROVE  GatedWorkWasApproved'
    BY <1>8 DEF MarkDispatchUnknown, GatedWorkWasApproved, IInv, Gated
  <1>9. ASSUME NEW t \in Time, NEW m \in Compatibility,
               ReconfirmRevision(m, t)
        PROVE  GatedWorkWasApproved'
    BY <1>9 DEF ReconfirmRevision, GatedWorkWasApproved, IInv, Gated
  <1>10. ASSUME NEW t \in Time, NEW f \in Artifacts, NEW a \in Attempts,
               RecordArtifact(f, a, t)
        PROVE  GatedWorkWasApproved'
    <2>1. EndActive("succeeded") /\ activeAttempt \in Attempts
      BY <1>10 DEF RecordArtifact, IsActiveRun
    <2>2. attempts[activeAttempt].status = "running"
      BY <1>10 DEF RecordArtifact, IsActiveRun, IInv, RunningIsTheActiveAttempt
    <2>3. QED
      BY <1>10, <2>1, <2>2, EndActiveFields
      DEF RecordArtifact, GatedWorkWasApproved, Gated, IInv
  <1>11. ASSUME NEW t \in Time, NEW c \in Receipts, NEW f \in Artifacts,
               NEW v \in {"accepted", "rejected"}, NEW q \in Roles,
               RecordReceipt(c, f, v, q, t)
        PROVE  GatedWorkWasApproved'
    BY <1>11 DEF RecordReceipt, GatedWorkWasApproved, IInv, Gated
  <1>12. ASSUME NEW t \in Time,
               StopMatter(t)
        PROVE  GatedWorkWasApproved'
    BY <1>12 DEF StopMatter, GatedWorkWasApproved, IInv, Gated
  <1>13. CASE UNCHANGED vars
    BY <1>13 DEF vars, GatedWorkWasApproved, IInv, Gated
  <1>14. QED
    BY <1>1, <1>2, <1>3, <1>4, <1>5, <1>6, <1>7,
       <1>8, <1>9, <1>10, <1>11, <1>12, <1>13 DEF Next

\* Decisions change in clarification only, when no attempt is active.
LEMMA RunningApprovalStandsStep ==
    ASSUME IInv, TypeOK', [Next]_vars
    PROVE  RunningApprovalStands'
  <1>1. ASSUME NEW t \in Time, NEW r \in Revisions, NEW ready \in BOOLEAN,
               NEW ss \in SUBSET Scopes, NEW gg \in SUBSET Scopes,
               EnterEvidence(r, ready, ss, gg, t)
        PROVE  RunningApprovalStands'
    BY <1>1 DEF EnterEvidence, RunningApprovalStands
  <1>2. ASSUME NEW t \in Time, NEW s \in Scopes \cup {None},
               RequestClarification(s, t)
        PROVE  RunningApprovalStands'
    BY <1>2 DEF RequestClarification, RunningApprovalStands, EndActive
  <1>3. ASSUME NEW t \in Time, NEW d \in Decisions, NEW s \in Scopes,
               NEW o \in {"approved", "rejected"}, NEW e \in Time \cup {Never},
               RecordDecision(d, s, o, e, t)
        PROVE  RunningApprovalStands'
    BY <1>3 DEF RecordDecision, RunningApprovalStands, IInv
  <1>4. ASSUME NEW t \in Time, NEW d \in Decisions,
               RevokeDecision(d, t)
        PROVE  RunningApprovalStands'
    <2>1. activeAttempt' = None
      BY <1>4 DEF RevokeDecision, DecisionsAreOpen, IInv, RunningIsTheActiveAttempt
    <2>2. QED
      BY <2>1 DEF RunningApprovalStands
  <1>5. ASSUME NEW t \in Time, NEW a \in Attempts, NEW ss \in SUBSET Scopes,
               NEW ds \in SUBSET Decisions, NEW m \in Compatibility,
               StartAttempt(a, ss, ds, m, t)
        PROVE  RunningApprovalStands'
    <2>1. /\ activeAttempt' = a
          /\ attempts'[a].decisions = ds
          /\ \A d \in ds : decisions'[d].status = "approved"
      BY <1>5 DEF StartAttempt, GatesOpen, IInv, TypeOK
    <2>2. QED
      BY <2>1 DEF RunningApprovalStands
  <1>6. ASSUME NEW t \in Time, NEW a \in Attempts,
               FailAttempt(a, t)
        PROVE  RunningApprovalStands'
    BY <1>6 DEF FailAttempt, RunningApprovalStands, EndActive
  <1>7. ASSUME NEW t \in Time, NEW a \in Attempts,
               SucceedAttempt(a, t)
        PROVE  RunningApprovalStands'
    BY <1>7 DEF SucceedAttempt, RunningApprovalStands, EndActive
  <1>8. ASSUME NEW t \in Time, NEW a \in Attempts,
               MarkDispatchUnknown(a, t)
        PROVE  RunningApprovalStands'
    BY <1>8 DEF MarkDispatchUnknown, RunningApprovalStands, IInv
  <1>9. ASSUME NEW t \in Time, NEW m \in Compatibility,
               ReconfirmRevision(m, t)
        PROVE  RunningApprovalStands'
    BY <1>9 DEF ReconfirmRevision, RunningApprovalStands, IInv
  <1>10. ASSUME NEW t \in Time, NEW f \in Artifacts, NEW a \in Attempts,
               RecordArtifact(f, a, t)
        PROVE  RunningApprovalStands'
    BY <1>10 DEF RecordArtifact, RunningApprovalStands, EndActive
  <1>11. ASSUME NEW t \in Time, NEW c \in Receipts, NEW f \in Artifacts,
               NEW v \in {"accepted", "rejected"}, NEW q \in Roles,
               RecordReceipt(c, f, v, q, t)
        PROVE  RunningApprovalStands'
    BY <1>11 DEF RecordReceipt, RunningApprovalStands, IInv
  <1>12. ASSUME NEW t \in Time,
               StopMatter(t)
        PROVE  RunningApprovalStands'
    BY <1>12 DEF StopMatter, RunningApprovalStands, IInv
  <1>13. CASE UNCHANGED vars
    BY <1>13 DEF vars, RunningApprovalStands, IInv, Gated
  <1>14. QED
    BY <1>1, <1>2, <1>3, <1>4, <1>5, <1>6, <1>7,
       <1>8, <1>9, <1>10, <1>11, <1>12, <1>13 DEF Next

\* A receipt is recorded without a conclusion and gives one if it accepts; only a
\* new revision takes a conclusion back.
LEMMA CompletedIffAcceptedStep ==
    ASSUME IInv, TypeOK', [Next]_vars
    PROVE  CompletedIffAccepted'
  <1>1. ASSUME NEW t \in Time, NEW r \in Revisions, NEW ready \in BOOLEAN,
               NEW ss \in SUBSET Scopes, NEW gg \in SUBSET Scopes,
               EnterEvidence(r, ready, ss, gg, t)
        PROVE  CompletedIffAccepted'
    <2>1. /\ conclusion' = "none"
          /\ currentRevision' = r
          /\ ~ revisions[r].entered
          /\ UNCHANGED <<artifacts, receipts>>
      BY <1>1 DEF EnterEvidence, IsNewRevision
    <2>2. \A c \in Receipts : receipts[c].verdict = "accepted" =>
             revisions[artifacts[receipts[c].artifact].revision].entered
      BY DEF IInv, ReferencesHold, TypeOK, Receipt
    <2>3. QED
      BY <2>1, <2>2 DEF CompletedIffAccepted
  <1>2. ASSUME NEW t \in Time, NEW s \in Scopes \cup {None},
               RequestClarification(s, t)
        PROVE  CompletedIffAccepted'
    BY <1>2 DEF RequestClarification, CompletedIffAccepted, IInv
  <1>3. ASSUME NEW t \in Time, NEW d \in Decisions, NEW s \in Scopes,
               NEW o \in {"approved", "rejected"}, NEW e \in Time \cup {Never},
               RecordDecision(d, s, o, e, t)
        PROVE  CompletedIffAccepted'
    BY <1>3 DEF RecordDecision, CompletedIffAccepted, IInv
  <1>4. ASSUME NEW t \in Time, NEW d \in Decisions,
               RevokeDecision(d, t)
        PROVE  CompletedIffAccepted'
    BY <1>4 DEF RevokeDecision, CompletedIffAccepted, IInv
  <1>5. ASSUME NEW t \in Time, NEW a \in Attempts, NEW ss \in SUBSET Scopes,
               NEW ds \in SUBSET Decisions, NEW m \in Compatibility,
               StartAttempt(a, ss, ds, m, t)
        PROVE  CompletedIffAccepted'
    BY <1>5 DEF StartAttempt, CompletedIffAccepted, IInv
  <1>6. ASSUME NEW t \in Time, NEW a \in Attempts,
               FailAttempt(a, t)
        PROVE  CompletedIffAccepted'
    BY <1>6 DEF FailAttempt, CompletedIffAccepted, IInv
  <1>7. ASSUME NEW t \in Time, NEW a \in Attempts,
               SucceedAttempt(a, t)
        PROVE  CompletedIffAccepted'
    BY <1>7 DEF SucceedAttempt, CompletedIffAccepted, IInv
  <1>8. ASSUME NEW t \in Time, NEW a \in Attempts,
               MarkDispatchUnknown(a, t)
        PROVE  CompletedIffAccepted'
    BY <1>8 DEF MarkDispatchUnknown, CompletedIffAccepted, IInv
  <1>9. ASSUME NEW t \in Time, NEW m \in Compatibility,
               ReconfirmRevision(m, t)
        PROVE  CompletedIffAccepted'
    BY <1>9 DEF ReconfirmRevision, CompletedIffAccepted, IInv
  <1>10. ASSUME NEW t \in Time, NEW f \in Artifacts, NEW a \in Attempts,
               RecordArtifact(f, a, t)
        PROVE  CompletedIffAccepted'
    <2>1. /\ conclusion' = conclusion
          /\ UNCHANGED <<currentRevision, receipts>>
          /\ \A g \in Artifacts \ {f} : artifacts'[g] = artifacts[g]
          /\ artifacts[f].attempt = None
      BY <1>10 DEF RecordArtifact, IInv, TypeOK
    <2>2. \A c \in Receipts : receipts[c].verdict = "accepted" =>
             receipts[c].artifact \in Artifacts \ {f}
      BY <2>1 DEF IInv, ReferencesHold, TypeOK, Receipt
    <2>3. conclusion = "none"
      BY <1>10 DEF RecordArtifact, IsActiveRun, NoConclusion
    <2>4. QED
      BY <2>1, <2>2, <2>3 DEF CompletedIffAccepted, IInv
  <1>11. ASSUME NEW t \in Time, NEW c \in Receipts, NEW f \in Artifacts,
               NEW v \in {"accepted", "rejected"}, NEW q \in Roles,
               RecordReceipt(c, f, v, q, t)
        PROVE  CompletedIffAccepted'
    BY <1>11 DEF RecordReceipt, CompletedIffAccepted, IInv, TypeOK,
       AwaitsReceipt, NoConclusion
  <1>12. ASSUME NEW t \in Time,
               StopMatter(t)
        PROVE  CompletedIffAccepted'
    BY <1>12 DEF StopMatter, CompletedIffAccepted, IInv, NoConclusion
  <1>13. CASE UNCHANGED vars
    BY <1>13 DEF vars, CompletedIffAccepted, IInv, Gated
  <1>14. QED
    BY <1>1, <1>2, <1>3, <1>4, <1>5, <1>6, <1>7,
       <1>8, <1>9, <1>10, <1>11, <1>12, <1>13 DEF Next

\* An artifact ends the attempt it comes from; a receipt ends the wait for it.
LEMMA OneOutcomePerAttemptStep ==
    ASSUME IInv, TypeOK', [Next]_vars
    PROVE  OneOutcomePerAttempt'
  <1>1. ASSUME NEW t \in Time, NEW r \in Revisions, NEW ready \in BOOLEAN,
               NEW ss \in SUBSET Scopes, NEW gg \in SUBSET Scopes,
               EnterEvidence(r, ready, ss, gg, t)
        PROVE  OneOutcomePerAttempt'
    BY <1>1 DEF EnterEvidence, OneOutcomePerAttempt, IInv
  <1>2. ASSUME NEW t \in Time, NEW s \in Scopes \cup {None},
               RequestClarification(s, t)
        PROVE  OneOutcomePerAttempt'
    BY <1>2 DEF RequestClarification, OneOutcomePerAttempt, IInv
  <1>3. ASSUME NEW t \in Time, NEW d \in Decisions, NEW s \in Scopes,
               NEW o \in {"approved", "rejected"}, NEW e \in Time \cup {Never},
               RecordDecision(d, s, o, e, t)
        PROVE  OneOutcomePerAttempt'
    BY <1>3 DEF RecordDecision, OneOutcomePerAttempt, IInv
  <1>4. ASSUME NEW t \in Time, NEW d \in Decisions,
               RevokeDecision(d, t)
        PROVE  OneOutcomePerAttempt'
    BY <1>4 DEF RevokeDecision, OneOutcomePerAttempt, IInv
  <1>5. ASSUME NEW t \in Time, NEW a \in Attempts, NEW ss \in SUBSET Scopes,
               NEW ds \in SUBSET Decisions, NEW m \in Compatibility,
               StartAttempt(a, ss, ds, m, t)
        PROVE  OneOutcomePerAttempt'
    BY <1>5 DEF StartAttempt, OneOutcomePerAttempt, IInv
  <1>6. ASSUME NEW t \in Time, NEW a \in Attempts,
               FailAttempt(a, t)
        PROVE  OneOutcomePerAttempt'
    BY <1>6 DEF FailAttempt, OneOutcomePerAttempt, IInv
  <1>7. ASSUME NEW t \in Time, NEW a \in Attempts,
               SucceedAttempt(a, t)
        PROVE  OneOutcomePerAttempt'
    BY <1>7 DEF SucceedAttempt, OneOutcomePerAttempt, IInv
  <1>8. ASSUME NEW t \in Time, NEW a \in Attempts,
               MarkDispatchUnknown(a, t)
        PROVE  OneOutcomePerAttempt'
    BY <1>8 DEF MarkDispatchUnknown, OneOutcomePerAttempt, IInv
  <1>9. ASSUME NEW t \in Time, NEW m \in Compatibility,
               ReconfirmRevision(m, t)
        PROVE  OneOutcomePerAttempt'
    BY <1>9 DEF ReconfirmRevision, OneOutcomePerAttempt, IInv
  <1>10. ASSUME NEW t \in Time, NEW f \in Artifacts, NEW a \in Attempts,
               RecordArtifact(f, a, t)
        PROVE  OneOutcomePerAttempt'
    <2>1. /\ UNCHANGED receipts
          /\ \A g \in Artifacts \ {f} : artifacts'[g] = artifacts[g]
          /\ artifacts'[f].attempt = a
      BY <1>10 DEF RecordArtifact, IInv, TypeOK
    <2>2. attempts[a].status = "running"
      BY <1>10 DEF RecordArtifact, IsActiveRun, IInv, RunningIsTheActiveAttempt
    <2>3. \A g \in Artifacts : artifacts[g].attempt # a
      BY <2>2, NoneIsNoId DEF IInv, ReferencesHold
    <2>4. QED
      BY <2>1, <2>3 DEF OneOutcomePerAttempt, IInv
  <1>11. ASSUME NEW t \in Time, NEW c \in Receipts, NEW f \in Artifacts,
               NEW v \in {"accepted", "rejected"}, NEW q \in Roles,
               RecordReceipt(c, f, v, q, t)
        PROVE  OneOutcomePerAttempt'
    <2>1. /\ UNCHANGED artifacts
          /\ \A e \in Receipts \ {c} : receipts'[e] = receipts[e]
          /\ receipts'[c].artifact = f
      BY <1>11 DEF RecordReceipt, IInv, TypeOK
    <2>2. \A e \in Receipts : receipts[e].artifact # f
      BY <1>11 DEF RecordReceipt, NoConclusion, AwaitsReceipt, IInv, ReferencesHold
    <2>3. QED
      BY <2>1, <2>2 DEF OneOutcomePerAttempt, IInv
  <1>12. ASSUME NEW t \in Time,
               StopMatter(t)
        PROVE  OneOutcomePerAttempt'
    BY <1>12 DEF StopMatter, OneOutcomePerAttempt, IInv
  <1>13. CASE UNCHANGED vars
    BY <1>13 DEF vars, OneOutcomePerAttempt, IInv, Gated
  <1>14. QED
    BY <1>1, <1>2, <1>3, <1>4, <1>5, <1>6, <1>7,
       <1>8, <1>9, <1>10, <1>11, <1>12, <1>13 DEF Next

LEMMA IInvInit == Init => IInv
<1>1. Init => TypeOK
  BY MaxTimeIsNat DEF Init, TypeOK, Stages, Conclusions, Revision, Decision,
     Attempt, Artifact, Receipt, Pending, NoClarification, Time, Never
<1>2. QED
  BY <1>1, NoneIsNoId DEF Init, IInv, RunningIsTheActiveAttempt, ReferencesHold,
     GatedWorkWasApproved, RunningApprovalStands, CompletedIffAccepted,
     OneOutcomePerAttempt

\* Every behaviour of the kernel, under any bound on time, keeps the invariant.
THEOREM Safety == Spec => []IInv
<1>1. IInv /\ TypeOK' /\ [Next]_vars => IInv'
  BY RunningIsTheActiveAttemptStep, ReferencesHoldStep,
     GatedWorkWasApprovedStep, RunningApprovalStandsStep,
     CompletedIffAcceptedStep, OneOutcomePerAttemptStep DEF IInv
<1>2. QED
  BY <1>1, IInvInit, TypeCorrect, PTL DEF Spec

\* A gated scope is worked on only under an approval of that scope and revision
\* that was valid when the attempt started.
THEOREM GatedWorkIsApproved == Spec => []GatedWorkWasApproved
<1>1. IInv => GatedWorkWasApproved
  BY DEF IInv
<1>2. QED
  BY <1>1, Safety, PTL

\* No approval that a running attempt relies on is withdrawn while it runs.
THEOREM ApprovalsStandUnderRuns == Spec => []RunningApprovalStands
<1>1. IInv => RunningApprovalStands
  BY DEF IInv
<1>2. QED
  BY <1>1, Safety, PTL

\* The stage, the active attempt and the statuses of the attempts always agree.
THEOREM ProjectionIsCoherent == Spec => []RunningIsTheActiveAttempt
<1>1. IInv => RunningIsTheActiveAttempt
  BY DEF IInv
<1>2. QED
  BY <1>1, Safety, PTL

\* No reference of the log dangles, whatever the order of the commands.
THEOREM NoReferenceDangles == Spec => []ReferencesHold
<1>1. IInv => ReferencesHold
  BY DEF IInv
<1>2. QED
  BY <1>1, Safety, PTL

\* Completion is earned by an accepted receipt of the responsible role for the
\* latest artifact, which is of the current revision, and by nothing else.
THEOREM CompletionIsEarned == Spec => []CompletedIffAccepted
<1>1. IInv => CompletedIffAccepted
  BY DEF IInv
<1>2. QED
  BY <1>1, Safety, PTL

\* An attempt yields one artifact and an artifact one receipt: what was rejected
\* cannot be accepted later.
THEOREM OutcomesAreFinal == Spec => []OneOutcomePerAttempt
<1>1. IInv => OneOutcomePerAttempt
  BY DEF IInv
<1>2. QED
  BY <1>1, Safety, PTL

-----------------------------------------------------------------------------
Kept ==
    /\ \A r \in Revisions : revisions[r].entered => revisions'[r] = revisions[r]
    /\ \A a \in Attempts : attempts[a].status \notin {"absent", "running"}
                             => attempts'[a] = attempts[a]
    /\ \A d \in Decisions : decisions[d].status \in {"rejected", "revoked"}
                             => decisions'[d] = decisions[d]
    /\ \A f \in Artifacts : artifacts[f].attempt # None
                             => artifacts'[f] = artifacts[f]
    /\ \A c \in Receipts : receipts[c].artifact # None
                             => receipts'[c] = receipts[c]

\* Ending the active attempt rewrites no attempt that has ended already.
LEMMA EndActiveKeeps ==
    ASSUME IInv, activeAttempt \in Attempts,
           NEW s \in {"blocked", "failed", "succeeded"}, EndActive(s),
           NEW a \in Attempts, attempts[a].status \notin {"absent", "running"}
    PROVE  attempts'[a] = attempts[a]
  <1>1. a # activeAttempt
    BY DEF IInv, RunningIsTheActiveAttempt
  <1>2. QED
    BY <1>1 DEF EndActive, IInv, TypeOK

\* No command rewrites the past.
THEOREM HistoryKept == Spec => HistoryIsKept
<1>1. IInv /\ [Next]_vars => [Kept]_vars
  <2> SUFFICES ASSUME IInv, [Next]_vars PROVE Kept
    OBVIOUS
  <2>1. ASSUME NEW t \in Time, NEW r \in Revisions, NEW ready \in BOOLEAN,
                  NEW ss \in SUBSET Scopes, NEW gg \in SUBSET Scopes,
                  EnterEvidence(r, ready, ss, gg, t)
           PROVE  Kept
    BY <2>1 DEF EnterEvidence, IsNewRevision, Kept, IInv, TypeOK
  <2>2. ASSUME NEW t \in Time, NEW s \in Scopes \cup {None},
                  RequestClarification(s, t)
           PROVE  Kept
    BY <2>2, EndActiveKeeps DEF RequestClarification, Kept, IInv, TypeOK
  <2>3. ASSUME NEW t \in Time, NEW d \in Decisions, NEW s \in Scopes,
                  NEW o \in {"approved", "rejected"}, NEW e \in Time \cup {Never},
                  RecordDecision(d, s, o, e, t)
           PROVE  Kept
    BY <2>3 DEF RecordDecision, Kept, IInv, TypeOK
  <2>4. ASSUME NEW t \in Time, NEW d \in Decisions,
                  RevokeDecision(d, t)
           PROVE  Kept
    BY <2>4 DEF RevokeDecision, Kept, IInv, TypeOK
  <2>5. ASSUME NEW t \in Time, NEW a \in Attempts, NEW ss \in SUBSET Scopes,
                  NEW ds \in SUBSET Decisions, NEW m \in Compatibility,
                  StartAttempt(a, ss, ds, m, t)
           PROVE  Kept
    BY <2>5 DEF StartAttempt, Kept, IInv, TypeOK
  <2>6. ASSUME NEW t \in Time, NEW a \in Attempts,
                  FailAttempt(a, t)
           PROVE  Kept
    BY <2>6, EndActiveKeeps DEF FailAttempt, IsActiveRun, Kept
  <2>7. ASSUME NEW t \in Time, NEW a \in Attempts,
                  SucceedAttempt(a, t)
           PROVE  Kept
    BY <2>7, EndActiveKeeps DEF SucceedAttempt, IsActiveRun, Kept
  <2>8. ASSUME NEW t \in Time, NEW a \in Attempts,
                  MarkDispatchUnknown(a, t)
           PROVE  Kept
    BY <2>8 DEF MarkDispatchUnknown, IsActiveRun, Kept, IInv, TypeOK, RunningIsTheActiveAttempt
  <2>9. ASSUME NEW t \in Time, NEW m \in Compatibility,
                  ReconfirmRevision(m, t)
           PROVE  Kept
    BY <2>9 DEF ReconfirmRevision, Kept
  <2>10. ASSUME NEW t \in Time, NEW f \in Artifacts, NEW a \in Attempts,
                  RecordArtifact(f, a, t)
           PROVE  Kept
    BY <2>10, EndActiveKeeps DEF RecordArtifact, IsActiveRun, Kept, IInv, TypeOK
  <2>11. ASSUME NEW t \in Time, NEW c \in Receipts, NEW f \in Artifacts,
                  NEW v \in {"accepted", "rejected"}, NEW q \in Roles,
                  RecordReceipt(c, f, v, q, t)
           PROVE  Kept
    BY <2>11 DEF RecordReceipt, Kept, IInv, TypeOK, ReferencesHold
  <2>12. ASSUME NEW t \in Time,
                  StopMatter(t)
           PROVE  Kept
    BY <2>12 DEF StopMatter, Kept
  <2>13. CASE UNCHANGED vars
    BY <2>13 DEF vars, Kept
  <2>14. QED
    BY <2>1, <2>2, <2>3, <2>4, <2>5, <2>6, <2>7, <2>8, <2>9, <2>10, <2>11,
       <2>12, <2>13 DEF Next
<1>2. QED
  BY <1>1, Safety, PTL DEF Spec, HistoryIsKept, Kept

-----------------------------------------------------------------------------
\* Without an active attempt no gated subject is under work.
LEMMA IdleGate == activeAttempt = None => GatedWork = {}
  BY DEF GatedWork

\* Each command is a step of ApprovalGate, or leaves standing approvals and
\* gated work as they are.
THEOREM GateIsImplemented == Spec => ImplementsApprovalGate
<1>1. Init => Gate!Init
  BY DEF Init, Gate!Init, StandingApprovals, GatedWork
<1>2. IInv /\ IInv' /\ [Next]_vars => [Gate!Next]_<<StandingApprovals, GatedWork>>
  <2> SUFFICES ASSUME IInv, IInv', [Next]_vars
               PROVE  [Gate!Next]_<<StandingApprovals, GatedWork>>
    OBVIOUS
  <2>1. ASSUME NEW t \in Time, NEW r \in Revisions, NEW ready \in BOOLEAN,
                  NEW ss \in SUBSET Scopes, NEW gg \in SUBSET Scopes,
                  EnterEvidence(r, ready, ss, gg, t)
           PROVE  [Gate!Next]_<<StandingApprovals, GatedWork>>
    <3>1. activeAttempt = None /\ activeAttempt' = None
      BY <2>1 DEF EnterEvidence, IInv, RunningIsTheActiveAttempt
    <3>2. UNCHANGED StandingApprovals
      BY <2>1 DEF EnterEvidence, StandingApprovals
    <3>3. QED
      BY <3>1, <3>2 DEF GatedWork
  <2>2. ASSUME NEW t \in Time, NEW s \in Scopes \cup {None},
                  RequestClarification(s, t)
           PROVE  [Gate!Next]_<<StandingApprovals, GatedWork>>
    <3>1. activeAttempt' = None
      BY <2>2 DEF RequestClarification, IsActiveRun, EndActive
    <3>2. UNCHANGED StandingApprovals
      BY <2>2 DEF RequestClarification, StandingApprovals
    <3>3. QED
      BY <3>1, <3>2 DEF GatedWork, Gate!Next, Gate!End
  <2>3. ASSUME NEW t \in Time, NEW d \in Decisions, NEW s \in Scopes,
                  NEW o \in {"approved", "rejected"}, NEW e \in Time \cup {Never},
                  RecordDecision(d, s, o, e, t)
           PROVE  [Gate!Next]_<<StandingApprovals, GatedWork>>
    <3>1. activeAttempt = None /\ activeAttempt' = None
      BY <2>3 DEF RecordDecision, DecisionsAreOpen, IInv, RunningIsTheActiveAttempt
    <3>2. /\ \A x \in Decisions \ {d} : decisions'[x] = decisions[x]
          /\ decisions[d].status = "absent"
          /\ decisions'[d].status = o
          /\ decisions'[d].revision = currentRevision
          /\ decisions'[d].scope = s
          /\ currentRevision \in Revisions
      BY <2>3 DEF RecordDecision, DecisionsAreOpen, IInv, TypeOK, ReferencesHold
    <3>3. CASE o = "approved"
      <4>1. StandingApprovals' =
               StandingApprovals \cup {<<currentRevision, s>>}
        BY <3>2, <3>3 DEF StandingApprovals
      <4>2. QED
        BY <3>1, <3>2, <4>1 DEF GatedWork, Gate!Next, Gate!Grant
    <3>4. CASE o = "rejected"
      <4>1. StandingApprovals' = StandingApprovals
        BY <3>2, <3>4 DEF StandingApprovals
      <4>2. QED
        BY <3>1, <4>1 DEF GatedWork
    <3>5. QED
      BY <3>3, <3>4
  <2>4. ASSUME NEW t \in Time, NEW d \in Decisions,
                  RevokeDecision(d, t)
           PROVE  [Gate!Next]_<<StandingApprovals, GatedWork>>
    <3> DEFINE subject == <<decisions[d].revision, decisions[d].scope>>
    <3>1. activeAttempt = None /\ activeAttempt' = None
      BY <2>4 DEF RevokeDecision, DecisionsAreOpen, IInv, RunningIsTheActiveAttempt
    <3>2. /\ \A x \in Decisions \ {d} : decisions'[x] = decisions[x]
          /\ decisions[d].status = "approved"
          /\ decisions'[d].status = "revoked"
      BY <2>4 DEF RevokeDecision, IInv, TypeOK, Decision
    <3>3. subject \in StandingApprovals
      BY <3>2 DEF StandingApprovals
    <3>4. \/ StandingApprovals' = StandingApprovals
          \/ StandingApprovals' = StandingApprovals \ {subject}
      BY <3>2 DEF StandingApprovals
    <3>5. QED
      BY <3>1, <3>3, <3>4 DEF GatedWork, Gate!Next, Gate!Withdraw
  <2>5. ASSUME NEW t \in Time, NEW a \in Attempts, NEW ss \in SUBSET Scopes,
                  NEW ds \in SUBSET Decisions, NEW m \in Compatibility,
                  StartAttempt(a, ss, ds, m, t)
           PROVE  [Gate!Next]_<<StandingApprovals, GatedWork>>
    <3>1. /\ activeAttempt = None
          /\ activeAttempt' = a
          /\ a # None
          /\ UNCHANGED <<decisions, revisions>>
          /\ attempts'[a].revision = currentRevision
          /\ attempts'[a].scopes = ss
      BY <2>5, NoneIsNoId DEF StartAttempt, IInv, TypeOK
    <3>2. GatedWork' = {currentRevision} \X (ss \cap Gated(currentRevision))
      BY <3>1 DEF GatedWork, Gated
    <3>3. \A s \in ss \cap Gated(currentRevision) :
             <<currentRevision, s>> \in StandingApprovals
      BY <2>5 DEF StartAttempt, GatesOpen, Matches, StandingApprovals
    <3>4. GatedWork' \in SUBSET StandingApprovals
      BY <3>2, <3>3
    <3>5. StandingApprovals' = StandingApprovals
      BY <3>1 DEF StandingApprovals
    <3>6. QED
      BY <3>1, <3>4, <3>5, IdleGate DEF Gate!Next, Gate!Begin
  <2>6. ASSUME NEW t \in Time, NEW a \in Attempts,
                  FailAttempt(a, t)
           PROVE  [Gate!Next]_<<StandingApprovals, GatedWork>>
    <3>1. activeAttempt' = None
      BY <2>6 DEF FailAttempt, IsActiveRun, EndActive
    <3>2. UNCHANGED StandingApprovals
      BY <2>6 DEF FailAttempt, StandingApprovals
    <3>3. QED
      BY <3>1, <3>2 DEF GatedWork, Gate!Next, Gate!End
  <2>7. ASSUME NEW t \in Time, NEW a \in Attempts,
                  SucceedAttempt(a, t)
           PROVE  [Gate!Next]_<<StandingApprovals, GatedWork>>
    <3>1. activeAttempt' = None
      BY <2>7 DEF SucceedAttempt, IsActiveRun, EndActive
    <3>2. UNCHANGED StandingApprovals
      BY <2>7 DEF SucceedAttempt, StandingApprovals
    <3>3. QED
      BY <3>1, <3>2 DEF GatedWork, Gate!Next, Gate!End
  <2>8. ASSUME NEW t \in Time, NEW a \in Attempts,
                  MarkDispatchUnknown(a, t)
           PROVE  [Gate!Next]_<<StandingApprovals, GatedWork>>
    <3>1. /\ UNCHANGED <<activeAttempt, revisions, StandingApprovals>>
          /\ attempts'[a].revision = attempts[a].revision
          /\ attempts'[a].scopes = attempts[a].scopes
          /\ activeAttempt = a
      BY <2>8 DEF MarkDispatchUnknown, IsActiveRun, StandingApprovals, IInv,
         TypeOK, Attempt
    <3>2. QED
      BY <3>1 DEF GatedWork, Gated
  <2>9. ASSUME NEW t \in Time, NEW m \in Compatibility,
                  ReconfirmRevision(m, t)
           PROVE  [Gate!Next]_<<StandingApprovals, GatedWork>>
    <3>1. activeAttempt = None /\ activeAttempt' = None
      BY <2>9 DEF ReconfirmRevision, IInv, RunningIsTheActiveAttempt
    <3>2. UNCHANGED StandingApprovals
      BY <2>9 DEF ReconfirmRevision, StandingApprovals
    <3>3. QED
      BY <3>1, <3>2 DEF GatedWork
  <2>10. ASSUME NEW t \in Time, NEW f \in Artifacts, NEW a \in Attempts,
                  RecordArtifact(f, a, t)
           PROVE  [Gate!Next]_<<StandingApprovals, GatedWork>>
    <3>1. activeAttempt' = None
      BY <2>10 DEF RecordArtifact, IsActiveRun, EndActive
    <3>2. UNCHANGED StandingApprovals
      BY <2>10 DEF RecordArtifact, StandingApprovals
    <3>3. QED
      BY <3>1, <3>2 DEF GatedWork, Gate!Next, Gate!End
  <2>11. ASSUME NEW t \in Time, NEW c \in Receipts, NEW f \in Artifacts,
                  NEW v \in {"accepted", "rejected"}, NEW q \in Roles,
                  RecordReceipt(c, f, v, q, t)
           PROVE  [Gate!Next]_<<StandingApprovals, GatedWork>>
    <3>1. activeAttempt = None /\ activeAttempt' = None
      BY <2>11 DEF RecordReceipt, IInv, RunningIsTheActiveAttempt
    <3>2. UNCHANGED StandingApprovals
      BY <2>11 DEF RecordReceipt, StandingApprovals
    <3>3. QED
      BY <3>1, <3>2 DEF GatedWork
  <2>12. ASSUME NEW t \in Time,
                  StopMatter(t)
           PROVE  [Gate!Next]_<<StandingApprovals, GatedWork>>
    <3>1. activeAttempt = None /\ activeAttempt' = None
      BY <2>12 DEF StopMatter, IInv, RunningIsTheActiveAttempt
    <3>2. UNCHANGED StandingApprovals
      BY <2>12 DEF StopMatter, StandingApprovals
    <3>3. QED
      BY <3>1, <3>2 DEF GatedWork
  <2>13. CASE UNCHANGED vars
    BY <2>13 DEF vars, StandingApprovals, GatedWork, Gated
  <2>14. QED
    BY <2>1, <2>2, <2>3, <2>4, <2>5, <2>6, <2>7, <2>8, <2>9, <2>10, <2>11,
       <2>12, <2>13 DEF Next
<1>3. QED
  BY <1>1, <1>2, Safety, PTL DEF Spec, ImplementsApprovalGate, Gate!Spec
=============================================================================
