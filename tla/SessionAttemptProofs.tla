------------------------ MODULE SessionAttemptProofs ------------------------
(* For any number of requests, attempts, revisions and faults: what a user is  *)
(* told is true, and a turn is the turn of the active attempt.  Proofs about   *)
(* SessionAttempt.                                                             *)
EXTENDS SessionAttempt, FiniteSetTheorems, TLAPS

-----------------------------------------------------------------------------
(* The inductive invariant.                                                  *)

\* The matter runs exactly when it has an active attempt, which was written.
Running ==
    /\ stage = "running" <=> activeAttempt # None
    /\ activeAttempt # None => attempts[activeAttempt].status # "absent"
    /\ currentRevision # None

\* The attempts whose prompt may still come, and the prompts that came.
Coming == {a \in Attempts :
              \/ attempts[a].status = "absent"
              \/ \E q \in Requests : /\ flow[q].attempt = a
                                     /\ flow[q].at \in {"dispatching", "sending"}}
UnderWay == IF turn.state = "none" THEN 0 ELSE 1
Came == Len(inbox) + UnderWay + Ended

\* Every prompt of the session is of an attempt of its own, or of a fault.
Budget == Came + Cardinality(Coming) <= MaxAttempts + faults

\* Who decided for a revision did so on the matter as it still is, or is behind.
Prepared ==
    \A q \in Requests :
        /\ flow[q].version <= version
        /\ flow[q].at \in {"preparing", "writing"} /\ flow[q].version = version
              => RevisionIsNeeded

Holding == {"dispatching", "sending", "delivered", "declined"}

\* A request that has written its attempt is the only one to hold it.
HeldOnce ==
    \A q \in Requests :
        /\ flow[q].at \in Holding <=> flow[q].attempt # None
        /\ \A p \in Requests :
              flow[p].attempt = flow[q].attempt /\ flow[q].attempt # None => p = q

\* What is held is not yet answered, and in the session only once delivered.
HeldIsOpen ==
    \A q \in Requests, a \in Attempts : flow[q].attempt = a =>
        /\ told[a] = "nothing"
        /\ attempts[a].status # "absent"
        /\ attempts[a].scopes = {Scope(q)}
        /\ flow[q].at # "delivered" => ~ Prompted(a)
        /\ flow[q].at = "delivered" /\ q \in Sends => Prompted(a)

UnusedIsNew ==
    \A a \in Attempts : attempts[a].status = "absent" =>
        told[a] = "nothing" /\ ~ Prompted(a)

NoTurnIsNobodys == turn.state = "none" => turn.attempt = None

IInv == /\ TypeOK /\ Running /\ Budget /\ Prepared /\ NoTurnIsNobodys
        /\ HeldOnce /\ HeldIsOpen /\ UnusedIsNew /\ AnswersAreTrue

-----------------------------------------------------------------------------
(* The rest of it, which three of the faults break: a reading that is not the *)
(* session's, a turn that ends under a reading, a prompt without an attempt.   *)

NoTurnFaults == {"broken", "slow", "return"} \cap Faults = {}

NoWork == inbox = <<>> /\ turn.state = "none"

\* An active attempt has had no turn end since it was written, or only its own.
ActiveIsAhead ==
    /\ ~ NoWork => activeAttempt # None /\ baseline[activeAttempt] = Ended
    /\ activeAttempt # None =>
          \/ baseline[activeAttempt] = Ended
          \/ /\ Ended = baseline[activeAttempt] + 1
             /\ ends[Ended].attempt = activeAttempt

\* Until its prompt is delivered, the attempt is active and the session is quiet.
HeldIsActive ==
    \A q \in Requests :
        /\ flow[q].at \in {"dispatching", "sending"} =>
              /\ activeAttempt = flow[q].attempt
              /\ NoWork
              /\ baseline[activeAttempt] = Ended
        /\ flow[q].at = "declined" /\ activeAttempt = flow[q].attempt => NoWork
        /\ flow[q].at = "delivered" => q \in Sends

\* A reading in hand is of the session as it is.
ReadingsHold ==
    /\ polled # None /\ polled.edge # 0 => polled.edge = Ended
    /\ \A q \in Requests :
          /\ flow[q].at = "closing" /\ flow[q].reading.edge # 0
                => flow[q].reading.edge = Ended
          /\ flow[q].at = "appending" /\ flow[q].version = version
             /\ activeAttempt = None
                => flow[q].reading.edge = Ended

ClosedOnOwn ==
    \A a \in Attempts : closedOn[a] # 0 =>
        closedOn[a] <= Ended /\ ends[closedOn[a]].attempt = a

Own == /\ WorkIsTheActiveAttempts /\ ActiveIsAhead /\ HeldIsActive
       /\ ReadingsHold /\ ClosedOnOwn
OwnInv == IInv /\ Own

-----------------------------------------------------------------------------
(* What a step does to the place of one request.                             *)

Places == {"idle", "reading", "closing", "deciding", "preparing", "writing",
           "resolving", "binding", "admitting", "verifying", "observing",
           "appending", "dispatching", "sending", "delivered", "declined"}

\* The flow of q moves and nobody else's; attempt and version are what later
\* steps look at.
Moves(q, place, v, a) ==
    /\ flow' \in [Requests -> Flow]
    /\ \A p \in Requests \ {q} : flow'[p] = flow[p]
    /\ flow'[q].at = place
    /\ flow'[q].version = v
    /\ flow'[q].attempt = a

LEMMA GoesFacts ==
    ASSUME flow \in [Requests -> Flow], NEW q \in Requests, NEW place \in Places,
           Goes(q, place)
    PROVE  /\ Moves(q, place, flow[q].version, flow[q].attempt)
           /\ flow'[q].reading = flow[q].reading
  BY DEF Goes, Flow, Places, Moves

LEMMA TakesVersion ==
    ASSUME flow \in [Requests -> Flow], NEW q \in Requests, NEW place \in Places,
           NEW v \in Nat, Takes(q, place, "version", v)
    PROVE  Moves(q, place, v, flow[q].attempt)
  <1> DEFINE moved == [flow[q] EXCEPT !.at = place, !.version = v]
  <1>1. flow[q] \in Flow
    OBVIOUS
  <1>2. moved \in Flow
    BY <1>1 DEF Flow, Places
  <1>3. flow' = [flow EXCEPT ![q] = moved]
    BY <1>1 DEF Takes, Flow
  <1>4. flow'[q] = moved /\ \A p \in Requests \ {q} : flow'[p] = flow[p]
    BY <1>3
  <1>5. flow' \in [Requests -> Flow]
    BY <1>2, <1>3
  <1>6. /\ moved.at = place
        /\ moved.version = v
        /\ moved.attempt = flow[q].attempt
    BY <1>1 DEF Flow
  <1> HIDE DEF moved
  <1>7. QED
    BY <1>4, <1>5, <1>6 DEF Moves

LEMMA TakesGeneration ==
    ASSUME flow \in [Requests -> Flow], NEW q \in Requests, NEW place \in Places,
           NEW v \in Nat, Takes(q, place, "generation", v)
    PROVE  Moves(q, place, flow[q].version, flow[q].attempt)
  <1> DEFINE moved == [flow[q] EXCEPT !.at = place, !.generation = v]
  <1>1. flow[q] \in Flow
    OBVIOUS
  <1>2. moved \in Flow
    BY <1>1 DEF Flow, Places
  <1>3. flow' = [flow EXCEPT ![q] = moved]
    BY <1>1 DEF Takes, Flow
  <1>4. flow'[q] = moved /\ \A p \in Requests \ {q} : flow'[p] = flow[p]
    BY <1>3
  <1>5. flow' \in [Requests -> Flow]
    BY <1>2, <1>3
  <1>6. /\ moved.at = place
        /\ moved.version = flow[q].version
        /\ moved.attempt = flow[q].attempt
    BY <1>1 DEF Flow
  <1> HIDE DEF moved
  <1>7. QED
    BY <1>4, <1>5, <1>6 DEF Moves

LEMMA TakesRevision ==
    ASSUME flow \in [Requests -> Flow], NEW q \in Requests, NEW place \in Places,
           NEW v \in Revisions, Takes(q, place, "revision", v)
    PROVE  Moves(q, place, flow[q].version, flow[q].attempt)
  <1> DEFINE moved == [flow[q] EXCEPT !.at = place, !.revision = v]
  <1>1. flow[q] \in Flow
    OBVIOUS
  <1>2. moved \in Flow
    BY <1>1 DEF Flow, Places
  <1>3. flow' = [flow EXCEPT ![q] = moved]
    BY <1>1 DEF Takes, Flow
  <1>4. flow'[q] = moved /\ \A p \in Requests \ {q} : flow'[p] = flow[p]
    BY <1>3
  <1>5. flow' \in [Requests -> Flow]
    BY <1>2, <1>3
  <1>6. /\ moved.at = place
        /\ moved.version = flow[q].version
        /\ moved.attempt = flow[q].attempt
    BY <1>1 DEF Flow
  <1> HIDE DEF moved
  <1>7. QED
    BY <1>4, <1>5, <1>6 DEF Moves

LEMMA TakesReading ==
    ASSUME flow \in [Requests -> Flow], NEW q \in Requests, NEW place \in Places,
           NEW r \in Reading, Takes(q, place, "reading", r)
    PROVE  /\ Moves(q, place, flow[q].version, flow[q].attempt)
           /\ flow'[q].reading = r
  <1> DEFINE moved == [flow[q] EXCEPT !.at = place, !.reading = r]
  <1>1. flow[q] \in Flow
    OBVIOUS
  <1>2. moved \in Flow
    BY <1>1 DEF Flow, Places
  <1>3. flow' = [flow EXCEPT ![q] = moved]
    BY <1>1 DEF Takes, Flow
  <1>4. flow'[q] = moved /\ \A p \in Requests \ {q} : flow'[p] = flow[p]
    BY <1>3
  <1>5. flow' \in [Requests -> Flow]
    BY <1>2, <1>3
  <1>6. /\ moved.at = place
        /\ moved.version = flow[q].version
        /\ moved.attempt = flow[q].attempt
        /\ moved.reading = r
    BY <1>1 DEF Flow
  <1> HIDE DEF moved
  <1>7. QED
    BY <1>4, <1>5, <1>6 DEF Moves

LEMMA ZeroIsAnEdge == 0 \in Edges /\ NoReading \in Reading
  BY BoundsAreNat DEF Edges, NoReading, Reading

LEMMA LeavesFacts ==
    ASSUME flow \in [Requests -> Flow], NEW q \in Requests, Leaves(q)
    PROVE  Moves(q, "idle", 0, None)
  <1>1. NoFlow \in Flow
    BY ZeroIsAnEdge DEF NoFlow, Flow
  <1>2. QED
    BY <1>1 DEF Leaves, NoFlow, Moves

-----------------------------------------------------------------------------
(* What a command of the kernel does here.                                   *)

\* The attempts keep what was said of them when they were written.
SameUse ==
    \A a \in Attempts :
        /\ attempts'[a].status = "absent" <=> attempts[a].status = "absent"
        /\ attempts'[a].scopes = attempts[a].scopes

Typed == K!TypeOK /\ version \in Nat

\* No attempt is written, and the version tells any change.
Calm == /\ Typed' /\ Running' /\ SameUse
        /\ UNCHANGED matter \/ version' = version + 1

LEMMA NoneIsNoAttempt == None \notin Attempts /\ None \notin Revisions
  BY NoneIsNoNumber, BoundsAreNat DEF Attempts, Revisions

LEMMA KeepsIsCalm ==
    ASSUME Typed, Running, KeepsMatter PROVE Calm
  BY DEF Typed, KeepsMatter, matter, Calm, SameUse, Running, K!TypeOK, K!Time

LEMMA EnterIsCalm ==
    ASSUME Typed, Running, NEW r \in Revisions,
           Writes(K!EnterEvidence(r, TRUE, RunScopes, {}, 0))
    PROVE  /\ Calm
           /\ activeAttempt = None /\ activeAttempt' = None
           /\ version' = version + 1
  <1> USE DEF Writes, K!EnterEvidence, K!Occurs
  <1>1. activeAttempt = None /\ activeAttempt' = None /\ version' = version + 1
    BY DEF Running
  <1>2. revisions' \in [Revisions -> K!Revision]
    <2>1. [entered |-> TRUE, ready |-> TRUE, scopes |-> RunScopes, gated |-> {}]
             \in K!Revision
      BY RunScopesAreScopes DEF K!Revision
    <2>2. QED
      BY <2>1 DEF Typed, K!TypeOK
  <1>3. Typed'
    BY <1>1, <1>2 DEF Typed, K!TypeOK, K!NoClarification, K!Pending, K!Stages,
                 K!Conclusions, K!Time
  <1>4. Running'
    BY <1>1, NoneIsNoAttempt DEF Running
  <1>5. QED
    BY <1>1, <1>3, <1>4 DEF Calm, SameUse

LEMMA EndIsCalm ==
    ASSUME Typed, Running, NEW a \in Attempts,
           Writes(K!SucceedAttempt(a, 0)) \/ Writes(K!FailAttempt(a, 0))
    PROVE  /\ Calm
           /\ activeAttempt = a /\ activeAttempt' = None
           /\ version' = version + 1
           /\ currentRevision' = currentRevision
  <1> USE DEF Writes, K!SucceedAttempt, K!FailAttempt, K!Occurs, K!EndActive, K!IsActiveRun
  <1>1. activeAttempt = a /\ activeAttempt' = None /\ version' = version + 1
        /\ currentRevision' = currentRevision
    OBVIOUS
  <1>0. /\ pending' = K!NoClarification /\ stage' \in {"evidence", "failed-retry"}
        /\ now' = 0
        /\ UNCHANGED <<conclusion, revisions, decisions, artifacts, latestArtifact, receipts>>
    OBVIOUS
  <1>2. PICK s \in {"succeeded", "failed"} : attempts' = [attempts EXCEPT ![a].status = s]
    BY <1>1
  <1>3. attempts' \in [Attempts -> K!Attempt] /\ SameUse
    <2>1. attempts[a].status # "absent"
      BY <1>1, NoneIsNoAttempt DEF Running
    <2>2. QED
      BY <1>2, <2>1 DEF Typed, K!TypeOK, K!Attempt, SameUse
  <1>4. Typed'
    <2> HIDE DEF Writes, K!SucceedAttempt, K!FailAttempt
    <2> QED
      BY <1>0, <1>1, <1>3 DEF Typed, K!TypeOK, K!NoClarification, K!Pending, K!Stages, K!Time
  <1>5. Running'
    BY <1>0, <1>1 DEF Running
  <1>6. QED
    BY <1>1, <1>3, <1>4, <1>5 DEF Calm

LEMMA MarkIsCalm ==
    ASSUME Typed, Running, NEW a \in Attempts, Writes(K!MarkDispatchUnknown(a, 0))
    PROVE  /\ Calm
           /\ activeAttempt' = activeAttempt
           /\ version' = version + 1
           /\ currentRevision' = currentRevision
  <1> USE DEF Writes, K!MarkDispatchUnknown, K!Occurs
  <1>1. attempts' \in [Attempts -> K!Attempt] /\ SameUse
    BY DEF Typed, K!TypeOK, K!Attempt, SameUse
  <1>2. Typed'
    BY <1>1 DEF Typed, K!TypeOK, K!Time
  <1>3. Running'
    BY <1>1 DEF Running, SameUse, Typed, K!TypeOK
  <1>4. QED
    BY <1>1, <1>2, <1>3 DEF Calm

LEMMA StartFacts ==
    ASSUME Typed, Running, NEW a \in Attempts, NEW s \in Scopes,
           Writes(K!StartAttempt(a, {s}, {}, "equivalent", 0))
    PROVE  /\ Typed' /\ Running'
           /\ activeAttempt = None /\ activeAttempt' = a
           /\ version' = version + 1
           /\ currentRevision' = currentRevision
           /\ attempts'[a].status # "absent" /\ attempts'[a].scopes = {s}
           /\ \A b \in Attempts \ {a} : attempts'[b] = attempts[b]
  <1> USE DEF Writes, K!StartAttempt, K!Occurs
  <1>1. [status |-> "running", revision |-> currentRevision, scopes |-> {s},
         decisions |-> {}, startedAt |-> 0, dispatchUnknown |-> FALSE] \in K!Attempt
    BY DEF Typed, K!TypeOK, K!Attempt, K!Time
  <1>2. /\ attempts' \in [Attempts -> K!Attempt]
        /\ attempts'[a].status # "absent" /\ attempts'[a].scopes = {s}
        /\ \A b \in Attempts \ {a} : attempts'[b] = attempts[b]
    BY <1>1 DEF Typed, K!TypeOK
  <1>3. Typed'
    BY <1>2 DEF Typed, K!TypeOK, K!NoClarification, K!Pending, K!Stages, K!Time
  <1>4. Running'
    BY <1>2, NoneIsNoAttempt DEF Running
  <1>5. QED
    BY <1>2, <1>3, <1>4

-----------------------------------------------------------------------------
(* The two shapes of a step that gives the session no prompt.                *)

Stays(p) ==
    /\ flow'[p].attempt = flow[p].attempt
    /\ \/ flow[p].attempt = None /\ flow'[p].at \notin Holding
       \/ flow'[p].at = flow[p].at
       \/ /\ flow[p].at \in {"dispatching", "sending"}
          /\ \/ flow'[p].at \in {"sending", "declined"}
             \/ flow'[p].at = "delivered" /\ p \notin Sends
Sheds(p) == flow'[p].attempt = None /\ flow'[p].at \notin Holding

SameSession == /\ inbox' = inbox /\ ends' = ends
               /\ turn'.attempt = turn.attempt /\ UnderWay' = UnderWay

Quiet == /\ SameUse /\ SameSession /\ told' = told /\ faults' >= faults
         /\ \A p \in Requests : Stays(p) \/ Sheds(p)

\* The request of an attempt ends and its caller is told something.
Tells(q, answer) ==
    /\ SameUse /\ SameSession /\ faults' >= faults
    /\ flow[q].at \in Holding
    /\ \A p \in Requests \ {q} : flow'[p] = flow[p]
    /\ Sheds(q) /\ flow'[q].at = "idle"
    /\ told' = [told EXCEPT ![flow[q].attempt] = answer]
    /\ answer \in {"retryable", "refused"} => flow[q].at # "delivered"
    /\ answer = "accepted" => flow[q].at = "delivered"
    /\ answer # "nothing"

\* What every step keeps.
Sound == /\ TypeOK' /\ Running' /\ Prepared'
         /\ currentRevision' # currentRevision => RevisionIsNeeded

FaultsGrow == faults' \in 0 .. MaxFaults /\ faults' >= faults

LEMMA FaultGrows ==
    ASSUME TypeOK, NEW kind, Fault(kind) PROVE FaultsGrow
  BY BoundsAreNat DEF TypeOK, Fault, FaultsGrow

LEMMA SameFaults ==
    ASSUME TypeOK, UNCHANGED faults PROVE FaultsGrow
  BY DEF TypeOK, FaultsGrow

LEMMA ComingIsFinite ==
    ASSUME TypeOK
    PROVE  IsFiniteSet(Coming) /\ Cardinality(Coming) \in Nat
  <1>1. IsFiniteSet(Attempts)
    BY BoundsAreNat, FS_Interval DEF Attempts
  <1>2. IsFiniteSet(Coming)
    BY <1>1, FS_Subset DEF Coming
  <1>3. QED
    BY <1>2, FS_CardinalityType

LEMMA EndedIsAnEdge ==
    ASSUME TypeOK, Budget
    PROVE  Ended \in Nat /\ Ended \in Edges /\ Ended = Len(ends)
  <1>1. Len(inbox) \in Nat /\ Ended \in Nat /\ UnderWay \in Nat
    BY DEF TypeOK, Ended, UnderWay
  <1>2. Came \in Nat /\ Came >= Ended
    BY <1>1 DEF Came
  <1>3. Ended <= MaxAttempts + MaxFaults
    BY <1>1, <1>2, ComingIsFinite, BoundsAreNat DEF Budget, TypeOK
  <1>4. QED
    BY <1>1, <1>3, BoundsAreNat DEF Edges, Ended

TurnEnds == [kind : {"completed", "failed", "other"}, attempt : Attempts \cup {None}]

LEMMA ElementFacts ==
    ASSUME NEW S, NEW s \in Seq(S), NEW n \in 1 .. Len(s) PROVE s[n] \in S
  OBVIOUS

LEMMA ReadingsAreTyped ==
    ASSUME TypeOK, Budget, NEW r \in Readings
    PROVE  r \in Reading
  <1>0. Ended \in Nat /\ Ended \in Edges /\ Ended = Len(ends)
    BY EndedIsAnEdge
  <1>1. \A n \in 0 .. Ended : After(n) \in Reading
    <2> SUFFICES ASSUME NEW n \in 0 .. Ended PROVE After(n) \in Reading
      OBVIOUS
    <2>1. n \in Edges
      <3>1. MaxAttempts + MaxFaults \in Nat
        BY BoundsAreNat
      <3>2. n \in Nat /\ n <= Ended
        BY <1>0
      <3>3. Ended <= MaxAttempts + MaxFaults
        BY <1>0, <3>1 DEF Edges
      <3>4. QED
        BY <1>0, <3>1, <3>2, <3>3 DEF Edges
    <2>2. n # 0 => ends[n].kind \in {"completed", "failed", "other"}
      <3>1. ends \in Seq(TurnEnds)
        BY DEF TypeOK, TurnEnds
      <3>2. n # 0 => n \in 1 .. Len(ends)
        BY <1>0
      <3>3. n # 0 => ends[n] \in TurnEnds
        BY <3>1, <3>2, ElementFacts
      <3>4. QED
        BY <3>3 DEF TurnEnds
    <2>3. QED
      BY <2>1, <2>2 DEF After, Reading
  <1>2. Executing \in Reading
    BY ZeroIsAnEdge DEF Executing, Reading
  <1>3. QED
    BY <1>1, <1>2, EndedIsAnEdge DEF Readings, Exact

LEMMA ReadsGrow ==
    ASSUME TypeOK, NEW r, Reads(r) PROVE FaultsGrow
  BY FaultGrows, SameFaults DEF Reads

-----------------------------------------------------------------------------
(* The parts of a step.                                                      *)

\* The versions in hand, looked at before the step writes.
VersionsHold ==
    \A p \in Requests :
        /\ flow'[p].version <= version
        /\ flow'[p].at \in {"preparing", "writing"} /\ flow'[p].version = version
              => RevisionIsNeeded

LEMMA MoveVersions ==
    ASSUME IInv, NEW q \in Requests, NEW place, NEW v, NEW a, Moves(q, place, v, a),
           v <= version,
           place \in {"preparing", "writing"} /\ v = version => RevisionIsNeeded
    PROVE  VersionsHold
  BY DEF Moves, VersionsHold, IInv, Prepared

LEMMA PreparedStays ==
    ASSUME Typed, flow' \in [Requests -> Flow], VersionsHold,
           UNCHANGED matter \/ version' = version + 1
    PROVE  Prepared'
  <1> SUFFICES ASSUME NEW p \in Requests
               PROVE  /\ flow'[p].version <= version'
                      /\ flow'[p].at \in {"preparing", "writing"}
                         /\ flow'[p].version = version' => RevisionIsNeeded'
    BY DEF Prepared
  <1>1. flow'[p].version \in Nat /\ flow'[p].version <= version /\ version \in Nat
    BY DEF VersionsHold, Typed, Flow
  <1>2. CASE UNCHANGED matter
    BY <1>1, <1>2 DEF matter, VersionsHold, RevisionIsNeeded
  <1>3. CASE version' = version + 1
    BY <1>1, <1>3
  <1>4. QED
    BY <1>2, <1>3

LEMMA QuietMove ==
    ASSUME IInv, NEW q \in Requests, NEW place \in Places \ Holding, NEW v,
           Moves(q, place, v, None), SameUse, SameSession, told' = told, FaultsGrow
    PROVE  Quiet
  BY DEF Moves, Quiet, Stays, Sheds, FaultsGrow

LEMMA TurnCloseFacts ==
    ASSUME TypeOK, Running, NEW r \in Reading, TurnClose(r)
    PROVE  /\ Calm /\ FaultsGrow
           /\ closedOn' \in [Attempts -> Edges]
           /\ currentRevision' = currentRevision
  <1>1. Typed
    BY DEF TypeOK, Typed
  <1>2. CASE KeepsMatter /\ closedOn' = closedOn
    <2>1. FaultsGrow
      BY SameFaults, FaultGrows, Zenon DEF TurnClose, IsLost
    <2>2. QED
      BY <1>1, <1>2, <2>1, KeepsIsCalm DEF KeepsMatter, matter, TypeOK
  <1>3. CASE /\ activeAttempt # None
             /\ \/ Writes(K!SucceedAttempt(activeAttempt, 0))
                \/ Writes(K!FailAttempt(activeAttempt, 0))
             /\ closedOn' = [closedOn EXCEPT ![activeAttempt] = r.edge]
             /\ UNCHANGED faults
    <2>1. activeAttempt \in Attempts
      BY <1>3 DEF TypeOK, K!TypeOK
    <2>2. Calm /\ currentRevision' = currentRevision
      BY <1>1, <1>3, <2>1, EndIsCalm
    <2>3. closedOn' \in [Attempts -> Edges]
      BY <1>3 DEF TypeOK, Reading
    <2>4. QED
      BY <1>3, <2>2, <2>3, SameFaults
  <1>4. QED
    BY <1>2, <1>3 DEF TurnClose, IsLost

RestTyped ==
    /\ baseline \in [Attempts -> Edges]
    /\ context \in [revision : Revisions \cup {None}, generation : Nat]
    /\ flow \in [Requests -> Flow]
    /\ inbox \in Seq(Attempts \cup {None})
    /\ turn \in [state : {"none", "running", "waiting"}, attempt : Attempts \cup {None}]
    /\ ends \in Seq(TurnEnds)
    /\ polled \in Reading \cup {None}
    /\ seen \in Edges
    /\ closedOn \in [Attempts -> Edges]
    /\ told \in [Attempts -> {"nothing", "retryable", "refused", "unknown", "accepted"}]
    /\ faults \in 0 .. MaxFaults

LEMMA TypeParts == TypeOK <=> Typed /\ RestTyped
  BY DEF TypeOK, Typed, RestTyped, TurnEnds

LEMMA Basics ==
    ASSUME IInv
    PROVE  /\ TypeOK /\ Typed /\ RestTyped /\ Running /\ Budget
           /\ flow \in [Requests -> Flow]
           /\ version \in Nat
           /\ \A q \in Requests :
                 /\ flow[q].at \notin Holding => flow[q].attempt = None
                 /\ flow[q].at \in Holding => flow[q].attempt \in Attempts
                 /\ flow[q].version \in Nat /\ flow[q].version <= version
  <1>1. TypeOK /\ Typed /\ RestTyped /\ Running /\ Budget
    BY TypeParts DEF IInv
  <1>2. flow \in [Requests -> Flow] /\ version \in Nat
    BY <1>1 DEF RestTyped, Typed
  <1>3. ASSUME NEW q \in Requests
        PROVE  /\ flow[q].at \notin Holding => flow[q].attempt = None
               /\ flow[q].at \in Holding => flow[q].attempt \in Attempts
               /\ flow[q].version \in Nat /\ flow[q].version <= version
    BY <1>2, <1>3 DEF IInv, HeldOnce, Prepared, Flow
  <1>4. QED
    BY <1>1, <1>2, <1>3

LEMMA SoundStep ==
    ASSUME IInv, Typed', RestTyped', Running', VersionsHold,
           UNCHANGED matter \/ version' = version + 1,
           currentRevision' # currentRevision => RevisionIsNeeded
    PROVE  Sound
  <1>1. TypeOK'
    BY TypeParts DEF TypeOK, Typed, RestTyped, TurnEnds
  <1>2. Prepared'
    BY Basics, PreparedStays DEF RestTyped
  <1>3. QED
    BY <1>1, <1>2 DEF Sound

\* A request goes on, no attempt in its hand, and the session knows nothing of it.
LEMMA PlainMove ==
    ASSUME IInv, NEW q \in Requests, NEW place \in Places \ Holding, NEW v \in Nat,
           Moves(q, place, v, None), v <= version,
           place \in {"preparing", "writing"} /\ v = version => RevisionIsNeeded,
           Calm, currentRevision' # currentRevision => RevisionIsNeeded,
           UNCHANGED <<session, observer, baseline, told>>,
           context' \in [revision : Revisions \cup {None}, generation : Nat],
           closedOn' \in [Attempts -> Edges],
           FaultsGrow
    PROVE  Sound /\ Quiet
  <1>1. VersionsHold
    BY MoveVersions
  <1>2. RestTyped'
    BY Basics DEF RestTyped, Moves, session, observer, FaultsGrow
  <1>3. Sound
    BY <1>1, <1>2, SoundStep DEF Calm
  <1>4. SameSession
    BY DEF session, SameSession, UnderWay
  <1>5. QED
    BY <1>3, <1>4, QuietMove DEF Calm

LEMMA KeepsMove ==
    ASSUME IInv, NEW q \in Requests, NEW place \in Places \ Holding, NEW v \in Nat,
           Moves(q, place, v, None), v <= version,
           place \in {"preparing", "writing"} /\ v = version => RevisionIsNeeded,
           KeepsMatter, UNCHANGED <<session, observer, records>>,
           context' \in [revision : Revisions \cup {None}, generation : Nat],
           FaultsGrow
    PROVE  Sound /\ Quiet
  <1>1. Calm /\ currentRevision' = currentRevision
    BY Basics, KeepsIsCalm DEF KeepsMatter, matter
  <1>2. closedOn' \in [Attempts -> Edges] /\ UNCHANGED <<session, observer, baseline, told>>
    BY Basics DEF RestTyped, records
  <1>3. QED
    BY <1>1, <1>2, PlainMove

-----------------------------------------------------------------------------
(* A request on its way to the admission, step by step.                      *)

LEMMA Here ==
    ASSUME IInv, NEW q \in Requests, flow[q].at \notin Holding
    PROVE  flow[q].attempt = None /\ flow[q].version \in Nat /\ flow[q].version <= version
  BY Basics

LEMMA SameContext ==
    ASSUME IInv, UNCHANGED context
    PROVE  context' \in [revision : Revisions \cup {None}, generation : Nat]
  BY Basics DEF RestTyped

LEMMA BeginSteps ==
    ASSUME IInv, NEW q \in Requests, Begin(q)
    PROVE  Sound /\ Quiet
  <1>1. flow[q].attempt = None /\ flow[q].version \in Nat /\ flow[q].version <= version
    BY Here DEF Begin, At, Holding
  <1>2. PICK place \in {"deciding", "reading", "admitting"} :
            Moves(q, place, flow[q].version, None)
    <2>1. CASE Goes(q, SendBegins)
      BY <1>1, <2>1, Basics, GoesFacts DEF SendBegins, Places
    <2>2. CASE Goes(q, "admitting")
      BY <1>1, <2>2, Basics, GoesFacts DEF Places
    <2>3. CASE Takes(q, "deciding", "generation", context.generation)
      <3>1. context.generation \in Nat
        BY Basics DEF RestTyped
      <3>2. QED
        BY <1>1, <2>3, <3>1, Basics, TakesGeneration DEF Places
    <2>4. QED
      BY <2>1, <2>2, <2>3 DEF Begin
  <1>3. QED
    BY <1>1, <1>2, KeepsMove, SameContext, SameFaults, Basics DEF Begin, Places, Holding

LEMMA ReadFoldSteps ==
    ASSUME IInv, NEW q \in Requests, ReadFold(q)
    PROVE  Sound /\ Quiet
  <1>1. flow[q].attempt = None /\ flow[q].version \in Nat /\ flow[q].version <= version
    BY Here DEF ReadFold, At, Holding
  <1>2. PICK r \in Readings : Reads(r) /\ Takes(q, "closing", "reading", r)
    BY DEF ReadFold
  <1>3. Moves(q, "closing", flow[q].version, None)
    BY <1>1, <1>2, ReadingsAreTyped, TakesReading, Basics DEF Places
  <1>4. FaultsGrow
    BY <1>2, ReadsGrow, Basics
  <1>5. QED
    BY <1>1, <1>3, <1>4, KeepsMove, SameContext DEF ReadFold, Places, Holding

LEMMA CloseByFoldSteps ==
    ASSUME IInv, NEW q \in Requests, CloseByFold(q)
    PROVE  Sound /\ Quiet
  <1>1. flow[q].attempt = None /\ flow[q].version \in Nat /\ flow[q].version <= version
    BY Here DEF CloseByFold, At, Holding
  <1>2. flow[q].reading \in Reading
    BY Basics DEF Flow
  <1>3. Moves(q, "deciding", flow[q].version, None)
    BY <1>1, ZeroIsAnEdge, TakesReading, Basics DEF CloseByFold, Places
  <1>4. /\ Calm /\ FaultsGrow /\ currentRevision' = currentRevision
        /\ closedOn' \in [Attempts -> Edges]
    <2>1. CASE TurnClose(flow[q].reading)
      BY <1>2, <2>1, TurnCloseFacts, Basics
    <2>2. CASE KeepsMatter /\ UNCHANGED <<closedOn, faults>>
      BY <2>2, KeepsIsCalm, SameFaults, Basics DEF KeepsMatter, matter, RestTyped
    <2>3. QED
      BY <2>1, <2>2 DEF CloseByFold
  <1>5. QED
    BY <1>1, <1>3, <1>4, PlainMove, SameContext DEF CloseByFold, Places, Holding

LEMMA DecideSteps ==
    ASSUME IInv, NEW q \in Requests, Decide(q)
    PROVE  Sound /\ Quiet
  <1>1. flow[q].attempt = None /\ flow[q].version \in Nat /\ flow[q].version <= version
    BY Here DEF Decide, At, Holding
  <1>2. FaultsGrow /\ KeepsMatter /\ UNCHANGED <<context, session, observer, records>>
    BY SameFaults, Basics DEF Decide
  <1>3. CASE RevisionIsNeeded
    <2>1. Moves(q, "preparing", version, None)
      BY <1>1, <1>3, TakesVersion, Basics DEF Decide, Places
    <2>2. QED
      BY <1>2, <1>3, <2>1, KeepsMove, SameContext, Basics DEF Places, Holding
  <1>4. CASE ~ RevisionIsNeeded
    <2>1. PICK place \in {"admitting", "resolving"} : Goes(q, place)
      BY <1>4 DEF Decide
    <2>2. Moves(q, place, flow[q].version, None)
      BY <1>1, <2>1, GoesFacts, Basics DEF Places
    <2>3. QED
      BY <1>1, <1>2, <2>2, KeepsMove, SameContext DEF Places, Holding
  <1>5. QED
    BY <1>3, <1>4

LEMMA PreparePortsSteps ==
    ASSUME IInv, NEW q \in Requests, PreparePorts(q)
    PROVE  Sound /\ Quiet
  <1>1. flow[q].attempt = None /\ flow[q].version \in Nat /\ flow[q].version <= version
    BY Here DEF PreparePorts, At, Holding
  <1>2. FaultsGrow /\ KeepsMatter /\ UNCHANGED <<context, session, observer, records>>
    BY SameFaults, Basics DEF PreparePorts
  <1>3. CASE Leaves(q)
    BY <1>2, <1>3, LeavesFacts, KeepsMove, SameContext, Basics DEF Places, Holding
  <1>4. CASE Goes(q, "writing")
    <2>1. Moves(q, "writing", flow[q].version, None)
      BY <1>1, <1>4, GoesFacts, Basics DEF Places
    <2>2. flow[q].version = version => RevisionIsNeeded
      BY DEF PreparePorts, At, IInv, Prepared
    <2>3. QED
      BY <1>1, <1>2, <2>1, <2>2, KeepsMove, SameContext DEF Places, Holding
  <1>5. QED
    BY <1>3, <1>4 DEF PreparePorts

LEMMA WriteRevisionSteps ==
    ASSUME IInv, NEW q \in Requests, WriteRevision(q)
    PROVE  Sound /\ Quiet
  <1>1. flow[q].attempt = None /\ flow[q].version \in Nat /\ flow[q].version <= version
    BY Here DEF WriteRevision, At, Holding
  <1>2. UNCHANGED <<context, session, observer, records>>
    BY DEF WriteRevision
  <1>3. CASE /\ StillAtVersion(q)
             /\ \E r \in Revisions :
                   IsNextRevision(r) /\ Writes(K!EnterEvidence(r, TRUE, RunScopes, {}, 0))
             /\ Goes(q, IF q \in Sends THEN "admitting" ELSE "resolving")
             /\ UNCHANGED faults
    <2>1. Calm
      BY <1>3, EnterIsCalm, Basics
    <2>2. RevisionIsNeeded
      BY <1>3 DEF WriteRevision, At, StillAtVersion, IInv, Prepared
    <2>3. PICK place \in {"admitting", "resolving"} : Goes(q, place)
      BY <1>3
    <2>4. Moves(q, place, flow[q].version, None)
      BY <1>1, <2>3, GoesFacts, Basics DEF Places
    <2>5. FaultsGrow
      BY <1>3, SameFaults, Basics
    <2>6. /\ closedOn' \in [Attempts -> Edges]
          /\ UNCHANGED <<session, observer, baseline, told>>
      BY <1>2, Basics DEF records, RestTyped
    <2>7. QED
      BY <1>1, <1>2, <2>1, <2>2, <2>4, <2>5, <2>6, PlainMove, SameContext
         DEF Places, Holding
  <1>4. CASE KeepsMatter /\ Leaves(q) /\ FaultsGrow
    BY <1>2, <1>4, LeavesFacts, KeepsMove, SameContext, Basics DEF Places, Holding
  <1>5. QED
    <2>1. ASSUME \/ ~ StillAtVersion(q) /\ UNCHANGED faults
                 \/ stage = "running" /\ UNCHANGED faults
                 \/ (\A r \in Revisions : revisions[r].entered) /\ UNCHANGED faults
                 \/ Fault("io")
          PROVE  FaultsGrow
      BY <2>1, FaultGrows, SameFaults, Basics
    <2>2. QED
      BY <1>3, <1>4, <2>1 DEF WriteRevision

LEMMA ResolveSteps ==
    ASSUME IInv, NEW q \in Requests, Resolve(q)
    PROVE  Sound /\ Quiet
  <1>1. flow[q].attempt = None /\ flow[q].version \in Nat /\ flow[q].version <= version
    BY Here DEF Resolve, At, Holding
  <1>2. currentRevision \in Revisions
    BY Basics DEF Running, Typed, K!TypeOK
  <1>3. Moves(q, "binding", flow[q].version, None)
    BY <1>1, <1>2, TakesRevision, Basics DEF Resolve, Places
  <1>4. QED
    BY <1>1, <1>3, KeepsMove, SameContext, SameFaults, Basics DEF Resolve, Places, Holding

LEMMA BindSteps ==
    ASSUME IInv, NEW q \in Requests, Bind(q)
    PROVE  Sound /\ Quiet
  <1>1. Moves(q, "idle", 0, None)
    BY LeavesFacts, Basics DEF Bind
  <1>2. context' \in [revision : Revisions \cup {None}, generation : Nat]
    <2>1. flow[q].revision \in Revisions \cup {None}
      BY Basics DEF Flow
    <2>2. QED
      BY <2>1, Basics DEF Bind, RestTyped
  <1>3. QED
    BY <1>1, <1>2, KeepsMove, SameFaults, Basics DEF Bind, Places, Holding

LEMMA AdmitSteps ==
    ASSUME IInv, NEW q \in Requests, Admit(q)
    PROVE  Sound /\ Quiet
  <1>1. flow[q].attempt = None /\ flow[q].version \in Nat /\ flow[q].version <= version
    BY Here DEF Admit, At, Holding
  <1>2. PICK place \in {"verifying", "idle"}, v \in {flow[q].version, 0} :
            Moves(q, place, v, None)
    <2>1. CASE BoundIsCurrent
      <3>1. context.generation \in Nat /\ context.revision \in Revisions \cup {None}
        BY Basics DEF RestTyped
      <3>2. Moves(q, "verifying", flow[q].version, None)
        BY <1>1, <2>1, <3>1, Basics DEF Admit, Moves, Flow, Places
      <3>3. QED
        BY <3>2
    <2>2. CASE ~ BoundIsCurrent
      BY <2>2, LeavesFacts, Basics DEF Admit
    <2>3. QED
      BY <2>1, <2>2
  <1>3. QED
    BY <1>1, <1>2, KeepsMove, SameContext, SameFaults, Basics DEF Admit, Places, Holding

LEMMA VerifySteps ==
    ASSUME IInv, NEW q \in Requests, Verify(q)
    PROVE  Sound /\ Quiet
  <1>1. flow[q].attempt = None
    BY Here DEF Verify, At, Holding
  <1>2. PICK place \in {"observing", "idle"}, v \in {version, 0} :
            Moves(q, place, v, None)
    BY <1>1, LeavesFacts, TakesVersion, Basics DEF Verify, Places
  <1>3. v \in Nat /\ v <= version
    BY Basics
  <1>4. QED
    BY <1>2, <1>3, KeepsMove, SameContext, SameFaults, Basics DEF Verify, Places, Holding

LEMMA ReadBaselineSteps ==
    ASSUME IInv, NEW q \in Requests, ReadBaseline(q)
    PROVE  Sound /\ Quiet
  <1>1. flow[q].attempt = None /\ flow[q].version \in Nat /\ flow[q].version <= version
    BY Here DEF ReadBaseline, At, Holding
  <1>2. PICK r \in Readings : Reads(r) /\ Takes(q, "appending", "reading", r)
    BY DEF ReadBaseline
  <1>3. Moves(q, "appending", flow[q].version, None)
    BY <1>1, <1>2, ReadingsAreTyped, TakesReading, Basics DEF Places
  <1>4. FaultsGrow
    BY <1>2, ReadsGrow, Basics
  <1>5. QED
    BY <1>1, <1>3, <1>4, KeepsMove, SameContext DEF ReadBaseline, Places, Holding

-----------------------------------------------------------------------------
(* The steps that no request takes, and those of one that holds its attempt.  *)

LEMMA StillMove ==
    ASSUME IInv, KeepsMatter, UNCHANGED flow, UNCHANGED told, SameSession, RestTyped',
           FaultsGrow
    PROVE  Sound /\ Quiet
  <1>1. Calm /\ currentRevision' = currentRevision
    BY Basics, KeepsIsCalm DEF KeepsMatter, matter
  <1>2. VersionsHold
    BY DEF VersionsHold, IInv, Prepared
  <1>3. Sound
    BY <1>1, <1>2, SoundStep DEF Calm
  <1>4. Quiet
    <2>1. \A p \in Requests : Stays(p)
      BY Basics DEF Stays
    <2>2. QED
      BY <1>1, <2>1 DEF Quiet, Calm, FaultsGrow
  <1>5. QED
    BY <1>3, <1>4

LEMMA HeldMove ==
    ASSUME IInv, NEW q \in Requests, NEW place \in Holding,
           Moves(q, place, flow[q].version, flow[q].attempt), Stays(q),
           KeepsMatter, UNCHANGED told, SameSession, RestTyped', FaultsGrow
    PROVE  Sound /\ Quiet
  <1>1. Calm /\ currentRevision' = currentRevision
    BY Basics, KeepsIsCalm DEF KeepsMatter, matter
  <1>2. VersionsHold
    BY MoveVersions, Basics DEF Holding
  <1>3. Sound
    BY <1>1, <1>2, SoundStep DEF Calm
  <1>4. Quiet
    <2>1. \A p \in Requests : Stays(p)
      BY Basics DEF Stays, Moves
    <2>2. QED
      BY <1>1, <2>1 DEF Quiet, Calm, FaultsGrow
  <1>5. QED
    BY <1>3, <1>4

LEMMA InvalidateSteps ==
    ASSUME IInv, Invalidate PROVE Sound /\ Quiet
  <1>1. FaultsGrow
    BY FaultGrows, Basics DEF Invalidate
  <1>2. RestTyped'
    BY <1>1, Basics DEF Invalidate, RestTyped, FaultsGrow, NoContext, session, observer,
                        records
  <1>3. QED
    BY <1>1, <1>2, StillMove DEF Invalidate, SameSession, UnderWay, session, records

LEMMA CrashSteps ==
    ASSUME IInv, Crash PROVE Sound /\ Quiet
  <1>1. FaultsGrow
    BY FaultGrows, Basics DEF Crash
  <1>2. Calm /\ currentRevision' = currentRevision
    BY Basics, KeepsIsCalm DEF KeepsMatter, matter, Crash
  <1>3. NoFlow \in Flow
    BY ZeroIsAnEdge DEF NoFlow, Flow
  <1>4. RestTyped'
    BY <1>1, <1>3, ZeroIsAnEdge, Basics
       DEF Crash, RestTyped, FaultsGrow, NoContext, session, records
  <1>5. \A p \in Requests : Sheds(p) /\ flow'[p].version = 0 /\ flow'[p].at = "idle"
    BY DEF Crash, Sheds, NoFlow, Holding
  <1>6. VersionsHold
    BY <1>5, Basics DEF VersionsHold
  <1>7. Sound
    BY <1>2, <1>4, <1>6, SoundStep DEF Calm
  <1>8. QED
    BY <1>1, <1>2, <1>5, <1>7
       DEF Quiet, Calm, Crash, SameSession, UnderWay, session, records, FaultsGrow

LEMMA PollSteps ==
    ASSUME IInv, Poll PROVE Sound /\ Quiet
  <1>1. PICK r \in Readings : Reads(r) /\ polled' = r
    BY DEF Poll
  <1>2. r \in Reading /\ FaultsGrow
    BY <1>1, ReadingsAreTyped, ReadsGrow, Basics
  <1>3. RestTyped'
    BY <1>1, <1>2, Basics DEF Poll, RestTyped, FaultsGrow, session, records
  <1>4. QED
    BY <1>2, <1>3, StillMove DEF Poll, SameSession, UnderWay, session, records

LEMMA UsePollSteps ==
    ASSUME IInv, UsePoll PROVE Sound /\ Quiet
  <1>1. polled \in Reading
    BY Basics DEF UsePoll, RestTyped
  <1>2. /\ Calm /\ FaultsGrow /\ currentRevision' = currentRevision
        /\ closedOn' \in [Attempts -> Edges] /\ seen' \in Edges
    <2>1. CASE seen' = polled.edge /\ TurnClose(polled)
      BY <1>1, <2>1, TurnCloseFacts, Basics DEF Reading
    <2>2. CASE KeepsMatter /\ UNCHANGED <<seen, closedOn, faults>>
      BY <2>2, KeepsIsCalm, SameFaults, Basics DEF KeepsMatter, matter, RestTyped
    <2>3. QED
      BY <2>1, <2>2 DEF UsePoll
  <1>3. RestTyped'
    BY <1>2, Basics DEF UsePoll, RestTyped, FaultsGrow, session
  <1>4. VersionsHold
    BY DEF VersionsHold, IInv, Prepared, UsePoll
  <1>5. Sound
    BY <1>2, <1>3, <1>4, SoundStep DEF Calm
  <1>6. \A p \in Requests : Stays(p)
    BY Basics DEF Stays, UsePoll
  <1>7. QED
    BY <1>2, <1>5, <1>6 DEF Quiet, Calm, UsePoll, SameSession, UnderWay, session, FaultsGrow

LEMMA TurnWaitsSteps ==
    ASSUME IInv, TurnWaits PROVE Sound /\ Quiet
  <1>1. FaultsGrow
    BY SameFaults, Basics DEF TurnWaits
  <1>2. RestTyped' /\ SameSession
    BY <1>1, Basics
       DEF TurnWaits, RestTyped, FaultsGrow, observer, records, SameSession, UnderWay
  <1>3. QED
    BY <1>1, <1>2, StillMove DEF TurnWaits, records

LEMMA DeclineSteps ==
    ASSUME IInv, NEW q \in Requests, Decline(q) PROVE Sound /\ Quiet
  <1>1. FaultsGrow
    BY FaultGrows, Basics DEF Decline
  <1>2. Moves(q, "declined", flow[q].version, flow[q].attempt)
    BY GoesFacts, Basics DEF Decline, Places
  <1>3. RestTyped' /\ SameSession
    BY <1>1, <1>2, Basics
       DEF Decline, RestTyped, FaultsGrow, Moves, session, observer, records, SameSession,
           UnderWay
  <1>4. Stays(q)
    BY <1>2 DEF Stays, Moves, Decline, At
  <1>5. QED
    BY <1>1, <1>2, <1>3, <1>4, HeldMove DEF Decline, records, Holding

-----------------------------------------------------------------------------
(* A request that is answered.                                               *)

Word == {"retryable", "refused", "unknown", "accepted"}

LEMMA TellMove ==
    ASSUME IInv, NEW q \in Requests, NEW answer \in Word,
           flow[q].at \in Holding, Answers(q, answer), Calm,
           currentRevision' = currentRevision,
           UNCHANGED <<context, session, observer, baseline, closedOn>>, FaultsGrow,
           answer \in {"retryable", "refused"} => flow[q].at # "delivered",
           answer = "accepted" => flow[q].at = "delivered"
    PROVE  Sound /\ Tells(q, answer)
  <1>1. Moves(q, "idle", 0, None)
    BY LeavesFacts, Basics DEF Answers
  <1>2. flow[q].attempt \in Attempts
    BY Basics
  <1>3. told' \in [Attempts -> {"nothing", "retryable", "refused", "unknown", "accepted"}]
    BY <1>2, Basics DEF Answers, RestTyped, Word
  <1>4. RestTyped'
    BY <1>1, <1>3, Basics DEF RestTyped, FaultsGrow, session, observer, Moves
  <1>5. VersionsHold
    BY <1>1, MoveVersions, Basics
  <1>6. Sound
    BY <1>4, <1>5, SoundStep DEF Calm
  <1>7. QED
    BY <1>1, <1>6 DEF Tells, Calm, SameSession, UnderWay, session, Sheds, Holding, Moves,
                      Answers, FaultsGrow, Word

LEMMA RecheckSteps ==
    ASSUME IInv, NEW q \in Requests, Recheck(q)
    PROVE  /\ Sound
           /\ Quiet \/ \E answer \in Word : Tells(q, answer)
  <1>1. FaultsGrow
    BY SameFaults, Basics DEF Recheck
  <1>2. CASE Goes(q, "sending") /\ UNCHANGED told
    <2>1. Moves(q, "sending", flow[q].version, flow[q].attempt)
      BY <1>2, GoesFacts, Basics DEF Places
    <2>2. RestTyped' /\ SameSession
      BY <1>1, <1>2, <2>1, Basics
         DEF Recheck, RestTyped, FaultsGrow, Moves, session, observer, SameSession, UnderWay
    <2>3. Stays(q)
      BY <2>1 DEF Stays, Moves, Recheck, At
    <2>4. QED
      BY <1>1, <1>2, <2>1, <2>2, <2>3, HeldMove DEF Recheck, Holding
  <1>3. CASE Answers(q, "retryable")
    <2>1. Calm /\ currentRevision' = currentRevision
      BY Basics, KeepsIsCalm DEF KeepsMatter, matter, Recheck
    <2>2. QED
      BY <1>1, <1>3, <2>1, TellMove DEF Recheck, At, Holding, Word
  <1>4. QED
    BY <1>2, <1>3 DEF Recheck

LEMMA PortRefusesSteps ==
    ASSUME IInv, NEW q \in Requests, PortRefuses(q)
    PROVE  /\ Sound
           /\ Quiet \/ \E answer \in Word : Tells(q, answer)
  <1>1. FaultsGrow
    BY FaultGrows, Basics DEF PortRefuses
  <1>2. CASE Leaves(q) /\ UNCHANGED told
    <2>1. UNCHANGED <<session, observer, records>> /\ KeepsMatter
      BY <1>2 DEF PortRefuses, records
    <2>2. Moves(q, "idle", 0, None)
      BY <1>2, LeavesFacts, Basics
    <2>3. QED
      BY <1>1, <2>1, <2>2, KeepsMove, SameContext, Basics DEF PortRefuses, Places, Holding
  <1>3. CASE flow[q].at = "dispatching" /\ Answers(q, "retryable")
    <2>1. Calm /\ currentRevision' = currentRevision
      BY Basics, KeepsIsCalm DEF KeepsMatter, matter, PortRefuses
    <2>2. QED
      BY <1>1, <1>3, <2>1, TellMove DEF PortRefuses, Holding, Word
  <1>4. QED
    BY <1>2, <1>3 DEF PortRefuses

LEMMA AnsweredSteps ==
    ASSUME IInv, NEW q \in Requests, Answered(q)
    PROVE  /\ Sound
           /\ \E answer \in Word : Tells(q, answer)
  <1>1. flow[q].attempt \in Attempts /\ flow[q].at \in {"delivered", "declined"}
    BY Basics DEF Answered, Holding
  <1>2. Calm /\ FaultsGrow /\ currentRevision' = currentRevision
    <2>1. CASE KeepsMatter /\ UNCHANGED faults
      BY <2>1, KeepsIsCalm, SameFaults, Basics DEF KeepsMatter, matter
    <2>2. CASE KeepsMatter /\ Fault("io")
      BY <2>2, KeepsIsCalm, FaultGrows, Basics DEF KeepsMatter, matter
    <2>3. CASE /\ \/ Writes(K!SucceedAttempt(flow[q].attempt, 0))
                  \/ Writes(K!FailAttempt(flow[q].attempt, 0))
               /\ UNCHANGED faults
      BY <1>1, <2>3, EndIsCalm, SameFaults, Basics
    <2>4. QED
      BY <2>1, <2>2, <2>3 DEF Answered, Ends, IsLost
  <1>3. CASE At(q, "delivered")
    BY <1>1, <1>2, <1>3, TellMove DEF Answered, At, Holding, Word
  <1>4. CASE ~ At(q, "delivered")
    BY <1>1, <1>2, <1>4, TellMove DEF Answered, At, Holding, Word
  <1>5. QED
    BY <1>3, <1>4

LEMMA ThrowsSteps ==
    ASSUME IInv, NEW q \in Requests, Throws(q)
    PROVE  Sound /\ Tells(q, "unknown")
  <1>1. flow[q].at \in Holding /\ flow[q].attempt \in Attempts
    BY Basics DEF Throws, Holding
  <1>2. FaultsGrow
    BY FaultGrows, Basics DEF Throws
  <1>3. Calm /\ currentRevision' = currentRevision
    <2>1. CASE KeepsMatter
      BY <2>1, KeepsIsCalm, Basics DEF KeepsMatter, matter
    <2>2. CASE Writes(K!MarkDispatchUnknown(flow[q].attempt, 0))
      BY <1>1, <2>2, MarkIsCalm, Basics
    <2>3. QED
      BY <2>1, <2>2 DEF Throws, OnThrow
  <1>4. QED
    BY <1>1, <1>2, <1>3, TellMove DEF Throws, Thrown, Word

-----------------------------------------------------------------------------
(* The steps that write an attempt or move a prompt.                         *)

\* The attempt a is written, by q, who holds it or is told to try again.
WritesAttempt(q, a) ==
    /\ attempts[a].status = "absent"
    /\ attempts'[a].status # "absent"
    /\ attempts'[a].scopes = {Scope(q)}
    /\ \A b \in Attempts \ {a} : attempts'[b] = attempts[b]
    /\ UNCHANGED session
    /\ faults' >= faults
    /\ \A p \in Requests \ {q} : flow'[p] = flow[p]
    /\ flow[q].at \notin Holding
    /\ \/ /\ flow'[q].at = "dispatching" /\ flow'[q].attempt = a
          /\ told' = told
       \/ /\ Sheds(q)
          /\ told' = [told EXCEPT ![a] = "retryable"]

LEMMA AppendAttemptSteps ==
    ASSUME IInv, NEW q \in Requests, AppendAttempt(q)
    PROVE  /\ Sound
           /\ Quiet \/ \E a \in Attempts : WritesAttempt(q, a)
  <1>1. flow[q].attempt = None /\ flow[q].version \in Nat /\ flow[q].version <= version
        /\ flow[q].at \notin Holding
    BY Here DEF AppendAttempt, At, Holding
  <1>2. CASE KeepsMatter /\ Leaves(q) /\ UNCHANGED <<baseline, told>> /\ FaultsGrow
    <2>1. UNCHANGED <<session, observer, records>>
      BY <1>2 DEF AppendAttempt, records
    <2>2. Moves(q, "idle", 0, None)
      BY <1>2, LeavesFacts, Basics
    <2>3. UNCHANGED context
      BY DEF AppendAttempt
    <2>4. QED
      BY <1>2, <2>1, <2>2, <2>3, KeepsMove, SameContext, Basics DEF Places, Holding
  <1>3. ASSUME NEW a \in Attempts,
               IsFresh(a),
               StillAtVersion(q),
               Writes(K!StartAttempt(a, {Scope(q)}, {}, "equivalent", 0)),
               baseline' = [baseline EXCEPT ![a] = flow[q].reading.edge],
               \/ /\ flow' = [flow EXCEPT ![q] =
                       [@ EXCEPT !.at = "dispatching", !.attempt = a,
                                 !.reading = NoReading]]
                  /\ UNCHANGED <<told, faults>>
               \/ /\ Fault("commit")
                  /\ told' = [told EXCEPT ![a] = "retryable"]
                  /\ Leaves(q)
        PROVE  Sound /\ WritesAttempt(q, a)
    <2>1. Scope(q) \in Scopes
      BY DEF Scope, Scopes
    <2>2. /\ Typed' /\ Running' /\ currentRevision' = currentRevision
          /\ version' = version + 1
          /\ attempts'[a].status # "absent" /\ attempts'[a].scopes = {Scope(q)}
          /\ \A b \in Attempts \ {a} : attempts'[b] = attempts[b]
      BY <1>3, <2>1, StartFacts, Basics
    <2>3. FaultsGrow
      BY <1>3, FaultGrows, SameFaults, Basics
    <2>4. flow[q].reading.edge \in Edges
      BY Basics DEF Flow, Reading
    <2>5. CASE /\ flow' = [flow EXCEPT ![q] =
                       [@ EXCEPT !.at = "dispatching", !.attempt = a,
                                 !.reading = NoReading]]
               /\ UNCHANGED <<told, faults>>
      <3>1. Moves(q, "dispatching", flow[q].version, a)
        BY <2>5, ZeroIsAnEdge, Basics DEF Moves, Flow
      <3>2. RestTyped'
        BY <1>3, <2>3, <2>4, <2>5, <3>1, Basics
           DEF AppendAttempt, RestTyped, FaultsGrow, Moves, session, observer
      <3>3. VersionsHold
        BY <1>1, <3>1, MoveVersions
      <3>4. Sound
        BY <2>2, <3>2, <3>3, SoundStep
      <3>5. QED
        BY <1>1, <1>3, <2>2, <2>3, <2>5, <3>1, <3>4
           DEF WritesAttempt, AppendAttempt, Moves, FaultsGrow, IsFresh
    <2>6. CASE /\ told' = [told EXCEPT ![a] = "retryable"]
               /\ Leaves(q)
      <3>1. Moves(q, "idle", 0, None)
        BY <2>6, LeavesFacts, Basics
      <3>2. RestTyped'
        BY <1>3, <2>3, <2>4, <2>6, <3>1, Basics
           DEF AppendAttempt, RestTyped, FaultsGrow, Moves, session, observer
      <3>3. VersionsHold
        BY <1>1, <3>1, MoveVersions, Basics
      <3>4. Sound
        BY <2>2, <3>2, <3>3, SoundStep
      <3>5. QED
        BY <1>1, <1>3, <2>2, <2>3, <2>6, <3>1, <3>4
           DEF WritesAttempt, AppendAttempt, Moves, FaultsGrow, IsFresh, Sheds, Holding
    <2>7. QED
      BY <1>3, <2>5, <2>6
  <1>4. QED
    <2>1. ASSUME \/ ~ StillAtVersion(q) /\ UNCHANGED faults
                 \/ ~ MayStart(q) /\ UNCHANGED faults
                 \/ (\A a \in Attempts : attempts[a].status # "absent") /\ UNCHANGED faults
                 \/ Fault("io")
          PROVE  FaultsGrow
      BY <2>1, FaultGrows, SameFaults, Basics
    <2>2. QED
      BY <1>2, <1>3, <2>1 DEF AppendAttempt

\* The prompt of the attempt of q comes to the session.
Prompts(q) ==
    /\ q \in Sends /\ flow[q].at = "sending"
    /\ Moves(q, "delivered", flow[q].version, flow[q].attempt)
    /\ inbox' = Append(inbox, flow[q].attempt)
    /\ UNCHANGED <<turn, ends, attempts, told, faults>>

LEMMA DeliverSteps ==
    ASSUME IInv, NEW q \in Requests, Deliver(q)
    PROVE  /\ Sound
           /\ Quiet \/ Prompts(q)
  <1>1. FaultsGrow
    BY SameFaults, Basics DEF Deliver
  <1>2. PICK place \in {"delivered", "declined"} : Goes(q, place)
    BY DEF Deliver
  <1>3. Moves(q, place, flow[q].version, flow[q].attempt)
    BY <1>2, GoesFacts, Basics DEF Places
  <1>4. flow[q].attempt \in Attempts
    BY Basics DEF Deliver, At, Holding
  <1>5. RestTyped'
    <2>1. inbox' \in Seq(Attempts \cup {None})
      <3>1. inbox \in Seq(Attempts \cup {None})
        BY Basics DEF RestTyped
      <3>2. inbox' = inbox \/ inbox' = Append(inbox, flow[q].attempt)
        BY DEF Deliver
      <3>3. QED
        BY <1>4, <3>1, <3>2
    <2>2. turn' \in [state : {"none", "running", "waiting"}, attempt : Attempts \cup {None}]
      BY Basics DEF Deliver, RestTyped
    <2>3. QED
      BY <1>1, <1>3, <2>1, <2>2, Basics
         DEF Deliver, RestTyped, FaultsGrow, Moves, observer, records
  <1>6. CASE q \in Controls
    <2>1. q \notin Sends
      BY <1>6, RequestsAreOneRouteEach
    <2>2. SameSession
      BY <1>6, <2>1, Basics DEF Deliver, SameSession, UnderWay, RestTyped
    <2>3. Stays(q)
      BY <1>3, <2>1 DEF Stays, Moves, Deliver, At
    <2>4. QED
      BY <1>1, <1>3, <1>5, <2>2, <2>3, HeldMove DEF Deliver, records, Holding
  <1>7. CASE q \in Sends
    <2>1. q \notin Controls
      BY <1>7, RequestsAreOneRouteEach
    <2>2. place = "delivered" /\ inbox' = Append(inbox, flow[q].attempt) /\ UNCHANGED turn
      <3>1. Goes(q, "delivered") /\ inbox' = Append(inbox, flow[q].attempt) /\ UNCHANGED turn
        BY <2>1 DEF Deliver
      <3>2. flow'[q].at = "delivered"
        BY <3>1, GoesFacts, Basics DEF Places, Moves
      <3>3. QED
        BY <1>3, <3>1, <3>2 DEF Moves
    <2>3. VersionsHold
      BY <1>3, MoveVersions, Basics
    <2>4. Calm /\ currentRevision' = currentRevision
      BY Basics, KeepsIsCalm DEF KeepsMatter, matter, Deliver
    <2>5. Sound
      BY <1>5, <2>3, <2>4, SoundStep DEF Calm
    <2>6. QED
      BY <1>3, <1>7, <2>2, <2>5
         DEF Deliver, Prompts, At, KeepsMatter, matter, records
  <1>8. QED
    BY <1>6, <1>7 DEF Deliver

-----------------------------------------------------------------------------
(* The session.                                                              *)

\* Steps of the session and of a side chat change nothing else that is looked at.
OfSession == UNCHANGED <<attempts, flow, told>>

LEMMA SessionMove ==
    ASSUME IInv, KeepsMatter, UNCHANGED <<context, flow, observer, records>>, FaultsGrow,
           inbox' \in Seq(Attempts \cup {None}),
           turn' \in [state : {"none", "running", "waiting"}, attempt : Attempts \cup {None}],
           ends' \in Seq(TurnEnds)
    PROVE  Sound /\ OfSession
  <1>1. Calm /\ currentRevision' = currentRevision
    BY Basics, KeepsIsCalm DEF KeepsMatter, matter
  <1>2. VersionsHold
    BY DEF VersionsHold, IInv, Prepared
  <1>3. RestTyped'
    BY Basics DEF RestTyped, FaultsGrow, observer, records
  <1>4. QED
    BY <1>1, <1>2, <1>3, SoundStep DEF Calm, OfSession, KeepsMatter, matter, records

LEMMA TurnStartSteps ==
    ASSUME IInv, TurnStart
    PROVE  /\ Sound /\ OfSession
           /\ turn.state = "none" /\ inbox # <<>>
           /\ turn' = [state |-> "running", attempt |-> Head(inbox)]
           /\ inbox' = Tail(inbox) /\ ends' = ends /\ faults' = faults
  <1>1. FaultsGrow
    BY SameFaults, Basics DEF TurnStart
  <1>2. Head(inbox) \in Attempts \cup {None} /\ Tail(inbox) \in Seq(Attempts \cup {None})
    BY Basics DEF TurnStart, RestTyped
  <1>3. QED
    BY <1>1, <1>2, SessionMove, Basics DEF TurnStart, RestTyped

LEMMA TurnEndSteps ==
    ASSUME IInv, TurnEnd
    PROVE  /\ Sound /\ OfSession
           /\ turn.state # "none" /\ turn' = NoTurn /\ inbox' = inbox
           /\ \E kind \in {"completed", "failed", "other"} :
                 ends' = Append(ends, [kind |-> kind, attempt |-> turn.attempt])
           /\ faults' >= faults
  <1>1. FaultsGrow
    BY SameFaults, FaultGrows, Basics DEF TurnEnd
  <1>2. ends' \in Seq(TurnEnds)
    <2>1. PICK kind \in {"completed", "failed", "other"} :
              ends' = Append(ends, [kind |-> kind, attempt |-> turn.attempt])
      BY DEF TurnEnd
    <2>2. [kind |-> kind, attempt |-> turn.attempt] \in TurnEnds
      BY Basics DEF RestTyped, TurnEnds
    <2>3. QED
      BY <2>1, <2>2, Basics DEF RestTyped
  <1>3. turn' \in [state : {"none", "running", "waiting"}, attempt : Attempts \cup {None}]
    BY DEF TurnEnd, NoTurn
  <1>4. Sound /\ OfSession
    BY <1>1, <1>2, <1>3, SessionMove, Basics DEF TurnEnd, RestTyped
  <1>5. QED
    BY <1>1, <1>4 DEF TurnEnd, FaultsGrow

LEMMA ReturnSteps ==
    ASSUME IInv, ReturnSideChat
    PROVE  /\ Sound /\ OfSession
           /\ inbox' = Append(inbox, None) /\ UNCHANGED <<turn, ends>>
           /\ faults' = faults + 1
  <1>1. FaultsGrow
    BY FaultGrows, Basics DEF ReturnSideChat
  <1>2. QED
    BY <1>1, SessionMove, Basics DEF ReturnSideChat, RestTyped, Fault

-----------------------------------------------------------------------------
(* The prompts the session was given, and those that may still come.         *)

LEMMA CameIsNat ==
    ASSUME TypeOK
    PROVE  /\ Came \in Nat /\ Len(inbox) \in Nat /\ Ended \in Nat /\ UnderWay \in 0 .. 1
           /\ faults \in Nat
  BY BoundsAreNat DEF TypeOK, Came, Ended, UnderWay

LEMMA BudgetShrinks ==
    ASSUME TypeOK, TypeOK', Budget, Coming' \subseteq Coming,
           Came' <= Came \/ (Came' = Came + 1 /\ faults' = faults + 1),
           faults' >= faults
    PROVE  Budget'
  <1>1. Cardinality(Coming') <= Cardinality(Coming) /\ Cardinality(Coming') \in Nat
    BY ComingIsFinite, FS_Subset, FS_CardinalityType
  <1>2. Cardinality(Coming) \in Nat
    BY ComingIsFinite
  <1>3. Came \in Nat /\ faults \in Nat
    BY CameIsNat
  <1>4. Came' \in Nat /\ faults' \in Nat
    BY BoundsAreNat DEF TypeOK, Came, Ended, UnderWay
  <1>5. QED
    BY <1>1, <1>2, <1>3, <1>4, BoundsAreNat DEF Budget

LEMMA BudgetIsSpent ==
    ASSUME TypeOK, TypeOK', Budget, NEW a \in Coming, Coming' \subseteq Coming \ {a},
           Came' = Came + 1, faults' = faults
    PROVE  Budget'
  <1>1. IsFiniteSet(Coming \ {a}) /\ Cardinality(Coming \ {a}) = Cardinality(Coming) - 1
    BY ComingIsFinite, FS_RemoveElement
  <1>2. Cardinality(Coming') <= Cardinality(Coming \ {a}) /\ Cardinality(Coming') \in Nat
    BY <1>1, FS_Subset, FS_CardinalityType
  <1>3. Cardinality(Coming) \in Nat
    BY ComingIsFinite
  <1>4. Came \in Nat /\ faults \in Nat
    BY CameIsNat
  <1>5. QED
    BY <1>1, <1>2, <1>3, <1>4, BoundsAreNat DEF Budget

LEMMA SamePrompted ==
    ASSUME SameSession, NEW a
    PROVE  Prompted(a)' <=> Prompted(a)
  BY DEF SameSession, Prompted, EndedBy, Ended

LEMMA SameNobodys ==
    ASSUME SameSession, NoTurnIsNobodys PROVE NoTurnIsNobodys'
  BY DEF SameSession, NoTurnIsNobodys, UnderWay

LEMMA SameCame ==
    ASSUME SameSession PROVE Came' = Came
  BY DEF SameSession, Came, Ended

\* What is kept of the attempts and of what was said of them.
Kept == Budget /\ NoTurnIsNobodys /\ HeldOnce /\ HeldIsOpen /\ UnusedIsNew /\ AnswersAreTrue

LEMMA QuietKeeps ==
    ASSUME IInv, Sound, Quiet PROVE Kept'
  <1>1. \A a : Prompted(a)' <=> Prompted(a)
    BY SamePrompted DEF Quiet
  <1>2. \A p \in Requests :
            flow'[p].attempt # None =>
                /\ flow[p].attempt = flow'[p].attempt /\ flow[p].at \in Holding
                /\ flow[p].attempt \in Attempts
                /\ \/ flow'[p].at = flow[p].at
                   \/ /\ flow[p].at \in {"dispatching", "sending"}
                      /\ \/ flow'[p].at \in {"sending", "declined"}
                         \/ flow'[p].at = "delivered" /\ p \notin Sends
    BY Basics DEF Quiet, Stays, Sheds
  <1>3. \A p \in Requests : flow'[p].at \in Holding <=> flow'[p].attempt # None
    <2> SUFFICES ASSUME NEW p \in Requests
                 PROVE  flow'[p].at \in Holding <=> flow'[p].attempt # None
      OBVIOUS
    <2>1. Stays(p) \/ Sheds(p)
      BY DEF Quiet
    <2>2. flow[p].at \in Holding <=> flow[p].attempt # None
      BY DEF IInv, HeldOnce
    <2>3. QED
      BY <2>1, <2>2 DEF Stays, Sheds, Holding
  <1>4. Budget'
    <2>1. Coming' \subseteq Coming
      <3> SUFFICES ASSUME NEW a \in Attempts,
                          \/ attempts'[a].status = "absent"
                          \/ \E q \in Requests :
                                /\ flow'[q].attempt = a
                                /\ flow'[q].at \in {"dispatching", "sending"}
                   PROVE  a \in Coming
        BY DEF Coming
      <3>1. CASE attempts'[a].status = "absent"
        BY <3>1 DEF Quiet, SameUse, Coming
      <3>2. ASSUME NEW q \in Requests, flow'[q].attempt = a,
                   flow'[q].at \in {"dispatching", "sending"}
            PROVE  a \in Coming
        BY <1>2, <3>2, NoneIsNoAttempt DEF Coming
      <3>3. QED
        BY <3>1, <3>2
    <2>2. Came' <= Came
      BY SameCame, CameIsNat, Basics DEF Quiet
    <2>3. QED
      BY <2>1, <2>2, BudgetShrinks, Basics DEF Sound, Quiet
  <1>5. HeldOnce'
    BY <1>2, <1>3 DEF HeldOnce, IInv
  <1>6. HeldIsOpen'
    <2> SUFFICES ASSUME NEW q \in Requests, NEW a \in Attempts, flow'[q].attempt = a
                 PROVE  /\ told'[a] = "nothing"
                        /\ attempts'[a].status # "absent"
                        /\ attempts'[a].scopes = {Scope(q)}
                        /\ flow'[q].at # "delivered" => ~ Prompted(a)'
                        /\ flow'[q].at = "delivered" /\ q \in Sends => Prompted(a)'
      BY DEF HeldIsOpen, Scope
    <2>1. flow[q].attempt = a
      BY <1>2, NoneIsNoAttempt
    <2>2. /\ told[a] = "nothing"
          /\ attempts[a].status # "absent"
          /\ attempts[a].scopes = {Scope(q)}
          /\ flow[q].at # "delivered" => ~ Prompted(a)
          /\ flow[q].at = "delivered" /\ q \in Sends => Prompted(a)
      BY <2>1 DEF IInv, HeldIsOpen
    <2>3. /\ told'[a] = "nothing"
          /\ attempts'[a].status # "absent"
          /\ attempts'[a].scopes = {Scope(q)}
      BY <2>2 DEF Quiet, SameUse
    <2>4. Prompted(a)' <=> Prompted(a)
      BY <1>1
    <2>5. QED
      BY <1>2, <2>1, <2>2, <2>3, <2>4, NoneIsNoAttempt
  <1>7. UnusedIsNew'
    BY <1>1 DEF UnusedIsNew, IInv, Quiet, SameUse
  <1>8. AnswersAreTrue'
    BY <1>1 DEF AnswersAreTrue, IInv, Quiet, SameUse
  <1>9. NoTurnIsNobodys'
    BY SameNobodys DEF IInv, Quiet
  <1>10. QED
    BY <1>4, <1>5, <1>6, <1>7, <1>8, <1>9 DEF Kept

LEMMA TellsKeeps ==
    ASSUME IInv, Sound, NEW q \in Requests, NEW answer \in Word, Tells(q, answer)
    PROVE  Kept'
  <1>1. \A a : Prompted(a)' <=> Prompted(a)
    BY SamePrompted DEF Tells
  <1> DEFINE b == flow[q].attempt
  <1>2. b \in Attempts /\ b # None
    BY Basics, NoneIsNoAttempt DEF Tells
  <1>3. \A p \in Requests : flow'[p].attempt # None =>
            p # q /\ flow'[p] = flow[p] /\ flow[p].attempt # b /\ flow[p].attempt \in Attempts
    <2>1. \A p \in Requests : p # q => flow[p].attempt # b
      BY <1>2 DEF IInv, HeldOnce
    <2>2. QED
      BY <2>1, Basics DEF Tells, Sheds
  <1>4. \A p \in Requests : flow'[p].at \in Holding <=> flow'[p].attempt # None
    BY DEF Tells, Sheds, IInv, HeldOnce
  <1>5. /\ told[b] = "nothing" /\ attempts[b].scopes = {Scope(q)}
        /\ attempts[b].status # "absent"
        /\ flow[q].at # "delivered" => ~ Prompted(b)
        /\ flow[q].at = "delivered" /\ q \in Sends => Prompted(b)
    BY <1>2 DEF IInv, HeldIsOpen
  <1>6. \A a \in Attempts : told'[a] = IF a = b THEN answer ELSE told[a]
    BY Basics DEF Tells, RestTyped
  <1> HIDE DEF b
  <1>7. Budget'
    <2>1. Coming' \subseteq Coming
      BY <1>3, NoneIsNoAttempt DEF Tells, SameUse, Coming
    <2>2. Came' <= Came
      BY SameCame, CameIsNat, Basics DEF Tells
    <2>3. QED
      BY <2>1, <2>2, BudgetShrinks, Basics DEF Sound, Tells
  <1>8. HeldOnce'
    BY <1>3, <1>4 DEF HeldOnce, IInv
  <1>9. HeldIsOpen'
    <2> SUFFICES ASSUME NEW p \in Requests, NEW a \in Attempts, flow'[p].attempt = a
                 PROVE  /\ told'[a] = "nothing"
                        /\ attempts'[a].status # "absent"
                        /\ attempts'[a].scopes = {Scope(p)}
                        /\ flow'[p].at # "delivered" => ~ Prompted(a)'
                        /\ flow'[p].at = "delivered" /\ p \in Sends => Prompted(a)'
      BY DEF HeldIsOpen, Scope
    <2>1. flow'[p] = flow[p] /\ flow[p].attempt = a /\ a # b
      BY <1>3, NoneIsNoAttempt
    <2>2. /\ told[a] = "nothing"
          /\ attempts[a].status # "absent"
          /\ attempts[a].scopes = {Scope(p)}
          /\ flow[p].at # "delivered" => ~ Prompted(a)
          /\ flow[p].at = "delivered" /\ p \in Sends => Prompted(a)
      BY <2>1 DEF IInv, HeldIsOpen
    <2>3. /\ told'[a] = "nothing"
          /\ attempts'[a].status # "absent"
          /\ attempts'[a].scopes = {Scope(p)}
      BY <1>6, <2>1, <2>2 DEF Tells, SameUse
    <2>4. Prompted(a)' <=> Prompted(a)
      BY <1>1
    <2>5. QED
      BY <2>1, <2>2, <2>3, <2>4
  <1>10. UnusedIsNew'
    <2> SUFFICES ASSUME NEW a \in Attempts, attempts'[a].status = "absent"
                 PROVE  told'[a] = "nothing" /\ ~ Prompted(a)'
      BY DEF UnusedIsNew
    <2>1. attempts[a].status = "absent"
      BY DEF Tells, SameUse
    <2>2. QED
      BY <1>1, <1>5, <1>6, <2>1 DEF IInv, UnusedIsNew
  <1>11. AnswersAreTrue'
    <2> SUFFICES ASSUME NEW a \in Attempts
                 PROVE  /\ told'[a] \in {"retryable", "refused"} => ~ Prompted(a)'
                        /\ told'[a] = "accepted"
                           /\ "session.prompt" \in attempts'[a].scopes => Prompted(a)'
      BY DEF AnswersAreTrue
    <2>1. CASE a = b
      <3>1. told'[a] = answer /\ attempts'[a].scopes = {Scope(q)}
        BY <1>2, <1>5, <1>6, <2>1 DEF Tells, SameUse
      <3>2. "session.prompt" \in {Scope(q)} => q \in Sends
        BY DEF Scope
      <3>3. QED
        BY <1>1, <1>5, <2>1, <3>1, <3>2 DEF Tells
    <2>2. CASE a # b
      <3>1. told'[a] = told[a] /\ attempts'[a].scopes = attempts[a].scopes
        BY <1>6, <2>2 DEF Tells, SameUse
      <3>2. QED
        BY <1>1, <3>1 DEF IInv, AnswersAreTrue
    <2>3. QED
      BY <2>1, <2>2
  <1>12. NoTurnIsNobodys'
    BY SameNobodys DEF IInv, Tells
  <1>13. QED
    BY <1>7, <1>8, <1>9, <1>10, <1>11, <1>12 DEF Kept

LEMMA WritesAttemptKeeps ==
    ASSUME IInv, Sound, NEW q \in Requests, NEW a \in Attempts, WritesAttempt(q, a)
    PROVE  Kept'
  <1>1. SameSession
    BY DEF WritesAttempt, SameSession, session, UnderWay
  <1>2. \A b : Prompted(b)' <=> Prompted(b)
    BY <1>1, SamePrompted
  <1>3. told[a] = "nothing" /\ ~ Prompted(a)
    BY DEF WritesAttempt, IInv, UnusedIsNew
  <1>4. \A p \in Requests : flow[p].attempt # a
    BY DEF WritesAttempt, IInv, HeldIsOpen
  <1>5. flow[q].attempt = None
    BY Basics DEF WritesAttempt
  <1>6. \A b \in Attempts \ {a} : told'[b] = told[b] /\ attempts'[b] = attempts[b]
    BY Basics DEF WritesAttempt, RestTyped
  <1>7. \/ /\ flow'[q].at = "dispatching" /\ flow'[q].attempt = a
           /\ told'[a] = "nothing"
        \/ Sheds(q) /\ told'[a] = "retryable"
    BY <1>3, Basics DEF WritesAttempt, RestTyped
  <1>8. Budget'
    <2>1. Coming' \subseteq Coming
      <3> SUFFICES ASSUME NEW b \in Attempts,
                          \/ attempts'[b].status = "absent"
                          \/ \E p \in Requests :
                                /\ flow'[p].attempt = b
                                /\ flow'[p].at \in {"dispatching", "sending"}
                   PROVE  b \in Coming
        BY DEF Coming
      <3>1. CASE b = a
        BY <3>1 DEF Coming, WritesAttempt
      <3>2. CASE b # a
        <4>1. CASE attempts'[b].status = "absent"
          BY <1>6, <3>2, <4>1 DEF Coming
        <4>2. ASSUME NEW p \in Requests, flow'[p].attempt = b,
                     flow'[p].at \in {"dispatching", "sending"}
              PROVE  b \in Coming
          <5>1. p # q
            BY <1>7, <3>2, <4>2, NoneIsNoAttempt DEF Sheds
          <5>2. QED
            BY <4>2, <5>1 DEF Coming, WritesAttempt
        <4>3. QED
          BY <4>1, <4>2
      <3>3. QED
        BY <3>1, <3>2
    <2>2. Came' <= Came
      BY <1>1, SameCame, CameIsNat, Basics
    <2>3. QED
      BY <2>1, <2>2, BudgetShrinks, Basics DEF Sound, WritesAttempt
  <1>9. HeldOnce'
    <2>1. \A p \in Requests : flow'[p].at \in Holding <=> flow'[p].attempt # None
      BY <1>7, NoneIsNoAttempt DEF WritesAttempt, Sheds, IInv, HeldOnce, Holding
    <2>2. \A p, r \in Requests :
              flow'[p].attempt = flow'[r].attempt /\ flow'[r].attempt # None => p = r
      <3> SUFFICES ASSUME NEW p \in Requests, NEW r \in Requests, p # r,
                          flow'[p].attempt = flow'[r].attempt, flow'[r].attempt # None
                   PROVE  FALSE
        OBVIOUS
      <3>1. CASE p = q
        BY <1>4, <1>7, <3>1 DEF WritesAttempt, Sheds
      <3>2. CASE r = q
        BY <1>4, <1>7, <3>2 DEF WritesAttempt, Sheds
      <3>3. CASE p # q /\ r # q
        BY <3>3 DEF WritesAttempt, IInv, HeldOnce
      <3>4. QED
        BY <3>1, <3>2, <3>3
    <2>3. QED
      BY <2>1, <2>2 DEF HeldOnce
  <1>10. HeldIsOpen'
    <2> SUFFICES ASSUME NEW p \in Requests, NEW b \in Attempts, flow'[p].attempt = b
                 PROVE  /\ told'[b] = "nothing"
                        /\ attempts'[b].status # "absent"
                        /\ attempts'[b].scopes = {Scope(p)}
                        /\ flow'[p].at # "delivered" => ~ Prompted(b)'
                        /\ flow'[p].at = "delivered" /\ p \in Sends => Prompted(b)'
      BY DEF HeldIsOpen, Scope
    <2>1. CASE p = q
      <3>1. b = a /\ flow'[q].at = "dispatching" /\ told'[a] = "nothing"
        BY <1>7, <2>1, NoneIsNoAttempt DEF Sheds
      <3>2. QED
        BY <1>2, <1>3, <2>1, <3>1 DEF WritesAttempt
    <2>2. CASE p # q
      <3>1. flow'[p] = flow[p] /\ b # a
        BY <1>4, <2>2 DEF WritesAttempt
      <3>2. QED
        BY <1>2, <1>6, <3>1 DEF IInv, HeldIsOpen
    <2>3. QED
      BY <2>1, <2>2
  <1>11. UnusedIsNew'
    BY <1>2, <1>6 DEF UnusedIsNew, IInv, WritesAttempt
  <1>12. AnswersAreTrue'
    <2> SUFFICES ASSUME NEW b \in Attempts
                 PROVE  /\ told'[b] \in {"retryable", "refused"} => ~ Prompted(b)'
                        /\ told'[b] = "accepted"
                           /\ "session.prompt" \in attempts'[b].scopes => Prompted(b)'
      BY DEF AnswersAreTrue
    <2>1. CASE b = a
      BY <1>2, <1>3, <1>7, <2>1
    <2>2. CASE b # a
      BY <1>2, <1>6, <2>2 DEF IInv, AnswersAreTrue
    <2>3. QED
      BY <2>1, <2>2
  <1>13. QED
    BY <1>1, <1>8, <1>9, <1>10, <1>11, <1>12, SameNobodys DEF Kept, IInv

LEMMA AppendFacts ==
    ASSUME NEW S, NEW s \in Seq(S), NEW x \in S
    PROVE  /\ Append(s, x) \in Seq(S)
           /\ Len(Append(s, x)) = Len(s) + 1
           /\ \A n \in 1 .. Len(s) : Append(s, x)[n] = s[n]
           /\ Append(s, x)[Len(s) + 1] = x
  OBVIOUS

LEMMA TailFacts ==
    ASSUME NEW S, NEW s \in Seq(S), s # <<>>
    PROVE  /\ Tail(s) \in Seq(S) /\ Len(Tail(s)) = Len(s) - 1 /\ Len(s) \in Nat
           /\ \A n \in 1 .. Len(Tail(s)) : Tail(s)[n] = s[n + 1] /\ n + 1 \in 1 .. Len(s)
           /\ \A n \in 2 .. Len(s) : n - 1 \in 1 .. Len(Tail(s)) /\ s[n] = Tail(s)[n - 1]
           /\ Head(s) = s[1] /\ 1 \in 1 .. Len(s)
  OBVIOUS

LEMMA LenZero ==
    ASSUME NEW S, NEW s \in Seq(S), Len(s) = 0 PROVE s = <<>>
  OBVIOUS

LEMMA OnlyOne ==
    ASSUME NEW S, NEW s \in Seq(S), s # <<>>, Len(s) <= 1
    PROVE  Len(s) = 1 /\ Tail(s) = <<>> /\ Head(s) = s[1] /\ 1 \in DOMAIN s
  <1>1. Len(s) \in Nat /\ Len(s) # 0
    BY LenZero
  <1>2. Len(s) = 1
    BY <1>1
  <1>3. Tail(s) \in Seq(S) /\ Len(Tail(s)) = 0
    BY <1>2, TailFacts
  <1>4. Tail(s) = <<>>
    BY <1>3, LenZero
  <1>5. QED
    BY <1>2, <1>4

\* Where the prompts are.
InInbox(a) == \E n \in 1 .. Len(inbox) : inbox[n] = a
IsEnded(a) == \E n \in 1 .. Ended : ends[n].attempt = a

LEMMA PromptedIs ==
    ASSUME TypeOK, NEW a
    PROVE  Prompted(a) <=> InInbox(a) \/ turn.attempt = a \/ IsEnded(a)
  BY DEF Prompted, InInbox, IsEnded, EndedBy, TypeOK

LEMMA PromptedBecomes ==
    ASSUME TypeOK', NEW a
    PROVE  Prompted(a)' <=> InInbox(a)' \/ turn'.attempt = a \/ IsEnded(a)'
  BY DEF Prompted, InInbox, IsEnded, EndedBy, TypeOK

LEMMA InInboxGrows ==
    ASSUME TypeOK, NEW x \in Attempts \cup {None}, inbox' = Append(inbox, x), NEW a
    PROVE  /\ InInbox(a)' <=> InInbox(a) \/ a = x
           /\ Len(inbox') = Len(inbox) + 1
  <1>1. inbox \in Seq(Attempts \cup {None})
    BY DEF TypeOK
  <1>2. Len(inbox) \in Nat /\ Len(inbox') = Len(inbox) + 1
    BY <1>1, AppendFacts
  <1>3. /\ \A n \in 1 .. Len(inbox) : inbox'[n] = inbox[n]
        /\ inbox'[Len(inbox) + 1] = x
    BY <1>1, AppendFacts
  <1>4. \A n \in 1 .. Len(inbox') : n \in 1 .. Len(inbox) \/ n = Len(inbox) + 1
    BY <1>2
  <1>5. QED
    BY <1>2, <1>3, <1>4 DEF InInbox

LEMMA PromptsKeeps ==
    ASSUME IInv, Sound, NEW q \in Requests, Prompts(q)
    PROVE  Kept'
  <1> DEFINE b == flow[q].attempt
  <1>1. b \in Attempts /\ b # None /\ b \in Coming
    BY Basics, NoneIsNoAttempt DEF Prompts, Holding, Coming
  <1>2. /\ told[b] = "nothing" /\ attempts[b].status # "absent"
        /\ attempts[b].scopes = {Scope(q)}
    BY <1>1 DEF IInv, HeldIsOpen
  <1>3. \A p \in Requests \ {q} : flow'[p] = flow[p] /\ flow[p].attempt # b
    BY <1>1 DEF Prompts, Moves, IInv, HeldOnce
  <1>4. flow'[q].at = "delivered" /\ flow'[q].attempt = b /\ q \in Sends
    BY DEF Prompts, Moves
  <1>5. Len(inbox') = Len(inbox) + 1
    BY <1>1, InInboxGrows, Basics DEF Prompts
  <1>6. \A a : Prompted(a)' <=> Prompted(a) \/ a = b
    <2> SUFFICES ASSUME NEW a PROVE Prompted(a)' <=> Prompted(a) \/ a = b
      OBVIOUS
    <2>1. InInbox(a)' <=> InInbox(a) \/ a = b
      BY <1>1, InInboxGrows, Basics DEF Prompts
    <2>2. Prompted(a) <=> InInbox(a) \/ turn.attempt = a \/ IsEnded(a)
      BY PromptedIs, Basics
    <2>3. Prompted(a)' <=> InInbox(a)' \/ turn'.attempt = a \/ IsEnded(a)'
      BY PromptedBecomes DEF Sound
    <2>4. IsEnded(a)' <=> IsEnded(a)
      BY DEF Prompts, IsEnded, Ended
    <2>5. QED
      BY <2>1, <2>2, <2>3, <2>4 DEF Prompts
  <1>7. flow[q].at = "sending"
    BY DEF Prompts
  <1> HIDE DEF b
  <1>8. Budget'
    <2>1. Coming' \subseteq Coming \ {b}
      <3> SUFFICES ASSUME NEW a \in Attempts,
                          \/ attempts'[a].status = "absent"
                          \/ \E p \in Requests :
                                /\ flow'[p].attempt = a
                                /\ flow'[p].at \in {"dispatching", "sending"}
                   PROVE  a \in Coming \ {b}
        BY DEF Coming
      <3>1. CASE attempts'[a].status = "absent"
        BY <1>2, <3>1 DEF Coming, Prompts
      <3>2. ASSUME NEW p \in Requests, flow'[p].attempt = a,
                   flow'[p].at \in {"dispatching", "sending"}
            PROVE  a \in Coming \ {b}
        BY <1>3, <1>4, <3>2 DEF Coming
      <3>3. QED
        BY <3>1, <3>2
    <2>2. Came' = Came + 1
      <3>1. UnderWay' = UnderWay /\ Ended' = Ended
        BY DEF Prompts, UnderWay, Ended
      <3>2. QED
        BY <1>5, <3>1, CameIsNat, Basics DEF Came
    <2>3. QED
      BY <1>1, <2>1, <2>2, BudgetIsSpent, Basics DEF Sound, Prompts
  <1>9. HeldOnce'
    <2>1. \A p \in Requests : flow'[p].at \in Holding <=> flow'[p].attempt # None
      BY <1>1, <1>3, <1>4 DEF IInv, HeldOnce, Holding
    <2>2. \A p, r \in Requests :
              flow'[p].attempt = flow'[r].attempt /\ flow'[r].attempt # None => p = r
      BY <1>3, <1>4 DEF IInv, HeldOnce
    <2>3. QED
      BY <2>1, <2>2 DEF HeldOnce
  <1>10. HeldIsOpen'
    <2> SUFFICES ASSUME NEW p \in Requests, NEW a \in Attempts, flow'[p].attempt = a
                 PROVE  /\ told'[a] = "nothing"
                        /\ attempts'[a].status # "absent"
                        /\ attempts'[a].scopes = {Scope(p)}
                        /\ flow'[p].at # "delivered" => ~ Prompted(a)'
                        /\ flow'[p].at = "delivered" /\ p \in Sends => Prompted(a)'
      BY DEF HeldIsOpen, Scope
    <2>1. CASE p = q
      BY <1>2, <1>4, <1>6, <2>1 DEF Prompts
    <2>2. CASE p # q
      <3>1. flow'[p] = flow[p] /\ a # b
        BY <1>3, <2>2
      <3>2. QED
        BY <1>6, <3>1 DEF IInv, HeldIsOpen, Prompts
    <2>3. QED
      BY <2>1, <2>2
  <1>11. UnusedIsNew'
    BY <1>2, <1>6 DEF UnusedIsNew, IInv, Prompts
  <1>12. AnswersAreTrue'
    <2> SUFFICES ASSUME NEW a \in Attempts
                 PROVE  /\ told'[a] \in {"retryable", "refused"} => ~ Prompted(a)'
                        /\ told'[a] = "accepted"
                           /\ "session.prompt" \in attempts'[a].scopes => Prompted(a)'
      BY DEF AnswersAreTrue
    <2>1. told'[a] = told[a] /\ attempts'[a] = attempts[a]
      BY DEF Prompts
    <2>2. told[a] \in {"retryable", "refused"} => a # b
      BY <1>2
    <2>3. QED
      BY <1>6, <2>1, <2>2 DEF IInv, AnswersAreTrue
  <1>13. NoTurnIsNobodys'
    BY DEF NoTurnIsNobodys, IInv, Prompts
  <1>14. QED
    BY <1>8, <1>9, <1>10, <1>11, <1>12, <1>13 DEF Kept

\* The session moves a prompt on; it loses none and makes none.
LEMMA SessionKeeps ==
    ASSUME IInv, Sound, OfSession, NoTurnIsNobodys',
           \A a \in Attempts : Prompted(a)' <=> Prompted(a),
           Came' <= Came \/ (Came' = Came + 1 /\ faults' = faults + 1),
           faults' >= faults
    PROVE  Kept'
  <1>1. Coming' = Coming
    BY DEF OfSession, Coming
  <1>2. Budget'
    BY <1>1, BudgetShrinks, Basics DEF Sound
  <1>3. HeldOnce'
    BY DEF OfSession, HeldOnce, IInv
  <1>4. HeldIsOpen'
    BY DEF OfSession, HeldIsOpen, IInv, Scope
  <1>5. UnusedIsNew' /\ AnswersAreTrue'
    BY DEF OfSession, UnusedIsNew, AnswersAreTrue, IInv
  <1>6. QED
    BY <1>2, <1>3, <1>4, <1>5 DEF Kept

LEMMA TurnStartKeeps ==
    ASSUME IInv, TurnStart PROVE Sound /\ Kept'
  <1>1. /\ Sound /\ OfSession
        /\ turn.state = "none" /\ inbox # <<>>
        /\ turn' = [state |-> "running", attempt |-> Head(inbox)]
        /\ inbox' = Tail(inbox) /\ ends' = ends /\ faults' = faults
    BY TurnStartSteps
  <1>2. inbox \in Seq(Attempts \cup {None})
    BY Basics DEF RestTyped
  <1>3. turn.attempt = None
    BY <1>1 DEF IInv, NoTurnIsNobodys
  <1>4. \A a \in Attempts : Prompted(a)' <=> Prompted(a)
    <2> SUFFICES ASSUME NEW a \in Attempts PROVE Prompted(a)' <=> Prompted(a)
      OBVIOUS
    <2>1. InInbox(a) <=> InInbox(a)' \/ Head(inbox) = a
      <3>1. \A n \in 1 .. Len(inbox) : n = 1 \/ n \in 2 .. Len(inbox)
        BY <1>2
      <3>2. QED
        BY <1>1, <1>2, <3>1, TailFacts DEF InInbox
    <2>2. Prompted(a) <=> InInbox(a) \/ turn.attempt = a \/ IsEnded(a)
      BY PromptedIs, Basics
    <2>3. Prompted(a)' <=> InInbox(a)' \/ turn'.attempt = a \/ IsEnded(a)'
      BY <1>1, PromptedBecomes DEF Sound
    <2>4. IsEnded(a)' <=> IsEnded(a)
      BY <1>1 DEF IsEnded, Ended
    <2>5. QED
      BY <1>1, <1>3, <2>1, <2>2, <2>3, <2>4, NoneIsNoAttempt
  <1>5. Came' = Came
    <2>1. Len(inbox') = Len(inbox) - 1
      BY <1>1, <1>2, TailFacts
    <2>2. UnderWay = 0 /\ UnderWay' = 1 /\ Ended' = Ended
      BY <1>1 DEF UnderWay, Ended
    <2>3. QED
      BY <2>1, <2>2, CameIsNat, Basics DEF Came
  <1>6. NoTurnIsNobodys'
    BY <1>1 DEF NoTurnIsNobodys
  <1>7. Came' <= Came /\ faults' >= faults
    BY <1>1, <1>5, CameIsNat, Basics
  <1>8. QED
    BY <1>1, <1>4, <1>6, <1>7, SessionKeeps

LEMMA TurnEndKeeps ==
    ASSUME IInv, TurnEnd PROVE Sound /\ Kept'
  <1>1. /\ Sound /\ OfSession
        /\ turn.state # "none" /\ turn' = NoTurn /\ inbox' = inbox
        /\ faults' >= faults
    BY TurnEndSteps
  <1>2. PICK kind \in {"completed", "failed", "other"} :
            ends' = Append(ends, [kind |-> kind, attempt |-> turn.attempt])
    BY TurnEndSteps
  <1>3. ends \in Seq(TurnEnds) /\ [kind |-> kind, attempt |-> turn.attempt] \in TurnEnds
    BY Basics DEF RestTyped, TurnEnds
  <1>4. /\ Ended \in Nat /\ Ended' = Ended + 1
        /\ \A n \in 1 .. Ended : ends'[n] = ends[n]
        /\ ends'[Ended + 1].attempt = turn.attempt
    BY <1>2, <1>3, AppendFacts DEF Ended
  <1>5. \A a \in Attempts : Prompted(a)' <=> Prompted(a)
    <2> SUFFICES ASSUME NEW a \in Attempts PROVE Prompted(a)' <=> Prompted(a)
      OBVIOUS
    <2>1. IsEnded(a)' <=> IsEnded(a) \/ turn.attempt = a
      <3>1. \A n \in 1 .. Ended' : n \in 1 .. Ended \/ n = Ended + 1
        BY <1>4
      <3>2. Ended + 1 \in 1 .. Ended' /\ \A n \in 1 .. Ended : n \in 1 .. Ended'
        BY <1>4
      <3>3. QED
        BY <1>4, <3>1, <3>2 DEF IsEnded
    <2>2. Prompted(a) <=> InInbox(a) \/ turn.attempt = a \/ IsEnded(a)
      BY PromptedIs, Basics
    <2>3. Prompted(a)' <=> InInbox(a)' \/ turn'.attempt = a \/ IsEnded(a)'
      BY <1>1, PromptedBecomes DEF Sound
    <2>4. InInbox(a)' <=> InInbox(a)
      BY <1>1 DEF InInbox
    <2>5. turn'.attempt # a
      BY <1>1, NoneIsNoAttempt DEF NoTurn
    <2>6. QED
      BY <2>1, <2>2, <2>3, <2>4, <2>5
  <1>6. Came' <= Came
    <2>1. UnderWay = 1 /\ UnderWay' = 0 /\ Len(inbox') = Len(inbox)
      BY <1>1 DEF UnderWay, NoTurn
    <2>2. QED
      BY <1>4, <2>1, CameIsNat, Basics DEF Came
  <1>7. NoTurnIsNobodys'
    BY <1>1 DEF NoTurnIsNobodys, NoTurn
  <1>8. QED
    BY <1>1, <1>5, <1>6, <1>7, SessionKeeps

LEMMA ReturnKeeps ==
    ASSUME IInv, ReturnSideChat PROVE Sound /\ Kept'
  <1>1. /\ Sound /\ OfSession
        /\ inbox' = Append(inbox, None) /\ UNCHANGED <<turn, ends>>
        /\ faults' = faults + 1
    BY ReturnSteps
  <1>2. \A a \in Attempts : Prompted(a)' <=> Prompted(a)
    <2> SUFFICES ASSUME NEW a \in Attempts PROVE Prompted(a)' <=> Prompted(a)
      OBVIOUS
    <2>1. InInbox(a)' <=> InInbox(a)
      BY <1>1, InInboxGrows, Basics, NoneIsNoAttempt
    <2>2. Prompted(a) <=> InInbox(a) \/ turn.attempt = a \/ IsEnded(a)
      BY PromptedIs, Basics
    <2>3. Prompted(a)' <=> InInbox(a)' \/ turn'.attempt = a \/ IsEnded(a)'
      BY <1>1, PromptedBecomes DEF Sound
    <2>4. IsEnded(a)' <=> IsEnded(a)
      BY <1>1 DEF IsEnded, Ended
    <2>5. QED
      BY <1>1, <2>1, <2>2, <2>3, <2>4
  <1>3. Came' = Came + 1
    <2>1. Len(inbox') = Len(inbox) + 1
      BY <1>1, InInboxGrows, Basics
    <2>2. UnderWay' = UnderWay /\ Ended' = Ended
      BY <1>1 DEF UnderWay, Ended
    <2>3. QED
      BY <2>1, <2>2, CameIsNat, Basics DEF Came
  <1>4. NoTurnIsNobodys'
    BY <1>1 DEF NoTurnIsNobodys, IInv
  <1>5. faults' >= faults
    BY <1>1, CameIsNat, Basics
  <1>6. QED
    BY <1>1, <1>2, <1>3, <1>4, <1>5, SessionKeeps

-----------------------------------------------------------------------------
LEMMA InitHolds == Init => IInv
  <1> SUFFICES ASSUME Init PROVE IInv
    OBVIOUS
  <1>1. Typed
    <2>1. [entered |-> FALSE, ready |-> FALSE, scopes |-> {}, gated |-> {}] \in K!Revision
          /\ [entered |-> TRUE, ready |-> FALSE, scopes |-> {}, gated |-> {}] \in K!Revision
      BY DEF K!Revision
    <2>2. revisions \in [Revisions -> K!Revision]
      BY <2>1 DEF Init, K!Revision
    <2>3. attempts \in [Attempts -> K!Attempt]
      BY DEF Init, K!Attempt, K!Time
    <2>4. 1 \in Revisions
      BY BoundsAreNat DEF Revisions
    <2>5. /\ decisions \in [{} -> K!Decision] /\ artifacts \in [{} -> K!Artifact]
          /\ receipts \in [{} -> K!Receipt]
      BY DEF Init
    <2>6. stage \in K!Stages /\ conclusion \in K!Conclusions /\ pending \in K!Pending
          /\ now \in K!Time
      BY DEF Init, K!Stages, K!Conclusions, K!Pending, K!NoClarification, K!Time
    <2>7. QED
      BY <2>2, <2>3, <2>4, <2>5, <2>6 DEF Init, Typed, K!TypeOK
  <1>2. RestTyped
    <2>1. NoFlow \in Flow
      BY ZeroIsAnEdge DEF NoFlow, Flow
    <2>2. inbox \in Seq(Attempts \cup {None}) /\ ends \in Seq(TurnEnds)
      BY DEF Init
    <2>3. QED
      BY <2>1, <2>2, ZeroIsAnEdge, BoundsAreNat DEF Init, RestTyped, NoTurn
  <1>3. Running
    BY NoneIsNoNumber DEF Init, Running
  <1>4. TypeOK
    BY <1>1, <1>2, TypeParts
  <1>5. Budget
    <2>1. Coming = 1 .. MaxAttempts
      BY DEF Init, Coming, Attempts
    <2>2. Cardinality(Coming) = MaxAttempts
      BY <2>1, FS_Interval, BoundsAreNat
    <2>3. Came = 0 /\ faults = 0
      BY DEF Init, Came, Ended, UnderWay, NoTurn
    <2>4. QED
      BY <2>2, <2>3, BoundsAreNat DEF Budget
  <1>6. \A q \in Requests : flow[q].at = "idle" /\ flow[q].attempt = None /\ flow[q].version = 0
    BY DEF Init, NoFlow
  <1>7. Prepared /\ HeldOnce /\ HeldIsOpen
    BY <1>6, NoneIsNoAttempt DEF Prepared, HeldOnce, HeldIsOpen, Holding, Init
  <1>8. \A a \in Attempts : ~ Prompted(a)
    <2> SUFFICES ASSUME NEW a \in Attempts PROVE ~ Prompted(a)
      OBVIOUS
    <2>1. ~ InInbox(a) /\ ~ IsEnded(a) /\ turn.attempt # a
      BY NoneIsNoAttempt DEF Init, InInbox, IsEnded, Ended, NoTurn
    <2>2. QED
      BY <1>4, <2>1, PromptedIs
  <1>9. UnusedIsNew /\ AnswersAreTrue /\ NoTurnIsNobodys
    BY <1>8 DEF UnusedIsNew, AnswersAreTrue, NoTurnIsNobodys, Init, NoTurn
  <1>10. QED
    BY <1>3, <1>4, <1>5, <1>7, <1>9 DEF IInv

LEMMA NextKeeps ==
    ASSUME IInv, Next PROVE Sound /\ Kept'
  <1>1. ASSUME NEW q \in Requests,
               Begin(q) \/ Step(q) \/ PortRefuses(q) \/ Decline(q) \/ Throws(q)
        PROVE  Sound /\ Kept'
    <2>1. CASE Begin(q) \/ ReadFold(q) \/ CloseByFold(q) \/ Decide(q) \/ PreparePorts(q)
      BY <2>1, BeginSteps, ReadFoldSteps, CloseByFoldSteps, DecideSteps, PreparePortsSteps,
         QuietKeeps
    <2>2. CASE WriteRevision(q) \/ Resolve(q) \/ Bind(q) \/ Admit(q) \/ Verify(q)
      BY <2>2, WriteRevisionSteps, ResolveSteps, BindSteps, AdmitSteps, VerifySteps,
         QuietKeeps
    <2>3. CASE ReadBaseline(q) \/ Decline(q)
      BY <2>3, ReadBaselineSteps, DeclineSteps, QuietKeeps
    <2>4. CASE AppendAttempt(q)
      BY <2>4, AppendAttemptSteps, QuietKeeps, WritesAttemptKeeps
    <2>5. CASE Recheck(q) \/ PortRefuses(q)
      BY <2>5, RecheckSteps, PortRefusesSteps, QuietKeeps, TellsKeeps
    <2>6. CASE Answered(q) \/ Throws(q)
      BY <2>6, AnsweredSteps, ThrowsSteps, TellsKeeps DEF Word
    <2>7. CASE Deliver(q)
      BY <2>7, DeliverSteps, QuietKeeps, PromptsKeeps
    <2>8. QED
      BY <1>1, <2>1, <2>2, <2>3, <2>4, <2>5, <2>6, <2>7 DEF Step
  <1>2. CASE Invalidate \/ Crash \/ Poll \/ UsePoll \/ TurnWaits
    BY <1>2, InvalidateSteps, CrashSteps, PollSteps, UsePollSteps, TurnWaitsSteps, QuietKeeps
  <1>3. CASE TurnStart \/ TurnEnd \/ ReturnSideChat
    BY <1>3, TurnStartKeeps, TurnEndKeeps, ReturnKeeps
  <1>4. QED
    BY <1>1, <1>2, <1>3 DEF Next

LEMMA StutterKeeps ==
    ASSUME IInv, UNCHANGED vars PROVE IInv'
  <1>1. UNCHANGED <<matter, context, flow, session, observer, records, faults>>
    BY DEF vars
  <1>2. Calm
    BY <1>1, KeepsIsCalm, Basics DEF KeepsMatter
  <1>3. Sound /\ Quiet
    <2>1. RestTyped' /\ SameSession
      BY <1>1, Basics DEF RestTyped, session, observer, records, SameSession, UnderWay
    <2>2. FaultsGrow
      BY <1>1, SameFaults, Basics
    <2>3. QED
      BY <1>1, <2>1, <2>2, StillMove DEF KeepsMatter, records
  <1>4. QED
    BY <1>3, QuietKeeps DEF Sound, Kept, IInv

LEMMA IInvKeeps == IInv /\ [Next]_vars => IInv'
  BY NextKeeps, StutterKeeps DEF Sound, Kept, IInv

\* The variables always have their types; the ends of turns are as many as the
\* attempts and the prompts that side chats return allow.
THEOREM TypeCorrect == Spec => []TypeOK
  <1>1. IInv => TypeOK
    BY DEF IInv
  <1>2. QED
    BY <1>1, InitHolds, IInvKeeps, PTL DEF Spec

\* Whatever fails or races, what the user is told of a prompt is true: "try again"
\* and "refused" mean that the session never sees it, "accepted" that it did.
THEOREM ToldTheTruth == Spec => []AnswersAreTrue
  <1>1. IInv => AnswersAreTrue
    BY DEF IInv
  <1>2. QED
    BY <1>1, InitHolds, IInvKeeps, PTL DEF Spec

\* A working revision is entered only over one that cannot run a send, however many
\* sends and selections decide at once.
THEOREM NoRevisionInVain == Spec => RevisionOnlyWhenNeeded
  <1>1. IInv /\ [Next]_vars => [currentRevision' # currentRevision => RevisionIsNeeded]_vars
    <2> SUFFICES ASSUME IInv, Next
                 PROVE  currentRevision' # currentRevision => RevisionIsNeeded
      BY DEF vars, matter
    <2>1. QED
      BY NextKeeps DEF Sound
  <1>2. QED
    BY <1>1, InitHolds, IInvKeeps, PTL DEF Spec, RevisionOnlyWhenNeeded

-----------------------------------------------------------------------------
(* Requests change the matter by the kernel's commands, and by nothing else. *)

Command ==
    \/ \E r \in Revisions : K!EnterEvidence(r, TRUE, RunScopes, {}, 0)
    \/ \E a \in Attempts, s \in Scopes : K!StartAttempt(a, {s}, {}, "equivalent", 0)
    \/ \E a \in Attempts : \/ K!SucceedAttempt(a, 0)
                           \/ K!FailAttempt(a, 0)
                           \/ K!MarkDispatchUnknown(a, 0)

Written == Writes(Command)

\* What a step does to the matter: a command that is written, or nothing.
Commanded == KeepsMatter \/ Written

LEMMA CommandIsNext == Command => K!Next
  <1>1. 0 \in K!Time
    BY DEF K!Time
  <1>2. ASSUME NEW r \in Revisions, K!EnterEvidence(r, TRUE, RunScopes, {}, 0)
        PROVE  K!Next
    <2>1. RunScopes \in SUBSET Scopes /\ {} \in SUBSET Scopes
      BY RunScopesAreScopes
    <2>2. QED
      BY <1>1, <1>2, <2>1 DEF K!Next
  <1>3. ASSUME NEW a \in Attempts, NEW s \in Scopes,
               K!StartAttempt(a, {s}, {}, "equivalent", 0)
        PROVE  K!Next
    <2>1. {s} \in SUBSET Scopes /\ {} \in SUBSET {} /\ "equivalent" \in K!Compatibility
      BY DEF K!Compatibility
    <2>2. QED
      BY <1>1, <1>3, <2>1 DEF K!Next
  <1>4. ASSUME NEW a \in Attempts,
               \/ K!SucceedAttempt(a, 0)
               \/ K!FailAttempt(a, 0)
               \/ K!MarkDispatchUnknown(a, 0)
        PROVE  K!Next
    BY <1>1, <1>4 DEF K!Next
  <1>5. QED
    BY <1>2, <1>3, <1>4 DEF Command

\* The end of a turn ends the active attempt, whoever read it.
LEMMA TurnCloseCommands ==
    ASSUME TypeOK, NEW r, TurnClose(r)
    PROVE  Commanded
  <1>1. activeAttempt # None => activeAttempt \in Attempts
    BY DEF TypeOK, K!TypeOK
  <1>2. QED
    BY <1>1 DEF TurnClose, IsLost, Commanded, Written, Writes, Command

\* A request that holds an attempt may end it, or mark it, and no other.
LEMMA HeldCommands ==
    ASSUME IInv, NEW q \in Requests, Answered(q) \/ Throws(q)
    PROVE  Commanded
  <1>1. flow[q].attempt \in Attempts
    BY Basics DEF Answered, Throws, Holding
  <1>2. CASE Answered(q)
    BY <1>1, <1>2 DEF Answered, Ends, IsLost, Commanded, Written, Writes, Command
  <1>3. CASE Throws(q)
    BY <1>1, <1>3 DEF Throws, OnThrow, Commanded, Written, Writes, Command
  <1>4. QED
    BY <1>2, <1>3

LEMMA StepCommands == ASSUME IInv, Next PROVE Commanded
  <1>1. ASSUME NEW q \in Requests,
               Begin(q) \/ Step(q) \/ PortRefuses(q) \/ Decline(q) \/ Throws(q)
        PROVE  Commanded
    <2>1. CASE Begin(q) \/ ReadFold(q) \/ Decide(q) \/ PreparePorts(q)
      BY <2>1 DEF Begin, ReadFold, Decide, PreparePorts, Commanded
    <2>2. CASE Resolve(q) \/ Bind(q) \/ Admit(q) \/ Verify(q) \/ ReadBaseline(q)
      BY <2>2 DEF Resolve, Bind, Admit, Verify, ReadBaseline, Commanded
    <2>3. CASE Recheck(q) \/ Deliver(q) \/ PortRefuses(q) \/ Decline(q)
      BY <2>3 DEF Recheck, Deliver, PortRefuses, Decline, Commanded
    <2>4. CASE CloseByFold(q)
      BY <2>4, TurnCloseCommands, Basics DEF CloseByFold, Commanded
    <2>5. CASE WriteRevision(q)
      BY <2>5 DEF WriteRevision, Commanded, Written, Writes, Command
    <2>6. CASE AppendAttempt(q)
      <3>1. Scope(q) \in Scopes
        BY DEF Scope, Scopes
      <3>2. QED
        BY <2>6, <3>1 DEF AppendAttempt, Commanded, Written, Writes, Command
    <2>7. CASE Answered(q) \/ Throws(q)
      BY <2>7, HeldCommands
    <2>8. QED
      BY <1>1, <2>1, <2>2, <2>3, <2>4, <2>5, <2>6, <2>7 DEF Step
  <1>2. CASE UsePoll
    BY <1>2, TurnCloseCommands, Basics DEF UsePoll, Commanded
  <1>3. CASE Invalidate \/ Crash \/ Poll
    BY <1>3 DEF Invalidate, Crash, Poll, Commanded
  <1>4. CASE TurnStart \/ TurnWaits \/ TurnEnd \/ ReturnSideChat
    BY <1>4 DEF TurnStart, TurnWaits, TurnEnd, ReturnSideChat, Commanded
  <1>5. QED
    BY <1>1, <1>2, <1>3, <1>4 DEF Next

\* Whatever the requests, the observer, a crash or a side chat do, the matter is
\* changed by one command of the kernel at a time, and each moves the version on
\* that the next writer has to name.
THEOREM MatterIsCommanded == Spec => [][K!Next /\ version' = version + 1]_matter
  <1>1. IInv /\ [Next]_vars => [K!Next /\ version' = version + 1]_matter
    <2>1. ASSUME IInv, Next PROVE [K!Next /\ version' = version + 1]_matter
      BY <2>1, StepCommands, CommandIsNext DEF Commanded, KeepsMatter, Written, Writes
    <2>2. ASSUME UNCHANGED vars PROVE UNCHANGED matter
      BY <2>2 DEF vars
    <2>3. QED
      BY <2>1, <2>2
  <1>2. QED
    BY <1>1, InitHolds, IInvKeeps, PTL DEF Spec

\* What the kernel promises of a matter, for the matter the requests share.
Coherent == K!RunningIsTheActiveAttempt /\ K!ReferencesHold
Legal == IInv /\ Coherent

LEMMA InitIsCoherent == Init => Coherent
  <1>1. ASSUME Init PROVE Coherent
    <2>1. 1 \in Revisions /\ 1 # None
      BY BoundsAreNat, NoneIsNoNumber DEF Revisions
    <2>2. \A a \in Attempts : a # None
      BY NoneIsNoAttempt
    <2>3. K!RunningIsTheActiveAttempt
      BY <1>1, <2>2 DEF Init, K!RunningIsTheActiveAttempt
    <2>4. K!ReferencesHold
      BY <1>1, <2>1 DEF Init, K!ReferencesHold
    <2>5. QED
      BY <2>3, <2>4 DEF Coherent
  <1>2. QED
    BY <1>1

\* One command leaves a coherent matter coherent, and every fact that is settled
\* as it was.
HistoryStays ==
    /\ \A r \in Revisions : revisions[r].entered => revisions'[r] = revisions[r]
    /\ \A a \in Attempts : attempts[a].status \notin {"absent", "running"}
                             => attempts'[a] = attempts[a]

LEMMA EnterKeepsFacts ==
    ASSUME Typed, Running, Coherent, NEW r \in Revisions,
           K!EnterEvidence(r, TRUE, RunScopes, {}, 0)
    PROVE  Coherent' /\ HistoryStays
  <1>1. /\ ~ revisions[r].entered /\ currentRevision' = r /\ activeAttempt' = None
        /\ stage # "running" /\ stage' = "evidence" /\ conclusion' = "none"
        /\ UNCHANGED <<attempts, artifacts, receipts, latestArtifact>>
        /\ revisions' = [revisions EXCEPT ![r] =
               [entered |-> TRUE, ready |-> TRUE, scopes |-> RunScopes, gated |-> {}]]
    BY DEF K!EnterEvidence, K!IsNewRevision
  <1>2. /\ \A p \in Revisions : revisions[p].entered => revisions'[p] = revisions[p]
        /\ revisions'[r].entered
    BY <1>1 DEF Typed, K!TypeOK
  <1>3. HistoryStays
    BY <1>1, <1>2 DEF HistoryStays
  <1>4. activeAttempt = None
    BY <1>1 DEF Running
  <1>5. (K!RunningIsTheActiveAttempt)'
    BY <1>1, <1>4 DEF Coherent, K!RunningIsTheActiveAttempt
  <1>6. \A a \in Attempts : attempts[a].status # "absent" =>
            /\ attempts[a].revision \in Revisions
            /\ revisions[attempts[a].revision].entered
    BY DEF Coherent, K!ReferencesHold, Typed, K!TypeOK, K!Attempt
  <1>7. (K!ReferencesHold)'
    BY <1>1, <1>2, <1>6, NoneIsNoAttempt DEF Coherent, K!ReferencesHold, Typed, K!TypeOK
  <1>8. QED
    BY <1>3, <1>5, <1>7 DEF Coherent

LEMMA StartKeepsFacts ==
    ASSUME Typed, Running, Coherent, NEW a \in Attempts, NEW s \in Scopes,
           K!StartAttempt(a, {s}, {}, "equivalent", 0)
    PROVE  Coherent' /\ HistoryStays
  <1> DEFINE begun == [status |-> "running", revision |-> currentRevision,
                       scopes |-> {s}, decisions |-> {}, startedAt |-> 0,
                       dispatchUnknown |-> FALSE]
  <1>1. /\ activeAttempt = None /\ activeAttempt' = a /\ conclusion = "none"
        /\ currentRevision # None /\ attempts[a].status = "absent"
        /\ attempts' = [attempts EXCEPT ![a] = begun]
        /\ stage # "artifact-receipt" /\ stage' = "running"
        /\ UNCHANGED <<conclusion, currentRevision, revisions, artifacts,
                       latestArtifact, receipts>>
    BY DEF K!StartAttempt, K!NoConclusion, K!CurrentIsReady
  <1>2. attempts'[a] = begun /\ \A b \in Attempts \ {a} : attempts'[b] = attempts[b]
    BY <1>1 DEF Typed, K!TypeOK
  <1>3. HistoryStays
    BY <1>1, <1>2 DEF HistoryStays
  <1>4. \A b \in Attempts : b # None
    BY NoneIsNoAttempt
  <1>5. (K!RunningIsTheActiveAttempt)'
    BY <1>1, <1>2, <1>4 DEF Coherent, K!RunningIsTheActiveAttempt
  <1>6. revisions[currentRevision].entered
    BY <1>1 DEF Coherent, K!ReferencesHold
  <1>7. (K!ReferencesHold)'
    BY <1>1, <1>2, <1>6 DEF Coherent, K!ReferencesHold
  <1>8. QED
    BY <1>3, <1>5, <1>7 DEF Coherent

LEMMA EndKeepsFacts ==
    ASSUME Typed, Running, Coherent, NEW a \in Attempts,
           K!SucceedAttempt(a, 0) \/ K!FailAttempt(a, 0)
    PROVE  Coherent' /\ HistoryStays
  <1>1. /\ activeAttempt = a /\ activeAttempt' = None
        /\ stage' \in {"evidence", "failed-retry"}
        /\ UNCHANGED <<conclusion, currentRevision, revisions, artifacts,
                       latestArtifact, receipts>>
    BY DEF K!SucceedAttempt, K!FailAttempt, K!IsActiveRun, K!EndActive
  <1>2. PICK t \in {"succeeded", "failed"} : attempts' = [attempts EXCEPT ![a].status = t]
    BY <1>1 DEF K!SucceedAttempt, K!FailAttempt, K!EndActive
  <1>3. /\ attempts'[a].status = t /\ attempts'[a].revision = attempts[a].revision
        /\ \A b \in Attempts \ {a} : attempts'[b] = attempts[b]
    BY <1>2 DEF Typed, K!TypeOK, K!Attempt
  <1>4. attempts[a].status = "running"
    BY <1>1 DEF Coherent, K!RunningIsTheActiveAttempt
  <1>5. HistoryStays
    BY <1>1, <1>3, <1>4 DEF HistoryStays
  <1>6. \A b \in Attempts : b # None
    BY NoneIsNoAttempt
  <1>7. (K!RunningIsTheActiveAttempt)'
    BY <1>1, <1>3, <1>6 DEF Coherent, K!RunningIsTheActiveAttempt
  <1>8. currentRevision # None
    BY DEF Running
  <1>9. (K!ReferencesHold)'
    BY <1>1, <1>3, <1>4, <1>8 DEF Coherent, K!ReferencesHold
  <1>10. QED
    BY <1>5, <1>7, <1>9 DEF Coherent

LEMMA MarkKeepsFacts ==
    ASSUME Typed, Running, Coherent, NEW a \in Attempts, K!MarkDispatchUnknown(a, 0)
    PROVE  Coherent' /\ HistoryStays
  <1>1. /\ activeAttempt = a /\ stage = "running"
        /\ attempts' = [attempts EXCEPT ![a].dispatchUnknown = TRUE]
        /\ UNCHANGED <<stage, activeAttempt, conclusion, currentRevision, revisions,
                       artifacts, latestArtifact, receipts>>
    BY DEF K!MarkDispatchUnknown, K!IsActiveRun
  <1>2. /\ attempts'[a].status = attempts[a].status
        /\ attempts'[a].revision = attempts[a].revision
        /\ \A b \in Attempts \ {a} : attempts'[b] = attempts[b]
    BY <1>1 DEF Typed, K!TypeOK, K!Attempt
  <1>3. attempts[a].status = "running"
    BY <1>1 DEF Coherent, K!RunningIsTheActiveAttempt
  <1>4. HistoryStays
    BY <1>1, <1>2, <1>3 DEF HistoryStays
  <1>5. (K!RunningIsTheActiveAttempt)'
    BY <1>1, <1>2 DEF Coherent, K!RunningIsTheActiveAttempt
  <1>6. (K!ReferencesHold)'
    BY <1>1, <1>2 DEF Coherent, K!ReferencesHold
  <1>7. QED
    BY <1>4, <1>5, <1>6 DEF Coherent

LEMMA KeepsFacts ==
    ASSUME Typed, Coherent, KeepsMatter PROVE Coherent' /\ HistoryStays
  BY DEF KeepsMatter, matter, Coherent, K!RunningIsTheActiveAttempt, K!ReferencesHold,
         HistoryStays

LEMMA LegalSteps == ASSUME Legal, [Next]_vars PROVE Legal' /\ HistoryStays
  <1>1. IInv'
    BY IInvKeeps DEF Legal
  <1>2. Typed /\ Running /\ Coherent
    BY Basics DEF Legal
  <1>3. CASE KeepsMatter
    BY <1>1, <1>2, <1>3, KeepsFacts DEF Legal
  <1>4. CASE Command
    BY <1>1, <1>2, <1>4, EnterKeepsFacts, StartKeepsFacts, EndKeepsFacts, MarkKeepsFacts
       DEF Command, Legal
  <1>5. Commanded
    <2>1. ASSUME UNCHANGED vars PROVE KeepsMatter
      BY <2>1 DEF vars, KeepsMatter
    <2>2. QED
      BY <2>1, StepCommands DEF Commanded, Legal
  <1>6. QED
    BY <1>3, <1>4, <1>5 DEF Commanded, Written, Writes

LEMMA InitIsLegal == Init => Legal
  BY InitHolds, InitIsCoherent DEF Legal

\* The attempt the requests believe active is the one that runs, on the current
\* revision, and no attempt names a revision that was never entered, though every
\* writer works from a matter it read before an await.
THEOREM SharedMatterIsCoherent ==
    Spec => [](K!RunningIsTheActiveAttempt /\ K!ReferencesHold)
  <1>1. Legal => K!RunningIsTheActiveAttempt /\ K!ReferencesHold
    BY DEF Legal, Coherent
  <1>2. Legal /\ [Next]_vars => Legal'
    BY LegalSteps
  <1>3. QED
    BY <1>1, <1>2, InitIsLegal, PTL DEF Spec

\* No late answer, reading or throw rewrites an attempt that has ended, and no two
\* deciding requests rewrite a revision.
THEOREM EndsAreFinal == Spec => K!HistoryIsKept
  <1>1. Legal /\ [Next]_vars => Legal'
    BY LegalSteps
  <1>2. Legal /\ [Next]_vars =>
           [/\ \A r \in Revisions : revisions[r].entered => revisions'[r] = revisions[r]
            /\ \A a \in Attempts : attempts[a].status \notin {"absent", "running"}
                                     => attempts'[a] = attempts[a]
            /\ \A d \in {} : decisions[d].status \in {"rejected", "revoked"}
                                     => decisions'[d] = decisions[d]
            /\ \A f \in {} : artifacts[f].attempt # None
                                     => artifacts'[f] = artifacts[f]
            /\ \A c \in {} : receipts[c].artifact # None
                                     => receipts'[c] = receipts[c]]_(K!vars)
    BY LegalSteps DEF HistoryStays
  <1>3. QED
    BY <1>1, <1>2, InitIsLegal, PTL DEF Spec, K!HistoryIsKept

-----------------------------------------------------------------------------
(* Turns and their attempts, without the three faults.                       *)

LEMMA TurnFaultFails ==
    ASSUME NoTurnFaults, NEW kind \in {"broken", "slow", "return"}
    PROVE  ~ Fault(kind)
  BY DEF NoTurnFaults, Fault

\* Nothing changes that says which attempt a turn is of.
SameAttempts == UNCHANGED <<activeAttempt, baseline, closedOn>>

FlowMoves ==
    /\ \A p \in Requests : Stays(p) \/ Sheds(p)
    /\ \A p \in Requests : flow'[p].at = "delivered" => flow[p].at = "delivered"

\* No reading comes into a hand.
NoNewReading ==
    /\ polled' \in {polled, None}
    /\ \A p \in Requests :
          flow'[p].at \in {"closing", "appending"} => flow'[p] = flow[p]

LEMMA ReadingsStay ==
    ASSUME OwnInv, NoNewReading, ends' = ends,
           UNCHANGED matter \/ version' = version + 1
    PROVE  ReadingsHold'
  <1>1. Ended' = Ended
    BY DEF Ended
  <1>2. polled' # None /\ polled'.edge # 0 => polled'.edge = Ended'
    BY <1>1 DEF NoNewReading, OwnInv, Own, ReadingsHold
  <1>3. ASSUME NEW q \in Requests
        PROVE  /\ flow'[q].at = "closing" /\ flow'[q].reading.edge # 0
                     => flow'[q].reading.edge = Ended'
               /\ flow'[q].at = "appending" /\ flow'[q].version = version'
                  /\ activeAttempt' = None
                     => flow'[q].reading.edge = Ended'
    <2>1. CASE flow'[q].at = "closing"
      BY <1>1, <2>1 DEF NoNewReading, OwnInv, Own, ReadingsHold
    <2>2. CASE flow'[q].at = "appending"
      <3>1. flow'[q] = flow[q] /\ flow[q].version <= version /\ flow[q].version \in Nat
            /\ version \in Nat
        BY <2>2, Basics DEF NoNewReading, OwnInv
      <3>2. CASE UNCHANGED matter
        BY <1>1, <2>2, <3>1, <3>2 DEF matter, OwnInv, Own, ReadingsHold
      <3>3. CASE version' = version + 1
        BY <2>2, <3>1, <3>3
      <3>4. QED
        BY <3>2, <3>3
    <2>3. QED
      BY <2>1, <2>2
  <1>4. QED
    BY <1>2, <1>3 DEF ReadingsHold

LEMMA SameNoWork ==
    ASSUME SameSession
    PROVE  /\ NoWork' <=> NoWork
           /\ WorkIsTheActiveAttempts /\ UNCHANGED activeAttempt
                 => WorkIsTheActiveAttempts'
  BY DEF SameSession, NoWork, WorkIsTheActiveAttempts, UnderWay

LEMMA StillKeepsOwn ==
    ASSUME OwnInv, SameSession, SameAttempts, FlowMoves, ReadingsHold'
    PROVE  Own'
  <1>1. /\ NoWork' <=> NoWork
        /\ Ended' = Ended /\ ends' = ends
        /\ activeAttempt' = activeAttempt /\ baseline' = baseline /\ closedOn' = closedOn
    BY SameNoWork DEF SameSession, SameAttempts, Ended
  <1>2. WorkIsTheActiveAttempts'
    BY <1>1, SameNoWork DEF OwnInv, Own
  <1>3. ActiveIsAhead'
    BY <1>1 DEF ActiveIsAhead, OwnInv, Own
  <1>4. HeldIsActive'
    <2> SUFFICES ASSUME NEW q \in Requests
                 PROVE  /\ flow'[q].at \in {"dispatching", "sending"} =>
                              /\ activeAttempt' = flow'[q].attempt
                              /\ NoWork'
                              /\ baseline'[activeAttempt'] = Ended'
                        /\ flow'[q].at = "declined" /\ activeAttempt' = flow'[q].attempt
                              => NoWork'
                        /\ flow'[q].at = "delivered" => q \in Sends
      BY DEF HeldIsActive
    <2>1. CASE Sheds(q)
      BY <2>1 DEF Sheds, Holding
    <2>2. CASE Stays(q)
      BY <1>1, <2>2 DEF Stays, Holding, FlowMoves, OwnInv, Own, HeldIsActive
    <2>3. QED
      BY <2>1, <2>2 DEF FlowMoves
  <1>5. ClosedOnOwn'
    BY <1>1 DEF ClosedOnOwn, OwnInv, Own
  <1>6. QED
    BY <1>2, <1>3, <1>4, <1>5 DEF Own

\* The end of an attempt: of one whose turn ended, or that the session never saw.
LEMMA EndKeepsOwn ==
    ASSUME OwnInv, SameSession, FlowMoves, ReadingsHold',
           activeAttempt' = None, UNCHANGED baseline, NoWork,
           \A p \in Requests : flow[p].at \in {"dispatching", "sending"} => Sheds(p),
           \/ UNCHANGED closedOn
           \/ /\ Ended # 0 /\ ends[Ended].attempt = activeAttempt
              /\ closedOn' = [closedOn EXCEPT ![activeAttempt] = Ended]
    PROVE  Own'
  <1>1. NoWork' /\ Ended' = Ended /\ ends' = ends
    BY SameNoWork DEF SameSession, Ended
  <1>2. WorkIsTheActiveAttempts'
    <2>1. inbox' = <<>> /\ turn'.state = "none"
      BY <1>1 DEF NoWork
    <2>2. QED
      BY <2>1 DEF WorkIsTheActiveAttempts
  <1>3. ActiveIsAhead'
    BY <1>1 DEF ActiveIsAhead
  <1>4. HeldIsActive'
    <2> SUFFICES ASSUME NEW q \in Requests
                 PROVE  /\ flow'[q].at \notin {"dispatching", "sending"}
                        /\ flow'[q].at = "delivered" => q \in Sends
      BY <1>1 DEF HeldIsActive
    <2>1. CASE Sheds(q)
      BY <2>1 DEF Sheds, Holding
    <2>2. CASE Stays(q) /\ flow[q].at \notin {"dispatching", "sending"}
      BY <2>2 DEF Stays, Holding, FlowMoves, OwnInv, Own, HeldIsActive
    <2>3. QED
      BY <2>1, <2>2 DEF FlowMoves
  <1>5. ClosedOnOwn'
    <2>1. CASE UNCHANGED closedOn
      BY <1>1, <2>1 DEF ClosedOnOwn, OwnInv, Own
    <2>2. CASE /\ Ended # 0 /\ ends[Ended].attempt = activeAttempt
               /\ closedOn' = [closedOn EXCEPT ![activeAttempt] = Ended]
      <3>1. Ended \in Nat
        BY CameIsNat, Basics DEF OwnInv
      <3>2. closedOn \in [Attempts -> Edges]
        BY Basics DEF OwnInv, RestTyped
      <3>3. ASSUME NEW a \in Attempts, closedOn'[a] # 0
            PROVE  closedOn'[a] <= Ended' /\ ends'[closedOn'[a]].attempt = a
        <4>1. CASE a = activeAttempt
          BY <1>1, <2>2, <3>1, <3>2, <4>1
        <4>2. CASE a # activeAttempt
          BY <1>1, <2>2, <3>2, <3>3, <4>2 DEF ClosedOnOwn, OwnInv, Own
        <4>3. QED
          BY <4>1, <4>2
      <3>4. QED
        BY <3>3 DEF ClosedOnOwn
    <2>3. QED
      BY <2>1, <2>2
  <1>6. QED
    BY <1>2, <1>3, <1>4, <1>5 DEF Own

\* The close of an attempt on a reading that is in hand.
LEMMA TurnCloseKeepsOwn ==
    ASSUME OwnInv, NEW r \in Reading, r.edge = Ended, r.edge # 0, TurnClose(r),
           SameSession, FlowMoves, NoNewReading, UNCHANGED baseline
    PROVE  Own'
  <1>1. Calm
    BY TurnCloseFacts, Basics DEF OwnInv
  <1>2. ReadingsHold'
    BY <1>1, ReadingsStay DEF Calm, SameSession
  <1>3. CASE KeepsMatter /\ closedOn' = closedOn
    <2>1. SameAttempts
      BY <1>3 DEF SameAttempts, KeepsMatter, matter
    <2>2. QED
      BY <1>2, <2>1, StillKeepsOwn
  <1>4. CASE /\ activeAttempt # None
             /\ IsNewEdge(activeAttempt, r.edge)
             /\ \/ Writes(K!SucceedAttempt(activeAttempt, 0))
                \/ Writes(K!FailAttempt(activeAttempt, 0))
             /\ closedOn' = [closedOn EXCEPT ![activeAttempt] = r.edge]
    <2>1. activeAttempt \in Attempts
      BY <1>4, Basics DEF OwnInv, Typed, K!TypeOK
    <2>2. activeAttempt' = None
      BY <1>4, <2>1, EndIsCalm, Basics DEF OwnInv
    <2>3. baseline[activeAttempt] # Ended
      BY <1>4 DEF IsNewEdge
    <2>4. NoWork /\ ends[Ended].attempt = activeAttempt
      BY <1>4, <2>3 DEF OwnInv, Own, ActiveIsAhead
    <2>5. \A p \in Requests : flow[p].at \notin {"dispatching", "sending"}
      BY <2>3 DEF OwnInv, Own, HeldIsActive
    <2>6. QED
      BY <1>2, <1>4, <2>2, <2>4, <2>5, EndKeepsOwn
  <1>5. QED
    BY <1>3, <1>4 DEF TurnClose, IsLost

\* What the steps below have in common: nothing of it concerns a turn.
OwnStill ==
    /\ SameAttempts
    /\ UNCHANGED matter \/ version' = version + 1
    /\ NoNewReading
    /\ \A p \in Requests : flow'[p].at = "delivered" => flow[p].at = "delivered"

LEMMA QuietKeepsOwn ==
    ASSUME OwnInv, Quiet, OwnStill PROVE Own'
  BY ReadingsStay, StillKeepsOwn DEF OwnStill, Quiet, FlowMoves, SameSession

LEMMA TellsFlowMoves ==
    ASSUME OwnInv, NEW q \in Requests, NEW answer, Tells(q, answer)
    PROVE  FlowMoves
  <1>1. \A p \in Requests \ {q} : Stays(p)
    BY Basics DEF OwnInv, Tells, Stays
  <1>2. Sheds(q) /\ flow'[q].at # "delivered"
    BY DEF Tells, Sheds, Holding
  <1>3. QED
    BY <1>1, <1>2 DEF FlowMoves, Tells

LEMMA TellsKeepsOwn ==
    ASSUME OwnInv, NEW q \in Requests, NEW answer, Tells(q, answer), OwnStill PROVE Own'
  BY ReadingsStay, StillKeepsOwn, TellsFlowMoves DEF OwnStill, Tells, SameSession

\* A request that moves, and takes no reading and no word of the session.
LEMMA MoveIsStill ==
    ASSUME OwnInv, NEW q \in Requests, SameAttempts, UNCHANGED polled,
           UNCHANGED matter \/ version' = version + 1,
           \E place \in Places \ {"closing", "appending", "delivered"} :
              \E v, a : Moves(q, place, v, a)
    PROVE  OwnStill
  BY DEF OwnStill, NoNewReading, Moves

LEMMA GoesSomewhere ==
    ASSUME OwnInv, NEW q \in Requests,
           NEW place \in Places \ {"closing", "appending", "delivered"},
           Goes(q, place) \/ (Leaves(q) /\ place = "idle")
    PROVE  \E p \in Places \ {"closing", "appending", "delivered"} :
              \E v, a : Moves(q, p, v, a)
  BY GoesFacts, LeavesFacts, Basics DEF OwnInv, Places

LEMMA KeepsAttempts ==
    ASSUME KeepsMatter, UNCHANGED records
    PROVE  SameAttempts /\ UNCHANGED matter
  BY DEF SameAttempts, KeepsMatter, matter, records

LEMMA EarlySteps ==
    ASSUME OwnInv, NEW q \in Requests,
           Begin(q) \/ Decide(q) \/ PreparePorts(q) \/ Resolve(q) \/ Bind(q)
           \/ Admit(q) \/ Verify(q)
    PROVE  Own'
  <1>1. Quiet
    BY BeginSteps, DecideSteps, PreparePortsSteps, ResolveSteps, BindSteps, AdmitSteps,
       VerifySteps DEF OwnInv
  <1>2. KeepsMatter /\ UNCHANGED records /\ UNCHANGED polled
    BY DEF Begin, Decide, PreparePorts, Resolve, Bind, Admit, Verify, observer
  <1>3. /\ \A p \in Requests \ {q} : flow'[p] = flow[p]
        /\ flow'[q].at \notin {"closing", "appending", "delivered"}
    <2>1. flow \in [Requests -> Flow] /\ flow[q].at \notin {"closing", "appending", "delivered"}
      BY Basics DEF OwnInv, Begin, Decide, PreparePorts, Resolve, Bind, Admit, Verify, At
    <2>2. CASE Begin(q)
      BY <2>1, <2>2 DEF Begin, Goes, Takes, SendBegins, Flow
    <2>3. CASE Decide(q)
      BY <2>1, <2>3 DEF Decide, Goes, Takes, Flow
    <2>4. CASE PreparePorts(q)
      BY <2>1, <2>4 DEF PreparePorts, Goes, Leaves, NoFlow, Flow
    <2>5. CASE Resolve(q) \/ Bind(q)
      BY <2>1, <2>5 DEF Resolve, Bind, Takes, Leaves, NoFlow, Flow
    <2>6. CASE Admit(q)
      BY <2>1, <2>6 DEF Admit, Leaves, NoFlow, Flow
    <2>7. CASE Verify(q)
      BY <2>1, <2>7 DEF Verify, Takes, Leaves, NoFlow, Flow
    <2>8. QED
      BY <2>2, <2>3, <2>4, <2>5, <2>6, <2>7
  <1>4. OwnStill
    BY <1>2, <1>3, KeepsAttempts DEF OwnStill, NoNewReading
  <1>5. QED
    BY <1>1, <1>4, QuietKeepsOwn

LEMMA WriteRevisionOwn ==
    ASSUME OwnInv, NEW q \in Requests, WriteRevision(q) PROVE Own'
  <1>1. Quiet
    BY WriteRevisionSteps DEF OwnInv
  <1>2. SameAttempts /\ (UNCHANGED matter \/ version' = version + 1)
    <2>1. CASE KeepsMatter
      BY <2>1, KeepsAttempts DEF WriteRevision
    <2>2. ASSUME NEW r \in Revisions, Writes(K!EnterEvidence(r, TRUE, RunScopes, {}, 0))
          PROVE  SameAttempts /\ version' = version + 1
      <3>1. activeAttempt' = activeAttempt /\ version' = version + 1
        BY <2>2, EnterIsCalm, Basics DEF OwnInv
      <3>2. QED
        BY <3>1 DEF SameAttempts, WriteRevision, records
    <2>3. QED
      BY <2>1, <2>2 DEF WriteRevision
  <1>3. PICK place \in {"admitting", "resolving", "idle"} :
            Goes(q, place) \/ (Leaves(q) /\ place = "idle")
    BY DEF WriteRevision
  <1>4. UNCHANGED polled
    BY DEF WriteRevision, observer
  <1>5. OwnStill
    BY <1>2, <1>3, <1>4, GoesSomewhere, MoveIsStill DEF Places
  <1>6. QED
    BY <1>1, <1>5, QuietKeepsOwn

LEMMA ExactIsRead ==
    ASSUME OwnInv, NoTurnFaults, NEW r, Reads(r)
    PROVE  /\ r = Exact
           /\ r.edge # 0 => r.edge = Ended
           /\ NoWork => r.edge = Ended
  <1>1. r = Exact
    BY TurnFaultFails DEF Reads
  <1>2. QED
    BY <1>1 DEF Exact, After, Executing, NoWork

LEMMA ReadFoldOwn ==
    ASSUME OwnInv, NoTurnFaults, NEW q \in Requests, ReadFold(q) PROVE Own'
  <1>1. Quiet /\ SameAttempts /\ UNCHANGED matter /\ UNCHANGED polled
    BY ReadFoldSteps, KeepsAttempts DEF OwnInv, ReadFold, observer
  <1>2. PICK r \in Readings : Reads(r) /\ Takes(q, "closing", "reading", r)
    BY DEF ReadFold
  <1>3. /\ \A p \in Requests \ {q} : flow'[p] = flow[p]
        /\ flow'[q].at = "closing" /\ flow'[q].reading = r
    BY <1>2, ReadingsAreTyped, TakesReading, Basics DEF OwnInv, Places, Moves
  <1>4. ReadingsHold'
    <2>1. Ended' = Ended
      BY <1>1 DEF Quiet, SameSession, Ended
    <2>2. r.edge # 0 => r.edge = Ended
      BY <1>2, ExactIsRead
    <2>3. version' = version /\ activeAttempt' = activeAttempt
      BY <1>1 DEF matter
    <2>4. QED
      BY <1>1, <1>3, <2>1, <2>2, <2>3 DEF ReadingsHold, OwnInv, Own
  <1>5. FlowMoves
    BY <1>1, <1>3 DEF FlowMoves, Quiet
  <1>6. QED
    BY <1>1, <1>4, <1>5, StillKeepsOwn DEF Quiet

LEMMA ReadBaselineOwn ==
    ASSUME OwnInv, NoTurnFaults, NEW q \in Requests, ReadBaseline(q) PROVE Own'
  <1>1. Quiet /\ SameAttempts /\ UNCHANGED matter /\ UNCHANGED polled
    BY ReadBaselineSteps, KeepsAttempts DEF OwnInv, ReadBaseline, observer
  <1>2. PICK r \in Readings : Reads(r) /\ Takes(q, "appending", "reading", r)
    BY DEF ReadBaseline
  <1>3. /\ \A p \in Requests \ {q} : flow'[p] = flow[p]
        /\ flow'[q].at = "appending" /\ flow'[q].reading = r
    BY <1>2, ReadingsAreTyped, TakesReading, Basics DEF OwnInv, Places, Moves
  <1>4. ReadingsHold'
    <2>1. Ended' = Ended
      BY <1>1 DEF Quiet, SameSession, Ended
    <2>2. activeAttempt = None => r.edge = Ended
      BY <1>2, ExactIsRead DEF OwnInv, Own, ActiveIsAhead
    <2>3. version' = version /\ activeAttempt' = activeAttempt
      BY <1>1 DEF matter
    <2>4. QED
      BY <1>1, <1>3, <2>1, <2>2, <2>3 DEF ReadingsHold, OwnInv, Own
  <1>5. FlowMoves
    BY <1>1, <1>3 DEF FlowMoves, Quiet
  <1>6. QED
    BY <1>1, <1>4, <1>5, StillKeepsOwn DEF Quiet

LEMMA CloseByFoldOwn ==
    ASSUME OwnInv, NEW q \in Requests, CloseByFold(q) PROVE Own'
  <1>1. Quiet /\ UNCHANGED baseline /\ UNCHANGED polled /\ flow[q].at = "closing"
    BY CloseByFoldSteps DEF OwnInv, CloseByFold, observer, At
  <1>2. /\ \A p \in Requests \ {q} : flow'[p] = flow[p]
        /\ flow'[q].at = "deciding"
    BY ZeroIsAnEdge, TakesReading, Basics DEF OwnInv, CloseByFold, Places, Moves
  <1>3. FlowMoves /\ NoNewReading
    BY <1>1, <1>2 DEF FlowMoves, NoNewReading, Quiet
  <1>4. CASE flow[q].reading.edge # 0 /\ flow[q].reading.idle
    <2>1. TurnClose(flow[q].reading)
      BY <1>4 DEF CloseByFold
    <2>2. flow[q].reading.edge = Ended /\ flow[q].reading \in Reading
      BY <1>1, <1>4, Basics DEF OwnInv, Own, ReadingsHold, Flow
    <2>3. QED
      BY <1>1, <1>3, <1>4, <2>1, <2>2, TurnCloseKeepsOwn DEF Quiet
  <1>5. CASE ~ (flow[q].reading.edge # 0 /\ flow[q].reading.idle)
    <2>1. KeepsMatter /\ UNCHANGED closedOn
      BY <1>5 DEF CloseByFold
    <2>2. SameAttempts /\ UNCHANGED matter
      BY <1>1, <2>1 DEF SameAttempts, KeepsMatter, matter
    <2>3. QED
      BY <1>1, <1>3, <2>2, QuietKeepsOwn DEF OwnStill, FlowMoves
  <1>6. QED
    BY <1>4, <1>5

LEMMA UsePollOwn ==
    ASSUME OwnInv, UsePoll PROVE Own'
  <1>1. Quiet /\ UNCHANGED baseline /\ polled' = None /\ UNCHANGED flow
    BY UsePollSteps DEF OwnInv, UsePoll
  <1>2. FlowMoves /\ NoNewReading
    BY <1>1 DEF FlowMoves, NoNewReading, Quiet
  <1>3. CASE polled.edge # 0 /\ polled.edge # seen
    <2>1. TurnClose(polled)
      BY <1>3 DEF UsePoll
    <2>2. polled.edge = Ended /\ polled \in Reading
      BY <1>3, Basics DEF OwnInv, Own, ReadingsHold, UsePoll, RestTyped
    <2>3. QED
      BY <1>1, <1>2, <1>3, <2>1, <2>2, TurnCloseKeepsOwn DEF Quiet
  <1>4. CASE ~ (polled.edge # 0 /\ polled.edge # seen)
    <2>1. KeepsMatter /\ UNCHANGED closedOn
      BY <1>4 DEF UsePoll
    <2>2. SameAttempts /\ UNCHANGED matter
      BY <1>1, <2>1 DEF SameAttempts, KeepsMatter, matter
    <2>3. QED
      BY <1>1, <1>2, <2>2, QuietKeepsOwn DEF OwnStill, FlowMoves
  <1>5. QED
    BY <1>3, <1>4

LEMMA PollOwn ==
    ASSUME OwnInv, NoTurnFaults, Poll PROVE Own'
  <1>1. Quiet /\ SameAttempts /\ UNCHANGED matter /\ UNCHANGED flow
    BY PollSteps, KeepsAttempts DEF OwnInv, Poll
  <1>2. PICK r \in Readings : Reads(r) /\ polled' = r
    BY DEF Poll
  <1>3. ReadingsHold'
    <2>1. Ended' = Ended
      BY <1>1 DEF Quiet, SameSession, Ended
    <2>2. r.edge # 0 => r.edge = Ended
      BY <1>2, ExactIsRead
    <2>3. version' = version /\ activeAttempt' = activeAttempt
      BY <1>1 DEF matter
    <2>4. QED
      BY <1>1, <1>2, <2>1, <2>2, <2>3 DEF ReadingsHold, OwnInv, Own
  <1>4. FlowMoves
    BY <1>1 DEF FlowMoves, Quiet
  <1>5. QED
    BY <1>1, <1>3, <1>4, StillKeepsOwn DEF Quiet

LEMMA OtherSteps ==
    ASSUME OwnInv, Invalidate \/ Crash \/ TurnWaits PROVE Own'
  <1>1. Quiet /\ SameAttempts /\ UNCHANGED matter
    BY InvalidateSteps, CrashSteps, TurnWaitsSteps, KeepsAttempts
       DEF OwnInv, Invalidate, Crash, TurnWaits
  <1>2. polled' \in {polled, None}
    BY DEF Invalidate, Crash, TurnWaits, observer
  <1>3. \A p \in Requests : flow'[p] = flow[p] \/ flow'[p].at = "idle"
    BY DEF Invalidate, Crash, TurnWaits, NoFlow
  <1>4. QED
    BY <1>1, <1>2, <1>3, QuietKeepsOwn DEF OwnStill, NoNewReading

LEMMA DeclineOwn ==
    ASSUME OwnInv, NEW q \in Requests, Decline(q) PROVE Own'
  <1>1. Quiet /\ SameAttempts /\ UNCHANGED matter /\ UNCHANGED polled
    BY DeclineSteps, KeepsAttempts DEF OwnInv, Decline, observer
  <1>2. OwnStill
    BY <1>1, GoesSomewhere, MoveIsStill DEF Decline, Places
  <1>3. QED
    BY <1>1, <1>2, QuietKeepsOwn

LEMMA TellsIsStill ==
    ASSUME OwnInv, NEW q \in Requests, NEW answer, Tells(q, answer), SameAttempts,
           UNCHANGED matter \/ version' = version + 1, UNCHANGED polled
    PROVE  Own'
  <1>1. OwnStill
    BY DEF Tells, OwnStill, NoNewReading
  <1>2. QED
    BY <1>1, TellsKeepsOwn DEF Tells

LEMMA RecheckOwn ==
    ASSUME OwnInv, NEW q \in Requests, Recheck(q) \/ PortRefuses(q) PROVE Own'
  <1>1. KeepsMatter /\ UNCHANGED polled /\ UNCHANGED <<baseline, closedOn>>
    BY DEF Recheck, PortRefuses, observer
  <1>2. SameAttempts /\ UNCHANGED matter
    BY <1>1 DEF SameAttempts, KeepsMatter, matter
  <1>3. Quiet \/ \E answer \in Word : Tells(q, answer)
    BY RecheckSteps, PortRefusesSteps DEF OwnInv
  <1>4. CASE Quiet
    <2>1. PICK place \in {"sending", "idle"} : Goes(q, place) \/ (Leaves(q) /\ place = "idle")
      BY DEF Recheck, PortRefuses, Answers
    <2>2. OwnStill
      BY <1>1, <1>2, <2>1, GoesSomewhere, MoveIsStill DEF Places
    <2>3. QED
      BY <1>4, <2>2, QuietKeepsOwn
  <1>5. QED
    BY <1>1, <1>2, <1>3, <1>4, TellsIsStill

LEMMA ThrowsOwn ==
    ASSUME OwnInv, NEW q \in Requests, Throws(q) PROVE Own'
  <1>1. Tells(q, "unknown")
    BY ThrowsSteps DEF OwnInv
  <1>2. flow[q].attempt \in Attempts
    BY Basics DEF OwnInv, Throws, Holding
  <1>3. SameAttempts /\ (UNCHANGED matter \/ version' = version + 1)
    <2>1. CASE KeepsMatter
      BY <2>1 DEF SameAttempts, KeepsMatter, matter, Throws
    <2>2. CASE Writes(K!MarkDispatchUnknown(flow[q].attempt, 0))
      BY <1>2, <2>2, MarkIsCalm, Basics DEF OwnInv, SameAttempts, Throws
    <2>3. QED
      BY <2>1, <2>2 DEF Throws, OnThrow
  <1>4. QED
    BY <1>1, <1>3, TellsIsStill DEF Throws, observer

\* A control that the session declined ends its own attempt, of which it holds
\* nothing.
LEMMA AnsweredOwn ==
    ASSUME OwnInv, NEW q \in Requests, Answered(q) PROVE Own'
  <1>1. PICK answer \in Word : Tells(q, answer)
    BY AnsweredSteps DEF OwnInv
  <1>2. UNCHANGED <<baseline, closedOn>> /\ UNCHANGED polled
    BY DEF Answered, observer
  <1>3. CASE KeepsMatter
    <2>1. SameAttempts /\ UNCHANGED matter
      BY <1>2, <1>3 DEF SameAttempts, KeepsMatter, matter
    <2>2. QED
      BY <1>1, <1>2, <2>1, TellsIsStill
  <1>4. CASE /\ q \notin Sends
             /\ \/ Writes(K!SucceedAttempt(flow[q].attempt, 0))
                \/ Writes(K!FailAttempt(flow[q].attempt, 0))
    <2>1. flow[q].attempt \in Attempts /\ flow[q].at \in {"delivered", "declined"}
      BY Basics DEF OwnInv, Answered, Holding
    <2>2. /\ activeAttempt = flow[q].attempt /\ activeAttempt' = None
          /\ version' = version + 1
      BY <1>4, <2>1, EndIsCalm, Basics DEF OwnInv
    <2>3. NoWork
      BY <1>4, <2>1, <2>2 DEF OwnInv, Own, HeldIsActive
    <2>4. \A p \in Requests : flow[p].at \notin {"dispatching", "sending"}
      <3>1. \A p \in Requests : flow[p].attempt = flow[q].attempt => p = q
        BY <2>1, NoneIsNoAttempt DEF OwnInv, IInv, HeldOnce
      <3>2. QED
        BY <2>1, <2>2, <3>1 DEF OwnInv, Own, HeldIsActive
    <2>5. ReadingsHold'
      <3>1. NoNewReading
        BY <1>1, <1>2 DEF Tells, NoNewReading
      <3>2. QED
        BY <1>1, <2>2, <3>1, ReadingsStay DEF Tells, SameSession
    <2>6. FlowMoves /\ SameSession
      BY <1>1, TellsFlowMoves DEF Tells
    <2>7. QED
      BY <1>2, <2>2, <2>3, <2>4, <2>5, <2>6, EndKeepsOwn
  <1>5. QED
    BY <1>3, <1>4 DEF Answered, Ends, IsLost

LEMMA AppendAttemptOwn ==
    ASSUME OwnInv, NEW q \in Requests, AppendAttempt(q) PROVE Own'
  <1>1. /\ flow[q].at = "appending" /\ UNCHANGED polled /\ UNCHANGED closedOn
        /\ UNCHANGED session
    BY DEF AppendAttempt, At, observer
  <1>2. CASE KeepsMatter /\ Leaves(q) /\ UNCHANGED <<baseline, told>>
    <2>1. SameAttempts /\ UNCHANGED matter
      BY <1>1, <1>2 DEF SameAttempts, KeepsMatter, matter
    <2>2. OwnStill
      BY <1>1, <1>2, <2>1, GoesSomewhere, MoveIsStill DEF Places
    <2>3. Moves(q, "idle", 0, None)
      BY <1>2, LeavesFacts, Basics DEF OwnInv
    <2>4. FlowMoves
      <3>1. Sheds(q) /\ flow'[q].at # "delivered"
        BY <2>3 DEF Sheds, Moves, Holding
      <3>2. \A p \in Requests \ {q} : Stays(p) /\ flow'[p] = flow[p]
        BY <2>3, Basics DEF OwnInv, Stays, Moves
      <3>3. QED
        BY <3>1, <3>2 DEF FlowMoves
    <2>5. SameSession
      BY <1>1 DEF session, SameSession, UnderWay
    <2>6. QED
      BY <2>1, <2>2, <2>4, <2>5, ReadingsStay, StillKeepsOwn DEF OwnStill, SameSession
  <1>3. ASSUME NEW a \in Attempts,
               StillAtVersion(q),
               Writes(K!StartAttempt(a, {Scope(q)}, {}, "equivalent", 0)),
               baseline' = [baseline EXCEPT ![a] = flow[q].reading.edge],
               \/ flow' = [flow EXCEPT ![q] =
                       [@ EXCEPT !.at = "dispatching", !.attempt = a,
                                 !.reading = NoReading]]
               \/ Leaves(q)
        PROVE  Own'
    <2>1. activeAttempt = None /\ activeAttempt' = a /\ version' = version + 1
      <3>1. Scope(q) \in Scopes
        BY DEF Scope, Scopes
      <3>2. QED
        BY <1>3, <3>1, StartFacts, Basics DEF OwnInv
    <2>2. NoWork /\ flow[q].reading.edge = Ended
      BY <1>1, <1>3, <2>1 DEF OwnInv, Own, ActiveIsAhead, ReadingsHold, StillAtVersion
    <2>3. baseline'[a] = Ended /\ Ended' = Ended /\ ends' = ends /\ NoWork'
      BY <1>1, <1>3, <2>2, Basics DEF OwnInv, RestTyped, session, Ended, NoWork
    <2>4. /\ \A p \in Requests \ {q} : flow'[p] = flow[p]
          /\ flow'[q].at \in {"dispatching", "idle"}
          /\ flow'[q].at = "dispatching" => flow'[q].attempt = a
      <3>1. flow \in [Requests -> Flow]
        BY Basics DEF OwnInv
      <3>2. CASE flow' = [flow EXCEPT ![q] =
                       [@ EXCEPT !.at = "dispatching", !.attempt = a,
                                 !.reading = NoReading]]
        BY <3>1, <3>2 DEF Flow
      <3>3. CASE Leaves(q)
        BY <3>1, <3>3 DEF Leaves, NoFlow
      <3>4. QED
        BY <1>3, <3>2, <3>3
    <2>5. \A p \in Requests : flow[p].at \notin {"dispatching", "sending"}
      <3>1. ASSUME NEW p \in Requests, flow[p].at \in {"dispatching", "sending"}
            PROVE  FALSE
        <4>1. flow[p].attempt = None
          BY <2>1, <3>1 DEF OwnInv, Own, HeldIsActive
        <4>2. flow[p].attempt \in Attempts
          BY <3>1, Basics DEF OwnInv, Holding
        <4>3. QED
          BY <4>1, <4>2, NoneIsNoAttempt
      <3>2. QED
        BY <3>1
    <2>6. WorkIsTheActiveAttempts'
      BY <2>3 DEF NoWork, WorkIsTheActiveAttempts
    <2>7. ActiveIsAhead'
      BY <2>1, <2>3 DEF ActiveIsAhead
    <2>8. HeldIsActive'
      BY <2>1, <2>3, <2>4, <2>5 DEF HeldIsActive, OwnInv, Own
    <2>9. ReadingsHold'
      <3>1. NoNewReading
        BY <1>1, <2>4 DEF NoNewReading
      <3>2. QED
        BY <2>1, <2>3, <3>1, ReadingsStay
    <2>10. ClosedOnOwn'
      BY <1>1, <2>3 DEF ClosedOnOwn, OwnInv, Own
    <2>11. QED
      BY <2>6, <2>7, <2>8, <2>9, <2>10 DEF Own
  <1>4. QED
    BY <1>2, <1>3 DEF AppendAttempt

-----------------------------------------------------------------------------
LEMMA DeliverOwn ==
    ASSUME OwnInv, NEW q \in Requests, Deliver(q) PROVE Own'
  <1>1. /\ KeepsMatter /\ UNCHANGED <<ends, observer, records>>
        /\ flow[q].at = "sending"
    BY DEF Deliver, At
  <1>2. SameAttempts /\ UNCHANGED matter /\ UNCHANGED polled /\ version' = version
    BY <1>1, KeepsAttempts DEF observer, matter
  <1>3. /\ activeAttempt = flow[q].attempt /\ NoWork
        /\ baseline[activeAttempt] = Ended
    BY <1>1 DEF OwnInv, Own, HeldIsActive
  <1>4. flow[q].attempt \in Attempts /\ flow[q].attempt # None
    BY <1>1, Basics, NoneIsNoAttempt DEF OwnInv, Holding
  <1>5. PICK place \in {"delivered", "declined"} : Goes(q, place)
    BY DEF Deliver
  <1>6. Moves(q, place, flow[q].version, flow[q].attempt)
    BY <1>5, GoesFacts, Basics DEF OwnInv, Places
  <1>7. ReadingsHold'
    <2>1. NoNewReading
      BY <1>2, <1>6 DEF NoNewReading, Moves
    <2>2. QED
      BY <1>1, <1>2, <2>1, ReadingsStay
  <1>8. CASE Goes(q, "declined") /\ UNCHANGED <<inbox, turn>>
    <2>1. flow'[q].at = "declined"
      BY <1>8, GoesFacts, Basics DEF OwnInv, Places, Moves
    <2>2. FlowMoves
      <3>1. Stays(q)
        BY <1>1, <1>6, <2>1 DEF Stays, Moves
      <3>2. \A p \in Requests \ {q} : Stays(p) /\ flow'[p] = flow[p]
        BY <1>6, Basics DEF OwnInv, Stays, Moves
      <3>3. QED
        BY <2>1, <3>1, <3>2 DEF FlowMoves
    <2>3. SameSession
      BY <1>1, <1>8 DEF SameSession, UnderWay
    <2>4. QED
      BY <1>2, <1>7, <2>2, <2>3, StillKeepsOwn
  <1>9. CASE /\ q \in Sends /\ inbox' = Append(inbox, flow[q].attempt)
             /\ Goes(q, "delivered") /\ UNCHANGED turn
    <2>1. flow'[q].at = "delivered"
      BY <1>9, GoesFacts, Basics DEF OwnInv, Places, Moves
    <2>2. inbox' = <<flow[q].attempt>>
      BY <1>3, <1>9 DEF NoWork
    <2>3. turn'.state = "none" /\ Ended' = Ended /\ ends' = ends
          /\ activeAttempt' = activeAttempt /\ baseline' = baseline /\ closedOn' = closedOn
      BY <1>1, <1>2, <1>3, <1>9 DEF NoWork, Ended, SameAttempts
    <2>4. Len(inbox') = 1 /\ DOMAIN inbox' = {1} /\ inbox'[1] = flow[q].attempt
      BY <2>2
    <2>5. WorkIsTheActiveAttempts'
      BY <1>3, <2>3, <2>4 DEF WorkIsTheActiveAttempts
    <2>6. ActiveIsAhead'
      BY <1>3, <1>4, <2>3 DEF ActiveIsAhead
    <2>7. \A p \in Requests \ {q} :
              flow'[p] = flow[p] /\ flow[p].attempt # activeAttempt
      BY <1>3, <1>4, <1>6 DEF Moves, OwnInv, IInv, HeldOnce
    <2>8. HeldIsActive'
      BY <1>9, <2>1, <2>3, <2>7 DEF HeldIsActive, OwnInv, Own
    <2>9. ClosedOnOwn'
      BY <2>3 DEF ClosedOnOwn, OwnInv, Own
    <2>10. QED
      BY <1>7, <2>5, <2>6, <2>8, <2>9 DEF Own
  <1>10. QED
    BY <1>3, <1>8, <1>9 DEF Deliver, NoWork

LEMMA TurnStartOwn ==
    ASSUME OwnInv, TurnStart PROVE Own'
  <1>1. /\ KeepsMatter /\ UNCHANGED <<flow, ends, observer, records>>
        /\ turn.state = "none" /\ inbox # <<>>
        /\ turn' = [state |-> "running", attempt |-> Head(inbox)]
        /\ inbox' = Tail(inbox)
    BY DEF TurnStart
  <1>2. SameAttempts /\ UNCHANGED matter /\ UNCHANGED polled
    BY <1>1, KeepsAttempts DEF observer
  <1>3. /\ ~ NoWork /\ activeAttempt # None /\ baseline[activeAttempt] = Ended
    BY <1>1 DEF OwnInv, Own, ActiveIsAhead, NoWork
  <1>4. /\ inbox \in Seq(Attempts \cup {None}) /\ Len(inbox) \in Nat
        /\ Len(inbox) <= 1 /\ \A n \in DOMAIN inbox : inbox[n] = activeAttempt
    <2>1. inbox \in Seq(Attempts \cup {None}) /\ Len(inbox) \in Nat
      BY Basics DEF OwnInv, RestTyped
    <2>2. Len(inbox) + 0 <= 1 /\ \A n \in DOMAIN inbox : inbox[n] = activeAttempt
      BY <1>1 DEF OwnInv, Own, WorkIsTheActiveAttempts
    <2>3. QED
      BY <2>1, <2>2
  <1>5. /\ Len(inbox) = 1 /\ inbox' = <<>> /\ Head(inbox) = activeAttempt
    <2>1. inbox \in Seq(Attempts \cup {None}) /\ inbox # <<>> /\ Len(inbox) <= 1
      BY <1>1, <1>4
    <2>2. Len(inbox) = 1 /\ Tail(inbox) = <<>> /\ Head(inbox) = inbox[1]
          /\ 1 \in DOMAIN inbox
      BY <2>1, OnlyOne
    <2>3. QED
      BY <1>1, <1>4, <2>2
  <1>6. /\ Ended' = Ended /\ ends' = ends
        /\ activeAttempt' = activeAttempt /\ baseline' = baseline /\ closedOn' = closedOn
        /\ ~ NoWork'
    BY <1>1, <1>2 DEF Ended, SameAttempts, NoWork
  <1>7. WorkIsTheActiveAttempts'
    BY <1>1, <1>5, <1>6 DEF WorkIsTheActiveAttempts
  <1>8. ActiveIsAhead' /\ ClosedOnOwn'
    BY <1>3, <1>6 DEF ActiveIsAhead, ClosedOnOwn, OwnInv, Own
  <1>9. HeldIsActive'
    <2>1. \A p \in Requests :
             /\ flow[p].at \notin {"dispatching", "sending"}
             /\ ~ (flow[p].at = "declined" /\ activeAttempt = flow[p].attempt)
             /\ flow[p].at = "delivered" => p \in Sends
      BY <1>3 DEF OwnInv, Own, HeldIsActive
    <2>2. QED
      BY <1>1, <1>6, <2>1 DEF HeldIsActive
  <1>10. ReadingsHold'
    BY <1>1, <1>2, ReadingsStay DEF NoNewReading
  <1>11. QED
    BY <1>7, <1>8, <1>9, <1>10 DEF Own

\* No reading is in hand when a turn ends: that would be a fault.
LEMMA TurnEndOwn ==
    ASSUME OwnInv, NoTurnFaults, TurnEnd PROVE Own'
  <1>1. /\ KeepsMatter /\ UNCHANGED <<flow, inbox, observer, records>>
        /\ turn.state = "running" /\ turn' = NoTurn
    BY DEF TurnEnd
  <1>2. ~ ReadingIsInHand
    BY TurnFaultFails DEF TurnEnd
  <1>3. SameAttempts /\ UNCHANGED matter /\ UNCHANGED polled
    BY <1>1, KeepsAttempts DEF observer
  <1>4. PICK kind \in {"completed", "failed", "other"} :
            ends' = Append(ends, [kind |-> kind, attempt |-> turn.attempt])
    BY DEF TurnEnd
  <1>5. ends \in Seq(TurnEnds) /\ [kind |-> kind, attempt |-> turn.attempt] \in TurnEnds
    BY Basics DEF OwnInv, RestTyped, TurnEnds
  <1>6. /\ Ended \in Nat /\ Ended' = Ended + 1
        /\ \A n \in 1 .. Ended : ends'[n] = ends[n]
        /\ ends'[Ended + 1].attempt = turn.attempt
    BY <1>4, <1>5, AppendFacts DEF Ended
  <1>7. /\ ~ NoWork /\ activeAttempt # None /\ baseline[activeAttempt] = Ended
        /\ turn.attempt = activeAttempt
    BY <1>1 DEF OwnInv, Own, ActiveIsAhead, NoWork, WorkIsTheActiveAttempts
  <1>8. inbox = <<>>
    <2>1. inbox \in Seq(Attempts \cup {None}) /\ Len(inbox) \in Nat /\ Len(inbox) + 1 <= 1
      BY <1>1, Basics DEF OwnInv, Own, WorkIsTheActiveAttempts, RestTyped
    <2>2. QED
      BY <2>1
  <1>9. /\ activeAttempt' = activeAttempt /\ baseline' = baseline /\ closedOn' = closedOn
        /\ inbox' = <<>> /\ turn'.state = "none" /\ NoWork'
    BY <1>1, <1>3, <1>8 DEF SameAttempts, NoWork, NoTurn
  <1>10. WorkIsTheActiveAttempts'
    BY <1>9 DEF WorkIsTheActiveAttempts
  <1>11. ActiveIsAhead'
    <2>1. Ended' = baseline'[activeAttempt'] + 1 /\ ends'[Ended'].attempt = activeAttempt'
      BY <1>6, <1>7, <1>9
    <2>2. QED
      BY <1>9, <2>1 DEF ActiveIsAhead
  <1>12. HeldIsActive'
    <2>1. \A p \in Requests :
             /\ flow[p].at \notin {"dispatching", "sending"}
             /\ ~ (flow[p].at = "declined" /\ activeAttempt = flow[p].attempt)
             /\ flow[p].at = "delivered" => p \in Sends
      BY <1>7 DEF OwnInv, Own, HeldIsActive
    <2>2. QED
      BY <1>1, <1>9, <2>1 DEF HeldIsActive
  <1>13. ReadingsHold'
    BY <1>1, <1>2, <1>3, <1>7, <1>9 DEF ReadingsHold, ReadingIsInHand, At
  <1>14. ClosedOnOwn'
    <2> SUFFICES ASSUME NEW a \in Attempts, closedOn[a] # 0
                 PROVE  closedOn[a] <= Ended' /\ ends'[closedOn[a]].attempt = a
      BY <1>9 DEF ClosedOnOwn
    <2>1. closedOn[a] \in Nat
      <3>1. closedOn[a] \in Edges
        BY Basics DEF OwnInv, RestTyped
      <3>2. QED
        BY <3>1, BoundsAreNat DEF Edges
    <2>2. closedOn[a] <= Ended /\ ends[closedOn[a]].attempt = a
      BY DEF ClosedOnOwn, OwnInv, Own
    <2>3. closedOn[a] \in 1 .. Ended
      BY <1>6, <2>1, <2>2
    <2>4. QED
      BY <1>6, <2>1, <2>2, <2>3
  <1>15. QED
    BY <1>10, <1>11, <1>12, <1>13, <1>14 DEF Own

LEMMA OwnKeeps == NoTurnFaults /\ OwnInv /\ [Next]_vars => OwnInv'
  <1> SUFFICES ASSUME NoTurnFaults, OwnInv, [Next]_vars PROVE OwnInv'
    OBVIOUS
  <1>1. IInv'
    BY IInvKeeps DEF OwnInv
  <1>2. Own'
    <2>1. ASSUME NEW q \in Requests,
                 Begin(q) \/ Step(q) \/ PortRefuses(q) \/ Decline(q) \/ Throws(q)
          PROVE  Own'
      BY <2>1, EarlySteps, WriteRevisionOwn, ReadFoldOwn, ReadBaselineOwn, CloseByFoldOwn,
         AppendAttemptOwn, RecheckOwn, DeliverOwn, AnsweredOwn, DeclineOwn, ThrowsOwn
         DEF Step
    <2>2. CASE Invalidate \/ Crash \/ TurnWaits
      BY <2>2, OtherSteps
    <2>3. CASE Poll \/ UsePoll
      BY <2>3, PollOwn, UsePollOwn
    <2>4. CASE TurnStart \/ TurnEnd
      BY <2>4, TurnStartOwn, TurnEndOwn
    <2>5. CASE ReturnSideChat
      BY <2>5, TurnFaultFails DEF ReturnSideChat
    <2>6. CASE UNCHANGED vars
      <3>1. UNCHANGED <<matter, flow, session, observer, records>>
        BY <2>6 DEF vars
      <3>2. OwnStill /\ SameSession /\ FlowMoves
        <4>1. \A p \in Requests : Stays(p)
          BY <3>1, Basics DEF OwnInv, Stays
        <4>2. QED
          BY <3>1, <4>1 DEF OwnStill, SameAttempts, matter, records, observer, session,
                            NoNewReading, SameSession, UnderWay, FlowMoves
      <3>3. QED
        BY <3>2, ReadingsStay, StillKeepsOwn DEF OwnStill, SameSession
    <2>7. QED
      BY <2>1, <2>2, <2>3, <2>4, <2>5, <2>6 DEF Next
  <1>3. QED
    BY <1>1, <1>2 DEF OwnInv

LEMMA OwnInit == Init => OwnInv
  <1> SUFFICES ASSUME Init PROVE OwnInv
    OBVIOUS
  <1>1. \A q \in Requests : flow[q].at = "idle"
    BY DEF Init, NoFlow
  <1>2. HeldIsActive /\ ClosedOnOwn
    BY <1>1 DEF HeldIsActive, ClosedOnOwn, Init
  <1>3. inbox = <<>> /\ turn.state = "none" /\ activeAttempt = None
    BY DEF Init, NoTurn
  <1>4. WorkIsTheActiveAttempts /\ ActiveIsAhead
    BY <1>3 DEF WorkIsTheActiveAttempts, ActiveIsAhead, NoWork
  <1>5. ReadingsHold
    BY <1>1 DEF ReadingsHold, Init
  <1>6. QED
    BY <1>2, <1>4, <1>5, InitHolds DEF OwnInv, Own

\* What the session holds is always the prompt of the active attempt and one at
\* most, however many sends, controls and selections race, as long as no reading is
\* cut short, no turn ends under a reading and no side chat returns a prompt.
THEOREM WorkIsOwned ==
    ASSUME NoTurnFaults
    PROVE  Spec => []WorkIsTheActiveAttempts
  <1>1. OwnInv => WorkIsTheActiveAttempts
    BY DEF OwnInv, Own
  <1>2. OwnInv /\ [Next]_vars => OwnInv'
    BY OwnKeeps
  <1>3. QED
    BY <1>1, <1>2, OwnInit, PTL DEF Spec

\* What closed an attempt was the end of its own turn, under the same conditions.
THEOREM ClosedByOwn ==
    ASSUME NoTurnFaults
    PROVE  Spec => []ClosedByItsOwnTurn
  <1>1. OwnInv => ClosedByItsOwnTurn
    BY DEF OwnInv, Own, ClosedOnOwn, ClosedByItsOwnTurn
  <1>2. OwnInv /\ [Next]_vars => OwnInv'
    BY OwnKeeps
  <1>3. QED
    BY <1>1, <1>2, OwnInit, PTL DEF Spec
=============================================================================
