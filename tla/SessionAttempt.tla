--------------------------- MODULE SessionAttempt ---------------------------
(***************************************************************************)
(* How a prompt of the user becomes an attempt of the matter and a turn of  *)
(* the session, and how the end of a turn becomes the end of the attempt.   *)
(* Every request to the application service is a sequence of steps, cut at  *)
(* its awaits; between two of them any other request, the observer of the   *)
(* session, a new selection or the Host may act.                            *)
(*                                                                          *)
(* The matter is the kernel's (INSTANCE BusinessMatter): whatever is written *)
(* is one of its commands, appended at an exact version.  The session is a  *)
(* log of turns: an edge is the place of an ended turn in it, 0 is no edge. *)
(* Identities are counted up, as every request mints a fresh one.           *)
(***************************************************************************)
EXTENDS Naturals, Sequences, FiniteSets

CONSTANTS
    MaxRevisions, MaxAttempts,
    MaxGenerations,            \* bound: bindings of the active context
    Sends, Controls, Selects,  \* requests under way at once, by route
    RunScopes,                 \* scopes the published requirement declares
    Faults,                    \* what may go wrong, see Fault
    MaxFaults,                 \* bound: how often something does
    None

ASSUME RequestsAreOneRouteEach ==
    Sends \cap Controls = {} /\ Sends \cap Selects = {} /\ Controls \cap Selects = {}
ASSUME BoundsAreNat ==
    /\ MaxRevisions \in Nat \ {0}
    /\ MaxAttempts \in Nat
    /\ MaxGenerations \in Nat
    /\ MaxFaults \in Nat

Revisions == 1 .. MaxRevisions
Attempts  == 1 .. MaxAttempts
Requests  == Sends \cup Controls \cup Selects
Scopes    == {"session.prompt", "session.approval"}

ASSUME NoneIsNoNumber == None \notin Nat
ASSUME RunScopesAreScopes == RunScopes \subseteq Scopes

VARIABLES
    stage, conclusion, currentRevision, revisions, pending, decisions,
    activeAttempt, attempts, artifacts, latestArtifact, receipts, now,
    version,     \* of the matter's stream
    baseline,    \* observedTurnEndEdge of each attempt
    context,     \* the active matter context: revision and generation
    flow,        \* where each request is and what it holds across an await
    inbox,       \* prompts the session has taken and not begun
    turn, ends,  \* the turn under way; the turns that ended, in order
    polled,      \* the reading the observer has in hand
    seen,        \* lastTurnEndSeen
    closedOn,    \* history: the edge that closed an attempt
    told,        \* history: what the request of an attempt was answered
    faults       \* how many have happened

K == INSTANCE BusinessMatter WITH
        Decisions <- {}, Artifacts <- {}, Receipts <- {},
        Roles <- {"owner"}, Responsible <- "owner", MaxTime <- 0

matter == <<stage, conclusion, currentRevision, revisions, pending, decisions,
            activeAttempt, attempts, artifacts, latestArtifact, receipts, now, version>>
session == <<inbox, turn, ends>>
observer == <<polled, seen>>
records == <<baseline, closedOn, told>>
vars == <<matter, context, flow, session, observer, records, faults>>

Ended == Len(ends)
Edges == 0 .. (MaxAttempts + MaxFaults)

(***************************************************************************)
(* What a reading of the session says: the edge, how that turn ended, and   *)
(* whether a turn is under way, which resets the edge.                      *)
(***************************************************************************)
After(n)  == [edge |-> n, kind |-> IF n = 0 THEN None ELSE ends[n].kind, idle |-> TRUE]
Executing == [edge |-> 0, kind |-> None, idle |-> FALSE]

Exact == IF turn.state = "none" THEN After(Ended) ELSE Executing

NoReading == [edge |-> 0, kind |-> None, idle |-> TRUE]
NoFlow == [at |-> "idle", version |-> 0, generation |-> 0, revision |-> None,
           reading |-> NoReading, attempt |-> None]
NoTurn == [state |-> "none", attempt |-> None]
-----------------------------------------------------------------------------
(* A definition whose name ends in _Bug is a fault the code could have had.  *)
(* No definition of the specification uses one.                              *)

NoContext_Bug(g) == [revision |-> None]            \* the generation goes with it

\* The generation stays when the context goes, so that it never comes back.
NoContext(g) == [revision |-> None, generation |-> g]

\* A matter as its custodian creates it, with a revision that declares nothing to
\* run; no context is selected and no session exists.
Init ==
    /\ stage = "evidence"
    /\ conclusion = "none"
    /\ currentRevision = 1
    /\ revisions = [r \in Revisions |->
           [entered |-> r = 1, ready |-> FALSE, scopes |-> {}, gated |-> {}]]
    /\ pending = K!NoClarification
    /\ activeAttempt = None
    /\ attempts = [a \in Attempts |->
           [status |-> "absent", revision |-> None, scopes |-> {},
            decisions |-> {}, startedAt |-> 0, dispatchUnknown |-> FALSE]]
    /\ decisions = [d \in {} |-> None]
    /\ artifacts = [f \in {} |-> None]
    /\ receipts = [c \in {} |-> None]
    /\ latestArtifact = None
    /\ now = 0
    /\ version = 2
    /\ baseline = [a \in Attempts |-> 0]
    /\ context = [revision |-> None, generation |-> 0]
    /\ flow = [q \in Requests |-> NoFlow]
    /\ inbox = <<>> /\ turn = NoTurn /\ ends = <<>>
    /\ polled = None /\ seen = 0
    /\ closedOn = [a \in Attempts |-> 0]
    /\ told = [a \in Attempts |-> "nothing"]
    /\ faults = 0

-----------------------------------------------------------------------------
Fault(kind) ==
    /\ kind \in Faults
    /\ faults < MaxFaults
    /\ faults' = faults + 1

\* A reading, exact at its instant; a stream that breaks answers with what it had,
\* the fold of some beginning of the log, and still says that it was read.
Readings == {Exact, Executing} \cup {After(n) : n \in 0 .. Ended}

Reads(r) == \/ r = Exact /\ UNCHANGED faults
            \/ Fault("broken")

At(q, place) == flow[q].at = place

Goes(q, place) == flow' = [flow EXCEPT ![q].at = place]

Takes(q, place, field, value) ==
    flow' = [flow EXCEPT ![q].at = place, ![q][field] = value]

Leaves(q) == flow' = [flow EXCEPT ![q] = NoFlow]

KeepsMatter == UNCHANGED matter

Writes(command) == command /\ version' = version + 1

IsFresh(a) == /\ attempts[a].status = "absent"
              /\ \A b \in 1 .. a - 1 : attempts[b].status # "absent"

\* decideRunRevision: the current revision does not declare the send scope, or
\* its last attempt failed.
RevisionIsNeeded ==
    \/ stage = "failed-retry"
    \/ "session.prompt" \notin revisions[currentRevision].scopes

\* resolveActiveContext: a context is selected, and on the current revision.
BoundIsCurrent == context.revision = currentRevision

\* verifyAdmittedFactsStillHold
StillHolds(q) ==
    /\ context.generation = flow[q].generation
    /\ context.revision = flow[q].revision
    /\ BoundIsCurrent

StillAtVersion_Bug(q) == TRUE                      \* expectedVersion: any

StillAtVersion(q) == flow[q].version = version

-----------------------------------------------------------------------------
(* createSessionTurnClose: both the observer and a send come here.  The      *)
(* matter is read and written within one step, so the version always fits.   *)

\* A write that the store refuses is given up, whoever asked for it.
IsLost == Fault("io") /\ KeepsMatter

IsNewEdge_Bug(a, edge) == TRUE                     \* before ADR-0296

IsNewEdge(a, edge) == baseline[a] # edge

TurnClose(r) ==
    IF activeAttempt # None /\ r.kind \in {"completed", "failed"}
       /\ IsNewEdge(activeAttempt, r.edge)
    THEN \/ /\ Writes(IF r.kind = "completed" THEN K!SucceedAttempt(activeAttempt, 0)
                                              ELSE K!FailAttempt(activeAttempt, 0))
            /\ closedOn' = [closedOn EXCEPT ![activeAttempt] = r.edge]
            /\ UNCHANGED faults
         \/ IsLost /\ UNCHANGED closedOn
    ELSE KeepsMatter /\ UNCHANGED <<closedOn, faults>>

Ends(a, command) ==
    IF K!IsActiveRun(a) THEN \/ Writes(command) /\ UNCHANGED faults
                             \/ IsLost
                        ELSE KeepsMatter /\ UNCHANGED faults

-----------------------------------------------------------------------------
(* A request on its way to the admission.                                    *)

SendBegins_Bug == "deciding"                       \* before ADR-0293

\* sendSessionPrompt reads the session first while an attempt is active.
SendBegins == IF activeAttempt = None THEN "deciding" ELSE "reading"

Begin(q) ==
    /\ At(q, "idle")
    /\ \/ /\ q \in Sends
          /\ Goes(q, SendBegins)
       \/ /\ q \in Controls
          /\ Goes(q, "admitting")
       \/ /\ q \in Selects
          /\ context.generation < MaxGenerations
          /\ Takes(q, "deciding", "generation", context.generation)
    /\ KeepsMatter
    /\ UNCHANGED <<context, session, observer, records, faults>>

\* createSessionSendReconcile, up to the answer of its reading
ReadFold(q) ==
    /\ At(q, "reading")
    /\ \E r \in Readings : Reads(r) /\ Takes(q, "closing", "reading", r)
    /\ KeepsMatter
    /\ UNCHANGED <<context, session, observer, records>>

CloseByFold(q) ==
    /\ At(q, "closing")
    /\ LET r == flow[q].reading
       IN  IF r.edge # 0 /\ r.idle THEN TurnClose(r)
           ELSE KeepsMatter /\ UNCHANGED <<closedOn, faults>>
    /\ Takes(q, "deciding", "reading", NoReading)
    /\ UNCHANGED <<context, session, observer, baseline, told>>

Decide(q) ==
    /\ At(q, "deciding")
    /\ IF RevisionIsNeeded
       THEN Takes(q, "preparing", "version", version)
       ELSE Goes(q, IF q \in Sends THEN "admitting" ELSE "resolving")
    /\ KeepsMatter
    /\ UNCHANGED <<context, session, observer, records, faults>>

\* A send runs the ports of the admission first; a selection only its policy.
PreparePorts(q) ==
    /\ At(q, "preparing")
    /\ IF q \in Sends /\ ~ BoundIsCurrent THEN Leaves(q) ELSE Goes(q, "writing")
    /\ KeepsMatter
    /\ UNCHANGED <<context, session, observer, records, faults>>

IsNextRevision(r) ==
    /\ ~ revisions[r].entered
    /\ \A p \in 1 .. r - 1 : revisions[p].entered

\* writeRunRevision on the matter that was read at the decision
WriteRevision(q) ==
    /\ At(q, "writing")
    /\ \/ /\ StillAtVersion(q)
          /\ \E r \in Revisions :
                IsNextRevision(r) /\ Writes(K!EnterEvidence(r, TRUE, RunScopes, {}, 0))
          /\ Goes(q, IF q \in Sends THEN "admitting" ELSE "resolving")
          /\ UNCHANGED faults
       \/ /\ \/ ~ StillAtVersion(q) /\ UNCHANGED faults
             \/ stage = "running" /\ UNCHANGED faults
             \/ (\A r \in Revisions : revisions[r].entered) /\ UNCHANGED faults
             \/ Fault("io")
          /\ KeepsMatter
          /\ Leaves(q)
    /\ UNCHANGED <<context, session, observer, records>>

-----------------------------------------------------------------------------
(* selectActiveMatter, and what ends a context.                              *)

Resolve(q) ==
    /\ At(q, "resolving")
    /\ Takes(q, "binding", "revision", currentRevision)
    /\ KeepsMatter
    /\ UNCHANGED <<context, session, observer, records, faults>>

Bind(q) ==
    /\ At(q, "binding")
    /\ context' = IF flow[q].generation = context.generation
                  THEN [revision |-> flow[q].revision,
                        generation |-> context.generation + 1]
                  ELSE context
    /\ Leaves(q)
    /\ KeepsMatter
    /\ UNCHANGED <<session, observer, records, faults>>

\* The identity session or the frame the context was selected under is gone.
Invalidate ==
    /\ Fault("invalidate")
    /\ context.revision # None
    /\ context' = NoContext(context.generation + 1)
    /\ KeepsMatter
    /\ UNCHANGED <<flow, session, observer, records>>

-----------------------------------------------------------------------------
(* admitProtectedEffect.  Of its ten steps the model keeps those that look   *)
(* at the matter, the context or the session; that the context is looked at  *)
(* twice more before the attempt is written follows from the last look, as   *)
(* a generation never comes back.                                            *)

Scope(q) == IF q \in Sends THEN "session.prompt" ELSE "session.approval"

Admit(q) ==
    /\ At(q, "admitting")
    /\ IF BoundIsCurrent
       THEN flow' = [flow EXCEPT ![q].at = "verifying",
                                 ![q].generation = context.generation,
                                 ![q].revision = context.revision]
       ELSE Leaves(q)
    /\ KeepsMatter
    /\ UNCHANGED <<context, session, observer, records, faults>>

Verify(q) ==
    /\ At(q, "verifying")
    /\ IF StillHolds(q) THEN Takes(q, "observing", "version", version) ELSE Leaves(q)
    /\ KeepsMatter
    /\ UNCHANGED <<context, session, observer, records, faults>>

\* readObservedTurnEndEdge: the edge that proves nothing about this attempt
ReadBaseline(q) ==
    /\ At(q, "observing")
    /\ \E r \in Readings : Reads(r) /\ Takes(q, "appending", "reading", r)
    /\ KeepsMatter
    /\ UNCHANGED <<context, session, observer, records>>

\* What startAttempt refuses of an attempt at this scope; its revision is current
\* and nothing here is gated.
MayStart(q) ==
    /\ activeAttempt = None
    /\ stage = "evidence"
    /\ revisions[currentRevision].ready
    /\ Scope(q) \in revisions[currentRevision].scopes

\* The attempt is appended, at the version that was verified; after a commit whose
\* end is unknown nothing goes on to the dispatch.
AppendAttempt(q) ==
    /\ At(q, "appending")
    /\ \/ \E a \in Attempts :
          /\ IsFresh(a)
          /\ StillAtVersion(q)
          /\ Writes(K!StartAttempt(a, {Scope(q)}, {}, "equivalent", 0))
          /\ baseline' = [baseline EXCEPT ![a] = flow[q].reading.edge]
          /\ \/ /\ flow' = [flow EXCEPT ![q] =
                       [@ EXCEPT !.at = "dispatching", !.attempt = a,
                                 !.reading = NoReading]]
                /\ UNCHANGED <<told, faults>>
             \/ /\ Fault("commit")
                /\ told' = [told EXCEPT ![a] = "retryable"]
                /\ Leaves(q)
       \/ /\ \/ ~ StillAtVersion(q) /\ UNCHANGED faults
             \/ ~ MayStart(q) /\ UNCHANGED faults
             \/ (\A a \in Attempts : attempts[a].status # "absent") /\ UNCHANGED faults
             \/ Fault("io")
          /\ KeepsMatter
          /\ Leaves(q)
          /\ UNCHANGED <<baseline, told>>
    /\ UNCHANGED <<context, session, observer, closedOn>>

Answers(q, answer) ==
    /\ told' = [told EXCEPT ![flow[q].attempt] = answer]
    /\ Leaves(q)

Recheck(q) ==
    /\ At(q, "dispatching")
    /\ \/ StillHolds(q) /\ Goes(q, "sending") /\ UNCHANGED told
       \/ ~ StillHolds(q) /\ Answers(q, "retryable")
    /\ KeepsMatter
    /\ UNCHANGED <<context, session, observer, baseline, closedOn, faults>>

\* A port of the admission, of the preparation or of the selection refuses or
\* throws.  Once the attempt is written the caller is told to try again.
PortRefuses(q) ==
    /\ Fault("port")
    /\ \/ flow[q].at \in {"preparing", "resolving", "binding", "verifying", "observing"}
          /\ Leaves(q) /\ UNCHANGED told
       \/ flow[q].at = "dispatching"
          /\ Answers(q, "retryable")
    /\ KeepsMatter
    /\ UNCHANGED <<context, session, observer, baseline, closedOn>>

-----------------------------------------------------------------------------
(* The dispatch: the call reaches the session, then its answer comes back.   *)

\* The session takes the prompt, or lets a waiting turn go on.  An answer to a
\* turn that does not wait is declined.
Deliver(q) ==
    /\ At(q, "sending")
    /\ \/ /\ q \in Sends
          /\ inbox' = Append(inbox, flow[q].attempt)
          /\ Goes(q, "delivered")
          /\ UNCHANGED turn
       \/ /\ q \in Controls
          /\ turn.state = "waiting"
          /\ turn' = [turn EXCEPT !.state = "running"]
          /\ Goes(q, "delivered")
          /\ UNCHANGED inbox
       \/ /\ q \in Controls
          /\ turn.state # "waiting"
          /\ Goes(q, "declined")
          /\ UNCHANGED <<inbox, turn>>
    /\ KeepsMatter
    /\ UNCHANGED <<context, ends, observer, records, faults>>

Decline(q) ==
    /\ q \in Sends
    /\ At(q, "sending")
    /\ Fault("refused")
    /\ Goes(q, "declined")
    /\ KeepsMatter
    /\ UNCHANGED <<context, session, observer, records>>

\* A send leaves its attempt to the end of the turn; a control closes its own.
Answered(q) ==
    /\ flow[q].at \in {"delivered", "declined"}
    /\ LET a == flow[q].attempt
       IN  IF q \in Sends THEN KeepsMatter /\ UNCHANGED faults
           ELSE Ends(a, IF At(q, "delivered") THEN K!SucceedAttempt(a, 0)
                                              ELSE K!FailAttempt(a, 0))
    /\ Answers(q, IF At(q, "delivered") THEN "accepted" ELSE "refused")
    /\ UNCHANGED <<context, session, observer, baseline, closedOn>>

Thrown_Bug == "retryable"                          \* before ADR-0296

Thrown == "unknown"

OnThrow_Bug(a) == K!FailAttempt(a, 0)              \* an unknown taken for a failure

OnThrow(a) == K!MarkDispatchUnknown(a, 0)

\* The call throws, whether or not it reached the session: the unknown is marked
\* on the attempt, if that is still active, and then answered; that the mark was
\* lost, nobody is told.
Throws(q) ==
    /\ flow[q].at \in {"sending", "delivered"}
    /\ Fault("thrown")
    /\ \/ K!IsActiveRun(flow[q].attempt) /\ Writes(OnThrow(flow[q].attempt))
       \/ KeepsMatter
    /\ Answers(q, Thrown)
    /\ UNCHANGED <<context, session, observer, baseline, closedOn>>

\* The application dies: its requests, its context and what it had seen are gone.
Crash ==
    /\ Fault("crash")
    /\ flow' = [q \in Requests |-> NoFlow]
    /\ context' = NoContext(0)
    /\ polled' = None
    /\ seen' = 0
    /\ KeepsMatter
    /\ UNCHANGED <<session, records>>

-----------------------------------------------------------------------------
(* The observer, a reading of the session by the state route.                *)

Poll ==
    /\ polled = None
    /\ \E r \in Readings : Reads(r) /\ polled' = r
    /\ KeepsMatter
    /\ UNCHANGED <<context, flow, session, seen, records>>

\* observePostTurn: the edge is seen before the close is written.
UsePoll ==
    /\ polled # None
    /\ polled' = None
    /\ IF polled.edge # 0 /\ polled.edge # seen
       THEN seen' = polled.edge /\ TurnClose(polled)
       ELSE KeepsMatter /\ UNCHANGED <<seen, closedOn, faults>>
    /\ UNCHANGED <<context, flow, session, baseline, told>>

-----------------------------------------------------------------------------
(* The session, in the Host.                                                 *)

TurnStart ==
    /\ turn.state = "none"
    /\ inbox # <<>>
    /\ turn' = [state |-> "running", attempt |-> Head(inbox)]
    /\ inbox' = Tail(inbox)
    /\ KeepsMatter
    /\ UNCHANGED <<context, flow, ends, observer, records, faults>>

TurnWaits ==
    /\ turn.state = "running"
    /\ turn' = [turn EXCEPT !.state = "waiting"]
    /\ KeepsMatter
    /\ UNCHANGED <<context, flow, inbox, ends, observer, records, faults>>

ReadingIsInHand == polled # None \/ \E q \in Requests : At(q, "closing")

\* A turn that ends between a reading and its use is one of the faults.
TurnEnd ==
    /\ turn.state = "running"
    /\ IF ReadingIsInHand THEN Fault("slow") ELSE UNCHANGED faults
    /\ \E kind \in {"completed", "failed", "other"} :
          ends' = Append(ends, [kind |-> kind, attempt |-> turn.attempt])
    /\ turn' = NoTurn
    /\ KeepsMatter
    /\ UNCHANGED <<context, flow, inbox, observer, records>>

\* returnToMain of a side chat: a prompt of the main session without an attempt
ReturnSideChat ==
    /\ Fault("return")
    /\ inbox' = Append(inbox, None)
    /\ KeepsMatter
    /\ UNCHANGED <<context, flow, turn, ends, observer, records>>

-----------------------------------------------------------------------------
Step(q) ==
    \/ ReadFold(q) \/ CloseByFold(q)
    \/ Decide(q) \/ PreparePorts(q) \/ WriteRevision(q)
    \/ Resolve(q) \/ Bind(q)
    \/ Admit(q) \/ Verify(q) \/ ReadBaseline(q) \/ AppendAttempt(q)
    \/ Recheck(q) \/ Deliver(q) \/ Answered(q)

Next ==
    \/ \E q \in Requests : Begin(q) \/ Step(q) \/ PortRefuses(q) \/ Decline(q) \/ Throws(q)
    \/ Invalidate \/ Crash
    \/ Poll \/ UsePoll
    \/ TurnStart \/ TurnWaits \/ TurnEnd \/ ReturnSideChat

Spec == Init /\ [][Next]_vars

\* A request that began goes on, the state route is polled, the session takes up
\* what it was given; the user sends again, and answers what waits for an answer.
\* Nothing obliges the user to select a matter, or a turn to end.
FairSpec ==
    /\ Spec
    /\ \A q \in Requests : WF_vars(Step(q))
    /\ \A q \in Sends \cup Controls : WF_vars(Begin(q))
    /\ WF_vars(Poll) /\ WF_vars(UsePoll)
    /\ WF_vars(TurnStart)

-----------------------------------------------------------------------------
Reading == [edge : Edges, kind : {"completed", "failed", "other", None}, idle : BOOLEAN]
Flow == [at : {"idle", "reading", "closing", "deciding", "preparing", "writing",
               "resolving", "binding", "admitting", "verifying", "observing",
               "appending", "dispatching", "sending", "delivered", "declined"},
         version : Nat, generation : Nat, revision : Revisions \cup {None},
         reading : Reading, attempt : Attempts \cup {None}]

TypeOK ==
    /\ K!TypeOK
    /\ version \in Nat
    /\ baseline \in [Attempts -> Edges]
    /\ context \in [revision : Revisions \cup {None}, generation : Nat]
    /\ flow \in [Requests -> Flow]
    /\ inbox \in Seq(Attempts \cup {None})
    /\ turn \in [state : {"none", "running", "waiting"}, attempt : Attempts \cup {None}]
    /\ ends \in Seq([kind : {"completed", "failed", "other"},
                     attempt : Attempts \cup {None}])
    /\ polled \in Reading \cup {None}
    /\ seen \in Edges
    /\ closedOn \in [Attempts -> Edges]
    /\ told \in [Attempts -> {"nothing", "retryable", "refused", "unknown", "accepted"}]
    /\ faults \in 0 .. MaxFaults

EndedBy(a) == {n \in 1 .. Ended : ends[n].attempt = a}
Prompted(a) ==
    \/ \E n \in DOMAIN inbox : inbox[n] = a
    \/ turn.attempt = a
    \/ EndedBy(a) # {}

\* "The send path never closes an attempt on a turn end it did not cause": what
\* closed an attempt by an edge was the end of the turn of that attempt's prompt.
ClosedByItsOwnTurn ==
    \A a \in Attempts : closedOn[a] # 0 => ends[closedOn[a]].attempt = a

\* No work without an attempt: whatever the session holds, in its inbox or under
\* way, is the prompt of the attempt that is active, for as long as it holds it.
WorkIsTheActiveAttempts ==
    /\ \A n \in DOMAIN inbox : inbox[n] = activeAttempt
    /\ turn.state # "none" => turn.attempt = activeAttempt
    /\ Len(inbox) + (IF turn.state = "none" THEN 0 ELSE 1) <= 1

\* A user who is told to try again, or that the session refused, can do so: that
\* prompt never reached the session and never will.  One told of an acceptance has
\* a prompt in the session.
AnswersAreTrue ==
    \A a \in Attempts :
        /\ told[a] \in {"retryable", "refused"} => ~ Prompted(a)
        /\ told[a] = "accepted" /\ "session.prompt" \in attempts[a].scopes => Prompted(a)

\* However sends and selections race, a working revision is entered only over one
\* that cannot run a send: a second one would end the context just selected.
RevisionOnlyWhenNeeded ==
    [][currentRevision' # currentRevision => RevisionIsNeeded]_vars

\* A turn that ended as a success or a failure ends its attempt, although the
\* observer marks an edge as seen before its close is written, the store may
\* refuse that write, and the application may die in between.
EndedTurnIsClosed ==
    \A a \in Attempts :
        (activeAttempt = a /\ \E n \in EndedBy(a) : ends[n].kind # "other")
            ~> activeAttempt # a
=============================================================================
