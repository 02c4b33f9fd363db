---------------------------- MODULE SessionInputs ----------------------------
(***************************************************************************)
(* One matter's conversation with its agent session: the session channel    *)
(* (send, stop, resume, queue edits), the device-local list of inputs kept  *)
(* while execution is paused, the bridge to the Host process, and, as the   *)
(* environment, the base that owns the session and its inbox.               *)
(*                                                                          *)
(* The main process runs one handler segment at a time, from one await to   *)
(* the next; a segment is one action here.  Between segments a handler has  *)
(* one bridge call outstanding.  Requests lie in `host` until the Host acts *)
(* on them, in any order; its answers travel back in order, in `wire`.  A   *)
(* refusal rejects the caller's promise, as does a timeout, and no handler  *)
(* undoes anything then: it ends where it stands (`Rejected`).  Only        *)
(* readQueue catches one, and stop then ends without a fold, all the same.  *)
(***************************************************************************)
EXTENDS Naturals, Sequences, FiniteSets

CONSTANTS
    Calls,      \* handler invocations that may be under way together
    Sessions,   \* sessions the base can mint
    Bound,      \* the sessions bound at the start: {} or one session
    Faults,     \* which of "refused", "unacknowledged", "timeout", "crash" occur,
                \* and "lag": a queue report misses what was just admitted
    Panel,      \* what the queue panel does to an occurrence: "edit", "remove"
    MaxItems,   \* bound of the code: inputs the list holds
    MaxOps,     \* bound: handler invocations in a behaviour
    MaxEdits,   \* bound: edits of one text
    None

ASSUME NoneIsNoSession == None \notin Sessions \cup Calls
ASSUME BoundIsAtMostOne == Bound = {} \/ \E s \in Sessions : Bound = {s}
ASSUME BoundsAreNat == MaxItems \in Nat \ {0} /\ MaxOps \in Nat /\ MaxEdits \in Nat

VARIABLES
    paused, items,   \* the sealed record of the matter
    binding,         \* the session the bindings file names
    call,            \* handler -> where it stands
    nextId, ops,     \* identities minted; handlers started
    host, wire,      \* bridge calls not acted on; answers not delivered
    created, inbox, taken   \* the base: sessions, their queues, what turns took

record == <<paused, items, binding>>
base   == <<created, inbox, taken>>
vars   == <<paused, items, binding, call, nextId, ops, host, wire,
            created, inbox, taken>>

Idle == [op |-> "none", at |-> "idle", session |-> None, item |-> 0, req |-> 0,
         todo |-> {}]

\* A sequence without its k-th element.
Without(s, k) == [n \in 1 .. Len(s) - 1 |-> IF n < k THEN s[n] ELSE s[n + 1]]

\* Texts: an input kept is text 0 and each edit of it the next number; the queue
\* panel rewrites an occurrence to a text no kept input has.
QueueText == MaxEdits + 1

Init ==
    /\ paused = FALSE
    /\ items = <<>>
    /\ created = Bound
    /\ binding = IF Bound = {} THEN None ELSE CHOOSE s \in Bound : TRUE
    /\ call = [c \in Calls |-> Idle]
    /\ nextId = 1
    /\ ops = 0
    /\ host = {}
    /\ wire = <<>>
    /\ inbox = [s \in Sessions |-> <<>>]
    /\ taken = {}

-----------------------------------------------------------------------------
(* The list of kept inputs.  Each operator is one store operation; the       *)
(* record is read and replaced within a segment, so it is a function of the  *)
(* list.                                                                     *)

InState(its, st) == {k \in DOMAIN its : its[k].state = st}

First_Bug(ks) == CHOOSE k \in ks : \A j \in ks : k >= j

First(ks) == CHOOSE k \in ks : \A j \in ks : k <= j

\* replace: the items with this identity, if the list still holds one.
WithItem(its, id, state, req) ==
    [k \in DOMAIN its |->
        IF its[k].id = id THEN [its[k] EXCEPT !.state = state, !.req = req]
                          ELSE its[k]]

\* edit, remove: only of an input that was never sent.
Editable_Bug(item) == item.state # "consumed"

Editable(item) == item.state = "pending"

\* enqueue: the newest MaxItems are kept.
Enqueued_Bug(its, id) ==
    Append(its, [id |-> id, state |-> "pending", text |-> 0, req |-> 0])

Enqueued(its, id) ==
    LET all == Append(its, [id |-> id, state |-> "pending", text |-> 0, req |-> 0])
    IN  IF Len(all) > MaxItems THEN Tail(all) ELSE all

\* beginDispatch: frozen before its prompt leaves.
BeginDispatch_Bug(its, k) == its

BeginDispatch(its, k) == [its EXCEPT ![k].state = "dispatching"]

MarkSubmitted(its, id, req) == WithItem(its, id, "submitted", req)

\* revertDispatch: only an item whose prompt is being sent goes back.
RevertDispatch(its, id) ==
    [k \in DOMAIN its |->
        IF its[k].id = id /\ its[k].state = "dispatching"
        THEN [its[k] EXCEPT !.state = "pending"] ELSE its[k]]

\* returnToPending, as the code has it, looks at no state.
ReturnToPending(its, id) ==
    [k \in DOMAIN its |->
        IF its[k].id = id THEN [its[k] EXCEPT !.state = "pending"] ELSE its[k]]

\* foldQueue at stop: a submitted input that is not queued any more is consumed.
\* (The fold at the end of resume keeps absent inputs and changes no state.)
FoldQueue_Bug(its, queued) ==
    [k \in DOMAIN its |->
        IF its[k].state # "consumed" /\ its[k].req \notin queued
        THEN [its[k] EXCEPT !.state = "consumed"] ELSE its[k]]

FoldQueue(its, queued) ==
    [k \in DOMAIN its |->
        IF its[k].state = "submitted" /\ its[k].req \notin queued
        THEN [its[k] EXCEPT !.state = "consumed"] ELSE its[k]]

-----------------------------------------------------------------------------
(* The bridge.                                                               *)

Await(c, new) == call' = [call EXCEPT ![c] = new]
Return(c)     == call' = [call EXCEPT ![c] = Idle]

Request(c, kind, s, req, item, text) ==
    [call |-> c, kind |-> kind, session |-> s, req |-> req, item |-> item,
     text |-> text]

Sends(c, kind, s, req, item, text) ==
    host' = host \cup {Request(c, kind, s, req, item, text)}

Start(c) ==
    /\ call[c].at = "idle"
    /\ ops < MaxOps
    /\ ops' = ops + 1

\* Handler c, awaiting a call of this kind, gets an answer that is no refusal.
Delivers(c, at) ==
    /\ wire # <<>>
    /\ Head(wire).call = c
    /\ call[c].at = at
    /\ Head(wire).answer # "refused"
    /\ wire' = Tail(wire)

Answer == Head(wire).answer
Value  == Head(wire).value     \* the session created; the requests queued

-----------------------------------------------------------------------------
(* send                                                                      *)

\* A paused send is kept, not sent.
SendWhilePaused(c) ==
    /\ Start(c)
    /\ paused
    /\ items' = Enqueued(items, nextId)
    /\ nextId' = nextId + 1
    /\ UNCHANGED <<paused, binding, call, host, wire, base>>

PromptDirectly(c, s) ==
    /\ Sends(c, "prompt", s, nextId, 0, 0)
    /\ Await(c, [Idle EXCEPT !.op = "send", !.at = "prompt", !.req = nextId])
    /\ nextId' = nextId + 1

SendBound(c) ==
    /\ Start(c)
    /\ ~ paused
    /\ binding # None
    /\ PromptDirectly(c, binding)
    /\ UNCHANGED <<record, wire, base>>

\* ensureSession: the binding is read, the session created across an await, the
\* binding written.
AskForSession(c, op) ==
    /\ binding = None
    /\ Sends(c, "create", None, 0, 0, 0)
    /\ Await(c, [Idle EXCEPT !.op = op, !.at = "create"])
    /\ UNCHANGED nextId

SendUnbound(c) ==
    /\ Start(c)
    /\ ~ paused
    /\ AskForSession(c, "send")
    /\ UNCHANGED <<record, wire, base>>

\* Whether the matter was paused meanwhile is not asked again.
SendCreated(c) ==
    /\ call[c].op = "send"
    /\ Delivers(c, "create")
    /\ binding' = Value
    /\ PromptDirectly(c, Value)
    /\ UNCHANGED <<paused, items, ops, base>>

SendAnswered(c) ==
    /\ call[c].op = "send"
    /\ Delivers(c, "prompt")
    /\ Return(c)
    /\ UNCHANGED <<record, nextId, ops, host, base>>

-----------------------------------------------------------------------------
(* resume                                                                    *)

\* The loop ends at a stop, or when nothing is left to send.
LoopEnds_HeadOnly(its, isPaused) == isPaused \/ 1 \notin InState(its, "pending")

LoopEnds(its, isPaused) == isPaused \/ InState(its, "pending") = {}

\* One turn of the dispatch loop over the live list: freeze the first pending
\* input and send it, or leave the loop if there is none or a stop intervened.
DispatchNext(c, s, its, isPaused) ==
    \/ /\ LoopEnds(its, isPaused)
       /\ items' = its
       /\ Return(c)
       /\ UNCHANGED <<host, nextId>>
    \/ /\ ~ LoopEnds(its, isPaused)
       /\ LET k == First(InState(its, "pending")) IN
          /\ items' = BeginDispatch(its, k)
          /\ Sends(c, "prompt", s, nextId, its[k].id, its[k].text)
          /\ Await(c, [Idle EXCEPT !.op = "resume", !.at = "prompt",
                          !.session = s, !.item = its[k].id, !.req = nextId])
       /\ nextId' = nextId + 1

ResumeBound(c) ==
    /\ Start(c)
    /\ binding # None
    /\ paused' = FALSE
    /\ DispatchNext(c, binding, items, FALSE)
    /\ UNCHANGED <<binding, wire, base>>

ResumeUnbound(c) ==
    /\ Start(c)
    /\ AskForSession(c, "resume")
    /\ UNCHANGED <<record, wire, base>>

ResumeCreated(c) ==
    /\ call[c].op = "resume"
    /\ Delivers(c, "create")
    /\ binding' = Value
    /\ paused' = FALSE
    /\ DispatchNext(c, Value, items, FALSE)
    /\ UNCHANGED <<ops, base>>

ResumeAccepted(c) ==
    /\ call[c].op = "resume"
    /\ Delivers(c, "prompt")
    /\ Answer = "accepted"
    /\ DispatchNext(c, call[c].session,
                    MarkSubmitted(items, call[c].item, call[c].req), paused)
    /\ UNCHANGED <<paused, binding, ops, base>>

\* The base answered, but not with its acknowledgement.
ResumeUnacknowledged(c) ==
    /\ call[c].op = "resume"
    /\ Delivers(c, "prompt")
    /\ Answer = "unrecognised"
    /\ items' = RevertDispatch(items, call[c].item)
    /\ Return(c)
    /\ UNCHANGED <<paused, binding, nextId, ops, host, base>>

-----------------------------------------------------------------------------
(* stop                                                                      *)

\* Pause first.
Stop(c) ==
    /\ Start(c)
    /\ paused' = TRUE
    /\ \/ /\ binding = None
          /\ UNCHANGED <<call, host>>
       \/ /\ binding # None
          /\ Sends(c, "cancel", binding, 0, 0, 0)
          /\ Await(c, [Idle EXCEPT !.op = "stop", !.at = "cancel",
                                   !.session = binding])
    /\ UNCHANGED <<items, binding, nextId, wire, base>>

StopCancelled(c) ==
    /\ Delivers(c, "cancel")
    /\ Sends(c, "control", call[c].session, 0, 0, 0)
    /\ Await(c, [call[c] EXCEPT !.at = "control"])
    /\ UNCHANGED <<record, nextId, ops, base>>

\* Withdraw the next queued occurrence of an input of ours, in the order of the
\* list, which is that of the identities; or be done.
DrainNext(c, todo) ==
    \/ /\ todo = {}
       /\ Return(c)
       /\ UNCHANGED host
    \/ \E i \in todo :
          /\ \A j \in todo : i.id <= j.id
          /\ Sends(c, "remove", call[c].session, i.req, i.id, 0)
          /\ Await(c, [call[c] EXCEPT !.at = "remove", !.item = i.id,
                                      !.todo = todo \ {i}])

Ours(its, queued) ==
    {its[k] : k \in {j \in InState(its, "submitted") : its[j].req \in queued}}

StopFolds(c) ==
    /\ Delivers(c, "control")
    /\ items' = FoldQueue(items, Value)
    /\ DrainNext(c, Ours(items, Value))
    /\ UNCHANGED <<paused, binding, nextId, ops, base>>

StopRemoved(c) ==
    /\ call[c].op = "stop"
    /\ Delivers(c, "remove")
    /\ items' = ReturnToPending(items, call[c].item)
    /\ DrainNext(c, call[c].todo)
    /\ UNCHANGED <<paused, binding, nextId, ops, base>>

-----------------------------------------------------------------------------
(* queueItem: the queue panel edits or removes one occurrence of the bound       *)
(* session; the list of kept inputs is not told.                             *)

QueueItem(c, kind) ==
    /\ Start(c)
    /\ kind \in Panel
    /\ binding # None
    /\ \E k \in DOMAIN inbox[binding] :
          Sends(c, kind, binding, inbox[binding][k].req, 0, QueueText)
    /\ Await(c, [Idle EXCEPT !.op = "queue", !.at = kind])
    /\ UNCHANGED <<record, nextId, wire, base>>

QueueItemAnswered(c) ==
    /\ call[c].op = "queue"
    /\ Delivers(c, call[c].at)
    /\ Return(c)
    /\ UNCHANGED <<record, nextId, ops, host, base>>

-----------------------------------------------------------------------------
(* A call that is refused or not answered in time rejects; the handler ends  *)
(* and undoes nothing.                                                       *)

Rejected(c) ==
    /\ call[c].at # "idle"
    /\ wire # <<>>
    /\ Head(wire).call = c
    /\ Answer = "refused"
    /\ wire' = Tail(wire)
    /\ Return(c)
    /\ UNCHANGED <<record, nextId, ops, host, base>>

\* What the Host still does for the call has nobody to hear of it; its answer,
\* if there is one, is dropped.
Forgets(c) ==
    /\ "timeout" \in Faults
    /\ call[c].at # "idle"
    /\ \/ /\ \E r \in host : r.call = c /\ host' = (host \ {r}) \cup {[r EXCEPT !.call = None]}
          /\ UNCHANGED wire
       \/ /\ \E n \in DOMAIN wire : wire[n].call = c /\ wire' = Without(wire, n)
          /\ UNCHANGED host
    /\ Return(c)

TimedOut_Bug(c) ==
    /\ Forgets(c)
    /\ items' = RevertDispatch(items, call[c].item)
    /\ UNCHANGED <<paused, binding, nextId, ops, base>>

TimedOut(c) == Forgets(c) /\ UNCHANGED <<record, nextId, ops, base>>

\* The user edits or removes an input of the kept list.
EditItem(k) ==
    /\ Editable(items[k])
    /\ items[k].text < MaxEdits
    /\ items' = [items EXCEPT ![k].text = @ + 1]
    /\ UNCHANGED <<paused, binding, call, nextId, ops, host, wire, base>>

RemoveItem(k) ==
    /\ Editable(items[k])
    /\ items' = Without(items, k)
    /\ UNCHANGED <<paused, binding, call, nextId, ops, host, wire, base>>

\* Main and its Host end together: what was under way is gone, the sealed record,
\* the binding and the base's queues are durable.
Crash ==
    /\ "crash" \in Faults
    /\ \E c \in Calls : call[c].at # "idle"
    /\ call' = [c \in Calls |-> Idle]
    /\ host' = {}
    /\ wire' = <<>>
    /\ UNCHANGED <<record, nextId, ops, base>>

-----------------------------------------------------------------------------
(* The Host and the base.                                                    *)

Reports(r, answer, value) ==
    /\ host' = host \ {r}
    /\ wire' = IF r.call = None THEN wire
               ELSE Append(wire, [call |-> r.call, answer |-> answer,
                                        value |-> value])

Replies(r, answer) == Reports(r, answer, None)

HostCreates(r) ==
    /\ r.kind = "create"
    /\ \E s \in Sessions \ created :
          /\ created' = created \cup {s}
          /\ Reports(r, "created", s)
    /\ UNCHANGED <<inbox, taken>>

HostAdmits(r) ==
    /\ r.kind = "prompt"
    /\ inbox' = [inbox EXCEPT ![r.session] =
           Append(@, [req |-> r.req, item |-> r.item, text |-> r.text])]
    /\ Replies(r, "accepted")
    /\ UNCHANGED <<created, taken>>

HostDoesNotAcknowledge(r) ==
    /\ "unacknowledged" \in Faults
    /\ r.kind = "prompt"
    /\ Replies(r, "unrecognised")
    /\ UNCHANGED base

HostCancels(r) ==
    /\ r.kind = "cancel"
    /\ Replies(r, "cancelled")
    /\ UNCHANGED base

\* The requests queued, as the control stream reports them.
Reported(s, n) == {inbox[s][k].req : k \in 1 .. n}

HostReports(r) ==
    /\ r.kind = "control"
    /\ \E n \in IF "lag" \in Faults THEN 0 .. Len(inbox[r.session])
                                   ELSE {Len(inbox[r.session])} :
          Reports(r, "reported", Reported(r.session, n))
    /\ UNCHANGED base

IsQueued(r) == \E k \in DOMAIN inbox[r.session] : inbox[r.session][k].req = r.req

HostRemoves(r) ==
    /\ r.kind = "remove"
    /\ \E k \in DOMAIN inbox[r.session] :
          /\ inbox[r.session][k].req = r.req
          /\ inbox' = [inbox EXCEPT ![r.session] = Without(@, k)]
    /\ Replies(r, "removed")
    /\ UNCHANGED <<created, taken>>

HostEdits(r) ==
    /\ r.kind = "edit"
    /\ IsQueued(r)
    /\ inbox' = [inbox EXCEPT ![r.session] = [k \in DOMAIN @ |->
           IF @[k].req = r.req THEN [@[k] EXCEPT !.text = r.text] ELSE @[k]]]
    /\ Replies(r, "edited")
    /\ UNCHANGED <<created, taken>>

HostRefuses(r) ==
    /\ \/ "refused" \in Faults
       \/ r.kind \in {"remove", "edit"} /\ ~ IsQueued(r)
    /\ Replies(r, "refused")
    /\ UNCHANGED base

Host(r) ==
    /\ \/ HostCreates(r) \/ HostAdmits(r) \/ HostDoesNotAcknowledge(r)
       \/ HostCancels(r) \/ HostReports(r) \/ HostRemoves(r)
       \/ HostEdits(r) \/ HostRefuses(r)
    /\ UNCHANGED <<record, call, nextId, ops>>

\* A turn takes the head of a session's queue.
TurnTakes(s) ==
    /\ inbox[s] # <<>>
    /\ taken' = taken \cup {Head(inbox[s])}
    /\ inbox' = [inbox EXCEPT ![s] = Tail(@)]
    /\ UNCHANGED <<record, call, nextId, ops, host, wire, created>>

-----------------------------------------------------------------------------
Handler(c) ==
    \/ SendCreated(c) \/ SendAnswered(c)
    \/ ResumeCreated(c) \/ ResumeAccepted(c) \/ ResumeUnacknowledged(c)
    \/ StopCancelled(c) \/ StopFolds(c) \/ StopRemoved(c)
    \/ QueueItemAnswered(c)
    \/ Rejected(c)

User(c) ==
    \/ SendWhilePaused(c) \/ SendBound(c) \/ SendUnbound(c)
    \/ ResumeBound(c) \/ ResumeUnbound(c)
    \/ Stop(c)
    \/ QueueItem(c, "edit") \/ QueueItem(c, "remove")

Next ==
    \/ \E c \in Calls : User(c) \/ Handler(c) \/ TimedOut(c)
    \/ \E k \in DOMAIN items : EditItem(k) \/ RemoveItem(k)
    \/ \E r \in host : Host(r)
    \/ \E s \in Sessions : TurnTakes(s)
    \/ Crash

Spec == Init /\ [][Next]_vars

\* The event loops of main, of the Host and of the base keep running; nothing makes
\* the user act, and nothing makes a call fail.
FairSpec ==
    /\ Spec
    /\ \A c \in Calls : WF_vars(Handler(c))
    /\ WF_vars(\E r \in host : Host(r))
    /\ \A s \in Sessions : WF_vars(TurnTakes(s))

-----------------------------------------------------------------------------
(* Properties.                                                               *)

Item == [id : 1 .. nextId - 1, text : 0 .. MaxEdits, req : 0 .. nextId - 1,
         state : {"pending", "dispatching", "submitted", "consumed"}]

Occurrence == [req : 1 .. nextId - 1, item : 0 .. nextId - 1, text : 0 .. QueueText]

\* The state stays within its types, and the list within its bound, MAX_ITEMS of
\* pending-inputs.
TypeOK ==
    /\ paused \in BOOLEAN
    /\ Len(items) <= MaxItems
    /\ \A k \in DOMAIN items : items[k] \in Item
    /\ binding \in created \cup {None}
    /\ created \subseteq Sessions
    /\ \A c \in Calls : call[c].item \in 0 .. nextId - 1
    /\ \A s \in Sessions : \A k \in DOMAIN inbox[s] : inbox[s][k] \in Occurrence
    /\ taken \subseteq Occurrence

Prompts(id) == {r \in host : r.kind = "prompt" /\ r.item = id}

Queued(id) ==
    {sk \in Sessions \X (1 .. nextId) :
        sk[2] \in DOMAIN inbox[sk[1]] /\ inbox[sk[1]][sk[2]].item = id}

Taken(id) == {o \in taken : o.item = id}

Copies(id) ==
    Cardinality(Prompts(id)) + Cardinality(Queued(id)) + Cardinality(Taken(id))

\* A kept input runs at most once: at most one copy of it is on its way to the
\* base, queued there or taken by a turn, and while it is pending, there is none,
\* whatever stops, resumes, lost answers and crashes come together.
InputRunsAtMostOnce ==
    \A id \in 1 .. nextId - 1 :
        /\ Copies(id) <= 1
        /\ (\E k \in DOMAIN items : items[k].id = id /\ items[k].state = "pending")
              => Copies(id) = 0

\* What runs is what the user last saw: the text of a copy of a kept input is the
\* text on record, whichever way edits and dispatches interleave.
FrozenTextIsRecorded ==
    \A k \in DOMAIN items :
        /\ \A r \in Prompts(items[k].id) : r.text = items[k].text
        /\ \A sk \in Queued(items[k].id) : inbox[sk[1]][sk[2]].text = items[k].text
        /\ \A o \in Taken(items[k].id) : o.text = items[k].text

\* What carries the text of an input to the base, is queued there, or was taken.
Carried ==
    taken \cup {r \in host : r.kind = "prompt"}
          \cup UNION {{inbox[s][k] : k \in DOMAIN inbox[s]} : s \in Sessions}

\* The inputs that the list or something carried still holds.
Alive == ({items[k].id : k \in DOMAIN items} \cup {o.item : o \in Carried}) \ {0}

\* What became of one: it ran, it is pending, or it was handed over, as the list has
\* it if the list still has it.
Life(id) ==
    LET listed == {items[k] : k \in {j \in DOMAIN items : items[j].id = id}}
        texts(os) == {o.text : o \in os}
    IN  [runs |-> Cardinality(Taken(id)),
         text |-> IF Taken(id) # {} THEN texts(Taken(id))
                  ELSE IF listed # {} THEN texts(listed)
                  ELSE texts({o \in Carried : o.item = id}),
         at |-> IF Taken(id) # {} THEN "ran"
                ELSE IF \E i \in listed : i.state = "pending" THEN "kept"
                ELSE "sent"]

LifeOfEach == [id \in Alive |-> Life(id)]

Lives == INSTANCE KeptInputs WITH next <- nextId, life <- LifeOfEach

\* Each input lives as KeptInputs says, unless the queue panel edits an occurrence:
\* it runs once and as the user last saw it, and what was withdrawn, evicted from the
\* list or removed from the queue, and is nowhere any more, never runs, whatever the
\* order of stops, resumes, lost answers and crashes.
ImplementsKeptInputs == Lives!Spec

\* An input is recorded as consumed only if a turn took it.
ConsumedWasTaken ==
    \A k \in DOMAIN items :
        items[k].state = "consumed" => Taken(items[k].id) # {}

\* A turn took an input that the user wrote between these two.
TakenBetween(x, y) == \E o \in taken : x < o.item /\ o.item < y

\* With one call at a time, the inputs queued in one session stand there in the
\* order of the list, but for one case: a turn takes an input while a stop withdraws
\* its neighbours.  The withdrawal of that input is refused, the stop ends there, and
\* what it withdrew is sent again behind what it left queued.
InboxFollowsList ==
    \A s \in Sessions : \A i, j \in DOMAIN items : \A p, q \in DOMAIN inbox[s] :
        /\ i < j
        /\ inbox[s][p].item = items[i].id
        /\ inbox[s][q].item = items[j].id
        => p < q \/ TakenBetween(items[i].id, items[j].id)

\* With one call at a time, a running matter does not keep an input pending for
\* ever: it is sent, withdrawn, or the matter is stopped.
NothingPending == InState(items, "pending") = {}

UnpausedListDrains == ~ paused ~> (paused \/ NothingPending)
=============================================================================
