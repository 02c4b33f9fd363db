------------------------------ MODULE Approvals ------------------------------
(***************************************************************************)
(* What the user is told of a tool that waits for approval.  Three parties: *)
(* the relay in the Host, which holds the waits of the base and resolves    *)
(* each of them once; the store of the main process, whose reads and         *)
(* submissions await the bridge; and, as the environment, the base, which    *)
(* raises a wait, may abort it, and logs its decision some time after.       *)
(*                                                                          *)
(* A segment of a handler, from one await to the next, is one action.  The  *)
(* three endpoints of the relay do not await: the Host acts on their calls   *)
(* in the order sent, and the answers come back in that order.  A call that  *)
(* times out is forgotten by its caller only; the Host acts on it later.     *)
(***************************************************************************)
EXTENDS Naturals, Sequences, FiniteSets

CONSTANTS
    Waits,         \* the requests for approval of one session
    Calls,         \* handlers of the store that may be under way together
    MaxCards,      \* bounds of the code (MAX_CARDS, MAX_LAPSED, MAX_RECEIPTS)
    MaxLapsed,
    MaxReceipts,
    MaxStates,     \* bound: times the matter's state is made
    MaxSends,      \* bound: bridge calls in a behaviour
    None

ASSUME NoneIsNoWait == None \notin Waits \cup Calls
ASSUME BoundsAreNat ==
    {MaxCards, MaxLapsed, MaxReceipts, MaxStates, MaxSends} \subseteq Nat \ {0}

VARIABLES
    entries,    \* the relay: waits it holds, in the order they were claimed
    outcome,    \* wait -> what its promise resolved to
    decided,    \* wait -> what the log of the session says of it
    store,      \* the states the store has made for the matter, oldest first
    paused,     \* whether the matter is stopped
    call,       \* handler -> where it stands
    wire,       \* calls sent and not acted on
    replies,    \* answers not delivered
    sends       \* bridge calls sent

vars == <<entries, outcome, decided, store, paused, call, wire, replies, sends>>
host == <<entries, outcome, decided>>

Decisions == {"allowed-once", "rejected"}
Words     == Decisions \cup {"withdrawn"}
Outcomes  == Decisions \cup {"cancelled"}

InSeq(s) == {s[n] : n \in DOMAIN s}
Without(s, w) ==
    LET k == CHOOSE n \in DOMAIN s : s[n] = w
    IN  [n \in 1 .. Len(s) - 1 |-> IF n < k THEN s[n] ELSE s[n + 1]]
FirstOf(s, n) == SubSeq(s, 1, IF Len(s) < n THEN Len(s) ELSE n)
LastOf(s, n)  == SubSeq(s, IF Len(s) < n THEN 1 ELSE Len(s) - n + 1, Len(s))

Receipted(st) == {r.wait : r \in InSeq(st.receipts)}

Idle == [at |-> "idle", wait |-> None, word |-> "none", st |-> 1, cards |-> {},
         paused |-> FALSE]
NewState == [receipts |-> <<>>, lapsed |-> <<>>, pending |-> <<>>]

Current == Len(store)

Init ==
    /\ entries = <<>>
    /\ outcome = [w \in Waits |-> "none"]
    /\ decided = [w \in Waits |-> "none"]
    /\ store = <<NewState>>
    /\ paused = FALSE
    /\ call = [c \in Calls |-> Idle]
    /\ wire = <<>> /\ replies = <<>> /\ sends = 0

-----------------------------------------------------------------------------
(* The Host: the relay, the base around it, and the bridge in front.         *)

\* claim: a wait of this session is raised, unless its signal has been aborted.
Claim(w) ==
    /\ outcome[w] = "none" /\ w \notin InSeq(entries)
    /\ \/ /\ entries' = Append(entries, w)
          /\ UNCHANGED outcome
       \/ /\ outcome' = [outcome EXCEPT ![w] = "cancelled"]
          /\ UNCHANGED entries
    /\ UNCHANGED <<decided, store, paused, call, wire, replies, sends>>

\* A wait leaves the registry as its promise resolves.
Resolve(w, o) ==
    /\ entries' = Without(entries, w)
    /\ outcome' = [outcome EXCEPT ![w] = o]

\* The asker aborts its own signal.
Abort(w) ==
    /\ w \in InSeq(entries)
    /\ Resolve(w, "cancelled")
    /\ UNCHANGED <<decided, store, paused, call, wire, replies, sends>>

\* The base writes its decision to the log of the session.
Decide(w) ==
    /\ outcome[w] \in Outcomes /\ decided[w] = "none"
    /\ decided' = [decided EXCEPT ![w] = outcome[w]]
    /\ UNCHANGED <<entries, outcome, store, paused, call, wire, replies, sends>>

\* What a decision or a withdrawal resolves its wait to.
OutcomeOf_Bug(word) == IF word = "rejected" THEN "rejected" ELSE "allowed-once"

OutcomeOf(word) == IF word = "withdrawn" THEN "cancelled" ELSE word

\* The Host acts on the oldest call: it lists what it holds, or resolves the wait
\* if it still holds it.
Serve ==
    /\ wire # <<>>
    /\ LET q    == Head(wire)
           held == q.wait \in InSeq(entries)
       IN  /\ wire' = Tail(wire)
           /\ replies' = Append(replies,
                  [by |-> q.by, ok |-> q.word = "none" \/ held,
                   cards |-> IF q.word = "none" THEN entries ELSE <<>>])
           /\ IF q.word # "none" /\ held THEN Resolve(q.wait, OutcomeOf(q.word))
                                         ELSE UNCHANGED <<entries, outcome>>
    /\ UNCHANGED <<decided, store, paused, call, sends>>

\* The Host ends: its waits are lost, nothing more is logged of them, and what
\* was under way on the bridge is gone; `Rejected` tells the callers.
HostEnds ==
    /\ entries # <<>> \/ \E w \in Waits : outcome[w] \in Outcomes /\ decided[w] = "none"
    /\ entries' = <<>>
    /\ outcome' = [w \in Waits |->
          IF decided[w] = "none" /\ (outcome[w] # "none" \/ w \in InSeq(entries))
          THEN "lost" ELSE outcome[w]]
    /\ wire' = <<>> /\ replies' = <<>>
    /\ UNCHANGED <<decided, store, paused, call, sends>>

-----------------------------------------------------------------------------
(* The store of the main process.                                            *)

Goes(c, to) == call' = [call EXCEPT ![c] = to]

\* bridgeCall: the request leaves; the answer, if any, comes later.
Send(c, at, w, word) ==
    /\ call[c] = Idle /\ sends < MaxSends
    /\ sends' = sends + 1
    /\ wire' = Append(wire, [by |-> c, wait |-> w, word |-> word])
    /\ Goes(c, [Idle EXCEPT !.at = at, !.wait = w, !.word = word, !.st = Current])

\* read: ask the Host for the waits it holds.
Read(c) ==
    /\ Send(c, "list", None, "none")
    /\ UNCHANGED <<host, store, paused, replies>>

\* answer, withdraw: one submission per wait, while the matter is not stopped, and
\* of a wait the last read has shown (the relay holds no wait that could not be
\* withdrawn).
MaySubmit(w) ==
    /\ w \notin Receipted(store[Current])
    /\ ~ paused
    /\ w \in InSeq(store[Current].pending)

Submit(c, w, word) ==
    /\ MaySubmit(w)
    /\ Send(c, "submit", w, word)
    /\ UNCHANGED <<host, store, paused, replies>>

\* The newest MaxReceipts receipts are kept.
Recorded_Bug(st, w, word, state) ==
    IF state = "unknown" THEN st
    ELSE [st EXCEPT !.receipts =
             LastOf(Append(@, [wait |-> w, word |-> word, state |-> state]), MaxReceipts)]

Recorded(st, w, word, state) ==
    [st EXCEPT !.receipts =
        LastOf(Append(@, [wait |-> w, word |-> word, state |-> state]), MaxReceipts)]

\* The waits a listing shows: the oldest MaxCards of them.
Cards_Bug(listed) == LastOf(listed, MaxCards)

Cards(listed) == FirstOf(listed, MaxCards)

\* A card that has left the list without an answer of the user's is gone.
IsGone(st, cards, w) ==
    w \in InSeq(st.pending) /\ w \notin InSeq(cards) \cup InSeq(st.lapsed) \cup Receipted(st)

\* The cards that are gone, in the order they were shown: the one such sequence.
GoneCards(st, cards) ==
    LET P == {n \in DOMAIN st.pending : IsGone(st, cards, st.pending[n])}
    IN  {[k \in DOMAIN g |-> st.pending[g[k]]] :
            g \in {g \in [1 .. Cardinality(P) -> P] :
                      \A i, j \in DOMAIN g : i < j => g[i] < g[j]}}

\* read, after the list: what is gone is lapsed; the newest MaxLapsed are kept.
Listed_Bug(st, cards, gone) == [st EXCEPT !.lapsed = @ \o gone, !.pending = cards]

Listed(st, cards, gone) ==
    [st EXCEPT !.lapsed = LastOf(@ \o gone, MaxLapsed), !.pending = cards]

Unsettled(r, cards) == r.state \in {"accepted", "unknown"} /\ r.wait \notin cards

NeedsEvidence(st, cards) == \E r \in InSeq(st.receipts) : Unsettled(r, cards)

\* read, after the page of the log: what it says of a receipt settles it; without
\* a word of it, only the stop of the matter does.
Settled_Bug(r, cards, seen, stopped) ==
    IF ~ Unsettled(r, cards) THEN r
    ELSE IF r.wait \in seen THEN [r EXCEPT !.state = "effective"]
    ELSE IF stopped THEN [r EXCEPT !.state = "lapsed"] ELSE r

Settled(r, cards, seen, stopped) ==
    IF ~ Unsettled(r, cards) THEN r
    ELSE IF r.wait \in seen /\ decided[r.wait] \in Decisions
         THEN [r EXCEPT !.state = "effective", !.word = decided[r.wait]]
    ELSE IF r.wait \in seen \/ stopped THEN [r EXCEPT !.state = "lapsed"] ELSE r

Answered(c) == replies # <<>> /\ Head(replies).by = c

\* The list arrives; the read ends, or goes on to ask for the log.
ReadListed(c) ==
    /\ call[c].at = "list" /\ Answered(c)
    /\ LET st    == store[call[c].st]
           cards == Cards(Head(replies).cards)
       IN  /\ \E gone \in GoneCards(st, cards) :
                 store' = [store EXCEPT ![call[c].st] = Listed(st, cards, gone)]
           /\ IF NeedsEvidence(st, InSeq(cards))
              THEN Goes(c, [call[c] EXCEPT !.at = "page", !.cards = InSeq(cards),
                                           !.paused = paused])
              ELSE Goes(c, Idle)
    /\ replies' = Tail(replies)
    /\ UNCHANGED <<host, paused, wire, sends>>

\* The page arrives: it holds some of the decisions logged so far, none if the
\* call failed.  The receipts are those of now.
ReadPaged(c) ==
    /\ call[c].at = "page"
    /\ \E seen \in SUBSET {w \in Waits : decided[w] # "none"} :
          store' = [store EXCEPT ![call[c].st].receipts =
             [n \in DOMAIN @ |-> Settled(@[n], call[c].cards, seen, call[c].paused)]]
    /\ Goes(c, Idle)
    /\ UNCHANGED <<host, paused, wire, replies, sends>>

Records(c, state) ==
    store' = [store EXCEPT ![call[c].st] = Recorded(@, call[c].wait, call[c].word, state)]

\* The Host's answer to a submission.
Submitted(c) ==
    /\ call[c].at = "submit" /\ Answered(c)
    /\ Records(c, IF Head(replies).ok THEN "accepted" ELSE "unknown")
    /\ Goes(c, Idle)
    /\ replies' = Tail(replies)
    /\ UNCHANGED <<host, paused, wire, sends>>

Disowned(q, c) == [n \in DOMAIN q |-> IF q[n].by = c THEN [q[n] EXCEPT !.by = None] ELSE q[n]]

\* The call times out, or the Host is gone: a read changes nothing, a submission
\* is recorded as unknown.
Rejected(c) ==
    /\ \/ call[c].at = "list" /\ UNCHANGED store
       \/ call[c].at = "submit" /\ Records(c, "unknown")
    /\ wire' = Disowned(wire, c) /\ replies' = Disowned(replies, c)
    /\ Goes(c, Idle)
    /\ UNCHANGED <<host, paused, sends>>

\* handleMessage: the answer to a call nobody waits for is dropped.
Dropped ==
    /\ Answered(None)
    /\ replies' = Tail(replies)
    /\ UNCHANGED <<host, store, paused, call, wire, sends>>

\* stop and resume of the matter.
Pause ==
    /\ paused' = ~ paused
    /\ UNCHANGED <<host, store, call, wire, replies, sends>>

\* stateOf: eight other matters push this one out, and its next use makes a new
\* state; the handlers under way keep the old one.
Evicted ==
    /\ Len(store) < MaxStates
    /\ store' = Append(store, NewState)
    /\ UNCHANGED <<host, paused, call, wire, replies, sends>>

BaseNext == \E w \in Waits : Claim(w) \/ Abort(w) \/ Decide(w)

Handler(c) ==
    \/ Read(c) \/ ReadListed(c) \/ ReadPaged(c) \/ Submitted(c) \/ Rejected(c)
    \/ \E w \in Waits, word \in Words : Submit(c, w, word)

Next ==
    \/ BaseNext \/ Serve \/ HostEnds \/ Dropped \/ Pause \/ Evicted
    \/ \E c \in Calls : Handler(c)

Spec == Init /\ [][Next]_vars

-----------------------------------------------------------------------------
(* Properties.                                                               *)

Receipts == UNION {InSeq(store[n].receipts) : n \in DOMAIN store}

TypeOK ==
    /\ entries \in Seq(Waits)
    /\ outcome \in [Waits -> Outcomes \cup {"none", "lost"}]
    /\ decided \in [Waits -> Outcomes \cup {"none"}]
    /\ store \in Seq([receipts : Seq([wait : Waits, word : Words,
                                      state : {"accepted", "unknown", "effective", "lapsed"}]),
                      lapsed : Seq(Waits), pending : Seq(Waits)])
    /\ paused \in BOOLEAN
    /\ call \in [Calls -> [at : {"idle", "list", "page", "submit"}, wait : Waits \cup {None},
                           word : Words \cup {"none"}, st : DOMAIN store,
                           cards : SUBSET Waits, paused : BOOLEAN]]
    /\ wire \in Seq([by : Calls \cup {None}, wait : Waits \cup {None},
                     word : Words \cup {"none"}])
    /\ replies \in Seq([by : Calls \cup {None}, ok : BOOLEAN, cards : Seq(Waits)])
    /\ sends \in 0 .. MaxSends
    /\ \A n \in DOMAIN store :
          /\ Len(store[n].receipts) <= MaxReceipts
          /\ Len(store[n].lapsed) <= MaxLapsed
          /\ Len(store[n].pending) <= MaxCards

\* A receipt never says more than happened: what it calls accepted is what the
\* relay resolved the wait to, unless the Host was lost before it was logged, and
\* what it calls effective is what the log of the session says.
ReceiptsAreTrue ==
    \A r \in Receipts :
        /\ r.state = "accepted" => outcome[r.wait] \in {OutcomeOf(r.word), "lost"}
        /\ r.state = "effective" => r.word \in Decisions /\ decided[r.wait] = r.word

\* An approval is never lost sight of: a wait that was granted got a receipt, or a
\* handler still awaits its answer, whichever answers were lost, late or doubled.
\* The receipt may be in a state that the store has dropped since, where nobody can
\* read it, and once any list is full, of which only the last are kept, nothing is said.
GrantLeavesReceipt ==
    \A w \in Waits : outcome[w] = "allowed-once" =>
        \/ \E n \in DOMAIN store : \/ w \in Receipted(store[n])
                                   \/ Len(store[n].receipts) = MaxReceipts
        \/ \E c \in Calls : call[c].at = "submit" /\ call[c].wait = w

\* A wait told as lapsed is over: the Host does not hold it any more, however old the
\* listing from which that was read, and in whatever order two reads ended.
LapsedIsOver ==
    \A n \in DOMAIN store : InSeq(store[n].lapsed) \cap InSeq(entries) = {}
=============================================================================
