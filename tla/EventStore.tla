----------------------------- MODULE EventStore -----------------------------
(***************************************************************************)
(* The authority store of the matters: three tables of one SQLite file, to  *)
(* which several processes append batches of events, and from which they    *)
(* load streams.                                                            *)
(*                                                                          *)
(* A connection runs one call at a time.  An append is one transaction,     *)
(* begun IMMEDIATE: it holds the write lock from Begin to its end, so the   *)
(* tables it looks at are the ones it commits to.  A load is no transaction:*)
(* each of its statements sees the tables as they are then.  What the       *)
(* transaction has written shows in the tables at its commit, all of it or  *)
(* nothing, whatever ends it.                                               *)
(*                                                                          *)
(* The digest chain, the codec and the replay by the domain kernel decide   *)
(* only whether a batch is refused; any batch may be.                       *)
(***************************************************************************)
EXTENDS Naturals, Sequences, FiniteSets

CONSTANTS
    Connections,      \* handles, each of a process of its own
    Readers,          \* those of them that load
    Matters, AppendIds, EventIds,
    Prints,           \* what else a request fingerprint covers: times, payloads
    MaxStreamEvents,  \* limit of the code
    MaxBatch,         \* bound: events of one request
    MaxUncertain,     \* bound: requests whose outcome is in doubt
    Faults,           \* which of "io", "unknown", "boundary", "crash" occur
    None

ASSUME MaxStreamEventsIsNat == MaxStreamEvents \in Nat
ASSUME MaxBatchIsNat == MaxBatch \in Nat
ASSUME NoneIsNoValue == None \notin EventIds \cup Connections
ASSUME ReadersAreConnections == Readers \subseteq Connections

VARIABLES
    heads,      \* business_matter_streams: the current version, 0 if no row
    rows,       \* business_matter_events: the event at a version
    appends,    \* business_matter_appends: the range of an append id
    lock,       \* the connection whose transaction holds the write lock
    open,       \* the connections that are open
    call,       \* what each connection is doing
    confirmed,  \* ranges that callers were told, by `appended` or `replayed`
    uncertain   \* requests that may have been committed without a caller told

tables == <<heads, rows, appends>>
vars   == <<heads, rows, appends, lock, open, call, confirmed, uncertain>>

Versions == 1 .. MaxStreamEvents

\* expected = 0 is `not-exists`.  The events of a batch are distinct, and the
\* batch is not empty: the preflight of the store refuses any other.
Batches == {es \in UNION {[1 .. n -> EventIds] : n \in 1 .. MaxBatch} :
               \A i, j \in DOMAIN es : es[i] = es[j] => i = j}
Request == [matter : Matters, append : AppendIds, expected : 0 .. MaxStreamEvents,
            events : Batches, print : Prints]

Fingerprint(q) == <<q.expected, q.events, q.print>>

ASSUME NoneIsNoFingerprint == \A q \in Request : Fingerprint(q) # None

Absent == [fingerprint |-> None, first |-> 0, last |-> 0]

NoRequest == [matter |-> None]

Appending(q)        == [at |-> "begun", request |-> q, matter |-> None, head |-> 0]
Loading(at, m, seen) == [at |-> at, request |-> NoRequest, matter |-> m, head |-> seen]
Idle                == Loading("idle", None, 0)

Init ==
    /\ heads = [m \in Matters |-> 0]
    /\ rows = [m \in Matters |-> [v \in Versions |-> None]]
    /\ appends = [m \in Matters |-> [a \in AppendIds |-> Absent]]
    /\ lock = None
    /\ open = Connections
    /\ call = [c \in Connections |-> Idle]
    /\ confirmed = {}
    /\ uncertain = {}

-----------------------------------------------------------------------------
Stored(q) == appends[q.matter][q.append]

First(q) == heads[q.matter] + 1
Last(q)  == heads[q.matter] + Len(q.events)

InTransaction(c) == call[c].at \in {"begun", "written"}

\* The transaction of c ends and its handle stays open.
Ends(c) ==
    /\ call' = [call EXCEPT ![c] = Idle]
    /\ lock' = None
    /\ UNCHANGED open

\* quarantineAfterUnknownOutcome: the handle is closed for good.
Quarantined(c) ==
    /\ call' = [call EXCEPT ![c] = Idle]
    /\ lock' = None
    /\ open' = open \ {c}

\* The answer stands even if the ROLLBACK before it fails, which costs the handle.
Answers(c) == Ends(c) \/ ("io" \in Faults /\ Quarantined(c))

\* The caller is told a range, and takes it for that of its own request.
Told(q, range) ==
    [matter |-> q.matter, append |-> q.append,
     entry |-> [range EXCEPT !.fingerprint = Fingerprint(q)]]

Doubted(q) == <<q.matter, q.append, Fingerprint(q)>>

\* Whoever sent the request cannot tell whether it was committed.
Doubt(q) ==
    /\ uncertain' = uncertain \cup {Doubted(q)}
    /\ Cardinality(uncertain') <= MaxUncertain

Entry(q) == [fingerprint |-> Fingerprint(q), first |-> First(q), last |-> Last(q)]

Commits(q) ==
    /\ heads' = [heads EXCEPT ![q.matter] = Last(q)]
    /\ rows' = [rows EXCEPT ![q.matter] = [v \in Versions |->
           IF v \in First(q) .. Last(q) THEN q.events[v - heads[q.matter]] ELSE @[v]]]
    /\ appends' = [appends EXCEPT ![q.matter][q.append] = Entry(q)]

-----------------------------------------------------------------------------
(* append                                                                    *)

\* BEGIN IMMEDIATE; while another transaction runs it fails and is answered busy.
Begin(c, q) ==
    /\ c \in open
    /\ call[c].at = "idle"
    /\ lock = None
    /\ lock' = c
    /\ call' = [call EXCEPT ![c] = Appending(q)]
    /\ UNCHANGED <<tables, open, confirmed, uncertain>>

IsNewAppend_Bug(q) == TRUE                         \* the ledger is not asked

IsNewAppend(q) == Stored(q) = Absent

IsReplay_Bug(q) == ~ IsNewAppend(q)                \* the fingerprint is not compared

IsReplay(q) == ~ IsNewAppend(q) /\ Stored(q).fingerprint = Fingerprint(q)

\* The append id was committed with this very request: its range is told again,
\* however far the stream has moved since.
Replay(c) ==
    /\ call[c].at = "begun"
    /\ LET q == call[c].request IN
       /\ IsReplay(q)
       /\ confirmed' = confirmed \cup {Told(q, Stored(q))}
    /\ Answers(c)
    /\ UNCHANGED <<tables, uncertain>>

VersionIsExpected_Bug(q) == heads[q.matter] >= q.expected    \* a stale writer passes

VersionIsExpected(q) == heads[q.matter] = q.expected

HasRoom_Bug(q) == heads[q.matter] < MaxStreamEvents \* the length of the batch forgotten

HasRoom(q) == Last(q) <= MaxStreamEvents

\* In this stream; another matter may use the same event ids.
EventsAreNew(q) ==
    \A v \in Versions, i \in DOMAIN q.events : rows[q.matter][v] # q.events[i]

Write(c) ==
    /\ call[c].at = "begun"
    /\ LET q == call[c].request IN
       /\ IsNewAppend(q)
       /\ VersionIsExpected(q)
       /\ HasRoom(q)
       /\ EventsAreNew(q)
    /\ call' = [call EXCEPT ![c].at = "written"]
    /\ UNCHANGED <<tables, lock, open, confirmed, uncertain>>

\* A definite refusal, after a rollback: an idempotency or version conflict, a
\* duplicate event id, too many events, a batch the kernel does not replay; or, if
\* there are faults, a statement that failed.
Refuse(c) ==
    /\ \/ /\ call[c].at = "begun"
          /\ ~ IsReplay(call[c].request)
       \/ /\ "io" \in Faults
          /\ InTransaction(c)
    /\ Answers(c)
    /\ UNCHANGED <<tables, confirmed, uncertain>>

Commit(c) ==
    /\ call[c].at = "written"
    /\ Commits(call[c].request)
    /\ confirmed' = confirmed \cup {Told(call[c].request, Entry(call[c].request))}
    /\ Ends(c)
    /\ UNCHANGED uncertain

\* COMMIT failed and the connection is in no transaction any more: it is answered
\* commit-unknown, and the commit may have happened.
CommitUnknown_Bug(c) ==
    /\ "unknown" \in Faults
    /\ call[c].at = "written"
    /\ Commits(call[c].request) \/ UNCHANGED tables
    /\ Ends(c)                                     \* answered io-unavailable
    /\ UNCHANGED <<confirmed, uncertain>>

CommitUnknown(c) ==
    /\ "unknown" \in Faults
    /\ call[c].at = "written"
    /\ Commits(call[c].request) \/ UNCHANGED tables
    /\ Doubt(call[c].request)
    /\ Quarantined(c)
    /\ UNCHANGED confirmed

\* A statement failed, and so did the ROLLBACK after it: commit-unknown, although
\* closing the handle undoes it all.
RollbackFails(c) ==
    /\ "io" \in Faults
    /\ InTransaction(c)
    /\ Doubt(call[c].request)
    /\ Quarantined(c)
    /\ UNCHANGED <<tables, confirmed>>

\* assertStorageBoundary finds the file replaced: after the commit commit-unknown, if
\* there was none an exception.
BoundaryLost(c) ==
    /\ "boundary" \in Faults
    /\ InTransaction(c)
    /\ \/ UNCHANGED <<tables, uncertain>>
       \/ /\ call[c].at = "written"
          /\ Commits(call[c].request)
          /\ Doubt(call[c].request)
    /\ Quarantined(c)
    /\ UNCHANGED confirmed

-----------------------------------------------------------------------------
(* load: the head of the stream is read, then its events.                    *)

LoadHead(c, m) ==
    /\ c \in open \cap Readers
    /\ call[c].at = "idle"
    /\ call' = [call EXCEPT ![c] = Loading("reading", m, heads[m])]
    /\ UNCHANGED <<tables, lock, open, confirmed, uncertain>>

EventVersions(m) == {v \in Versions : rows[m][v] # None}

\* Count, first and last version of the events against the head read before.
LoadEvents(c) ==
    /\ call[c].at = "reading"
    /\ LET m == call[c].matter IN
       \/ /\ EventVersions(m) = 1 .. call[c].head
          /\ call' = [call EXCEPT ![c] = Idle]
       \/ /\ EventVersions(m) # 1 .. call[c].head
          /\ call' = [call EXCEPT ![c] = Loading("corrupt", m, call[c].head)]
    /\ UNCHANGED <<tables, lock, open, confirmed, uncertain>>

\* The caller has dealt with a load that was answered corrupt.
Dismiss(c) ==
    /\ call[c].at = "corrupt"
    /\ call' = [call EXCEPT ![c] = Idle]
    /\ UNCHANGED <<tables, lock, open, confirmed, uncertain>>

-----------------------------------------------------------------------------
\* The process ends; a transaction under way is rolled back, unless its COMMIT had
\* already happened.
Crash(c) ==
    /\ "crash" \in Faults
    /\ call[c].at # "idle"
    /\ \/ UNCHANGED <<tables, uncertain>>
       \/ /\ call[c].at = "written"
          /\ Commits(call[c].request)
          /\ Doubt(call[c].request)
    /\ call' = [call EXCEPT ![c] = Idle]
    /\ lock' = IF lock = c THEN None ELSE lock
    /\ open' = open \ {c}
    /\ UNCHANGED confirmed

\* close, and openBusinessMatterEventStore by whoever wants the store again.
Close(c) ==
    /\ c \in open
    /\ call[c].at = "idle"
    /\ open' = open \ {c}
    /\ UNCHANGED <<tables, lock, call, confirmed, uncertain>>

Open(c) ==
    /\ c \notin open
    /\ open' = open \cup {c}
    /\ UNCHANGED <<tables, lock, call, confirmed, uncertain>>

-----------------------------------------------------------------------------
Transaction(c) ==
    \/ Replay(c) \/ Write(c) \/ Refuse(c) \/ Commit(c)
    \/ CommitUnknown(c) \/ RollbackFails(c) \/ BoundaryLost(c)

Next == \E c \in Connections :
    \/ \E q \in Request : Begin(c, q)
    \/ Transaction(c)
    \/ \E m \in Matters : LoadHead(c, m)
    \/ LoadEvents(c) \/ Dismiss(c)
    \/ Crash(c) \/ Close(c) \/ Open(c)

Spec == Init /\ [][Next]_vars

-----------------------------------------------------------------------------
LedgerEntry == [fingerprint : {None} \cup {Fingerprint(q) : q \in Request},
                first : 0 .. MaxStreamEvents, last : 0 .. MaxStreamEvents]
Answer == [matter : Matters, append : AppendIds, entry : LedgerEntry]
Call == [at : {"idle", "begun", "written", "reading", "corrupt"},
         request : Request \cup {NoRequest},
         matter : Matters \cup {None}, head : 0 .. MaxStreamEvents]

\* A transaction holds the lock, alone, and its request and handle are there.
TypeOK ==
    /\ heads \in [Matters -> 0 .. MaxStreamEvents]
    /\ rows \in [Matters -> [Versions -> EventIds \cup {None}]]
    /\ appends \in [Matters -> [AppendIds -> LedgerEntry]]
    /\ lock \in Connections \cup {None}
    /\ open \subseteq Connections
    /\ call \in [Connections -> Call]
    /\ \A c \in Connections :
          /\ InTransaction(c) <=> lock = c
          /\ InTransaction(c) => c \in open /\ call[c].request \in Request
    /\ confirmed \subseteq Answer

Entries(m) == {a \in AppendIds : appends[m][a] # Absent}
Covers(m, a) == appends[m][a].first .. appends[m][a].last

\* The ledger and the stream tell the same story.  The events of a stream stand at
\* the versions 1 to its head, each belongs to exactly one entry of the ledger, and
\* an entry covers exactly the events of its request, at the versions it expected:
\* a request retried after any mixture of lost answers and crashes is in the stream
\* once or not at all, and never in part.
LedgerTilesStream ==
    \A m \in Matters :
        /\ EventVersions(m) = 1 .. heads[m]
        /\ \A v \in 1 .. heads[m] : \E a \in Entries(m) : v \in Covers(m, a)
        /\ \A a \in Entries(m) :
              LET e == appends[m][a] IN
              /\ e.first = e.fingerprint[1] + 1
              /\ e.last = e.fingerprint[1] + Len(e.fingerprint[2])
              /\ e.last <= heads[m]
              /\ \A v \in Covers(m, a) :
                    rows[m][v] = e.fingerprint[2][v - e.fingerprint[1]]
              /\ \A b \in Entries(m) \ {a} : Covers(m, a) \cap Covers(m, b) = {}

\* What a caller was told holds: the range still belongs to its append id.  And of
\* the writers that expected the same version of a stream only one is told so: no
\* update is lost.
AnswerHolds ==
    /\ \A t \in confirmed :
          /\ t.entry # Absent
          /\ appends[t.matter][t.append] = t.entry
    /\ \A t, u \in confirmed :
          t.matter = u.matter /\ t.entry.fingerprint[1] = u.entry.fingerprint[1] => t = u

\* A refusal is definite: what is in the ledger was told to its caller, or its caller
\* knows that it may be, because it was told commit-unknown or its process ended.
RefusalIsDefinite ==
    \A m \in Matters : \A a \in Entries(m) :
        LET f == appends[m][a].fingerprint IN
        \/ <<m, a, f>> \in uncertain
        \/ \E t \in confirmed : t.matter = m /\ t.append = a /\ t.entry.fingerprint = f

\* What callers were told and what the ledger says agree, both ways.
AnswersMatchLedger == AnswerHolds /\ RefusalIsDefinite

\* An event id names one event of its matter.
EventIdsAreUnique ==
    \A m \in Matters : \A v, w \in 1 .. heads[m] : rows[m][v] = rows[m][w] => v = w

\* Nothing committed is ever rewritten, by a retry, a conflict, a fault or a crash.
NothingIsRewritten ==
    [][\A m \in Matters :
          /\ heads[m] <= heads'[m]
          /\ \A v \in 1 .. heads[m] : rows'[m][v] = rows[m][v]
          /\ \A a \in Entries(m) : appends'[m][a] = appends[m][a]]_vars

\* The store is the log that IdempotentLog describes, hiding all else.
Log == INSTANCE IdempotentLog WITH
           log <- [m \in Matters |-> [v \in 1 .. heads[m] |-> rows[m][v]]],
           applied <- [m \in Matters |-> Entries(m)],
           told <- {<<t.matter, t.append>> : t \in confirmed}

ImplementsLog == Log!Spec
=============================================================================
