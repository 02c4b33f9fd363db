-------------------------- MODULE EventStoreProofs --------------------------
(***************************************************************************)
(* The safety of the event store for every number of connections, matters,  *)
(* requests and versions, and for every mixture of faults.                  *)
(***************************************************************************)
EXTENDS EventStore, TLAPS

Fits(q) == IsNewAppend(q) /\ VersionIsExpected(q) /\ HasRoom(q) /\ EventsAreNew(q)

\* What a transaction has checked still holds when it commits: it has the lock.
WrittenFits ==
    \A c \in Connections : call[c].at = "written" => Fits(call[c].request)

\* An entry of the ledger is of a request, and covers something.
EntriesAreReal ==
    \A m \in Matters : \A a \in Entries(m) :
        /\ appends[m][a].fingerprint # None
        /\ appends[m][a].first <= appends[m][a].last

LEMMA RequestFacts ==
    ASSUME NEW q \in Request
    PROVE  /\ q.matter \in Matters
           /\ q.append \in AppendIds
           /\ q.expected \in 0 .. MaxStreamEvents
           /\ q.events \in Batches
           /\ q.events \in Seq(EventIds)
           /\ Len(q.events) \in Nat \ {0}
           /\ DOMAIN q.events = 1 .. Len(q.events)
           /\ \A i \in 1 .. Len(q.events) : q.events[i] \in EventIds
           /\ \A i, j \in 1 .. Len(q.events) : q.events[i] = q.events[j] => i = j
  <1>1. /\ q.matter \in Matters
        /\ q.append \in AppendIds
        /\ q.expected \in 0 .. MaxStreamEvents
        /\ q.events \in Batches
    BY DEF Request
  <1>2. PICK n \in 1 .. MaxBatch : q.events \in [1 .. n -> EventIds]
    BY <1>1 DEF Batches
  <1>3. /\ q.events \in Seq(EventIds)
        /\ Len(q.events) = n
    BY <1>2, MaxBatchIsNat
  <1>4. \A i, j \in DOMAIN q.events : q.events[i] = q.events[j] => i = j
    BY <1>1 DEF Batches
  <1>5. QED
    BY <1>1, <1>2, <1>3, <1>4, MaxBatchIsNat

\* The effect of a commit on the tables, in the terms the invariants use.
LEMMA CommitTables ==
    ASSUME TypeOK, NEW q \in Request, Fits(q), Commits(q)
    PROVE  /\ heads' \in [Matters -> 0 .. MaxStreamEvents]
           /\ rows' \in [Matters -> [Versions -> EventIds \cup {None}]]
           /\ appends' \in [Matters -> [AppendIds -> LedgerEntry]]
           /\ heads[q.matter] = q.expected
           /\ heads'[q.matter] = heads[q.matter] + Len(q.events)
           /\ \A m \in Matters \ {q.matter} :
                 /\ heads'[m] = heads[m]
                 /\ rows'[m] = rows[m]
                 /\ appends'[m] = appends[m]
           /\ \A v \in Versions : rows'[q.matter][v] =
                 IF v \in heads[q.matter] + 1 .. heads[q.matter] + Len(q.events)
                 THEN q.events[v - heads[q.matter]] ELSE rows[q.matter][v]
           /\ \A a \in AppendIds \ {q.append} :
                 appends'[q.matter][a] = appends[q.matter][a]
           /\ appends'[q.matter][q.append] = Entry(q)
           /\ Entry(q) \in LedgerEntry
           /\ appends[q.matter][q.append] = Absent
  <1> DEFINE h == heads[q.matter]
             n == Len(q.events)
  <1>1. /\ q.matter \in Matters
        /\ q.append \in AppendIds
        /\ n \in Nat \ {0}
        /\ \A i \in 1 .. n : q.events[i] \in EventIds
    BY RequestFacts
  <1>2. /\ h \in 0 .. MaxStreamEvents
        /\ h + n \in 0 .. MaxStreamEvents
        /\ h = q.expected
    BY <1>1, MaxStreamEventsIsNat DEF Fits, HasRoom, Last, VersionIsExpected, TypeOK
  <1>3. Entry(q) \in LedgerEntry
    BY <1>1, <1>2, MaxStreamEventsIsNat DEF Entry, LedgerEntry, First, Last
  <1>4. heads' = [heads EXCEPT ![q.matter] = h + n]
    BY DEF Commits, Last
  <1>5. rows' = [rows EXCEPT ![q.matter] = [v \in Versions |->
           IF v \in h + 1 .. h + n THEN q.events[v - h] ELSE rows[q.matter][v]]]
    BY <1>1 DEF Commits, First, Last, TypeOK
  <1>6. appends' = [appends EXCEPT ![q.matter] =
           [appends[q.matter] EXCEPT ![q.append] = Entry(q)]]
    BY <1>1 DEF Commits, TypeOK
  <1>7. \A v \in h + 1 .. h + n : q.events[v - h] \in EventIds
    BY <1>1, <1>2
  <1>8. [v \in Versions |->
           IF v \in h + 1 .. h + n THEN q.events[v - h] ELSE rows[q.matter][v]]
           \in [Versions -> EventIds \cup {None}]
    BY <1>1, <1>7 DEF TypeOK
  <1>9. /\ heads' \in [Matters -> 0 .. MaxStreamEvents]
        /\ heads'[q.matter] = h + n
        /\ \A m \in Matters \ {q.matter} : heads'[m] = heads[m]
    BY <1>1, <1>2, <1>4 DEF TypeOK
  <1>10. /\ rows' \in [Matters -> [Versions -> EventIds \cup {None}]]
         /\ \A m \in Matters \ {q.matter} : rows'[m] = rows[m]
         /\ \A v \in Versions : rows'[q.matter][v] =
               IF v \in h + 1 .. h + n THEN q.events[v - h] ELSE rows[q.matter][v]
    BY <1>1, <1>5, <1>8 DEF TypeOK
  <1>11. [appends[q.matter] EXCEPT ![q.append] = Entry(q)]
            \in [AppendIds -> LedgerEntry]
    BY <1>1, <1>3 DEF TypeOK
  <1>12. /\ appends' \in [Matters -> [AppendIds -> LedgerEntry]]
         /\ \A m \in Matters \ {q.matter} : appends'[m] = appends[m]
         /\ \A a \in AppendIds \ {q.append} :
               appends'[q.matter][a] = appends[q.matter][a]
         /\ appends'[q.matter][q.append] = Entry(q)
    BY <1>1, <1>6, <1>11 DEF TypeOK
  <1>13. appends[q.matter][q.append] = Absent
    BY DEF Fits, IsNewAppend, Stored
  <1>14. QED
    BY <1>2, <1>3, <1>9, <1>10, <1>12, <1>13

\* Every step leaves the tables alone, or commits a request that fits.
LEMMA TablesChangeByCommit ==
    ASSUME TypeOK, WrittenFits, [Next]_vars
    PROVE  \/ UNCHANGED tables
           \/ \E c \in Connections :
                 /\ call[c].at = "written"
                 /\ call[c].request \in Request
                 /\ Fits(call[c].request)
                 /\ Commits(call[c].request)
  <1>1. ASSUME NEW c \in Connections, call[c].at = "written"
        PROVE  call[c].request \in Request /\ Fits(call[c].request)
    BY <1>1 DEF TypeOK, WrittenFits, InTransaction
  <1>2. CASE UNCHANGED vars
    BY <1>2 DEF vars, tables
  <1>3. ASSUME NEW c \in Connections, NEW q \in Request, Begin(c, q)
        PROVE  UNCHANGED tables
    BY <1>3 DEF Begin, tables
  <1>4. ASSUME NEW c \in Connections, NEW m \in Matters, LoadHead(c, m)
        PROVE  UNCHANGED tables
    BY <1>4 DEF LoadHead, tables
  <1>5. ASSUME NEW c \in Connections,
               Replay(c) \/ Write(c) \/ Refuse(c) \/ RollbackFails(c)
        PROVE  UNCHANGED tables
    BY <1>5 DEF Replay, Write, Refuse, RollbackFails, tables
  <1>6. ASSUME NEW c \in Connections,
               LoadEvents(c) \/ Dismiss(c) \/ Close(c) \/ Open(c)
        PROVE  UNCHANGED tables
    BY <1>6 DEF LoadEvents, Dismiss, Close, Open, tables
  <1>7. ASSUME NEW c \in Connections,
               Commit(c) \/ CommitUnknown(c) \/ BoundaryLost(c) \/ Crash(c)
        PROVE  UNCHANGED tables \/ (call[c].at = "written" /\ Commits(call[c].request))
    BY <1>7 DEF Commit, CommitUnknown, BoundaryLost, Crash, tables
  <1>8. QED
    BY <1>1, <1>2, <1>3, <1>4, <1>5, <1>6, <1>7 DEF Next, Transaction

-----------------------------------------------------------------------------
(* The ledger and the stream                                                 *)

LEMMA CommitKeepsTiling ==
    ASSUME TypeOK, LedgerTilesStream, EntriesAreReal,
           NEW q \in Request, Fits(q), Commits(q)
    PROVE  LedgerTilesStream' /\ EntriesAreReal'
  <1> DEFINE h == heads[q.matter]
             n == Len(q.events)
  <1>1. /\ q.matter \in Matters
        /\ q.append \in AppendIds
        /\ n \in Nat \ {0}
        /\ \A i \in 1 .. n : q.events[i] \in EventIds
    BY RequestFacts
  <1>2. /\ h \in Nat
        /\ h = q.expected
        /\ h + n \in 0 .. MaxStreamEvents
        /\ heads'[q.matter] = h + n
        /\ \A v \in Versions : rows'[q.matter][v] =
              IF v \in h + 1 .. h + n THEN q.events[v - h] ELSE rows[q.matter][v]
        /\ \A a \in AppendIds \ {q.append} :
              appends'[q.matter][a] = appends[q.matter][a]
        /\ appends'[q.matter][q.append] = Entry(q)
        /\ appends[q.matter][q.append] = Absent
    BY <1>1, CommitTables, MaxStreamEventsIsNat DEF TypeOK
  <1>3. Entry(q) = [fingerprint |-> <<h, q.events, q.print>>,
                    first |-> h + 1, last |-> h + n]
    BY <1>2 DEF Entry, Fingerprint, First, Last
  <1>4. Entry(q) # Absent
    BY <1>2, <1>3 DEF Absent
  <1>5. /\ Entries(q.matter)' = Entries(q.matter) \cup {q.append}
        /\ q.append \notin Entries(q.matter)
    BY <1>1, <1>2, <1>4 DEF Entries, Absent
  <1>6. /\ Covers(q.matter, q.append)' = h + 1 .. h + n
        /\ \A a \in Entries(q.matter) :
              /\ Covers(q.matter, a)' = Covers(q.matter, a)
              /\ appends'[q.matter][a] = appends[q.matter][a]
    BY <1>2, <1>3, <1>5 DEF Covers, Entries
  <1>7. EventVersions(q.matter)' = 1 .. heads'[q.matter]
    <2>1. EventVersions(q.matter) = 1 .. h
      BY <1>1 DEF LedgerTilesStream
    <2>2. \A v \in Versions : rows'[q.matter][v] # None <=> v \in 1 .. h + n
      <3> TAKE v \in Versions
      <3>1. CASE v \in h + 1 .. h + n
        <4>1. v - h \in 1 .. n /\ v \in 1 .. h + n
          BY <3>1, <1>1, <1>2
        <4>2. q.events[v - h] \in EventIds
          BY <4>1, <1>1
        <4>3. rows'[q.matter][v] = q.events[v - h]
          BY <3>1, <1>2
        <4>4. QED
          BY <4>1, <4>2, <4>3, NoneIsNoValue
      <3>2. CASE v \notin h + 1 .. h + n
        <4>1. rows[q.matter][v] # None <=> v \in 1 .. h
          BY <2>1 DEF EventVersions
        <4>2. v \in Nat \ {0}
          BY MaxStreamEventsIsNat DEF Versions
        <4>3. QED
          BY <3>2, <4>1, <4>2, <1>1, <1>2
      <3>3. QED
        BY <3>1, <3>2
    <2>3. 1 .. h + n \subseteq Versions
      BY <1>1, <1>2, MaxStreamEventsIsNat DEF Versions
    <2>4. QED
      BY <2>2, <2>3, <1>2 DEF EventVersions
  <1>8. ASSUME NEW v \in 1 .. heads'[q.matter]
        PROVE  \E a \in Entries(q.matter)' : v \in Covers(q.matter, a)'
    <2>1. CASE v \in 1 .. h
      <3>1. PICK a \in Entries(q.matter) : v \in Covers(q.matter, a)
        BY <2>1, <1>1 DEF LedgerTilesStream
      <3>2. QED
        BY <3>1, <1>5, <1>6
    <2>2. CASE v \in h + 1 .. h + n
      BY <2>2, <1>5, <1>6
    <2>3. QED
      BY <2>1, <2>2, <1>1, <1>2
  <1>9. ASSUME NEW a \in Entries(q.matter)
        PROVE  /\ appends[q.matter][a].last <= h
               /\ appends[q.matter][a].first >= 1
               /\ appends[q.matter][a].first \in Nat
               /\ appends[q.matter][a].last \in Nat
    <2>1. a \in AppendIds
      BY DEF Entries
    <2>2. appends[q.matter][a] \in LedgerEntry
      BY <2>1, <1>1 DEF TypeOK
    <2>3. /\ appends[q.matter][a].first \in Nat
          /\ appends[q.matter][a].last \in Nat
          /\ appends[q.matter][a].fingerprint \in {Fingerprint(r) : r \in Request}
      BY <2>2, <1>1, MaxStreamEventsIsNat DEF LedgerEntry, EntriesAreReal
    <2>4. /\ appends[q.matter][a].first = appends[q.matter][a].fingerprint[1] + 1
          /\ appends[q.matter][a].last <= h
      BY <1>1 DEF LedgerTilesStream
    <2>5. PICK r \in Request : appends[q.matter][a].fingerprint = Fingerprint(r)
      BY <2>3
    <2>6. appends[q.matter][a].fingerprint[1] \in Nat
      BY <2>5, RequestFacts, MaxStreamEventsIsNat DEF Fingerprint
    <2>7. QED
      BY <2>3, <2>4, <2>6
  <1>10. ASSUME NEW a \in Entries(q.matter)
         PROVE  LET e == appends'[q.matter][a] IN
                /\ e.first = e.fingerprint[1] + 1
                /\ e.last = e.fingerprint[1] + Len(e.fingerprint[2])
                /\ e.last <= heads'[q.matter]
                /\ \A v \in Covers(q.matter, a)' :
                      rows'[q.matter][v] = e.fingerprint[2][v - e.fingerprint[1]]
                /\ \A b \in Entries(q.matter)' \ {a} :
                      Covers(q.matter, a)' \cap Covers(q.matter, b)' = {}
    <2> DEFINE e == appends[q.matter][a]
    <2>1. /\ appends'[q.matter][a] = e
          /\ Covers(q.matter, a)' = Covers(q.matter, a)
      BY <1>6
    <2>2. /\ e.first = e.fingerprint[1] + 1
          /\ e.last = e.fingerprint[1] + Len(e.fingerprint[2])
          /\ e.last <= h
          /\ \A v \in Covers(q.matter, a) :
                rows[q.matter][v] = e.fingerprint[2][v - e.fingerprint[1]]
          /\ \A b \in Entries(q.matter) \ {a} :
                Covers(q.matter, a) \cap Covers(q.matter, b) = {}
      BY <1>1 DEF LedgerTilesStream
    <2>3. Covers(q.matter, a) \subseteq 1 .. h
      BY <1>9, <1>2 DEF Covers
    <2>4. e.last <= heads'[q.matter]
      BY <1>1, <1>2, <1>9
    <2>5. ASSUME NEW v \in Covers(q.matter, a)
          PROVE  rows'[q.matter][v] = e.fingerprint[2][v - e.fingerprint[1]]
      <3>1. v \in Versions /\ v \notin h + 1 .. h + n
        BY <2>3, <1>1, <1>2, MaxStreamEventsIsNat DEF Versions
      <3>2. rows'[q.matter][v] = rows[q.matter][v]
        BY <3>1, <1>2
      <3>3. QED
        BY <3>2, <2>2
    <2>6. ASSUME NEW b \in Entries(q.matter)' \ {a}
          PROVE  Covers(q.matter, a)' \cap Covers(q.matter, b)' = {}
      <3>1. CASE b = q.append
        BY <3>1, <2>1, <2>3, <1>2, <1>6
      <3>2. CASE b # q.append
        BY <3>2, <2>1, <2>2, <1>5, <1>6
      <3>3. QED
        BY <3>1, <3>2
    <2>7. QED
      BY <2>1, <2>2, <2>4, <2>5, <2>6
  <1>11. LET e == appends'[q.matter][q.append] IN
         /\ e.first = e.fingerprint[1] + 1
         /\ e.last = e.fingerprint[1] + Len(e.fingerprint[2])
         /\ e.last <= heads'[q.matter]
         /\ \A v \in Covers(q.matter, q.append)' :
               rows'[q.matter][v] = e.fingerprint[2][v - e.fingerprint[1]]
         /\ \A b \in Entries(q.matter)' \ {q.append} :
               Covers(q.matter, q.append)' \cap Covers(q.matter, b)' = {}
    <2>1. h + 1 .. h + n \subseteq Versions
      BY <1>1, <1>2, MaxStreamEventsIsNat DEF Versions
    <2>2. \A v \in Covers(q.matter, q.append)' :
             rows'[q.matter][v] = q.events[v - h]
      BY <2>1, <1>2, <1>6
    <2>3. \A b \in Entries(q.matter) : Covers(q.matter, b)' \subseteq 1 .. h
      BY <1>6, <1>9, <1>2 DEF Covers
    <2>4. \A b \in Entries(q.matter)' \ {q.append} :
             Covers(q.matter, q.append)' \cap Covers(q.matter, b)' = {}
      BY <2>3, <1>1, <1>2, <1>5, <1>6
    <2>5. QED
      BY <2>2, <2>4, <1>1, <1>2, <1>3
  <1>12. ASSUME NEW m \in Matters \ {q.matter}
         PROVE  /\ heads'[m] = heads[m]
                /\ rows'[m] = rows[m]
                /\ appends'[m] = appends[m]
                /\ EventVersions(m)' = EventVersions(m)
                /\ Entries(m)' = Entries(m)
                /\ \A a : Covers(m, a)' = Covers(m, a)
    <2>1. heads'[m] = heads[m] /\ rows'[m] = rows[m] /\ appends'[m] = appends[m]
      BY CommitTables
    <2>2. QED
      BY <2>1 DEF EventVersions, Entries, Covers
  <1>13. LedgerTilesStream'
    <2> SUFFICES ASSUME NEW m \in Matters
                 PROVE  /\ EventVersions(m)' = 1 .. heads'[m]
                        /\ \A v \in 1 .. heads'[m] :
                              \E a \in Entries(m)' : v \in Covers(m, a)'
                        /\ \A a \in Entries(m)' :
                              LET e == appends'[m][a] IN
                              /\ e.first = e.fingerprint[1] + 1
                              /\ e.last = e.fingerprint[1] + Len(e.fingerprint[2])
                              /\ e.last <= heads'[m]
                              /\ \A v \in Covers(m, a)' : rows'[m][v] =
                                    e.fingerprint[2][v - e.fingerprint[1]]
                              /\ \A b \in Entries(m)' \ {a} :
                                    Covers(m, a)' \cap Covers(m, b)' = {}
      BY DEF LedgerTilesStream
    <2>1. CASE m = q.matter
      <3>1. /\ EventVersions(q.matter)' = 1 .. heads'[q.matter]
            /\ \A v \in 1 .. heads'[q.matter] :
                  \E a \in Entries(q.matter)' : v \in Covers(q.matter, a)'
        BY <1>7, <1>8
      <3>2. \A a \in Entries(q.matter)' :
               LET e == appends'[q.matter][a] IN
               /\ e.first = e.fingerprint[1] + 1
               /\ e.last = e.fingerprint[1] + Len(e.fingerprint[2])
               /\ e.last <= heads'[q.matter]
               /\ \A v \in Covers(q.matter, a)' : rows'[q.matter][v] =
                     e.fingerprint[2][v - e.fingerprint[1]]
               /\ \A b \in Entries(q.matter)' \ {a} :
                     Covers(q.matter, a)' \cap Covers(q.matter, b)' = {}
        <4>1. SUFFICES ASSUME NEW a \in Entries(q.matter)'
                       PROVE  LET e == appends'[q.matter][a] IN
               /\ e.first = e.fingerprint[1] + 1
               /\ e.last = e.fingerprint[1] + Len(e.fingerprint[2])
               /\ e.last <= heads'[q.matter]
               /\ \A v \in Covers(q.matter, a)' : rows'[q.matter][v] =
                     e.fingerprint[2][v - e.fingerprint[1]]
               /\ \A b \in Entries(q.matter)' \ {a} :
                     Covers(q.matter, a)' \cap Covers(q.matter, b)' = {}
          OBVIOUS
        <4>2. CASE a = q.append
          BY <4>2, <1>11, Zenon
        <4>3. CASE a # q.append
          <5>1. a \in Entries(q.matter)
            BY <4>1, <4>3, <1>5
          <5>2. QED
            BY <5>1, <1>10, Zenon
        <4>4. QED
          BY <4>2, <4>3
      <3>3. QED
        BY <2>1, <3>1, <3>2, Zenon
    <2>2. CASE m # q.matter
      <3>1. m \in Matters \ {q.matter}
        BY <2>2
      <3>2. QED
        BY <3>1, <1>12 DEF LedgerTilesStream
    <2>3. QED
      BY <2>1, <2>2
  <1>14. EntriesAreReal'
    <2> SUFFICES ASSUME NEW m \in Matters, NEW a \in Entries(m)'
                 PROVE  /\ appends'[m][a].fingerprint # None
                        /\ appends'[m][a].first <= appends'[m][a].last
      BY DEF EntriesAreReal
    <2>1. CASE m # q.matter
      BY <2>1, <1>12 DEF EntriesAreReal
    <2>2. CASE m = q.matter /\ a # q.append
      BY <2>2, <1>1, <1>5, <1>6 DEF EntriesAreReal
    <2>3. CASE m = q.matter /\ a = q.append
      <3>1. Fingerprint(q) # None
        BY NoneIsNoFingerprint
      <3>2. QED
        BY <2>3, <3>1, <1>1, <1>2, <1>3 DEF Entry
    <2>4. QED
      BY <2>1, <2>2, <2>3
  <1>15. QED
    BY <1>13, <1>14

-----------------------------------------------------------------------------
(* Transactions                                                              *)

\* The conjunct of TypeOK about one connection.
ControlOK(c) ==
    /\ call[c] \in Call
    /\ InTransaction(c) <=> lock = c
    /\ InTransaction(c) => c \in open /\ call[c].request \in Request

LEMMA IdleIsCall == Idle \in Call /\ Idle.at = "idle"
  BY MaxStreamEventsIsNat DEF Idle, Loading, Call

\* Where a connection may go in a step without breaking the types: it stays where it
\* is, ends, or holds the lock with a request, and the others hold what they held.
LEMMA ControlIsKept ==
    ASSUME TypeOK, NEW c \in Connections, NEW s \in Call,
           call' = [call EXCEPT ![c] = s],
           s.at \in {"begun", "written"} =>
               /\ lock \in {c, None} /\ lock' = c
               /\ c \in open' /\ s.request \in Request,
           s.at \notin {"begun", "written"} => lock' = IF lock = c THEN None ELSE lock,
           open' \subseteq Connections, open \ {c} \subseteq open'
    PROVE  /\ call' \in [Connections -> Call]
           /\ lock' \in Connections \cup {None}
           /\ open' \subseteq Connections
           /\ \A d \in Connections :
                 /\ InTransaction(d)' <=> lock' = d
                 /\ InTransaction(d)' => d \in open' /\ call'[d].request \in Request
  <1>1. call' \in [Connections -> Call]
    BY DEF TypeOK
  <1>2. call'[c] = s /\ \A d \in Connections \ {c} : call'[d] = call[d]
    BY DEF TypeOK
  <1>3. None \notin Connections
    BY NoneIsNoValue
  <1>4. lock' \in Connections \cup {None}
    BY DEF TypeOK
  <1>5. ASSUME NEW d \in Connections
        PROVE  /\ InTransaction(d)' <=> lock' = d
               /\ InTransaction(d)' => d \in open' /\ call'[d].request \in Request
    <2>1. CASE d = c
      BY <2>1, <1>2, <1>3 DEF InTransaction, TypeOK
    <2>2. CASE d # c
      <3>1. /\ InTransaction(d)' <=> InTransaction(d)
            /\ call'[d] = call[d]
        BY <2>2, <1>2 DEF InTransaction
      <3>2. lock' = d <=> lock = d
        BY <2>2, <1>3
      <3>3. d \in open => d \in open'
        BY <2>2
      <3>4. QED
        BY <3>1, <3>2, <3>3 DEF TypeOK
    <2>3. QED
      BY <2>1, <2>2
  <1>6. QED
    BY <1>1, <1>4, <1>5

\* A connection whose request is answered, or whose handle is closed over it.
LEMMA EndingKeepsControl ==
    ASSUME TypeOK, NEW c \in Connections, InTransaction(c), Answers(c) \/ Quarantined(c)
    PROVE  /\ call' \in [Connections -> Call]
           /\ call' = [call EXCEPT ![c] = Idle]
           /\ lock' \in Connections \cup {None}
           /\ open' \subseteq Connections
           /\ \A d \in Connections :
                 /\ InTransaction(d)' <=> lock' = d
                 /\ InTransaction(d)' => d \in open' /\ call'[d].request \in Request
  <1>1. /\ call' = [call EXCEPT ![c] = Idle]
        /\ lock' = None
        /\ open' = open \/ open' = open \ {c}
    BY DEF Answers, Ends, Quarantined
  <1>2. lock = c
    BY DEF TypeOK
  <1>3. open' \subseteq Connections /\ open \ {c} \subseteq open'
    BY <1>1 DEF TypeOK
  <1>4. QED
    BY <1>1, <1>2, <1>3, IdleIsCall, ControlIsKept

\* Types, and what the tables and the transactions know of each other.
IInv ==
    /\ TypeOK
    /\ WrittenFits
    /\ LedgerTilesStream
    /\ EntriesAreReal

LEMMA TablesKeepTheirTypes ==
    ASSUME TypeOK, WrittenFits, [Next]_vars
    PROVE  /\ heads' \in [Matters -> 0 .. MaxStreamEvents]
           /\ rows' \in [Matters -> [Versions -> EventIds \cup {None}]]
           /\ appends' \in [Matters -> [AppendIds -> LedgerEntry]]
  <1>1. CASE UNCHANGED tables
    BY <1>1 DEF tables, TypeOK
  <1>2. ASSUME NEW q \in Request, Fits(q), Commits(q)
        PROVE  /\ heads' \in [Matters -> 0 .. MaxStreamEvents]
               /\ rows' \in [Matters -> [Versions -> EventIds \cup {None}]]
               /\ appends' \in [Matters -> [AppendIds -> LedgerEntry]]
    BY <1>2, CommitTables
  <1>3. QED
    BY <1>1, <1>2, TablesChangeByCommit

\* The types are kept by every step.
LEMMA TypeStep ==
    ASSUME TypeOK, WrittenFits, [Next]_vars
    PROVE  TypeOK'
  <1> DEFINE Control ==
          /\ lock' \in Connections \cup {None}
          /\ open' \subseteq Connections
          /\ call' \in [Connections -> Call]
          /\ \A d \in Connections :
                /\ InTransaction(d)' <=> lock' = d
                /\ InTransaction(d)' => d \in open' /\ call'[d].request \in Request
  <1>1. /\ heads' \in [Matters -> 0 .. MaxStreamEvents]
        /\ rows' \in [Matters -> [Versions -> EventIds \cup {None}]]
        /\ appends' \in [Matters -> [AppendIds -> LedgerEntry]]
    BY TablesKeepTheirTypes
  <1>2. SUFFICES Control /\ confirmed' \subseteq Answer
    BY <1>1 DEF TypeOK
  <1>3. CASE UNCHANGED vars
    BY <1>3 DEF vars, TypeOK, InTransaction
  <1>4. ASSUME NEW c \in Connections, NEW q \in Request, Begin(c, q)
        PROVE  Control /\ confirmed' \subseteq Answer
    <2> DEFINE s == Appending(q)
    <2>1. s \in Call /\ s.at = "begun" /\ s.request = q
      BY MaxStreamEventsIsNat DEF Appending, Call
    <2>2. /\ call' = [call EXCEPT ![c] = s]
          /\ lock = None /\ lock' = c /\ open' = open /\ c \in open
          /\ confirmed' = confirmed
      BY <1>4 DEF Begin
    <2>3. open' \subseteq Connections /\ open \ {c} \subseteq open'
      BY <2>2 DEF TypeOK
    <2>4. Control
      BY <2>1, <2>2, <2>3, ControlIsKept
    <2>5. QED
      BY <2>2, <2>4 DEF TypeOK
  <1>5. ASSUME NEW c \in Connections, Write(c)
        PROVE  Control /\ confirmed' \subseteq Answer
    <2> DEFINE s == [call[c] EXCEPT !.at = "written"]
    <2>1. /\ lock = c /\ c \in open
          /\ call[c].request \in Request
      BY <1>5 DEF Write, TypeOK, InTransaction
    <2>2. s \in Call /\ s.at = "written" /\ s.request = call[c].request
      BY DEF TypeOK, Call
    <2>3. /\ call' = [call EXCEPT ![c] = s]
          /\ lock' = lock /\ open' = open /\ confirmed' = confirmed
      BY <1>5 DEF Write, TypeOK
    <2>4. open' \subseteq Connections /\ open \ {c} \subseteq open'
      BY <2>3 DEF TypeOK
    <2>5. Control
      BY <2>1, <2>2, <2>3, <2>4, ControlIsKept
    <2>6. QED
      BY <2>3, <2>5 DEF TypeOK
  <1>6. ASSUME NEW c \in Connections, Replay(c)
        PROVE  Control /\ confirmed' \subseteq Answer
    <2>1. InTransaction(c) /\ Answers(c)
      BY <1>6 DEF Replay, InTransaction
    <2>2. Control
      BY <2>1, EndingKeepsControl
    <2> DEFINE q == call[c].request
    <2>3. q \in Request
      BY <2>1 DEF TypeOK
    <2>4. Stored(q) \in LedgerEntry
      BY <2>3, RequestFacts DEF TypeOK, Stored
    <2>5. Told(q, Stored(q)) \in Answer
      BY <2>3, <2>4, RequestFacts DEF Told, Answer, LedgerEntry
    <2>6. confirmed' = confirmed \cup {Told(q, Stored(q))}
      BY <1>6 DEF Replay
    <2>7. QED
      BY <2>2, <2>5, <2>6 DEF TypeOK
  <1>7. ASSUME NEW c \in Connections, Commit(c)
        PROVE  Control /\ confirmed' \subseteq Answer
    <2>1. InTransaction(c) /\ Answers(c)
      BY <1>7 DEF Commit, InTransaction, Answers
    <2>2. Control
      BY <2>1, EndingKeepsControl
    <2> DEFINE q == call[c].request
    <2>3. q \in Request /\ Fits(q) /\ Commits(q)
      BY <1>7, <2>1 DEF TypeOK, WrittenFits, Commit
    <2>4. Entry(q) \in LedgerEntry
      BY <2>3, CommitTables
    <2>5. Told(q, Entry(q)) \in Answer
      BY <2>3, <2>4, RequestFacts DEF Told, Answer, LedgerEntry
    <2>6. confirmed' = confirmed \cup {Told(q, Entry(q))}
      BY <1>7 DEF Commit
    <2>7. QED
      BY <2>2, <2>5, <2>6 DEF TypeOK
  <1>8. ASSUME NEW c \in Connections,
               Refuse(c) \/ CommitUnknown(c) \/ RollbackFails(c) \/ BoundaryLost(c)
        PROVE  Control /\ confirmed' \subseteq Answer
    <2>1. /\ InTransaction(c)
          /\ Answers(c) \/ Quarantined(c)
          /\ confirmed' = confirmed
      BY <1>8 DEF Refuse, CommitUnknown, RollbackFails, BoundaryLost, InTransaction
    <2>2. QED
      BY <2>1, EndingKeepsControl DEF TypeOK
  <1>9. ASSUME NEW c \in Connections, NEW m \in Matters, LoadHead(c, m)
        PROVE  Control /\ confirmed' \subseteq Answer
    <2> DEFINE s == Loading("reading", m, heads[m])
    <2>1. s \in Call /\ s.at = "reading"
      BY DEF Loading, Call, TypeOK
    <2>2. /\ call' = [call EXCEPT ![c] = s]
          /\ lock' = lock /\ open' = open /\ confirmed' = confirmed
          /\ lock # c
      BY <1>9 DEF LoadHead, TypeOK, InTransaction
    <2>3. open' \subseteq Connections /\ open \ {c} \subseteq open'
      BY <2>2 DEF TypeOK
    <2>4. Control
      BY <2>1, <2>2, <2>3, ControlIsKept
    <2>5. QED
      BY <2>2, <2>4 DEF TypeOK
  <1>10. ASSUME NEW c \in Connections, LoadEvents(c) \/ Dismiss(c)
         PROVE  Control /\ confirmed' \subseteq Answer
    <2>1. PICK s \in Call : /\ call' = [call EXCEPT ![c] = s]
                            /\ s.at \in {"idle", "corrupt"}
      <3> DEFINE s == Loading("corrupt", call[c].matter, call[c].head)
      <3>1. s \in Call /\ s.at = "corrupt"
        BY DEF Loading, Call, TypeOK
      <3>2. \/ call' = [call EXCEPT ![c] = Idle]
            \/ call' = [call EXCEPT ![c] = s]
        BY <1>10 DEF LoadEvents, Dismiss
      <3>3. QED
        BY <3>1, <3>2, IdleIsCall
    <2>2. lock' = lock /\ open' = open /\ confirmed' = confirmed /\ lock # c
      BY <1>10 DEF LoadEvents, Dismiss, TypeOK, InTransaction
    <2>3. open' \subseteq Connections /\ open \ {c} \subseteq open'
      BY <2>2 DEF TypeOK
    <2>4. Control
      BY <2>1, <2>2, <2>3, ControlIsKept
    <2>5. QED
      BY <2>2, <2>4 DEF TypeOK
  <1>11. ASSUME NEW c \in Connections, Crash(c)
         PROVE  Control /\ confirmed' \subseteq Answer
    <2>1. /\ call' = [call EXCEPT ![c] = Idle]
          /\ lock' = IF lock = c THEN None ELSE lock
          /\ open' = open \ {c}
          /\ confirmed' = confirmed
      BY <1>11 DEF Crash
    <2>2. open' \subseteq Connections /\ open \ {c} \subseteq open'
      BY <2>1 DEF TypeOK
    <2>3. Control
      BY <2>1, <2>2, IdleIsCall, ControlIsKept
    <2>4. QED
      BY <2>1, <2>3 DEF TypeOK
  <1>12. ASSUME NEW c \in Connections, Close(c) \/ Open(c)
         PROVE  Control /\ confirmed' \subseteq Answer
    <2>1. /\ lock' = lock /\ call' = call /\ confirmed' = confirmed
          /\ open' \subseteq Connections /\ open \ {c} \subseteq open'
          /\ ~ InTransaction(c)
      BY <1>12 DEF Close, Open, TypeOK, InTransaction
    <2>2. \A d \in Connections : InTransaction(d)' <=> InTransaction(d)
      BY <2>1 DEF InTransaction
    <2>3. \A d \in Connections : InTransaction(d) => d \in open'
      BY <2>1 DEF TypeOK
    <2>4. QED
      BY <2>1, <2>2, <2>3 DEF TypeOK
  <1>13. QED
    BY <1>3, <1>4, <1>5, <1>6, <1>7, <1>8, <1>9, <1>10, <1>11, <1>12
       DEF Next, Transaction

-----------------------------------------------------------------------------
(* The inductive invariant                                                   *)

\* The lock is exclusive: a request that fits goes on fitting until its connection
\* commits it or gives up.
LEMMA FitStep ==
    ASSUME TypeOK, WrittenFits, [Next]_vars
    PROVE  WrittenFits'
  <1>1. \A c, d \in Connections : InTransaction(c) /\ InTransaction(d) => c = d
    BY DEF TypeOK
  <1>2. ASSUME UNCHANGED tables,
               \A d \in Connections : call'[d] = call[d] \/ call'[d].at # "written"
        PROVE  WrittenFits'
    <2>1. \A d \in Connections :
             call'[d].at = "written" => call'[d] = call[d] /\ Fits(call[d].request)
      BY <1>2 DEF WrittenFits
    <2>2. QED
      BY <1>2, <2>1 DEF WrittenFits, tables, Fits, IsNewAppend, Stored,
         VersionIsExpected, HasRoom, Last, EventsAreNew
  <1>3. ASSUME NEW c \in Connections, InTransaction(c), call'[c].at = "idle",
               \A d \in Connections \ {c} : call'[d] = call[d]
        PROVE  WrittenFits'
    BY <1>1, <1>3 DEF WrittenFits, InTransaction
  <1>4. CASE UNCHANGED vars
    BY <1>4, <1>2 DEF vars, tables
  <1>5. ASSUME NEW c \in Connections, Write(c)
        PROVE  WrittenFits'
    <2>1. /\ UNCHANGED tables
          /\ Fits(call[c].request)
          /\ call' = [call EXCEPT ![c].at = "written"]
          /\ InTransaction(c)
      BY <1>5 DEF Write, Fits, InTransaction, tables
    <2>2. call'[c].request = call[c].request
      BY <2>1 DEF TypeOK, Call
    <2>3. Fits(call[c].request)'
      BY <2>1, <2>2 DEF tables, Fits, IsNewAppend, Stored, VersionIsExpected, HasRoom,
         Last, EventsAreNew
    <2>4. \A d \in Connections \ {c} : call'[d] = call[d] /\ call[d].at # "written"
      BY <1>1, <2>1 DEF TypeOK, InTransaction
    <2>5. QED
      BY <2>3, <2>4 DEF WrittenFits
  <1>6. ASSUME NEW c \in Connections,
               Replay(c) \/ Refuse(c) \/ Commit(c) \/ CommitUnknown(c)
                  \/ RollbackFails(c) \/ BoundaryLost(c)
        PROVE  WrittenFits'
    <2>1. /\ InTransaction(c)
          /\ call' = [call EXCEPT ![c] = Idle]
      BY <1>6 DEF Replay, Refuse, Commit, CommitUnknown, RollbackFails, BoundaryLost,
         Answers, Ends, Quarantined, InTransaction
    <2>2. call'[c].at = "idle" /\ \A d \in Connections \ {c} : call'[d] = call[d]
      BY <2>1, IdleIsCall DEF TypeOK
    <2>3. QED
      BY <1>3, <2>1, <2>2
  <1>7. ASSUME NEW c \in Connections, Crash(c)
        PROVE  WrittenFits'
    <2>1. /\ call' = [call EXCEPT ![c] = Idle]
          /\ InTransaction(c) \/ UNCHANGED tables
      BY <1>7 DEF Crash, InTransaction, tables
    <2>2. call'[c].at = "idle" /\ \A d \in Connections \ {c} : call'[d] = call[d]
      BY <2>1, IdleIsCall DEF TypeOK
    <2>3. CASE InTransaction(c)
      BY <2>2, <2>3, <1>3
    <2>4. CASE UNCHANGED tables
      BY <2>2, <2>4, <1>2
    <2>5. QED
      BY <2>1, <2>3, <2>4
  <1>8. ASSUME NEW c \in Connections, NEW q \in Request, Begin(c, q)
        PROVE  WrittenFits'
    <2>1. /\ UNCHANGED tables
          /\ call'[c].at = "begun"
          /\ \A d \in Connections \ {c} : call'[d] = call[d]
      BY <1>8 DEF Begin, TypeOK, Appending, tables
    <2>2. QED
      BY <2>1, <1>2
  <1>9. ASSUME NEW c \in Connections, NEW m \in Matters, LoadHead(c, m)
        PROVE  WrittenFits'
    <2>1. /\ UNCHANGED tables
          /\ call'[c].at = "reading"
          /\ \A d \in Connections \ {c} : call'[d] = call[d]
      BY <1>9 DEF LoadHead, TypeOK, Loading, tables
    <2>2. QED
      BY <2>1, <1>2
  <1>10. ASSUME NEW c \in Connections, LoadEvents(c) \/ Dismiss(c)
         PROVE  WrittenFits'
    <2>1. /\ UNCHANGED tables
          /\ call'[c].at # "written"
          /\ \A d \in Connections \ {c} : call'[d] = call[d]
      BY <1>10 DEF LoadEvents, Dismiss, TypeOK, Idle, Loading, tables
    <2>2. QED
      BY <2>1, <1>2
  <1>11. ASSUME NEW c \in Connections, Close(c) \/ Open(c)
         PROVE  WrittenFits'
    <2>1. UNCHANGED tables /\ call' = call
      BY <1>11 DEF Close, Open, tables
    <2>2. QED
      BY <2>1, <1>2
  <1>12. QED
    BY <1>4, <1>5, <1>6, <1>7, <1>8, <1>9, <1>10, <1>11 DEF Next, Transaction

LEMMA TilingStep ==
    ASSUME IInv, [Next]_vars
    PROVE  LedgerTilesStream' /\ EntriesAreReal'
  <1>1. CASE UNCHANGED tables
    BY <1>1 DEF IInv, tables, LedgerTilesStream, EntriesAreReal, EventVersions,
       Entries, Covers
  <1>2. ASSUME NEW q \in Request, Fits(q), Commits(q)
        PROVE  LedgerTilesStream' /\ EntriesAreReal'
    BY <1>2, CommitKeepsTiling DEF IInv
  <1>3. QED
    BY <1>1, <1>2, TablesChangeByCommit DEF IInv

LEMMA InitInv == Init => IInv
  <1> SUFFICES ASSUME Init PROVE IInv
    OBVIOUS
  <1>1. Absent \in LedgerEntry
    BY MaxStreamEventsIsNat DEF Absent, LedgerEntry
  <1>2. \A m \in Matters : /\ Entries(m) = {}
                           /\ EventVersions(m) = {}
                           /\ heads[m] = 0
    BY DEF Init, Entries, EventVersions
  <1>3. \A c \in Connections : ~ InTransaction(c) /\ call[c].at # "written"
    BY DEF Init, InTransaction, Idle, Loading
  <1>4. TypeOK
    BY <1>1, <1>3, IdleIsCall, NoneIsNoValue, MaxStreamEventsIsNat DEF Init, TypeOK
  <1>5. EntriesAreReal /\ WrittenFits
    BY <1>2, <1>3 DEF EntriesAreReal, WrittenFits
  <1>6. LedgerTilesStream
    <2>1. 1 .. 0 = {}
      OBVIOUS
    <2>2. QED
      BY <1>2, <2>1 DEF LedgerTilesStream
  <1>7. QED
    BY <1>4, <1>5, <1>6 DEF IInv

LEMMA InvStep == IInv /\ [Next]_vars => IInv'
  BY TypeStep, FitStep, TilingStep DEF IInv

LEMMA InvHolds == Spec => []IInv
  BY InitInv, InvStep, PTL DEF Spec

\* The types of the store are right, and a transaction, alone, holds the lock.
THEOREM StoreTypeCorrect == Spec => []TypeOK
  BY InvHolds, PTL DEF IInv

\* Whatever the processes, retries, faults and crashes: the ledger of the appends
\* partitions every stream, and each entry is there whole.
THEOREM LedgerIsTheStream == Spec => []LedgerTilesStream
  BY InvHolds, PTL DEF IInv

-----------------------------------------------------------------------------
(* What callers were told                                                    *)

\* No step touches what a committed request left.
LEMMA HistoryStep ==
    ASSUME IInv, [Next]_vars, NEW m \in Matters
    PROVE  /\ heads[m] <= heads'[m]
           /\ \A v \in 1 .. heads[m] : rows'[m][v] = rows[m][v]
           /\ \A a \in Entries(m) : appends'[m][a] = appends[m][a]
  <1>1. heads[m] \in Nat /\ heads[m] <= MaxStreamEvents
    BY MaxStreamEventsIsNat DEF IInv, TypeOK
  <1>2. CASE UNCHANGED tables
    BY <1>1, <1>2 DEF tables
  <1>3. ASSUME NEW q \in Request, Fits(q), Commits(q)
        PROVE  /\ heads[m] <= heads'[m]
               /\ \A v \in 1 .. heads[m] : rows'[m][v] = rows[m][v]
               /\ \A a \in Entries(m) : appends'[m][a] = appends[m][a]
    <2>1. CASE m # q.matter
      BY <1>1, <1>3, <2>1, CommitTables DEF IInv
    <2>2. CASE m = q.matter
      <3>1. /\ heads'[m] = heads[m] + Len(q.events)
            /\ \A v \in Versions : rows'[m][v] =
                  IF v \in heads[m] + 1 .. heads[m] + Len(q.events)
                  THEN q.events[v - heads[m]] ELSE rows[m][v]
            /\ \A a \in AppendIds \ {q.append} : appends'[m][a] = appends[m][a]
            /\ appends[m][q.append] = Absent
        BY <1>3, <2>2, CommitTables DEF IInv
      <3>2. Len(q.events) \in Nat
        BY RequestFacts
      <3>3. heads[m] <= heads'[m]
        BY <1>1, <3>1, <3>2
      <3>4. \A v \in 1 .. heads[m] :
               v \in Versions /\ v \notin heads[m] + 1 .. heads[m] + Len(q.events)
        BY <1>1, <3>2, MaxStreamEventsIsNat DEF Versions
      <3>5. \A a \in Entries(m) : a \in AppendIds \ {q.append}
        BY <3>1 DEF Entries
      <3>6. QED
        BY <3>1, <3>3, <3>4, <3>5
    <2>3. QED
      BY <2>1, <2>2
  <1>4. QED
    BY <1>2, <1>3, TablesChangeByCommit DEF IInv

\* Nothing committed is ever rewritten, by a retry, a conflict, a fault or a crash.
THEOREM HistoryIsKept == Spec => NothingIsRewritten
<1>1. IInv /\ [Next]_vars =>
         [\A m \in Matters :
             /\ heads[m] <= heads'[m]
             /\ \A v \in 1 .. heads[m] : rows'[m][v] = rows[m][v]
             /\ \A a \in Entries(m) : appends'[m][a] = appends[m][a]]_vars
  BY HistoryStep
<1>2. QED
  BY <1>1, InvHolds, PTL DEF Spec, NothingIsRewritten

\* The first half of AnswerHolds, from which the second follows.
TellsTheLedger ==
    \A t \in confirmed : /\ t.entry # Absent
                         /\ appends[t.matter][t.append] = t.entry

LEMMA EntryIsReal ==
    ASSUME IInv, NEW q \in Request, Fits(q), Commits(q)
    PROVE  /\ Entry(q) # Absent
           /\ appends'[q.matter][q.append] = Entry(q)
           /\ Told(q, Entry(q)) =
                 [matter |-> q.matter, append |-> q.append, entry |-> Entry(q)]
  <1>1. appends'[q.matter][q.append] = Entry(q) /\ heads[q.matter] \in Nat
    BY CommitTables, RequestFacts, MaxStreamEventsIsNat DEF IInv, TypeOK
  <1>2. Entry(q) # Absent
    BY <1>1 DEF Entry, First, Absent
  <1>3. QED
    BY <1>1, <1>2 DEF Told, Entry

LEMMA TellStep ==
    ASSUME IInv, TellsTheLedger, [Next]_vars
    PROVE  TellsTheLedger'
  <1>1. ASSUME NEW t \in confirmed
        PROVE  t.entry # Absent /\ appends'[t.matter][t.append] = t.entry
    <2>1. t.matter \in Matters /\ t.append \in AppendIds
      BY DEF IInv, TypeOK, Answer
    <2>2. t.append \in Entries(t.matter)
      BY <2>1 DEF TellsTheLedger, Entries
    <2>3. QED
      BY <2>1, <2>2, HistoryStep DEF TellsTheLedger
  <1>2. ASSUME confirmed' = confirmed
        PROVE  TellsTheLedger'
    BY <1>1, <1>2 DEF TellsTheLedger
  <1>3. CASE UNCHANGED vars
    BY <1>2, <1>3 DEF vars
  <1>4. ASSUME NEW c \in Connections, Replay(c)
        PROVE  TellsTheLedger'
    <2> DEFINE q == call[c].request
    <2>1. /\ IsReplay(q)
          /\ confirmed' = confirmed \cup {Told(q, Stored(q))}
          /\ UNCHANGED tables
      BY <1>4 DEF Replay
    <2>2. q \in Request
      BY <1>4 DEF Replay, IInv, TypeOK, InTransaction
    <2>3. Stored(q) \in LedgerEntry
      BY <2>2, RequestFacts DEF IInv, TypeOK, Stored
    <2>4. [Stored(q) EXCEPT !.fingerprint = Fingerprint(q)] = Stored(q)
      BY <2>1, <2>3 DEF IsReplay, LedgerEntry
    <2>5. Told(q, Stored(q)) =
             [matter |-> q.matter, append |-> q.append, entry |-> Stored(q)]
      BY <2>4 DEF Told
    <2>6. Stored(q) # Absent /\ appends'[q.matter][q.append] = Stored(q)
      BY <2>1 DEF IsReplay, IsNewAppend, tables, Stored
    <2>7. QED
      BY <2>1, <2>5, <2>6, <1>1 DEF TellsTheLedger
  <1>5. ASSUME NEW c \in Connections, Commit(c)
        PROVE  TellsTheLedger'
    <2> DEFINE q == call[c].request
    <2>1. /\ Commits(q)
          /\ confirmed' = confirmed \cup {Told(q, Entry(q))}
      BY <1>5 DEF Commit
    <2>2. q \in Request /\ Fits(q)
      BY <1>5 DEF Commit, IInv, TypeOK, InTransaction, WrittenFits
    <2>3. QED
      BY <2>1, <2>2, <1>1, EntryIsReal DEF TellsTheLedger
  <1>6. ASSUME NEW c \in Connections,
               \/ Write(c) \/ Refuse(c) \/ CommitUnknown(c) \/ RollbackFails(c)
               \/ BoundaryLost(c) \/ LoadEvents(c) \/ Dismiss(c) \/ Crash(c)
               \/ Close(c) \/ Open(c)
               \/ \E q \in Request : Begin(c, q)
               \/ \E m \in Matters : LoadHead(c, m)
        PROVE  TellsTheLedger'
    <2>1. confirmed' = confirmed
      BY <1>6 DEF Write, Refuse, CommitUnknown, RollbackFails, BoundaryLost,
         LoadEvents, Dismiss, Crash, Close, Open, Begin, LoadHead
    <2>2. QED
      BY <2>1, <1>2
  <1>7. QED
    BY <1>3, <1>4, <1>5, <1>6 DEF Next, Transaction

\* Two entries of a stream do not expect the same version.
LEMMA ExpectedVersionsDiffer ==
    ASSUME IInv, NEW m \in Matters, NEW a \in Entries(m), NEW b \in Entries(m),
           appends[m][a].fingerprint[1] = appends[m][b].fingerprint[1]
    PROVE  a = b
  <1>1. a \in AppendIds /\ b \in AppendIds
    BY DEF Entries
  <1>2. appends[m][a] \in LedgerEntry /\ appends[m][b] \in LedgerEntry
    BY <1>1 DEF IInv, TypeOK
  <1>3. appends[m][a].first = appends[m][b].first
    BY DEF IInv, LedgerTilesStream
  <1>4. /\ appends[m][a].first \in Nat /\ appends[m][a].last \in Nat
        /\ appends[m][b].first \in Nat /\ appends[m][b].last \in Nat
        /\ appends[m][a].first <= appends[m][a].last
        /\ appends[m][b].first <= appends[m][b].last
    BY <1>2, MaxStreamEventsIsNat DEF IInv, EntriesAreReal, LedgerEntry
  <1>5. appends[m][a].first \in Covers(m, a) \cap Covers(m, b)
    BY <1>3, <1>4 DEF Covers
  <1>6. QED
    BY <1>5 DEF IInv, LedgerTilesStream

LEMMA TellingImpliesAnswers == IInv /\ TellsTheLedger => AnswerHolds
  <1> SUFFICES ASSUME IInv, TellsTheLedger,
                      NEW t \in confirmed, NEW u \in confirmed, t.matter = u.matter,
                      t.entry.fingerprint[1] = u.entry.fingerprint[1]
               PROVE  t = u
    BY DEF AnswerHolds, TellsTheLedger
  <1>1. t \in Answer /\ u \in Answer
    BY DEF IInv, TypeOK
  <1>2. /\ t.matter \in Matters
        /\ t.append \in Entries(t.matter)
        /\ u.append \in Entries(t.matter)
        /\ appends[t.matter][t.append] = t.entry
        /\ appends[t.matter][u.append] = u.entry
    BY <1>1 DEF TellsTheLedger, Entries, Answer
  <1>3. t.append = u.append
    BY <1>2, ExpectedVersionsDiffer
  <1>4. QED
    BY <1>1, <1>2, <1>3 DEF Answer

\* What callers were told holds for ever, and no update is lost.
THEOREM AnswersHold == Spec => []AnswerHolds
<1>1. Init => TellsTheLedger
  BY DEF Init, TellsTheLedger
<1>2. IInv /\ TellsTheLedger /\ [Next]_vars => TellsTheLedger'
  BY TellStep
<1>3. QED
  BY <1>1, <1>2, InvHolds, TellingImpliesAnswers, PTL DEF Spec

\* One step of the entries of the ledger, for the two proofs below.
LEMMA EntriesStep ==
    ASSUME IInv, NEW q \in Request, Fits(q), Commits(q)
    PROVE  /\ q.append \notin Entries(q.matter)
           /\ Entries(q.matter)' = Entries(q.matter) \cup {q.append}
           /\ \A m \in Matters \ {q.matter} : Entries(m)' = Entries(m)
  <1>1. q.append \in AppendIds /\ q.matter \in Matters
    BY RequestFacts
  <1>2. Entry(q) # Absent /\ appends'[q.matter][q.append] = Entry(q)
    BY EntryIsReal
  <1>3. /\ \A a \in AppendIds \ {q.append} :
              appends'[q.matter][a] = appends[q.matter][a]
        /\ appends[q.matter][q.append] = Absent
        /\ \A m \in Matters \ {q.matter} : appends'[m] = appends[m]
    BY CommitTables DEF IInv
  <1>4. QED
    BY <1>1, <1>2, <1>3 DEF Entries

LEMMA RefusalStep ==
    ASSUME IInv, RefusalIsDefinite, [Next]_vars
    PROVE  RefusalIsDefinite'
  <1> DEFINE Known(m, a, f) ==
          \/ <<m, a, f>> \in uncertain
          \/ \E t \in confirmed : t.matter = m /\ t.append = a /\ t.entry.fingerprint = f
             KnownNext(m, a, f) ==
          \/ <<m, a, f>> \in uncertain'
          \/ \E t \in confirmed' : t.matter = m /\ t.append = a /\ t.entry.fingerprint = f
  <1>1. uncertain \subseteq uncertain' /\ confirmed \subseteq confirmed'
    BY DEF Next, vars, Transaction, Begin, Replay, Write, Refuse, Commit, CommitUnknown,
       RollbackFails, BoundaryLost, LoadHead, LoadEvents, Dismiss, Crash, Close, Open,
       Doubt
  <1>2. ASSUME NEW m \in Matters, NEW a \in Entries(m)
        PROVE  KnownNext(m, a, appends'[m][a].fingerprint)
    <2>1. Known(m, a, appends[m][a].fingerprint)
      BY DEF RefusalIsDefinite
    <2>2. appends'[m][a] = appends[m][a]
      BY HistoryStep
    <2>3. QED
      BY <2>1, <2>2, <1>1
  <1>3. CASE UNCHANGED tables
    <2>1. \A m \in Matters : Entries(m)' = Entries(m)
      BY <1>3 DEF tables, Entries
    <2>2. ASSUME NEW m \in Matters, NEW a \in Entries(m)'
          PROVE  KnownNext(m, a, appends'[m][a].fingerprint)
      BY <2>1, <1>2
    <2>3. QED
      BY <2>2 DEF RefusalIsDefinite
  <1>4. ASSUME NEW q \in Request, Fits(q), Commits(q),
               \/ Doubted(q) \in uncertain'
               \/ Told(q, Entry(q)) \in confirmed'
        PROVE  RefusalIsDefinite'
    <2>1. /\ Told(q, Entry(q)) =
                [matter |-> q.matter, append |-> q.append, entry |-> Entry(q)]
          /\ appends'[q.matter][q.append] = Entry(q)
      BY <1>4, EntryIsReal
    <2>2. Entry(q).fingerprint = Fingerprint(q)
      BY DEF Entry
    <2>3. KnownNext(q.matter, q.append, appends'[q.matter][q.append].fingerprint)
      BY <2>1, <2>2, <1>4 DEF Doubted
    <2>4. ASSUME NEW m \in Matters, NEW a \in Entries(m)'
          PROVE  KnownNext(m, a, appends'[m][a].fingerprint)
      <3>1. a \in Entries(m) \/ (m = q.matter /\ a = q.append)
        BY <1>4, EntriesStep
      <3>2. QED
        BY <3>1, <2>3, <1>2
    <2>5. QED
      BY <2>4 DEF RefusalIsDefinite
  <1>5. ASSUME NEW c \in Connections, Commits(call[c].request),
               \/ Commit(c) \/ CommitUnknown(c) \/ BoundaryLost(c) \/ Crash(c),
               ~ UNCHANGED tables
        PROVE  RefusalIsDefinite'
    <2>1. call[c].at = "written"
      BY <1>5 DEF Commit, CommitUnknown, BoundaryLost, Crash, tables
    <2>2. call[c].request \in Request /\ Fits(call[c].request)
      BY <2>1 DEF IInv, TypeOK, WrittenFits, InTransaction
    <2>3. \/ Doubted(call[c].request) \in uncertain'
          \/ Told(call[c].request, Entry(call[c].request)) \in confirmed'
      BY <1>5 DEF Commit, CommitUnknown, BoundaryLost, Crash, Doubt, tables
    <2>4. QED
      BY <2>2, <2>3, <1>4, <1>5
  <1>6. CASE \E c \in Connections :
                /\ Commits(call[c].request)
                /\ Commit(c) \/ CommitUnknown(c) \/ BoundaryLost(c) \/ Crash(c)
    BY <1>3, <1>5, <1>6
  <1>7. \/ UNCHANGED tables
        \/ \E c \in Connections :
              /\ Commits(call[c].request)
              /\ Commit(c) \/ CommitUnknown(c) \/ BoundaryLost(c) \/ Crash(c)
    BY DEF Next, vars, tables, Transaction, Begin, Replay, Write, Refuse, Commit,
       CommitUnknown, RollbackFails, BoundaryLost, LoadHead, LoadEvents, Dismiss, Crash,
       Close, Open
  <1>8. QED
    BY <1>3, <1>6, <1>7

\* What was refused is not there: an entry of the ledger has a caller who was told of
\* it, or who knows that the outcome is uncertain.
THEOREM RefusalsAreDefinite == Spec => []RefusalIsDefinite
<1>1. Init => RefusalIsDefinite
  BY DEF Init, RefusalIsDefinite, Entries
<1>2. IInv /\ RefusalIsDefinite /\ [Next]_vars => RefusalIsDefinite'
  BY RefusalStep
<1>3. QED
  BY <1>1, <1>2, InvHolds, PTL DEF Spec

\* Neither does a caller believe what the ledger does not say, nor does the ledger
\* hold what no caller could know of, for any number of processes and faults.
THEOREM AnswersMatch == Spec => []AnswersMatchLedger
  BY AnswersHold, RefusalsAreDefinite, PTL DEF AnswersMatchLedger

LEMMA UniqueStep ==
    ASSUME IInv, EventIdsAreUnique, [Next]_vars
    PROVE  EventIdsAreUnique'
  <1>1. CASE UNCHANGED tables
    BY <1>1 DEF tables, EventIdsAreUnique
  <1>2. ASSUME NEW q \in Request, Fits(q), Commits(q)
        PROVE  EventIdsAreUnique'
    <2> DEFINE h == heads[q.matter]
               n == Len(q.events)
    <2>1. /\ h \in Nat /\ n \in Nat \ {0}
          /\ h + n <= MaxStreamEvents
          /\ heads'[q.matter] = h + n
          /\ \A v \in Versions : rows'[q.matter][v] =
                IF v \in h + 1 .. h + n THEN q.events[v - h] ELSE rows[q.matter][v]
          /\ \A i, j \in 1 .. n : q.events[i] = q.events[j] => i = j
          /\ DOMAIN q.events = 1 .. n
      <3>1. q.matter \in Matters /\ n \in Nat \ {0}
        BY RequestFacts
      <3>2. h \in Nat /\ h + n <= MaxStreamEvents
        BY <1>2, <3>1, MaxStreamEventsIsNat DEF IInv, TypeOK, Fits, HasRoom, Last
      <3>3. QED
        BY <1>2, <3>1, <3>2, RequestFacts, CommitTables DEF IInv
    <2>2. ASSUME NEW v \in 1 .. h + n, v > h
          PROVE  v \in Versions /\ v - h \in 1 .. n /\ rows'[q.matter][v] = q.events[v - h]
      <3>1. v \in Versions /\ v - h \in 1 .. n /\ v \in h + 1 .. h + n
        BY <2>1, <2>2, MaxStreamEventsIsNat DEF Versions
      <3>2. QED
        BY <3>1, <2>1
    <2>3. ASSUME NEW v \in 1 .. h + n, v <= h
          PROVE  /\ v \in Versions /\ v \in 1 .. h
                 /\ rows'[q.matter][v] = rows[q.matter][v]
      <3>1. v \in Versions /\ v \in 1 .. h /\ v \notin h + 1 .. h + n
        BY <2>1, <2>3, MaxStreamEventsIsNat DEF Versions
      <3>2. QED
        BY <3>1, <2>1
    <2>4. \A v \in Versions, i \in 1 .. n : rows[q.matter][v] # q.events[i]
      BY <1>2, <2>1 DEF Fits, EventsAreNew
    <2>5. q.matter \in Matters
      BY RequestFacts
    <2>6. ASSUME NEW v \in 1 .. h + n, NEW w \in 1 .. h + n,
                 rows'[q.matter][v] = rows'[q.matter][w]
          PROVE  v = w
      <3>1. CASE v <= h /\ w <= h
        BY <2>3, <2>5, <2>6, <3>1 DEF EventIdsAreUnique
      <3>2. CASE v > h /\ w > h
        <4>1. v - h \in 1 .. n /\ w - h \in 1 .. n /\ q.events[v - h] = q.events[w - h]
          BY <2>2, <2>6, <3>2
        <4>2. v - h = w - h
          BY <4>1, <2>1
        <4>3. QED
          BY <4>2, <2>1
      <3>3. CASE v <= h /\ w > h
        BY <2>2, <2>3, <2>4, <2>6, <3>3
      <3>4. CASE v > h /\ w <= h
        BY <2>2, <2>3, <2>4, <2>6, <3>4
      <3>5. QED
        BY <3>1, <3>2, <3>3, <3>4, <2>1
    <2>7. ASSUME NEW m \in Matters \ {q.matter}
          PROVE  heads'[m] = heads[m] /\ rows'[m] = rows[m]
      BY <1>2, CommitTables DEF IInv
    <2>8. QED
      BY <2>1, <2>6, <2>7 DEF EventIdsAreUnique
  <1>3. QED
    BY <1>1, <1>2, TablesChangeByCommit DEF IInv

\* An event id names one event of its matter.
THEOREM EventsAreNamedOnce == Spec => []EventIdsAreUnique
<1>1. Init => EventIdsAreUnique
  BY DEF Init, EventIdsAreUnique
<1>2. IInv /\ EventIdsAreUnique /\ [Next]_vars => EventIdsAreUnique'
  BY UniqueStep
<1>3. QED
  BY <1>1, <1>2, InvHolds, PTL DEF Spec

-----------------------------------------------------------------------------
(* Refinement                                                                *)

LogBar     == [m \in Matters |-> [v \in 1 .. heads[m] |-> rows[m][v]]]
AppliedBar == [m \in Matters |-> Entries(m)]
ToldBar    == {<<t.matter, t.append>> : t \in confirmed}

\* Concatenation, entry by entry.
LEMMA ConcatOf ==
    ASSUME NEW S, NEW s \in Seq(S), NEW t \in Seq(S)
    PROVE  s \o t = [v \in 1 .. Len(s) + Len(t) |->
                        IF v <= Len(s) THEN s[v] ELSE t[v - Len(s)]]
  <1> DEFINE c == s \o t
  <1>1. /\ c \in Seq(S) /\ Len(c) = Len(s) + Len(t)
        /\ \A v \in 1 .. Len(s) + Len(t) : c[v] = IF v <= Len(s) THEN s[v] ELSE t[v - Len(s)]
    OBVIOUS
  <1> HIDE DEF c
  <1>2. c = [v \in 1 .. Len(c) |-> c[v]]
    BY <1>1
  <1>3. c = [v \in 1 .. Len(s) + Len(t) |-> IF v <= Len(s) THEN s[v] ELSE t[v - Len(s)]]
    BY <1>1, <1>2
  <1>4. QED
    BY <1>3 DEF c

\* A commit is one append to one log.
LEMMA CommitApplies ==
    ASSUME IInv, NEW q \in Request, Fits(q), Commits(q)
    PROVE  /\ Log!Apply(q.matter, q.append, q.events)
           /\ q.append \in AppliedBar'[q.matter]
  <1> DEFINE h == heads[q.matter]
             n == Len(q.events)
  <1>1. /\ q.matter \in Matters
        /\ q.events \in Seq(EventIds)
        /\ n \in Nat \ {0}
        /\ DOMAIN q.events = 1 .. n
    BY RequestFacts
  <1>2. /\ h \in Nat
        /\ h + n <= MaxStreamEvents
    BY <1>1, MaxStreamEventsIsNat DEF IInv, TypeOK, Fits, HasRoom, Last
  <1>3. /\ heads'[q.matter] = h + n
        /\ \A v \in Versions : rows'[q.matter][v] =
              IF v \in h + 1 .. h + n THEN q.events[v - h] ELSE rows[q.matter][v]
        /\ \A m \in Matters \ {q.matter} : heads'[m] = heads[m] /\ rows'[m] = rows[m]
    BY <1>1, CommitTables DEF IInv
  <1>4. /\ q.append \notin Entries(q.matter)
        /\ Entries(q.matter)' = Entries(q.matter) \cup {q.append}
        /\ \A m \in Matters \ {q.matter} : Entries(m)' = Entries(m)
    BY EntriesStep
  <1>5. \A v \in 1 .. h, i \in 1 .. n : rows[q.matter][v] # q.events[i]
    <2>1. \A v \in 1 .. h : v \in Versions
      BY <1>1, <1>2, MaxStreamEventsIsNat DEF Versions
    <2>2. QED
      BY <2>1, <1>1 DEF Fits, EventsAreNew
  <1> DEFINE old == [v \in 1 .. h |-> rows[q.matter][v]]
             new == [v \in 1 .. h + n |-> rows'[q.matter][v]]
  <1>6. new = old \o q.events
    <2>1. h + n \in Nat
      BY <1>1, <1>2
    <2>2. \A v \in 1 .. h + n :
             rows'[q.matter][v] = IF v <= h THEN rows[q.matter][v] ELSE q.events[v - h]
      <3> SUFFICES ASSUME NEW v \in 1 .. h + n
                   PROVE  rows'[q.matter][v] =
                             IF v <= h THEN rows[q.matter][v] ELSE q.events[v - h]
        OBVIOUS
      <3>1. v \in Versions
        BY <1>1, <1>2, MaxStreamEventsIsNat DEF Versions
      <3>2. v \in h + 1 .. h + n <=> ~ (v <= h)
        BY <1>1, <1>2
      <3>3. QED
        BY <3>1, <3>2, <1>3
    <2>3. Len(old) = h /\ old \in Seq({rows[q.matter][v] : v \in 1 .. h})
      BY <1>2
    <2>4. old \o q.events =
             [v \in 1 .. h + n |-> IF v <= h THEN old[v] ELSE q.events[v - h]]
      <3> DEFINE S == {rows[q.matter][v] : v \in 1 .. h} \cup EventIds
      <3>0. old \in Seq(S) /\ q.events \in Seq(S)
        BY <1>1, <2>3
      <3> HIDE DEF S, old
      <3>1. old \o q.events =
               [v \in 1 .. Len(old) + Len(q.events) |->
                   IF v <= Len(old) THEN old[v] ELSE q.events[v - Len(old)]]
        BY <3>0, ConcatOf
      <3>2. Len(q.events) = n /\ Len(old) = h
        BY <2>3
      <3>3. QED
        BY <3>1, <3>2
    <2>5. \A v \in 1 .. h + n :
             rows'[q.matter][v] = IF v <= h THEN old[v] ELSE q.events[v - h]
      <3> SUFFICES ASSUME NEW v \in 1 .. h + n
                   PROVE  rows'[q.matter][v] = IF v <= h THEN old[v] ELSE q.events[v - h]
        OBVIOUS
      <3>1. v <= h => v \in 1 .. h
        BY <1>1, <1>2
      <3>2. v <= h => old[v] = rows[q.matter][v]
        BY <3>1
      <3>3. QED
        BY <3>2, <2>2
    <2>6. new = [v \in 1 .. h + n |-> IF v <= h THEN old[v] ELSE q.events[v - h]]
      BY <2>5
    <2>7. QED
      BY <2>4, <2>6
  <1>7. LogBar' = [LogBar EXCEPT ![q.matter] = @ \o q.events]
    <2>1. LogBar'[q.matter] = LogBar[q.matter] \o q.events
      BY <1>1, <1>3, <1>6 DEF LogBar
    <2>2. \A m \in Matters \ {q.matter} : LogBar'[m] = LogBar[m]
      BY <1>3 DEF LogBar
    <2>3. QED
      BY <2>1, <2>2, <1>1 DEF LogBar
  <1>8. AppliedBar' = [AppliedBar EXCEPT ![q.matter] = @ \cup {q.append}]
    BY <1>1, <1>4 DEF AppliedBar
  <1>9. q.append \notin AppliedBar[q.matter]
    BY <1>1, <1>4 DEF AppliedBar
  <1>10. {LogBar[q.matter][v] : v \in DOMAIN LogBar[q.matter]}
            \cap {q.events[i] : i \in DOMAIN q.events} = {}
    BY <1>1, <1>5 DEF LogBar
  <1>11. q.append \in AppliedBar'[q.matter]
    BY <1>1, <1>4 DEF AppliedBar
  <1>12. QED
    BY <1>7, <1>8, <1>9, <1>10, <1>11
       DEF Log!Apply, Log!Held, LogBar, AppliedBar

LEMMA ToldGrows ==
    ASSUME NEW q, NEW range, confirmed' = confirmed \cup {Told(q, range)}
    PROVE  ToldBar' = ToldBar \cup {<<q.matter, q.append>>}
  <1>1. Told(q, range).matter = q.matter /\ Told(q, range).append = q.append
    BY DEF Told
  <1>2. ToldBar' = {<<t.matter, t.append>> : t \in confirmed \cup {Told(q, range)}}
    BY DEF ToldBar
  <1>3. QED
    BY <1>1, <1>2 DEF ToldBar

LEMMA TellingIsAStep ==
    ASSUME NEW m \in Matters, NEW a \in AppendIds,
           a \in AppliedBar'[m], ToldBar' = ToldBar \cup {<<m, a>>},
           LogBar' = LogBar, AppliedBar' = AppliedBar
    PROVE  Log!Next
  <1>1. Log!Tell(m, a)
    BY DEF Log!Tell, AppliedBar, ToldBar
  <1>2. QED
    BY <1>1 DEF Log!Next, LogBar, AppliedBar

\* The tables implement the log: every append takes effect at most once, whole, at the
\* end of one log, and only what took effect is told.
THEOREM LogIsImplemented == Spec => ImplementsLog
<1> DEFINE LogVars == <<LogBar, AppliedBar, ToldBar>>
<1>1. Init => Log!Init
  <2> SUFFICES ASSUME Init PROVE Log!Init
    OBVIOUS
  <2>1. \A m \in Matters : [v \in 1 .. heads[m] |-> rows[m][v]] = << >>
    <3>1. \A m \in Matters : heads[m] = 0
      BY DEF Init
    <3>2. QED
      BY <3>1
  <2>2. \A m \in Matters : Entries(m) = {}
    BY DEF Init, Entries
  <2>3. {<<t.matter, t.append>> : t \in confirmed} = {}
    BY DEF Init
  <2>4. QED
    BY <2>1, <2>2, <2>3 DEF Log!Init
<1>2. IInv /\ TellsTheLedger /\ [Next]_vars => [Log!Next]_LogVars
  <2> SUFFICES ASSUME IInv, TellsTheLedger, [Next]_vars PROVE [Log!Next]_LogVars
    OBVIOUS
  <2>1. ASSUME UNCHANGED tables
        PROVE  LogBar' = LogBar /\ AppliedBar' = AppliedBar
    BY <2>1 DEF tables, LogBar, AppliedBar, Entries
  <2>2. ASSUME UNCHANGED tables, confirmed' = confirmed
        PROVE  [Log!Next]_LogVars
    BY <2>1, <2>2 DEF ToldBar
  <2>3. ASSUME NEW q \in Request, Fits(q), Commits(q),
               ToldBar' = ToldBar \cup {<<q.matter, q.append>>} \/ ToldBar' = ToldBar
        PROVE  [Log!Next]_LogVars
    <3>1. /\ Log!Apply(q.matter, q.append, q.events)
          /\ q.append \in AppliedBar'[q.matter]
      BY <2>3, CommitApplies
    <3>2. Log!Tell(q.matter, q.append) \/ ToldBar' = ToldBar
      BY <2>3, <3>1 DEF Log!Tell, AppliedBar, ToldBar
    <3>3. q.matter \in Matters /\ q.append \in AppendIds /\ q.events \in Batches
      BY RequestFacts
    <3>4. Log!Next
      BY <3>1, <3>2, <3>3 DEF Log!Next, ToldBar
    <3>5. QED
      BY <3>4
  <2>4. ASSUME NEW c \in Connections, Replay(c)
        PROVE  [Log!Next]_LogVars
    <3> DEFINE q == call[c].request
    <3>1. /\ confirmed' = confirmed \cup {Told(q, Stored(q))}
          /\ UNCHANGED tables
          /\ Stored(q) # Absent
      BY <2>4 DEF Replay, IsReplay, IsNewAppend
    <3>2. q \in Request
      BY <2>4 DEF Replay, IInv, TypeOK, InTransaction
    <3>3. q.matter \in Matters /\ q.append \in AppendIds
      BY <3>2, RequestFacts
    <3>4. ToldBar' = ToldBar \cup {<<q.matter, q.append>>}
      BY <3>1, ToldGrows
    <3>5. q.append \in AppliedBar'[q.matter]
      BY <3>1, <3>3, <2>1 DEF AppliedBar, Entries, Stored
    <3>6. LogBar' = LogBar /\ AppliedBar' = AppliedBar
      BY <3>1, <2>1
    <3>7. Log!Next
      BY <3>3, <3>4, <3>5, <3>6, TellingIsAStep
    <3>8. QED
      BY <3>7
  <2>5. ASSUME NEW c \in Connections, Commit(c)
        PROVE  [Log!Next]_LogVars
    <3> DEFINE q == call[c].request
    <3>1. q \in Request /\ Fits(q) /\ Commits(q)
      BY <2>5 DEF Commit, IInv, TypeOK, InTransaction, WrittenFits
    <3>2. confirmed' = confirmed \cup {Told(q, Entry(q))}
      BY <2>5 DEF Commit
    <3>3. ToldBar' = ToldBar \cup {<<q.matter, q.append>>}
      BY <3>2, ToldGrows
    <3>4. QED
      BY <3>1, <3>3, <2>3
  <2>6. ASSUME NEW c \in Connections, CommitUnknown(c) \/ BoundaryLost(c) \/ Crash(c)
        PROVE  [Log!Next]_LogVars
    <3> DEFINE q == call[c].request
    <3>1. /\ confirmed' = confirmed
          /\ UNCHANGED tables \/ (call[c].at = "written" /\ Commits(q))
      BY <2>6 DEF CommitUnknown, BoundaryLost, Crash, tables
    <3>2. CASE UNCHANGED tables
      BY <3>1, <3>2, <2>2
    <3>3. CASE call[c].at = "written" /\ Commits(q)
      <4>1. q \in Request /\ Fits(q)
        BY <3>3 DEF IInv, TypeOK, InTransaction, WrittenFits
      <4>2. ToldBar' = ToldBar
        BY <3>1 DEF ToldBar
      <4>3. QED
        BY <4>1, <4>2, <3>3, <2>3
    <3>4. QED
      BY <3>1, <3>2, <3>3
  <2>7. ASSUME NEW c \in Connections,
               \/ Write(c) \/ Refuse(c) \/ RollbackFails(c) \/ LoadEvents(c)
               \/ Dismiss(c) \/ Close(c) \/ Open(c)
               \/ \E q \in Request : Begin(c, q)
               \/ \E m \in Matters : LoadHead(c, m)
        PROVE  [Log!Next]_LogVars
    <3>1. UNCHANGED tables /\ confirmed' = confirmed
      BY <2>7 DEF Write, Refuse, RollbackFails, LoadEvents, Dismiss, Close, Open,
         Begin, LoadHead, tables
    <3>2. QED
      BY <3>1, <2>2
  <2>8. CASE UNCHANGED vars
    BY <2>8, <2>2 DEF vars, tables
  <2>9. QED
    BY <2>4, <2>5, <2>6, <2>7, <2>8 DEF Next, Transaction
<1>3. Init => TellsTheLedger
  BY DEF Init, TellsTheLedger
<1>4. IInv /\ TellsTheLedger /\ [Next]_vars => TellsTheLedger'
  BY TellStep
<1>5. QED
  BY <1>1, <1>2, <1>3, <1>4, InvHolds, PTL
     DEF Spec, ImplementsLog, Log!Spec, LogBar, AppliedBar, ToldBar
=============================================================================
