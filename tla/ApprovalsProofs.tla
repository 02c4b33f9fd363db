--------------------------- MODULE ApprovalsProofs ---------------------------
(* For any number of waits and handlers, and any bounds, what the store says  *)
(* of an approval is so: proofs of the properties of Approvals.                *)
EXTENDS Approvals, SequenceTheorems, FiniteSetTheorems, TLAPS

ReceiptType == [wait : Waits, word : Words,
                state : {"accepted", "unknown", "effective", "lapsed"}]
StateType == [receipts : Seq(ReceiptType), lapsed : Seq(Waits), pending : Seq(Waits)]
CallType == [at : {"idle", "list", "page", "submit"}, wait : Waits \cup {None},
             word : Words \cup {"none"}, st : DOMAIN store,
             cards : SUBSET Waits, paused : BOOLEAN]

-----------------------------------------------------------------------------
(* The operators on sequences.                                               *)

LEMMA FirstOfFacts ==
    ASSUME NEW S, NEW s \in Seq(S), NEW n \in Nat
    PROVE  /\ FirstOf(s, n) \in Seq(S)
           /\ Len(FirstOf(s, n)) = IF Len(s) < n THEN Len(s) ELSE n
           /\ \A k \in 1 .. Len(FirstOf(s, n)) : FirstOf(s, n)[k] = s[k]
  BY DEF FirstOf

LEMMA LastOfFacts ==
    ASSUME NEW S, NEW s \in Seq(S), NEW n \in Nat \ {0}
    PROVE  /\ LastOf(s, n) \in Seq(S)
           /\ Len(LastOf(s, n)) = IF Len(s) < n THEN Len(s) ELSE n
           /\ InSeq(LastOf(s, n)) \subseteq InSeq(s)
           /\ Len(s) > 0 => s[Len(s)] \in InSeq(LastOf(s, n))
           /\ Len(s) <= n => LastOf(s, n) = s
  <1> DEFINE m == IF Len(s) < n THEN 1 ELSE Len(s) - n + 1
             t == LastOf(s, n)
  <1>0. Len(s) \in Nat
    OBVIOUS
  <1>1. /\ m \in 1 .. Len(s) + 1 /\ t = SubSeq(s, m, Len(s))
        /\ Len(s) - m + 1 = IF Len(s) < n THEN Len(s) ELSE n
        /\ Len(s) <= n => m = 1
    BY <1>0 DEF LastOf
  <1> HIDE DEF t, m
  <1>2. t \in Seq(S) /\ Len(t) = Len(s) - m + 1 /\ \A k \in 1 .. Len(t) : t[k] = s[m + k - 1]
    BY <1>1
  <1>3. Len(t) = IF Len(s) < n THEN Len(s) ELSE n
    BY <1>1, <1>2
  <1>4. InSeq(t) \subseteq InSeq(s)
    BY <1>1, <1>2 DEF InSeq
  <1>5. Len(s) > 0 => s[Len(s)] \in InSeq(t)
    <2>1. SUFFICES ASSUME Len(s) > 0 PROVE s[Len(s)] \in InSeq(t)
      OBVIOUS
    <2>2. Len(t) \in 1 .. Len(t) /\ t[Len(t)] = s[Len(s)]
      <3>1. Len(t) >= 1
        BY <1>0, <1>3, <2>1
      <3>2. m + Len(t) - 1 = Len(s)
        BY <1>0, <1>1, <1>2
      <3>3. QED
        BY <1>2, <3>1, <3>2
    <2>3. QED
      BY <1>2, <2>2 DEF InSeq
  <1>6. Len(s) <= n => t = s
    <2>1. SUFFICES ASSUME Len(s) <= n PROVE t = s
      OBVIOUS
    <2>2. m = 1
      BY <1>1, <2>1
    <2>3. t \in Seq(S) /\ Len(t) = Len(s) /\ \A k \in 1 .. Len(s) : t[k] = s[k]
      BY <1>0, <1>2, <2>2
    <2>4. QED
      BY <2>3
  <1>7. QED
    BY <1>2, <1>3, <1>4, <1>5, <1>6 DEF t

LEMMA AppendFacts ==
    ASSUME NEW S, NEW s \in Seq(S), NEW x \in S
    PROVE  /\ Append(s, x) \in Seq(S)
           /\ Len(Append(s, x)) = Len(s) + 1
           /\ InSeq(Append(s, x)) = InSeq(s) \cup {x}
           /\ \A k \in 1 .. Len(s) : Append(s, x)[k] = s[k]
           /\ Append(s, x)[Len(s) + 1] = x
  BY DEF InSeq

LEMMA TailFacts ==
    ASSUME NEW S, NEW s \in Seq(S), s # <<>>
    PROVE  /\ Tail(s) \in Seq(S) /\ Head(s) \in S
           /\ Len(Tail(s)) = Len(s) - 1
           /\ \A k \in 1 .. Len(Tail(s)) : Tail(s)[k] = s[k + 1] /\ k + 1 \in 1 .. Len(s)
           /\ Head(s) = s[1] /\ 1 \in 1 .. Len(s)
  OBVIOUS

LEMMA WithoutFacts ==
    ASSUME NEW S, NEW s \in Seq(S), NEW w \in InSeq(s)
    PROVE  /\ Without(s, w) \in Seq(S)
           /\ Len(Without(s, w)) = Len(s) - 1
           /\ \E k \in 1 .. Len(s) :
                 /\ s[k] = w
                 /\ \A n \in 1 .. Len(s) - 1 :
                       Without(s, w)[n] = IF n < k THEN s[n] ELSE s[n + 1]
  <1> DEFINE k == CHOOSE n \in DOMAIN s : s[n] = w
             t == [n \in 1 .. Len(s) - 1 |-> IF n < k THEN s[n] ELSE s[n + 1]]
  <1>1. k \in 1 .. Len(s) /\ s[k] = w
    BY DEF InSeq
  <1>2. t = Without(s, w)
    BY DEF Without
  <1> HIDE DEF k
  <1>3. Len(s) - 1 \in Nat
    BY <1>1
  <1>4. \A n \in 1 .. Len(s) - 1 : t[n] \in S
    BY <1>1
  <1>5. t \in Seq(S) /\ Len(t) = Len(s) - 1
    BY <1>3, <1>4
  <1>6. QED
    BY <1>1, <1>2, <1>5

\* The cards that are gone are cards shown before and not shown now.
LEMMA GoneFacts ==
    ASSUME NEW st \in StateType, NEW cards, NEW gone \in GoneCards(st, cards)
    PROVE  /\ gone \in Seq(Waits)
           /\ \A w \in InSeq(gone) : w \in InSeq(st.pending) /\ w \notin InSeq(cards)
  <1> DEFINE P == {n \in DOMAIN st.pending : IsGone(st, cards, st.pending[n])}
  <1>1. PICK g \in [1 .. Cardinality(P) -> P] : gone = [k \in DOMAIN g |-> st.pending[g[k]]]
    BY DEF GoneCards
  <1>2. IsFiniteSet(P) /\ Cardinality(P) \in Nat
    <2>1. IsFiniteSet(1 .. Len(st.pending)) /\ P \subseteq 1 .. Len(st.pending)
      BY FS_Interval DEF StateType
    <2>2. QED
      BY <2>1, FS_Subset, FS_CardinalityType
  <1>3. DOMAIN gone = 1 .. Cardinality(P)
        /\ \A k \in 1 .. Cardinality(P) :
              /\ gone[k] = st.pending[g[k]] /\ g[k] \in DOMAIN st.pending
              /\ IsGone(st, cards, st.pending[g[k]])
    BY <1>1
  <1>4. \A k \in 1 .. Cardinality(P) : gone[k] \in Waits
    BY <1>3 DEF StateType
  <1> HIDE DEF P
  <1>5. gone \in Seq(Waits)
    <2>1. gone = [k \in 1 .. Cardinality(P) |-> gone[k]]
      BY <1>1, <1>3
    <2>2. QED
      BY <1>2, <1>4, <2>1
  <1>6. \A w \in InSeq(gone) : \E k \in 1 .. Cardinality(P) : w = gone[k]
    BY <1>3 DEF InSeq
  <1>7. QED
    BY <1>3, <1>5, <1>6 DEF IsGone

-----------------------------------------------------------------------------
(* Types.                                                                    *)

Fits(st) ==
    /\ st \in StateType
    /\ Len(st.receipts) <= MaxReceipts
    /\ Len(st.lapsed) <= MaxLapsed
    /\ Len(st.pending) <= MaxCards

LEMMA StatesFit == TypeOK => \A n \in DOMAIN store : Fits(store[n])
  <1>1. SUFFICES ASSUME TypeOK, NEW n \in DOMAIN store PROVE Fits(store[n])
    OBVIOUS
  <1>2. store \in Seq(StateType)
    BY <1>1 DEF TypeOK, StateType, ReceiptType
  <1>3. store[n] \in StateType
    BY <1>1, <1>2
  <1>4. QED
    BY <1>1, <1>3 DEF TypeOK, Fits

LEMMA NewStateFits == Fits(NewState)
  <1>1. <<>> \in Seq(ReceiptType) /\ <<>> \in Seq(Waits) /\ Len(<<>>) = 0
    OBVIOUS
  <1>2. QED
    BY <1>1, BoundsAreNat DEF NewState, Fits, StateType

\* One state is replaced.
LEMMA StorePut ==
    ASSUME TypeOK, NEW n \in DOMAIN store, NEW st, Fits(st),
           store' = [store EXCEPT ![n] = st]
    PROVE  /\ store' \in Seq(StateType) /\ Len(store') = Len(store)
           /\ DOMAIN store' = DOMAIN store
           /\ \A m \in DOMAIN store : store'[m] = IF m = n THEN st ELSE store[m]
           /\ \A m \in DOMAIN store' : Fits(store'[m])
  <1>1. store \in Seq(StateType)
    BY DEF TypeOK, StateType, ReceiptType
  <1>2. st \in StateType
    BY DEF Fits
  <1>3. /\ store' \in Seq(StateType) /\ Len(store') = Len(store)
        /\ DOMAIN store' = DOMAIN store
        /\ \A m \in DOMAIN store : store'[m] = IF m = n THEN st ELSE store[m]
    BY <1>1, <1>2
  <1>4. QED
    BY <1>3, StatesFit

LEMMA StoreKeeps == ASSUME TypeOK, UNCHANGED store
                    PROVE  /\ store' \in Seq(StateType) /\ DOMAIN store \subseteq DOMAIN store'
                           /\ \A m \in DOMAIN store' : Fits(store'[m])
  BY StatesFit DEF TypeOK, StateType, ReceiptType

LEMMA CardsFacts ==
    ASSUME NEW listed \in Seq(Waits)
    PROVE  /\ Cards(listed) \in Seq(Waits) /\ Len(Cards(listed)) <= MaxCards
           /\ InSeq(Cards(listed)) \subseteq Waits
  <1>1. MaxCards \in Nat
    BY BoundsAreNat
  <1>2. Cards(listed) \in Seq(Waits) /\ Len(Cards(listed)) <= MaxCards
    BY <1>1, FirstOfFacts DEF Cards
  <1>3. QED
    BY <1>2 DEF InSeq

LEMMA ListedFits ==
    ASSUME NEW st, Fits(st), NEW cards \in Seq(Waits), Len(cards) <= MaxCards,
           NEW gone \in GoneCards(st, cards)
    PROVE  /\ Fits(Listed(st, cards, gone))
           /\ Listed(st, cards, gone).receipts = st.receipts
           /\ Listed(st, cards, gone).pending = cards
           /\ \A w \in InSeq(Listed(st, cards, gone).lapsed) :
                 w \in InSeq(st.lapsed) \/ (w \in InSeq(st.pending) /\ w \notin InSeq(cards))
  <1> DEFINE all == st.lapsed \o gone
             new == LastOf(all, MaxLapsed)
  <1>1. st \in StateType /\ MaxLapsed \in Nat \ {0}
    BY BoundsAreNat DEF Fits
  <1>2. /\ gone \in Seq(Waits)
        /\ \A w \in InSeq(gone) : w \in InSeq(st.pending) /\ w \notin InSeq(cards)
    BY <1>1, GoneFacts
  <1>3. all \in Seq(Waits) /\ \A w \in InSeq(all) : w \in InSeq(st.lapsed) \cup InSeq(gone)
    <2>1. st.lapsed \in Seq(Waits)
      BY <1>1 DEF StateType
    <2>2. /\ all \in Seq(Waits) /\ Len(all) = Len(st.lapsed) + Len(gone)
          /\ \A k \in 1 .. Len(all) :
                all[k] = IF k <= Len(st.lapsed) THEN st.lapsed[k] ELSE gone[k - Len(st.lapsed)]
      BY <1>2, <2>1
    <2>3. ASSUME NEW k \in 1 .. Len(all) PROVE all[k] \in InSeq(st.lapsed) \cup InSeq(gone)
      <3>1. Len(st.lapsed) \in Nat /\ Len(gone) \in Nat
        BY <1>2, <2>1
      <3>2. CASE k <= Len(st.lapsed)
        BY <2>1, <2>2, <3>1, <3>2 DEF InSeq
      <3>3. CASE ~ (k <= Len(st.lapsed))
        <4>1. k - Len(st.lapsed) \in 1 .. Len(gone)
          BY <2>2, <3>1, <3>3
        <4>2. QED
          BY <1>2, <2>2, <3>3, <4>1 DEF InSeq
      <3>4. QED
        BY <3>2, <3>3
    <2>4. QED
      BY <2>2, <2>3 DEF InSeq
  <1> HIDE DEF all
  <1>4. new \in Seq(Waits) /\ Len(new) <= MaxLapsed /\ InSeq(new) \subseteq InSeq(all)
    <2>1. new \in Seq(Waits) /\ InSeq(new) \subseteq InSeq(all)
          /\ Len(new) = IF Len(all) < MaxLapsed THEN Len(all) ELSE MaxLapsed
      BY <1>1, <1>3, LastOfFacts
    <2>2. QED
      BY <1>1, <1>3, <2>1
  <1> HIDE DEF new
  <1>5. Listed(st, cards, gone) = [receipts |-> st.receipts, lapsed |-> new, pending |-> cards]
    <2>1. Listed(st, cards, gone) = [st EXCEPT !.lapsed = new, !.pending = cards]
      BY Zenon DEF Listed, new, all
    <2>2. QED
      BY <1>1, <2>1 DEF StateType
  <1>6. QED
    BY <1>1, <1>2, <1>3, <1>4, <1>5 DEF Fits, StateType

LEMMA RecordedFits ==
    ASSUME NEW st, Fits(st), NEW w \in Waits, NEW word \in Words,
           NEW state \in {"accepted", "unknown"}
    PROVE  LET new == Recorded(st, w, word, state)
           IN  /\ Fits(new)
               /\ new.lapsed = st.lapsed /\ new.pending = st.pending
               /\ \A r \in InSeq(new.receipts) :
                     r \in InSeq(st.receipts) \/ r = [wait |-> w, word |-> word, state |-> state]
               /\ w \in Receipted(new)
               /\ \A x \in Receipted(st) : x \in Receipted(new) \/ Len(new.receipts) = MaxReceipts
               /\ Len(st.receipts) = MaxReceipts => Len(new.receipts) = MaxReceipts
  <1> DEFINE r == [wait |-> w, word |-> word, state |-> state]
             all == Append(st.receipts, r)
             rs == LastOf(all, MaxReceipts)
             new == Recorded(st, w, word, state)
  <1>1. /\ st \in StateType /\ MaxReceipts \in Nat \ {0} /\ r \in ReceiptType
        /\ st.receipts \in Seq(ReceiptType) /\ Len(st.receipts) <= MaxReceipts
    BY BoundsAreNat DEF Fits, ReceiptType, StateType
  <1> HIDE DEF r
  <1>2. /\ all \in Seq(ReceiptType) /\ Len(all) = Len(st.receipts) + 1
        /\ InSeq(all) = InSeq(st.receipts) \cup {r} /\ all[Len(all)] = r
    BY <1>1, AppendFacts
  <1> HIDE DEF all
  <1>3. /\ rs \in Seq(ReceiptType) /\ Len(rs) = IF Len(all) < MaxReceipts THEN Len(all) ELSE MaxReceipts
        /\ InSeq(rs) \subseteq InSeq(all) /\ r \in InSeq(rs)
        /\ Len(all) <= MaxReceipts => rs = all
    <2>1. Len(all) > 0
      BY <1>1, <1>2
    <2>2. QED
      BY <1>1, <1>2, <2>1, LastOfFacts
  <1> HIDE DEF rs
  <1>4. Len(rs) <= MaxReceipts /\ Len(all) \in Nat /\ Len(rs) \in Nat
        /\ (rs = all \/ Len(rs) = MaxReceipts)
        /\ (Len(st.receipts) = MaxReceipts => Len(rs) = MaxReceipts)
    BY <1>1, <1>2, <1>3
  <1>5. new = [receipts |-> rs, lapsed |-> st.lapsed, pending |-> st.pending]
    BY <1>1 DEF Recorded, StateType, rs, all, r
  <1>6. r.wait = w
    BY DEF r
  <1>7. \A x \in Receipted(st) : x \in Receipted(new) \/ Len(rs) = MaxReceipts
    BY <1>2, <1>4, <1>5 DEF Receipted
  <1>8. w \in Receipted(new)
    BY <1>3, <1>5, <1>6 DEF Receipted
  <1>9. QED
    BY <1>1, <1>2, <1>3, <1>4, <1>5, <1>7, <1>8 DEF Fits, StateType, r

\* A page settles receipts in place.
LEMMA SettledFits ==
    ASSUME TypeOK, NEW r \in ReceiptType, NEW cards, NEW seen, NEW stopped
    PROVE  /\ Settled(r, cards, seen, stopped) \in ReceiptType
           /\ Settled(r, cards, seen, stopped).wait = r.wait
           /\ \/ Settled(r, cards, seen, stopped) = r
              \/ Settled(r, cards, seen, stopped).state = "lapsed"
              \/ /\ Settled(r, cards, seen, stopped).state = "effective"
                 /\ Settled(r, cards, seen, stopped).word = decided[r.wait]
                 /\ decided[r.wait] \in Decisions
  BY DEF Settled, ReceiptType, Words, Decisions, TypeOK

MessageType == [by : Calls \cup {None}, wait : Waits \cup {None}, word : Words \cup {"none"}]
ReplyType == [by : Calls \cup {None}, ok : BOOLEAN, cards : Seq(Waits)]

LEMMA DisownedMessages ==
    ASSUME NEW q \in Seq(MessageType), NEW c \in Calls
    PROVE  /\ Disowned(q, c) \in Seq(MessageType) /\ DOMAIN Disowned(q, c) = DOMAIN q
           /\ \A k \in DOMAIN q :
                 Disowned(q, c)[k] = IF q[k].by = c THEN [q[k] EXCEPT !.by = None] ELSE q[k]
  <1>1. DOMAIN q = 1 .. Len(q) /\ Len(q) \in Nat /\ \A k \in 1 .. Len(q) : q[k] \in MessageType
    OBVIOUS
  <1>2. \A k \in 1 .. Len(q) :
           (IF q[k].by = c THEN [q[k] EXCEPT !.by = None] ELSE q[k]) \in MessageType
    BY <1>1 DEF MessageType
  <1>3. Disowned(q, c) =
          [k \in 1 .. Len(q) |-> IF q[k].by = c THEN [q[k] EXCEPT !.by = None] ELSE q[k]]
    BY <1>1 DEF Disowned
  <1>4. QED
    BY <1>1, <1>2, <1>3

LEMMA DisownedReplies ==
    ASSUME NEW q \in Seq(ReplyType), NEW c \in Calls
    PROVE  /\ Disowned(q, c) \in Seq(ReplyType) /\ DOMAIN Disowned(q, c) = DOMAIN q
           /\ \A k \in DOMAIN q :
                 Disowned(q, c)[k] = IF q[k].by = c THEN [q[k] EXCEPT !.by = None] ELSE q[k]
  <1>1. DOMAIN q = 1 .. Len(q) /\ Len(q) \in Nat /\ \A k \in 1 .. Len(q) : q[k] \in ReplyType
    OBVIOUS
  <1>2. \A k \in 1 .. Len(q) :
           (IF q[k].by = c THEN [q[k] EXCEPT !.by = None] ELSE q[k]) \in ReplyType
    BY <1>1 DEF ReplyType
  <1>3. Disowned(q, c) =
          [k \in 1 .. Len(q) |-> IF q[k].by = c THEN [q[k] EXCEPT !.by = None] ELSE q[k]]
    BY <1>1 DEF Disowned
  <1>4. QED
    BY <1>1, <1>2, <1>3

\* The types, one variable at a time.
LEMMA Typed ==
    TypeOK <=> /\ entries \in Seq(Waits)
               /\ outcome \in [Waits -> Outcomes \cup {"none", "lost"}]
               /\ decided \in [Waits -> Outcomes \cup {"none"}]
               /\ store \in Seq(StateType) /\ \A n \in DOMAIN store : Fits(store[n])
               /\ paused \in BOOLEAN
               /\ call \in [Calls -> CallType]
               /\ wire \in Seq(MessageType) /\ replies \in Seq(ReplyType)
               /\ sends \in 0 .. MaxSends
  <1>1. store \in Seq(StateType) => \A n \in DOMAIN store : store[n] \in StateType
    OBVIOUS
  <1>2. QED
    BY <1>1 DEF TypeOK, Fits, StateType, ReceiptType, CallType, MessageType, ReplyType

\* The calls keep their types as the store grows.
LEMMA CallsKeep ==
    ASSUME TypeOK, UNCHANGED call, DOMAIN store \subseteq DOMAIN store'
    PROVE  call' \in [Calls -> CallType']
  BY DEF TypeOK, CallType

LEMMA CallGoes ==
    ASSUME TypeOK, NEW c \in Calls, NEW to \in CallType, Goes(c, to),
           DOMAIN store \subseteq DOMAIN store'
    PROVE  /\ call' \in [Calls -> CallType']
           /\ call'[c] = to /\ \A d \in Calls \ {c} : call'[d] = call[d]
  BY DEF TypeOK, CallType, Goes

LEMMA ResolveTypes ==
    ASSUME TypeOK, NEW w \in InSeq(entries), NEW o \in Outcomes, Resolve(w, o)
    PROVE  entries' \in Seq(Waits) /\ outcome' \in [Waits -> Outcomes \cup {"none", "lost"}]
  <1>1. entries \in Seq(Waits) /\ w \in Waits
    BY DEF TypeOK, InSeq
  <1>2. entries' \in Seq(Waits)
    BY <1>1, WithoutFacts DEF Resolve
  <1>3. QED
    BY <1>1, <1>2 DEF Resolve, TypeOK

LEMMA StateOfCall ==
    ASSUME TypeOK, NEW c \in Calls
    PROVE  call[c].st \in DOMAIN store /\ Fits(store[call[c].st])
  BY StatesFit DEF TypeOK

\* One state changes, if any.
OthersKeep(n) ==
    /\ n \in DOMAIN store /\ DOMAIN store' = DOMAIN store
    /\ \A m \in DOMAIN store : m # n => store'[m] = store[m]

LEMMA PagedStep ==
    ASSUME TypeOK, NEW c \in Calls, ReadPaged(c)
    PROVE  /\ store' \in Seq(StateType) /\ \A m \in DOMAIN store' : Fits(store'[m])
           /\ OthersKeep(call[c].st)
           /\ store'[call[c].st].lapsed = store[call[c].st].lapsed
           /\ store'[call[c].st].pending = store[call[c].st].pending
           /\ DOMAIN store'[call[c].st].receipts = DOMAIN store[call[c].st].receipts
           /\ Len(store'[call[c].st].receipts) = Len(store[call[c].st].receipts)
           /\ \A k \in DOMAIN store[call[c].st].receipts :
                 LET r == store[call[c].st].receipts[k]  s == store'[call[c].st].receipts[k]
                 IN  /\ r \in ReceiptType /\ s \in ReceiptType /\ s.wait = r.wait
                     /\ \/ s = r \/ s.state = "lapsed"
                        \/ /\ s.state = "effective"
                           /\ s.word = decided[r.wait] /\ decided[r.wait] \in Decisions
  <1>1. PICK seen :
           store' = [store EXCEPT ![call[c].st].receipts =
              [n \in DOMAIN @ |-> Settled(@[n], call[c].cards, seen, call[c].paused)]]
    BY DEF ReadPaged
  <1> DEFINE n == call[c].st
             old == store[n].receipts
             new == [k \in DOMAIN old |-> Settled(old[k], call[c].cards, seen, call[c].paused)]
             st == [store[n] EXCEPT !.receipts = new]
  <1>2. n \in DOMAIN store /\ Fits(store[n])
    BY StateOfCall
  <1>3. store[n] \in StateType /\ old \in Seq(ReceiptType) /\ Len(old) <= MaxReceipts
    BY <1>2 DEF Fits, StateType
  <1>4. DOMAIN old = 1 .. Len(old) /\ Len(old) \in Nat /\ \A k \in DOMAIN old : old[k] \in ReceiptType
    BY <1>3
  <1>5. DOMAIN new = 1 .. Len(old) /\ new = [k \in 1 .. Len(old) |-> new[k]]
    BY <1>4
  <1>6. ASSUME NEW k \in DOMAIN old
        PROVE  /\ new[k] \in ReceiptType /\ new[k].wait = old[k].wait
               /\ \/ new[k] = old[k] \/ new[k].state = "lapsed"
                  \/ /\ new[k].state = "effective"
                     /\ new[k].word = decided[old[k].wait] /\ decided[old[k].wait] \in Decisions
    <2> DEFINE s == Settled(old[k], call[c].cards, seen, call[c].paused)
    <2>1. new[k] = s /\ old[k] \in ReceiptType
      BY <1>4, <1>6
    <2>2. /\ s \in ReceiptType /\ s.wait = old[k].wait
          /\ \/ s = old[k] \/ s.state = "lapsed"
             \/ /\ s.state = "effective"
                /\ s.word = decided[old[k].wait] /\ decided[old[k].wait] \in Decisions
      BY <2>1, SettledFits
    <2> HIDE DEF s, new
    <2>3. QED
      BY <2>1, <2>2
  <1>7. store' = [store EXCEPT ![n] = st]
    BY <1>1, <1>2
  <1> HIDE DEF new
  <1>8. new \in Seq(ReceiptType) /\ Len(new) = Len(old)
    <2>1. \A k \in 1 .. Len(old) : new[k] \in ReceiptType
      BY <1>4, <1>6
    <2> HIDE DEF old
    <2>2. [k \in 1 .. Len(old) |-> new[k]] \in Seq(ReceiptType)
      BY <1>4, <2>1
    <2>3. QED
      BY <1>4, <1>5, <2>2
  <1>9. /\ st.receipts = new /\ st.lapsed = store[n].lapsed /\ st.pending = store[n].pending
        /\ st \in StateType
    BY <1>3, <1>8 DEF StateType
  <1> HIDE DEF st
  <1>10. Fits(st)
    BY <1>2, <1>3, <1>8, <1>9 DEF Fits
  <1>11. /\ store' \in Seq(StateType) /\ DOMAIN store' = DOMAIN store
         /\ \A m \in DOMAIN store : store'[m] = IF m = n THEN st ELSE store[m]
         /\ \A m \in DOMAIN store' : Fits(store'[m])
    BY <1>2, <1>7, <1>10, StorePut
  <1>12. /\ OthersKeep(n) /\ store'[n].receipts = new
         /\ store'[n].lapsed = store[n].lapsed /\ store'[n].pending = store[n].pending
    BY <1>2, <1>9, <1>11 DEF OthersKeep
  <1>13. QED
    BY <1>4, <1>5, <1>6, <1>8, <1>11, <1>12

LEMMA RecordsFits ==
    ASSUME TypeOK, NEW c \in Calls, call[c].at = "submit", call[c].wait \in Waits,
           call[c].word \in Words, NEW state \in {"accepted", "unknown"}, Records(c, state)
    PROVE  LET n == call[c].st
               st == Recorded(store[n], call[c].wait, call[c].word, state)
           IN  n \in DOMAIN store /\ Fits(st) /\ store' = [store EXCEPT ![n] = st]
  <1>1. call[c].st \in DOMAIN store /\ Fits(store[call[c].st])
    BY StateOfCall
  <1>2. Fits(Recorded(store[call[c].st], call[c].wait, call[c].word, state))
    BY <1>1, RecordedFits
  <1>3. QED
    BY <1>1, <1>2 DEF Records

\* What a handler waits for.
CallsWaitForTheirOwn ==
    \A c \in Calls :
        /\ call[c].at = "submit" => call[c].wait \in Waits /\ call[c].word \in Words
        /\ call[c].at = "list" => call[c].word = "none"

\* Where a handler stands after a call of its own has left.
LEMMA SendGoes ==
    ASSUME TypeOK, NEW c \in Calls, NEW at \in {"list", "submit"}, NEW w \in Waits \cup {None},
           NEW word \in Words \cup {"none"}, Send(c, at, w, word)
    PROVE  /\ call[c] = Idle /\ sends < MaxSends /\ sends' = sends + 1
           /\ call' = [call EXCEPT ![c] =
                [at |-> at, wait |-> w, word |-> word, st |-> Len(store), cards |-> {},
                 paused |-> FALSE]]
           /\ wire' = Append(wire, [by |-> c, wait |-> w, word |-> word])
  <1> DEFINE to == [Idle EXCEPT !.at = at, !.wait = w, !.word = word, !.st = Current]
  <1>1. to = [at |-> at, wait |-> w, word |-> word, st |-> Len(store), cards |-> {},
              paused |-> FALSE]
    <2>1. /\ DOMAIN to = {"at", "wait", "word", "st", "cards", "paused"}
          /\ to = [f \in DOMAIN to |-> to[f]]
          /\ to.at = at /\ to.wait = w /\ to.word = word /\ to.st = Len(store)
          /\ to.cards = {} /\ to.paused = FALSE
      BY DEF Idle, Current
    <2> HIDE DEF to
    <2>2. QED
      BY <2>1
  <1>2. call' = [call EXCEPT ![c] = to]
    BY Zenon DEF Send, Goes
  <1> HIDE DEF to
  <1>3. QED
    BY <1>1, <1>2 DEF Send

LEMMA CallsWaitStep ==
    ASSUME TypeOK, CallsWaitForTheirOwn, [Next]_vars
    PROVE  CallsWaitForTheirOwn'
  <1>1. CASE UNCHANGED call
    BY <1>1 DEF CallsWaitForTheirOwn
  <1>2. ASSUME NEW c \in Calls, NEW to, Goes(c, to),
               to.at = "submit" => to.wait \in Waits /\ to.word \in Words,
               to.at = "list" => to.word = "none"
        PROVE  CallsWaitForTheirOwn'
    BY <1>2 DEF TypeOK, CallsWaitForTheirOwn, Goes
  <1>3. ASSUME NEW c \in Calls, Goes(c, Idle)
        PROVE  CallsWaitForTheirOwn'
    <2>1. Idle.at = "idle"
      BY DEF Idle
    <2>2. QED
      BY <1>2, <1>3, <2>1
  <1>4. ASSUME NEW c \in Calls, Handler(c)
        PROVE  CallsWaitForTheirOwn'
    <2>1. CASE ReadListed(c)
      <3>1. CASE Goes(c, Idle)
        BY <1>3, <3>1
      <3>2. CASE ~ Goes(c, Idle)
        <4>1. \E cards : Goes(c, [call[c] EXCEPT !.at = "page", !.cards = cards, !.paused = paused])
          BY <2>1, <3>2, Zenon DEF ReadListed
        <4>2. PICK cards : Goes(c, [call[c] EXCEPT !.at = "page", !.cards = cards, !.paused = paused])
          BY <4>1
        <4>3. [call[c] EXCEPT !.at = "page", !.cards = cards, !.paused = paused].at = "page"
          BY DEF TypeOK
        <4>4. QED
          BY <1>2, <4>2, <4>3
      <3>3. QED
        BY <3>1, <3>2
    <2>2. CASE ReadPaged(c) \/ Submitted(c) \/ Rejected(c)
      BY <1>3, <2>2 DEF ReadPaged, Submitted, Rejected
    <2>3. CASE Read(c)
      <3>1. call' = [call EXCEPT ![c] =
                [at |-> "list", wait |-> None, word |-> "none", st |-> Len(store), cards |-> {},
                 paused |-> FALSE]]
        <4>1. Send(c, "list", None, "none")
          BY <2>3 DEF Read
        <4>2. QED
          BY <4>1, SendGoes, Zenon
      <3>2. QED
        BY <1>2, <3>1 DEF Goes
    <2>4. CASE \E w \in Waits, word \in Words : Submit(c, w, word)
      <3>1. PICK w \in Waits, word \in Words : Submit(c, w, word)
        BY <2>4
      <3>2. call' = [call EXCEPT ![c] =
                [at |-> "submit", wait |-> w, word |-> word, st |-> Len(store), cards |-> {},
                 paused |-> FALSE]]
        <4>1. Send(c, "submit", w, word)
          BY <3>1 DEF Submit
        <4>2. QED
          BY <4>1, SendGoes, Zenon
      <3>3. QED
        BY <1>2, <3>2 DEF Goes
    <2>5. QED
      BY <1>4, <2>1, <2>2, <2>3, <2>4 DEF Handler
  <1>5. QED
    BY <1>1, <1>4 DEF Next, BaseNext, Claim, Abort, Decide, Serve, HostEnds, Dropped, Pause,
                      Evicted, vars

LEMMA TypeStep ==
    ASSUME TypeOK, CallsWaitForTheirOwn, [Next]_vars
    PROVE  TypeOK'
  <1>0. /\ entries \in Seq(Waits)
        /\ outcome \in [Waits -> Outcomes \cup {"none", "lost"}]
        /\ decided \in [Waits -> Outcomes \cup {"none"}]
        /\ store \in Seq(StateType) /\ \A n \in DOMAIN store : Fits(store[n])
        /\ paused \in BOOLEAN
        /\ call \in [Calls -> CallType]
        /\ wire \in Seq(MessageType) /\ replies \in Seq(ReplyType)
        /\ sends \in 0 .. MaxSends
    BY Typed
  <1> DEFINE Goal ==
               /\ entries' \in Seq(Waits)
               /\ outcome' \in [Waits -> Outcomes \cup {"none", "lost"}]
               /\ decided' \in [Waits -> Outcomes \cup {"none"}]
               /\ store' \in Seq(StateType) /\ \A n \in DOMAIN store' : Fits(store'[n])
               /\ paused' \in BOOLEAN
               /\ call' \in [Calls -> CallType']
               /\ wire' \in Seq(MessageType) /\ replies' \in Seq(ReplyType)
               /\ sends' \in 0 .. MaxSends
  <1>00. Goal => TypeOK'
    BY Typed DEF Fits, StateType, ReceiptType, MessageType, ReplyType, CallType, TypeOK
  <1>1. CASE UNCHANGED vars
    BY <1>1, <1>0, CallsKeep DEF vars, TypeOK
  <1>01. UNCHANGED <<store, call>> => call' \in [Calls -> CallType']
    BY CallsKeep
  <1>2. ASSUME NEW w \in Waits, Claim(w) \/ Abort(w) \/ Decide(w)
        PROVE  TypeOK'
    <2>1. CASE Claim(w)
      <3>1. entries' \in Seq(Waits) /\ outcome' \in [Waits -> Outcomes \cup {"none", "lost"}]
        <4>1. Append(entries, w) \in Seq(Waits)
          BY <1>0
        <4>2. [outcome EXCEPT ![w] = "cancelled"] \in [Waits -> Outcomes \cup {"none", "lost"}]
          BY <1>0 DEF Outcomes
        <4>3. \/ entries' = Append(entries, w) /\ outcome' = outcome
              \/ outcome' = [outcome EXCEPT ![w] = "cancelled"] /\ entries' = entries
          BY <2>1 DEF Claim
        <4>4. QED
          BY <1>0, <4>1, <4>2, <4>3
      <3>2. QED
        BY <1>0, <1>00, <1>01, <2>1, <3>1 DEF Claim
    <2>2. CASE Abort(w)
      <3>1. entries' \in Seq(Waits) /\ outcome' \in [Waits -> Outcomes \cup {"none", "lost"}]
        BY <2>2, ResolveTypes DEF Abort, Outcomes
      <3>2. QED
        BY <1>0, <1>00, <1>01, <2>2, <3>1 DEF Abort
    <2>3. CASE Decide(w)
      <3>1. decided' \in [Waits -> Outcomes \cup {"none"}]
        BY <1>0, <2>3 DEF Decide
      <3>2. QED
        BY <1>0, <1>00, <1>01, <2>3, <3>1 DEF Decide
    <2>4. QED
      BY <1>2, <2>1, <2>2, <2>3
  <1>3. CASE Serve
    <2> DEFINE q == Head(wire)
               held == q.wait \in InSeq(entries)
               reply == [by |-> q.by, ok |-> q.word = "none" \/ held,
                         cards |-> IF q.word = "none" THEN entries ELSE <<>>]
    <2>1. q \in MessageType /\ wire' \in Seq(MessageType)
      BY <1>0, <1>3, TailFacts DEF Serve
    <2>2. reply \in ReplyType
      BY <1>0, <2>1 DEF ReplyType, MessageType
    <2>3. replies' \in Seq(ReplyType)
      <3>1. replies' = Append(replies, reply)
        BY <1>3 DEF Serve
      <3>2. QED
        BY <1>0, <2>2, <3>1, AppendFacts
    <2>4. entries' \in Seq(Waits) /\ outcome' \in [Waits -> Outcomes \cup {"none", "lost"}]
      <3>1. CASE q.word # "none" /\ held
        <4>1. OutcomeOf(q.word) \in Outcomes
          BY <2>1, <3>1 DEF MessageType, OutcomeOf, Words, Outcomes, Decisions
        <4>2. Resolve(q.wait, OutcomeOf(q.word))
          BY <1>3, <3>1 DEF Serve
        <4>3. QED
          BY <3>1, <4>1, <4>2, ResolveTypes
      <3>2. CASE ~ (q.word # "none" /\ held)
        BY <1>0, <1>3, <3>2 DEF Serve
      <3>3. QED
        BY <3>1, <3>2
    <2>5. UNCHANGED <<decided, store, paused, call, sends>>
      BY <1>3 DEF Serve
    <2>6. QED
      BY <1>0, <1>00, <1>01, <2>1, <2>3, <2>4, <2>5
  <1>4. CASE HostEnds
    <2>1. outcome' \in [Waits -> Outcomes \cup {"none", "lost"}] /\ entries' \in Seq(Waits)
      BY <1>0, <1>4 DEF HostEnds
    <2>2. wire' \in Seq(MessageType) /\ replies' \in Seq(ReplyType)
      BY <1>4 DEF HostEnds
    <2>3. QED
      BY <1>0, <1>00, <1>01, <1>4, <2>1, <2>2 DEF HostEnds
  <1>5. CASE Dropped
    <2>1. replies' \in Seq(ReplyType)
      BY <1>0, <1>5, TailFacts DEF Dropped, Answered
    <2>2. QED
      BY <1>0, <1>00, <1>01, <1>5, <2>1 DEF Dropped, host
  <1>6. CASE Pause
    BY <1>0, <1>00, <1>01, <1>6 DEF Pause, host
  <1>7. CASE Evicted
    <2>1. NewState \in StateType
      BY NewStateFits DEF Fits
    <2>2. /\ store' \in Seq(StateType) /\ Len(store') = Len(store) + 1
          /\ \A n \in 1 .. Len(store) : store'[n] = store[n]
          /\ store'[Len(store) + 1] = NewState
      BY <1>0, <1>7, <2>1, AppendFacts DEF Evicted
    <2>3. DOMAIN store \subseteq DOMAIN store'
      BY <1>0, <2>2
    <2>4. \A n \in DOMAIN store' : Fits(store'[n])
      BY <1>0, <2>2, NewStateFits
    <2>5. call' \in [Calls -> CallType']
      BY <1>7, <2>3, CallsKeep DEF Evicted
    <2>6. QED
      BY <1>0, <1>00, <1>7, <2>2, <2>4, <2>5 DEF Evicted, host
  <1>8. ASSUME NEW c \in Calls, Handler(c)
        PROVE  TypeOK'
    <2>1. CASE Read(c) \/ \E w \in Waits, word \in Words : Submit(c, w, word)
      <3>1. PICK at \in {"list", "submit"}, w \in Waits \cup {None}, word \in Words \cup {"none"} :
               Send(c, at, w, word) /\ UNCHANGED <<host, store, paused, replies>>
        BY <2>1 DEF Read, Submit
      <3> DEFINE to == [at |-> at, wait |-> w, word |-> word, st |-> Len(store), cards |-> {},
                        paused |-> FALSE]
                 q == [by |-> c, wait |-> w, word |-> word]
      <3>2. /\ sends' \in 0 .. MaxSends /\ call' = [call EXCEPT ![c] = to]
            /\ wire' = Append(wire, q)
        <4>1. /\ sends < MaxSends /\ sends' = sends + 1 /\ call' = [call EXCEPT ![c] = to]
              /\ wire' = Append(wire, q)
          BY <3>1, SendGoes, Zenon
        <4>2. MaxSends \in Nat
          BY BoundsAreNat
        <4>3. QED
          BY <1>0, <4>1, <4>2
      <3>3. Len(store) \in DOMAIN store
        <4>1. call[c].st \in DOMAIN store
          BY StateOfCall
        <4>2. QED
          BY <1>0, <4>1
      <3>4. to \in CallType
        BY <3>1, <3>3 DEF CallType
      <3>5. q \in MessageType
        BY <3>1 DEF MessageType
      <3>6. wire' \in Seq(MessageType)
        BY <1>0, <3>2, <3>5, AppendFacts
      <3>7. call' \in [Calls -> CallType']
        BY <3>1, <3>2, <3>4, CallGoes DEF Goes
      <3>8. QED
        BY <1>0, <1>00, <3>1, <3>2, <3>6, <3>7 DEF host
    <2>2. CASE ReadListed(c)
      <3> DEFINE n == call[c].st
                 cards == Cards(Head(replies).cards)
      <3>1. n \in DOMAIN store /\ Fits(store[n])
        BY StateOfCall
      <3>2. Head(replies) \in ReplyType /\ replies' \in Seq(ReplyType)
        BY <1>0, <2>2, TailFacts DEF ReadListed, Answered
      <3>3. cards \in Seq(Waits) /\ Len(cards) <= MaxCards /\ InSeq(cards) \subseteq Waits
        BY <3>2, CardsFacts DEF ReplyType
      <3>4. PICK gone \in GoneCards(store[n], cards) :
               store' = [store EXCEPT ![n] = Listed(store[n], cards, gone)]
        BY <2>2 DEF ReadListed
      <3> HIDE DEF cards
      <3>5. Fits(Listed(store[n], cards, gone))
        BY <3>1, <3>3, <3>4, ListedFits
      <3>6. /\ store' \in Seq(StateType) /\ \A m \in DOMAIN store' : Fits(store'[m])
            /\ DOMAIN store' = DOMAIN store
        BY <3>1, <3>4, <3>5, StorePut
      <3>7. \/ Goes(c, Idle)
            \/ Goes(c, [call[c] EXCEPT !.at = "page", !.cards = InSeq(cards), !.paused = paused])
        BY <2>2, Zenon DEF ReadListed, cards
      <3>8. \E to \in CallType : Goes(c, to)
        <4>1. call[c] \in CallType
          BY <1>0
        <4>2. [call[c] EXCEPT !.at = "page", !.cards = InSeq(cards), !.paused = paused] \in CallType
          BY <1>0, <3>3, <4>1 DEF CallType
        <4>3. Idle \in CallType
          BY <1>0, <3>1 DEF CallType, Idle
        <4>4. QED
          BY <3>7, <4>2, <4>3
      <3>9. call' \in [Calls -> CallType']
        BY <3>6, <3>8, CallGoes
      <3>10. UNCHANGED <<host, paused, wire, sends>>
        BY <2>2 DEF ReadListed
      <3>11. QED
        BY <1>0, <1>00, <3>2, <3>6, <3>9, <3>10 DEF host
    <2>3. ASSUME /\ Goes(c, Idle)
                 /\ store' \in Seq(StateType) /\ \A m \in DOMAIN store' : Fits(store'[m])
                 /\ DOMAIN store' = DOMAIN store
          PROVE  call' \in [Calls -> CallType']
      <3>1. call[c].st \in DOMAIN store
        BY StateOfCall
      <3>2. Idle \in CallType
        BY <1>0, <3>1 DEF CallType, Idle
      <3>3. QED
        BY <2>3, <3>2, CallGoes
    <2>4. CASE ReadPaged(c)
      <3>3. /\ store' \in Seq(StateType) /\ \A m \in DOMAIN store' : Fits(store'[m])
            /\ DOMAIN store' = DOMAIN store
        BY <2>4, PagedStep DEF OthersKeep
      <3>4. Goes(c, Idle) /\ UNCHANGED <<host, paused, wire, replies, sends>>
        BY <2>4 DEF ReadPaged
      <3>5. QED
        BY <1>0, <1>00, <2>3, <3>3, <3>4 DEF host
    <2>5. ASSUME NEW state \in {"accepted", "unknown"}, Records(c, state), call[c].at = "submit"
          PROVE  /\ store' \in Seq(StateType) /\ \A m \in DOMAIN store' : Fits(store'[m])
                 /\ DOMAIN store' = DOMAIN store
      <3>1. call[c].wait \in Waits /\ call[c].word \in Words
        BY <2>5 DEF CallsWaitForTheirOwn
      <3>2. \E n \in DOMAIN store : \E st : Fits(st) /\ store' = [store EXCEPT ![n] = st]
        BY <2>5, <3>1, RecordsFits
      <3>3. QED
        BY <3>2, StorePut
    <2>6. CASE Submitted(c)
      <3>1. \E state \in {"accepted", "unknown"} : Records(c, state) /\ call[c].at = "submit"
        BY <2>6 DEF Submitted
      <3>2. replies' \in Seq(ReplyType)
        BY <1>0, <2>6, TailFacts DEF Submitted, Answered
      <3>3. Goes(c, Idle) /\ UNCHANGED <<host, paused, wire, sends>>
        BY <2>6 DEF Submitted
      <3>4. QED
        BY <1>0, <1>00, <2>3, <2>5, <3>1, <3>2, <3>3 DEF host
    <2>7. CASE Rejected(c)
      <3>1. \/ UNCHANGED store
            \/ \E state \in {"accepted", "unknown"} : Records(c, state) /\ call[c].at = "submit"
        BY <2>7 DEF Rejected
      <3>2. wire' \in Seq(MessageType) /\ replies' \in Seq(ReplyType)
        BY <1>0, <2>7, DisownedMessages, DisownedReplies DEF Rejected
      <3>3. Goes(c, Idle) /\ UNCHANGED <<host, paused, sends>>
        BY <2>7 DEF Rejected
      <3>4. /\ store' \in Seq(StateType) /\ \A m \in DOMAIN store' : Fits(store'[m])
            /\ DOMAIN store' = DOMAIN store
        BY <1>0, <2>5, <3>1
      <3>5. QED
        BY <1>0, <1>00, <2>3, <3>2, <3>3, <3>4 DEF host
    <2>8. QED
      BY <1>8, <2>1, <2>2, <2>4, <2>6, <2>7 DEF Handler
  <1>9. QED
    BY <1>1, <1>2, <1>3, <1>4, <1>5, <1>6, <1>7, <1>8 DEF Next, BaseNext

-----------------------------------------------------------------------------
(* The inductive invariant.                                                  *)

\* What a resolved wait was resolved to is never taken back, and a wait is held, or
\* resolved, or neither.
RegistryIsOpen ==
    /\ \A w \in InSeq(entries) : outcome[w] = "none"
    /\ \A i, j \in DOMAIN entries : entries[i] = entries[j] => i = j
    /\ \A w \in Waits : decided[w] # "none" => outcome[w] = decided[w]

\* A message of a handler is the one it waits for, and the only one.
MessagesAreOwned ==
    /\ \A k \in DOMAIN wire : wire[k].by # None =>
          /\ call[wire[k].by].at \in {"list", "submit"}
          /\ wire[k].wait = call[wire[k].by].wait /\ wire[k].word = call[wire[k].by].word
    /\ \A k \in DOMAIN replies : replies[k].by # None =>
          /\ call[replies[k].by].at \in {"list", "submit"}
          /\ call[replies[k].by].at = "submit" /\ replies[k].ok =>
                outcome[call[replies[k].by].wait] \in {OutcomeOf(call[replies[k].by].word), "lost"}
    /\ \A i, j \in DOMAIN wire : wire[i].by # None /\ wire[i].by = wire[j].by => i = j
    /\ \A i, j \in DOMAIN replies : replies[i].by # None /\ replies[i].by = replies[j].by => i = j
    /\ \A i \in DOMAIN wire, j \in DOMAIN replies : wire[i].by # None => wire[i].by # replies[j].by

\* The user's word on a wait has left its trace.
Touched(w) ==
    \/ \E n \in DOMAIN store : w \in Receipted(store[n]) \/ Len(store[n].receipts) = MaxReceipts
    \/ \E c \in Calls : call[c].at = "submit" /\ call[c].wait = w

GrantsAreTouched ==
    /\ \A k \in DOMAIN wire : wire[k].word = "allowed-once" => Touched(wire[k].wait)
    /\ \A w \in Waits : outcome[w] = "allowed-once" => Touched(w)

\* The listing a read will be given.
IsListing(k) == replies[k].by # None /\ call[replies[k].by].at = "list"
Shown(k)     == InSeq(Cards(replies[k].cards))

\* A wait that is shown and open is still among the first the Host holds, and in
\* every listing that is on its way.
ShownIsListed ==
    /\ \A n \in DOMAIN store : \A w \in InSeq(store[n].pending) : outcome[w] = "none" =>
          /\ w \in InSeq(Cards(entries))
          /\ \A k \in DOMAIN replies : IsListing(k) => w \in Shown(k)
    /\ \A i \in DOMAIN replies : \A w \in Shown(i) : outcome[w] = "none" =>
          /\ w \in InSeq(Cards(entries))
          /\ \A j \in DOMAIN replies : i < j /\ IsListing(j) => w \in Shown(j)

LapsedIsResolved ==
    \A n \in DOMAIN store : \A w \in InSeq(store[n].lapsed) : outcome[w] # "none"

IInv ==
    /\ TypeOK /\ CallsWaitForTheirOwn
    /\ RegistryIsOpen /\ MessagesAreOwned /\ ReceiptsAreTrue
    /\ GrantsAreTouched /\ ShownIsListed /\ LapsedIsResolved

LEMMA InFirst ==
    ASSUME NEW S, NEW s \in Seq(S), NEW n \in Nat, NEW x
    PROVE  x \in InSeq(FirstOf(s, n)) <=> \E i \in 1 .. Len(s) : i <= n /\ s[i] = x
  <1> DEFINE t == FirstOf(s, n)
  <1>1. /\ t \in Seq(S) /\ Len(t) = IF Len(s) < n THEN Len(s) ELSE n
        /\ \A k \in 1 .. Len(t) : t[k] = s[k]
    BY FirstOfFacts
  <1>2. Len(s) \in Nat
    OBVIOUS
  <1> HIDE DEF t
  <1>3. 1 .. Len(t) = {i \in 1 .. Len(s) : i <= n}
    BY <1>1, <1>2
  <1>4. x \in InSeq(t) <=> \E i \in 1 .. Len(t) : t[i] = x
    BY <1>1 DEF InSeq
  <1>5. QED
    BY <1>1, <1>3, <1>4 DEF t

OneEach(s) == \A i, j \in DOMAIN s : s[i] = s[j] => i = j

\* What leaves a sequence leaves it once, and the others move up.
LEMMA WithoutSet ==
    ASSUME NEW S, NEW s \in Seq(S), OneEach(s), NEW w \in InSeq(s), NEW m \in Nat
    PROVE  LET t == Without(s, w)
           IN  /\ t \in Seq(S) /\ OneEach(t)
               /\ \A x \in InSeq(t) : x \in InSeq(s) /\ x # w
               /\ \A x \in InSeq(FirstOf(s, m)) : x # w => x \in InSeq(FirstOf(t, m))
  <1> DEFINE t == Without(s, w)
  <1>1. t \in Seq(S) /\ Len(t) = Len(s) - 1 /\ Len(s) \in Nat
    BY WithoutFacts
  <1>2. PICK k \in 1 .. Len(s) :
           /\ s[k] = w
           /\ \A n \in 1 .. Len(s) - 1 : t[n] = IF n < k THEN s[n] ELSE s[n + 1]
    BY WithoutFacts
  <1> HIDE DEF t
  <1>3. DOMAIN s = 1 .. Len(s) /\ DOMAIN t = 1 .. Len(s) - 1
    BY <1>1
  <1>4. \A n \in DOMAIN t : LET o == IF n < k THEN n ELSE n + 1
                            IN  o \in DOMAIN s /\ t[n] = s[o] /\ o # k
    BY <1>1, <1>2, <1>3
  <1>5. OneEach(t)
    <2>1. SUFFICES ASSUME NEW i \in DOMAIN t, NEW j \in DOMAIN t, t[i] = t[j] PROVE i = j
      BY DEF OneEach
    <2>2. (IF i < k THEN i ELSE i + 1) = (IF j < k THEN j ELSE j + 1)
      BY <1>4, <2>1 DEF OneEach
    <2>3. QED
      BY <1>1, <1>2, <1>3, <2>2
  <1>6. \A x \in InSeq(t) : x \in InSeq(s) /\ x # w
    <2>1. SUFFICES ASSUME NEW n \in DOMAIN t PROVE t[n] \in InSeq(s) /\ t[n] # w
      BY DEF InSeq
    <2>2. PICK o \in DOMAIN s : t[n] = s[o] /\ o # k
      BY <1>4
    <2>3. QED
      BY <1>2, <1>3, <2>2 DEF InSeq, OneEach
  <1>7. ASSUME NEW x \in InSeq(FirstOf(s, m)), x # w
        PROVE  x \in InSeq(FirstOf(t, m))
    <2>1. PICK i \in 1 .. Len(s) : i <= m /\ s[i] = x
      BY InFirst
    <2>2. i # k
      BY <1>2, <1>7, <2>1
    <2>3. \E n \in 1 .. Len(t) : n <= m /\ t[n] = x
      <3>1. CASE i < k
        <4>1. i \in 1 .. Len(t) /\ i \in 1 .. Len(s) - 1
          BY <1>1, <1>2, <2>1, <3>1
        <4>2. QED
          BY <1>2, <2>1, <3>1, <4>1
      <3>2. CASE ~ (i < k)
        <4>1. i - 1 \in 1 .. Len(t) /\ i - 1 \in 1 .. Len(s) - 1 /\ i - 1 <= m /\ ~ (i - 1 < k)
          BY <1>1, <1>2, <2>1, <2>2, <3>2
        <4>2. t[i - 1] = s[i - 1 + 1] /\ i - 1 + 1 = i
          BY <1>1, <1>2, <4>1
        <4>3. QED
          BY <2>1, <4>1, <4>2
      <3>3. QED
        BY <3>1, <3>2
    <2>4. QED
      BY <1>1, <2>3, InFirst
  <1>8. QED
    BY <1>1, <1>5, <1>6, <1>7 DEF t

\* What the Host knows is not taken back.
Kept ==
    /\ \A w \in Waits : outcome[w] # "none" => outcome'[w] \in {outcome[w], "lost"}
    /\ \A w \in Waits : decided[w] # "none" => decided'[w] = decided[w]
    /\ \A w \in InSeq(Cards(entries)) : outcome'[w] = "none" => w \in InSeq(Cards(entries'))

LEMMA EntriesFacts ==
    ASSUME TypeOK
    PROVE  /\ entries \in Seq(Waits) /\ InSeq(entries) \subseteq Waits
           /\ MaxCards \in Nat
           /\ InSeq(Cards(entries)) \subseteq InSeq(entries)
  <1>1. entries \in Seq(Waits) /\ MaxCards \in Nat
    BY BoundsAreNat DEF TypeOK
  <1>2. \A x : x \in InSeq(Cards(entries)) => \E i \in 1 .. Len(entries) : entries[i] = x
    BY <1>1, InFirst DEF Cards
  <1>3. QED
    BY <1>1, <1>2 DEF InSeq

LEMMA ResolveKeeps ==
    ASSUME TypeOK, RegistryIsOpen, NEW w \in InSeq(entries), NEW o \in Outcomes, Resolve(w, o),
           UNCHANGED decided
    PROVE  RegistryIsOpen' /\ Kept
  <1>1. /\ entries \in Seq(Waits) /\ InSeq(entries) \subseteq Waits /\ MaxCards \in Nat
        /\ OneEach(entries)
    BY EntriesFacts DEF RegistryIsOpen, OneEach
  <1>2. /\ OneEach(entries')
        /\ \A x \in InSeq(entries') : x \in InSeq(entries) /\ x # w
        /\ \A x \in InSeq(Cards(entries)) : x # w => x \in InSeq(Cards(entries'))
    BY <1>1, WithoutSet DEF Resolve, Cards
  <1>3. outcome' = [outcome EXCEPT ![w] = o] /\ outcome[w] = "none" /\ decided[w] = "none"
    <2>1. outcome[w] = "none" /\ w \in Waits
      BY <1>1 DEF RegistryIsOpen
    <2>2. decided[w] # "none" => decided[w] = "none"
      BY <2>1 DEF RegistryIsOpen
    <2>3. QED
      BY <2>1, <2>2 DEF Resolve
  <1>4. w \in Waits /\ o # "none" /\ outcome'[w] = o
        /\ \A x \in Waits : x # w => outcome'[x] = outcome[x]
    BY <1>1, <1>3 DEF TypeOK, Outcomes, Decisions
  <1>5. RegistryIsOpen'
    BY <1>1, <1>2, <1>3, <1>4 DEF RegistryIsOpen, OneEach
  <1>6. Kept
    <2>1. \A x \in Waits : outcome[x] # "none" => outcome'[x] \in {outcome[x], "lost"}
      BY <1>3, <1>4
    <2>2. \A x \in InSeq(Cards(entries)) : outcome'[x] = "none" => x \in InSeq(Cards(entries'))
      BY <1>2, <1>4
    <2>3. QED
      BY <2>1, <2>2 DEF Kept
  <1>7. QED
    BY <1>5, <1>6

LEMMA HostKeeps ==
    ASSUME UNCHANGED host, RegistryIsOpen
    PROVE  RegistryIsOpen' /\ Kept
  BY DEF host, RegistryIsOpen, Kept, Cards, InSeq, FirstOf

LEMMA RegistryStep ==
    ASSUME TypeOK, RegistryIsOpen, [Next]_vars
    PROVE  RegistryIsOpen' /\ Kept
  <1>1. CASE UNCHANGED host
    BY <1>1, HostKeeps
  <1>2. ASSUME NEW w \in Waits, Claim(w)
        PROVE  RegistryIsOpen' /\ Kept
    <2>1. entries \in Seq(Waits) /\ InSeq(entries) \subseteq Waits /\ MaxCards \in Nat
          /\ InSeq(Cards(entries)) \subseteq InSeq(entries)
      BY EntriesFacts
    <2>2. outcome[w] = "none" /\ w \notin InSeq(entries) /\ UNCHANGED decided
      BY <1>2 DEF Claim
    <2>3. CASE entries' = Append(entries, w) /\ UNCHANGED outcome
      <3>1. /\ entries' \in Seq(Waits) /\ Len(entries') = Len(entries) + 1
            /\ InSeq(entries') = InSeq(entries) \cup {w}
            /\ \A k \in 1 .. Len(entries) : entries'[k] = entries[k]
            /\ entries'[Len(entries) + 1] = w
        BY <2>1, <2>3, AppendFacts
      <3>2. OneEach(entries')
        <4>1. SUFFICES ASSUME NEW i \in 1 .. Len(entries) + 1, NEW j \in 1 .. Len(entries) + 1,
                              entries'[i] = entries'[j]
                       PROVE  i = j
          BY <3>1 DEF OneEach
        <4>2. \A k \in 1 .. Len(entries) : entries'[k] \in InSeq(entries)
          BY <2>1, <3>1 DEF InSeq
        <4>3. CASE i \in 1 .. Len(entries) /\ j \in 1 .. Len(entries)
          BY <2>1, <3>1, <4>1, <4>3 DEF RegistryIsOpen
        <4>4. CASE i \notin 1 .. Len(entries) \/ j \notin 1 .. Len(entries)
          <5>1. \A k \in 1 .. Len(entries) + 1 :
                   k \notin 1 .. Len(entries) => k = Len(entries) + 1
            BY <2>1
          <5>2. QED
            BY <2>2, <3>1, <4>1, <4>2, <4>4, <5>1
        <4>5. QED
          BY <4>3, <4>4
      <3>3. \A x \in InSeq(Cards(entries)) : x \in InSeq(Cards(entries'))
        <4>1. SUFFICES ASSUME NEW x \in InSeq(Cards(entries)) PROVE x \in InSeq(Cards(entries'))
          OBVIOUS
        <4>2. PICK i \in 1 .. Len(entries) : i <= MaxCards /\ entries[i] = x
          BY <2>1, InFirst DEF Cards
        <4>3. i \in 1 .. Len(entries') /\ entries'[i] = x
          BY <2>1, <3>1, <4>2
        <4>4. QED
          BY <2>1, <3>1, <4>2, <4>3, InFirst DEF Cards
      <3>4. QED
        BY <2>2, <2>3, <3>1, <3>2, <3>3 DEF RegistryIsOpen, Kept, OneEach
    <2>4. CASE outcome' = [outcome EXCEPT ![w] = "cancelled"] /\ UNCHANGED entries
      <3>1. outcome'[w] = "cancelled" /\ \A x \in Waits : x # w => outcome'[x] = outcome[x]
        BY <2>4 DEF TypeOK
      <3>2. decided[w] = "none"
        BY <2>2 DEF RegistryIsOpen
      <3>3. UNCHANGED Cards(entries)
        BY <2>4
      <3>4. RegistryIsOpen'
        BY <2>1, <2>2, <2>4, <3>1, <3>2 DEF RegistryIsOpen
      <3>5. QED
        BY <2>2, <3>1, <3>3, <3>4 DEF Kept
    <2>5. QED
      BY <1>2, <2>3, <2>4 DEF Claim
  <1>3. ASSUME NEW w \in Waits, Abort(w)
        PROVE  RegistryIsOpen' /\ Kept
    <2>1. w \in InSeq(entries) /\ Resolve(w, "cancelled") /\ UNCHANGED decided
      BY <1>3 DEF Abort
    <2>2. QED
      BY <2>1, ResolveKeeps DEF Outcomes
  <1>4. ASSUME NEW w \in Waits, Decide(w)
        PROVE  RegistryIsOpen' /\ Kept
    <2>1. /\ outcome[w] \in Outcomes /\ decided[w] = "none"
          /\ decided' = [decided EXCEPT ![w] = outcome[w]]
          /\ UNCHANGED <<entries, outcome>>
      BY <1>4 DEF Decide
    <2>2. decided'[w] = outcome[w] /\ \A x \in Waits : x # w => decided'[x] = decided[x]
      BY <2>1 DEF TypeOK
    <2>3. UNCHANGED Cards(entries)
      BY <2>1
    <2>4. RegistryIsOpen'
      BY <2>1, <2>2 DEF RegistryIsOpen
    <2>5. QED
      BY <2>1, <2>2, <2>3, <2>4 DEF Kept
  <1>5. CASE Serve
    <2>1. CASE UNCHANGED host
      BY <2>1, HostKeeps
    <2>2. CASE ~ UNCHANGED host
      <3>1. /\ Head(wire).word # "none" /\ Head(wire).wait \in InSeq(entries)
            /\ Resolve(Head(wire).wait, OutcomeOf(Head(wire).word)) /\ UNCHANGED decided
        BY <1>5, <2>2 DEF Serve, host
      <3>2. Head(wire) \in MessageType
        BY <1>5, Typed, TailFacts DEF Serve
      <3>3. OutcomeOf(Head(wire).word) \in Outcomes
        BY <3>1, <3>2 DEF MessageType, OutcomeOf, Words, Outcomes, Decisions
      <3>4. QED
        BY <3>1, <3>3, ResolveKeeps
    <2>3. QED
      BY <2>1, <2>2
  <1>6. CASE HostEnds
    <2>1. /\ entries' = <<>> /\ UNCHANGED decided
          /\ \A w \in Waits : outcome'[w] =
                IF decided[w] = "none" /\ (outcome[w] # "none" \/ w \in InSeq(entries))
                THEN "lost" ELSE outcome[w]
      BY <1>6 DEF HostEnds
    <2>2. InSeq(entries') = {} /\ DOMAIN entries' = {}
      BY <2>1 DEF InSeq
    <2>3. RegistryIsOpen'
      BY <2>1, <2>2 DEF RegistryIsOpen
    <2>4. \A w \in InSeq(entries) : w \in Waits /\ outcome'[w] # "none"
      <3>1. \A w \in InSeq(entries) : w \in Waits /\ outcome[w] = "none"
        BY EntriesFacts DEF RegistryIsOpen
      <3>2. \A w \in InSeq(entries) : decided[w] = "none"
        BY <3>1 DEF RegistryIsOpen
      <3>3. QED
        BY <2>1, <3>1, <3>2
    <2>5. QED
      BY <2>1, <2>3, <2>4, EntriesFacts DEF Kept
  <1>7. QED
    BY <1>1, <1>2, <1>3, <1>4, <1>5, <1>6 DEF Next, BaseNext, Handler, vars, host, Read, Submit,
       ReadListed, ReadPaged, Submitted, Rejected, Dropped, Pause, Evicted

-----------------------------------------------------------------------------
(* Whose the messages are.                                                   *)

LEMMA Outcome_NotNone == \A word \in Words : OutcomeOf(word) \notin {"none", "lost"}
  BY DEF Words, Decisions, OutcomeOf

\* What a reply says of a submission stays so.
LEMMA AnswerKeeps ==
    ASSUME CallsWaitForTheirOwn, Kept, NEW c \in Calls, call[c].at = "submit",
           outcome[call[c].wait] \in {OutcomeOf(call[c].word), "lost"}
    PROVE  outcome'[call[c].wait] \in {OutcomeOf(call[c].word), "lost"}
  <1>1. call[c].wait \in Waits /\ call[c].word \in Words
    BY DEF CallsWaitForTheirOwn
  <1>2. outcome[call[c].wait] # "none"
    BY <1>1, Outcome_NotNone
  <1>3. QED
    BY <1>1, <1>2 DEF Kept

\* A handler that is neither at its list nor at its submission has no message.
LEMMA NoMessage ==
    ASSUME MessagesAreOwned, NEW c \in Calls, call[c].at \notin {"list", "submit"}
    PROVE  /\ \A k \in DOMAIN wire : wire[k].by # c
           /\ \A k \in DOMAIN replies : replies[k].by # c
  BY NoneIsNoWait DEF MessagesAreOwned

LEMMA ReplyTaken ==
    ASSUME TypeOK, MessagesAreOwned, replies # <<>>, replies' = Tail(replies)
    PROVE  /\ \A k \in DOMAIN replies' : /\ k + 1 \in DOMAIN replies /\ k + 1 # 1
                                         /\ replies'[k] = replies[k + 1]
           /\ 1 \in DOMAIN replies /\ Head(replies) = replies[1]
           /\ \A c \in Calls : Head(replies).by = c =>
                 /\ \A k \in DOMAIN wire : wire[k].by # c
                 /\ \A k \in DOMAIN replies' : replies'[k].by # c
           /\ \A i, j \in DOMAIN replies' :
                 replies'[i].by # None /\ replies'[i].by = replies'[j].by => i = j
  <1>1. replies \in Seq(ReplyType)
    BY Typed
  <1>2. /\ DOMAIN replies' = 1 .. Len(replies) - 1 /\ Len(replies) \in Nat
        /\ \A k \in 1 .. Len(replies) - 1 : replies'[k] = replies[k + 1]
        /\ 1 \in DOMAIN replies /\ Head(replies) = replies[1]
        /\ DOMAIN replies = 1 .. Len(replies)
    BY <1>1, TailFacts
  <1>3. \A k \in DOMAIN replies' : /\ k + 1 \in DOMAIN replies /\ k + 1 # 1
                                   /\ replies'[k] = replies[k + 1]
    BY <1>2
  <1>4. ASSUME NEW c \in Calls, Head(replies).by = c
        PROVE  /\ \A k \in DOMAIN wire : wire[k].by # c
               /\ \A k \in DOMAIN replies' : replies'[k].by # c
    <2>1. c # None
      BY NoneIsNoWait
    <2>2. \A k \in DOMAIN replies' : replies'[k].by # c
      BY <1>2, <1>3, <1>4, <2>1 DEF MessagesAreOwned
    <2>3. \A k \in DOMAIN wire : wire[k].by # c
      BY <1>2, <1>4, <2>1 DEF MessagesAreOwned
    <2>4. QED
      BY <2>2, <2>3
  <1>5. ASSUME NEW i \in DOMAIN replies', NEW j \in DOMAIN replies',
               replies'[i].by # None, replies'[i].by = replies'[j].by
        PROVE  i = j
    <2>1. i + 1 = j + 1
      BY <1>3, <1>5 DEF MessagesAreOwned
    <2>2. QED
      BY <1>2, <2>1
  <1>6. QED
    BY <1>2, <1>3, <1>4, <1>5

LEMMA ByIsACall ==
    ASSUME TypeOK
    PROVE  /\ \A k \in DOMAIN wire : wire[k] \in MessageType /\ wire[k].by \in Calls \cup {None}
           /\ \A k \in DOMAIN replies : replies[k] \in ReplyType /\ replies[k].by \in Calls \cup {None}
  <1>1. wire \in Seq(MessageType) /\ replies \in Seq(ReplyType)
    BY Typed
  <1>2. /\ \A k \in DOMAIN wire : wire[k] \in MessageType
        /\ \A k \in DOMAIN replies : replies[k] \in ReplyType
    BY <1>1
  <1>3. QED
    BY <1>2 DEF MessageType, ReplyType

LEMMA CallsStill ==
    ASSUME TypeOK, CallsWaitForTheirOwn, MessagesAreOwned, Kept, UNCHANGED <<call, wire, replies>>
    PROVE  MessagesAreOwned'
  <1>1. ASSUME NEW k \in DOMAIN replies, replies[k].by # None,
               call[replies[k].by].at = "submit", replies[k].ok
        PROVE  outcome'[call[replies[k].by].wait] \in {OutcomeOf(call[replies[k].by].word), "lost"}
    <2>1. replies[k].by \in Calls
      BY <1>1, ByIsACall
    <2>2. QED
      BY <1>1, <2>1, AnswerKeeps DEF MessagesAreOwned
  <1>2. QED
    BY <1>1 DEF MessagesAreOwned

\* The oldest reply is taken by the handler it is for, which waits for no more.
LEMMA TakenKeeps ==
    ASSUME TypeOK, CallsWaitForTheirOwn, MessagesAreOwned, Kept,
           NEW c \in Calls \cup {None}, Answered(c), replies' = Tail(replies), UNCHANGED wire,
           \A d \in Calls : d # c => call'[d] = call[d]
    PROVE  MessagesAreOwned'
  <1>1. /\ \A k \in DOMAIN replies' : /\ k + 1 \in DOMAIN replies /\ k + 1 # 1
                                      /\ replies'[k] = replies[k + 1]
        /\ \A i, j \in DOMAIN replies' :
              replies'[i].by # None /\ replies'[i].by = replies'[j].by => i = j
    BY ReplyTaken DEF Answered
  <1>2. /\ \A k \in DOMAIN wire : wire[k].by \in Calls \cup {None}
        /\ \A k \in DOMAIN replies' : replies'[k].by \in Calls \cup {None}
    BY <1>1, ByIsACall
  <1>3. /\ \A k \in DOMAIN wire : wire[k].by # None => wire[k].by # c
        /\ \A k \in DOMAIN replies' : replies'[k].by # None => replies'[k].by # c
    <2>1. c \in Calls => /\ \A k \in DOMAIN wire : wire[k].by # c
                         /\ \A k \in DOMAIN replies' : replies'[k].by # c
      BY ReplyTaken DEF Answered
    <2>2. QED
      BY <2>1
  <1>4. \A k \in DOMAIN wire : wire[k].by # None => call'[wire[k].by] = call[wire[k].by]
    BY <1>2, <1>3
  <1>5. \A k \in DOMAIN replies' : replies'[k].by # None =>
           replies'[k].by \in Calls /\ call'[replies'[k].by] = call[replies'[k].by]
    BY <1>2, <1>3
  <1>6. ASSUME NEW k \in DOMAIN replies', replies'[k].by # None
        PROVE  /\ call'[replies'[k].by].at \in {"list", "submit"}
               /\ call'[replies'[k].by].at = "submit" /\ replies'[k].ok =>
                     outcome'[call'[replies'[k].by].wait]
                        \in {OutcomeOf(call'[replies'[k].by].word), "lost"}
    <2>1. PICK m \in DOMAIN replies : replies'[k] = replies[m]
      BY <1>1
    <2>2. call'[replies[m].by] = call[replies[m].by] /\ replies[m].by \in Calls
      BY <1>5, <1>6, <2>1
    <2>3. QED
      BY <1>6, <2>1, <2>2, AnswerKeeps DEF MessagesAreOwned
  <1>7. \A i \in DOMAIN wire, j \in DOMAIN replies' :
           wire[i].by # None => wire[i].by # replies'[j].by
    BY <1>1 DEF MessagesAreOwned
  <1>8. QED
    BY <1>1, <1>4, <1>6, <1>7 DEF MessagesAreOwned

\* A handler that had no message sends one.
LEMMA SendKeeps ==
    ASSUME TypeOK, CallsWaitForTheirOwn, MessagesAreOwned, Kept,
           NEW c \in Calls, NEW at \in {"list", "submit"}, NEW w \in Waits \cup {None},
           NEW word \in Words \cup {"none"}, Send(c, at, w, word), UNCHANGED replies
    PROVE  MessagesAreOwned'
  <1> DEFINE q == [by |-> c, wait |-> w, word |-> word]
             to == [at |-> at, wait |-> w, word |-> word, st |-> Len(store), cards |-> {},
                    paused |-> FALSE]
  <1>1. call[c] = Idle /\ call' = [call EXCEPT ![c] = to] /\ wire' = Append(wire, q)
    BY SendGoes, Zenon
  <1>2. to.at = at /\ to.wait = w /\ to.word = word /\ q.by = c /\ q.wait = w /\ q.word = word
    OBVIOUS
  <1>3. q \in MessageType /\ wire \in Seq(MessageType)
    BY Typed DEF MessageType
  <1> HIDE DEF q, to
  <1>4. /\ DOMAIN wire' = 1 .. Len(wire) + 1 /\ DOMAIN wire = 1 .. Len(wire) /\ Len(wire) \in Nat
        /\ \A k \in 1 .. Len(wire) : wire'[k] = wire[k]
        /\ wire'[Len(wire) + 1] = q
    BY <1>1, <1>3, AppendFacts
  <1>5. /\ \A k \in DOMAIN wire : wire[k].by # c
        /\ \A k \in DOMAIN replies : replies[k].by # c
    <2>1. Idle.at = "idle"
      BY DEF Idle
    <2>2. call[c].at \notin {"list", "submit"}
      BY <1>1, <2>1
    <2>3. QED
      BY <2>2, NoMessage
  <1>6. call'[c] = to /\ \A d \in Calls : d # c => call'[d] = call[d]
    BY <1>1 DEF TypeOK
  <1>7. \A k \in DOMAIN wire' : wire'[k].by # None =>
           /\ call'[wire'[k].by].at \in {"list", "submit"}
           /\ wire'[k].wait = call'[wire'[k].by].wait /\ wire'[k].word = call'[wire'[k].by].word
    <2>1. ASSUME NEW k \in DOMAIN wire, wire[k].by # None
          PROVE  wire[k].by \in Calls /\ call'[wire[k].by] = call[wire[k].by]
      BY <1>5, <1>6, <2>1, ByIsACall
    <2>2. QED
      BY <1>2, <1>4, <1>6, <2>1 DEF MessagesAreOwned
  <1>8. ASSUME NEW k \in DOMAIN replies, replies[k].by # None
        PROVE  /\ call'[replies[k].by].at \in {"list", "submit"}
               /\ call'[replies[k].by].at = "submit" /\ replies[k].ok =>
                     outcome'[call'[replies[k].by].wait]
                        \in {OutcomeOf(call'[replies[k].by].word), "lost"}
    <2>1. replies[k].by \in Calls /\ call'[replies[k].by] = call[replies[k].by]
      BY <1>5, <1>6, <1>8, ByIsACall
    <2>2. QED
      BY <1>8, <2>1, AnswerKeeps DEF MessagesAreOwned
  <1>9. ASSUME NEW i \in DOMAIN wire', NEW j \in DOMAIN wire',
               wire'[i].by # None, wire'[i].by = wire'[j].by
        PROVE  i = j
    <2>1. i \in DOMAIN wire /\ j \in DOMAIN wire => i = j
      BY <1>4, <1>9 DEF MessagesAreOwned
    <2>2. i \in DOMAIN wire <=> j \in DOMAIN wire
      BY <1>2, <1>4, <1>5, <1>9
    <2>3. QED
      BY <1>4, <2>1, <2>2
  <1>10. \A i \in DOMAIN wire', j \in DOMAIN replies :
            wire'[i].by # None => wire'[i].by # replies[j].by
    BY <1>2, <1>4, <1>5 DEF MessagesAreOwned
  <1>11. QED
    BY <1>7, <1>8, <1>9, <1>10 DEF MessagesAreOwned

\* The Host's answer to the oldest call says what it did.
LEMMA ServeKeeps ==
    ASSUME TypeOK, CallsWaitForTheirOwn, RegistryIsOpen, MessagesAreOwned, Kept, Serve
    PROVE  MessagesAreOwned'
  <1> DEFINE q == Head(wire)
             held == q.wait \in InSeq(entries)
             r == [by |-> q.by, ok |-> q.word = "none" \/ held,
                   cards |-> IF q.word = "none" THEN entries ELSE <<>>]
  <1>1. /\ wire \in Seq(MessageType) /\ replies \in Seq(ReplyType) /\ entries \in Seq(Waits)
        /\ wire # <<>> /\ wire' = Tail(wire) /\ replies' = Append(replies, r)
        /\ UNCHANGED call
    BY Typed DEF Serve
  <1>2. /\ DOMAIN wire = 1 .. Len(wire) /\ Len(wire) \in Nat /\ DOMAIN wire' = 1 .. Len(wire) - 1
        /\ \A k \in DOMAIN wire' : wire'[k] = wire[k + 1] /\ k + 1 \in DOMAIN wire
        /\ q = wire[1] /\ 1 \in DOMAIN wire
    BY <1>1, TailFacts
  <1>3. q \in MessageType
    BY <1>2, ByIsACall
  <1>4. r \in ReplyType /\ r.by = q.by /\ r.ok = (q.word = "none" \/ held)
    BY <1>1, <1>3 DEF ReplyType, MessageType
  <1>5. q.by \in Calls /\ call[q.by].at = "submit" /\ r.ok =>
           outcome'[call[q.by].wait] \in {OutcomeOf(call[q.by].word), "lost"}
    <2>1. SUFFICES ASSUME q.by \in Calls, call[q.by].at = "submit", r.ok
                   PROVE  outcome'[call[q.by].wait] \in {OutcomeOf(call[q.by].word), "lost"}
      OBVIOUS
    <2>2. q.by # None
      BY <2>1, NoneIsNoWait
    <2>3. q.wait = call[q.by].wait /\ q.word = call[q.by].word
      BY <1>2, <2>2 DEF MessagesAreOwned
    <2>4. q.word \in Words /\ q.wait \in Waits
      BY <2>1, <2>3 DEF CallsWaitForTheirOwn
    <2>5. q.word # "none"
      BY <2>4 DEF Words, Decisions
    <2>6. Resolve(q.wait, OutcomeOf(q.word))
      BY <1>4, <2>1, <2>5 DEF Serve
    <2>7. outcome'[q.wait] = OutcomeOf(q.word)
      BY <2>4, <2>6 DEF Resolve, TypeOK
    <2>8. QED
      BY <2>3, <2>7
  <1> HIDE DEF r
  <1>6. /\ DOMAIN replies' = 1 .. Len(replies) + 1 /\ DOMAIN replies = 1 .. Len(replies)
        /\ Len(replies) \in Nat
        /\ \A k \in 1 .. Len(replies) : replies'[k] = replies[k]
        /\ replies'[Len(replies) + 1] = r
    BY <1>1, <1>4, AppendFacts
  <1> HIDE DEF q
  <1>7. \A k \in DOMAIN wire' : wire'[k].by # None =>
           /\ call[wire'[k].by].at \in {"list", "submit"}
           /\ wire'[k].wait = call[wire'[k].by].wait /\ wire'[k].word = call[wire'[k].by].word
    BY <1>2 DEF MessagesAreOwned
  <1>8. ASSUME NEW k \in DOMAIN replies', replies'[k].by # None
        PROVE  /\ call[replies'[k].by].at \in {"list", "submit"}
               /\ call[replies'[k].by].at = "submit" /\ replies'[k].ok =>
                     outcome'[call[replies'[k].by].wait]
                        \in {OutcomeOf(call[replies'[k].by].word), "lost"}
    <2>1. CASE k \in DOMAIN replies
      <3>1. replies'[k] = replies[k] /\ replies[k].by \in Calls
        BY <1>6, <1>8, <2>1, ByIsACall
      <3>2. QED
        BY <1>8, <2>1, <3>1, AnswerKeeps DEF MessagesAreOwned
    <2>2. CASE k \notin DOMAIN replies
      <3>1. replies'[k] = r
        BY <1>6, <2>2
      <3>2. q.by \in Calls /\ r.by = q.by /\ q.by # None
        BY <1>2, <1>4, <1>8, <3>1, ByIsACall
      <3>3. call[q.by].at \in {"list", "submit"}
        BY <1>2, <3>2 DEF MessagesAreOwned
      <3>4. QED
        BY <1>5, <3>1, <3>2, <3>3
    <2>3. QED
      BY <2>1, <2>2
  <1>9. ASSUME NEW i \in DOMAIN wire', NEW j \in DOMAIN wire',
               wire'[i].by # None, wire'[i].by = wire'[j].by
        PROVE  i = j
    <2>1. i + 1 = j + 1
      BY <1>2, <1>9 DEF MessagesAreOwned
    <2>2. QED
      BY <1>2, <2>1
  <1>10. ASSUME NEW i \in DOMAIN replies', NEW j \in DOMAIN replies',
                replies'[i].by # None, replies'[i].by = replies'[j].by
         PROVE  i = j
    <2>1. \A k \in DOMAIN replies : replies[k].by # None => replies[k].by # r.by
      BY <1>2, <1>4 DEF MessagesAreOwned
    <2>2. i \in DOMAIN replies <=> j \in DOMAIN replies
      BY <1>6, <1>10, <2>1
    <2>3. QED
      BY <1>6, <1>10, <2>2 DEF MessagesAreOwned
  <1>11. ASSUME NEW i \in DOMAIN wire', NEW j \in DOMAIN replies', wire'[i].by # None
         PROVE  wire'[i].by # replies'[j].by
    <2>1. PICK m \in DOMAIN wire : wire'[i] = wire[m] /\ m # 1
      BY <1>2
    <2>2. wire[m].by # q.by
      BY <1>2, <1>11, <2>1 DEF MessagesAreOwned
    <2>3. \A k \in DOMAIN replies : wire[m].by # replies[k].by
      BY <1>11, <2>1 DEF MessagesAreOwned
    <2>4. QED
      BY <1>4, <1>6, <2>1, <2>2, <2>3
  <1>12. QED
    BY <1>1, <1>7, <1>8, <1>9, <1>10, <1>11 DEF MessagesAreOwned

\* The handler that waits no more is forgotten by what it waited for.
LEMMA RejectedKeeps ==
    ASSUME TypeOK, CallsWaitForTheirOwn, MessagesAreOwned, Kept, NEW c \in Calls, Rejected(c)
    PROVE  MessagesAreOwned'
  <1>1. /\ wire' = Disowned(wire, c) /\ replies' = Disowned(replies, c)
        /\ call' = [call EXCEPT ![c] = Idle] /\ wire \in Seq(MessageType) /\ replies \in Seq(ReplyType)
    BY Typed DEF Rejected, Goes
  <1>2. /\ DOMAIN wire' = DOMAIN wire
        /\ \A k \in DOMAIN wire :
              wire'[k] = IF wire[k].by = c THEN [wire[k] EXCEPT !.by = None] ELSE wire[k]
    BY <1>1, DisownedMessages
  <1>3. /\ DOMAIN replies' = DOMAIN replies
        /\ \A k \in DOMAIN replies :
              replies'[k] = IF replies[k].by = c THEN [replies[k] EXCEPT !.by = None] ELSE replies[k]
    BY <1>1, DisownedReplies
  <1>4. \A d \in Calls : d # c => call'[d] = call[d]
    BY <1>1
  <1>5. \A k \in DOMAIN wire : wire'[k].by # None =>
           wire'[k] = wire[k] /\ wire[k].by # c /\ wire[k].by \in Calls
    BY <1>2, ByIsACall DEF MessageType
  <1>6. \A k \in DOMAIN replies : replies'[k].by # None =>
           replies'[k] = replies[k] /\ replies[k].by # c /\ replies[k].by \in Calls
    BY <1>3, ByIsACall DEF ReplyType
  <1>7. ASSUME NEW k \in DOMAIN replies, replies'[k].by # None
        PROVE  /\ call'[replies'[k].by].at \in {"list", "submit"}
               /\ call'[replies'[k].by].at = "submit" /\ replies'[k].ok =>
                     outcome'[call'[replies'[k].by].wait]
                        \in {OutcomeOf(call'[replies'[k].by].word), "lost"}
    <2>1. replies'[k] = replies[k] /\ replies[k].by \in Calls /\ call'[replies[k].by] = call[replies[k].by]
      BY <1>4, <1>6, <1>7
    <2>2. QED
      BY <1>7, <2>1, AnswerKeeps DEF MessagesAreOwned
  <1>8. \A k \in DOMAIN wire : wire'[k].by # None =>
           /\ call'[wire'[k].by].at \in {"list", "submit"}
           /\ wire'[k].wait = call'[wire'[k].by].wait /\ wire'[k].word = call'[wire'[k].by].word
    BY <1>4, <1>5 DEF MessagesAreOwned
  <1>9. \A i, j \in DOMAIN wire : wire'[i].by # None /\ wire'[i].by = wire'[j].by => i = j
    BY <1>5 DEF MessagesAreOwned
  <1>10. \A i, j \in DOMAIN replies :
            replies'[i].by # None /\ replies'[i].by = replies'[j].by => i = j
    BY <1>6 DEF MessagesAreOwned
  <1>11. \A i \in DOMAIN wire, j \in DOMAIN replies :
            wire'[i].by # None => wire'[i].by # replies'[j].by
    BY <1>5, <1>6 DEF MessagesAreOwned
  <1>12. QED
    BY <1>2, <1>3, <1>7, <1>8, <1>9, <1>10, <1>11 DEF MessagesAreOwned

LEMMA MessagesStep ==
    ASSUME TypeOK, CallsWaitForTheirOwn, RegistryIsOpen, MessagesAreOwned, Kept, [Next]_vars
    PROVE  MessagesAreOwned'
  <1>1. CASE UNCHANGED <<call, wire, replies>>
    BY <1>1, CallsStill
  <1>2. CASE Serve
    BY <1>2, ServeKeeps
  <1>3. CASE HostEnds
    BY <1>3 DEF HostEnds, MessagesAreOwned
  <1>4. CASE Dropped
    BY <1>4, TakenKeeps DEF Dropped
  <1>5. ASSUME NEW c \in Calls, Handler(c)
        PROVE  MessagesAreOwned'
    <2>1. CASE Read(c)
      BY <2>1, SendKeeps DEF Read
    <2>2. CASE \E w \in Waits, word \in Words : Submit(c, w, word)
      BY <2>2, SendKeeps DEF Submit
    <2>3. CASE Rejected(c)
      BY <2>3, RejectedKeeps
    <2>4. ASSUME ReadListed(c) \/ Submitted(c)
          PROVE  MessagesAreOwned'
      <3>1. \A d \in Calls : d # c => call'[d] = call[d]
        <4>1. \E to : call' = [call EXCEPT ![c] = to]
          BY <2>4 DEF ReadListed, Submitted, Goes
        <4>2. QED
          BY <4>1 DEF TypeOK
      <3>2. Answered(c) /\ replies' = Tail(replies) /\ UNCHANGED wire
        BY <2>4 DEF ReadListed, Submitted
      <3>3. QED
        BY <3>1, <3>2, TakenKeeps
    <2>5. CASE ReadPaged(c)
      <3>1. call[c].at \notin {"list", "submit"} /\ UNCHANGED <<wire, replies>>
            /\ call' = [call EXCEPT ![c] = Idle]
        BY <2>5 DEF ReadPaged, Goes
      <3>2. /\ \A k \in DOMAIN wire : wire[k].by # None =>
                  wire[k].by \in Calls /\ call'[wire[k].by] = call[wire[k].by]
            /\ \A k \in DOMAIN replies : replies[k].by # None =>
                  replies[k].by \in Calls /\ call'[replies[k].by] = call[replies[k].by]
        BY <3>1, NoMessage, ByIsACall DEF TypeOK
      <3>3. ASSUME NEW k \in DOMAIN replies, replies[k].by # None,
                   call[replies[k].by].at = "submit", replies[k].ok
            PROVE  outcome'[call[replies[k].by].wait]
                      \in {OutcomeOf(call[replies[k].by].word), "lost"}
        BY <3>2, <3>3, AnswerKeeps DEF MessagesAreOwned
      <3>4. QED
        BY <3>1, <3>2, <3>3 DEF MessagesAreOwned
    <2>6. QED
      BY <1>5, <2>1, <2>2, <2>3, <2>4, <2>5 DEF Handler
  <1>6. QED
    BY <1>1, <1>2, <1>3, <1>4, <1>5 DEF Next, BaseNext, vars, Claim, Abort, Decide, Pause, Evicted

-----------------------------------------------------------------------------
(* What each action does to the states of the store.                         *)

LEMMA ListedStep ==
    ASSUME TypeOK, NEW c \in Calls, ReadListed(c)
    PROVE  LET n     == call[c].st
               cards == Cards(Head(replies).cards)
           IN  /\ OthersKeep(n) /\ InSeq(cards) \subseteq Waits
               /\ store'[n].receipts = store[n].receipts /\ store'[n].pending = cards
               /\ \A w \in InSeq(store'[n].lapsed) :
                     w \in InSeq(store[n].lapsed)
                     \/ (w \in InSeq(store[n].pending) /\ w \notin InSeq(cards))
  <1> DEFINE n == call[c].st
             cards == Cards(Head(replies).cards)
  <1>1. n \in DOMAIN store /\ Fits(store[n])
    BY StateOfCall
  <1>2. Head(replies) \in ReplyType
    BY Typed, TailFacts DEF ReadListed, Answered
  <1>3. cards \in Seq(Waits) /\ Len(cards) <= MaxCards /\ InSeq(cards) \subseteq Waits
    BY <1>2, CardsFacts DEF ReplyType
  <1>4. PICK gone \in GoneCards(store[n], cards) :
           store' = [store EXCEPT ![n] = Listed(store[n], cards, gone)]
    BY DEF ReadListed
  <1> HIDE DEF cards
  <1>5. /\ Fits(Listed(store[n], cards, gone))
        /\ Listed(store[n], cards, gone).receipts = store[n].receipts
        /\ Listed(store[n], cards, gone).pending = cards
        /\ \A w \in InSeq(Listed(store[n], cards, gone).lapsed) :
              w \in InSeq(store[n].lapsed) \/ (w \in InSeq(store[n].pending) /\ w \notin InSeq(cards))
    BY <1>1, <1>3, <1>4, ListedFits
  <1>6. /\ DOMAIN store' = DOMAIN store
        /\ \A m \in DOMAIN store : store'[m] =
              IF m = n THEN Listed(store[n], cards, gone) ELSE store[m]
    BY <1>1, <1>4, <1>5, StorePut
  <1>7. QED
    BY <1>1, <1>3, <1>5, <1>6 DEF OthersKeep, cards

LEMMA RecordedStep ==
    ASSUME TypeOK, CallsWaitForTheirOwn, NEW c \in Calls, call[c].at = "submit",
           NEW state \in {"accepted", "unknown"}, Records(c, state)
    PROVE  LET n == call[c].st
               r == [wait |-> call[c].wait, word |-> call[c].word, state |-> state]
           IN  /\ OthersKeep(n) /\ r \in ReceiptType
               /\ store'[n].lapsed = store[n].lapsed /\ store'[n].pending = store[n].pending
               /\ \A s \in InSeq(store'[n].receipts) : s \in InSeq(store[n].receipts) \/ s = r
               /\ call[c].wait \in Receipted(store'[n])
               /\ \A x \in Receipted(store[n]) :
                     x \in Receipted(store'[n]) \/ Len(store'[n].receipts) = MaxReceipts
               /\ Len(store[n].receipts) = MaxReceipts => Len(store'[n].receipts) = MaxReceipts
  <1> DEFINE n == call[c].st
             st == Recorded(store[n], call[c].wait, call[c].word, state)
  <1>1. call[c].wait \in Waits /\ call[c].word \in Words
    BY DEF CallsWaitForTheirOwn
  <1>2. n \in DOMAIN store /\ Fits(st) /\ store' = [store EXCEPT ![n] = st]
    BY <1>1, RecordsFits, Zenon
  <1>3. Fits(store[n])
    BY StateOfCall
  <1>4. /\ st.lapsed = store[n].lapsed /\ st.pending = store[n].pending
        /\ \A s \in InSeq(st.receipts) : s \in InSeq(store[n].receipts)
              \/ s = [wait |-> call[c].wait, word |-> call[c].word, state |-> state]
        /\ call[c].wait \in Receipted(st)
        /\ \A x \in Receipted(store[n]) : x \in Receipted(st) \/ Len(st.receipts) = MaxReceipts
        /\ Len(store[n].receipts) = MaxReceipts => Len(st.receipts) = MaxReceipts
    BY <1>1, <1>3, RecordedFits
  <1> HIDE DEF st
  <1>5. /\ DOMAIN store' = DOMAIN store
        /\ \A m \in DOMAIN store : store'[m] = IF m = n THEN st ELSE store[m]
    BY <1>2, StorePut
  <1>6. [wait |-> call[c].wait, word |-> call[c].word, state |-> state] \in ReceiptType
    BY <1>1 DEF ReceiptType
  <1>7. QED
    BY <1>2, <1>4, <1>5, <1>6 DEF OthersKeep

LEMMA EvictedStep ==
    ASSUME TypeOK, Evicted
    PROVE  /\ DOMAIN store \subseteq DOMAIN store'
           /\ \A n \in DOMAIN store : store'[n] = store[n]
           /\ \A n \in DOMAIN store' : n \notin DOMAIN store => store'[n] = NewState
  <1>1. NewState \in StateType /\ store \in Seq(StateType)
    BY NewStateFits, Typed DEF Fits
  <1>2. /\ store' \in Seq(StateType) /\ Len(store') = Len(store) + 1 /\ Len(store) \in Nat
        /\ \A n \in 1 .. Len(store) : store'[n] = store[n]
        /\ store'[Len(store) + 1] = NewState
        /\ DOMAIN store = 1 .. Len(store)
    BY <1>1, AppendFacts DEF Evicted
  <1>3. DOMAIN store' = 1 .. Len(store) + 1
    BY <1>2
  <1>4. QED
    BY <1>2, <1>3

\* Everything else leaves the store alone.
LEMMA StoreStill ==
    ASSUME [Next]_vars, ~ Evicted,
           \A c \in Calls : ~ ReadListed(c) /\ ~ ReadPaged(c) /\ ~ Submitted(c)
                            /\ ~ (call[c].at = "submit" /\ Rejected(c))
    PROVE  UNCHANGED store
  BY DEF Next, BaseNext, vars, Claim, Abort, Decide, Serve, HostEnds, Dropped, Pause, Handler,
         Read, Submit, Rejected

\* What a handler records.
LEMMA SubmissionRecords ==
    ASSUME NEW c \in Calls, Submitted(c) \/ (call[c].at = "submit" /\ Rejected(c))
    PROVE  \E state \in {"accepted", "unknown"} :
              /\ Records(c, state) /\ call[c].at = "submit"
              /\ state = "accepted" => /\ Answered(c) /\ Head(replies).ok
                                       /\ UNCHANGED <<outcome, decided>>
  BY DEF Submitted, Rejected, host

-----------------------------------------------------------------------------
(* The receipts.                                                             *)

IsTrue(r) ==
    /\ r.state = "accepted" => outcome[r.wait] \in {OutcomeOf(r.word), "lost"}
    /\ r.state = "effective" => r.word \in Decisions /\ decided[r.wait] = r.word

LEMMA ReceiptsTyped ==
    ASSUME TypeOK, NEW n \in DOMAIN store, NEW r \in InSeq(store[n].receipts)
    PROVE  r \in ReceiptType /\ r \in Receipts
  <1>1. Fits(store[n])
    BY StatesFit
  <1>2. store[n].receipts \in Seq(ReceiptType)
    BY <1>1 DEF Fits, StateType
  <1>3. r \in ReceiptType
    BY <1>2 DEF InSeq
  <1>4. QED
    BY <1>3 DEF Receipts

LEMMA TrueStays ==
    ASSUME Kept, NEW r \in ReceiptType, IsTrue(r)
    PROVE  IsTrue(r)'
  <1>1. r.wait \in Waits /\ r.word \in Words
    BY DEF ReceiptType
  <1>2. r.state = "accepted" => outcome'[r.wait] \in {OutcomeOf(r.word), "lost"}
    BY <1>1, Outcome_NotNone DEF Kept, IsTrue
  <1>3. r.state = "effective" => r.word \in Decisions /\ decided'[r.wait] = r.word
    BY <1>1 DEF Kept, IsTrue, Decisions
  <1>4. QED
    BY <1>2, <1>3 DEF IsTrue

LEMMA ReceiptsStep ==
    ASSUME TypeOK, CallsWaitForTheirOwn, MessagesAreOwned, ReceiptsAreTrue, Kept, [Next]_vars
    PROVE  ReceiptsAreTrue'
  <1>1. SUFFICES ASSUME NEW n \in DOMAIN store', NEW r \in InSeq(store'[n].receipts)
                 PROVE  IsTrue(r)'
    BY DEF ReceiptsAreTrue, Receipts, IsTrue
  <1>2. ASSUME NEW m \in DOMAIN store, r \in InSeq(store[m].receipts)
        PROVE  IsTrue(r)'
    <2>1. r \in ReceiptType /\ r \in Receipts
      BY <1>2, ReceiptsTyped
    <2>2. IsTrue(r)
      BY <2>1 DEF ReceiptsAreTrue, IsTrue
    <2>3. QED
      BY <2>1, <2>2, TrueStays
  <1>3. CASE UNCHANGED store
    BY <1>1, <1>2, <1>3
  <1>4. CASE Evicted
    <2>1. CASE n \in DOMAIN store
      BY <1>1, <1>2, <1>4, <2>1, EvictedStep
    <2>2. CASE n \notin DOMAIN store
      BY <1>1, <1>4, <2>2, EvictedStep DEF NewState, InSeq
    <2>3. QED
      BY <2>1, <2>2
  <1>5. ASSUME NEW c \in Calls, ReadListed(c)
        PROVE  IsTrue(r)'
    <2>1. OthersKeep(call[c].st) /\ store'[call[c].st].receipts = store[call[c].st].receipts
      BY <1>5, ListedStep
    <2>2. QED
      BY <1>1, <1>2, <2>1 DEF OthersKeep
  <1>6. ASSUME NEW c \in Calls, ReadPaged(c)
        PROVE  IsTrue(r)'
    <2> DEFINE st == call[c].st
    <2>1. OthersKeep(st)
      BY <1>6, PagedStep
    <2>2. CASE n # st
      BY <1>1, <1>2, <2>1, <2>2 DEF OthersKeep
    <2>3. CASE n = st
      <3>1. PICK k \in DOMAIN store'[st].receipts : r = store'[st].receipts[k]
        BY <1>1, <2>3 DEF InSeq
      <3> DEFINE o == store[st].receipts[k]
      <3>2. /\ k \in DOMAIN store[st].receipts /\ r.wait = o.wait /\ r \in ReceiptType
            /\ \/ r = o \/ r.state = "lapsed"
               \/ /\ r.state = "effective"
                  /\ r.word = decided[o.wait] /\ decided[o.wait] \in Decisions
        BY <1>6, <3>1, PagedStep
      <3>3. CASE r = o
        <4>1. r \in InSeq(store[st].receipts)
          BY <3>2, <3>3 DEF InSeq
        <4>2. QED
          BY <1>2, <2>1, <4>1 DEF OthersKeep
      <3>4. CASE r.state = "lapsed"
        BY <3>4 DEF IsTrue
      <3>5. CASE /\ r.state = "effective" /\ r.word = decided[o.wait]
                 /\ decided[o.wait] \in Decisions
        <4>1. IsTrue(r)
          BY <3>2, <3>5 DEF IsTrue
        <4>2. QED
          BY <3>2, <4>1, TrueStays
      <3>6. QED
        BY <3>2, <3>3, <3>4, <3>5
    <2>4. QED
      BY <2>2, <2>3
  <1>7. ASSUME NEW c \in Calls, Submitted(c) \/ (call[c].at = "submit" /\ Rejected(c))
        PROVE  IsTrue(r)'
    <2> DEFINE st == call[c].st
    <2>1. PICK state \in {"accepted", "unknown"} :
              /\ Records(c, state) /\ call[c].at = "submit"
              /\ state = "accepted" => /\ Answered(c) /\ Head(replies).ok
                                       /\ UNCHANGED <<outcome, decided>>
      BY <1>7, SubmissionRecords
    <2> DEFINE new == [wait |-> call[c].wait, word |-> call[c].word, state |-> state]
    <2>2. /\ OthersKeep(st) /\ new \in ReceiptType
          /\ \A s \in InSeq(store'[st].receipts) : s \in InSeq(store[st].receipts) \/ s = new
      BY <2>1, RecordedStep
    <2>3. CASE n # st \/ r \in InSeq(store[st].receipts)
      BY <1>1, <1>2, <2>2, <2>3 DEF OthersKeep
    <2>4. CASE r = new
      <3>1. CASE state = "unknown"
        BY <2>4, <3>1 DEF IsTrue
      <3>2. CASE state = "accepted"
        <4>1. 1 \in DOMAIN replies /\ Head(replies) = replies[1]
          <5>1. replies \in Seq(ReplyType) /\ replies # <<>>
            BY <2>1, <3>2, Typed DEF Answered
          <5>2. QED
            BY <5>1
        <4>2. outcome[call[c].wait] \in {OutcomeOf(call[c].word), "lost"}
          BY <2>1, <3>2, <4>1, NoneIsNoWait DEF MessagesAreOwned, Answered
        <4>3. IsTrue(r)
          BY <2>4, <3>2, <4>2 DEF IsTrue
        <4>4. QED
          BY <2>2, <2>4, <4>3, TrueStays
      <3>3. QED
        BY <3>1, <3>2
    <2>5. QED
      BY <1>1, <2>2, <2>3, <2>4
  <1>8. QED
    BY <1>3, <1>4, <1>5, <1>6, <1>7, StoreStill

-----------------------------------------------------------------------------
(* The grants.                                                               *)

\* A trace is not lost: the call under way becomes a receipt, and a receipt is
\* dropped from full states only.
LEMMA TouchedStays ==
    ASSUME TypeOK, CallsWaitForTheirOwn, [Next]_vars, NEW w, Touched(w)
    PROVE  Touched(w)'
  <1>1. ASSUME NEW c \in Calls, Submitted(c) \/ (call[c].at = "submit" /\ Rejected(c))
        PROVE  Touched(w)'
    <2>1. PICK state \in {"accepted", "unknown"} : Records(c, state) /\ call[c].at = "submit"
      BY <1>1, SubmissionRecords
    <2> DEFINE st == call[c].st
    <2>2. /\ OthersKeep(st)
          /\ call[c].wait \in Receipted(store'[st])
          /\ \A x \in Receipted(store[st]) :
                x \in Receipted(store'[st]) \/ Len(store'[st].receipts) = MaxReceipts
          /\ Len(store[st].receipts) = MaxReceipts => Len(store'[st].receipts) = MaxReceipts
      BY <2>1, RecordedStep
    <2>3. \A d \in Calls : d # c => call'[d] = call[d]
      BY <1>1 DEF Submitted, Rejected, Goes, TypeOK
    <2>4. CASE \E n \in DOMAIN store : w \in Receipted(store[n])
                                       \/ Len(store[n].receipts) = MaxReceipts
      <3>1. PICK n \in DOMAIN store : w \in Receipted(store[n])
                                      \/ Len(store[n].receipts) = MaxReceipts
        BY <2>4
      <3>2. n \in DOMAIN store'
            /\ (w \in Receipted(store'[n]) \/ Len(store'[n].receipts) = MaxReceipts)
        BY <2>2, <3>1 DEF OthersKeep
      <3>3. QED
        BY <3>2 DEF Touched, Receipted
    <2>5. CASE \E d \in Calls : call[d].at = "submit" /\ call[d].wait = w
      <3>1. PICK d \in Calls : call[d].at = "submit" /\ call[d].wait = w
        BY <2>5
      <3>2. CASE d = c
        <4>1. st \in DOMAIN store' /\ w \in Receipted(store'[st])
          BY <2>2, <3>1, <3>2 DEF OthersKeep
        <4>2. QED
          BY <4>1 DEF Touched, Receipted
      <3>3. CASE d # c
        BY <2>3, <3>1, <3>3 DEF Touched
      <3>4. QED
        BY <3>2, <3>3
    <2>6. QED
      BY <2>4, <2>5 DEF Touched
  <1>2. ASSUME \A c \in Calls : ~ Submitted(c) /\ ~ (call[c].at = "submit" /\ Rejected(c))
        PROVE  Touched(w)'
    <2>1. /\ DOMAIN store \subseteq DOMAIN store'
          /\ \A n \in DOMAIN store :
                /\ \A x \in Receipted(store[n]) : x \in Receipted(store'[n])
                /\ Len(store'[n].receipts) = Len(store[n].receipts)
      <3>1. CASE UNCHANGED store
        BY <3>1
      <3>2. CASE Evicted
        BY <3>2, EvictedStep
      <3>3. ASSUME NEW c \in Calls, ReadListed(c)
            PROVE  /\ DOMAIN store \subseteq DOMAIN store'
                   /\ \A n \in DOMAIN store : store'[n].receipts = store[n].receipts
        BY <3>3, ListedStep DEF OthersKeep
      <3>4. ASSUME NEW c \in Calls, ReadPaged(c), NEW n \in DOMAIN store
            PROVE  /\ n \in DOMAIN store'
                   /\ \A x \in Receipted(store[n]) : x \in Receipted(store'[n])
                   /\ Len(store'[n].receipts) = Len(store[n].receipts)
        <4>1. OthersKeep(call[c].st)
          BY <3>4, PagedStep
        <4>2. CASE n # call[c].st
          BY <4>1, <4>2 DEF OthersKeep
        <4>3. CASE n = call[c].st
          <5>1. /\ DOMAIN store'[n].receipts = DOMAIN store[n].receipts
                /\ Len(store'[n].receipts) = Len(store[n].receipts)
                /\ \A k \in DOMAIN store[n].receipts :
                      store'[n].receipts[k].wait = store[n].receipts[k].wait
            BY <3>4, <4>3, PagedStep
          <5>2. \A x \in Receipted(store[n]) : x \in Receipted(store'[n])
            BY <5>1 DEF Receipted, InSeq
          <5>3. QED
            BY <4>1, <5>1, <5>2 DEF OthersKeep
        <4>4. QED
          BY <4>2, <4>3
      <3>5. QED
        BY <1>2, <3>1, <3>2, <3>3, <3>4, StoreStill DEF Receipted
    <2>2. \A c \in Calls : call[c].at = "submit" => call'[c] = call[c]
      <3>1. SUFFICES ASSUME NEW c \in Calls, call[c].at = "submit" PROVE call'[c] = call[c]
        OBVIOUS
      <3>2. CASE UNCHANGED call
        BY <3>2
      <3>3. ASSUME NEW d \in Calls, Handler(d)
            PROVE  call'[c] = call[c]
        <4>1. d # c
          <5>1. Idle.at = "idle"
            BY DEF Idle
          <5>2. QED
            BY <1>2, <3>1, <3>3, <5>1 DEF Handler, Read, Submit, Send, ReadListed, ReadPaged
        <4>2. \E to : call' = [call EXCEPT ![d] = to]
          BY <3>3 DEF Handler, Read, Submit, Send, ReadListed, ReadPaged, Submitted, Rejected, Goes
        <4>3. QED
          BY <4>1, <4>2 DEF TypeOK
      <3>4. QED
        BY <3>2, <3>3 DEF Next, BaseNext, vars, Claim, Abort, Decide, Serve, HostEnds, Dropped,
                          Pause, Evicted
    <2>3. QED
      BY <2>1, <2>2 DEF Touched, Receipted
  <1>3. QED
    BY <1>1, <1>2

LEMMA GrantsStep ==
    ASSUME TypeOK, CallsWaitForTheirOwn, GrantsAreTouched, [Next]_vars
    PROVE  GrantsAreTouched'
  <1>1. \A w : Touched(w) => Touched(w)'
    BY TouchedStays
  <1>2. ASSUME NEW k \in DOMAIN wire', wire'[k].word = "allowed-once",
               NEW x, x = wire'[k].wait
        PROVE  Touched(x)'
    <2>1. CASE \E m \in DOMAIN wire : wire'[k].word = wire[m].word /\ wire'[k].wait = wire[m].wait
      BY <1>1, <1>2, <2>1 DEF GrantsAreTouched
    <2>2. ASSUME NEW c \in Calls, NEW w \in Waits, NEW word \in Words, Submit(c, w, word)
          PROVE  Touched(x)'
      <3> DEFINE q == [by |-> c, wait |-> w, word |-> word]
                 to == [at |-> "submit", wait |-> w, word |-> word, st |-> Len(store),
                        cards |-> {}, paused |-> FALSE]
      <3>1. call' = [call EXCEPT ![c] = to] /\ wire' = Append(wire, q)
        <4>1. Send(c, "submit", w, word)
          BY <2>2 DEF Submit
        <4>2. QED
          BY <4>1, SendGoes, Zenon
      <3>2. call'[c].at = "submit" /\ call'[c].wait = w
        BY <3>1 DEF TypeOK
      <3>3. wire \in Seq(MessageType) /\ q \in MessageType
        BY Typed DEF MessageType
      <3>4. \/ k \in DOMAIN wire /\ wire'[k] = wire[k]
            \/ wire'[k] = q
        BY <1>2, <3>1, <3>3, AppendFacts
      <3>5. CASE wire'[k] = q
        <4>1. x = w
          BY <1>2, <3>5
        <4>2. Touched(w)'
          BY <3>2 DEF Touched
        <4>3. QED
          BY <4>1, <4>2
      <3>6. QED
        BY <2>1, <3>4, <3>5
    <2>3. ASSUME NEW c \in Calls, Read(c)
          PROVE  Touched(x)'
      <3> DEFINE q == [by |-> c, wait |-> None, word |-> "none"]
      <3>1. wire' = Append(wire, q)
        BY <2>3 DEF Read, Send
      <3>2. wire \in Seq(MessageType) /\ q \in MessageType
        BY Typed DEF MessageType
      <3>3. \/ k \in DOMAIN wire /\ wire'[k] = wire[k]
            \/ wire'[k] = q
        BY <1>2, <3>1, <3>2, AppendFacts
      <3>4. wire'[k] # q
        BY <1>2
      <3>5. QED
        BY <2>1, <3>3, <3>4
    <2>4. CASE Serve
      <3>1. wire \in Seq(MessageType) /\ wire # <<>> /\ wire' = Tail(wire)
        BY <2>4, Typed DEF Serve
      <3>2. k + 1 \in DOMAIN wire /\ wire'[k] = wire[k + 1]
        BY <1>2, <3>1, TailFacts
      <3>3. QED
        BY <2>1, <3>2
    <2>5. CASE HostEnds
      BY <1>2, <2>5 DEF HostEnds
    <2>6. ASSUME NEW c \in Calls, Rejected(c)
          PROVE  Touched(x)'
      <3>1. wire' = Disowned(wire, c) /\ wire \in Seq(MessageType)
        BY <2>6, Typed DEF Rejected
      <3>2. k \in DOMAIN wire
            /\ wire'[k] = IF wire[k].by = c THEN [wire[k] EXCEPT !.by = None] ELSE wire[k]
        <4>1. /\ DOMAIN wire' = DOMAIN wire
              /\ \A m \in DOMAIN wire : wire'[m] =
                    IF wire[m].by = c THEN [wire[m] EXCEPT !.by = None] ELSE wire[m]
          BY <3>1, DisownedMessages
        <4>2. QED
          BY <1>2, <4>1
      <3>3. wire'[k].word = wire[k].word /\ wire'[k].wait = wire[k].wait
        BY <3>2, ByIsACall DEF MessageType
      <3>4. QED
        BY <2>1, <3>2, <3>3
    <2>7. CASE UNCHANGED wire
      BY <1>2, <2>1, <2>7
    <2>8. QED
      BY <2>2, <2>3, <2>4, <2>5, <2>6, <2>7 DEF Next, BaseNext, vars, Claim, Abort, Decide,
         Dropped, Pause, Evicted, Handler, ReadListed, ReadPaged, Submitted
  <1>3. ASSUME NEW w \in Waits, outcome'[w] = "allowed-once"
        PROVE  Touched(w)'
    <2>1. CASE outcome[w] = "allowed-once"
      BY <1>1, <2>1 DEF GrantsAreTouched
    <2>2. CASE Serve /\ ~ UNCHANGED outcome
      <3>1. Head(wire).word # "none" /\ Resolve(Head(wire).wait, OutcomeOf(Head(wire).word))
        BY <2>2 DEF Serve
      <3>2. Head(wire) = wire[1] /\ 1 \in DOMAIN wire
        BY <2>2, Typed, TailFacts DEF Serve
      <3>3. wire[1].word \in Words
        BY <3>1, <3>2, ByIsACall DEF MessageType
      <3>4. CASE w = wire[1].wait
        <4>1. OutcomeOf(wire[1].word) = "allowed-once"
          BY <1>3, <3>1, <3>2, <3>4 DEF Resolve, TypeOK
        <4>2. wire[1].word = "allowed-once"
          BY <3>3, <4>1 DEF OutcomeOf
        <4>3. QED
          BY <1>1, <3>2, <3>4, <4>2 DEF GrantsAreTouched
      <3>5. CASE w # wire[1].wait
        BY <1>3, <2>1, <3>1, <3>2, <3>5 DEF Resolve, TypeOK
      <3>6. QED
        BY <3>4, <3>5
    <2>3. ASSUME NEW x \in Waits, Claim(x) \/ Abort(x)
          PROVE  outcome[w] = "allowed-once"
      BY <1>3, <2>3 DEF Claim, Abort, Resolve, TypeOK
    <2>4. CASE HostEnds
      BY <1>3, <2>1, <2>4 DEF HostEnds
    <2>5. CASE UNCHANGED outcome
      BY <1>3, <2>1, <2>5
    <2>6. QED
      BY <2>1, <2>2, <2>3, <2>4, <2>5 DEF Next, BaseNext, vars, host, Decide,
         Dropped, Pause, Evicted, Handler, Read, Submit, ReadListed, ReadPaged, Submitted, Rejected
  <1>4. QED
    BY <1>2, <1>3 DEF GrantsAreTouched

-----------------------------------------------------------------------------
(* The listings.                                                             *)

LEMMA WaitsOnly ==
    ASSUME TypeOK
    PROVE  /\ \A n \in DOMAIN store : /\ InSeq(store[n].pending) \subseteq Waits
                                      /\ InSeq(store[n].lapsed) \subseteq Waits
           /\ \A k \in DOMAIN replies : Shown(k) \subseteq Waits
  <1>1. ASSUME NEW n \in DOMAIN store
        PROVE  InSeq(store[n].pending) \subseteq Waits /\ InSeq(store[n].lapsed) \subseteq Waits
    <2>1. Fits(store[n])
      BY StatesFit
    <2>2. store[n].pending \in Seq(Waits) /\ store[n].lapsed \in Seq(Waits)
      BY <2>1 DEF Fits, StateType
    <2>3. QED
      BY <2>2 DEF InSeq
  <1>2. ASSUME NEW k \in DOMAIN replies
        PROVE  Shown(k) \subseteq Waits
    <2>1. replies[k].cards \in Seq(Waits)
      BY <1>2, ByIsACall DEF ReplyType
    <2>2. QED
      BY <2>1, CardsFacts DEF Shown
  <1>3. QED
    BY <1>1, <1>2

\* The replies stay in their order, and nothing is shown that was not shown.
LEMMA ShownMoves ==
    ASSUME TypeOK, ShownIsListed, Kept, NEW d \in {0, 1},
           \A k \in DOMAIN replies' :
              /\ k \in Nat /\ k + d \in DOMAIN replies
              /\ Shown(k)' = Shown(k + d)
              /\ IsListing(k)' => IsListing(k + d),
           \A n \in DOMAIN store' : \A w \in InSeq(store'[n].pending) :
              /\ w \in Waits
              /\ outcome[w] = "none" =>
                   /\ w \in InSeq(Cards(entries))
                   /\ \A k \in DOMAIN replies' : IsListing(k)' => w \in Shown(k + d)
    PROVE  ShownIsListed'
  <1>1. ASSUME NEW n \in DOMAIN store', NEW w \in InSeq(store'[n].pending), outcome'[w] = "none"
        PROVE  /\ w \in InSeq(Cards(entries'))
               /\ \A k \in DOMAIN replies' : IsListing(k)' => w \in Shown(k)'
    <2>1. w \in Waits
      OBVIOUS
    <2>2. outcome[w] = "none"
      BY <1>1, <2>1 DEF Kept
    <2>3. QED
      BY <1>1, <2>2 DEF Kept
  <1>2. ASSUME NEW i \in DOMAIN replies', NEW w \in Shown(i)', outcome'[w] = "none"
        PROVE  /\ w \in InSeq(Cards(entries'))
               /\ \A j \in DOMAIN replies' : i < j /\ IsListing(j)' => w \in Shown(j)'
    <2>1. i + d \in DOMAIN replies /\ w \in Shown(i + d)
      BY <1>2
    <2>2. w \in Waits
      BY <2>1, WaitsOnly
    <2>3. outcome[w] = "none"
      BY <1>2, <2>2 DEF Kept
    <2>4. w \in InSeq(Cards(entries))
          /\ \A j \in DOMAIN replies : i + d < j /\ IsListing(j) => w \in Shown(j)
      BY <2>1, <2>3 DEF ShownIsListed
    <2>5. ASSUME NEW j \in DOMAIN replies', i < j, IsListing(j)'
          PROVE  w \in Shown(j)'
      <3>1. i + d < j + d
        BY <2>5
      <3>2. QED
        BY <2>4, <2>5, <3>1
    <2>6. QED
      BY <1>2, <2>4, <2>5 DEF Kept
  <1>3. QED
    BY <1>1, <1>2 DEF ShownIsListed

LEMMA ListingIsOwned ==
    ASSUME TypeOK, MessagesAreOwned, NEW k \in DOMAIN replies, NEW c \in Calls,
           replies[k].by = c, call[c].at = "list"
    PROVE  IsListing(k)
  BY NoneIsNoWait DEF IsListing

LEMMA ShownStep ==
    ASSUME TypeOK, CallsWaitForTheirOwn, RegistryIsOpen, MessagesAreOwned, ShownIsListed, Kept,
           [Next]_vars
    PROVE  ShownIsListed'
  <1>0. /\ replies \in Seq(ReplyType) /\ DOMAIN replies = 1 .. Len(replies)
        /\ Len(replies) \in Nat
    BY Typed
  <1>1. ASSUME UNCHANGED replies,
               \A k \in DOMAIN replies : IsListing(k)' => IsListing(k),
               \A n \in DOMAIN store' :
                  \/ n \in DOMAIN store /\ store'[n].pending = store[n].pending
                  \/ store'[n].pending = <<>>
        PROVE  ShownIsListed'
    <2>1. \A k \in DOMAIN replies' : /\ k \in Nat /\ k + 0 = k /\ k + 0 \in DOMAIN replies
                                     /\ Shown(k)' = Shown(k + 0)
                                     /\ IsListing(k)' => IsListing(k + 0)
      BY <1>0, <1>1 DEF Shown
    <2>2. \A n \in DOMAIN store' : \A w \in InSeq(store'[n].pending) :
              /\ w \in Waits
              /\ outcome[w] = "none" =>
                   /\ w \in InSeq(Cards(entries))
                   /\ \A k \in DOMAIN replies' : IsListing(k)' => w \in Shown(k + 0)
      <3>1. SUFFICES ASSUME NEW n \in DOMAIN store', NEW w \in InSeq(store'[n].pending)
                     PROVE  /\ w \in Waits
                            /\ outcome[w] = "none" =>
                                 /\ w \in InSeq(Cards(entries))
                                 /\ \A k \in DOMAIN replies' : IsListing(k)' => w \in Shown(k + 0)
        OBVIOUS
      <3>2. n \in DOMAIN store /\ w \in InSeq(store[n].pending)
        BY <1>1, <3>1 DEF InSeq
      <3>3. QED
        BY <1>1, <2>1, <3>2, WaitsOnly DEF ShownIsListed
    <2>3. QED
      BY <2>1, <2>2, ShownMoves
  <1>2. ASSUME UNCHANGED <<replies, call, store>>
        PROVE  ShownIsListed'
    BY <1>1, <1>2 DEF IsListing
  <1>3. ASSUME NEW c \in Calls \cup {None}, Answered(c), replies' = Tail(replies),
               \A d \in Calls : d # c => call'[d] = call[d],
               \A n \in DOMAIN store' : \A w \in InSeq(store'[n].pending) :
                  \/ n \in DOMAIN store /\ w \in InSeq(store[n].pending)
                  \/ w \in Shown(1)
        PROVE  ShownIsListed'
    <2>1. /\ \A k \in DOMAIN replies' : /\ k + 1 \in DOMAIN replies /\ k + 1 # 1
                                        /\ replies'[k] = replies[k + 1]
          /\ 1 \in DOMAIN replies
          /\ c \in Calls => \A k \in DOMAIN replies' : replies'[k].by # c
      BY <1>3, ReplyTaken DEF Answered
    <2>2. \A k \in DOMAIN replies' : k \in Nat
      BY <1>0, <1>3, TailFacts DEF Answered
    <2>3. ASSUME NEW k \in DOMAIN replies', IsListing(k)'
          PROVE  IsListing(k + 1)
      <3>1. replies'[k].by # None /\ call'[replies'[k].by].at = "list"
        BY <2>3 DEF IsListing
      <3>2. replies'[k].by \in Calls /\ replies'[k].by # c
        BY <2>1, <3>1, ByIsACall
      <3>3. QED
        BY <1>3, <2>1, <3>1, <3>2 DEF IsListing
    <2>4. \A k \in DOMAIN replies' : /\ k \in Nat /\ k + 1 \in DOMAIN replies
                                     /\ Shown(k)' = Shown(k + 1)
                                     /\ IsListing(k)' => IsListing(k + 1)
      BY <2>1, <2>2, <2>3 DEF Shown
    <2>5. \A n \in DOMAIN store' : \A w \in InSeq(store'[n].pending) :
              /\ w \in Waits
              /\ outcome[w] = "none" =>
                   /\ w \in InSeq(Cards(entries))
                   /\ \A k \in DOMAIN replies' : IsListing(k)' => w \in Shown(k + 1)
      <3>1. SUFFICES ASSUME NEW n \in DOMAIN store', NEW w \in InSeq(store'[n].pending)
                     PROVE  /\ w \in Waits
                            /\ outcome[w] = "none" =>
                                 /\ w \in InSeq(Cards(entries))
                                 /\ \A k \in DOMAIN replies' : IsListing(k)' => w \in Shown(k + 1)
        OBVIOUS
      <3>2. CASE n \in DOMAIN store /\ w \in InSeq(store[n].pending)
        BY <2>4, <3>2, WaitsOnly DEF ShownIsListed
      <3>3. CASE w \in Shown(1)
        <4>1. w \in Waits
          BY <2>1, <3>3, WaitsOnly
        <4>2. \A k \in DOMAIN replies' : 1 < k + 1
          BY <2>1, <2>2, <1>0
        <4>3. outcome[w] = "none" =>
                 /\ w \in InSeq(Cards(entries))
                 /\ \A j \in DOMAIN replies : 1 < j /\ IsListing(j) => w \in Shown(j)
          BY <2>1, <3>3 DEF ShownIsListed
        <4>4. QED
          BY <2>4, <4>1, <4>2, <4>3
      <3>4. QED
        BY <1>3, <3>1, <3>2, <3>3
    <2>6. QED
      BY <2>4, <2>5, ShownMoves
  <1>4. CASE Serve
    <2> DEFINE q == Head(wire)
               r == [by |-> q.by, ok |-> q.word = "none" \/ q.wait \in InSeq(entries),
                     cards |-> IF q.word = "none" THEN entries ELSE <<>>]
    <2>0. PICK new : new = Len(replies) + 1
      OBVIOUS
    <2>1. replies' = Append(replies, r) /\ UNCHANGED <<call, store>> /\ wire # <<>>
      BY <1>4 DEF Serve
    <2>2. q = wire[1] /\ 1 \in DOMAIN wire /\ q \in MessageType
      <3>1. q = wire[1] /\ 1 \in DOMAIN wire
        BY <2>1, Typed, TailFacts
      <3>2. QED
        BY <3>1, ByIsACall
    <2>3. entries \in Seq(Waits) /\ InSeq(Cards(<<>>)) = {}
      <3>0. <<>> \in Seq(Waits) /\ Len(<<>>) = 0
        OBVIOUS
      <3>1. PICK s \in Seq(Waits) : s = <<>> /\ Len(s) = 0
        BY <3>0, Zenon
      <3>2. \A x : x \notin InSeq(Cards(s))
        <4>1. MaxCards \in Nat
          BY BoundsAreNat
        <4>2. \A x : x \in InSeq(Cards(s)) => \E i \in 1 .. Len(s) : s[i] = x
          BY <4>1, InFirst DEF Cards
        <4>3. QED
          BY <3>1, <4>2
      <3>3. QED
        BY <3>1, <3>2, Typed
    <2>4. r \in ReplyType /\ r.by = q.by
          /\ r.cards = IF q.word = "none" THEN entries ELSE <<>>
      BY <2>2, <2>3 DEF ReplyType, MessageType
    <2> HIDE DEF r, q
    <2>5. /\ DOMAIN replies' = 1 .. new
          /\ \A k \in DOMAIN replies : replies'[k] = replies[k]
          /\ replies'[new] = r
      BY <1>0, <2>0, <2>1, <2>4, AppendFacts
    <2>6. /\ \A k \in DOMAIN replies : /\ Shown(k)' = Shown(k)
                                       /\ IsListing(k)' <=> IsListing(k)
          /\ \A k \in DOMAIN replies' : k \in DOMAIN replies \/ k = new
          /\ \A k \in DOMAIN replies : k < new
      BY <1>0, <2>0, <2>1, <2>5 DEF Shown, IsListing
    <2>7. IsListing(new)' => q.word = "none"
      <3>1. SUFFICES ASSUME IsListing(new)' PROVE q.word = "none"
        OBVIOUS
      <3>2. q.by # None /\ call[q.by].at = "list"
        BY <2>1, <2>4, <2>5, <3>1 DEF IsListing
      <3>3. q.by \in Calls
        BY <2>2, <3>2 DEF MessageType
      <3>4. QED
        BY <2>2, <3>2, <3>3 DEF MessagesAreOwned, CallsWaitForTheirOwn
    <2>8. Shown(new)' = IF q.word = "none" THEN InSeq(Cards(entries)) ELSE {}
      <3>1. Shown(new)' = InSeq(Cards(r.cards))
        BY <2>5 DEF Shown
      <3>2. QED
        BY <2>3, <2>4, <3>1
    <2>9. ASSUME NEW w \in Waits, outcome'[w] = "none"
          PROVE  /\ outcome[w] = "none"
                 /\ w \in InSeq(Cards(entries)) => w \in InSeq(Cards(entries'))
                 /\ w \in InSeq(Cards(entries)) /\ IsListing(new)' => w \in Shown(new)'
      BY <2>7, <2>8, <2>9 DEF Kept
    <2>10. ASSUME NEW n \in DOMAIN store', NEW w \in InSeq(store'[n].pending), outcome'[w] = "none"
           PROVE  /\ w \in InSeq(Cards(entries'))
                  /\ \A k \in DOMAIN replies' : IsListing(k)' => w \in Shown(k)'
      <3>1. n \in DOMAIN store /\ w \in InSeq(store[n].pending) /\ w \in Waits
        BY <2>1, <2>10, WaitsOnly
      <3>2. /\ w \in InSeq(Cards(entries))
            /\ \A k \in DOMAIN replies : IsListing(k) => w \in Shown(k)
        BY <2>9, <2>10, <3>1 DEF ShownIsListed
      <3>3. QED
        BY <2>6, <2>9, <2>10, <3>1, <3>2
    <2>11. ASSUME NEW i \in DOMAIN replies', NEW w \in Shown(i)', outcome'[w] = "none"
           PROVE  /\ w \in InSeq(Cards(entries'))
                  /\ \A j \in DOMAIN replies' : i < j /\ IsListing(j)' => w \in Shown(j)'
      <3>1. CASE i \in DOMAIN replies
        <4>1. w \in Shown(i) /\ w \in Waits
          BY <2>6, <2>11, <3>1, WaitsOnly
        <4>2. /\ w \in InSeq(Cards(entries))
              /\ \A j \in DOMAIN replies : i < j /\ IsListing(j) => w \in Shown(j)
          BY <2>9, <2>11, <3>1, <4>1 DEF ShownIsListed
        <4>3. QED
          BY <2>6, <2>9, <2>11, <4>1, <4>2
      <3>2. CASE i = new
        <4>1. w \in InSeq(Cards(entries))
          BY <2>8, <2>11, <3>2
        <4>2. w \in Waits
          BY <4>1, EntriesFacts
        <4>3. \A j \in DOMAIN replies' : ~ (i < j)
          BY <1>0, <2>0, <2>5, <3>2
        <4>4. QED
          BY <2>9, <2>11, <4>1, <4>2, <4>3
      <3>3. QED
        BY <2>6, <3>1, <3>2
    <2>12. QED
      BY <2>10, <2>11 DEF ShownIsListed
  <1>5. CASE HostEnds
    <2>1. DOMAIN replies' = {} /\ UNCHANGED store
      BY <1>5 DEF HostEnds
    <2>2. ASSUME NEW n \in DOMAIN store, NEW w \in InSeq(store[n].pending), outcome'[w] = "none"
          PROVE  w \in InSeq(Cards(entries'))
      <3>1. w \in Waits
        BY WaitsOnly
      <3>2. outcome[w] = "none"
        BY <2>2, <3>1 DEF Kept
      <3>3. QED
        BY <2>2, <3>2 DEF ShownIsListed, Kept
    <2>3. QED
      BY <2>1, <2>2 DEF ShownIsListed
  <1>6. CASE Dropped
    <2>1. UNCHANGED <<store, call>> /\ Answered(None) /\ replies' = Tail(replies)
      BY <1>6 DEF Dropped
    <2>2. QED
      BY <1>3, <2>1
  <1>7. CASE Evicted
    <2>1. UNCHANGED <<replies, call>>
      BY <1>7 DEF Evicted
    <2>2. \A n \in DOMAIN store' :
             \/ n \in DOMAIN store /\ store'[n].pending = store[n].pending
             \/ store'[n].pending = <<>>
      BY <1>7, EvictedStep DEF NewState
    <2>3. QED
      BY <1>1, <2>1, <2>2 DEF IsListing
  <1>8. ASSUME NEW c \in Calls, Handler(c)
        PROVE  ShownIsListed'
    <2>0. \A d \in Calls : d # c => call'[d] = call[d]
      <3>1. \E to : call' = [call EXCEPT ![c] = to]
        BY <1>8 DEF Handler, Read, Submit, Send, ReadListed, ReadPaged, Submitted, Rejected, Goes
      <3>2. QED
        BY <3>1 DEF TypeOK
    <2>1. ASSUME call[c].at \notin {"list", "submit"}, UNCHANGED replies
          PROVE  \A k \in DOMAIN replies : IsListing(k)' => IsListing(k)
      <3>1. \A k \in DOMAIN replies : replies[k].by # c
        BY <2>1, NoMessage
      <3>2. QED
        BY <2>0, <2>1, <3>1, ByIsACall DEF IsListing
    <2>2. CASE Read(c) \/ \E w \in Waits, word \in Words : Submit(c, w, word)
      <3>1. call[c] = Idle /\ UNCHANGED <<replies, store>>
        BY <2>2 DEF Read, Submit, Send
      <3>2. call[c].at \notin {"list", "submit"}
        BY <3>1 DEF Idle
      <3>3. QED
        BY <1>1, <2>1, <3>1, <3>2
    <2>3. CASE ReadListed(c)
      <3>1. /\ OthersKeep(call[c].st)
            /\ store'[call[c].st].pending = Cards(Head(replies).cards)
        BY <2>3, ListedStep
      <3>2. Answered(c) /\ replies' = Tail(replies)
        BY <2>3 DEF ReadListed
      <3>3. Head(replies) = replies[1]
        BY <3>2, ReplyTaken DEF Answered
      <3>4. \A n \in DOMAIN store' : \A w \in InSeq(store'[n].pending) :
               \/ n \in DOMAIN store /\ w \in InSeq(store[n].pending)
               \/ w \in Shown(1)
        BY <3>1, <3>3 DEF OthersKeep, Shown
      <3>5. QED
        BY <1>3, <2>0, <3>2, <3>4
    <2>4. CASE ReadPaged(c)
      <3>1. call[c].at \notin {"list", "submit"} /\ UNCHANGED replies
        BY <2>4 DEF ReadPaged
      <3>2. /\ OthersKeep(call[c].st)
            /\ store'[call[c].st].pending = store[call[c].st].pending
        BY <2>4, PagedStep
      <3>3. QED
        BY <1>1, <2>1, <3>1, <3>2 DEF OthersKeep
    <2>5. ASSUME Submitted(c) \/ (call[c].at = "submit" /\ Rejected(c))
          PROVE  /\ DOMAIN store' = DOMAIN store
                 /\ \A n \in DOMAIN store : store'[n].pending = store[n].pending
      <3>1. PICK state \in {"accepted", "unknown"} : Records(c, state) /\ call[c].at = "submit"
        BY <2>5, SubmissionRecords
      <3>2. /\ OthersKeep(call[c].st)
            /\ store'[call[c].st].pending = store[call[c].st].pending
        BY <3>1, RecordedStep
      <3>3. QED
        BY <3>2 DEF OthersKeep
    <2>6. CASE Submitted(c)
      <3>1. Answered(c) /\ replies' = Tail(replies)
        BY <2>6 DEF Submitted
      <3>2. QED
        BY <1>3, <2>0, <2>5, <2>6, <3>1
    <2>7. CASE Rejected(c)
      <3>1. /\ DOMAIN store' = DOMAIN store
            /\ \A n \in DOMAIN store : store'[n].pending = store[n].pending
        BY <2>5, <2>7 DEF Rejected
      <3>2. replies' = Disowned(replies, c)
        BY <2>7 DEF Rejected
      <3>3. /\ DOMAIN replies' = DOMAIN replies
            /\ \A k \in DOMAIN replies : replies'[k] =
                  IF replies[k].by = c THEN [replies[k] EXCEPT !.by = None] ELSE replies[k]
        BY <1>0, <3>2, DisownedReplies
      <3>4. \A k \in DOMAIN replies :
               /\ replies'[k].cards = replies[k].cards
               /\ replies'[k].by # None => replies'[k] = replies[k] /\ replies[k].by # c
        BY <3>3, ByIsACall DEF ReplyType
      <3>5. \A k \in DOMAIN replies' :
               /\ k \in Nat /\ k + 0 = k /\ k + 0 \in DOMAIN replies
               /\ Shown(k)' = Shown(k + 0)
               /\ IsListing(k)' => IsListing(k + 0)
        <4>1. ASSUME NEW k \in DOMAIN replies, IsListing(k)'
              PROVE  IsListing(k)
          <5>1. replies[k].by # None /\ replies[k].by # c /\ call'[replies[k].by].at = "list"
            BY <3>4, <4>1 DEF IsListing
          <5>2. replies[k].by \in Calls
            BY <5>1, ByIsACall
          <5>3. QED
            BY <2>0, <5>1, <5>2 DEF IsListing
        <4>2. QED
          BY <1>0, <3>3, <3>4, <4>1 DEF Shown
      <3>6. \A n \in DOMAIN store' : \A w \in InSeq(store'[n].pending) :
               /\ w \in Waits
               /\ outcome[w] = "none" =>
                    /\ w \in InSeq(Cards(entries))
                    /\ \A k \in DOMAIN replies' : IsListing(k)' => w \in Shown(k + 0)
        BY <3>1, <3>5, WaitsOnly DEF ShownIsListed
      <3>7. QED
        BY <3>5, <3>6, ShownMoves
    <2>8. QED
      BY <1>8, <2>2, <2>3, <2>4, <2>6, <2>7 DEF Handler
  <1>9. QED
    BY <1>2, <1>4, <1>5, <1>6, <1>7, <1>8 DEF Next, BaseNext, vars, Claim, Abort, Decide, Pause

LEMMA LapsedStep ==
    ASSUME TypeOK, CallsWaitForTheirOwn, MessagesAreOwned, ShownIsListed, LapsedIsResolved, Kept,
           [Next]_vars
    PROVE  LapsedIsResolved'
  <1>1. ASSUME NEW m \in DOMAIN store, NEW w \in InSeq(store[m].lapsed)
        PROVE  outcome'[w] # "none"
    <2>1. w \in Waits /\ outcome[w] # "none"
      BY WaitsOnly DEF LapsedIsResolved
    <2>2. QED
      BY <2>1 DEF Kept
  <1>2. SUFFICES ASSUME NEW n \in DOMAIN store', NEW w \in InSeq(store'[n].lapsed)
                 PROVE  \/ n \in DOMAIN store /\ w \in InSeq(store[n].lapsed)
                        \/ outcome'[w] # "none"
    BY <1>1 DEF LapsedIsResolved
  <1>3. CASE UNCHANGED store
    BY <1>3
  <1>4. CASE Evicted
    <2>1. n \in DOMAIN store
      BY <1>4, EvictedStep DEF NewState, InSeq
    <2>2. QED
      BY <1>4, <2>1, EvictedStep
  <1>5. ASSUME NEW c \in Calls, ReadListed(c)
        PROVE  \/ n \in DOMAIN store /\ w \in InSeq(store[n].lapsed)
               \/ outcome'[w] # "none"
    <2> DEFINE st == call[c].st
               cards == Cards(Head(replies).cards)
    <2>1. /\ OthersKeep(st)
          /\ \A x \in InSeq(store'[st].lapsed) :
                x \in InSeq(store[st].lapsed)
                \/ (x \in InSeq(store[st].pending) /\ x \notin InSeq(cards))
      BY <1>5, ListedStep
    <2>2. CASE n # st \/ w \in InSeq(store[st].lapsed)
      BY <2>1, <2>2 DEF OthersKeep
    <2>3. CASE n = st /\ w \in InSeq(store[st].pending) /\ w \notin InSeq(cards)
      <3>1. /\ 1 \in DOMAIN replies /\ Head(replies) = replies[1] /\ replies[1].by = c
            /\ call[c].at = "list"
        <4>1. replies # <<>> /\ Head(replies).by = c /\ call[c].at = "list"
              /\ replies' = Tail(replies)
          BY <1>5 DEF ReadListed, Answered
        <4>2. QED
          BY <4>1, ReplyTaken
      <3>2. IsListing(1) /\ w \notin Shown(1)
        BY <2>3, <3>1, ListingIsOwned DEF Shown
      <3>3. st \in DOMAIN store /\ w \in Waits
        BY <2>1, <2>3, WaitsOnly DEF OthersKeep
      <3>4. outcome[w] # "none"
        BY <2>3, <3>1, <3>2, <3>3 DEF ShownIsListed
      <3>5. QED
        BY <3>3, <3>4 DEF Kept
    <2>4. QED
      BY <1>2, <2>1, <2>2, <2>3
  <1>6. ASSUME NEW c \in Calls, ReadPaged(c)
        PROVE  n \in DOMAIN store /\ w \in InSeq(store[n].lapsed)
    <2>1. OthersKeep(call[c].st) /\ store'[call[c].st].lapsed = store[call[c].st].lapsed
      BY <1>6, PagedStep
    <2>2. QED
      BY <1>2, <2>1 DEF OthersKeep
  <1>7. ASSUME NEW c \in Calls, Submitted(c) \/ (call[c].at = "submit" /\ Rejected(c))
        PROVE  n \in DOMAIN store /\ w \in InSeq(store[n].lapsed)
    <2>1. PICK state \in {"accepted", "unknown"} : Records(c, state) /\ call[c].at = "submit"
      BY <1>7, SubmissionRecords
    <2>2. OthersKeep(call[c].st) /\ store'[call[c].st].lapsed = store[call[c].st].lapsed
      BY <2>1, RecordedStep
    <2>3. QED
      BY <1>2, <2>2 DEF OthersKeep
  <1>8. QED
    BY <1>3, <1>4, <1>5, <1>6, <1>7, StoreStill

-----------------------------------------------------------------------------
(* The theorems.                                                             *)

LEMMA InitHolds == Init => IInv
  <1> SUFFICES ASSUME Init PROVE IInv
    OBVIOUS
  <1>1. /\ store = <<NewState>> /\ NewState \in StateType /\ Fits(NewState)
        /\ DOMAIN store = {1} /\ store[1] = NewState
    BY NewStateFits DEF Init, Fits
  <1>2. store \in Seq(StateType) /\ \A n \in DOMAIN store : Fits(store[n])
    BY <1>1
  <1>3. Idle \in CallType
    BY <1>1 DEF CallType, Idle
  <1>4. TypeOK
    <2>1. wire \in Seq(MessageType) /\ replies \in Seq(ReplyType) /\ entries \in Seq(Waits)
      BY DEF Init
    <2>2. sends \in 0 .. MaxSends
      BY BoundsAreNat DEF Init
    <2>3. call \in [Calls -> CallType]
      BY <1>3 DEF Init
    <2>4. /\ outcome \in [Waits -> Outcomes \cup {"none", "lost"}]
          /\ decided \in [Waits -> Outcomes \cup {"none"}] /\ paused \in BOOLEAN
      BY DEF Init
    <2>5. QED
      BY <1>2, <2>1, <2>2, <2>3, <2>4, Typed
  <1>5. \A c \in Calls : call[c].at = "idle"
    BY DEF Init, Idle
  <1>6. CallsWaitForTheirOwn
    BY <1>5 DEF CallsWaitForTheirOwn
  <1>7. RegistryIsOpen /\ MessagesAreOwned
    BY DEF Init, RegistryIsOpen, MessagesAreOwned, InSeq
  <1>8. \A n \in DOMAIN store : /\ InSeq(store[n].receipts) = {}
                                /\ InSeq(store[n].lapsed) = {} /\ InSeq(store[n].pending) = {}
    BY <1>1 DEF NewState, InSeq
  <1>9. ReceiptsAreTrue
    BY <1>8 DEF ReceiptsAreTrue, Receipts
  <1>10. GrantsAreTouched
    BY DEF Init, GrantsAreTouched
  <1>11. ShownIsListed /\ LapsedIsResolved
    BY <1>8 DEF Init, ShownIsListed, LapsedIsResolved
  <1>12. QED
    BY <1>4, <1>6, <1>7, <1>9, <1>10, <1>11 DEF IInv

LEMMA StepHolds == IInv /\ [Next]_vars => IInv'
  <1> SUFFICES ASSUME IInv, [Next]_vars PROVE IInv'
    OBVIOUS
  <1>1. RegistryIsOpen' /\ Kept
    BY RegistryStep DEF IInv
  <1>2. TypeOK' /\ CallsWaitForTheirOwn'
    BY TypeStep, CallsWaitStep DEF IInv
  <1>3. MessagesAreOwned' /\ ReceiptsAreTrue'
    BY <1>1, MessagesStep, ReceiptsStep DEF IInv
  <1>4. GrantsAreTouched'
    BY GrantsStep DEF IInv
  <1>5. ShownIsListed' /\ LapsedIsResolved'
    BY <1>1, ShownStep, LapsedStep DEF IInv
  <1>6. QED
    BY <1>1, <1>2, <1>3, <1>4, <1>5 DEF IInv

THEOREM Invariance == Spec => []IInv
  BY InitHolds, StepHolds, PTL DEF Spec

\* Every variable keeps its type, and no state of the store outgrows its bounds.
THEOREM TypeCorrect == Spec => []TypeOK
<1>1. IInv => TypeOK
  BY DEF IInv
<1>2. QED
  BY <1>1, Invariance, PTL

\* A receipt never says more than the relay and the log of the session do.
THEOREM ReceiptsHold == Spec => []ReceiptsAreTrue
<1>1. IInv => ReceiptsAreTrue
  BY DEF IInv
<1>2. QED
  BY <1>1, Invariance, PTL

\* A wait that was granted left a receipt, or its handler still waits: in any state
\* the store has made, and as long as no list of receipts is full.
THEOREM GrantsHold == Spec => []GrantLeavesReceipt
<1>1. IInv => GrantLeavesReceipt
  BY DEF IInv, GrantsAreTouched, Touched, GrantLeavesReceipt
<1>2. QED
  BY <1>1, Invariance, PTL

\* A wait told as lapsed is not held by the Host.
THEOREM LapsedHolds == Spec => []LapsedIsOver
<1>1. IInv => LapsedIsOver
  <2>1. SUFFICES ASSUME IInv, NEW n \in DOMAIN store, NEW w \in InSeq(store[n].lapsed),
                        w \in InSeq(entries)
                 PROVE  FALSE
    BY DEF LapsedIsOver
  <2>2. outcome[w] = "none"
    BY <2>1 DEF IInv, RegistryIsOpen
  <2>3. outcome[w] # "none"
    BY <2>1 DEF IInv, LapsedIsResolved
  <2>4. QED
    BY <2>2, <2>3
<1>2. QED
  BY <1>1, Invariance, PTL

\* No later answer, however late it is acted on, turns a wait told as lapsed into a
\* grant, and a grant is not taken back but by the loss of the Host.
LapsedIsNeverGranted ==
    \A w \in Waits :
        /\ (\E n \in DOMAIN store : w \in InSeq(store[n].lapsed)) /\ outcome[w] # "allowed-once"
              => outcome'[w] # "allowed-once"
        /\ outcome[w] \in Outcomes => outcome'[w] \in {outcome[w], "lost"}
        /\ decided[w] # "none" => decided'[w] = decided[w]

\* What the user was told is over stays over, and what was decided stays decided.
THEOREM LapsedStaysOver == Spec => [][LapsedIsNeverGranted]_vars
<1>1. ASSUME IInv, [Next]_vars PROVE LapsedIsNeverGranted
  <2> SUFFICES ASSUME NEW w \in Waits
               PROVE  /\ (\E n \in DOMAIN store : w \in InSeq(store[n].lapsed))
                            /\ outcome[w] # "allowed-once" => outcome'[w] # "allowed-once"
                      /\ outcome[w] \in Outcomes => outcome'[w] \in {outcome[w], "lost"}
                      /\ decided[w] # "none" => decided'[w] = decided[w]
    BY DEF LapsedIsNeverGranted
  <2>1. /\ (\E n \in DOMAIN store : w \in InSeq(store[n].lapsed)) => outcome[w] # "none"
        /\ w \in InSeq(entries) => outcome[w] = "none"
    BY <1>1 DEF IInv, LapsedIsResolved, RegistryIsOpen
  <2>2. Kept
    BY <1>1, RegistryStep DEF IInv
  <2>3. "none" \notin Outcomes
    BY DEF Outcomes, Decisions
  <2>4. QED
    BY <2>1, <2>2, <2>3 DEF Kept
<1>2. IInv /\ [Next]_vars => [LapsedIsNeverGranted]_vars
  BY <1>1
<1>3. QED
  BY <1>2, InitHolds, StepHolds, PTL DEF Spec
=============================================================================
