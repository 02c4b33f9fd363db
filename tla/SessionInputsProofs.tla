------------------------- MODULE SessionInputsProofs -------------------------
(* Proofs about SessionInputs, for any number of handlers, sessions and inputs. *)
(* Whatever faults occur, a kept input runs at most once, with the text on      *)
(* record.  Where no answer is lost, an input recorded as consumed was taken,   *)
(* and, with one call at a time, what is queued follows the list.               *)
EXTENDS SessionInputs, FiniteSetTheorems, WellFoundedInduction, TLAPS

States == {"pending", "dispatching", "submitted", "consumed"}
Kinds  == {"create", "prompt", "cancel", "control", "remove", "edit"}

ItemT == [id : Nat \ {0}, text : 0 .. MaxEdits, req : Nat, state : States]
RequestT == [call : Calls \cup {None}, kind : Kinds, session : Sessions \cup {None},
             req : Nat, item : Nat, text : 0 .. QueueText]
MessageT == [call : Calls,
             answer : {"refused", "created", "accepted", "unrecognised", "cancelled",
                       "reported", "removed", "edited"},
             value : Sessions \cup {None} \cup SUBSET Nat]
CallT == [op : {"none", "send", "resume", "stop", "queue"}, at : Kinds \cup {"idle"},
          session : Sessions \cup {None}, item : Nat, req : Nat, todo : SUBSET ItemT]
OccurrenceT == [req : Nat \ {0}, item : Nat, text : 0 .. QueueText]

-----------------------------------------------------------------------------
(* Sequences.                                                                *)

\* Where the n-th element was before the k-th was taken out.
Over(k, n) == IF n < k THEN n ELSE n + 1

LEMMA WithoutFacts ==
    ASSUME NEW S, NEW s \in Seq(S), NEW k \in DOMAIN s
    PROVE  /\ Without(s, k) \in Seq(S)
           /\ Len(Without(s, k)) = Len(s) - 1
           /\ \A n \in 1 .. Len(s) - 1 :
                 /\ Over(k, n) \in DOMAIN s /\ Over(k, n) # k
                 /\ Without(s, k)[n] = s[Over(k, n)]
  <1>1. k \in 1 .. Len(s) /\ Len(s) \in Nat /\ DOMAIN s = 1 .. Len(s)
    OBVIOUS
  <1>2. Len(s) - 1 \in Nat
    BY <1>1
  <1>3. \A n \in 1 .. Len(s) - 1 : Without(s, k)[n] \in S
    BY <1>1 DEF Without
  <1>4. Without(s, k) \in Seq(S) /\ Len(Without(s, k)) = Len(s) - 1
    BY <1>2, <1>3 DEF Without
  <1>5. QED
    BY <1>1, <1>4 DEF Without, Over

LEMMA TailFacts ==
    ASSUME NEW S, NEW s \in Seq(S), s # <<>>
    PROVE  /\ Tail(s) \in Seq(S) /\ Head(s) \in S
           /\ Len(Tail(s)) = Len(s) - 1
           /\ \A n \in 1 .. Len(Tail(s)) : Tail(s)[n] = s[n + 1] /\ n + 1 \in 1 .. Len(s)
           /\ Head(s) = s[1] /\ 1 \in DOMAIN s
  OBVIOUS

LEMMA AppendFacts ==
    ASSUME NEW S, NEW s \in Seq(S), NEW x \in S
    PROVE  /\ Append(s, x) \in Seq(S)
           /\ Len(Append(s, x)) = Len(s) + 1
           /\ \A n \in 1 .. Len(s) : Append(s, x)[n] = s[n]
           /\ Append(s, x)[Len(s) + 1] = x
  OBVIOUS

\* A set of numbers that is not empty has a least one.
LEMMA LeastExists ==
    ASSUME NEW T \in SUBSET Nat, T # {}
    PROVE  \E m \in T : \A n \in T : m <= n
  <1>1. PICK m \in T : \A n \in T : <<n, m>> \notin OpToRel(<, Nat)
    BY WFMin, NatLessThanWellFounded, Zenon
  <1>2. \A n \in T : ~ (n < m)
    BY <1>1, Zenon DEF OpToRel
  <1>3. QED
    BY <1>2

LEMMA FirstIsOne ==
    ASSUME NEW T \in SUBSET Nat, T # {}
    PROVE  First(T) \in T
  BY LeastExists DEF First

-----------------------------------------------------------------------------
(* The list of kept inputs.                                                  *)

Pend(its, x) == \E k \in DOMAIN its : its[k].id = x /\ its[k].state = "pending"

ItemTag(its, q, x) == \E k \in DOMAIN its : its[k].req = q /\ its[k].id = x

UniqueIds(its) == \A i, j \in DOMAIN its : its[i].id = its[j].id => i = j

ListOK(its, n) ==
    /\ its \in Seq(ItemT)
    /\ Len(its) <= MaxItems
    /\ UniqueIds(its)
    /\ \A k \in DOMAIN its : its[k].id < n /\ its[k].req < n

\* An operation that leaves every identity in its place.
LEMMA InPlace ==
    ASSUME NEW n \in Nat, NEW its, ListOK(its, n), NEW t, DOMAIN t = DOMAIN its,
           t = [k \in DOMAIN its |-> t[k]],
           \A k \in DOMAIN its : t[k] \in ItemT /\ t[k].id = its[k].id /\ t[k].req < n
    PROVE  ListOK(t, n)
  <1>1. its \in Seq(ItemT) /\ DOMAIN its = 1 .. Len(its) /\ Len(its) \in Nat
    BY DEF ListOK
  <1>2. t \in Seq(ItemT) /\ Len(t) = Len(its)
    BY <1>1
  <1>3. QED
    BY <1>2 DEF ListOK, UniqueIds

LEMMA MarkFacts ==
    ASSUME NEW n \in Nat, NEW its, ListOK(its, n), NEW x \in Nat, NEW q \in Nat, q < n
    PROVE  LET t == MarkSubmitted(its, x, q) IN
           /\ ListOK(t, n)
           /\ \A y : Pend(t, y) => Pend(its, y)
           /\ \A p, y : ItemTag(t, p, y) => ItemTag(its, p, y) \/ (p = q /\ y = x)
  <1> DEFINE t == MarkSubmitted(its, x, q)
  <1>1. \A k \in DOMAIN its : its[k] \in ItemT
    BY DEF ListOK
  <1>2. /\ DOMAIN t = DOMAIN its /\ t = [k \in DOMAIN its |-> t[k]]
        /\ \A k \in DOMAIN its : t[k] = IF its[k].id = x
              THEN [its[k] EXCEPT !.state = "submitted", !.req = q] ELSE its[k]
    BY DEF MarkSubmitted, WithItem
  <1> HIDE DEF t
  <1>3. \A k \in DOMAIN its : t[k] \in ItemT /\ t[k].id = its[k].id
    BY <1>1, <1>2 DEF ItemT, States
  <1>4. \A k \in DOMAIN its :
           IF its[k].id = x THEN t[k].state = "submitted" /\ t[k].req = q
                            ELSE t[k] = its[k]
    BY <1>1, <1>2 DEF ItemT, States
  <1>5. \A k \in DOMAIN its : t[k].req < n
    BY <1>4 DEF ListOK
  <1>6. ListOK(t, n)
    BY <1>2, <1>3, <1>5, InPlace
  <1>7. QED
    BY <1>2, <1>3, <1>4, <1>6 DEF Pend, ItemTag, t

\* An operation that changes states only, and makes no input pending but x.
StatesOnly(t, its, x) ==
    /\ DOMAIN t = DOMAIN its /\ t = [k \in DOMAIN its |-> t[k]]
    /\ \A k \in DOMAIN its :
          \/ t[k] = its[k]
          \/ \E st \in States : /\ t[k] = [its[k] EXCEPT !.state = st]
                                /\ st = "pending" => its[k].id = x

LEMMA StatesFacts ==
    ASSUME NEW n \in Nat, NEW its, ListOK(its, n), NEW t, NEW x, StatesOnly(t, its, x)
    PROVE  /\ ListOK(t, n)
           /\ \A y : Pend(t, y) => Pend(its, y) \/ y = x
           /\ \A p, y : ItemTag(t, p, y) => ItemTag(its, p, y)
  <1>1. \A k \in DOMAIN its : its[k] \in ItemT /\ its[k].req < n
    BY DEF ListOK
  <1>2. ASSUME NEW k \in DOMAIN its
        PROVE  /\ t[k] \in ItemT /\ t[k].id = its[k].id /\ t[k].req = its[k].req
               /\ t[k].state = "pending" => its[k].state = "pending" \/ its[k].id = x
    <2>1. CASE t[k] = its[k]
      BY <1>1, <2>1
    <2>2. ASSUME NEW st \in States, t[k] = [its[k] EXCEPT !.state = st],
                 st = "pending" => its[k].id = x
          PROVE  /\ t[k] \in ItemT /\ t[k].id = its[k].id /\ t[k].req = its[k].req
                 /\ t[k].state = "pending" => its[k].id = x
      BY <1>1, <2>2 DEF ItemT, States
    <2>3. QED
      BY <2>1, <2>2 DEF StatesOnly
  <1>3. ListOK(t, n)
    BY <1>1, <1>2, InPlace DEF StatesOnly
  <1>4. QED
    BY <1>2, <1>3 DEF Pend, ItemTag, StatesOnly

LEMMA OpsAreStatesOnly ==
    ASSUME NEW n \in Nat, NEW its, ListOK(its, n), NEW x, NEW queued
    PROVE  /\ StatesOnly(RevertDispatch(its, x), its, x)
           /\ StatesOnly(ReturnToPending(its, x), its, x)
           /\ StatesOnly(FoldQueue(its, queued), its, 0)
           /\ \A k \in DOMAIN its : StatesOnly(BeginDispatch(its, k), its, 0)
  <1>1. StatesOnly(RevertDispatch(its, x), its, x)
    BY DEF StatesOnly, RevertDispatch, States
  <1>2. StatesOnly(ReturnToPending(its, x), its, x)
    BY DEF StatesOnly, ReturnToPending, States
  <1>3. StatesOnly(FoldQueue(its, queued), its, 0)
    BY DEF StatesOnly, FoldQueue, States
  <1>4. ASSUME NEW k \in DOMAIN its
        PROVE  StatesOnly(BeginDispatch(its, k), its, 0)
    <2>1. its = [j \in DOMAIN its |-> its[j]]
      BY DEF ListOK
    <2>2. QED
      BY <2>1 DEF StatesOnly, BeginDispatch, States
  <1>5. QED
    BY <1>1, <1>2, <1>3, <1>4

\* Dispatching takes an input out of the pending ones.
LEMMA DispatchFacts ==
    ASSUME NEW n \in Nat, NEW its, ListOK(its, n), NEW k \in DOMAIN its,
           its[k].state = "pending"
    PROVE  /\ Pend(its, its[k].id) /\ ~ Pend(BeginDispatch(its, k), its[k].id)
           /\ its[k] \in ItemT
  <1>1. its[k] \in ItemT /\ DOMAIN BeginDispatch(its, k) = DOMAIN its
    BY DEF ListOK, BeginDispatch
  <1>2. /\ BeginDispatch(its, k)[k].state = "dispatching"
        /\ \A j \in DOMAIN its : j # k => BeginDispatch(its, k)[j] = its[j]
    BY <1>1 DEF BeginDispatch, ItemT
  <1>3. QED
    BY <1>1, <1>2 DEF Pend, ListOK, UniqueIds

LEMMA EnqueueFacts ==
    ASSUME NEW n \in Nat \ {0}, NEW its, ListOK(its, n)
    PROVE  LET t == Enqueued(its, n) IN
           /\ ListOK(t, n + 1)
           /\ \A y : Pend(t, y) => Pend(its, y) \/ y = n
           /\ \A p, y : ItemTag(t, p, y) => ItemTag(its, p, y) \/ p = 0
  <1> DEFINE new == [id |-> n, state |-> "pending", text |-> 0, req |-> 0]
             all == Append(its, new)
             t == Enqueued(its, n)
  <1>1. its \in Seq(ItemT) /\ Len(its) \in Nat /\ Len(its) <= MaxItems /\ MaxItems \in Nat \ {0}
    BY BoundsAreNat DEF ListOK
  <1>2. new \in ItemT
    BY BoundsAreNat DEF ItemT, States
  <1>3. /\ all \in Seq(ItemT) /\ Len(all) = Len(its) + 1
        /\ \A k \in 1 .. Len(its) : all[k] = its[k]
        /\ all[Len(its) + 1] = new
    BY <1>1, <1>2, AppendFacts
  <1>4. t = IF Len(all) > MaxItems THEN Tail(all) ELSE all
    BY DEF Enqueued
  <1> HIDE DEF all, t
  <1>5. PICK d \in {0, 1} :
           /\ t \in Seq(ItemT) /\ Len(t) = Len(its) + 1 - d /\ Len(t) <= MaxItems
           /\ \A k \in 1 .. Len(t) : t[k] = all[k + d]
    <2>1. CASE Len(all) > MaxItems
      <3>1. all # <<>>
        BY <1>1, <1>3
      <3>2. t \in Seq(ItemT) /\ Len(t) = Len(its) /\ \A k \in 1 .. Len(t) : t[k] = all[k + 1]
        BY <1>1, <1>3, <1>4, <2>1, <3>1, TailFacts
      <3>3. QED
        BY <1>1, <3>2
    <2>2. CASE ~ (Len(all) > MaxItems)
      BY <1>1, <1>3, <1>4, <2>2
    <2>3. QED
      BY <2>1, <2>2
  <1>6. \A k \in DOMAIN t : \/ k + d \in DOMAIN its /\ t[k] = its[k + d]
                            \/ k + d = Len(its) + 1 /\ t[k] = new
    <2>1. ASSUME NEW k \in 1 .. Len(t)
          PROVE  \/ k + d \in 1 .. Len(its) /\ t[k] = its[k + d]
                 \/ k + d = Len(its) + 1 /\ t[k] = new
      <3>1. k + d \in 1 .. Len(its) + 1 /\ t[k] = all[k + d]
        BY <1>1, <1>5
      <3>2. k + d \in 1 .. Len(its) \/ k + d = Len(its) + 1
        BY <1>1, <3>1
      <3>3. QED
        BY <1>3, <3>1, <3>2
    <2>2. DOMAIN t = 1 .. Len(t) /\ DOMAIN its = 1 .. Len(its)
      BY <1>1, <1>5
    <2>3. QED
      BY <2>1, <2>2
  <1>7. new.id = n /\ new.req = 0
    OBVIOUS
  <1> HIDE DEF new
  <1>8. \A j \in DOMAIN its : its[j] \in ItemT /\ its[j].id < n /\ its[j].req < n
    BY DEF ListOK
  <1>9. \A k \in DOMAIN t : t[k].id < n + 1 /\ t[k].req < n + 1
    BY <1>6, <1>7, <1>8 DEF ItemT
  <1>10. UniqueIds(t)
    <2>1. ASSUME NEW i \in DOMAIN t, NEW j \in DOMAIN t, t[i].id = t[j].id
          PROVE  i = j
      <3>1. i \in Nat /\ j \in Nat
        BY <1>5
      <3>2. QED
        BY <1>6, <1>7, <1>8, <2>1, <3>1 DEF ListOK, UniqueIds
    <2>2. QED
      BY <2>1 DEF UniqueIds
  <1>11. ListOK(t, n + 1)
    BY <1>5, <1>9, <1>10 DEF ListOK
  <1>12. QED
    BY <1>6, <1>7, <1>11 DEF Pend, ItemTag, t

LEMMA EditFacts ==
    ASSUME NEW n \in Nat, NEW its, ListOK(its, n), NEW k \in DOMAIN its,
           its[k].text < MaxEdits
    PROVE  LET t == [its EXCEPT ![k].text = @ + 1] IN
           /\ ListOK(t, n)
           /\ \A y : Pend(t, y) => Pend(its, y)
           /\ \A p, y : ItemTag(t, p, y) => ItemTag(its, p, y)
  <1> DEFINE t == [its EXCEPT ![k].text = @ + 1]
  <1>1. \A j \in DOMAIN its : its[j] \in ItemT /\ its[j].req < n
    BY DEF ListOK
  <1>2. DOMAIN t = DOMAIN its /\ t = [j \in DOMAIN its |-> t[j]]
    BY DEF ListOK
  <1>3. \A j \in DOMAIN its : /\ t[j] \in ItemT /\ t[j].id = its[j].id
                              /\ t[j].req = its[j].req /\ t[j].state = its[j].state
    BY <1>1, BoundsAreNat DEF ItemT
  <1> HIDE DEF t
  <1>4. ListOK(t, n)
    BY <1>1, <1>2, <1>3, InPlace
  <1>5. QED
    BY <1>2, <1>3, <1>4 DEF Pend, ItemTag, t

LEMMA RemoveFacts ==
    ASSUME NEW n \in Nat, NEW its, ListOK(its, n), NEW k \in DOMAIN its
    PROVE  LET t == Without(its, k) IN
           /\ ListOK(t, n)
           /\ \A y : Pend(t, y) => Pend(its, y)
           /\ \A p, y : ItemTag(t, p, y) => ItemTag(its, p, y)
  <1> DEFINE t == Without(its, k)
  <1>1. its \in Seq(ItemT) /\ Len(its) \in Nat /\ Len(its) <= MaxItems /\ MaxItems \in Nat
    BY BoundsAreNat DEF ListOK
  <1>2. /\ t \in Seq(ItemT) /\ Len(t) = Len(its) - 1
        /\ \A j \in DOMAIN t : Over(k, j) \in DOMAIN its /\ t[j] = its[Over(k, j)]
    <2>1. /\ t \in Seq(ItemT) /\ Len(t) = Len(its) - 1
          /\ \A j \in 1 .. Len(its) - 1 : Over(k, j) \in DOMAIN its /\ t[j] = its[Over(k, j)]
      BY <1>1, WithoutFacts
    <2>2. DOMAIN t = 1 .. Len(its) - 1
      BY <1>1, <2>1
    <2>3. QED
      BY <2>1, <2>2
  <1> HIDE DEF t
  <1>3. \A i, j \in DOMAIN t : Over(k, i) = Over(k, j) => i = j
    BY <1>1, <1>2 DEF Over
  <1>4. UniqueIds(t)
    BY <1>2, <1>3 DEF ListOK, UniqueIds
  <1>5. ListOK(t, n)
    BY <1>1, <1>2, <1>4 DEF ListOK
  <1>6. QED
    BY <1>2, <1>5 DEF Pend, ItemTag, t

-----------------------------------------------------------------------------
(* The invariant.                                                            *)

TypeInv ==
    /\ paused \in BOOLEAN
    /\ binding \in created \cup {None}
    /\ created \subseteq Sessions
    /\ nextId \in Nat \ {0}
    /\ call \in [Calls -> CallT]
    /\ host \subseteq RequestT
    /\ wire \in Seq(MessageT)
    /\ inbox \in [Sessions -> Seq(OccurrenceT)]
    /\ taken \subseteq OccurrenceT

NamesSession(cl) ==
    \/ cl.at \in {"cancel", "control"}
    \/ cl.op = "stop"
    \/ cl.op = "resume" /\ cl.at = "prompt"

SessionsKnown ==
    /\ \A r \in host : r.kind \in {"prompt", "control", "remove", "edit"} => r.session \in Sessions
    /\ \A r \in host : r.kind = "prompt" => r.req # 0
    /\ \A c \in Calls : NamesSession(call[c]) => call[c].session \in Sessions
    /\ \A c \in Calls : call[c].at = "cancel" => call[c].item = 0 /\ call[c].todo = {}
    /\ \A n \in DOMAIN wire : wire[n].answer = "created" => wire[n].value \in created

\* Identities and requests are minted in order.
Minted ==
    /\ \A r \in host : r.req < nextId /\ r.item < nextId
    /\ \A s \in Sessions : \A k \in DOMAIN inbox[s] :
          inbox[s][k].req < nextId /\ inbox[s][k].item < nextId
    /\ \A o \in taken : o.req < nextId /\ o.item < nextId
    /\ \A c \in Calls : /\ call[c].item < nextId /\ call[c].req < nextId
                        /\ \A i \in call[c].todo : i.id < nextId /\ i.req < nextId

\* The answers a call can have.
Fits(a, at) ==
    /\ a = "created" => at = "create"
    /\ a \in {"accepted", "unrecognised"} => at = "prompt"
    /\ a = "cancelled" => at = "cancel"
    /\ a = "reported" => at = "control"
    /\ a = "removed" => at = "remove"
    /\ a = "edited" => at = "edit"

\* A handler that waits has one call under way, or its answer, and no other has any.
Owned ==
    /\ \A r \in host : r.call # None => call[r.call].at = r.kind /\ call[r.call].item = r.item
    /\ \A r1, r2 \in host : r1.call = r2.call /\ r1.call # None => r1 = r2
    /\ \A n \in DOMAIN wire : /\ call[wire[n].call].at # "idle"
                              /\ Fits(wire[n].answer, call[wire[n].call].at)
    /\ \A m, n \in DOMAIN wire : wire[m].call = wire[n].call => m = n
    /\ \A r \in host : \A n \in DOMAIN wire : r.call # wire[n].call

\* A request was minted for one input.
HostTag(q, x) == \E r \in host :
    (r.kind = "prompt" \/ (r.kind = "remove" /\ r.item # 0)) /\ r.req = q /\ r.item = x
BoxTag(q, x) == \E s \in Sessions : \E k \in DOMAIN inbox[s] :
    inbox[s][k].req = q /\ inbox[s][k].item = x
TagOf(cl, q, x) ==
    \/ cl.at = "prompt" /\ cl.req = q /\ cl.item = x
    \/ \E i \in cl.todo : i.req = q /\ i.id = x
CallTag(q, x) == \E c \in Calls : TagOf(call[c], q, x)
IsTag(q, x) == HostTag(q, x) \/ BoxTag(q, x) \/ CallTag(q, x) \/ ItemTag(items, q, x)

TagsAgree ==
    \A q, x, y : q # 0 /\ IsTag(q, x) /\ IsTag(q, y) => x = y

\* Where the one copy of an input is: on its way to the base, queued, taken by a
\* turn, or coming back in an answer; a pending input is its own copy.
Prompted(x) == \E r \in host : r.kind = "prompt" /\ r.item = x
InInbox(x)  == \E s \in Sessions : \E k \in DOMAIN inbox[s] : inbox[s][k].item = x
WasTaken(x) == \E o \in taken : o.item = x
Returning(c) == \E n \in DOMAIN wire :
    wire[n].call = c /\ wire[n].answer \in {"unrecognised", "removed"}
Returns(x)  == \E c \in Calls : Returning(c) /\ call[c].item = x

OnePrompt == \A r1, r2 \in host :
    r1.kind = "prompt" /\ r2.kind = "prompt" /\ r1.item = r2.item /\ r1.item # 0 => r1 = r2
OneQueued == \A s1, s2 \in Sessions : \A k1 \in DOMAIN inbox[s1], k2 \in DOMAIN inbox[s2] :
    inbox[s1][k1].item = inbox[s2][k2].item /\ inbox[s1][k1].item # 0 => s1 = s2 /\ k1 = k2
OneTaken == \A o1, o2 \in taken : o1.item = o2.item /\ o1.item # 0 => o1 = o2
OneReturn == \A c1, c2 \in Calls :
    Returning(c1) /\ Returning(c2) /\ call[c1].item = call[c2].item /\ call[c1].item # 0
        => c1 = c2
Apart == \A x : x # 0 =>
    /\ Prompted(x) => ~ InInbox(x) /\ ~ WasTaken(x) /\ ~ Returns(x) /\ ~ Pend(items, x)
    /\ InInbox(x)  => ~ WasTaken(x) /\ ~ Returns(x) /\ ~ Pend(items, x)
    /\ WasTaken(x) => ~ Returns(x) /\ ~ Pend(items, x)
    /\ Returns(x)  => ~ Pend(items, x)

OneCopy == OnePrompt /\ OneQueued /\ OneTaken /\ OneReturn /\ Apart

IInv ==
    /\ TypeInv /\ SessionsKnown /\ Minted
    /\ ListOK(items, nextId)
    /\ Owned /\ TagsAgree /\ OneCopy

LEMMA TagsAreMinted ==
    ASSUME IInv
    PROVE  /\ \A q, x : IsTag(q, x) => q < nextId /\ q \in Nat
           /\ ~ Prompted(nextId) /\ ~ InInbox(nextId) /\ ~ WasTaken(nextId) /\ ~ Returns(nextId)
           /\ \A x : Pend(items, x) => x \in Nat /\ x < nextId /\ x # 0
  <1>1. nextId \in Nat /\ ~ (nextId < nextId)
    BY DEF IInv, TypeInv
  <1>2. \A q, x : HostTag(q, x) => q < nextId /\ q \in Nat
    BY DEF IInv, Minted, TypeInv, HostTag, RequestT
  <1>3. ASSUME NEW s \in Sessions, NEW k \in DOMAIN inbox[s]
        PROVE  inbox[s][k] \in OccurrenceT
    BY DEF IInv, TypeInv
  <1>4. \A q, x : BoxTag(q, x) => q < nextId /\ q \in Nat
    BY <1>3 DEF IInv, Minted, BoxTag, OccurrenceT
  <1>5. \A q, x : CallTag(q, x) => q < nextId /\ q \in Nat
    <2>1. ASSUME NEW c \in Calls
          PROVE  call[c] \in CallT /\ \A i \in call[c].todo : i \in ItemT
      BY DEF IInv, TypeInv, CallT
    <2>2. QED
      BY <2>1 DEF IInv, Minted, CallTag, TagOf, CallT, ItemT
  <1>6. \A k \in DOMAIN items : items[k] \in ItemT
    BY DEF IInv, ListOK
  <1>7. \A q, x : ItemTag(items, q, x) => q < nextId /\ q \in Nat
    BY <1>6 DEF IInv, ListOK, ItemTag, ItemT
  <1>8. \A x : Pend(items, x) => x \in Nat /\ x < nextId /\ x # 0
    BY <1>6 DEF IInv, ListOK, Pend, ItemT
  <1>9. ~ Prompted(nextId)
    BY <1>1 DEF IInv, Minted, Prompted
  <1>10. ~ InInbox(nextId)
    BY <1>1 DEF IInv, Minted, InInbox
  <1>11. ~ WasTaken(nextId) /\ ~ Returns(nextId)
    BY <1>1 DEF IInv, Minted, WasTaken, Returns
  <1>12. QED
    BY <1>2, <1>4, <1>5, <1>7, <1>8, <1>9, <1>10, <1>11 DEF IsTag

LEMMA TagsGrow ==
    ASSUME IInv, NEW z, \A q, x : q # 0 /\ IsTag(q, x)' => IsTag(q, x) \/ (q = nextId /\ x = z)
    PROVE  TagsAgree'
  <1>1. \A x : ~ IsTag(nextId, x)
    BY TagsAreMinted DEF IInv, TypeInv
  <1>2. QED
    BY <1>1 DEF IInv, TagsAgree

-----------------------------------------------------------------------------
(* A step of the main process: a handler takes its answer, or starts, and ends *)
(* or sends a call.                                                          *)

Frees(c) ==
    \/ call[c].at = "idle" /\ wire' = wire
    \/ wire # <<>> /\ Head(wire).call = c /\ wire' = Tail(wire)

AskOK(c, new, q) ==
    /\ new \in CallT /\ q \in RequestT
    /\ q.call = c /\ q.kind = new.at /\ q.item = new.item
    /\ q.item < nextId' /\ q.req < nextId' /\ new.req < nextId'
    /\ q.kind \in {"prompt", "control", "remove", "edit"} => q.session \in Sessions
    /\ NamesSession(new) => new.session \in Sessions
    /\ new.at = "cancel" => new.item = 0 /\ new.todo = {}
    /\ q.kind = "prompt" =>
          /\ q.req = nextId /\ new.req = nextId
          /\ q.item # 0 => Pend(items, q.item) /\ ~ Pend(items', q.item)
    /\ q.kind = "remove" /\ q.item # 0 =>
          ItemTag(items, q.req, q.item) \/ TagOf(call[c], q.req, q.item)
    /\ \A i \in new.todo : i \in call[c].todo \/ \E k \in DOMAIN items : i = items[k]

Asks(c, new, q) ==
    /\ Frees(c) /\ AskOK(c, new, q)
    /\ call' = [call EXCEPT ![c] = new] /\ host' = host \cup {q}

Ends(c) == Frees(c) /\ call' = [call EXCEPT ![c] = Idle] /\ host' = host

\* What the step does to the list and to the rest.
Records(c) ==
    /\ UNCHANGED base
    /\ paused' \in BOOLEAN /\ binding' \in created \cup {None}
    /\ nextId' \in {nextId, nextId + 1}
    /\ ListOK(items', nextId')
    /\ \A x : Pend(items', x) => \/ Pend(items, x)
                                 \/ Returning(c) /\ x = call[c].item
    /\ \A q, x : ItemTag(items', q, x) => ItemTag(items, q, x) \/ TagOf(call[c], q, x)

LEMMA FreesFacts ==
    ASSUME IInv, NEW c \in Calls, Frees(c)
    PROVE  /\ wire' \in Seq(MessageT)
           /\ \E d \in {0, 1} : \A n \in DOMAIN wire' :
                 n + d \in DOMAIN wire /\ wire'[n] = wire[n + d] /\ n \in Nat
           /\ \A n \in DOMAIN wire' : wire'[n].call # c
           /\ \A r \in host : r.call # c
  <1>1. wire \in Seq(MessageT) /\ None \notin Calls
    BY NoneIsNoSession DEF IInv, TypeInv
  <1>2. CASE call[c].at = "idle" /\ wire' = wire
    <2>1. \A r \in host : r.call # c
      <3>1. \A r \in host : r.kind # "idle"
        BY DEF IInv, TypeInv, RequestT, Kinds
      <3>2. QED
        BY <1>1, <1>2, <3>1 DEF IInv, Owned
    <2>2. \A n \in DOMAIN wire : wire[n].call # c
      BY <1>2 DEF IInv, Owned
    <2>3. \A n \in DOMAIN wire' : n + 0 \in DOMAIN wire /\ wire'[n] = wire[n + 0] /\ n \in Nat
      BY <1>1, <1>2
    <2>4. QED
      BY <1>1, <1>2, <2>1, <2>2, <2>3
  <1>3. CASE wire # <<>> /\ Head(wire).call = c /\ wire' = Tail(wire)
    <2>1. /\ wire' \in Seq(MessageT) /\ DOMAIN wire' = 1 .. Len(wire')
          /\ \A n \in 1 .. Len(wire') : wire'[n] = wire[n + 1] /\ n + 1 \in DOMAIN wire /\ n \in Nat
          /\ wire[1].call = c /\ 1 \in DOMAIN wire
      BY <1>1, <1>3, TailFacts
    <2>2. \A n \in DOMAIN wire' : wire'[n].call # c
      <3>1. \A n \in 1 .. Len(wire') : n + 1 # 1
        OBVIOUS
      <3>2. QED
        BY <2>1, <3>1 DEF IInv, Owned
    <2>3. \A r \in host : r.call # c
      BY <2>1 DEF IInv, Owned
    <2>4. QED
      BY <2>1, <2>2, <2>3
  <1>4. QED
    BY <1>2, <1>3 DEF Frees

LEMMA MainTypes ==
    ASSUME IInv, NEW c \in Calls, Records(c),
           Ends(c) \/ \E new, q : Asks(c, new, q)
    PROVE  TypeInv' /\ SessionsKnown' /\ Minted'
  <1> DEFINE cl == call'[c]
  <1>1. /\ nextId' \in Nat \ {0} /\ \A m \in Nat : m < nextId => m < nextId'
        /\ nextId \in Nat \ {0}
    BY DEF IInv, TypeInv, Records
  <1>2. Frees(c) /\ wire' \in Seq(MessageT)
    BY FreesFacts DEF Asks, Ends
  <1>3. Idle \in CallT /\ ~ NamesSession(Idle)
    BY DEF Idle, CallT, NamesSession
  <1>4. /\ \E new \in CallT : call' = [call EXCEPT ![c] = new]
        /\ call'[c] \in CallT /\ \A b \in Calls \ {c} : call'[b] = call[b]
        /\ call' \in [Calls -> CallT]
    BY <1>3 DEF Asks, Ends, AskOK, IInv, TypeInv
  <1>5. /\ cl.item < nextId' /\ cl.req < nextId'
        /\ \A i \in cl.todo : i.id < nextId' /\ i.req < nextId'
        /\ NamesSession(cl) => cl.session \in Sessions
        /\ cl.at = "cancel" => cl.item = 0 /\ cl.todo = {}
    <2>1. CASE Ends(c)
      <3>1. cl = Idle
        BY <2>1 DEF Ends, IInv, TypeInv
      <3>2. QED
        BY <1>1, <1>3, <3>1 DEF Idle
    <2>2. ASSUME NEW new, NEW q, Asks(c, new, q)
          PROVE  /\ cl.item < nextId' /\ cl.req < nextId'
                 /\ \A i \in cl.todo : i.id < nextId' /\ i.req < nextId'
                 /\ NamesSession(cl) => cl.session \in Sessions
                 /\ cl.at = "cancel" => cl.item = 0 /\ cl.todo = {}
      <3>1. cl = new /\ AskOK(c, new, q)
        BY <2>2 DEF Asks, IInv, TypeInv
      <3>2. ASSUME NEW i \in cl.todo
            PROVE  i.id < nextId' /\ i.req < nextId'
        <4>1. i \in ItemT
          BY <1>4 DEF CallT
        <4>2. i.id < nextId /\ i.req < nextId
          BY <3>1, <3>2 DEF AskOK, IInv, Minted, ListOK
        <4>3. QED
          BY <1>1, <4>1, <4>2 DEF ItemT
      <3>3. QED
        BY <3>1, <3>2 DEF AskOK
    <2>3. QED
      BY <2>1, <2>2
  <1> HIDE DEF cl
  <1>6. \A r \in host' : \/ r \in host
                         \/ /\ r \in RequestT
                            /\ r.kind \in {"prompt", "control", "remove", "edit"} =>
                                  r.session \in Sessions
                            /\ r.kind = "prompt" => r.req # 0
                            /\ r.req < nextId' /\ r.item < nextId'
    BY <1>1 DEF Asks, Ends, AskOK
  <1>7. TypeInv'
    BY <1>1, <1>2, <1>4, <1>6 DEF Records, IInv, TypeInv, base
  <1>8. \A n \in DOMAIN wire' : wire'[n].answer = "created" => wire'[n].value \in created
    BY <1>2, FreesFacts DEF IInv, SessionsKnown
  <1>9. SessionsKnown'
    BY <1>4, <1>5, <1>6, <1>8 DEF Records, IInv, SessionsKnown, base, cl
  <1>10. \A r \in host' : r.req < nextId' /\ r.item < nextId'
    BY <1>1, <1>6 DEF IInv, TypeInv, RequestT, Minted
  <1>11. /\ \A s \in Sessions : \A k \in DOMAIN inbox'[s] :
               inbox'[s][k].req < nextId' /\ inbox'[s][k].item < nextId'
         /\ \A o \in taken' : o.req < nextId' /\ o.item < nextId'
    <2>1. \A s \in Sessions : \A k \in DOMAIN inbox[s] : inbox[s][k] \in OccurrenceT
      BY DEF IInv, TypeInv
    <2>2. \A o \in taken : o \in OccurrenceT
      BY DEF IInv, TypeInv
    <2>3. QED
      BY <1>1, <2>1, <2>2 DEF Records, base, IInv, Minted, OccurrenceT
  <1>12. ASSUME NEW b \in Calls
         PROVE  /\ call'[b].item < nextId' /\ call'[b].req < nextId'
                /\ \A i \in call'[b].todo : i.id < nextId' /\ i.req < nextId'
    <2>1. CASE b = c
      BY <1>5, <2>1 DEF cl
    <2>2. CASE b # c
      <3>1. call'[b] = call[b] /\ call[b] \in CallT /\ \A i \in call[b].todo : i \in ItemT
        BY <1>4, <2>2 DEF IInv, TypeInv, CallT
      <3>2. QED
        BY <1>1, <3>1 DEF IInv, Minted, CallT, ItemT
    <2>3. QED
      BY <2>1, <2>2
  <1>13. QED
    BY <1>7, <1>9, <1>10, <1>11, <1>12 DEF Minted

LEMMA MainOwned ==
    ASSUME IInv, NEW c \in Calls, Ends(c) \/ \E new, q : Asks(c, new, q)
    PROVE  Owned'
  <1>1. /\ wire' \in Seq(MessageT)
        /\ \A n \in DOMAIN wire' : wire'[n].call # c /\ wire'[n].call \in Calls
        /\ \A r \in host : r.call # c
    <2>1. /\ wire' \in Seq(MessageT)
          /\ \A n \in DOMAIN wire' : wire'[n].call # c
          /\ \A r \in host : r.call # c
      BY FreesFacts DEF Asks, Ends
    <2>2. \A n \in DOMAIN wire' : wire'[n] \in MessageT
      BY <2>1
    <2>3. QED
      BY <2>1, <2>2 DEF MessageT
  <1>2. PICK d \in {0, 1} : \A n \in DOMAIN wire' :
           n + d \in DOMAIN wire /\ wire'[n] = wire[n + d] /\ n \in Nat
    BY FreesFacts DEF Asks, Ends
  <1>3. /\ \A b \in Calls \ {c} : call'[b] = call[b]
        /\ c \in Calls /\ None \notin Calls
    BY NoneIsNoSession DEF Asks, Ends, IInv, TypeInv
  <1>4. \A r \in host' : \/ r \in host
                         \/ r.call = c /\ call'[c].at = r.kind /\ call'[c].item = r.item
    BY DEF Asks, Ends, AskOK, IInv, TypeInv
  <1>5. \A r1, r2 \in host' : r1.call = c /\ r2.call = c => r1 = r2
    BY <1>1 DEF Asks, Ends
  <1>6. \A r \in host : r.call \in Calls \cup {None}
    BY DEF IInv, TypeInv, RequestT
  <1>7. \A r \in host' : r.call # None => call'[r.call].at = r.kind /\ call'[r.call].item = r.item
    BY <1>1, <1>3, <1>4, <1>6 DEF IInv, Owned
  <1>8. \A r1, r2 \in host' : r1.call = r2.call /\ r1.call # None => r1 = r2
    BY <1>4, <1>5, <1>1 DEF IInv, Owned
  <1>9. \A n \in DOMAIN wire' : /\ call'[wire'[n].call].at # "idle"
                                /\ Fits(wire'[n].answer, call'[wire'[n].call].at)
    BY <1>1, <1>2, <1>3 DEF IInv, Owned
  <1>10. \A m, n \in DOMAIN wire' : wire'[m].call = wire'[n].call => m = n
    <2>1. ASSUME NEW m \in DOMAIN wire', NEW n \in DOMAIN wire', wire'[m].call = wire'[n].call
          PROVE  m = n
      <3>1. m + d = n + d
        BY <1>2, <2>1 DEF IInv, Owned
      <3>2. QED
        BY <1>2, <3>1
    <2>2. QED
      BY <2>1
  <1>11. \A r \in host' : \A n \in DOMAIN wire' : r.call # wire'[n].call
    BY <1>1, <1>2, <1>4 DEF IInv, Owned
  <1>12. QED
    BY <1>7, <1>8, <1>9, <1>10, <1>11 DEF Owned

LEMMA MainTags ==
    ASSUME IInv, NEW c \in Calls, Records(c), Ends(c) \/ \E new, q : Asks(c, new, q)
    PROVE  TagsAgree'
  <1>1. \A p, x : BoxTag(p, x)' => BoxTag(p, x)
    BY DEF Records, base, BoxTag
  <1>2. \A p, x : ItemTag(items, p, x)' => IsTag(p, x)
    BY DEF Records, IsTag, CallTag
  <1>3. \A b \in Calls \ {c} : call'[b] = call[b]
    BY DEF Ends, Asks, IInv, TypeInv
  <1>4. CASE Ends(c)
    <2>1. call'[c] = Idle /\ host' = host
      BY <1>4 DEF Ends, IInv, TypeInv
    <2>2. \A p, x : HostTag(p, x)' => HostTag(p, x)
      BY <2>1 DEF HostTag
    <2>3. \A p, x : ~ TagOf(Idle, p, x)
      BY DEF TagOf, Idle
    <2>4. \A p, x : CallTag(p, x)' => CallTag(p, x)
      BY <1>3, <2>1, <2>3 DEF CallTag
    <2>5. \A p, x : IsTag(p, x)' => IsTag(p, x)
      BY <1>1, <1>2, <2>2, <2>4 DEF IsTag
    <2>6. QED
      BY <2>5, TagsGrow
  <1>5. ASSUME NEW new, NEW q, Asks(c, new, q)
        PROVE  TagsAgree'
    <2>1. call'[c] = new /\ host' = host \cup {q} /\ AskOK(c, new, q)
      BY <1>5 DEF Asks, IInv, TypeInv
    <2>2. ASSUME NEW p, NEW x, HostTag(p, x)'
          PROVE  IsTag(p, x) \/ (p = nextId /\ x = q.item)
      <3>1. PICK r \in host' : (r.kind = "prompt" \/ (r.kind = "remove" /\ r.item # 0))
                               /\ r.req = p /\ r.item = x
        BY <2>2 DEF HostTag
      <3>2. CASE r \in host
        BY <3>1, <3>2 DEF HostTag, IsTag
      <3>3. CASE r = q
        BY <2>1, <3>1, <3>3 DEF AskOK, IsTag, CallTag
      <3>4. QED
        BY <2>1, <3>2, <3>3
    <2>3. ASSUME NEW p, NEW x, TagOf(new, p, x)
          PROVE  IsTag(p, x) \/ (p = nextId /\ x = q.item)
      <3>1. CASE new.at = "prompt" /\ new.req = p /\ new.item = x
        BY <2>1, <3>1 DEF AskOK
      <3>2. ASSUME NEW i \in new.todo, i.req = p, i.id = x
            PROVE  IsTag(p, x)
        <4>1. CASE i \in call[c].todo
          BY <3>2, <4>1 DEF IsTag, CallTag, TagOf
        <4>2. ASSUME NEW k \in DOMAIN items, i = items[k]
              PROVE  IsTag(p, x)
          BY <3>2, <4>2 DEF IsTag, ItemTag
        <4>3. QED
          BY <2>1, <4>1, <4>2 DEF AskOK
      <3>3. QED
        BY <2>3, <3>1, <3>2 DEF TagOf
    <2>4. \A p, x : CallTag(p, x)' => IsTag(p, x) \/ (p = nextId /\ x = q.item)
      BY <1>3, <2>1, <2>3 DEF CallTag, IsTag
    <2>5. \A p, x : IsTag(p, x)' => IsTag(p, x) \/ (p = nextId /\ x = q.item)
      BY <1>1, <1>2, <2>2, <2>4 DEF IsTag
    <2>6. QED
      BY <2>5, TagsGrow
  <1>6. QED
    BY <1>4, <1>5

LEMMA MainCopies ==
    ASSUME IInv, NEW c \in Calls, Records(c), Ends(c) \/ \E new, q : Asks(c, new, q)
    PROVE  OneCopy'
  <1>1. UNCHANGED <<inbox, taken>> /\ OneQueued' /\ OneTaken'
    BY DEF Records, base, IInv, OneCopy, OneQueued, OneTaken
  <1>2. /\ \A x : InInbox(x)' <=> InInbox(x)
        /\ \A x : WasTaken(x)' <=> WasTaken(x)
    BY <1>1 DEF InInbox, WasTaken
  <1>3. /\ \A n \in DOMAIN wire' : wire'[n].call # c
        /\ \A n \in DOMAIN wire' : \E m \in DOMAIN wire : wire'[n] = wire[m]
    BY FreesFacts DEF Asks, Ends
  <1>4. \A b \in Calls \ {c} : call'[b] = call[b]
    BY DEF Ends, Asks, IInv, TypeInv
  <1>5. \A b \in Calls : Returning(b)' => b # c /\ Returning(b) /\ call'[b] = call[b]
    BY <1>3, <1>4 DEF Returning
  <1>6. OneReturn'
    BY <1>5 DEF OneReturn, IInv, OneCopy
  <1>7. \A x : Returns(x)' => Returns(x) /\ (x # 0 /\ Returning(c) => x # call[c].item)
    BY <1>5 DEF Returns, OneReturn, IInv, OneCopy
  <1>8. \A x : Pend(items, x)' => \/ Pend(items, x)
                                  \/ Returns(x) /\ Returning(c) /\ x = call[c].item
    BY DEF Records, Returns
  <1>9. CASE Ends(c)
    <2>1. OnePrompt' /\ \A x : Prompted(x)' <=> Prompted(x)
      BY <1>9 DEF Ends, OnePrompt, Prompted, IInv, OneCopy
    <2>2. Apart'
      BY <1>2, <1>7, <1>8, <2>1 DEF Apart, IInv, OneCopy
    <2>3. QED
      BY <1>1, <1>6, <2>1, <2>2 DEF OneCopy
  <1>10. ASSUME NEW new, NEW q, Asks(c, new, q)
         PROVE  OneCopy'
    <2>1. /\ host' = host \cup {q}
          /\ q.kind = "prompt" /\ q.item # 0 => Pend(items, q.item) /\ ~ Pend(items', q.item)
      BY <1>10 DEF Asks, AskOK
    <2>2. q.kind = "prompt" /\ q.item # 0 =>
             ~ Prompted(q.item) /\ ~ InInbox(q.item) /\ ~ WasTaken(q.item) /\ ~ Returns(q.item)
      BY <2>1 DEF Apart, IInv, OneCopy
    <2>3. OnePrompt'
      BY <2>1, <2>2 DEF OnePrompt, Prompted, IInv, OneCopy
    <2>4. \A x : Prompted(x)' => \/ Prompted(x)
                                 \/ q.kind = "prompt" /\ x = q.item
      BY <2>1 DEF Prompted
    <2>5. Apart'
      BY <1>2, <1>7, <1>8, <2>1, <2>2, <2>4 DEF Apart, IInv, OneCopy
    <2>6. QED
      BY <1>1, <1>6, <2>3, <2>5 DEF OneCopy
  <1>11. QED
    BY <1>9, <1>10

LEMMA MainKeeps ==
    ASSUME IInv, NEW c \in Calls, Records(c), Ends(c) \/ \E new, q : Asks(c, new, q)
    PROVE  IInv'
  BY MainTypes, MainOwned, MainTags, MainCopies DEF IInv, Records

\* A step that leaves the calls and the base alone.
LEMMA RestKeeps ==
    ASSUME IInv, UNCHANGED <<call, host, wire, created, inbox, taken>>,
           paused' \in BOOLEAN, binding' \in created \cup {None},
           nextId' \in {nextId, nextId + 1}, ListOK(items', nextId'),
           \A x : Pend(items', x) => Pend(items, x) \/ x = nextId,
           \A q, x : ItemTag(items', q, x) => ItemTag(items, q, x) \/ q = 0
    PROVE  IInv'
  <1>1. TypeInv' /\ SessionsKnown'
    BY DEF IInv, TypeInv, SessionsKnown
  <1>2. nextId \in Nat /\ nextId' \in Nat /\ \A m \in Nat : m < nextId => m < nextId'
    BY DEF IInv, TypeInv
  <1>3. Minted'
    <2>1. /\ \A r \in host : r.req \in Nat /\ r.item \in Nat
          /\ \A s \in Sessions : \A k \in DOMAIN inbox[s] : inbox[s][k] \in OccurrenceT
          /\ \A o \in taken : o \in OccurrenceT
      BY DEF IInv, TypeInv, RequestT
    <2>2. \A c \in Calls : call[c] \in CallT /\ \A i \in call[c].todo : i \in ItemT
      BY DEF IInv, TypeInv, CallT
    <2>3. QED
      BY <1>2, <2>1, <2>2 DEF IInv, Minted, OccurrenceT, CallT, ItemT
  <1>4. Owned'
    BY DEF IInv, Owned
  <1>5. \A q, x : q # 0 /\ IsTag(q, x)' => IsTag(q, x)
    BY DEF IsTag, HostTag, BoxTag, CallTag
  <1>6. TagsAgree'
    BY <1>5, TagsGrow
  <1>7. OnePrompt' /\ OneQueued' /\ OneTaken' /\ OneReturn'
    BY DEF IInv, OneCopy, OnePrompt, OneQueued, OneTaken, OneReturn, Returning
  <1>8. \A x : /\ Prompted(x)' <=> Prompted(x)
               /\ InInbox(x)' <=> InInbox(x)
               /\ WasTaken(x)' <=> WasTaken(x)
               /\ Returns(x)' <=> Returns(x)
    BY DEF Prompted, InInbox, WasTaken, Returns, Returning
  <1>9. Apart'
    BY <1>8, TagsAreMinted DEF IInv, OneCopy, Apart
  <1>10. QED
    BY <1>1, <1>3, <1>4, <1>6, <1>7, <1>9 DEF IInv, OneCopy

-----------------------------------------------------------------------------
(* The steps of the user and of the handlers.                                *)

LEMMA ListGrows ==
    ASSUME NEW n \in Nat, NEW its, ListOK(its, n)
    PROVE  ListOK(its, n + 1)
  <1>1. \A k \in DOMAIN its : its[k] \in ItemT
    BY DEF ListOK
  <1>2. QED
    BY <1>1 DEF ListOK, ItemT

LEMMA StartFrees ==
    ASSUME NEW c, Start(c), UNCHANGED wire
    PROVE  Frees(c)
  BY DEF Start, Frees

LEMMA DeliversFacts ==
    ASSUME IInv, NEW c \in Calls, NEW at, Delivers(c, at)
    PROVE  /\ Frees(c) /\ Head(wire) \in MessageT
           /\ Answer = "removed" \/ Answer = "unrecognised" => Returning(c)
           /\ Answer = "created" => Value \in created
           /\ Fits(Answer, at) /\ call[c].at = at /\ Answer # "refused"
  <1>1. wire \in Seq(MessageT) /\ wire # <<>> /\ Head(wire).call = c
    BY DEF IInv, TypeInv, Delivers
  <1>2. Head(wire) \in MessageT /\ Head(wire) = wire[1] /\ 1 \in DOMAIN wire
    BY <1>1, TailFacts
  <1>3. QED
    BY <1>1, <1>2 DEF Delivers, Frees, Answer, Value, Returning, IInv, SessionsKnown, Owned

\* What a step that leaves the list alone has to show.
LEMMA SameList ==
    ASSUME IInv, NEW c \in Calls, UNCHANGED <<items, paused, created, inbox, taken>>,
           nextId' \in {nextId, nextId + 1}, binding' \in created \cup {None}
    PROVE  Records(c)
  <1>1. nextId \in Nat /\ ListOK(items, nextId) /\ paused \in BOOLEAN
    BY DEF IInv, TypeInv
  <1>2. ListOK(items, nextId')
    BY <1>1, ListGrows
  <1>3. QED
    BY <1>1, <1>2 DEF Records, base

LEMMA IdleFacts ==
    /\ Idle \in CallT
    /\ Idle.op = "none" /\ Idle.at = "idle" /\ Idle.session = None
    /\ Idle.item = 0 /\ Idle.req = 0 /\ Idle.todo = {}
  BY DEF Idle, CallT

LEMMA RequestFacts ==
    ASSUME NEW c \in Calls, NEW kind \in Kinds, NEW s \in Sessions \cup {None},
           NEW req \in Nat, NEW item \in Nat, NEW text \in 0 .. QueueText
    PROVE  LET q == Request(c, kind, s, req, item, text) IN
           /\ q \in RequestT
           /\ q.call = c /\ q.kind = kind /\ q.session = s /\ q.req = req /\ q.item = item
  BY DEF Request, RequestT

\* A prompt sent at once carries no kept input.
LEMMA DirectAsks ==
    ASSUME IInv, NEW c \in Calls, NEW s \in Sessions, Frees(c), PromptDirectly(c, s)
    PROVE  \E new, q : Asks(c, new, q)
  <1> DEFINE q   == Request(c, "prompt", s, nextId, 0, 0)
             new == [Idle EXCEPT !.op = "send", !.at = "prompt", !.req = nextId]
  <1>1. nextId \in Nat \ {0} /\ nextId' = nextId + 1 /\ host' = host \cup {q}
        /\ call' = [call EXCEPT ![c] = new] /\ 0 \in 0 .. QueueText
    BY BoundsAreNat DEF PromptDirectly, Sends, Await, IInv, TypeInv, QueueText
  <1>2. /\ q \in RequestT
        /\ q.call = c /\ q.kind = "prompt" /\ q.session = s /\ q.req = nextId /\ q.item = 0
    BY <1>1, RequestFacts DEF Kinds
  <1>3. /\ new \in CallT /\ new.op = "send" /\ new.at = "prompt" /\ new.req = nextId
        /\ new.item = 0 /\ new.todo = {}
    BY <1>1, IdleFacts DEF CallT, Kinds
  <1> HIDE DEF q, new
  <1>4. AskOK(c, new, q)
    BY <1>1, <1>2, <1>3 DEF AskOK, NamesSession
  <1>5. QED
    BY <1>1, <1>4 DEF Asks

\* A call about nothing in particular: create, cancel, an edit in the queue panel.
LEMMA PlainAsks ==
    ASSUME IInv, NEW c \in Calls, Frees(c), nextId' = nextId,
           NEW at \in Kinds \ {"prompt"}, NEW s \in Sessions \cup {None},
           at \in {"control", "remove", "edit"} => s \in Sessions,
           NEW req \in Nat, req < nextId, NEW text \in 0 .. QueueText,
           NEW new \in CallT, new.at = at, new.item = 0, new.req < nextId, new.todo = {},
           NamesSession(new) => new.session \in Sessions,
           Sends(c, at, s, req, 0, text), Await(c, new)
    PROVE  \E n, q : Asks(c, n, q)
  <1> DEFINE q == Request(c, at, s, req, 0, text)
  <1>1. host' = host \cup {q} /\ call' = [call EXCEPT ![c] = new] /\ nextId \in Nat \ {0}
    BY DEF Sends, Await, IInv, TypeInv
  <1>2. /\ q \in RequestT
        /\ q.call = c /\ q.kind = at /\ q.session = s /\ q.req = req /\ q.item = 0
    BY RequestFacts
  <1> HIDE DEF q
  <1>3. AskOK(c, new, q)
    BY <1>1, <1>2 DEF AskOK
  <1>4. QED
    BY <1>1, <1>3 DEF Asks

\* One turn of the loop of resume, on a list that is the kept one or follows it.
LEMMA DispatchKeeps ==
    ASSUME IInv, NEW c \in Calls, Frees(c), NEW s \in Sessions, NEW its, NEW isPaused,
           ListOK(its, nextId),
           \A x : Pend(its, x) => Pend(items, x),
           \A q, x : ItemTag(its, q, x) => ItemTag(items, q, x) \/ TagOf(call[c], q, x),
           DispatchNext(c, s, its, isPaused),
           UNCHANGED base, paused' \in BOOLEAN, binding' \in created \cup {None}
    PROVE  IInv'
  <1>1. nextId \in Nat \ {0} /\ its \in Seq(ItemT)
    BY DEF IInv, TypeInv, ListOK
  <1>2. CASE /\ LoopEnds(its, isPaused) /\ items' = its /\ Return(c)
             /\ UNCHANGED <<host, nextId>>
    <2>1. Records(c)
      BY <1>2 DEF Records
    <2>2. Ends(c)
      BY <1>2 DEF Ends, Return
    <2>3. QED
      BY <2>1, <2>2, MainKeeps
  <1>3. CASE ~ LoopEnds(its, isPaused)
    <2> DEFINE k   == First(InState(its, "pending"))
               q   == Request(c, "prompt", s, nextId, its[k].id, its[k].text)
               new == [Idle EXCEPT !.op = "resume", !.at = "prompt",
                          !.session = s, !.item = its[k].id, !.req = nextId]
    <2>1. k \in DOMAIN its /\ its[k].state = "pending"
      <3>1. InState(its, "pending") \in SUBSET Nat /\ InState(its, "pending") # {}
        BY <1>1, <1>3 DEF InState, LoopEnds
      <3>2. k \in InState(its, "pending")
        BY <3>1, FirstIsOne
      <3>3. QED
        BY <3>2 DEF InState
    <2>2. /\ items' = BeginDispatch(its, k) /\ host' = host \cup {q}
          /\ call' = [call EXCEPT ![c] = new] /\ nextId' = nextId + 1
      BY <1>3 DEF DispatchNext, Sends, Await
    <2> HIDE DEF k
    <2>3. its[k] \in ItemT /\ its[k].id < nextId
      BY <1>1, <2>1 DEF ListOK
    <2>4. /\ q \in RequestT
          /\ q.call = c /\ q.kind = "prompt" /\ q.session = s /\ q.req = nextId
          /\ q.item = its[k].id
      <3>1. its[k].id \in Nat /\ its[k].text \in 0 .. QueueText
        BY <2>3, BoundsAreNat DEF ItemT, QueueText
      <3>2. "prompt" \in Kinds /\ s \in Sessions \cup {None} /\ nextId \in Nat
        BY <1>1 DEF Kinds
      <3> HIDE DEF new
      <3>3. QED
        BY <3>1, <3>2, RequestFacts
    <2>5. /\ new \in CallT /\ new.op = "resume" /\ new.at = "prompt" /\ new.req = nextId
          /\ new.item = its[k].id /\ new.todo = {} /\ new.session = s
      <3>1. its[k].id \in Nat
        BY <2>3 DEF ItemT
      <3>2. QED
        BY <1>1, <3>1, IdleFacts DEF CallT, Kinds
    <2> HIDE DEF q, new
    <2>6. StatesOnly(items', its, 0)
      BY <1>1, <2>1, <2>2, OpsAreStatesOnly
    <2>7. /\ ListOK(items', nextId)
          /\ \A y : Pend(items', y) => Pend(its, y) \/ y = 0
          /\ \A p, y : ItemTag(items', p, y) => ItemTag(its, p, y)
      BY <1>1, <2>6, StatesFacts
    <2>8. ListOK(items', nextId')
      BY <1>1, <2>2, <2>7, ListGrows
    <2>9. \A y : Pend(items', y) => y # 0
      <3>1. \A j \in DOMAIN items' : items'[j] \in ItemT
        BY <2>8 DEF ListOK
      <3>2. QED
        BY <3>1 DEF Pend, ItemT
    <2>10. Records(c)
      BY <2>2, <2>7, <2>8, <2>9 DEF Records
    <2>11. Pend(its, its[k].id) /\ ~ Pend(items', its[k].id)
      BY <1>1, <2>1, <2>2, DispatchFacts
    <2>12. AskOK(c, new, q)
      BY <1>1, <2>2, <2>3, <2>4, <2>5, <2>11 DEF AskOK, NamesSession, ItemT
    <2>13. QED
      BY <2>2, <2>10, <2>12, MainKeeps DEF Asks
  <1>4. QED
    BY <1>2, <1>3 DEF DispatchNext

LEMMA UserKeeps ==
    ASSUME IInv, NEW c \in Calls, User(c)
    PROVE  IInv'
  <1>1. /\ nextId \in Nat \ {0} /\ ListOK(items, nextId) /\ paused \in BOOLEAN
        /\ binding \in created \cup {None} /\ created \subseteq Sessions
        /\ None \notin Sessions /\ 0 \in 0 .. QueueText /\ QueueText \in 0 .. QueueText
    BY NoneIsNoSession, BoundsAreNat DEF IInv, TypeInv, QueueText
  <1>2. CASE SendWhilePaused(c)
    BY <1>1, <1>2, EnqueueFacts, RestKeeps DEF SendWhilePaused, base
  <1>3. CASE SendBound(c)
    <2>1. Frees(c) /\ binding \in Sessions /\ PromptDirectly(c, binding)
      BY <1>1, <1>3, StartFrees DEF SendBound
    <2>2. Records(c)
      BY <1>1, <1>3, SameList DEF SendBound, PromptDirectly, record, base
    <2>3. QED
      BY <2>1, <2>2, DirectAsks, MainKeeps
  <1>4. ASSUME NEW op \in {"send", "resume"}, Start(c), AskForSession(c, op),
               UNCHANGED <<record, wire, base>>
        PROVE  IInv'
    <2> DEFINE new == [Idle EXCEPT !.op = op, !.at = "create"]
    <2>1. /\ new \in CallT /\ new.op = op /\ new.at = "create" /\ new.item = 0
          /\ new.req = 0 /\ new.todo = {}
      BY IdleFacts DEF CallT, Kinds
    <2>2. Frees(c) /\ ~ NamesSession(new)
      BY <1>4, <2>1, StartFrees DEF NamesSession
    <2>3. Records(c)
      BY <1>1, <1>4, SameList DEF AskForSession, record, base
    <2>4. Sends(c, "create", None, 0, 0, 0) /\ Await(c, new) /\ nextId' = nextId
      BY <1>4 DEF AskForSession
    <2> HIDE DEF new
    <2>5. \E n, q : Asks(c, n, q)
      BY <1>1, <2>1, <2>2, <2>4, PlainAsks DEF Kinds
    <2>6. QED
      BY <2>3, <2>5, MainKeeps
  <1>5. CASE SendUnbound(c) \/ ResumeUnbound(c)
    BY <1>4, <1>5 DEF SendUnbound, ResumeUnbound
  <1>6. CASE ResumeBound(c)
    <2>1. Frees(c) /\ binding \in Sessions
      BY <1>1, <1>6, StartFrees DEF ResumeBound
    <2>2. QED
      BY <1>1, <1>6, <2>1, DispatchKeeps DEF ResumeBound
  <1>7. CASE Stop(c)
    <2>1. CASE UNCHANGED <<call, host>>
      BY <1>1, <1>7, <2>1, RestKeeps DEF Stop, base
    <2>2. CASE /\ binding # None
               /\ Sends(c, "cancel", binding, 0, 0, 0)
               /\ Await(c, [Idle EXCEPT !.op = "stop", !.at = "cancel", !.session = binding])
      <3> DEFINE new == [Idle EXCEPT !.op = "stop", !.at = "cancel", !.session = binding]
      <3>1. Frees(c) /\ binding \in Sessions
        BY <1>1, <1>7, <2>2, StartFrees DEF Stop
      <3>2. /\ new \in CallT /\ new.at = "cancel" /\ new.item = 0
            /\ new.req = 0 /\ new.todo = {} /\ new.session = binding
        BY <3>1, IdleFacts DEF CallT, Kinds
      <3>3. /\ UNCHANGED <<items, binding, nextId, created, inbox, taken>> /\ paused' = TRUE
        BY <1>7 DEF Stop, base
      <3>4. Records(c)
        BY <1>1, <3>3 DEF Records, base
      <3>5. Await(c, new)
        BY <2>2
      <3> HIDE DEF new
      <3>6. \E n, q : Asks(c, n, q)
        BY <1>1, <2>2, <3>1, <3>2, <3>3, <3>5, PlainAsks DEF Kinds
      <3>7. QED
        BY <3>4, <3>6, MainKeeps
    <2>3. QED
      BY <1>7, <2>1, <2>2 DEF Stop
  <1>8. ASSUME NEW kind \in {"edit", "remove"}, QueueItem(c, kind)
        PROVE  IInv'
    <2> DEFINE new == [Idle EXCEPT !.op = "queue", !.at = kind]
    <2>1. /\ new \in CallT /\ new.op = "queue" /\ new.at = kind /\ new.item = 0
          /\ new.req = 0 /\ new.todo = {}
      BY IdleFacts DEF CallT, Kinds
    <2>2. Frees(c) /\ binding \in Sessions /\ ~ NamesSession(new)
      BY <1>1, <1>8, <2>1, StartFrees DEF QueueItem, NamesSession
    <2>3. Records(c)
      BY <1>1, <1>8, SameList DEF QueueItem, record, base
    <2>4. PICK k \in DOMAIN inbox[binding] :
             Sends(c, kind, binding, inbox[binding][k].req, 0, QueueText)
      BY <1>8 DEF QueueItem
    <2>5. inbox[binding][k].req \in Nat /\ inbox[binding][k].req < nextId
      <3>1. inbox[binding][k] \in OccurrenceT
        BY <2>2, <2>4 DEF IInv, TypeInv
      <3>2. QED
        BY <2>2, <2>4, <3>1 DEF IInv, Minted, OccurrenceT
    <2>6. Await(c, new) /\ nextId' = nextId
      BY <1>8 DEF QueueItem
    <2> HIDE DEF new
    <2>7. \E n, q : Asks(c, n, q)
      BY <1>1, <2>1, <2>2, <2>4, <2>5, <2>6, PlainAsks DEF Kinds
    <2>8. QED
      BY <2>3, <2>7, MainKeeps
  <1>9. QED
    BY <1>2, <1>3, <1>5, <1>6, <1>7, <1>8 DEF User

\* The queued occurrences of the inputs of ours, one after the other.
LEMMA DrainAsks ==
    ASSUME IInv, NEW c \in Calls, Frees(c), nextId' = nextId, NEW todo,
           \A i \in todo : i \in call[c].todo \/ \E k \in DOMAIN items : i = items[k],
           call[c].op = "stop" \/ call[c].at = "control",
           DrainNext(c, todo)
    PROVE  Ends(c) \/ \E new, q : Asks(c, new, q)
  <1>1. /\ call[c] \in CallT /\ call[c].session \in Sessions /\ nextId \in Nat \ {0}
        /\ call[c].req < nextId /\ 0 \in 0 .. QueueText
    BY BoundsAreNat DEF IInv, TypeInv, SessionsKnown, NamesSession, Minted, QueueText
  <1>2. CASE todo = {} /\ Return(c) /\ UNCHANGED host
    BY <1>2 DEF Ends, Return
  <1>3. ASSUME NEW i \in todo, Sends(c, "remove", call[c].session, i.req, i.id, 0),
               Await(c, [call[c] EXCEPT !.at = "remove", !.item = i.id, !.todo = todo \ {i}])
        PROVE  \E new, q : Asks(c, new, q)
    <2> DEFINE q   == Request(c, "remove", call[c].session, i.req, i.id, 0)
               new == [call[c] EXCEPT !.at = "remove", !.item = i.id, !.todo = todo \ {i}]
    <2>1. \A j \in todo : j \in ItemT
      BY <1>1 DEF CallT, IInv, ListOK
    <2>2. i \in ItemT /\ i.id < nextId /\ i.req < nextId
      BY <1>3, <2>1 DEF IInv, Minted, ListOK
    <2>3. /\ q \in RequestT /\ q.call = c /\ q.kind = "remove"
          /\ q.session = call[c].session /\ q.req = i.req /\ q.item = i.id
      BY <1>1, <2>2, RequestFacts DEF Kinds, ItemT
    <2>4. /\ new \in CallT /\ new.at = "remove" /\ new.item = i.id /\ new.todo = todo \ {i}
          /\ new.req = call[c].req /\ new.session = call[c].session
      BY <1>1, <2>1, <2>2 DEF CallT, Kinds, ItemT
    <2>5. host' = host \cup {q} /\ call' = [call EXCEPT ![c] = new]
      BY <1>3 DEF Sends, Await
    <2>6. ItemTag(items, i.req, i.id) \/ TagOf(call[c], i.req, i.id)
      BY <1>3 DEF ItemTag, TagOf
    <2> HIDE DEF q, new
    <2>7. AskOK(c, new, q)
      BY <1>1, <2>2, <2>3, <2>4, <2>6 DEF AskOK
    <2>8. QED
      BY <2>5, <2>7 DEF Asks
  <1>4. QED
    BY <1>2, <1>3 DEF DrainNext

\* An operation of the list that changes states only, and makes pending at most the
\* input that is coming back.
LEMMA StatesRecord ==
    ASSUME IInv, NEW c \in Calls, NEW x, StatesOnly(items', items, x),
           x # 0 => Returning(c) /\ x = call[c].item,
           UNCHANGED <<paused, binding, nextId, base>>
    PROVE  Records(c)
  <1>1. /\ nextId \in Nat /\ ListOK(items, nextId) /\ paused \in BOOLEAN
        /\ binding \in created \cup {None}
    BY DEF IInv, TypeInv
  <1>2. /\ ListOK(items', nextId)
        /\ \A y : Pend(items', y) => Pend(items, y) \/ y = x
        /\ \A p, y : ItemTag(items', p, y) => ItemTag(items, p, y)
    BY <1>1, StatesFacts
  <1>3. \A y : Pend(items', y) => y # 0
    <2>1. \A j \in DOMAIN items' : items'[j] \in ItemT
      BY <1>2 DEF ListOK
    <2>2. QED
      BY <2>1 DEF Pend, ItemT
  <1>4. QED
    BY <1>1, <1>2, <1>3 DEF Records, base

LEMMA HandlerKeeps ==
    ASSUME IInv, NEW c \in Calls, Handler(c)
    PROVE  IInv'
  <1>1. /\ nextId \in Nat \ {0} /\ ListOK(items, nextId) /\ paused \in BOOLEAN
        /\ binding \in created \cup {None} /\ created \subseteq Sessions
        /\ None \notin Sessions /\ call[c] \in CallT
        /\ call[c].item \in Nat /\ call[c].req \in Nat /\ call[c].req < nextId
    BY NoneIsNoSession DEF IInv, TypeInv, Minted, CallT
  <1>2. CASE SendCreated(c)
    <2>1. Frees(c) /\ Value \in created /\ UNCHANGED <<items, paused, created, inbox, taken>>
      <3>1. Answer = "created"
        BY <1>2, DeliversFacts, <1>1 DEF SendCreated, Fits, MessageT, Answer
      <3>2. QED
        BY <1>2, <3>1, DeliversFacts DEF SendCreated, base
    <2>2. QED
      BY <1>1, <1>2, <2>1, SameList, DirectAsks, MainKeeps DEF SendCreated, PromptDirectly
  <1>3. CASE SendAnswered(c)
    <2>1. Ends(c)
      BY <1>3, DeliversFacts DEF SendAnswered, Ends, Return
    <2>2. Records(c)
      BY <1>1, <1>3, SameList DEF SendAnswered, record, base
    <2>3. QED
      BY <2>1, <2>2, MainKeeps
  <1>4. CASE ResumeCreated(c)
    <2>1. Frees(c) /\ Value \in created
      <3>1. Answer = "created"
        BY <1>4, DeliversFacts, <1>1 DEF ResumeCreated, Fits, MessageT, Answer
      <3>2. QED
        BY <1>4, <3>1, DeliversFacts DEF ResumeCreated
    <2>2. QED
      BY <1>1, <1>4, <2>1, DispatchKeeps DEF ResumeCreated
  <1>5. CASE ResumeAccepted(c)
    <2> DEFINE its == MarkSubmitted(items, call[c].item, call[c].req)
    <2>1. Frees(c) /\ call[c].at = "prompt" /\ call[c].session \in Sessions
      BY <1>5, DeliversFacts DEF ResumeAccepted, IInv, SessionsKnown, NamesSession
    <2>2. /\ ListOK(its, nextId)
          /\ \A y : Pend(its, y) => Pend(items, y)
          /\ \A p, y : ItemTag(its, p, y) => ItemTag(items, p, y) \/ TagOf(call[c], p, y)
      <3>1. /\ ListOK(its, nextId)
            /\ \A y : Pend(its, y) => Pend(items, y)
            /\ \A p, y : ItemTag(its, p, y) =>
                  ItemTag(items, p, y) \/ (p = call[c].req /\ y = call[c].item)
        BY <1>1, MarkFacts
      <3>2. QED
        BY <2>1, <3>1 DEF TagOf
    <2>3. DispatchNext(c, call[c].session, its, paused) /\ UNCHANGED <<paused, binding, base>>
      BY <1>5 DEF ResumeAccepted
    <2> HIDE DEF its
    <2>4. QED
      BY <1>1, <2>1, <2>2, <2>3, DispatchKeeps DEF base
  <1>6. CASE ResumeUnacknowledged(c)
    <2>1. Frees(c) /\ Returning(c)
      BY <1>6, DeliversFacts DEF ResumeUnacknowledged
    <2>2. Records(c)
      BY <1>1, <1>6, <2>1, OpsAreStatesOnly, StatesRecord DEF ResumeUnacknowledged
    <2>3. Ends(c)
      BY <1>6, <2>1 DEF ResumeUnacknowledged, Ends, Return
    <2>4. QED
      BY <2>2, <2>3, MainKeeps
  <1>7. CASE StopCancelled(c)
    <2> DEFINE new == [call[c] EXCEPT !.at = "control"]
    <2>1. Frees(c) /\ call[c].at = "cancel" /\ call[c].session \in Sessions
      BY <1>7, DeliversFacts DEF StopCancelled, IInv, SessionsKnown, NamesSession
    <2>2. Records(c)
      BY <1>1, <1>7, SameList DEF StopCancelled, record, base
    <2>3. call[c].item = 0 /\ call[c].todo = {}
      BY <2>1 DEF IInv, SessionsKnown
    <2>4. /\ new \in CallT /\ new.at = "control" /\ new.item = 0 /\ new.todo = {}
          /\ new.req = call[c].req /\ new.session = call[c].session
      BY <1>1, <2>3 DEF CallT, Kinds
    <2>5. /\ Sends(c, "control", call[c].session, 0, 0, 0) /\ Await(c, new) /\ nextId' = nextId
      BY <1>7 DEF StopCancelled
    <2>6. 0 \in Nat /\ 0 < nextId /\ 0 \in 0 .. QueueText
      BY <1>1, BoundsAreNat DEF QueueText
    <2> HIDE DEF new
    <2>7. \E n, q : Asks(c, n, q)
      BY <1>1, <2>1, <2>4, <2>5, <2>6, PlainAsks DEF Kinds
    <2>8. QED
      BY <2>2, <2>7, MainKeeps
  <1>8. CASE StopFolds(c)
    <2>1. Frees(c) /\ call[c].at = "control"
      BY <1>8, DeliversFacts DEF StopFolds
    <2>2. Records(c)
      <3>1. StatesOnly(items', items, 0)
        BY <1>1, <1>8, OpsAreStatesOnly DEF StopFolds
      <3>2. UNCHANGED <<paused, binding, nextId, base>>
        BY <1>8 DEF StopFolds
      <3>3. QED
        BY <3>1, <3>2, StatesRecord
    <2>3. \A i \in Ours(items, Value) : \E k \in DOMAIN items : i = items[k]
      BY DEF Ours, InState
    <2>4. Ends(c) \/ \E n, q : Asks(c, n, q)
      BY <1>8, <2>1, <2>3, DrainAsks DEF StopFolds
    <2>5. QED
      BY <2>2, <2>4, MainKeeps
  <1>9. CASE StopRemoved(c)
    <2>1. Frees(c) /\ call[c].at = "remove" /\ Answer = "removed"
      BY <1>9, DeliversFacts DEF StopRemoved, Fits, MessageT, Answer
    <2>2. Returning(c)
      BY <1>9, <2>1, DeliversFacts DEF StopRemoved
    <2>3. Records(c)
      BY <1>1, <1>9, <2>2, OpsAreStatesOnly, StatesRecord DEF StopRemoved
    <2>4. Ends(c) \/ \E n, q : Asks(c, n, q)
      BY <1>9, <2>1, DrainAsks DEF StopRemoved
    <2>5. QED
      BY <2>3, <2>4, MainKeeps
  <1>10. CASE QueueItemAnswered(c)
    <2>1. Ends(c)
      BY <1>10, DeliversFacts DEF QueueItemAnswered, Ends, Return
    <2>2. Records(c)
      BY <1>1, <1>10, SameList DEF QueueItemAnswered, record, base
    <2>3. QED
      BY <2>1, <2>2, MainKeeps
  <1>11. CASE Rejected(c)
    <2>1. Ends(c)
      BY <1>11 DEF Rejected, Ends, Frees, Return
    <2>2. Records(c)
      BY <1>1, <1>11, SameList DEF Rejected, record, base
    <2>3. QED
      BY <2>1, <2>2, MainKeeps
  <1>12. QED
    BY <1>2, <1>3, <1>4, <1>5, <1>6, <1>7, <1>8, <1>9, <1>10, <1>11 DEF Handler

-----------------------------------------------------------------------------
(* The steps that take something away: a call forgotten, all of them after a   *)
(* crash.                                                                    *)

LEMMA FewerKeeps ==
    ASSUME IInv, UNCHANGED <<record, nextId, base>>,
           call' \in [Calls -> CallT],
           \A b \in Calls :
               \/ call'[b] = call[b]
               \/ /\ call'[b] = Idle
                  /\ \A r \in host' : r.call # b
                  /\ \A n \in DOMAIN wire' : wire'[n].call # b,
           host' \subseteq RequestT,
           \A q \in host' : \E r \in host :
               /\ q.kind = r.kind /\ q.session = r.session /\ q.req = r.req /\ q.item = r.item
               /\ q.call = None \/ q = r,
           OnePrompt',
           wire' \in Seq(MessageT),
           \A n \in DOMAIN wire' : \E m \in DOMAIN wire : wire'[n] = wire[m],
           \A m, n \in DOMAIN wire' : wire'[m].call = wire'[n].call => m = n
    PROVE  IInv'
  <1>1. UNCHANGED <<paused, items, binding, created, inbox, taken>>
    BY DEF record, base
  <1>2. TypeInv' /\ ListOK(items, nextId)'
    BY <1>1 DEF IInv, TypeInv
  <1>3. /\ ~ NamesSession(Idle) /\ Idle.item = 0 /\ Idle.todo = {} /\ Idle.req = 0
        /\ \A q, x : ~ TagOf(Idle, q, x)
    BY DEF Idle, NamesSession, TagOf
  <1>4. 0 < nextId
    BY DEF IInv, TypeInv
  <1>5. SessionsKnown'
    BY <1>1, <1>3 DEF IInv, SessionsKnown
  <1>6. Minted'
    BY <1>1, <1>3, <1>4 DEF IInv, Minted
  <1>7. \A n \in DOMAIN wire' : wire'[n].call \in Calls
    <2>1. \A n \in DOMAIN wire' : wire'[n] \in MessageT
      OBVIOUS
    <2>2. QED
      BY <2>1 DEF MessageT
  <1>8. \A r \in host' : r.call \in Calls \cup {None}
    BY DEF RequestT
  <1>9. Owned'
    <2>1. \A q \in host' : q.call # None => q \in host /\ q.call \in Calls
      BY <1>8
    <2>2. \A q \in host' : q.call # None => call'[q.call] = call[q.call]
      BY <2>1
    <2>3. \A n \in DOMAIN wire' : call'[wire'[n].call] = call[wire'[n].call]
      BY <1>7
    <2>4. None \notin Calls
      BY NoneIsNoSession
    <2>5. \A q \in host' : \A n \in DOMAIN wire' : q.call # wire'[n].call
      BY <1>7, <2>1, <2>4 DEF IInv, Owned
    <2>6. \A q \in host' : q.call # None => call'[q.call].at = q.kind /\ call'[q.call].item = q.item
      BY <2>1, <2>2 DEF IInv, Owned
    <2>7. \A n \in DOMAIN wire' : /\ call'[wire'[n].call].at # "idle"
                                  /\ Fits(wire'[n].answer, call'[wire'[n].call].at)
      BY <2>3 DEF IInv, Owned
    <2>8. \A r1, r2 \in host' : r1.call = r2.call /\ r1.call # None => r1 = r2
      BY <2>1 DEF IInv, Owned
    <2>9. QED
      BY <2>5, <2>6, <2>7, <2>8 DEF Owned
  <1>10. TagsAgree'
    <2>1. \A q, x : HostTag(q, x)' => HostTag(q, x)
      BY DEF HostTag
    <2>2. \A q, x : CallTag(q, x)' => CallTag(q, x)
      BY <1>3 DEF CallTag
    <2>3. \A q, x : IsTag(q, x)' => IsTag(q, x)
      BY <1>1, <2>1, <2>2 DEF IsTag, BoxTag
    <2>4. QED
      BY <2>3, TagsGrow
  <1>11. /\ \A x : Prompted(x)' => Prompted(x)
         /\ \A x : InInbox(x)' <=> InInbox(x)
         /\ \A x : WasTaken(x)' <=> WasTaken(x)
    BY <1>1 DEF Prompted, InInbox, WasTaken
  <1>12. \A b \in Calls : Returning(b)' => Returning(b) /\ call'[b] = call[b]
    BY DEF Returning
  <1>13. OneReturn' /\ \A x : Returns(x)' => Returns(x)
    BY <1>12 DEF OneReturn, Returns, IInv, OneCopy
  <1>14. OneQueued' /\ OneTaken'
    BY <1>1 DEF OneQueued, OneTaken, IInv, OneCopy
  <1>15. Apart'
    BY <1>1, <1>11, <1>13 DEF Apart, IInv, OneCopy
  <1>16. QED
    BY <1>2, <1>5, <1>6, <1>9, <1>10, <1>13, <1>14, <1>15 DEF IInv, OneCopy

LEMMA TimedOutKeeps ==
    ASSUME IInv, NEW c \in Calls, TimedOut(c)
    PROVE  IInv'
  <1>1. /\ UNCHANGED <<record, nextId, base>> /\ call' = [call EXCEPT ![c] = Idle]
        /\ call' \in [Calls -> CallT]
        /\ call'[c] = Idle /\ \A b \in Calls \ {c} : call'[b] = call[b]
    BY IdleFacts DEF TimedOut, Forgets, Return, IInv, TypeInv
  <1>2. /\ wire \in Seq(MessageT) /\ host \subseteq RequestT /\ None \notin Calls
        /\ \A m, n \in DOMAIN wire : wire[m].call = wire[n].call => m = n
    BY NoneIsNoSession DEF IInv, TypeInv, Owned
  <1>3. ASSUME NEW r \in host, r.call = c,
               host' = (host \ {r}) \cup {[r EXCEPT !.call = None]}, UNCHANGED wire
        PROVE  IInv'
    <2> DEFINE q == [r EXCEPT !.call = None]
    <2>1. /\ q \in RequestT /\ q.call = None /\ q.kind = r.kind /\ q.session = r.session
          /\ q.req = r.req /\ q.item = r.item
      BY <1>2 DEF RequestT
    <2>2. host' = (host \ {r}) \cup {q}
      BY <1>3
    <2> HIDE DEF q
    <2>3. OnePrompt'
      BY <2>1, <2>2 DEF OnePrompt, IInv, OneCopy
    <2>4. \A s \in host' : s.call # c
      BY <1>2, <1>3, <2>1, <2>2 DEF IInv, Owned
    <2>5. \A n \in DOMAIN wire' : wire'[n].call # c
      BY <1>3 DEF IInv, Owned
    <2>6. \A u \in host' : \E v \in host :
               /\ u.kind = v.kind /\ u.session = v.session /\ u.req = v.req /\ u.item = v.item
               /\ u.call = None \/ u = v
      BY <2>1, <2>2
    <2>7. host' \subseteq RequestT
      BY <1>2, <2>1, <2>2
    <2>8. wire' = wire
      BY <1>3
    <2>9. QED
      BY <1>1, <1>2, <2>3, <2>4, <2>5, <2>6, <2>7, <2>8, FewerKeeps
  <1>4. ASSUME NEW n \in DOMAIN wire, wire[n].call = c, wire' = Without(wire, n), UNCHANGED host
        PROVE  IInv'
    <2>1. /\ wire' \in Seq(MessageT) /\ DOMAIN wire' = 1 .. Len(wire) - 1
          /\ \A m \in DOMAIN wire' : /\ Over(n, m) \in DOMAIN wire /\ Over(n, m) # n
                                     /\ wire'[m] = wire[Over(n, m)]
      <3>1. /\ wire' \in Seq(MessageT) /\ Len(wire') = Len(wire) - 1
            /\ \A m \in 1 .. Len(wire) - 1 :
                  /\ Over(n, m) \in DOMAIN wire /\ Over(n, m) # n
                  /\ wire'[m] = wire[Over(n, m)]
        <4>1. /\ Without(wire, n) \in Seq(MessageT)
              /\ Len(Without(wire, n)) = Len(wire) - 1
              /\ \A m \in 1 .. Len(wire) - 1 :
                    /\ Over(n, m) \in DOMAIN wire /\ Over(n, m) # n
                    /\ Without(wire, n)[m] = wire[Over(n, m)]
          BY <1>2, WithoutFacts
        <4>2. QED
          BY <1>4, <4>1
      <3>2. QED
        BY <3>1
    <2>2. \A m \in DOMAIN wire' : wire'[m].call # c
      BY <1>2, <1>4, <2>1
    <2>3. \A i, j \in DOMAIN wire' : Over(n, i) = Over(n, j) => i = j
      BY <1>2, <2>1 DEF Over
    <2>4. \A i, j \in DOMAIN wire' : wire'[i].call = wire'[j].call => i = j
      BY <1>2, <2>1, <2>3
    <2>5. \A r \in host' : r.call # c
      BY <1>4 DEF IInv, Owned
    <2>6. OnePrompt'
      BY <1>4 DEF OnePrompt, IInv, OneCopy
    <2>7. \A m \in DOMAIN wire' : \E k \in DOMAIN wire : wire'[m] = wire[k]
      BY <2>1
    <2>8. host' = host
      BY <1>4
    <2>9. QED
      BY <1>1, <1>2, <2>1, <2>2, <2>4, <2>5, <2>6, <2>7, <2>8, FewerKeeps
  <1>5. QED
    BY <1>3, <1>4 DEF TimedOut, Forgets

LEMMA CrashKeeps ==
    ASSUME IInv, Crash
    PROVE  IInv'
  <1>1. /\ UNCHANGED <<record, nextId, base>> /\ call' = [c \in Calls |-> Idle]
        /\ host' = {} /\ wire' = <<>>
    BY DEF Crash
  <1>2. call' \in [Calls -> CallT] /\ \A b \in Calls : call'[b] = Idle
    BY <1>1, IdleFacts
  <1>3. wire' \in Seq(MessageT) /\ DOMAIN wire' = {}
    BY <1>1
  <1>4. OnePrompt'
    BY <1>1 DEF OnePrompt
  <1>5. QED
    BY <1>1, <1>2, <1>3, <1>4, FewerKeeps

LEMMA ListKeeps ==
    ASSUME IInv, NEW k \in DOMAIN items, EditItem(k) \/ RemoveItem(k)
    PROVE  IInv'
  <1>1. nextId \in Nat \ {0} /\ ListOK(items, nextId) /\ paused \in BOOLEAN
        /\ binding \in created \cup {None}
    BY DEF IInv, TypeInv
  <1>2. CASE EditItem(k)
    BY <1>1, <1>2, EditFacts, RestKeeps DEF EditItem, base
  <1>3. CASE RemoveItem(k)
    BY <1>1, <1>3, RemoveFacts, RestKeeps DEF RemoveItem, base
  <1>4. QED
    BY <1>2, <1>3

-----------------------------------------------------------------------------
(* The steps of the Host and of the base.                                    *)

Answers == {"refused", "created", "accepted", "unrecognised", "cancelled", "reported",
            "removed", "edited"}

\* A call acted on: its answer is under way, if its handler still waits.
LEMMA ReportsFacts ==
    ASSUME IInv, NEW r \in host, NEW a \in Answers,
           NEW v \in Sessions \cup {None} \cup SUBSET Nat, Reports(r, a, v),
           UNCHANGED call, Fits(a, r.kind), a = "created" => v \in created',
           created \subseteq created',
           a \in {"unrecognised", "removed"} /\ r.item # 0 => ~ Returns(r.item)
    PROVE  /\ wire' \in Seq(MessageT) /\ Owned' /\ OneReturn'
           /\ \A n \in DOMAIN wire' : wire'[n].answer = "created" => wire'[n].value \in created'
           /\ \A x : Returns(x)' => \/ Returns(x)
                                    \/ a \in {"unrecognised", "removed"} /\ x = r.item
  <1>1. /\ wire \in Seq(MessageT) /\ host' = host \ {r} /\ None \notin Calls
        /\ r.call \in Calls \cup {None}
        /\ \A n \in DOMAIN wire : wire[n].answer = "created" => wire[n].value \in created'
    BY NoneIsNoSession DEF IInv, TypeInv, Reports, RequestT, SessionsKnown
  <1>2. CASE r.call = None
    <2>1. wire' = wire
      BY <1>2 DEF Reports
    <2>2. Owned'
      BY <1>1, <2>1 DEF IInv, Owned
    <2>3. \A b \in Calls : Returning(b)' <=> Returning(b)
      BY <2>1 DEF Returning
    <2>4. OneReturn' /\ \A x : Returns(x)' => Returns(x)
      BY <2>3 DEF OneReturn, Returns, IInv, OneCopy
    <2>5. QED
      BY <1>1, <2>1, <2>2, <2>4
  <1>3. CASE r.call # None
    <2> DEFINE m == [call |-> r.call, answer |-> a, value |-> v]
    <2>1. /\ r.call \in Calls /\ m \in MessageT /\ wire' = Append(wire, m)
          /\ m.call = r.call /\ m.answer = a /\ m.value = v
      BY <1>1, <1>3 DEF Reports, MessageT, Answers
    <2> HIDE DEF m
    <2>2. /\ wire' \in Seq(MessageT)
          /\ \A n \in DOMAIN wire' : \/ n \in DOMAIN wire /\ wire'[n] = wire[n]
                                     \/ n = Len(wire) + 1 /\ wire'[n] = m
      <3>1. /\ wire' \in Seq(MessageT) /\ Len(wire') = Len(wire) + 1
            /\ \A n \in 1 .. Len(wire) : wire'[n] = wire[n]
            /\ wire'[Len(wire) + 1] = m
        BY <1>1, <2>1, AppendFacts
      <3>2. Len(wire) \in Nat /\ DOMAIN wire = 1 .. Len(wire)
            /\ DOMAIN wire' = 1 .. Len(wire) + 1
        BY <1>1, <3>1
      <3>3. ASSUME NEW n \in 1 .. Len(wire) + 1
            PROVE  n \in 1 .. Len(wire) \/ n = Len(wire) + 1
        BY <3>2
      <3>4. QED
        BY <3>1, <3>2, <3>3
    <2>3. /\ call[r.call].at = r.kind /\ call[r.call].item = r.item /\ r.kind # "idle"
          /\ \A s \in host : s # r => s.call # r.call
          /\ \A n \in DOMAIN wire : wire[n].call # r.call
      <3>1. r.kind # "idle"
        BY DEF IInv, TypeInv, RequestT, Kinds
      <3>2. QED
        BY <1>3, <3>1 DEF IInv, Owned
    <2>4. Owned'
      <3>1. \A s \in host' : s \in host /\ s # r
        BY <1>1
      <3>2. \A s \in host' : s.call # None => call'[s.call].at = s.kind /\ call'[s.call].item = s.item
        BY <3>1 DEF IInv, Owned
      <3>3. \A s1, s2 \in host' : s1.call = s2.call /\ s1.call # None => s1 = s2
        BY <3>1 DEF IInv, Owned
      <3>4. \A n \in DOMAIN wire' : /\ call'[wire'[n].call].at # "idle"
                                    /\ Fits(wire'[n].answer, call'[wire'[n].call].at)
        BY <2>1, <2>2, <2>3 DEF IInv, Owned
      <3>5. \A i, j \in DOMAIN wire' : wire'[i].call = wire'[j].call => i = j
        BY <2>1, <2>2, <2>3 DEF IInv, Owned
      <3>6. \A s \in host' : \A n \in DOMAIN wire' : s.call # wire'[n].call
        BY <2>1, <2>2, <2>3, <3>1 DEF IInv, Owned
      <3>7. QED
        BY <3>2, <3>3, <3>4, <3>5, <3>6 DEF Owned
    <2>5. \A b \in Calls : Returning(b)' => \/ Returning(b)
                                            \/ b = r.call /\ a \in {"unrecognised", "removed"}
      BY <2>1, <2>2 DEF Returning
    <2>6. OneReturn'
      BY <2>3, <2>5 DEF OneReturn, Returns, IInv, OneCopy
    <2>7. \A x : Returns(x)' => \/ Returns(x)
                                \/ a \in {"unrecognised", "removed"} /\ x = r.item
      BY <2>3, <2>5 DEF Returns
    <2>8. \A n \in DOMAIN wire' : wire'[n].answer = "created" => wire'[n].value \in created'
      BY <1>1, <2>1, <2>2
    <2>9. QED
      BY <2>2, <2>4, <2>6, <2>7, <2>8
  <1>4. QED
    BY <1>2, <1>3

\* A call acted on, and what that does to the queues.
LEMMA HostRest ==
    ASSUME IInv, NEW r \in host, NEW a \in Answers,
           NEW v \in Sessions \cup {None} \cup SUBSET Nat, Reports(r, a, v),
           UNCHANGED <<record, call, nextId, taken>>,
           Fits(a, r.kind), a = "created" => v \in created',
           created \subseteq created', created' \subseteq Sessions,
           a = "removed" /\ r.item # 0 => InInbox(r.item),
           inbox' \in [Sessions -> Seq(OccurrenceT)],
           \A q, x : BoxTag(q, x)' => \/ BoxTag(q, x)
                                      \/ a = "accepted" /\ q = r.req /\ x = r.item,
           OneQueued',
           a = "removed" /\ r.item # 0 => ~ InInbox(r.item)'
    PROVE  IInv'
  <1>1. /\ UNCHANGED <<paused, items, binding>> /\ host' = host \ {r}
        /\ a \in {"accepted", "unrecognised"} => r.kind = "prompt"
    BY DEF record, Reports, Fits
  <1>2. \A x : InInbox(x)' => InInbox(x) \/ (a = "accepted" /\ x = r.item)
    <2>1. ASSUME NEW x, InInbox(x)'
          PROVE  \E q : BoxTag(q, x)'
      <3>1. PICK s \in Sessions : \E k \in DOMAIN inbox'[s] : inbox'[s][k].item = x
        BY <2>1 DEF InInbox
      <3>2. PICK k \in DOMAIN inbox'[s] : inbox'[s][k].item = x
        BY <3>1
      <3>3. BoxTag(inbox[s][k].req, x)'
        BY <3>2 DEF BoxTag
      <3>4. QED
        BY <3>3
    <2>2. \A q, x : BoxTag(q, x) => InInbox(x)
      BY DEF InInbox, BoxTag
    <2>3. QED
      BY <2>1, <2>2
  <1>3. a \in {"unrecognised", "removed"} /\ r.item # 0 => ~ Returns(r.item)
    <2>1. a = "unrecognised" => Prompted(r.item)
      BY <1>1 DEF Prompted
    <2>2. QED
      BY <2>1 DEF Apart, IInv, OneCopy
  <1>4. /\ wire' \in Seq(MessageT) /\ Owned' /\ OneReturn'
        /\ \A n \in DOMAIN wire' : wire'[n].answer = "created" => wire'[n].value \in created'
        /\ \A x : Returns(x)' => \/ Returns(x)
                                 \/ a \in {"unrecognised", "removed"} /\ x = r.item
    BY <1>3, ReportsFacts
  <1>5. TypeInv' /\ ListOK(items, nextId)'
    BY <1>1, <1>4 DEF IInv, TypeInv
  <1>6. SessionsKnown'
    BY <1>1, <1>4 DEF IInv, SessionsKnown
  <1>7. Minted'
    <2>1. \A q, x : BoxTag(q, x) => q < nextId /\ x < nextId
      BY DEF BoxTag, IInv, Minted
    <2>2. r.req < nextId /\ r.item < nextId
      BY DEF IInv, Minted
    <2>3. ASSUME NEW s \in Sessions, NEW k \in DOMAIN inbox'[s]
          PROVE  inbox'[s][k].req < nextId' /\ inbox'[s][k].item < nextId'
      <3>1. BoxTag(inbox[s][k].req, inbox[s][k].item)'
        BY <2>3 DEF BoxTag
      <3>2. QED
        BY <2>1, <2>2, <3>1
    <2>4. QED
      BY <1>1, <2>3 DEF IInv, Minted
  <1>8. TagsAgree'
    <2>1. \A q, x : HostTag(q, x)' => HostTag(q, x)
      BY <1>1 DEF HostTag
    <2>2. \A q, x : BoxTag(q, x)' => BoxTag(q, x) \/ HostTag(q, x)
      BY <1>1 DEF HostTag
    <2>3. \A q, x : IsTag(q, x)' => IsTag(q, x)
      BY <1>1, <2>1, <2>2 DEF IsTag, CallTag
    <2>4. QED
      BY <2>3, TagsGrow
  <1>9. OnePrompt' /\ OneTaken'
    BY <1>1 DEF OnePrompt, OneTaken, IInv, OneCopy
  <1>10. \A x : WasTaken(x)' <=> WasTaken(x)
    BY DEF WasTaken
  <1>11. \A x : x # 0 /\ Prompted(x)' => Prompted(x) /\ ~ (r.kind = "prompt" /\ x = r.item)
    BY <1>1 DEF Prompted, OnePrompt, IInv, OneCopy
  <1>12. a \in {"accepted", "unrecognised"} => Prompted(r.item)
    BY <1>1 DEF Prompted
  <1>13. Apart'
    <2>1. SUFFICES ASSUME NEW x, x # 0
                   PROVE  /\ Prompted(x)' => /\ ~ InInbox(x)' /\ ~ WasTaken(x)' /\ ~ Returns(x)'
                                             /\ ~ Pend(items, x)'
                          /\ InInbox(x)'  => ~ WasTaken(x)' /\ ~ Returns(x)' /\ ~ Pend(items, x)'
                          /\ WasTaken(x)' => ~ Returns(x)' /\ ~ Pend(items, x)'
                          /\ Returns(x)'  => ~ Pend(items, x)'
      BY DEF Apart
    <2>2. /\ Prompted(x) => ~ InInbox(x) /\ ~ WasTaken(x) /\ ~ Returns(x) /\ ~ Pend(items, x)
          /\ InInbox(x)  => ~ WasTaken(x) /\ ~ Returns(x) /\ ~ Pend(items, x)
          /\ WasTaken(x) => ~ Returns(x) /\ ~ Pend(items, x)
          /\ Returns(x)  => ~ Pend(items, x)
      BY <2>1 DEF Apart, IInv, OneCopy
    <2>3. Pend(items, x)' <=> Pend(items, x)
      BY <1>1
    <2>4. CASE x = r.item
      BY <1>1, <1>2, <1>4, <1>10, <1>11, <1>12, <2>1, <2>2, <2>3, <2>4
    <2>5. CASE x # r.item
      BY <1>2, <1>4, <1>10, <1>11, <2>1, <2>2, <2>3, <2>5
    <2>6. QED
      BY <2>4, <2>5
  <1>14. QED
    BY <1>4, <1>5, <1>6, <1>7, <1>8, <1>9, <1>13 DEF IInv, OneCopy

LEMMA SameQueues ==
    ASSUME IInv, UNCHANGED inbox
    PROVE  /\ inbox' \in [Sessions -> Seq(OccurrenceT)]
           /\ \A q, x : BoxTag(q, x)' => BoxTag(q, x)
           /\ OneQueued'
  BY DEF IInv, TypeInv, BoxTag, OneQueued, OneCopy

LEMMA HostKeeps ==
    ASSUME IInv, NEW r \in host, Host(r)
    PROVE  IInv'
  <1>1. /\ r \in RequestT /\ inbox \in [Sessions -> Seq(OccurrenceT)]
        /\ created \subseteq Sessions
        /\ r.kind \in {"prompt", "control", "remove", "edit"} => r.session \in Sessions
        /\ r.kind = "prompt" => r.req \in Nat \ {0}
        /\ UNCHANGED <<record, call, nextId, ops>>
    BY DEF IInv, TypeInv, SessionsKnown, RequestT, Host
  <1>2. ASSUME NEW a \in Answers, NEW v \in Sessions \cup {None} \cup SUBSET Nat,
               Reports(r, a, v), UNCHANGED <<inbox, taken>>,
               created \subseteq created', created' \subseteq Sessions,
               Fits(a, r.kind), a = "created" => v \in created',
               a # "removed"
        PROVE  IInv'
    <2>1. /\ inbox' \in [Sessions -> Seq(OccurrenceT)] /\ OneQueued'
          /\ \A q, x : BoxTag(q, x)' => BoxTag(q, x)
      BY <1>2, SameQueues
    <2>2. QED
      BY <1>1, <1>2, <2>1, HostRest
  <1>3. CASE HostCreates(r)
    <2>1. PICK s \in Sessions \ created : created' = created \cup {s} /\ Reports(r, "created", s)
      BY <1>3 DEF HostCreates
    <2>2. QED
      BY <1>1, <1>2, <1>3, <2>1 DEF HostCreates, Fits, Answers
  <1>4. CASE HostDoesNotAcknowledge(r)
    BY <1>1, <1>2, <1>4 DEF HostDoesNotAcknowledge, Replies, Fits, Answers, base
  <1>5. CASE HostCancels(r)
    BY <1>1, <1>2, <1>5 DEF HostCancels, Replies, Fits, Answers, base
  <1>6. CASE HostRefuses(r)
    BY <1>1, <1>2, <1>6 DEF HostRefuses, Replies, Fits, Answers, base
  <1>7. CASE HostReports(r)
    <2>1. PICK n \in 0 .. Len(inbox[r.session]) :
             Reports(r, "reported", Reported(r.session, n))
      <3>1. Len(inbox[r.session]) \in 0 .. Len(inbox[r.session])
        BY <1>1, <1>7 DEF HostReports
      <3>2. QED
        BY <1>7, <3>1 DEF HostReports
    <2>2. Reported(r.session, n) \in SUBSET Nat
      <3>1. /\ \A k \in 1 .. n : k \in DOMAIN inbox[r.session]
            /\ \A k \in DOMAIN inbox[r.session] : inbox[r.session][k] \in OccurrenceT
        BY <1>1, <1>7 DEF HostReports
      <3>2. QED
        BY <3>1 DEF Reported, OccurrenceT
    <2>3. r.kind = "control" /\ UNCHANGED base
      BY <1>7 DEF HostReports
    <2>4. QED
      BY <1>1, <1>2, <2>1, <2>2, <2>3 DEF Fits, Answers, base
  <1>8. CASE HostAdmits(r)
    <2> DEFINE s == r.session
               o == [req |-> r.req, item |-> r.item, text |-> r.text]
    <2>1. /\ s \in Sessions /\ o \in OccurrenceT /\ o.req = r.req /\ o.item = r.item
          /\ r.kind = "prompt" /\ Reports(r, "accepted", None)
          /\ inbox' = [inbox EXCEPT ![s] = Append(@, o)] /\ UNCHANGED <<created, taken>>
      BY <1>1, <1>8 DEF HostAdmits, Replies, OccurrenceT, RequestT
    <2> HIDE DEF s, o
    <2>2. /\ inbox' \in [Sessions -> Seq(OccurrenceT)]
          /\ \A t \in Sessions \ {s} : inbox'[t] = inbox[t]
          /\ \A k \in DOMAIN inbox'[s] : \/ k \in DOMAIN inbox[s] /\ inbox'[s][k] = inbox[s][k]
                                         \/ k = Len(inbox[s]) + 1 /\ inbox'[s][k] = o
      <3>1. inbox[s] \in Seq(OccurrenceT) /\ inbox'[s] = Append(inbox[s], o)
        BY <1>1, <2>1
      <3>2. /\ inbox'[s] \in Seq(OccurrenceT) /\ DOMAIN inbox'[s] = 1 .. Len(inbox[s]) + 1
            /\ \A k \in 1 .. Len(inbox[s]) : inbox'[s][k] = inbox[s][k]
            /\ inbox'[s][Len(inbox[s]) + 1] = o
            /\ Len(inbox[s]) \in Nat /\ DOMAIN inbox[s] = 1 .. Len(inbox[s])
        BY <2>1, <3>1, AppendFacts
      <3>3. ASSUME NEW k \in 1 .. Len(inbox[s]) + 1
            PROVE  k \in 1 .. Len(inbox[s]) \/ k = Len(inbox[s]) + 1
        BY <3>2
      <3>4. QED
        BY <1>1, <2>1, <3>1, <3>2, <3>3
    <2>3. \A q, x : BoxTag(q, x)' => BoxTag(q, x) \/ (q = r.req /\ x = r.item)
      BY <2>1, <2>2 DEF BoxTag
    <2>4. r.item # 0 => ~ InInbox(r.item)
      BY <2>1 DEF Apart, IInv, OneCopy, Prompted
    <2>5. OneQueued'
      <3>1. ASSUME NEW s1 \in Sessions, NEW s2 \in Sessions,
                   NEW k1 \in DOMAIN inbox'[s1], NEW k2 \in DOMAIN inbox'[s2],
                   inbox'[s1][k1].item = inbox'[s2][k2].item, inbox'[s1][k1].item # 0
            PROVE  s1 = s2 /\ k1 = k2
        <4>1. \/ k1 \in DOMAIN inbox[s1] /\ inbox'[s1][k1] = inbox[s1][k1]
              \/ s1 = s /\ k1 = Len(inbox[s]) + 1 /\ inbox'[s1][k1] = o
          BY <2>2, <3>1
        <4>2. \/ k2 \in DOMAIN inbox[s2] /\ inbox'[s2][k2] = inbox[s2][k2]
              \/ s2 = s /\ k2 = Len(inbox[s]) + 1 /\ inbox'[s2][k2] = o
          BY <2>2, <3>1
        <4>3. CASE k1 \in DOMAIN inbox[s1] /\ inbox'[s1][k1] = inbox[s1][k1]
                   /\ k2 \in DOMAIN inbox[s2] /\ inbox'[s2][k2] = inbox[s2][k2]
          BY <3>1, <4>3 DEF IInv, OneCopy, OneQueued
        <4>4. QED
          BY <2>1, <2>4, <3>1, <4>1, <4>2, <4>3 DEF InInbox
      <3>2. QED
        BY <3>1 DEF OneQueued
    <2>6. "accepted" \in Answers /\ None \in Sessions \cup {None} \cup SUBSET Nat
      BY DEF Answers
    <2>7. Fits("accepted", r.kind)
      BY <2>1 DEF Fits
    <2>8. UNCHANGED <<record, call, nextId, taken>> /\ created' = created
      BY <1>1, <2>1
    <2>9. QED
      BY <1>1, <2>1, <2>2, <2>3, <2>5, <2>6, <2>7, <2>8, HostRest
  <1>9. CASE HostRemoves(r)
    <2> DEFINE s == r.session
    <2>1. PICK k \in DOMAIN inbox[s] :
             /\ inbox[s][k].req = r.req
             /\ inbox' = [inbox EXCEPT ![s] = Without(@, k)]
      BY <1>9 DEF HostRemoves
    <2>2. /\ s \in Sessions /\ r.kind = "remove" /\ Reports(r, "removed", None)
          /\ UNCHANGED <<created, taken>>
      BY <1>1, <1>9 DEF HostRemoves, Replies
    <2> HIDE DEF s
    <2>3. /\ inbox' \in [Sessions -> Seq(OccurrenceT)]
          /\ \A t \in Sessions \ {s} : inbox'[t] = inbox[t]
          /\ \A n \in DOMAIN inbox'[s] : /\ Over(k, n) \in DOMAIN inbox[s] /\ Over(k, n) # k
                                         /\ inbox'[s][n] = inbox[s][Over(k, n)]
          /\ \A m, n \in DOMAIN inbox'[s] : Over(k, m) = Over(k, n) => m = n
      <3>1. inbox[s] \in Seq(OccurrenceT) /\ inbox'[s] = Without(inbox[s], k)
        BY <1>1, <2>1, <2>2
      <3>2. /\ inbox'[s] \in Seq(OccurrenceT) /\ Len(inbox'[s]) = Len(inbox[s]) - 1
            /\ \A n \in 1 .. Len(inbox[s]) - 1 :
                  /\ Over(k, n) \in DOMAIN inbox[s] /\ Over(k, n) # k
                  /\ inbox'[s][n] = inbox[s][Over(k, n)]
        <4>1. /\ Without(inbox[s], k) \in Seq(OccurrenceT)
              /\ Len(Without(inbox[s], k)) = Len(inbox[s]) - 1
              /\ \A n \in 1 .. Len(inbox[s]) - 1 :
                    /\ Over(k, n) \in DOMAIN inbox[s] /\ Over(k, n) # k
                    /\ Without(inbox[s], k)[n] = inbox[s][Over(k, n)]
          BY <3>1, WithoutFacts
        <4>2. QED
          BY <3>1, <4>1
      <3>3. DOMAIN inbox'[s] = 1 .. Len(inbox[s]) - 1 /\ k \in Nat
        BY <3>1, <3>2
      <3>4. \A m, n \in DOMAIN inbox'[s] : Over(k, m) = Over(k, n) => m = n
        BY <3>3 DEF Over
      <3>5. QED
        BY <1>1, <2>1, <2>2, <3>2, <3>3, <3>4
    <2>4. \A q, x : BoxTag(q, x)' => BoxTag(q, x)
      BY <2>2, <2>3 DEF BoxTag
    <2>5. inbox[s][k].req # 0
      <3>1. inbox[s][k] \in OccurrenceT
        BY <1>1, <2>1, <2>2
      <3>2. QED
        BY <3>1 DEF OccurrenceT
    <2>6. r.item # 0 => inbox[s][k].item = r.item
      BY <2>1, <2>2, <2>5 DEF IInv, TagsAgree, IsTag, HostTag, BoxTag
    <2>7. r.item # 0 => InInbox(r.item)
      BY <2>1, <2>2, <2>6 DEF InInbox
    <2>8. ASSUME NEW s1 \in Sessions, NEW k1 \in DOMAIN inbox'[s1]
          PROVE  \E m \in DOMAIN inbox[s1] : /\ inbox'[s1][k1] = inbox[s1][m]
                                             /\ s1 = s => m = Over(k, k1) /\ m # k
                                             /\ s1 # s => m = k1
      BY <2>3
    <2>9. r.item # 0 => ~ InInbox(r.item)'
      <3>1. ASSUME NEW s1 \in Sessions, NEW k1 \in DOMAIN inbox'[s1],
                   inbox'[s1][k1].item = r.item, r.item # 0
            PROVE  FALSE
        <4>1. PICK m \in DOMAIN inbox[s1] : /\ inbox'[s1][k1] = inbox[s1][m]
                                            /\ s1 = s => m # k
          BY <2>8
        <4>2. s1 = s /\ m = k
          BY <2>1, <2>2, <2>6, <3>1, <4>1 DEF IInv, OneCopy, OneQueued
        <4>3. QED
          BY <4>1, <4>2
      <3>2. QED
        BY <3>1 DEF InInbox
    <2>10. OneQueued'
      <3>1. ASSUME NEW s1 \in Sessions, NEW s2 \in Sessions,
                   NEW k1 \in DOMAIN inbox'[s1], NEW k2 \in DOMAIN inbox'[s2],
                   inbox'[s1][k1].item = inbox'[s2][k2].item, inbox'[s1][k1].item # 0
            PROVE  s1 = s2 /\ k1 = k2
        <4>1. PICK m1 \in DOMAIN inbox[s1] : /\ inbox'[s1][k1] = inbox[s1][m1]
                                             /\ s1 = s => m1 = Over(k, k1)
                                             /\ s1 # s => m1 = k1
          BY <2>8
        <4>2. PICK m2 \in DOMAIN inbox[s2] : /\ inbox'[s2][k2] = inbox[s2][m2]
                                             /\ s2 = s => m2 = Over(k, k2)
                                             /\ s2 # s => m2 = k2
          BY <2>8
        <4>3. s1 = s2 /\ m1 = m2
          BY <3>1, <4>1, <4>2 DEF IInv, OneCopy, OneQueued
        <4>4. QED
          BY <2>3, <4>1, <4>2, <4>3
      <3>2. QED
        BY <3>1 DEF OneQueued
    <2>11. "removed" \in Answers /\ None \in Sessions \cup {None} \cup SUBSET Nat
           /\ Fits("removed", r.kind)
      BY <2>2 DEF Answers, Fits
    <2>12. UNCHANGED <<record, call, nextId, taken>> /\ created' = created
      BY <1>1, <2>2
    <2>13. QED
      BY <1>1, <2>2, <2>3, <2>4, <2>7, <2>9, <2>10, <2>11, <2>12, HostRest
  <1>10. CASE HostEdits(r)
    <2> DEFINE s == r.session
    <2>1. /\ s \in Sessions /\ r.kind = "edit" /\ Reports(r, "edited", None)
          /\ UNCHANGED <<created, taken>> /\ r.text \in 0 .. QueueText
          /\ inbox' = [inbox EXCEPT ![s] = [k \in DOMAIN @ |->
                IF @[k].req = r.req THEN [@[k] EXCEPT !.text = r.text] ELSE @[k]]]
      BY <1>1, <1>10 DEF HostEdits, Replies, RequestT
    <2> HIDE DEF s
    <2>2. /\ inbox[s] \in Seq(OccurrenceT) /\ DOMAIN inbox[s] = 1 .. Len(inbox[s])
          /\ Len(inbox[s]) \in Nat
          /\ \A k \in DOMAIN inbox[s] : inbox[s][k] \in OccurrenceT
          /\ inbox'[s] = [k \in DOMAIN inbox[s] |->
                IF inbox[s][k].req = r.req THEN [inbox[s][k] EXCEPT !.text = r.text]
                                           ELSE inbox[s][k]]
          /\ \A t \in Sessions \ {s} : inbox'[t] = inbox[t]
      BY <1>1, <2>1
    <2>3. ASSUME NEW k \in DOMAIN inbox[s]
          PROVE  /\ inbox'[s][k] \in OccurrenceT
                 /\ inbox'[s][k].req = inbox[s][k].req
                 /\ inbox'[s][k].item = inbox[s][k].item
      <3>1. inbox[s][k] \in OccurrenceT
        BY <2>2
      <3>2. \/ inbox'[s][k] = inbox[s][k]
            \/ inbox'[s][k] = [inbox[s][k] EXCEPT !.text = r.text]
        BY <2>2
      <3>3. QED
        BY <2>1, <3>1, <3>2 DEF OccurrenceT
    <2>4. DOMAIN inbox'[s] = DOMAIN inbox[s] /\ inbox'[s] \in Seq(OccurrenceT)
      <3>1. DOMAIN inbox'[s] = 1 .. Len(inbox[s])
            /\ inbox'[s] = [k \in 1 .. Len(inbox[s]) |-> inbox'[s][k]]
        BY <2>2
      <3>2. inbox'[s] \in [1 .. Len(inbox[s]) -> OccurrenceT]
        BY <2>2, <2>3, <3>1
      <3>3. QED
        BY <2>2, <3>2
    <2>5. inbox' \in [Sessions -> Seq(OccurrenceT)]
      BY <1>1, <2>1, <2>2, <2>4
    <2>6. \A t \in Sessions : /\ DOMAIN inbox'[t] = DOMAIN inbox[t]
                              /\ \A k \in DOMAIN inbox[t] :
                                    /\ inbox'[t][k].req = inbox[t][k].req
                                    /\ inbox'[t][k].item = inbox[t][k].item
      BY <2>2, <2>3, <2>4
    <2>7. (\A q, x : BoxTag(q, x)' => BoxTag(q, x)) /\ OneQueued'
      <3>1. \A q, x : BoxTag(q, x)' => BoxTag(q, x)
        BY <2>6 DEF BoxTag
      <3>2. OneQueued'
        BY <2>6 DEF OneQueued, IInv, OneCopy
      <3>3. QED
        BY <3>1, <3>2
    <2>8. "edited" \in Answers /\ None \in Sessions \cup {None} \cup SUBSET Nat
          /\ Fits("edited", r.kind)
      BY <2>1 DEF Answers, Fits
    <2>9. UNCHANGED <<record, call, nextId, taken>> /\ created' = created
      BY <1>1, <2>1
    <2>10. QED
      BY <1>1, <2>1, <2>5, <2>7, <2>8, <2>9, HostRest
  <1>11. QED
    BY <1>3, <1>4, <1>5, <1>6, <1>7, <1>8, <1>9, <1>10 DEF Host

LEMMA TurnTakesKeeps ==
    ASSUME IInv, NEW s \in Sessions, TurnTakes(s)
    PROVE  IInv'
  <1>1. /\ inbox \in [Sessions -> Seq(OccurrenceT)] /\ taken \subseteq OccurrenceT
        /\ inbox[s] \in Seq(OccurrenceT) /\ inbox[s] # <<>>
        /\ UNCHANGED <<paused, items, binding, call, nextId, host, wire, created>>
    BY DEF IInv, TypeInv, TurnTakes, record
  <1>2. PICK o : o = inbox[s][1]
    OBVIOUS
  <1>3. /\ o \in OccurrenceT /\ 1 \in DOMAIN inbox[s] /\ taken' = taken \cup {o}
        /\ inbox' = [inbox EXCEPT ![s] = Tail(@)] /\ Head(inbox[s]) = o
    BY <1>1, <1>2 DEF TurnTakes
  <1>4. /\ inbox' \in [Sessions -> Seq(OccurrenceT)]
        /\ \A t \in Sessions \ {s} : inbox'[t] = inbox[t]
        /\ \A n \in DOMAIN inbox'[s] : /\ n + 1 \in DOMAIN inbox[s] /\ n + 1 # 1 /\ n \in Nat
                                       /\ inbox'[s][n] = inbox[s][n + 1]
    <2>1. inbox'[s] = Tail(inbox[s])
      BY <1>1, <1>3
    <2>2. /\ inbox'[s] \in Seq(OccurrenceT) /\ DOMAIN inbox'[s] = 1 .. Len(inbox'[s])
          /\ \A n \in 1 .. Len(inbox'[s]) :
                inbox'[s][n] = inbox[s][n + 1] /\ n + 1 \in 1 .. Len(inbox[s])
          /\ DOMAIN inbox[s] = 1 .. Len(inbox[s])
      BY <1>1, <2>1, TailFacts
    <2>3. \A n \in 1 .. Len(inbox'[s]) : n + 1 # 1 /\ n \in Nat
      OBVIOUS
    <2>4. QED
      BY <1>1, <1>3, <2>2, <2>3
  <1>5. ASSUME NEW t \in Sessions, NEW k \in DOMAIN inbox'[t]
        PROVE  \E m \in DOMAIN inbox[t] : /\ inbox'[t][k] = inbox[t][m]
                                          /\ t = s => m = k + 1 /\ m # 1 /\ k \in Nat
                                          /\ t # s => m = k
    BY <1>4
  <1>6. BoxTag(o.req, o.item) /\ InInbox(o.item)
    BY <1>3, <1>2 DEF BoxTag, InInbox
  <1>7. TypeInv' /\ SessionsKnown' /\ ListOK(items, nextId)' /\ Owned'
    <2>1. TypeInv'
      BY <1>1, <1>3, <1>4 DEF IInv, TypeInv
    <2>2. QED
      BY <1>1, <2>1 DEF IInv, SessionsKnown, Owned
  <1>8. /\ \A q, x : BoxTag(q, x)' => BoxTag(q, x)
        /\ \A x : InInbox(x)' => InInbox(x)
    BY <1>5 DEF BoxTag, InInbox
  <1>9. Minted'
    <2>1. \A t \in Sessions : \A k \in DOMAIN inbox'[t] :
             inbox'[t][k].req < nextId' /\ inbox'[t][k].item < nextId'
      BY <1>1, <1>5 DEF IInv, Minted
    <2>2. o.req < nextId /\ o.item < nextId
      BY <1>3, <1>2 DEF IInv, Minted
    <2>3. QED
      BY <1>1, <1>3, <2>1, <2>2 DEF IInv, Minted
  <1>10. TagsAgree'
    <2>1. \A q, x : IsTag(q, x)' => IsTag(q, x)
      BY <1>1, <1>8 DEF IsTag, HostTag, CallTag
    <2>2. QED
      BY <2>1, TagsGrow
  <1>11. OnePrompt' /\ OneReturn'
    BY <1>1 DEF IInv, OneCopy, OnePrompt, OneReturn, Returning
  <1>12. OneQueued'
    <2>1. ASSUME NEW s1 \in Sessions, NEW s2 \in Sessions,
                 NEW k1 \in DOMAIN inbox'[s1], NEW k2 \in DOMAIN inbox'[s2],
                 inbox'[s1][k1].item = inbox'[s2][k2].item, inbox'[s1][k1].item # 0
          PROVE  s1 = s2 /\ k1 = k2
      <3>1. PICK m1 \in DOMAIN inbox[s1] : /\ inbox'[s1][k1] = inbox[s1][m1]
                                           /\ s1 = s => m1 = k1 + 1 /\ k1 \in Nat
                                           /\ s1 # s => m1 = k1
        BY <1>5
      <3>2. PICK m2 \in DOMAIN inbox[s2] : /\ inbox'[s2][k2] = inbox[s2][m2]
                                           /\ s2 = s => m2 = k2 + 1 /\ k2 \in Nat
                                           /\ s2 # s => m2 = k2
        BY <1>5
      <3>3. s1 = s2 /\ m1 = m2
        BY <2>1, <3>1, <3>2 DEF IInv, OneCopy, OneQueued
      <3>4. QED
        BY <3>1, <3>2, <3>3
    <2>2. QED
      BY <2>1 DEF OneQueued
  <1>13. o.item # 0 => ~ InInbox(o.item)'
    <2>1. ASSUME NEW t \in Sessions, NEW k \in DOMAIN inbox'[t],
                 inbox'[t][k].item = o.item, o.item # 0
          PROVE  FALSE
      <3>1. PICK m \in DOMAIN inbox[t] : inbox'[t][k] = inbox[t][m] /\ (t = s => m # 1)
        BY <1>5
      <3>2. t = s /\ m = 1
        BY <1>3, <1>2, <2>1, <3>1 DEF IInv, OneCopy, OneQueued
      <3>3. QED
        BY <3>1, <3>2
    <2>2. QED
      BY <2>1 DEF InInbox
  <1>14. OneTaken'
    <2>1. o.item # 0 => ~ WasTaken(o.item)
      BY <1>6 DEF IInv, OneCopy, Apart
    <2>2. QED
      BY <1>3, <2>1 DEF IInv, OneCopy, OneTaken, WasTaken
  <1>15. Apart'
    <2>1. /\ \A x : Prompted(x)' <=> Prompted(x)
          /\ \A x : Returns(x)' <=> Returns(x)
          /\ \A x : Pend(items, x)' <=> Pend(items, x)
      BY <1>1 DEF Prompted, Returns, Returning
    <2>2. \A x : WasTaken(x)' => WasTaken(x) \/ x = o.item
      BY <1>3 DEF WasTaken
    <2>3. QED
      BY <1>6, <1>8, <1>13, <2>1, <2>2 DEF Apart, IInv, OneCopy
  <1>16. QED
    BY <1>7, <1>9, <1>10, <1>11, <1>12, <1>14, <1>15 DEF IInv, OneCopy

-----------------------------------------------------------------------------
(* The theorems.                                                             *)

LEMMA InitHolds ==
    Init => IInv
  <1> SUFFICES ASSUME Init PROVE IInv
    OBVIOUS
  <1>1. /\ paused = FALSE /\ items = <<>> /\ created = Bound /\ binding \in Bound \cup {None}
        /\ call = [c \in Calls |-> Idle] /\ nextId = 1 /\ host = {} /\ wire = <<>>
        /\ inbox = [s \in Sessions |-> <<>>] /\ taken = {} /\ Bound \subseteq Sessions
    BY BoundIsAtMostOne DEF Init
  <1>2. /\ \A c \in Calls : call[c] = Idle
        /\ \A s \in Sessions : inbox[s] = <<>>
        /\ DOMAIN items = {} /\ DOMAIN wire = {}
        /\ \A s \in Sessions : DOMAIN inbox[s] = {}
    BY <1>1
  <1>3. TypeInv
    <2>1. <<>> \in Seq(MessageT) /\ <<>> \in Seq(OccurrenceT)
      OBVIOUS
    <2>2. inbox \in [Sessions -> Seq(OccurrenceT)] /\ call \in [Calls -> CallT]
      BY <1>1, <2>1, IdleFacts
    <2>3. paused \in BOOLEAN /\ host \subseteq RequestT /\ taken \subseteq OccurrenceT
      BY <1>1
    <2>4. binding \in created \cup {None} /\ created \subseteq Sessions
      BY <1>1
    <2>5. nextId \in Nat \ {0} /\ wire \in Seq(MessageT)
      BY <1>1, <2>1
    <2>6. QED
      BY <2>2, <2>3, <2>4, <2>5 DEF TypeInv
  <1>4. SessionsKnown /\ Minted
    BY <1>1, <1>2, IdleFacts DEF SessionsKnown, Minted, NamesSession
  <1>5. ListOK(items, nextId)
    BY <1>1, <1>2, BoundsAreNat DEF ListOK, UniqueIds
  <1>6. Owned
    BY <1>1, <1>2 DEF Owned
  <1>7. TagsAgree
    BY <1>1, <1>2, IdleFacts DEF TagsAgree, IsTag, HostTag, BoxTag, CallTag, TagOf, ItemTag
  <1>8. OneCopy
    BY <1>1, <1>2 DEF OneCopy, OnePrompt, OneQueued, OneTaken, OneReturn, Apart,
                      Prompted, InInbox, WasTaken, Returns, Returning
  <1>9. QED
    BY <1>3, <1>4, <1>5, <1>6, <1>7, <1>8 DEF IInv

LEMMA NextKeeps ==
    ASSUME IInv, [Next]_vars
    PROVE  IInv'
  <1>1. CASE UNCHANGED vars
    BY <1>1 DEF vars, IInv, TypeInv, SessionsKnown, Minted, Owned, TagsAgree, IsTag, HostTag,
                BoxTag, CallTag, OneCopy, OnePrompt, OneQueued, OneTaken, OneReturn, Apart,
                Prompted, InInbox, WasTaken, Returns, Returning
  <1>2. CASE Next
    BY <1>2, UserKeeps, HandlerKeeps, TimedOutKeeps, ListKeeps, HostKeeps, TurnTakesKeeps,
       CrashKeeps DEF Next
  <1>3. QED
    BY <1>1, <1>2

LEMMA Invariance ==
    Spec => []IInv
  BY InitHolds, NextKeeps, PTL DEF Spec

\* The state of the session channel, of the list of kept inputs and of the base
\* stays within its types, and the list within MAX_ITEMS.
THEOREM TypeCorrect ==
    Spec => []TypeOK
  <1>1. IInv => TypeOK
    <2> SUFFICES ASSUME IInv PROVE TypeOK
      OBVIOUS
    <2>1. /\ nextId \in Nat \ {0}
          /\ \A k \in DOMAIN items : items[k] \in ItemT
          /\ \A s \in Sessions : \A k \in DOMAIN inbox[s] : inbox[s][k] \in OccurrenceT
          /\ \A o \in taken : o \in OccurrenceT
          /\ \A c \in Calls : call[c] \in CallT
      BY DEF IInv, TypeInv, ListOK
    <2>2. \A k \in DOMAIN items : items[k] \in Item
      BY <2>1 DEF IInv, ListOK, ItemT, Item, States
    <2>3. \A s \in Sessions : \A k \in DOMAIN inbox[s] : inbox[s][k] \in Occurrence
      BY <2>1 DEF IInv, Minted, OccurrenceT, Occurrence
    <2>4. taken \subseteq Occurrence
      BY <2>1 DEF IInv, Minted, OccurrenceT, Occurrence
    <2>5. \A c \in Calls : call[c].item \in 0 .. nextId - 1
      BY <2>1 DEF IInv, Minted, CallT
    <2>6. QED
      BY <2>2, <2>3, <2>4, <2>5 DEF TypeOK, IInv, TypeInv, ListOK
  <1>2. QED
    BY <1>1, Invariance, PTL

LEMMA AtMostOne ==
    ASSUME NEW S, \A a, b \in S : a = b
    PROVE  /\ Cardinality(S) \in Nat /\ Cardinality(S) <= 1
           /\ S = {} => Cardinality(S) = 0
  <1>1. CASE S = {}
    BY <1>1, FS_EmptySet
  <1>2. ASSUME NEW a \in S
        PROVE  Cardinality(S) = 1
    <2>1. S = {a}
      OBVIOUS
    <2>2. QED
      BY <2>1, FS_Singleton
  <1>3. QED
    BY <1>1, <1>2

\* A kept input runs at most once, for any number of handlers, sessions and inputs,
\* whatever stops, resumes, lost answers, timeouts and crashes come together.
THEOREM InputsRunOnce ==
    Spec => []InputRunsAtMostOnce
  <1>1. IInv => InputRunsAtMostOnce
    <2> SUFFICES ASSUME IInv, NEW id \in 1 .. nextId - 1
                 PROVE  /\ Copies(id) <= 1
                        /\ (\E k \in DOMAIN items :
                               items[k].id = id /\ items[k].state = "pending")
                              => Copies(id) = 0
      BY DEF InputRunsAtMostOnce
    <2>1. id # 0
      BY DEF IInv, TypeInv
    <2>2. /\ \A a, b \in Prompts(id) : a = b
          /\ Prompts(id) # {} <=> Prompted(id)
      BY <2>1 DEF Prompts, Prompted, IInv, OneCopy, OnePrompt
    <2>3. /\ \A a, b \in Queued(id) : a = b
          /\ Queued(id) # {} => InInbox(id)
      <3>1. ASSUME NEW a \in Queued(id), NEW b \in Queued(id)
            PROVE  a = b
        <4>1. PICK s1 \in Sessions, k1 \in 1 .. nextId :
                 a = <<s1, k1>> /\ k1 \in DOMAIN inbox[s1] /\ inbox[s1][k1].item = id
          BY DEF Queued
        <4>2. PICK s2 \in Sessions, k2 \in 1 .. nextId :
                 b = <<s2, k2>> /\ k2 \in DOMAIN inbox[s2] /\ inbox[s2][k2].item = id
          BY DEF Queued
        <4>3. s1 = s2 /\ k1 = k2
          BY <2>1, <4>1, <4>2 DEF IInv, OneCopy, OneQueued
        <4>4. QED
          BY <4>1, <4>2, <4>3
      <3>2. Queued(id) # {} => InInbox(id)
        BY DEF Queued, InInbox
      <3>3. QED
        BY <3>1, <3>2
    <2>4. /\ \A a, b \in Taken(id) : a = b
          /\ Taken(id) # {} <=> WasTaken(id)
      BY <2>1 DEF Taken, WasTaken, IInv, OneCopy, OneTaken
    <2>5. /\ Prompts(id) # {} => Queued(id) = {} /\ Taken(id) = {}
          /\ Queued(id) # {} => Taken(id) = {}
          /\ Pend(items, id) => Prompts(id) = {} /\ Queued(id) = {} /\ Taken(id) = {}
      BY <2>1, <2>2, <2>3, <2>4 DEF IInv, OneCopy, Apart
    <2>6. /\ Cardinality(Prompts(id)) \in Nat /\ Cardinality(Prompts(id)) <= 1
          /\ Prompts(id) = {} => Cardinality(Prompts(id)) = 0
      BY <2>2, AtMostOne
    <2>7. /\ Cardinality(Queued(id)) \in Nat /\ Cardinality(Queued(id)) <= 1
          /\ Queued(id) = {} => Cardinality(Queued(id)) = 0
      BY <2>3, AtMostOne
    <2>8. /\ Cardinality(Taken(id)) \in Nat /\ Cardinality(Taken(id)) <= 1
          /\ Taken(id) = {} => Cardinality(Taken(id)) = 0
      BY <2>4, AtMostOne
    <2>9. Copies(id) <= 1
      BY <2>5, <2>6, <2>7, <2>8 DEF Copies
    <2>10. Pend(items, id) => Copies(id) = 0
      BY <2>5, <2>6, <2>7, <2>8 DEF Copies
    <2>11. QED
      BY <2>9, <2>10 DEF Pend
  <1>2. QED
    BY <1>1, Invariance, PTL

-----------------------------------------------------------------------------
(* The texts: a copy of a kept input has the text on record, as long as the     *)
(* queue panel edits nothing.                                                *)

TextOf(its, x, t) == \E k \in DOMAIN its : its[k].id = x /\ its[k].text = t
HostText(x, t) == \E r \in host : r.kind = "prompt" /\ r.item = x /\ r.text = t
BoxText(x, t)  == \E s \in Sessions : \E k \in DOMAIN inbox[s] :
    inbox[s][k].item = x /\ inbox[s][k].text = t
TurnText(x, t) == \E o \in taken : o.item = x /\ o.text = t
CopyText(x, t) == HostText(x, t) \/ BoxText(x, t) \/ TurnText(x, t)

TextsAgree == \A x, t, u : CopyText(x, t) /\ TextOf(items, x, u) => t = u
NoEdits    == \A r \in host : r.kind # "edit"
TInv       == IInv /\ TextsAgree /\ NoEdits

SameTexts(t, its) == \A x, u : TextOf(t, x, u) => TextOf(its, x, u)

LEMMA TextsStay ==
    ASSUME TInv, \A x, t : CopyText(x, t)' => \/ CopyText(x, t)
                                              \/ TextOf(items, x, t)
                                              \/ x = 0,
           \A x, u : TextOf(items', x, u) => TextOf(items, x, u) \/ x = nextId
    PROVE  TextsAgree'
  <1>1. \A x, t, u : TextOf(items, x, t) /\ TextOf(items, x, u) => t = u
    BY DEF TInv, IInv, ListOK, UniqueIds, TextOf
  <1>2. nextId # 0 /\ \A u : ~ TextOf(items, 0, u)
    <2>1. nextId # 0 /\ \A k \in DOMAIN items : items[k] \in ItemT
      BY DEF TInv, IInv, TypeInv, ListOK
    <2>2. QED
      BY <2>1 DEF TextOf, ItemT
  <1>3. \A t : ~ CopyText(nextId, t) /\ ~ TextOf(items, nextId, t)
    <2>1. ~ Prompted(nextId) /\ ~ InInbox(nextId) /\ ~ WasTaken(nextId)
      BY TagsAreMinted DEF TInv
    <2>2. \A t : ~ CopyText(nextId, t)
      BY <2>1 DEF CopyText, HostText, BoxText, TurnText, Prompted, InInbox, WasTaken
    <2>3. nextId \in Nat /\ \A k \in DOMAIN items : items[k].id < nextId
      BY DEF TInv, IInv, TypeInv, ListOK
    <2>4. QED
      BY <2>2, <2>3 DEF TextOf
  <1>4. QED
    BY <1>1, <1>2, <1>3 DEF TInv, TextsAgree

LEMMA StatesKeepTexts ==
    ASSUME NEW n \in Nat, NEW its, ListOK(its, n), NEW t, NEW x, StatesOnly(t, its, x)
    PROVE  SameTexts(t, its)
  <1>1. ASSUME NEW k \in DOMAIN its
        PROVE  t[k].id = its[k].id /\ t[k].text = its[k].text
    <2>1. its[k] \in ItemT
      BY DEF ListOK
    <2>2. t[k] = its[k] \/ \E st \in States : t[k] = [its[k] EXCEPT !.state = st]
      BY DEF StatesOnly
    <2>3. QED
      BY <2>1, <2>2 DEF ItemT
  <1>2. QED
    BY <1>1 DEF SameTexts, TextOf, StatesOnly

LEMMA ListKeepsTexts ==
    ASSUME NEW n \in Nat \ {0}, NEW its, ListOK(its, n), NEW x, NEW q
    PROVE  /\ SameTexts(MarkSubmitted(its, x, q), its)
           /\ \A k \in DOMAIN its : SameTexts(Without(its, k), its)
           /\ \A y, u : TextOf(Enqueued(its, n), y, u) =>
                 TextOf(its, y, u) \/ (y = n /\ Pend(Enqueued(its, n), n))
  <1>1. its \in Seq(ItemT) /\ Len(its) \in Nat /\ DOMAIN its = 1 .. Len(its)
    BY DEF ListOK
  <1>2. SameTexts(MarkSubmitted(its, x, q), its)
    <2>1. ASSUME NEW k \in DOMAIN its
          PROVE  /\ MarkSubmitted(its, x, q)[k].id = its[k].id
                 /\ MarkSubmitted(its, x, q)[k].text = its[k].text
      <3>1. its[k] \in ItemT
        BY <1>1
      <3>2. QED
        BY <3>1 DEF MarkSubmitted, WithItem, ItemT
    <2>2. DOMAIN MarkSubmitted(its, x, q) = DOMAIN its
      BY DEF MarkSubmitted, WithItem
    <2>3. QED
      BY <2>1, <2>2 DEF SameTexts, TextOf
  <1>3. ASSUME NEW k \in DOMAIN its
        PROVE  SameTexts(Without(its, k), its)
    <2>1. /\ Len(Without(its, k)) = Len(its) - 1 /\ Without(its, k) \in Seq(ItemT)
          /\ \A j \in 1 .. Len(its) - 1 :
                /\ Over(k, j) \in DOMAIN its
                /\ Without(its, k)[j] = its[Over(k, j)]
      BY <1>1, WithoutFacts
    <2>2. DOMAIN Without(its, k) = 1 .. Len(its) - 1
      BY <1>1, <2>1
    <2>3. QED
      BY <2>1, <2>2 DEF SameTexts, TextOf
  <1>4. ASSUME NEW y, NEW u, TextOf(Enqueued(its, n), y, u)
        PROVE  TextOf(its, y, u) \/ (y = n /\ Pend(Enqueued(its, n), n))
    <2> DEFINE new == [id |-> n, state |-> "pending", text |-> 0, req |-> 0]
               all == Append(its, new)
    <2>1. new \in ItemT /\ new.id = n /\ new.state = "pending"
      BY BoundsAreNat DEF ItemT, States
    <2>2. Enqueued(its, n) = IF Len(all) > MaxItems THEN Tail(all) ELSE all
      BY DEF Enqueued
    <2> HIDE DEF new
    <2>3. /\ all \in Seq(ItemT) /\ DOMAIN all = 1 .. Len(its) + 1
          /\ \A k \in 1 .. Len(its) : all[k] = its[k]
          /\ all[Len(its) + 1] = new
      BY <1>1, <2>1, AppendFacts
    <2>4. \A k \in DOMAIN all : \/ k \in DOMAIN its /\ all[k] = its[k]
                                \/ all[k] = new
      <3>1. ASSUME NEW k \in 1 .. Len(its) + 1
            PROVE  k \in 1 .. Len(its) \/ k = Len(its) + 1
        BY <1>1
      <3>2. QED
        BY <1>1, <2>3, <3>1
    <2> HIDE DEF all
    <2>5. ASSUME NEW k \in DOMAIN Tail(all), all # <<>>
          PROVE  \E j \in DOMAIN all : Tail(all)[k] = all[j]
      BY <2>3, <2>5, TailFacts
    <2>6. all # <<>>
      BY <1>1, <2>3
    <2>7. PICK k \in DOMAIN Enqueued(its, n) :
             Enqueued(its, n)[k].id = y /\ Enqueued(its, n)[k].text = u
      BY <1>4 DEF TextOf
    <2>8. \E j \in DOMAIN all : Enqueued(its, n)[k] = all[j]
      BY <2>2, <2>5, <2>6, <2>7
    <2>9. QED
      BY <2>1, <2>4, <2>7, <2>8 DEF TextOf, Pend
  <1>5. QED
    BY <1>2, <1>3, <1>4

\* A step of the main process: what it sends is no edit, and carries the text of an
\* input on record, if it carries an input; what it does to the list keeps the texts.
SendsRecorded ==
    /\ NoEdits'
    /\ \A x, t : HostText(x, t)' => HostText(x, t) \/ TextOf(items, x, t) \/ x = 0
ListRecorded == \A x, u : TextOf(items', x, u) =>
    TextOf(items, x, u) \/ (x = nextId /\ Pend(items', x))

\* What a step does to the texts: what carries an input after it carried that text
\* before, or takes it from the list; and the list changes the text of pending inputs
\* alone, and admits the next input as pending.
TextsPass ==
    /\ \A x, t : CopyText(x, t)' => CopyText(x, t) \/ TextOf(items, x, t) \/ x = 0
    /\ \A x, u : TextOf(items', x, u) =>
          \/ TextOf(items, x, u)
          \/ x = nextId /\ Pend(items', x)
          \/ Pend(items, x) /\ Pend(items', x)

LEMMA MainTexts ==
    ASSUME TInv, SendsRecorded, ListRecorded, UNCHANGED base
    PROVE  TextsAgree' /\ NoEdits' /\ TextsPass
  <1>1. /\ \A x, t : BoxText(x, t)' => BoxText(x, t)
        /\ \A x, t : TurnText(x, t)' => TurnText(x, t)
    BY DEF base, BoxText, TurnText
  <1>2. \A x, t : CopyText(x, t)' => CopyText(x, t) \/ TextOf(items, x, t) \/ x = 0
    BY <1>1 DEF SendsRecorded, CopyText
  <1>3. QED
    BY <1>2, TextsStay DEF SendsRecorded, ListRecorded, TextsPass

LEMMA Sending ==
    ASSUME TInv, NEW c, NEW kind, NEW s, NEW req, NEW item, NEW text,
           Sends(c, kind, s, req, item, text), kind # "edit",
           kind = "prompt" => item = 0 \/ TextOf(items, item, text)
    PROVE  SendsRecorded
  <1> DEFINE q == Request(c, kind, s, req, item, text)
  <1>1. host' = host \cup {q} /\ q.kind = kind /\ q.item = item /\ q.text = text
    BY DEF Sends, Request
  <1> HIDE DEF q
  <1>2. NoEdits'
    BY <1>1 DEF TInv, NoEdits
  <1>3. QED
    BY <1>1, <1>2 DEF SendsRecorded, HostText

LEMMA Silent ==
    ASSUME TInv, UNCHANGED host
    PROVE  SendsRecorded
  BY DEF TInv, NoEdits, SendsRecorded, HostText

LEMMA DispatchTexts ==
    ASSUME TInv, NEW c \in Calls, NEW s, NEW its, NEW isPaused,
           ListOK(its, nextId), SameTexts(its, items), DispatchNext(c, s, its, isPaused)
    PROVE  SendsRecorded /\ ListRecorded
  <1>1. nextId \in Nat \ {0} /\ its \in Seq(ItemT)
    BY DEF TInv, IInv, TypeInv, ListOK
  <1>2. CASE items' = its /\ UNCHANGED host
    BY <1>2, Silent DEF ListRecorded, SameTexts
  <1>3. CASE ~ LoopEnds(its, isPaused)
    <2> DEFINE k == First(InState(its, "pending"))
    <2>1. k \in DOMAIN its
      <3>1. InState(its, "pending") \in SUBSET Nat /\ InState(its, "pending") # {}
        BY <1>1, <1>3 DEF InState, LoopEnds
      <3>2. k \in InState(its, "pending")
        BY <3>1, FirstIsOne
      <3>3. QED
        BY <3>2 DEF InState
    <2>2. /\ items' = BeginDispatch(its, k)
          /\ Sends(c, "prompt", s, nextId, its[k].id, its[k].text)
      BY <1>3 DEF DispatchNext
    <2> HIDE DEF k
    <2>3. TextOf(items, its[k].id, its[k].text)
      BY <2>1 DEF SameTexts, TextOf
    <2>4. SendsRecorded
      BY <2>2, <2>3, Sending
    <2>5. StatesOnly(items', its, 0)
      BY <1>1, <2>1, <2>2, OpsAreStatesOnly
    <2>6. SameTexts(items', its)
      BY <1>1, <2>5, StatesKeepTexts
    <2>7. QED
      BY <2>4, <2>6 DEF SameTexts, ListRecorded
  <1>4. QED
    BY <1>2, <1>3 DEF DispatchNext

LEMMA UserTexts ==
    ASSUME TInv, "edit" \notin Panel, NEW c \in Calls, User(c)
    PROVE  TextsAgree' /\ NoEdits' /\ TextsPass
  <1>1. nextId \in Nat \ {0} /\ ListOK(items, nextId) /\ SameTexts(items, items)
    BY DEF TInv, IInv, TypeInv, SameTexts
  <1>2. UNCHANGED base
    BY DEF User, SendWhilePaused, SendBound, SendUnbound, ResumeBound, ResumeUnbound, Stop,
           QueueItem
  <1>3. UNCHANGED items => ListRecorded
    BY DEF ListRecorded
  <1>4. CASE SendWhilePaused(c)
    <2>1. UNCHANGED host /\ items' = Enqueued(items, nextId)
      BY <1>4 DEF SendWhilePaused
    <2>2. ListRecorded
      BY <1>1, <2>1, ListKeepsTexts DEF ListRecorded
    <2>3. QED
      BY <1>2, <2>1, <2>2, Silent, MainTexts
  <1>5. CASE SendBound(c)
    <2>1. Sends(c, "prompt", binding, nextId, 0, 0) /\ UNCHANGED items
      BY <1>5 DEF SendBound, PromptDirectly, record
    <2>2. QED
      BY <1>2, <1>3, <2>1, Sending, MainTexts
  <1>6. CASE SendUnbound(c) \/ ResumeUnbound(c)
    <2>1. Sends(c, "create", None, 0, 0, 0) /\ UNCHANGED items
      BY <1>6 DEF SendUnbound, ResumeUnbound, AskForSession, record
    <2>2. QED
      BY <1>2, <1>3, <2>1, Sending, MainTexts
  <1>7. CASE ResumeBound(c)
    BY <1>1, <1>2, <1>7, DispatchTexts, MainTexts DEF ResumeBound
  <1>8. CASE Stop(c)
    <2>1. UNCHANGED items /\ (UNCHANGED host \/ Sends(c, "cancel", binding, 0, 0, 0))
      BY <1>8 DEF Stop
    <2>2. SendsRecorded
      BY <2>1, Silent, Sending
    <2>3. QED
      BY <1>2, <1>3, <2>1, <2>2, MainTexts
  <1>9. CASE QueueItem(c, "edit") \/ QueueItem(c, "remove")
    <2>1. PICK k : Sends(c, "remove", binding, inbox[binding][k].req, 0, QueueText)
      BY <1>9 DEF QueueItem
    <2>2. UNCHANGED items
      BY <1>9 DEF QueueItem, record
    <2>3. SendsRecorded
      BY <2>1, Sending
    <2>4. QED
      BY <1>2, <1>3, <2>2, <2>3, MainTexts
  <1>10. QED
    BY <1>4, <1>5, <1>6, <1>7, <1>8, <1>9 DEF User

LEMMA HandlerTexts ==
    ASSUME TInv, NEW c \in Calls, Handler(c)
    PROVE  TextsAgree' /\ NoEdits' /\ TextsPass
  <1>1. /\ nextId \in Nat \ {0} /\ ListOK(items, nextId) /\ SameTexts(items, items)
        /\ call[c].item \in Nat /\ call[c].req \in Nat /\ call[c].req < nextId
    BY DEF TInv, IInv, TypeInv, Minted, CallT, SameTexts
  <1>2. UNCHANGED base
    BY DEF Handler, SendCreated, SendAnswered, ResumeCreated, ResumeAccepted,
           ResumeUnacknowledged, StopCancelled, StopFolds, StopRemoved, QueueItemAnswered,
           Rejected
  <1>3. UNCHANGED items => ListRecorded
    BY DEF ListRecorded
  <1>4. CASE SendCreated(c)
    <2>1. Sends(c, "prompt", Value, nextId, 0, 0) /\ UNCHANGED items
      BY <1>4 DEF SendCreated, PromptDirectly
    <2>2. QED
      BY <1>2, <1>3, <2>1, Sending, MainTexts
  <1>5. CASE SendAnswered(c) \/ QueueItemAnswered(c) \/ Rejected(c)
    <2>1. UNCHANGED <<host, items>>
      BY <1>5 DEF SendAnswered, QueueItemAnswered, Rejected, record
    <2>2. QED
      BY <1>2, <1>3, <2>1, Silent, MainTexts
  <1>6. CASE ResumeCreated(c)
    BY <1>1, <1>2, <1>6, DispatchTexts, MainTexts DEF ResumeCreated
  <1>7. CASE ResumeAccepted(c)
    <2> DEFINE its == MarkSubmitted(items, call[c].item, call[c].req)
    <2>1. ListOK(its, nextId)
      BY <1>1, MarkFacts
    <2>2. SameTexts(its, items)
      BY <1>1, ListKeepsTexts
    <2>3. DispatchNext(c, call[c].session, its, paused)
      BY <1>7 DEF ResumeAccepted
    <2> HIDE DEF its
    <2>4. QED
      BY <1>2, <2>1, <2>2, <2>3, DispatchTexts, MainTexts
  <1>8. ASSUME NEW x, StatesOnly(items', items, x)
        PROVE  ListRecorded
    BY <1>1, <1>8, StatesKeepTexts DEF SameTexts, ListRecorded
  <1>9. CASE ResumeUnacknowledged(c)
    <2>1. UNCHANGED host /\ StatesOnly(items', items, call[c].item)
      BY <1>1, <1>9, OpsAreStatesOnly DEF ResumeUnacknowledged
    <2>2. QED
      BY <1>2, <1>8, <2>1, Silent, MainTexts
  <1>10. CASE StopCancelled(c)
    <2>1. Sends(c, "control", call[c].session, 0, 0, 0) /\ UNCHANGED items
      BY <1>10 DEF StopCancelled, record
    <2>2. QED
      BY <1>2, <1>3, <2>1, Sending, MainTexts
  <1>11. ASSUME NEW todo, DrainNext(c, todo)
         PROVE  SendsRecorded
    <2>1. CASE UNCHANGED host
      BY <2>1, Silent
    <2>2. ASSUME NEW i \in todo, Sends(c, "remove", call[c].session, i.req, i.id, 0)
          PROVE  SendsRecorded
      BY <2>2, Sending
    <2>3. QED
      BY <1>11, <2>1, <2>2 DEF DrainNext
  <1>12. CASE StopFolds(c)
    <2>1. DrainNext(c, Ours(items, Value)) /\ StatesOnly(items', items, 0)
      BY <1>1, <1>12, OpsAreStatesOnly DEF StopFolds
    <2>2. QED
      BY <1>2, <1>8, <1>11, <2>1, MainTexts
  <1>13. CASE StopRemoved(c)
    <2>1. DrainNext(c, call[c].todo) /\ StatesOnly(items', items, call[c].item)
      BY <1>1, <1>13, OpsAreStatesOnly DEF StopRemoved
    <2>2. QED
      BY <1>2, <1>8, <1>11, <2>1, MainTexts
  <1>14. QED
    BY <1>4, <1>5, <1>6, <1>7, <1>9, <1>10, <1>12, <1>13 DEF Handler

LEMMA RestTexts ==
    ASSUME TInv, (\E c \in Calls : TimedOut(c)) \/ Crash
    PROVE  TextsAgree' /\ NoEdits' /\ TextsPass
  <1>1. /\ UNCHANGED <<items, base>>
        /\ \A q \in host' : \E r \in host :
              q.kind = r.kind /\ q.item = r.item /\ q.text = r.text
    <2>1. ASSUME NEW c \in Calls, TimedOut(c)
          PROVE  \A q \in host' : \E r \in host :
                    q.kind = r.kind /\ q.item = r.item /\ q.text = r.text
      <3>1. ASSUME NEW r \in host, host' = (host \ {r}) \cup {[r EXCEPT !.call = None]}
            PROVE  \A q \in host' : \E u \in host :
                      q.kind = u.kind /\ q.item = u.item /\ q.text = u.text
        <4>1. r \in RequestT
          BY DEF TInv, IInv, TypeInv
        <4>2. LET q == [r EXCEPT !.call = None] IN
                 q.kind = r.kind /\ q.item = r.item /\ q.text = r.text
          BY <4>1 DEF RequestT
        <4>3. QED
          BY <3>1, <4>2
      <3>2. QED
        BY <2>1, <3>1 DEF TimedOut, Forgets
    <2>2. Crash => host' = {} /\ UNCHANGED <<items, base>>
      BY DEF Crash, record
    <2>3. \A c \in Calls : TimedOut(c) => UNCHANGED <<items, base>>
      BY DEF TimedOut, record
    <2>4. QED
      BY <2>1, <2>2, <2>3
  <1>2. SendsRecorded
    BY <1>1 DEF SendsRecorded, TInv, NoEdits, HostText
  <1>3. ListRecorded
    BY <1>1 DEF ListRecorded
  <1>4. QED
    BY <1>1, <1>2, <1>3, MainTexts

\* Only a pending input is edited, and of a pending input there is no copy.
LEMMA ListTexts ==
    ASSUME TInv, NEW k \in DOMAIN items, EditItem(k) \/ RemoveItem(k)
    PROVE  TextsAgree' /\ NoEdits' /\ TextsPass
  <1>1. /\ nextId \in Nat \ {0} /\ ListOK(items, nextId) /\ UNCHANGED <<host, base>>
        /\ items[k] \in ItemT /\ items[k].state = "pending"
    BY DEF TInv, IInv, TypeInv, ListOK, EditItem, RemoveItem, Editable
  <1>2. CASE RemoveItem(k)
    <2>1. ListRecorded
      BY <1>1, <1>2, ListKeepsTexts DEF RemoveItem, SameTexts, ListRecorded
    <2>2. QED
      BY <1>1, <2>1, Silent, MainTexts
  <1>3. CASE EditItem(k)
    <2>1. items' = [items EXCEPT ![k].text = @ + 1] /\ UNCHANGED <<host, inbox, taken>>
      BY <1>1, <1>3 DEF EditItem, base
    <2>2. \A x, t : CopyText(x, t)' => CopyText(x, t)
      BY <2>1 DEF CopyText, HostText, BoxText, TurnText
    <2>3. \A t : ~ CopyText(items[k].id, t)
      <3>1. Pend(items, items[k].id) /\ items[k].id # 0
        BY <1>1 DEF Pend, ItemT
      <3>2. /\ ~ Prompted(items[k].id) /\ ~ InInbox(items[k].id)
            /\ ~ WasTaken(items[k].id)
        BY <3>1 DEF TInv, IInv, OneCopy, Apart
      <3>3. QED
        BY <3>2 DEF CopyText, HostText, BoxText, TurnText, Prompted, InInbox, WasTaken
    <2>4. /\ DOMAIN items' = DOMAIN items
          /\ \A j \in DOMAIN items : \/ items'[j] = items[j]
                                     \/ items'[j].id = items[k].id
      <3>1. DOMAIN items' = DOMAIN items /\ \A j \in DOMAIN items : j # k => items'[j] = items[j]
        BY <2>1
      <3>2. items'[k].id = items[k].id
        BY <1>1, <2>1 DEF ItemT
      <3>3. QED
        BY <3>1, <3>2
    <2>5. \A x, u : TextOf(items', x, u) => TextOf(items, x, u) \/ x = items[k].id
      BY <2>4 DEF TextOf
    <2>6. ASSUME NEW x, NEW t, NEW u, CopyText(x, t)', TextOf(items', x, u)
          PROVE  t = u
      BY <2>2, <2>3, <2>5, <2>6 DEF TInv, TextsAgree
    <2>7. TextsAgree'
      BY <2>6 DEF TextsAgree
    <2>8. TextsPass
      <3>1. items[k].id = items'[k].id /\ items'[k].state = "pending"
        BY <1>1, <2>1 DEF ItemT
      <3>2. Pend(items, items[k].id) /\ Pend(items', items[k].id)
        BY <1>1, <2>4, <3>1 DEF Pend
      <3>3. QED
        BY <2>2, <2>5, <3>2 DEF TextsPass
    <2>9. QED
      BY <2>1, <2>7, <2>8 DEF TInv, NoEdits
  <1>4. QED
    BY <1>2, <1>3

LEMMA BoxesKept ==
    ASSUME NEW s \in Sessions, \A t \in Sessions \ {s} : inbox'[t] = inbox[t],
           \A n \in DOMAIN inbox'[s] : \E m \in DOMAIN inbox[s] : inbox'[s][n] = inbox[s][m]
    PROVE  \A x, t : BoxText(x, t)' => BoxText(x, t)
  <1>1. ASSUME NEW u \in Sessions, NEW k \in DOMAIN inbox'[u]
        PROVE  \E m \in DOMAIN inbox[u] : inbox'[u][k] = inbox[u][m]
    <2>1. CASE u = s
      BY <2>1
    <2>2. CASE u # s
      BY <2>2
    <2>3. QED
      BY <2>1, <2>2
  <1>2. QED
    BY <1>1 DEF BoxText

LEMMA HostTexts ==
    ASSUME TInv, NEW r \in host, Host(r)
    PROVE  TextsAgree' /\ NoEdits' /\ TextsPass
  <1>1. /\ UNCHANGED <<items, taken>> /\ host' = host \ {r} /\ r.kind # "edit"
        /\ inbox \in [Sessions -> Seq(OccurrenceT)]
        /\ r.kind \in {"prompt", "remove"} => r.session \in Sessions
    BY DEF TInv, NoEdits, Host, HostCreates, HostAdmits, HostDoesNotAcknowledge, HostCancels,
           HostReports, HostRemoves, HostEdits, HostRefuses, Replies, Reports, record, base,
           IInv, TypeInv, SessionsKnown
  <1>2. NoEdits' /\ \A x, t : HostText(x, t)' => HostText(x, t)
    BY <1>1 DEF TInv, NoEdits, HostText
  <1>3. CASE UNCHANGED inbox
    <2>1. \A x, t : CopyText(x, t)' => CopyText(x, t)
      BY <1>1, <1>2, <1>3 DEF CopyText, BoxText, TurnText
    <2>2. QED
      BY <1>1, <1>2, <2>1, TextsStay DEF TextsPass
  <1>4. CASE HostAdmits(r)
    <2> DEFINE o == [req |-> r.req, item |-> r.item, text |-> r.text]
    <2>1. /\ o.item = r.item /\ o.text = r.text /\ r.kind = "prompt" /\ o \in OccurrenceT
          /\ inbox' = [inbox EXCEPT ![r.session] = Append(@, o)]
      BY <1>4 DEF HostAdmits, OccurrenceT, TInv, IInv, TypeInv, SessionsKnown, RequestT
    <2> HIDE DEF o
    <2>2. /\ \A s \in Sessions \ {r.session} : inbox'[s] = inbox[s]
          /\ inbox[r.session] \in Seq(OccurrenceT)
          /\ inbox'[r.session] = Append(inbox[r.session], o)
      BY <1>1, <2>1
    <2>3. \A k \in DOMAIN inbox'[r.session] :
             \/ k \in DOMAIN inbox[r.session] /\ inbox'[r.session][k] = inbox[r.session][k]
             \/ inbox'[r.session][k] = o
      <3>1. /\ DOMAIN inbox'[r.session] = 1 .. Len(inbox[r.session]) + 1
            /\ DOMAIN inbox[r.session] = 1 .. Len(inbox[r.session])
            /\ \A k \in 1 .. Len(inbox[r.session]) :
                  inbox'[r.session][k] = inbox[r.session][k]
            /\ inbox'[r.session][Len(inbox[r.session]) + 1] = o
            /\ Len(inbox[r.session]) \in Nat
        BY <2>1, <2>2, AppendFacts
      <3>2. ASSUME NEW k \in 1 .. Len(inbox[r.session]) + 1
            PROVE  k \in 1 .. Len(inbox[r.session]) \/ k = Len(inbox[r.session]) + 1
        BY <3>1
      <3>3. QED
        BY <3>1, <3>2
    <2>4. \A x, t : BoxText(x, t)' => BoxText(x, t) \/ HostText(x, t)
      BY <2>1, <2>2, <2>3 DEF BoxText, HostText
    <2>5. \A x, t : CopyText(x, t)' => CopyText(x, t)
      BY <1>1, <1>2, <2>4 DEF CopyText, TurnText
    <2>6. QED
      BY <1>1, <1>2, <2>5, TextsStay DEF TextsPass
  <1>5. CASE HostRemoves(r)
    <2>1. PICK s \in Sessions : s = r.session
      BY <1>1, <1>5 DEF HostRemoves
    <2>2. PICK k \in DOMAIN inbox[s] : inbox' = [inbox EXCEPT ![s] = Without(@, k)]
      BY <1>5, <2>1 DEF HostRemoves
    <2>3. /\ \A t \in Sessions \ {s} : inbox'[t] = inbox[t]
          /\ inbox[s] \in Seq(OccurrenceT)
          /\ inbox'[s] = Without(inbox[s], k)
      BY <1>1, <2>2
    <2>4. \A n \in DOMAIN inbox'[s] : \E m \in DOMAIN inbox[s] : inbox'[s][n] = inbox[s][m]
      <3>1. /\ Without(inbox[s], k) \in Seq(OccurrenceT)
            /\ Len(Without(inbox[s], k)) = Len(inbox[s]) - 1
            /\ \A n \in 1 .. Len(inbox[s]) - 1 :
                  /\ Over(k, n) \in DOMAIN inbox[s]
                  /\ Without(inbox[s], k)[n] = inbox[s][Over(k, n)]
        BY <2>3, WithoutFacts
      <3>2. DOMAIN Without(inbox[s], k) = 1 .. Len(inbox[s]) - 1
        BY <2>3, <3>1
      <3>3. QED
        BY <2>3, <3>1, <3>2
    <2>5. \A x, t : CopyText(x, t)' => CopyText(x, t)
      BY <1>1, <1>2, <2>3, <2>4, BoxesKept DEF CopyText, TurnText
    <2>6. QED
      BY <1>1, <1>2, <2>5, TextsStay DEF TextsPass
  <1>6. QED
    BY <1>1, <1>3, <1>4, <1>5 DEF Host, HostCreates, HostDoesNotAcknowledge, HostCancels,
       HostReports, HostEdits, HostRefuses, base

LEMMA TurnTexts ==
    ASSUME TInv, NEW s \in Sessions, TurnTakes(s)
    PROVE  TextsAgree' /\ NoEdits' /\ TextsPass
  <1>1. /\ inbox \in [Sessions -> Seq(OccurrenceT)] /\ inbox[s] \in Seq(OccurrenceT)
        /\ inbox[s] # <<>> /\ UNCHANGED <<items, host>>
        /\ taken' = taken \cup {Head(inbox[s])}
        /\ inbox' = [inbox EXCEPT ![s] = Tail(@)]
    BY DEF TInv, IInv, TypeInv, TurnTakes, record
  <1>2. /\ \A t \in Sessions \ {s} : inbox'[t] = inbox[t]
        /\ inbox'[s] = Tail(inbox[s])
    BY <1>1
  <1>3. /\ Head(inbox[s]) = inbox[s][1] /\ 1 \in DOMAIN inbox[s]
        /\ \A n \in DOMAIN inbox'[s] : \E m \in DOMAIN inbox[s] : inbox'[s][n] = inbox[s][m]
    BY <1>1, <1>2, TailFacts
  <1>4. /\ \A x, t : BoxText(x, t)' => BoxText(x, t)
        /\ \A x, t : TurnText(x, t)' => TurnText(x, t) \/ BoxText(x, t)
        /\ \A x, t : HostText(x, t)' => HostText(x, t)
    <2>1. \A x, t : BoxText(x, t)' => BoxText(x, t)
      BY <1>2, <1>3, BoxesKept
    <2>2. \A x, t : TurnText(x, t)' => TurnText(x, t) \/ BoxText(x, t)
      BY <1>1, <1>3 DEF TurnText, BoxText
    <2>3. \A x, t : HostText(x, t)' => HostText(x, t)
      BY <1>1 DEF HostText
    <2>4. QED
      BY <2>1, <2>2, <2>3
  <1>5. NoEdits' /\ \A x, t : CopyText(x, t)' => CopyText(x, t)
    BY <1>1, <1>4 DEF CopyText, TInv, NoEdits
  <1>6. QED
    BY <1>1, <1>5, TextsStay DEF TextsPass

LEMMA TextsStart == Init => TInv
  <1> SUFFICES ASSUME Init PROVE TInv
    OBVIOUS
  <1>1. IInv
    BY InitHolds
  <1>2. NoEdits /\ \A x, t : ~ CopyText(x, t)
    BY DEF Init, NoEdits, CopyText, HostText, BoxText, TurnText
  <1>3. QED
    BY <1>1, <1>2 DEF TInv, TextsAgree

LEMMA StepKeepsTexts ==
    ASSUME "edit" \notin Panel, TInv, Next
    PROVE  TextsAgree' /\ NoEdits' /\ TextsPass
  BY UserTexts, HandlerTexts, RestTexts, ListTexts, HostTexts, TurnTexts DEF Next

LEMMA TextsHold ==
    ASSUME "edit" \notin Panel
    PROVE  Spec => []TInv
  <1>1. TInv /\ [Next]_vars => TInv'
    <2> SUFFICES ASSUME TInv, [Next]_vars PROVE TInv'
      OBVIOUS
    <2>1. IInv'
      BY NextKeeps DEF TInv
    <2>2. TextsAgree' /\ NoEdits'
      <3>1. CASE UNCHANGED vars
        BY <3>1 DEF vars, TInv, TextsAgree, NoEdits, CopyText, HostText, BoxText, TurnText
      <3>2. CASE Next
        BY <3>2, StepKeepsTexts
      <3>3. QED
        BY <3>1, <3>2
    <2>3. QED
      BY <2>1, <2>2 DEF TInv
  <1>2. QED
    BY <1>1, TextsStart, PTL DEF Spec

\* What runs is what the user last saw, unless the queue panel edited the queued
\* occurrence, which the list of kept inputs is not told of.
THEOREM FrozenText ==
    ASSUME "edit" \notin Panel
    PROVE  Spec => []FrozenTextIsRecorded
  <1>1. TInv => FrozenTextIsRecorded
    <2> SUFFICES ASSUME TInv, NEW k \in DOMAIN items
                 PROVE  /\ \A r \in Prompts(items[k].id) : r.text = items[k].text
                        /\ \A sk \in Queued(items[k].id) :
                              inbox[sk[1]][sk[2]].text = items[k].text
                        /\ \A o \in Taken(items[k].id) : o.text = items[k].text
      BY DEF FrozenTextIsRecorded
    <2>1. TextOf(items, items[k].id, items[k].text)
      BY DEF TextOf
    <2>2. \A t : CopyText(items[k].id, t) => t = items[k].text
      BY <2>1 DEF TInv, TextsAgree
    <2>3. \A r \in Prompts(items[k].id) : HostText(items[k].id, r.text)
      BY DEF Prompts, HostText
    <2>4. ASSUME NEW sk \in Queued(items[k].id)
          PROVE  BoxText(items[k].id, inbox[sk[1]][sk[2]].text)
      <3>1. PICK s \in Sessions, n \in 1 .. nextId :
               sk = <<s, n>> /\ n \in DOMAIN inbox[s] /\ inbox[s][n].item = items[k].id
        BY DEF Queued
      <3>2. QED
        BY <3>1 DEF BoxText
    <2>5. \A o \in Taken(items[k].id) : TurnText(items[k].id, o.text)
      BY DEF Taken, TurnText
    <2>6. QED
      BY <2>2, <2>3, <2>4, <2>5 DEF CopyText
  <1>2. QED
    BY <1>1, TextsHold, PTL

-----------------------------------------------------------------------------
(* The list implements KeptInputs.                                            *)

\* A text that the list or something carried has of an input.
Says(x, t) == CopyText(x, t) \/ TextOf(items, x, t)

LifeWith(x, t) ==
    [runs |-> IF WasTaken(x) THEN 1 ELSE 0,
     text |-> {t},
     at |-> IF WasTaken(x) THEN "ran" ELSE IF Pend(items, x) THEN "kept" ELSE "sent"]

LEMMA CarriedSays ==
    \A x, t : CopyText(x, t) <=> \E o \in Carried : o.item = x /\ o.text = t
  <1>1. ASSUME NEW x, NEW t, CopyText(x, t)
        PROVE  \E o \in Carried : o.item = x /\ o.text = t
    <2>1. CASE HostText(x, t)
      BY <2>1 DEF HostText, Carried
    <2>2. CASE BoxText(x, t)
      <3>1. PICK s \in Sessions : \E k \in DOMAIN inbox[s] :
               inbox[s][k].item = x /\ inbox[s][k].text = t
        BY <2>2 DEF BoxText
      <3>2. \A k \in DOMAIN inbox[s] : inbox[s][k] \in Carried
        BY DEF Carried
      <3>3. QED
        BY <3>1, <3>2
    <2>3. CASE TurnText(x, t)
      BY <2>3 DEF TurnText, Carried
    <2>4. QED
      BY <1>1, <2>1, <2>2, <2>3 DEF CopyText
  <1>2. ASSUME NEW o \in Carried
        PROVE  CopyText(o.item, o.text)
    <2>1. CASE o \in taken
      BY <2>1 DEF CopyText, TurnText
    <2>2. CASE o \in {r \in host : r.kind = "prompt"}
      BY <2>2 DEF CopyText, HostText
    <2>3. ASSUME NEW z \in Sessions, o \in {inbox[z][k] : k \in DOMAIN inbox[z]}
          PROVE  CopyText(o.item, o.text)
      BY <2>3 DEF CopyText, BoxText
    <2>4. QED
      BY <2>1, <2>2, <2>3 DEF Carried
  <1>3. QED
    BY <1>1, <1>2

AliveAre == \A x : x \in Alive <=> x # 0 /\ \E t : Says(x, t)
LivesAre == \A x \in Alive : \A t : Says(x, t) => Life(x) = LifeWith(x, t)

LEMMA AliveSays == AliveAre
  <1>1. \A x : x \in {items[k].id : k \in DOMAIN items} <=> \E t : TextOf(items, x, t)
    BY DEF TextOf
  <1>2. \A x : x \in {o.item : o \in Carried} <=> \E t : CopyText(x, t)
    BY CarriedSays
  <1>3. QED
    BY <1>1, <1>2 DEF AliveAre, Alive, Says

\* All that is said of an input is one text.
LEMMA OneText ==
    ASSUME TInv, NEW x, x # 0
    PROVE  \A t, u : Says(x, t) /\ Says(x, u) => t = u
  <1>1. \A t, u : TextOf(items, x, t) /\ TextOf(items, x, u) => t = u
    BY DEF TInv, IInv, ListOK, UniqueIds, TextOf
  <1>2. /\ \A t, u : HostText(x, t) /\ HostText(x, u) => t = u
        /\ \A t, u : BoxText(x, t) /\ BoxText(x, u) => t = u
        /\ \A t, u : TurnText(x, t) /\ TurnText(x, u) => t = u
    <2>1. \A t, u : HostText(x, t) /\ HostText(x, u) => t = u
      BY DEF TInv, IInv, OneCopy, OnePrompt, HostText
    <2>2. \A t, u : BoxText(x, t) /\ BoxText(x, u) => t = u
      BY DEF TInv, IInv, OneCopy, OneQueued, BoxText
    <2>3. \A t, u : TurnText(x, t) /\ TurnText(x, u) => t = u
      BY DEF TInv, IInv, OneCopy, OneTaken, TurnText
    <2>4. QED
      BY <2>1, <2>2, <2>3
  <1>3. /\ \A t : HostText(x, t) => Prompted(x)
        /\ \A t : BoxText(x, t) => InInbox(x)
        /\ \A t : TurnText(x, t) => WasTaken(x)
    BY DEF HostText, Prompted, BoxText, InInbox, TurnText, WasTaken
  <1>4. /\ Prompted(x) => ~ InInbox(x) /\ ~ WasTaken(x)
        /\ InInbox(x) => ~ WasTaken(x)
    BY DEF TInv, IInv, OneCopy, Apart
  <1>5. \A t, u : CopyText(x, t) /\ CopyText(x, u) => t = u
    BY <1>2, <1>3, <1>4 DEF CopyText
  <1>6. QED
    BY <1>1, <1>5 DEF Says, TInv, TextsAgree

LEMMA LifeIs == TInv => LivesAre
  <1> SUFFICES ASSUME TInv, NEW x \in Alive, NEW t, Says(x, t)
               PROVE  Life(x) = LifeWith(x, t)
    BY DEF LivesAre
  <1>1. x # 0 /\ \A u : Says(x, u) => u = t
    BY AliveSays, OneText DEF AliveAre
  <1>2. /\ \A a, b \in Taken(x) : a = b
        /\ Taken(x) # {} <=> WasTaken(x)
    BY <1>1 DEF Taken, WasTaken, TInv, IInv, OneCopy, OneTaken
  <1>3. Cardinality(Taken(x)) = IF WasTaken(x) THEN 1 ELSE 0
    <2>1. CASE Taken(x) = {}
      BY <1>2, <2>1, FS_EmptySet
    <2>2. ASSUME NEW a \in Taken(x)
          PROVE  Cardinality(Taken(x)) = 1
      <3>1. Taken(x) = {a}
        BY <1>2
      <3>2. QED
        BY <3>1, FS_Singleton
    <2>3. QED
      BY <1>2, <2>1, <2>2
  <1> DEFINE listed == {items[k] : k \in {j \in DOMAIN items : items[j].id = x}}
             texts(os) == {o.text : o \in os}
  <1>4. \A os : os # {} /\ (\A o \in os : Says(x, o.text)) => texts(os) = {t}
    BY <1>1
  <1>5. /\ \A o \in Taken(x) : Says(x, o.text)
        /\ \A o \in listed : Says(x, o.text)
        /\ \A o \in {u \in Carried : u.item = x} : Says(x, o.text)
    BY CarriedSays DEF Says, CopyText, TurnText, TextOf, Taken
  <1>6. (\E i \in listed : i.state = "pending") <=> Pend(items, x)
    BY DEF Pend
  <1>7. listed # {} \/ {u \in Carried : u.item = x} # {}
    BY CarriedSays DEF Says, TextOf
  <1>8. (IF Taken(x) # {} THEN texts(Taken(x))
         ELSE IF listed # {} THEN texts(listed)
         ELSE texts({o \in Carried : o.item = x})) = {t}
    BY <1>4, <1>5, <1>7
  <1>9. (IF Taken(x) # {} THEN "ran"
         ELSE IF \E i \in listed : i.state = "pending" THEN "kept"
         ELSE "sent") = LifeWith(x, t).at
    BY <1>2, <1>6 DEF LifeWith
  <1>10. QED
    BY <1>3, <1>8, <1>9 DEF Life, LifeWith

\* The same of the state that a step leads to.
LEMMA LifeWillBe == TInv' => LivesAre'
  BY LifeIs, PTL

LEMMA AliveWillSay == AliveAre'
  BY AliveSays, PTL

\* What a turn took stays taken, and a turn takes what was queued.
TurnsPass ==
    /\ \A x : WasTaken(x) => WasTaken(x)'
    /\ \A x : WasTaken(x)' => WasTaken(x) \/ InInbox(x)

LEMMA TurnsOnlyTake ==
    ASSUME TInv, Next
    PROVE  TurnsPass /\ nextId' \in {nextId, nextId + 1}
  <1>1. ASSUME NEW c \in Calls, User(c)
        PROVE  UNCHANGED taken /\ nextId' \in {nextId, nextId + 1}
    BY <1>1 DEF User, SendWhilePaused, SendBound, SendUnbound, ResumeBound, ResumeUnbound,
       Stop, QueueItem, PromptDirectly, AskForSession, DispatchNext, base, record
  <1>2. ASSUME NEW c \in Calls, Handler(c)
        PROVE  UNCHANGED taken /\ nextId' \in {nextId, nextId + 1}
    BY <1>2 DEF Handler, SendCreated, SendAnswered, ResumeCreated, ResumeAccepted,
       ResumeUnacknowledged, StopCancelled, StopFolds, StopRemoved, QueueItemAnswered,
       Rejected, PromptDirectly, DispatchNext, base, record
  <1>3. ASSUME NEW r \in host, Host(r)
        PROVE  UNCHANGED <<taken, nextId>>
    BY <1>3 DEF Host, HostCreates, HostAdmits, HostDoesNotAcknowledge, HostCancels,
       HostReports, HostRemoves, HostEdits, HostRefuses, base
  <1>4. (\E c \in Calls : TimedOut(c)) \/ Crash \/ (\E k \in DOMAIN items : EditItem(k) \/ RemoveItem(k))
           => UNCHANGED <<taken, nextId>>
    BY DEF TimedOut, Crash, EditItem, RemoveItem, base
  <1>5. ASSUME NEW s \in Sessions, TurnTakes(s)
        PROVE  TurnsPass /\ UNCHANGED nextId
    <2>1. /\ inbox[s] \in Seq(OccurrenceT) /\ inbox[s] # <<>> /\ UNCHANGED nextId
          /\ taken' = taken \cup {Head(inbox[s])}
      BY <1>5 DEF TInv, IInv, TypeInv, TurnTakes
    <2>2. Head(inbox[s]) = inbox[s][1] /\ 1 \in DOMAIN inbox[s]
      BY <2>1, TailFacts
    <2>3. QED
      BY <2>1, <2>2 DEF TurnsPass, WasTaken, InInbox
  <1>6. UNCHANGED taken => TurnsPass
    BY DEF TurnsPass, WasTaken
  <1>7. QED
    BY <1>1, <1>2, <1>3, <1>4, <1>5, <1>6 DEF Next

\* A step of one input that is not given up.
LEMMA InputMoves ==
    ASSUME TInv, TInv', TextsPass, TurnsPass, NEW x \in Alive, x \in Alive'
    PROVE  Life(x)' = Life(x) \/ Lives!Moves(Life(x), Life(x)')
  <1>1. PICK t : x # 0 /\ Says(x, t)
    BY AliveSays DEF AliveAre
  <1>2. PICK u : Says(x, u)'
    BY AliveWillSay DEF AliveAre
  <1>3. Life(x) = LifeWith(x, t) /\ Life(x)' = LifeWith(x, u)'
    BY <1>1, <1>2, LifeIs, LifeWillBe DEF LivesAre
  <1>4. Pend(items, x) => ~ WasTaken(x) /\ ~ InInbox(x)
    BY <1>1 DEF TInv, IInv, OneCopy, Apart
  <1>5. x # nextId
    <2>1. ~ Prompted(nextId) /\ ~ InInbox(nextId) /\ ~ WasTaken(nextId)
      BY TagsAreMinted DEF TInv
    <2>2. nextId \in Nat /\ \A k \in DOMAIN items : items[k].id < nextId
      BY DEF TInv, IInv, TypeInv, ListOK
    <2>3. QED
      BY <1>1, <2>1, <2>2 DEF Says, CopyText, HostText, BoxText, TurnText, TextOf, Prompted,
         InInbox, WasTaken
  <1>6. ~ (Pend(items, x) /\ Pend(items', x)) => u = t
    <2>1. ~ (Pend(items, x) /\ Pend(items', x)) => Says(x, u)
      BY <1>1, <1>2, <1>5 DEF TextsPass, Says
    <2>2. QED
      BY <1>1, <2>1, OneText
  <1>7. /\ WasTaken(x) => WasTaken(x)'
        /\ WasTaken(x)' => WasTaken(x) \/ InInbox(x)
    BY DEF TurnsPass
  <1>8. LifeWith(x, u)' = [runs |-> IF WasTaken(x)' THEN 1 ELSE 0,
                           text |-> {u},
                           at |-> IF WasTaken(x)' THEN "ran"
                                  ELSE IF Pend(items', x) THEN "kept" ELSE "sent"]
    BY DEF LifeWith, Pend
  <1>9. CASE WasTaken(x)
    BY <1>3, <1>4, <1>6, <1>7, <1>8, <1>9 DEF LifeWith
  <1>10. CASE ~ WasTaken(x) /\ Pend(items, x)
    BY <1>3, <1>4, <1>6, <1>7, <1>8, <1>10 DEF LifeWith, Lives!Moves, Lives!Edited, Lives!Sent
  <1>11. CASE ~ WasTaken(x) /\ ~ Pend(items, x)
    <2>1. Life(x) = [runs |-> 0, text |-> {t}, at |-> "sent"] /\ u = t
      BY <1>3, <1>6, <1>11 DEF LifeWith
    <2>2. CASE WasTaken(x)'
      <3>1. Life(x)' = [runs |-> 1, text |-> {t}, at |-> "ran"]
        BY <1>3, <1>8, <2>1, <2>2
      <3>2. Life(x).at = "sent" /\ Life(x).text = {t} /\ Life(x).runs + 1 = 1
        BY <2>1
      <3>3. QED
        BY <3>1, <3>2 DEF Lives!Moves, Lives!Run
    <2>3. CASE ~ WasTaken(x)'
      BY <1>3, <1>8, <2>1, <2>3 DEF Lives!Moves, Lives!TakenBack
    <2>4. QED
      BY <2>2, <2>3
  <1>12. QED
    BY <1>9, <1>10, <1>11

\* An input that was nowhere before a step is a new one, and kept.
LEMMA InputBegins ==
    ASSUME TInv, TInv', TextsPass, TurnsPass, nextId' \in {nextId, nextId + 1},
           NEW x \in Alive', x \notin Alive
    PROVE  x = nextId /\ nextId' = nextId + 1 /\ Lives!Begins(Life(x)')
  <1>1. PICK u : x # 0 /\ Says(x, u)'
    BY AliveWillSay DEF AliveAre
  <1>2. \A t : ~ Says(x, t)
    BY <1>1, AliveSays DEF AliveAre
  <1>3. ~ Pend(items, x)
    BY <1>2 DEF Pend, Says, TextOf
  <1>4. x = nextId /\ Pend(items', x)
    BY <1>1, <1>2, <1>3 DEF TextsPass, Says
  <1>5. nextId' = nextId + 1
    <2>1. /\ nextId \in Nat /\ nextId' \in Nat
          /\ \A k \in DOMAIN items' : items'[k].id < nextId'
      BY DEF TInv, IInv, TypeInv, ListOK
    <2>2. QED
      BY <1>4, <2>1 DEF Pend
  <1>6. ~ WasTaken(x)'
    BY <1>1, <1>4 DEF TInv, IInv, OneCopy, Apart, Pend
  <1>7. Life(x)' = LifeWith(x, u)'
    BY <1>1, LifeWillBe DEF LivesAre
  <1>8. QED
    BY <1>4, <1>5, <1>6, <1>7 DEF LifeWith, Lives!Begins, Pend

\* Each kept input lives as KeptInputs says, whatever stops, resumes, lost answers and
\* crashes come together, unless the queue panel edits the queued occurrence.
THEOREM InputsLive ==
    ASSUME "edit" \notin Panel
    PROVE  Spec => ImplementsKeptInputs
  <1>1. Init => Lives!Init
    <2> SUFFICES ASSUME Init PROVE Lives!Init
      OBVIOUS
    <2>1. \A x, t : ~ Says(x, t)
      BY DEF Init, Says, CopyText, HostText, BoxText, TurnText, TextOf
    <2>2. Alive = {} /\ nextId = 1
      BY <2>1, AliveSays DEF Init, AliveAre
    <2>3. QED
      BY <2>2 DEF Lives!Init, LifeOfEach
  <1>2. TInv /\ TInv' /\ [Next]_vars => [Lives!Next]_<<nextId, LifeOfEach>>
    <2> SUFFICES ASSUME TInv, TInv', [Next]_vars
                 PROVE  [Lives!Next]_<<nextId, LifeOfEach>>
      OBVIOUS
    <2>1. CASE UNCHANGED vars
      <3>1. UNCHANGED <<items, host, inbox, taken, nextId>>
        BY <2>1 DEF vars
      <3>2. Carried' = Carried
        BY <3>1 DEF Carried
      <3>3. Alive' = Alive /\ \A x : Life(x)' = Life(x)
        BY <3>1, <3>2 DEF Alive, Life, Taken
      <3>4. QED
        BY <3>1, <3>3 DEF LifeOfEach
    <2>2. CASE Next
      <3>1. TextsPass
        BY <2>2, StepKeepsTexts
      <3>2. TurnsPass /\ nextId' \in {nextId, nextId + 1}
        BY <2>2, TurnsOnlyTake
      <3>3. \A x \in Alive' : x \in Alive =>
               Life(x)' = Life(x) \/ Lives!Moves(Life(x), Life(x)')
        BY <3>1, <3>2, InputMoves
      <3>4. \A x \in Alive' : x \notin Alive =>
               x = nextId /\ nextId' = nextId + 1 /\ Lives!Begins(Life(x)')
        BY <3>1, <3>2, InputBegins
      <3>5. \A x \in Alive \ Alive' : Life(x).at # "ran"
        <4> SUFFICES ASSUME NEW x \in Alive, x \notin Alive', Life(x).at = "ran"
                     PROVE  FALSE
          OBVIOUS
        <4>1. PICK t : x # 0 /\ Says(x, t)
          BY AliveSays DEF AliveAre
        <4>2. WasTaken(x)
          BY <4>1, LifeIs DEF LivesAre, LifeWith
        <4>3. WasTaken(x)'
          BY <3>2, <4>2 DEF TurnsPass
        <4>4. \E u : Says(x, u)'
          BY <4>3 DEF WasTaken, Says, CopyText, TurnText
        <4>5. QED
          BY <4>1, <4>4, AliveWillSay DEF AliveAre
      <3>6. Lives!Next
        BY <3>2, <3>3, <3>4, <3>5 DEF Lives!Next, LifeOfEach
      <3>7. QED
        BY <3>6
    <2>3. QED
      BY <2>1, <2>2
  <1>3. QED
    BY <1>1, <1>2, TextsHold, PTL DEF Spec, ImplementsKeptInputs, Lives!Spec

-----------------------------------------------------------------------------
(* Where an input of the list stands, and what the list's operations do to it. *)

\* The list has this input, with this request and in this state.
Is(its, x, p, st) == \E k \in DOMAIN its : its[k].id = x /\ its[k].req = p /\ its[k].state = st

LEMMA MarkIs ==
    ASSUME NEW n \in Nat, NEW its, ListOK(its, n), NEW x, NEW q
    PROVE  \A y, p, st : Is(MarkSubmitted(its, x, q), y, p, st) =>
              IF y = x THEN st = "submitted" /\ p = q ELSE Is(its, y, p, st)
  <1> DEFINE t == MarkSubmitted(its, x, q)
  <1>1. \A k \in DOMAIN its : its[k] \in ItemT
    BY DEF ListOK
  <1>2. DOMAIN t = DOMAIN its
    BY DEF MarkSubmitted, WithItem
  <1>3. \A k \in DOMAIN its :
           IF its[k].id = x THEN t[k].id = x /\ t[k].state = "submitted" /\ t[k].req = q
                            ELSE t[k] = its[k]
    BY <1>1 DEF MarkSubmitted, WithItem, ItemT
  <1> HIDE DEF t
  <1>4. QED
    BY <1>2, <1>3 DEF Is, t

LEMMA BeginIs ==
    ASSUME NEW n \in Nat, NEW its, ListOK(its, n), NEW k \in DOMAIN its,
           its[k].state = "pending"
    PROVE  \A y, p, st : Is(BeginDispatch(its, k), y, p, st) =>
              IF y = its[k].id THEN st = "dispatching" /\ Is(its, y, p, "pending")
                               ELSE Is(its, y, p, st)
  <1> DEFINE t == BeginDispatch(its, k)
  <1>1. \A j \in DOMAIN its : its[j] \in ItemT
    BY DEF ListOK
  <1>2. DOMAIN t = DOMAIN its
    BY DEF BeginDispatch
  <1>3. /\ t[k].id = its[k].id /\ t[k].state = "dispatching" /\ t[k].req = its[k].req
        /\ \A j \in DOMAIN its : j # k => t[j] = its[j]
    BY <1>1 DEF BeginDispatch, ItemT
  <1> HIDE DEF t
  <1>4. \A j \in DOMAIN its : its[j].id = its[k].id => j = k
    BY DEF ListOK, UniqueIds
  <1>5. QED
    BY <1>2, <1>3, <1>4 DEF Is, t

LEMMA BackIs ==
    ASSUME NEW n \in Nat, NEW its, ListOK(its, n), NEW x
    PROVE  /\ \A y, p, st : Is(RevertDispatch(its, x), y, p, st) =>
                 \/ Is(its, y, p, st)
                 \/ y = x /\ st = "pending" /\ ItemTag(its, p, y)
           /\ \A y, p, st : Is(ReturnToPending(its, x), y, p, st) =>
                 IF y = x THEN st = "pending" /\ ItemTag(its, p, y) ELSE Is(its, y, p, st)
  <1> DEFINE t == RevertDispatch(its, x)
             u == ReturnToPending(its, x)
  <1>1. \A k \in DOMAIN its : its[k] \in ItemT
    BY DEF ListOK
  <1>2. DOMAIN t = DOMAIN its /\ DOMAIN u = DOMAIN its
    BY DEF RevertDispatch, ReturnToPending
  <1>3. \A k \in DOMAIN its :
           \/ t[k] = its[k]
           \/ /\ its[k].id = x /\ t[k].id = x /\ t[k].state = "pending"
              /\ t[k].req = its[k].req
    BY <1>1 DEF RevertDispatch, ItemT
  <1>4. \A k \in DOMAIN its :
           IF its[k].id = x
           THEN u[k].id = x /\ u[k].state = "pending" /\ u[k].req = its[k].req
           ELSE u[k] = its[k]
    BY <1>1 DEF ReturnToPending, ItemT
  <1> HIDE DEF t, u
  <1>5. QED
    BY <1>2, <1>3, <1>4 DEF Is, ItemTag, t, u

LEMMA FoldIs ==
    ASSUME NEW n \in Nat, NEW its, ListOK(its, n), NEW queued
    PROVE  \A y, p, st : Is(FoldQueue(its, queued), y, p, st) =>
              \/ Is(its, y, p, st)
              \/ st = "consumed" /\ Is(its, y, p, "submitted") /\ p \notin queued
  <1> DEFINE t == FoldQueue(its, queued)
  <1>1. \A k \in DOMAIN its : its[k] \in ItemT
    BY DEF ListOK
  <1>2. DOMAIN t = DOMAIN its
    BY DEF FoldQueue
  <1>3. \A k \in DOMAIN its :
           \/ t[k] = its[k]
           \/ /\ t[k].id = its[k].id /\ t[k].req = its[k].req /\ t[k].state = "consumed"
              /\ its[k].state = "submitted" /\ its[k].req \notin queued
    BY <1>1 DEF FoldQueue, ItemT
  <1> HIDE DEF t
  <1>4. QED
    BY <1>2, <1>3 DEF Is, t

LEMMA EnqueueIs ==
    ASSUME NEW n \in Nat \ {0}, NEW its, ListOK(its, n)
    PROVE  \A y, p, st : Is(Enqueued(its, n), y, p, st) =>
              \/ Is(its, y, p, st)
              \/ y = n /\ p = 0 /\ st = "pending"
  <1> DEFINE new == [id |-> n, state |-> "pending", text |-> 0, req |-> 0]
             all == Append(its, new)
             t == Enqueued(its, n)
  <1>1. its \in Seq(ItemT) /\ Len(its) \in Nat /\ DOMAIN its = 1 .. Len(its)
    BY DEF ListOK
  <1>2. new \in ItemT
    BY BoundsAreNat DEF ItemT, States
  <1>3. /\ all \in Seq(ItemT) /\ Len(all) = Len(its) + 1
        /\ \A k \in 1 .. Len(its) : all[k] = its[k]
        /\ all[Len(its) + 1] = new
    BY <1>1, <1>2, AppendFacts
  <1>4. t = Tail(all) \/ t = all
    BY DEF Enqueued
  <1>5. new.id = n /\ new.req = 0 /\ new.state = "pending"
    OBVIOUS
  <1> HIDE DEF all, t, new
  <1>6. \A k \in DOMAIN t : \E j \in DOMAIN all : t[k] = all[j]
    <2>1. all # <<>> /\ DOMAIN all = 1 .. Len(all)
      BY <1>1, <1>3
    <2>2. \A k \in DOMAIN Tail(all) : Tail(all)[k] = all[k + 1] /\ k + 1 \in DOMAIN all
      BY <1>3, <2>1, TailFacts
    <2>3. QED
      BY <1>4, <2>2
  <1>7. \A j \in DOMAIN all : all[j] = new \/ \E k \in DOMAIN its : all[j] = its[k]
    <2>1. DOMAIN all = 1 .. Len(its) + 1
      BY <1>1, <1>3
    <2>2. QED
      BY <1>1, <1>3, <2>1
  <1>8. QED
    BY <1>5, <1>6, <1>7 DEF Is, t

LEMMA EditIs ==
    ASSUME NEW n \in Nat, NEW its, ListOK(its, n), NEW k \in DOMAIN its
    PROVE  /\ \A y, p, st : Is([its EXCEPT ![k].text = @ + 1], y, p, st) => Is(its, y, p, st)
           /\ \A y, p, st : Is(Without(its, k), y, p, st) => Is(its, y, p, st)
  <1> DEFINE t == [its EXCEPT ![k].text = @ + 1]
             u == Without(its, k)
  <1>1. its \in Seq(ItemT) /\ \A j \in DOMAIN its : its[j] \in ItemT
    BY DEF ListOK
  <1>2. DOMAIN t = DOMAIN its
    OBVIOUS
  <1>3. \A j \in DOMAIN its : t[j].id = its[j].id /\ t[j].req = its[j].req /\ t[j].state = its[j].state
    BY <1>1 DEF ItemT
  <1>4. \A j \in DOMAIN u : \E m \in DOMAIN its : u[j] = its[m]
    <2>1. DOMAIN u = 1 .. Len(its) - 1
      BY DEF Without
    <2>2. \A j \in 1 .. Len(its) - 1 : Over(k, j) \in DOMAIN its /\ u[j] = its[Over(k, j)]
      BY <1>1, WithoutFacts
    <2>3. QED
      BY <2>1, <2>2
  <1> HIDE DEF t, u
  <1>5. QED
    BY <1>2, <1>3, <1>4 DEF Is, t, u
-----------------------------------------------------------------------------
(* What a step of the main process does with the answer it takes.            *)

Gets(c, a) == wire # <<>> /\ Head(wire).call = c /\ Answer = a /\ wire' = Tail(wire)

\* The list is in the order in which its inputs were written.
IdsGrow(its) == \A i, j \in DOMAIN its : i < j => its[i].id < its[j].id

\* A call about a kept input is a prompt of resume or a withdrawal of stop.
CallFits(cl) ==
    /\ cl.at \in {"cancel", "control"} => cl.op = "stop" /\ cl.item = 0 /\ cl.todo = {}
    /\ cl.op = "queue" => cl.at \in {"edit", "remove"} /\ cl.item = 0 /\ cl.todo = {}
    /\ cl.item # 0 => \/ cl.op = "resume" /\ cl.at = "prompt"
                      \/ cl.op = "stop" /\ cl.at = "remove"
    /\ cl.todo # {} => cl.at = "remove" /\ cl.item # 0
    /\ cl.at = "prompt" => cl.req # 0
    /\ cl.at = "create" => cl.op # "stop"

\* Sessions are those the base made.
Made ==
    /\ \A s \in Sessions : inbox[s] # <<>> => s \in created
    /\ \A r \in host : r.kind \in {"prompt", "control", "remove", "edit"} => r.session \in created
    /\ \A c \in Calls : NamesSession(call[c]) => call[c].session \in created
    /\ \A c \in Calls : CallFits(call[c])

\* The inputs that a stop withdraws next.
Draws(c, todo) ==
    \/ Gets(c, "reported") /\ todo = Ours(items, Value)
    \/ Gets(c, "removed") /\ call[c].op = "stop" /\ todo = call[c].todo

\* The first of them, and the rest.
FirstOf(todo, new, q) == \E i \in todo :
    /\ \A j \in todo : i.id <= j.id
    /\ q.req = i.req /\ q.item = i.id /\ new.todo = todo \ {i}

\* The call a step makes, and the handler's place after it.
CallMade(c, new, q) ==
    /\ q.call = c /\ q.kind = new.at /\ q.item = new.item
    /\ q.kind \in {"prompt", "control", "remove", "edit"} => q.session \in created
    /\ q.kind = "create" => binding = None /\ call[c].at = "idle"
    /\ q.kind = "prompt" =>
          /\ q.req = nextId /\ new.req = nextId
          /\ q.item # 0 => Pend(items, q.item)
          /\ q.item # 0 /\ IdsGrow(items) => \A x : Pend(items', x) => q.item < x
    /\ q.kind = "remove" => \/ /\ "remove" \in Panel /\ q.item = 0 /\ new.todo = {}
                               /\ call[c].at = "idle"
                            \/ \E todo : Draws(c, todo) /\ FirstOf(todo, new, q)

\* What becomes of the inputs of the list.
Turns(c, x, p, st) ==
    \/ /\ Is(items, x, p, st)
       /\ ~ (x = call[c].item /\ (Gets(c, "accepted") \/ Gets(c, "removed")))
    \/ Gets(c, "accepted") /\ x = call[c].item /\ p = call[c].req /\ st = "submitted"
    \/ Is(items, x, p, "pending") /\ st = "dispatching"
    \/ Returning(c) /\ x = call[c].item /\ st = "pending" /\ ItemTag(items, p, x)
    \/ Gets(c, "reported") /\ st = "consumed" /\ Is(items, x, p, "submitted") /\ p \notin Value

Advances(c, new) ==
    /\ Frees(c) /\ UNCHANGED base
    /\ call' = [call EXCEPT ![c] = new]
    /\ CallFits(new)
    /\ NamesSession(new) => new.session \in created
    /\ \/ new.at = "idle" /\ host' = host
       \/ \E q \in RequestT : host' = host \cup {q} /\ CallMade(c, new, q)
    /\ Gets(c, "removed") /\ call[c].todo # {} => new.at = "remove"
    /\ IF Gets(c, "created") THEN binding' = Value ELSE binding' = binding
    /\ \A x, p, st : Is(items', x, p, st) => Turns(c, x, p, st)

\* A step that sends nothing: the list or the pause flag changes.
Rests ==
    /\ UNCHANGED <<binding, call, host, wire, created, inbox, taken>>
    /\ \A x, p, st : Is(items', x, p, st) =>
          Is(items, x, p, st) \/ (x = nextId /\ p = 0 /\ st = "pending")

LEMMA Got ==
    ASSUME IInv, NEW c \in Calls, wire # <<>>, Head(wire).call = c
    PROVE  /\ Head(wire) \in MessageT /\ Head(wire) = wire[1] /\ 1 \in DOMAIN wire
           /\ call[c].at # "idle" /\ Fits(Answer, call[c].at)
           /\ Answer = "created" => Value \in created
           /\ Answer \in {"removed", "unrecognised"} => Returning(c)
  <1>1. wire \in Seq(MessageT)
    BY DEF IInv, TypeInv
  <1>2. Head(wire) \in MessageT /\ Head(wire) = wire[1] /\ 1 \in DOMAIN wire
    BY <1>1, TailFacts
  <1>3. QED
    BY <1>1, <1>2 DEF Answer, Value, Returning, IInv, SessionsKnown, Owned

\* At this point a handler gets no other answer than the one of that call.
LEMMA AnswerAt ==
    ASSUME IInv, NEW c \in Calls, NEW at, Delivers(c, at)
    PROVE  /\ Frees(c) /\ call[c].at = at /\ wire # <<>> /\ Head(wire).call = c
           /\ wire' = Tail(wire) /\ Head(wire) \in MessageT
           /\ at = "create"  <=> Gets(c, "created")
           /\ at = "prompt"  <=> Gets(c, "accepted") \/ Gets(c, "unrecognised")
           /\ at = "cancel"  <=> Gets(c, "cancelled")
           /\ at = "control" <=> Gets(c, "reported")
           /\ at = "remove"  <=> Gets(c, "removed")
           /\ at = "edit"    <=> Gets(c, "edited")
           /\ Gets(c, "unrecognised") \/ Gets(c, "removed") => Returning(c)
  <1>1. /\ wire # <<>> /\ Head(wire).call = c /\ wire' = Tail(wire) /\ call[c].at = at
        /\ Answer # "refused"
    BY DEF Delivers, Answer
  <1>2. /\ Head(wire) \in MessageT /\ Fits(Answer, at) /\ Frees(c) /\ call[c].at # "idle"
        /\ Answer \in {"removed", "unrecognised"} => Returning(c)
    BY <1>1, Got DEF Frees
  <1>3. Answer \in {"created", "accepted", "unrecognised", "cancelled", "reported",
                    "removed", "edited"}
    BY <1>1, <1>2 DEF MessageT, Answer
  <1>4. QED
    BY <1>1, <1>2, <1>3 DEF Gets, Fits

LEMMA StartFacts ==
    ASSUME IInv, NEW c \in Calls, Start(c), wire' = wire
    PROVE  Frees(c) /\ call[c].at = "idle" /\ \A a : ~ Gets(c, a)
  <1>1. call[c].at = "idle" /\ Frees(c)
    BY DEF Start, Frees
  <1>2. ~ (wire # <<>> /\ Head(wire).call = c)
    BY <1>1, Got
  <1>3. QED
    BY <1>1, <1>2 DEF Gets

\* The list is left alone, and no input of the call's is accepted or withdrawn.
LEMMA SameTurns ==
    ASSUME IInv, NEW c \in Calls, items' = items,
           call[c].item = 0 \/ ~ (Gets(c, "accepted") \/ Gets(c, "removed"))
    PROVE  \A x, p, st : Is(items', x, p, st) => Turns(c, x, p, st)
  <1>1. \A k \in DOMAIN items : items[k].id # 0
    <2>1. \A k \in DOMAIN items : items[k] \in ItemT
      BY DEF IInv, ListOK
    <2>2. QED
      BY <2>1 DEF ItemT
  <1>2. \A x, p, st : Is(items, x, p, st) => x # 0
    BY <1>1 DEF Is
  <1>3. QED
    BY <1>2 DEF Turns

LEMMA IdleFits == CallFits(Idle) /\ ~ NamesSession(Idle)
  BY IdleFacts DEF CallFits, NamesSession

\* One turn of the loop of resume.
LEMMA DispatchAdvances ==
    ASSUME IInv, NEW c \in Calls, Frees(c), NEW s \in created, NEW its, NEW isPaused,
           ListOK(its, nextId),
           \A x, p : Is(its, x, p, "pending") => Is(items, x, p, "pending"),
           IdsGrow(items) => IdsGrow(its),
           \A x, p, st : Is(its, x, p, st) => Turns(c, x, p, st),
           DispatchNext(c, s, its, isPaused), UNCHANGED base, ~ Gets(c, "removed"),
           IF Gets(c, "created") THEN binding' = Value ELSE binding' = binding
    PROVE  \E new : Advances(c, new)
  <1>1. nextId \in Nat \ {0} /\ its \in Seq(ItemT) /\ created \subseteq Sessions
    BY DEF IInv, TypeInv, ListOK
  <1>2. CASE LoopEnds(its, isPaused) /\ items' = its /\ Return(c) /\ UNCHANGED host
    <2>1. Advances(c, Idle)
      BY <1>2, IdleFits, IdleFacts DEF Advances, Return
    <2>2. QED
      BY <2>1
  <1>3. CASE ~ LoopEnds(its, isPaused)
    <2> DEFINE k   == First(InState(its, "pending"))
               q   == Request(c, "prompt", s, nextId, its[k].id, its[k].text)
               new == [Idle EXCEPT !.op = "resume", !.at = "prompt",
                          !.session = s, !.item = its[k].id, !.req = nextId]
    <2>1. /\ k \in DOMAIN its /\ its[k].state = "pending"
          /\ \A j \in DOMAIN its : its[j].state = "pending" => k <= j
      <3>1. InState(its, "pending") \in SUBSET Nat /\ InState(its, "pending") # {}
        BY <1>1, <1>3 DEF InState, LoopEnds
      <3>2. k \in InState(its, "pending") /\ \A j \in InState(its, "pending") : k <= j
        BY <3>1, LeastExists DEF First
      <3>3. QED
        BY <3>2 DEF InState
    <2>2. /\ items' = BeginDispatch(its, k) /\ host' = host \cup {q}
          /\ call' = [call EXCEPT ![c] = new] /\ nextId' = nextId + 1
      BY <1>3 DEF DispatchNext, Sends, Await
    <2> HIDE DEF k
    <2>3. its[k] \in ItemT /\ its[k].id < nextId
      BY <1>1, <2>1 DEF ListOK
    <2>4. /\ q \in RequestT
          /\ q.call = c /\ q.kind = "prompt" /\ q.session = s /\ q.req = nextId
          /\ q.item = its[k].id
      <3>1. its[k].id \in Nat /\ its[k].text \in 0 .. QueueText
        BY <2>3, BoundsAreNat DEF ItemT, QueueText
      <3>2. "prompt" \in Kinds /\ s \in Sessions \cup {None} /\ nextId \in Nat
        BY <1>1 DEF Kinds
      <3>3. q \in RequestT
        BY <3>1, <3>2 DEF Request, RequestT
      <3>4. QED
        BY <3>3 DEF Request
    <2>5. /\ new.op = "resume" /\ new.at = "prompt" /\ new.req = nextId
          /\ new.item = its[k].id /\ new.todo = {} /\ new.session = s
      BY IdleFacts DEF Idle
    <2> HIDE DEF q, new
    <2>6. Pend(items, its[k].id)
      <3>1. Is(its, its[k].id, its[k].req, "pending")
        BY <2>1 DEF Is
      <3>2. Is(items, its[k].id, its[k].req, "pending")
        BY <3>1
      <3>3. QED
        BY <3>2 DEF Is, Pend
    <2>7. \A x, p, st : Is(items', x, p, st) => Turns(c, x, p, st)
      <3>1. \A x, p, st : Is(items', x, p, st) =>
               IF x = its[k].id THEN st = "dispatching" /\ Is(its, x, p, "pending")
                                ELSE Is(its, x, p, st)
        BY <1>1, <2>1, <2>2, BeginIs
      <3>2. QED
        BY <3>1 DEF Turns
    <2>8. ASSUME IdsGrow(items), NEW x, Pend(items', x)
          PROVE  its[k].id < x
      <3>1. PICK j \in DOMAIN items' : items'[j].id = x /\ items'[j].state = "pending"
        BY <2>8 DEF Pend
      <3>2. /\ DOMAIN items' = DOMAIN its /\ items'[k].state = "dispatching"
            /\ \A m \in DOMAIN its : m # k => items'[m] = its[m]
        BY <1>1, <2>1, <2>2, <2>3 DEF BeginDispatch, ItemT
      <3>3. j \in DOMAIN its /\ j # k /\ its[j].id = x /\ its[j].state = "pending"
        BY <3>1, <3>2
      <3>4. k < j
        BY <1>1, <2>1, <3>3
      <3>5. QED
        BY <2>1, <2>8, <3>3, <3>4 DEF IdsGrow
    <2>9. CallMade(c, new, q)
      BY <2>4, <2>5, <2>6, <2>8 DEF CallMade
    <2>10. CallFits(new)
      BY <1>1, <2>5 DEF CallFits
    <2>11. Advances(c, new)
      BY <2>2, <2>4, <2>5, <2>7, <2>9, <2>10 DEF Advances
    <2>12. QED
      BY <2>11
  <1>4. QED
    BY <1>2, <1>3 DEF DispatchNext

\* What a stop withdraws, one after the other.
LEMMA DrainAdvances ==
    ASSUME IInv, Made, NEW c \in Calls, NEW at \in {"control", "remove"}, Delivers(c, at),
           NEW todo, call[c].op = "stop", DrainNext(c, todo), Draws(c, todo),
           UNCHANGED <<binding, base>>,
           \A x, p, st : Is(items', x, p, st) => Turns(c, x, p, st)
    PROVE  \E new : Advances(c, new)
  <1>1. /\ call[c] \in CallT /\ call[c].session \in created /\ created \subseteq Sessions
        /\ 0 \in 0 .. QueueText
    BY BoundsAreNat DEF IInv, TypeInv, Made, NamesSession, QueueText
  <1>2. /\ Frees(c) /\ ~ Gets(c, "created")
        /\ Gets(c, "removed") => todo = call[c].todo
    BY AnswerAt DEF Draws, Gets
  <1>3. CASE todo = {} /\ Return(c) /\ UNCHANGED host
    <2>1. Advances(c, Idle)
      BY <1>2, <1>3, IdleFits, IdleFacts DEF Advances, Return
    <2>2. QED
      BY <2>1
  <1>4. ASSUME NEW i \in todo, \A j \in todo : i.id <= j.id,
               Sends(c, "remove", call[c].session, i.req, i.id, 0),
               Await(c, [call[c] EXCEPT !.at = "remove", !.item = i.id, !.todo = todo \ {i}])
        PROVE  \E new : Advances(c, new)
    <2> DEFINE q   == Request(c, "remove", call[c].session, i.req, i.id, 0)
               new == [call[c] EXCEPT !.at = "remove", !.item = i.id, !.todo = todo \ {i}]
    <2>1. \A j \in todo : j \in ItemT
      BY <1>1 DEF CallT, IInv, ListOK, Draws, Ours, InState
    <2>2. i \in ItemT
      BY <1>4, <2>1
    <2>3. /\ q \in RequestT /\ q.call = c /\ q.kind = "remove"
          /\ q.session = call[c].session /\ q.req = i.req /\ q.item = i.id
      BY <1>1, <2>2, RequestFacts DEF Kinds, ItemT
    <2>4. /\ new.at = "remove" /\ new.item = i.id /\ new.todo = todo \ {i}
          /\ new.session = call[c].session /\ new.op = "stop" /\ new.item # 0
      BY <1>1, <2>1, <2>2 DEF CallT, Kinds, ItemT
    <2>5. host' = host \cup {q} /\ call' = [call EXCEPT ![c] = new]
      BY <1>4 DEF Sends, Await
    <2> HIDE DEF q, new
    <2>6. FirstOf(todo, new, q)
      BY <1>4, <2>3, <2>4 DEF FirstOf
    <2>7. CallMade(c, new, q)
      BY <1>1, <2>3, <2>4, <2>6 DEF CallMade
    <2>8. CallFits(new)
      BY <2>4 DEF CallFits
    <2>9. Advances(c, new)
      BY <1>1, <1>2, <2>3, <2>4, <2>5, <2>7, <2>8 DEF Advances
    <2>10. QED
      BY <2>9
  <1>5. QED
    BY <1>3, <1>4 DEF DrainNext

\* A call about no kept input.
LEMMA PlainAdvances ==
    ASSUME IInv, NEW c \in Calls, Frees(c), call[c].item = 0, call[c].todo = {},
           UNCHANGED <<items, base>>,
           IF Gets(c, "created") THEN binding' = Value ELSE binding' = binding,
           NEW new, NEW q \in RequestT, CallMade(c, new, q), CallFits(new),
           NamesSession(new) => new.session \in created,
           host' = host \cup {q}, call' = [call EXCEPT ![c] = new]
    PROVE  \E n : Advances(c, n)
  BY SameTurns DEF Advances

\* A prompt sent at once.
LEMMA DirectAdvances ==
    ASSUME IInv, NEW c \in Calls, Frees(c), call[c].item = 0, call[c].todo = {},
           NEW s \in created, PromptDirectly(c, s), UNCHANGED <<items, base>>,
           IF Gets(c, "created") THEN binding' = Value ELSE binding' = binding
    PROVE  \E n : Advances(c, n)
  <1> DEFINE q   == Request(c, "prompt", s, nextId, 0, 0)
             new == [Idle EXCEPT !.op = "send", !.at = "prompt", !.req = nextId]
  <1>1. /\ nextId \in Nat \ {0} /\ host' = host \cup {q} /\ created \subseteq Sessions
        /\ call' = [call EXCEPT ![c] = new] /\ 0 \in 0 .. QueueText
    BY BoundsAreNat DEF PromptDirectly, Sends, Await, IInv, TypeInv, QueueText
  <1>2. /\ q \in RequestT
        /\ q.call = c /\ q.kind = "prompt" /\ q.session = s /\ q.req = nextId /\ q.item = 0
    BY <1>1, RequestFacts DEF Kinds
  <1>3. /\ new.op = "send" /\ new.at = "prompt" /\ new.req = nextId
        /\ new.item = 0 /\ new.todo = {}
    BY <1>1, IdleFacts DEF Idle
  <1> HIDE DEF q, new
  <1>4. CallMade(c, new, q) /\ CallFits(new) /\ ~ NamesSession(new)
    BY <1>1, <1>2, <1>3 DEF CallMade, CallFits, NamesSession
  <1>5. QED
    BY <1>1, <1>2, <1>4, PlainAdvances

LEMMA UserMoves ==
    ASSUME IInv, Made, NEW c \in Calls, User(c)
    PROVE  Rests \/ \E new : Advances(c, new)
  <1>1. /\ nextId \in Nat \ {0} /\ ListOK(items, nextId)
        /\ binding \in created \cup {None} /\ created \subseteq Sessions
        /\ None \notin Sessions /\ 0 \in 0 .. QueueText /\ QueueText \in 0 .. QueueText
        /\ CallFits(call[c])
    BY NoneIsNoSession, BoundsAreNat DEF IInv, TypeInv, QueueText, Made
  <1>2. CASE SendWhilePaused(c)
    <2>1. /\ UNCHANGED <<binding, call, host, wire, created, inbox, taken>>
          /\ items' = Enqueued(items, nextId)
      BY <1>2 DEF SendWhilePaused, base
    <2>2. \A x, p, st : Is(items', x, p, st) =>
             Is(items, x, p, st) \/ (x = nextId /\ p = 0 /\ st = "pending")
      BY <1>1, <2>1, EnqueueIs
    <2>3. QED
      BY <2>1, <2>2 DEF Rests
  <1>3. ASSUME Start(c), wire' = wire
        PROVE  /\ Frees(c) /\ call[c].at = "idle" /\ \A a : ~ Gets(c, a)
               /\ call[c].item = 0 /\ call[c].todo = {}
    BY <1>1, <1>3, StartFacts DEF CallFits
  <1>4. CASE SendBound(c)
    BY <1>1, <1>3, <1>4, DirectAdvances DEF SendBound, record
  <1>5. ASSUME NEW op \in {"send", "resume"}, Start(c), AskForSession(c, op),
               UNCHANGED <<record, wire, base>>
        PROVE  \E new : Advances(c, new)
    <2> DEFINE new == [Idle EXCEPT !.op = op, !.at = "create"]
               q   == Request(c, "create", None, 0, 0, 0)
    <2>1. /\ new.op = op /\ new.at = "create" /\ new.item = 0 /\ new.todo = {}
      BY IdleFacts DEF Idle
    <2>2. q \in RequestT /\ q.call = c /\ q.kind = "create" /\ q.item = 0
      BY <1>1, RequestFacts DEF Kinds
    <2>3. host' = host \cup {q} /\ call' = [call EXCEPT ![c] = new] /\ binding = None
      BY <1>5 DEF AskForSession, Sends, Await
    <2> HIDE DEF q, new
    <2>4. CallMade(c, new, q) /\ CallFits(new) /\ ~ NamesSession(new)
      BY <1>3, <1>5, <2>1, <2>2, <2>3 DEF CallMade, CallFits, NamesSession
    <2>5. QED
      BY <1>3, <1>5, <2>2, <2>3, <2>4, PlainAdvances DEF record
  <1>6. CASE SendUnbound(c) \/ ResumeUnbound(c)
    BY <1>5, <1>6 DEF SendUnbound, ResumeUnbound
  <1>7. CASE ResumeBound(c)
    <2>1. Start(c) /\ wire' = wire /\ binding \in created /\ DispatchNext(c, binding, items, FALSE)
          /\ UNCHANGED <<binding, base>>
      BY <1>1, <1>7 DEF ResumeBound
    <2>2. \A x, p, st : Is(items, x, p, st) => Turns(c, x, p, st)
      BY <1>3, <2>1 DEF Turns
    <2>3. QED
      BY <1>1, <1>3, <2>1, <2>2, DispatchAdvances
  <1>8. CASE Stop(c)
    <2>1. CASE UNCHANGED <<call, host>>
      <3>1. UNCHANGED <<items, binding, call, host, wire, created, inbox, taken>>
        BY <1>8, <2>1 DEF Stop, base
      <3>2. \A x, p, st : Is(items', x, p, st) => Is(items, x, p, st)
        BY <3>1
      <3>3. QED
        BY <3>1, <3>2 DEF Rests
    <2>2. CASE /\ binding # None
               /\ Sends(c, "cancel", binding, 0, 0, 0)
               /\ Await(c, [Idle EXCEPT !.op = "stop", !.at = "cancel", !.session = binding])
      <3> DEFINE new == [Idle EXCEPT !.op = "stop", !.at = "cancel", !.session = binding]
                 q   == Request(c, "cancel", binding, 0, 0, 0)
      <3>1. /\ new.op = "stop" /\ new.at = "cancel" /\ new.item = 0
            /\ new.todo = {} /\ new.session = binding
        BY IdleFacts DEF Idle
      <3>2. q \in RequestT /\ q.call = c /\ q.kind = "cancel" /\ q.item = 0
        BY <1>1, <2>2, RequestFacts DEF Kinds
      <3>3. host' = host \cup {q} /\ call' = [call EXCEPT ![c] = new] /\ binding \in created
        BY <1>1, <2>2 DEF Sends, Await
      <3> HIDE DEF new, q
      <3>4. CallMade(c, new, q) /\ CallFits(new)
        BY <3>1, <3>2 DEF CallMade, CallFits
      <3>5. Start(c) /\ UNCHANGED <<items, binding, wire, base>>
        BY <1>8 DEF Stop
      <3>6. QED
        BY <1>3, <3>1, <3>2, <3>3, <3>4, <3>5, PlainAdvances
    <2>3. QED
      BY <1>8, <2>1, <2>2 DEF Stop
  <1>9. ASSUME NEW kind \in {"edit", "remove"}, QueueItem(c, kind)
        PROVE  \E new : Advances(c, new)
    <2> DEFINE new == [Idle EXCEPT !.op = "queue", !.at = kind]
    <2>1. new.op = "queue" /\ new.at = kind /\ new.item = 0 /\ new.todo = {}
      BY IdleFacts DEF Idle
    <2>2. PICK k \in DOMAIN inbox[binding] :
             Sends(c, kind, binding, inbox[binding][k].req, 0, QueueText)
      BY <1>9 DEF QueueItem
    <2> DEFINE q == Request(c, kind, binding, inbox[binding][k].req, 0, QueueText)
    <2>3. Start(c) /\ UNCHANGED <<record, wire, base>> /\ kind \in Panel /\ binding \in created
      BY <1>1, <1>9 DEF QueueItem
    <2>4. inbox[binding][k].req \in Nat
      <3>1. inbox[binding][k] \in OccurrenceT
        BY <1>1, <2>2, <2>3 DEF IInv, TypeInv
      <3>2. QED
        BY <3>1 DEF OccurrenceT
    <2>5. /\ q \in RequestT /\ q.call = c /\ q.kind = kind /\ q.item = 0
          /\ q.session = binding
      <3>1. kind \in Kinds /\ 0 \in Nat /\ binding \in Sessions \cup {None}
        BY <1>1 DEF Kinds
      <3> HIDE DEF new
      <3>2. QED
        BY <1>1, <2>4, <3>1, RequestFacts
    <2>6. host' = host \cup {q} /\ call' = [call EXCEPT ![c] = new]
      BY <1>9, <2>2 DEF QueueItem, Sends, Await
    <2> HIDE DEF new, q
    <2>7. CallMade(c, new, q) /\ CallFits(new) /\ ~ NamesSession(new)
      BY <1>3, <2>1, <2>3, <2>5 DEF CallMade, CallFits, NamesSession
    <2>8. QED
      BY <1>3, <2>3, <2>5, <2>6, <2>7, PlainAdvances DEF record
  <1>10. QED
    BY <1>2, <1>4, <1>6, <1>7, <1>8, <1>9 DEF User

LEMMA MarkGrows ==
    ASSUME NEW its, NEW x, NEW q, its \in Seq(ItemT), IdsGrow(its)
    PROVE  IdsGrow(MarkSubmitted(its, x, q))
  <1> DEFINE t == MarkSubmitted(its, x, q)
  <1>1. DOMAIN t = DOMAIN its /\ \A k \in DOMAIN its : t[k].id = its[k].id
    BY DEF MarkSubmitted, WithItem, ItemT
  <1> HIDE DEF t
  <1>2. QED
    BY <1>1 DEF IdsGrow, t

LEMMA HandlerMoves ==
    ASSUME IInv, Made, NEW c \in Calls, Handler(c)
    PROVE  \E new : Advances(c, new)
  <1>1. /\ nextId \in Nat \ {0} /\ ListOK(items, nextId) /\ items \in Seq(ItemT)
        /\ binding \in created \cup {None} /\ created \subseteq Sessions
        /\ call[c] \in CallT /\ call[c].item \in Nat /\ call[c].req \in Nat
        /\ call[c].req < nextId /\ CallFits(call[c])
    BY DEF IInv, TypeInv, Minted, CallT, Made, ListOK
  <1>2. ASSUME NEW at, Delivers(c, at), Return(c), UNCHANGED <<host, base, binding>>,
               at # "create", call[c].todo = {},
               \A x, p, st : Is(items', x, p, st) => Turns(c, x, p, st)
        PROVE  \E new : Advances(c, new)
    <2>1. Frees(c) /\ ~ Gets(c, "created")
      BY <1>2, AnswerAt
    <2>2. Advances(c, Idle)
      BY <1>2, <2>1, IdleFits, IdleFacts DEF Advances, Return
    <2>3. QED
      BY <2>2
  <1>3. CASE SendCreated(c)
    <2>1. Delivers(c, "create") /\ PromptDirectly(c, Value) /\ binding' = Value
          /\ UNCHANGED <<items, base>>
      BY <1>3 DEF SendCreated
    <2>2. Gets(c, "created") /\ Frees(c) /\ call[c].at = "create"
      BY <2>1, AnswerAt
    <2>3. Value \in created /\ call[c].item = 0 /\ call[c].todo = {}
      BY <1>1, <2>2, Got DEF Gets, CallFits
    <2>4. QED
      BY <2>1, <2>2, <2>3, DirectAdvances
  <1>4. CASE SendAnswered(c)
    <2>1. Delivers(c, "prompt") /\ Return(c) /\ UNCHANGED <<items, host, base, binding>>
          /\ call[c].item = 0 /\ call[c].todo = {}
      BY <1>1, <1>4 DEF SendAnswered, record, CallFits
    <2>2. QED
      BY <1>2, <2>1, SameTurns
  <1>5. CASE ResumeCreated(c)
    <2>1. Delivers(c, "create") /\ DispatchNext(c, Value, items, FALSE) /\ binding' = Value
          /\ UNCHANGED base
      BY <1>5 DEF ResumeCreated
    <2>2. Gets(c, "created") /\ Frees(c) /\ call[c].at = "create"
          /\ ~ Gets(c, "accepted") /\ ~ Gets(c, "removed")
      BY <2>1, AnswerAt
    <2>3. Value \in created
      BY <2>2, Got DEF Gets
    <2>4. \A x, p, st : Is(items, x, p, st) => Turns(c, x, p, st)
      BY <2>2 DEF Turns
    <2>5. QED
      BY <1>1, <2>1, <2>2, <2>3, <2>4, DispatchAdvances
  <1>6. CASE ResumeAccepted(c)
    <2> DEFINE its == MarkSubmitted(items, call[c].item, call[c].req)
    <2>1. /\ Delivers(c, "prompt") /\ DispatchNext(c, call[c].session, its, paused)
          /\ Answer = "accepted" /\ UNCHANGED <<binding, base>> /\ call[c].op = "resume"
      BY <1>6 DEF ResumeAccepted
    <2>2. /\ Gets(c, "accepted") /\ Frees(c) /\ call[c].at = "prompt"
          /\ ~ Gets(c, "created") /\ ~ Gets(c, "removed")
      BY <2>1, AnswerAt DEF Gets
    <2>3. call[c].session \in created
      BY <2>1, <2>2 DEF Made, NamesSession
    <2>4. ListOK(its, nextId)
      BY <1>1, MarkFacts
    <2>5. /\ \A x, p, st : Is(its, x, p, st) => Turns(c, x, p, st)
          /\ \A x, p : Is(its, x, p, "pending") => Is(items, x, p, "pending")
      <3>1. \A x, p, st : Is(its, x, p, st) =>
               IF x = call[c].item THEN st = "submitted" /\ p = call[c].req
                                   ELSE Is(items, x, p, st)
        BY <1>1, MarkIs
      <3>2. QED
        BY <2>2, <3>1 DEF Turns
    <2>6. IdsGrow(items) => IdsGrow(its)
      BY <1>1, MarkGrows
    <2> HIDE DEF its
    <2>7. QED
      BY <1>1, <2>1, <2>2, <2>3, <2>4, <2>5, <2>6, DispatchAdvances
  <1>7. CASE ResumeUnacknowledged(c)
    <2>1. /\ Delivers(c, "prompt") /\ Return(c) /\ UNCHANGED <<host, base, binding>>
          /\ Answer = "unrecognised" /\ items' = RevertDispatch(items, call[c].item)
      BY <1>7 DEF ResumeUnacknowledged
    <2>2. /\ Returning(c) /\ ~ Gets(c, "accepted") /\ ~ Gets(c, "removed")
          /\ call[c].at = "prompt"
      BY <2>1, AnswerAt DEF Gets
    <2>3. \A x, p, st : Is(items', x, p, st) =>
             \/ Is(items, x, p, st)
             \/ x = call[c].item /\ st = "pending" /\ ItemTag(items, p, x)
      BY <1>1, <2>1, BackIs
    <2>4. call[c].todo = {}
      BY <1>1, <2>2 DEF CallFits
    <2>5. QED
      BY <1>2, <2>1, <2>2, <2>3, <2>4 DEF Turns
  <1>8. CASE StopCancelled(c)
    <2> DEFINE new == [call[c] EXCEPT !.at = "control"]
               q   == Request(c, "control", call[c].session, 0, 0, 0)
    <2>1. Delivers(c, "cancel") /\ UNCHANGED <<items, binding, base>>
      BY <1>8 DEF StopCancelled, record
    <2>2. Frees(c) /\ call[c].at = "cancel" /\ ~ Gets(c, "created")
      BY <2>1, AnswerAt
    <2>3. /\ call[c].session \in created /\ call[c].op = "stop" /\ call[c].item = 0
          /\ call[c].todo = {}
      BY <1>1, <2>2 DEF Made, NamesSession, CallFits
    <2>4. /\ new.at = "control" /\ new.item = 0 /\ new.todo = {} /\ new.op = "stop"
          /\ new.session = call[c].session
      BY <1>1, <2>3 DEF CallT
    <2>5. q \in RequestT /\ q.call = c /\ q.kind = "control" /\ q.item = 0
          /\ q.session = call[c].session
      <3>1. /\ "control" \in Kinds /\ 0 \in 0 .. QueueText
            /\ call[c].session \in Sessions \cup {None}
        BY <1>1, BoundsAreNat DEF Kinds, QueueText, CallT
      <3> HIDE DEF new
      <3>2. QED
        BY <3>1, RequestFacts
    <2>6. host' = host \cup {q} /\ call' = [call EXCEPT ![c] = new]
      BY <1>8 DEF StopCancelled, Sends, Await
    <2> HIDE DEF new, q
    <2>7. CallMade(c, new, q) /\ CallFits(new) /\ NamesSession(new)
      BY <2>3, <2>4, <2>5 DEF CallMade, CallFits, NamesSession
    <2>8. QED
      BY <2>1, <2>2, <2>3, <2>4, <2>5, <2>6, <2>7, PlainAdvances
  <1>9. CASE StopFolds(c)
    <2>1. /\ Delivers(c, "control") /\ DrainNext(c, Ours(items, Value))
          /\ items' = FoldQueue(items, Value) /\ UNCHANGED <<binding, base>>
      BY <1>9 DEF StopFolds
    <2>2. /\ Gets(c, "reported") /\ call[c].at = "control"
          /\ ~ Gets(c, "accepted") /\ ~ Gets(c, "removed")
      BY <2>1, AnswerAt
    <2>3. call[c].op = "stop" /\ Draws(c, Ours(items, Value))
      BY <1>1, <2>2 DEF CallFits, Draws
    <2>4. \A x, p, st : Is(items', x, p, st) => Turns(c, x, p, st)
      BY <1>1, <2>1, <2>2, FoldIs DEF Turns
    <2>5. QED
      BY <2>1, <2>3, <2>4, DrainAdvances
  <1>10. CASE StopRemoved(c)
    <2>1. /\ Delivers(c, "remove") /\ DrainNext(c, call[c].todo) /\ call[c].op = "stop"
          /\ items' = ReturnToPending(items, call[c].item) /\ UNCHANGED <<binding, base>>
      BY <1>10 DEF StopRemoved
    <2>2. Gets(c, "removed") /\ Returning(c)
      BY <2>1, AnswerAt
    <2>3. Draws(c, call[c].todo)
      BY <2>1, <2>2 DEF Draws
    <2>4. \A x, p, st : Is(items', x, p, st) =>
             IF x = call[c].item THEN st = "pending" /\ ItemTag(items, p, x)
                                 ELSE Is(items, x, p, st)
      BY <1>1, <2>1, BackIs
    <2>5. \A x, p, st : Is(items', x, p, st) => Turns(c, x, p, st)
      BY <2>2, <2>4 DEF Turns
    <2>6. QED
      BY <2>1, <2>3, <2>5, DrainAdvances
  <1>11. CASE QueueItemAnswered(c)
    <2>1. /\ Delivers(c, call[c].at) /\ Return(c) /\ UNCHANGED <<items, host, base, binding>>
          /\ call[c].item = 0 /\ call[c].todo = {} /\ call[c].at # "create"
      BY <1>1, <1>11 DEF QueueItemAnswered, record, CallFits
    <2>2. QED
      BY <1>2, <2>1, SameTurns
  <1>12. CASE Rejected(c)
    <2>1. Return(c) /\ UNCHANGED <<items, host, base, binding>> /\ Frees(c) /\ Answer = "refused"
      BY <1>12 DEF Rejected, record, Frees
    <2>2. ~ Gets(c, "created") /\ ~ Gets(c, "accepted") /\ ~ Gets(c, "removed")
      BY <2>1 DEF Gets
    <2>3. \A x, p, st : Is(items', x, p, st) => Turns(c, x, p, st)
      BY <2>1, <2>2, SameTurns
    <2>4. Advances(c, Idle)
      BY <2>1, <2>2, <2>3, IdleFits, IdleFacts DEF Advances, Return
    <2>5. QED
      BY <2>4
  <1>13. QED
    BY <1>3, <1>4, <1>5, <1>6, <1>7, <1>8, <1>9, <1>10, <1>11, <1>12 DEF Handler

LEMMA ListRests ==
    ASSUME IInv, NEW k \in DOMAIN items, EditItem(k) \/ RemoveItem(k)
    PROVE  Rests
  <1>1. nextId \in Nat /\ ListOK(items, nextId)
    BY DEF IInv, TypeInv
  <1>2. \A x, p, st : Is(items', x, p, st) => Is(items, x, p, st)
    BY <1>1, EditIs DEF EditItem, RemoveItem
  <1>3. UNCHANGED <<binding, call, host, wire, created, inbox, taken>>
    BY DEF EditItem, RemoveItem, base
  <1>4. QED
    BY <1>2, <1>3 DEF Rests

-----------------------------------------------------------------------------
(* What a step of the base does to the queues.                               *)

\* An occurrence of y stands before one of x.
AheadOf(y, x) == \E s \in Sessions : \E q, p \in DOMAIN inbox[s] :
    q < p /\ inbox[s][q].item = y /\ inbox[s][p].item = x

\* The requests queued in a session.
AllQueued(s) == {inbox[s][k].req : k \in DOMAIN inbox[s]}

Acts(r, a, v) ==
    /\ UNCHANGED <<items, binding, call, nextId, taken>>
    /\ a \in Answers /\ v \in Sessions \cup {None} \cup SUBSET Nat
    /\ Reports(r, a, v) /\ Fits(a, r.kind)
    /\ IF a = "created" THEN v \in Sessions \ created /\ created' = created \cup {v}
                        ELSE created' = created
    /\ a = "reported" /\ "lag" \notin Faults => v = AllQueued(r.session)
    /\ a = "refused" /\ "refused" \notin Faults => r.kind \in {"remove", "edit"} /\ ~ IsQueued(r)
    /\ \A q, x : BoxTag(q, x)' => BoxTag(q, x) \/ (a = "accepted" /\ q = r.req /\ x = r.item)
    /\ \A q, x : BoxTag(q, x) => BoxTag(q, x)' \/ (a = "removed" /\ q = r.req)
    /\ a = "accepted" => BoxTag(r.req, r.item)'
    /\ \A y, x : AheadOf(y, x)' => \/ AheadOf(y, x)
                                   \/ a = "accepted" /\ x = r.item /\ InInbox(y)
    /\ \A s \in Sessions : inbox'[s] # <<>> =>
          inbox[s] # <<>> \/ (r.kind = "prompt" /\ s = r.session)

\* The queues stay as they are, but for texts.
LEMMA SamePlaces ==
    ASSUME \A s \in Sessions : /\ DOMAIN inbox'[s] = DOMAIN inbox[s]
                               /\ \A k \in DOMAIN inbox[s] :
                                     /\ inbox'[s][k].req = inbox[s][k].req
                                     /\ inbox'[s][k].item = inbox[s][k].item
    PROVE  /\ \A q, x : BoxTag(q, x)' <=> BoxTag(q, x)
           /\ \A y, x : AheadOf(y, x)' => AheadOf(y, x)
  <1>1. \A q, x : BoxTag(q, x)' <=> BoxTag(q, x)
    BY DEF BoxTag
  <1>2. \A y, x : AheadOf(y, x)' => AheadOf(y, x)
    BY DEF AheadOf
  <1>3. QED
    BY <1>1, <1>2

\* Every place of the new queues is one of the old ones, in their order.
LEMMA FewerPlaces ==
    ASSUME NEW s \in Sessions, NEW old,
           \A t \in Sessions \ {s} : inbox'[t] = inbox[t],
           \A n \in DOMAIN inbox'[s] : old[n] \in DOMAIN inbox[s]
                                       /\ inbox'[s][n] = inbox[s][old[n]],
           \A m, n \in DOMAIN inbox'[s] : m < n => old[m] < old[n]
    PROVE  /\ \A q, x : BoxTag(q, x)' => BoxTag(q, x)
           /\ \A y, x : AheadOf(y, x)' => AheadOf(y, x)
  <1>1. \A q, x : BoxTag(q, x)' => BoxTag(q, x)
    BY DEF BoxTag
  <1>2. ASSUME NEW y, NEW x, AheadOf(y, x)'
        PROVE  AheadOf(y, x)
    <2>1. PICK t \in Sessions : \E q, p \in DOMAIN inbox'[t] :
             q < p /\ inbox'[t][q].item = y /\ inbox'[t][p].item = x
      BY <1>2 DEF AheadOf
    <2>2. PICK q \in DOMAIN inbox'[t], p \in DOMAIN inbox'[t] :
             q < p /\ inbox'[t][q].item = y /\ inbox'[t][p].item = x
      BY <2>1
    <2>3. CASE t = s
      BY <2>2, <2>3 DEF AheadOf
    <2>4. CASE t # s
      BY <2>2, <2>4 DEF AheadOf
    <2>5. QED
      BY <2>3, <2>4
  <1>3. QED
    BY <1>1, <1>2

LEMMA HostMoves ==
    ASSUME IInv, NEW r \in host, Host(r)
    PROVE  \E a, v : Acts(r, a, v)
  <1>1. /\ r \in RequestT /\ inbox \in [Sessions -> Seq(OccurrenceT)]
        /\ created \subseteq Sessions
        /\ r.kind \in {"prompt", "control", "remove", "edit"} => r.session \in Sessions
        /\ UNCHANGED <<items, binding, call, nextId>>
    BY DEF IInv, TypeInv, SessionsKnown, Host, record
  <1>2. ASSUME NEW a \in Answers, NEW v \in Sessions \cup {None} \cup SUBSET Nat,
               Reports(r, a, v), UNCHANGED <<inbox, taken>>,
               Fits(a, r.kind), a \notin {"accepted", "removed"},
               IF a = "created" THEN v \in Sessions \ created /\ created' = created \cup {v}
                                ELSE created' = created,
               a = "reported" /\ "lag" \notin Faults => v = AllQueued(r.session),
               a = "refused" /\ "refused" \notin Faults =>
                  r.kind \in {"remove", "edit"} /\ ~ IsQueued(r)
        PROVE  Acts(r, a, v)
    <2>1. /\ \A q, x : BoxTag(q, x)' <=> BoxTag(q, x)
          /\ \A y, x : AheadOf(y, x)' => AheadOf(y, x)
      BY <1>2, SamePlaces
    <2>2. QED
      BY <1>1, <1>2, <2>1 DEF Acts
  <1>3. CASE HostCreates(r)
    BY <1>2, <1>3 DEF HostCreates, Fits, Answers
  <1>4. CASE HostDoesNotAcknowledge(r)
    BY <1>2, <1>4 DEF HostDoesNotAcknowledge, Replies, Fits, Answers, base
  <1>5. CASE HostCancels(r)
    BY <1>2, <1>5 DEF HostCancels, Replies, Fits, Answers, base
  <1>6. CASE HostRefuses(r)
    BY <1>2, <1>6 DEF HostRefuses, Replies, Fits, Answers, base
  <1>7. CASE HostReports(r)
    <2>1. PICK n \in IF "lag" \in Faults THEN 0 .. Len(inbox[r.session])
                                         ELSE {Len(inbox[r.session])} :
             Reports(r, "reported", Reported(r.session, n))
      BY <1>7 DEF HostReports
    <2>2. "lag" \notin Faults => Reported(r.session, n) = AllQueued(r.session)
      <3>1. DOMAIN inbox[r.session] = 1 .. Len(inbox[r.session])
        BY <1>1, <1>7 DEF HostReports
      <3>2. "lag" \notin Faults => n = Len(inbox[r.session])
        BY <2>1
      <3>3. QED
        BY <3>1, <3>2 DEF Reported, AllQueued
    <2>3. r.kind = "control" /\ UNCHANGED <<inbox, taken, created>>
          /\ Reported(r.session, n) \in SUBSET Nat
      <3>1. /\ \A k \in 1 .. n : k \in DOMAIN inbox[r.session]
            /\ \A k \in DOMAIN inbox[r.session] : inbox[r.session][k] \in OccurrenceT
        BY <1>1, <1>7, <2>1 DEF HostReports
      <3>2. QED
        BY <1>7, <3>1 DEF Reported, OccurrenceT, HostReports, base
    <2>4. Acts(r, "reported", Reported(r.session, n))
      BY <1>2, <2>1, <2>2, <2>3 DEF Fits, Answers
    <2>5. QED
      BY <2>4
  <1>8. CASE HostAdmits(r)
    <2> DEFINE s == r.session
               o == [req |-> r.req, item |-> r.item, text |-> r.text]
    <2>1. /\ s \in Sessions /\ o.req = r.req /\ o.item = r.item
          /\ r.kind = "prompt" /\ Reports(r, "accepted", None)
          /\ inbox' = [inbox EXCEPT ![s] = Append(@, o)] /\ UNCHANGED <<created, taken>>
      BY <1>1, <1>8 DEF HostAdmits, Replies
    <2>2. o \in OccurrenceT
      BY <1>1, <2>1 DEF OccurrenceT, RequestT, IInv, SessionsKnown
    <2> HIDE DEF s, o
    <2>3. /\ \A t \in Sessions \ {s} : inbox'[t] = inbox[t]
          /\ \A k \in DOMAIN inbox[s] : k \in DOMAIN inbox'[s] /\ inbox'[s][k] = inbox[s][k]
          /\ Len(inbox[s]) + 1 \in DOMAIN inbox'[s] /\ inbox'[s][Len(inbox[s]) + 1] = o
          /\ \A k \in DOMAIN inbox'[s] : k \in DOMAIN inbox[s] \/ k = Len(inbox[s]) + 1
          /\ Len(inbox[s]) \in Nat /\ DOMAIN inbox[s] = 1 .. Len(inbox[s])
      <3>1. inbox[s] \in Seq(OccurrenceT) /\ inbox'[s] = Append(inbox[s], o)
        BY <1>1, <2>1
      <3>2. /\ inbox'[s] \in Seq(OccurrenceT) /\ Len(inbox'[s]) = Len(inbox[s]) + 1
            /\ \A k \in 1 .. Len(inbox[s]) : inbox'[s][k] = inbox[s][k]
            /\ inbox'[s][Len(inbox[s]) + 1] = o
        BY <2>2, <3>1, AppendFacts
      <3>3. Len(inbox[s]) \in Nat /\ DOMAIN inbox[s] = 1 .. Len(inbox[s])
            /\ DOMAIN inbox'[s] = 1 .. Len(inbox[s]) + 1
        BY <3>1, <3>2
      <3>4. \A k \in 1 .. Len(inbox[s]) + 1 : k \in 1 .. Len(inbox[s]) \/ k = Len(inbox[s]) + 1
        BY <3>3
      <3>5. \A k \in 1 .. Len(inbox[s]) : k \in 1 .. Len(inbox[s]) + 1
        BY <3>3
      <3>6. Len(inbox[s]) + 1 \in 1 .. Len(inbox[s]) + 1
        BY <3>3
      <3>7. QED
        BY <1>1, <2>1, <3>2, <3>3, <3>4, <3>5, <3>6
    <2>4. /\ \A q, x : BoxTag(q, x)' => BoxTag(q, x) \/ (q = r.req /\ x = r.item)
          /\ \A q, x : BoxTag(q, x) => BoxTag(q, x)'
          /\ BoxTag(r.req, r.item)'
      BY <2>1, <2>3 DEF BoxTag
    <2>5. ASSUME NEW y, NEW x, AheadOf(y, x)'
          PROVE  AheadOf(y, x) \/ (x = r.item /\ InInbox(y))
      <3>1. PICK t \in Sessions : \E q, p \in DOMAIN inbox'[t] :
               q < p /\ inbox'[t][q].item = y /\ inbox'[t][p].item = x
        BY <2>5 DEF AheadOf
      <3>2. PICK q \in DOMAIN inbox'[t], p \in DOMAIN inbox'[t] :
               q < p /\ inbox'[t][q].item = y /\ inbox'[t][p].item = x
        BY <3>1
      <3>3. CASE t # s
        BY <2>3, <3>2, <3>3 DEF AheadOf
      <3>4. CASE t = s /\ p \in DOMAIN inbox[s]
        <4>1. q \in DOMAIN inbox[s]
          <5>1. ~ (Len(inbox[s]) + 1 < p)
            BY <2>3, <3>4
          <5>2. QED
            BY <2>3, <3>2, <3>4, <5>1
        <4>2. QED
          BY <2>3, <3>2, <3>4, <4>1 DEF AheadOf
      <3>5. CASE t = s /\ p = Len(inbox[s]) + 1
        <4>1. q \in DOMAIN inbox[s]
          <5>1. ~ (p < p)
            BY <2>3, <3>5
          <5>2. QED
            BY <2>3, <3>2, <3>5, <5>1
        <4>2. QED
          BY <2>1, <2>3, <3>2, <3>5, <4>1 DEF InInbox
      <3>6. QED
        BY <2>3, <3>3, <3>4, <3>5
    <2>6. "accepted" \in Answers /\ Fits("accepted", r.kind)
      BY <2>1 DEF Answers, Fits
    <2>7. \A t \in Sessions : inbox'[t] # <<>> => inbox[t] # <<>> \/ t = r.session
      BY <2>3 DEF s
    <2>8. Acts(r, "accepted", None)
      BY <1>1, <2>1, <2>4, <2>5, <2>6, <2>7 DEF Acts
    <2>9. QED
      BY <2>8
  <1>9. CASE HostRemoves(r)
    <2> DEFINE s == r.session
    <2>1. PICK k \in DOMAIN inbox[s] :
             /\ inbox[s][k].req = r.req
             /\ inbox' = [inbox EXCEPT ![s] = Without(@, k)]
      BY <1>9 DEF HostRemoves
    <2>2. /\ s \in Sessions /\ r.kind = "remove" /\ Reports(r, "removed", None)
          /\ UNCHANGED <<created, taken>>
      BY <1>1, <1>9 DEF HostRemoves, Replies
    <2> HIDE DEF s
    <2>3. /\ inbox[s] \in Seq(OccurrenceT) /\ inbox'[s] = Without(inbox[s], k)
          /\ \A t \in Sessions \ {s} : inbox'[t] = inbox[t]
          /\ DOMAIN inbox[s] = 1 .. Len(inbox[s]) /\ Len(inbox[s]) \in Nat
      BY <1>1, <2>1, <2>2
    <2>4. /\ DOMAIN inbox'[s] = 1 .. Len(inbox[s]) - 1
          /\ \A n \in 1 .. Len(inbox[s]) - 1 :
                Over(k, n) \in DOMAIN inbox[s] /\ inbox'[s][n] = inbox[s][Over(k, n)]
      <3>1. /\ Without(inbox[s], k) \in Seq(OccurrenceT)
            /\ Len(Without(inbox[s], k)) = Len(inbox[s]) - 1
            /\ \A n \in 1 .. Len(inbox[s]) - 1 :
                  /\ Over(k, n) \in DOMAIN inbox[s] /\ Over(k, n) # k
                  /\ Without(inbox[s], k)[n] = inbox[s][Over(k, n)]
        <4>1. inbox[s] \in Seq(OccurrenceT)
          BY <2>3
        <4>2. QED
          BY <4>1, WithoutFacts
      <3>2. DOMAIN Without(inbox[s], k) = 1 .. Len(inbox[s]) - 1
        BY DEF Without
      <3>3. QED
        BY <2>3, <3>1, <3>2
    <2>5. \A m, n \in DOMAIN inbox'[s] : m < n => Over(k, m) < Over(k, n)
      BY <2>1, <2>3, <2>4 DEF Over
    <2>6. /\ \A q, x : BoxTag(q, x)' => BoxTag(q, x)
          /\ \A y, x : AheadOf(y, x)' => AheadOf(y, x)
      <3> DEFINE old == [n \in DOMAIN inbox'[s] |-> Over(k, n)]
      <3>1. /\ \A n \in DOMAIN inbox'[s] : old[n] \in DOMAIN inbox[s]
                                           /\ inbox'[s][n] = inbox[s][old[n]]
            /\ \A m, n \in DOMAIN inbox'[s] : m < n => old[m] < old[n]
        BY <2>4, <2>5
      <3> HIDE DEF old
      <3>2. QED
        BY <2>2, <2>3, <3>1, FewerPlaces
    <2>7. ASSUME NEW j \in DOMAIN inbox[s], j # k
          PROVE  \E n \in DOMAIN inbox'[s] : inbox'[s][n] = inbox[s][j]
      <3>1. CASE j < k
        <4>1. j \in 1 .. Len(inbox[s]) - 1 /\ Over(k, j) = j
          BY <2>1, <2>3, <2>7, <3>1 DEF Over
        <4>2. QED
          BY <2>4, <4>1
      <3>2. CASE k < j
        <4>1. j - 1 \in 1 .. Len(inbox[s]) - 1 /\ Over(k, j - 1) = j
          BY <2>1, <2>3, <2>7, <3>2 DEF Over
        <4>2. QED
          BY <2>4, <4>1
      <3>3. QED
        BY <2>1, <2>3, <2>7, <3>1, <3>2
    <2>8. \A q, x : BoxTag(q, x) => BoxTag(q, x)' \/ q = r.req
      <3>1. ASSUME NEW t \in Sessions, NEW j \in DOMAIN inbox[t], inbox[t][j].req # r.req
            PROVE  \E n \in DOMAIN inbox'[t] : inbox'[t][n] = inbox[t][j]
        BY <2>1, <2>3, <2>7, <3>1
      <3>2. QED
        BY <3>1 DEF BoxTag
    <2>9. \A t \in Sessions : inbox'[t] # <<>> => inbox[t] # <<>>
      BY <2>1, <2>3
    <2>10. "removed" \in Answers /\ Fits("removed", r.kind)
      BY <2>2 DEF Answers, Fits
    <2>11. Acts(r, "removed", None)
      BY <1>1, <2>2, <2>6, <2>8, <2>9, <2>10 DEF Acts
    <2>12. QED
      BY <2>11
  <1>10. CASE HostEdits(r)
    <2> DEFINE s == r.session
    <2>1. /\ s \in Sessions /\ r.kind = "edit" /\ Reports(r, "edited", None)
          /\ UNCHANGED <<created, taken>>
          /\ inbox' = [inbox EXCEPT ![s] = [k \in DOMAIN @ |->
                IF @[k].req = r.req THEN [@[k] EXCEPT !.text = r.text] ELSE @[k]]]
      BY <1>1, <1>10 DEF HostEdits, Replies
    <2> HIDE DEF s
    <2>2. /\ \A k \in DOMAIN inbox[s] : inbox[s][k] \in OccurrenceT
          /\ DOMAIN inbox'[s] = DOMAIN inbox[s]
          /\ inbox'[s] = [k \in DOMAIN inbox[s] |->
                IF inbox[s][k].req = r.req THEN [inbox[s][k] EXCEPT !.text = r.text]
                                           ELSE inbox[s][k]]
          /\ \A t \in Sessions \ {s} : inbox'[t] = inbox[t]
      BY <1>1, <2>1
    <2>3. ASSUME NEW k \in DOMAIN inbox[s]
          PROVE  /\ inbox'[s][k].req = inbox[s][k].req
                 /\ inbox'[s][k].item = inbox[s][k].item
      BY <2>2 DEF OccurrenceT
    <2>4. \A t \in Sessions : /\ DOMAIN inbox'[t] = DOMAIN inbox[t]
                              /\ \A k \in DOMAIN inbox[t] :
                                    /\ inbox'[t][k].req = inbox[t][k].req
                                    /\ inbox'[t][k].item = inbox[t][k].item
      BY <2>2, <2>3
    <2>5. /\ \A q, x : BoxTag(q, x)' <=> BoxTag(q, x)
          /\ \A y, x : AheadOf(y, x)' => AheadOf(y, x)
      BY <2>4, SamePlaces
    <2>6. \A t \in Sessions : inbox'[t] # <<>> => inbox[t] # <<>>
      <3>1. inbox[s] = <<>> => inbox'[s] = <<>>
        BY <2>2
      <3>2. QED
        BY <2>2, <3>1
    <2>7. "edited" \in Answers /\ Fits("edited", r.kind)
      BY <2>1 DEF Answers, Fits
    <2>8. Acts(r, "edited", None)
      BY <1>1, <2>1, <2>5, <2>6, <2>7 DEF Acts
    <2>9. QED
      BY <2>8
  <1>11. QED
    BY <1>3, <1>4, <1>5, <1>6, <1>7, <1>8, <1>9, <1>10 DEF Host

LEMMA TurnMoves ==
    ASSUME IInv, NEW s \in Sessions, TurnTakes(s)
    PROVE  /\ UNCHANGED <<items, binding, call, nextId, host, wire, created>>
           /\ taken \subseteq taken'
           /\ \A q, x : BoxTag(q, x)' => BoxTag(q, x)
           /\ \A q, x : BoxTag(q, x) => BoxTag(q, x)' \/ WasTaken(x)'
           /\ \A y, x : AheadOf(y, x)' => AheadOf(y, x)
           /\ \A t \in Sessions : inbox'[t] # <<>> => inbox[t] # <<>>
  <1>1. /\ inbox[s] \in Seq(OccurrenceT) /\ inbox[s] # <<>>
        /\ UNCHANGED <<items, binding, call, nextId, host, wire, created>>
        /\ taken' = taken \cup {Head(inbox[s])}
        /\ inbox'[s] = Tail(inbox[s]) /\ \A t \in Sessions \ {s} : inbox'[t] = inbox[t]
    BY DEF IInv, TypeInv, TurnTakes, record
  <1>2. /\ DOMAIN inbox'[s] = 1 .. Len(inbox[s]) - 1 /\ Len(inbox[s]) \in Nat
        /\ DOMAIN inbox[s] = 1 .. Len(inbox[s])
        /\ \A n \in 1 .. Len(inbox[s]) - 1 : n + 1 \in DOMAIN inbox[s]
                                             /\ inbox'[s][n] = inbox[s][n + 1]
        /\ Head(inbox[s]) = inbox[s][1]
    BY <1>1, TailFacts
  <1>3. /\ \A q, x : BoxTag(q, x)' => BoxTag(q, x)
        /\ \A y, x : AheadOf(y, x)' => AheadOf(y, x)
    <2> DEFINE old == [n \in DOMAIN inbox'[s] |-> n + 1]
    <2>1. /\ \A n \in DOMAIN inbox'[s] : old[n] \in DOMAIN inbox[s]
                                         /\ inbox'[s][n] = inbox[s][old[n]]
          /\ \A m, n \in DOMAIN inbox'[s] : m < n => old[m] < old[n]
      BY <1>2
    <2> HIDE DEF old
    <2>2. QED
      BY <1>1, <2>1, FewerPlaces
  <1>4. \A q, x : BoxTag(q, x) => BoxTag(q, x)' \/ WasTaken(x)'
    <2>1. ASSUME NEW j \in DOMAIN inbox[s], j # 1
          PROVE  \E n \in DOMAIN inbox'[s] : inbox'[s][n] = inbox[s][j]
      <3>1. j - 1 \in 1 .. Len(inbox[s]) - 1 /\ (j - 1) + 1 = j
        BY <1>2, <2>1
      <3>2. QED
        BY <1>2, <3>1
    <2>2. ASSUME NEW t \in Sessions, NEW j \in DOMAIN inbox[t]
          PROVE  \/ \E n \in DOMAIN inbox'[t] : inbox'[t][n] = inbox[t][j]
                 \/ inbox[t][j] \in taken'
      BY <1>1, <1>2, <2>1
    <2>3. QED
      BY <2>2 DEF BoxTag, WasTaken
  <1>5. QED
    BY <1>1, <1>3, <1>4

-----------------------------------------------------------------------------
(* Without a timeout or a crash every step is one of these.                  *)

LEMMA StepCases ==
    ASSUME IInv, Made, Next, Faults \cap {"timeout", "crash"} = {}
    PROVE  \/ Rests
           \/ \E c \in Calls : \E new : Advances(c, new)
           \/ \E r \in host : \E a, v : Acts(r, a, v)
           \/ \E s \in Sessions : TurnTakes(s)
  <1>1. "timeout" \notin Faults /\ "crash" \notin Faults
    OBVIOUS
  <1>2. ASSUME NEW c \in Calls, User(c) \/ Handler(c) \/ TimedOut(c)
        PROVE  Rests \/ \E new : Advances(c, new)
    <2>1. ~ TimedOut(c)
      BY <1>1 DEF TimedOut, Forgets
    <2>2. QED
      BY <1>2, <2>1, UserMoves, HandlerMoves
  <1>3. ~ Crash
    BY <1>1 DEF Crash
  <1>4. QED
    BY <1>2, <1>3, HostMoves, ListRests DEF Next

LEMMA MadeKept ==
    ASSUME IInv, Made, Next, Faults \cap {"timeout", "crash"} = {}
    PROVE  Made'
  <1>1. call \in [Calls -> CallT]
    BY DEF IInv, TypeInv
  <1>2. CASE Rests
    BY <1>2 DEF Rests, Made
  <1>3. ASSUME NEW c \in Calls, NEW new, Advances(c, new)
        PROVE  Made'
    <2>1. /\ UNCHANGED <<created, inbox>> /\ call' = [call EXCEPT ![c] = new]
          /\ CallFits(new) /\ (NamesSession(new) => new.session \in created)
      BY <1>3 DEF Advances, base
    <2>2. \A r \in host' : r \in host \/ (r.kind \in {"prompt", "control", "remove", "edit"}
                                             => r.session \in created)
      BY <1>3 DEF Advances, CallMade
    <2>3. \A d \in Calls : call'[d] = IF d = c THEN new ELSE call[d]
      BY <1>1, <2>1
    <2>4. QED
      BY <2>1, <2>2, <2>3 DEF Made
  <1>4. ASSUME NEW r \in host, NEW a, NEW v, Acts(r, a, v)
        PROVE  Made'
    <2>1. /\ host' \subseteq host /\ created \subseteq created' /\ call' = call
          /\ \A s \in Sessions : inbox'[s] # <<>> =>
                inbox[s] # <<>> \/ (r.kind = "prompt" /\ s = r.session)
      BY <1>4 DEF Acts, Reports
    <2>2. QED
      BY <2>1 DEF Made
  <1>5. ASSUME NEW s \in Sessions, TurnTakes(s)
        PROVE  Made'
    BY <1>5, TurnMoves DEF Made
  <1>6. QED
    BY <1>2, <1>3, <1>4, <1>5, StepCases

\* The answers that a step of a handler leaves.
LEMMA WireShrinks ==
    ASSUME IInv, NEW c \in Calls, Frees(c)
    PROVE  \E d \in {0, 1} :
           /\ IF d = 0 THEN wire' = wire
                       ELSE /\ wire # <<>> /\ Head(wire).call = c /\ wire' = Tail(wire)
                            /\ Head(wire) = wire[1] /\ 1 \in DOMAIN wire
           /\ \A n \in DOMAIN wire' : n \in Nat /\ n + d \in DOMAIN wire /\ wire'[n] = wire[n + d]
           /\ \A n \in DOMAIN wire : n \in Nat \ {0}
                 /\ (n > d => n - d \in DOMAIN wire' /\ wire'[n - d] = wire[n])
           /\ \A n \in DOMAIN wire' : wire'[n].call # c
  <1>1. wire \in Seq(MessageT) /\ Len(wire) \in Nat /\ DOMAIN wire = 1 .. Len(wire)
    BY DEF IInv, TypeInv
  <1>2. \A n \in DOMAIN wire' : wire'[n].call # c
    BY FreesFacts
  <1>3. CASE wire' = wire
    <2>1. /\ \A n \in DOMAIN wire' : n \in Nat /\ n + 0 \in DOMAIN wire /\ wire'[n] = wire[n + 0]
          /\ \A n \in DOMAIN wire : n \in Nat \ {0}
                /\ (n > 0 => n - 0 \in DOMAIN wire' /\ wire'[n - 0] = wire[n])
      BY <1>1, <1>3
    <2>2. QED
      BY <1>2, <1>3, <2>1
  <1>4. CASE wire # <<>> /\ Head(wire).call = c /\ wire' = Tail(wire)
    <2>1. /\ Len(wire') = Len(wire) - 1 /\ DOMAIN wire' = 1 .. Len(wire) - 1
          /\ \A n \in 1 .. Len(wire) - 1 : wire'[n] = wire[n + 1]
          /\ Head(wire) = wire[1] /\ 1 \in DOMAIN wire
      BY <1>1, <1>4, TailFacts
    <2>2. /\ \A n \in DOMAIN wire' : n \in Nat /\ n + 1 \in DOMAIN wire /\ wire'[n] = wire[n + 1]
          /\ \A n \in DOMAIN wire : n \in Nat \ {0}
                /\ (n > 1 => n - 1 \in DOMAIN wire' /\ wire'[n - 1] = wire[n])
      BY <1>1, <2>1
    <2>3. QED
      BY <1>2, <1>4, <2>1, <2>2
  <1>5. QED
    BY <1>3, <1>4 DEF Frees

\* The answer that a step of the base adds.
LEMMA WireGrows ==
    ASSUME IInv, NEW r \in host, r.call # None, NEW a, NEW v, Acts(r, a, v)
    PROVE  \E last :
           /\ last \notin DOMAIN wire /\ DOMAIN wire' = DOMAIN wire \cup {last}
           /\ \A n \in DOMAIN wire : wire'[n] = wire[n] /\ n < last /\ n \in Nat
           /\ last \in Nat
           /\ wire'[last].call = r.call /\ wire'[last].answer = a /\ wire'[last].value = v
           /\ r.call \in Calls
  <1> DEFINE m == [call |-> r.call, answer |-> a, value |-> v]
  <1>1. /\ wire \in Seq(MessageT) /\ Len(wire) \in Nat /\ DOMAIN wire = 1 .. Len(wire)
        /\ r.call \in Calls
    BY DEF IInv, TypeInv, RequestT
  <1>2. m \in MessageT /\ wire' = Append(wire, m) /\ m.call = r.call /\ m.answer = a /\ m.value = v
    BY <1>1 DEF Acts, Reports, MessageT, Answers
  <1> HIDE DEF m
  <1>3. /\ wire' \in Seq(MessageT) /\ Len(wire') = Len(wire) + 1
        /\ \A n \in 1 .. Len(wire) : wire'[n] = wire[n]
        /\ wire'[Len(wire) + 1] = m
    BY <1>1, <1>2, AppendFacts
  <1>4. DOMAIN wire' = 1 .. Len(wire) + 1
    BY <1>3
  <1>5. /\ 1 .. Len(wire) + 1 = (1 .. Len(wire)) \cup {Len(wire) + 1}
        /\ Len(wire) + 1 \notin 1 .. Len(wire) /\ Len(wire) + 1 \in Nat
        /\ \A n \in 1 .. Len(wire) : n < Len(wire) + 1 /\ n \in Nat
    BY <1>1
  <1>6. QED
    BY <1>1, <1>2, <1>3, <1>4, <1>5

-----------------------------------------------------------------------------
(* One session: nobody asks for a second one.                                *)

Sole ==
    /\ \A s, t \in created : s = t
    /\ \A r \in host : r.call # None
    /\ \A r \in host : r.kind = "create" => created = {}
    /\ created # {} => binding # None \/ \E n \in DOMAIN wire : wire[n].answer = "created"
    /\ Bound # {} => binding # None

LEMMA SoleKept ==
    ASSUME IInv, Made, Sole, Next, Faults \cap {"timeout", "crash"} = {},
           (\A c, d \in Calls : c = d) \/ Bound # {}
    PROVE  Sole'
  <1>1. /\ call \in [Calls -> CallT] /\ None \notin Calls /\ None \notin Sessions
        /\ binding \in created \cup {None} /\ created \subseteq Sessions
    BY NoneIsNoSession DEF IInv, TypeInv
  <1>2. CASE Rests
    BY <1>2 DEF Rests, Sole
  <1>3. ASSUME NEW c \in Calls, NEW new, Advances(c, new)
        PROVE  Sole'
    <2>1. /\ Frees(c) /\ UNCHANGED created
          /\ IF Gets(c, "created") THEN binding' = Value ELSE binding' = binding
          /\ host' = host \/ \E q \in RequestT : host' = host \cup {q} /\ CallMade(c, new, q)
      BY <1>3 DEF Advances, base
    <2>2. Gets(c, "created") => Value \in created
      BY Got DEF Gets
    <2>3. binding # None => binding' # None
      BY <1>1, <2>1, <2>2
    <2>4. created # {} => binding' # None \/ \E n \in DOMAIN wire' : wire'[n].answer = "created"
      <3>1. SUFFICES ASSUME created # {}, binding = None, ~ Gets(c, "created")
                     PROVE  \E n \in DOMAIN wire' : wire'[n].answer = "created"
        BY <1>1, <2>1, <2>2, <2>3
      <3>2. PICK n \in DOMAIN wire : wire[n].answer = "created"
        BY <3>1 DEF Sole
      <3>3. PICK d \in {0, 1} :
               /\ IF d = 0 THEN wire' = wire
                       ELSE /\ wire # <<>> /\ Head(wire).call = c /\ wire' = Tail(wire)
                            /\ Head(wire) = wire[1] /\ 1 \in DOMAIN wire
               /\ \A m \in DOMAIN wire : m \in Nat \ {0}
                     /\ (m > d => m - d \in DOMAIN wire' /\ wire'[m - d] = wire[m])
        BY <2>1, WireShrinks
      <3>4. CASE n > d
        BY <3>2, <3>3, <3>4
      <3>5. CASE ~ (n > d)
        <4>1. d = 1 /\ n = 1
          BY <3>2, <3>3, <3>5
        <4>2. Gets(c, "created")
          BY <3>2, <3>3, <4>1 DEF Gets, Answer
        <4>3. QED
          BY <3>1, <4>2
      <3>6. QED
        BY <3>4, <3>5
    <2>5. \A r \in host' : r.call # None
      BY <1>1, <2>1 DEF Sole, CallMade
    <2>6. ASSUME NEW q \in RequestT, CallMade(c, new, q), q.kind = "create"
          PROVE  created = {}
      <3>1. binding = None /\ call[c].at = "idle"
        BY <2>6 DEF CallMade
      <3>2. \A d \in Calls : c = d
        BY <3>1 DEF Sole
      <3>3. \A n \in DOMAIN wire : wire[n].call \in Calls /\ call[wire[n].call].at # "idle"
        <4>1. wire \in Seq(MessageT)
          BY DEF IInv, TypeInv
        <4>2. \A n \in DOMAIN wire : wire[n] \in MessageT
          BY <4>1
        <4>3. \A n \in DOMAIN wire : wire[n].call \in Calls
          BY <4>2 DEF MessageT
        <4>4. QED
          BY <4>3 DEF IInv, Owned
      <3>4. QED
        BY <3>1, <3>2, <3>3 DEF Sole
    <2>7. \A r \in host' : r.kind = "create" => created = {}
      BY <2>1, <2>6 DEF Sole
    <2>8. QED
      BY <2>1, <2>3, <2>4, <2>5, <2>7 DEF Sole
  <1>4. ASSUME NEW r \in host, NEW a, NEW v, Acts(r, a, v)
        PROVE  Sole'
    <2>1. /\ host' = host \ {r} /\ binding' = binding /\ Fits(a, r.kind) /\ r.call # None
          /\ IF a = "created" THEN v \in Sessions \ created /\ created' = created \cup {v}
                              ELSE created' = created
      BY <1>4 DEF Acts, Reports, Sole
    <2>2. PICK last :
             /\ last \notin DOMAIN wire /\ DOMAIN wire' = DOMAIN wire \cup {last}
             /\ \A n \in DOMAIN wire : wire'[n] = wire[n] /\ n < last /\ n \in Nat
             /\ last \in Nat
             /\ wire'[last].call = r.call /\ wire'[last].answer = a /\ wire'[last].value = v
             /\ r.call \in Calls
      BY <1>4, <2>1, WireGrows
    <2>3. a = "created" => r.kind = "create" /\ created = {}
      BY <2>1 DEF Fits, Sole
    <2>4. \A s, t \in created' : s = t
      BY <2>1, <2>3 DEF Sole
    <2>5. \A q \in host' : q.call # None
      BY <2>1 DEF Sole
    <2>6. ASSUME NEW q \in host', q.kind = "create"
          PROVE  created' = {}
      <3>1. created = {} /\ q \in host /\ q # r
        BY <2>1, <2>6 DEF Sole
      <3>2. CASE a = "created"
        <4>1. binding = None
          BY <1>1, <3>1
        <4>2. q.call \in Calls /\ r.call \in Calls
          BY <2>1, <2>5, <2>6 , <3>1 DEF IInv, TypeInv, RequestT
        <4>3. q.call = r.call
          BY <4>1, <4>2 DEF Sole
        <4>4. QED
          BY <2>1, <3>1, <4>3 DEF IInv, Owned
      <3>3. QED
        BY <2>1, <3>1, <3>2
    <2>7. created' # {} => binding' # None \/ \E n \in DOMAIN wire' : wire'[n].answer = "created"
      BY <2>1, <2>2 DEF Sole
    <2>8. QED
      BY <2>1, <2>4, <2>5, <2>6, <2>7 DEF Sole
  <1>5. ASSUME NEW s \in Sessions, TurnTakes(s)
        PROVE  Sole'
    BY <1>5, TurnMoves DEF Sole
  <1>6. QED
    BY <1>2, <1>3, <1>4, <1>5, StepCases

-----------------------------------------------------------------------------
(* The request of a prompt under way is named nowhere else.                  *)

Named(q) ==
    \/ \E x : ItemTag(items, q, x)
    \/ \E c \in Calls : \E i \in call[c].todo : i.req = q
    \/ \E r \in host : r.kind = "remove" /\ r.item # 0 /\ r.req = q

Fresh ==
    /\ \A r \in host : r.kind = "prompt" /\ r.call # None => r.req = call[r.call].req
    /\ \A c \in Calls : call[c].at = "prompt" => ~ Named(call[c].req)
    /\ \A c, d \in Calls :
          call[c].at = "prompt" /\ call[d].at = "prompt" /\ call[c].req = call[d].req => c = d

LEMMA TagIs ==
    ASSUME NEW its, NEW q, NEW x
    PROVE  ItemTag(its, q, x) <=> \E st : Is(its, x, q, st)
  BY DEF ItemTag, Is

LEMMA FreshKept ==
    ASSUME IInv, Made, Fresh, Next, Faults \cap {"timeout", "crash"} = {}
    PROVE  Fresh'
  <1>1. call \in [Calls -> CallT] /\ None \notin Calls
    BY NoneIsNoSession DEF IInv, TypeInv
  <1>2. \A q : Named(q) => q < nextId
    <2>1. \A q, x : ItemTag(items, q, x) => q < nextId
      BY TagsAreMinted DEF IsTag
    <2>2. QED
      BY <2>1 DEF Named, IInv, Minted
  <1>3. CASE Rests
    <2>1. \A q, x : ItemTag(items', q, x) => ItemTag(items, q, x) \/ q = 0
      <3>1. \A x, p, st : Is(items', x, p, st) => Is(items, x, p, st) \/ p = 0
        BY <1>3 DEF Rests
      <3>2. QED
        BY <3>1, TagIs
    <2>2. call' = call /\ host' = host
      BY <1>3 DEF Rests
    <2>3. \A q : Named(q)' => Named(q) \/ q = 0
      BY <2>1, <2>2 DEF Named
    <2>4. \A c \in Calls : call[c].at = "prompt" => call[c].req # 0
      BY DEF Made, CallFits
    <2>5. QED
      BY <2>2, <2>3, <2>4 DEF Fresh
  <1>4. ASSUME NEW c \in Calls, NEW new, Advances(c, new)
        PROVE  Fresh'
    <2>1. /\ Frees(c) /\ call' = [call EXCEPT ![c] = new]
          /\ \/ new.at = "idle" /\ host' = host
             \/ \E q \in RequestT : host' = host \cup {q} /\ CallMade(c, new, q)
          /\ \A x, p, st : Is(items', x, p, st) => Turns(c, x, p, st)
          /\ CallFits(new)
      BY <1>4 DEF Advances
    <2>2. \A d \in Calls : call'[d] = IF d = c THEN new ELSE call[d]
      BY <1>1, <2>1
    <2>3. \A r \in host : r.call # c
      BY <2>1, FreesFacts
    <2>4. Gets(c, "accepted") => call[c].at = "prompt"
      BY Got DEF Gets, Fits
    <2>5. \A q, x : ItemTag(items', q, x) =>
             Named(q) \/ (call[c].at = "prompt" /\ q = call[c].req)
      <3>1. \A x, p, st : Turns(c, x, p, st) =>
               \/ ItemTag(items, p, x)
               \/ call[c].at = "prompt" /\ p = call[c].req
        BY <2>4, TagIs DEF Turns
      <3>2. QED
        BY <2>1, <3>1, TagIs DEF Named
    <2>6. ASSUME NEW todo, Draws(c, todo), NEW i \in todo
          PROVE  Named(i.req)
      BY <2>6 DEF Draws, Named, Ours, InState, ItemTag
    <2>7. \A i \in new.todo : Named(i.req)
      <3>1. CASE new.todo = {}
        BY <3>1
      <3>2. CASE new.todo # {}
        <4>1. new.at = "remove"
          BY <2>1, <3>2 DEF CallFits
        <4>2. \E todo : Draws(c, todo) /\ new.todo \subseteq todo
          BY <2>1, <3>2, <4>1 DEF CallMade, FirstOf
        <4>3. QED
          BY <2>6, <4>2
      <3>3. QED
        BY <3>1, <3>2
    <2>8. ASSUME NEW r \in host', r.kind = "remove", r.item # 0
          PROVE  Named(r.req)
      <3>1. CASE r \in host
        BY <2>8, <3>1 DEF Named
      <3>2. CASE CallMade(c, new, r)
        <4>1. PICK todo : Draws(c, todo) /\ FirstOf(todo, new, r)
          BY <2>8, <3>2 DEF CallMade
        <4>2. QED
          BY <2>6, <4>1 DEF FirstOf
      <3>3. QED
        BY <2>1, <3>1, <3>2
    <2>9. \A q : Named(q)' => Named(q) \/ (call[c].at = "prompt" /\ q = call[c].req)
      <3>1. SUFFICES ASSUME NEW q, Named(q)'
                     PROVE  Named(q) \/ (call[c].at = "prompt" /\ q = call[c].req)
        OBVIOUS
      <3>2. CASE \E x : ItemTag(items', q, x)
        BY <2>5, <3>2
      <3>3. CASE \E d \in Calls : \E i \in call'[d].todo : i.req = q
        BY <2>2, <2>7, <3>3 DEF Named
      <3>4. CASE \E r \in host' : r.kind = "remove" /\ r.item # 0 /\ r.req = q
        BY <2>8, <3>4
      <3>5. QED
        BY <3>1, <3>2, <3>3, <3>4 DEF Named
    <2>10. \A d \in Calls : call[d].req < nextId
      BY DEF IInv, Minted
    <2>11. nextId \in Nat
      BY DEF IInv, TypeInv
    <2>12. new.at = "prompt" => new.req = nextId
      BY <2>1 DEF CallMade
    <2>13. \A r \in host' : r.kind = "prompt" /\ r.call # None => r.req = call'[r.call].req
      <3>1. ASSUME NEW r \in host', r.kind = "prompt", r.call # None
            PROVE  r.req = call'[r.call].req
        <4>1. CASE r \in host
          <5>1. r.call \in Calls \ {c}
            BY <2>3, <3>1, <4>1 DEF IInv, TypeInv, RequestT
          <5>2. QED
            BY <2>2, <3>1, <4>1, <5>1 DEF Fresh
        <4>2. CASE CallMade(c, new, r)
          BY <2>2, <3>1, <4>2 DEF CallMade
        <4>3. QED
          BY <2>1, <4>1, <4>2
      <3>2. QED
        BY <3>1
    <2>14. ASSUME NEW d \in Calls, call'[d].at = "prompt"
           PROVE  ~ Named(call[d].req)'
      <3>1. CASE d = c
        <4>1. call'[d].req = nextId
          BY <2>2, <2>12, <2>14, <3>1
        <4>2. \A q : Named(q)' => q < nextId
          BY <1>2, <2>9, <2>10
        <4>3. QED
          BY <2>11, <4>1, <4>2
      <3>2. CASE d # c
        <4>1. call'[d] = call[d] /\ call[d].at = "prompt"
          BY <2>2, <2>14, <3>2
        <4>2. ~ Named(call[d].req) /\ ~ (call[c].at = "prompt" /\ call[d].req = call[c].req)
          BY <3>2, <4>1 DEF Fresh
        <4>3. \A q : q = call[d].req => ~ Named(q)'
          BY <2>9, <4>2
        <4>4. QED
          BY <4>1, <4>3
      <3>3. QED
        BY <3>1, <3>2
    <2>15. \A d, e \in Calls :
              call'[d].at = "prompt" /\ call'[e].at = "prompt" /\ call'[d].req = call'[e].req
                 => d = e
      BY <2>2, <2>10, <2>11, <2>12 DEF Fresh
    <2>16. QED
      BY <2>13, <2>14, <2>15 DEF Fresh
  <1>5. ASSUME NEW r \in host, NEW a, NEW v, Acts(r, a, v)
        PROVE  Fresh'
    <2>1. host' \subseteq host /\ UNCHANGED <<items, call>>
      BY <1>5 DEF Acts, Reports
    <2>2. \A q : Named(q)' => Named(q)
      BY <2>1 DEF Named
    <2>3. QED
      BY <2>1, <2>2 DEF Fresh
  <1>6. ASSUME NEW s \in Sessions, TurnTakes(s)
        PROVE  Fresh'
    <2>1. UNCHANGED <<items, call, host>>
      BY <1>6, TurnMoves
    <2>2. QED
      BY <2>1 DEF Fresh, Named
  <1>7. QED
    BY <1>3, <1>4, <1>5, <1>6, StepCases

-----------------------------------------------------------------------------
(* What is recorded of an input that left for the base is borne out there.    *)

Landed(q, x) == BoxTag(q, x) \/ WasTaken(x)

\* The n-th answer gives this input back.
RemovedBy(n, x) == wire[n].answer = "removed" /\ call[wire[n].call].item = x

\* The n-th answer accepts it.
AcceptedBy(n, q, x) ==
    /\ wire[n].answer = "accepted"
    /\ call[wire[n].call].req = q /\ call[wire[n].call].item = x /\ x # 0

\* An input accepted is queued or taken, and so is an input recorded as submitted
\* unless its withdrawal is on the way back; what a report of the queue leaves out
\* was taken, or is given back before the report is read.
Settled ==
    /\ \A r \in host : r.kind = "remove" => r.item # 0
    /\ \A n \in DOMAIN wire : \A q, x : AcceptedBy(n, q, x) => Landed(q, x)
    /\ \A x, q : Is(items, x, q, "submitted") =>
          Landed(q, x) \/ \E m \in DOMAIN wire : RemovedBy(m, x)
    /\ \A x, q : Is(items, x, q, "consumed") => WasTaken(x)
    /\ \A n \in DOMAIN wire : wire[n].answer = "reported" =>
          /\ \A x, q : Is(items, x, q, "submitted") =>
                \/ q \in wire[n].value \/ WasTaken(x)
                \/ \E m \in DOMAIN wire : m < n /\ RemovedBy(m, x)
          /\ \A m \in DOMAIN wire : \A q, x :
                m < n /\ AcceptedBy(m, q, x) => q \in wire[n].value \/ WasTaken(x)

LEMMA SettledRests ==
    ASSUME Settled, Rests
    PROVE  Settled'
  <1>1. /\ UNCHANGED <<call, host, wire, inbox, taken>>
        /\ \A x, q : Is(items', x, q, "submitted") => Is(items, x, q, "submitted")
        /\ \A x, q : Is(items', x, q, "consumed") => Is(items, x, q, "consumed")
    BY DEF Rests
  <1>2. /\ \A q, x : Landed(q, x)' <=> Landed(q, x)
        /\ \A x : WasTaken(x)' <=> WasTaken(x)
        /\ \A m, x : RemovedBy(m, x)' <=> RemovedBy(m, x)
        /\ \A m, q, x : AcceptedBy(m, q, x)' <=> AcceptedBy(m, q, x)
    BY <1>1 DEF Landed, BoxTag, WasTaken, RemovedBy, AcceptedBy
  <1>3. QED
    BY <1>1, <1>2 DEF Settled

LEMMA SettledTurn ==
    ASSUME IInv, Settled, NEW s \in Sessions, TurnTakes(s)
    PROVE  Settled'
  <1>1. /\ UNCHANGED <<items, call, host, wire>> /\ taken \subseteq taken'
        /\ \A q, x : BoxTag(q, x) => BoxTag(q, x)' \/ WasTaken(x)'
    BY TurnMoves
  <1>2. /\ \A x : WasTaken(x) => WasTaken(x)'
        /\ \A m, x : RemovedBy(m, x)' <=> RemovedBy(m, x)
        /\ \A m, q, x : AcceptedBy(m, q, x)' <=> AcceptedBy(m, q, x)
    BY <1>1 DEF WasTaken, RemovedBy, AcceptedBy
  <1>3. \A q, x : Landed(q, x) => Landed(q, x)'
    BY <1>1, <1>2 DEF Landed
  <1>4. \A x, st, q : Is(items', x, q, st) <=> Is(items, x, q, st)
    BY <1>1
  <1>5. QED
    BY <1>1, <1>2, <1>3, <1>4 DEF Settled

LEMMA SettledMain ==
    ASSUME IInv, IInv', Made, Settled, "remove" \notin Panel,
           NEW c \in Calls, NEW new, Advances(c, new)
    PROVE  Settled'
  <1>1. /\ Frees(c) /\ UNCHANGED <<inbox, taken>> /\ call' = [call EXCEPT ![c] = new]
        /\ \/ new.at = "idle" /\ host' = host
           \/ \E q \in RequestT : host' = host \cup {q} /\ CallMade(c, new, q)
        /\ \A x, p, st : Is(items', x, p, st) => Turns(c, x, p, st)
    BY DEF Advances, base
  <1>2. PICK d \in {0, 1} :
           /\ IF d = 0 THEN wire' = wire
                       ELSE /\ wire # <<>> /\ Head(wire).call = c /\ wire' = Tail(wire)
                            /\ Head(wire) = wire[1] /\ 1 \in DOMAIN wire
           /\ \A n \in DOMAIN wire' : n \in Nat /\ n + d \in DOMAIN wire /\ wire'[n] = wire[n + d]
           /\ \A n \in DOMAIN wire : n \in Nat \ {0}
                 /\ (n > d => n - d \in DOMAIN wire' /\ wire'[n - d] = wire[n])
           /\ \A n \in DOMAIN wire' : wire'[n].call # c
    BY <1>1, WireShrinks
  <1>3. call \in [Calls -> CallT] /\ \A n \in DOMAIN wire : wire[n].call \in Calls
    <2>1. wire \in Seq(MessageT) /\ call \in [Calls -> CallT]
      BY DEF IInv, TypeInv
    <2>2. \A n \in DOMAIN wire : wire[n] \in MessageT
      BY <2>1
    <2>3. QED
      BY <2>1, <2>2 DEF MessageT
  <1>4. \A n \in DOMAIN wire' : call'[wire'[n].call] = call[wire[n + d].call]
    BY <1>1, <1>2, <1>3
  <1>5. /\ \A n \in DOMAIN wire' : \A q, x : AcceptedBy(n, q, x)' <=> AcceptedBy(n + d, q, x)
        /\ \A n \in DOMAIN wire' : \A x : RemovedBy(n, x)' <=> RemovedBy(n + d, x)
    BY <1>2, <1>4 DEF AcceptedBy, RemovedBy
  <1>6. ASSUME NEW m \in DOMAIN wire, NEW x, RemovedBy(m, x)
        PROVE  \/ m > d /\ m - d \in DOMAIN wire' /\ RemovedBy(m - d, x)'
               \/ Gets(c, "removed") /\ x = call[c].item
    <2>1. CASE m > d
      <3>1. m - d \in DOMAIN wire' /\ (m - d) + d = m
        BY <1>2, <2>1
      <3>2. QED
        BY <1>5, <1>6, <2>1, <3>1
    <2>2. CASE ~ (m > d)
      <3>1. m = 1 /\ d = 1
        BY <1>2, <2>2
      <3>2. QED
        BY <1>2, <1>6, <3>1 DEF RemovedBy, Gets, Answer
    <2>3. QED
      BY <2>1, <2>2
  <1>7. Gets(c, "accepted") => d = 1 /\ 1 \in DOMAIN wire
                               /\ \A q, x : q = call[c].req /\ x = call[c].item /\ x # 0
                                     => AcceptedBy(1, q, x)
    <2>1. Gets(c, "accepted") => d = 1
      <3>1. SUFFICES ASSUME wire # <<>>, Head(wire).call = c, d = 0
                     PROVE  FALSE
        BY DEF Gets
      <3>2. Head(wire) = wire[1] /\ 1 \in DOMAIN wire
        BY <3>1, Got
      <3>3. QED
        BY <1>2, <3>1, <3>2
    <2>2. QED
      BY <1>2, <2>1 DEF Gets, Answer, AcceptedBy
  <1>8. \A x, p, st : Is(items', x, p, st) => x # 0
    <2>1. \A k \in DOMAIN items' : items'[k] \in ItemT
      BY DEF IInv, ListOK
    <2>2. QED
      BY <2>1 DEF Is, ItemT
  <1>9. /\ \A q, x : Landed(q, x)' <=> Landed(q, x)
        /\ \A x : WasTaken(x)' <=> WasTaken(x)
    BY <1>1 DEF Landed, BoxTag, WasTaken
  <1>10. \A r \in host' : r.kind = "remove" => r.item # 0
    <2>1. ASSUME NEW todo, Draws(c, todo), NEW i \in todo
          PROVE  i.id # 0
      <3>1. i \in ItemT
        BY <1>3, <2>1 DEF Draws, Ours, InState, CallT, IInv, ListOK
      <3>2. QED
        BY <3>1 DEF ItemT
    <2>2. \A q : CallMade(c, new, q) /\ q.kind = "remove" => q.item # 0
      BY <2>1 DEF CallMade, FirstOf
    <2>3. QED
      BY <1>1, <2>2 DEF Settled
  <1>11. \A n \in DOMAIN wire' : \A q, x : AcceptedBy(n, q, x)' => Landed(q, x)'
    BY <1>2, <1>5, <1>9 DEF Settled
  <1>12. ASSUME NEW x, NEW q, Is(items', x, q, "submitted")
         PROVE  \/ Is(items, x, q, "submitted") /\ ~ (x = call[c].item /\ Gets(c, "removed"))
                \/ d = 1 /\ 1 \in DOMAIN wire /\ AcceptedBy(1, q, x)
    BY <1>1, <1>7, <1>8, <1>12 DEF Turns
  <1>13. \A x, q : Is(items', x, q, "submitted") =>
            Landed(q, x)' \/ \E m \in DOMAIN wire' : RemovedBy(m, x)'
    BY <1>6, <1>9, <1>12 DEF Settled
  <1>14. \A x, q : Is(items', x, q, "consumed") => WasTaken(x)'
    <2>1. ASSUME NEW x, NEW q, Is(items', x, q, "consumed"), ~ Is(items, x, q, "consumed")
          PROVE  WasTaken(x)
      <3>1. Gets(c, "reported") /\ Is(items, x, q, "submitted") /\ q \notin Value
        BY <1>1, <2>1 DEF Turns
      <3>2. Head(wire) = wire[1] /\ 1 \in DOMAIN wire
        BY <3>1, Got DEF Gets
      <3>3. wire[1].answer = "reported" /\ q \notin wire[1].value
        BY <3>1, <3>2 DEF Gets, Answer, Value
      <3>4. \A m \in DOMAIN wire : ~ (m < 1)
        BY <1>2
      <3>5. QED
        BY <3>1, <3>2, <3>3, <3>4 DEF Settled
    <2>2. QED
      BY <1>9, <2>1 DEF Settled
  <1>15. ASSUME NEW n \in DOMAIN wire', wire'[n].answer = "reported"
         PROVE  /\ \A x, q : Is(items', x, q, "submitted") =>
                      \/ q \in wire'[n].value \/ WasTaken(x)'
                      \/ \E m \in DOMAIN wire' : m < n /\ RemovedBy(m, x)'
                /\ \A m \in DOMAIN wire' : \A q, x :
                      m < n /\ AcceptedBy(m, q, x)' => q \in wire'[n].value \/ WasTaken(x)'
    <2>1. n \in Nat /\ n + d \in DOMAIN wire /\ wire'[n] = wire[n + d]
          /\ wire[n + d].answer = "reported" /\ n # 0
      <3>1. n \in Nat /\ n + d \in DOMAIN wire /\ wire'[n] = wire[n + d]
        BY <1>2
      <3>2. wire' \in Seq(MessageT)
        BY DEF IInv, TypeInv
      <3>3. n # 0
        BY <3>2
      <3>4. QED
        BY <1>15, <3>1, <3>3
    <2>2. ASSUME NEW x, NEW q, Is(items', x, q, "submitted")
          PROVE  \/ q \in wire'[n].value \/ WasTaken(x)
                 \/ \E m \in DOMAIN wire' : m < n /\ RemovedBy(m, x)'
      <3>1. CASE Is(items, x, q, "submitted") /\ ~ (x = call[c].item /\ Gets(c, "removed"))
        <4>1. \/ q \in wire[n + d].value \/ WasTaken(x)
              \/ \E m \in DOMAIN wire : m < n + d /\ RemovedBy(m, x)
          BY <2>1, <3>1 DEF Settled
        <4>2. ASSUME NEW m \in DOMAIN wire, m < n + d, RemovedBy(m, x)
              PROVE  \E j \in DOMAIN wire' : j < n /\ RemovedBy(j, x)'
          <5>1. m > d /\ m - d \in DOMAIN wire' /\ RemovedBy(m - d, x)'
            BY <1>6, <3>1, <4>2
          <5>2. m - d < n
            BY <1>2, <2>1, <4>2, <5>1
          <5>3. QED
            BY <5>1, <5>2
        <4>3. QED
          BY <2>1, <4>1, <4>2
      <3>2. CASE d = 1 /\ 1 \in DOMAIN wire /\ AcceptedBy(1, q, x)
        <4>1. 1 < n + d
          BY <2>1, <3>2
        <4>2. QED
          BY <2>1, <3>2, <4>1 DEF Settled
      <3>3. QED
        BY <1>12, <2>2, <3>1, <3>2
    <2>3. ASSUME NEW m \in DOMAIN wire', NEW q, NEW x, m < n, AcceptedBy(m, q, x)'
          PROVE  q \in wire'[n].value \/ WasTaken(x)
      <3>1. m + d \in DOMAIN wire /\ m + d < n + d /\ AcceptedBy(m + d, q, x)
        BY <1>2, <1>5, <2>1, <2>3
      <3>2. QED
        BY <2>1, <3>1 DEF Settled
    <2>4. QED
      BY <1>9, <2>2, <2>3
  <1>16. QED
    BY <1>10, <1>11, <1>13, <1>14, <1>15 DEF Settled

LEMMA SettledHost ==
    ASSUME IInv, Made, Sole, Fresh, Settled, "lag" \notin Faults,
           NEW r \in host, NEW a, NEW v, Acts(r, a, v)
    PROVE  Settled'
  <1>1. /\ UNCHANGED <<items, call, taken>> /\ host' = host \ {r} /\ Fits(a, r.kind)
        /\ a = "reported" => v = AllQueued(r.session)
        /\ \A q, x : BoxTag(q, x) => BoxTag(q, x)' \/ (a = "removed" /\ q = r.req)
        /\ a = "accepted" => BoxTag(r.req, r.item)'
        /\ r.call # None
    BY DEF Acts, Reports, Sole
  <1>2. PICK last :
           /\ last \notin DOMAIN wire /\ DOMAIN wire' = DOMAIN wire \cup {last}
           /\ \A n \in DOMAIN wire : wire'[n] = wire[n] /\ n < last /\ n \in Nat
           /\ last \in Nat
           /\ wire'[last].call = r.call /\ wire'[last].answer = a /\ wire'[last].value = v
           /\ r.call \in Calls
    BY <1>1, WireGrows
  <1>3. /\ \A x : WasTaken(x)' <=> WasTaken(x)
        /\ \A n \in DOMAIN wire : \A x : RemovedBy(n, x)' <=> RemovedBy(n, x)
        /\ \A n \in DOMAIN wire : \A q, x : AcceptedBy(n, q, x)' <=> AcceptedBy(n, q, x)
        /\ \A x, p, st : Is(items', x, p, st) <=> Is(items, x, p, st)
    BY <1>1, <1>2 DEF WasTaken, RemovedBy, AcceptedBy
  <1>4. call[r.call].at = r.kind /\ call[r.call].item = r.item
    BY <1>1 DEF IInv, Owned
  <1>5. ASSUME NEW q, NEW x, Landed(q, x)
        PROVE  Landed(q, x)' \/ (a = "removed" /\ q = r.req /\ x = r.item /\ RemovedBy(last, x)')
    <2>1. CASE BoxTag(q, x) /\ a = "removed" /\ q = r.req
      <3>1. r.kind = "remove" /\ r.item # 0
        BY <1>1, <2>1 DEF Fits, Settled
      <3>2. q # 0
        <4>1. PICK s \in Sessions : \E k \in DOMAIN inbox[s] : inbox[s][k].req = q
          BY <2>1 DEF BoxTag
        <4>2. \A k \in DOMAIN inbox[s] : inbox[s][k] \in OccurrenceT
          BY DEF IInv, TypeInv
        <4>3. QED
          BY <4>1, <4>2 DEF OccurrenceT
      <3>3. IsTag(q, x) /\ IsTag(q, r.item)
        BY <2>1, <3>1 DEF IsTag, HostTag
      <3>4. x = r.item
        BY <3>2, <3>3 DEF IInv, TagsAgree
      <3>5. QED
        BY <1>1, <1>2, <1>4, <2>1, <3>4 DEF RemovedBy
    <2>2. CASE BoxTag(q, x) /\ ~ (a = "removed" /\ q = r.req)
      BY <1>1, <2>2 DEF Landed
    <2>3. CASE WasTaken(x)
      BY <1>3, <2>3 DEF Landed
    <2>4. QED
      BY <1>5, <2>1, <2>2, <2>3 DEF Landed
  <1>6. ASSUME NEW n \in DOMAIN wire, NEW q, NEW x, AcceptedBy(n, q, x)
        PROVE  Landed(q, x)'
    <2>1. Landed(q, x)
      BY <1>6 DEF Settled
    <2>2. ~ (a = "removed" /\ q = r.req)
      <3>1. SUFFICES ASSUME a = "removed", q = r.req
                     PROVE  FALSE
        OBVIOUS
      <3>2. Named(q)
        BY <1>1, <3>1 DEF Named, Fits, Settled
      <3>3. wire[n].call \in Calls
        <4>1. wire \in Seq(MessageT)
          BY DEF IInv, TypeInv
        <4>2. wire[n] \in MessageT
          BY <4>1
        <4>3. QED
          BY <4>2 DEF MessageT
      <3>4. call[wire[n].call].at = "prompt" /\ call[wire[n].call].req = q
        BY <1>6 DEF AcceptedBy, IInv, Owned, Fits
      <3>5. QED
        BY <3>2, <3>3, <3>4 DEF Fresh
    <2>3. QED
      BY <1>5, <2>1, <2>2
  <1>7. ASSUME NEW q, NEW x, AcceptedBy(last, q, x)'
        PROVE  Landed(q, x)'
    <2>1. a = "accepted" /\ r.kind = "prompt"
      BY <1>1, <1>2, <1>7 DEF AcceptedBy, Fits
    <2>2. q = r.req /\ x = r.item
      BY <1>1, <1>2, <1>4, <1>7, <2>1 DEF AcceptedBy, Fresh
    <2>3. QED
      BY <1>1, <2>1, <2>2 DEF Landed
  <1>8. \A n \in DOMAIN wire' : \A q, x : AcceptedBy(n, q, x)' => Landed(q, x)'
    BY <1>2, <1>3, <1>6, <1>7
  <1>9. \A x, q : Is(items', x, q, "submitted") =>
            Landed(q, x)' \/ \E m \in DOMAIN wire' : RemovedBy(m, x)'
    <2>1. ASSUME NEW x, NEW q, Is(items, x, q, "submitted")
          PROVE  Landed(q, x)' \/ \E m \in DOMAIN wire' : RemovedBy(m, x)'
      BY <1>2, <1>3, <1>5, <2>1 DEF Settled
    <2>2. QED
      BY <1>3, <2>1
  <1>10. \A x, q : Is(items', x, q, "consumed") => WasTaken(x)'
    BY <1>3 DEF Settled
  <1>11. ASSUME NEW q, NEW x, Landed(q, x), a = "reported"
         PROVE  q \in v \/ WasTaken(x)
    <2>1. r.kind = "control" /\ r.session \in created /\ v = AllQueued(r.session)
      BY <1>1, <1>11 DEF Fits, Made
    <2>2. CASE BoxTag(q, x)
      <3>1. PICK s \in Sessions : \E k \in DOMAIN inbox[s] : inbox[s][k].req = q
        BY <2>2 DEF BoxTag
      <3>2. s \in created
        BY <3>1 DEF Made
      <3>3. s = r.session
        BY <2>1, <3>2 DEF Sole
      <3>4. QED
        BY <2>1, <3>1, <3>3 DEF AllQueued
    <2>3. QED
      BY <1>11, <2>2 DEF Landed
  <1>12. ASSUME NEW n \in DOMAIN wire', wire'[n].answer = "reported"
         PROVE  /\ \A x, q : Is(items', x, q, "submitted") =>
                      \/ q \in wire'[n].value \/ WasTaken(x)'
                      \/ \E m \in DOMAIN wire' : m < n /\ RemovedBy(m, x)'
                /\ \A m \in DOMAIN wire' : \A q, x :
                      m < n /\ AcceptedBy(m, q, x)' => q \in wire'[n].value \/ WasTaken(x)'
    <2>1. \A m \in DOMAIN wire' : m < n => m \in DOMAIN wire
      BY <1>2
    <2>2. CASE n \in DOMAIN wire
      <3>1. wire'[n] = wire[n]
        BY <1>2, <2>2
      <3>2. \A x, q : Is(items, x, q, "submitted") =>
               \/ q \in wire[n].value \/ WasTaken(x)
               \/ \E m \in DOMAIN wire : m < n /\ RemovedBy(m, x)
        BY <1>12, <2>2, <3>1 DEF Settled
      <3>3. \A x, q : Is(items', x, q, "submitted") =>
               \/ q \in wire'[n].value \/ WasTaken(x)'
               \/ \E m \in DOMAIN wire' : m < n /\ RemovedBy(m, x)'
        BY <1>2, <1>3, <3>1, <3>2
      <3>4. \A m \in DOMAIN wire : \A q, x :
               m < n /\ AcceptedBy(m, q, x) => q \in wire[n].value \/ WasTaken(x)
        BY <1>12, <2>2, <3>1 DEF Settled
      <3>5. QED
        BY <1>3, <2>1, <3>1, <3>3, <3>4
    <2>3. CASE n = last
      <3>1. a = "reported" /\ wire'[n].value = v
        BY <1>2, <1>12, <2>3
      <3>2. \A m \in DOMAIN wire : m < n /\ m \in DOMAIN wire'
        BY <1>2, <2>3
      <3>3. ASSUME NEW x, NEW q, Is(items, x, q, "submitted")
            PROVE  \/ q \in v \/ WasTaken(x)'
                   \/ \E m \in DOMAIN wire' : m < n /\ RemovedBy(m, x)'
        <4>1. Landed(q, x) \/ \E m \in DOMAIN wire : RemovedBy(m, x)
          BY <3>3 DEF Settled
        <4>2. QED
          BY <1>3, <1>11, <3>1, <3>2, <4>1
      <3>4. ASSUME NEW m \in DOMAIN wire, NEW q, NEW x, AcceptedBy(m, q, x)
            PROVE  q \in v \/ WasTaken(x)'
        <4>1. Landed(q, x)
          BY <3>4 DEF Settled
        <4>2. QED
          BY <1>3, <1>11, <3>1, <4>1
      <3>5. QED
        BY <1>3, <2>1, <3>1, <3>3, <3>4
    <2>4. QED
      BY <1>2, <2>2, <2>3
  <1>13. \A q \in host' : q.kind = "remove" => q.item # 0
    BY <1>1 DEF Settled
  <1>14. QED
    BY <1>8, <1>9, <1>10, <1>12, <1>13 DEF Settled

-----------------------------------------------------------------------------
(* Both invariants hold at the start.                                        *)

CInv == IInv /\ Made /\ Sole /\ Fresh /\ Settled

LEMMA StartsWell ==
    ASSUME Init
    PROVE  IInv /\ Made /\ Sole /\ Fresh
  <1>1. IInv
    BY InitHolds
  <1>2. /\ items = <<>> /\ created = Bound /\ call = [c \in Calls |-> Idle]
        /\ host = {} /\ wire = <<>> /\ inbox = [s \in Sessions |-> <<>>] /\ taken = {}
        /\ binding = IF Bound = {} THEN None ELSE CHOOSE s \in Bound : TRUE
    BY DEF Init
  <1>3. \A c \in Calls : call[c] = Idle
    BY <1>2
  <1>4. Made
    BY <1>2, <1>3, IdleFits DEF Made
  <1>5. Sole
    <2>1. Bound # {} => binding \in Bound
      BY <1>2
    <2>2. Bound # {} => binding # None
      BY <2>1, BoundIsAtMostOne, NoneIsNoSession, <1>1, <1>2 DEF IInv, TypeInv
    <2>3. \A s, t \in Bound : s = t
      BY BoundIsAtMostOne
    <2>4. QED
      BY <1>2, <2>2, <2>3 DEF Sole
  <1>6. Fresh
    BY <1>2, <1>3, IdleFacts DEF Fresh
  <1>7. QED
    BY <1>1, <1>4, <1>5, <1>6

LEMMA StillSame ==
    ASSUME UNCHANGED vars
    PROVE  (Made => Made') /\ (Sole => Sole') /\ (Fresh => Fresh')
  <1>1. Made => Made'
    BY DEF vars, Made
  <1>2. Sole => Sole'
    BY DEF vars, Sole
  <1>3. Fresh => Fresh'
    BY DEF vars, Fresh, Named
  <1>4. QED
    BY <1>1, <1>2, <1>3

\* An input is recorded as consumed only if a turn took it, for any number of inputs
\* and operations, as long as the Host answers in time and lives on (a crash or
\* timeout loses the answer to a prompt or withdrawal), reports its whole queue, and
\* nobody takes an input out of the queue behind the list's back; and the matter has
\* one session, bound from the start or asked for by the only call.
THEOREM ConsumedIsTaken ==
    ASSUME Faults \cap {"timeout", "crash", "lag"} = {}, "remove" \notin Panel,
           (\A c, d \in Calls : c = d) \/ Bound # {}
    PROVE  Spec => []ConsumedWasTaken
  <1>1. Init => CInv
    <2> SUFFICES ASSUME Init PROVE CInv
      OBVIOUS
    <2>1. DOMAIN items = {} /\ DOMAIN wire = {} /\ host = {}
      BY DEF Init
    <2>2. Settled
      BY <2>1 DEF Settled, Is
    <2>3. QED
      BY <2>2, StartsWell DEF CInv
  <1>2. CInv /\ [Next]_vars => CInv'
    <2> SUFFICES ASSUME CInv, [Next]_vars PROVE CInv'
      OBVIOUS
    <2>1. IInv /\ IInv' /\ Made /\ Sole /\ Fresh /\ Settled
      BY NextKeeps DEF CInv
    <2>2. CASE UNCHANGED vars
      <3>1. UNCHANGED <<items, call, host, wire, inbox, taken>>
        BY <2>2 DEF vars
      <3>2. Settled'
        BY <2>1, <3>1 DEF Settled, Landed, BoxTag, WasTaken, RemovedBy, AcceptedBy
      <3>3. QED
        BY <2>1, <2>2, <3>2, StillSame DEF CInv
    <2>3. CASE Next
      <3>1. Made' /\ Sole' /\ Fresh'
        BY <2>1, <2>3, MadeKept, SoleKept, FreshKept
      <3>2. CASE Rests
        BY <2>1, <3>1, <3>2, SettledRests DEF CInv
      <3>3. ASSUME NEW c \in Calls, NEW new, Advances(c, new)
            PROVE  Settled'
        BY <2>1, <3>3, SettledMain
      <3>4. ASSUME NEW r \in host, NEW a, NEW v, Acts(r, a, v)
            PROVE  Settled'
        BY <2>1, <3>4, SettledHost
      <3>5. ASSUME NEW s \in Sessions, TurnTakes(s)
            PROVE  Settled'
        BY <2>1, <3>5, SettledTurn
      <3>6. QED
        BY <2>1, <2>3, <3>1, <3>2, <3>3, <3>4, <3>5, StepCases DEF CInv
    <2>4. QED
      BY <2>2, <2>3
  <1>3. CInv => ConsumedWasTaken
    <2> SUFFICES ASSUME CInv, NEW k \in DOMAIN items, items[k].state = "consumed"
                 PROVE  Taken(items[k].id) # {}
      BY DEF ConsumedWasTaken
    <2>1. Is(items, items[k].id, items[k].req, "consumed")
      BY DEF Is
    <2>2. WasTaken(items[k].id)
      BY <2>1 DEF CInv, Settled
    <2>3. QED
      BY <2>2 DEF WasTaken, Taken
  <1>4. QED
    BY <1>1, <1>2, <1>3, PTL DEF Spec

-----------------------------------------------------------------------------
(* The list keeps the order in which its inputs were written.                *)

Listed(its, x) == \E k \in DOMAIN its : its[k].id = x

SameIds(t, its) == DOMAIN t = DOMAIN its /\ \A k \in DOMAIN its : t[k].id = its[k].id

Grown == IdsGrow(items') /\ \A x : Listed(items', x) => Listed(items, x) \/ x = nextId

LEMMA SameGrown ==
    ASSUME IdsGrow(items), SameIds(items', items)
    PROVE  Grown
  BY DEF Grown, IdsGrow, SameIds, Listed

LEMMA OpsKeepIds ==
    ASSUME NEW n \in Nat, NEW its, ListOK(its, n), NEW x, NEW q, NEW queued
    PROVE  /\ SameIds(MarkSubmitted(its, x, q), its)
           /\ SameIds(RevertDispatch(its, x), its)
           /\ SameIds(ReturnToPending(its, x), its)
           /\ SameIds(FoldQueue(its, queued), its)
           /\ \A k \in DOMAIN its : SameIds(BeginDispatch(its, k), its)
           /\ \A k \in DOMAIN its : SameIds([its EXCEPT ![k].text = @ + 1], its)
  <1>1. \A k \in DOMAIN its : its[k] \in ItemT
    BY DEF ListOK
  <1>2. SameIds(MarkSubmitted(its, x, q), its)
    BY <1>1 DEF SameIds, MarkSubmitted, WithItem, ItemT
  <1>3. \A t, y : StatesOnly(t, its, y) => SameIds(t, its)
    BY <1>1 DEF StatesOnly, SameIds, ItemT
  <1>4. \A k \in DOMAIN its : SameIds([its EXCEPT ![k].text = @ + 1], its)
    BY <1>1 DEF SameIds, ItemT
  <1>5. QED
    BY <1>2, <1>3, <1>4, OpsAreStatesOnly

LEMMA DispatchGrown ==
    ASSUME IInv, IdsGrow(items), NEW c, NEW s, NEW its, NEW isPaused, ListOK(its, nextId),
           SameIds(its, items), DispatchNext(c, s, its, isPaused)
    PROVE  Grown
  <1>1. nextId \in Nat /\ its \in Seq(ItemT)
    BY DEF IInv, TypeInv, ListOK
  <1>2. CASE items' = its
    BY <1>2, SameGrown
  <1>3. CASE ~ LoopEnds(its, isPaused) /\ items' = BeginDispatch(its, First(InState(its, "pending")))
    <2>1. InState(its, "pending") \in SUBSET Nat /\ InState(its, "pending") # {}
      BY <1>1, <1>3 DEF InState, LoopEnds
    <2>2. First(InState(its, "pending")) \in DOMAIN its
      BY <2>1, FirstIsOne DEF InState
    <2>3. SameIds(items', its)
      BY <1>1, <1>3, <2>2, OpsKeepIds
    <2>4. SameIds(items', items)
      BY <2>3 DEF SameIds
    <2>5. QED
      BY <2>4, SameGrown
  <1>4. QED
    BY <1>2, <1>3 DEF DispatchNext

LEMMA EnqueueGrown ==
    ASSUME IInv, IdsGrow(items), items' = Enqueued(items, nextId)
    PROVE  Grown
  <1> DEFINE new == [id |-> nextId, state |-> "pending", text |-> 0, req |-> 0]
             all == Append(items, new)
  <1>1. /\ nextId \in Nat \ {0} /\ items \in Seq(ItemT) /\ Len(items) \in Nat
        /\ \A k \in DOMAIN items : items[k] \in ItemT /\ items[k].id < nextId
    BY DEF IInv, TypeInv, ListOK
  <1>2. new \in ItemT /\ new.id = nextId
    BY <1>1, BoundsAreNat DEF ItemT, States
  <1>3. items' = IF Len(all) > MaxItems THEN Tail(all) ELSE all
    BY DEF Enqueued
  <1> HIDE DEF new
  <1>4. /\ all \in Seq(ItemT) /\ Len(all) = Len(items) + 1
        /\ \A k \in 1 .. Len(items) : all[k] = items[k]
        /\ all[Len(items) + 1] = new
    BY <1>1, <1>2, AppendFacts
  <1> HIDE DEF all
  <1>5. /\ \A k \in DOMAIN all :
              \/ k \in DOMAIN items /\ all[k] = items[k]
              \/ k = Len(items) + 1 /\ all[k].id = nextId
        /\ DOMAIN items = 1 .. Len(items) /\ DOMAIN all = 1 .. Len(items) + 1
    <2>1. DOMAIN items = 1 .. Len(items) /\ DOMAIN all = 1 .. Len(items) + 1
      BY <1>1, <1>4
    <2>2. \A k \in 1 .. Len(items) + 1 : k \in 1 .. Len(items) \/ k = Len(items) + 1
      BY <1>1
    <2>3. \A k \in 1 .. Len(items) + 1 :
             \/ k \in 1 .. Len(items) /\ all[k] = items[k]
             \/ k = Len(items) + 1 /\ all[k] = new
      BY <1>4, <2>2
    <2>4. QED
      BY <1>2, <2>1, <2>3
  <1>6. IdsGrow(all) /\ \A x : Listed(all, x) => Listed(items, x) \/ x = nextId
    <2>1. ASSUME NEW i \in DOMAIN all, NEW j \in DOMAIN all, i < j
          PROVE  all[i].id < all[j].id
      <3>1. i \in DOMAIN items /\ all[i] = items[i]
        BY <1>1, <1>5, <2>1
      <3>2. CASE j \in DOMAIN items /\ all[j] = items[j]
        BY <2>1, <3>1, <3>2 DEF IdsGrow
      <3>3. CASE j = Len(items) + 1 /\ all[j].id = nextId
        BY <1>1, <3>1, <3>3
      <3>4. QED
        BY <1>5, <3>2, <3>3
    <2>2. QED
      BY <1>5, <2>1 DEF IdsGrow, Listed
  <1>7. CASE items' = all
    BY <1>6, <1>7 DEF Grown
  <1>8. CASE items' = Tail(all)
    <2>1. all # <<>>
      BY <1>1, <1>4
    <2>2. /\ DOMAIN items' = 1 .. Len(items)
          /\ \A k \in 1 .. Len(items) : items'[k] = all[k + 1] /\ k + 1 \in DOMAIN all
      BY <1>1, <1>4, <1>5, <1>8, <2>1, TailFacts
    <2>3. \A i, j \in 1 .. Len(items) : i < j => i + 1 < j + 1
      BY <1>1
    <2>4. IdsGrow(items')
      BY <1>6, <2>2, <2>3 DEF IdsGrow
    <2>5. \A x : Listed(items', x) => Listed(all, x)
      BY <2>2 DEF Listed
    <2>6. QED
      BY <1>6, <2>4, <2>5 DEF Grown
  <1>9. QED
    BY <1>3, <1>7, <1>8

LEMMA GrowKept ==
    ASSUME IInv, IdsGrow(items), Next
    PROVE  Grown
  <1>1. nextId \in Nat \ {0} /\ ListOK(items, nextId) /\ items \in Seq(ItemT)
    BY DEF IInv, TypeInv, ListOK
  <1>2. CASE items' = items
    BY <1>2, SameGrown DEF SameIds
  <1>3. SameIds(items, items)
    BY DEF SameIds
  <1>4. ASSUME NEW c \in Calls, User(c)
        PROVE  Grown
    <2>1. CASE SendWhilePaused(c)
      BY <2>1, EnqueueGrown DEF SendWhilePaused
    <2>2. CASE ResumeBound(c)
      BY <1>1, <1>3, <2>2, DispatchGrown DEF ResumeBound
    <2>3. CASE SendBound(c) \/ SendUnbound(c) \/ ResumeUnbound(c) \/ Stop(c)
               \/ QueueItem(c, "edit") \/ QueueItem(c, "remove")
      BY <1>2, <2>3 DEF SendBound, SendUnbound, ResumeUnbound, Stop, QueueItem, record
    <2>4. QED
      BY <1>4, <2>1, <2>2, <2>3 DEF User
  <1>5. ASSUME NEW c \in Calls, Handler(c)
        PROVE  Grown
    <2>1. CASE ResumeCreated(c)
      BY <1>1, <1>3, <2>1, DispatchGrown DEF ResumeCreated
    <2>2. CASE ResumeAccepted(c)
      <3> DEFINE its == MarkSubmitted(items, call[c].item, call[c].req)
      <3>1. DispatchNext(c, call[c].session, its, paused)
        BY <2>2 DEF ResumeAccepted
      <3>2. ListOK(its, nextId)
        BY <1>1, MarkFacts DEF IInv, TypeInv, Minted, CallT
      <3>3. SameIds(its, items)
        BY <1>1, OpsKeepIds
      <3> HIDE DEF its
      <3>4. QED
        BY <3>1, <3>2, <3>3, DispatchGrown
    <2>3. CASE ResumeUnacknowledged(c) \/ StopFolds(c) \/ StopRemoved(c)
      <3>1. SameIds(items', items)
        BY <1>1, <2>3, OpsKeepIds DEF ResumeUnacknowledged, StopFolds, StopRemoved
      <3>2. QED
        BY <3>1, SameGrown
    <2>4. CASE SendCreated(c) \/ SendAnswered(c) \/ StopCancelled(c) \/ QueueItemAnswered(c)
               \/ Rejected(c)
      BY <1>2, <2>4 DEF SendCreated, SendAnswered, StopCancelled, QueueItemAnswered, Rejected,
                        record
    <2>5. QED
      BY <1>5, <2>1, <2>2, <2>3, <2>4 DEF Handler
  <1>6. ASSUME NEW k \in DOMAIN items, EditItem(k) \/ RemoveItem(k)
        PROVE  Grown
    <2>1. CASE EditItem(k)
      <3>1. SameIds(items', items)
        BY <1>1, <2>1, OpsKeepIds DEF EditItem
      <3>2. QED
        BY <3>1, SameGrown
    <2>2. CASE RemoveItem(k)
      <3>1. items' = Without(items, k) /\ Len(items) \in Nat /\ DOMAIN items = 1 .. Len(items)
        BY <1>1, <2>2 DEF RemoveItem
      <3>2. /\ DOMAIN items' = 1 .. Len(items) - 1
            /\ \A j \in 1 .. Len(items) - 1 :
                  Over(k, j) \in DOMAIN items /\ items'[j] = items[Over(k, j)]
        <4>1. \A j \in 1 .. Len(items) - 1 :
                 Over(k, j) \in DOMAIN items /\ Without(items, k)[j] = items[Over(k, j)]
          BY <1>1, WithoutFacts
        <4>2. DOMAIN Without(items, k) = 1 .. Len(items) - 1
          BY DEF Without
        <4>3. QED
          BY <3>1, <4>1, <4>2
      <3>3. \A i, j \in 1 .. Len(items) - 1 : i < j => Over(k, i) < Over(k, j)
        BY <3>1 DEF Over
      <3>4. IdsGrow(items')
        BY <3>2, <3>3 DEF IdsGrow
      <3>5. \A x : Listed(items', x) => Listed(items, x)
        BY <3>2 DEF Listed
      <3>6. QED
        BY <3>4, <3>5 DEF Grown
    <2>3. QED
      BY <1>6, <2>1, <2>2
  <1>7. ASSUME NEW c \in Calls, TimedOut(c)
        PROVE  Grown
    BY <1>2, <1>7 DEF TimedOut, record
  <1>8. ASSUME NEW r \in host, Host(r)
        PROVE  Grown
    BY <1>2, <1>8 DEF Host, record
  <1>9. ASSUME NEW s \in Sessions, TurnTakes(s)
        PROVE  Grown
    BY <1>2, <1>9 DEF TurnTakes, record
  <1>10. CASE Crash
    BY <1>2, <1>10 DEF Crash, record
  <1>11. QED
    BY <1>4, <1>5, <1>6, <1>7, <1>8, <1>9, <1>10 DEF Next

-----------------------------------------------------------------------------
(* With one call at a time, the queue follows the list.                      *)

Coming(x) == Pend(items, x) \/ Prompted(x) \/ Returns(x)

Withdrawing(x, y) ==
    \E c \in Calls : call[c].at = "remove" /\ x <= call[c].item /\ call[c].item <= y

Prompting(c, x) == call[c].at = "prompt" /\ call[c].item = x

\* What is queued in the other order lost its place when a turn took one between.
InOrder == \A x, y :
    Listed(items, x) /\ Listed(items, y) /\ x < y /\ AheadOf(y, x) => TakenBetween(x, y)

\* An input is still to come while a later one is queued only if a stop is
\* withdrawing from the one to the other, or failed to at one that a turn took.
Overtaken == \A x, y :
    Listed(items, x) /\ Listed(items, y) /\ x < y /\ Coming(x) /\ InInbox(y)
        => TakenBetween(x, y) \/ Withdrawing(x, y)

\* What resume sends comes before all that is pending.
SendsFirst == \A c \in Calls : call[c].at = "prompt" /\ call[c].item # 0 =>
    \A x : Pend(items, x) => call[c].item < x

\* A stop still has to withdraw all that is queued behind what it withdraws now.
TodoFollows == \A c \in Calls : call[c].at = "remove" /\ call[c].item # 0 =>
    /\ \A t \in call[c].todo : call[c].item < t.id
    /\ \A t, u \in call[c].todo : t.id = u.id => t = u
    /\ \A y : Listed(items, y) /\ InInbox(y) /\ call[c].item < y =>
          \E t \in call[c].todo : t.id = y

\* A listed input that is queued is recorded as submitted, by the request that
\* queued it, or its prompt is not answered yet.
QueuedIsSent == \A q, y, p, st : BoxTag(q, y) /\ Is(items, y, p, st) =>
    \/ st = "submitted" /\ p = q /\ \A c \in Calls : ~ Prompting(c, y)
    \/ \E c \in Calls : Prompting(c, y) /\ call[c].req = q

\* A report names all that is queued, and what it names is queued or was taken.
ReportHolds == \A n \in DOMAIN wire : wire[n].answer = "reported" =>
    /\ \A q, x : BoxTag(q, x) => q \in wire[n].value
    /\ \A q, x : q \in wire[n].value /\ Is(items, x, q, "submitted") => Landed(q, x)

\* What a stop withdraws is queued or was taken,
TodoLanded ==
    /\ \A r \in host : r.kind = "remove" /\ r.item # 0 => Landed(r.req, r.item)
    /\ \A c \in Calls : \A t \in call[c].todo : Landed(t.req, t.id)

\* and was taken if its withdrawal is refused.
RefusedWasTaken == \A n \in DOMAIN wire : wire[n].answer = "refused" =>
    LET cl == call[wire[n].call] IN
    /\ cl.at \in {"remove", "edit"}
    /\ cl.at = "remove" /\ cl.item # 0 => WasTaken(cl.item)

Follows ==
    /\ IdsGrow(items) /\ InOrder /\ Overtaken /\ SendsFirst /\ TodoFollows
    /\ QueuedIsSent /\ ReportHolds /\ TodoLanded /\ RefusedWasTaken

\* Identities are numbers, and what is queued was minted.
LEMMA Numbers ==
    ASSUME IInv
    PROVE  /\ nextId \in Nat \ {0}
           /\ \A x : Listed(items, x) => x \in Nat \ {0} /\ x < nextId
           /\ \A x : InInbox(x) => x \in Nat /\ x < nextId
           /\ \A x : Pend(items, x) => Listed(items, x)
           /\ \A x, p, st : Is(items, x, p, st) => Listed(items, x)
           /\ \A x : Listed(items, x) => \E p, st : Is(items, x, p, st)
           /\ \A x : InInbox(x) <=> \E q : BoxTag(q, x)
           /\ \A y, x : AheadOf(y, x) => InInbox(y) /\ InInbox(x)
           /\ \A q, x : BoxTag(q, x) => q # 0
           /\ \A c \in Calls : call[c].item \in Nat /\ call[c].item < nextId
  <1>1. /\ nextId \in Nat \ {0} /\ call \in [Calls -> CallT]
        /\ \A k \in DOMAIN items : items[k] \in ItemT /\ items[k].id < nextId
    BY DEF IInv, TypeInv, ListOK
  <1>2. \A s \in Sessions : \A k \in DOMAIN inbox[s] :
           inbox[s][k] \in OccurrenceT /\ inbox[s][k].item < nextId
    BY DEF IInv, TypeInv, Minted
  <1>3. \A x : Listed(items, x) => x \in Nat \ {0} /\ x < nextId
    BY <1>1 DEF Listed, ItemT
  <1>4. \A x : InInbox(x) => x \in Nat /\ x < nextId
    BY <1>2 DEF InInbox, OccurrenceT
  <1>5. \A q, x : BoxTag(q, x) => q # 0
    BY <1>2 DEF BoxTag, OccurrenceT
  <1>6. \A c \in Calls : call[c].item \in Nat /\ call[c].item < nextId
    BY <1>1 DEF CallT, IInv, Minted
  <1>7. \A x : InInbox(x) <=> \E q : BoxTag(q, x)
    BY DEF InInbox, BoxTag
  <1>8. \A y, x : AheadOf(y, x) => InInbox(y) /\ InInbox(x)
    BY DEF AheadOf, InInbox
  <1>9. /\ \A x : Pend(items, x) => Listed(items, x)
        /\ \A x, p, st : Is(items, x, p, st) => Listed(items, x)
        /\ \A x : Listed(items, x) => \E p, st : Is(items, x, p, st)
    BY DEF Pend, Listed, Is
  <1>10. QED
    BY <1>1, <1>3, <1>4, <1>5, <1>6, <1>7, <1>8, <1>9

LEMMA QueuedHasTag ==
    /\ \A x : InInbox(x) <=> \E q : BoxTag(q, x)
    /\ \A x : InInbox(x)' <=> \E q : BoxTag(q, x)'
  BY DEF InInbox, BoxTag

LEMMA FollowsRests ==
    ASSUME IInv, Follows, Grown, Rests
    PROVE  Follows'
  <1>1. /\ UNCHANGED <<call, host, wire, inbox, taken>>
        /\ \A x, p, st : Is(items', x, p, st) =>
              Is(items, x, p, st) \/ (x = nextId /\ p = 0 /\ st = "pending")
        /\ \A x : Listed(items', x) => Listed(items, x) \/ x = nextId
        /\ IdsGrow(items)'
    BY DEF Rests, Grown
  <1>2. /\ nextId \in Nat \ {0} /\ ~ InInbox(nextId)
        /\ \A c \in Calls : call[c].item \in Nat /\ call[c].item < nextId
        /\ \A x : Listed(items, x) => x \in Nat /\ x < nextId
        /\ \A x : InInbox(x) => x \in Nat /\ x < nextId
        /\ \A q, x : BoxTag(q, x) => InInbox(x)
        /\ \A y, x : AheadOf(y, x) => InInbox(y) /\ InInbox(x)
    BY Numbers, TagsAreMinted
  <1>3. \A x : Pend(items', x) => Pend(items, x) \/ x = nextId
    <2>1. /\ \A x : Pend(items', x) => \E p : Is(items', x, p, "pending")
          /\ \A x, p : Is(items, x, p, "pending") => Pend(items, x)
      BY DEF Pend, Is
    <2>2. QED
      BY <1>1, <2>1
  <1>4. /\ \A q, x : BoxTag(q, x)' <=> BoxTag(q, x)
        /\ \A x : InInbox(x)' <=> InInbox(x)
        /\ \A x : WasTaken(x)' <=> WasTaken(x)
        /\ \A q, x : Landed(q, x)' <=> Landed(q, x)
        /\ \A y, x : AheadOf(y, x)' <=> AheadOf(y, x)
        /\ \A x, y : TakenBetween(x, y)' <=> TakenBetween(x, y)
        /\ \A x, y : Withdrawing(x, y)' <=> Withdrawing(x, y)
        /\ \A x : Coming(x)' => Coming(x) \/ x = nextId
    BY <1>1, <1>3 DEF BoxTag, InInbox, WasTaken, Landed, AheadOf, TakenBetween, Withdrawing,
                      Coming, Prompted, Returns, Returning
  <1>5. InOrder'
    BY <1>1, <1>2, <1>4 DEF Follows, InOrder
  <1>6. Overtaken'
    <2>1. \A x, y : x = nextId /\ x < y => ~ InInbox(y)
      BY <1>2
    <2>2. QED
      BY <1>1, <1>2, <1>4, <2>1 DEF Follows, Overtaken
  <1>7. SendsFirst'
    BY <1>1, <1>2, <1>3 DEF Follows, SendsFirst
  <1>8. TodoFollows'
    BY <1>1, <1>2, <1>4 DEF Follows, TodoFollows
  <1>9. QueuedIsSent'
    BY <1>1, <1>2, <1>4 DEF Follows, QueuedIsSent, Prompting
  <1>10. ReportHolds'
    BY <1>1, <1>4 DEF Follows, ReportHolds
  <1>11. TodoLanded' /\ RefusedWasTaken'
    BY <1>1, <1>4 DEF Follows, TodoLanded, RefusedWasTaken
  <1>12. QED
    BY <1>1, <1>5, <1>6, <1>7, <1>8, <1>9, <1>10, <1>11 DEF Follows

LEMMA FollowsTurn ==
    ASSUME IInv, Follows, NEW s \in Sessions, TurnTakes(s)
    PROVE  Follows'
  <1>1. /\ UNCHANGED <<items, call, host, wire>> /\ taken \subseteq taken'
        /\ \A q, x : BoxTag(q, x)' => BoxTag(q, x)
        /\ \A q, x : BoxTag(q, x) => BoxTag(q, x)' \/ WasTaken(x)'
        /\ \A y, x : AheadOf(y, x)' => AheadOf(y, x)
    BY TurnMoves
  <1>2. /\ \A x : InInbox(x)' => InInbox(x)
        /\ \A x : WasTaken(x) => WasTaken(x)'
        /\ \A x, y : TakenBetween(x, y) => TakenBetween(x, y)'
        /\ \A x, y : Withdrawing(x, y)' <=> Withdrawing(x, y)
        /\ \A x : Coming(x)' <=> Coming(x)
    <2>1. \A x : InInbox(x)' => InInbox(x)
      BY <1>1, QueuedHasTag
    <2>2. QED
      BY <1>1, <2>1 DEF WasTaken, TakenBetween, Withdrawing, Coming, Prompted, Returns, Returning
  <1>3. \A q, x : Landed(q, x) => Landed(q, x)'
    BY <1>1, <1>2 DEF Landed
  <1>4. InOrder'
    BY <1>1, <1>2 DEF Follows, InOrder
  <1>5. Overtaken'
    BY <1>1, <1>2 DEF Follows, Overtaken
  <1>6. SendsFirst'
    BY <1>1 DEF Follows, SendsFirst
  <1>7. TodoFollows'
    BY <1>1, <1>2 DEF Follows, TodoFollows
  <1>8. QueuedIsSent'
    BY <1>1 DEF Follows, QueuedIsSent, Prompting
  <1>9. ReportHolds'
    BY <1>1, <1>3 DEF Follows, ReportHolds
  <1>10. TodoLanded' /\ RefusedWasTaken'
    BY <1>1, <1>2, <1>3 DEF Follows, TodoLanded, RefusedWasTaken
  <1>11. IdsGrow(items)'
    BY <1>1 DEF Follows
  <1>12. QED
    BY <1>4, <1>5, <1>6, <1>7, <1>8, <1>9, <1>10, <1>11 DEF Follows

LEMMA FollowsHost ==
    ASSUME IInv, Made, Sole, Fresh, Follows, \A c, d \in Calls : c = d,
           Faults \cap {"refused", "lag"} = {},
           NEW r \in host, NEW a, NEW v, Acts(r, a, v)
    PROVE  Follows'
  <1>1. /\ UNCHANGED <<items, call, nextId, taken>> /\ host' = host \ {r} /\ Fits(a, r.kind)
        /\ a = "reported" => v = AllQueued(r.session)
        /\ a = "refused" => r.kind \in {"remove", "edit"} /\ ~ IsQueued(r)
        /\ \A q, x : BoxTag(q, x)' => BoxTag(q, x) \/ (a = "accepted" /\ q = r.req /\ x = r.item)
        /\ \A q, x : BoxTag(q, x) => BoxTag(q, x)' \/ (a = "removed" /\ q = r.req)
        /\ \A y, x : AheadOf(y, x)' => \/ AheadOf(y, x)
                                       \/ a = "accepted" /\ x = r.item /\ InInbox(y)
        /\ r.call # None
    BY DEF Acts, Reports, Sole
  <1>2. PICK last :
           /\ last \notin DOMAIN wire /\ DOMAIN wire' = DOMAIN wire \cup {last}
           /\ \A n \in DOMAIN wire : wire'[n] = wire[n] /\ n < last /\ n \in Nat
           /\ last \in Nat
           /\ wire'[last].call = r.call /\ wire'[last].answer = a /\ wire'[last].value = v
           /\ r.call \in Calls
    BY <1>1, WireGrows
  <1>3. /\ call[r.call].at = r.kind /\ call[r.call].item = r.item
        /\ r.kind = "prompt" => call[r.call].req = r.req
        /\ \A c \in Calls : c = r.call
    <2>1. call[r.call].at = r.kind /\ call[r.call].item = r.item
      BY <1>1 DEF IInv, Owned
    <2>2. r.kind = "prompt" => call[r.call].req = r.req
      BY <1>1 DEF Fresh
    <2>3. QED
      BY <1>2, <2>1, <2>2
  <1>4. DOMAIN wire = {} /\ DOMAIN wire' = {last} /\ host' = {}
    <2>1. \A n \in DOMAIN wire : wire[n].call \in Calls
      <3>1. wire \in Seq(MessageT)
        BY DEF IInv, TypeInv
      <3>2. \A n \in DOMAIN wire : wire[n] \in MessageT
        BY <3>1
      <3>3. QED
        BY <3>2 DEF MessageT
    <2>2. \A n \in DOMAIN wire : wire[n].call # r.call
      BY DEF IInv, Owned
    <2>3. DOMAIN wire = {}
      BY <1>3, <2>1, <2>2
    <2>4. \A q \in host : q.call \in Calls
      BY DEF Sole, IInv, TypeInv, RequestT
    <2>5. \A q \in host : q = r
      BY <1>1, <1>3, <2>4 DEF IInv, Owned
    <2>6. QED
      BY <1>1, <1>2, <2>3, <2>5
  <1>5. /\ \A x : Listed(items', x) <=> Listed(items, x)
        /\ \A x, p, st : Is(items', x, p, st) <=> Is(items, x, p, st)
        /\ \A x : WasTaken(x)' <=> WasTaken(x)
        /\ \A x, y : TakenBetween(x, y)' <=> TakenBetween(x, y)
        /\ \A x, y : Withdrawing(x, y)' <=> Withdrawing(x, y)
        /\ \A c \in Calls : call'[c] = call[c]
    BY <1>1 DEF WasTaken, TakenBetween, Withdrawing
  <1>6. \A x : InInbox(x)' => InInbox(x) \/ (a = "accepted" /\ x = r.item)
    BY <1>1, QueuedHasTag
  <1>7. \A x : Coming(x)' => Pend(items, x) \/ (a \in {"unrecognised", "removed"} /\ x = r.item)
    <2>1. \A x : ~ Prompted(x)'
      BY <1>4 DEF Prompted
    <2>2. \A x : Returns(x)' => a \in {"unrecognised", "removed"} /\ x = r.item
      <3>1. \A c \in Calls : Returning(c)' => a \in {"unrecognised", "removed"} /\ c = r.call
        BY <1>2, <1>4 DEF Returning
      <3>2. QED
        BY <1>1, <1>3, <3>1 DEF Returns
    <2>3. QED
      BY <1>1, <2>1, <2>2 DEF Coming
  <1>8. a \in {"accepted", "unrecognised"} => Prompted(r.item) /\ Prompting(r.call, r.item)
    BY <1>1, <1>3 DEF Fits, Prompted, Prompting
  <1>9. /\ \A x : Listed(items, x) => x \in Nat \ {0}
        /\ \A x : InInbox(x) => x \in Nat
        /\ \A q, x : BoxTag(q, x) => q # 0 /\ InInbox(x)
        /\ r.item \in Nat
    BY <1>2, <1>3, Numbers
  <1>10. InOrder'
    <2>1. ASSUME NEW x, NEW y, Listed(items, x), Listed(items, y), x < y, AheadOf(y, x)'
          PROVE  TakenBetween(x, y)
      <3>1. CASE AheadOf(y, x)
        BY <2>1, <3>1 DEF Follows, InOrder
      <3>2. CASE a = "accepted" /\ x = r.item /\ InInbox(y)
        <4>1. Coming(x) /\ \A c \in Calls : call[c].at # "remove"
          BY <1>3, <1>8, <3>2 DEF Coming, Prompting
        <4>2. QED
          BY <2>1, <3>2, <4>1 DEF Follows, Overtaken, Withdrawing
      <3>3. QED
        BY <1>1, <2>1, <3>1, <3>2
    <2>2. QED
      BY <1>5, <2>1 DEF InOrder
  <1>11. Overtaken'
    <2>1. ASSUME NEW x, NEW y, Listed(items, x), Listed(items, y), x < y,
                 Coming(x)', InInbox(y)'
          PROVE  TakenBetween(x, y) \/ Withdrawing(x, y)
      <3>1. CASE a = "accepted" /\ y = r.item
        <4>1. Pend(items, x) /\ call[r.call].at = "prompt" /\ call[r.call].item = y /\ y # 0
          BY <1>3, <1>7, <1>8, <1>9, <2>1, <3>1 DEF Prompting
        <4>2. y < x
          BY <1>2, <4>1 DEF Follows, SendsFirst
        <4>3. QED
          BY <1>9, <2>1, <4>2
      <3>2. CASE InInbox(y) /\ a # "removed"
        <4>1. Coming(x)
          BY <1>7, <1>8, <2>1, <3>2 DEF Coming
        <4>2. QED
          BY <2>1, <3>2, <4>1 DEF Follows, Overtaken
      <3>3. CASE InInbox(y) /\ a = "removed"
        <4>1. CASE Pend(items, x)
          BY <2>1, <3>3, <4>1 DEF Follows, Overtaken, Coming
        <4>2. CASE x = r.item
          <5>1. call[r.call].at = "remove" /\ call[r.call].item = x
            BY <1>1, <1>3, <3>3, <4>2 DEF Fits
          <5>2. x <= x /\ x <= y
            BY <1>9, <2>1
          <5>3. QED
            BY <1>2, <5>1, <5>2 DEF Withdrawing
        <4>3. QED
          BY <1>7, <2>1, <4>1, <4>2
      <3>4. QED
        BY <1>6, <2>1, <3>1, <3>2, <3>3
    <2>2. QED
      BY <1>5, <2>1 DEF Overtaken
  <1>12. SendsFirst'
    BY <1>1 DEF Follows, SendsFirst
  <1>13. TodoFollows'
    <2>1. ASSUME NEW c \in Calls, call[c].at = "remove"
          PROVE  \A y : InInbox(y)' => InInbox(y)
      BY <1>3, <1>6, <1>8, <2>1 DEF Prompting
    <2>2. QED
      BY <1>1, <1>5, <2>1 DEF Follows, TodoFollows
  <1>14. QueuedIsSent'
    <2>1. ASSUME NEW q, NEW y, NEW p, NEW st, BoxTag(q, y)', Is(items, y, p, st)
          PROVE  \/ st = "submitted" /\ p = q /\ \A c \in Calls : ~ Prompting(c, y)
                 \/ \E c \in Calls : Prompting(c, y) /\ call[c].req = q
      <3>1. CASE BoxTag(q, y)
        BY <2>1, <3>1 DEF Follows, QueuedIsSent
      <3>2. CASE a = "accepted" /\ q = r.req /\ y = r.item
        BY <1>1, <1>2, <1>3, <1>8, <3>2 DEF Fits
      <3>3. QED
        BY <1>1, <2>1, <3>1, <3>2
    <2>2. \A c \in Calls : \A y : Prompting(c, y)' <=> Prompting(c, y)
      BY <1>1 DEF Prompting
    <2>3. QED
      BY <1>1, <1>5, <2>1, <2>2 DEF QueuedIsSent
  <1>15. ReportHolds'
    <2>1. CASE a # "reported"
      BY <1>2, <1>4, <2>1 DEF ReportHolds
    <2>2. CASE a = "reported"
      <3>1. /\ v = AllQueued(r.session) /\ r.session \in created
            /\ \A q, x : BoxTag(q, x)' <=> BoxTag(q, x)
        BY <1>1, <2>2 DEF Fits, Made
      <3>2. \A q, x : BoxTag(q, x) => q \in v
        <4>1. ASSUME NEW q, NEW x, BoxTag(q, x)
              PROVE  q \in v
          <5>1. PICK s \in Sessions : \E k \in DOMAIN inbox[s] : inbox[s][k].req = q
            BY <4>1 DEF BoxTag
          <5>2. s = r.session
            BY <3>1, <5>1 DEF Made, Sole
          <5>3. QED
            BY <3>1, <5>1, <5>2 DEF AllQueued
        <4>2. QED
          BY <4>1
      <3>3. ASSUME NEW q \in v, NEW x, Is(items, x, q, "submitted")
            PROVE  BoxTag(q, x)
        <4>1. PICK z : BoxTag(q, z)
          <5>1. r.session \in Sessions
            BY <3>1 DEF IInv, TypeInv
          <5>2. PICK k \in DOMAIN inbox[r.session] : inbox[r.session][k].req = q
            BY <3>1, <3>3 DEF AllQueued
          <5>3. BoxTag(q, inbox[r.session][k].item)
            BY <5>1, <5>2 DEF BoxTag
          <5>4. QED
            BY <5>3
        <4>2. IsTag(q, z) /\ IsTag(q, x) /\ q # 0
          BY <1>9, <3>3, <4>1 DEF IsTag, ItemTag, Is
        <4>3. QED
          BY <4>1, <4>2 DEF IInv, TagsAgree
      <3>4. QED
        BY <1>2, <1>4, <1>5, <3>1, <3>2, <3>3 DEF ReportHolds, Landed
    <2>3. QED
      BY <2>1, <2>2
  <1>16. TodoLanded'
    <2>1. ASSUME NEW c \in Calls, NEW t \in call[c].todo
          PROVE  Landed(t.req, t.id)'
      <3>1. Landed(t.req, t.id)
        BY <2>1 DEF Follows, TodoLanded
      <3>2. ~ (BoxTag(t.req, t.id) /\ a = "removed" /\ t.req = r.req)
        <4>1. SUFFICES ASSUME BoxTag(t.req, t.id), a = "removed", t.req = r.req
                       PROVE  FALSE
          OBVIOUS
        <4>2. r.kind = "remove" /\ r.item # 0 /\ call[c].item = r.item
          BY <1>1, <1>3, <2>1, <4>1 DEF Fits, Made, CallFits
        <4>3. IsTag(t.req, t.id) /\ IsTag(t.req, r.item) /\ t.req # 0
          BY <1>9, <4>1, <4>2 DEF IsTag, HostTag
        <4>4. t.id = r.item
          BY <4>3 DEF IInv, TagsAgree
        <4>5. r.item < t.id
          BY <1>3, <2>1, <4>2 DEF Follows, TodoFollows
        <4>6. QED
          BY <1>9, <4>4, <4>5
      <3>3. QED
        BY <1>1, <1>5, <3>1, <3>2 DEF Landed
    <2>2. QED
      BY <1>4, <1>5, <2>1 DEF TodoLanded
  <1>17. RefusedWasTaken'
    <2>1. CASE a # "refused"
      BY <1>2, <1>4, <2>1 DEF RefusedWasTaken
    <2>2. CASE a = "refused"
      <3>1. r.kind \in {"remove", "edit"} /\ ~ IsQueued(r) /\ r.session \in created
        BY <1>1, <2>2 DEF Made
      <3>2. ASSUME r.kind = "remove", r.item # 0
            PROVE  WasTaken(r.item)
        <4>1. SUFFICES ASSUME BoxTag(r.req, r.item) PROVE FALSE
          BY <3>2 DEF Follows, TodoLanded, Landed
        <4>2. PICK s \in Sessions : \E k \in DOMAIN inbox[s] : inbox[s][k].req = r.req
          BY <4>1 DEF BoxTag
        <4>3. s = r.session
          BY <3>1, <4>2 DEF Made, Sole
        <4>4. QED
          BY <3>1, <4>2, <4>3 DEF IsQueued
      <3>3. QED
        BY <1>1, <1>2, <1>3, <1>4, <1>5, <3>1, <3>2 DEF RefusedWasTaken
    <2>3. QED
      BY <2>1, <2>2
  <1>18. IdsGrow(items)'
    BY <1>1 DEF Follows
  <1>19. QED
    BY <1>10, <1>11, <1>12, <1>13, <1>14, <1>15, <1>16, <1>17, <1>18 DEF Follows

\* What a handler may have been answered, where it waits.
LEMMA GotWhat ==
    ASSUME IInv, NEW c \in Calls, Frees(c), call[c].at # "idle"
    PROVE  /\ wire # <<>> /\ Head(wire).call = c /\ wire' = Tail(wire)
           /\ Head(wire) = wire[1] /\ 1 \in DOMAIN wire
           /\ call[c].at = "remove" => Gets(c, "removed") \/ Gets(c, "refused")
           /\ call[c].at = "prompt" =>
                 Gets(c, "accepted") \/ Gets(c, "unrecognised") \/ Gets(c, "refused")
  <1>1. wire # <<>> /\ Head(wire).call = c /\ wire' = Tail(wire)
    BY DEF Frees
  <1>2. /\ Head(wire) \in MessageT /\ Fits(Answer, call[c].at)
        /\ Head(wire) = wire[1] /\ 1 \in DOMAIN wire
    BY <1>1, Got
  <1>3. Answer \in {"refused", "created", "accepted", "unrecognised", "cancelled", "reported",
                    "removed", "edited"}
    BY <1>2 DEF MessageT, Answer
  <1>4. QED
    BY <1>1, <1>2, <1>3 DEF Gets, Fits

\* A prompt that carries a kept input carries the first one pending.
LEMMA FirstIsSent ==
    ASSUME NEW c, NEW new, NEW q, CallMade(c, new, q), IdsGrow(items)
    PROVE  /\ q.kind = new.at /\ q.item = new.item
           /\ q.kind = "prompt" /\ q.item # 0 =>
                 Pend(items, q.item) /\ \A x : Pend(items', x) => q.item < x
  <1>1. q.kind = new.at /\ q.item = new.item
    BY DEF CallMade
  <1>2. ASSUME q.kind = "prompt", q.item # 0
        PROVE  Pend(items, q.item) /\ \A x : Pend(items', x) => q.item < x
    BY <1>2 DEF CallMade
  <1>3. QED
    BY <1>1, <1>2

LEMMA FollowsMain ==
    ASSUME IInv, IInv', Made, Sole, Follows, Grown, \A c, d \in Calls : c = d,
           NEW c \in Calls, NEW new, Advances(c, new)
    PROVE  Follows'
  <1>1. /\ Frees(c) /\ UNCHANGED <<created, inbox, taken>> /\ call' = [call EXCEPT ![c] = new]
        /\ CallFits(new)
        /\ \/ new.at = "idle" /\ host' = host
           \/ \E q \in RequestT : host' = host \cup {q} /\ CallMade(c, new, q)
        /\ Gets(c, "removed") /\ call[c].todo # {} => new.at = "remove"
        /\ \A x, p, st : Is(items', x, p, st) => Turns(c, x, p, st)
        /\ IdsGrow(items)' /\ \A x : Listed(items', x) => Listed(items, x) \/ x = nextId
    BY DEF Advances, base, Grown
  <1>2. \A d \in Calls : d = c /\ call'[d] = new
    BY <1>1 DEF IInv, TypeInv
  <1>3. host = {}
    <2>1. \A r \in host : r.call \in Calls
      BY DEF Sole, IInv, TypeInv, RequestT
    <2>2. \A r \in host : r.call # c
      BY <1>1, FreesFacts
    <2>3. QED
      BY <1>2, <2>1, <2>2
  <1>4. DOMAIN wire' = {}
    <2>1. wire' \in Seq(MessageT)
      BY DEF IInv, TypeInv
    <2>2. \A n \in DOMAIN wire' : wire'[n] \in MessageT
      BY <2>1
    <2>3. \A n \in DOMAIN wire' : wire'[n].call \in Calls
      BY <2>2 DEF MessageT
    <2>4. \A n \in DOMAIN wire' : wire'[n].call # c
      BY <1>1, FreesFacts
    <2>5. QED
      BY <1>2, <2>3, <2>4
  <1>5. /\ \A q, x : BoxTag(q, x)' <=> BoxTag(q, x)
        /\ \A x : InInbox(x)' <=> InInbox(x)
        /\ \A x : WasTaken(x)' <=> WasTaken(x)
        /\ \A q, x : Landed(q, x)' <=> Landed(q, x)
        /\ \A y, x : AheadOf(y, x)' <=> AheadOf(y, x)
        /\ \A x, y : TakenBetween(x, y)' <=> TakenBetween(x, y)
    BY <1>1 DEF BoxTag, InInbox, WasTaken, Landed, AheadOf, TakenBetween
  <1>6. /\ nextId \in Nat \ {0} /\ ~ InInbox(nextId)
        /\ call[c].item \in Nat /\ call[c].item < nextId
        /\ \A x : Listed(items, x) => x \in Nat \ {0} /\ x < nextId
        /\ \A x : InInbox(x) => x \in Nat /\ x < nextId
        /\ \A q, x : BoxTag(q, x) => InInbox(x) /\ q # 0
        /\ \A x, p, st : Is(items, x, p, st) => Listed(items, x)
        /\ \A x : Pend(items, x) => Listed(items, x)
        /\ \A y, x : AheadOf(y, x) => InInbox(y) /\ InInbox(x)
    BY Numbers, TagsAreMinted
  <1>7. \A x : Pend(items', x) => Pend(items, x) \/ (Returns(x) /\ x = call[c].item)
    <2>1. /\ \A x : Pend(items', x) => \E p : Is(items', x, p, "pending")
          /\ \A x, p : Is(items, x, p, "pending") => Pend(items, x)
      BY DEF Pend, Is
    <2>2. QED
      BY <1>1, <2>1 DEF Turns, Returns
  <1>8. \A x : x # 0 /\ Coming(x)' => Coming(x)
    <2>1. \A x : ~ Returns(x)'
      BY <1>4 DEF Returns, Returning
    <2>2. ASSUME NEW r \in host', r.kind = "prompt", r.item # 0
          PROVE  Pend(items, r.item)
      <3>1. CallMade(c, new, r) /\ IdsGrow(items)
        BY <1>1, <1>3, <2>2 DEF Follows
      <3>2. QED
        BY <2>2, <3>1, FirstIsSent
    <2>3. QED
      BY <1>7, <2>1, <2>2 DEF Coming, Prompted
  <1>9. /\ \A n \in DOMAIN wire : wire[n].call = c
        /\ Gets(c, "refused") => /\ call[c].at \in {"remove", "edit"}
                                 /\ call[c].at = "remove" /\ call[c].item # 0
                                       => WasTaken(call[c].item)
    <2>1. wire \in Seq(MessageT)
      BY DEF IInv, TypeInv
    <2>2. \A n \in DOMAIN wire : wire[n] \in MessageT
      BY <2>1
    <2>3. \A n \in DOMAIN wire : wire[n].call \in Calls
      BY <2>2 DEF MessageT
    <2>4. Gets(c, "refused") => /\ Head(wire) = wire[1] /\ 1 \in DOMAIN wire
                                /\ wire[1].answer = "refused" /\ wire[1].call = c
      BY Got DEF Gets, Answer
    <2>5. QED
      BY <1>2, <2>3, <2>4 DEF Follows, RefusedWasTaken
  <1>10. /\ \A todo : Draws(c, todo) => \A i \in todo : i \in ItemT
         /\ \A todo : Draws(c, todo) => \A i, j \in todo : i.id = j.id => i = j
    <2>1. call[c] \in CallT /\ \A k \in DOMAIN items : items[k] \in ItemT
      BY DEF IInv, TypeInv, ListOK
    <2>2. \A i, j \in Ours(items, Value) : i.id = j.id => i = j
      BY DEF IInv, ListOK, UniqueIds, Ours, InState
    <2>3. \A i \in Ours(items, Value) : i \in ItemT
      BY <2>1 DEF Ours, InState
    <2>4. \A i, j \in call[c].todo : i.id = j.id => i = j
      <3>1. CASE call[c].todo = {}
        BY <3>1
      <3>2. CASE call[c].todo # {}
        BY <3>2 DEF Made, CallFits, Follows, TodoFollows
      <3>3. QED
        BY <3>1, <3>2
    <2>5. QED
      BY <2>1, <2>2, <2>3, <2>4 DEF Draws, CallT
  <1>11. ASSUME Gets(c, "reported")
         PROVE  /\ \A q, x : BoxTag(q, x) => q \in Value
                /\ \A q, x : q \in Value /\ Is(items, x, q, "submitted") => Landed(q, x)
                /\ call[c].at = "control"
    <2>1. /\ Head(wire) = wire[1] /\ 1 \in DOMAIN wire
          /\ call[c].at # "idle" /\ Fits(Answer, call[c].at)
      BY <1>11, Got DEF Gets
    <2>2. wire[1].answer = "reported" /\ wire[1].value = Value /\ Answer = "reported"
      BY <1>11, <2>1 DEF Gets, Answer, Value
    <2>3. QED
      BY <2>1, <2>2 DEF Follows, ReportHolds, Fits
  <1>12. InOrder'
    BY <1>1, <1>5, <1>6 DEF Follows, InOrder
  <1>13. Overtaken'
    <2>1. ASSUME NEW x, NEW y, Listed(items', x), Listed(items', y), x < y,
                 Coming(x)', InInbox(y), ~ TakenBetween(x, y)
          PROVE  Withdrawing(x, y)'
      <3>1. Listed(items, x) /\ Listed(items, y) /\ x \in Nat \ {0} /\ y \in Nat
        BY <1>1, <1>6, <2>1
      <3>2. Coming(x)
        BY <1>8, <2>1, <3>1
      <3>3. call[c].at = "remove" /\ x <= call[c].item /\ call[c].item <= y
        BY <1>2, <2>1, <3>1, <3>2 DEF Follows, Overtaken, Withdrawing
      <3>4. call[c].item # 0 /\ y # 0
        BY <1>6, <2>1, <3>1, <3>3
      <3>5. ~ Gets(c, "refused")
        <4>1. SUFFICES ASSUME WasTaken(call[c].item) PROVE FALSE
          BY <1>9, <3>3, <3>4
        <4>2. call[c].item # x
          BY <3>1, <3>2, <4>1 DEF Coming, IInv, OneCopy, Apart
        <4>3. call[c].item # y
          BY <2>1, <3>4, <4>1 DEF IInv, OneCopy, Apart
        <4>4. x < call[c].item /\ call[c].item < y
          BY <1>6, <3>1, <3>3, <4>2, <4>3
        <4>5. QED
          BY <2>1, <4>1, <4>4 DEF WasTaken, TakenBetween
      <3>6. Gets(c, "removed")
        BY <1>1, <3>3, <3>5, GotWhat
      <3>7. y # call[c].item
        <4>1. Returns(call[c].item)
          BY <3>6, Got DEF Gets, Returns
        <4>2. QED
          BY <2>1, <3>4, <4>1 DEF IInv, OneCopy, Apart
      <3>8. PICK t \in call[c].todo : t.id = y
        <4>1. call[c].item < y
          BY <1>6, <3>1, <3>3, <3>7
        <4>2. QED
          BY <2>1, <3>1, <3>3, <3>4, <4>1 DEF Follows, TodoFollows
      <3>9. PICK q \in RequestT : CallMade(c, new, q) /\ new.at = "remove"
        BY <1>1, <3>6, <3>8
      <3>10. PICK todo : Draws(c, todo) /\ FirstOf(todo, new, q)
        BY <3>3, <3>9 DEF CallMade
      <3>11. todo = call[c].todo
        BY <3>6, <3>10 DEF Draws, Gets
      <3>12. PICK i \in call[c].todo : i.id <= y /\ new.item = i.id /\ call[c].item < i.id
        BY <3>3, <3>4, <3>8, <3>9, <3>10, <3>11 DEF FirstOf, CallMade, Follows, TodoFollows
      <3>13. x <= new.item
        BY <1>6, <1>10, <3>1, <3>3, <3>10, <3>11, <3>12 DEF ItemT
      <3>14. QED
        BY <1>2, <3>9, <3>12, <3>13 DEF Withdrawing
    <2>2. QED
      BY <1>5, <2>1 DEF Overtaken
  <1>14. SendsFirst'
    <2>1. ASSUME new.at = "prompt", new.item # 0, NEW x, Pend(items', x)
          PROVE  new.item < x
      <3>1. PICK q \in RequestT : CallMade(c, new, q)
        BY <1>1, <2>1
      <3>2. QED
        BY <2>1, <3>1, FirstIsSent DEF Follows
    <2>2. QED
      BY <1>2, <2>1 DEF SendsFirst
  <1>15. TodoFollows'
    <2>1. ASSUME new.at = "remove", new.item # 0
          PROVE  /\ \A t \in new.todo : new.item < t.id
                 /\ \A t, u \in new.todo : t.id = u.id => t = u
                 /\ \A y : Listed(items', y) /\ InInbox(y) /\ new.item < y =>
                       \E t \in new.todo : t.id = y
      <3>1. PICK q \in RequestT : CallMade(c, new, q)
        BY <1>1, <2>1
      <3>2. PICK todo : Draws(c, todo) /\ FirstOf(todo, new, q)
        BY <2>1, <3>1 DEF CallMade
      <3>3. PICK i \in todo : /\ \A j \in todo : i.id <= j.id
                              /\ new.item = i.id /\ new.todo = todo \ {i}
        BY <3>1, <3>2 DEF FirstOf, CallMade
      <3>4. \A j \in todo : j.id \in Nat
        BY <1>10, <3>2 DEF ItemT
      <3>5. \A t \in new.todo : new.item < t.id
        BY <1>10, <3>2, <3>3, <3>4
      <3>6. \A t, u \in new.todo : t.id = u.id => t = u
        BY <1>10, <3>2, <3>3
      <3>7. ASSUME NEW y, Listed(items', y), InInbox(y), new.item < y
            PROVE  \E t \in todo : t.id = y
        <4>1. Listed(items, y)
          BY <1>1, <1>6, <3>7
        <4>2. CASE Gets(c, "reported") /\ todo = Ours(items, Value)
          <5>1. PICK q0 : BoxTag(q0, y)
            BY <3>7, QueuedHasTag
          <5>2. PICK k \in DOMAIN items : items[k].id = y
            BY <4>1 DEF Listed
          <5>3. Is(items, y, items[k].req, items[k].state)
            BY <5>2 DEF Is
          <5>4. items[k].state = "submitted" /\ items[k].req = q0
            BY <1>2, <1>11, <4>2, <5>1, <5>3 DEF Follows, QueuedIsSent, Prompting
          <5>5. items[k] \in Ours(items, Value)
            BY <1>11, <4>2, <5>1, <5>4 DEF Ours, InState
          <5>6. QED
            BY <4>2, <5>2, <5>5
        <4>3. CASE Gets(c, "removed") /\ call[c].op = "stop" /\ todo = call[c].todo
          <5>1. call[c].at = "remove" /\ call[c].item # 0
            BY <3>3, <4>3 DEF Made, CallFits
          <5>2. call[c].item < i.id
            BY <3>3, <4>3, <5>1 DEF Follows, TodoFollows
          <5>3. call[c].item < y
            BY <1>6, <3>3, <3>4, <3>7, <5>2
          <5>4. QED
            BY <3>7, <4>1, <4>3, <5>1, <5>3 DEF Follows, TodoFollows
        <4>4. QED
          BY <3>2, <4>2, <4>3 DEF Draws
      <3>8. ASSUME NEW y, Listed(items', y), InInbox(y), new.item < y
            PROVE  \E t \in new.todo : t.id = y
        <4>1. PICK t \in todo : t.id = y
          BY <3>7, <3>8
        <4>2. t # i
          BY <1>6, <3>3, <3>4, <3>8, <4>1
        <4>3. QED
          BY <3>3, <4>1, <4>2
      <3>9. QED
        BY <3>5, <3>6, <3>8
    <2>2. QED
      BY <1>2, <1>5, <2>1 DEF TodoFollows
  <1>16. QueuedIsSent'
    <2>1. ASSUME NEW q, NEW y, NEW p, NEW st, BoxTag(q, y), Is(items', y, p, st)
          PROVE  st = "submitted" /\ p = q /\ ~ (new.at = "prompt" /\ new.item = y)
      <3>1. Turns(c, y, p, st) /\ InInbox(y) /\ Listed(items', y)
        BY <1>1, <1>6, <2>1 DEF Is, Listed
      <3>2. Listed(items, y) /\ y # 0 /\ y \in Nat
        BY <1>1, <1>6, <3>1
      <3>3. ~ Pend(items, y) /\ ~ Returns(y)
        BY <3>1, <3>2 DEF IInv, OneCopy, Apart
      <3>4. ~ (new.at = "prompt" /\ new.item = y)
        <4>1. SUFFICES ASSUME new.at = "prompt", new.item = y PROVE FALSE
          OBVIOUS
        <4>2. PICK r \in RequestT : CallMade(c, new, r)
          BY <1>1, <4>1
        <4>3. QED
          BY <3>2, <3>3, <4>1, <4>2, FirstIsSent DEF Follows
      <3>5. Prompting(c, y) => Gets(c, "accepted")
        <4>1. Prompting(c, y) =>
                 Gets(c, "accepted") \/ Gets(c, "unrecognised") \/ Gets(c, "refused")
          BY <1>1, GotWhat DEF Prompting
        <4>2. Prompting(c, y) => ~ Gets(c, "unrecognised")
          BY <3>3, Got DEF Prompting, Gets, Returns
        <4>3. Prompting(c, y) => ~ Gets(c, "refused")
          BY <1>9 DEF Prompting
        <4>4. QED
          BY <4>1, <4>2, <4>3
      <3>6. \A p0, st0 : Is(items, y, p0, st0) =>
               \/ st0 = "submitted" /\ p0 = q /\ ~ Prompting(c, y)
               \/ Prompting(c, y) /\ call[c].req = q
        BY <1>2, <2>1 DEF Follows, QueuedIsSent
      <3>7. CASE /\ Is(items, y, p, st)
                 /\ ~ (y = call[c].item /\ (Gets(c, "accepted") \/ Gets(c, "removed")))
        BY <3>4, <3>5, <3>6, <3>7 DEF Prompting
      <3>8. CASE Gets(c, "accepted") /\ y = call[c].item /\ p = call[c].req /\ st = "submitted"
        <4>1. call[c].at = "prompt"
          BY <3>8, Got DEF Gets, Fits
        <4>2. \E p0, st0 : Is(items, y, p0, st0)
          BY <3>2 DEF Listed, Is
        <4>3. QED
          BY <3>4, <3>6, <3>8, <4>1, <4>2 DEF Prompting
      <3>9. CASE Is(items, y, p, "pending") /\ st = "dispatching"
        BY <3>3, <3>9 DEF Is, Pend
      <3>10. CASE Returning(c) /\ y = call[c].item
        BY <3>3, <3>10 DEF Returns
      <3>11. CASE Gets(c, "reported") /\ Is(items, y, p, "submitted") /\ p \notin Value
        BY <1>11, <2>1, <3>6, <3>11 DEF Prompting
      <3>12. QED
        BY <3>1, <3>7, <3>8, <3>9, <3>10, <3>11 DEF Turns
    <2>2. \A d \in Calls : \A y : Prompting(d, y)' <=> (new.at = "prompt" /\ new.item = y)
      BY <1>2 DEF Prompting
    <2>3. QED
      BY <1>5, <2>1, <2>2 DEF QueuedIsSent
  <1>17. ReportHolds' /\ RefusedWasTaken'
    BY <1>4 DEF ReportHolds, RefusedWasTaken
  <1>18. TodoLanded'
    <2>1. ASSUME NEW todo, Draws(c, todo), NEW i \in todo
          PROVE  Landed(i.req, i.id)
      <3>1. CASE Gets(c, "reported") /\ todo = Ours(items, Value)
        <4>1. Is(items, i.id, i.req, "submitted") /\ i.req \in Value
          BY <2>1, <3>1 DEF Ours, InState, Is
        <4>2. QED
          BY <1>11, <3>1, <4>1
      <3>2. CASE todo = call[c].todo
        BY <2>1, <3>2 DEF Follows, TodoLanded
      <3>3. QED
        BY <2>1, <3>1, <3>2 DEF Draws
    <2>2. ASSUME NEW r \in host', r.kind = "remove", r.item # 0
          PROVE  Landed(r.req, r.item)
      <3>1. CallMade(c, new, r)
        BY <1>1, <1>3, <2>2
      <3>2. PICK todo : Draws(c, todo) /\ FirstOf(todo, new, r)
        BY <2>2, <3>1 DEF CallMade
      <3>3. QED
        BY <2>1, <3>2 DEF FirstOf
    <2>3. ASSUME NEW t \in new.todo
          PROVE  Landed(t.req, t.id)
      <3>1. new.at = "remove" /\ new.item # 0
        BY <1>1, <2>3 DEF CallFits
      <3>2. PICK q \in RequestT : CallMade(c, new, q)
        BY <1>1, <3>1
      <3>3. PICK todo : Draws(c, todo) /\ FirstOf(todo, new, q)
        BY <3>1, <3>2 DEF CallMade
      <3>4. QED
        BY <2>1, <2>3, <3>3 DEF FirstOf
    <2>4. QED
      BY <1>2, <1>5, <2>2, <2>3 DEF TodoLanded
  <1>19. QED
    BY <1>1, <1>12, <1>13, <1>14, <1>15, <1>16, <1>17, <1>18 DEF Follows

OInv == IInv /\ Made /\ Sole /\ Fresh /\ Follows

\* With one call at a time, and a base that acknowledges or not but answers in time
\* and refuses only what is not queued, the inputs queued in a session stand in the
\* order of the list, but where a turn took one between, for any number of inputs and
\* operations, edits and removals in the queue panel among them.
THEOREM OrderKept ==
    ASSUME Faults \cap {"refused", "timeout", "crash", "lag"} = {},
           \A c, d \in Calls : c = d
    PROVE  Spec => []InboxFollowsList
  <1>1. Init => OInv
    <2> SUFFICES ASSUME Init PROVE OInv
      OBVIOUS
    <2>1. /\ DOMAIN items = {} /\ DOMAIN wire = {} /\ host = {}
          /\ \A s \in Sessions : DOMAIN inbox[s] = {}
          /\ \A c \in Calls : call[c] = Idle
      BY DEF Init
    <2>2. /\ \A x : ~ Listed(items, x) /\ ~ InInbox(x)
          /\ \A x, p, st : ~ Is(items, x, p, st)
      BY <2>1 DEF Listed, InInbox, Is
    <2>3. Follows
      BY <2>1, <2>2, IdleFacts DEF Follows, IdsGrow, InOrder, Overtaken, SendsFirst, TodoFollows,
         QueuedIsSent, ReportHolds, TodoLanded, RefusedWasTaken
    <2>4. QED
      BY <2>3, StartsWell DEF OInv
  <1>2. OInv /\ [Next]_vars => OInv'
    <2> SUFFICES ASSUME OInv, [Next]_vars PROVE OInv'
      OBVIOUS
    <2>1. IInv /\ IInv' /\ Made /\ Sole /\ Fresh /\ Follows
      BY NextKeeps DEF OInv
    <2>2. CASE UNCHANGED vars
      <3>1. UNCHANGED <<items, call, host, wire, inbox, taken>>
        BY <2>2 DEF vars
      <3>2. Follows'
        BY <2>1, <3>1 DEF Follows, InOrder, Overtaken, SendsFirst, TodoFollows, QueuedIsSent,
           ReportHolds, TodoLanded, RefusedWasTaken, AheadOf, TakenBetween, Coming, Prompted,
           Returns, Returning, Withdrawing, InInbox, BoxTag, Prompting, Landed, WasTaken
      <3>3. QED
        BY <2>1, <2>2, <3>2, StillSame DEF OInv
    <2>3. CASE Next
      <3>1. Made' /\ Sole' /\ Fresh' /\ Grown
        BY <2>1, <2>3, MadeKept, SoleKept, FreshKept, GrowKept DEF Follows
      <3>2. CASE Rests
        BY <2>1, <3>1, <3>2, FollowsRests DEF OInv
      <3>3. ASSUME NEW c \in Calls, NEW new, Advances(c, new)
            PROVE  Follows'
        BY <2>1, <3>1, <3>3, FollowsMain
      <3>4. ASSUME NEW r \in host, NEW a, NEW v, Acts(r, a, v)
            PROVE  Follows'
        BY <2>1, <3>4, FollowsHost
      <3>5. ASSUME NEW s \in Sessions, TurnTakes(s)
            PROVE  Follows'
        BY <2>1, <3>5, FollowsTurn
      <3>6. QED
        BY <2>1, <2>3, <3>1, <3>2, <3>3, <3>4, <3>5, StepCases DEF OInv
    <2>4. QED
      BY <2>2, <2>3
  <1>3. OInv => InboxFollowsList
    <2> SUFFICES ASSUME OInv, NEW s \in Sessions, NEW i \in DOMAIN items, NEW j \in DOMAIN items,
                        NEW p \in DOMAIN inbox[s], NEW q \in DOMAIN inbox[s],
                        i < j, inbox[s][p].item = items[i].id, inbox[s][q].item = items[j].id,
                        ~ (p < q)
                 PROVE  TakenBetween(items[i].id, items[j].id)
      BY DEF InboxFollowsList
    <2>1. items[i].id < items[j].id
      BY DEF OInv, Follows, IdsGrow
    <2>2. items[i].id \in Nat /\ items[j].id \in Nat
      <3>1. \A k \in DOMAIN items : items[k] \in ItemT
        BY DEF OInv, IInv, ListOK
      <3>2. QED
        BY <3>1 DEF ItemT
    <2>3. p # q
      BY <2>1, <2>2
    <2>4. p \in Nat /\ q \in Nat
      <3>1. inbox[s] \in Seq(OccurrenceT)
        BY DEF OInv, IInv, TypeInv
      <3>2. QED
        BY <3>1
    <2>5. AheadOf(items[j].id, items[i].id)
      BY <2>3, <2>4 DEF AheadOf
    <2>6. Listed(items, items[i].id) /\ Listed(items, items[j].id)
      BY DEF Listed
    <2>7. QED
      BY <2>1, <2>5, <2>6 DEF OInv, Follows, InOrder
  <1>4. QED
    BY <1>1, <1>2, <1>3, PTL DEF Spec
=============================================================================
