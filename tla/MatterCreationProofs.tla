------------------------ MODULE MatterCreationProofs ------------------------
(***************************************************************************)
(* A draft and its matters, for any number of contents, correlations, cards, *)
(* failed writes and crashes.                                                *)
(***************************************************************************)
EXTENDS MatterCreation, TLAPS

LEMMA DraftFacts ==
    /\ NewDraft \in Drafts /\ Idle \in Handlers
    /\ \A d \in Drafts, k \in Keys : Committed(d, k) \in Drafts
    /\ \A d \in Drafts, k \in Keys, s \in {"unknown", "failed"} : Noted(d, k, s) \in Drafts
    /\ \A d \in Drafts, f \in Contents \cup {None} : [d EXCEPT !.fields = f] \in Drafts
    /\ \A d \in Drafts : [d EXCEPT !.attempt = NoAttempt] \in Drafts
    /\ \A d \in Drafts, k \in Keys :
          [d EXCEPT !.attempt = [key |-> k, state |-> "pending"]] \in Drafts
    /\ \A d \in Drafts : Leaves(d.attempt) \subseteq Keys
  <1>1. NoAttempt \in Attempts /\ NewDraft \in Drafts /\ Idle \in Handlers
    BY DEF Attempts, NewDraft, Drafts, Handlers
  <1>2. ASSUME NEW d \in Drafts, NEW k \in Keys
        PROVE  Committed(d, k) \in Drafts
    BY <1>1 DEF Committed, Drafts
  <1>3. ASSUME NEW d \in Drafts, NEW k \in Keys, NEW s \in {"unknown", "failed"}
        PROVE  Noted(d, k, s) \in Drafts
    <2>1. CASE d.attempt.key = k
      <3>1. d.attempt \in [key : Keys, state : {"pending", "unknown", "failed"}]
        BY <2>1, NoneIsNoValue DEF Drafts, Attempts, NoAttempt
      <3>2. [d.attempt EXCEPT !.state = s] \in Attempts
        BY <3>1 DEF Attempts
      <3>3. Noted(d, k, s) = [d EXCEPT !.attempt = [d.attempt EXCEPT !.state = s]]
        BY <2>1 DEF Noted
      <3>4. QED
        BY <3>2, <3>3 DEF Drafts
    <2>2. CASE d.attempt.key # k
      BY <2>2 DEF Noted
    <2>3. QED
      BY <2>1, <2>2
  <1>4. ASSUME NEW d \in Drafts
        PROVE  Leaves(d.attempt) \subseteq Keys
    BY DEF Leaves, IsOpen, Drafts, Attempts, NoAttempt
  <1>5. ASSUME NEW d \in Drafts, NEW k \in Keys
        PROVE  [d EXCEPT !.attempt = [key |-> k, state |-> "pending"]] \in Drafts
    BY DEF Drafts, Attempts
  <1>6. \A d \in Drafts : [d EXCEPT !.attempt = NoAttempt] \in Drafts
    BY <1>1 DEF Drafts
  <1>7. \A d \in Drafts, f \in Contents \cup {None} : [d EXCEPT !.fields = f] \in Drafts
    BY DEF Drafts
  <1>8. QED
    BY <1>1, <1>2, <1>3, <1>4, <1>5, <1>6, <1>7

LEMMA FreshFacts ==
    /\ (\E c \in Cards : cards[c] = "new") => FreshCard \in Cards /\ cards[FreshCard] = "new"
    /\ Keys \ Used # {} => FreshKey \in Keys /\ FreshKey \notin Used
  BY DEF FreshCard, FreshKey

LEMMA KeptFacts ==
    ASSUME NEW t \in Seq(Cards)
    PROVE  Kept(t) \in Seq(Cards)
  BY RecordsAreKept DEF Kept

THEOREM TypeStep == TypeOK /\ [Next]_vars => TypeOK'
  <1> SUFFICES ASSUME TypeOK, [Next]_vars
               PROVE  TypeOK'
    OBVIOUS
  <1> USE BoundsAreNat DEF Fault, NoFault, disk, process, surface, history
  <1>1. CASE UNCHANGED vars
    BY <1>1 DEF TypeOK, vars
  <1>2. CASE Read \/ Show \/ Execute \/ PutAside \/ GiveUp
    <2>1. CASE Read
      BY <2>1 DEF TypeOK, Read
    <2>2. CASE Show
      <3>1. shown' \in Drafts /\ reading' = None /\ card' \in Cards \cup {None}
        BY <2>2 DEF TypeOK, Show
      <3>2. QED
        BY <2>2, <3>1 DEF TypeOK, Show
    <2>3. CASE Execute
      BY <2>3 DEF TypeOK, Execute
    <2>4. CASE PutAside \/ GiveUp
      BY <2>4 DEF TypeOK, PutAside, GiveUp
    <2>5. QED
      BY <1>2, <2>1, <2>2, <2>3, <2>4
  <1>3. CASE \E f \in Contents \cup {None} : Save(f)
    <2>1. draft' \in Drafts
      BY <1>3, DraftFacts DEF TypeOK, Save
    <2>2. QED
      BY <1>3, <2>1 DEF TypeOK, Save
  <1>4. CASE PrepareConfirm
    <2>1. draft.fields \in Contents
      BY <1>4 DEF PrepareConfirm, Ready, TypeOK, Drafts
    <2>2. FreshCard \in Cards
      BY <1>4, FreshFacts DEF PrepareConfirm
    <2>3. table' \in Seq(Cards)
      <3>1. Kept(table) \in Seq(Cards)
        BY KeptFacts DEF TypeOK
      <3>2. QED
        BY <1>4, <3>1, <2>2 DEF PrepareConfirm
    <2>4. QED
      BY <1>4, <2>1, <2>2, <2>3 DEF TypeOK, PrepareConfirm
  <1>5. CASE \E c \in Cards : Refuse(c)
    BY <1>5 DEF TypeOK, Refuse, Answers
  <1>6. CASE \E c \in Cards : Begin(c)
    <2> SUFFICES ASSUME NEW c \in Cards, Begin(c)
                 PROVE  TypeOK'
      BY <1>6
    <2>1. FreshKey \in Keys
      BY FreshFacts DEF Begin
    <2>2. draft' \in Drafts
      BY <2>1, DraftFacts DEF Begin, Opened, TypeOK
    <2>3. handler' \in Handlers
      BY <2>1 DEF Begin, Handlers, TypeOK
    <2>4. dropped' \subseteq Keys
      BY DraftFacts DEF Begin, TypeOK
    <2>5. QED
      BY <2>2, <2>3, <2>4 DEF TypeOK, Begin, Answers
  <1>7. CASE Create
    <2>1. handler \in [at : {"begun"}, key : Keys, card : Cards]
      BY <1>7 DEF Create, TypeOK, Handlers, Idle
    <2>2. handler' \in Handlers
      BY <1>7, <2>1 DEF Create, Handlers, Told
    <2>3. matters' \in [Keys -> Contents \cup {None}] /\ bound' \in [Keys -> Cards \cup {None}]
      BY <1>7, <2>1 DEF Create, Takes, TypeOK, Drafts
    <2>4. QED
      BY <1>7, <2>2, <2>3 DEF TypeOK, Create
  <1>8. CASE Settle
    <2>1. handler.key \in Keys /\ handler.card \in Cards
      BY <1>8 DEF Settle, TypeOK, Handlers, Idle
    <2>2. Recorded \in Drafts
      BY <2>1, DraftFacts DEF Recorded, TypeOK
    <2>3. draft' \in Drafts /\ handler' \in Handlers /\ executing' \in Cards \cup {None}
      BY <1>8, <2>2, DraftFacts DEF TypeOK, Settle, Answers
    <2>4. QED
      BY <1>8, <2>3 DEF TypeOK, Settle
  <1>9. CASE Ask
    BY <1>9, NoneIsNoValue DEF TypeOK, Ask, Found, Drafts, Attempts, NoAttempt
  <1>10. CASE Reconcile
    <2>1. draft' \in Drafts
      BY <1>10, DraftFacts DEF Reconcile, TypeOK
    <2>2. dropped' \subseteq Keys
      BY <1>10, DraftFacts DEF Reconcile, TypeOK, Drafts
    <2>3. QED
      BY <1>10, <2>1, <2>2 DEF TypeOK, Reconcile
  <1>11. CASE CancelAttempt
    BY <1>11, DraftFacts DEF TypeOK, CancelAttempt
  <1>12. CASE Crash \/ Restart
    <2>1. /\ custody' \in {"open", "closed"} /\ table' \in Seq(Cards) /\ requests' \subseteq Cards
          /\ handler' \in Handlers /\ settling' \in Keys \cup {None}
          /\ shown' \in Drafts /\ reading' \in Drafts \cup {None}
          /\ card' \in Cards \cup {None} /\ executing' \in Cards \cup {None}
      <3>1. <<>> \in Seq(Cards)
        OBVIOUS
      <3>2. StartsAgain
        BY <1>12 DEF Crash, Restart
      <3>3. QED
        BY <3>1, <3>2, DraftFacts DEF TypeOK, StartsAgain
    <2>2. crashes' \in 0 .. MaxCrashes
      BY <1>12 DEF TypeOK, Crash, Restart
    <2>3. /\ draft' = draft /\ matters' = matters /\ cards' = cards /\ faults' = faults
          /\ issued' = issued /\ bound' = bound /\ dropped' = dropped
      BY <1>12 DEF Crash, Restart, StartsAgain
    <2>4. QED
      BY <2>1, <2>2, <2>3 DEF TypeOK
  <1>13. QED
    BY <1>1, <1>2, <1>3, <1>4, <1>5, <1>6, <1>7, <1>8, <1>9, <1>10, <1>11, <1>12 DEF Next

\* Every state keeps its types, however many writes fail and processes end.
THEOREM TypeCorrect == Spec => []TypeOK
  <1>1. Init => TypeOK
    BY DraftFacts, BoundsAreNat DEF Init, TypeOK
  <1>2. QED
    BY <1>1, TypeStep, PTL DEF Spec

(***************************************************************************)
(* The inductive invariant.  A conversion under way is the open attempt of   *)
(* the draft, and what the store did for it is what the handler was told.    *)
(***************************************************************************)

HandlerIsTheAttempt ==
    handler # Idle =>
        /\ draft.status = "editing" /\ draft.fields # None
        /\ draft.attempt = [key |-> handler.key, state |-> "pending"]
        /\ cards[handler.card] # "new" /\ issued[handler.card] = draft.fields
        /\ handler.at \in {"begun", "denied"} => handler.key \notin Created
        /\ handler.at = "created" => handler.key \in Created

SettlingExists == settling # None => settling \in Created
EditingHasNoRef == draft.status = "editing" => draft.ref = None
BoundCardsAreOld == \A k \in Created : bound[k] # None /\ cards[bound[k]] # "new"

IInv ==
    /\ TypeOK
    /\ HandlerIsTheAttempt
    /\ SettlingExists
    /\ EditingHasNoRef
    /\ BoundCardsAreOld
    /\ MatterIsWhatWasConfirmed
    /\ FailedWasNotCreated
    /\ ConvertedNamesAMatter
    /\ NothingCreatedIsForgotten

LEMMA IInvInit == Init => IInv
  <1> SUFFICES ASSUME Init
               PROVE  IInv
    OBVIOUS
  <1>1. TypeOK
    BY DraftFacts, BoundsAreNat DEF Init, TypeOK
  <1>2. Created = {}
    BY DEF Init, Created
  <1>3. QED
    BY <1>1, <1>2 DEF Init, IInv, HandlerIsTheAttempt, SettlingExists, EditingHasNoRef,
       BoundCardsAreOld, MatterIsWhatWasConfirmed, FailedWasNotCreated, ConvertedNamesAMatter,
       NothingCreatedIsForgotten, NewDraft, NoAttempt

\* The surface, the refusals and the restarts touch neither draft nor store.
LEMMA DiskUntouched ==
    ASSUME IInv, TypeOK', UNCHANGED <<draft, matters, bound, issued, dropped>>,
           \A c \in Cards : cards[c] # "new" => cards'[c] # "new",
           handler' \in {handler, Idle},
           settling' \in {settling, None} \/ settling' \in Created
    PROVE  IInv'
  <1>1. Created' = Created
    BY DEF Created
  <1>2. HandlerIsTheAttempt'
    BY <1>1 DEF IInv, HandlerIsTheAttempt, TypeOK, Handlers, Idle
  <1>3. SettlingExists' /\ EditingHasNoRef'
    BY <1>1 DEF IInv, SettlingExists, EditingHasNoRef
  <1>4. BoundCardsAreOld'
    BY <1>1 DEF IInv, BoundCardsAreOld, TypeOK, Created
  <1>5. MatterIsWhatWasConfirmed' /\ FailedWasNotCreated' /\ ConvertedNamesAMatter'
        /\ NothingCreatedIsForgotten'
    BY <1>1 DEF IInv, MatterIsWhatWasConfirmed, FailedWasNotCreated, ConvertedNamesAMatter,
       NothingCreatedIsForgotten
  <1>6. QED
    BY <1>2, <1>3, <1>4, <1>5 DEF IInv

\* Steps that write the draft alone.
LEMMA DraftOnly ==
    ASSUME IInv, TypeOK', UNCHANGED <<matters, bound, issued>>,
           \A c \in Cards : cards[c] # "new" => cards'[c] # "new",
           HandlerIsTheAttempt', SettlingExists', EditingHasNoRef',
           FailedWasNotCreated', ConvertedNamesAMatter', NothingCreatedIsForgotten'
    PROVE  IInv'
  <1>1. Created' = Created
    BY DEF Created
  <1>2. BoundCardsAreOld'
    BY <1>1 DEF IInv, BoundCardsAreOld, TypeOK, Created
  <1>3. MatterIsWhatWasConfirmed'
    BY <1>1 DEF IInv, MatterIsWhatWasConfirmed
  <1>4. QED
    BY <1>2, <1>3 DEF IInv

LEMMA IInvStep == IInv /\ [Next]_vars => IInv'
  <1> SUFFICES ASSUME IInv, [Next]_vars
               PROVE  IInv'
    OBVIOUS
  <1>0. TypeOK /\ TypeOK'
    BY TypeStep DEF IInv
  <1> USE DEF disk, process, surface, history, Fault, NoFault
  <1>1. CASE UNCHANGED vars
    BY <1>0, <1>1, DiskUntouched DEF vars
  <1>2. CASE Read \/ Show \/ Execute \/ PutAside \/ GiveUp
    BY <1>0, <1>2, DiskUntouched DEF Read, Show, Execute, PutAside, GiveUp
  <1>3. CASE \E c \in Cards : Refuse(c)
    <2> SUFFICES ASSUME NEW c \in Cards, Refuse(c)
                 PROVE  IInv'
      BY <1>3
    <2>1. \A b \in Cards : cards[b] # "new" => cards'[b] # "new"
      BY <1>0 DEF Refuse, TypeOK
    <2>2. QED
      BY <1>0, <2>1, DiskUntouched DEF Refuse
  <1>4. CASE Ask
    <2>1. settling' \in Created
      BY <1>0, <1>4 DEF Ask, Found, Created, TypeOK, Drafts, Attempts, NoAttempt
    <2>2. QED
      BY <1>0, <1>4, <2>1, DiskUntouched DEF Ask
  <1>5. CASE Crash \/ Restart
    BY <1>0, <1>5, DiskUntouched DEF Crash, Restart, StartsAgain
  <1>6. CASE \E f \in Contents \cup {None} : Save(f)
    <2> SUFFICES ASSUME NEW f \in Contents \cup {None}, Save(f)
                 PROVE  IInv'
      BY <1>6
    <2>1. /\ draft'.status = draft.status /\ draft'.ref = draft.ref
          /\ draft'.attempt = draft.attempt
      BY <1>0 DEF Save, TypeOK, Drafts
    <2>2. Created' = Created
      BY DEF Save, Created
    <2>3. HandlerIsTheAttempt'
      BY DEF Save, HandlerIsTheAttempt
    <2>4. SettlingExists' /\ EditingHasNoRef' /\ FailedWasNotCreated' /\ ConvertedNamesAMatter'
          /\ NothingCreatedIsForgotten'
      BY <2>1, <2>2 DEF IInv, Save, SettlingExists, EditingHasNoRef, FailedWasNotCreated,
         ConvertedNamesAMatter, NothingCreatedIsForgotten
    <2>5. QED
      BY <1>0, <2>3, <2>4, DraftOnly DEF Save
  <1>7. CASE PrepareConfirm
    <2>1. FreshCard \in Cards /\ cards[FreshCard] = "new"
      BY <1>7, FreshFacts DEF PrepareConfirm
    <2>2. Created' = Created /\ UNCHANGED <<draft, handler, settling, bound, matters, dropped>>
      BY <1>7 DEF PrepareConfirm, Created
    <2>3. \A c \in Cards : cards[c] # "new" => cards'[c] # "new" /\ issued'[c] = issued[c]
      BY <1>0, <1>7, <2>1 DEF PrepareConfirm, TypeOK
    <2>4. \A k \in Created : bound[k] \in Cards /\ cards[bound[k]] # "new"
      BY <1>0 DEF IInv, BoundCardsAreOld, TypeOK, Created
    <2>5. HandlerIsTheAttempt'
      BY <1>7, <2>2 DEF PrepareConfirm, HandlerIsTheAttempt
    <2>6. BoundCardsAreOld' /\ MatterIsWhatWasConfirmed'
      BY <2>2, <2>3, <2>4 DEF IInv, BoundCardsAreOld, MatterIsWhatWasConfirmed
    <2>7. SettlingExists' /\ EditingHasNoRef' /\ FailedWasNotCreated' /\ ConvertedNamesAMatter'
          /\ NothingCreatedIsForgotten'
      BY <2>2 DEF IInv, SettlingExists, EditingHasNoRef, FailedWasNotCreated,
         ConvertedNamesAMatter, NothingCreatedIsForgotten
    <2>8. QED
      BY <1>0, <2>5, <2>6, <2>7 DEF IInv
  <1>8. CASE \E c \in Cards : Begin(c)
    <2> SUFFICES ASSUME NEW c \in Cards, Begin(c)
                 PROVE  IInv'
      BY <1>8
    <2>1. \A b \in Cards : cards[b] # "new" => cards'[b] # "new"
      BY <1>0 DEF Begin, TypeOK
    <2>2. CASE UNCHANGED <<draft, handler, dropped>>
      BY <1>0, <2>1, <2>2, DiskUntouched DEF Begin
    <2>3. CASE /\ draft' = Opened(FreshKey)
               /\ dropped' = dropped \cup Leaves(draft.attempt)
               /\ handler' = [at |-> "begun", key |-> FreshKey, card |-> c]
      <3>1. FreshKey \in Keys /\ FreshKey \notin Used
        BY FreshFacts DEF Begin
      <3>2. FreshKey \notin Created
        BY <3>1 DEF Used, Created
      <3>3. /\ draft'.status = "editing" /\ draft'.ref = draft.ref
            /\ draft'.fields = draft.fields /\ draft.fields # None
            /\ draft'.attempt = [key |-> FreshKey, state |-> "pending"]
        BY <1>0, <2>3 DEF Begin, Ready, Opened, TypeOK, Drafts
      <3>4. Created' = Created /\ UNCHANGED <<matters, bound, issued, settling>>
        BY DEF Begin, Created
      <3>5. cards'[c] = "consumed" /\ issued'[c] = draft.fields
        BY <1>0 DEF Begin, Consumable, TypeOK
      <3>6. HandlerIsTheAttempt'
        BY <2>3, <3>2, <3>3, <3>4, <3>5 DEF HandlerIsTheAttempt
      <3>7. SettlingExists' /\ EditingHasNoRef' /\ FailedWasNotCreated' /\ ConvertedNamesAMatter'
        BY <3>3, <3>4 DEF IInv, SettlingExists, EditingHasNoRef, FailedWasNotCreated,
           ConvertedNamesAMatter, Begin, Ready
      <3>8. NothingCreatedIsForgotten'
        <4>1. draft.attempt.key \in Created => draft.attempt.key \in Leaves(draft.attempt)
          BY <1>0, NoneIsNoValue DEF IInv, FailedWasNotCreated, Leaves, IsOpen, TypeOK, Drafts,
             Attempts, NoAttempt, Created
        <4>2. QED
          BY <2>3, <3>3, <3>4, <4>1 DEF IInv, NothingCreatedIsForgotten
      <3>9. QED
        BY <1>0, <2>1, <3>4, <3>6, <3>7, <3>8, DraftOnly
    <2>4. QED
      BY <2>2, <2>3 DEF Begin
  <1>9. CASE Create
    <2>1. handler \in [at : {"begun"}, key : Keys, card : Cards] /\ handler # Idle
      BY <1>0, <1>9 DEF Create, TypeOK, Handlers, Idle
    <2>2. /\ draft.status = "editing" /\ draft.fields \in Contents
          /\ draft.attempt = [key |-> handler.key, state |-> "pending"]
          /\ cards[handler.card] # "new" /\ issued[handler.card] = draft.fields
          /\ handler.key \notin Created
      BY <1>0, <2>1 DEF IInv, HandlerIsTheAttempt, TypeOK, Drafts
    <2>3. UNCHANGED <<draft, cards, issued, settling, dropped>>
      BY <1>9 DEF Create
    <2>4. handler'.key = handler.key /\ handler'.card = handler.card
      BY <1>9, <2>1 DEF Create
    <2>5. CASE Takes(handler.key, handler.card) /\ handler'.at \in {"created", "unknown"}
      <3>1. Created' = Created \cup {handler.key}
        BY <1>0, <2>1, <2>2, <2>5, NoneIsNoValue DEF Takes, Created, TypeOK
      <3>2. /\ bound'[handler.key] = handler.card /\ matters'[handler.key] = draft.fields
            /\ \A k \in Created : bound'[k] = bound[k] /\ matters'[k] = matters[k]
        BY <1>0, <2>1, <2>2, <2>5 DEF Takes, TypeOK, Created
      <3>3. HandlerIsTheAttempt'
        BY <2>2, <2>3, <2>4, <2>5, <3>1, NoneIsNoValue DEF HandlerIsTheAttempt
      <3>4. BoundCardsAreOld' /\ MatterIsWhatWasConfirmed'
        BY <2>1, <2>2, <2>3, <3>1, <3>2, NoneIsNoValue
           DEF IInv, BoundCardsAreOld, MatterIsWhatWasConfirmed
      <3>5. SettlingExists' /\ EditingHasNoRef' /\ FailedWasNotCreated' /\ ConvertedNamesAMatter'
            /\ NothingCreatedIsForgotten'
        BY <2>2, <2>3, <3>1 DEF IInv, SettlingExists, EditingHasNoRef, FailedWasNotCreated,
           ConvertedNamesAMatter, NothingCreatedIsForgotten
      <3>6. QED
        BY <1>0, <3>3, <3>4, <3>5 DEF IInv
    <2>6. CASE UNCHANGED <<matters, bound>> /\ handler'.at \in {"denied", "unknown"}
      <3>1. Created' = Created
        BY <2>6 DEF Created
      <3>2. HandlerIsTheAttempt'
        BY <2>2, <2>3, <2>4, <2>6, <3>1, NoneIsNoValue DEF HandlerIsTheAttempt
      <3>3. SettlingExists' /\ EditingHasNoRef' /\ FailedWasNotCreated' /\ ConvertedNamesAMatter'
            /\ NothingCreatedIsForgotten'
        BY <2>3, <3>1 DEF IInv, SettlingExists, EditingHasNoRef, FailedWasNotCreated,
           ConvertedNamesAMatter, NothingCreatedIsForgotten
      <3>4. QED
        BY <1>0, <2>3, <2>6, <3>2, <3>3, DraftOnly
    <2>7. QED
      BY <1>9, <2>1, <2>5, <2>6 DEF Create, Told
  <1>10. CASE Settle
    <2>1. /\ handler \in [at : {"created", "denied", "unknown"}, key : Keys, card : Cards]
          /\ handler # Idle
      BY <1>0, <1>10 DEF Settle, TypeOK, Handlers, Idle
    <2>2. /\ draft.status = "editing"
          /\ draft.attempt = [key |-> handler.key, state |-> "pending"]
          /\ handler.at = "denied" => handler.key \notin Created
          /\ handler.at = "created" => handler.key \in Created
      BY <2>1 DEF IInv, HandlerIsTheAttempt
    <2>3. Created' = Created /\ handler' = Idle
          /\ UNCHANGED <<matters, bound, issued, cards, settling, dropped>>
      BY <1>10 DEF Settle, Created
    <2>4. HandlerIsTheAttempt' /\ SettlingExists'
      BY <2>3 DEF IInv, HandlerIsTheAttempt, SettlingExists
    <2>5. CASE UNCHANGED draft
      BY <1>0, <2>3, <2>5, DiskUntouched
    <2>6. CASE draft' = Recorded /\ handler.at = "created"
      <3>1. /\ draft'.status = "converted" /\ draft'.ref = handler.key
            /\ draft'.attempt = NoAttempt
        BY <1>0, <2>6 DEF Recorded, Committed, TypeOK, Drafts
      <3>2. EditingHasNoRef' /\ FailedWasNotCreated' /\ ConvertedNamesAMatter'
            /\ NothingCreatedIsForgotten'
        BY <1>0, <2>2, <2>3, <2>6, <3>1, NoneIsNoValue DEF IInv, EditingHasNoRef, FailedWasNotCreated,
           ConvertedNamesAMatter, NothingCreatedIsForgotten, NoAttempt, Created
      <3>3. QED
        BY <1>0, <2>3, <2>4, <3>2, DraftOnly
    <2>7. CASE draft' = Recorded /\ handler.at \in {"denied", "unknown"}
      <3>1. /\ draft'.status = draft.status /\ draft'.ref = draft.ref
            /\ draft'.attempt.key = handler.key
            /\ handler.at = "unknown" => draft'.attempt.state = "unknown"
        BY <1>0, <2>2, <2>7 DEF Recorded, Noted, TypeOK, Drafts
      <3>2. EditingHasNoRef' /\ FailedWasNotCreated' /\ ConvertedNamesAMatter'
            /\ NothingCreatedIsForgotten'
        BY <2>2, <2>3, <2>7, <3>1 DEF IInv, EditingHasNoRef, FailedWasNotCreated,
           ConvertedNamesAMatter, NothingCreatedIsForgotten
      <3>3. QED
        BY <1>0, <2>3, <2>4, <3>2, DraftOnly
    <2>8. QED
      BY <1>10, <2>1, <2>5, <2>6, <2>7 DEF Settle
  <1>11. CASE Reconcile
    <2>1. /\ settling \in Keys /\ settling \in Created /\ handler = Idle
          /\ Created' = Created /\ settling' = None
          /\ UNCHANGED <<matters, bound, issued, cards, handler>>
      BY <1>0, <1>11 DEF Reconcile, Created, IInv, SettlingExists, TypeOK
    <2>2. CASE UNCHANGED <<draft, dropped>>
      BY <1>0, <2>1, <2>2, DiskUntouched
    <2>3. CASE /\ draft' = Committed(draft, settling)
               /\ dropped' = dropped \cup ((Leaves(draft.attempt) \cup {draft.ref}) \ {settling, None})
      <3>1. /\ draft'.status = "converted" /\ draft'.ref = settling
            /\ draft'.attempt = NoAttempt
        BY <1>0, <2>3 DEF Committed, TypeOK, Drafts
      <3>2. HandlerIsTheAttempt' /\ SettlingExists' /\ EditingHasNoRef' /\ ConvertedNamesAMatter'
        BY <2>1, <3>1 DEF IInv, HandlerIsTheAttempt, SettlingExists, EditingHasNoRef,
           ConvertedNamesAMatter
      <3>3. FailedWasNotCreated'
        BY <3>1 DEF FailedWasNotCreated, NoAttempt
      <3>4. NothingCreatedIsForgotten'
        <4>1. draft.attempt.key \in Created => draft.attempt.key \in Leaves(draft.attempt)
          BY <1>0, NoneIsNoValue DEF IInv, FailedWasNotCreated, Leaves, IsOpen, TypeOK, Drafts,
             Attempts, NoAttempt, Created
        <4>2. None \notin Created
          BY NoneIsNoValue DEF Created
        <4>3. QED
          BY <2>1, <2>3, <3>1, <4>1, <4>2 DEF IInv, NothingCreatedIsForgotten
      <3>5. QED
        BY <1>0, <2>1, <3>2, <3>3, <3>4, DraftOnly
    <2>4. QED
      BY <1>11, <2>2, <2>3 DEF Reconcile
  <1>12. CASE CancelAttempt
    <2>1. /\ draft'.status = draft.status /\ draft'.ref = draft.ref /\ draft'.attempt = NoAttempt
          /\ Created' = Created /\ UNCHANGED <<matters, bound, issued, cards, handler, settling>>
          /\ handler = Idle
      BY <1>0, <1>12 DEF CancelAttempt, TypeOK, Drafts, Created
    <2>2. draft.attempt.key \in dropped'
      BY <1>12 DEF CancelAttempt, Leaves, IsOpen
    <2>3. HandlerIsTheAttempt' /\ SettlingExists' /\ EditingHasNoRef' /\ FailedWasNotCreated'
          /\ ConvertedNamesAMatter'
      BY <2>1 DEF IInv, HandlerIsTheAttempt, SettlingExists, EditingHasNoRef, FailedWasNotCreated,
         ConvertedNamesAMatter, NoAttempt
    <2>4. NothingCreatedIsForgotten'
      BY <1>12, <2>1, <2>2 DEF IInv, NothingCreatedIsForgotten, CancelAttempt
    <2>5. QED
      BY <1>0, <2>1, <2>3, <2>4, DraftOnly
  <1>13. QED
    BY <1>1, <1>2, <1>3, <1>4, <1>5, <1>6, <1>7, <1>8, <1>9, <1>10, <1>11, <1>12 DEF Next

LEMMA IInvHolds == Spec => []IInv
  BY IInvInit, IInvStep, PTL DEF Spec

\* A matter has the content of the card that the user executed for it, whatever
\* was saved in between and whichever requests were given up.
THEOREM MatterIsConfirmed == Spec => []MatterIsWhatWasConfirmed
  <1>1. IInv => MatterIsWhatWasConfirmed
    BY DEF IInv
  <1>2. QED
    BY <1>1, IInvHolds, PTL

\* An attempt noted as failed created nothing, so a corrected draft may be
\* confirmed again; and the reference of a converted draft is a matter of the store.
THEOREM DraftTellsTheTruth == Spec => []DraftIsTrue
  <1>1. IInv => DraftIsTrue
    BY DEF IInv, DraftIsTrue
  <1>2. QED
    BY <1>1, IInvHolds, PTL

\* Across any number of crashes and lost writes the draft leads to every matter
\* it was turned into, but for attempts that were cancelled or replaced open.
THEOREM NothingIsForgotten == Spec => []NothingCreatedIsForgotten
  <1>1. IInv => NothingCreatedIsForgotten
    BY DEF IInv
  <1>2. QED
    BY <1>1, IInvHolds, PTL
(***************************************************************************)
(* A confirmation is good for one creation, although its request may outlive *)
(* the surface that sent it and although its draft may become two matters.   *)
(***************************************************************************)

OneMatterPerCard == \A k, l \in Created : bound[k] = bound[l] => k = l

\* What was created, or is about to be, was paid for with a card.
CardsAreSpent ==
    /\ \A k \in Created : bound[k] # None /\ cards[bound[k]] = "consumed"
    /\ handler # Idle => cards[handler.card] = "consumed"
    /\ handler.at = "begun" => \A k \in Created : bound[k] # handler.card

SingleUse == IInv /\ CardsAreSpent /\ OneMatterPerCard

\* Steps that create nothing and un-spend nothing.
LEMMA SpentStays ==
    ASSUME CardsAreSpent, OneMatterPerCard, TypeOK, UNCHANGED <<matters, bound>>,
           \A c \in Cards : cards[c] = "consumed" => cards'[c] = "consumed",
           \/ handler' \in {handler, Idle}
           \/ handler # Idle /\ handler'.card = handler.card /\ handler'.at # "begun"
    PROVE  CardsAreSpent' /\ OneMatterPerCard'
  <1>1. Created' = Created
    BY DEF Created
  <1>2. \A k \in Created : bound[k] \in Cards
    BY DEF CardsAreSpent, TypeOK, Created
  <1>3. handler # Idle => handler.card \in Cards
    BY DEF TypeOK, Handlers
  <1>4. QED
    BY <1>1, <1>2, <1>3 DEF CardsAreSpent, OneMatterPerCard, Idle

LEMMA SingleUseStep == SingleUse /\ [Next]_vars => SingleUse'
  <1> SUFFICES ASSUME SingleUse, [Next]_vars
               PROVE  CardsAreSpent' /\ OneMatterPerCard'
    BY IInvStep DEF SingleUse
  <1>0. IInv /\ TypeOK /\ CardsAreSpent /\ OneMatterPerCard
    BY DEF SingleUse, IInv
  <1> USE DEF disk, process, surface, history
  <1>1. CASE \/ Read \/ Show \/ Execute \/ PutAside \/ GiveUp \/ UNCHANGED vars
             \/ \E f \in Contents \cup {None} : Save(f)
    BY <1>0, <1>1, SpentStays DEF Read, Show, Execute, PutAside, GiveUp, Save, vars
  <1>2. CASE Ask \/ Reconcile \/ CancelAttempt \/ Crash \/ Restart
    BY <1>0, <1>2, SpentStays DEF Ask, Reconcile, CancelAttempt, Crash, Restart, StartsAgain
  <1>3. CASE PrepareConfirm
    <2>1. FreshCard \in Cards /\ cards[FreshCard] = "new"
      BY <1>3, FreshFacts DEF PrepareConfirm
    <2>2. \A c \in Cards : cards[c] = "consumed" => cards'[c] = "consumed"
      BY <1>0, <1>3, <2>1 DEF PrepareConfirm, TypeOK
    <2>3. QED
      BY <1>0, <1>3, <2>2, SpentStays DEF PrepareConfirm
  <1>4. ASSUME NEW c \in Cards, Refuse(c)
        PROVE  CardsAreSpent' /\ OneMatterPerCard'
    <2>1. \A b \in Cards : cards[b] = "consumed" => cards'[b] = "consumed"
      BY <1>0, <1>4 DEF Refuse, TypeOK
    <2>2. QED
      BY <1>0, <1>4, <2>1, SpentStays DEF Refuse
  <1>5. ASSUME NEW c \in Cards, Begin(c)
        PROVE  CardsAreSpent' /\ OneMatterPerCard'
    <2>1. /\ cards[c] = "open" /\ cards' = [cards EXCEPT ![c] = "consumed"]
          /\ handler = Idle /\ UNCHANGED <<matters, bound>>
      BY <1>5 DEF Begin, Consumable
    <2>2. \A b \in Cards : cards[b] = "consumed" => cards'[b] = "consumed"
      BY <1>0, <2>1 DEF TypeOK
    <2>3. CASE handler' = handler
      BY <1>0, <2>1, <2>2, <2>3, SpentStays
    <2>4. CASE handler' = [at |-> "begun", key |-> FreshKey, card |-> c]
      <3>1. Created' = Created
        BY <2>1 DEF Created
      <3>2. \A k \in Created : bound[k] # c
        BY <1>0, <2>1 DEF CardsAreSpent
      <3>3. \A k \in Created : bound[k] \in Cards
        BY <1>0 DEF CardsAreSpent, TypeOK, Created
      <3>4. cards'[c] = "consumed"
        BY <1>0, <2>1 DEF TypeOK
      <3>5. QED
        BY <1>0, <2>1, <2>2, <2>4, <3>1, <3>2, <3>3, <3>4 DEF CardsAreSpent, OneMatterPerCard
    <2>5. QED
      BY <1>5, <2>3, <2>4 DEF Begin
  <1>6. CASE Create
    <2>1. handler.at = "begun" /\ handler # Idle /\ handler.key \in Keys /\ handler.card \in Cards
      BY <1>0, <1>6 DEF Create, TypeOK, Handlers, Idle
    <2>2. handler'.at \in {"created", "denied", "unknown"} /\ handler'.card = handler.card
          /\ cards' = cards
      BY <1>0, <1>6, <2>1 DEF Create, TypeOK, Handlers, Told
    <2>3. CASE UNCHANGED <<matters, bound>>
      BY <1>0, <2>1, <2>2, <2>3, SpentStays
    <2>4. CASE Takes(handler.key, handler.card)
      <3>1. /\ bound'[handler.key] = handler.card
            /\ \A k \in Keys \ {handler.key} : bound'[k] = bound[k] /\ matters'[k] = matters[k]
        BY <1>0, <2>1, <2>4 DEF Takes, TypeOK
      <3>2. Created' \subseteq Created \cup {handler.key}
        BY <3>1 DEF Created
      <3>3. \A k \in Created' \ {handler.key} : k \in Created /\ bound'[k] = bound[k]
        BY <3>1, <3>2 DEF Created
      <3>4. handler.card # None
        BY <2>1, NoneIsNoValue
      <3>5. CardsAreSpent'
        BY <1>0, <2>1, <2>2, <3>1, <3>2, <3>3, <3>4 DEF CardsAreSpent
      <3>6. OneMatterPerCard'
        BY <1>0, <2>1, <3>1, <3>2, <3>3 DEF CardsAreSpent, OneMatterPerCard
      <3>7. QED
        BY <3>5, <3>6
    <2>5. QED
      BY <1>6, <2>3, <2>4 DEF Create
  <1>7. CASE Settle
    BY <1>0, <1>7, SpentStays DEF Settle
  <1>8. QED
    BY <1>1, <1>2, <1>3, <1>4, <1>5, <1>6, <1>7 DEF Next

\* However often a card is executed, given up and answered late, and whatever is
\* written or lost in between, one confirmation makes one matter at the most; two
\* matters of one draft have two confirmations of the user.
THEOREM ConfirmationsAreSingleUse == Spec => []OneMatterPerCard
  <1>1. Init => SingleUse
    <2>1. ASSUME Init PROVE Created = {} /\ handler = Idle
      BY <2>1 DEF Init, Created
    <2>2. QED
      BY <2>1, IInvInit DEF SingleUse, CardsAreSpent, OneMatterPerCard, Idle
  <1>2. SingleUse => OneMatterPerCard
    BY DEF SingleUse
  <1>3. QED
    BY <1>1, <1>2, SingleUseStep, PTL DEF Spec

\* A matter keeps what it was created with and the card it was created under.
MattersStay ==
    \A k \in Created : matters'[k] = matters[k] /\ bound'[k] = bound[k]

\* No second conversion, reconciliation, cancellation or restart writes over a
\* matter: a correlation is never asked for twice.
THEOREM MattersAreKept == Spec => [][MattersStay]_vars
  <1>1. ASSUME IInv, Next PROVE MattersStay
    <2> USE DEF disk, process, surface, history
    <2>1. CASE Create
      <3>1. handler # Idle /\ handler.at = "begun"
        BY <2>1 DEF Create, Idle
      <3>2. handler.key \notin Created
        BY <1>1, <3>1 DEF IInv, HandlerIsTheAttempt
      <3>3. QED
        BY <1>1, <2>1, <3>2 DEF Create, Takes, MattersStay, IInv, TypeOK, Created
    <2>2. CASE UNCHANGED <<matters, bound>>
      BY <2>2 DEF MattersStay
    <2>3. CASE ~ Create
      <3>1. UNCHANGED <<matters, bound>>
        BY <1>1, <2>3 DEF Next, Read, Show, PrepareConfirm, Execute, PutAside, GiveUp, Save,
           Refuse, Begin, Settle, Ask, Reconcile, CancelAttempt, Crash, Restart, StartsAgain
      <3>2. QED
        BY <2>2, <3>1
    <2>4. QED
      BY <2>1, <2>3
  <1>2. IInv /\ [Next]_vars => [MattersStay]_vars
    BY <1>1
  <1>3. QED
    BY <1>2, IInvInit, IInvStep, PTL DEF Spec
=============================================================================
