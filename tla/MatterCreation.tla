--------------------------- MODULE MatterCreation ---------------------------
(***************************************************************************)
(* A draft becomes a matter.  The draft is a file of the device, the matter  *)
(* is created in the custody store, and the two are joined by an attempt:    *)
(* a correlation written on the draft before the creation is asked for.  A   *)
(* confirmation card, good for one creation and kept in memory, stands       *)
(* between the user and the request.  The surface acts on a projection that  *)
(* it reads at one time and shows at another.                                *)
(*                                                                          *)
(* A conversion is one synchronous handler, so that only the end of the      *)
(* process or a write that fails cuts it.  A reconciliation awaits in the    *)
(* middle.  The user is signed in and the calls are admitted: one that is    *)
(* not changes nothing.                                                      *)
(***************************************************************************)
EXTENDS Naturals, Sequences, FiniteSets

CONSTANTS
    Contents,     \* complete contents of the draft, as a card is bound to them
    Keys,         \* correlations, which also name the matters
    Cards,        \* ids of confirmations
    MaxRecords,   \* confirmations the table keeps
    MaxFaults,    \* bound: writes that fail and doubtful commits
    MaxCrashes,   \* bound: ends of the process in the middle of anything
    None

ASSUME NoneIsNoValue == None \notin Contents \cup Keys \cup Cards
ASSUME RecordsAreKept == MaxRecords \in Nat \ {0}
ASSUME BoundsAreNat == MaxFaults \in Nat /\ MaxCrashes \in Nat

VARIABLES
    draft,        \* the file of the draft
    matters,      \* the custody store: what each matter was created with
    custody,      \* the handle of the store; once closed it stays cached
    table,        \* the confirmations in memory, oldest first
    cards,        \* what became of each confirmation
    requests,     \* cards whose conversion the surface has asked for
    handler,      \* the conversion under way
    settling,     \* the matter a reconciliation has found, across its await
    shown,        \* the draft as the surface shows it
    reading,      \* a projection on its way to the surface
    card,         \* the card the surface holds
    executing,    \* the card whose answer the surface waits for
    faults, crashes,
    issued,       \* history: what each card was issued for
    bound,        \* history: the card that each matter was created with
    dropped       \* history: matters whose open attempt was taken off the draft

disk    == <<draft, matters>>
process == <<custody, table, cards, requests, handler, settling>>
surface == <<shown, reading, card, executing>>
history == <<issued, bound, dropped>>
vars    == <<disk, process, surface, faults, crashes, history>>

NoAttempt == [key |-> None, state |-> "none"]
Attempts == [key : Keys, state : {"pending", "unknown", "failed"}] \cup {NoAttempt}
Drafts == [status : {"editing", "converted"}, ref : Keys \cup {None},
           fields : Contents \cup {None}, attempt : Attempts]
Idle == [at |-> "idle", key |-> None, card |-> None]
Handlers == [at : {"begun", "created", "denied", "unknown"}, key : Keys, card : Cards]
            \cup {Idle}

TypeOK ==
    /\ draft \in Drafts
    /\ matters \in [Keys -> Contents \cup {None}]
    /\ custody \in {"open", "closed"}
    /\ table \in Seq(Cards)
    /\ cards \in [Cards -> {"new", "open", "consumed", "stale"}]
    /\ requests \subseteq Cards
    /\ handler \in Handlers
    /\ settling \in Keys \cup {None}
    /\ shown \in Drafts /\ reading \in Drafts \cup {None}
    /\ card \in Cards \cup {None} /\ executing \in Cards \cup {None}
    /\ faults \in 0 .. MaxFaults /\ crashes \in 0 .. MaxCrashes
    /\ issued \in [Cards -> Contents \cup {None}]
    /\ bound \in [Keys -> Cards \cup {None}]
    /\ dropped \subseteq Keys

NewDraft == [status |-> "editing", ref |-> None, fields |-> None, attempt |-> NoAttempt]

Init ==
    /\ draft = NewDraft /\ matters = [k \in Keys |-> None]
    /\ custody = "open" /\ table = <<>> /\ cards = [c \in Cards |-> "new"]
    /\ requests = {} /\ handler = Idle /\ settling = None
    /\ shown = NewDraft /\ reading = None /\ card = None /\ executing = None
    /\ faults = 0 /\ crashes = 0
    /\ issued = [c \in Cards |-> None] /\ bound = [k \in Keys |-> None] /\ dropped = {}

IsOpen(a) == a.state \in {"pending", "unknown"}
Ready(d) == d.status = "editing" /\ d.fields # None
Used == {k \in Keys : matters[k] # None} \cup
        {draft.attempt.key, draft.ref, settling} \cup dropped

Fault == faults < MaxFaults /\ faults' = faults + 1
NoFault == UNCHANGED faults

\* What leaves the draft with an open attempt that nothing will settle.
Leaves(a) == IF IsOpen(a) THEN {a.key} ELSE {}

(* ------------------------------ the surface ----------------------------- *)

Read ==
    /\ handler = Idle /\ reading = None
    /\ reading' = draft
    /\ UNCHANGED <<disk, process, shown, card, executing, faults, crashes, history>>

\* A converted draft leaves no card to confirm.
Show ==
    /\ reading # None
    /\ shown' = reading /\ reading' = None
    /\ card' = IF reading.status = "converted" THEN None ELSE card
    /\ UNCHANGED <<disk, process, executing, faults, crashes, history>>

Save(f) ==
    /\ shown.status = "editing" /\ handler = Idle
    /\ draft.status = "editing" /\ f # draft.fields
    /\ draft' = [draft EXCEPT !.fields = f]
    /\ UNCHANGED <<matters, process, surface, faults, crashes, history>>

MayConfirm == Ready(shown) /\ ~IsOpen(shown.attempt) /\ card = None

\* The oldest confirmation makes room in a full table.
Kept(t) == IF Len(t) >= MaxRecords THEN Tail(t) ELSE t

\* Ids of confirmations and correlations are random.
FreshCard == CHOOSE c \in Cards : cards[c] = "new"
FreshKey == CHOOSE k \in Keys : k \notin Used

PrepareConfirm ==
    /\ MayConfirm /\ handler = Idle
    /\ Ready(draft) /\ \E c \in Cards : cards[c] = "new"
    /\ cards' = [cards EXCEPT ![FreshCard] = "open"]
    /\ table' = Append(Kept(table), FreshCard)
    /\ issued' = [issued EXCEPT ![FreshCard] = draft.fields]
    /\ card' = FreshCard
    /\ UNCHANGED <<disk, custody, requests, handler, settling, shown, reading,
                   executing, faults, crashes, bound, dropped>>

\* The card is enough to execute: the attempt that is shown is not looked at.
Execute ==
    /\ card # None /\ executing = None
    /\ requests' = requests \cup {card}
    /\ executing' = card /\ card' = None
    /\ UNCHANGED <<disk, custody, table, cards, handler, settling, shown, reading,
                   faults, crashes, history>>

PutAside ==
    /\ card # None /\ card' = None
    /\ UNCHANGED <<disk, process, shown, reading, executing, faults, crashes, history>>

\* The deadline of the surface passes; its request stays under way.
GiveUp ==
    /\ executing # None /\ executing' = None
    /\ UNCHANGED <<disk, process, shown, reading, card, faults, crashes, history>>

(* ----------------------------- the conversion --------------------------- *)

Answers(c) == executing' = IF executing = c THEN None ELSE executing

Consumable_Bug(c) == cards[c] = "open"
Consumable(c) == cards[c] = "open" /\ issued[c] = draft.fields

\* Refused before an attempt is opened: converted since, or a card that is
\* spent, pushed out of the table, or of another content.
Refuse(c) ==
    /\ handler = Idle /\ c \in requests
    /\ \/ ~Ready(draft) /\ UNCHANGED cards
       \/ /\ Ready(draft) /\ c \notin {table[i] : i \in DOMAIN table}
          /\ UNCHANGED cards
       \/ /\ Ready(draft) /\ c \in {table[i] : i \in DOMAIN table}
          /\ ~Consumable(c)
          /\ cards' = IF cards[c] = "open" THEN [cards EXCEPT ![c] = "stale"] ELSE cards
    /\ requests' = requests \ {c} /\ Answers(c)
    /\ UNCHANGED <<disk, custody, table, handler, settling, shown, reading, card,
                   faults, crashes, history>>

\* The attempt is on the draft before anything runs.
Opened_Bug(k) == draft
Opened(k) == [draft EXCEPT !.attempt = [key |-> k, state |-> "pending"]]

Begin(c) ==
    /\ handler = Idle /\ c \in requests
    /\ Ready(draft)
    /\ c \in {table[i] : i \in DOMAIN table} /\ Consumable(c)
    /\ Keys \ Used # {}
    /\ requests' = requests \ {c}
    /\ cards' = [cards EXCEPT ![c] = "consumed"]
    /\ \/ /\ NoFault
          /\ draft' = Opened(FreshKey)
          /\ dropped' = dropped \cup Leaves(draft.attempt)
          /\ handler' = [at |-> "begun", key |-> FreshKey, card |-> c]
          /\ UNCHANGED executing
       \/ /\ Fault
          /\ Answers(c) /\ UNCHANGED <<draft, handler, dropped>>
    /\ UNCHANGED <<matters, custody, table, settling, shown, reading, card, crashes,
                   issued, bound>>

Takes(k, c) ==
    /\ matters' = [matters EXCEPT ![k] = draft.fields]
    /\ bound' = [bound EXCEPT ![k] = c]

\* The answers of the store: appended; provably nothing, where a failure before the
\* commit may close the handle; or nobody knows, and then the handle is closed.
Told_Bug(o) == IF o = "unknown" THEN "denied" ELSE o
Told(o) == o

Create ==
    /\ handler.at = "begun"
    /\ \/ /\ custody = "open" /\ NoFault
          /\ Takes(handler.key, handler.card)
          /\ handler' = [handler EXCEPT !.at = "created"]
          /\ UNCHANGED custody
       \/ /\ IF custody = "closed" THEN NoFault ELSE Fault
          /\ handler' = [handler EXCEPT !.at = "denied"]
          /\ custody' \in {custody, "closed"}
          /\ UNCHANGED <<matters, bound>>
       \/ /\ custody = "open" /\ Fault
          /\ \/ Takes(handler.key, handler.card)
             \/ UNCHANGED <<matters, bound>>
          /\ handler' = [handler EXCEPT !.at = Told("unknown")]
          /\ custody' = "closed"
    /\ UNCHANGED <<draft, table, cards, requests, settling, surface, crashes,
                   issued, dropped>>

\* commitConversion, which asks neither for the attempt nor for the status.
Committed(d, k) == [d EXCEPT !.status = "converted", !.ref = k, !.attempt = NoAttempt]

Noted_Bug(d, k, s) == [d EXCEPT !.attempt.state = handler.at]
Noted(d, k, s) == IF d.attempt.key = k THEN [d EXCEPT !.attempt.state = s] ELSE d

Recorded ==
    CASE handler.at = "created" -> Committed(draft, handler.key)
      [] handler.at = "unknown" -> Noted(draft, handler.key, "unknown")
      [] OTHER                  -> Noted(draft, handler.key, "failed")

Settle ==
    /\ handler.at \in {"created", "denied", "unknown"}
    /\ \/ NoFault /\ draft' = Recorded
       \/ Fault /\ UNCHANGED draft
    /\ handler' = Idle /\ Answers(handler.card)
    /\ UNCHANGED <<matters, custody, table, cards, requests, settling, shown, reading,
                   card, crashes, history>>

(* ---------------------- reconciliation and cancelling ------------------- *)

Found_Bug(k) == k # None
Found(k) == k # None /\ matters[k] # None

MayAsk_Bug == shown.attempt.state = "pending"
MayAsk == shown.attempt.state = "unknown"

\* It asks for the attempt that the draft has now, and waits; what is not found
\* stays unknown, and so does everything once the handle is closed.
Ask ==
    /\ MayAsk /\ settling = None /\ handler = Idle
    /\ custody = "open" /\ Found(draft.attempt.key)
    /\ settling' = draft.attempt.key
    /\ UNCHANGED <<disk, custody, table, cards, requests, handler, surface, faults,
                   crashes, history>>

Reconcile ==
    /\ settling # None /\ handler = Idle
    /\ \/ /\ NoFault
          /\ draft' = Committed(draft, settling)
          /\ dropped' = dropped \cup ((Leaves(draft.attempt) \cup {draft.ref}) \ {settling, None})
       \/ Fault /\ UNCHANGED <<draft, dropped>>
    /\ settling' = None
    /\ UNCHANGED <<matters, custody, table, cards, requests, handler, surface, crashes,
                   issued, bound>>

\* Offered for a pending attempt: `the confirmation that was not submitted'.
CancelAttempt ==
    /\ shown.attempt.state = "pending" /\ handler = Idle
    /\ draft.attempt.state = "pending"
    /\ draft' = [draft EXCEPT !.attempt = NoAttempt]
    /\ dropped' = dropped \cup Leaves(draft.attempt)
    /\ UNCHANGED <<matters, process, surface, faults, crashes, issued, bound>>

(* ------------------------------- restarts ------------------------------- *)

\* The process starts again: memory is lost and the draft is shown as it is.
StartsAgain ==
    /\ custody' = "open" /\ table' = <<>> /\ requests' = {}
    /\ handler' = Idle /\ settling' = None
    /\ shown' = draft /\ reading' = None /\ card' = None /\ executing' = None
    /\ UNCHANGED <<disk, cards, faults, history>>

Crash ==
    /\ crashes < MaxCrashes /\ crashes' = crashes + 1
    /\ StartsAgain

Restart ==
    /\ handler = Idle /\ settling = None /\ custody = "closed"
    /\ StartsAgain /\ UNCHANGED crashes

Next ==
    \/ Read \/ Show \/ PrepareConfirm \/ Execute \/ PutAside \/ GiveUp
    \/ \E f \in Contents \cup {None} : Save(f)
    \/ \E c \in Cards : Refuse(c) \/ Begin(c)
    \/ Create \/ Settle
    \/ Ask \/ Reconcile \/ CancelAttempt
    \/ Crash \/ Restart

\* Handlers end, the surface reads on, the user asks about an unknown result
\* and starts the application again when the store is gone.
Fairness ==
    /\ WF_vars(Create) /\ WF_vars(Settle) /\ WF_vars(Reconcile)
    /\ WF_vars(Read) /\ WF_vars(Show) /\ WF_vars(Ask) /\ WF_vars(Restart)

Spec == Init /\ [][Next]_vars
FairSpec == Spec /\ Fairness

(* ------------------------------ properties ------------------------------ *)

Created == {k \in Keys : matters[k] # None}

\* A matter has the content of the card the user executed for it, whatever was
\* saved between preparing the card and creating the matter.
MatterIsWhatWasConfirmed ==
    \A k \in Created : bound[k] # None /\ matters[k] = issued[bound[k]]

\* `failed' re-opens the confirmation: what it says was not created was not.
FailedWasNotCreated ==
    draft.attempt.state = "failed" => draft.attempt.key \notin Created

\* A draft shown as converted names a matter that is in the store.
ConvertedNamesAMatter ==
    draft.status = "converted" => draft.ref \in Created

\* What the draft says of the store is so, although it is written apart from it
\* and after it.
DraftIsTrue == FailedWasNotCreated /\ ConvertedNamesAMatter

\* The draft leads to every matter it was turned into, across any crash, unless
\* an open attempt was cancelled, or replaced by way of a card left standing.
NothingCreatedIsForgotten ==
    \A k \in Created : k \in {draft.ref, draft.attempt.key} \cup dropped

\* A creation that took effect without anybody knowing is settled in the end.
UnknownIsSettled ==
    \A k \in Keys :
        (draft.attempt = [key |-> k, state |-> "unknown"] /\ k \in Created)
            ~> draft.attempt.key # k

\* US-005 and ADR-0211: a draft never becomes two matters.
OneMatterPerDraft == Cardinality(Created) <= 1
=============================================================================
