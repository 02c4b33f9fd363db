---------------------------- MODULE HostPipesProofs ----------------------------
(* For any number of streams, chunks and frames in a pipe, and every way to     *)
(* give up: no race between the two ends is taken for a breach, responses are    *)
(* whole or failed, and no pipe stands still for nothing.  Proofs about          *)
(* HostPipes.                                                                    *)
EXTENDS HostPipes, SequenceTheorems, TLAPS

-----------------------------------------------------------------------------
(* The pipes, and the types.                                                 *)

\* An entry is new until its stream id is given out, and no frame names another one.
Begun ==
    /\ \A s \in Streams : s > used => call[s].at = "new"
    /\ \A n \in DOMAIN toHost : toHost[n].stream <= used

\* The types, with what the proof of them needs.
TypeInv == TypeOK /\ Begun

\* A pipe after one more frame.
LEMMA Appended ==
    ASSUME NEW q \in Seq(Frames), NEW f \in Frames
    PROVE  /\ Append(q, f) \in Seq(Frames)
           /\ Len(Append(q, f)) = Len(q) + 1
           /\ DOMAIN Append(q, f) = 1 .. Len(q) + 1 /\ DOMAIN q = 1 .. Len(q)
           /\ \A n \in 1 .. Len(q) : Append(q, f)[n] = q[n]
           /\ Append(q, f)[Len(q) + 1] = f
  BY AppendProperties, LenProperties

\* What is left of a pipe whose first frames are dropped.
LEMMA Dropped ==
    ASSUME NEW q \in Seq(Frames), NEW k \in 0 .. Len(q)
    PROVE  LET r == SubSeq(q, k + 1, Len(q)) IN
           /\ r \in Seq(Frames)
           /\ Len(r) = Len(q) - k
           /\ DOMAIN r = 1 .. Len(q) - k /\ DOMAIN q = 1 .. Len(q)
           /\ \A n \in 1 .. Len(q) - k : r[n] = q[n + k]
  <1> DEFINE r == SubSeq(q, k + 1, Len(q))
  <1>1. Len(q) \in Nat /\ \A n \in 1 .. Len(q) : q[n] \in Frames
    BY LenProperties, ElementOfSeq
  <1>2. /\ r \in Seq(Frames)
        /\ Len(r) = IF k + 1 <= Len(q) THEN Len(q) - (k + 1) + 1 ELSE 0
        /\ \A n \in 1 .. Len(q) - (k + 1) + 1 : r[n] = q[k + 1 + n - 1]
    <2>1. k + 1 \in Int /\ Len(q) \in Int /\ \A n \in k + 1 .. Len(q) : q[n] \in Frames
      BY <1>1
    <2>2. QED
      BY <2>1, SubSeqProperties
  <1>3. QED
    BY <1>1, <1>2, LenProperties

\* What is left of a pipe whose head was handled.
LEMMA Handled ==
    ASSUME NEW q \in Seq(Frames), q # <<>>
    PROVE  /\ Head(q) = q[1] /\ Head(q) \in Frames
           /\ Tail(q) \in Seq(Frames) /\ Len(Tail(q)) = Len(q) - 1 /\ Len(q) >= 1
           /\ DOMAIN Tail(q) = 1 .. Len(q) - 1 /\ DOMAIN q = 1 .. Len(q)
           /\ \A n \in 1 .. Len(q) - 1 : Tail(q)[n] = q[n + 1]
  BY HeadTailProperties, LenProperties, EmptySeq

\* Of a pipe that breaks its first frames are left, those it had taken.
LEMMA TakenPart ==
    ASSUME NEW q \in Seq(Frames), NEW hand \in 0 .. Len(q)
    PROVE  LET r == Taken(q, hand) IN
           /\ r \in Seq(Frames)
           /\ Len(r) <= Len(q) /\ hand <= Len(r)
           /\ DOMAIN r = 1 .. Len(r) /\ DOMAIN q = 1 .. Len(q)
           /\ \A n \in 1 .. Len(r) : r[n] = q[n]
  <1> DEFINE m == PipeSize + hand
  <1> DEFINE r == SubSeq(q, 1, m)
  <1>1. Len(q) \in Nat /\ \A n \in 1 .. Len(q) : q[n] \in Frames
    BY LenProperties, ElementOfSeq
  <1>2. DOMAIN q = 1 .. Len(q)
    BY LenProperties
  <1>3. CASE Len(q) <= m
    BY <1>1, <1>2, <1>3 DEF Taken, Drained
  <1>4. CASE ~ (Len(q) <= m)
    <2>1. m \in Nat /\ m < Len(q) /\ hand <= m
      BY <1>1, <1>4, BoundsAreNat
    <2>2. \A n \in 1 .. m : q[n] \in Frames
      BY <1>1, <2>1
    <2> HIDE DEF m
    <2>3. /\ r \in Seq(Frames)
          /\ Len(r) = IF 1 <= m THEN m - 1 + 1 ELSE 0
          /\ \A n \in 1 .. m - 1 + 1 : r[n] = q[1 + n - 1]
      BY <2>1, <2>2, SubSeqProperties
    <2>4. Len(r) = m /\ DOMAIN r = 1 .. m /\ \A n \in 1 .. m : r[n] = q[n]
      BY <2>1, <2>3, LenProperties
    <2>5. Taken(q, hand) = r
      BY <1>4 DEF Taken, Drained, m, r
    <2> HIDE DEF r
    <2>6. QED
      BY <1>2, <2>1, <2>3, <2>4, <2>5
  <1>5. QED
    BY <1>3, <1>4

\* The forms in which frames are written.
LEMMA FramesAreFrames ==
    /\ \A s \in Streams, t \in Types : Frame(s, t) \in Frames
    /\ \A s \in Streams, b \in BOOLEAN : StartOf(s, b) \in Frames
    /\ \A s \in Streams, n \in Nat : DataOf(s, n) \in Frames
  BY DEF Frame, StartOf, DataOf, Frames, Types

\* Everything starts idle, with its type.
LEMMA TypeInit == Init => TypeInv
  <1> SUFFICES ASSUME Init PROVE TypeInv
    OBVIOUS
  <1>1. <<>> \in Seq(Frames) /\ Len(<<>>) = 0 /\ DOMAIN <<>> = {}
    BY EmptySeq
  <1>2. MaxStreams \in Nat
    BY BoundsAreNat
  <1>3. call \in [Streams -> Call] /\ \A s \in Streams : call[s].at = "new"
    BY DEF Init, Call
  <1>4. pump \in [Streams -> Upload] /\ run \in [Streams -> Flight]
    BY DEF Init, Upload, Flight
  <1>5. toHost = <<>> /\ toMain = <<>> /\ used = 0 /\ lastStream = 0 /\ arrived = 0 /\ received = 0
    BY DEF Init
  <1>6. toHost \in Seq(Frames) /\ toMain \in Seq(Frames) /\ Len(toHost) = 0 /\ Len(toMain) = 0
    BY <1>1, <1>5
  <1>7. used \in 0 .. MaxStreams /\ lastStream \in 0 .. used
    BY <1>2, <1>5
  <1>8. received \in 0 .. Len(toHost) /\ arrived \in 0 .. Len(toMain)
    BY <1>5, <1>6
  <1>9. Begun
    BY <1>1, <1>3, <1>5 DEF Begun
  <1>10. TypeOK
    <2>1. blockedResponses = {} /\ responsePaused = FALSE /\ blockedRequests = {} /\ requestPaused = FALSE
          /\ bodies = {} /\ discarded = {} /\ aborted = {} /\ broken = {}
          /\ main = "active" /\ host = "up" /\ late = FALSE
      BY DEF Init
    <2>2. QED
      BY <1>3, <1>4, <1>6, <1>7, <1>8, <2>1 DEF TypeOK
  <1>11. QED
    BY <1>9, <1>10 DEF TypeInv

\* An entry that is given up or ends is an entry.
LEMMA CallGivenUp ==
    ASSUME TypeInv, NEW s \in Streams
    PROVE  Failed(call[s]) \in Call /\ Ended(call[s]) \in Call
  BY DEF TypeInv, TypeOK, Call, Failed, Ended

\* Who waits for a response was given a stream id.
LEMMA PendingBegun ==
    ASSUME TypeInv, NEW s \in Streams, Pending(s)
    PROVE  s <= used /\ s \in Nat
  BY DEF TypeInv, TypeOK, Begun, Pending, Streams

\* What fail does to the callers.
LEMMA AllFailed ==
    ASSUME TypeInv, FailsAll
    PROVE  /\ call' \in [Streams -> Call]
           /\ \A s \in Streams : call[s].at = "new" => call'[s].at = "new"
           /\ blockedResponses' \subseteq Streams /\ responsePaused' \in BOOLEAN
           /\ main' = "lost"
  BY CallGivenUp DEF TypeInv, TypeOK, FailsAll, Pending

\* A cancellation, written, lost or refused, keeps the types.
LEMMA CancelTypes ==
    ASSUME TypeInv, NEW s \in Streams, NEW c \in Call, Pending(s), Cancels(s, c)
    PROVE  /\ call' \in [Streams -> Call]
           /\ \A t \in Streams : call[t].at = "new" => call'[t].at = "new"
           /\ blockedResponses' \subseteq Streams /\ responsePaused' \in BOOLEAN
           /\ main' \in {main, "failing"}
           /\ toHost' \in {toHost, Append(toHost, Frame(s, "cancel"))}
  BY DEF TypeInv, TypeOK, Cancels, Unblocks, Pending

\* The request pipe after one more frame of a stream that was begun.
LEMMA MoreToHost ==
    ASSUME TypeInv, NEW f \in Frames, f.stream <= used', used' \in 0 .. MaxStreams, used <= used',
           toHost' \in {toHost, Append(toHost, f)}
    PROVE  /\ toHost' \in Seq(Frames) /\ Len(toHost') \in Nat /\ Len(toHost') >= Len(toHost)
           /\ \A n \in DOMAIN toHost' : toHost'[n].stream <= used'
  <1>1. toHost \in Seq(Frames) /\ Len(toHost) \in Nat /\ DOMAIN toHost = 1 .. Len(toHost)
    BY LenProperties DEF TypeInv, TypeOK
  <1>2. \A n \in 1 .. Len(toHost) : toHost[n] \in Frames /\ toHost[n].stream \in Nat /\ toHost[n].stream <= used
    <2>1. \A n \in 1 .. Len(toHost) : toHost[n] \in Frames
      BY <1>1, ElementOfSeq
    <2>2. \A n \in 1 .. Len(toHost) : toHost[n].stream <= used
      BY <1>1 DEF TypeInv, Begun
    <2>3. \A x \in Frames : x.stream \in Nat
      BY DEF Frames, Streams
    <2>4. QED
      BY <2>1, <2>2, <2>3
  <1>3. used \in Nat /\ used' \in Nat
    BY BoundsAreNat DEF TypeInv, TypeOK
  <1>4. CASE toHost' = toHost
    BY <1>1, <1>2, <1>3, <1>4
  <1>5. CASE toHost' = Append(toHost, f)
    <2>1. /\ toHost' \in Seq(Frames) /\ Len(toHost') = Len(toHost) + 1
          /\ DOMAIN toHost' = 1 .. Len(toHost) + 1
          /\ \A n \in 1 .. Len(toHost) : toHost'[n] = toHost[n]
          /\ toHost'[Len(toHost) + 1] = f
      BY <1>1, <1>5, Appended
    <2>2. QED
      BY <1>1, <1>2, <1>3, <2>1
  <1>6. QED
    BY <1>4, <1>5

\* Lengths and elements of the two pipes.
LEMMA PipeFacts ==
    ASSUME TypeInv
    PROVE  /\ toHost \in Seq(Frames) /\ Len(toHost) \in Nat /\ DOMAIN toHost = 1 .. Len(toHost)
           /\ toMain \in Seq(Frames) /\ Len(toMain) \in Nat /\ DOMAIN toMain = 1 .. Len(toMain)
           /\ \A n \in 1 .. Len(toHost) : toHost[n] \in Frames
           /\ \A n \in 1 .. Len(toMain) : toMain[n] \in Frames
           /\ used \in Nat /\ lastStream \in Nat /\ received \in Nat /\ arrived \in Nat
  BY LenProperties, ElementOfSeq, BoundsAreNat DEF TypeInv, TypeOK

\* Stream ids are numbers.
LEMMA StreamsAreNat == Streams \subseteq Nat /\ \A f \in Frames : f.stream \in Streams
  BY DEF Streams, Frames

\* One entry changes.
LEMMA OneCall ==
    ASSUME TypeInv, NEW s \in Streams, NEW c \in Call, call' = [call EXCEPT ![s] = c],
           used <= used', used' \in Nat, s > used' => c.at = "new"
    PROVE  call' \in [Streams -> Call] /\ \A t \in Streams : t > used' => call'[t].at = "new"
  <1>1. used \in Nat /\ Streams \subseteq Nat
    BY PipeFacts, StreamsAreNat
  <1>2. call \in [Streams -> Call] /\ \A t \in Streams : t > used => call[t].at = "new"
    BY DEF TypeInv, TypeOK, Begun
  <1>3. QED
    BY <1>1, <1>2

\* One upload changes.
LEMMA OnePump ==
    ASSUME TypeInv, NEW s \in Streams, NEW p \in Upload, pump' = [pump EXCEPT ![s] = p]
    PROVE  pump' \in [Streams -> Upload]
  BY DEF TypeInv, TypeOK

\* Of the entry, the upload and the run of a stream.
LEMMA EntryTypes ==
    ASSUME TypeInv, NEW s \in Streams
    PROVE  /\ call[s] \in Call /\ pump[s] \in Upload /\ run[s] \in Flight
           /\ call[s].queue \in Nat /\ call[s].got \in Nat
           /\ pump[s].sent \in Nat /\ run[s].sent \in Nat
  BY DEF TypeInv, TypeOK, Call, Upload, Flight

\* The entries that the actions of the main process make of one.
LEMMA EntryForms ==
    /\ \A c \in Call, b \in BOOLEAN : [c EXCEPT !.at = "waiting", !.upload = b] \in Call
    /\ \A c \in Call : [c EXCEPT !.at = "unsent", !.verdict = "failed"] \in Call
    /\ \A c \in Call : [c EXCEPT !.upload = FALSE] \in Call
    /\ \A c \in Call, n, m \in Nat : [c EXCEPT !.queue = n, !.got = m] \in Call
    /\ \A c \in Call, n \in Nat : [c EXCEPT !.queue = n] \in Call
    /\ \A c \in Call, n \in Nat : [c EXCEPT !.got = n] \in Call
    /\ \A c \in Call : [c EXCEPT !.at = "streaming"] \in Call /\ [c EXCEPT !.at = "started"] \in Call
    /\ \A p \in Upload, n \in Nat : [p EXCEPT !.sent = n] \in Upload
    /\ \A p \in Upload, a \in {"pumping", "ending", "done"} : [p EXCEPT !.at = a] \in Upload
  BY DEF Call, Upload

\* A step of the main process that takes no response.
LEMMA CallerTypes ==
    ASSUME TypeInv, NEW s \in Streams,
           Caller(s) \/ Pump(s)
    PROVE  TypeInv'
  <1>a. /\ toHost \in Seq(Frames) /\ Len(toHost) \in Nat
        /\ used \in Nat /\ lastStream \in Nat /\ received \in Nat /\ arrived \in Nat
        /\ \A n \in DOMAIN toHost : toHost[n].stream \in Nat
    BY PipeFacts, StreamsAreNat
  <1>b. MaxStreams \in Nat /\ s \in 1 .. MaxStreams /\ Streams = 1 .. MaxStreams
    BY BoundsAreNat DEF Streams
  <1> USE <1>a, <1>b
  <1>1. ASSUME Fetch(s) PROVE TypeInv'
    <2>1. StartOf(s, s \in Uploads) \in Frames /\ StartOf(s, s \in Uploads).stream = s
      <3>1. (s \in Uploads) \in BOOLEAN
        OBVIOUS
      <3>2. QED
        BY <3>1, FramesAreFrames DEF StartOf
    <2>2. used' = s /\ s \in 0 .. MaxStreams /\ used <= used'
      BY <1>1 DEF Fetch
    <2>3. /\ toHost' \in Seq(Frames) /\ Len(toHost') \in Nat /\ Len(toHost') >= Len(toHost)
          /\ \A n \in DOMAIN toHost' : toHost'[n].stream <= used'
      BY <1>1, <2>1, <2>2, MoreToHost DEF Fetch
    <2>4. /\ call' \in [Streams -> Call]
          /\ \A t \in Streams : t > used' => call'[t].at = "new"
      <3>1. (s \in Uploads) \in BOOLEAN
        OBVIOUS
      <3> DEFINE c == [call[s] EXCEPT !.at = "waiting", !.upload = s \in Uploads]
      <3>2. c \in Call
        BY <3>1, EntryTypes, EntryForms
      <3>3. call' = [call EXCEPT ![s] = c]
        BY <1>1 DEF Fetch
      <3>4. ~ (s > used') /\ used' \in Nat /\ used <= used'
        BY <2>2
      <3> HIDE DEF c
      <3>5. QED
        BY <2>2, <3>2, <3>3, <3>4, OneCall
    <2>5. pump' \in [Streams -> Upload]
      BY <1>1 DEF Fetch, TypeInv, TypeOK, Upload
    <2>6. lastStream' \in 0 .. used' /\ received' \in 0 .. Len(toHost')
      BY <1>1, <2>2, <2>3 DEF Fetch, TypeInv, TypeOK, taking
    <2>7. QED
      BY <1>1, <2>2, <2>3, <2>4, <2>5, <2>6
      DEF Fetch, TypeInv, TypeOK, Begun, blocking, taking, runs, states
  <1>2. ASSUME FetchAborted(s) PROVE TypeInv'
    <2>2. used' = s /\ s \in 0 .. MaxStreams /\ used <= used'
      BY <1>2 DEF FetchAborted
    <2>3. \A n \in DOMAIN toHost : toHost[n].stream \in Nat /\ toHost[n].stream <= used'
      BY <2>2 DEF TypeInv, Begun
    <2>4. /\ call' \in [Streams -> Call]
          /\ \A t \in Streams : t > used' => call'[t].at = "new"
      <3> DEFINE c == [call[s] EXCEPT !.at = "unsent", !.verdict = "failed"]
      <3>2. c \in Call
        BY EntryTypes, EntryForms
      <3>3. call' = [call EXCEPT ![s] = c]
        BY <1>2 DEF FetchAborted
      <3>4. ~ (s > used') /\ used' \in Nat /\ used <= used'
        BY <2>2
      <3> HIDE DEF c
      <3>5. QED
        BY <2>2, <3>2, <3>3, <3>4, OneCall
    <2>6. lastStream' \in 0 .. used'
      BY <1>2, <2>2 DEF FetchAborted, TypeInv, TypeOK, taking
    <2>7. QED
      BY <1>2, <2>2, <2>3, <2>4, <2>6
      DEF FetchAborted, TypeInv, TypeOK, Begun, blocking, taking, runs, states
  <1>3. ASSUME Cancels(s, Failed(call[s])), Pending(s), pump' \in [Streams -> Upload],
               UNCHANGED <<used, arrived, taking, received, runs, toMain, host, broken, late>>
        PROVE TypeInv'
    <2>1. Failed(call[s]) \in Call
      BY CallGivenUp
    <2>2. /\ call' \in [Streams -> Call]
          /\ \A t \in Streams : call[t].at = "new" => call'[t].at = "new"
          /\ blockedResponses' \subseteq Streams /\ responsePaused' \in BOOLEAN
          /\ main' \in {main, "failing"}
          /\ toHost' \in {toHost, Append(toHost, Frame(s, "cancel"))}
      BY <1>3, <2>1, CancelTypes
    <2>3. Frame(s, "cancel") \in Frames /\ Frame(s, "cancel").stream = s
      BY FramesAreFrames DEF Types, Frame
    <2>4. s <= used
      BY <1>3, PendingBegun
    <2>5. used' \in 0 .. MaxStreams /\ used <= used'
      BY <1>3 DEF TypeInv, TypeOK
    <2>6. /\ toHost' \in Seq(Frames) /\ Len(toHost') \in Nat /\ Len(toHost') >= Len(toHost)
          /\ \A n \in DOMAIN toHost' : toHost'[n].stream <= used'
      BY <1>3, <2>2, <2>3, <2>4, <2>5, MoreToHost
    <2>7. received' \in 0 .. Len(toHost')
      BY <1>3, <2>6 DEF TypeInv, TypeOK
    <2>8. QED
      BY <1>3, <2>2, <2>6, <2>7 DEF TypeInv, TypeOK, Begun, taking, runs
  <1>4. ASSUME Abort(s) PROVE TypeInv'
    BY <1>3, <1>4 DEF Abort, TypeInv, TypeOK
  <1>5. ASSUME CancelResponse(s) PROVE TypeInv'
    BY <1>3, <1>5 DEF CancelResponse, TypeInv, TypeOK, Pending
  <1>6. ASSUME PumpFails(s) PROVE TypeInv'
    <2>1. pump' \in [Streams -> Upload]
      BY <1>6 DEF PumpFails, TypeInv, TypeOK, Upload
    <2>2. QED
      BY <1>3, <1>6, <2>1 DEF PumpFails
  <1>7. ASSUME ReadBody(s) PROVE TypeInv'
    <2>1. /\ call' \in [Streams -> Call]
          /\ \A t \in Streams : t > used => call'[t].at = "new"
      <3>1. call[s].queue - 1 \in Nat /\ call[s].got + 1 \in Nat
        BY <1>7, EntryTypes DEF ReadBody
      <3> DEFINE c == [call[s] EXCEPT !.queue = call[s].queue - 1, !.got = call[s].got + 1]
      <3>2a. c \in Call
        BY <3>1, EntryTypes, EntryForms
      <3>2b. c.at = call[s].at
        BY EntryTypes DEF Call
      <3>2. c \in Call /\ c.at = call[s].at
        BY <3>2a, <3>2b
      <3>3. call' = [call EXCEPT ![s] = c]
        BY <1>7 DEF ReadBody
      <3>4. used' = used /\ used' \in Nat /\ used <= used'
        BY <1>7 DEF ReadBody
      <3>5. s > used' => c.at = "new"
        BY <3>2, <3>4 DEF TypeInv, Begun
      <3> HIDE DEF c
      <3>6. QED
        BY <3>2, <3>3, <3>4, <3>5, OneCall
    <2>2. blockedResponses' \subseteq Streams /\ responsePaused' \in BOOLEAN
      BY <1>7 DEF ReadBody, TypeInv, TypeOK, Unblocks, blocking
    <2>3. QED
      BY <1>7, <2>1, <2>2 DEF ReadBody, TypeInv, TypeOK, Begun, taking, runs, states
  <1>8. ASSUME PumpData(s) \/ PumpEnd(s) PROVE TypeInv'
    <2>1. Pending(s) /\ pump' \in [Streams -> Upload]
      <3>1. Pending(s)
        BY <1>8 DEF PumpData, PumpEnd
      <3> DEFINE p == [pump[s] EXCEPT !.sent = pump[s].sent + 1]
      <3> DEFINE e == [pump[s] EXCEPT !.at = "ending"]
      <3>2. p \in Upload
        BY EntryTypes DEF Upload
      <3>3. e \in Upload
        BY EntryTypes DEF Upload
      <3>4. pump' = [pump EXCEPT ![s] = p] \/ pump' = [pump EXCEPT ![s] = e]
        BY <1>8 DEF PumpData, PumpEnd
      <3> HIDE DEF p, e
      <3>5. QED
        BY <3>1, <3>2, <3>3, <3>4, OnePump
    <2>2. PICK f \in Frames : f.stream = s /\ toHost' = Append(toHost, f)
      <3>1. pump[s].sent + 1 \in Nat
        BY DEF TypeInv, TypeOK, Upload
      <3>2. DataOf(s, pump[s].sent + 1) \in Frames /\ Frame(s, "end") \in Frames
        BY <3>1, FramesAreFrames DEF Types
      <3>3. QED
        BY <1>8, <3>2 DEF PumpData, PumpEnd, DataOf, Frame
    <2>3. UNCHANGED <<used, call, blocking, arrived, taking, received, runs, toMain, states>>
      BY <1>8 DEF PumpData, PumpEnd
    <2>4. s <= used /\ used' \in 0 .. MaxStreams /\ used <= used'
      BY <2>1, <2>3, PendingBegun DEF TypeInv, TypeOK
    <2>5. /\ toHost' \in Seq(Frames) /\ Len(toHost') \in Nat /\ Len(toHost') >= Len(toHost)
          /\ \A n \in DOMAIN toHost' : toHost'[n].stream <= used'
      BY <2>2, <2>3, <2>4, MoreToHost
    <2>6. received' \in 0 .. Len(toHost')
      BY <2>3, <2>5 DEF TypeInv, TypeOK
    <2>7. QED
      BY <2>1, <2>3, <2>5, <2>6 DEF TypeInv, TypeOK, Begun, blocking, taking, runs, states
  <1>9. ASSUME PumpEnded(s) \/ PumpDropped(s) PROVE TypeInv'
    <2>1. pump' \in [Streams -> Upload]
      <3>1. [pump[s] EXCEPT !.at = "done"] \in Upload
        BY EntryTypes, EntryForms
      <3>2. pump' = [pump EXCEPT ![s] = [pump[s] EXCEPT !.at = "done"]]
        BY <1>9 DEF PumpEnded, PumpDropped
      <3>3. QED
        BY <3>1, <3>2, OnePump
    <2>2. /\ call' \in [Streams -> Call]
          /\ \A t \in Streams : t > used => call'[t].at = "new"
      <3> DEFINE c == [call[s] EXCEPT !.upload = FALSE]
      <3>1a. c \in Call
        BY EntryTypes, EntryForms
      <3>1b. c.at = call[s].at
        BY EntryTypes DEF Call
      <3>1. c \in Call /\ c.at = call[s].at
        BY <3>1a, <3>1b
      <3>2. call' = [call EXCEPT ![s] = c] \/ call' = call
        BY <1>9 DEF PumpEnded, PumpDropped
      <3>3. used' = used /\ used' \in Nat /\ used <= used'
        BY <1>9 DEF PumpEnded, PumpDropped
      <3>4. s > used' => c.at = "new"
        BY <3>1, <3>3 DEF TypeInv, Begun
      <3> HIDE DEF c
      <3>5. CASE call' = [call EXCEPT ![s] = c]
        BY <3>1, <3>3, <3>4, <3>5, OneCall
      <3>6. CASE call' = call
        BY <3>6 DEF TypeInv, TypeOK, Begun
      <3>7. QED
        BY <3>2, <3>5, <3>6
    <2>3. UNCHANGED <<used, blocking, arrived, toHost, taking, received, runs, toMain, states>>
      BY <1>9 DEF PumpEnded, PumpDropped
    <2>4. QED
      BY <2>1, <2>2, <2>3 DEF TypeInv, TypeOK, Begun, blocking, taking, runs, states
  <1>10. QED
    BY <1>1, <1>2, <1>4, <1>5, <1>6, <1>7, <1>8, <1>9 DEF Caller, Pump

\* The frame that the main process, or the Host, handles, and what it leaves.
LEMMA NextResponse ==
    ASSUME TypeInv, NEW f, Responds(f)
    PROVE  /\ f \in Frames /\ f.stream \in Streams /\ f = toMain[1] /\ Len(toMain) >= 1
           /\ f.stream \in Nat /\ toMain # <<>>
           /\ Responded => toMain' \in Seq(Frames) /\ arrived' \in 0 .. Len(toMain') /\ broken' = broken
           /\ MainBreaks => toMain' \in Seq(Frames) /\ arrived' \in 0 .. Len(toMain')
  <1>1. toMain # <<>> /\ toMain \in Seq(Frames) /\ Len(toMain) \in Nat /\ arrived \in 0 .. Len(toMain)
    <2>1. arrived > 0 /\ arrived \in 0 .. Len(toMain)
      BY DEF Responds, TypeInv, TypeOK
    <2>2. QED
      BY <2>1, PipeFacts, EmptySeq
  <1>2. f \in Frames /\ f = toMain[1] /\ Len(toMain) >= 1
    BY <1>1, Handled DEF Responds
  <1>3. f.stream \in Streams /\ f.stream \in Nat
    BY <1>2, StreamsAreNat
  <1>4. Responded => toMain' \in Seq(Frames) /\ arrived' \in 0 .. Len(toMain') /\ broken' = broken
    <2>1. Tail(toMain) \in Seq(Frames) /\ Len(Tail(toMain)) = Len(toMain) - 1
      BY <1>1, Handled
    <2>2. QED
      BY <1>1, <2>1 DEF Responded, Responds
  <1>5. MainBreaks => toMain' \in Seq(Frames) /\ arrived' \in 0 .. Len(toMain')
    <2>1. SubSeq(toMain, arrived + 1, Len(toMain)) \in Seq(Frames)
      BY <1>1, Dropped
    <2>2. Len(SubSeq(toMain, arrived + 1, Len(toMain))) \in Nat
      BY <2>1, LenProperties
    <2>3. QED
      BY <2>1, <2>2 DEF MainBreaks
  <1>6. QED
    BY <1>1, <1>2, <1>3, <1>4, <1>5

\* The same for the Host: the frame and the rest of its chunk, dropped when it stops.
LEMMA NextRequest ==
    ASSUME TypeInv, NEW f, Requests(f)
    PROVE  /\ f \in Frames /\ f.stream \in Streams /\ f = toHost[1] /\ Len(toHost) >= 1
           /\ f.stream \in Nat /\ toHost # <<>> /\ f.stream <= used
           /\ Requested => /\ toHost' \in Seq(Frames) /\ received' \in 0 .. Len(toHost')
                           /\ \A n \in DOMAIN toHost' : toHost'[n].stream <= used
                           /\ broken' = broken
           /\ HostBreaks => /\ toHost' \in Seq(Frames) /\ received' \in 0 .. Len(toHost')
                            /\ \A n \in DOMAIN toHost' : toHost'[n].stream <= used
  <1>1. /\ toHost # <<>> /\ toHost \in Seq(Frames) /\ Len(toHost) \in Nat /\ received \in 0 .. Len(toHost)
        /\ DOMAIN toHost = 1 .. Len(toHost)
    <2>1. received > 0 /\ received \in 0 .. Len(toHost)
      BY DEF Requests, TypeInv, TypeOK
    <2>2. QED
      BY <2>1, PipeFacts, EmptySeq
  <1>2. f \in Frames /\ f = toHost[1] /\ Len(toHost) >= 1
    BY <1>1, Handled DEF Requests
  <1>3. f.stream \in Streams /\ f.stream \in Nat /\ f.stream <= used
    <2>1. 1 \in DOMAIN toHost
      BY <1>1, <1>2
    <2>2. toHost[1].stream <= used
      BY <2>1 DEF TypeInv, Begun
    <2>3. QED
      BY <1>2, <2>2, StreamsAreNat
  <1>4. Requested => /\ toHost' \in Seq(Frames) /\ received' \in 0 .. Len(toHost')
                     /\ \A n \in DOMAIN toHost' : toHost'[n].stream <= used
                     /\ broken' = broken
    <2>1. /\ Tail(toHost) \in Seq(Frames) /\ Len(Tail(toHost)) = Len(toHost) - 1
          /\ DOMAIN Tail(toHost) = 1 .. Len(toHost) - 1
          /\ \A n \in 1 .. Len(toHost) - 1 : Tail(toHost)[n] = toHost[n + 1]
      BY <1>1, Handled
    <2>2. \A n \in 1 .. Len(toHost) : toHost[n].stream <= used
      BY <1>1 DEF TypeInv, Begun
    <2>3. QED
      BY <1>1, <2>1, <2>2 DEF Requested, Requests
  <1>5. HostBreaks => /\ toHost' \in Seq(Frames) /\ received' \in 0 .. Len(toHost')
                      /\ \A n \in DOMAIN toHost' : toHost'[n].stream <= used
    <2> DEFINE r == SubSeq(toHost, received + 1, Len(toHost))
    <2>1. /\ r \in Seq(Frames) /\ Len(r) = Len(toHost) - received /\ DOMAIN r = 1 .. Len(toHost) - received
          /\ \A n \in 1 .. Len(toHost) - received : r[n] = toHost[n + received]
      BY <1>1, Dropped
    <2>2. \A n \in 1 .. Len(toHost) : toHost[n].stream <= used
      BY <1>1 DEF TypeInv, Begun
    <2>3. HostBreaks => toHost' = r /\ received' = 0
      BY DEF HostBreaks, HostStops
    <2> HIDE DEF r
    <2>4. \A n \in DOMAIN r : r[n].stream <= used
      <3>1. received \in Nat /\ \A n \in 1 .. Len(toHost) - received : n + received \in 1 .. Len(toHost)
        BY <1>1
      <3>2. QED
        BY <2>1, <2>2, <3>1
    <2>5. QED
      BY <1>1, <2>1, <2>3, <2>4
  <1>6. QED
    BY <1>1, <1>2, <1>3, <1>4, <1>5

\* A step of the main process that handles a frame, or ends everything.
LEMMA MainShape ==
    ASSUME TypeInv,
           call' \in [Streams -> Call], \A t \in Streams : call[t].at = "new" => call'[t].at = "new",
           blockedResponses' \subseteq Streams, responsePaused' \in BOOLEAN,
           main' \in {main, "failing", "lost"}, broken' \subseteq {"main", "host"},
           late' \in BOOLEAN,
           toHost' \in Seq(Frames), Len(toHost') \in Nat, Len(toHost') >= Len(toHost),
           \A n \in DOMAIN toHost' : toHost'[n].stream <= used,
           toMain' \in Seq(Frames), arrived' \in 0 .. Len(toMain'),
           UNCHANGED <<used, pump, taking, received, runs, host>>
    PROVE  TypeInv'
  <1>1. received' \in 0 .. Len(toHost')
    BY PipeFacts DEF TypeInv, TypeOK
  <1>2. Begun'
    BY DEF TypeInv, Begun
  <1>3. QED
    BY <1>1, <1>2 DEF TypeInv, TypeOK, taking, runs

\* No frame of the request pipe is of a stream not given out, whatever else moves.
LEMMA ToHostStays ==
    ASSUME TypeInv, UNCHANGED toHost
    PROVE  /\ toHost' \in Seq(Frames) /\ Len(toHost') \in Nat /\ Len(toHost') >= Len(toHost)
           /\ \A n \in DOMAIN toHost' : toHost'[n].stream <= used
  BY PipeFacts DEF TypeInv, Begun

\* One entry that was begun becomes another.
LEMMA OneResponse ==
    ASSUME TypeInv, NEW s \in Streams, NEW c \in Call, call' = [call EXCEPT ![s] = c], Pending(s)
    PROVE  call' \in [Streams -> Call] /\ \A t \in Streams : call[t].at = "new" => call'[t].at = "new"
  BY DEF TypeInv, TypeOK, Pending

\* A frame of a response, handled or taken for a breach, keeps the types.
LEMMA ResponseTypes ==
    ASSUME TypeInv, Response
    PROVE  TypeInv'
  <1> PICK f \in {toMain[n] : n \in DOMAIN toMain} :
          \/ ResponseForNobody(f) \/ ResponseStart(f) \/ ResponseData(f)
          \/ ResponseEnd(f) \/ ResponseError(f)
    BY DEF Response
  <1> DEFINE s == f.stream
  <1>1. Responds(f)
    BY DEF ResponseForNobody, ResponseStart, ResponseData, ResponseEnd, ResponseError
  <1>2. /\ f \in Frames /\ s \in Streams /\ s \in Nat
        /\ Responded => toMain' \in Seq(Frames) /\ arrived' \in 0 .. Len(toMain') /\ broken' = broken
        /\ MainBreaks => toMain' \in Seq(Frames) /\ arrived' \in 0 .. Len(toMain')
    BY <1>1, NextResponse
  <1>3. UNCHANGED <<used, pump, taking, received, runs, host>>
    BY <1>1 DEF Responds
  <1>4. broken \subseteq {"main", "host"} /\ call[s] \in Call /\ call[s].queue \in Nat /\ call[s].got \in Nat
    BY <1>2, EntryTypes DEF TypeInv, TypeOK
  <1>5. /\ call \in [Streams -> Call] /\ blockedResponses \subseteq Streams /\ responsePaused \in BOOLEAN
        /\ late \in BOOLEAN
    BY DEF TypeInv, TypeOK
  <1>6. ASSUME MainBreaks PROVE TypeInv'
    <2>1. broken' \subseteq {"main", "host"} /\ UNCHANGED <<toHost, late>> /\ FailsAll
      BY <1>4, <1>6 DEF MainBreaks
    <2>2. QED
      BY <1>2, <1>3, <1>5, <1>6, <2>1, AllFailed, ToHostStays, MainShape
  <1>7. ASSUME NEW c \in Call, Pending(s), Responded, call' = [call EXCEPT ![s] = c],
               blockedResponses' \subseteq Streams, responsePaused' \in BOOLEAN, UNCHANGED <<toHost, main>>,
               late' \in BOOLEAN
        PROVE TypeInv'
    <2>1. call' \in [Streams -> Call] /\ \A t \in Streams : call[t].at = "new" => call'[t].at = "new"
      BY <1>2, <1>7, OneResponse
    <2>2. QED
      BY <1>2, <1>3, <1>4, <1>7, <2>1, ToHostStays, MainShape
  <1>8. ASSUME NEW c \in Call, Pending(s), Responded, Cancels(s, c), UNCHANGED late
        PROVE TypeInv'
    <2>1. /\ call' \in [Streams -> Call]
          /\ \A t \in Streams : call[t].at = "new" => call'[t].at = "new"
          /\ blockedResponses' \subseteq Streams /\ responsePaused' \in BOOLEAN
          /\ main' \in {main, "failing"}
          /\ toHost' \in {toHost, Append(toHost, Frame(s, "cancel"))}
      BY <1>2, <1>8, CancelTypes
    <2>2. Frame(s, "cancel") \in Frames /\ Frame(s, "cancel").stream <= used'
      BY <1>2, <1>3, <1>8, FramesAreFrames, PendingBegun DEF Types, Frame
    <2>3. used' \in 0 .. MaxStreams /\ used <= used' /\ used' = used
      BY <1>3, PipeFacts DEF TypeInv, TypeOK
    <2>4. /\ toHost' \in Seq(Frames) /\ Len(toHost') \in Nat /\ Len(toHost') >= Len(toHost)
          /\ \A n \in DOMAIN toHost' : toHost'[n].stream <= used'
      BY <2>1, <2>2, <2>3, MoreToHost
    <2>5. QED
      BY <1>2, <1>3, <1>4, <1>5, <1>8, <2>1, <2>3, <2>4, MainShape
  <1>9. ASSUME ResponseForNobody(f) PROVE TypeInv'
    <2>1. CASE Responded /\ UNCHANGED <<call, blocking, toHost, main, late>>
      <3>1. call' = call /\ blockedResponses' = blockedResponses /\ responsePaused' = responsePaused
        BY <2>1 DEF blocking
      <3>2. QED
        BY <1>2, <1>3, <1>4, <1>5, <2>1, <3>1, ToHostStays, MainShape
    <2>2. QED
      BY <1>6, <1>9, <2>1 DEF ResponseForNobody
  <1>10. ASSUME ResponseStart(f) PROVE TypeInv'
    <2>1. CASE call[s].at = "waiting"
      <3> DEFINE c == [call[s] EXCEPT !.at = IF f.body THEN "streaming" ELSE "started"]
      <3>1. c \in Call
        BY <1>4 DEF Call
      <3>2. Pending(s) /\ Responded /\ call' = [call EXCEPT ![s] = c] /\ UNCHANGED <<blocking, toHost, main, late>>
        BY <1>10, <2>1 DEF ResponseStart
      <3> HIDE DEF c
      <3>3. QED
        BY <1>5, <1>7, <3>1, <3>2 DEF blocking
    <2>2. QED
      BY <1>6, <1>10, <2>1 DEF ResponseStart
  <1>11. ASSUME ResponseData(f) PROVE TypeInv'
    <2>1. CASE call[s].at = "streaming"
      <3> DEFINE c == [call[s] EXCEPT !.got = @ + 1]
      <3> DEFINE d == [call[s] EXCEPT !.queue = @ + 1]
      <3>1. c \in Call /\ d \in Call
        BY <1>4 DEF Call
      <3>2. Pending(s) /\ Responded /\ UNCHANGED <<toHost, main>>
        BY <1>11, <2>1 DEF ResponseData
      <3>3. \/ call' = [call EXCEPT ![s] = c] /\ UNCHANGED <<blocking, late>>
            \/ /\ call' = [call EXCEPT ![s] = d] /\ late' \in BOOLEAN
               /\ blockedResponses' = blockedResponses \cup {s} /\ responsePaused' = TRUE
        BY <1>11, <2>1 DEF ResponseData
      <3> HIDE DEF c, d
      <3>4. QED
        BY <1>2, <1>5, <1>7, <3>1, <3>2, <3>3 DEF blocking
    <2>2. QED
      BY <1>6, <1>11, <2>1 DEF ResponseData
  <1>12. ASSUME ResponseEnd(f) PROVE TypeInv'
    <2>1. Ended(call[s]) \in Call /\ Pending(s)
      BY <1>2, <1>12, CallGivenUp DEF ResponseEnd
    <2>2. CASE Responded /\ UNCHANGED late /\ Cancels(s, Ended(call[s]))
      BY <1>8, <2>1, <2>2
    <2>3. CASE /\ Responded /\ UNCHANGED late /\ call' = [call EXCEPT ![s] = Ended(@)]
               /\ Unblocks(s) /\ UNCHANGED <<toHost, main>>
      <3>1. blockedResponses' \subseteq Streams /\ responsePaused' \in BOOLEAN
        BY <1>5, <2>3 DEF Unblocks
      <3>2. QED
        BY <1>5, <1>7, <2>1, <2>3, <3>1
    <2>4. QED
      BY <1>6, <1>12, <2>2, <2>3 DEF ResponseEnd
  <1>13. ASSUME ResponseError(f) PROVE TypeInv'
    <2>1. Failed(call[s]) \in Call /\ Pending(s) /\ Responded /\ UNCHANGED late
          /\ Cancels(s, Failed(call[s]))
      BY <1>2, <1>13, CallGivenUp DEF ResponseError
    <2>2. QED
      BY <1>8, <2>1
  <1>14. QED
    BY <1>9, <1>10, <1>11, <1>12, <1>13

\* A step of the Host that handles no frame of a request.
LEMMA HostShape ==
    ASSUME TypeInv,
           run' \in [Streams -> Flight], aborted' \subseteq Streams,
           bodies' \subseteq Streams, discarded' \subseteq Streams,
           blockedRequests' \subseteq Streams, requestPaused' \in BOOLEAN,
           lastStream' \in 0 .. used, host' \in {"up", "stopping", "fatal", "ended"},
           broken' \subseteq {"main", "host"},
           toHost' \in Seq(Frames), received' \in 0 .. Len(toHost'),
           \A n \in DOMAIN toHost' : toHost'[n].stream <= used,
           toMain' \in Seq(Frames), arrived' \in 0 .. Len(toMain'),
           UNCHANGED <<calls, blocking, main, late>>
    PROVE  TypeInv'
  <1>1. UNCHANGED <<used, call, pump, blockedResponses, responsePaused, main, late>>
    BY DEF calls, blocking
  <1>2. Begun'
    BY <1>1 DEF TypeInv, Begun
  <1>3. QED
    BY <1>1, <1>2 DEF TypeInv, TypeOK

\* A frame of a request, handled or taken for a breach, keeps the types.
LEMMA RequestTypes ==
    ASSUME TypeInv, Request
    PROVE  TypeInv'
  <1> PICK f \in {toHost[n] : n \in DOMAIN toHost} :
          \/ RequestStart(f) \/ RequestData(f) \/ RequestEnd(f)
          \/ RequestDiscarded(f) \/ RequestCancel(f)
    BY DEF Request
  <1>1. Requests(f)
    BY DEF RequestStart, RequestData, RequestEnd, RequestDiscarded, RequestCancel
  <1>2. /\ f \in Frames /\ f.stream \in Streams /\ f.stream \in Nat /\ f.stream <= used
        /\ Requested => /\ toHost' \in Seq(Frames) /\ received' \in 0 .. Len(toHost')
                        /\ \A n \in DOMAIN toHost' : toHost'[n].stream <= used
                        /\ broken' = broken
        /\ HostBreaks => /\ toHost' \in Seq(Frames) /\ received' \in 0 .. Len(toHost')
                         /\ \A n \in DOMAIN toHost' : toHost'[n].stream <= used
    BY <1>1, NextRequest
  <1>3. /\ UNCHANGED <<calls, blocking, main, late>> /\ toMain' = toMain /\ arrived' = arrived
        /\ toMain \in Seq(Frames) /\ arrived \in 0 .. Len(toMain)
    BY <1>1 DEF Requests, TypeInv, TypeOK
  <1>4. /\ run \in [Streams -> Flight] /\ aborted \subseteq Streams
        /\ bodies \subseteq Streams /\ discarded \subseteq Streams
        /\ blockedRequests \subseteq Streams /\ requestPaused \in BOOLEAN
        /\ lastStream \in 0 .. used /\ host \in {"up", "stopping", "fatal", "ended"}
        /\ broken \subseteq {"main", "host"}
    BY DEF TypeInv, TypeOK
  <1>5. ASSUME HostBreaks PROVE TypeInv'
    <2>1. /\ broken' \subseteq {"main", "host"} /\ host' = "fatal"
          /\ bodies' = {} /\ discarded' = {} /\ blockedRequests' = {} /\ aborted' \subseteq Streams
          /\ UNCHANGED <<lastStream, requestPaused, run>>
      BY <1>4, <1>5 DEF HostBreaks, HostStops
    <2>2. QED
      BY <1>2, <1>3, <1>4, <1>5, <2>1, HostShape
  <1>6. ASSUME Requested, run' \in [Streams -> Flight], aborted' \subseteq Streams,
               bodies' \subseteq Streams, discarded' \subseteq Streams,
               blockedRequests' \subseteq Streams, requestPaused' \in BOOLEAN,
               lastStream' \in 0 .. used
        PROVE TypeInv'
    <2>1. host' = host
      BY <1>6 DEF Requested
    <2>2. QED
      BY <1>2, <1>3, <1>4, <1>6, <2>1, HostShape
  <1>7. ASSUME RequestStart(f) PROVE TypeInv'
    <2>1. CASE f.stream > lastStream
      <3>1. run' = [run EXCEPT ![f.stream].at = "handling"] /\ Requested /\ lastStream' = f.stream
            /\ bodies' \in {bodies, bodies \cup {f.stream}}
            /\ UNCHANGED <<discarded, blockedRequests, requestPaused, aborted>>
        BY <1>7, <2>1 DEF RequestStart
      <3>2. run' \in [Streams -> Flight]
        BY <1>2, <1>4, <3>1 DEF Flight
      <3>3. lastStream' \in 0 .. used
        BY <1>2, <3>1, PipeFacts
      <3>4. QED
        BY <1>2, <1>4, <1>6, <3>1, <3>2, <3>3
    <2>2. QED
      BY <1>5, <1>7, <2>1 DEF RequestStart
  <1>8. ASSUME RequestData(f) PROVE TypeInv'
    <2>1. CASE f.stream \in bodies
      BY <1>2, <1>4, <1>6, <1>8, <2>1 DEF RequestData, runs
    <2>2. QED
      BY <1>5, <1>8, <2>1 DEF RequestData
  <1>9. ASSUME RequestEnd(f) PROVE TypeInv'
    <2>1. CASE f.stream \in bodies
      BY <1>2, <1>4, <1>6, <1>9, <2>1 DEF RequestEnd, ResumesRequests, runs
    <2>2. QED
      BY <1>5, <1>9, <2>1 DEF RequestEnd
  <1>10. ASSUME RequestDiscarded(f) PROVE TypeInv'
    BY <1>2, <1>4, <1>6, <1>10 DEF RequestDiscarded, runs
  <1>11. ASSUME RequestCancel(f) PROVE TypeInv'
    <2>1. CASE f.stream <= lastStream
      BY <1>2, <1>4, <1>6, <1>11, <2>1 DEF RequestCancel, ResumesRequests
    <2>2. QED
      BY <1>5, <1>11, <2>1 DEF RequestCancel
  <1>12. QED
    BY <1>7, <1>8, <1>9, <1>10, <1>11

\* The response pipe after one more frame.
LEMMA MoreToMain ==
    ASSUME TypeInv, NEW f \in Frames, toMain' \in {toMain, Append(toMain, f)}, arrived' = arrived
    PROVE  toMain' \in Seq(Frames) /\ arrived' \in 0 .. Len(toMain')
  <1>1. Append(toMain, f) \in Seq(Frames) /\ Len(Append(toMain, f)) = Len(toMain) + 1
    BY PipeFacts, Appended
  <1>2. toMain \in Seq(Frames) /\ Len(toMain) \in Nat /\ arrived \in 0 .. Len(toMain)
    BY PipeFacts DEF TypeInv, TypeOK
  <1>3. CASE toMain' = toMain
    BY <1>2, <1>3
  <1>4. CASE toMain' = Append(toMain, f)
    BY <1>1, <1>2, <1>4
  <1>5. QED
    BY <1>3, <1>4

\* A run of the Host keeps the types.
LEMMA RunTypes ==
    ASSUME TypeInv, NEW s \in Streams, Run(s)
    PROVE  TypeInv'
  <1>1. /\ run' \in [Streams -> Flight]
        /\ aborted' \subseteq Streams /\ bodies' \subseteq Streams /\ discarded' \subseteq Streams
        /\ blockedRequests' \subseteq Streams /\ requestPaused' \in BOOLEAN
        /\ lastStream' = lastStream
    <2>1. run \in [Streams -> Flight] /\ run[s].sent + 1 \in Nat
      BY EntryTypes DEF TypeInv, TypeOK
    <2>2. run' \in [Streams -> Flight]
      <3>1. CASE RunAnswers(s, TRUE) \/ RunAnswers(s, FALSE)
        <4> DEFINE r(b) == [run[s] EXCEPT !.at = "sending", !.body = b]
        <4>1. r(TRUE) \in Flight /\ r(FALSE) \in Flight
          BY <2>1 DEF Flight
        <4>2. run' = [run EXCEPT ![s] = r(TRUE)] \/ run' = [run EXCEPT ![s] = r(FALSE)]
          BY <3>1 DEF RunAnswers
        <4> HIDE DEF r
        <4>3. QED
          BY <2>1, <4>1, <4>2
      <3>2. CASE RunSends(s)
        BY <2>1, <3>2 DEF RunSends, Flight
      <3>3. CASE RunEnds(s)
        BY <2>1, <3>3 DEF RunEnds, Flight
      <3>4. CASE RunThrows(s)
        BY <2>1, <3>4 DEF RunThrows, Flight
      <3>5. CASE RunOver(s)
        BY <2>1, <3>5 DEF RunOver, Flight
      <3>6. QED
        BY <3>1, <3>2, <3>3, <3>4, <3>5 DEF Run
    <2>3. CASE RunOver(s)
      BY <2>2, <2>3 DEF RunOver, TypeInv, TypeOK, ResumesRequests
    <2>4. CASE ~ RunOver(s)
      BY <2>2, <2>4 DEF Run, RunAnswers, RunSends, RunEnds, RunThrows, Says, TypeInv, TypeOK, taking
    <2>5. QED
      BY <2>3, <2>4
  <1>2. UNCHANGED <<calls, blocking, arrived, toHost, received, main, host, broken, late>>
    BY DEF Run, RunAnswers, RunSends, RunEnds, RunThrows, RunOver, Says, states
  <1>3. toMain' \in Seq(Frames) /\ arrived' \in 0 .. Len(toMain')
    <2>1. \E f \in Frames : toMain' \in {toMain, Append(toMain, f)}
      <3>1. run[s].sent + 1 \in Nat
        BY EntryTypes
      <3>2. CASE RunAnswers(s, TRUE) \/ RunAnswers(s, FALSE)
        BY <3>2, FramesAreFrames DEF RunAnswers, Says
      <3>3. CASE RunSends(s)
        BY <3>1, <3>3, FramesAreFrames DEF RunSends, Says
      <3>4. CASE RunEnds(s)
        BY <3>4, FramesAreFrames DEF RunEnds, Says, Types
      <3>5. CASE RunThrows(s)
        BY <3>5, FramesAreFrames DEF RunThrows, Types
      <3>6. CASE RunOver(s)
        BY <3>6, FramesAreFrames DEF RunOver, Types
      <3>7. QED
        BY <3>2, <3>3, <3>4, <3>5, <3>6 DEF Run
    <2>2. QED
      BY <1>2, <2>1, MoreToMain
  <1>4. /\ lastStream \in 0 .. used /\ host \in {"up", "stopping", "fatal", "ended"}
        /\ broken \subseteq {"main", "host"}
        /\ toHost \in Seq(Frames) /\ received \in 0 .. Len(toHost)
        /\ \A n \in DOMAIN toHost : toHost[n].stream <= used
    BY DEF TypeInv, TypeOK, Begun
  <1>5. QED
    BY <1>1, <1>2, <1>3, <1>4, HostShape

\* Taking frames, stopping and dying keep the types.
LEMMA OtherTypes ==
    ASSUME TypeInv,
           \/ TakeResponses \/ Stop \/ HostLost
           \/ TakeRequests \/ HostStop \/ HostExits \/ HostDies \/ UNCHANGED vars
    PROVE  TypeInv'
  <1> USE DEF TypeInv
  <1>1. CASE TakeResponses
    <2>1. arrived' \in 0 .. Len(toMain')
      BY <1>1, PipeFacts, BoundsAreNat DEF TakeResponses
    <2>2. QED
      BY <1>1, <2>1 DEF TakeResponses, TypeOK, Begun, calls, blocking, taking, runs, states
  <1>2. CASE TakeRequests
    <2>1. received' \in 0 .. Len(toHost')
      BY <1>2, PipeFacts, BoundsAreNat DEF TakeRequests
    <2>2. QED
      BY <1>2, <2>1 DEF TakeRequests, TypeOK, Begun, calls, blocking, taking, runs, states
  <1>3. CASE Stop
    <2>1. /\ toHost' \in Seq(Frames) /\ Len(toHost') <= Len(toHost) /\ received <= Len(toHost')
          /\ DOMAIN toHost' = 1 .. Len(toHost') /\ DOMAIN toHost = 1 .. Len(toHost)
          /\ \A n \in 1 .. Len(toHost') : toHost'[n] = toHost[n]
      BY <1>3, PipeFacts, TakenPart DEF Stop, TypeOK
    <2>2. Len(toHost') \in Nat
      BY <2>1, LenProperties
    <2>3. received' \in 0 .. Len(toHost')
      BY <1>3, <2>1, <2>2, PipeFacts DEF Stop
    <2>4. \A n \in DOMAIN toHost' : toHost'[n].stream <= used
      <3>1. 1 .. Len(toHost') \subseteq 1 .. Len(toHost)
        BY <2>1, <2>2, PipeFacts
      <3>2. QED
        BY <2>1, <3>1 DEF Begun
    <2>5. UNCHANGED <<calls, arrived, taking, received, runs, toMain, host, broken, late>>
          /\ main' \in {"stopping", "hung"} /\ blockedResponses' = {} /\ responsePaused' = FALSE
      BY <1>3 DEF Stop
    <2>6. QED
      BY <2>1, <2>3, <2>4, <2>5 DEF TypeOK, Begun, calls, taking, runs
  <1>4. CASE HostLost
    <2>1. FailsAll /\ UNCHANGED <<used, pump, arrived, toHost, taking, received, runs, toMain, host, broken,
                                 late>>
      BY <1>4 DEF HostLost
    <2>2. late' \in BOOLEAN /\ toMain' \in Seq(Frames) /\ arrived' \in 0 .. Len(toMain') /\ broken' \subseteq {"main", "host"}
      BY <2>1 DEF TypeOK
    <2>3. QED
      BY <2>1, <2>2, AllFailed, ToHostStays, MainShape
  <1>5. CASE HostStop
    <2>1. received' \in 0 .. Len(toHost')
      BY <1>5, PipeFacts DEF HostStop, HostStops
    <2>2. QED
      BY <1>5, <2>1 DEF HostStop, HostStops, TypeOK, Begun, calls, blocking
  <1>6. CASE HostExits
    BY <1>6 DEF HostExits, TypeOK, Begun, calls, blocking, taking, runs
  <1>7. CASE HostDies
    <2>1. toMain' \in Seq(Frames) /\ arrived <= Len(toMain') /\ Len(toMain') \in Nat
      BY <1>7, PipeFacts, TakenPart, LenProperties DEF HostDies, TypeOK
    <2>2. arrived' \in 0 .. Len(toMain') /\ received' \in 0 .. Len(toHost')
      BY <1>7, <2>1, PipeFacts DEF HostDies
    <2>3. QED
      BY <1>7, <2>1, <2>2 DEF HostDies, TypeOK, Begun, calls, blocking, taking, runs
  <1>8. CASE UNCHANGED vars
    BY <1>8 DEF vars, TypeOK, Begun, calls, blocking, taking, runs, states
  <1>9. QED
    BY <1>1, <1>2, <1>3, <1>4, <1>5, <1>6, <1>7, <1>8

\* Every step keeps the types.
LEMMA TypeStep == TypeInv /\ [Next]_vars => TypeInv'
  BY CallerTypes, ResponseTypes, RequestTypes, RunTypes, OtherTypes DEF Next

\* The two processes and the pipes keep their types, and no more of a pipe is at hand
\* than it holds, for any number of streams and chunks and pipes of any size.
THEOREM TypeCorrect == Spec => []TypeOK
  <1>1. TypeInv => TypeOK
    BY DEF TypeInv
  <1>2. QED
    BY <1>1, TypeInit, TypeStep, PTL DEF Spec

-----------------------------------------------------------------------------
(* What each process knows by itself.                                        *)

\* Chunks of a response that its reader has, queued or read.
Seen(s)    == call[s].queue + call[s].got
\* Bodies that the Host knows, to be read or to be dropped.
Held       == bodies \cup discarded
\* A run that is not over.
Running(s) == run[s].at \in {"handling", "sending", "ended", "thrown"}

\* What the callers and the uploads of the main process are.
CallerAgrees(s) ==
    /\ s <= used => call[s].at # "new"
    /\ call[s].at = "new" => Seen(s) = 0
    /\ call[s].at \in {"unsent", "over"} <=> call[s].verdict # "none"
    /\ pump[s].at # "done" => s \in Uploads
    /\ Pending(s) /\ pump[s].at # "done" => call[s].upload
    /\ s \in blockedResponses => Pending(s) /\ call[s].queue > 0

\* The pipe of responses stands still only for streams that are blocked.
CallersAgree ==
    /\ responsePaused => blockedResponses # {}
    /\ \A s \in Streams : CallerAgrees(s)

\* What the Host remembers.
RunAgrees(s) ==
    /\ s > lastStream => run[s].at = "none" /\ s \notin Held
    /\ s \in bodies => Running(s)
    /\ run[s].at \in {"none", "handling"} => run[s].sent = 0

\* The pipe of requests stands still only for bodies that are held.
RunsAgree ==
    /\ host # "up" => received = 0
    /\ blockedRequests \subseteq bodies
    /\ bodies \cap discarded = {}
    /\ host = "up" /\ requestPaused => blockedRequests # {}
    /\ \A s \in Streams : RunAgrees(s)

\* What holds of each process by itself.
LocalInv == TypeInv /\ CallersAgree /\ RunsAgree

\* It holds before the first request.
LEMMA LocalInit == Init => LocalInv
  <1> SUFFICES ASSUME Init PROVE CallersAgree /\ RunsAgree
    BY TypeInit DEF LocalInv
  <1>1. CallersAgree
    <2>1. used = 0 /\ Streams \subseteq Nat \ {0}
      BY DEF Init, Streams
    <2>2. QED
      BY <2>1 DEF Init, CallersAgree, CallerAgrees, Seen, Pending
  <1>2. RunsAgree
    BY DEF Init, RunsAgree, RunAgrees, Held, Running
  <1>3. QED
    BY <1>1, <1>2

\* A step that leaves the callers alone, or the Host.
LEMMA CallersRest ==
    ASSUME CallersAgree, UNCHANGED <<used, call, pump, blockedResponses, responsePaused>>
    PROVE  CallersAgree'
  BY DEF CallersAgree, CallerAgrees, Seen, Pending

\* A step that leaves the Host alone.
LEMMA RunsRest ==
    ASSUME RunsAgree, UNCHANGED <<lastStream, bodies, discarded, blockedRequests, requestPaused, run, received, host>>
    PROVE  RunsAgree'
  BY DEF RunsAgree, RunAgrees, Held, Running

\* fail ends every entry and forgets what was blocked.
LEMMA FailAgrees ==
    ASSUME LocalInv, FailsAll, UNCHANGED <<used, pump>>
    PROVE  CallersAgree'
  <1>1. /\ \A s \in Streams : call'[s] = IF Pending(s) THEN Failed(call[s]) ELSE call[s]
        /\ blockedResponses' = {} /\ responsePaused' = FALSE
    BY DEF FailsAll
  <1>2. ASSUME NEW s \in Streams PROVE CallerAgrees(s)'
    <2>1. CallerAgrees(s) /\ call[s] \in Call
      BY EntryTypes DEF LocalInv, CallersAgree
    <2>2. CASE Pending(s)
      BY <1>1, <2>1, <2>2 DEF CallerAgrees, Call, Failed, Pending, Seen
    <2>3. CASE ~ Pending(s)
      BY <1>1, <2>1, <2>3 DEF CallerAgrees, Call, Pending, Seen
    <2>4. QED
      BY <2>2, <2>3
  <1>3. QED
    BY <1>1, <1>2 DEF CallersAgree

\* The entry of s becomes c, and s is not blocked any more.
LEMMA EntryAgrees ==
    ASSUME LocalInv, NEW s \in Streams, NEW c \in Call,
           call' = [call EXCEPT ![s] = c], Unblocks(s),
           used' = used, \A t \in Streams : t # s => pump'[t] = pump[t],
           c.at \notin {"new", "unsent"}, c.at = "over" <=> c.verdict # "none",
           pump'[s].at # "done" => s \in Uploads /\ (c.at = "over" \/ c.upload)
    PROVE  CallersAgree'
  <1>1. call' \in [Streams -> Call] /\ call'[s] = c /\ \A t \in Streams : t # s => call'[t] = call[t]
    BY DEF LocalInv, TypeInv, TypeOK
  <1>2. \A t \in Streams : CallerAgrees(t)
    BY DEF LocalInv, CallersAgree
  <1>3. blockedResponses' = blockedResponses \ {s} /\ responsePaused' = (responsePaused /\ blockedResponses' # {})
    BY DEF Unblocks
  <1>4. ASSUME NEW t \in Streams PROVE CallerAgrees(t)'
    <2>1. CASE t = s
      BY <1>1, <1>3, <2>1 DEF CallerAgrees, Pending, Seen
    <2>2. CASE t # s
      BY <1>1, <1>2, <1>3, <2>2 DEF CallerAgrees, Pending, Seen
    <2>3. QED
      BY <2>1, <2>2
  <1>5. responsePaused' => blockedResponses' # {}
    BY <1>3
  <1>6. QED
    BY <1>4, <1>5 DEF CallersAgree

\* A cancellation ends one entry.
LEMMA CancelAgrees ==
    ASSUME LocalInv, NEW s \in Streams, NEW c \in Call, Pending(s), Cancels(s, c),
           c.at = "over", c.verdict # "none",
           used' = used, pump' = pump \/ pump' = [pump EXCEPT ![s].at = "done"]
    PROVE  CallersAgree'
  <1>1. /\ \A t \in Streams : t # s => pump'[t] = pump[t]
        /\ pump'[s].at # "done" => pump[s].at # "done"
    BY DEF LocalInv, TypeInv, TypeOK, Upload
  <1>2. pump[s].at # "done" => s \in Uploads
    BY DEF LocalInv, CallersAgree, CallerAgrees
  <1>3. QED
    BY <1>1, <1>2, EntryAgrees DEF Cancels

\* An entry that is given up is over with a verdict, and keeps what was read.
LEMMA EndsAreEnds ==
    ASSUME TypeInv, NEW s \in Streams
    PROVE  /\ Failed(call[s]) \in Call /\ Failed(call[s]).at = "over"
           /\ Failed(call[s]).verdict \in {"failed", "head"}
           /\ Ended(call[s]) \in Call /\ Ended(call[s]).at = "over" /\ Ended(call[s]).verdict = "whole"
           /\ Ended(call[s]).queue = call[s].queue /\ Ended(call[s]).got = call[s].got
  <1>1. call[s] \in Call
    BY EntryTypes
  <1>2. QED
    BY <1>1 DEF Failed, Ended, Call

\* One entry changes, and s is blocked only if it was, or has a chunk queued.
LEMMA EntryMoves ==
    ASSUME LocalInv, NEW s \in Streams, NEW c \in Call,
           call' = [call EXCEPT ![s] = c], pump' = pump, used' = used,
           Pending(s), c.at \in {"waiting", "started", "streaming"},
           c.verdict = call[s].verdict, c.upload = call[s].upload,
           c.queue >= call[s].queue,
           blockedResponses' \subseteq blockedResponses \cup {s},
           s \in blockedResponses' => s \in blockedResponses \/ c.queue > 0,
           responsePaused' => blockedResponses' # {}
    PROVE  CallersAgree'
  <1>1. call' \in [Streams -> Call] /\ call'[s] = c /\ \A t \in Streams : t # s => call'[t] = call[t]
    BY DEF LocalInv, TypeInv, TypeOK
  <1>2. \A t \in Streams : CallerAgrees(t)
    BY DEF LocalInv, CallersAgree
  <1>3. CallerAgrees(s)'
    <2>1. call[s].queue \in Nat /\ c.queue \in Nat
      BY EntryTypes DEF LocalInv, Call
    <2>2. CallerAgrees(s)
      BY <1>2
    <2>3. QED
      BY <1>1, <2>1, <2>2 DEF CallerAgrees, Pending, Seen
  <1>4. ASSUME NEW t \in Streams, t # s PROVE CallerAgrees(t)'
    BY <1>1, <1>2, <1>4 DEF CallerAgrees, Pending, Seen
  <1>5. QED
    BY <1>3, <1>4 DEF CallersAgree

\* The steps of callers and uploads keep it.
LEMMA CallersKeep1 ==
    ASSUME LocalInv, NEW s \in Streams, Caller(s) \/ Pump(s)
    PROVE  CallersAgree'
  <1>a. TypeInv /\ CallersAgree /\ \A t \in Streams : CallerAgrees(t)
    BY DEF LocalInv, CallersAgree
  <1>b. used \in Nat /\ Streams \subseteq Nat /\ call[s] \in Call /\ call[s].queue \in Nat /\ call[s].got \in Nat
    BY <1>a, PipeFacts, StreamsAreNat, EntryTypes
  <1>c. call \in [Streams -> Call] /\ pump \in [Streams -> Upload]
    BY <1>a DEF TypeInv, TypeOK
  <1>1. CASE Fetch(s) \/ FetchAborted(s)
    <2>1. /\ s = used + 1 /\ used' = s /\ UNCHANGED blocking
          /\ \A t \in Streams : t # s => call'[t] = call[t] /\ pump'[t] = pump[t]
      BY <1>1, <1>c DEF Fetch, FetchAborted
    <2>2. call[s].at = "new" /\ call[s].verdict = "none" /\ s \notin blockedResponses
      BY <1>a, <1>b, <2>1 DEF Begun, TypeInv, CallerAgrees, Pending
    <2>3. ASSUME NEW t \in Streams, t # s PROVE CallerAgrees(t)'
      BY <1>a, <1>b, <2>1, <2>3 DEF CallerAgrees, Pending, Seen, blocking, TypeInv, Begun
    <2>4. CallerAgrees(s)'
      <3>1. CASE Fetch(s)
        <4>1. call'[s].at = "waiting" /\ call'[s].upload = (s \in Uploads) /\ call'[s].verdict = "none"
          BY <1>c, <2>2, <3>1 DEF Fetch, Call
        <4>2. pump'[s].at = IF s \in Uploads THEN "pumping" ELSE "done"
          BY <1>c, <3>1 DEF Fetch, Upload
        <4>3. QED
          BY <2>1, <2>2, <4>1, <4>2 DEF CallerAgrees, Pending, blocking
      <3>2. CASE FetchAborted(s)
        <4>1. call'[s].at = "unsent" /\ call'[s].verdict = "failed" /\ pump'[s] = pump[s]
          BY <1>c, <3>2 DEF FetchAborted, Call
        <4>2. QED
          BY <1>a, <2>1, <2>2, <4>1 DEF CallerAgrees, Pending, blocking
      <3>3. QED
        BY <1>1, <3>1, <3>2
    <2>5. responsePaused' => blockedResponses' # {}
      BY <1>a, <2>1 DEF CallersAgree, blocking
    <2>6. QED
      BY <2>3, <2>4, <2>5 DEF CallersAgree
  <1>2. CASE Abort(s) \/ CancelResponse(s) \/ PumpFails(s)
    <2>1. /\ Cancels(s, Failed(call[s])) /\ used' = used
          /\ pump' = pump \/ pump' = [pump EXCEPT ![s].at = "done"]
      BY <1>2 DEF Abort, CancelResponse, PumpFails
    <2>2. Pending(s)
      BY <1>2 DEF Abort, CancelResponse, PumpFails, Pending
    <2>3. QED
      BY <1>a, <2>1, <2>2, EndsAreEnds, CancelAgrees
  <1>3. CASE ReadBody(s)
    <2>1. /\ call[s].queue > 0 /\ used' = used /\ pump' = pump
          /\ IF call[s].queue = 1 /\ Pending(s) THEN Unblocks(s) ELSE UNCHANGED blocking
      BY <1>3 DEF ReadBody
    <2>2. /\ \A t \in Streams : t # s => call'[t] = call[t]
          /\ call'[s].at = call[s].at /\ call'[s].upload = call[s].upload /\ call'[s].verdict = call[s].verdict
          /\ call'[s].queue = call[s].queue - 1 /\ call'[s].got = call[s].got + 1
      BY <1>3, <1>b, <1>c DEF ReadBody, Call
    <2>3. \A t \in Streams : t \in blockedResponses' => t \in blockedResponses
      BY <2>1 DEF Unblocks, blocking
    <2>4. ASSUME NEW t \in Streams, t # s PROVE CallerAgrees(t)'
      BY <1>a, <2>1, <2>2, <2>3, <2>4 DEF CallerAgrees, Pending, Seen
    <2>5. CallerAgrees(s)'
      <3>1. call'[s].queue + call'[s].got = call[s].queue + call[s].got
        BY <1>b, <2>2
      <3>2. s \in blockedResponses' => call'[s].queue > 0
        <4>1. s \in blockedResponses' => s \in blockedResponses /\ Pending(s) /\ call[s].queue # 1
          BY <1>a, <2>1, <2>3 DEF CallerAgrees, Unblocks
        <4>2. QED
          BY <1>b, <2>1, <2>2, <4>1
      <3>3. QED
        BY <1>a, <2>1, <2>2, <2>3, <3>1, <3>2 DEF CallerAgrees, Pending, Seen
    <2>6. responsePaused' => blockedResponses' # {}
      BY <1>a, <2>1 DEF CallersAgree, Unblocks, blocking
    <2>7. QED
      BY <2>4, <2>5, <2>6 DEF CallersAgree
  <1>4. CASE PumpData(s) \/ PumpEnd(s) \/ PumpEnded(s) \/ PumpDropped(s)
    <2>1. /\ used' = used /\ UNCHANGED blocking
          /\ pump[s].at # "done"
          /\ \A t \in Streams : t # s => call'[t] = call[t] /\ pump'[t] = pump[t]
          /\ UNCHANGED call \/ (call' = [call EXCEPT ![s].upload = FALSE] /\ pump'[s].at = "done")
      BY <1>4, <1>c DEF PumpData, PumpEnd, PumpEnded, PumpDropped, Upload
    <2>2. /\ call'[s].at = call[s].at /\ call'[s].verdict = call[s].verdict
          /\ call'[s].queue = call[s].queue /\ call'[s].got = call[s].got
          /\ call'[s].upload = call[s].upload \/ pump'[s].at = "done"
      BY <1>b, <1>c, <2>1 DEF Call
    <2>3. ASSUME NEW t \in Streams PROVE CallerAgrees(t)'
      <3>1. CASE t = s
        BY <1>a, <2>1, <2>2, <3>1 DEF CallerAgrees, Pending, Seen, blocking
      <3>2. CASE t # s
        BY <1>a, <2>1, <3>2 DEF CallerAgrees, Pending, Seen, blocking
      <3>3. QED
        BY <3>1, <3>2
    <2>4. responsePaused' => blockedResponses' # {}
      BY <1>a, <2>1 DEF CallersAgree, blocking
    <2>5. QED
      BY <2>3, <2>4 DEF CallersAgree
  <1>5. QED
    BY <1>1, <1>2, <1>3, <1>4 DEF Caller, Pump

\* The frames of responses keep it.
LEMMA CallersKeep2 ==
    ASSUME LocalInv, Response
    PROVE  CallersAgree'
  <1> PICK f \in {toMain[n] : n \in DOMAIN toMain} :
          \/ ResponseForNobody(f) \/ ResponseStart(f) \/ ResponseData(f)
          \/ ResponseEnd(f) \/ ResponseError(f)
    BY DEF Response
  <1> DEFINE s == f.stream
  <1>1. Responds(f)
    BY DEF ResponseForNobody, ResponseStart, ResponseData, ResponseEnd, ResponseError
  <1>2. TypeInv /\ CallersAgree
    BY DEF LocalInv
  <1>3. s \in Streams /\ call[s] \in Call /\ call[s].queue \in Nat /\ call[s].got \in Nat
    BY <1>1, <1>2, NextResponse, EntryTypes
  <1>4. UNCHANGED <<used, pump>>
    BY <1>1 DEF Responds
  <1>5. MainBreaks => CallersAgree'
    BY <1>4, FailAgrees DEF MainBreaks
  <1> HIDE DEF s
  <1>6. CASE ResponseForNobody(f)
    BY <1>2, <1>4, <1>5, <1>6, CallersRest DEF ResponseForNobody, blocking
  <1>7. CASE ResponseStart(f)
    <2>1. CASE call[s].at = "waiting"
      <3> DEFINE c == [call[s] EXCEPT !.at = IF f.body THEN "streaming" ELSE "started"]
      <3>1. /\ c \in Call /\ c.at \in {"started", "streaming"} /\ c.verdict = call[s].verdict
            /\ c.upload = call[s].upload /\ c.queue = call[s].queue
        BY <1>3 DEF Call
      <3>2. Pending(s) /\ call' = [call EXCEPT ![s] = c] /\ UNCHANGED blocking
        BY <1>7, <2>1 DEF ResponseStart, s
      <3>3. responsePaused' => blockedResponses' # {}
        BY <1>2, <3>2 DEF CallersAgree, blocking
      <3>4. c.queue >= call[s].queue /\ blockedResponses' = blockedResponses
        BY <1>3, <3>1, <3>2 DEF blocking
      <3> HIDE DEF c
      <3>5. QED
        BY <1>3, <1>4, <3>1, <3>2, <3>3, <3>4, EntryMoves
    <2>2. QED
      BY <1>5, <1>7, <2>1 DEF ResponseStart, s
  <1>8. CASE ResponseData(f)
    <2>1. CASE call[s].at = "streaming"
      <3> DEFINE c == [call[s] EXCEPT !.got = @ + 1]
      <3> DEFINE d == [call[s] EXCEPT !.queue = @ + 1]
      <3>1. /\ c \in Call /\ c.at = "streaming" /\ c.verdict = call[s].verdict
            /\ c.upload = call[s].upload /\ c.queue = call[s].queue
            /\ d \in Call /\ d.at = "streaming" /\ d.verdict = call[s].verdict
            /\ d.upload = call[s].upload /\ d.queue = call[s].queue + 1
        BY <1>3, <2>1 DEF Call
      <3>2. Pending(s)
        BY <2>1 DEF Pending
      <3>3. \/ call' = [call EXCEPT ![s] = c] /\ UNCHANGED blocking
            \/ /\ call' = [call EXCEPT ![s] = d]
               /\ blockedResponses' = blockedResponses \cup {s} /\ responsePaused' = TRUE
        BY <1>8, <2>1 DEF ResponseData, s
      <3>4. c.queue >= call[s].queue /\ d.queue >= call[s].queue /\ d.queue > 0
        BY <1>3, <3>1
      <3> HIDE DEF c, d
      <3>5. CASE call' = [call EXCEPT ![s] = c] /\ UNCHANGED blocking
        <4>1. responsePaused' => blockedResponses' # {}
          BY <1>2, <3>5 DEF CallersAgree, blocking
        <4>2. blockedResponses' = blockedResponses
          BY <3>5 DEF blocking
        <4>3. QED
          BY <1>3, <1>4, <3>1, <3>2, <3>4, <3>5, <4>1, <4>2, EntryMoves
      <3>6. CASE /\ call' = [call EXCEPT ![s] = d]
                 /\ blockedResponses' = blockedResponses \cup {s} /\ responsePaused' = TRUE
        BY <1>3, <1>4, <3>1, <3>2, <3>4, <3>6, EntryMoves
      <3>7. QED
        BY <3>3, <3>5, <3>6
    <2>2. QED
      BY <1>5, <1>8, <2>1 DEF ResponseData, s
  <1>9. CASE ResponseEnd(f)
    <2>1. Pending(s)
      BY <1>9 DEF ResponseEnd, s
    <2>2. CASE Cancels(s, Ended(call[s]))
      BY <1>2, <1>3, <1>4, <2>1, <2>2, EndsAreEnds, CancelAgrees
    <2>3. CASE call' = [call EXCEPT ![s] = Ended(@)] /\ Unblocks(s) /\ ~ call[s].upload
      <3>1. pump'[s].at = "done"
        BY <1>2, <1>3, <1>4, <2>1, <2>3 DEF CallersAgree, CallerAgrees
      <3>2. QED
        BY <1>2, <1>3, <1>4, <2>3, <3>1, EndsAreEnds, EntryAgrees
    <2>4. QED
      BY <1>5, <1>9, <2>2, <2>3 DEF ResponseEnd, s
  <1>10. CASE ResponseError(f)
    <2>1. Pending(s) /\ Cancels(s, Failed(call[s]))
      BY <1>10 DEF ResponseError, s
    <2>2. QED
      BY <1>2, <1>3, <1>4, <2>1, EndsAreEnds, CancelAgrees
  <1>11. QED
    BY <1>6, <1>7, <1>8, <1>9, <1>10

\* Once the Host stops it remembers nothing.
LEMMA StopsAgree ==
    ASSUME LocalInv, HostStops, host' # "up"
    PROVE  RunsAgree'
  <1>1. /\ bodies' = {} /\ discarded' = {} /\ blockedRequests' = {}
        /\ received' = 0 /\ UNCHANGED <<lastStream, run>>
    BY DEF HostStops
  <1>2. QED
    BY <1>1 DEF LocalInv, RunsAgree, RunAgrees, Held

\* The frames of requests keep what the Host remembers in order.
LEMMA RunsKeep1 ==
    ASSUME LocalInv, Request
    PROVE  RunsAgree'
  <1> PICK f \in {toHost[n] : n \in DOMAIN toHost} :
          \/ RequestStart(f) \/ RequestData(f) \/ RequestEnd(f)
          \/ RequestDiscarded(f) \/ RequestCancel(f)
    BY DEF Request
  <1> DEFINE s == f.stream
  <1>1. Requests(f)
    BY DEF RequestStart, RequestData, RequestEnd, RequestDiscarded, RequestCancel
  <1>2. TypeInv /\ RunsAgree /\ \A t \in Streams : RunAgrees(t)
    BY DEF LocalInv, RunsAgree
  <1>3. s \in Streams /\ s \in Nat /\ lastStream \in Nat /\ Streams \subseteq Nat
    BY <1>1, <1>2, NextRequest, PipeFacts, StreamsAreNat
  <1>4. host = "up"
    BY <1>1, <1>2 DEF Requests, RunsAgree
  <1>5. ASSUME HostBreaks PROVE RunsAgree'
    BY <1>5, StopsAgree DEF HostBreaks
  <1>6. run \in [Streams -> Flight]
    BY <1>2 DEF TypeInv, TypeOK
  <1> HIDE DEF s
  <1>7. CASE RequestStart(f)
    <2>1. CASE s > lastStream
      <3>1. /\ lastStream' = s /\ bodies' \subseteq bodies \cup {s} /\ bodies \subseteq bodies'
            /\ run' = [run EXCEPT ![s].at = "handling"] /\ host' = host
            /\ UNCHANGED <<discarded, blockedRequests, requestPaused>>
        BY <1>7, <2>1 DEF RequestStart, Requested, s
      <3>2. \A t \in Streams : t # s => run'[t] = run[t]
        BY <1>3, <1>6, <3>1
      <3>3. run'[s].at = "handling" /\ run'[s].sent = run[s].sent
        BY <1>3, <1>6, <3>1 DEF Flight
      <3>4. run[s].at = "none" /\ s \notin Held
        BY <1>2, <1>3, <2>1 DEF RunAgrees
      <3>5. ASSUME NEW t \in Streams PROVE RunAgrees(t)'
        <4>1. CASE t = s
          BY <1>2, <1>3, <3>1, <3>3, <3>4, <4>1 DEF RunAgrees, Held, Running
        <4>2. CASE t # s
          <5>1. t > lastStream' => t > lastStream
            BY <1>3, <2>1, <3>1
          <5>2. QED
            BY <1>2, <1>3, <3>1, <3>2, <4>2, <5>1 DEF RunAgrees, Held, Running
        <4>3. QED
          BY <4>1, <4>2
      <3>6. QED
        BY <1>2, <1>4, <3>1, <3>4, <3>5 DEF RunsAgree, Held
    <2>2. QED
      BY <1>5, <1>7, <2>1 DEF RequestStart, s
  <1>8. CASE RequestData(f)
    <2>1. CASE s \in bodies
      <3>1. /\ blockedRequests' = blockedRequests \cup {s} /\ host' = host
            /\ UNCHANGED <<lastStream, bodies, discarded, run>>
        BY <1>8, <2>1 DEF RequestData, Requested, runs, s
      <3>2. QED
        BY <1>2, <1>4, <2>1, <3>1 DEF RunsAgree, RunAgrees, Held, Running
    <2>2. QED
      BY <1>5, <1>8, <2>1 DEF RequestData, s
  <1>9. CASE RequestEnd(f) \/ RequestDiscarded(f) \/ RequestCancel(f)
    <2>1. CASE /\ bodies' \in {bodies, bodies \ {s}} /\ discarded' \in {discarded, discarded \ {s}}
               /\ \/ ResumesRequests(blockedRequests \ {s})
                  \/ UNCHANGED <<bodies, blockedRequests, requestPaused>>
               /\ UNCHANGED <<lastStream, run, host>>
      <3>1. \A t \in Streams : t \in bodies' => t \in bodies
        BY <2>1
      <3>2. \A t \in Streams : t \in Held' => t \in Held
        BY <2>1 DEF Held
      <3>3. \A t \in Streams : RunAgrees(t)'
        BY <1>2, <2>1, <3>1, <3>2 DEF RunAgrees, Running
      <3>4. blockedRequests' \subseteq bodies' /\ bodies' \cap discarded' = {}
        BY <1>2, <2>1 DEF RunsAgree, ResumesRequests
      <3>5. requestPaused' => blockedRequests' # {}
        BY <1>2, <1>4, <2>1 DEF RunsAgree, ResumesRequests
      <3>6. QED
        BY <1>4, <2>1, <3>3, <3>4, <3>5 DEF RunsAgree
    <2>2. QED
      BY <1>5, <1>9, <2>1 DEF RequestEnd, RequestDiscarded, RequestCancel, Requested, runs, s
  <1>10. QED
    BY <1>7, <1>8, <1>9

\* The runs keep it.
LEMMA RunsKeep2 ==
    ASSUME LocalInv, NEW s \in Streams, Run(s)
    PROVE  RunsAgree'
  <1>1. TypeInv /\ RunsAgree /\ (\A t \in Streams : RunAgrees(t)) /\ run \in [Streams -> Flight]
    BY DEF LocalInv, RunsAgree, TypeInv, TypeOK
  <1>2. UNCHANGED <<lastStream, received, host>>
    BY DEF Run, RunAnswers, RunSends, RunEnds, RunThrows, RunOver, Says, taking, states
  <1>3. \A t \in Streams : t # s => run'[t] = run[t]
    BY <1>1 DEF Run, RunAnswers, RunSends, RunEnds, RunThrows, RunOver
  <1>4. /\ run[s].at \notin {"none", "over"}
        /\ run'[s].at \in {"sending", "ended", "thrown", "over"}
        /\ run'[s].at = "over" => RunOver(s)
    <2>1. CASE RunAnswers(s, TRUE) \/ RunAnswers(s, FALSE)
      BY <1>1, <2>1 DEF RunAnswers, Flight
    <2>2. CASE RunSends(s)
      BY <1>1, <2>2 DEF RunSends, Flight
    <2>3. CASE RunEnds(s)
      BY <1>1, <2>3 DEF RunEnds, Flight
    <2>4. CASE RunThrows(s)
      BY <1>1, <2>4 DEF RunThrows, Flight
    <2>5. CASE RunOver(s)
      BY <1>1, <2>5 DEF RunOver, Flight
    <2>6. QED
      BY <2>1, <2>2, <2>3, <2>4, <2>5 DEF Run
  <1>5. /\ Held' = Held /\ bodies' \subseteq bodies /\ bodies' \cap discarded' = {}
        /\ blockedRequests' \subseteq bodies'
        /\ host' = "up" /\ requestPaused' => blockedRequests' # {}
        /\ RunOver(s) => s \notin bodies'
    <2>1. CASE RunOver(s) /\ s \in bodies
      BY <1>1, <1>2, <2>1 DEF RunOver, ResumesRequests, Held, RunsAgree
    <2>2. CASE RunOver(s) /\ s \notin bodies
      BY <1>1, <1>2, <2>2 DEF RunOver, Held, RunsAgree
    <2>3. CASE ~ RunOver(s)
      <3>1. UNCHANGED <<bodies, discarded, blockedRequests, requestPaused>>
        BY <2>3 DEF Run, RunAnswers, RunSends, RunEnds, RunThrows, Says, taking
      <3>2. QED
        BY <1>1, <1>2, <2>3, <3>1 DEF Held, RunsAgree
    <2>4. QED
      BY <2>1, <2>2, <2>3
  <1>6. ASSUME NEW t \in Streams PROVE RunAgrees(t)'
    <2>1. CASE t = s
      BY <1>1, <1>2, <1>4, <1>5, <2>1 DEF RunAgrees, Running
    <2>2. CASE t # s
      BY <1>1, <1>2, <1>3, <1>5, <2>2 DEF RunAgrees, Running
    <2>3. QED
      BY <2>1, <2>2
  <1>7. QED
    BY <1>1, <1>2, <1>5, <1>6 DEF RunsAgree

\* Taking frames, stopping and dying keep both.
LEMMA OthersKeep ==
    ASSUME LocalInv,
           \/ TakeResponses \/ Stop \/ HostLost
           \/ TakeRequests \/ HostStop \/ HostExits \/ HostDies \/ UNCHANGED vars
    PROVE  CallersAgree' /\ RunsAgree'
  <1>1. CallersAgree /\ RunsAgree /\ TypeInv
    BY DEF LocalInv
  <1>2. CASE TakeResponses \/ TakeRequests \/ UNCHANGED vars
    <2>1. UNCHANGED <<used, call, pump, blockedResponses, responsePaused>>
      BY <1>2 DEF TakeResponses, TakeRequests, vars, calls, blocking
    <2>2. UNCHANGED <<lastStream, bodies, discarded, blockedRequests, requestPaused, run, host>>
          /\ (host # "up" => received' = received)
      BY <1>2 DEF TakeResponses, TakeRequests, vars, taking, runs, states
    <2>3. RunsAgree'
      BY <1>1, <2>2 DEF RunsAgree, RunAgrees, Held, Running
    <2>4. QED
      BY <1>1, <2>1, <2>3, CallersRest
  <1>3. CASE Stop
    <2>1. UNCHANGED <<calls, taking, received, runs, host>> /\ blockedResponses' = {} /\ responsePaused' = FALSE
      BY <1>3 DEF Stop
    <2>2. CallersAgree'
      BY <1>1, <2>1 DEF CallersAgree, CallerAgrees, Seen, Pending, calls
    <2>3. QED
      BY <1>1, <2>1, <2>2, RunsRest DEF taking, runs
  <1>4. CASE HostLost
    BY <1>1, <1>4, FailAgrees, RunsRest DEF HostLost, taking, runs
  <1>5. CASE HostStop
    BY <1>1, <1>5, StopsAgree, CallersRest DEF HostStop, calls, blocking
  <1>6. CASE HostExits \/ HostDies
    <2>1. UNCHANGED <<used, call, pump, blockedResponses, responsePaused>>
          /\ UNCHANGED <<lastStream, bodies, discarded, blockedRequests, requestPaused, run>>
          /\ host' = "ended" /\ received' \in {0, received} /\ (HostExits => host # "up" /\ received' = received)
          /\ (HostDies => received' = 0)
      BY <1>6 DEF HostExits, HostDies, calls, blocking, taking, runs
    <2>2. RunsAgree'
      BY <1>1, <1>6, <2>1 DEF RunsAgree, RunAgrees, Held, Running
    <2>3. QED
      BY <1>1, <2>1, <2>2, CallersRest
  <1>7. QED
    BY <1>2, <1>3, <1>4, <1>5, <1>6

\* Of the callers and of the runs, the two processes change their own only.
LEMMA Apart ==
    /\ \A s \in Streams : Caller(s) \/ Pump(s)
          => UNCHANGED <<lastStream, bodies, discarded, blockedRequests, requestPaused, run, received, host>>
    /\ Response
          => UNCHANGED <<lastStream, bodies, discarded, blockedRequests, requestPaused, run, received, host>>
    /\ \A s \in Streams : Run(s) => UNCHANGED <<used, call, pump, blockedResponses, responsePaused>>
    /\ Request => UNCHANGED <<used, call, pump, blockedResponses, responsePaused>>
  <1>1. ASSUME NEW s \in Streams, Caller(s) \/ Pump(s)
        PROVE  UNCHANGED <<lastStream, bodies, discarded, blockedRequests, requestPaused, run, received, host>>
    BY <1>1 DEF Caller, Pump, Fetch, FetchAborted, Abort, CancelResponse, ReadBody, PumpData, PumpEnd,
                PumpEnded, PumpDropped, PumpFails, taking, runs, states
  <1>2. ASSUME Response
        PROVE  UNCHANGED <<lastStream, bodies, discarded, blockedRequests, requestPaused, run, received, host>>
    BY <1>2 DEF Response, ResponseForNobody, ResponseStart, ResponseData, ResponseEnd, ResponseError,
                Responds, taking, runs
  <1>3. ASSUME NEW s \in Streams, Run(s) PROVE UNCHANGED <<used, call, pump, blockedResponses, responsePaused>>
    BY <1>3 DEF Run, RunAnswers, RunSends, RunEnds, RunThrows, RunOver, Says, calls, blocking
  <1>4. ASSUME Request PROVE UNCHANGED <<used, call, pump, blockedResponses, responsePaused>>
    BY <1>4 DEF Request, RequestStart, RequestData, RequestEnd, RequestDiscarded, RequestCancel,
                Requests, calls, blocking
  <1>5. QED
    BY <1>1, <1>2, <1>3, <1>4

\* Every step keeps it.
LEMMA LocalStep == LocalInv /\ [Next]_vars => LocalInv'
  <1> SUFFICES ASSUME LocalInv, [Next]_vars PROVE LocalInv'
    OBVIOUS
  <1>1. TypeInv' /\ CallersAgree /\ RunsAgree
    BY TypeStep DEF LocalInv
  <1>2. CASE \E s \in Streams : Caller(s) \/ Pump(s)
    BY <1>1, <1>2, Apart, CallersKeep1, RunsRest DEF LocalInv
  <1>3. CASE Response
    BY <1>1, <1>3, Apart, CallersKeep2, RunsRest DEF LocalInv
  <1>4. CASE \E s \in Streams : Run(s)
    BY <1>1, <1>4, Apart, RunsKeep2, CallersRest DEF LocalInv
  <1>5. CASE Request
    BY <1>1, <1>5, Apart, RunsKeep1, CallersRest DEF LocalInv
  <1>6. CASE \/ TakeResponses \/ Stop \/ HostLost
             \/ TakeRequests \/ HostStop \/ HostExits \/ HostDies \/ UNCHANGED vars
    BY <1>1, <1>6, OthersKeep DEF LocalInv
  <1>7. QED
    BY <1>2, <1>3, <1>4, <1>5, <1>6 DEF Next

\* Whoever blocked a pipe and gave up since, in whatever order the pause, the end of the
\* stream and its cancellation come: a pipe that stands still does so for a reader with
\* a chunk to take, or for a run that is not over.
THEOREM PausesHaveReasons == Spec => []PausedForAReason
  <1>1. LocalInv => PausedForAReason
    <2> SUFFICES ASSUME LocalInv PROVE PausedForAReason
      OBVIOUS
    <2>1. responsePaused => \E s \in Streams : Pending(s) /\ call[s].queue > 0
      BY DEF LocalInv, TypeInv, TypeOK, CallersAgree, CallerAgrees
    <2>2. requestPaused /\ host = "up" =>
             \E s \in Streams : run[s].at \in {"handling", "sending", "ended", "thrown"}
      BY DEF LocalInv, TypeInv, TypeOK, RunsAgree, RunAgrees, Running
    <2>3. QED
      BY <2>1, <2>2 DEF PausedForAReason
  <1>2. QED
    BY <1>1, LocalInit, LocalStep, PTL DEF Spec

-----------------------------------------------------------------------------
(* Requests on their way.                                                    *)

\* The upload of s may still write to the pipe.
Sending(s) == Pending(s) /\ pump[s].at = "pumping"
\* A frame of s of one of these types is under way to the Host.
InHost(s, types) ==
    \E n \in DOMAIN toHost : toHost[n].stream = s /\ toHost[n].type \in types
\* The end of the body of s, or its cancellation, is under way.
Closed(s)  == InHost(s, {"end", "cancel"})

\* A request begins after those begun, and nothing of it is before its start.
StartAt(n) ==
    /\ toHost[n].stream > lastStream
    /\ toHost[n].body = (toHost[n].stream \in Uploads)
    /\ \A k \in DOMAIN toHost : k < n =>
          /\ toHost[k].stream # toHost[n].stream
          /\ toHost[k].type = "start" => toHost[k].stream < toHost[n].stream

\* What is no start is of a request that was begun, or whose start comes before.
RestAt(n) ==
    \/ toHost[n].stream <= lastStream
    \/ \E k \in DOMAIN toHost :
          k < n /\ toHost[k].type = "start" /\ toHost[k].stream = toHost[n].stream

\* What comes of a body comes before its end, and finds its stream known.
BodyAt(n) ==
    /\ toHost[n].stream \in Uploads
    /\ \A k \in DOMAIN toHost :
          k < n /\ toHost[k].stream = toHost[n].stream => toHost[k].type \notin {"end", "cancel"}
    /\ host = "up" /\ toHost[n].stream <= lastStream => toHost[n].stream \in Held

\* What the request pipe holds at n.
RequestAt(n) ==
    /\ toHost[n].type = "start" => StartAt(n)
    /\ toHost[n].type # "start" => RestAt(n)
    /\ toHost[n].type \in {"data", "end"} => BodyAt(n)

RequestsInOrder == \A n \in DOMAIN toHost : RequestAt(n)

\* A pending request is begun or about to; the Host holds what may still be sent.
UploadAgrees(s) ==
    /\ Pending(s) => s <= lastStream \/ InHost(s, {"start"})
    /\ Sending(s) => ~ Closed(s)
    /\ Sending(s) /\ host = "up" /\ s <= lastStream => s \in Held

\* Once stop is called, or everything failed, nothing is written to the pipe any more.
UploadsAgree == main = "active" => \A s \in Streams : UploadAgrees(s)

\* What holds of the requests on their way.
WireInv == LocalInv /\ RequestsInOrder /\ UploadsAgree

\* A step that leaves the pipe alone, begins nothing and forgets no body.
LEMMA QuietRequests ==
    ASSUME WireInv, UNCHANGED <<toHost, lastStream>>,
           host' = "up" => host = "up" /\ Held' = Held,
           main' = "active" =>
              /\ main = "active"
              /\ \A s \in Streams : (Pending(s)' => Pending(s)) /\ (Sending(s)' => Sending(s))
    PROVE  RequestsInOrder' /\ UploadsAgree'
  <1>1. \A n \in DOMAIN toHost : StartAt(n)' = StartAt(n) /\ RestAt(n)' = RestAt(n) /\ (BodyAt(n) => BodyAt(n)')
    BY DEF StartAt, RestAt, BodyAt
  <1>2. RequestsInOrder'
    BY <1>1 DEF WireInv, RequestsInOrder, RequestAt
  <1>3. \A s \in Streams : \A types : InHost(s, types)' = InHost(s, types)
    BY DEF InHost
  <1>4. \A s \in Streams : Closed(s)' = Closed(s)
    BY DEF InHost, Closed
  <1>5. UploadsAgree'
    <2> SUFFICES ASSUME main' = "active", NEW s \in Streams PROVE UploadAgrees(s)'
      BY DEF UploadsAgree
    <2>1. UploadAgrees(s) /\ (Pending(s)' => Pending(s)) /\ (Sending(s)' => Sending(s))
      BY DEF WireInv, UploadsAgree
    <2>2. QED
      BY <1>3, <1>4, <2>1 DEF UploadAgrees
  <1>6. QED
    BY <1>2, <1>5

\* One more frame of a request under way.
LEMMA MoreOfRequest ==
    ASSUME WireInv, main = "active", NEW s \in Streams, NEW f \in Frames,
           f.stream = s, f.type # "start", Pending(s),
           f.type \in {"data", "end"} => Sending(s),
           f.type \in {"end", "cancel"} => ~ Sending(s)',
           toHost' = Append(toHost, f), UNCHANGED <<lastStream, host, bodies, discarded>>,
           \A t \in Streams : (Pending(t)' => Pending(t)) /\ (Sending(t)' => Sending(t))
    PROVE  RequestsInOrder' /\ UploadsAgree'
  <1> PICK N \in Nat : N = Len(toHost)
    BY PipeFacts DEF WireInv, LocalInv
  <1>1. /\ N \in Nat /\ DOMAIN toHost = 1 .. N /\ DOMAIN toHost' = 1 .. N + 1
        /\ \A n \in 1 .. N : toHost'[n] = toHost[n]
        /\ toHost'[N + 1] = f
    BY PipeFacts, Appended DEF WireInv, LocalInv
  <1>2. \A n \in 1 .. N : RequestAt(n)
    BY <1>1 DEF WireInv, RequestsInOrder
  <1>3. \A t \in Streams : UploadAgrees(t)
    BY DEF WireInv, UploadsAgree
  <1>4. ASSUME NEW n \in 1 .. N PROVE RequestAt(n)'
    <2>1. \A k \in 1 .. N + 1 : k < n => k \in 1 .. N
      BY <1>1
    <2>2. 1 .. N \subseteq 1 .. N + 1
      BY <1>1
    <2>3. StartAt(n) => StartAt(n)'
      BY <1>1, <2>1 DEF StartAt
    <2>4. RestAt(n) => RestAt(n)'
      BY <1>1, <2>2 DEF RestAt
    <2>5. BodyAt(n) => BodyAt(n)'
      BY <1>1, <2>1 DEF BodyAt, Held
    <2>6. QED
      BY <1>1, <1>2, <2>3, <2>4, <2>5 DEF RequestAt
  <1>5. RequestAt(N + 1)'
    <2>1. RestAt(N + 1)'
      <3>1. s <= lastStream \/ \E k \in 1 .. N : toHost[k].type = "start" /\ toHost[k].stream = s
        BY <1>1, <1>3 DEF UploadAgrees, InHost
      <3>2. QED
        BY <1>1, <3>1 DEF RestAt
    <2>2. ASSUME f.type \in {"data", "end"} PROVE BodyAt(N + 1)'
      <3>1. Sending(s) /\ ~ Closed(s)
        BY <1>3, <2>2 DEF UploadAgrees
      <3>2. \A k \in 1 .. N : toHost[k].stream = s => toHost[k].type \notin {"end", "cancel"}
        BY <1>1, <3>1 DEF Closed, InHost
      <3>3. s \in Uploads
        BY <3>1 DEF WireInv, LocalInv, CallersAgree, CallerAgrees, Sending
      <3>4. host = "up" /\ s <= lastStream => s \in Held
        BY <1>3, <3>1 DEF UploadAgrees
      <3>5. \A k \in 1 .. N + 1 : k < N + 1 => k \in 1 .. N
        BY <1>1
      <3>6. QED
        BY <1>1, <3>2, <3>3, <3>4, <3>5 DEF BodyAt, Held
    <2>3. QED
      BY <1>1, <2>1, <2>2 DEF RequestAt
  <1>6. RequestsInOrder'
    <2>1. \A n \in 1 .. N + 1 : n \in 1 .. N \/ n = N + 1
      BY <1>1
    <2>2. QED
      BY <1>1, <1>4, <1>5, <2>1 DEF RequestsInOrder
  <1>7. ASSUME NEW t \in Streams PROVE UploadAgrees(t)'
    <2>1. InHost(t, {"start"}) => InHost(t, {"start"})'
      <3>1. 1 .. N \subseteq 1 .. N + 1
        BY <1>1
      <3>2. QED
        BY <1>1, <3>1 DEF InHost
    <2>2. Closed(t)' => Closed(t) \/ (t = s /\ f.type \in {"end", "cancel"})
      <3>1. \A n \in 1 .. N + 1 : n \in 1 .. N \/ n = N + 1
        BY <1>1
      <3>2. QED
        BY <1>1, <3>1 DEF Closed, InHost
    <2>3. QED
      BY <1>3, <2>1, <2>2 DEF UploadAgrees, Held
  <1>8. QED
    BY <1>6, <1>7 DEF UploadsAgree

\* A new request.
LEMMA NewRequest ==
    ASSUME WireInv, NEW s \in Streams, Fetch(s)
    PROVE  RequestsInOrder' /\ UploadsAgree'
  <1> PICK N \in Nat : N = Len(toHost)
    BY PipeFacts DEF WireInv, LocalInv
  <1> DEFINE f == StartOf(s, s \in Uploads)
  <1>1. f \in Frames /\ f.stream = s /\ f.type = "start" /\ f.body = (s \in Uploads)
    <2>1. (s \in Uploads) \in BOOLEAN
      OBVIOUS
    <2>2. QED
      BY <2>1, FramesAreFrames DEF StartOf
  <1>2. toHost' = Append(toHost, f)
    BY DEF Fetch
  <1> HIDE DEF f
  <1>3. /\ DOMAIN toHost = 1 .. N /\ DOMAIN toHost' = 1 .. N + 1
        /\ \A n \in 1 .. N : toHost'[n] = toHost[n]
        /\ toHost'[N + 1] = f
    BY <1>1, <1>2, PipeFacts, Appended DEF WireInv, LocalInv
  <1>4. /\ s = used + 1 /\ UNCHANGED <<lastStream, bodies, discarded, host, main>>
        /\ \A t \in Streams : t # s => call'[t] = call[t] /\ pump'[t] = pump[t]
    BY DEF Fetch, taking, states, WireInv, LocalInv, TypeInv, TypeOK
  <1>5. used \in Nat /\ lastStream \in Nat /\ lastStream <= used /\ \A n \in 1 .. N : toHost[n].stream <= used /\ toHost[n].stream \in Nat
    <2>1. used \in Nat /\ lastStream \in 0 .. used
      BY PipeFacts DEF WireInv, LocalInv, TypeInv, TypeOK
    <2>2. \A n \in 1 .. N : toHost[n].stream <= used /\ toHost[n].stream \in Nat
      BY <1>3, PipeFacts, StreamsAreNat DEF WireInv, LocalInv, TypeInv, Begun
    <2>3. QED
      BY <2>1, <2>2
  <1>6. \A n \in 1 .. N : RequestAt(n)
    BY <1>3 DEF WireInv, RequestsInOrder
  <1>7. ASSUME NEW n \in 1 .. N PROVE RequestAt(n)'
    <2>1. (\A k \in 1 .. N + 1 : k < n => k \in 1 .. N) /\ 1 .. N \subseteq 1 .. N + 1
      OBVIOUS
    <2>2. (StartAt(n) => StartAt(n)') /\ (RestAt(n) => RestAt(n)') /\ (BodyAt(n) => BodyAt(n)')
      BY <1>3, <1>4, <2>1 DEF StartAt, RestAt, BodyAt, Held
    <2>3. QED
      BY <1>3, <1>6, <2>2 DEF RequestAt
  <1>8. RequestAt(N + 1)'
    <2>1. \A k \in 1 .. N + 1 : k < N + 1 => k \in 1 .. N
      OBVIOUS
    <2>2. \A k \in 1 .. N : toHost[k].stream < s
      BY <1>4, <1>5
    <2>3. s > lastStream
      BY <1>4, <1>5
    <2>4. \A k \in 1 .. N : toHost[k].stream # s
      BY <1>4, <1>5
    <2>5. StartAt(N + 1)'
      BY <1>1, <1>3, <1>4, <2>1, <2>2, <2>3, <2>4 DEF StartAt
    <2>6. QED
      BY <1>1, <1>3, <2>5 DEF RequestAt
  <1>9. RequestsInOrder'
    <2>1. \A n \in 1 .. N + 1 : n \in 1 .. N \/ n = N + 1
      OBVIOUS
    <2>2. QED
      BY <1>3, <1>7, <1>8, <2>1 DEF RequestsInOrder
  <1>10. ASSUME main' = "active", NEW t \in Streams PROVE UploadAgrees(t)'
    <2>0. UploadAgrees(t)
      BY <1>4, <1>10 DEF WireInv, UploadsAgree
    <2>1. InHost(t, {"start"}) => InHost(t, {"start"})'
      BY <1>3 DEF InHost
    <2>2. Closed(t)' => Closed(t)
      <3>1. \A n \in 1 .. N + 1 : n \in 1 .. N \/ n = N + 1
        OBVIOUS
      <3>2. QED
        BY <1>1, <1>3, <3>1 DEF Closed, InHost
    <2>3. CASE t = s
      <3>1. InHost(s, {"start"})'
        <4>1. N + 1 \in DOMAIN toHost'
          BY <1>3
        <4>2. QED
          BY <1>1, <1>3, <4>1 DEF InHost
      <3>2. ~ Closed(s)
        <4>1. \A n \in 1 .. N : toHost[n].stream # s
          BY <1>4, <1>5
        <4>2. QED
          BY <1>3, <4>1 DEF Closed, InHost
      <3>3. ~ (s <= lastStream')
        BY <1>4, <1>5
      <3>4. QED
        BY <2>2, <2>3, <3>1, <3>2, <3>3 DEF UploadAgrees
    <2>4. CASE t # s
      <3>1. Pending(t)' = Pending(t) /\ Sending(t)' = Sending(t)
        BY <1>4, <2>4 DEF Pending, Sending
      <3>2. QED
        BY <1>4, <2>0, <2>1, <2>2, <3>1 DEF UploadAgrees, Held
    <2>5. QED
      BY <2>3, <2>4
  <1>11. QED
    BY <1>9, <1>10 DEF UploadsAgree

\* Only the frames that the pipe has taken are left.
LEMMA FewerRequests ==
    ASSUME WireInv, Stop
    PROVE  RequestsInOrder' /\ UploadsAgree'
  <1>1. /\ DOMAIN toHost' \subseteq DOMAIN toHost
        /\ \A n \in DOMAIN toHost' : toHost'[n] = toHost[n]
        /\ \A n \in DOMAIN toHost' : \A k \in DOMAIN toHost : k < n => k \in DOMAIN toHost'
    <2>1. /\ toHost' \in Seq(Frames) /\ Len(toHost') <= Len(toHost)
          /\ DOMAIN toHost' = 1 .. Len(toHost') /\ DOMAIN toHost = 1 .. Len(toHost)
          /\ \A n \in 1 .. Len(toHost') : toHost'[n] = toHost[n]
      BY PipeFacts, TakenPart DEF WireInv, LocalInv, TypeInv, TypeOK, Stop
    <2>2. Len(toHost') \in Nat /\ Len(toHost) \in Nat
      BY <2>1, PipeFacts, LenProperties DEF WireInv, LocalInv
    <2>3. QED
      BY <2>1, <2>2
  <1>2. UNCHANGED <<lastStream, bodies, discarded, host>> /\ main' # "active"
    BY DEF Stop, taking
  <1>3. \A n \in DOMAIN toHost' :
           (StartAt(n) => StartAt(n)') /\ (RestAt(n) => RestAt(n)') /\ (BodyAt(n) => BodyAt(n)')
    BY <1>1, <1>2 DEF StartAt, RestAt, BodyAt, Held
  <1>4. \A n \in DOMAIN toHost' : RequestAt(n)
    BY <1>1 DEF WireInv, RequestsInOrder
  <1>5. RequestsInOrder'
    BY <1>1, <1>3, <1>4 DEF RequestsInOrder, RequestAt
  <1>6. QED
    BY <1>2, <1>5 DEF UploadsAgree

\* The Host throws at no frame.
LEMMA NoRequestBreaks ==
    ASSUME WireInv, Request
    PROVE  Requested
  <1> PICK f \in {toHost[n] : n \in DOMAIN toHost} :
          \/ RequestStart(f) \/ RequestData(f) \/ RequestEnd(f)
          \/ RequestDiscarded(f) \/ RequestCancel(f)
    BY DEF Request
  <1>1. Requests(f)
    BY DEF RequestStart, RequestData, RequestEnd, RequestDiscarded, RequestCancel
  <1>2. f = toHost[1] /\ 1 \in DOMAIN toHost /\ f.stream \in Nat
        /\ \A k \in DOMAIN toHost : ~ (k < 1)
    <2>1. f = toHost[1] /\ Len(toHost) >= 1 /\ f.stream \in Nat
      BY <1>1, NextRequest DEF WireInv, LocalInv
    <2>2. QED
      BY <2>1, PipeFacts DEF WireInv, LocalInv
  <1>3. host = "up" /\ received \in Nat
    BY <1>1, PipeFacts DEF Requests, WireInv, LocalInv, RunsAgree
  <1>4. RequestAt(1)
    BY <1>2 DEF WireInv, RequestsInOrder
  <1>5. f.type = "start" => f.stream > lastStream
    BY <1>2, <1>4 DEF RequestAt, StartAt
  <1>6. f.type # "start" => f.stream <= lastStream
    BY <1>2, <1>4 DEF RequestAt, RestAt
  <1>7. f.type \in {"data", "end"} => f.stream \in Held
    BY <1>2, <1>3, <1>4, <1>6 DEF RequestAt, BodyAt
  <1>8. QED
    BY <1>5, <1>6, <1>7 DEF RequestStart, RequestData, RequestEnd, RequestDiscarded, RequestCancel, Held

\* The Host handles the frame at the head.
LEMMA RequestHandled ==
    ASSUME WireInv, Request
    PROVE  RequestsInOrder' /\ UploadsAgree'
  <1> PICK f \in {toHost[n] : n \in DOMAIN toHost} :
          \/ RequestStart(f) \/ RequestData(f) \/ RequestEnd(f)
          \/ RequestDiscarded(f) \/ RequestCancel(f)
    BY DEF Request
  <1> PICK N \in Nat : N = Len(toHost)
    BY PipeFacts DEF WireInv, LocalInv
  <1> PICK s \in Nat : s = f.stream
    <2>1. Requests(f)
      BY DEF RequestStart, RequestData, RequestEnd, RequestDiscarded, RequestCancel
    <2>2. QED
      BY <2>1, NextRequest DEF WireInv, LocalInv
  <1>1. Requests(f) /\ Requested
    BY NoRequestBreaks DEF RequestStart, RequestData, RequestEnd, RequestDiscarded, RequestCancel
  <1>2. /\ N >= 1 /\ DOMAIN toHost = 1 .. N /\ DOMAIN toHost' = 1 .. N - 1 /\ f = toHost[1]
        /\ \A n \in 1 .. N - 1 : toHost'[n] = toHost[n + 1]
    <2>1. toHost # <<>> /\ toHost \in Seq(Frames) /\ f = toHost[1]
      BY <1>1, NextRequest, PipeFacts DEF WireInv, LocalInv
    <2>2. QED
      BY <1>1, <2>1, Handled DEF Requested
  <1>3. /\ \A n \in 1 .. N - 1 : n + 1 \in 1 .. N /\ n + 1 > 1
        /\ \A n \in 1 .. N : n = 1 \/ n - 1 \in 1 .. N - 1
    OBVIOUS
  <1>4. host = "up" /\ host' = "up" /\ main' = main /\ UNCHANGED calls
    <2>1. received > 0 /\ UNCHANGED <<calls, main>> /\ host' = host
      BY <1>1 DEF Requests, Requested
    <2>2. QED
      BY <2>1, PipeFacts DEF WireInv, LocalInv, RunsAgree
  <1>5. /\ lastStream \in Nat /\ lastStream' \in Nat /\ lastStream <= lastStream'
        /\ f.type # "start" => lastStream' = lastStream
        /\ f.type = "start" => lastStream' = s
    <2>1. lastStream \in Nat
      BY PipeFacts DEF WireInv, LocalInv
    <2>2. CASE f.type = "start"
      <3>1. RequestStart(f)
        BY <2>2 DEF RequestStart, RequestData, RequestEnd, RequestDiscarded, RequestCancel
      <3>2. f.stream > lastStream
        BY <1>2, <2>2 DEF WireInv, RequestsInOrder, RequestAt, StartAt
      <3>3. lastStream' = s
        BY <3>1, <3>2 DEF RequestStart
      <3>4. QED
        BY <2>1, <2>2, <3>2, <3>3
    <2>3. CASE f.type # "start"
      <3>1. lastStream' = lastStream
        BY <2>3 DEF RequestStart, RequestData, RequestEnd, RequestDiscarded, RequestCancel, HostBreaks, HostStops
      <3>2. QED
        BY <2>1, <2>3, <3>1
    <2>4. QED
      BY <2>2, <2>3
  <1>6. RequestAt(1) /\ \A n \in 1 .. N - 1 : RequestAt(n + 1)
    BY <1>2, <1>3 DEF WireInv, RequestsInOrder
  <1>7. /\ f.type = "start" => s > lastStream /\ f.body = (s \in Uploads)
        /\ f.type # "start" => s <= lastStream
    BY <1>2, <1>6 DEF RequestAt, StartAt, RestAt
  <1>8. /\ \A t : t # s /\ t \in Held => t \in Held'
        /\ f.type = "data" /\ s \in Held => s \in Held'
        /\ f.type = "start" /\ s \in Uploads => s \in Held'
        /\ f.type \in {"start", "data", "end", "cancel"}
    <2>1. CASE RequestStart(f)
      BY <1>7, <2>1 DEF RequestStart, Held
    <2>2. CASE RequestData(f)
      BY <1>4, <2>2 DEF RequestData, Held, HostBreaks, HostStops
    <2>3. CASE RequestEnd(f)
      BY <1>4, <2>3 DEF RequestEnd, Held, HostBreaks, HostStops
    <2>4. CASE RequestDiscarded(f)
      BY <2>4 DEF RequestDiscarded, Held
    <2>5. CASE RequestCancel(f)
      BY <1>4, <2>5 DEF RequestCancel, Held, HostBreaks, HostStops
    <2>6. QED
      BY <2>1, <2>2, <2>3, <2>4, <2>5
  <1>9. \A n \in 1 .. N : toHost[n].stream \in Nat
    BY <1>2, PipeFacts, StreamsAreNat DEF WireInv, LocalInv
  \* A start behind another is of a later request.
  <1>10. \A n \in 1 .. N : toHost[n].type = "start" /\ n # 1 =>
            toHost[n].stream # s /\ (f.type = "start" => s < toHost[n].stream)
    BY <1>2, <1>3 DEF WireInv, RequestsInOrder, RequestAt, StartAt
  <1>11. ASSUME NEW n \in 1 .. N - 1 PROVE RequestAt(n)'
    <2>1. toHost'[n] = toHost[n + 1] /\ RequestAt(n + 1) /\ n + 1 \in 1 .. N /\ n + 1 > 1
      BY <1>2, <1>3, <1>6
    <2>2. ASSUME StartAt(n + 1), toHost[n + 1].type = "start" PROVE StartAt(n)'
      <3>1. toHost[n + 1].stream > lastStream'
        BY <1>5, <1>10, <2>1, <2>2 DEF StartAt
      <3>2. \A k \in 1 .. N - 1 : k < n => toHost'[k] = toHost[k + 1] /\ k + 1 \in 1 .. N /\ k + 1 < n + 1
        BY <1>2, <1>3
      <3>3. QED
        BY <1>2, <2>1, <2>2, <3>1, <3>2 DEF StartAt
    <2>3. ASSUME RestAt(n + 1) PROVE RestAt(n)'
      <3>1. CASE toHost[n + 1].stream <= lastStream
        BY <1>5, <1>9, <2>1, <3>1 DEF RestAt
      <3>2. CASE \E k \in 1 .. N : k < n + 1 /\ toHost[k].type = "start" /\ toHost[k].stream = toHost[n + 1].stream
        <4> PICK k \in 1 .. N : k < n + 1 /\ toHost[k].type = "start" /\ toHost[k].stream = toHost[n + 1].stream
          BY <3>2
        <4>1. CASE k = 1
          BY <1>2, <1>5, <2>1, <4>1 DEF RestAt
        <4>2. CASE k # 1
          <5>1. k - 1 \in 1 .. N - 1 /\ k - 1 < n /\ (k - 1) + 1 = k
            BY <1>3, <4>2
          <5>2. QED
            BY <1>2, <2>1, <5>1 DEF RestAt
        <4>3. QED
          BY <4>1, <4>2
      <3>3. QED
        BY <1>2, <2>3, <3>1, <3>2 DEF RestAt
    <2>4. ASSUME BodyAt(n + 1), RestAt(n + 1) PROVE BodyAt(n)'
      <3>1. toHost[n + 1].stream \in Uploads
        BY <2>4 DEF BodyAt
      <3>2. \A k \in 1 .. N - 1 : k < n => toHost'[k] = toHost[k + 1] /\ k + 1 \in 1 .. N /\ k + 1 < n + 1
        BY <1>2, <1>3
      <3>3. toHost[n + 1].stream <= lastStream' => toHost[n + 1].stream \in Held'
        <4>1. CASE toHost[n + 1].stream = s
          <5>1. f.type \notin {"end", "cancel"}
            BY <1>2, <2>1, <2>4, <4>1 DEF BodyAt
          <5>2. f.type = "data" => s \in Held
            BY <1>2, <1>4, <1>7, <2>4, <4>1 DEF BodyAt
          <5>3. QED
            BY <1>8, <3>1, <4>1, <5>1, <5>2
        <4>2. CASE toHost[n + 1].stream # s
          <5>1. toHost[n + 1].stream <= lastStream' => toHost[n + 1].stream <= lastStream
            <6>1. CASE \E k \in 1 .. N : k < n + 1 /\ toHost[k].type = "start" /\ toHost[k].stream = toHost[n + 1].stream
              <7> PICK k \in 1 .. N : k < n + 1 /\ toHost[k].type = "start" /\ toHost[k].stream = toHost[n + 1].stream
                BY <6>1
              <7>1. k # 1
                BY <1>2, <4>2
              <7>2. f.type = "start" => s < toHost[n + 1].stream
                BY <1>10, <7>1
              <7>3. QED
                BY <1>5, <1>9, <2>1, <7>2
            <6>2. QED
              BY <1>2, <2>4, <6>1 DEF RestAt
          <5>2. QED
            BY <1>4, <1>8, <2>4, <4>2, <5>1 DEF BodyAt
        <4>3. QED
          BY <4>1, <4>2
      <3>4. QED
        BY <1>2, <2>1, <2>4, <3>1, <3>2, <3>3 DEF BodyAt
    <2>5. QED
      BY <2>1, <2>2, <2>3, <2>4 DEF RequestAt
  <1>12. RequestsInOrder'
    BY <1>2, <1>11 DEF RequestsInOrder
  <1>13. ASSUME main' = "active", NEW t \in Streams PROVE UploadAgrees(t)'
    <2>1. UploadAgrees(t) /\ Pending(t)' = Pending(t) /\ Sending(t)' = Sending(t) /\ t \in Nat
      BY <1>4, <1>13, StreamsAreNat DEF WireInv, UploadsAgree, Pending, Sending, calls
    <2>2. InHost(t, {"start"}) => t = lastStream' \/ InHost(t, {"start"})'
      <3> HAVE InHost(t, {"start"})
      <3> PICK k \in 1 .. N : toHost[k].stream = t /\ toHost[k].type = "start"
        BY <1>2 DEF InHost
      <3>1. CASE k = 1
        BY <1>2, <1>5, <3>1
      <3>2. CASE k # 1
        <4>1. k - 1 \in 1 .. N - 1 /\ (k - 1) + 1 = k
          BY <1>3, <3>2
        <4>2. QED
          BY <1>2, <4>1 DEF InHost
      <3>3. QED
        BY <3>1, <3>2
    <2>3. Closed(t)' => Closed(t)
      BY <1>2, <1>3 DEF Closed, InHost
    <2>4. ASSUME Sending(t), t <= lastStream' PROVE t \in Held'
      <3>1. CASE t = s
        <4>1. f.type \notin {"end", "cancel"}
          BY <1>2, <2>1, <2>4, <3>1 DEF UploadAgrees, Closed, InHost
        <4>2. t \in Uploads
          BY <2>4 DEF WireInv, LocalInv, CallersAgree, CallerAgrees, Sending
        <4>3. f.type = "data" => s \in Held
          BY <1>4, <1>7, <2>1, <2>4, <3>1 DEF UploadAgrees
        <4>4. QED
          BY <1>8, <3>1, <4>1, <4>2, <4>3
      <3>2. CASE t # s
        <4>1. t <= lastStream
          <5>1. CASE InHost(t, {"start"})
            <6> PICK k \in 1 .. N : toHost[k].stream = t /\ toHost[k].type = "start"
              BY <1>2, <5>1 DEF InHost
            <6>1. k # 1
              BY <1>2, <3>2
            <6>2. f.type = "start" => s < t
              BY <1>10, <6>1
            <6>3. QED
              BY <1>5, <2>1, <2>4, <6>2
          <5>2. QED
            BY <2>1, <2>4, <5>1 DEF UploadAgrees, Sending
        <4>2. QED
          BY <1>4, <1>8, <2>1, <2>4, <3>2, <4>1 DEF UploadAgrees
      <3>3. QED
        BY <3>1, <3>2
    <2>5. t <= lastStream => t <= lastStream'
      BY <1>5, <2>1
    <2>6. t = lastStream' => t <= lastStream'
      BY <1>5
    <2>7. QED
      BY <2>1, <2>2, <2>3, <2>4, <2>5, <2>6 DEF UploadAgrees
  <1>14. QED
    BY <1>12, <1>13 DEF UploadsAgree

\* A cancellation is one more frame, after which the upload is over.
LEMMA CancelKeepsOrder ==
    ASSUME WireInv, NEW s \in Streams, NEW c \in Call, Pending(s), Cancels(s, c), c.at = "over",
           \A t \in Streams : t # s => pump'[t] = pump[t],
           UNCHANGED <<lastStream, host, bodies, discarded>>
    PROVE  RequestsInOrder' /\ UploadsAgree'
  <1>1. CASE main = "active"
    <2>1. /\ call' = [call EXCEPT ![s] = c] /\ toHost' = Append(toHost, Frame(s, "cancel"))
          /\ main' = main
      BY <1>1 DEF Cancels
    <2>2. call'[s] = c /\ \A t \in Streams : t # s => call'[t] = call[t]
      BY <2>1 DEF WireInv, LocalInv, TypeInv, TypeOK
    <2>3. ~ Pending(s)' /\ ~ Sending(s)'
      BY <2>2 DEF Pending, Sending
    <2>4. \A t \in Streams : (Pending(t)' => Pending(t)) /\ (Sending(t)' => Sending(t))
      BY <2>2, <2>3 DEF Pending, Sending
    <2>5. Frame(s, "cancel") \in Frames /\ Frame(s, "cancel").stream = s /\ Frame(s, "cancel").type = "cancel"
      BY FramesAreFrames DEF Types, Frame
    <2>6. QED
      BY <1>1, <2>1, <2>3, <2>4, <2>5, MoreOfRequest
  <1>2. CASE main # "active"
    <2>1. UNCHANGED toHost /\ main' # "active"
      BY <1>2 DEF Cancels
    <2>2. QED
      BY <2>1, QuietRequests DEF Held
  <1>3. QED
    BY <1>1, <1>2

\* Callers and uploads write in order.
LEMMA CallersKeepOrder ==
    ASSUME WireInv, NEW s \in Streams, Caller(s) \/ Pump(s)
    PROVE  RequestsInOrder' /\ UploadsAgree'
  <1>a. UNCHANGED <<lastStream, bodies, discarded, host>>
    BY Apart
  <1>b. call \in [Streams -> Call] /\ pump \in [Streams -> Upload] /\ TypeInv
    BY DEF WireInv, LocalInv, TypeInv, TypeOK
  <1>1. CASE Fetch(s)
    BY <1>1, NewRequest
  <1>2. CASE FetchAborted(s)
    <2>1. /\ call'[s].at = "unsent" /\ pump' = pump /\ \A t \in Streams : t # s => call'[t] = call[t]
          /\ UNCHANGED <<toHost, main>>
      BY <1>2, <1>b DEF FetchAborted, Call, states
    <2>2. \A t \in Streams : (Pending(t)' => Pending(t)) /\ (Sending(t)' => Sending(t))
      BY <2>1 DEF Pending, Sending
    <2>3. QED
      BY <1>a, <2>1, <2>2, QuietRequests DEF Held
  <1>3. CASE Abort(s) \/ CancelResponse(s) \/ PumpFails(s)
    <2>1. Pending(s) /\ Cancels(s, Failed(call[s]))
      BY <1>3 DEF Abort, CancelResponse, PumpFails, Pending
    <2>2. \A t \in Streams : t # s => pump'[t] = pump[t]
      BY <1>3, <1>b DEF Abort, CancelResponse, PumpFails
    <2>3. QED
      BY <1>a, <1>b, <2>1, <2>2, EndsAreEnds, CancelKeepsOrder
  <1>4. CASE ReadBody(s) \/ PumpEnded(s) \/ PumpDropped(s)
    <2>1. /\ UNCHANGED <<toHost, main>> /\ \A t \in Streams : call'[t].at = call[t].at
          /\ \A t \in Streams : pump'[t].at = "pumping" => pump[t].at = "pumping"
      <3>1. CASE ReadBody(s)
        BY <1>b, <3>1 DEF ReadBody, Call, states
      <3>2. CASE PumpEnded(s)
        BY <1>b, <3>2 DEF PumpEnded, Call, Upload, states
      <3>3. CASE PumpDropped(s)
        BY <1>b, <3>3 DEF PumpDropped, Upload, states
      <3>4. QED
        BY <1>4, <3>1, <3>2, <3>3
    <2>2. \A t \in Streams : (Pending(t)' => Pending(t)) /\ (Sending(t)' => Sending(t))
      BY <2>1 DEF Pending, Sending
    <2>3. QED
      BY <1>a, <2>1, <2>2, QuietRequests DEF Held
  <1>5. CASE PumpData(s) \/ PumpEnd(s)
    <2>1. main = "active" /\ main' = main /\ Sending(s) /\ call' = call
      BY <1>5 DEF PumpData, PumpEnd, Sending, states
    <2>2. PICK f \in Frames : /\ f.stream = s /\ toHost' = Append(toHost, f)
                              /\ f.type = IF PumpData(s) THEN "data" ELSE "end"
      <3>1. pump[s].sent + 1 \in Nat
        BY <1>b, EntryTypes
      <3>2. DataOf(s, pump[s].sent + 1) \in Frames /\ Frame(s, "end") \in Frames
        BY <3>1, FramesAreFrames DEF Types
      <3>3. QED
        BY <1>5, <3>2 DEF PumpData, PumpEnd, DataOf, Frame
    <2>3. /\ \A t \in Streams : t # s => pump'[t] = pump[t]
          /\ ~ PumpData(s) => pump'[s].at = "ending"
      BY <1>5, <1>b DEF PumpData, PumpEnd, Upload
    <2>4. \A t \in Streams : (Pending(t)' => Pending(t)) /\ (Sending(t)' => Sending(t))
      BY <2>1, <2>3 DEF Pending, Sending
    <2>5. f.type \in {"end", "cancel"} => ~ Sending(s)'
      BY <2>2, <2>3 DEF Sending
    <2>6. f.type \in {"data", "end"} /\ Pending(s)
      BY <2>1, <2>2 DEF Sending
    <2>7. QED
      BY <1>a, <2>1, <2>2, <2>4, <2>5, <2>6, MoreOfRequest
  <1>6. QED
    BY <1>1, <1>2, <1>3, <1>4, <1>5 DEF Caller, Pump

\* A response handled writes at most a cancellation.
LEMMA ResponseKeepsOrder ==
    ASSUME WireInv, Response
    PROVE  RequestsInOrder' /\ UploadsAgree'
  <1> PICK f \in {toMain[n] : n \in DOMAIN toMain} :
          \/ ResponseForNobody(f) \/ ResponseStart(f) \/ ResponseData(f)
          \/ ResponseEnd(f) \/ ResponseError(f)
    BY DEF Response
  <1> DEFINE s == f.stream
  <1>1. Responds(f) /\ pump' = pump
    BY DEF ResponseForNobody, ResponseStart, ResponseData, ResponseEnd, ResponseError, Responds
  <1>2. s \in Streams /\ TypeInv
    BY <1>1, NextResponse DEF WireInv, LocalInv
  <1>3. UNCHANGED <<lastStream, bodies, discarded, host>>
    BY Apart
  <1>4. call \in [Streams -> Call]
    BY DEF WireInv, LocalInv, TypeInv, TypeOK
  <1>5. MainBreaks => RequestsInOrder' /\ UploadsAgree'
    <2>1. MainBreaks => main' = "lost" /\ UNCHANGED toHost
      BY DEF MainBreaks, FailsAll
    <2>2. QED
      BY <1>3, <2>1, QuietRequests DEF Held
  <1> HIDE DEF s
  <1>6. ASSUME \A t \in Streams : Pending(t)' => Pending(t), UNCHANGED <<toHost, main>>
        PROVE  RequestsInOrder' /\ UploadsAgree'
    <2>1. \A t \in Streams : Sending(t)' => Sending(t)
      BY <1>1, <1>6 DEF Sending
    <2>2. QED
      BY <1>3, <1>6, <2>1, QuietRequests DEF Held
  <1>7. CASE ResponseForNobody(f)
    BY <1>5, <1>6, <1>7 DEF ResponseForNobody, Pending
  <1>8. CASE ResponseStart(f)
    <2>1. CASE call[s].at = "waiting"
      <3>1. /\ Pending(s) /\ UNCHANGED <<toHost, main>>
            /\ call' = [call EXCEPT ![s].at = IF f.body THEN "streaming" ELSE "started"]
        BY <1>8, <2>1 DEF ResponseStart, s
      <3>2. \A t \in Streams : Pending(t)' => Pending(t)
        BY <1>2, <1>4, <3>1 DEF Pending
      <3>3. QED
        BY <1>6, <3>1, <3>2
    <2>2. QED
      BY <1>5, <1>8, <2>1 DEF ResponseStart, s
  <1>9. CASE ResponseData(f)
    <2>1. CASE call[s].at = "streaming"
      <3>1. /\ Pending(s) /\ UNCHANGED <<toHost, main>>
            /\ \A t \in Streams : t # s => call'[t] = call[t]
        BY <1>4, <1>9, <2>1 DEF ResponseData, s
      <3>2. \A t \in Streams : Pending(t)' => Pending(t)
        BY <3>1 DEF Pending
      <3>3. QED
        BY <1>6, <3>1, <3>2
    <2>2. QED
      BY <1>5, <1>9, <2>1 DEF ResponseData, s
  <1>10. CASE ResponseEnd(f)
    <2>1. Pending(s)
      BY <1>10 DEF ResponseEnd, s
    <2>2. CASE Cancels(s, Ended(call[s]))
      BY <1>1, <1>2, <1>3, <2>1, <2>2, EndsAreEnds, CancelKeepsOrder
    <2>3. CASE call' = [call EXCEPT ![s] = Ended(@)] /\ UNCHANGED <<toHost, main>>
      <3>1. \A t \in Streams : t # s => call'[t] = call[t]
        BY <1>4, <2>3
      <3>2. \A t \in Streams : Pending(t)' => Pending(t)
        BY <2>1, <3>1 DEF Pending
      <3>3. QED
        BY <1>6, <2>3, <3>2
    <2>4. QED
      BY <1>5, <1>10, <2>2, <2>3 DEF ResponseEnd, s
  <1>11. CASE ResponseError(f)
    <2>1. Pending(s) /\ Cancels(s, Failed(call[s]))
      BY <1>11 DEF ResponseError, s
    <2>2. QED
      BY <1>1, <1>2, <1>3, <2>1, EndsAreEnds, CancelKeepsOrder
  <1>12. QED
    BY <1>7, <1>8, <1>9, <1>10, <1>11

\* Runs remember the body they leave; stopping and dying shorten the pipe.
LEMMA OthersKeepOrder ==
    ASSUME WireInv,
           \/ TakeResponses \/ Stop \/ HostLost \/ (\E s \in Streams : Run(s))
           \/ TakeRequests \/ HostStop \/ HostExits \/ HostDies \/ UNCHANGED vars
    PROVE  RequestsInOrder' /\ UploadsAgree'
  <1>1. CASE Stop
    BY <1>1, FewerRequests
  <1>2. CASE HostLost
    BY <1>2, QuietRequests DEF HostLost, FailsAll, taking, Held
  <1>3. CASE \/ TakeResponses \/ TakeRequests \/ HostStop \/ HostExits \/ HostDies \/ UNCHANGED vars
    <2>1. UNCHANGED <<toHost, lastStream, calls, main>>
          /\ (host' = "up" => host = "up" /\ UNCHANGED <<bodies, discarded>>)
      BY <1>3 DEF TakeResponses, TakeRequests, HostStop, HostStops, HostExits, HostDies, vars, taking, states
    <2>2. \A t \in Streams : (Pending(t)' => Pending(t)) /\ (Sending(t)' => Sending(t))
      BY <2>1 DEF calls, Pending, Sending
    <2>3. QED
      BY <2>1, <2>2, QuietRequests DEF Held
  <1>4. CASE \E s \in Streams : Run(s)
    <2> PICK s \in Streams : Run(s)
      BY <1>4
    <2>1. UNCHANGED <<toHost, lastStream, call, pump, main, host>>
      BY DEF Run, RunAnswers, RunSends, RunEnds, RunThrows, RunOver, Says, taking, states, calls
    <2>2. Held' = Held
      <3>1. CASE RunOver(s)
        BY <3>1 DEF RunOver, Held
      <3>2. CASE ~ RunOver(s)
        BY <3>2 DEF Run, RunAnswers, RunSends, RunEnds, RunThrows, Says, taking, Held
      <3>3. QED
        BY <3>1, <3>2
    <2>3. \A t \in Streams : (Pending(t)' => Pending(t)) /\ (Sending(t)' => Sending(t))
      BY <2>1 DEF Pending, Sending
    <2>4. QED
      BY <2>1, <2>2, <2>3, QuietRequests
  <1>5. QED
    BY <1>1, <1>2, <1>3, <1>4

\* The pipe starts empty.
LEMMA WireInit == Init => WireInv
  <1> SUFFICES ASSUME Init PROVE RequestsInOrder /\ UploadsAgree
    BY LocalInit DEF WireInv
  <1>1. DOMAIN toHost = {}
    BY EmptySeq DEF Init
  <1>2. \A s \in Streams : ~ Pending(s)
    BY DEF Init, Pending
  <1>3. QED
    BY <1>1, <1>2 DEF RequestsInOrder, UploadsAgree, UploadAgrees, Sending

\* Every step keeps the requests in order.
LEMMA WireStep == WireInv /\ [Next]_vars => WireInv'
  <1> SUFFICES ASSUME WireInv, [Next]_vars PROVE WireInv'
    OBVIOUS
  <1>1. LocalInv'
    BY LocalStep DEF WireInv
  <1>2. RequestsInOrder' /\ UploadsAgree'
    BY CallersKeepOrder, ResponseKeepsOrder, RequestHandled, OthersKeepOrder DEF Next
  <1>3. QED
    BY <1>1, <1>2 DEF WireInv

-----------------------------------------------------------------------------
(* Responses on their way.                                                   *)

\* The start of the response to s is under way.
Started(s) == \E n \in DOMAIN toMain : toMain[n].stream = s /\ toMain[n].type = "start"

\* Chunk m of s comes before the frame n.
OnItsWay(s, m, n) ==
    \E k \in DOMAIN toMain :
        k < n /\ toMain[k].stream = s /\ toMain[k].type = "data" /\ toMain[k].chunk = m

\* A response begins with a start, goes on in order, and ends when all was said.
HeadAt(n, s) ==
    /\ \A k \in DOMAIN toMain : k < n => toMain[k].stream # s
    /\ call[s].at \notin {"started", "streaming"}
    /\ toMain[n].body = run[s].body

\* A chunk was not seen before, and comes after those below it.
ChunkAt(n, s) ==
    /\ run[s].body
    /\ toMain[n].chunk <= run[s].sent
    /\ Pending(s) => toMain[n].chunk > Seen(s)
    /\ \A k \in DOMAIN toMain :
          k < n /\ toMain[k].stream = s /\ toMain[k].type = "data"
             => toMain[k].chunk < toMain[n].chunk

\* At the end of a response whatever its reader has not seen comes before.
LastAt(n, s) ==
    /\ run[s].at \in {"ended", "over"}
    /\ Pending(s) => \A m \in Seen(s) + 1 .. run[s].sent : OnItsWay(s, m, n)

\* What the response pipe holds at n, of the stream s.
SaidAt(n, s) ==
    /\ s <= lastStream
    /\ run[s].at \notin {"none", "handling"}
    /\ toMain[n].type = "start" => HeadAt(n, s)
    /\ toMain[n].type \in {"data", "end"} /\ call[s].at = "waiting" =>
          \E k \in DOMAIN toMain : k < n /\ toMain[k].stream = s /\ toMain[k].type = "start"
    /\ toMain[n].type = "data" => ChunkAt(n, s)
    /\ toMain[n].type = "end" => LastAt(n, s)

ResponsesInOrder == \A n \in DOMAIN toMain : SaidAt(n, toMain[n].stream)

\* What the reader has not seen is on its way, and he who saw the end saw all.
ReaderAgrees(s) ==
    /\ Pending(s) /\ run[s].at \in {"none", "handling"} => call[s].at = "waiting"
    /\ call[s].at = "started" => ~ run[s].body
    /\ call[s].at = "streaming" => run[s].body
    /\ host # "ended" /\ call[s].at = "waiting" /\ run[s].at \in {"sending", "ended"} => Started(s)
    /\ Pending(s) => Seen(s) <= run[s].sent
    /\ Pending(s) /\ host # "ended" =>
          \A m \in Seen(s) + 1 .. run[s].sent : OnItsWay(s, m, Len(toMain) + 1)
    /\ call[s].verdict = "whole" => run[s].at \in {"ended", "over"} /\ Seen(s) = run[s].sent

ReadersAgree == \A s \in Streams : ReaderAgrees(s)

\* What holds of the responses on their way: the inductive invariant.
FlowInv == WireInv /\ ResponsesInOrder /\ ReadersAgree

\* What a step may do to an entry that no frame is about.
CallStays(s) ==
    /\ call'[s].at = call[s].at /\ call'[s].verdict = call[s].verdict /\ Seen(s)' = Seen(s)
\* It is given up.
CallGone(s) == call'[s].at \in {"unsent", "over"} /\ call'[s].verdict \in {"failed", "head"}
\* It is begun.
CallBegins(s) ==
    /\ s > lastStream
    /\ call'[s].at = "waiting" /\ call'[s].verdict = "none" /\ Seen(s)' = 0
\* What a step that says nothing may do to a run.
RunMoves(s) ==
    /\ run'[s].body = run[s].body /\ run'[s].sent = run[s].sent
    /\ \/ run'[s].at = run[s].at
       \/ run'[s].at = "handling" /\ run[s].at = "none"
       \/ run'[s].at = "thrown" /\ run[s].at \in {"handling", "sending"}
       \/ run'[s].at = "over" /\ run[s].at \in {"ended", "thrown"}

\* What of it every step uses.
LEMMA FlowFacts ==
    ASSUME FlowInv
    PROVE  /\ TypeInv /\ Len(toMain) \in Nat /\ DOMAIN toMain = 1 .. Len(toMain)
           /\ lastStream \in Nat
           /\ \A n \in DOMAIN toMain : /\ toMain[n].stream \in Streams /\ toMain[n].stream \in Nat
                                       /\ toMain[n].chunk \in Nat
           /\ \A s \in Streams : Seen(s) \in Nat /\ run[s].sent \in Nat
           /\ \A n \in DOMAIN toMain : SaidAt(n, toMain[n].stream)
           /\ \A s \in Streams : /\ ReaderAgrees(s)
                                 /\ call[s].at \in {"unsent", "over"} <=> call[s].verdict # "none"
                                 /\ s > lastStream => run[s].at = "none"
                                 /\ run[s].at \in {"none", "handling"} => run[s].sent = 0
  <1>1. TypeInv /\ WireInv /\ LocalInv
    BY DEF FlowInv, WireInv, LocalInv
  <1>2. Len(toMain) \in Nat /\ DOMAIN toMain = 1 .. Len(toMain) /\ lastStream \in Nat
        /\ \A n \in DOMAIN toMain : toMain[n] \in Frames
    BY <1>1, PipeFacts
  <1>3. \A n \in DOMAIN toMain : /\ toMain[n].stream \in Streams /\ toMain[n].stream \in Nat
                                 /\ toMain[n].chunk \in Nat
    BY <1>2, StreamsAreNat DEF Frames
  <1>4. \A s \in Streams : Seen(s) \in Nat /\ run[s].sent \in Nat
    BY <1>1, EntryTypes DEF Seen
  <1>5. (\A n \in DOMAIN toMain : SaidAt(n, toMain[n].stream)) /\ \A s \in Streams : ReaderAgrees(s)
    BY DEF FlowInv, ResponsesInOrder, ReadersAgree
  <1>6. \A s \in Streams : /\ call[s].at \in {"unsent", "over"} <=> call[s].verdict # "none"
                           /\ s > lastStream => run[s].at = "none"
                           /\ run[s].at \in {"none", "handling"} => run[s].sent = 0
    BY <1>1 DEF LocalInv, CallersAgree, CallerAgrees, RunsAgree, RunAgrees
  <1>7. QED
    BY <1>1, <1>2, <1>3, <1>4, <1>5, <1>6

\* A step that writes no response and handles none.
LEMMA QuietResponses ==
    ASSUME FlowInv, UNCHANGED toMain, lastStream' \in Nat, lastStream <= lastStream',
           host' # "ended" => host # "ended",
           \A s \in Streams : CallStays(s) \/ CallGone(s) \/ CallBegins(s),
           \A s \in Streams : RunMoves(s)
    PROVE  ResponsesInOrder' /\ ReadersAgree'
  <1> USE FlowFacts
  <1>1. \A s, m, n : OnItsWay(s, m, n)' = OnItsWay(s, m, n)
    BY DEF OnItsWay
  <1>2. \A s : Started(s)' = Started(s)
    BY DEF Started
  <1>3. ASSUME NEW n \in DOMAIN toMain PROVE SaidAt(n, toMain[n].stream)'
    <2> PICK s \in Streams : s = toMain[n].stream
      OBVIOUS
    <2>1. /\ SaidAt(n, s) /\ s \in Nat /\ s <= lastStream /\ run[s].at \notin {"none", "handling"}
          /\ toMain'[n].stream = s
      BY DEF SaidAt
    <2>2. CallStays(s) \/ CallGone(s)
      BY <2>1 DEF CallBegins
    <2>3. s <= lastStream' /\ run'[s].at \notin {"none", "handling"}
      BY <2>1 DEF RunMoves
    <2>4. /\ call'[s].at = call[s].at \/ call'[s].at \in {"unsent", "over"}
          /\ Pending(s)' => Pending(s) /\ Seen(s)' = Seen(s)
          /\ run'[s].body = run[s].body /\ run'[s].sent = run[s].sent
      BY <2>2 DEF CallStays, CallGone, Pending, RunMoves
    <2>5. HeadAt(n, s) => HeadAt(n, s)'
      BY <2>4 DEF HeadAt
    <2>6. ChunkAt(n, s) => ChunkAt(n, s)'
      BY <2>4 DEF ChunkAt
    <2>7. LastAt(n, s) => LastAt(n, s)'
      BY <1>1, <2>4 DEF LastAt, RunMoves
    <2>8. SaidAt(n, s)'
      BY <2>1, <2>3, <2>4, <2>5, <2>6, <2>7 DEF SaidAt
    <2>9. QED
      BY <2>8
  <1>4. ASSUME NEW s \in Streams PROVE ReaderAgrees(s)'
    <2>1. ReaderAgrees(s) /\ RunMoves(s)
      OBVIOUS
    <2>2. CASE CallStays(s)
      BY <1>1, <1>2, <2>1, <2>2 DEF ReaderAgrees, CallStays, RunMoves, Pending
    <2>3. CASE CallGone(s)
      BY <2>3 DEF ReaderAgrees, CallGone, Pending
    <2>4. CASE CallBegins(s)
      <3>1. run[s].at = "none" /\ run[s].sent = 0
        BY <2>4 DEF CallBegins
      <3>2. run'[s].at \in {"none", "handling"} /\ run'[s].sent = 0
        BY <2>1, <3>1 DEF RunMoves
      <3>3. QED
        BY <2>4, <3>2 DEF ReaderAgrees, CallBegins
    <2>5. QED
      BY <2>2, <2>3, <2>4
  <1>5. QED
    BY <1>3, <1>4 DEF ResponsesInOrder, ReadersAgree

\* The Host dies, and what the pipe has not taken is lost.
LEMMA FewerResponses ==
    ASSUME FlowInv, HostDies
    PROVE  ResponsesInOrder' /\ ReadersAgree'
  <1> USE FlowFacts
  <1>1. /\ DOMAIN toMain' \subseteq DOMAIN toMain
        /\ \A n \in DOMAIN toMain' : toMain'[n] = toMain[n]
        /\ \A n \in DOMAIN toMain' : \A k \in DOMAIN toMain : k < n => k \in DOMAIN toMain'
    <2>1. /\ toMain' \in Seq(Frames) /\ Len(toMain') <= Len(toMain)
          /\ DOMAIN toMain' = 1 .. Len(toMain') /\ DOMAIN toMain = 1 .. Len(toMain)
          /\ \A n \in 1 .. Len(toMain') : toMain'[n] = toMain[n]
      BY PipeFacts, TakenPart DEF TypeInv, TypeOK, HostDies
    <2>2. Len(toMain') \in Nat
      BY <2>1, LenProperties
    <2>3. QED
      BY <2>1, <2>2
  <1>2. UNCHANGED <<call, run, lastStream>> /\ host' = "ended"
    BY DEF HostDies, calls, runs, taking
  <1>3. ASSUME NEW n \in DOMAIN toMain' PROVE SaidAt(n, toMain[n].stream)'
    <2> PICK s \in Streams : s = toMain[n].stream
      BY <1>1
    <2>1. SaidAt(n, s) /\ toMain'[n] = toMain[n] /\ toMain'[n].stream = s
      BY <1>1
    <2>2. \A m : OnItsWay(s, m, n) => OnItsWay(s, m, n)'
      BY <1>1 DEF OnItsWay
    <2>3. /\ HeadAt(n, s) => HeadAt(n, s)'
          /\ ChunkAt(n, s) => ChunkAt(n, s)'
          /\ LastAt(n, s) => LastAt(n, s)'
      BY <1>1, <1>2, <2>1, <2>2 DEF HeadAt, ChunkAt, LastAt, Pending, Seen
    <2>4. SaidAt(n, s)'
      BY <1>1, <1>2, <2>1, <2>3 DEF SaidAt
    <2>5. QED
      BY <2>1, <2>4
  <1>4. \A s \in Streams : ReaderAgrees(s)'
    BY <1>2 DEF ReaderAgrees, Pending, Seen
  <1>5. QED
    BY <1>3, <1>4 DEF ResponsesInOrder, ReadersAgree

\* The main process fails at no frame.
LEMMA NoResponseBreaks ==
    ASSUME FlowInv, Response
    PROVE  Responded
  <1> USE FlowFacts
  <1> PICK f \in {toMain[n] : n \in DOMAIN toMain} :
          \/ ResponseForNobody(f) \/ ResponseStart(f) \/ ResponseData(f)
          \/ ResponseEnd(f) \/ ResponseError(f)
    BY DEF Response
  <1> DEFINE s == f.stream
  <1>1. Responds(f)
    BY DEF ResponseForNobody, ResponseStart, ResponseData, ResponseEnd, ResponseError
  <1>2. f = toMain[1] /\ 1 \in DOMAIN toMain /\ s \in Streams /\ s \in Nat
        /\ \A k \in DOMAIN toMain : ~ (k < 1)
    <2>1. f = toMain[1] /\ Len(toMain) >= 1 /\ s \in Streams
      BY <1>1, NextResponse
    <2>2. QED
      BY <2>1
  <1>3. SaidAt(1, s) /\ ReaderAgrees(s)
    BY <1>2
  <1>4. s <= used
    BY <1>2, <1>3 DEF SaidAt, TypeInv, TypeOK
  <1>5. ResponseStart(f) => call[s].at = "waiting"
    BY <1>2, <1>3 DEF ResponseStart, SaidAt, HeadAt, Pending
  <1>6. ResponseData(f) => call[s].at = "streaming"
    BY <1>2, <1>3 DEF ResponseData, SaidAt, ChunkAt, ReaderAgrees, Pending
  <1>7. ResponseEnd(f) => call[s].at # "waiting"
    BY <1>2, <1>3 DEF ResponseEnd, SaidAt
  <1>8. QED
    BY <1>4, <1>5, <1>6, <1>7 DEF ResponseForNobody, ResponseStart, ResponseData, ResponseEnd, ResponseError

\* A run says one more thing.
Answers(s, f) == /\ run[s].at = "handling" /\ run'[s].at = "sending" /\ run'[s].body = f.body
                 /\ run'[s].sent = run[s].sent /\ f.type = "start"
Sends(s, f)   == /\ run[s].at = "sending" /\ run[s].body /\ run'[s].at = "sending"
                 /\ run'[s].body = run[s].body /\ run'[s].sent = run[s].sent + 1
                 /\ f.type = "data" /\ f.chunk = run[s].sent + 1
Ends(s, f)    == /\ run[s].at = "sending" /\ run'[s].at = "ended"
                 /\ run'[s].body = run[s].body /\ run'[s].sent = run[s].sent /\ f.type = "end"
Throws(s, f)  == /\ run[s].at \in {"handling", "sending"} /\ run'[s].at = "thrown"
                 /\ run'[s].body = run[s].body /\ run'[s].sent = run[s].sent /\ f.type = "error"

\* A run says one more thing, at the end of the pipe.
LEMMA MoreResponses ==
    ASSUME FlowInv, NEW s \in Streams, NEW f \in Frames, f.stream = s,
           toMain' = Append(toMain, f), UNCHANGED <<call, lastStream, host>>, host # "ended",
           \A t \in Streams : t # s => run'[t] = run[t],
           Answers(s, f) \/ Sends(s, f) \/ Ends(s, f) \/ Throws(s, f)
    PROVE  ResponsesInOrder' /\ ReadersAgree'
  <1> USE FlowFacts
  <1> PICK N \in Nat : N = Len(toMain)
    OBVIOUS
  <1>1. /\ DOMAIN toMain = 1 .. N /\ DOMAIN toMain' = 1 .. N + 1
        /\ \A n \in 1 .. N : toMain'[n] = toMain[n]
        /\ toMain'[N + 1] = f /\ Len(toMain') = N + 1
    BY PipeFacts, Appended
  <1>2. /\ \A n \in 1 .. N : n \in 1 .. N + 1 /\ n < N + 1
        /\ \A n \in 1 .. N + 1 : n \in 1 .. N \/ n = N + 1
        /\ \A n \in 1 .. N, k \in 1 .. N + 1 : k < n => k \in 1 .. N
    OBVIOUS
  <1>3. \A t, m : \A n \in 1 .. N + 1 : OnItsWay(t, m, n) => OnItsWay(t, m, n)'
    BY <1>1, <1>2 DEF OnItsWay
  <1>4. \A t, m : OnItsWay(t, m, N + 1) => OnItsWay(t, m, N + 1)' /\ OnItsWay(t, m, Len(toMain) + 1)'
    <2> TAKE t, m
    <2> HAVE OnItsWay(t, m, N + 1)
    <2> PICK k \in 1 .. N : toMain[k].stream = t /\ toMain[k].type = "data" /\ toMain[k].chunk = m
      BY <1>1 DEF OnItsWay
    <2>1. k \in 1 .. N + 1 /\ k < N + 1 /\ k < (N + 1) + 1
      OBVIOUS
    <2>2. QED
      BY <1>1, <2>1 DEF OnItsWay
  <1>5. \A t : Started(t) => Started(t)'
    BY <1>1, <1>2 DEF Started
  <1>6. run[s].at \in {"handling", "sending"} /\ run[s].sent \in Nat
    BY DEF Answers, Sends, Ends, Throws
  <1>7. s \in Nat /\ s <= lastStream
    BY <1>6, StreamsAreNat
  <1>8. ASSUME NEW n \in 1 .. N PROVE SaidAt(n, toMain[n].stream)'
    <2> PICK t \in Streams : t = toMain[n].stream
      BY <1>1
    <2>1. SaidAt(n, t) /\ toMain'[n] = toMain[n] /\ toMain'[n].stream = t /\ toMain[n].chunk \in Nat
      BY <1>1
    <2>2. CASE t = s
      <3>1. ~ Answers(s, f) /\ run[s].at = "sending"
        BY <1>6, <2>1, <2>2 DEF SaidAt, Answers
      <3>2. toMain[n].type # "end"
        BY <2>1, <2>2, <3>1 DEF SaidAt, LastAt
      <3>3. /\ run'[s].body = run[s].body /\ run'[s].sent \in Nat /\ run[s].sent <= run'[s].sent
            /\ run'[s].at \notin {"none", "handling"}
        BY <1>6, <3>1 DEF Sends, Ends, Throws
      <3>4. /\ HeadAt(n, s) => HeadAt(n, s)'
            /\ ChunkAt(n, s) => ChunkAt(n, s)'
        <4>1. HeadAt(n, s) => HeadAt(n, s)'
          BY <1>1, <1>2, <2>1, <3>3 DEF HeadAt
        <4>2. ChunkAt(n, s) => toMain[n].chunk <= run'[s].sent
          BY <1>6, <2>1, <3>3 DEF ChunkAt
        <4>3. ChunkAt(n, s) => ChunkAt(n, s)'
          BY <1>1, <1>2, <2>1, <3>3, <4>2 DEF ChunkAt, Pending, Seen
        <4>4. QED
          BY <4>1, <4>3
      <3>5. SaidAt(n, s)'
        BY <1>1, <1>2, <2>1, <2>2, <3>2, <3>3, <3>4 DEF SaidAt
      <3>6. QED
        BY <2>1, <2>2, <3>5
    <2>3. CASE t # s
      <3>1. run'[t] = run[t]
        BY <2>3
      <3>2. /\ HeadAt(n, t) => HeadAt(n, t)'
            /\ ChunkAt(n, t) => ChunkAt(n, t)'
            /\ LastAt(n, t) => LastAt(n, t)'
        BY <1>1, <1>2, <1>3, <2>1, <3>1 DEF HeadAt, ChunkAt, LastAt, Pending, Seen
      <3>3. SaidAt(n, t)'
        BY <1>1, <1>2, <2>1, <3>1, <3>2 DEF SaidAt
      <3>4. QED
        BY <2>1, <3>3
    <2>4. QED
      BY <2>2, <2>3
  <1>9. SaidAt(N + 1, s)'
    <2>1. s <= lastStream' /\ run'[s].at \notin {"none", "handling"}
      BY <1>7 DEF Answers, Sends, Ends, Throws
    <2>2. ReaderAgrees(s)
      OBVIOUS
    <2>3. CASE Answers(s, f)
      <3>1. \A k \in 1 .. N : toMain[k].stream # s
        BY <1>1, <2>3 DEF SaidAt, Answers
      <3>2. call[s].at \notin {"started", "streaming"}
        BY <2>2, <2>3 DEF ReaderAgrees, Answers, Pending
      <3>3. \A k \in 1 .. N + 1 : k < N + 1 => k \in 1 .. N
        OBVIOUS
      <3>4. HeadAt(N + 1, s)'
        BY <1>1, <2>3, <3>1, <3>2, <3>3 DEF HeadAt, Answers
      <3>5. QED
        BY <1>1, <2>1, <2>3, <3>4 DEF SaidAt, Answers
    <2>4. (Sends(s, f) \/ Ends(s, f)) /\ call[s].at = "waiting" =>
             \E k \in 1 .. N : toMain[k].stream = s /\ toMain[k].type = "start"
      BY <1>1, <2>2 DEF ReaderAgrees, Started, Sends, Ends
    <2>5. CASE Sends(s, f)
      <3>1. \A k \in 1 .. N + 1 : k < N + 1 => k \in 1 .. N
        OBVIOUS
      <3>2. \A k \in 1 .. N : toMain[k].stream = s /\ toMain[k].type = "data" => toMain[k].chunk < run[s].sent + 1
        BY <1>1, <1>6 DEF SaidAt, ChunkAt
      <3>3. Pending(s) => run[s].sent + 1 > Seen(s)
        BY <1>6, <2>2 DEF ReaderAgrees
      <3>4. f.chunk <= run'[s].sent
        BY <1>6, <2>5 DEF Sends
      <3>5. ChunkAt(N + 1, s)'
        BY <1>1, <2>5, <3>1, <3>2, <3>3, <3>4 DEF ChunkAt, Sends, Pending, Seen
      <3>6. QED
        BY <1>1, <1>2, <2>1, <2>4, <2>5, <3>5 DEF SaidAt, Sends
    <2>6. CASE Ends(s, f)
      <3>1. Pending(s) => \A m \in Seen(s) + 1 .. run[s].sent : OnItsWay(s, m, N + 1)
        BY <2>2 DEF ReaderAgrees
      <3>2. LastAt(N + 1, s)'
        BY <1>4, <2>6, <3>1 DEF LastAt, Ends, Pending, Seen
      <3>3. QED
        BY <1>1, <1>2, <2>1, <2>4, <2>6, <3>2 DEF SaidAt, Ends
    <2>7. CASE Throws(s, f)
      BY <1>1, <2>1, <2>7 DEF SaidAt, Throws
    <2>8. QED
      BY <2>3, <2>5, <2>6, <2>7
  <1>10. ResponsesInOrder'
    BY <1>1, <1>2, <1>8, <1>9 DEF ResponsesInOrder
  <1>11. ASSUME NEW t \in Streams PROVE ReaderAgrees(t)'
    <2>1. ReaderAgrees(t)
      OBVIOUS
    <2>2. CASE t # s
      <3>1. run'[t] = run[t]
        BY <2>2
      <3>2. QED
        BY <1>4, <1>5, <2>1, <3>1 DEF ReaderAgrees, Pending, Seen
    <2>3. CASE t = s
      <3>1. call[s].verdict # "whole"
        BY <1>6, <2>1, <2>3 DEF ReaderAgrees
      <3>2. run'[s].at \notin {"none", "handling"}
        BY DEF Answers, Sends, Ends, Throws
      <3>3. /\ call[s].at = "started" => ~ run'[s].body
            /\ call[s].at = "streaming" => run'[s].body
        BY <2>1, <2>3 DEF ReaderAgrees, Pending, Answers, Sends, Ends, Throws
      <3>4. call[s].at = "waiting" /\ run'[s].at \in {"sending", "ended"} => Started(s)'
        <4>1. CASE Answers(s, f)
          <5>1. N + 1 \in DOMAIN toMain'
            BY <1>1
          <5>2. QED
            BY <1>1, <4>1, <5>1 DEF Started, Answers
        <4>2. CASE ~ Answers(s, f)
          BY <1>5, <2>1, <2>3, <4>2 DEF ReaderAgrees, Sends, Ends, Throws
        <4>3. QED
          BY <4>1, <4>2
      <3>5. Pending(s) => Seen(s) <= run'[s].sent
        BY <1>6, <2>1, <2>3 DEF ReaderAgrees, Answers, Sends, Ends, Throws
      <3>6. Pending(s) => \A m \in Seen(s) + 1 .. run'[s].sent : OnItsWay(s, m, Len(toMain) + 1)'
        <4> SUFFICES ASSUME Pending(s), NEW m \in Seen(s) + 1 .. run'[s].sent
                     PROVE  OnItsWay(s, m, Len(toMain) + 1)'
          OBVIOUS
        <4>1. \A x \in Seen(s) + 1 .. run[s].sent : OnItsWay(s, x, N + 1)
          BY <2>1, <2>3 DEF ReaderAgrees
        <4>2. CASE m \in Seen(s) + 1 .. run[s].sent
          BY <1>4, <4>1, <4>2
        <4>3. CASE m \notin Seen(s) + 1 .. run[s].sent
          <5>1. Sends(s, f) /\ m = run[s].sent + 1
            <6>1. run'[s].sent = run[s].sent \/ (Sends(s, f) /\ run'[s].sent = run[s].sent + 1)
              BY DEF Answers, Sends, Ends, Throws
            <6>2. Seen(s) \in Nat /\ run[s].sent \in Nat
              OBVIOUS
            <6> PICK a \in Nat, b \in Nat, c \in Nat : a = Seen(s) /\ b = run[s].sent /\ c = run'[s].sent
              BY <6>1, <6>2
            <6>3. m \in a + 1 .. c /\ m \notin a + 1 .. b /\ (c = b \/ (Sends(s, f) /\ c = b + 1))
              BY <4>3, <6>1
            <6>4. m \in Int /\ a + 1 <= m /\ m <= c /\ ~ (m <= b) /\ (c = b \/ c = b + 1)
              BY <6>3
            <6>5. c # b /\ m = b + 1
              BY <6>4
            <6>6. QED
              BY <6>3, <6>5
          <5>2. N + 1 \in DOMAIN toMain' /\ N + 1 < Len(toMain') + 1
            BY <1>1
          <5>3. QED
            BY <1>1, <5>1, <5>2 DEF OnItsWay, Sends
        <4>4. QED
          BY <4>2, <4>3
      <3>7. QED
        BY <2>3, <3>1, <3>2, <3>3, <3>4, <3>5, <3>6 DEF ReaderAgrees, Pending, Seen
    <2>4. QED
      BY <2>2, <2>3
  <1>12. QED
    BY <1>10, <1>11 DEF ReadersAgree

\* What the frame f makes of the entry it is about.
NobodyWaits(s)  == ~ Pending(s) /\ CallStays(s)
IsHead(s, f)    == /\ f.type = "start" /\ call[s].at = "waiting"
                   /\ call'[s].at = IF f.body THEN "streaming" ELSE "started"
                   /\ call'[s].verdict = call[s].verdict /\ Seen(s)' = Seen(s)
IsChunk(s, f)   == /\ f.type = "data" /\ call[s].at = "streaming" /\ call'[s].at = "streaming"
                   /\ call'[s].verdict = call[s].verdict /\ Seen(s)' = Seen(s) + 1
IsLast(s, f)    == /\ f.type = "end" /\ Pending(s)
                   /\ call'[s].at = "over" /\ Seen(s)' = Seen(s)

\* The main process handles the frame at the head of the pipe.
LEMMA ResponseHandled ==
    ASSUME FlowInv, NEW f, Responds(f), Responded, UNCHANGED <<run, host, lastStream>>,
           \A t \in Streams : t # f.stream => CallStays(t) \/ CallGone(t),
           \/ NobodyWaits(f.stream) \/ IsHead(f.stream, f) \/ IsChunk(f.stream, f)
           \/ IsLast(f.stream, f) \/ CallGone(f.stream)
    PROVE  ResponsesInOrder' /\ ReadersAgree'
  <1> USE FlowFacts
  <1> PICK N \in Nat : N = Len(toMain)
    OBVIOUS
  <1> PICK s \in Streams : s = f.stream
    BY NextResponse
  <1>1. /\ N >= 1 /\ DOMAIN toMain = 1 .. N /\ DOMAIN toMain' = 1 .. N - 1 /\ f = toMain[1]
        /\ \A n \in 1 .. N - 1 : toMain'[n] = toMain[n + 1]
        /\ Len(toMain') = N - 1
    <2>1. toMain # <<>> /\ toMain \in Seq(Frames) /\ f = toMain[1]
      BY NextResponse, PipeFacts
    <2>2. QED
      BY <2>1, Handled DEF Responded
  <1>2. /\ \A n \in 1 .. N - 1 : n + 1 \in 1 .. N /\ n + 1 > 1
        /\ \A k \in 1 .. N : k # 1 => k - 1 \in 1 .. N - 1 /\ (k - 1) + 1 = k
        /\ \A k \in 1 .. N - 1, n \in 1 .. N - 1 : k < n => k + 1 < n + 1
        /\ \A k \in 1 .. N, n \in 1 .. N - 1 : k < n + 1 => k - 1 < n
        /\ \A k \in 1 .. N : k < N + 1 => k - 1 < (N - 1) + 1
    OBVIOUS
  <1>3. /\ 1 \in 1 .. N /\ SaidAt(1, s) /\ ReaderAgrees(s) /\ \A k \in 1 .. N : ~ (k < 1)
        /\ f.chunk \in Nat /\ Seen(s) \in Nat /\ run[s].sent \in Nat
    BY <1>1
  \* A chunk that is wanted is the next one.
  <1>4. ASSUME NEW n \in 1 .. N + 1, Pending(s), f.type = "data",
               \A m \in Seen(s) + 1 .. run[s].sent : OnItsWay(s, m, n)
        PROVE  f.chunk = Seen(s) + 1
    <2>1. f.chunk <= run[s].sent /\ f.chunk > Seen(s)
      BY <1>1, <1>3, <1>4 DEF SaidAt, ChunkAt
    <2>2. Seen(s) + 1 \in Seen(s) + 1 .. run[s].sent
      BY <1>3, <2>1
    <2>3. PICK k \in 1 .. N : toMain[k].stream = s /\ toMain[k].type = "data" /\ toMain[k].chunk = Seen(s) + 1
      BY <1>1, <1>4, <2>2 DEF OnItsWay
    <2>4. CASE k = 1
      BY <1>1, <2>3, <2>4
    <2>5. CASE k # 1
      <3>1. 1 < k
        BY <2>5
      <3>2. f.chunk < toMain[k].chunk
        BY <1>1, <1>3, <1>4, <2>3, <3>1 DEF SaidAt, ChunkAt
      <3>3. QED
        BY <1>3, <2>1, <2>3, <3>2
    <2>6. QED
      BY <2>4, <2>5
  \* What is still wanted is not the frame that goes.
  <1>5. ASSUME NEW t \in Streams, NEW n \in 1 .. N, Pending(t)', Pending(t),
               \A m \in Seen(t) + 1 .. run[t].sent : OnItsWay(t, m, n + 1)
        PROVE  \A m \in Seen(t)' + 1 .. run'[t].sent : OnItsWay(t, m, n)'
    <2> SUFFICES ASSUME NEW m \in Seen(t)' + 1 .. run'[t].sent PROVE OnItsWay(t, m, n)'
      OBVIOUS
    <2>1. run'[t].sent = run[t].sent /\ (Seen(t)' = Seen(t) \/ (t = s /\ IsChunk(s, f)))
      BY <1>5 DEF CallStays, CallGone, NobodyWaits, IsHead, IsChunk, IsLast, Pending
    <2>2. IsChunk(s, f) => Seen(s)' = Seen(s) + 1
      BY DEF IsChunk
    <2> PICK a \in Nat, b \in Nat : a = Seen(t) /\ b = run[t].sent
      OBVIOUS
    <2>3. Seen(t)' = a \/ Seen(t)' = a + 1
      BY <2>1, <2>2
    <2>4. m \in a + 1 .. b /\ (Seen(t)' = a + 1 => m # a + 1)
      BY <2>1, <2>3
    <2>5. PICK k \in 1 .. N : k < n + 1 /\ toMain[k].stream = t /\ toMain[k].type = "data" /\ toMain[k].chunk = m
      BY <1>1, <1>5, <2>4 DEF OnItsWay
    <2>6. k # 1
      <3> SUFFICES ASSUME k = 1 PROVE FALSE
        OBVIOUS
      <3>1. t = s /\ f.type = "data" /\ f.chunk = m
        BY <1>1, <2>5
      <3>2. IsChunk(s, f)
        BY <1>5, <3>1 DEF CallGone, NobodyWaits, IsHead, IsLast, Pending
      <3>3. n + 1 \in 1 .. N + 1
        OBVIOUS
      <3>4. f.chunk = a + 1
        BY <1>4, <1>5, <3>1, <3>3
      <3>5. Seen(t)' = a + 1
        BY <2>2, <3>1, <3>2
      <3>6. QED
        BY <2>4, <3>1, <3>4, <3>5
    <2>7. k - 1 \in 1 .. N - 1 /\ (k - 1) + 1 = k /\ k - 1 < n
      BY <2>5, <2>6
    <2>8. QED
      BY <1>1, <2>5, <2>7 DEF OnItsWay
  <1>6. ASSUME NEW n \in 1 .. N - 1, NEW t \in Streams, t = toMain[n + 1].stream PROVE SaidAt(n, t)'
    <2>1. SaidAt(n + 1, t) /\ toMain'[n] = toMain[n + 1] /\ n + 1 \in 1 .. N /\ 1 < n + 1 /\ run'[t] = run[t]
          /\ toMain[n + 1].chunk \in Nat
      BY <1>1, <1>2, <1>6
    <2>2. \A k \in 1 .. N - 1 : k < n => toMain'[k] = toMain[k + 1] /\ k + 1 \in 1 .. N /\ k + 1 < n + 1
      BY <1>1, <1>2
    <2>3. HeadAt(n + 1, t) => HeadAt(n, t)'
      <3> HAVE HeadAt(n + 1, t)
      <3>1. t # s
        BY <1>1, <1>3, <2>1 DEF HeadAt
      <3>2. call'[t].at \notin {"started", "streaming"}
        BY <3>1 DEF HeadAt, CallStays, CallGone
      <3>3. \A k \in 1 .. N - 1 : k < n => toMain[k + 1].stream # t
        BY <1>1, <2>2 DEF HeadAt
      <3>4. \A k \in 1 .. N - 1 : k < n => toMain'[k].stream # t
        BY <2>2, <3>3
      <3>5. toMain'[n].body = run'[t].body
        BY <2>1 DEF HeadAt
      <3>6. QED
        BY <1>1, <3>2, <3>4, <3>5 DEF HeadAt
    <2>4. ChunkAt(n + 1, t) /\ toMain[n + 1].type = "data" => ChunkAt(n, t)'
      <3> HAVE ChunkAt(n + 1, t) /\ toMain[n + 1].type = "data"
      <3>1. Pending(t)' => toMain[n + 1].chunk > Seen(t)'
        <4> HAVE Pending(t)'
        <4>1. CASE Pending(t) /\ Seen(t)' = Seen(t)
          BY <4>1 DEF ChunkAt
        <4>2. CASE t = s /\ IsChunk(s, f)
          <5>1. f.chunk < toMain[n + 1].chunk /\ Pending(s)
            BY <1>1, <1>3, <2>1, <4>2 DEF ChunkAt, IsChunk, Pending
          <5>2. f.chunk > Seen(s)
            BY <1>1, <1>3, <4>2, <5>1 DEF SaidAt, ChunkAt, IsChunk
          <5>3. Seen(s)' = Seen(s) + 1
            BY <4>2 DEF IsChunk
          <5>4. QED
            BY <1>3, <2>1, <4>2, <5>1, <5>2, <5>3
        <4>3. QED
          BY <4>1, <4>2 DEF CallStays, CallGone, NobodyWaits, IsHead, IsChunk, IsLast, Pending
      <3>2. \A k \in 1 .. N - 1 :
               k < n /\ toMain[k + 1].stream = t /\ toMain[k + 1].type = "data" => toMain[k + 1].chunk < toMain[n + 1].chunk
        BY <1>1, <2>2 DEF ChunkAt
      <3>3. \A k \in 1 .. N - 1 :
               k < n /\ toMain'[k].stream = t /\ toMain'[k].type = "data" => toMain'[k].chunk < toMain'[n].chunk
        BY <2>1, <2>2, <3>2
      <3>4. run'[t].body /\ toMain'[n].chunk <= run'[t].sent /\ (Pending(t)' => toMain'[n].chunk > Seen(t)')
        BY <2>1, <3>1 DEF ChunkAt
      <3>5. QED
        BY <1>1, <3>3, <3>4 DEF ChunkAt
    <2>5. LastAt(n + 1, t) => LastAt(n, t)'
      <3> HAVE LastAt(n + 1, t)
      <3>1. Pending(t)' => Pending(t)
        BY DEF CallStays, CallGone, NobodyWaits, IsHead, IsChunk, IsLast, Pending
      <3>2. n \in 1 .. N
        BY <2>1
      <3>3. Pending(t)' => \A m \in Seen(t)' + 1 .. run'[t].sent : OnItsWay(t, m, n)'
        BY <1>5, <3>1, <3>2 DEF LastAt
      <3>4. QED
        BY <2>1, <3>3 DEF LastAt
    <2>6. toMain[n + 1].type \in {"data", "end"} /\ call'[t].at = "waiting" =>
             \E k \in 1 .. N - 1 : k < n /\ toMain'[k].stream = t /\ toMain'[k].type = "start"
      <3> HAVE toMain[n + 1].type \in {"data", "end"} /\ call'[t].at = "waiting"
      <3>1. t # s /\ call[t].at = "waiting"
        BY DEF CallStays, CallGone, NobodyWaits, IsHead, IsChunk, IsLast, Pending
      <3>2. PICK k \in 1 .. N : k < n + 1 /\ toMain[k].stream = t /\ toMain[k].type = "start"
        BY <1>1, <2>1, <3>1 DEF SaidAt
      <3>3. k # 1
        BY <1>1, <3>1, <3>2
      <3>4. k - 1 \in 1 .. N - 1 /\ (k - 1) + 1 = k /\ k - 1 < n
        BY <1>2, <3>2, <3>3
      <3>5. toMain'[k - 1] = toMain[k]
        BY <1>1, <2>2, <3>4
      <3>6. toMain'[k - 1].stream = t /\ toMain'[k - 1].type = "start"
        BY <3>2, <3>5
      <3>7. QED
        BY <3>4, <3>6
    <2>7. QED
      BY <1>1, <1>6, <2>1, <2>3, <2>4, <2>5, <2>6 DEF SaidAt
  <1>7. ResponsesInOrder'
    <2>1. \A n \in 1 .. N - 1 : toMain'[n].stream = toMain[n + 1].stream /\ toMain[n + 1].stream \in Streams
      BY <1>1, <1>2
    <2>2. QED
      BY <1>1, <1>6, <2>1 DEF ResponsesInOrder
  <1>8. ASSUME NEW t \in Streams PROVE ReaderAgrees(t)'
    <2>1. ReaderAgrees(t) /\ run'[t] = run[t] /\ host' = host
      OBVIOUS
    <2>2. ASSUME t # s, Started(t) PROVE Started(t)'
      <3> PICK k \in 1 .. N : toMain[k].stream = t /\ toMain[k].type = "start"
        BY <1>1, <2>2 DEF Started
      <3>1. k # 1
        BY <1>1, <2>2
      <3>2. k - 1 \in 1 .. N - 1 /\ (k - 1) + 1 = k
        BY <1>2, <3>1
      <3>3. QED
        BY <1>1, <3>2 DEF Started
    <2>3. Pending(t)' /\ Pending(t) /\ host # "ended" =>
             \A m \in Seen(t)' + 1 .. run'[t].sent : OnItsWay(t, m, Len(toMain) + 1)'
      <3> HAVE Pending(t)' /\ Pending(t) /\ host # "ended"
      <3>1. \A m \in Seen(t) + 1 .. run[t].sent : OnItsWay(t, m, N + 1)
        BY <2>1 DEF ReaderAgrees
      <3>2. N \in 1 .. N
        BY <1>1
      <3>3. \A m \in Seen(t)' + 1 .. run'[t].sent : OnItsWay(t, m, N)'
        BY <1>5, <3>1, <3>2
      <3>4. \A m : OnItsWay(t, m, N)' => OnItsWay(t, m, Len(toMain) + 1)'
        BY <1>1 DEF OnItsWay
      <3>5. QED
        BY <3>3, <3>4
    <2>4. CASE CallGone(t)
      BY <2>4 DEF ReaderAgrees, CallGone, Pending
    <2>5. CASE t # s /\ CallStays(t)
      BY <2>1, <2>2, <2>3, <2>5 DEF ReaderAgrees, CallStays, Pending
    <2>6. CASE t = s /\ NobodyWaits(s)
      BY <2>1, <2>6 DEF ReaderAgrees, NobodyWaits, CallStays, Pending
    <2>7. CASE t = s /\ IsHead(s, f)
      <3>1. run[s].at \notin {"none", "handling"} /\ f.body = run[s].body
        BY <1>1, <1>3, <2>7 DEF SaidAt, HeadAt, IsHead
      <3>2. call[s].verdict # "whole" /\ Pending(s)
        BY <2>7 DEF IsHead, Pending
      <3>3. QED
        BY <2>1, <2>3, <2>7, <3>1, <3>2 DEF ReaderAgrees, IsHead, Pending
    <2>8. CASE t = s /\ IsChunk(s, f)
      <3>1. Pending(s) /\ call[s].verdict # "whole"
        BY <2>8 DEF IsChunk, Pending
      <3>2. f.chunk <= run[s].sent /\ f.chunk > Seen(s) /\ run[s].at \notin {"none", "handling"}
        BY <1>1, <1>3, <2>8, <3>1 DEF SaidAt, ChunkAt, IsChunk
      <3>3. Seen(s) + 1 <= run[s].sent
        BY <1>3, <3>2
      <3>4. QED
        BY <2>1, <2>3, <2>8, <3>1, <3>2, <3>3 DEF ReaderAgrees, IsChunk, Pending
    <2>9. CASE t = s /\ IsLast(s, f)
      <3>1. run[s].at \in {"ended", "over"} /\ \A m \in Seen(s) + 1 .. run[s].sent : OnItsWay(s, m, 1)
        BY <1>1, <1>3, <2>9 DEF SaidAt, LastAt, IsLast
      <3>2. Seen(s) <= run[s].sent
        BY <1>3, <2>9 DEF ReaderAgrees, IsLast
      <3>3. \A m : ~ OnItsWay(s, m, 1)
        BY <1>1, <1>3 DEF OnItsWay
      <3>4. ~ (Seen(s) + 1 <= run[s].sent)
        <4>1. Seen(s) + 1 \notin Seen(s) + 1 .. run[s].sent
          BY <3>1, <3>3
        <4>2. QED
          BY <1>3, <4>1
      <3>5. Seen(s) = run[s].sent
        BY <1>3, <3>2, <3>4
      <3>6. QED
        BY <2>1, <2>9, <3>1, <3>5 DEF ReaderAgrees, IsLast, Pending
    <2>10. QED
      BY <2>4, <2>5, <2>6, <2>7, <2>8, <2>9
  <1>9. QED
    BY <1>7, <1>8 DEF ReadersAgree

\* fail gives up every entry.
LEMMA FailFits ==
    ASSUME FlowInv, FailsAll
    PROVE  \A t \in Streams : CallStays(t) \/ (Pending(t) /\ CallGone(t))
  <1> TAKE t \in Streams
  <1>1. call'[t] = IF Pending(t) THEN Failed(call[t]) ELSE call[t]
    BY DEF FailsAll
  <1>2. QED
    BY <1>1, FlowFacts, EndsAreEnds DEF CallStays, CallGone, Seen

\* A cancellation gives up, or ends, the entry it is about.
LEMMA CancelFits ==
    ASSUME FlowInv, NEW s \in Streams, NEW c, Cancels(s, c)
    PROVE  call'[s] = c /\ \A t \in Streams : t # s => CallStays(t)
  <1>1. call' = [call EXCEPT ![s] = c]
    BY DEF Cancels
  <1>2. call'[s] = c /\ \A t \in Streams : t # s => call'[t] = call[t]
    BY <1>1, FlowFacts DEF TypeInv, TypeOK
  <1>3. QED
    BY <1>2 DEF CallStays, Seen

\* A step that leaves the runs alone.
LEMMA RunsStay ==
    ASSUME UNCHANGED run
    PROVE  \A t \in Streams : RunMoves(t)
  BY DEF RunMoves

\* A step that leaves the entries alone.
LEMMA CallsStay ==
    ASSUME UNCHANGED call
    PROVE  \A t \in Streams : CallStays(t)
  BY DEF CallStays, Seen

\* Callers and uploads are no news to the responses.
LEMMA CallersKeepFlow ==
    ASSUME FlowInv, NEW s \in Streams, Caller(s) \/ Pump(s)
    PROVE  ResponsesInOrder' /\ ReadersAgree'
  <1>a. UNCHANGED <<lastStream, run, host>>
    BY Apart
  <1>b. TypeInv /\ call \in [Streams -> Call] /\ call[s] \in Call /\ lastStream \in Nat
        /\ call[s].queue \in Nat /\ call[s].got \in Nat
    BY FlowFacts, EntryTypes DEF TypeInv, TypeOK
  <1>c. UNCHANGED toMain
    BY DEF Caller, Pump, Fetch, FetchAborted, Abort, CancelResponse, ReadBody, PumpData, PumpEnd,
           PumpEnded, PumpDropped, PumpFails
  <1>1. \A t \in Streams : CallStays(t) \/ CallGone(t) \/ CallBegins(t)
    <2>1. CASE Fetch(s)
      <3>1. call'[s].at = "waiting" /\ call'[s].verdict = call[s].verdict /\ Seen(s)' = Seen(s)
            /\ \A t \in Streams : t # s => call'[t] = call[t]
        BY <1>b, <2>1 DEF Fetch, Call, Seen
      <3>2. s = used + 1 /\ used \in Nat /\ lastStream <= used
        BY <1>b, <2>1, PipeFacts DEF Fetch, TypeInv, TypeOK
      <3>3. call[s].at = "new"
        BY <1>b, <3>2 DEF TypeInv, Begun
      <3>4. Seen(s) = 0 /\ call[s].verdict = "none"
        BY <3>3 DEF FlowInv, WireInv, LocalInv, CallersAgree, CallerAgrees
      <3>5. s > lastStream
        BY <1>b, <3>2
      <3>6. CallBegins(s)
        BY <3>1, <3>4, <3>5 DEF CallBegins
      <3>7. QED
        BY <3>1, <3>6 DEF CallStays, Seen
    <2>2. CASE FetchAborted(s)
      <3>1. call'[s].at = "unsent" /\ call'[s].verdict = "failed" /\ \A t \in Streams : t # s => call'[t] = call[t]
        BY <1>b, <2>2 DEF FetchAborted, Call
      <3>2. QED
        BY <3>1 DEF CallGone, CallStays, Seen
    <2>3. CASE Abort(s) \/ CancelResponse(s) \/ PumpFails(s)
      <3>1. Pending(s) /\ Cancels(s, Failed(call[s]))
        BY <2>3 DEF Abort, CancelResponse, PumpFails, Pending
      <3>2. call'[s] = Failed(call[s]) => CallGone(s)
        BY <1>b, EndsAreEnds DEF CallGone
      <3>3. QED
        BY <3>1, <3>2, CancelFits
    <2>4. CASE ReadBody(s)
      <3>1. /\ call'[s].at = call[s].at /\ call'[s].verdict = call[s].verdict
            /\ call'[s].queue = call[s].queue - 1 /\ call'[s].got = call[s].got + 1
            /\ \A t \in Streams : t # s => call'[t] = call[t]
        BY <1>b, <2>4 DEF ReadBody, Call
      <3>2. call'[s].queue + call'[s].got = call[s].queue + call[s].got
        BY <1>b, <3>1
      <3>3. QED
        BY <3>1, <3>2 DEF CallStays, Seen
    <2>5. CASE PumpData(s) \/ PumpEnd(s) \/ PumpEnded(s) \/ PumpDropped(s)
      <3>1. /\ call'[s].at = call[s].at /\ call'[s].verdict = call[s].verdict
            /\ call'[s].queue = call[s].queue /\ call'[s].got = call[s].got
            /\ \A t \in Streams : t # s => call'[t] = call[t]
        BY <1>b, <2>5 DEF PumpData, PumpEnd, PumpEnded, PumpDropped, Call
      <3>2. QED
        BY <3>1 DEF CallStays, Seen
    <2>6. QED
      BY <2>1, <2>2, <2>3, <2>4, <2>5 DEF Caller, Pump
  <1>2. lastStream' \in Nat /\ lastStream <= lastStream'
    BY <1>a, <1>b
  <1>3. QED
    BY <1>a, <1>c, <1>1, <1>2, RunsStay, QuietResponses

\* Every frame of a response is one of the cases above.
LEMMA ResponseKeepsFlow ==
    ASSUME FlowInv, Response
    PROVE  ResponsesInOrder' /\ ReadersAgree'
  <1> PICK f \in {toMain[n] : n \in DOMAIN toMain} :
          \/ ResponseForNobody(f) \/ ResponseStart(f) \/ ResponseData(f)
          \/ ResponseEnd(f) \/ ResponseError(f)
    BY DEF Response
  <1> DEFINE s == f.stream
  <1>1. Responds(f) /\ Responded
    BY NoResponseBreaks
    DEF ResponseForNobody, ResponseStart, ResponseData, ResponseEnd, ResponseError
  <1>2. UNCHANGED <<run, host, lastStream>>
    BY Apart
  <1>3. TypeInv /\ s \in Streams /\ call[s] \in Call /\ call \in [Streams -> Call]
        /\ call[s].queue \in Nat /\ call[s].got \in Nat /\ arrived \in Nat
    BY <1>1, FlowFacts, NextResponse, EntryTypes, PipeFacts DEF TypeInv, TypeOK
  <1> HIDE DEF s
  \* What fails everything does not handle the frame.
  <1>4. ASSUME MainBreaks PROVE ResponsesInOrder' /\ ReadersAgree'
    <2>1. broken' = broken
      BY <1>1 DEF Responded
    <2>2. \A t \in Streams : CallStays(t) \/ (Pending(t) /\ CallGone(t))
      BY <1>4, FailFits DEF MainBreaks
    <2>3. NobodyWaits(s) \/ CallGone(s) \/ (Pending(s) /\ CallStays(s))
      BY <1>3, <2>2 DEF NobodyWaits
    <2>4. ~ (Pending(s) /\ CallStays(s))
      <3>1. Pending(s) => call'[s] = Failed(call[s])
        BY <1>3, <1>4 DEF MainBreaks, FailsAll
      <3>2. QED
        BY <1>3, <3>1, EndsAreEnds DEF CallStays, Pending
    <2>5. QED
      BY <1>1, <1>2, <2>2, <2>3, <2>4, ResponseHandled DEF s
  <1>5. CASE ResponseForNobody(f)
    <2>1. ~ Pending(s)
      BY <1>5 DEF ResponseForNobody, s
    <2>2. CASE UNCHANGED call
      <3>1. NobodyWaits(s) /\ \A t \in Streams : CallStays(t)
        BY <1>3, <2>1, <2>2, CallsStay DEF NobodyWaits
      <3>2. QED
        BY <1>1, <1>2, <3>1, ResponseHandled DEF s
    <2>3. QED
      BY <1>4, <1>5, <2>2 DEF ResponseForNobody
  <1>6. CASE ResponseStart(f)
    <2>1. CASE call[s].at = "waiting" /\ f.type = "start"
      <3>1. call' = [call EXCEPT ![s].at = IF f.body THEN "streaming" ELSE "started"]
        BY <1>6, <2>1 DEF ResponseStart, s
      <3>2. IsHead(s, f) /\ \A t \in Streams : t # s => call'[t] = call[t]
        BY <1>3, <2>1, <3>1 DEF IsHead, Call, Seen
      <3>3. \A t \in Streams : t # s => CallStays(t)
        BY <3>2 DEF CallStays, Seen
      <3>4. QED
        BY <1>1, <1>2, <3>2, <3>3, ResponseHandled DEF s
    <2>2. QED
      BY <1>4, <1>6, <2>1 DEF ResponseStart, s
  <1>7. CASE ResponseData(f)
    <2>1. CASE call[s].at = "streaming" /\ f.type = "data"
      <3>1. \/ call' = [call EXCEPT ![s].got = @ + 1]
            \/ call' = [call EXCEPT ![s].queue = @ + 1]
        BY <1>7, <2>1 DEF ResponseData, s
      <3>2. /\ call'[s].at = "streaming" /\ call'[s].verdict = call[s].verdict
            /\ \/ call'[s].queue = call[s].queue /\ call'[s].got = call[s].got + 1
               \/ call'[s].queue = call[s].queue + 1 /\ call'[s].got = call[s].got
            /\ \A t \in Streams : t # s => call'[t] = call[t]
        BY <1>3, <2>1, <3>1 DEF Call
      <3>3. call'[s].queue + call'[s].got = call[s].queue + call[s].got + 1
        BY <1>3, <3>2
      <3>4. IsChunk(s, f) /\ \A t \in Streams : t # s => CallStays(t)
        BY <2>1, <3>2, <3>3 DEF IsChunk, CallStays, Seen
      <3>5. QED
        BY <1>1, <1>2, <3>4, ResponseHandled DEF s
    <2>2. QED
      BY <1>4, <1>7, <2>1 DEF ResponseData, s
  <1>8. CASE ResponseEnd(f)
    <2>1. Pending(s) /\ f.type = "end"
      BY <1>8 DEF ResponseEnd, s
    <2>2. call'[s] = Ended(call[s]) => IsLast(s, f)
      BY <1>3, <2>1, EndsAreEnds DEF IsLast, Seen
    <2>3. CASE Cancels(s, Ended(call[s]))
      BY <1>1, <1>2, <1>3, <2>1, <2>2, <2>3, CancelFits, ResponseHandled DEF s
    <2>4. CASE call' = [call EXCEPT ![s] = Ended(@)]
      <3>1. call'[s] = Ended(call[s]) /\ \A t \in Streams : t # s => call'[t] = call[t]
        BY <1>3, <2>4
      <3>2. \A t \in Streams : t # s => CallStays(t)
        BY <3>1 DEF CallStays, Seen
      <3>3. QED
        BY <1>1, <1>2, <2>2, <3>1, <3>2, ResponseHandled DEF s
    <2>5. QED
      BY <1>4, <1>8, <2>3, <2>4 DEF ResponseEnd, s
  <1>9. CASE ResponseError(f)
    <2>1. Pending(s) /\ Cancels(s, Failed(call[s]))
      BY <1>9 DEF ResponseError, s
    <2>2. call'[s] = Failed(call[s]) => CallGone(s)
      BY <1>3, EndsAreEnds DEF CallGone
    <2>3. QED
      BY <1>1, <1>2, <1>3, <2>1, <2>2, CancelFits, ResponseHandled DEF s
  <1>10. QED
    BY <1>5, <1>6, <1>7, <1>8, <1>9

\* What a run says is one of the cases above.
LEMMA RunsKeepFlow ==
    ASSUME FlowInv, NEW s \in Streams, Run(s)
    PROVE  ResponsesInOrder' /\ ReadersAgree'
  <1>1. UNCHANGED <<call, lastStream, host>> /\ host # "ended"
    BY DEF Run, RunAnswers, RunSends, RunEnds, RunThrows, RunOver, Runs, Says, taking, states, calls
  <1>2. run \in [Streams -> Flight] /\ run[s] \in Flight /\ lastStream \in Nat /\ run[s].sent \in Nat
    BY FlowFacts, EntryTypes DEF TypeInv, TypeOK
  <1>3. \A t \in Streams : t # s => run'[t] = run[t]
    BY <1>2 DEF Run, RunAnswers, RunSends, RunEnds, RunThrows, RunOver
  <1>4. ASSUME NEW b \in BOOLEAN, RunAnswers(s, b) PROVE ResponsesInOrder' /\ ReadersAgree'
    <2>1. StartOf(s, b) \in Frames /\ toMain' = Append(toMain, StartOf(s, b))
      BY <1>4, FramesAreFrames DEF RunAnswers, Says
    <2>2. Answers(s, StartOf(s, b)) /\ StartOf(s, b).stream = s
      BY <1>2, <1>4 DEF RunAnswers, Answers, StartOf, Flight
    <2>3. QED
      BY <1>1, <1>3, <2>1, <2>2, MoreResponses
  <1>5. CASE RunSends(s)
    <2> DEFINE f == DataOf(s, run[s].sent + 1)
    <2>1. f \in Frames /\ toMain' = Append(toMain, f)
      <3>1. run[s].sent + 1 \in Nat
        BY <1>2
      <3>2. QED
        BY <1>5, <3>1, FramesAreFrames DEF RunSends, Says
    <2>2. Sends(s, f) /\ f.stream = s
      BY <1>2, <1>5 DEF RunSends, Sends, DataOf, Flight
    <2> HIDE DEF f
    <2>3. QED
      BY <1>1, <1>3, <2>1, <2>2, MoreResponses
  <1>6. CASE RunEnds(s)
    <2>1. Frame(s, "end") \in Frames /\ toMain' = Append(toMain, Frame(s, "end"))
      BY <1>6, FramesAreFrames DEF RunEnds, Says, Types
    <2>2. Ends(s, Frame(s, "end")) /\ Frame(s, "end").stream = s
      BY <1>2, <1>6 DEF RunEnds, Ends, Frame, Flight
    <2>3. QED
      BY <1>1, <1>3, <2>1, <2>2, MoreResponses
  <1>7. CASE RunThrows(s)
    <2>1. Frame(s, "error") \in Frames /\ Frame(s, "error").stream = s
      BY FramesAreFrames DEF Types, Frame
    <2>2. Throws(s, Frame(s, "error"))
      BY <1>2, <1>7 DEF RunThrows, Throws, Frame, Flight
    <2>3. CASE toMain' = Append(toMain, Frame(s, "error"))
      BY <1>1, <1>3, <2>1, <2>2, <2>3, MoreResponses
    <2>4. CASE toMain' = toMain
      <3>1. \A t \in Streams : RunMoves(t)
        BY <1>3, <2>2 DEF RunMoves, Throws
      <3>2. lastStream' \in Nat /\ lastStream <= lastStream'
        BY <1>1, <1>2
      <3>3. QED
        BY <1>1, <2>4, <3>1, <3>2, CallsStay, QuietResponses
    <2>5. QED
      BY <1>7, <2>3, <2>4 DEF RunThrows
  <1>8. CASE RunOver(s)
    <2>1. RunMoves(s) /\ toMain' = toMain
      BY <1>2, <1>8 DEF RunOver, RunMoves, Flight
    <2>2. \A t \in Streams : RunMoves(t)
      BY <1>3, <2>1 DEF RunMoves
    <2>3. lastStream' \in Nat /\ lastStream <= lastStream'
      BY <1>1, <1>2
    <2>4. QED
      BY <1>1, <2>1, <2>2, <2>3, CallsStay, QuietResponses
  <1>9. QED
    BY <1>4, <1>5, <1>6, <1>7, <1>8 DEF Run

\* A frame of a request starts a run, or aborts one.
LEMMA RequestKeepsFlow ==
    ASSUME FlowInv, Request
    PROVE  ResponsesInOrder' /\ ReadersAgree'
  <1> PICK f \in {toHost[n] : n \in DOMAIN toHost} :
          \/ RequestStart(f) \/ RequestData(f) \/ RequestEnd(f)
          \/ RequestDiscarded(f) \/ RequestCancel(f)
    BY DEF Request
  <1>1. Requests(f)
    BY DEF RequestStart, RequestData, RequestEnd, RequestDiscarded, RequestCancel
  <1>2. TypeInv /\ f.stream \in Streams /\ f.stream \in Nat /\ lastStream \in Nat /\ run \in [Streams -> Flight]
    BY <1>1, FlowFacts, NextRequest DEF TypeInv, TypeOK
  <1>3. UNCHANGED <<call, toMain>>
    BY <1>1 DEF Requests, calls
  <1>4. host' # "ended" => host # "ended"
    <2>1. host = "up"
      BY <1>1, PipeFacts, FlowFacts DEF Requests, FlowInv, WireInv, LocalInv, RunsAgree
    <2>2. QED
      BY <2>1
  <1>5. CASE RequestStart(f) /\ f.stream > lastStream
    <2>1. lastStream' = f.stream /\ run' = [run EXCEPT ![f.stream].at = "handling"]
      BY <1>5 DEF RequestStart
    <2>2. run[f.stream].at = "none"
      BY <1>2, <1>5, FlowFacts
    <2>3. \A t \in Streams : RunMoves(t)
      BY <1>2, <2>1, <2>2 DEF RunMoves, Flight
    <2>4. lastStream' \in Nat /\ lastStream <= lastStream'
      BY <1>2, <1>5, <2>1
    <2>5. QED
      BY <1>3, <1>4, <2>3, <2>4, CallsStay, QuietResponses
  <1>6. CASE ~ (RequestStart(f) /\ f.stream > lastStream)
    <2>1. UNCHANGED <<run, lastStream>>
      BY <1>6 DEF RequestStart, RequestData, RequestEnd, RequestDiscarded, RequestCancel,
                  HostBreaks, HostStops, runs
    <2>2. lastStream' \in Nat /\ lastStream <= lastStream'
      BY <1>2, <2>1
    <2>3. QED
      BY <1>3, <1>4, <2>1, <2>2, RunsStay, CallsStay, QuietResponses
  <1>7. QED
    BY <1>5, <1>6

\* Taking frames and stopping move no response; a Host that dies leaves its first ones.
LEMMA OthersKeepFlow ==
    ASSUME FlowInv,
           \/ TakeResponses \/ Stop \/ HostLost
           \/ TakeRequests \/ HostStop \/ HostExits \/ HostDies \/ UNCHANGED vars
    PROVE  ResponsesInOrder' /\ ReadersAgree'
  <1>1. CASE HostDies
    BY <1>1, FewerResponses
  <1>2. CASE HostLost
    <2>1. UNCHANGED <<toMain, lastStream, run, host>> /\ FailsAll
      BY <1>2 DEF HostLost, taking, runs
    <2>2. lastStream' \in Nat /\ lastStream <= lastStream'
      BY <2>1, FlowFacts
    <2>3. QED
      BY <2>1, <2>2, FailFits, RunsStay, QuietResponses
  <1>3. CASE \/ TakeResponses \/ Stop \/ TakeRequests \/ HostStop \/ HostExits \/ UNCHANGED vars
    <2>1. UNCHANGED <<call, toMain, lastStream, run>> /\ (host' # "ended" => host # "ended")
      BY <1>3 DEF TakeResponses, Stop, TakeRequests, HostStop, HostStops, HostExits, vars, calls, taking,
                  runs, states
    <2>2. lastStream' \in Nat /\ lastStream <= lastStream'
      BY <2>1, FlowFacts
    <2>3. QED
      BY <2>1, <2>2, RunsStay, CallsStay, QuietResponses
  <1>4. QED
    BY <1>1, <1>2, <1>3

\* Nothing was said yet.
LEMMA FlowInit == Init => FlowInv
  <1> SUFFICES ASSUME Init PROVE ResponsesInOrder /\ ReadersAgree
    BY WireInit DEF FlowInv
  <1>1. DOMAIN toMain = {}
    BY EmptySeq DEF Init
  <1>2. \A s \in Streams : /\ call[s].at = "new" /\ call[s].verdict = "none" /\ run[s].at = "none"
    BY DEF Init
  <1>3. QED
    BY <1>1, <1>2 DEF ResponsesInOrder, ReadersAgree, ReaderAgrees, Pending

\* Every step keeps the responses in order.
LEMMA FlowStep == FlowInv /\ [Next]_vars => FlowInv'
  <1> SUFFICES ASSUME FlowInv, [Next]_vars PROVE FlowInv'
    OBVIOUS
  <1>1. WireInv'
    BY WireStep DEF FlowInv
  <1>2. ResponsesInOrder' /\ ReadersAgree'
    BY CallersKeepFlow, ResponseKeepsFlow, RunsKeepFlow, RequestKeepsFlow, OthersKeepFlow DEF Next
  <1>3. QED
    BY <1>1, <1>2 DEF FlowInv

\* A reader who saw a response end has every chunk the handler sent: neither the death
\* of the Host, nor a stop, nor a body that throws is taken for the end of a body.
THEOREM EndsAreWhole == Spec => []WholeOrFailed
  <1>1. FlowInv => WholeOrFailed
    BY DEF FlowInv, ReadersAgree, ReaderAgrees, WholeOrFailed, Seen
  <1>2. QED
    BY <1>1, FlowInit, FlowStep, PTL DEF Spec

\* No cancellation, early answer, abandoned upload or late frame reaches the other end as
\* a breach of protocol, by which one request would fail all of them.
THEOREM NoneIsFatal == Spec => []NoRaceIsFatal
  <1>1. Init => NoRaceIsFatal
    BY DEF Init, NoRaceIsFatal
  <1>2. FlowInv /\ NoRaceIsFatal /\ [Next]_vars => NoRaceIsFatal'
    <2> SUFFICES ASSUME FlowInv, broken = {}, [Next]_vars PROVE broken' = {}
      BY DEF NoRaceIsFatal
    <2>1. CASE Response
      BY <2>1, NoResponseBreaks DEF Responded
    <2>2. CASE Request
      BY <2>2, NoRequestBreaks DEF Requested, FlowInv
    <2>3. CASE \E s \in Streams : Caller(s) \/ Pump(s) \/ Run(s)
      BY <2>3 DEF Caller, Pump, Run, Fetch, FetchAborted, Abort, CancelResponse, ReadBody, PumpData, PumpEnd,
                  PumpEnded, PumpDropped, PumpFails, RunAnswers, RunSends, RunEnds, RunThrows, RunOver, Says, states
    <2>4. CASE \/ TakeResponses \/ Stop \/ HostLost
               \/ TakeRequests \/ HostStop \/ HostExits \/ HostDies \/ UNCHANGED vars
      BY <2>4 DEF TakeResponses, Stop, HostLost, TakeRequests, HostStop, HostExits, HostDies, vars, states
    <2>5. QED
      BY <2>1, <2>2, <2>3, <2>4 DEF Next
  <1>3. QED
    BY <1>1, <1>2, FlowInit, FlowStep, PTL DEF Spec

-----------------------------------------------------------------------------
(* Each request is an exchange.                                              *)

\* A response without a body says nothing after its head, and only such a one is
\* told as no more than its head.
HeadIsBare(s) ==
    /\ ~ run[s].body => run[s].sent = 0
    /\ call[s].verdict = "head" => ~ run[s].body /\ run[s].at \notin {"none", "handling"}

\* The flow of the responses, with it.
BareInv == FlowInv /\ \A s \in Streams : HeadIsBare(s)

\* What a step may do to an entry, seen by its reader.
HearsOn(s)  == call'[s].verdict = "none" /\ Seen(s)' = Seen(s) + 1 /\ Pending(s)'
ToldWhole(s) == call'[s].verdict = "whole" /\ Seen(s)' = Seen(s)
ToldHead(s) == call'[s].verdict = "head" /\ Seen(s)' = Seen(s) /\ call[s].at = "started"
ToldLoss(s) == call'[s].verdict = "failed" /\ Seen(s)' <= Seen(s)
ReaderStays(s) == call'[s].verdict = call[s].verdict /\ Seen(s)' = Seen(s)
ReaderTurns(s) ==
    /\ call[s].verdict = "none"
    /\ HearsOn(s) \/ ToldWhole(s) \/ ToldHead(s) \/ ToldLoss(s)
ReaderMoves(s) == ReaderStays(s) \/ ReaderTurns(s)

\* What a step may do to a run.
SaysHead(s)  == run[s].at = "handling" /\ run'[s].at = "sending" /\ run'[s].sent = run[s].sent
SaysChunk(s) == /\ run[s].at = "sending" /\ run[s].body /\ run'[s].at = "sending"
                /\ run'[s].body = run[s].body /\ run'[s].sent = run[s].sent + 1
SaysEnd(s)   == /\ run[s].at = "sending" /\ run'[s].at = "ended"
                /\ run'[s].body = run[s].body /\ run'[s].sent = run[s].sent
HandlerMoves(s) == RunMoves(s) \/ SaysHead(s) \/ SaysChunk(s) \/ SaysEnd(s)

\* What of the inductive invariant the exchange uses.
LEMMA ExchangeFacts ==
    ASSUME BareInv, NEW s \in Streams
    PROVE  /\ FlowInv /\ TypeInv /\ HeadIsBare(s) /\ ReaderAgrees(s)
           /\ call[s] \in Call /\ run[s] \in Flight
           /\ call[s].queue \in Nat /\ call[s].got \in Nat /\ run[s].sent \in Nat
           /\ Seen(s) \in Nat /\ Seen(s) = call[s].queue + call[s].got
           /\ (call[s].at \in {"unsent", "over"} <=> call[s].verdict # "none")
           /\ (Pending(s) => call[s].verdict = "none" /\ Seen(s) <= run[s].sent)
           /\ run[s].at \in {"none", "handling"} => run[s].sent = 0
  BY FlowFacts, EntryTypes DEF BareInv, Seen, Pending, ReaderAgrees

\* To be given up is to be told of a loss, unless nothing but a head was to come.
LEMMA GivenUpTurns ==
    ASSUME BareInv, NEW s \in Streams, Pending(s), call'[s] = Failed(call[s])
    PROVE  ReaderTurns(s)
  <1>1. /\ call'[s].queue = 0 /\ call'[s].got = call[s].got
        /\ call'[s].verdict = IF call[s].at = "started" THEN "head" ELSE "failed"
    BY ExchangeFacts DEF Failed, Call
  <1>2. Seen(s)' = call[s].got
    BY <1>1, ExchangeFacts DEF Seen
  <1>3. call[s].at = "started" => call[s].queue = 0
    BY ExchangeFacts DEF HeadIsBare, ReaderAgrees, Seen
  <1>4. QED
    BY <1>1, <1>2, <1>3, ExchangeFacts DEF ReaderTurns, ToldHead, ToldLoss

\* fail turns every entry that waits.
LEMMA FailTurns ==
    ASSUME BareInv, FailsAll
    PROVE  \A t \in Streams : ReaderMoves(t)
  <1> TAKE t \in Streams
  <1>1. call'[t] = IF Pending(t) THEN Failed(call[t]) ELSE call[t]
    BY DEF FailsAll
  <1>2. QED
    BY <1>1, GivenUpTurns DEF ReaderMoves, ReaderStays, Seen

\* A cancellation turns the entry it is about.
LEMMA CancelTurns ==
    ASSUME BareInv, NEW s \in Streams, NEW c, Cancels(s, c),
           call'[s] = c => ReaderMoves(s)
    PROVE  \A t \in Streams : ReaderMoves(t)
  <1>1. call' = [call EXCEPT ![s] = c] /\ call \in [Streams -> Call]
    BY ExchangeFacts DEF Cancels, TypeInv, TypeOK
  <1>2. call'[s] = c /\ \A t \in Streams : t # s => call'[t] = call[t]
    BY <1>1
  <1>3. QED
    BY <1>2 DEF ReaderMoves, ReaderStays, Seen

\* A step that leaves the entries alone.
LEMMA ReadersStay ==
    ASSUME UNCHANGED call
    PROVE  \A t \in Streams : ReaderMoves(t)
  BY DEF ReaderMoves, ReaderStays, Seen

\* What the caller and the upload of one request do to the entries.
LEMMA CallersTurn ==
    ASSUME BareInv, NEW s \in Streams, Caller(s) \/ Pump(s)
    PROVE  \A t \in Streams : ReaderMoves(t)
  <1>a. TypeInv /\ call \in [Streams -> Call] /\ call[s] \in Call
        /\ call[s].queue \in Nat /\ call[s].got \in Nat
    BY ExchangeFacts DEF TypeInv, TypeOK
  <1>1. CASE FetchAborted(s)
    <2>1. /\ call'[s].verdict = "failed" /\ call'[s].queue = call[s].queue /\ call'[s].got = call[s].got
          /\ \A t \in Streams : t # s => call'[t] = call[t]
      BY <1>a, <1>1 DEF FetchAborted, Call
    <2>2. call[s].at = "new" /\ call[s].verdict = "none"
      <3>1. s = used + 1 /\ used \in Nat
        BY <1>a, <1>1 DEF FetchAborted, TypeInv, TypeOK
      <3>2. call[s].at = "new"
        BY <1>a, <3>1 DEF TypeInv, Begun
      <3>3. QED
        BY <3>2, ExchangeFacts
    <2>3. Seen(s)' = Seen(s) /\ Seen(s) <= Seen(s)
      BY <1>a, <2>1 DEF Seen
    <2>4. ReaderTurns(s)
      BY <2>1, <2>2, <2>3 DEF ReaderTurns, ToldLoss
    <2>5. QED
      BY <2>1, <2>4 DEF ReaderMoves, ReaderStays, Seen
  <1>2. CASE Abort(s) \/ CancelResponse(s) \/ PumpFails(s)
    <2>1. Pending(s) /\ Cancels(s, Failed(call[s]))
      BY <1>2 DEF Abort, CancelResponse, PumpFails, Pending
    <2>2. QED
      BY <2>1, GivenUpTurns, CancelTurns DEF ReaderMoves
  <1>3. CASE ReadBody(s)
    <2>1. /\ call'[s].verdict = call[s].verdict
          /\ call'[s].queue = call[s].queue - 1 /\ call'[s].got = call[s].got + 1
          /\ \A t \in Streams : t # s => call'[t] = call[t]
      BY <1>a, <1>3 DEF ReadBody, Call
    <2>2. call'[s].queue + call'[s].got = call[s].queue + call[s].got
      BY <1>a, <2>1
    <2>3. QED
      BY <2>1, <2>2 DEF ReaderMoves, ReaderStays, Seen
  <1>4. CASE Fetch(s) \/ PumpData(s) \/ PumpEnd(s) \/ PumpEnded(s) \/ PumpDropped(s)
    <2>1. /\ call'[s].verdict = call[s].verdict
          /\ call'[s].queue = call[s].queue /\ call'[s].got = call[s].got
          /\ \A t \in Streams : t # s => call'[t] = call[t]
      BY <1>a, <1>4 DEF Fetch, PumpData, PumpEnd, PumpEnded, PumpDropped, Call
    <2>2. QED
      BY <2>1 DEF ReaderMoves, ReaderStays, Seen
  <1>5. QED
    BY <1>1, <1>2, <1>3, <1>4 DEF Caller, Pump

\* What a frame of a response does to them.
LEMMA ResponseTurns ==
    ASSUME BareInv, Response
    PROVE  \A t \in Streams : ReaderMoves(t)
  <1> PICK f \in {toMain[n] : n \in DOMAIN toMain} :
          \/ ResponseForNobody(f) \/ ResponseStart(f) \/ ResponseData(f)
          \/ ResponseEnd(f) \/ ResponseError(f)
    BY DEF Response
  <1> DEFINE s == f.stream
  <1>0. FlowInv
    BY DEF BareInv
  <1>1. Responds(f)
    BY DEF ResponseForNobody, ResponseStart, ResponseData, ResponseEnd, ResponseError
  <1>2. s \in Streams
    BY <1>0, <1>1, NextResponse, FlowFacts
  <1>3. TypeInv /\ call \in [Streams -> Call] /\ call[s] \in Call
        /\ call[s].queue \in Nat /\ call[s].got \in Nat
    BY <1>2, ExchangeFacts DEF TypeInv, TypeOK
  <1> HIDE DEF s
  <1>4. MainBreaks => \A t \in Streams : ReaderMoves(t)
    BY FailTurns DEF MainBreaks
  <1>5. CASE ResponseForNobody(f)
    BY <1>4, <1>5, ReadersStay DEF ResponseForNobody
  <1>6. CASE ResponseStart(f) /\ call[s].at = "waiting"
    <2>1. call' = [call EXCEPT ![s].at = IF f.body THEN "streaming" ELSE "started"]
      BY <1>6 DEF ResponseStart, s
    <2>2. /\ call'[s].verdict = call[s].verdict
          /\ call'[s].queue = call[s].queue /\ call'[s].got = call[s].got
          /\ \A t \in Streams : t # s => call'[t] = call[t]
      BY <1>2, <1>3, <2>1 DEF Call
    <2>3. QED
      BY <2>2 DEF ReaderMoves, ReaderStays, Seen
  <1>7. CASE ResponseData(f) /\ call[s].at = "streaming"
    <2>1. \/ call' = [call EXCEPT ![s].got = @ + 1]
          \/ call' = [call EXCEPT ![s].queue = @ + 1]
      BY <1>7 DEF ResponseData, s
    <2>2. /\ call'[s].at = "streaming" /\ call'[s].verdict = call[s].verdict
          /\ \/ call'[s].queue = call[s].queue /\ call'[s].got = call[s].got + 1
             \/ call'[s].queue = call[s].queue + 1 /\ call'[s].got = call[s].got
          /\ \A t \in Streams : t # s => call'[t] = call[t]
      BY <1>2, <1>3, <1>7, <2>1 DEF Call
    <2>3. call'[s].queue + call'[s].got = call[s].queue + call[s].got + 1
      BY <1>3, <2>2
    <2>4. call[s].verdict = "none"
      BY <1>2, <1>7, ExchangeFacts DEF Pending
    <2>5. HearsOn(s)
      BY <2>2, <2>3, <2>4 DEF HearsOn, Seen, Pending
    <2>6. QED
      BY <2>2, <2>4, <2>5 DEF ReaderMoves, ReaderTurns, ReaderStays, Seen
  <1>8. CASE ResponseEnd(f)
    <2>1. Pending(s)
      BY <1>8 DEF ResponseEnd, s
    <2>2. call'[s] = Ended(call[s]) => ReaderMoves(s)
      BY <1>2, <1>3, <2>1, EndsAreEnds, ExchangeFacts DEF ReaderMoves, ReaderTurns, ToldWhole, Seen
    <2>3. CASE Cancels(s, Ended(call[s]))
      BY <1>2, <2>1, <2>2, <2>3, CancelTurns
    <2>4. CASE call' = [call EXCEPT ![s] = Ended(@)]
      <3>1. call'[s] = Ended(call[s]) /\ \A t \in Streams : t # s => call'[t] = call[t]
        BY <1>2, <1>3, <2>4
      <3>2. QED
        BY <2>2, <3>1 DEF ReaderMoves, ReaderStays, Seen
    <2>5. QED
      BY <1>4, <1>8, <2>3, <2>4 DEF ResponseEnd, s
  <1>9. CASE ResponseError(f)
    <2>1. Pending(s) /\ Cancels(s, Failed(call[s]))
      BY <1>9 DEF ResponseError, s
    <2>2. QED
      BY <1>2, <2>1, GivenUpTurns, CancelTurns DEF ReaderMoves
  <1>10. QED
    BY <1>4, <1>5, <1>6, <1>7, <1>8, <1>9 DEF ResponseStart, ResponseData, s

\* What the run of one request does to the runs.
LEMMA RunsMove ==
    ASSUME BareInv, NEW s \in Streams, Run(s)
    PROVE  UNCHANGED call /\ \A t \in Streams : HandlerMoves(t)
  <1>1. UNCHANGED call
    BY Apart
  <1>2. run \in [Streams -> Flight] /\ run[s] \in Flight
    BY ExchangeFacts DEF TypeInv, TypeOK
  <1>3. \A t \in Streams : t # s => run'[t] = run[t]
    BY <1>2 DEF Run, RunAnswers, RunSends, RunEnds, RunThrows, RunOver
  <1>4. ASSUME NEW b, RunAnswers(s, b) PROVE SaysHead(s)
    BY <1>2, <1>4 DEF RunAnswers, SaysHead, Flight
  <1>5. RunSends(s) => SaysChunk(s)
    <2>1. RunSends(s) => /\ run[s].at = "sending" /\ run[s].body
                         /\ run' = [run EXCEPT ![s].sent = @ + 1]
      BY DEF RunSends
    <2>2. QED
      BY <1>2, <2>1 DEF SaysChunk, Flight
  <1>6. RunEnds(s) => SaysEnd(s)
    BY <1>2 DEF RunEnds, SaysEnd, Flight
  <1>7. RunThrows(s) \/ RunOver(s) => RunMoves(s)
    BY <1>2 DEF RunThrows, RunOver, RunMoves, Flight
  <1>8. HandlerMoves(s)
    BY <1>4, <1>5, <1>6, <1>7 DEF Run, HandlerMoves
  <1>9. QED
    BY <1>1, <1>3, <1>8 DEF HandlerMoves, RunMoves

\* A frame of a request only begins a run.
LEMMA RequestMoves ==
    ASSUME BareInv, Request
    PROVE  UNCHANGED call /\ \A t \in Streams : HandlerMoves(t)
  <1> PICK f \in {toHost[n] : n \in DOMAIN toHost} :
          \/ RequestStart(f) \/ RequestData(f) \/ RequestEnd(f)
          \/ RequestDiscarded(f) \/ RequestCancel(f)
    BY DEF Request
  <1>1. UNCHANGED call
    BY Apart
  <1>2. FlowInv /\ Requests(f)
    BY DEF BareInv, RequestStart, RequestData, RequestEnd, RequestDiscarded, RequestCancel
  <1>3. TypeInv /\ f.stream \in Streams /\ run \in [Streams -> Flight]
    BY <1>2, FlowFacts, NextRequest DEF TypeInv, TypeOK
  <1>4. CASE RequestStart(f) /\ f.stream > lastStream
    <2>1. run' = [run EXCEPT ![f.stream].at = "handling"] /\ run[f.stream].at = "none"
      BY <1>2, <1>3, <1>4, FlowFacts DEF RequestStart
    <2>2. \A t \in Streams : RunMoves(t)
      BY <1>3, <2>1 DEF RunMoves, Flight
    <2>3. QED
      BY <1>1, <2>2 DEF HandlerMoves
  <1>5. CASE ~ (RequestStart(f) /\ f.stream > lastStream)
    <2>1. UNCHANGED run
      BY <1>5 DEF RequestStart, RequestData, RequestEnd, RequestDiscarded, RequestCancel,
                  HostBreaks, HostStops, runs
    <2>2. QED
      BY <1>1, <2>1, RunsStay DEF HandlerMoves
  <1>6. QED
    BY <1>4, <1>5

\* A step moves entries, or runs, and never both.
LEMMA OneEndMoves ==
    ASSUME BareInv, [Next]_vars
    PROVE  \/ UNCHANGED run /\ \A t \in Streams : ReaderMoves(t)
           \/ UNCHANGED call /\ \A t \in Streams : HandlerMoves(t)
  <1>1. CASE \E s \in Streams : Caller(s) \/ Pump(s)
    BY <1>1, CallersTurn, Apart
  <1>2. CASE Response
    BY <1>2, ResponseTurns, Apart
  <1>3. CASE \E s \in Streams : Run(s)
    BY <1>3, RunsMove
  <1>4. CASE Request
    BY <1>4, RequestMoves
  <1>5. CASE HostLost
    BY <1>5, FailTurns DEF HostLost, runs
  <1>6. CASE \/ TakeResponses \/ Stop \/ TakeRequests \/ HostStop \/ HostExits \/ HostDies \/ UNCHANGED vars
    <2>1. UNCHANGED <<call, run>>
      BY <1>6 DEF TakeResponses, Stop, TakeRequests, HostStop, HostStops, HostExits, HostDies,
                  vars, calls, runs
    <2>2. QED
      BY <2>1, ReadersStay
  <1>7. QED
    BY <1>1, <1>2, <1>3, <1>4, <1>5, <1>6 DEF Next

\* No other step says anything after a bare head.
LEMMA BareStep == BareInv /\ [Next]_vars => BareInv'
  <1> SUFFICES ASSUME BareInv, [Next]_vars, NEW s \in Streams PROVE HeadIsBare(s)'
    BY FlowStep DEF BareInv
  <1>1. CASE UNCHANGED run /\ ReaderMoves(s)
    <2>1. HeadIsBare(s) /\ ReaderAgrees(s) /\ (call[s].at = "started" => Pending(s))
      BY ExchangeFacts DEF Pending
    <2>2. QED
      BY <1>1, <2>1 DEF HeadIsBare, ReaderAgrees, ReaderMoves, ReaderStays, ReaderTurns, HearsOn,
                        ToldWhole, ToldHead, ToldLoss
  <1>2. CASE UNCHANGED call /\ HandlerMoves(s)
    <2>1. HeadIsBare(s) /\ (run[s].at \in {"none", "handling"} => run[s].sent = 0)
      BY ExchangeFacts
    <2>2. QED
      BY <1>2, <2>1 DEF HeadIsBare, HandlerMoves, RunMoves, SaysHead, SaysChunk, SaysEnd
  <1>3. QED
    BY <1>1, <1>2, OneEndMoves

LEMMA BareInit == Init => BareInv
  <1>1. Init => \A s \in Streams : HeadIsBare(s)
    BY DEF Init, HeadIsBare
  <1>2. QED
    BY <1>1, FlowInit DEF BareInv

\* What the exchange has of the handler.
Handler(s) == IF run[s].at \in {"ended", "over"} THEN "ended" ELSE "speaks"

\* What the reader is told is as the abstract exchange allows.
LEMMA ReaderMovesExchange ==
    ASSUME BareInv, BareInv', NEW s \in Streams, UNCHANGED run, ReaderMoves(s)
    PROVE  exchanges'[s] = exchanges[s] \/ X!Moves(exchanges[s], exchanges'[s])
  <1> DEFINE x == exchanges[s]
             y == exchanges'[s]
  <1>1. /\ x = [handler |-> Handler(s), said |-> run[s].sent, heard |-> Seen(s), verdict |-> call[s].verdict]
        /\ y = [handler |-> Handler(s), said |-> run[s].sent, heard |-> Seen(s)', verdict |-> call'[s].verdict]
    BY DEF exchanges, Seen, Handler
  <1>2. CASE ReaderStays(s)
    BY <1>1, <1>2 DEF ReaderStays
  <1>3. CASE call[s].verdict = "none" /\ HearsOn(s)
    <2>1. Seen(s)' <= run'[s].sent
      <3>1. Pending(s)' /\ ReaderAgrees(s)'
        BY <1>3 DEF HearsOn, BareInv, FlowInv, ReadersAgree
      <3>2. QED
        BY <3>1 DEF ReaderAgrees
    <2>2. Seen(s) < run[s].sent
      BY <1>3, <2>1, ExchangeFacts DEF HearsOn
    <2>3. y = [x EXCEPT !.heard = @ + 1] /\ x.verdict = "none" /\ x.heard < x.said
      BY <1>1, <1>3, <2>2 DEF HearsOn
    <2>4. QED
      BY <2>3 DEF X!Moves, X!Hears
  <1>4. CASE call[s].verdict = "none" /\ ToldWhole(s)
    <2>1. run'[s].at \in {"ended", "over"} /\ Seen(s)' = run'[s].sent
      <3>1. call'[s].verdict = "whole" /\ ReaderAgrees(s)'
        BY <1>4 DEF ToldWhole, BareInv, FlowInv, ReadersAgree
      <3>2. QED
        BY <3>1 DEF ReaderAgrees
    <2>2. y = [x EXCEPT !.verdict = "whole"] /\ x.verdict = "none" /\ x.handler = "ended" /\ x.heard = x.said
      BY <1>1, <1>4, <2>1 DEF ToldWhole, Handler
    <2>3. QED
      BY <2>2 DEF X!Moves, X!Whole
  <1>5. CASE call[s].verdict = "none" /\ ToldHead(s)
    <2>1. run[s].sent = 0
      BY <1>5, ExchangeFacts DEF ToldHead, ReaderAgrees, HeadIsBare
    <2>2. y = [x EXCEPT !.verdict = "head"] /\ x.verdict = "none" /\ x.said = 0
      BY <1>1, <1>5, <2>1 DEF ToldHead
    <2>3. QED
      BY <2>2 DEF X!Moves, X!Bare
  <1>6. CASE call[s].verdict = "none" /\ ToldLoss(s)
    <2>1. x.verdict = "none" /\ y.verdict = "failed" /\ y.heard <= x.heard /\ y.said = x.said /\ y.handler = x.handler
      BY <1>1, <1>6 DEF ToldLoss
    <2>2. QED
      BY <2>1 DEF X!Moves, X!Breaks
  <1>7. QED
    BY <1>2, <1>3, <1>4, <1>5, <1>6 DEF ReaderMoves, ReaderTurns

\* So is what the handler says.
LEMMA HandlerMovesExchange ==
    ASSUME BareInv, NEW s \in Streams, UNCHANGED call, HandlerMoves(s)
    PROVE  exchanges'[s] = exchanges[s] \/ X!Moves(exchanges[s], exchanges'[s])
  <1> DEFINE x == exchanges[s]
             y == exchanges'[s]
  <1>1. /\ x = [handler |-> Handler(s), said |-> run[s].sent, heard |-> Seen(s), verdict |-> call[s].verdict]
        /\ y = [handler |-> Handler(s)', said |-> run'[s].sent, heard |-> Seen(s), verdict |-> call[s].verdict]
    BY DEF exchanges, Seen, Handler
  <1>2. CASE SaysChunk(s)
    <2>1. call[s].verdict # "head"
      BY <1>2, ExchangeFacts DEF SaysChunk, HeadIsBare
    <2>2. y = [x EXCEPT !.said = @ + 1] /\ x.handler = "speaks" /\ x.verdict # "head"
      BY <1>1, <1>2, <2>1 DEF SaysChunk, Handler
    <2>3. QED
      BY <2>2 DEF X!Moves, X!Says
  <1>3. CASE ~ SaysChunk(s)
    <2>1. run'[s].sent = run[s].sent /\ (run[s].at \in {"ended", "over"} => run'[s].at \in {"ended", "over"})
      BY <1>3 DEF HandlerMoves, RunMoves, SaysHead, SaysEnd
    <2>2. y = x \/ (y = [x EXCEPT !.handler = "ended"] /\ x.handler = "speaks")
      BY <1>1, <2>1 DEF Handler
    <2>3. QED
      BY <2>2 DEF X!Moves, X!Ends
  <1>4. QED
    BY <1>2, <1>3

\* The two pipes, with all that may overtake, pause or break on them, keep what is
\* promised of each request alone.
THEOREM RequestsAreExchanges == Spec => ImplementsExchange
  <1>1. Init => X!Init
    <2> SUFFICES ASSUME Init, NEW s \in Streams PROVE exchanges[s] = X!Fresh
      BY DEF X!Init, exchanges
    <2>1. /\ run[s].at = "none" /\ run[s].sent = 0
          /\ call[s].queue = 0 /\ call[s].got = 0 /\ call[s].verdict = "none"
      BY DEF Init
    <2>2. QED
      BY <2>1 DEF exchanges, X!Fresh
  <1>2. BareInv /\ BareInv' /\ [Next]_vars => [X!Next]_exchanges
    <2> SUFFICES ASSUME BareInv, BareInv', [Next]_vars PROVE X!Next
      OBVIOUS
    <2>1. DOMAIN exchanges = Streams /\ DOMAIN exchanges' = Streams
      BY DEF exchanges
    <2>2. \A s \in Streams : exchanges'[s] = exchanges[s] \/ X!Moves(exchanges[s], exchanges'[s])
      BY OneEndMoves, ReaderMovesExchange, HandlerMovesExchange
    <2>3. QED
      BY <2>1, <2>2 DEF X!Next
  <1>3. QED
    BY <1>1, <1>2, BareInit, BareStep, PTL DEF Spec, ImplementsExchange, X!Spec
=============================================================================
