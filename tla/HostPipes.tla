------------------------------ MODULE HostPipes ------------------------------
(***************************************************************************)
(* Requests of the window carried to the Host over two pipes.  Many streams  *)
(* share a pipe, each with a body of its own and a reader who takes his time. *)
(* Either end may give up on a stream while frames about it are under way,    *)
(* and either end pauses a whole pipe for one slow reader.                    *)
(*                                                                            *)
(* Frames are handled in the order written; several that arrive together are  *)
(* handled in one loop that nothing of that process interrupts.  Who writes a *)
(* frame awaits that the pipe takes it; what is written behind waits in a      *)
(* tail.  Of a chunk of a body only its number is kept.                       *)
(***************************************************************************)
EXTENDS Naturals, Sequences, FiniteSets

CONSTANTS
    MaxStreams,    \* bound: requests in a behaviour
    MaxSent,       \* bound: those of them that are sent
    MaxChunks,     \* bound: chunks of a body, either way
    PipeSize,      \* frames a pipe takes before its writer has to wait
    Uploads,       \* the requests that carry a body
    Troubled,      \* bound: the requests that somebody gives up
    Ending         \* bound: the application is stopped, or the Host dies, only while the
                   \* last request is one of these

ASSUME BoundsAreNat == {MaxStreams, MaxSent, MaxChunks} \subseteq Nat /\ PipeSize \in Nat \ {0}

Streams == 1 .. MaxStreams

VARIABLES
    \* the main process
    main,              \* "active"; "stopping" or, with an unfinished write, "hung"
                       \* once stop is called; "failing" when a write is refused then,
                       \* "lost" after fail
    used,              \* stream ids given out
    call,              \* stream -> its entry in pending, its reader and its verdict
    pump,              \* stream -> where the upload of its body stands
    blockedResponses, responsePaused,
    arrived,           \* how many frames of toMain are the chunk at hand
    toHost,            \* request frames written and not handled
    \* the Host
    host,              \* "up"; "stopping", or "fatal" having said so; "ended"
    lastStream,
    bodies, discarded, \* requestBodies, discardedRequestBodies
    blockedRequests, requestPaused,
    aborted,           \* streams whose controller was aborted
    run,               \* stream -> where controller.fetch stands
    received,          \* how many frames of toHost are the chunk at hand
    toMain,            \* response frames written and not handled
    broken,            \* ends that met a frame they take for a breach of protocol
    late               \* history: after the stop a chunk came that was not taken at once

calls    == <<used, call, pump>>
blocking == <<blockedResponses, responsePaused>>
taking   == <<lastStream, bodies, discarded, blockedRequests, requestPaused>>
runs     == <<aborted, run>>
states   == <<main, host, broken, late>>
vars     == <<calls, blocking, arrived, toHost, taking, received, runs, toMain, states>>

Frame(s, type) == [stream |-> s, type |-> type, body |-> FALSE, chunk |-> 0]
StartOf(s, b)  == [stream |-> s, type |-> "start", body |-> b, chunk |-> 0]
DataOf(s, n)   == [stream |-> s, type |-> "data", body |-> FALSE, chunk |-> n]

\* Whoever wrote a frame of s, a cancellation apart, need not wait any more.
Written(pipe, hand, s) ==
    \A n \in DOMAIN pipe :
        n > PipeSize + hand /\ pipe[n].stream = s => pipe[n].type = "cancel"
Drained(pipe, hand) == Len(pipe) <= PipeSize + hand
Taken(pipe, hand) == IF Drained(pipe, hand) THEN pipe ELSE SubSeq(pipe, 1, PipeSize + hand)

-----------------------------------------------------------------------------
(* The main process: entries of pending.                                     *)

Pending(s) == call[s].at \in {"waiting", "started", "streaming"}

\* A response that is given up is closed, not failed.
Failed_Bug(c) == [c EXCEPT !.at = "over", !.upload = FALSE,
                          !.verdict = IF c.at = "waiting" THEN "failed" ELSE "whole"]

\* A request that is given up: its caller sees a rejection before the response,
\* an error of the body after it; a response without a body is all there.
Failed(c) == [c EXCEPT !.at = "over", !.upload = FALSE, !.queue = 0,
                       !.verdict = IF c.at = "started" THEN "head" ELSE "failed"]
Ended(c)  == [c EXCEPT !.at = "over", !.upload = FALSE, !.verdict = "whole"]

\* What was blocked is forgotten, and the pipe not resumed.
Unblocks_Bug(s) == blockedResponses' = blockedResponses \ {s} /\ UNCHANGED responsePaused

Unblocks(s) ==
    /\ blockedResponses' = blockedResponses \ {s}
    /\ responsePaused' = (responsePaused /\ blockedResponses' # {})

\* fail: every request ends, the pipe flows, nothing is begun any more.
FailsAll ==
    /\ call' = [s \in Streams |-> IF Pending(s) THEN Failed(call[s]) ELSE call[s]]
    /\ blockedResponses' = {} /\ responsePaused' = FALSE
    /\ main' = "lost"

\* A request ends and the Host is told to drop it.  Once stop has destroyed the
\* pipe the frame is refused, and what catches that fails the others in a step of
\* its own; behind a write that the pipe had not taken it waits for ever.
Cancels(s, ended) ==
    /\ call' = [call EXCEPT ![s] = ended]
    /\ Unblocks(s)
    /\ toHost' = IF main = "active" THEN Append(toHost, Frame(s, "cancel")) ELSE toHost
    /\ main' = IF main = "stopping" THEN "failing" ELSE main

Idle == arrived = 0

Sent == {s \in Streams : call[s].at \notin {"new", "unsent"}}

Init ==
    /\ main = "active" /\ used = 0
    /\ call = [s \in Streams |->
                 [at |-> "new", upload |-> FALSE, queue |-> 0, got |-> 0, verdict |-> "none"]]
    /\ pump = [s \in Streams |-> [at |-> "done", sent |-> 0]]
    /\ blockedResponses = {} /\ responsePaused = FALSE
    /\ arrived = 0 /\ toHost = <<>>
    /\ host = "up" /\ lastStream = 0
    /\ bodies = {} /\ discarded = {}
    /\ blockedRequests = {} /\ requestPaused = FALSE
    /\ aborted = {}
    /\ run = [s \in Streams |-> [at |-> "none", body |-> FALSE, sent |-> 0]]
    /\ received = 0 /\ toMain = <<>>
    /\ broken = {} /\ late = FALSE

\* The id is not advanced.
Fetch_Bug(s) ==
    /\ Idle /\ main = "active" /\ s = used + 1 /\ Cardinality(Sent) < MaxSent
    /\ call' = [call EXCEPT ![s].at = "waiting", ![s].upload = s \in Uploads]
    /\ pump' = [pump EXCEPT ![s].at = IF s \in Uploads THEN "pumping" ELSE "done"]
    /\ toHost' = Append(toHost, StartOf(s, s \in Uploads))
    /\ UNCHANGED <<used, blocking, arrived, taking, received, runs, toMain, states>>

Fetch(s) ==
    /\ Idle /\ main = "active" /\ s = used + 1 /\ Cardinality(Sent) < MaxSent
    /\ used' = s
    /\ call' = [call EXCEPT ![s].at = "waiting", ![s].upload = s \in Uploads]
    /\ pump' = [pump EXCEPT ![s].at = IF s \in Uploads THEN "pumping" ELSE "done"]
    /\ toHost' = Append(toHost, StartOf(s, s \in Uploads))
    /\ UNCHANGED <<blocking, arrived, taking, received, runs, toMain, states>>

\* The signal was aborted before: a stream id is used and nothing is sent.
FetchAborted(s) ==
    /\ s \in Troubled /\ Idle /\ main = "active" /\ s = used + 1
    /\ used' = s
    /\ call' = [call EXCEPT ![s].at = "unsent", ![s].verdict = "failed"]
    /\ UNCHANGED <<pump, blocking, arrived, toHost, taking, received, runs, toMain, states>>

-----------------------------------------------------------------------------
(* The main process: uploads, readers, callers.                              *)

Writes(s) == Idle /\ Written(toHost, received, s)

\* The next chunk of the body is sent, if anybody still waits for the response.
PumpData(s) ==
    /\ Writes(s) /\ main = "active" /\ Pending(s)
    /\ pump[s].at = "pumping" /\ pump[s].sent < MaxChunks
    /\ pump' = [pump EXCEPT ![s].sent = @ + 1]
    /\ toHost' = Append(toHost, DataOf(s, pump[s].sent + 1))
    /\ UNCHANGED <<used, call, blocking, arrived, taking, received, runs, toMain, states>>

PumpEnd(s) ==
    /\ Writes(s) /\ main = "active" /\ Pending(s)
    /\ pump[s].at = "pumping"
    /\ pump' = [pump EXCEPT ![s].at = "ending"]
    /\ toHost' = Append(toHost, Frame(s, "end"))
    /\ UNCHANGED <<used, call, blocking, arrived, taking, received, runs, toMain, states>>

PumpEnded(s) ==
    /\ Writes(s) /\ main # "hung" /\ pump[s].at = "ending"
    /\ pump' = [pump EXCEPT ![s].at = "done"]
    /\ call' = [call EXCEPT ![s].upload = FALSE]
    /\ UNCHANGED <<used, blocking, arrived, toHost, taking, received, runs, toMain, states>>

\* Nobody waits any more: the source was cancelled, and reads as ended.
PumpDropped(s) ==
    /\ Writes(s) /\ ~ Pending(s) /\ pump[s].at = "pumping"
    /\ pump' = [pump EXCEPT ![s].at = "done"]
    /\ UNCHANGED <<used, call, blocking, arrived, toHost, taking, received, runs, toMain, states>>

\* The source of the body fails, or stop has destroyed the pipe it is written to.
PumpFails(s) ==
    /\ Writes(s) /\ Pending(s) /\ pump[s].at = "pumping"
    /\ main \in {"stopping", "failing"} \cup IF s \in Troubled THEN {"active"} ELSE {}
    /\ pump' = [pump EXCEPT ![s].at = "done"]
    /\ Cancels(s, Failed(call[s]))
    /\ UNCHANGED <<used, arrived, taking, received, runs, toMain, host, broken, late>>

Abort(s) ==
    /\ s \in Troubled /\ Idle /\ Pending(s)
    /\ Cancels(s, Failed(call[s]))
    /\ UNCHANGED <<used, pump, arrived, taking, received, runs, toMain, host, broken, late>>

\* The reader of a response cancels its body.
CancelResponse(s) ==
    /\ s \in Troubled /\ Idle /\ call[s].at = "streaming"
    /\ Cancels(s, Failed(call[s]))
    /\ UNCHANGED <<used, pump, arrived, taking, received, runs, toMain, host, broken, late>>

\* The reader takes a chunk; pull is called when that empties the queue.
ReadBody(s) ==
    /\ Idle /\ call[s].queue > 0
    /\ call' = [call EXCEPT ![s].queue = @ - 1, ![s].got = @ + 1]
    /\ IF call[s].queue = 1 /\ Pending(s) THEN Unblocks(s) ELSE UNCHANGED blocking
    /\ UNCHANGED <<used, pump, arrived, toHost, taking, received, runs, toMain, states>>

-----------------------------------------------------------------------------
(* The main process: response frames.                                        *)

TakeResponses ==
    /\ Idle /\ ~ responsePaused
    /\ \E k \in 1 .. PipeSize : k <= Len(toMain) /\ arrived' = k
    /\ UNCHANGED <<calls, blocking, toHost, taking, received, runs, toMain, states>>

\* The next frame of the chunk; f is what it says.
Responds(f) ==
    /\ arrived > 0 /\ f = Head(toMain)
    /\ UNCHANGED <<used, pump, taking, received, runs, host>>
Responded ==
    /\ arrived' = arrived - 1 /\ toMain' = Tail(toMain)
    /\ UNCHANGED broken

\* A frame that must not come: fail, and the Host gets a SIGTERM.  The rest of
\* the chunk is not handled.
MainBreaks ==
    /\ broken' = broken \cup {"main"}
    /\ FailsAll
    /\ arrived' = 0 /\ toMain' = SubSeq(toMain, arrived + 1, Len(toMain))
    /\ UNCHANGED <<toHost, late>>

ResponseForNobody(f) ==
    /\ Responds(f) /\ ~ Pending(f.stream)
    /\ IF f.stream <= used
       THEN Responded /\ UNCHANGED <<call, blocking, toHost, main, late>>
       ELSE MainBreaks

ResponseStart(f) ==
    /\ Responds(f) /\ f.type = "start" /\ Pending(f.stream)
    /\ IF call[f.stream].at = "waiting"
       THEN /\ call' = [call EXCEPT ![f.stream].at = IF f.body THEN "streaming" ELSE "started"]
            /\ Responded /\ UNCHANGED <<blocking, toHost, main, late>>
       ELSE MainBreaks

\* A chunk goes to a reader who waits, or is queued and then stops the pipe.
ResponseData(f) ==
    /\ Responds(f) /\ f.type = "data" /\ Pending(f.stream)
    /\ IF call[f.stream].at = "streaming"
       THEN /\ \/ /\ call[f.stream].queue = 0
                  /\ call' = [call EXCEPT ![f.stream].got = @ + 1]
                  /\ UNCHANGED <<blocking, late>>
               \/ /\ call' = [call EXCEPT ![f.stream].queue = @ + 1]
                  /\ blockedResponses' = blockedResponses \cup {f.stream}
                  /\ responsePaused' = TRUE
                  /\ late' = (late \/ main # "active")
            /\ Responded /\ UNCHANGED <<toHost, main>>
       ELSE MainBreaks

\* The response is whole.  An upload still open is of no use any more.
ResponseEnd(f) ==
    /\ Responds(f) /\ f.type = "end" /\ Pending(f.stream)
    /\ IF call[f.stream].at = "waiting" THEN MainBreaks
       ELSE /\ Responded /\ UNCHANGED late
            /\ IF call[f.stream].upload
               THEN Cancels(f.stream, Ended(call[f.stream]))
               ELSE /\ call' = [call EXCEPT ![f.stream] = Ended(@)]
                    /\ Unblocks(f.stream)
                    /\ UNCHANGED <<toHost, main>>

ResponseError(f) ==
    /\ Responds(f) /\ f.type = "error" /\ Pending(f.stream)
    /\ Responded /\ UNCHANGED late
    /\ Cancels(f.stream, Failed(call[f.stream]))

-----------------------------------------------------------------------------
(* The end of it, seen from the main process.                                *)

\* The response pipe is left as it is.
Stop_Bug ==
    /\ used \in Ending /\ Idle /\ main = "active"
    /\ main' = IF Drained(toHost, received) THEN "stopping" ELSE "hung"
    /\ toHost' = Taken(toHost, received)
    /\ UNCHANGED <<calls, blocking, arrived, taking, received, runs, toMain, host, broken, late>>

\* stop: what the pipe took is delivered, the rest is not, and the response pipe
\* flows whatever its readers do, until the next chunk that is not taken.
Stop ==
    /\ used \in Ending /\ Idle /\ main = "active"
    /\ main' = IF Drained(toHost, received) THEN "stopping" ELSE "hung"
    /\ toHost' = Taken(toHost, received)
    /\ blockedResponses' = {} /\ responsePaused' = FALSE
    /\ UNCHANGED <<calls, arrived, taking, received, runs, toMain, host, broken, late>>

\* A cancellation was refused, or the Host says that it failed, or is gone: its
\* pipe ended, it exited.
HostLost ==
    /\ Idle /\ main # "lost"
    /\ main = "failing" \/ host \in {"fatal", "ended"}
    /\ FailsAll
    /\ UNCHANGED <<used, pump, arrived, toHost, taking, received, runs, toMain, host, broken,
                   late>>

-----------------------------------------------------------------------------
(* The Host: request frames.                                                 *)

Free == received = 0

\* The pipe is not resumed.
ResumesRequests_Bug(blocked) == blockedRequests' = blocked /\ UNCHANGED requestPaused

ResumesRequests(blocked) ==
    /\ blockedRequests' = blocked
    /\ requestPaused' = (requestPaused /\ blocked # {})

\* stop of the Host: what it holds of bodies is dropped and every run aborted.
HostStops ==
    /\ bodies' = {} /\ discarded' = {} /\ blockedRequests' = {}
    /\ received' = 0
    /\ aborted' = {s \in Streams : run[s].at \notin {"none", "over"}}
    /\ UNCHANGED <<lastStream, requestPaused, run>>

\* It is asked to, gets the signal, or comes first to the end of the pipe, which
\* is a failure that it reports.
HostStop ==
    /\ Free /\ host = "up" /\ main # "active"
    /\ HostStops
    /\ \/ host' = "stopping"
       \/ toHost = <<>> /\ ~ requestPaused /\ host' = "fatal"
    /\ UNCHANGED <<calls, blocking, arrived, toHost, toMain, main, broken, late>>

TakeRequests ==
    /\ Free /\ host = "up" /\ ~ requestPaused
    /\ \E k \in 1 .. PipeSize : k <= Len(toHost) /\ received' = k
    /\ UNCHANGED <<calls, blocking, arrived, toHost, taking, runs, toMain, states>>

Requests(f) ==
    /\ received > 0 /\ f = Head(toHost)
    /\ UNCHANGED <<calls, blocking, arrived, toMain, main, late>>
Requested ==
    /\ received' = received - 1 /\ toHost' = Tail(toHost)
    /\ UNCHANGED <<host, broken>>

\* A frame that must not come: failTransport, which reports it and ends the Host.
HostBreaks ==
    /\ broken' = broken \cup {"host"} /\ host' = "fatal"
    /\ toHost' = SubSeq(toHost, received + 1, Len(toHost))
    /\ HostStops

RequestStart(f) ==
    /\ Requests(f) /\ f.type = "start"
    /\ IF f.stream > lastStream
       THEN /\ lastStream' = f.stream
            /\ bodies' = IF f.body THEN bodies \cup {f.stream} ELSE bodies
            /\ run' = [run EXCEPT ![f.stream].at = "handling"]
            /\ Requested /\ UNCHANGED <<discarded, blockedRequests, requestPaused, aborted>>
       ELSE HostBreaks

\* No handler reads the body of a request: its first chunk stops the pipe until
\* the stream ends.
RequestData(f) ==
    /\ Requests(f) /\ f.type = "data" /\ f.stream \notin discarded \ bodies
    /\ IF f.stream \in bodies
       THEN /\ blockedRequests' = blockedRequests \cup {f.stream} /\ requestPaused' = TRUE
            /\ Requested /\ UNCHANGED <<lastStream, bodies, discarded, runs>>
       ELSE HostBreaks

RequestEnd(f) ==
    /\ Requests(f) /\ f.type = "end" /\ f.stream \notin discarded \ bodies
    /\ IF f.stream \in bodies
       THEN /\ bodies' = bodies \ {f.stream}
            /\ ResumesRequests(blockedRequests \ {f.stream})
            /\ Requested /\ UNCHANGED <<lastStream, discarded, runs>>
       ELSE HostBreaks

\* What is left of the body of a request that was answered.
RequestDiscarded(f) ==
    /\ Requests(f) /\ f.type \in {"data", "end"} /\ f.stream \in discarded \ bodies
    /\ discarded' = IF f.type = "end" THEN discarded \ {f.stream} ELSE discarded
    /\ Requested /\ UNCHANGED <<lastStream, bodies, blockedRequests, requestPaused, runs>>

RequestCancel(f) ==
    /\ Requests(f) /\ f.type = "cancel"
    /\ IF f.stream <= lastStream
       THEN /\ bodies' = bodies \ {f.stream} /\ discarded' = discarded \ {f.stream}
            /\ ResumesRequests(blockedRequests \ {f.stream})
            /\ aborted' = IF run[f.stream].at \in {"none", "over"} THEN aborted
                          ELSE aborted \cup {f.stream}
            /\ Requested /\ UNCHANGED <<lastStream, run>>
       ELSE HostBreaks

-----------------------------------------------------------------------------
(* The Host: runs.  What a run writes, it awaits.                            *)

Runs(s) == Free /\ host # "ended" /\ Written(toMain, arrived, s)

Says(frame) ==
    /\ toMain' = Append(toMain, frame)
    /\ UNCHANGED <<calls, blocking, arrived, toHost, taking, received, aborted, states>>

RunAnswers(s, hasBody) ==
    /\ Runs(s) /\ run[s].at = "handling"
    /\ run' = [run EXCEPT ![s].at = "sending", ![s].body = hasBody]
    /\ Says(StartOf(s, hasBody))

RunSends(s) ==
    /\ Runs(s) /\ run[s].at = "sending" /\ run[s].body /\ run[s].sent < MaxChunks
    /\ run' = [run EXCEPT ![s].sent = @ + 1]
    /\ Says(DataOf(s, run[s].sent + 1))

RunEnds(s) ==
    /\ Runs(s) /\ run[s].at = "sending"
    /\ run' = [run EXCEPT ![s].at = "ended"]
    /\ Says(Frame(s, "end"))

\* The handler, or the body it gave, throws: told unless nobody listens.
RunThrows(s) ==
    /\ s \in Troubled
    /\ Runs(s) /\ run[s].at \in {"handling", "sending"}
    /\ run' = [run EXCEPT ![s].at = "thrown"]
    /\ toMain' = IF s \in aborted THEN toMain ELSE Append(toMain, Frame(s, "error"))
    /\ UNCHANGED <<calls, blocking, arrived, toHost, taking, received, aborted, states>>

\* The rest of a body is not remembered as discarded.
RunOver_Bug(s) ==
    /\ Runs(s) /\ run[s].at \in {"ended", "thrown"}
    /\ run' = [run EXCEPT ![s].at = "over"]
    /\ aborted' = aborted \ {s}
    /\ IF s \in bodies
       THEN /\ bodies' = bodies \ {s} /\ UNCHANGED discarded
            /\ ResumesRequests(blockedRequests \ {s})
       ELSE UNCHANGED <<bodies, discarded, blockedRequests, requestPaused>>
    /\ UNCHANGED <<calls, blocking, arrived, toHost, lastStream, received, toMain, states>>

\* A body whose end has not come is given up; frames of it may still come.
RunOver(s) ==
    /\ Runs(s) /\ run[s].at \in {"ended", "thrown"}
    /\ run' = [run EXCEPT ![s].at = "over"]
    /\ aborted' = aborted \ {s}
    /\ IF s \in bodies
       THEN /\ bodies' = bodies \ {s} /\ discarded' = discarded \cup {s}
            /\ ResumesRequests(blockedRequests \ {s})
       ELSE UNCHANGED <<bodies, discarded, blockedRequests, requestPaused>>
    /\ UNCHANGED <<calls, blocking, arrived, toHost, lastStream, received, toMain, states>>

\* A Host that stops exits when its runs are over and the pipe has taken all.
HostExits ==
    /\ host \in {"stopping", "fatal"} /\ Drained(toMain, arrived)
    /\ \A s \in Streams : run[s].at \in {"none", "over"}
    /\ host' = "ended"
    /\ UNCHANGED <<calls, blocking, arrived, toHost, taking, received, runs, toMain, main, broken,
                   late>>

\* It dies: what its pipe has taken is delivered.
HostDies ==
    /\ used \in Ending
    /\ host # "ended" /\ host' = "ended"
    /\ received' = 0
    /\ toMain' = Taken(toMain, arrived)
    /\ UNCHANGED <<calls, blocking, arrived, toHost, taking, runs, main, broken, late>>

-----------------------------------------------------------------------------

Caller(s) == Fetch(s) \/ FetchAborted(s) \/ Abort(s) \/ CancelResponse(s) \/ ReadBody(s)
Pump(s)   == PumpData(s) \/ PumpEnd(s) \/ PumpEnded(s) \/ PumpDropped(s) \/ PumpFails(s)
Response  == \E f \in {toMain[n] : n \in DOMAIN toMain} :
                \/ ResponseForNobody(f) \/ ResponseStart(f) \/ ResponseData(f)
                \/ ResponseEnd(f) \/ ResponseError(f)
Request   == \E f \in {toHost[n] : n \in DOMAIN toHost} :
                \/ RequestStart(f) \/ RequestData(f) \/ RequestEnd(f)
                \/ RequestDiscarded(f) \/ RequestCancel(f)
Run(s)    == \/ RunAnswers(s, TRUE) \/ RunAnswers(s, FALSE) \/ RunSends(s)
             \/ RunEnds(s) \/ RunThrows(s) \/ RunOver(s)

Next == \/ \E s \in Streams : Caller(s) \/ Pump(s) \/ Run(s)
        \/ TakeResponses \/ Response \/ Stop \/ HostLost
        \/ TakeRequests \/ Request \/ HostStop \/ HostExits \/ HostDies

Spec == Init /\ [][Next]_vars

\* Both event loops go on and handlers end; readers read on while the application
\* runs.  Nothing is assumed of uploads, which may stall.  What runs and readers do
\* comes to an end, so that to be fair to all together is to be fair to each.
Reads(s) == main = "active" /\ ReadBody(s)
Fairness ==
    /\ WF_vars(TakeResponses \/ Response) /\ WF_vars(TakeRequests \/ Request)
    /\ WF_vars(HostLost) /\ WF_vars(HostStop) /\ WF_vars(HostExits)
    /\ WF_vars(\E s \in Streams : Run(s)) /\ WF_vars(\E s \in Streams : Reads(s))

FairSpec == Spec /\ Fairness

-----------------------------------------------------------------------------
(* Properties.                                                               *)

Types  == {"start", "data", "end", "cancel", "error"}
Frames == [stream : Streams, type : Types, body : BOOLEAN, chunk : Nat]
Call   == [at : {"new", "unsent", "waiting", "started", "streaming", "over"}, upload : BOOLEAN,
           queue : Nat, got : Nat, verdict : {"none", "failed", "head", "whole"}]
Upload == [at : {"pumping", "ending", "done"}, sent : Nat]
Flight == [at : {"none", "handling", "sending", "ended", "thrown", "over"},
           body : BOOLEAN, sent : Nat]

TypeOK ==
    /\ main \in {"active", "stopping", "hung", "failing", "lost"}
    /\ host \in {"up", "stopping", "fatal", "ended"}
    /\ used \in 0 .. MaxStreams /\ lastStream \in 0 .. used
    /\ call \in [Streams -> Call] /\ pump \in [Streams -> Upload]
    /\ run \in [Streams -> Flight]
    /\ toHost \in Seq(Frames) /\ received \in 0 .. Len(toHost)
    /\ toMain \in Seq(Frames) /\ arrived \in 0 .. Len(toMain)
    /\ blockedResponses \subseteq Streams /\ responsePaused \in BOOLEAN
    /\ blockedRequests \subseteq Streams /\ requestPaused \in BOOLEAN
    /\ bodies \subseteq Streams /\ discarded \subseteq Streams /\ aborted \subseteq Streams
    /\ broken \subseteq {"main", "host"} /\ late \in BOOLEAN

\* Whatever each end gives up, and however late the other learns of it, no frame
\* comes that an end takes for a breach of protocol, which would end the Host and
\* with it every request, call and conversation.
NoRaceIsFatal == broken = {}

\* A response that its reader saw end is all that the handler said; one that
\* broke off on either side is never taken for a short one.
WholeOrFailed ==
    \A s \in Streams : call[s].verdict = "whole" =>
        /\ run[s].at \in {"ended", "over"}
        /\ call[s].queue + call[s].got = run[s].sent

\* What handler and reader have of each exchange; queued is as good as heard.
exchanges ==
    [s \in Streams |->
        [handler |-> IF run[s].at \in {"ended", "over"} THEN "ended" ELSE "speaks",
         said |-> run[s].sent, heard |-> call[s].queue + call[s].got,
         verdict |-> call[s].verdict]]

X == INSTANCE Exchange WITH exchange <- exchanges

\* However frames, cancellations and failures overtake each other, each request is
\* an exchange: parts are heard in turn and never before they are said, the verdict
\* is given once, and "whole" only of a response that had ended and was all heard.
ImplementsExchange == X!Spec

\* A pipe stands still only for a reader who has a chunk to take, or, on the way
\* to the Host, for a run that is not over: for somebody who lets it go on.
PausedForAReason ==
    /\ responsePaused => \E s \in Streams : Pending(s) /\ call[s].queue > 0
    /\ requestPaused /\ host = "up" =>
          \E s \in Streams : run[s].at \in {"handling", "sending", "ended", "thrown"}

\* Every request ends, though one slow reader stops the pipe for all; after the stop,
\* when nobody need read any more, unless a chunk came that was not taken.
EveryFetchEnds == \A s \in Streams : Pending(s) ~> ~ Pending(s) \/ late

\* A Host that is asked to stop ends by itself, before it is killed, whatever the main
\* process had paused its pipe for: only a chunk that comes after the stop and is not
\* taken can keep it.
StopEnds == main \in {"stopping", "hung", "failing"} ~> host = "ended" \/ late
=============================================================================
