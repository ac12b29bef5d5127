-------------------------------- MODULE Chat --------------------------------
(***************************************************************************)
(* One POST /chat: three goroutines in a row.  The gateway's goroutine     *)
(* sends the deltas of the reply into a channel, forwardFrames turns them  *)
(* into frames on a second, buffered channel, and the handler's pumpFrames *)
(* writes the frames to the client as server-sent events.  The request's   *)
(* context is cancelled when the client goes away or the handler returns.  *)
(***************************************************************************)
EXTENDS Naturals, Sequences

CONSTANTS
    Tokens,         \* the deltas of the whole reply
    FrameBuffer,    \* frameBufferSize, 8 in the code
    Recorded,       \* the response writer is wrapped in a statusRecorder
    DeltaErr, Done, Error

ASSUME ChatAssumption ==
    /\ Tokens \in Seq(STRING)
    /\ FrameBuffer \in Nat \ {0}
    /\ Recorded \in BOOLEAN
    /\ Done # Error
    /\ {Done, Error, DeltaErr} \cap STRING = {}

VARIABLES
    gateway,    \* the one that is wired, "memory" or "openai"
    hd,         \* the handler: idle, decode, pump or how it has returned
    gw, gwItem, \* the gateway's goroutine and the delta it is about to send
    sent,       \* tokens taken from the source so far
    broke,      \* the source has failed in mid-stream
    deltas,     \* in the gateway's channel; closed when gw is
    fw, fwItem, \* forwardFrames and the frame it is about to emit
    frames,     \* in the facade's channel; closed when fw is
    cancelled,  \* the request's context is done
    gone,       \* the client has hung up
    client      \* the events written to the client

gwVars == <<gw, gwItem, sent, broke>>
fwVars == <<fw, fwItem>>
vars == <<gateway, hd, gwVars, deltas, fwVars, frames, cancelled, gone, client>>

\* Capacity of the gateway's channel.
GatewayBuffer == IF gateway = "memory" THEN Len(Tokens) + 1 ELSE 0

Init ==
    /\ gateway \in {"memory", "openai"}
    /\ hd = "idle"
    /\ gw = "off" /\ gwItem = <<>> /\ sent = 0 /\ broke = FALSE /\ deltas = <<>>
    /\ fw = "off" /\ fwItem = <<>> /\ frames = <<>>
    /\ cancelled = FALSE /\ gone = FALSE
    /\ client = <<>>
----------------------------------------------------------------------------
(***************************************************************************)
(* The handler.                                                            *)
(***************************************************************************)
\* net/http cancels the context once the handler has returned.
Return(how) == hd' = how /\ cancelled' = TRUE

\* statusRecorder embeds the ResponseWriter interface, which has no Flush.
IsFlusher == ~Recorded

CheckFlusher ==
    /\ hd = "idle"
    /\ IF IsFlusher THEN hd' = "decode" /\ UNCHANGED cancelled
                    ELSE Return("unsupported")
    /\ UNCHANGED <<gateway, gwVars, deltas, fwVars, frames, gone, client>>

\* The body does not decode, the request is invalid, or the gateway fails to
\* open a stream: the error goes back as JSON and no goroutine starts.
Refuse ==
    /\ hd = "decode"
    /\ Return("refused")
    /\ UNCHANGED <<gateway, gwVars, deltas, fwVars, frames, gone, client>>

OpenStream ==
    /\ hd = "decode"
    /\ hd' = "pump"
    /\ gw' = "recv"
    /\ fw' = "range"
    /\ UNCHANGED <<gateway, gwItem, sent, broke, deltas, fwItem, frames, cancelled, gone,
                   client>>

PumpFrame ==
    /\ hd = "pump"
    /\ frames # <<>>
    /\ frames' = Tail(frames)
    /\ \/ /\ client' = Append(client, Head(frames))
          /\ UNCHANGED <<gateway, hd, cancelled>>
       \/ /\ gone
          /\ Return("returned")
          /\ UNCHANGED client
    /\ UNCHANGED <<gateway, gwVars, deltas, fwVars, gone>>

PumpEnds ==
    /\ hd = "pump"
    /\ frames = <<>> /\ fw = "closed"
    /\ Return("returned")
    /\ UNCHANGED <<gateway, gwVars, deltas, fwVars, frames, gone, client>>

PumpCancelled ==
    /\ hd = "pump"
    /\ cancelled
    /\ hd' = "returned"
    /\ UNCHANGED <<gateway, gwVars, deltas, fwVars, frames, cancelled, gone, client>>

\* The client goes away; the server notices it some time later.
HangUp ==
    /\ hd = "pump" /\ ~gone
    /\ gone' = TRUE
    /\ UNCHANGED <<gateway, hd, gwVars, deltas, fwVars, frames, cancelled, client>>

NoticeHangUp ==
    /\ gone /\ ~cancelled
    /\ cancelled' = TRUE
    /\ UNCHANGED <<gateway, hd, gwVars, deltas, fwVars, frames, gone, client>>
----------------------------------------------------------------------------
(***************************************************************************)
(* The gateway's goroutine: emitTokens (memory) or forward (openai).       *)
(***************************************************************************)
Recv ==
    /\ gw = "recv"
    /\ sent < Len(Tokens)
    /\ sent' = sent + 1
    /\ gwItem' = <<Tokens[sent + 1]>>
    /\ gw' = "send"
    /\ UNCHANGED <<gateway, hd, broke, deltas, fwVars, frames, cancelled, gone, client>>

RecvFails ==
    /\ gw = "recv"
    /\ gateway = "openai"
    /\ broke' = TRUE
    /\ gwItem' = <<DeltaErr>>
    /\ gw' = "send"
    /\ UNCHANGED <<gateway, hd, sent, deltas, fwVars, frames, cancelled, gone, client>>

\* Mutant: the memory gateway may stop short of its last token.
RecvEndsShort ==
    /\ gw = "recv"
    /\ gw' = "closed"
    /\ UNCHANGED <<gateway, hd, gwItem, sent, broke, deltas, fwVars, frames, cancelled,
                   gone, client>>

\* The memory gateway knows its tokens; the openai gateway takes any io.EOF for the
\* end of the reply, the terminator [DONE] before it or not.
RecvEnds ==
    /\ gw = "recv"
    /\ gateway = "openai" \/ sent = Len(Tokens)
    /\ gw' = "closed"
    /\ UNCHANGED <<gateway, hd, gwItem, sent, broke, deltas, fwVars, frames, cancelled,
                   gone, client>>

\* A send into an unbuffered channel needs the receiver at its receive.
SendDelta ==
    /\ gw = "send"
    /\ \/ Len(deltas) < GatewayBuffer
       \/ GatewayBuffer = 0 /\ deltas = <<>> /\ fw = "range"
    /\ deltas' = deltas \o gwItem
    /\ gw' = IF gwItem = <<DeltaErr>> THEN "closed" ELSE "recv"
    /\ gwItem' = <<>>
    /\ UNCHANGED <<gateway, hd, sent, broke, fwVars, frames, cancelled, gone, client>>

SendCancelled ==
    /\ gw = "send"
    /\ gateway = "memory" /\ cancelled
    /\ gw' = "closed"
    /\ gwItem' = <<>>
    /\ UNCHANGED <<gateway, hd, sent, broke, deltas, fwVars, frames, cancelled, gone,
                   client>>
----------------------------------------------------------------------------
(***************************************************************************)
(* forwardFrames.                                                          *)
(***************************************************************************)
\* Mutant: an error delta is taken for the end of the reply.
DoneOnError(delta) == IF delta = DeltaErr THEN Done ELSE delta

FrameOf(delta) == IF delta = DeltaErr THEN Error ELSE delta

RangeDelta ==
    /\ fw = "range"
    /\ deltas # <<>>
    /\ deltas' = Tail(deltas)
    /\ fwItem' = <<FrameOf(Head(deltas))>>
    /\ fw' = "emit"
    /\ UNCHANGED <<gateway, hd, gwVars, frames, cancelled, gone, client>>

\* Mutant: the reply ends without a Done frame.
RangeEndsSilently ==
    /\ fw = "range"
    /\ deltas = <<>> /\ gw = "closed"
    /\ fw' = "closed"
    /\ UNCHANGED <<gateway, hd, gwVars, deltas, fwItem, frames, cancelled, gone, client>>

RangeEnds ==
    /\ fw = "range"
    /\ deltas = <<>> /\ gw = "closed"
    /\ fwItem' = <<Done>>
    /\ fw' = "emit"
    /\ UNCHANGED <<gateway, hd, gwVars, deltas, frames, cancelled, gone, client>>

\* Mutant: goes on after a terminal frame.
NeverTerminal(frame) == FALSE

Terminal(frame) == frame \in {Done, Error}

\* Mutant: overruns the buffer of the channel.
EmitUnbuffered ==
    /\ fw = "emit"
    /\ frames' = frames \o fwItem
    /\ fwItem' = <<>>
    /\ fw' = IF Terminal(fwItem[1]) THEN "closed" ELSE "range"
    /\ UNCHANGED <<gateway, hd, gwVars, deltas, cancelled, gone, client>>

EmitFrame ==
    /\ fw = "emit"
    /\ Len(frames) < FrameBuffer
    /\ frames' = frames \o fwItem
    /\ fwItem' = <<>>
    /\ fw' = IF Terminal(fwItem[1]) THEN "closed" ELSE "range"
    /\ UNCHANGED <<gateway, hd, gwVars, deltas, cancelled, gone, client>>

\* Mutant: emit does not look at the context.
NeverCancelled ==
    /\ FALSE
    /\ UNCHANGED vars

EmitCancelled ==
    /\ fw = "emit"
    /\ cancelled
    /\ fw' = "closed"
    /\ fwItem' = <<>>
    /\ UNCHANGED <<gateway, hd, gwVars, deltas, frames, cancelled, gone, client>>
----------------------------------------------------------------------------
Handler == CheckFlusher \/ Refuse \/ OpenStream \/ PumpFrame \/ PumpEnds \/ PumpCancelled
Gateway == Recv \/ RecvFails \/ RecvEnds \/ SendDelta \/ SendCancelled
Forwarder == RangeDelta \/ RangeEnds \/ EmitFrame \/ EmitCancelled

Next == Handler \/ Gateway \/ Forwarder \/ HangUp \/ NoticeHangUp

Spec == Init /\ [][Next]_vars

\* The runtime schedules every goroutine that can run, the source of the reply
\* answers, and the server notices a client that has gone.
FairSpec ==
    /\ Spec
    /\ WF_vars(Handler) /\ WF_vars(Gateway) /\ WF_vars(Forwarder)
    /\ WF_vars(NoticeHangUp)
----------------------------------------------------------------------------
(***************************************************************************)
(* Properties.                                                             *)
(***************************************************************************)
Frame == {Tokens[i] : i \in DOMAIN Tokens} \cup {Done, Error}
Delta == {Tokens[i] : i \in DOMAIN Tokens} \cup {DeltaErr}

\* Every variable keeps its type, and no channel overruns its buffer.
TypeOK ==
    /\ gateway \in {"memory", "openai"}
    /\ hd \in {"idle", "decode", "pump", "returned", "refused", "unsupported"}
    /\ gw \in {"off", "recv", "send", "closed"}
    /\ gwItem \in {<<>>} \cup {<<d>> : d \in Delta}
    /\ sent \in 0..Len(Tokens) /\ broke \in BOOLEAN
    /\ deltas \in Seq(Delta) /\ Len(deltas) <= GatewayBuffer + 1
    /\ fw \in {"off", "range", "emit", "closed"}
    /\ fwItem \in {<<>>} \cup {<<f>> : f \in Frame}
    /\ frames \in Seq(Frame) /\ Len(frames) <= FrameBuffer
    /\ cancelled \in BOOLEAN /\ gone \in BOOLEAN
    /\ client \in Seq(Frame)

\* What the client has read is the beginning of the reply, in order, and at
\* most one terminal frame after it: nothing is lost, repeated or reordered by
\* the two channels and their goroutines.
PrefixRead ==
    \E n \in 0..Len(Tokens) :
        LET reply == SubSeq(Tokens, 1, n)
        IN  client \in {reply, Append(reply, Done), Append(reply, Error)}

\* Whether the source has ended its reply well, as far as the gateway can tell.
EndedWell == ~broke /\ (gateway = "memory" => sent = Len(Tokens))

\* A client that has not hung up is told the reply is complete only if the source
\* ended it well, and has read all that the source sent.  A reply that breaks off
\* with an error is never followed by Done, whatever the phase 5 spec says: its
\* "the facade emits a Done frame regardless" is not what forwardFrames does.
DoneMeansComplete ==
    (\E i \in DOMAIN client : client[i] = Done)
    => gone \/ (EndedWell /\ client = Append(SubSeq(Tokens, 1, sent), Done))

\* The client reads the reply, or the beginning of it and that it broke off.
StreamFaithful == PrefixRead /\ DoneMeansComplete


\* A client that stays is told how its stream ended.
StreamConcludes ==
    (hd = "pump") ~> (gone \/ \E i \in DOMAIN client : Terminal(client[i]))

\* chatgateway/port.go: the implementation "is responsible for noticing
\* ctx.Done() and tearing down its background goroutine".  forwardFrames always
\* ends; so does the goroutine of the memory gateway.  That of the openai gateway
\* ends when its client stays, and otherwise may block in its send for ever.
TornDown ==
    (hd = "returned") ~> /\ fw = "closed"
                         /\ gw = "closed" \/ (gateway = "openai" /\ gone)

\* A reply ends on both sides: for the client, and for the server's goroutines.
StreamEnds == StreamConcludes /\ TornDown

----------------------------------------------------------------------------
(***************************************************************************)
(* What the specification says, and the code does not do.                  *)
(***************************************************************************)
\* Phase 5 spec: the branch that finds no Flusher "should never fire in
\* practice".  Behind the logger middleware it always does.
StreamingSupported == hd # "unsupported"
=============================================================================
