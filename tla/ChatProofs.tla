----------------------------- MODULE ChatProofs -----------------------------
(***************************************************************************)
(* Safety of Chat, for every reply, any size of the frame buffer and both  *)
(* gateways: no channel overruns its buffer, and what the client reads is  *)
(* the reply, or the beginning of it and how it broke off.                 *)
(***************************************************************************)
EXTENDS Chat, TLAPS

(***************************************************************************)
(* Where the tokens are.  While the handler pumps, the client, the frames, *)
(* the forwarder, the deltas and the gateway hold consecutive tokens, in   *)
(* that order, and the first of them that holds a mark of the end is the   *)
(* last that holds anything of interest.                                   *)
(***************************************************************************)
\* x is the token at position i of the reply.
TokenAt(x, i) == i \in 1..Len(Tokens) /\ x = Tokens[i]

\* How many tokens and marks have gone past each place.
Written == Len(client) + Len(frames)
Formed == Written + Len(fwItem)
Passed == Formed + Len(deltas)

\* Before a stream is opened there is nothing anywhere.
NothingYet ==
    hd \in {"idle", "decode"} =>
        /\ gw = "off" /\ gwItem = <<>> /\ sent = 0 /\ broke = FALSE /\ deltas = <<>>
        /\ fw = "off" /\ fwItem = <<>> /\ frames = <<>>
        /\ cancelled = FALSE /\ gone = FALSE /\ client = <<>>

\* The client has read the reply token by token, and a terminal frame last.
ReadInOrder ==
    \A i \in 1..Len(client) :
        \/ TokenAt(client[i], i)
        \/ i = Len(client) /\ Terminal(client[i])

\* Frames go on where the client is, and stop after a terminal one.
FramesInOrder ==
    hd = "pump" =>
        /\ \A i \in 1..Len(frames) :
              \/ TokenAt(frames[i], Len(client) + i)
              \/ i = Len(frames) /\ Terminal(frames[i]) /\ fw = "closed"
        /\ \A i \in 1..Len(client) :
              Terminal(client[i]) => frames = <<>> /\ fw = "closed"
        /\ fw = "emit" => TokenAt(fwItem[1], Formed) \/ Terminal(fwItem[1])

\* Whether forwardFrames may still form frames from deltas.
Forwarding == fw = "range" \/ (fw = "emit" /\ ~Terminal(fwItem[1]))

\* Deltas go on where the frames are, and an error is the last of them.
DeltasInOrder ==
    hd = "pump" /\ Forwarding =>
        /\ \A i \in 1..Len(deltas) :
              \/ TokenAt(deltas[i], Formed + i)
              \/ i = Len(deltas) /\ deltas[i] = DeltaErr /\ gw = "closed"
        /\ gw = "recv" => sent = Passed /\ ~broke
        /\ gw = "send" => \/ TokenAt(gwItem[1], Passed + 1) /\ sent = Passed + 1 /\ ~broke
                          \/ gwItem[1] = DeltaErr /\ sent = Passed

\* The gateway goes off only before, and the two goroutines start together.
Started == hd = "pump" => gw # "off" /\ fw # "off"

\* An item is in hand exactly where it is about to be sent.
InHand ==
    /\ gw = "send" <=> gwItem # <<>>
    /\ fw = "emit" <=> fwItem # <<>>

\* While the handler pumps, its context is done only if the client has hung up.
CancelledByClient == hd = "pump" /\ cancelled => gone

\* A gateway that has closed its channel has sent all that its source sent, which
\* ended well, or an error, unless the client has hung up.
ClosedComplete ==
    hd = "pump" /\ Forwarding /\ gw = "closed" =>
        \/ gone
        \/ Passed = sent /\ EndedWell
        \/ deltas # <<>> /\ deltas[Len(deltas)] = DeltaErr

\* Position i is behind all that the source has sent, and it has ended well.
BehindAll(i) == gw = "closed" /\ EndedWell /\ i = sent + 1

\* Wherever the mark of completion is, the whole reply is ahead of it.
DoneBehindAll ==
    /\ \A i \in 1..Len(client) : client[i] = Done => gone \/ BehindAll(i)
    /\ hd = "pump" =>
          /\ \A i \in 1..Len(frames) :
                frames[i] = Done => gone \/ BehindAll(Len(client) + i)
          /\ fw = "emit" /\ fwItem[1] = Done => gone \/ BehindAll(Formed)

Ordered ==
    /\ NothingYet /\ Started /\ InHand /\ CancelledByClient
    /\ ReadInOrder /\ FramesInOrder /\ DeltasInOrder
    /\ ClosedComplete /\ DoneBehindAll

IInv == TypeOK /\ Ordered

(***************************************************************************)
(* Sequences: taking the head, and adding at the end.                      *)
(***************************************************************************)
LEMMA Popped ==
    ASSUME NEW S, NEW s \in Seq(S), s # <<>>
    PROVE  /\ Head(s) = s[1] /\ s[1] \in S
           /\ Tail(s) \in Seq(S)
           /\ Len(s) \in Nat \ {0} /\ Len(Tail(s)) = Len(s) - 1
           /\ \A i \in 1..(Len(s) - 1) : Tail(s)[i] = s[i + 1]
  OBVIOUS

\* What a push leaves in a channel: the old frames, and one more behind.
LEMMA Pushed ==
    ASSUME NEW S, NEW s \in Seq(S), NEW x \in S
    PROVE  /\ s \o <<x>> = Append(s, x)
           /\ Append(s, x) \in Seq(S)
           /\ Len(s) \in Nat /\ Len(Append(s, x)) = Len(s) + 1
           /\ \A i \in 1..Len(s) : Append(s, x)[i] = s[i]
           /\ Append(s, x)[Len(s) + 1] = x
  OBVIOUS

\* An item in hand is one item.
LEMMA OneItem ==
    ASSUME NEW S, NEW item \in {<<>>} \cup {<<x>> : x \in S}
    PROVE  /\ item # <<>> => /\ item[1] \in S /\ item = <<item[1]>>
                             /\ Len(item) = 1
           /\ item = <<>> => Len(item) = 0
  OBVIOUS

\* The marks are not tokens, and tokens are what they are.
LEMMA Marks ==
    /\ Len(Tokens) \in Nat /\ FrameBuffer \in Nat /\ FrameBuffer > 0
    /\ \A x, i : TokenAt(x, i) => x \in Frame /\ x \in Delta /\ i \in Nat
                    /\ i > 0 /\ i <= Len(Tokens) /\ x \notin {Done, Error, DeltaErr}
    /\ \A i \in 1..Len(Tokens) : TokenAt(Tokens[i], i)
    /\ Done # Error /\ Done \in Frame /\ Error \in Frame /\ DeltaErr \in Delta
    /\ \A i \in Nat : i < Len(Tokens) => Tokens[i + 1] \in Delta
  <1>1. Len(Tokens) \in Nat /\ DOMAIN Tokens = 1..Len(Tokens)
        /\ \A i \in 1..Len(Tokens) : Tokens[i] \in STRING
    BY ChatAssumption
  <1> QED
    BY <1>1, ChatAssumption DEF TokenAt, Frame, Delta

\* A frame is formed of a delta.
LEMMA Forming ==
    ASSUME NEW d \in Delta
    PROVE  /\ FrameOf(d) \in Frame
           /\ Terminal(FrameOf(d)) <=> d = DeltaErr
           /\ FrameOf(d) = Done => FALSE
           /\ d # DeltaErr => FrameOf(d) = d
  BY ChatAssumption DEF Delta, Frame, FrameOf, Terminal

\* Every step keeps the types.
LEMMA TypesStep == TypeOK /\ InHand /\ [Next]_vars => TypeOK'
  <1> SUFFICES ASSUME TypeOK, InHand, [Next]_vars PROVE TypeOK'
    OBVIOUS
  <1> USE DEF TypeOK, vars, gwVars, fwVars, Return
  <1>0. Len(Tokens) \in Nat /\ GatewayBuffer \in Nat /\ FrameBuffer \in Nat
    BY Marks DEF GatewayBuffer
  <1>1. CASE CheckFlusher \/ Refuse \/ OpenStream
    BY <1>1 DEF CheckFlusher, Refuse, OpenStream, GatewayBuffer
  <1>2. CASE PumpFrame
    <2>1. /\ Head(frames) \in Frame /\ Tail(frames) \in Seq(Frame)
          /\ Len(Tail(frames)) = Len(frames) - 1 /\ Len(frames) \in Nat
      BY <1>2, Popped DEF PumpFrame
    <2>2. Append(client, Head(frames)) \in Seq(Frame)
      BY <2>1
    <2>3. client' \in Seq(Frame)
      <3>1. client' = Append(client, Head(frames)) \/ client' = client
        BY <1>2 DEF PumpFrame
      <3> QED
        BY <2>2, <3>1
    <2>3a. frames' \in Seq(Frame) /\ Len(frames') <= FrameBuffer
      <3>1. frames' = Tail(frames)
        BY <1>2 DEF PumpFrame
      <3>2. frames' \in Seq(Frame) /\ Len(frames') = Len(frames) - 1
        BY <2>1, <3>1, Zenon
      <3> QED
        BY <1>0, <2>1, <3>2
    <2>4. /\ UNCHANGED <<gateway, gw, gwItem, sent, broke, deltas, fw, fwItem, gone>>
          /\ hd' \in {"pump", "returned"} /\ cancelled' \in BOOLEAN
      BY <1>2 DEF PumpFrame
    <2> QED
      BY <2>3, <2>3a, <2>4 DEF GatewayBuffer
  <1>3. CASE PumpEnds \/ PumpCancelled \/ HangUp \/ NoticeHangUp
    <2>1. CASE PumpEnds \/ PumpCancelled
      BY <2>1 DEF PumpEnds, PumpCancelled, GatewayBuffer
    <2>2. CASE HangUp
      BY <2>2 DEF HangUp, GatewayBuffer
    <2>3. CASE NoticeHangUp
      BY <2>3 DEF NoticeHangUp, GatewayBuffer
    <2> QED
      BY <1>3, <2>1, <2>2, <2>3
  <1>4. CASE Recv \/ RecvFails \/ RecvEnds \/ SendCancelled
    <2>1. CASE Recv
      BY <1>0, <2>1, Marks DEF Recv, GatewayBuffer
    <2>2. CASE RecvFails
      BY <1>0, <2>2, Marks DEF RecvFails, GatewayBuffer
    <2>3. CASE RecvEnds \/ SendCancelled
      BY <1>0, <2>3 DEF RecvEnds, SendCancelled, GatewayBuffer
    <2> QED
      BY <1>4, <2>1, <2>2, <2>3
  <1>5. CASE SendDelta
    <2>1. gwItem[1] \in Delta /\ gwItem = <<gwItem[1]>>
      BY <1>5, OneItem DEF SendDelta, InHand
    <2>2. deltas' = deltas \o <<gwItem[1]>>
      BY <1>5, <2>1 DEF SendDelta
    <2>2a. deltas' \in Seq(Delta) /\ Len(deltas') = Len(deltas) + 1
      BY <2>1, <2>2, Pushed
    <2>3. Len(deltas) < GatewayBuffer \/ (GatewayBuffer = 0 /\ Len(deltas) = 0)
      BY <1>5 DEF SendDelta
    <2> QED
      BY <1>0, <1>5, <2>2a, <2>3 DEF SendDelta, GatewayBuffer
  <1>6. CASE RangeDelta
    <2>1. Head(deltas) \in Delta /\ Tail(deltas) \in Seq(Delta)
          /\ Len(Tail(deltas)) = Len(deltas) - 1 /\ Len(deltas) \in Nat
      BY <1>6, Popped DEF RangeDelta
    <2>2. FrameOf(Head(deltas)) \in Frame
      BY <2>1, Forming
    <2> QED
      BY <1>0, <1>6, <2>1, <2>2 DEF RangeDelta, GatewayBuffer
  <1>7. CASE RangeEnds \/ EmitCancelled
    BY <1>7, Marks DEF RangeEnds, EmitCancelled, GatewayBuffer
  <1>8. CASE EmitFrame
    <2>1. fwItem[1] \in Frame /\ fwItem = <<fwItem[1]>>
      BY <1>8, OneItem DEF EmitFrame, InHand
    <2>2. frames' = frames \o <<fwItem[1]>>
      BY <1>8, <2>1 DEF EmitFrame
    <2>2a. frames' \in Seq(Frame) /\ Len(frames') = Len(frames) + 1 /\ Len(frames) \in Nat
      BY <2>1, <2>2, Pushed
    <2> QED
      BY <1>0, <1>8, <2>2a DEF EmitFrame, GatewayBuffer
  <1>9. CASE UNCHANGED vars
    BY <1>9 DEF GatewayBuffer
  <1> QED
    BY <1>1, <1>2, <1>3, <1>4, <1>5, <1>6, <1>7, <1>8, <1>9 DEF Next, Handler, Gateway,
       Forwarder

\* Nothing has been read before the stream is opened, and everything starts
\* empty; after the handler has returned the client reads no more.
LEMMA HandlerReturns ==
    ASSUME IInv, hd' \notin {"idle", "decode", "pump"},
           UNCHANGED <<gateway, client, gone, gwVars, deltas, fwVars>>
    PROVE  NothingYet' /\ Started' /\ InHand' /\ CancelledByClient' /\ ReadInOrder'
           /\ FramesInOrder' /\ DeltasInOrder' /\ ClosedComplete' /\ DoneBehindAll'
  BY DEF IInv, Ordered, gwVars, fwVars, NothingYet, Started, InHand, CancelledByClient,
     ReadInOrder,
     FramesInOrder, DeltasInOrder, ClosedComplete, DoneBehindAll, BehindAll, EndedWell,
     Terminal

\* Before the stream opens nothing has been sent.
LEMMA Opening == IInv /\ (CheckFlusher \/ Refuse \/ OpenStream) => Ordered'
  <1> SUFFICES ASSUME IInv, CheckFlusher \/ Refuse \/ OpenStream PROVE Ordered'
    OBVIOUS
  <1> USE DEF IInv, Ordered, gwVars, fwVars
  <1>1. CASE hd' \notin {"idle", "decode", "pump"}
    BY <1>1, HandlerReturns DEF CheckFlusher, Refuse, OpenStream
  <1>2. CASE hd' = "decode"
    <2>1. hd = "idle" /\ UNCHANGED <<gateway, gw, gwItem, sent, broke, deltas, fw,
    fwItem, frames,
                                     cancelled, gone, client>>
      BY <1>2 DEF CheckFlusher, Refuse, OpenStream, Return
    <2> QED
      BY <1>2, <2>1 DEF NothingYet, Started, InHand, CancelledByClient,
         ReadInOrder, FramesInOrder, DeltasInOrder, ClosedComplete, DoneBehindAll,
         BehindAll, EndedWell
  <1>3. CASE OpenStream
    <2>1. /\ hd' = "pump" /\ gw' = "recv" /\ fw' = "range"
          /\ gwItem' = <<>> /\ sent' = 0 /\ broke' = FALSE /\ deltas' = <<>>
          /\ fwItem' = <<>>
          /\ frames' = <<>> /\ cancelled' = FALSE /\ client' = <<>>
      BY <1>3 DEF OpenStream, NothingYet
    <2>2. Passed' = 0 /\ 1..Len(client') = {} /\ 1..Len(frames') = {}
          /\ 1..Len(deltas') = {}
      BY <2>1 DEF Passed, Formed, Written
    <2> QED
      BY <2>1, <2>2 DEF NothingYet, Started, InHand, CancelledByClient, ReadInOrder,
         FramesInOrder, DeltasInOrder, ClosedComplete, DoneBehindAll, BehindAll,
         EndedWell, Forwarding
  <1> QED
    BY <1>1, <1>2, <1>3 DEF CheckFlusher, Refuse, Return

\* Hanging up and ending take no frame and add none.
LEMMA Leaving ==
    IInv /\ (PumpEnds \/ PumpCancelled \/ HangUp \/ NoticeHangUp) => Ordered'
  <1> SUFFICES ASSUME IInv, PumpEnds \/ PumpCancelled \/ HangUp \/ NoticeHangUp
               PROVE  Ordered'
    OBVIOUS
  <1> USE DEF IInv, Ordered, gwVars, fwVars
  <1>1. CASE PumpEnds \/ PumpCancelled
    BY <1>1, HandlerReturns DEF PumpEnds, PumpCancelled, Return
  <1>2. CASE HangUp \/ NoticeHangUp
    <2>1. /\ UNCHANGED <<gateway, hd, gw, gwItem, sent, broke, deltas, fw, fwItem,
                         frames, client>>
          /\ gone' /\ hd \notin {"idle", "decode"}
      BY <1>2 DEF HangUp, NoticeHangUp, TypeOK, NothingYet
    <2>2. Passed' = Passed /\ Formed' = Formed /\ (Forwarding' <=> Forwarding)
      BY <2>1 DEF Passed, Formed, Written, Forwarding, Terminal
    <2> QED
      BY <2>1, <2>2 DEF NothingYet, Started, InHand, CancelledByClient, ReadInOrder,
         FramesInOrder, DeltasInOrder, ClosedComplete, DoneBehindAll, BehindAll, EndedWell
  <1> QED
    BY <1>1, <1>2

\* A frame read moves from the frames to the client, at the same place.
LEMMA Pumping == IInv /\ PumpFrame => Ordered'
  <1> SUFFICES ASSUME IInv, PumpFrame PROVE Ordered'
    OBVIOUS
  <1> USE DEF IInv, Ordered, gwVars, fwVars
  <1>1. CASE hd' # "pump"
    BY <1>1, HandlerReturns DEF PumpFrame, Return
  <1>2. CASE hd' = "pump"
    <2> DEFINE n == Len(client)
               f == frames[1]
    <2>1. /\ hd = "pump" /\ frames # <<>>
          /\ UNCHANGED <<gateway, gw, gwItem, sent, broke, deltas, fw, fwItem, gone,
                         cancelled>>
          /\ client' = Append(client, Head(frames)) /\ frames' = Tail(frames)
      BY <1>2 DEF PumpFrame, Return
    <2>2. /\ Len(frames) \in Nat \ {0} /\ Len(frames') = Len(frames) - 1
          /\ \A i \in 1..(Len(frames) - 1) : frames'[i] = frames[i + 1]
          /\ f \in Frame /\ Head(frames) = f
      BY <2>1, Popped DEF TypeOK
    <2>3. /\ n \in Nat /\ Len(client') = n + 1
          /\ \A i \in 1..n : client'[i] = client[i]
          /\ client'[n + 1] = f
      BY <2>1, <2>2, Pushed DEF TypeOK
    <2>4. \A i \in 1..n : ~Terminal(client[i])
      BY <2>1 DEF FramesInOrder
    <2> HIDE DEF n, f
    <2>5. Len(fwItem) \in Nat /\ Len(deltas) \in Nat
      BY DEF TypeOK
    <2>6. Formed' = Formed /\ Passed' = Passed /\ (Forwarding' <=> Forwarding)
      BY <2>1, <2>2, <2>3, <2>5 DEF Formed, Passed, Written, Forwarding, Terminal, n
    <2>7. TokenAt(f, n + 1) \/ (Len(frames) = 1 /\ Terminal(f) /\ fw = "closed")
      <3>1. 1 \in 1..Len(frames)
        BY <2>2
      <3>2. \/ TokenAt(frames[1], Len(client) + 1)
            \/ 1 = Len(frames) /\ Terminal(frames[1]) /\ fw = "closed"
        BY <2>1, <3>1 DEF FramesInOrder
      <3> QED
        BY <3>2 DEF n, f
    <2>8. ReadInOrder'
      <3> SUFFICES ASSUME NEW i \in 1..(n + 1)
                   PROVE  TokenAt(client'[i], i) \/ (i = n + 1 /\ Terminal(client'[i]))
        BY <2>3 DEF ReadInOrder, TokenAt, Terminal
      <3>1. CASE i = n + 1
        BY <2>3, <2>7, <3>1
      <3>2. CASE i \in 1..n
        BY <2>3, <2>4, <3>2 DEF ReadInOrder, n
      <3> QED
        BY <2>3, <3>1, <3>2
    <2>9. FramesInOrder'
      <3>1. ASSUME NEW i \in 1..Len(frames')
            PROVE  \/ TokenAt(frames'[i], Len(client') + i)
                   \/ i = Len(frames') /\ Terminal(frames'[i]) /\ fw = "closed"
        <4>1. i + 1 \in 1..Len(frames) /\ frames'[i] = frames[i + 1]
          BY <2>2, <3>1
        <4>2. Len(client') + i = n + (i + 1)
          BY <2>3, <3>1
        <4>3. \/ TokenAt(frames[i + 1], Len(client) + (i + 1))
              \/ i + 1 = Len(frames) /\ Terminal(frames[i + 1]) /\ fw = "closed"
          BY <2>1, <4>1 DEF FramesInOrder
        <4>4. i + 1 = Len(frames) => i = Len(frames')
          BY <2>2, <3>1
        <4> QED
          BY <4>1, <4>2, <4>3, <4>4 DEF n
      <3>2. ASSUME NEW i \in 1..Len(client'), Terminal(client'[i])
            PROVE  frames' = <<>> /\ fw = "closed"
        <4>1. i = n + 1
          BY <2>3, <2>4, <3>2
        <4>2. Len(frames) = 1 /\ fw = "closed"
          BY <2>3, <2>7, <3>2, <4>1, Marks DEF Terminal
        <4>3. frames' \in Seq(Frame) /\ Len(frames') = 0
          BY <2>1, <2>2, <4>2, Popped DEF TypeOK
        <4> QED
          BY <4>2, <4>3
      <3> QED
        BY <2>1, <2>6, <3>1, <3>2 DEF FramesInOrder, TokenAt, Terminal
    <2>10. DeltasInOrder'
      BY <2>1, <2>6 DEF DeltasInOrder, TokenAt
    <2>11. ClosedComplete'
      BY <2>1, <2>6 DEF ClosedComplete, EndedWell
    <2>12. DoneBehindAll'
      <3>1. f = Done => gone \/ BehindAll(n + 1)
        BY <2>1, <2>2 DEF DoneBehindAll, BehindAll, EndedWell, n, f
      <3>2. ASSUME NEW i \in 1..Len(frames'), frames'[i] = Done
            PROVE  gone \/ BehindAll(Len(client') + i)
        <4>1. i + 1 \in 1..Len(frames) /\ frames'[i] = frames[i + 1]
          BY <2>2
        <4>2. Len(client') + i = n + (i + 1)
          BY <2>3
        <4> QED
          BY <2>1, <3>2, <4>1, <4>2 DEF DoneBehindAll, BehindAll, EndedWell, n
      <3>3. ASSUME NEW i \in 1..Len(client'), client'[i] = Done
            PROVE  gone \/ BehindAll(i)
        BY <2>3, <3>1, <3>3 DEF DoneBehindAll, BehindAll, EndedWell, n
      <3> QED
        BY <2>1, <2>6, <3>2, <3>3 DEF DoneBehindAll, BehindAll, EndedWell
    <2> QED
      BY <1>2, <2>1, <2>8, <2>9, <2>10, <2>11, <2>12 DEF NothingYet, Started, InHand,
         CancelledByClient
  <1> QED
    BY <1>1, <1>2

\* What a step of the gateway's goroutine leaves alone.
LEMMA GatewayLeaves ==
    IInv /\ Gateway =>
        /\ NothingYet' /\ CancelledByClient' /\ ReadInOrder'
        /\ FramesInOrder' /\ DoneBehindAll'
        /\ UNCHANGED <<gateway, hd, fw, fwItem, frames, cancelled, gone, client>>
        /\ Formed' = Formed /\ (Forwarding' <=> Forwarding)
        /\ hd \notin {"idle", "decode"}
  <1> SUFFICES ASSUME IInv, Gateway
               PROVE  /\ hd \notin {"idle", "decode"} /\ gw # "closed"
                      /\ UNCHANGED <<gateway, hd, fw, fwItem, frames, cancelled, gone,
                                     client>>
    BY DEF IInv, Ordered, NothingYet, CancelledByClient, ReadInOrder, FramesInOrder,
       DoneBehindAll, BehindAll, EndedWell,
       Formed, Written, Forwarding, Terminal, TokenAt
  <1> QED
    BY DEF IInv, Ordered, NothingYet, Gateway, Recv, RecvFails, RecvEnds, SendDelta,
       SendCancelled,
       fwVars

\* The gateway takes the next token of the reply, or an error, or its end.
LEMMA Receiving == IInv /\ (Recv \/ RecvFails \/ RecvEnds \/ SendCancelled) => Ordered'
  <1> SUFFICES ASSUME IInv, Recv \/ RecvFails \/ RecvEnds \/ SendCancelled
               PROVE  Ordered'
    OBVIOUS
  <1> USE DEF IInv, Ordered
  <1>0. /\ NothingYet' /\ CancelledByClient' /\ ReadInOrder' /\ FramesInOrder'
        /\ DoneBehindAll'
        /\ UNCHANGED <<gateway, hd, fw, fwItem, frames, cancelled, gone, client>>
        /\ Formed' = Formed /\ (Forwarding' <=> Forwarding)
    BY GatewayLeaves DEF Gateway
  <1>1. UNCHANGED deltas /\ Passed' = Passed /\ gw # "closed" /\ gw # "off"
    BY <1>0 DEF Recv, RecvFails, RecvEnds, SendCancelled, Passed
  <1>2. ASSUME hd = "pump", Forwarding, NEW i \in 1..Len(deltas)
        PROVE  TokenAt(deltas[i], Formed + i)
    BY <1>1, <1>2 DEF DeltasInOrder
  <1>3. InHand' /\ Started'
    BY <1>0 DEF Recv, RecvFails, RecvEnds, SendCancelled, InHand, Started
  <1>4. CASE Recv
    <2>1. gw' = "send" /\ gwItem' = <<Tokens[sent + 1]>> /\ sent' = sent + 1
          /\ sent \in Nat /\ sent < Len(Tokens) /\ gw = "recv" /\ broke' = broke
      BY <1>4 DEF Recv, TypeOK
    <2>2. TokenAt(Tokens[sent + 1], sent + 1)
      BY <2>1, Marks
    <2>3. gwItem'[1] = Tokens[sent + 1]
      BY <2>1
    <2>4. DeltasInOrder'
      BY <1>0, <1>1, <1>2, <2>1, <2>2, <2>3 DEF DeltasInOrder, TokenAt
    <2> QED
      BY <1>0, <1>3, <2>1, <2>4 DEF ClosedComplete, EndedWell
  <1>5. CASE RecvFails
    <2>1. gw' = "send" /\ gwItem' = <<DeltaErr>> /\ sent' = sent /\ gw = "recv"
      BY <1>5 DEF RecvFails
    <2>2. gwItem'[1] = DeltaErr
      BY <2>1
    <2>3. DeltasInOrder'
      BY <1>0, <1>1, <1>2, <2>1, <2>2 DEF DeltasInOrder, TokenAt
    <2> QED
      BY <1>0, <1>3, <2>1, <2>3 DEF ClosedComplete, EndedWell
  <1>6. CASE RecvEnds \/ SendCancelled
    <2>1. UNCHANGED <<gateway, sent, broke>> /\ gateway \in {"memory", "openai"}
          /\ gw' = "closed"
          /\ ((gw = "recv" /\ (gateway = "openai" \/ sent = Len(Tokens))) \/ cancelled)
      BY <1>6 DEF RecvEnds, SendCancelled, TypeOK
    <2>2. DeltasInOrder'
      BY <1>0, <1>1, <1>2, <2>1 DEF DeltasInOrder, TokenAt
    <2>3. ClosedComplete'
      BY <1>0, <1>1, <2>1 DEF ClosedComplete, EndedWell, DeltasInOrder, CancelledByClient
    <2> QED
      BY <1>0, <1>3, <2>2, <2>3
  <1> QED
    BY <1>4, <1>5, <1>6

\* What is sent goes behind all that was, and an error closes the channel.
LEMMA Sending == IInv /\ SendDelta => Ordered'
  <1> SUFFICES ASSUME IInv, SendDelta PROVE Ordered'
    OBVIOUS
  <1> USE DEF IInv, Ordered
  <1>0. /\ NothingYet' /\ CancelledByClient' /\ ReadInOrder' /\ FramesInOrder'
        /\ DoneBehindAll'
        /\ UNCHANGED <<gateway, hd, fw, fwItem, frames, cancelled, gone, client>>
        /\ Formed' = Formed /\ (Forwarding' <=> Forwarding)
    BY GatewayLeaves DEF Gateway
  <1> DEFINE n == Len(deltas)
             d == gwItem[1]
  <1>1. gw = "send" /\ gwItem = <<d>> /\ d \in Delta /\ gwItem' = <<>>
        /\ sent' = sent /\ broke' = broke
    BY OneItem DEF SendDelta, InHand, TypeOK
  <1>2. deltas' = deltas \o <<d>> /\ gw' = IF d = DeltaErr THEN "closed" ELSE "recv"
    <2>1. gwItem = <<DeltaErr>> <=> d = DeltaErr
      BY <1>1
    <2>2. /\ deltas' = deltas \o gwItem
          /\ gw' = IF gwItem = <<DeltaErr>> THEN "closed" ELSE "recv"
      BY DEF SendDelta
    <2> HIDE DEF d
    <2> QED
      BY <1>1, <2>1, <2>2
  <1>3. /\ n \in Nat /\ Len(deltas') = n + 1
        /\ \A i \in 1..n : deltas'[i] = deltas[i]
        /\ deltas'[n + 1] = d
    BY <1>1, <1>2, Pushed DEF TypeOK
  <1> HIDE DEF n, d
  <1>4. Formed \in Nat /\ Passed = Formed + n /\ Passed' = Passed + 1
    BY <1>0, <1>3 DEF Passed, Formed, Written, TypeOK, n
  <1>5. DeltasInOrder'
    <2> SUFFICES ASSUME hd = "pump", Forwarding PROVE DeltasInOrder'
      BY <1>0 DEF DeltasInOrder
    <2>1. \/ TokenAt(d, Passed + 1) /\ sent = Passed + 1 /\ ~broke
          \/ d = DeltaErr /\ sent = Passed
      <3>1. gw = "send"
        BY <1>1
      <3> QED
        BY <3>1 DEF DeltasInOrder, d
    <2>2. ASSUME NEW i \in 1..Len(deltas')
          PROVE  \/ TokenAt(deltas'[i], Formed + i)
                 \/ i = Len(deltas') /\ deltas'[i] = DeltaErr /\ gw' = "closed"
      <3>1. CASE i \in 1..n
        BY <1>1, <1>3, <3>1 DEF DeltasInOrder, n
      <3>2. CASE i = n + 1
        BY <1>2, <1>3, <1>4, <2>1, <3>2
      <3> QED
        BY <1>3, <3>1, <3>2
    <2>3. gw' = "recv" => sent' = Passed' /\ ~broke'
      BY <1>1, <1>2, <1>4, <2>1
    <2> QED
      BY <1>0, <1>2, <2>2, <2>3 DEF DeltasInOrder, TokenAt
  <1>6. ClosedComplete'
    <2>1. gw' = "closed" => deltas'[Len(deltas')] = DeltaErr /\ Len(deltas') # 0
      BY <1>2, <1>3
    <2> QED
      BY <1>0, <2>1 DEF ClosedComplete, EndedWell
  <1>7. InHand' /\ Started'
    BY <1>0, <1>1, <1>2 DEF InHand, Started
  <1> QED
    BY <1>0, <1>5, <1>6, <1>7

\* What a step of the forwarder leaves alone, frames apart.
LEMMA ForwarderLeaves ==
    IInv /\ Forwarder =>
        /\ NothingYet' /\ CancelledByClient' /\ ReadInOrder' /\ Started'
        /\ UNCHANGED <<gateway, hd, gw, gwItem, sent, broke, cancelled, gone, client>>
        /\ fw \in {"range", "emit"} /\ fw' # "off"
        /\ hd \notin {"idle", "decode"}
        /\ hd = "pump" => \A i \in 1..Len(client) : ~Terminal(client[i])
  <1> SUFFICES ASSUME IInv, Forwarder
               PROVE  /\ hd \notin {"idle", "decode"}
                      /\ UNCHANGED <<gateway, hd, gw, gwItem, sent, broke, cancelled,
                                     gone, client>>
                      /\ fw \in {"range", "emit"} /\ fw' # "off"
    BY DEF IInv, Ordered, NothingYet, CancelledByClient, ReadInOrder, Started,
       FramesInOrder,
       Terminal, TokenAt
  <1> QED
    BY DEF IInv, Ordered, NothingYet, Forwarder, RangeDelta, RangeEnds, EmitFrame,
       EmitCancelled,
       gwVars

\* The next delta becomes the frame in hand: a token, or the mark of an error.
LEMMA Taking == IInv /\ RangeDelta => Ordered'
  <1> SUFFICES ASSUME IInv, RangeDelta PROVE Ordered'
    OBVIOUS
  <1> USE DEF IInv, Ordered
  <1>0. /\ NothingYet' /\ CancelledByClient' /\ ReadInOrder' /\ Started'
        /\ UNCHANGED <<gateway, hd, gw, gwItem, sent, broke, cancelled, gone, client>>
        /\ hd = "pump" => \A i \in 1..Len(client) : ~Terminal(client[i])
    BY ForwarderLeaves DEF Forwarder
  <1> DEFINE n == Len(deltas)
             d == deltas[1]
  <1>1. /\ fw = "range" /\ fwItem = <<>> /\ deltas # <<>> /\ deltas' = Tail(deltas)
        /\ fwItem' = <<FrameOf(Head(deltas))>> /\ fw' = "emit" /\ UNCHANGED frames
    BY DEF RangeDelta, InHand
  <1>2. /\ n \in Nat \ {0} /\ Len(deltas') = n - 1 /\ d \in Delta /\ Head(deltas) = d
        /\ \A i \in 1..(n - 1) : deltas'[i] = deltas[i + 1]
    BY <1>1, Popped DEF TypeOK
  <1>2a. deltas' \in Seq(Delta)
    BY <1>1, Popped DEF TypeOK
  <1> HIDE DEF n, d
  <1>3. fwItem' = <<FrameOf(d)>> /\ fwItem'[1] = FrameOf(d) /\ Len(fwItem') = 1
    BY <1>1, <1>2
  <1>4. /\ Formed \in Nat /\ Formed' = Formed + 1
        /\ Passed = Formed + n /\ Passed' = Passed
    BY <1>0, <1>1, <1>2, <1>3 DEF Passed, Formed, Written, TypeOK, n
  <1>5. /\ Terminal(FrameOf(d)) <=> d = DeltaErr
        /\ FrameOf(d) # Done /\ (d # DeltaErr => FrameOf(d) = d)
    BY <1>2, Forming
  <1>6. Forwarding /\ (Forwarding' <=> d # DeltaErr)
    BY <1>1, <1>3, <1>5 DEF Forwarding, Terminal
  <1>7. ASSUME hd = "pump", NEW i \in 1..n
        PROVE  \/ TokenAt(deltas[i], Formed + i)
               \/ i = n /\ deltas[i] = DeltaErr /\ gw = "closed"
    BY <1>6, <1>7 DEF DeltasInOrder, n
  <1>8. FramesInOrder'
    <2>1. hd = "pump" => TokenAt(fwItem'[1], Formed') \/ Terminal(fwItem'[1])
      <3> SUFFICES ASSUME hd = "pump", d # DeltaErr PROVE TokenAt(d, Formed + 1)
        BY <1>3, <1>4, <1>5
      <3>1. 1 \in 1..n /\ deltas[1] = d
        BY <1>2 DEF d
      <3> QED
        BY <1>7, <3>1
    <2> QED
      BY <1>0, <1>1, <2>1 DEF FramesInOrder, TokenAt, Terminal
  <1>9. DeltasInOrder'
    <2>1. ASSUME hd = "pump", NEW i \in 1..Len(deltas')
          PROVE  \/ TokenAt(deltas'[i], Formed' + i)
                 \/ i = Len(deltas') /\ deltas'[i] = DeltaErr /\ gw = "closed"
      <3>1. i + 1 \in 1..n /\ deltas'[i] = deltas[i + 1] /\ Formed' + i = Formed + (i + 1)
            /\ (i + 1 = n => i = Len(deltas'))
        BY <1>2, <1>4
      <3>2. \/ TokenAt(deltas[i + 1], Formed + (i + 1))
            \/ i + 1 = n /\ deltas[i + 1] = DeltaErr /\ gw = "closed"
        BY <1>7, <2>1, <3>1
      <3> QED
        BY <3>1, <3>2
    <2> QED
      BY <1>0, <1>4, <1>6, <2>1 DEF DeltasInOrder, TokenAt
  <1>10. ClosedComplete'
    <2> SUFFICES ASSUME hd = "pump", d # DeltaErr, gw = "closed", ~gone,
                        ~(Passed = sent /\ EndedWell)
                 PROVE  deltas' # <<>> /\ deltas'[Len(deltas')] = DeltaErr
      BY <1>0, <1>4, <1>6 DEF ClosedComplete, EndedWell
    <2>1. deltas[n] = DeltaErr
      BY <1>6 DEF ClosedComplete, EndedWell, n
    <2>2. n # 1
      BY <2>1 DEF d
    <2>3. n - 1 \in 1..(n - 1) /\ (n - 1) + 1 = n
      BY <1>2, <2>2
    <2>4. deltas'[n - 1] = DeltaErr
      BY <1>2, <2>1, <2>3
    <2>5. Len(deltas') # 0
      BY <1>2, <2>2
    <2> QED
      BY <1>2, <2>4, <2>5
  <1>11. DoneBehindAll'
    BY <1>0, <1>1, <1>3, <1>5 DEF DoneBehindAll, BehindAll, EndedWell
  <1>12. InHand'
    BY <1>0, <1>1, <1>3 DEF InHand
  <1> QED
    BY <1>0, <1>8, <1>9, <1>10, <1>11, <1>12

\* When the deltas have ended the mark of completion is formed.
LEMMA Ending == IInv /\ RangeEnds => Ordered'
  <1> SUFFICES ASSUME IInv, RangeEnds PROVE Ordered'
    OBVIOUS
  <1> USE DEF IInv, Ordered
  <1>0. /\ NothingYet' /\ CancelledByClient' /\ ReadInOrder' /\ Started'
        /\ UNCHANGED <<gateway, hd, gw, gwItem, sent, broke, cancelled, gone, client>>
        /\ hd = "pump" => \A i \in 1..Len(client) : ~Terminal(client[i])
    BY ForwarderLeaves DEF Forwarder
  <1>1. /\ fw = "range" /\ fwItem = <<>> /\ deltas = <<>> /\ gw = "closed"
        /\ fwItem' = <<Done>> /\ fw' = "emit" /\ UNCHANGED <<deltas, frames>>
    BY DEF RangeEnds, InHand
  <1>2. fwItem'[1] = Done /\ Len(fwItem') = 1 /\ fwItem' # <<>>
    BY <1>1
  <1>3. Terminal(Done) /\ ~Forwarding' /\ Forwarding
    BY <1>1, <1>2 DEF Terminal, Forwarding
  <1>4. Formed \in Nat /\ Formed' = Formed + 1 /\ Passed = Formed
    BY <1>0, <1>1, <1>2 DEF Passed, Formed, Written, TypeOK
  <1>5. hd = "pump" => gone \/ BehindAll(Formed)'
    BY <1>0, <1>1, <1>3, <1>4 DEF ClosedComplete, BehindAll, EndedWell
  <1>6. FramesInOrder'
    BY <1>0, <1>1, <1>2, <1>3 DEF FramesInOrder, TokenAt, Terminal
  <1>7. DeltasInOrder' /\ ClosedComplete'
    BY <1>3 DEF DeltasInOrder, ClosedComplete, EndedWell
  <1>8. DoneBehindAll'
    BY <1>0, <1>1, <1>5 DEF DoneBehindAll, BehindAll, EndedWell
  <1> QED
    BY <1>0, <1>1, <1>2, <1>6, <1>7, <1>8 DEF InHand

\* The frame in hand goes behind the other frames, or is dropped.
LEMMA Emitting == IInv /\ (EmitFrame \/ EmitCancelled) => Ordered'
  <1> SUFFICES ASSUME IInv, EmitFrame \/ EmitCancelled PROVE Ordered'
    OBVIOUS
  <1> USE DEF IInv, Ordered
  <1>0. /\ NothingYet' /\ CancelledByClient' /\ ReadInOrder' /\ Started'
        /\ UNCHANGED <<gateway, hd, gw, gwItem, sent, broke, cancelled, gone, client>>
        /\ hd = "pump" => \A i \in 1..Len(client) : ~Terminal(client[i])
    BY ForwarderLeaves DEF Forwarder
  <1>1. /\ fw = "emit" /\ UNCHANGED deltas /\ fwItem' = <<>>
        /\ fw' \in {"closed", "range"}
    BY DEF EmitFrame, EmitCancelled
  <1>2. InHand'
    BY <1>0, <1>1 DEF InHand
  <1>3. CASE EmitCancelled
    <2>1. fw' = "closed" /\ UNCHANGED frames
      BY <1>3 DEF EmitCancelled
    <2> QED
      BY <1>0, <1>1, <1>2, <2>1 DEF FramesInOrder, DeltasInOrder, ClosedComplete,
         EndedWell,
         DoneBehindAll, BehindAll, EndedWell, Forwarding, Terminal, TokenAt
  <1>4. CASE EmitFrame
    <2> DEFINE n == Len(frames)
               f == fwItem[1]
    <2>1. fwItem = <<f>> /\ f \in Frame /\ Len(fwItem) = 1
      BY <1>1, OneItem DEF TypeOK, InHand
    <2>2. /\ frames' = frames \o <<f>>
          /\ fw' = IF Terminal(f) THEN "closed" ELSE "range"
      BY <1>4, <2>1 DEF EmitFrame
    <2>3. /\ n \in Nat /\ Len(frames') = n + 1
          /\ \A i \in 1..n : frames'[i] = frames[i]
          /\ frames'[n + 1] = f
      BY <2>1, <2>2, Pushed DEF TypeOK
    <2> HIDE DEF n, f
    <2>4. /\ Formed' = Formed /\ Passed' = Passed /\ Formed = Len(client) + (n + 1)
      BY <1>0, <1>1, <2>1, <2>3 DEF Passed, Formed, Written, TypeOK, n
    <2>5. Forwarding' <=> Forwarding
      BY <1>1, <2>2 DEF Forwarding, Terminal, f
    <2>6. FramesInOrder'
      <3>1. ASSUME hd = "pump", NEW i \in 1..Len(frames')
            PROVE  \/ TokenAt(frames'[i], Len(client) + i)
                   \/ i = Len(frames') /\ Terminal(frames'[i]) /\ fw' = "closed"
        <4>1. CASE i \in 1..n
          BY <1>1, <2>3, <3>1, <4>1 DEF FramesInOrder, n
        <4>2. CASE i = n + 1
          <5>1. TokenAt(f, Formed) \/ Terminal(f)
            BY <1>1, <3>1 DEF FramesInOrder, f
          <5> QED
            BY <2>2, <2>3, <2>4, <4>2, <5>1
        <4> QED
          BY <2>3, <4>1, <4>2
      <3> QED
        BY <1>0, <1>1, <3>1 DEF FramesInOrder, TokenAt, Terminal
    <2>7. DeltasInOrder' /\ ClosedComplete'
      BY <1>0, <1>1, <2>4, <2>5 DEF DeltasInOrder, ClosedComplete, EndedWell, TokenAt
    <2>8. DoneBehindAll'
      <3>1. ASSUME hd = "pump", NEW i \in 1..Len(frames'), frames'[i] = Done
            PROVE  gone \/ BehindAll(Len(client) + i)
        <4>1. CASE i \in 1..n
          BY <2>3, <3>1, <4>1 DEF DoneBehindAll, BehindAll, EndedWell, n
        <4>2. CASE i = n + 1
          <5>1. f = Done => gone \/ BehindAll(Formed)
            BY <1>1, <3>1 DEF DoneBehindAll, BehindAll, EndedWell, f
          <5> QED
            BY <2>3, <2>4, <3>1, <4>2, <5>1
        <4> QED
          BY <2>3, <4>1, <4>2
      <3> QED
        BY <1>0, <1>1, <3>1 DEF DoneBehindAll, BehindAll, EndedWell
    <2> QED
      BY <1>0, <1>2, <2>6, <2>7, <2>8
  <1> QED
    BY <1>3, <1>4

\* Nothing has been said at the start.
LEMMA InitIInv == Init => IInv
  <1> SUFFICES ASSUME Init PROVE IInv
    OBVIOUS
  <1>1. TypeOK
    <2>1. 0 \in 0..Len(Tokens) /\ 0 <= FrameBuffer /\ GatewayBuffer \in Nat
      BY Marks DEF GatewayBuffer
    <2>2. <<>> \in Seq(Delta) /\ <<>> \in Seq(Frame) /\ Len(<<>>) = 0
      OBVIOUS
    <2>3. /\ deltas \in Seq(Delta) /\ Len(deltas) <= GatewayBuffer + 1
          /\ frames \in Seq(Frame) /\ Len(frames) <= FrameBuffer
          /\ client \in Seq(Frame) /\ sent \in 0..Len(Tokens)
      BY <2>1, <2>2 DEF Init
    <2> QED
      BY <2>3 DEF Init, TypeOK
  <1>2. 1..Len(client) = {}
    BY DEF Init
  <1> QED
    BY <1>1, <1>2 DEF Init, IInv, Ordered, NothingYet, Started, InHand, CancelledByClient,
       ReadInOrder, FramesInOrder, DeltasInOrder, ClosedComplete, DoneBehindAll,
       BehindAll, EndedWell

\* Every step, and every stutter, preserves the invariant.
LEMMA Inductive == IInv /\ [Next]_vars => IInv'
  <1> SUFFICES ASSUME IInv, [Next]_vars PROVE IInv'
    OBVIOUS
  <1>1. TypeOK'
    BY TypesStep DEF IInv, Ordered
  <1>2. CASE UNCHANGED vars
    <2>1. UNCHANGED <<gateway, hd, gw, gwItem, sent, broke, deltas, fw, fwItem, frames,
    cancelled, gone,
                      client>>
      BY <1>2 DEF vars, gwVars, fwVars
    <2>2. Formed' = Formed /\ Passed' = Passed /\ (Forwarding' <=> Forwarding)
      BY <2>1 DEF Formed, Passed, Written, Forwarding, Terminal
    <2> QED
      BY <1>1, <2>1, <2>2 DEF IInv, Ordered, NothingYet, Started, InHand,
         CancelledByClient, ReadInOrder, FramesInOrder, DeltasInOrder, ClosedComplete,
         DoneBehindAll, BehindAll, EndedWell
  <1>3. CASE Next
    <2>1. Ordered'
      BY <1>3, Opening, Pumping, Leaving, Receiving, Sending, Taking, Ending, Emitting
         DEF Next, Handler, Gateway, Forwarder
    <2> QED
      BY <1>1, <2>1 DEF IInv
  <1> QED
    BY <1>2, <1>3

\* A prefix of the reply, token by token.
LEMMA Prefixes ==
    ASSUME NEW m \in 0..Len(Tokens)
    PROVE  /\ SubSeq(Tokens, 1, m) \in Seq(STRING) /\ Len(SubSeq(Tokens, 1, m)) = m
           /\ \A i \in 1..m : SubSeq(Tokens, 1, m)[i] = Tokens[i]
  BY ChatAssumption

\* The client has read the beginning of the reply and at most a mark of its end.
LEMMA ReadIsPrefix == IInv => PrefixRead
  <1> SUFFICES ASSUME IInv PROVE PrefixRead
    OBVIOUS
  <1> DEFINE k == Len(client)
  <1>1. /\ client \in Seq(Frame) /\ k \in Nat
        /\ Tokens \in Seq(STRING) /\ Len(Tokens) \in Nat
    BY ChatAssumption DEF IInv, TypeOK
  <1>2. \A i \in 1..k : TokenAt(client[i], i) \/ (i = k /\ Terminal(client[i]))
    BY DEF IInv, Ordered, ReadInOrder
  <1>3. CASE \A i \in 1..k : TokenAt(client[i], i)
    <2>1. k <= Len(Tokens)
      BY <1>1, <1>3 DEF TokenAt
    <2>2. client = SubSeq(Tokens, 1, k)
      BY <1>1, <1>3, <2>1 DEF TokenAt
    <2>3. k \in 0..Len(Tokens)
      BY <1>1, <2>1
    <2> QED
      BY <2>2, <2>3 DEF PrefixRead
  <1>4. CASE ~\A i \in 1..k : TokenAt(client[i], i)
    <2>1. k \in 1..k /\ Terminal(client[k])
      BY <1>1, <1>2, <1>4
    <2>2. \A i \in 1..(k - 1) : TokenAt(client[i], i)
      BY <1>1, <1>2
    <2>3. k - 1 \in 0..Len(Tokens)
      BY <1>1, <2>1, <2>2 DEF TokenAt
    <2> DEFINE reply == SubSeq(Tokens, 1, k - 1)
    <2>4. /\ reply \in Seq(STRING) /\ Len(reply) = k - 1
          /\ \A i \in 1..(k - 1) : reply[i] = client[i]
      <3>1. \A i \in 1..(k - 1) : Tokens[i] = client[i]
        BY <2>2 DEF TokenAt
      <3>2. /\ reply \in Seq(STRING) /\ Len(reply) = k - 1
            /\ \A i \in 1..(k - 1) : reply[i] = Tokens[i]
        BY <2>3, Prefixes
      <3> QED
        BY <3>1, <3>2
    <2> HIDE DEF reply
    <2>5. client = Append(reply, client[k])
      BY <1>1, <2>1, <2>4
    <2>6. client[k] = Done \/ client[k] = Error
      BY <2>1 DEF Terminal
    <2> QED
      BY <2>3, <2>5, <2>6 DEF PrefixRead, reply
  <1> QED
    BY <1>3, <1>4

\* Whoever is told that the reply is complete has all that the source sent of it,
\* unless gone.
LEMMA ToldIsComplete == IInv => DoneMeansComplete
  <1> SUFFICES ASSUME IInv, NEW j \in DOMAIN client, client[j] = Done, ~gone
               PROVE  EndedWell /\ client = Append(SubSeq(Tokens, 1, sent), Done)
    BY DEF DoneMeansComplete
  <1> DEFINE k == Len(client)
  <1>1. /\ client \in Seq(Frame) /\ k \in Nat /\ j \in 1..k
        /\ sent \in 0..Len(Tokens) /\ Len(Tokens) \in Nat
    BY ChatAssumption DEF IInv, TypeOK
  <1>2. EndedWell /\ j = sent + 1
    BY <1>1 DEF IInv, Ordered, DoneBehindAll, BehindAll
  <1>3. j = k
    <2>1. TokenAt(client[j], j) \/ j = k
      BY <1>1 DEF IInv, Ordered, ReadInOrder
    <2> QED
      BY <2>1, Marks
  <1>4. \A i \in 1..sent : client[i] = Tokens[i]
    BY <1>1, <1>2, <1>3 DEF IInv, Ordered, ReadInOrder, TokenAt
  <1> DEFINE reply == SubSeq(Tokens, 1, sent)
  <1>5. /\ reply \in Seq(STRING) /\ Len(reply) = sent
        /\ \A i \in 1..sent : reply[i] = client[i]
    BY <1>1, <1>4, Prefixes
  <1> HIDE DEF reply
  <1>6. client = Append(reply, Done)
    BY <1>1, <1>2, <1>3, <1>5
  <1> QED
    BY <1>2, <1>6 DEF reply

\* Chat, TypeOK: whatever goroutine runs when, no channel overruns its buffer, for
\* any size of the frame buffer.
THEOREM TypeCorrect == Spec => []TypeOK
  <1>1. IInv => TypeOK
    BY DEF IInv
  <1> QED
    BY <1>1, InitIInv, Inductive, PTL DEF Spec

\* Chat, StreamFaithful: through the gateway's channel, forwardFrames and pumpFrames
\* no token is lost, repeated or overtaken, for every reply, gateway and buffer; and a
\* client that stays reads Done only behind all that a source which ended well has
\* sent, the whole reply over the gateway in memory.
THEOREM StreamsAreFaithful == Spec => []StreamFaithful
  <1>1. IInv => StreamFaithful
    BY ReadIsPrefix, ToldIsComplete DEF StreamFaithful
  <1> QED
    BY <1>1, InitIInv, Inductive, PTL DEF Spec
=============================================================================
