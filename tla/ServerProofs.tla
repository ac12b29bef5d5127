---------------------------- MODULE ServerProofs ----------------------------
(***************************************************************************)
(* Safety of the running server, for any requests and calls: the server    *)
(* is a process of Lifecycle (of which it says more first), the keys of    *)
(* the tables are unique, and what a client is told is true.               *)
(***************************************************************************)
EXTENDS Server, FiniteSetTheorems, TLAPS

----------------------------------------------------------------------------
(***************************************************************************)
(* Safety of the process, for any requests and any environment: each       *)
(* phase of main fixes what is open, and only two of them have requests.   *)
(***************************************************************************)

\* The resources held in each phase of main.
OpenByPhase ==
    /\ phase \in {"config", "open"} => open = {}
    /\ phase \in {"ping", "cache"} => open = {"db"}
    /\ phase = "start" => "db" \in open /\ "consumer" \notin open
    /\ phase \in {"serve", "drain", "stop"} => "db" \in open
    /\ phase = "close" => "db" \in open /\ "consumer" \notin open
    /\ phase = "redis" => open \subseteq {"redis"}

\* Requests are accepted while main serves, and waited for before it goes on.
ServedByPhase == Running /\ phase \notin {"serve", "drain"} => inFlight = {}

IInv ==
    /\ LifecycleTypeOK
    /\ OpenByPhase
    /\ ServedByPhase
    /\ CleanExit

\* What the theorems are for follows from it.
LEMMA Strong == IInv => PoolOutlivesHandlers
  BY DEF IInv, LifecycleTypeOK, OpenByPhase, ServedByPhase, PoolOutlivesHandlers,
         Running

\* A process starts with nothing open and nothing in flight.
LEMMA InitHolds == LifecycleInit => IInv
  BY DEF LifecycleInit, IInv, LifecycleTypeOK, OpenByPhase, ServedByPhase,
         CleanExit, Running, Resource

\* LoadConfig and Wire open the resources one by one.
LEMMA WiringKeeps ==
  ASSUME LifecycleAssumption, IInv,
         LoadConfig \/ OpenDB \/ PingDB \/ BuildBookCache \/ StartConsumer
  PROVE  IInv'
  <1> USE DEF IInv, LifecycleTypeOK, OpenByPhase, ServedByPhase, CleanExit,
              Running, Resource
  <1>1. CASE LoadConfig
    <2>1. PICK env \in Environment :
             \/ Valid(env) /\ phase' = "open" /\ redisURL' = env.redis /\ code' = code
             \/ ~Valid(env) /\ Exit("1") /\ redisURL' = redisURL
      BY <1>1 DEF LoadConfig
    <2>2. env.redis \in {"none", "good", "bad"}
      BY LifecycleAssumption DEF LifecycleAssumption
    <2> QED  BY <1>1, <2>1, <2>2 DEF LoadConfig, Exit
  <1>2. CASE OpenDB
    BY <1>2 DEF OpenDB
  <1>3. CASE PingDB
    BY <1>3 DEF PingDB, Exit
  <1>4. CASE BuildBookCache
    BY <1>4 DEF BuildBookCache, Exit
  <1>5. CASE StartConsumer
    BY <1>5 DEF StartConsumer
  <1> QED  BY <1>1, <1>2, <1>3, <1>4, <1>5

\* Serving and draining change what is in flight; no step closes anything.
LEMMA ServingKeeps ==
  ASSUME IInv,
         \/ GracefulShutdown \/ Drained \/ ShutdownTimesOut
         \/ Signal \/ KilledBySignal \/ ListenFails
         \/ \E r \in Request : Accept(r) \/ Answer(r)
  PROVE  IInv'
  <1> USE DEF IInv, LifecycleTypeOK, OpenByPhase, ServedByPhase, CleanExit,
              Running, Resource
  <1>1. CASE GracefulShutdown \/ Drained
    BY <1>1 DEF GracefulShutdown, Drained
  <1>2. CASE ShutdownTimesOut \/ KilledBySignal \/ ListenFails
    BY <1>2 DEF ShutdownTimesOut, KilledBySignal, ListenFails, Exit
  <1>3. CASE Signal
    BY <1>3 DEF Signal
  <1>4. ASSUME NEW r \in Request, Accept(r)
        PROVE  IInv'
    BY <1>4 DEF Accept
  <1>5. ASSUME NEW r \in Request, Answer(r)
        PROVE  IInv'
    BY <1>5 DEF Answer
  <1> QED  BY <1>1, <1>2, <1>3, <1>4, <1>5

\* Close releases in the order consumer, pool, redis client.
LEMMA ClosingKeeps ==
  ASSUME IInv, StopConsumer \/ CloseDB \/ CloseRedis
  PROVE  IInv'
  <1> USE DEF IInv, LifecycleTypeOK, OpenByPhase, ServedByPhase, CleanExit,
              Running, Resource
  <1>1. CASE StopConsumer
    BY <1>1 DEF StopConsumer
  <1>2. CASE CloseDB
    BY <1>2 DEF CloseDB
  <1>3. CASE CloseRedis
    BY <1>3 DEF CloseRedis, Exit
  <1> QED  BY <1>1, <1>2, <1>3

\* Every step of the process, and every stutter, preserves the invariant.
LEMMA InductiveStep ==
  ASSUME LifecycleAssumption
  PROVE  IInv /\ [LifecycleNext]_lifecycleVars => IInv'
  <1> SUFFICES ASSUME IInv, [LifecycleNext]_lifecycleVars
               PROVE  IInv'
    OBVIOUS
  <1>1. CASE UNCHANGED lifecycleVars
    BY <1>1 DEF lifecycleVars, IInv, LifecycleTypeOK, OpenByPhase, ServedByPhase,
                CleanExit, Running
  <1>2. CASE LifecycleNext
    BY <1>2, WiringKeeps, ServingKeeps, ClosingKeeps
    DEF LifecycleNext, Main, Outside
  <1> QED  BY <1>1, <1>2

\* The invariant holds in every reachable state.
LEMMA Invariance == LifecycleSpec => []IInv
  BY LifecycleAssumption, InitHolds, InductiveStep, PTL DEF LifecycleSpec

\* LifecycleTypeOK: the variables keep their types, and a code means the end.
THEOREM ProcessTypeCorrect == LifecycleSpec => []LifecycleTypeOK
  BY Invariance, PTL DEF IInv

\* PoolOutlivesHandlers: no handler, and not the consumer, is left without a pool.
THEOREM PoolIsThere == LifecycleSpec => []PoolOutlivesHandlers
  BY Invariance, Strong, PTL

\* CleanExit: exit code 0 leaves nothing unanswered and nothing open.
THEOREM ExitIsClean == LifecycleSpec => []CleanExit
  BY Invariance, PTL DEF IInv

\* ExitReleases: a wiring that fails leaves nothing open, whichever step it is, and
\* nor does an exit with code 0.
THEOREM ExitsRelease == LifecycleSpec => ExitReleases
  <1> DEFINE Release == (phase \in {"config", "open", "ping", "cache", "start"}
                           /\ code' = "1") => (open' = {})
  <1>1. IInv /\ [LifecycleNext]_lifecycleVars => [CleanExit' /\ Release]_lifecycleVars
    <2> SUFFICES ASSUME IInv, LifecycleNext PROVE CleanExit' /\ Release
      OBVIOUS
    <2>0. CleanExit'
      BY InductiveStep, LifecycleAssumption DEF IInv
    <2> SUFFICES Release
      BY <2>0
    <2> USE DEF IInv, LifecycleTypeOK, OpenByPhase
    <2>1. CASE LoadConfig \/ OpenDB \/ PingDB \/ BuildBookCache \/ StartConsumer
      BY <2>1 DEF LoadConfig, OpenDB, PingDB, BuildBookCache, StartConsumer, Exit
    <2>2. CASE \/ GracefulShutdown \/ Drained \/ ShutdownTimesOut
               \/ StopConsumer \/ CloseDB \/ CloseRedis
      BY <2>2 DEF GracefulShutdown, Drained, ShutdownTimesOut, StopConsumer,
                  CloseDB, CloseRedis
    <2>3. CASE Signal \/ KilledBySignal \/ ListenFails
      BY <2>3 DEF Signal, KilledBySignal, ListenFails, Exit
    <2>4. CASE \E r \in Request : Accept(r) \/ Answer(r)
      BY <2>4 DEF Accept, Answer, Running
    <2> QED  BY <2>1, <2>2, <2>3, <2>4 DEF LifecycleNext, Main, Outside
  <1> QED  BY <1>1, Invariance, PTL DEF LifecycleSpec, ExitReleases

----------------------------------------------------------------------------
(* What the operators of Http do to the fields of a response. *)

\* What these handlers return, and what is written for it.
Refusal == {"invalid_member", "invalid_category", "duplicate_email",
            "duplicate_category"}
Error == Refusal \cup {"db", "write"}
Body == Refusal \cup {"ok", "created", "cut", "internal_error"}

ResponseType ==
    [sent : Nat, bodies : Seq(Body), status : Nat, wroteHeader : BOOLEAN,
     err : Error \cup {"none"}, logged : Nat]

\* A new response is a response.
LEMMA NewIs == NewResponse \in ResponseType
  <1>1. <<>> \in Seq(Body)
    OBVIOUS
  <1>2. FALSE \in BOOLEAN /\ 0 \in Nat /\ 200 \in Nat
    OBVIOUS
  <1>3. "none" \in Error \cup {"none"}
    OBVIOUS
  <1> QED  BY <1>1, <1>2, <1>3, Zenon DEF NewResponse, ResponseType

\* Handle touches the holder only.
LEMMA HandleIs ==
  ASSUME NEW w \in ResponseType, NEW err \in Error
  PROVE  /\ Handle(w, err) \in ResponseType
         /\ Handle(w, err).err = err
         /\ Handle(w, err).sent = w.sent
         /\ Handle(w, err).wroteHeader = w.wroteHeader
         /\ Handle(w, err).status = w.status
         /\ Handle(w, err).bodies = w.bodies
  BY DEF Handle, ResponseType

\* The first status goes out, a later one does not.
LEMMA SendHeadIs ==
  ASSUME NEW w \in ResponseType, NEW v \in Nat
  PROVE  /\ SendHead(w, v) \in ResponseType
         /\ SendHead(w, v).sent = IF w.sent = 0 THEN v ELSE w.sent
         /\ SendHead(w, v).err = w.err
         /\ SendHead(w, v).wroteHeader = w.wroteHeader
         /\ SendHead(w, v).status = w.status
         /\ SendHead(w, v).bodies = w.bodies
         /\ SendHead(w, v).logged = w.logged
  BY DEF SendHead, ResponseType

\* The recorder keeps the first status as well.
LEMMA WriteHeaderIs ==
  ASSUME NEW w \in ResponseType, NEW v \in Nat
  PROVE  /\ WriteHeader(w, v) \in ResponseType
         /\ WriteHeader(w, v).sent = IF w.sent = 0 THEN v ELSE w.sent
         /\ WriteHeader(w, v).err = w.err
         /\ WriteHeader(w, v).wroteHeader
         /\ WriteHeader(w, v).status = IF w.wroteHeader THEN w.status ELSE v
         /\ WriteHeader(w, v).bodies = w.bodies
  <1> DEFINE x == IF w.wroteHeader THEN w
                  ELSE [w EXCEPT !.status = v, !.wroteHeader = TRUE]
  <1>1. /\ x \in ResponseType /\ x.sent = w.sent /\ x.err = w.err
        /\ x.wroteHeader /\ x.status = IF w.wroteHeader THEN w.status ELSE v
        /\ x.bodies = w.bodies
    BY DEF ResponseType
  <1>2. WriteHeader(w, v) = SendHead(x, v)
    BY DEF WriteHeader
  <1> HIDE DEF x
  <1> QED  BY <1>1, <1>2, SendHeadIs

\* A body is appended, behind a head if there was none.
LEMMA WriteBodyIs ==
  ASSUME NEW w \in ResponseType, NEW b \in Body
  PROVE  /\ WriteBody(w, b) \in ResponseType
         /\ WriteBody(w, b).sent = IF w.sent = 0 THEN 200 ELSE w.sent
         /\ WriteBody(w, b).err = w.err
         /\ WriteBody(w, b).wroteHeader
         /\ WriteBody(w, b).status = w.status
         /\ WriteBody(w, b).bodies = Append(w.bodies, b)
  <1> DEFINE x == SendHead(w, 200)
             s == Append(x.bodies, b)
             y == [x EXCEPT !.wroteHeader = TRUE, !.bodies = s]
  <1>1. /\ x \in ResponseType /\ x.sent = IF w.sent = 0 THEN 200 ELSE w.sent
        /\ x.err = w.err /\ x.status = w.status /\ x.bodies = w.bodies
    BY SendHeadIs
  <1>2. WriteBody(w, b) = y
    BY DEF WriteBody
  <1> HIDE DEF x
  <1>3. s \in Seq(Body) /\ s = Append(w.bodies, b)
    BY <1>1 DEF ResponseType
  <1> HIDE DEF s
  <1>4. /\ y \in ResponseType /\ y.sent = x.sent /\ y.err = x.err
        /\ y.status = x.status /\ y.wroteHeader /\ y.bodies = s
    BY <1>1, <1>3 DEF ResponseType
  <1> QED  BY <1>1, <1>2, <1>3, <1>4

\* WriteJSON is a head and a body.
LEMMA WriteJSONIs ==
  ASSUME NEW w \in ResponseType, NEW v \in Nat \ {0}, NEW b \in Body
  PROVE  /\ WriteJSON(w, v, b) \in ResponseType
         /\ WriteJSON(w, v, b).sent = IF w.sent = 0 THEN v ELSE w.sent
         /\ WriteJSON(w, v, b).err = w.err
         /\ WriteJSON(w, v, b).wroteHeader
         /\ WriteJSON(w, v, b).status = IF w.wroteHeader THEN w.status ELSE v
         /\ WriteJSON(w, v, b).bodies = Append(w.bodies, b)
  <1> DEFINE x == WriteHeader(w, v)
  <1>1. /\ x \in ResponseType /\ x.sent = IF w.sent = 0 THEN v ELSE w.sent
        /\ x.err = w.err /\ x.status = IF w.wroteHeader THEN w.status ELSE v
        /\ x.bodies = w.bodies
    BY WriteHeaderIs
  <1>2. WriteJSON(w, v, b) = WriteBody(x, b)
    BY DEF WriteJSON
  <1>3. x.sent # 0
    BY <1>1 DEF ResponseType
  <1> HIDE DEF x
  <1> QED  BY <1>1, <1>2, <1>3, WriteBodyIs, SMTT(30)

\* The statuses of the errors that these handlers return.
LEMMA Statuses ==
  /\ Registered("invalid_member") = 400
  /\ Registered("invalid_category") = 400
  /\ Registered("duplicate_email") = 409
  /\ Registered("duplicate_category") = 409
  /\ Registered("db") = 0
  /\ Registered("write") = 0
  BY DEF Registered

----------------------------------------------------------------------------
(* The responses a handler leaves, and what the stack makes of them. *)

\* An error before any write; a reply, or the 500 of a panic; a reply cut short.
Unsent(w) == /\ w.sent = 0 /\ w.bodies = <<>> /\ ~w.wroteHeader
             /\ w.err \in Refusal \cup {"db"}
Sent(w) == /\ w.sent \in {200, 201, 500} /\ w.status = w.sent /\ w.wroteHeader
           /\ w.err = "none" /\ Len(w.bodies) <= 1
Cut(w) == /\ w.sent = 201 /\ w.status = 201 /\ w.wroteHeader
          /\ w.err = "write" /\ w.bodies = <<"cut">>

Finished(w) == FinishRequest(LogLine(Translate(w)))

\* The fields of a new response.
LEMMA NewFields ==
  /\ NewResponse.sent = 0 /\ NewResponse.bodies = <<>>
  /\ NewResponse.wroteHeader = FALSE /\ NewResponse.err = "none"
  BY DEF NewResponse

\* Before any write, an error leaves the response unsent.
LEMMA FailNew ==
  ASSUME NEW err \in Refusal \cup {"db"}
  PROVE  /\ Handle(NewResponse, err) \in ResponseType
         /\ Unsent(Handle(NewResponse, err))
         /\ Handle(NewResponse, err).err = err
  <1>1. err \in Error
    BY DEF Error
  <1> QED  BY <1>1, NewIs, HandleIs, NewFields DEF Unsent

\* A first write is a reply.
LEMMA WriteNew ==
  ASSUME NEW v \in {200, 201}, NEW b \in Body
  PROVE  /\ WriteJSON(NewResponse, v, b) \in ResponseType
         /\ Sent(WriteJSON(NewResponse, v, b))
         /\ WriteJSON(NewResponse, v, b).sent = v
         /\ WriteJSON(NewResponse, v, b).bodies = <<b>>
  <1> DEFINE x == WriteJSON(NewResponse, v, b)
  <1>1. /\ x \in ResponseType /\ x.sent = v /\ x.err = "none"
        /\ x.wroteHeader /\ x.status = v /\ x.bodies = Append(<<>>, b)
    BY NewIs, NewFields, WriteJSONIs
  <1> HIDE DEF x
  <1>2. x.bodies = <<b>>
    BY <1>1
  <1>3. Len(x.bodies) <= 1
    BY <1>2
  <1>4. Sent(x)
    BY <1>1, <1>3 DEF Sent
  <1> QED  BY <1>1, <1>2, <1>4 DEF x

\* A reply whose body breaks off.
LEMMA CutNew ==
  LET w == Handle(WriteJSON(NewResponse, 201, "cut"), "write")
  IN w \in ResponseType /\ Cut(w)
  <1> DEFINE x == WriteJSON(NewResponse, 201, "cut")
  <1>1. x \in ResponseType /\ Sent(x) /\ x.sent = 201 /\ x.bodies = <<"cut">>
    BY WriteNew DEF Body
  <1> HIDE DEF x
  <1>2. "write" \in Error
    BY DEF Error
  <1>3. Handle(x, "write") \in ResponseType /\ Cut(Handle(x, "write"))
    BY <1>1, <1>2, HandleIs DEF Cut, Sent
  <1> QED  BY <1>3 DEF x

\* A panic before any write.
LEMMA RecoverNew == Recover(NewResponse) \in ResponseType /\ Sent(Recover(NewResponse))
  <1> DEFINE x == Recover(NewResponse)
  <1> DEFINE w == NewResponse
  <1>1. x = WriteHeader(w, 500) /\ 500 \in Nat
    BY DEF Recover
  <1>2. w \in ResponseType /\ w.sent = 0 /\ w.err = "none" /\ ~w.wroteHeader /\ w.bodies = <<>>
    BY NewIs, NewFields
  <1> HIDE DEF x, w
  <1>3. /\ x \in ResponseType /\ x.sent = 500 /\ x.err = "none" /\ x.wroteHeader
        /\ x.status = 500 /\ x.bodies = <<>>
    <2>1. w \in ResponseType /\ 500 \in Nat \ {0}
      BY <1>2
    <2>2. LET h == WriteHeader(w, 500)
          IN  /\ h \in ResponseType /\ h.wroteHeader
              /\ h.sent = IF w.sent = 0 THEN 500 ELSE w.sent
              /\ h.err = w.err /\ h.bodies = w.bodies
              /\ h.status = IF w.wroteHeader THEN w.status ELSE 500
      BY <2>1, WriteHeaderIs
    <2>3. /\ x \in ResponseType /\ x.wroteHeader
          /\ x.sent = IF w.sent = 0 THEN 500 ELSE w.sent
          /\ x.err = w.err /\ x.bodies = w.bodies
          /\ x.status = IF w.wroteHeader THEN w.status ELSE 500
      BY <1>1, <2>2
    <2> QED
      BY <1>2, <2>3
  <1>4. Len(x.bodies) <= 1
    BY <1>3
  <1> QED  BY <1>3, <1>4 DEF Sent, x

\* The domain-error middleware writes an unsent error.
LEMMA TranslateUnsent ==
  ASSUME NEW w \in ResponseType, Unsent(w)
  PROVE  LET x == Translate(w)
         IN /\ x \in ResponseType /\ x.sent = x.status /\ Len(x.bodies) = 1
            /\ x.sent \in {400, 409, 500}
            /\ x.sent \in {400, 409} => w.err \in Refusal
            /\ x.sent = 409 => w.err \in {"duplicate_email", "duplicate_category"}
  <1> DEFINE v == IF Lookup(w.err).ok THEN Registered(w.err) ELSE 500
             b == IF Lookup(w.err).ok THEN w.err ELSE "internal_error"
  <1>1. Lookup(w.err).ok <=> Registered(w.err) # 0
    BY DEF Lookup
  <1>2. Lookup(w.err).status = Registered(w.err)
    BY DEF Lookup
  <1>3. w.err # "none" /\ w.err \in Refusal \cup {"db"}
    BY DEF Unsent, Refusal
  <1>4. /\ v \in {400, 409, 500} /\ b \in Body
        /\ v \in {400, 409} => w.err \in Refusal
        /\ v = 409 => w.err \in {"duplicate_email", "duplicate_category"}
    BY <1>1, <1>3, Statuses DEF Refusal, Body
  <1>5. Translate(w) = WriteJSON(w, v, b)
    BY <1>2, <1>3 DEF Translate, WriteDomainError
  <1> HIDE DEF v, b
  <1>6. v \in Nat \ {0}
    BY <1>4
  <1> DEFINE x == WriteJSON(w, v, b)
  <1>7. x \in ResponseType /\ x.sent = v /\ x.status = v /\ x.bodies = Append(<<>>, b)
    BY <1>4, <1>6, WriteJSONIs DEF Unsent
  <1> HIDE DEF x
  <1>8. Len(x.bodies) = 1
    BY <1>7
  <1> QED  BY <1>4, <1>5, <1>7, <1>8 DEF x

\* A sequence of two elements.
LEMMA TwoElements ==
  ASSUME NEW S, NEW s \in Seq(S), NEW a, NEW b, Len(s) = 2, s[1] = a, s[2] = b
  PROVE  s = <<a, b>>
  OBVIOUS

\* A second element.
LEMMA AppendSecond ==
  ASSUME NEW S, NEW a \in S, NEW b \in S
  PROVE  Append(<<a>>, b) = <<a, b>>
  <1> DEFINE s == Append(<<a>>, b)
  <1>1. <<a>> \in Seq(S)
    OBVIOUS
  <1>2. s \in Seq(S) /\ Len(s) = 2 /\ s[1] = a /\ s[2] = b
    BY <1>1
  <1> HIDE DEF s
  <1>3. s = <<a, b>>
    BY <1>2, TwoElements
  <1> QED  BY <1>3 DEF s

\* A reply passes it; a cut one gets a second body, and keeps its status.
LEMMA TranslateSent ==
  ASSUME NEW w \in ResponseType, Sent(w) \/ Cut(w)
  PROVE  LET x == Translate(w)
         IN /\ x \in ResponseType /\ x.sent = x.status /\ x.sent = w.sent
            /\ Len(x.bodies) > 1 => x.bodies = <<"cut", "internal_error">>
  <1>1. CASE Sent(w)
    BY <1>1 DEF Sent, Translate
  <1>2. CASE Cut(w)
    <2> DEFINE x == WriteJSON(w, 500, "internal_error")
    <2>1. w.sent = 201 /\ w.status = 201 /\ w.wroteHeader
      BY <1>2 DEF Cut
    <2>2. Translate(w) = x
      BY <1>2, Statuses DEF Cut, Translate, WriteDomainError, Lookup
    <2>3. "internal_error" \in Body
      BY DEF Body
    <2>4. /\ x \in ResponseType /\ x.sent = 201 /\ x.status = 201
          /\ x.bodies = Append(w.bodies, "internal_error")
      BY <2>1, <2>3, WriteJSONIs, SMTT(30)
    <2> HIDE DEF x
    <2>5. Append(<<"cut">>, "internal_error") = <<"cut", "internal_error">>
      <3>1. "cut" \in Body
        BY DEF Body
      <3> QED  BY <2>3, <3>1, AppendSecond
    <2>6. w.bodies = <<"cut">>
      BY <1>2 DEF Cut
    <2>7. x.bodies = <<"cut", "internal_error">>
      BY <2>4, <2>5, <2>6, Zenon
    <2> QED  BY <2>1, <2>2, <2>4, <2>7
  <1> QED  BY <1>1, <1>2

\* The log line and the end of the request change no status that has been sent.
LEMMA FinishIs ==
  ASSUME NEW w \in ResponseType, w.sent = w.status, w.sent # 0
  PROVE  LET x == FinishRequest(LogLine(w))
         IN /\ x \in ResponseType /\ x.sent = w.sent /\ x.logged = w.sent
            /\ x.bodies = w.bodies
  <1> DEFINE y == [w EXCEPT !.logged = w.status]
  <1>1. /\ y \in ResponseType /\ y.sent = w.sent /\ y.logged = w.status
        /\ y.bodies = w.bodies
    BY DEF ResponseType
  <1>2. LogLine(w) = y
    BY DEF LogLine
  <1> HIDE DEF y
  <1>3. SendHead(y, 200) = y
    BY <1>1 DEF SendHead
  <1> QED  BY <1>1, <1>2, <1>3 DEF FinishRequest

----------------------------------------------------------------------------
(* The server is a process of Lifecycle. *)

\* Work does not touch the process; accepting and answering are steps of it.
LEMMA StepRefines == [Next]_vars => [LifecycleNext]_lifecycleVars
  <1> SUFFICES ASSUME [Next]_vars PROVE [LifecycleNext]_lifecycleVars
    OBVIOUS
  <1>1. CASE UNCHANGED vars
    BY <1>1 DEF vars
  <1>2. CASE Process
    BY <1>2 DEF Process, LifecycleNext
  <1>3. ASSUME NEW r \in Request, Accepted(r)
        PROVE  LifecycleNext
    BY <1>3 DEF Accepted, LifecycleNext
  <1>4. ASSUME NEW r \in Request, Work(r)
        PROVE  UNCHANGED lifecycleVars
    BY <1>4 DEF Work
  <1>5. ASSUME NEW r \in Request, Returned(r)
        PROVE  LifecycleNext
    BY <1>5 DEF Returned, LifecycleNext
  <1> QED  BY <1>1, <1>2, <1>3, <1>4, <1>5 DEF Next

\* So the theorems about LifecycleSpec hold of the server.
THEOREM ServerIsProcess == Spec => LifecycleSpec
  <1>1. Init => LifecycleInit
    BY DEF Init
  <1> QED  BY <1>1, StepRefines, PTL DEF Spec, LifecycleSpec

----------------------------------------------------------------------------
(* The inductive invariant. *)

Stage == {"idle", "decode", "find", "save", "reply", "return", "done"}
Early == {"idle", "decode", "find", "save"}

\* The types; the flow of a request through the process and its handler.
Shape ==
    /\ call \in [Request -> Call \cup {NoCall}]
    /\ pc \in [Request -> Stage]
    /\ response \in [Request -> ResponseType]
    /\ held \subseteq Request
    /\ \A r \in Request :
          /\ pc[r] = "idle" <=> r \notin inFlight \cup answered
          /\ pc[r] = "done" <=> r \in answered
          /\ r \in held => pc[r] \in {"find", "save"}

RowsSound == \A row \in rows : row.id \in Request /\ row = RowOf(row.id)

\* Somebody else's row holds the key of r's.
Conflict(r) == \E row \in rows : row.id # r /\ SameKey(row, RowOf(r))

\* Why r may be refused: nothing of it is stored, and a 409 has a conflict.
Justified(r, err) ==
    /\ err \in Refusal => RowOf(r) \notin rows
    /\ err \in {"duplicate_email", "duplicate_category"} => Conflict(r)

\* A response on its way back.
Returning(r) ==
    /\ Unsent(response[r]) \/ Sent(response[r]) \/ Cut(response[r])
    /\ response[r].sent = 201 => RowOf(r) \in rows
    /\ response[r].sent = 0 => Justified(r, response[r].err)

\* A response that the client has.
Delivered(r) ==
    /\ response[r].logged = response[r].sent
    /\ Len(response[r].bodies) > 1
         => response[r].bodies = <<"cut", "internal_error">>
    /\ response[r].sent = 201 => RowOf(r) \in rows
    /\ response[r].sent \in {400, 409} => RowOf(r) \notin rows
    /\ response[r].sent = 409 => Conflict(r)

\* What is true of a request wherever it is.
Good(r) ==
    /\ pc[r] \in Early => \A row \in rows : row.id # r
    /\ pc[r] \in Early \cup {"reply"} => response[r] = NewResponse
    /\ pc[r] = "reply" => RowOf(r) \in rows
    /\ pc[r] = "return" => Returning(r)
    /\ pc[r] = "done" => Delivered(r)

ServerInv ==
    /\ IInv
    /\ Shape
    /\ RowsSound
    /\ KeysUnique
    /\ \A r \in Request : Good(r)

\* The fields of a row.
LEMMA RowFields ==
  ASSUME NEW r
  PROVE  /\ RowOf(r).id = r
         /\ RowOf(r).table = call[r].op
         /\ RowOf(r).word = call[r].word
         /\ RowOf(r).capital = call[r].capital
  BY DEF RowOf

\* A step of r leaves every other request as good as it was.
LEMMA OthersKeep ==
  ASSUME ServerInv, NEW r \in Request, NEW q \in Request, q # r,
         call'[q] = call[q], pc'[q] = pc[q], response'[q] = response[q],
         rows \subseteq rows', \A row \in rows' \ rows : row.id # q
  PROVE  Good(q)'
  <1>1. Good(q)
    BY DEF ServerInv
  <1>2. RowOf(q)' = RowOf(q)
    BY DEF RowOf
  <1>3. RowOf(q) \in rows' <=> RowOf(q) \in rows
    BY RowFields
  <1>4. Conflict(q) => Conflict(q)'
    BY <1>2 DEF Conflict, SameKey
  <1>5. pc[q] \in Early => \A row \in rows' : row.id # q
    BY <1>1 DEF Good
  <1>6. Returning(q) => Returning(q)'
    BY <1>2, <1>3, <1>4 DEF Returning, Justified, Unsent, Sent, Cut
  <1>7. Delivered(q) => Delivered(q)'
    BY <1>2, <1>3, <1>4 DEF Delivered
  <1> QED  BY <1>1, <1>2, <1>3, <1>5, <1>6, <1>7 DEF Good

----------------------------------------------------------------------------
(* Every step preserves it. *)

\* A server starts with no requests and empty tables.
LEMMA ServerInit == Init => ServerInv
  <1> SUFFICES ASSUME Init PROVE ServerInv
    OBVIOUS
  <1>1. IInv
    BY InitHolds DEF Init
  <1>2. Shape
    BY NewIs DEF Init, LifecycleInit, Shape, Stage
  <1>3. RowsSound /\ KeysUnique
    BY DEF Init, RowsSound, KeysUnique
  <1>4. ASSUME NEW r \in Request PROVE Good(r)
    BY DEF Init, Good, Early
  <1> QED  BY <1>1, <1>2, <1>3, <1>4 DEF ServerInv

\* SameKey is symmetric.
LEMMA SameKeySymmetric ==
  ASSUME NEW a, NEW b, SameKey(a, b)
  PROVE  SameKey(b, a)
  BY DEF SameKey

\* What a handler's step of r changes: where r is, its response, perhaps its row.
WorkOf(r, l, w) ==
    /\ UNCHANGED lifecycleVars /\ call' = call
    /\ pc' = [pc EXCEPT ![r] = l]
    /\ response' = [response EXCEPT ![r] = w]
    /\ \/ rows' = rows
       \/ pc[r] = "save" /\ ~Taken(r) /\ rows' = rows \cup {RowOf(r)}
    /\ held' \subseteq held \cup {r}
    /\ r \in held' => l \in {"find", "save"}

\* Such a step preserves the invariant if it leaves r good.
LEMMA WorkKeeps ==
  ASSUME ServerInv, NEW r \in Request, NEW l \in Stage \ {"idle", "done"},
         NEW w \in ResponseType, WorkOf(r, l, w),
         pc[r] \notin {"idle", "done"}, Good(r)'
  PROVE  ServerInv'
  <1>1. IInv'
    BY DEF ServerInv, WorkOf, lifecycleVars, IInv, LifecycleTypeOK, OpenByPhase,
           ServedByPhase, CleanExit, Running
  <1>2. Shape'
    <2>1. pc' \in [Request -> Stage] /\ response' \in [Request -> ResponseType]
      BY DEF ServerInv, Shape, WorkOf
    <2>2. \A q \in Request \ {r} : pc'[q] = pc[q]
      BY DEF ServerInv, Shape, WorkOf
    <2>3. pc'[r] = l
      BY DEF ServerInv, Shape, WorkOf
    <2>4. inFlight' = inFlight /\ answered' = answered
      BY DEF WorkOf, lifecycleVars
    <2> QED  BY <2>1, <2>2, <2>3, <2>4 DEF ServerInv, Shape, WorkOf
  <1>3. \A q : RowOf(q)' = RowOf(q)
    BY DEF WorkOf, RowOf
  <1>4. RowsSound'
    BY <1>3, RowFields DEF ServerInv, RowsSound, WorkOf
  <1>5. KeysUnique'
    <2>1. CASE rows' = rows
      BY <2>1 DEF ServerInv, KeysUnique, SameKey
    <2>2. CASE ~Taken(r) /\ rows' = rows \cup {RowOf(r)}
      <3> SUFFICES ASSUME NEW a \in rows', NEW b \in rows', SameKey(a, b)
                   PROVE  a = b
        BY DEF KeysUnique, SameKey
      <3>1. \A c \in rows : ~SameKey(c, RowOf(r)) /\ ~SameKey(RowOf(r), c)
        BY <2>2, SameKeySymmetric DEF Taken
      <3> QED  BY <2>2, <3>1 DEF ServerInv, KeysUnique
    <2> QED  BY <2>1, <2>2 DEF WorkOf
  <1>6. ASSUME NEW q \in Request PROVE Good(q)'
    <2>1. CASE q = r
      BY <2>1
    <2>2. CASE q # r
      <3>1. /\ call'[q] = call[q] /\ pc'[q] = pc[q] /\ response'[q] = response[q]
        BY <2>2 DEF ServerInv, Shape, WorkOf
      <3>2. rows \subseteq rows' /\ \A row \in rows' \ rows : row.id # q
        BY <2>2, RowFields DEF WorkOf
      <3> QED  BY <2>2, <3>1, <3>2, OthersKeep
    <2> QED  BY <2>1, <2>2
  <1> QED  BY <1>1, <1>2, <1>4, <1>5, <1>6 DEF ServerInv

\* A handler that returns an error, for a reason that holds.
LEMMA FailKeeps ==
  ASSUME ServerInv, NEW r \in Request, NEW err \in Refusal \cup {"db"},
         WorkOf(r, "return", Handle(response[r], err)),
         pc[r] \in {"decode", "find", "save"}, Justified(r, err)'
  PROVE  ServerInv'
  <1> DEFINE w == Handle(response[r], err)
  <1>1. response[r] = NewResponse
    BY DEF ServerInv, Good, Early
  <1>2. w \in ResponseType /\ Unsent(w) /\ w.err = err
    BY <1>1, FailNew
  <1>3. pc'[r] = "return" /\ response'[r] = w
    BY DEF ServerInv, Shape, WorkOf
  <1> HIDE DEF w
  <1>4. Unsent(response[r])' /\ (response[r].sent)' = 0 /\ (response[r].err)' = err
    BY <1>2, <1>3 DEF Unsent
  <1>5. Returning(r)'
    BY <1>4 DEF Returning
  <1>6. Good(r)'
    BY <1>3, <1>5 DEF Good, Early
  <1> QED  BY <1>2, <1>6, WorkKeeps DEF Stage, w

\* A handler that moves on without a word.
LEMMA MoveKeeps ==
  ASSUME ServerInv, NEW r \in Request, NEW l \in {"find", "save", "reply"},
         WorkOf(r, l, response[r]), pc[r] \in {"decode", "find", "save"},
         l \in Early => rows' = rows,
         l = "reply" => rows' = rows \cup {RowOf(r)}
  PROVE  ServerInv'
  <1>1. response[r] = NewResponse /\ \A row \in rows : row.id # r
    BY DEF ServerInv, Good, Early
  <1>2. pc'[r] = l /\ response'[r] = NewResponse
    BY <1>1 DEF ServerInv, Shape, WorkOf
  <1>3. RowOf(r)' = RowOf(r)
    BY DEF WorkOf, RowOf
  <1>4. Good(r)'
    BY <1>1, <1>2, <1>3 DEF Good, Early
  <1> QED  BY <1>1, <1>4, NewIs, WorkKeeps DEF Stage

\* A handler that has written its reply, or panicked, without an insert in this step.
LEMMA ReplyKeeps ==
  ASSUME ServerInv, NEW r \in Request, NEW w \in ResponseType,
         WorkOf(r, "return", w), rows' = rows,
         Sent(w) \/ Cut(w), w.sent = 201 => RowOf(r) \in rows,
         pc[r] \in {"decode", "reply"}
  PROVE  ServerInv'
  <1>1. pc'[r] = "return" /\ response'[r] = w
    BY DEF ServerInv, Shape, WorkOf
  <1>2. RowOf(r)' = RowOf(r)
    BY DEF WorkOf, RowOf
  <1>3. w.sent # 0
    BY DEF Sent, Cut
  <1>4. Returning(r)'
    BY <1>1, <1>2, <1>3 DEF Returning, Sent, Cut
  <1>5. Good(r)'
    BY <1>1, <1>4 DEF Good, Early
  <1> QED  BY <1>5, WorkKeeps DEF Stage

\* The row of a request that has not saved is in no table.
LEMMA NoRow ==
  ASSUME ServerInv, NEW r \in Request, pc[r] \in Early
  PROVE  RowOf(r) \notin rows
  BY RowFields DEF ServerInv, Good

\* Decoding and validation, of any of the three requests.
LEMMA DecodeKeeps ==
  ASSUME ServerInv, NEW r \in Request, UNCHANGED lifecycleVars, Decode(r)
  PROVE  ServerInv'
  <1>0. pc[r] = "decode" /\ response[r] = NewResponse /\ r \notin held
    BY DEF Decode, ServerInv, Shape, Good, Early
  <1>1. CASE call[r].op = "health" /\ Goto(r, "return")
             /\ response' = [response EXCEPT ![r] = WriteJSON(@, 200, "ok")]
    <2> DEFINE w == WriteJSON(NewResponse, 200, "ok")
    <2>1. "ok" \in Body
      BY DEF Body
    <2>2. w \in ResponseType /\ Sent(w) /\ w.sent = 200
      BY <2>1, WriteNew
    <2> HIDE DEF w
    <2>3. response' = [response EXCEPT ![r] = w]
      BY <1>0, <1>1 DEF w
    <2>4. WorkOf(r, "return", w)
      BY <1>0, <1>1, <2>3 DEF WorkOf, Goto, Decode
    <2> QED  BY <1>0, <2>2, <2>4, ReplyKeeps DEF Decode
  <1>2. CASE Fail(r, InvalidError(call[r]))
    <2>1. PICK err \in {"invalid_member", "invalid_category"} : err = InvalidError(call[r])
      BY DEF InvalidError
    <2>2. /\ err \in Refusal \cup {"db"}
          /\ err \notin {"duplicate_email", "duplicate_category"}
      BY DEF Refusal
    <2>3. WorkOf(r, "return", Handle(response[r], err))
      BY <1>0, <1>2, <2>1 DEF WorkOf, Goto, Decode, Fail
    <2>4. RowOf(r)' = RowOf(r)
      BY DEF RowOf, Decode
    <2>5. Justified(r, err)'
      BY <1>0, <2>2, <2>4, NoRow DEF Justified, Decode, Early
    <2> QED  BY <1>0, <2>2, <2>3, <2>5, FailKeeps
  <1>3. CASE Goto(r, IF call[r].op = "member" THEN "find" ELSE "save")
             /\ UNCHANGED response
    <2> DEFINE l == IF call[r].op = "member" THEN "find" ELSE "save"
    <2>1. l \in {"find", "save"}
      OBVIOUS
    <2>2. pc' = [pc EXCEPT ![r] = l]
      BY <1>3 DEF Goto
    <2> HIDE DEF l
    <2>3. response' = [response EXCEPT ![r] = response[r]]
      BY <1>3 DEF ServerInv, Shape
    <2>4. WorkOf(r, l, response[r])
      BY <1>0, <2>1, <2>2, <2>3 DEF WorkOf, Decode
    <2> QED  BY <1>0, <2>1, <2>4, MoveKeeps DEF Decode
  <1> QED  BY <1>1, <1>2, <1>3 DEF Decode

\* Taking a connection moves nothing.
LEMMA AcquireKeeps ==
  ASSUME ServerInv, NEW r \in Request, UNCHANGED lifecycleVars, Acquire(r)
  PROVE  ServerInv'
  <1>1. pc' = [pc EXCEPT ![r] = pc[r]] /\ response' = [response EXCEPT ![r] = response[r]]
    BY DEF ServerInv, Shape, Acquire
  <1>2. WorkOf(r, pc[r], response[r])
    BY <1>1 DEF WorkOf, Acquire
  <1> QED  BY <1>2, MoveKeeps DEF Acquire, Early

\* Who finds the address taken has met somebody else's row.
LEMMA FindMemberKeeps ==
  ASSUME ServerInv, NEW r \in Request, UNCHANGED lifecycleVars, FindMember(r)
  PROVE  ServerInv'
  <1>0. pc[r] = "find" /\ r \notin held' /\ \A row \in rows : row.id # r
    BY DEF FindMember, ServerInv, Good, Early
  <1>1. RowOf(r)' = RowOf(r)
    BY DEF RowOf, FindMember
  <1>2. CASE Taken(r) /\ Fail(r, "duplicate_email")
    <2>1. WorkOf(r, "return", Handle(response[r], "duplicate_email"))
      BY <1>0, <1>2 DEF WorkOf, Fail, Goto, FindMember
    <2>2. Conflict(r)'
      BY <1>0, <1>1, <1>2 DEF Conflict, Taken, FindMember, SameKey
    <2>3. Justified(r, "duplicate_email")'
      BY <1>0, <1>1, <2>2, NoRow DEF Justified, FindMember, Early
    <2> QED  BY <1>0, <2>1, <2>3, FailKeeps DEF Refusal
  <1>3. CASE ~Taken(r) /\ Goto(r, "save") /\ UNCHANGED response
    <2>1. response' = [response EXCEPT ![r] = response[r]]
      BY <1>3 DEF ServerInv, Shape
    <2>2. WorkOf(r, "save", response[r])
      BY <1>0, <1>3, <2>1 DEF WorkOf, Goto, FindMember
    <2> QED  BY <1>0, <2>2, MoveKeeps DEF FindMember
  <1>4. CASE Fail(r, "db")
    <2>1. WorkOf(r, "return", Handle(response[r], "db"))
      BY <1>0, <1>4 DEF WorkOf, Fail, Goto, FindMember
    <2>2. Justified(r, "db")'
      BY DEF Justified, Refusal
    <2> QED  BY <1>0, <2>1, <2>2, FailKeeps
  <1> QED  BY <1>2, <1>3, <1>4 DEF FindMember

\* An insert that is refused has met somebody else's row; one whose answer is lost
\* is an error that promises nothing.
LEMMA SaveKeeps ==
  ASSUME ServerInv, NEW r \in Request, UNCHANGED lifecycleVars, Save(r)
  PROVE  ServerInv'
  <1>0. pc[r] = "save" /\ r \notin held' /\ \A row \in rows : row.id # r
    BY DEF Save, ServerInv, Good, Early
  <1>1. RowOf(r)' = RowOf(r)
    BY DEF RowOf, Save
  <1>2. CASE ~Refused(r) /\ rows' = rows \cup {RowOf(r)} /\ Goto(r, "reply")
             /\ UNCHANGED response
    <2>1. response' = [response EXCEPT ![r] = response[r]]
      BY <1>2 DEF ServerInv, Shape
    <2>2. WorkOf(r, "reply", response[r])
      BY <1>0, <1>2, <2>1 DEF WorkOf, Goto, Save, Refused
    <2> QED  BY <1>0, <1>2, <2>2, MoveKeeps DEF Early
  <1>3. CASE /\ \/ rows' = rows
                \/ ~Refused(r) /\ rows' = rows \cup {RowOf(r)}
             /\ Fail(r, "db")
    <2>1. WorkOf(r, "return", Handle(response[r], "db"))
      BY <1>0, <1>3 DEF WorkOf, Fail, Goto, Save, Refused
    <2>2. Justified(r, "db")'
      BY DEF Justified, Refusal
    <2> QED  BY <1>0, <2>1, <2>2, FailKeeps
  <1>4. CASE Refused(r) /\ Fail(r, "duplicate_category") /\ UNCHANGED rows
    <2>1. WorkOf(r, "return", Handle(response[r], "duplicate_category"))
      BY <1>0, <1>4 DEF WorkOf, Fail, Goto, Save
    <2>2. Conflict(r)'
      BY <1>0, <1>1, <1>4 DEF Conflict, Taken, Refused, SameKey
    <2>3. Justified(r, "duplicate_category")'
      BY <1>0, <1>1, <1>4, <2>2, NoRow DEF Justified, Early
    <2> QED  BY <1>0, <2>1, <2>3, FailKeeps DEF Refusal
  <1>5. UniqueViolation(call[r]) = "duplicate_category" \/ UniqueViolation(call[r]) = "db"
    BY DEF UniqueViolation
  <1>6. CASE Refused(r) /\ Fail(r, UniqueViolation(call[r])) /\ UNCHANGED rows
    <2>1. CASE UniqueViolation(call[r]) = "duplicate_category"
      <3>1. Fail(r, "duplicate_category")
        BY <1>6, <2>1
      <3> QED  BY <1>4, <1>6, <3>1
    <2>2. CASE UniqueViolation(call[r]) = "db"
      <3>1. Fail(r, "db")
        BY <1>6, <2>2
      <3> QED  BY <1>3, <1>6, <3>1, Zenon
    <2> QED  BY <1>5, <2>1, <2>2
  <1> QED  BY <1>2, <1>3, <1>6, Zenon DEF Save

\* The last line of the handler, whether its body gets through or not.
LEMMA ReplyStepKeeps ==
  ASSUME ServerInv, NEW r \in Request, UNCHANGED lifecycleVars, Reply(r)
  PROVE  ServerInv'
  <1>0. /\ pc[r] = "reply" /\ response[r] = NewResponse /\ r \notin held
        /\ RowOf(r) \in rows
    BY DEF Reply, ServerInv, Shape, Good, Early
  <1>1. CASE response' = [response EXCEPT ![r] = WriteJSON(@, 201, "created")]
    <2> DEFINE w == WriteJSON(NewResponse, 201, "created")
    <2>1. "created" \in Body
      BY DEF Body
    <2>2. w \in ResponseType /\ Sent(w)
      BY <2>1, WriteNew
    <2> HIDE DEF w
    <2>3. response' = [response EXCEPT ![r] = w]
      BY <1>0, <1>1 DEF w
    <2>4. WorkOf(r, "return", w)
      BY <1>0, <2>3 DEF WorkOf, Goto, Reply
    <2> QED  BY <1>0, <2>2, <2>4, ReplyKeeps DEF Reply
  <1>2. CASE response' = [response EXCEPT ![r] = Handle(WriteJSON(@, 201, "cut"), "write")]
    <2> DEFINE w == Handle(WriteJSON(NewResponse, 201, "cut"), "write")
    <2>1. w \in ResponseType /\ Cut(w)
      BY CutNew
    <2> HIDE DEF w
    <2>2. response' = [response EXCEPT ![r] = w]
      BY <1>0, <1>2 DEF w
    <2>3. WorkOf(r, "return", w)
      BY <1>0, <2>2 DEF WorkOf, Goto, Reply
    <2> QED  BY <1>0, <2>1, <2>3, ReplyKeeps DEF Reply
  <1> QED  BY <1>1, <1>2 DEF Reply

\* A panic leaves a 500 that promises nothing.
LEMMA PanicKeeps ==
  ASSUME ServerInv, NEW r \in Request, UNCHANGED lifecycleVars, Panic(r)
  PROVE  ServerInv'
  <1>0. pc[r] \in {"decode", "reply"} /\ response[r] = NewResponse /\ r \notin held
    BY DEF Panic, ServerInv, Shape, Good, Early
  <1> DEFINE w == Recover(NewResponse)
  <1>1. w \in ResponseType /\ Sent(w) /\ w.sent = 500
    <2>1. w.sent = 500
      BY NewIs, NewFields, WriteHeaderIs DEF Recover
    <2> QED  BY <2>1, RecoverNew
  <1> HIDE DEF w
  <1>2. response' = [response EXCEPT ![r] = w]
    BY <1>0 DEF Panic, w
  <1>3. WorkOf(r, "return", w)
    BY <1>0, <1>2 DEF WorkOf, Goto, Panic
  <1> QED  BY <1>0, <1>1, <1>3, ReplyKeeps DEF Panic

\* What a handler does between being accepted and being answered.
LEMMA WorkStepKeeps ==
  ASSUME ServerInv, NEW r \in Request, Work(r)
  PROVE  ServerInv'
  BY DecodeKeeps, AcquireKeeps, FindMemberKeeps, SaveKeeps, ReplyStepKeeps,
     PanicKeeps DEF Work

\* The way back: what the client gets says what the response on its way back said.
LEMMA ReturnedKeeps ==
  ASSUME LifecycleAssumption, ServerInv, NEW r \in Request, Returned(r)
  PROVE  ServerInv'
  <1> DEFINE w == response[r]
             x == Translate(w)
             f == FinishRequest(LogLine(x))
  <1>0. /\ pc[r] = "return" /\ Returning(r) /\ w \in ResponseType
        /\ r \notin held
    BY DEF Returned, ServerInv, Shape, Good
  <1>1. /\ x \in ResponseType /\ x.sent = x.status /\ x.sent # 0
        /\ Len(x.bodies) > 1 => x.bodies = <<"cut", "internal_error">>
        /\ x.sent = 201 => w.sent = 201
        /\ x.sent \in {400, 409} => w.sent = 0 /\ w.err \in Refusal
        /\ x.sent = 409 => w.err \in {"duplicate_email", "duplicate_category"}
    <2>1. CASE Unsent(w)
      <3>1. /\ x \in ResponseType /\ x.sent = x.status /\ Len(x.bodies) = 1
            /\ x.sent \in {400, 409, 500}
            /\ x.sent \in {400, 409} => w.err \in Refusal
            /\ x.sent = 409 => w.err \in {"duplicate_email", "duplicate_category"}
        BY <1>0, <2>1, TranslateUnsent
      <3>2. w.sent = 0
        BY <2>1 DEF Unsent
      <3> HIDE DEF x
      <3> QED  BY <3>1, <3>2
    <2>2. CASE Sent(w) \/ Cut(w)
      <3>1. w.sent \in {200, 201, 500}
        BY <2>2 DEF Sent, Cut
      <3> QED  BY <1>0, <2>2, <3>1, TranslateSent
    <2> QED  BY <1>0, <2>1, <2>2 DEF Returning
  <1> HIDE DEF x
  <1>2. f \in ResponseType /\ f.sent = x.sent /\ f.logged = x.sent /\ f.bodies = x.bodies
    BY <1>1, FinishIs
  <1>3. response' = [response EXCEPT ![r] = f] /\ pc' = [pc EXCEPT ![r] = "done"]
    BY DEF Returned, Goto, x
  <1> HIDE DEF f
  <1>4. response'[r] = f /\ pc'[r] = "done"
    BY <1>3 DEF ServerInv, Shape
  <1>5. RowOf(r)' = RowOf(r) /\ rows' = rows /\ call' = call /\ held' = held
    BY DEF RowOf, Returned
  <1>6. IInv'
    BY InductiveStep DEF Returned, LifecycleNext, ServerInv
  <1>7. Shape'
    <2>1. inFlight' = inFlight \ {r} /\ answered' = answered \cup {r}
      BY DEF Returned, Answer
    <2>2. pc' \in [Request -> Stage] /\ response' \in [Request -> ResponseType]
      BY <1>2, <1>3 DEF ServerInv, Shape, Stage
    <2>3. \A q \in Request \ {r} : pc'[q] = pc[q]
      BY <1>3 DEF ServerInv, Shape
    <2> QED  BY <1>0, <1>4, <1>5, <2>1, <2>2, <2>3 DEF ServerInv, Shape
  <1>8. Conflict(r) => Conflict(r)'
    BY <1>5 DEF Conflict, SameKey
  <1>9. Delivered(r)'
    BY <1>0, <1>1, <1>2, <1>4, <1>5, <1>8 DEF Delivered, Returning, Justified
  <1>10. Good(r)'
    BY <1>4, <1>9 DEF Good, Early
  <1>11. ASSUME NEW q \in Request, q # r PROVE Good(q)'
    BY <1>3, <1>5, <1>11, OthersKeep DEF ServerInv, Shape
  <1>12. RowsSound' /\ KeysUnique'
    BY <1>5 DEF ServerInv, RowsSound, KeysUnique, SameKey, RowOf
  <1> QED  BY <1>6, <1>7, <1>10, <1>11, <1>12 DEF ServerInv

\* A request that is accepted has no row and a new response, whatever it asks for.
LEMMA AcceptedKeeps ==
  ASSUME LifecycleAssumption, ServerInv, NEW r \in Request, Accepted(r)
  PROVE  ServerInv'
  <1>0. pc[r] = "idle" /\ r \notin held
    BY DEF Accepted, Accept, ServerInv, Shape
  <1>1. PICK c \in Call : call' = [call EXCEPT ![r] = c]
    BY DEF Accepted
  <1>2. /\ pc' = [pc EXCEPT ![r] = "decode"]
        /\ response' = response /\ held' = held /\ rows' = rows
    BY DEF Accepted, Goto
  <1>3. IInv'
    BY InductiveStep DEF Accepted, LifecycleNext, ServerInv
  <1>4. Shape'
    <2>1. inFlight' = inFlight \cup {r} /\ answered' = answered
      BY DEF Accepted, Accept
    <2>2. call' \in [Request -> Call \cup {NoCall}] /\ pc' \in [Request -> Stage]
      BY <1>1, <1>2 DEF ServerInv, Shape, Stage
    <2>3. pc'[r] = "decode" /\ \A q \in Request \ {r} : pc'[q] = pc[q]
      BY <1>2 DEF ServerInv, Shape
    <2> QED  BY <1>0, <1>2, <2>1, <2>2, <2>3 DEF ServerInv, Shape
  <1>5. \A row \in rows : row.id # r
    BY <1>0 DEF ServerInv, Good, Early
  <1>6. \A q \in Request \ {r} : RowOf(q)' = RowOf(q)
    BY <1>1 DEF RowOf, ServerInv, Shape
  <1>7. RowsSound'
    BY <1>2, <1>5, <1>6 DEF ServerInv, RowsSound
  <1>8. KeysUnique'
    BY <1>2 DEF ServerInv, KeysUnique, SameKey
  <1>9. Good(r)'
    <2>1. pc'[r] = "decode" /\ response'[r] = NewResponse
      BY <1>0, <1>2 DEF ServerInv, Shape, Good, Early
    <2> QED  BY <1>2, <1>5, <2>1 DEF Good, Early
  <1>10. ASSUME NEW q \in Request, q # r PROVE Good(q)'
    <2>1. call'[q] = call[q] /\ pc'[q] = pc[q] /\ response'[q] = response[q]
      BY <1>1, <1>2, <1>10 DEF ServerInv, Shape
    <2> QED  BY <1>2, <1>10, <2>1, OthersKeep
  <1> QED  BY <1>3, <1>4, <1>7, <1>8, <1>9, <1>10 DEF ServerInv

\* No step of main or of the outside touches a request.
LEMMA ProcessKeeps ==
  ASSUME LifecycleAssumption, ServerInv,
         Process \/ UNCHANGED vars
  PROVE  ServerInv'
  <1>1. IInv'
    BY InductiveStep DEF Process, vars, LifecycleNext, ServerInv
  <1>2. UNCHANGED requestVars
    BY DEF Process, vars
  <1>3. inFlight' = inFlight /\ answered' = answered
    BY DEF Process, vars, lifecycleVars, Main, Outside, LoadConfig, OpenDB, PingDB,
           BuildBookCache, StartConsumer, GracefulShutdown, Drained,
           ShutdownTimesOut, StopConsumer, CloseDB, CloseRedis, Signal,
           KilledBySignal, ListenFails
  <1>4. Shape'
    BY <1>2, <1>3 DEF requestVars, ServerInv, Shape
  <1>5. \A q : RowOf(q)' = RowOf(q)
    BY <1>2 DEF requestVars, RowOf
  <1>6. RowsSound' /\ KeysUnique'
    BY <1>2, <1>5 DEF requestVars, ServerInv, RowsSound, KeysUnique, SameKey
  <1>7. ASSUME NEW q \in Request PROVE Good(q)'
    <2>1. Conflict(q)' <=> Conflict(q)
      BY <1>2, <1>5 DEF requestVars, Conflict, SameKey
    <2>2. Good(q)
      BY DEF ServerInv
    <2> QED  BY <1>2, <1>5, <2>1, <2>2
             DEF requestVars, Good, Returning, Delivered, Justified, Unsent, Sent, Cut
  <1> QED  BY <1>1, <1>4, <1>6, <1>7 DEF ServerInv

\* Every step preserves the invariant.
LEMMA ServerStep ==
  ASSUME LifecycleAssumption
  PROVE  ServerInv /\ [Next]_vars => ServerInv'
  BY ProcessKeeps, AcceptedKeeps, WorkStepKeeps, ReturnedKeeps DEF Next

\* The invariant holds in every reachable state.
LEMMA ServerInvariance == Spec => []ServerInv
  BY LifecycleAssumption, ServerInit, ServerStep, PTL DEF Spec

----------------------------------------------------------------------------
(* The theorems. *)

\* TypeOK: the types, and rows that belong to requests which asked for them.
THEOREM TypeCorrect == Spec => []TypeOK
  <1>1. ServerInv => TypeOK
    BY DEF ServerInv, IInv, Shape, RowsSound, TypeOK, Stage
  <1> QED  BY <1>1, ServerInvariance, PTL

\* KeysUnique: the constraints of the schema close the gap between look and save.
THEOREM UniqueKeys == Spec => []KeysUnique
  BY ServerInvariance, PTL DEF ServerInv

\* RefusalJustified: a 409 names a conflict with another row.
LEMMA JustifiedHolds == ServerInv => RefusalJustified
  <1>1. ASSUME ServerInv, NEW r \in Request, response[r].sent = 409
        PROVE  Conflict(r)
    <2>0. Good(r) /\ pc[r] \in Stage
      BY <1>1 DEF ServerInv, Shape
    <2>1. pc[r] \notin Early \cup {"reply"}
      BY <1>1, <2>0, NewFields DEF Good
    <2>2. pc[r] # "return"
      BY <1>1, <2>0 DEF Good, Returning, Unsent, Sent, Cut
    <2> QED  BY <1>1, <2>0, <2>1, <2>2 DEF Stage, Early, Good, Delivered
  <1> QED  BY <1>1 DEF RefusalJustified, Conflict

\* AnswerIsTrue: what a client is told of its insert is so, lost answers included,
\* and who is refused was refused for a row that is there.
THEOREM AnswersAreTrue == Spec => []AnswerIsTrue
  <1>1. ASSUME ServerInv, NEW r \in Request
        PROVE  /\ response[r].sent = 201 => RowOf(r) \in rows
               /\ response[r].sent \in {400, 409} => RowOf(r) \notin rows
    <2>0. Good(r) /\ pc[r] \in Stage
      BY <1>1 DEF ServerInv, Shape
    <2>1. CASE pc[r] \in Early \cup {"reply"}
      <3>1. response[r].sent = 0
        BY <2>0, <2>1, NewFields DEF Good
      <3> QED  BY <3>1
    <2>2. CASE pc[r] = "return"
      BY <2>0, <2>2 DEF Good, Returning, Unsent, Sent, Cut
    <2>3. CASE pc[r] = "done"
      BY <2>0, <2>3 DEF Good, Delivered
    <2> QED  BY <2>0, <2>1, <2>2, <2>3 DEF Stage, Early
  <1>2. ServerInv => AnswerIsTrue
    BY <1>1, JustifiedHolds DEF AnswerIsTrue
  <1> QED  BY <1>2, ServerInvariance, PTL

\* OneBody: a second body only ever follows one that was cut short.
LEMMA OneBodyHolds == ServerInv => OneBody
  <1>1. ASSUME ServerInv, NEW r \in Request, Len(response[r].bodies) > 1
        PROVE  response[r].bodies = <<"cut", "internal_error">>
    <2>0. Good(r) /\ pc[r] \in Stage
      BY <1>1 DEF ServerInv, Shape
    <2>1. pc[r] \notin Early \cup {"reply"}
      <3>1. Len(NewResponse.bodies) = 0
        BY NewFields
      <3> QED  BY <1>1, <2>0, <3>1 DEF Good
    <2>2. pc[r] # "return"
      <3>1. ASSUME NEW w, Unsent(w) PROVE Len(w.bodies) <= 1
        BY <3>1 DEF Unsent
      <3>2. ASSUME NEW w, Cut(w) PROVE Len(w.bodies) <= 1
        <4>1. Len(<<"cut">>) = 1
          OBVIOUS
        <4>2. w.bodies = <<"cut">>
          BY <3>2 DEF Cut
        <4>3. Len(w.bodies) = 1
          BY <4>1, <4>2, Zenon
        <4> QED  BY <4>3
      <3>3. ASSUME NEW w, Sent(w) PROVE Len(w.bodies) <= 1
        BY <3>3 DEF Sent
      <3> QED  BY <1>1, <2>0, <3>1, <3>2, <3>3 DEF Good, Returning
    <2> QED  BY <1>1, <2>0, <2>1, <2>2 DEF Stage, Early, Good, Delivered
  <1> QED  BY <1>1 DEF OneBody

\* OneAnswer: one body, and the recorder's latch agrees with the head on the wire.
THEOREM AnsweredOnce == Spec => []OneAnswer
  <1>1. ServerInv => LoggedAsSent
    BY DEF ServerInv, Good, Delivered, LoggedAsSent
  <1>2. ServerInv => OneAnswer
    BY <1>1, OneBodyHolds DEF OneAnswer
  <1> QED  BY <1>2, ServerInvariance, PTL

\* What is held is finite and within the limit, which is never zero.
PoolInv == IsFiniteSet(held) /\ Cardinality(held) <= MaxOpenConns

\* A connection is taken when there is room and given back once.
LEMMA PoolStep ==
  ASSUME ServerAssumption, PoolInv, [Next]_vars
  PROVE  PoolInv'
  <1>1. MaxOpenConns \in Nat \ {0} /\ MaxOpenConns' = MaxOpenConns
    BY DEF MaxOpenConns, ServerAssumption
  <1>2. ASSUME NEW r \in Request, Acquire(r)
        PROVE  PoolInv'
    <2>1. held' = held \cup {r} /\ r \notin held /\ Cardinality(held) < MaxOpenConns
      BY <1>1, <1>2 DEF Acquire, HasRoom
    <2>2. IsFiniteSet(held') /\ Cardinality(held') = Cardinality(held) + 1
      BY <2>1, FS_AddElement DEF PoolInv
    <2>3. Cardinality(held) \in Nat
      BY FS_CardinalityType DEF PoolInv
    <2> QED  BY <1>1, <2>1, <2>2, <2>3 DEF PoolInv
  <1>3. ASSUME NEW r \in Request, held' = held \ {r}
        PROVE  PoolInv'
    <2>1. IsFiniteSet(held) /\ held' \subseteq held
      BY <1>3 DEF PoolInv
    <2>2. IsFiniteSet(held') /\ Cardinality(held') <= Cardinality(held)
      BY <2>1, FS_Subset
    <2>3. Cardinality(held) \in Nat /\ Cardinality(held') \in Nat
      BY <2>1, <2>2, FS_CardinalityType
    <2> QED  BY <1>1, <2>2, <2>3 DEF PoolInv
  <1>4. CASE held' = held
    BY <1>1, <1>4 DEF PoolInv
  <1>5. ASSUME NEW r \in Request, Work(r)
        PROVE  Acquire(r) \/ held' = held \ {r} \/ held' = held
    BY <1>5 DEF Work, Decode, FindMember, Save, Reply, Panic
  <1>6. CASE Process \/ (\E r \in Request : Accepted(r) \/ Returned(r)) \/ UNCHANGED vars
    <2>1. held' = held
      BY <1>6 DEF Process, requestVars, Accepted, Returned, vars
    <2> QED  BY <1>4, <2>1
  <1> QED  BY <1>2, <1>3, <1>4, <1>5, <1>6 DEF Next

\* PoolInBounds: for any pool size, zero included, and any number of requests.
THEOREM PoolBounded == Spec => []PoolInBounds
  <1>1. Init => PoolInv
    <2>1. MaxOpenConns \in Nat
      BY ServerAssumption DEF MaxOpenConns, ServerAssumption
    <2>2. IsFiniteSet({}) /\ Cardinality({}) = 0
      BY FS_EmptySet
    <2> QED  BY <2>1, <2>2 DEF Init, PoolInv
  <1>2. Spec => []PoolInv
    BY <1>1, PoolStep, ServerAssumption, PTL DEF Spec
  <1>3. ServerInv /\ PoolInv => PoolInBounds
    <2> SUFFICES ASSUME ServerInv, PoolInv PROVE PoolInBounds
      OBVIOUS
    <2>1. \A r \in held : pc[r] \in {"find", "save"}
      BY DEF ServerInv, Shape
    <2>2. PoolOutlivesHandlers
      BY Strong DEF ServerInv
    <2> QED  BY <2>1, <2>2 DEF PoolInv, PoolInBounds, MaxOpenConns
  <1> QED  BY <1>2, <1>3, ServerInvariance, PTL
=============================================================================
