----------------------------- MODULE Lifecycle -----------------------------
(***************************************************************************)
(* The process: main loads its configuration, wires the resources, serves  *)
(* requests, and on a signal drains the server for at most shutdownTimeout *)
(* before the deferred Close stops the consumer and closes the pool and    *)
(* the redis client.  os.Exit runs no deferred call.                       *)
(***************************************************************************)
EXTENDS FiniteSets

CONSTANTS
    Request,
    Environment,  \* what the process may find: the .env file, LIBRARY_*
    MayFail       \* the outside may be at fault: no database, a port taken

ASSUME LifecycleAssumption ==
    /\ MayFail \in BOOLEAN
    /\ Environment \subseteq
         [dotenv : {"absent", "readable", "broken"},
          port : {"number", "blank", "word"},
          level : {"known", "unknown"}, format : {"known", "unknown"},
          redis : {"none", "good", "bad"}]

Resource == {"db", "redis", "consumer"}

VARIABLES
    phase,      \* where main is
    redisURL,   \* the redis URL of the configuration
    open,       \* the resources held
    signalled,  \* SIGINT or SIGTERM has arrived
    inFlight,   \* requests being handled
    answered,   \* requests whose handler has returned
    code        \* exit code, "none" while the process runs

lifecycleVars == <<phase, redisURL, open, signalled, inFlight, answered, code>>

LifecycleInit ==
    /\ phase = "config" /\ redisURL = "none"
    /\ open = {}
    /\ signalled = FALSE
    /\ inFlight = {} /\ answered = {}
    /\ code = "none"

Running == code = "none"

\* Mutant: reports the error and carries on.
CarryOn(c) == code' = c /\ UNCHANGED phase

Exit(c) == phase' = "exited" /\ code' = c

\* A .env that is missing is no error, one that cannot be read is.
Valid(env) ==
    /\ env.dotenv # "broken"
    /\ env.port = "number"
    /\ env.level = "known" /\ env.format = "known"

\* What .env says is merged under keys that carry the prefix LIBRARY_, which no
\* later read asks for; the values are those of the environment.
LoadConfig ==
    /\ phase = "config"
    /\ \E env \in Environment :
          \/ /\ Valid(env)
             /\ phase' = "open" /\ redisURL' = env.redis
             /\ UNCHANGED code
          \/ ~Valid(env) /\ Exit("1") /\ UNCHANGED redisURL
    /\ UNCHANGED <<open, signalled, inFlight, answered>>

\* Wire: the database, the book cache, the consumer; each failure releases
\* what was opened before it.
OpenDB ==
    /\ phase = "open"
    /\ phase' = "ping"
    /\ open' = {"db"}
    /\ UNCHANGED <<redisURL, signalled, inFlight, answered, code>>

\* Mutant: a pool that does not answer is not closed.
PingLeaks ==
    /\ phase = "ping"
    /\ \/ phase' = "cache" /\ UNCHANGED <<open, code>>
       \/ MayFail /\ Exit("1") /\ UNCHANGED open
    /\ UNCHANGED <<redisURL, signalled, inFlight, answered>>

PingDB ==
    /\ phase = "ping"
    /\ \/ phase' = "cache" /\ UNCHANGED <<open, code>>
       \/ MayFail /\ Exit("1") /\ open' = {}
    /\ UNCHANGED <<redisURL, signalled, inFlight, answered>>

\* The client connects when it is first used; only its URL can be wrong here.
BuildBookCache ==
    /\ phase = "cache"
    /\ \/ /\ redisURL # "bad" /\ phase' = "start"
          /\ open' = open \cup IF redisURL = "good" THEN {"redis"} ELSE {}
          /\ UNCHANGED code
       \/ redisURL = "bad" /\ Exit("1") /\ open' = open \ {"db"}
    /\ UNCHANGED <<redisURL, signalled, inFlight, answered>>

\* Start returns no error: Wire's branch for one is never taken.
StartConsumer ==
    /\ phase = "start"
    /\ phase' = "serve"
    /\ open' = open \cup {"consumer"}
    /\ UNCHANGED <<redisURL, signalled, inFlight, answered, code>>

Accept(r) ==
    /\ phase = "serve"
    /\ r \notin inFlight \cup answered
    /\ inFlight' = inFlight \cup {r}
    /\ UNCHANGED <<phase, redisURL, open, signalled, answered, code>>

\* The handler returns; it may have used the pool until now.
Answer(r) ==
    /\ Running
    /\ r \in inFlight
    /\ inFlight' = inFlight \ {r}
    /\ answered' = answered \cup {r}
    /\ UNCHANGED <<phase, redisURL, open, signalled, code>>

\* runServer listens for a signal from its start until it returns.
Signal ==
    /\ phase = "serve"
    /\ ~signalled
    /\ signalled' = TRUE
    /\ UNCHANGED <<phase, redisURL, open, inFlight, answered, code>>

\* Before and after, while Close is at work too, a signal kills the process.
KilledBySignal ==
    /\ Running
    /\ phase \notin {"serve", "drain"}
    /\ Exit("killed")
    /\ UNCHANGED <<redisURL, open, signalled, inFlight, answered>>

ListenFails ==
    /\ phase = "serve"
    /\ MayFail
    /\ Exit("1")
    /\ UNCHANGED <<redisURL, open, signalled, inFlight, answered>>

GracefulShutdown ==
    /\ phase = "serve"
    /\ signalled
    /\ phase' = "drain"
    /\ UNCHANGED <<redisURL, open, signalled, inFlight, answered, code>>

\* Mutant: does not wait for the requests.
DrainedAtOnce ==
    /\ phase = "drain"
    /\ phase' = "stop"
    /\ UNCHANGED <<redisURL, open, signalled, inFlight, answered, code>>

Drained ==
    /\ phase = "drain"
    /\ inFlight = {}
    /\ phase' = "stop"
    /\ UNCHANGED <<redisURL, open, signalled, inFlight, answered, code>>

\* Mutant: Shutdown with a context that never expires.
NeverTimesOut ==
    /\ FALSE
    /\ UNCHANGED lifecycleVars

\* shutdownTimeout is over: main exits at once.
ShutdownTimesOut ==
    /\ phase = "drain"
    /\ inFlight # {}
    /\ Exit("1")
    /\ UNCHANGED <<redisURL, open, signalled, inFlight, answered>>

StopConsumer ==
    /\ phase = "stop"
    /\ open' = open \ {"consumer"}
    /\ phase' = "close"
    /\ UNCHANGED <<redisURL, signalled, inFlight, answered, code>>

CloseDB ==
    /\ phase = "close"
    /\ open' = open \ {"db"}
    /\ phase' = "redis"
    /\ UNCHANGED <<redisURL, signalled, inFlight, answered, code>>

\* Mutant: forgets the redis client.
ForgetRedis ==
    /\ phase = "redis"
    /\ Exit("0")
    /\ UNCHANGED <<redisURL, open, signalled, inFlight, answered>>

\* The last of Close; main returns.
CloseRedis ==
    /\ phase = "redis"
    /\ open' = open \ {"redis"}
    /\ Exit("0")
    /\ UNCHANGED <<redisURL, signalled, inFlight, answered>>

Main ==
    \/ LoadConfig \/ OpenDB \/ PingDB \/ BuildBookCache \/ StartConsumer
    \/ GracefulShutdown \/ Drained \/ ShutdownTimesOut
    \/ StopConsumer \/ CloseDB \/ CloseRedis

Outside == Signal \/ KilledBySignal \/ ListenFails

LifecycleNext ==
    \/ Main
    \/ Outside
    \/ \E r \in Request : Accept(r) \/ Answer(r)

LifecycleSpec == LifecycleInit /\ [][LifecycleNext]_lifecycleVars
----------------------------------------------------------------------------
(***************************************************************************)
(* Properties.                                                             *)
(***************************************************************************)
\* Every variable keeps its type, and only a process that is over has a code.
LifecycleTypeOK ==
    /\ phase \in {"config", "open", "ping", "cache", "start", "serve", "drain",
                  "stop", "close", "redis", "exited"}
    /\ redisURL \in {"none", "good", "bad"}
    /\ open \subseteq Resource
    /\ signalled \in BOOLEAN
    /\ inFlight \subseteq Request /\ answered \subseteq Request
    /\ code \in {"none", "0", "1", "killed"}
    /\ code = "none" <=> phase # "exited"

\* wiring.go: "handlers do not run against a torn-down substrate".  While the
\* process lives, a request in flight has its pool, and so has the consumer.
PoolOutlivesHandlers ==
    Running /\ (inFlight # {} \/ "consumer" \in open) => "db" \in open

\* Exit code 0 is the promise of an orderly end: everything has been answered
\* and everything released.
CleanExit == code = "0" => inFlight = {} /\ open = {}

\* ... and so is a failure to start; wiring.go: "On any failure Wire releases every
\* resource it has already allocated".
ExitReleases ==
    [][/\ CleanExit'
       /\ (phase \in {"config", "open", "ping", "cache", "start"} /\ code' = "1")
          => (open' = {})]_lifecycleVars

\* A signalled process ends, even with a request that never does.
SignalEnds == signalled ~> ~Running
=============================================================================
