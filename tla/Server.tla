------------------------------- MODULE Server -------------------------------
(***************************************************************************)
(* The running server: the process of Lifecycle with the requests it       *)
(* handles, each passing the middleware stack of Http around a handler of  *)
(* membership (POST /members), categories (POST /categories) or health,    *)
(* over one pool of connections to the two tables.  A handler's steps are  *)
(* its queries; a query takes a connection of the pool and gives it back.  *)
(***************************************************************************)
EXTENDS Lifecycle, Http

CONSTANTS
    Call,      \* the requests a client may send
    PoolSize,  \* MaxOpenConns as given to NewBunDB, 0 for the default
    DefaultPoolSize,
    Hung       \* requests whose queries Postgres never answers

ASSUME ServerAssumption ==
    /\ Call \subseteq [op : {"member", "category", "health"},
                       valid : BOOLEAN, word : STRING, capital : BOOLEAN]
    /\ PoolSize \in Nat /\ DefaultPoolSize \in Nat \ {0}
    /\ Hung \subseteq Request

VARIABLES
    call,     \* what each request asks for
    pc,       \* the next step of each request
    response, \* its response, as Http describes it
    held,     \* requests that hold a connection
    rows      \* the tables members and categories

requestVars == <<call, pc, response, held, rows>>

vars == <<lifecycleVars, requestVars>>

NoCall == [op |-> "none", valid |-> FALSE, word |-> "", capital |-> FALSE]

Init ==
    /\ LifecycleInit
    /\ call = [r \in Request |-> NoCall]
    /\ pc = [r \in Request |-> "idle"]
    /\ response = [r \in Request |-> NewResponse]
    /\ held = {}
    /\ rows = {}

\* Mutant: the number given goes to database/sql as it is.
AsGiven == PoolSize

\* resolvePoolConfig: zero stands for the default.
MaxOpenConns == IF PoolSize = 0 THEN DefaultPoolSize ELSE PoolSize

Goto(r, l) == pc' = [pc EXCEPT ![r] = l]

\* Mutant: one holder for all requests.
FailShared(r, err) ==
    /\ Goto(r, "return")
    /\ response' = [q \in Request |-> IF q = r \/ pc[q] \notin {"idle", "done"}
                                     THEN Handle(response[q], err)
                                     ELSE response[q]]

\* The handler returns an error, which Handle puts into the request's own holder.
Fail(r, err) ==
    /\ Goto(r, "return")
    /\ response' = [response EXCEPT ![r] = Handle(@, err)]

\* The row a request inserts; its id, which it mints, is the request itself.
RowOf(r) == [table |-> call[r].op, id |-> r,
             word |-> call[r].word, capital |-> call[r].capital]

\* UNIQUE (email) and the unique index on LOWER(name).
SameKey(a, b) ==
    /\ a.table = b.table
    /\ a.word = b.word
    /\ a.table = "member" => a.capital = b.capital

Taken(r) == \E row \in rows : SameKey(row, RowOf(r))

\* Mutant: a schema without the constraints.
NeverRefused(r) == FALSE

\* Postgres refuses the insert.
Refused(r) == Taken(r)

Accepted(r) ==
    /\ Accept(r)
    /\ \E c \in Call : call' = [call EXCEPT ![r] = c]
    /\ Goto(r, "decode")
    /\ UNCHANGED <<response, held, rows>>

InvalidError(c) ==
    IF c.op = "member" THEN "invalid_member" ELSE "invalid_category"

\* Decoding and validation, as one: a body with unknown fields, a blank name, an
\* address without a dot in its domain.  Health has no error to return.
Decode(r) ==
    /\ pc[r] = "decode"
    /\ \/ /\ call[r].op = "health"
          /\ response' = [response EXCEPT ![r] = WriteJSON(@, 200, "ok")]
          /\ Goto(r, "return")
       \/ /\ call[r].op # "health" /\ ~call[r].valid
          /\ Fail(r, InvalidError(call[r]))
       \/ /\ call[r].op # "health" /\ call[r].valid
          /\ Goto(r, IF call[r].op = "member" THEN "find" ELSE "save")
          /\ UNCHANGED response
    /\ UNCHANGED <<call, held, rows>>

\* database/sql takes zero for "no limit".
HasRoom == MaxOpenConns = 0 \/ Cardinality(held) < MaxOpenConns

Acquire(r) ==
    /\ pc[r] \in {"find", "save"}
    /\ r \notin held
    /\ HasRoom
    /\ held' = held \cup {r}
    /\ UNCHANGED <<call, pc, response, rows>>

Answers(r) == r \in held /\ r \notin Hung

\* Mutant: takes a failed query for a hit.
FindMemberErrorIsHit(r) ==
    /\ pc[r] = "find" /\ Answers(r)
    /\ \/ Taken(r) /\ Fail(r, "duplicate_email")
       \/ ~Taken(r) /\ Goto(r, "save") /\ UNCHANGED response
       \/ MayFail /\ Fail(r, "duplicate_email")
    /\ held' = held \ {r}
    /\ UNCHANGED <<call, rows>>

\* FindMemberByEmail.
FindMember(r) ==
    /\ pc[r] = "find" /\ Answers(r)
    /\ \/ Taken(r) /\ Fail(r, "duplicate_email")
       \/ ~Taken(r) /\ Goto(r, "save") /\ UNCHANGED response
       \/ MayFail /\ Fail(r, "db")
    /\ held' = held \ {r}
    /\ UNCHANGED <<call, rows>>

\* Only the categories repository knows a unique violation when it sees one.
UniqueViolation(c) == IF c.op = "category" THEN "duplicate_category" ELSE "db"

\* Mutant: an insert without an answer is sent again, and meets its own row.
SaveRetries(r) ==
    /\ pc[r] = "save" /\ Answers(r)
    /\ \/ /\ ~Refused(r)
          /\ rows' = rows \cup {RowOf(r)}
          /\ \/ Goto(r, "reply") /\ UNCHANGED response
             \/ MayFail /\ Fail(r, UniqueViolation(call[r]))
       \/ Refused(r) /\ Fail(r, UniqueViolation(call[r])) /\ UNCHANGED rows
    /\ held' = held \ {r}
    /\ UNCHANGED call

\* Mutant: an error keeps the connection.
SaveLeaks(r) ==
    /\ pc[r] = "save" /\ Answers(r)
    /\ \/ /\ ~Refused(r) /\ rows' = rows \cup {RowOf(r)} /\ Goto(r, "reply")
          /\ held' = held \ {r} /\ UNCHANGED response
       \/ /\ Refused(r) /\ Fail(r, UniqueViolation(call[r]))
          /\ UNCHANGED <<rows, held>>
       \/ MayFail /\ Fail(r, "db") /\ UNCHANGED <<rows, held>>
    /\ UNCHANGED call

\* SaveMember and the categories' Save.  The answer to an insert may be lost, or
\* the client and with it the context gone, when Postgres has done it.
Save(r) ==
    /\ pc[r] = "save" /\ Answers(r)
    /\ \/ /\ ~Refused(r)
          /\ rows' = rows \cup {RowOf(r)}
          /\ \/ Goto(r, "reply") /\ UNCHANGED response
             \/ MayFail /\ Fail(r, "db")
       \/ Refused(r) /\ Fail(r, UniqueViolation(call[r])) /\ UNCHANGED rows
       \/ MayFail /\ Fail(r, "db") /\ UNCHANGED rows
    /\ held' = held \ {r}
    /\ UNCHANGED call

\* The last line of the handler.  A body too long for net/http's buffers fails
\* half way when the client has gone, after the head has been written.
Reply(r) ==
    /\ pc[r] = "reply"
    /\ \/ /\ response' = [response EXCEPT ![r] = WriteJSON(@, 201, "created")]
       \/ /\ MayFail
          /\ response' = [response EXCEPT
                            ![r] = Handle(WriteJSON(@, 201, "cut"), "write")]
    /\ Goto(r, "return")
    /\ UNCHANGED <<call, held, rows>>

\* A handler panics; the recoverer sits inside the logger.
Panic(r) ==
    /\ MayFail
    /\ pc[r] \in {"decode", "reply"}
    /\ response' = [response EXCEPT ![r] = Recover(@)]
    /\ Goto(r, "return")
    /\ UNCHANGED <<call, held, rows>>

\* The way back through the stack: the domain-error middleware writes what the
\* handler returned, the logger logs, net/http sends what is left.
Returned(r) ==
    /\ pc[r] = "return"
    /\ Answer(r)
    /\ response' = [response EXCEPT ![r] = FinishRequest(LogLine(Translate(@)))]
    /\ Goto(r, "done")
    /\ UNCHANGED <<call, held, rows>>

\* What a handler does between being accepted and being answered.
Work(r) ==
    /\ Running
    /\ \/ Decode(r) \/ Acquire(r) \/ FindMember(r) \/ Save(r) \/ Reply(r)
       \/ Panic(r)
    /\ UNCHANGED lifecycleVars

Process == (Main \/ Outside) /\ UNCHANGED requestVars

Next ==
    \/ Process
    \/ \E r \in Request : Accepted(r) \/ Work(r) \/ Returned(r)

Spec == Init /\ [][Next]_vars

\* main runs and its timer fires; the goroutine of a request runs.
FairSpec ==
    /\ Spec
    /\ WF_vars(Main /\ UNCHANGED requestVars)
    /\ \A r \in Request : WF_vars(Work(r) \/ Returned(r))
----------------------------------------------------------------------------
(***************************************************************************)
(* Properties.                                                             *)
(***************************************************************************)
\* Every variable keeps its type; a row belongs to a request that asked for it.
TypeOK ==
    /\ LifecycleTypeOK
    /\ call \in [Request -> Call \cup {NoCall}]
    /\ pc \in [Request -> {"idle", "decode", "find", "save", "reply", "return",
                           "done"}]
    /\ held \subseteq Request
    /\ \A row \in rows : row.id \in Request /\ row = RowOf(row.id)

\* client.go: zero is not database/sql's "unbounded".  The connections in use
\* stay within the limit, each is used by a query, and until the last handler has
\* returned the pool they come from is open.
PoolInBounds ==
    /\ Cardinality(held) <= IF PoolSize = 0 THEN DefaultPoolSize ELSE PoolSize
    /\ \A r \in held : pc[r] \in {"find", "save"}
    /\ PoolOutlivesHandlers

\* One member per address and one category per name in any case, though
\* RegisterMember looks and saves in two calls and CreateCategory does not look.
KeysUnique == \A a, b \in rows : SameKey(a, b) => a = b

\* A 409 names a conflict there is: somebody else's row holds the key.
RefusalJustified ==
    \A r \in Request :
       response[r].sent = 409 =>
          \E row \in rows : row.id # r /\ SameKey(row, RowOf(r))

\* A 201 means that the row is there, a 400 or a 409 that the request has left
\* none and a 409 that another was there first, whatever was lost on the way;
\* only a 500 leaves the client guessing.
AnswerIsTrue ==
    /\ \A r \in Request :
          /\ response[r].sent = 201 => RowOf(r) \in rows
          /\ response[r].sent \in {400, 409} => RowOf(r) \notin rows
    /\ RefusalJustified

\* The client gets one body, of one outcome, unless the first was cut short.
OneBody ==
    \A r \in Request :
       LET bodies == response[r].bodies
       IN Len(bodies) > 1 => bodies = <<"cut", "internal_error">>

\* The log line has the status the client was sent, even when an error came after
\* the head.
LoggedAsSent ==
    \A r \in Request : pc[r] = "done" => response[r].logged = response[r].sent

\* A request has one answer: the client gets one, and the log tells of the same.
OneAnswer == OneBody /\ LoggedAsSent

\* No request waits for the pool for ever: one that hangs keeps its own
\* connection and no other is lost, on error paths included.
RequestsServed ==
    \A r \in Request \ Hung :
       r \in inFlight ~> (r \in answered \/ ~Running)
=============================================================================
