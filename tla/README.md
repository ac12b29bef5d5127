# A TLA+ model of the library

The program is a small lending library: a Go monolith with an HTTP API over
Postgres, an optional Redis, an in-process event bus and a streaming chat. This
directory holds TLA+ modules of its stateful parts, TLC configurations that check
them on small instances, and TLAPS proofs, which cover every safety property of the
passing runs, and the three refinements (of one of them, its safety).

`PROJECT.json` lists the components, the runs, the deliberately broken variant
("mutant") that each checked property catches, the source lines of every
definition, the hazards, the findings and the theorems. This file says how to
read them.

    tlc -config MCLendingFaults.cfg MCLending.tla
    tlapm LendingProofs.tla

## 1. The system

| part | source | keeps | operations |
|---|---|---|---|
| lending | `internal/lending/facade.go` | loans and reservations tables | Borrow, Reserve, ReturnLoan, listings |
| auto-loan saga | `internal/lending/auto_loan_on_return.go` | a mutex per book, its subscription | Start, Stop, processReturn on every LoanReturned |
| catalog | `internal/catalog/facade.go` | books and copies tables | AddBook, FindBook, UpdateBook, DeleteBook, RegisterCopy, MarkCopyAvailable, MarkCopyUnavailable |
| book cache | `internal/shared/bookcache` | an entry per ISBN: a map, or Redis keys with a time to live | Get, Set, Evict |
| membership | `internal/membership/facade.go` | members table (status, tier) | RegisterMember, Suspend, Reactivate, UpgradeTier, CheckEligibility |
| fines | `internal/fines/facade.go` | fines table | AssessFinesFor, ProcessOverdueLoans, PayFine |
| transactional context | `internal/shared/tx` | per operation: staged writes, staged events | Run, Stage, StageEvent; over Postgres and in memory |
| event bus | `internal/shared/events/memory` | an array of handlers per event type | Subscribe, Unsubscribe, Publish |
| chat and its gateways | `internal/chat`, `internal/shared/chatgateway` | two channels and three goroutines per request | StreamChat |
| composition root | `internal/app/wiring.go`, `cmd/library` | the process: pool, redis client, consumer, HTTP server | LoadConfig, Wire, serve, graceful shutdown, Close |
| HTTP layer | `internal/shared/http` | per request: the status recorder, the error holder | Logger, recoverer, domain-error middleware, registry |
| database client | `internal/shared/db` | the pool of connections | NewBunDB; migrations |
| categories | `internal/categories` | categories table | CreateCategory, prefix search |
| repositories | `driven/bun`, `driven/memory` of each module | the tables, or maps in memory | the methods of five ports, twice |
| access control, ISBN gateway | the rest of `internal` | a constant policy; nothing | see section 8 |

### How they interact

- Every HTTP request runs in a goroutine of its own. Facades call each other
  directly (lending calls membership and catalog, fines calls lending and
  membership). There is no lock around a facade and, outside a transactional
  context, no transaction around two repository calls.
- Borrow, Reserve and the saga's claim and un-fulfil run in a transactional
  context: writes first, then, after the commit, the staged events are published.
- Publish is a function call. ReturnLoan publishes LoanReturned, the bus calls the
  consumer, and the whole saga (lock the book, list its pending reservations, skip
  the ineligible, claim one, borrow for its member, announce it or undo the claim)
  runs inside the returning request before the response is written.
- Loans and copies have separate owners: Borrow commits the loan and *then* asks
  the catalog to mark the copy; ReturnLoan closes the loan, marks the copy, then
  publishes. Each is a call that may fail with the earlier ones done.
- A crash loses locks, the memory cache, subscriptions and every request in
  flight; the tables (and Redis) stay. Nothing resumes an interrupted saga.

### Where it is hard, and what makes each part correct

- **Lending and saga.** Requests interleave between every two calls; any call may
  fail; the process may die between a claim and its loan. It is correct if two
  returns of one book never work on two claims at a time, a reservation is honoured
  once, an announced auto-loan exists and stays, no reservation is marked
  fulfilled without a loan unless something says so, the queue is served in order,
  the status of a copy follows the loans table, and no path keeps the book's mutex.
- **Fines and membership.** Check-then-insert ("one fine per loan") and
  read-modify-write of whole rows, both without a transaction; retries after a
  batch that failed half way; rounding of days and the threshold at its boundary.
- **Catalog and cache.** Fill, write-through and eviction race with each other and
  fail independently of the table; entries expire; Redis outlives the process.
- **Transactional context.** Row locks, deadlock victims, a failed statement that
  must abort the commit, a commit whose answer is lost, events after the commit.
- **Event bus.** A Publish works on a snapshot while handlers come and go; slot
  numbers are captured by Unsubscribe closures; Start and Stop from two goroutines.
- **Chat.** Three goroutines over two bounded channels; cancellation races with
  the end of the reply; each goroutine has to end whoever leaves first.
- **Server and lifecycle.** Configuration and wiring that fail half way, draining
  with a deadline, exits that skip deferred calls, a bounded pool under requests
  that hang; a response that several layers of middleware may write; check-then-insert
  of members and categories, where only a unique index decides, and inserts whose
  answer is lost.
- **Repositories.** Two implementations of each port: the tests run on one, the
  program on the other, and nothing compares them.

The `hazards` of `PROJECT.json` are these points at their lines, each with the
properties that cover it.

## 2. The modules

Every module that models requests has the same form. A request (in Chat
and EventBus, a goroutine) is a process with a program counter, which names **the next
call** it makes to a repository, another facade, the cache, the bus or a channel.
One action is that call with the code up to the next one, so any other process can
run between two calls and nowhere else that matters. A disjunct guarded by
`CallFails(q)`, which holds for the requests in the constant `Faulty`, is the error
return of the call: a database error or a cancelled context. A write that fails so may
have been done (`DoneOrNot`): the answer, to a COMMIT as to a statement of its own, may
be what was lost, as `ReportLostCommit` of `TxContext` and `Save` of `Server` have it.
If it was done it is durable by the time its error is reported; one that Postgres
finishes later is not modelled. `Crash` ends every request in flight (`"lost"`) and
keeps what is durable.

Rows are records with the fields that some guard or property reads. Identifiers
that `newID()` would mint are the request that mints them, which is sound because a
request mints at most one of each kind. Events are kept as the set (or sequence) of
everything published.

| module | models | state to code |
|---|---|---|
| `Lending` | Borrow, Reserve, ReturnLoan, the saga's processReturn | `loans`, `reservations`: the repositories; `copyStatus`, `memberStatus`: what catalog and membership answer; `bookLock`: `lockForBook`; `queue`, `claimed`: locals of processReturn; `events`: the bus; `unheard`, a history variable: claims that were committed and reported as failed |
| `ReservationQueue` | what the saga promises (abstract) | a reservation is absent, waiting, claimed, honoured or stranded; a claim may be lost (`LoseClaim`) |
| `Fines` | AssessFinesFor, ProcessOverdueLoans, maybeAutoSuspend, PayFine; Suspend, Reactivate, UpgradeTier | `fines`, `members`, `returned`: the tables; `queue`, `todo`: the two loops; `row`: a row read and written back |
| `Catalog` | AddBook, FindBook, UpdateBook, DeleteBook, RegisterCopy, with either cache | `books`, `copies`: the tables with their UNIQUE and REFERENCES constraints; `cache`; `redis`: which cache; `written` and `overlapped` are history variables |
| `TxContext` | Run, Stage, StageEvent of both substrates (`buffered` tells which) | `staged`, `events`, `stageErr`: the fields of the two contexts; `Holds`, `WaitsFor`, `Deadlocked`: Postgres' row locks |
| `AtomicOperation` | what a transactional context promises (abstract) | an operation is open, committed or closed |
| `EventBus` | Subscribe, Unsubscribe, Publish and the consumer's Start and Stop | `slots`: `handlers[type]` with nil holes; `todo`: a Publish's snapshot; `mu`, `started`, `unsubscribe`: the consumer's fields |
| `Subscriptions` | what the bus promises (abstract) | the live handlers in order, what each event has still to reach |
| `Lifecycle` | LoadConfig, Wire, main, GracefulShutdown, Close, the exits and signals | `open`: resources held; `phase`: where main is; `inFlight`, `answered`: the requests of `http.Server` |
| `Http` | statusRecorder, recoverer, DomainErrorMiddleware, the registry, WriteJSON | operators on one response, a record with the fields of the recorder and the holder; no state of its own |
| `Server` | the process with its requests: the stack of `Http` around RegisterMember, CreateCategory and health, over one pool | extends `Lifecycle` and `Http`; `response`: of each request; `held`: connections in use; `rows`: the tables |
| `BunRepositories`, `MemoryRepositories` | every method of the ports, over Postgres and in memory | operators on a database (tables as functions from ids) and on the maps (with the order of insertion, where a slice keeps it) |
| `Parity` | the facades' calls, one at a time, on both | `bun`, `mem`: the two stores, given the same calls |
| `Chat` | StreamChat, forwardFrames, pumpFrames and the sending goroutine of either gateway | `deltas`, `frames`: the channels; `hd`, `gw`, `fw`: the goroutines |
| `Tables`, `Removal` | what both kinds of repositories do with tables and listings; the filter of `snapshotHandlers` | operators, for `Parity` and `EventBus` |
| `LendingProofs`, `CatalogProofs`, `FinesProofs`, `TxContextProofs`, `EventBusProofs`, `ChatProofs`, `ServerProofs`, `ParityProofs` | theorems about the module each is named after (`ServerProofs`: about `Lifecycle` too) | |

`MC*` modules give the constants small values for TLC. `Lending` composes the
calls lending makes into catalog and membership with the saga and the mutex;
`Lending` implements `ReservationQueue`, `TxContext` implements `AtomicOperation`
and `EventBus` implements `Subscriptions`, each by a refinement mapping at the end
of the module that is checked as a property. `Server` composes `Lifecycle` with the
requests: an action of either carries the other's variables along, or, for a
request's arrival and end (`Accepted`, `Returned`), is one of both.

Two simplifications follow from this split. In `Lending` a transaction with its
post-commit events is one step: `TxContext` shows that its writes are atomic and its
events come after. A commit whose answer is lost is the failing branch of that step,
with the write done and no event; a crash between the commit and the publication is
that step and then `Crash`, with one event too many, LoanOpened, ReservationQueued or
ReservationFulfilled, which no guard and no property reads. And the bus delivers
LoanReturned to one handler: `EventBus` shows that the consumer is subscribed once,
however Start and Stop interleave.

Details that shaped the models:

- ListPending is ordered by `reserved_at`, and `Reserve` reads the clock *before*
  its transaction, so a reservation may be saved after one with a later time.
  `Earliest` leaves ties open, as the query does.
- The saga passes over an ineligible reserver, and one whose eligibility cannot be
  read, for good (`ConsiderReservation`); after a claim it makes one attempt.
- Borrow has one model. `claimed[q]` tells whether the saga called it, and so
  whether an error goes to the client or to the un-fulfil.
- ReturnLoan does not ask whether the loan was returned before (`FindLoan`).
- The saves of catalog, membership and fines are upserts of the whole row.
- Postgres holds a row's lock until the transaction ends. A writer that waits in a
  cycle is aborted, and a statement error makes the Stage calls that follow no-ops.
- `Wire` mounts the logger outside the recoverer outside the domain-error
  middleware. A panic passes the last one by, and an error after the head has been
  sent appends a second body (`Reply` with `MayFail`, then `Translate`).
- database/sql takes zero connections for "no limit", the client for "the default"
  (`MaxOpenConns`). A statement holds its connection from `Acquire` to its answer.
- In `Parity` the facade's call is one operator over any repository (`InsertUnless`,
  `Overwrite`, `IfFound`), given the methods of the one and of the other. Ids are
  numbered in the order of the UUIDs, and `Garbage` is a text that is none: calls name
  it, a reservation its book among them, which nobody checks. A moment has nanoseconds,
  of which `Micro` is what `timestamptz` keeps. Names are sequences of letters, which
  `Lower` and `ToLower` fold, each on its side. After Postgres alone has refused a call
  (`Parted`) the two differ, and comparing them further says nothing.
- A send into an unbuffered Go channel needs the receiver at its receive
  (`SendDelta`); `select` with two ready cases picks either.

## 3. The runs, their bounds and what they show

Passing runs. The bounds are the smallest that let the cases in question happen.

| run | instance | what it shows | states |
|---|---|---|---|
| `MCLendingContention` | one book, two copies out, one reserver waiting; two returns, a borrower and a reserver whose calls may fail | claims are exclusive, first come first served, copies in step with loans | 661k |
| `MCLendingFaults` | two reservers for one book, one for another; two returns, one with every call able to fail, its write done or not; a suspension at any time, staff edits of a copy, crashes; fair | what survives faults: honoured once, announced loans exist, every stranding has a cause on record or is a claim reported as failed, every request is answered, the head of the queue attempted; the abstract queue refined, its promise to settle every claim included | 66k |
| `MCFinesOverlap` | two members with a loan each; a batch with failing calls, a payment, a change by staff, all at once; the clock moves | amounts cover the delay; no suspension without the fines | 648k |
| `MCFinesRetry` | two loans of one member; two batches and an assessment, one at a time, failing or dying anywhere; fair | retrying is safe; one suspension; a batch that succeeded has enforced the threshold; an overdue loan is fined or an error is reported | 347k |
| `MCCatalog` | two ISBNs, a request of each kind, three of them failing, crashes, either cache; fair | the cache invents nothing, agrees with the table between requests that came one at a time, and heals | 1169k |
| `MCTxContext` | three operations over two rows in opposite orders, two failing, crashes, either substrate | the atomic operation refined, deadlocks included; over Postgres all or nothing; events after all writes | 40k |
| `MCEventBus` | two subscribers and the consumer, two publications, two callers of Start and Stop | delivery to exactly those subscribed; the consumer subscribed once | 254k |
| `MCChat` | four tokens, frame buffer of two, either gateway, fair | the client reads a prefix in order, Done means that the source ended well and all it sent was read, the goroutines end, a client that stays is told the end | 1729 |
| `MCServer` | three requests of any kind over a pool of two connections, one of which may never be answered by Postgres, anything outside at fault, signals at any time, fair | answers are true and single, the pool stays in bounds and outlives the handlers, every exit but the hasty ones releases, a signal ends the process, a hung request starves no other | 482k |
| `MCParity` | up to three rows, of one table or of several, and any sequence of calls | the repositories in memory and over Postgres honour one contract, but for the differences of section 6; the facades' own looks keep keys unique when calls come one at a time | 547k |

Violation runs: `MCBorrowRace` and `MCChatUnflushable` (section 6).

Where the program is wired in one of two ways (Redis or the memory cache, Postgres or
the memory substrate, the memory or the openai gateway), the module has a variable
that `Init` chooses (`redis`, `buffered`, `gateway`) and no step changes, so that
one run covers both and a property can say which it is about.

Why these bounds suffice: the saga's hazards need two returns of one book (the
mutex), two reservations (order, skipping) and one outsider that takes a copy or a
place in the queue; a third return only queues behind the mutex.
`MCLendingContention` starts with one reservation (`OneWaits`) because its reserver
makes the second, at a moment of TLC's choosing. `MCLendingFaults` starts with
`ThreeWait`: the third reservation is for a book nobody returns, and must not be
touched. A fine races with one other assessor; a threshold of two fines needs two.
A cache entry goes stale with one reader and one writer. Two transactions can
deadlock; the third contends with either. Slot numbers go wrong with three
handlers. A frame buffer of two, with a reply of four, blocks every goroutine on the
next, as a buffer of 8 does with longer replies. Two connections for three
requests make one wait while another hangs; three requests of one key are the race,
its loser and a bystander. Two rows show a refused duplicate and a third an order
or a limit (`MaxPrefixResults` is 1 in `MCParity`, for 100 in the code). `MCParity` has
three moments, two of them in one microsecond, and the names aa, AA, aB and b: two that
are one name, and one that sorts elsewhere unless it is folded. `MaxTime` and `MaxLife` bound the
clock and the Start/Stop calls; the other counters are bounded by the finite set of
requests. What the proofs cover holds for every instance.

`Overlap = FALSE` (`MCFinesRetry`) stands for a caller that sends one assessing
request at a time, as a daily job does. The program does not enforce it:
`RetrySafe`, stated without its `~Overlap`, fails under `MCFinesOverlap.cfg`
within seconds. In `Catalog` nothing is assumed:
the history variable `overlapped` records whether a request has begun while another
was in flight, and `AgreesBetweenRequests` is about the behaviours where none has.

Deadlock checking is off: once all the requests of an instance are answered, or the
process has exited, the system stops. That none stops *unanswered* is what
`EveryRequestAnswered`, `StreamEnds`, `RequestsServed` and `SignalEnds` check.

## 4. Fairness

Liveness runs assume weak fairness of each process's own steps and no more. The Go
runtime schedules every runnable goroutine, database and cache calls return (with
an error at worst), and a request waits only for the mutex of its book. In
`MCLendingFaults` weak fairness is enough although two requests contend for one
mutex, since there are finitely many of them; Go's mutex is starvation-free
besides. Nothing forces a client to call, staff to act, the clock to move or the
process to die. `MCCatalog` adds fairness of `Expire`: a Redis entry's time to
live runs out. `Server` is fair to main, whose shutdown timer fires, and to each request's
goroutine; but a query of a request in `Hung` never answers (the program sets no
statement timeout), and a signal, a panic or a failure never has to come. `Chat` is fair
to its goroutines and to the server noticing a client that left; the source of a reply
answers, ends it or breaks off.

## 5. What is proved

Each `*Proofs` module proves `Spec => []P` for any values of the constants that
satisfy the module's named assumptions, which TLC also evaluates on every run. The
shape is the same throughout: an inductive invariant `IInv`, one lemma for `Init`,
one for each group of actions, `InductiveStep` and then the theorems.

### Lending

`LendingProofs` proves six properties of `Lending!Spec` for any sets of requests,
members, books and copies, any initial loans and reservations, and any choice of
faults, volatile members and crashes. The only assumptions are
`RequestAssumption` and `DataAssumption` of `Lending` (ids of different kinds are
different; the initial rows are open loans of different copies and pending
reservations made in the past).

| theorem | property |
|---|---|
| `TypeCorrect` | `TypeOK` |
| `ClaimsAreExclusive` | `ClaimExclusive` |
| `HonouredAtMostOnce` | `HonouredOnce` |
| `AutoLoansAreBacked` | `AutoLoanBacked` |
| `StrandingIsTold` | `NoSilentStranding` |
| `CopiesSettle` | `CopySettled` |

None but the first is inductive by itself. The inductive invariant `IInv` adds to
the next four:

- `Control`: what the locals of a request hold at each place of its code, and which
  kind of request can be there;
- `Rows`: an id has no row until its request saves one, and what was listed or
  claimed has a row;
- `LockHeld`: from `saga_list` to the end the request holds the mutex of its book;
- `QueueSound`: what the saga listed is still for its book, and still pending,
  because only a holder of that mutex changes `fulfilled`;
- `ClaimSound`: a claimed reservation is for the book returned, marked fulfilled,
  in the name of the member the saga borrows for, and not yet honoured;
- `LoanSound`, `OpenedBy`: the loan a saga has opened is the one it announces;
- `DraftsWait`: a reservation about to be saved is not fulfilled.

The argument in one paragraph: the mutex is taken before the list and given back on
every path, so at most one request is between the two for a given book
(`LockExcludes`). Reservations of a book change only there, so what was listed is
still pending when it is claimed, a claim is open in one request only, and the
request that announces the loan is the one that claimed. A crash frees the mutexes,
but also sends all their holders to `"lost"`, where nothing follows. Fulfilled
without a loan then leaves only an open claim, a lost one, an un-fulfil that
failed, and that one goes on to publish AutoLoanFailed, or a claim that was committed
and reported as failed, which `unheard` remembers.

The proof goes by action: one lemma for each group of actions that disturbs
the same parts, with one step per part; `InductiveStep` combines them.

`CopySettled` rests on `IInv` and on two more invariants. `CopyTouched` says whose
copies there can be loans of; `CopiesTracked` says what the status column and the
loans table hold at each place of the one request that works on a copy, also between
its two writes (`Between`). A step of another request is not seen (`OtherCopies`); a
step of its own is one case per action (`OwnCopy`).

Two theorems about the queue build on these, from the same assumptions:

| theorem | states |
|---|---|
| `FirstComeFirstServed` | `QueueOrder` |
| `QueueImplemented` | `Spec => Abstract!Spec`, the refinement of `ReservationQueue` |

*Refinement.* A step of one request changes the abstract state of no reservation but
the one it works on (`Elsewhere`). Saving a row queues it, `ClaimReservation` claims
it, the announcement of the loan honours it, the un-fulfil puts it back or strands
it, a claim reported as failed may have stranded it (`LoseClaim`), and a crash strands
every open claim at once; all other steps are stutters
(`QuietBorrow`, `QuietReturn`, `QuietSaga`, `QuietStaff`). That a claim finds no other
of its book open is `ClaimExclusive` again.

*Order.* `QueueOrder` is not inductive: a claim in progress may be given back, and
somebody could have been served meanwhile. `OrderInv` adds `ListsWhole`, that
the saga's list holds all that wait for the book (nothing comes back to wait while a
saga of that book is at its list, `WaitedBefore`), and that its choice is the first
of them; and `FirstClaimed`, that nobody has overtaken an open claim. The assumptions
of the property are needed: a reserver who has become ineligible is passed over, and
a return whose call fails leaves a reservation claimed without a loan.

### The other parts

| module | theorem | property | what makes it inductive |
|---|---|---|---|
| `CatalogProofs` | `TypeCorrect`, `CacheInventsNothing` | `TypeOK`, `CachedWasSaved` | `RowsWritten`, `FillsWritten`: what the table holds is in the history, and so is a row on its way to the cache, whatever has become of the table since it was read |
| `CatalogProofs` | `CacheFollowsTable` | `AgreesBetweenRequests` | `Tidy`: of requests that come one at a time, one is in flight; what it has read is still in the table, and an entry that differs from the table is the one it has yet to write or evict |
| `FinesProofs` | `RetriesAreSafe` | `RetrySafe` | `OneAssessor` and `NoFineYet`: one assessor in flight, and no fine of the loan it is about to save. A lost assessor saves no more, so what it saved is found by the next |
| `FinesProofs` | `FinesCoverDelays` | `FineCoversDelay` | `OverdueThen`: what was listed was overdue when the request was received, so the delay is positive; `PaysWhatIsThere`: a payment writes back the amount that is there; `RoundsUp`: the arithmetic of the ceiling |
| `FinesProofs` | `SuspensionsOnce` | `SuspendedOnce` | `Announced`: whoever was announced is still SUSPENDED, and nobody on the way to an announcement has made it before; `Subjects`: who can be where in the batch |
| `FinesProofs` | `SuspensionsAreBacked`, `TypeCorrect` | `SuspensionBacked`, `TypeOK` | `Backed`: from the total to the announcement, what a batch has added up reaches the threshold and was charged; fines are added and paid, which takes nothing off what was charged |
| `FinesProofs` | `BatchesEnforce` | `BatchEnforces` | `EnforcedBy`: of requests that come one at a time, whoever the batch has fined is the member it is working on, or suspended, or owes less than the threshold |
| `TxContextProofs` | `TypeCorrect`, `CommitsAreAtomic` | `TypeOK`, `AllOrNothing` | `Sound`: while no statement has failed, the open transaction holds exactly the writes of the part of the plan that has run, so at COMMIT it holds all of them |
| `TxContextProofs` | `NewsFollowsWrites` | `EventsFollowWrites` | `Told`: nothing is heard of an operation before its writes are in effect, and what is staged is what its plan still has to tell; `Replayed`: in memory, the closures left are the writes not yet in effect |
| `TxContextProofs` | `ImplementsAtomic` | `RefinesAtomic` | `Told` again: the events heard of an operation count how far its announcement has come |
| `ServerProofs` | `ProcessTypeCorrect`, `PoolIsThere`, `ExitsRelease` | parts of `TypeOK`, `PoolInBounds`; `ExitReleases` | `OpenByPhase`: what is held in each phase, which the configured redis URL decides; `ServedByPhase`: requests are in flight only while serving or draining, or after a hasty exit |
| `ServerProofs` | `ServerIsProcess`, `TypeCorrect`, `PoolBounded`, `AnswersAreTrue`, `AnsweredOnce`, `UniqueKeys` | `TypeOK`, `PoolInBounds`, `AnswerIsTrue`, `OneAnswer` | the invariant of the process, through `ServerIsProcess`; the state of a request's response at each place of its code, over lemmas that say what each operator of `Http` does to it; `KeysUnique`, so that a refusal has another's row behind it |
| `EventBusProofs` | `SubscribedOnce` | `ConsumerSubscribedOnce` | `Mutex`: whoever is inside Start or Stop holds `lifecycleMu`; `SlotsKept`: slots are never reused, so an Unsubscribe captured by another cannot empty the consumer's; `StartedFollows`: the flag follows the slot |
| `EventBusProofs` | `TypeCorrect`, `ImplementsSubscriptions` | `TypeOK`, `RefinesSubscriptions` | `OwnSlot`: a subscriber occupies no slot but the one it remembers, so emptying that one takes all of it away; `Copies`: snapshots hold handlers |
| `ChatProofs` | `TypeCorrect`, `StreamsAreFaithful` | `TypeOK`, `StreamFaithful` | `Ordered`: client, frames, forwarder, deltas and gateway hold consecutive tokens of the reply, and wherever the mark of completion is, its source ended well and all that it sent is ahead of it, unless the client has hung up |
| `ParityProofs` | `GuardsAreEnough`, `NothingTellsThemApart` | `GuardsSuffice`, `SameContract` | `Unique`: no two rows of one key, in a store that checks none; and `Alike`: the same rows on both sides, moments to the microsecond, each book once in the order of insertion, every copy with its book and no reservation of a garbage book; or `KnownParting`: memory has let go of a book that has copies, or has a reservation whose book is no UUID |

`FinesCoverDelays` and `SuspensionsAreBacked` hold for overlapping requests too;
`RetriesAreSafe`, `SuspensionsOnce` and `BatchesEnforce` have the assumption
`~Overlap` in the property; the first is known to need it (section 3).
`NewsFollowsWrites` and `ImplementsAtomic` use `PublicationAssumption` besides
`TxAssumption`: what two operations publish is two events. The properties tell by an
event whose news it is, which two equal ones would not.

*Data.* Some of these theorems are about what is computed from data of any size. They
need no induction rule with an operator for a parameter:

- The recursions over the naturals (`Without`, `EventsUpto`) are functions, and an
  induction is a statement about a set of numbers: one that holds 0 and with `n` also
  `n + 1` holds all (`Counting`, from the least element of its complement). So a
  recursion has a value for every argument (`KeptExists`, `UptoUnfolds`), and two that
  begin alike agree on the beginning (`KeptAgree`).
- A total of fines is a fold over a set, which adds in an order TLA+ leaves open. The
  same induction, over the size of the set, shows that a member's total grows by a fine
  more and does not shrink with a payment, whatever the order.
- Listings are not sorted by recursion: `Tables!Ranked` puts at place `i` the element
  that has `i - 1` before it. For an order of a finite set every rank is taken once
  (`Ranks`), and what lists a set in one order is the only sequence that does. With
  that, a query that sorts the rows it found and a loop that filters what it sorted
  come to the same listing (`ReadsAgree`).

### Model-checked only

Liveness under fairness is outside the prover's reach: `EveryRequestAnswered`,
`HeadAttempted` and, of `RefinesQueue`, that every claim is settled (`Lending`),
`OverdueIsFined` (`Fines`), `StaleHeals` (`Catalog`), `StreamEnds` (`Chat`),
`SignalEnds` and `RequestsServed` (`Server`). Every other property of a passing run is
a theorem.

## 6. Findings

Each is a run with one property, which states what a comment or the specification
says, and which TLC finds violated. `PROJECT.json` quotes the lines.

| run | the repository says | the code does |
|---|---|---|
| `MCBorrowRace` | Borrow opens a loan against an AVAILABLE copy | two borrowers pass the check; two open loans of one copy |
| `MCChatUnflushable` | the no-Flusher branch never fires | behind the logger middleware it always does: POST /chat answers 500 |

The second is a plain bug: `statusRecorder` embeds `http.ResponseWriter` and has
neither `Flush` nor `Unwrap`; the handler tests mount the route without the
middleware and do not see it.

The models contain more behaviours that differ from what a comment says. They have
no run of their own, and the properties of the passing runs are stated around them:

- *Lending.* Between MarkCopyAvailable and the saga's Borrow, another borrower can
  take the copy, so the Borrow that the saga expects to succeed is rejected. Borrow
  can also fail *after* its commit, on MarkCopyUnavailable: the saga then announces
  AutoLoanFailed and queues again a member who has the loan; so it does when Borrow's
  own commit is reported as failed. A MarkCopyAvailable that fails leaves the copy
  UNAVAILABLE with its loan closed. (`CopySettled`, `HeadAttempted` and
  `NoSilentStranding` allow for it.) And a claim whose commit took effect but was
  reported as failed strands its reservation silently: `auto_loan_on_return.go:199-210`
  logs and returns, with no loan, no un-fulfil and no AutoLoanFailed. The comment at
  `:230-232` speaks of "the rollback", and the phase 4 spec says that the row is
  unchanged (line 583; also 112). (`NoSilentStranding` and `HeadAttempted` except what
  is in `unheard`; in `ReservationQueue` it is `LoseClaim`.)
- *Fines.* `fines/driven/bun/repository.go:97-99` says that the facade keeps to one
  fine per loan; two requests that assess a loan at once both find none
  (`fines/facade.go:78`) and both save one (`:86`), and no constraint refuses it.
  Two batches at once can both find the member ACTIVE and both publish
  MemberAutoSuspended; two payments can both find the fine unpaid and both succeed;
  UpgradeTier writes back the status it read and can undo a suspension.
  (`SuspendedOnce` is for one assessor at a time; `SuspensionBacked` for any.) A fine or
  a suspension that was saved but whose save was reported as failed, or whose process
  died before it was published, is never announced: a retry finds it and passes on.
- *Catalog.* A find that read before a delete fills the cache after it; a
  write-through that failed leaves the older entry; an update that read before a
  delete inserts the book again. (`AgreesBetweenRequests` excludes overlap, failed
  calls and crashes; `StaleHeals` says that Redis forgets the rest.)
- *Transactional context.* In memory, a staged closure that fails leaves those
  before it applied. (`AllOrNothing` is about Postgres.)
- *Lifecycle.* Two exits of main go through `os.Exit`, which skips the deferred Close,
  and a second signal kills the process while Close is at work. (`ExitReleases` is
  about exit code 0 and about failures to start.) `wiring.go:151` calls Close
  idempotent; a second one returns an error from the redis client. `.env.example` and
  `config.go:56-57` say that a .env file is merged with the environment; its keys
  keep the prefix LIBRARY_, which no later read asks for, so nothing of it is used.
- *Registration.* The loser of two concurrent registrations of an address is refused
  by UNIQUE (email) and answered 500, where one that came later gets 409; the
  categories repository translates the same violation. (`AnswerIsTrue` leaves a
  500 open.) `middleware.go:77` says of a type registered twice that the "last
  write wins"; the lookup takes the first match.
- *Repositories.* `ARCHITECTURE.md:93` says that "the in-memory impl and the bun impl
  honour the same contract". DeleteBook of a book that has copies succeeds in memory
  and fails over Postgres. A reservation of a book whose id is no UUID is
  accepted (`schema.go:62-72`, `lending/facade.go:132-146`), stored in memory and answered
  201; Postgres refuses it (22P02, `0003_lending.sql:24-30`) and the answer is 500
  (`KnownParting` is these two). Elsewhere an id that is no UUID is a miss in memory, 404,
  and, for fines and categories, over Postgres; in the other tables Postgres reports an
  error, and the answer is 500 (`SameOutcome` says so; `SameReads` asks for garbage only
  of fines and categories). Postgres keeps moments to the microsecond, so two
  reservations made within one, which memory lists by their nanoseconds, come in any
  order (`AsKept`; the loans' and fines' times, which order nothing, are left out).
  ListBooks is in order of insertion in memory, as `catalog/facade.go:153` says, and by
  id over Postgres. Not modelled: the other spellings of a UUID that Postgres takes, the
  collation of names, letters beyond ASCII, and `%` and `_` in a prefix, which are
  wildcards over Postgres only.
- *Chat.* The phase 5 spec says that after a per-token gateway error "the facade emits a
  Done frame regardless" (`improving-tdd-demo-go-phase-5-spec.md:166`; also 114, 399 and
  438); `chat/facade.go:67-70` emits an Error frame and no Done. (`StreamFaithful` states
  what the code does.) The openai gateway takes any `io.EOF` for a clean end
  (`openai.go:82`), also that of a body without its [DONE], and the client is told Done
  after half a reply. (`StreamFaithful` asks for all that the source *sent*.) Its
  goroutine stays blocked in its send when the reader has left, and a Done frame can
  follow a cancellation. (`StreamEnds` excepts the former.)

## 7. Mutants

Every property of a passing run has a mutant: a plausible bug in one definition
(a lock not taken, a WHERE clause too wide, a claim not given back, a reset
forgotten), written just before the definition it replaces and marked
`\* Mutant:`. Under the run's own configuration TLC finds the property violated by
it. Some properties have more than one.

## 8. Not modelled, and why

- **Access control**: a constant table; both callers pass the MEMBER role.
- **GET routes and decoding**: a GET handler calls one read and writes it. What the
  handlers decode is one choice of `Server`: the body is valid or not.
- **ISBN gateway**: no state, and the external adapter is a stub.
- **Migrations**: a library call made by a command of its own. The constraints of the
  schema appear in the modules that rely on them.
- **Read-only listings** of loans, reservations and fines: no state changes. The
  reads they rest on are compared in `Parity`; the ones other operations depend on
  are steps of those operations.
- **Sample data**: a fixture for demonstrations; the facades it calls are modelled.

## 9. Plan

1. *Lending core and saga*: `Lending`, `ReservationQueue`, `LendingProofs` (done).
2. *Fines, catalog, transactions, bus, chat* (modelled and checked).
3. *Proofs about the other parts*: `CatalogProofs`, `FinesProofs`, `TxContextProofs`,
   `EventBusProofs`, `ServerProofs`, `ChatProofs`, `ParityProofs` (done, see section 5).
4. *Registration and the composition with the lifecycle*: `Http`, `Server` (done).
5. *Repositories*: `BunRepositories`, `MemoryRepositories`, `Parity` (done).
6. *The queue*: the refinement and the order, in `LendingProofs` (done).
7. *Left*: `Lending` composed with the batch of `Fines`. The two meet now only through
   the volatile members of `Lending`, whose standing may change at any step, a
   suspension by the batch among them.
