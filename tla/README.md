# A TLA+ model of the profile service

This directory holds a model of the service in `src/`: the HTTP profile service
of a messenger, written in C++ over Boost.Beast and libpqxx. It keeps profiles,
contacts, favorites, privacy settings and notification settings in PostgreSQL.
The model is checked with TLC on small instances and its central properties are
proved with TLAPS for every instance.

    tlc -workers 2 -config svc_profiles.cfg MCProfileService.tla
    tlapm ProfileApiProofs.tla

`PROJECT.json` lists the components, the runs, the definition-to-source map, the
mutants (a plausible bug for each property, which the property must catch), the
hazards, the findings and the theorems.

## 1. Inventory

### Parts and how they interact

    client --TCP--> listen queue --> worker thread of Server (one connection at a time)
                                        |  ServerImpl::Handle -> RequestManager (route, auth)
                                        |  -> handler -> repository -> QueryExecutor
                                        v
                                     PostgresConnection (one, shared) --> PostgreSQL
    main thread: construct, Start, block signals, sigwait, Stop, destroy

| part | source | state | operations | correct when |
|---|---|---|---|---|
| Server | `src/src/server.cpp`, `include/.../server.hpp` | `m_running`, `m_thread`, `m_impl`, the acceptor and one socket | `Start`, the thread function, `Stop`, destructor | one connection at a time; `Stop` ends; the thread never uses a destroyed `m_impl`; between handling a request and the attempt to answer it nothing comes |
| process | `src/src/main.cpp` | signal mask, pending signals | construct, start, mask, `sigwait`, stop | a signal ends it; "started" means serving |
| ServerImpl, QueryManager | `server_impl.cpp`, `query_manager.cpp` | the managers, the connection | construct, `Handle` | construction connects or throws |
| routing, authentication | `api_spec.cpp`, `request_manager.cpp`, `auth_validator.hpp` | none (static route table) | `ResolveRoute`, `ExtractPathParams`, `HandleRequest` | one operation per path; the three matchers agree |
| handlers | `src/src/handlers/` | none | 18 operations of profiles, contacts, favorites, privacy and notifications | an answer tells what was done; no update is lost |
| repositories, mappers | `src/src/repository/` | none of their own: the tables | one SQL statement each | constraints hold; own rows only; repeating is harmless |
| schema | `migrations/001_init.sql`, `docker/init.sql` | five tables | - | UNIQUE username, foreign keys to `profiles` |
| QueryExecutor, PostgresConnection, PostgresTransaction | `query_executor.hpp`, `query_executor.cpp`, `postgres_connection.cpp` | the `pqxx::connection`, `m_isOpen`, `m_committed` | `ExecuteSelect`, `ExecuteModify`, `ExecuteInTransaction`, `Commit`, `Rollback`, `Close` | a call commits wholly or not at all; no transaction is left behind; a lost connection is answered, not waited for |
| result set cursor | `postgres_connection.cpp` | cursor | `Next`, `GetRow()` | no caller: rows are read by index |
| avatar storage | `minio_storage.cpp` | none: a stub | `Upload`, `Delete` | - |
| JSON utilities | `json_utils.hpp` | none | `DecodeBase64`, timestamps | decodes what was encoded |
| models, logger, test page, build, containers | rest | none | - | - |

### What is hard here

* **Two transactions in one request.** `PATCH /me` reads the row in one
  transaction, lays the body's fields over the copy, and writes every column of
  the copy back in another. Only the accept loop, which serves one connection at
  a time, keeps another write from coming in between.
* **Everything throws.** A handler's `catch` turns "no such row", "constraint
  violated", "connection lost" and "body is no JSON" into one status. The
  commit may have happened although the call threw. Nothing reopens a lost
  connection until the process restarts.
* **NULL and "".** Columns nobody set are NULL, the repositories bind
  `value_or("")`, and the readers turn NULL into "" again. `UNIQUE` treats the
  two differently, and so does `WHERE chat_id IS NULL`.
* **A blocking server.** One thread blocks in `accept` and in `http::read`,
  without a timeout. `Stop` wakes it with a connection to its own port, which
  has to pass the same queue and the same thread, and whose failure nobody sees.
* **Three matchers.** `ResolveRoute`, `ExtractPathParams` and the `Handle` of each
  handler match the same target by code of their own; nothing ties them
  together.
* **Exceptions across a transaction.** The only connection carries one
  transaction at a time. Whatever throws while it is open, a destructor has to
  end it, or the next request finds it.
* **Signals.** They are blocked in the main thread after the worker thread was
  created without a mask, so where a signal goes depends on when it comes.

The full list, each item at its line with the properties that watch it, is
under `hazards` in `PROJECT.json`.

## 2. Modules

| module | what it is |
|---|---|
| `Repository` | the five tables, their constraints, and each SQL statement of the repositories as an operator from a database to the set of databases it can commit |
| `Requests` | the requests and responses, as far as the handlers tell them apart |
| `ProfileService` | the request path as a state machine: clients, queue, accept loop, all handlers, the shared database connection, death and restart; and its mapping to `ProfileApi` |
| `ProfileApi` | the abstract specification: each request is one step that succeeds and does all, fails and does nothing, or loses the store |
| `MCProfileService` | instances for TLC |
| `ServerLifecycle` | start and stop: main thread, worker thread, listen queue, clients that are slow or silent, signals |
| `ServerApi` | the abstract specification: one line, served in its order, each request once, and an attempt to answer whom it handled before it closes |
| `MCServerLifecycle` | instances for TLC |
| `Routing` | the route table and the three matchers, as operators |
| `Base64Decoder` | `DecodeBase64`, one step per character, and the octets of RFC 4648 |
| `MuteTime` | the way of a `mutedUntil` from the body to its column |
| `FrontEnd` | `RequestManager::Handle`, the handlers' dispatch and what they read of a body; extends the three above |
| `MCFrontEnd` | the targets and bodies of an instance |
| `Statements`, `StatementApi` | the calls of `QueryExecutor`, and the abstract specification: a call is all or nothing |
| `DatabaseSession` | a call as the code performs it on its connection, with the session of PostgreSQL on the other side |
| `MCDatabaseSession` | a database of two bits for TLC |
| `ProfileServiceProofs`, `ProfileApiProofs`, `ServerLifecycleProofs`, `FrontEndProofs`, `Base64DecoderProofs`, `HandOverProofs`, `DatabaseSessionProofs` | theorems and proofs; `HandOverProofs` has those of `FrontEnd` that are about bodies, on top of the two before it |

The modules meet where the code has its interfaces. `FrontEnd` turns an HTTP
request into a request of `Requests` (`HandsOverRequests` checks that it gives
nothing else); `ProfileService` carries such a request out, each of its statements
being one step that commits, is refused or loses the connection; that this is
what a statement is, is `StatementApi`, which `DatabaseSession` implements.
`ServerLifecycle` is the thread all of this runs on.

### Repository and Requests

A row of `profiles` is a function from columns to values; `Null` is SQL NULL,
`Empty` the empty string, `None` says that a key has no row. A statement returns
the set of databases it can leave, `{}` when PostgreSQL refuses it; `Checked`
applies `UNIQUE(username)` and the foreign keys. An `UPDATE` that matches no row
leaves the database as it is, without an error, as in SQL and as the code
accepts. `StorableChats` and `StorableVisibilities` say which texts the column
types take: any under `migrations/001_init.sql` (VARCHAR), well-formed ones only
under `docker/init.sql` (UUID, enum).

A request is an `op` (the `HandlerId` it is routed to), the acting `user` and the
fields the handler reads. `body` tells a good body from one that cannot be
parsed ("malformed"), lacks a required field ("incomplete") or, in `PATCH /me`,
has a field of the wrong type that is noticed only after the SELECT
("illtyped"). A response is its status and, for reads and `PATCH /me`, its
content.

### ProfileService

| state | code |
|---|---|
| `db` | the tables, as committed |
| `connOpen` | `PostgresConnection::IsOpen` |
| `up`, `backlog`, `worker` | the process listens; connections not accepted; the socket the loop holds |
| `phase`, `req`, `copy`, `reply` | where each client's request is; the request; the `domain::Profile` of `PATCH /me`; the response not yet written |

`Accept` and `Reply` are the two ends of an iteration of `Server::Start`'s loop.
Each `Handle...` action is a whole handler with its early returns and its catch.
The two handlers that run two statements are two actions each, because each
statement is a transaction of its own: `HandleUpdateProfileRead` and
`HandleUpdateProfileWrite`, `HandleGetChatNotifications` and
`HandleGetChatFallback`. `Query` and `Modify` are what a statement can do: find
the connection closed or lose it, be refused, commit, or commit and lose the
acknowledgement. `Crash` is the end of the process or of its worker thread at any
point between statements; `Restart` is a new process, which has connected before it
listens.

Modelling decisions:

* A client sends one whole request. Slow and silent clients are
  `ServerLifecycle`'s subject.
* A statement in flight when the process dies is finished or aborted before the
  restarted process runs its first.
* libpqxx 6 may reconnect on its own at BEGIN. To the model that is a connection
  that did not break.
* `Reply` ends the exchange. Whether the response, whose write error the code
  ignores, arrives is `ServerLifecycle`'s subject; to the tables it makes no
  difference, and to the client no other than a crash (`RetryIsHarmless`).
* Several `pqxx` calls do not compile as written (`field.type().name()`,
  `exec_params` with iterators) and `CMakeLists.txt` omits three sources. The
  evident meaning of these calls is modelled.

### ServerLifecycle

`main` and `worker` are program counters: one action per statement of `main`,
`Server::Start`, the thread function, `Server::Stop` and `~Server` that another
thread, the kernel or a client can observe. `conn` is each connection as seen by
its client; a client may connect and stay silent, send all, hang up, or leave
before the answer. `Signal` sends SIGINT or SIGTERM: taken by `sigwait`; kept
pending when only the masked main thread is left; otherwise delivered to a thread
with the default action, which kills the process, or, if it is PID 1 of a
container (`isInit`, chosen at the start), does nothing. `m_impl->Handle` is one step
that may throw. `http::write` may fail at any time, which the code does not look at:
a client that waits is then "broken", not "answered". Stop's own connection may fail
at any time too, with or without room in the queue; `main` is then at its join
"unheard". `handled` and `late` are history variables.

### FrontEnd

A target is its sequence of tokens: a slash, or what stands between two. A
string prefix that ends with a slash is then a prefix of the tokens, and
`/contactsx` is not under `/contacts/`. A query string stays part of its token,
as in the code, which never splits it off: `/me?x` is not `/me`.

| state | code |
|---|---|
| `request` | the `http::request`: method, target, X-User-ID, body |
| `route`, `params` | the `HandlerInfo` resolved, `RouteContext::PathParams` |
| `op` | the operation the bound handler's `Handle` selects |
| `text`, `at`, `val`, `valb`, `decoded` | the locals of `DecodeBase64` |
| `response`, `handed`, `until` | the status answered here, or the request carried out and its `muted_until` |

`AnswerOptions` to `BindHandler` are `RequestManager::Handle` in its order: 204,
404, 401, then the parameters and the handler. `DispatchToHandler` is the
handler's own `Handle`, `ParamMissing` its 400, and one action per operation that
reads a body follows nlohmann::json: `contains` is false of what is no object,
`value` throws on it, `operator[]` and `get` throw on a field of another type.
A body is an object of fields, another value, or no JSON. `val` is kept
modulo `Word`: `>>` and `& 0xFF` look at the `int` modulo a power of two.

### DatabaseSession

`pc` walks through a call of `QueryExecutor`: the `IsOpen` checks, `BEGIN` in the
constructor of `pqxx::work`, the statements, what the operation given to
`ExecuteInTransaction` does after them (return, `Rollback`, throw, call the
executor again), `COMMIT`, and the destructors. `link` is the connection as
libpqxx sees it: a broken one is "cut" until it is used. `session` and `pending` are
the server's side. A `COMMIT` is acknowledged, done with its acknowledgement
lost, or never arrives. `Execute` and `ExecuteParams` of `PostgresConnection` are
the case of a transaction with one statement. `ExecuteInTransaction` has no caller
in the service yet; an operation is taken to let exceptions pass.

## 3. Runs

The runs of `ProfileService` and `ServerLifecycle` turn deadlock checking off:
clients may stop sending, the number of requests is bounded, and a process that
exited takes no step. `session` and `front_end` check it: neither ever stops.

| run | checks | instance | states |
|---|---|---|---|
| `svc_profiles` | `TypeOK`, `QueueHoldsWaiting`, `Serial`, `FreshCopy`, `AnswersMatchTables`, `RetryIsHarmless`, `NoLostUpdate`, `OwnRowsOnly`, `ChangesAreAcknowledged`, `ImplementsApi` | profile operations; 2 clients, 2 users, 2 columns, 4 requests, 1 crash | 351 K |
| `svc_tables` | `TypeOK`, `AnswersMatchTables`, `RetryIsHarmless`, `ImplementsApi` | contacts, favorites and settings over the types of `docker/init.sql`, 4 requests | 732 K |
| `svc_liveness` | `EveryRequestEnds` | both two-step handlers, 4 requests, no symmetry | 20 K |
| `life` | `TypeOK`, `ThreadWithinServer`, `AtMostOneLate`, `AnswerIsTried`, `ImplementsServerApi`, `StopTerminates`, `SignalEndsProcess`, `SentRequestEnds` | 3 clients that finish, queue of 2, 2 signals, PID 1 or not | 331 K |
| `session` | `TypeOK`, `NoTransactionLeft`, `EveryCallEnds`, `ImplementsStatementApi` | two bits, 2 statements per transaction, any breakage and restart | 40 K |
| `front_end` | `TypeOK`, `RouteIsDispatched`, `ReachedByItsPath`, `MatchedIsServed`, `NoOneActsAnonymously`, `HandsOverRequests`, `OverflowIsHarmless`, `AcceptedTimeIsKept`, `RequestIsDecided` | 7 methods on all targets of up to 5 tokens, with and without a user; every kind of body; images of up to 5 characters | 39 K |

What the properties say:

* `FreshCopy`, `NoLostUpdate`: the copy `PATCH /me` writes is still the row with
  the requested fields over it; a profile changes only as the request being
  served asked, column by column. With a thread per connection (the mutant
  `Accept_Concurrent`) both fail.
* `AnswersMatchTables`: what a success says is what the service's own reads find,
  operation by operation (`Confirmed`). A read is compared with the tables, the
  two notification reads included: `GET /notifications/{chat_id}` answers the global
  settings for an id the column cannot hold, and those of the chat for every other.
  A write must be found there afterwards. `PUT /notifications` is found under `""`
  only, since `GET /notifications` looks elsewhere (`doc_readback`); one write is
  exempt, an avatar for a user without a profile.
* `ChangesAreAcknowledged`: an error over a working connection means that nothing
  changed.
* `RetryIsHarmless`: a write that succeeded would succeed again and leave the
  tables as they are, for a client whose answer was lost.
* `OwnRowsOnly`: no request changes rows of another user.
* `ImplementsApi`: with the mapping `store <- db`, `available <- connOpen`,
  `asked <- req`, `answer <- reply`, `ProfileService` implements `ProfileApi`.
  The first half of `PATCH /me` and the failed first read of
  `GET /notifications/{chat_id}` map to stutters or to an outage.
* `ThreadWithinServer`: the thread runs only while `m_impl` lives and `main` has
  not returned, also when the thread's own failure lets `Stop` skip its join.
* `AtMostOneLate`, `AnswerIsTried`: at most one request is handled after
  `m_running` was cleared; a client whose connection was closed without an attempt
  to answer it was not handled, unless a signal killed the process. The client
  itself cannot tell: a write that failed looks the same.
* `ImplementsServerApi`: with `Line` the connection being served and the kernel's
  queue behind it, and `Stage` what the acceptor and `m_running` make of the server,
  `ServerLifecycle` implements `ServerApi`. Connections are served in the order in
  which they came, also across errors of accept and read; a request is handled
  once at most, and once at most after the stop was asked for; the server that
  closes has tried to answer whom it handled and resets who is in line; and it does
  not open again. Only a signal that kills the process (`Kill`) comes between the
  handling of a request and the attempt to answer it.
* `StopTerminates`, `SignalEndsProcess`: `Stop` ends, and where signals are not lost
  one signal ends the process, or else Stop's connection failed and the worker waits
  in `accept` for another one for ever (`StopUnheard`). The exception has to last:
  the next client that connects ends the wait, and a `Stop` that makes no
  connection at all (the mutant) is not excused.
* `SentRequestEnds`: a complete request is read in the end. For the three of them,
  see fairness below.

* `RouteIsDispatched`, `ReachedByItsPath`, `MatchedIsServed`: the three matchers
  agree. A bound handler never answers 404; what is carried out is what the target
  says; and every target that a route of the table matches segment by segment
  reaches that operation. What the code serves beyond the table, it serves with
  all of the rest as the parameter (`DELETE /contacts/a/b`).
* `NoOneActsAnonymously`: without an X-User-ID only `POST /internal/profiles` is
  carried out.
* `HandsOverRequests`: whatever is missing or ill-typed, what is handed on is a
  request `ProfileService` knows.
* `OverflowIsHarmless`: the bits that `val` loses are never wanted: every byte is
  the eight bits of the digits where the count from -6 puts them.
* `AcceptedTimeIsKept`: an RFC 3339 `mutedUntil` that is accepted is stored as the
  instant it names, where process and session keep UTC, as in the containers.
  With another zone of either it is not.
* `RequestIsDecided`: no loop over a body goes on for ever.
* `NoTransactionLeft`: between calls the session is idle, however the call
  before ended.
* `ImplementsStatementApi`: with `available <- link = "up"`, `asked <- call` and
  `answer` what the caller has been told, a call commits all its statements or
  none and says which unless the connection was lost.

### Bounds

Two clients are enough for one request to come between another's two
statements, and two users for the `UNIQUE` constraint, the foreign keys and
swapped parameters. Two columns let a lost update show: one that the request
names, one that it must leave alone. Four requests suffice to create two
profiles, patch one and have another client read or write during it; one crash
and any number of connection losses fall at each point of these. In
`ServerLifecycle`, a queue of two with three clients can be full with one
connection being served; two signals let one arrive during the `Stop` the other
caused. In `DatabaseSession` two
statements let the second be refused after the first was done. In `FrontEnd` five
tokens hold every path of the table, with its parameter, an empty one, and one that
goes on; five characters of an image give three bytes and hold padding and foreign
characters at each place, and a `Word` of 12 bits, in place of 32, overflows
with the third character.
Clients and users are symmetric in the safety runs; runs with liveness
properties use no symmetry.

### Fairness

* `ProfileService`: weak fairness of `Accept`, `Handle` and `Reply`: the worker
  thread is runnable whenever the model enables it, since every call on this path
  returns or throws. Clients, breakage, `Crash` and `Restart` are not fair: a
  process of which only the thread died is not restarted by Docker.
* `ServerLifecycle`: weak fairness of the main thread and of the worker thread
  (the scheduler runs a runnable thread). Clients are not fair under `Spec`.
  `CourteousSpec` adds that a client with an open connection sends or hangs up
  in the end (and, as `http::write` is one step, reads its answer or goes); `life`
  needs it, and `doc_stop_hangs` shows that without it `Stop` may never end.

* `DatabaseSession`: weak fairness of the call's own steps: every call of libpqxx
  returns or throws. Breakage and the process's end are not fair.
* `FrontEnd`: weak fairness of the thread's steps, none of which blocks.

### Where code and text disagree

Each of these runs checks one sentence of the repository, and TLC refutes it.

| run | sentence | what the code does |
|---|---|---|
| `doc_taken` | "username already taken" (`profile_handler.cpp:133`) | the first PATCH writes "" into an unset username, so a second user without one is answered 409 to a PATCH that names no username |
| `doc_fallback` | "Fallback to global settings" (`notifications_handler.cpp:66`) | `Get` returns defaults for a missing row, the fallback is only taken when the read fails |
| `doc_readback` | global and chat-specific mute settings (`test-ui/index.html:347`) | written under `""`, read under NULL: what PUT confirmed, GET never answers. Over `docker/init.sql`, where `""` is no UUID, PUT is refused for every user |
| `doc_base64` | "image_data (base64) is required" (`profile_handler.cpp:144`) | the bit counter starts at -6, so every byte is two bits off: the bytes are not the image's |
| `doc_stop_hangs` | "Send a connection to unblock accept" (`server.cpp:95`) | a worker blocked in `http::read` is not unblocked, `join` does not return |
| `doc_started` | "Profile service started at http://" (`main.cpp:53`) | logged before the thread bound its port; when bind fails nothing serves |

Seen while modelling, and not a run of their own: the answer "expected RFC3339"
(`notifications_handler.cpp:103`) is given to every RFC 3339 time with an offset,
only the form with `Z` being read; the test page sends `muted_until`
(`test-ui/index.html`) where the handlers read `mutedUntil`, so that it is
ignored; `api_routes.hpp` is a second table of routes that nothing includes. And the
connection that shall unblock `accept` (`server.cpp:95`) may fail without a client
being to blame: `catch (...)` (`server.cpp:104`) swallows the failure, and `join` waits
for a worker that stays in `accept`. TLC finds this when `StopTerminates` is checked
without its exception.

Not checked, as no sentence contradicts it: uploading an avatar for a user
without a profile is answered 200 and stored nowhere (`Confirmed` exempts it).

## 4. Proofs

The proof modules prove their results for all values of the constants, under
the named assumptions next to the constants: that sentinel values differ from
data (`ValuesAssumption`, `NoneAssumption`, `RequestsAssumption`,
`ClientsAssumption`,
`ConnectionsAssumption`, `MarkAssumption`), that a time ending in Z has
no offset (`TimesAssumption`), that `username` is a patchable
column and `avatar_url` is not (`ColumnsAssumption`), that bounds are natural
numbers (`BoundsAssumption`, `LimitsAssumption`), that an int has at least twelve
bits (`WordAssumption`, C++ asks for sixteen), that there is a user
(`NoUserAssumption`), and that a request has a method, a target and a body of the kinds
FrontEnd tells apart, with base64 texts of any characters and any length and the
texts of the instance's own sets (`ArrivingAssumption`, `BodiesAssumption`). TLC
evaluates them in every run.

**ProfileService.** The inductive invariant is

    IInv == TypeOK /\ QueueHoldsWaiting /\ Serial /\ FreshCopy

`FreshCopy` alone is not inductive: another client's handler could change the row.
`Serial` excludes that, and is itself inductive only if the client `Accept`
takes is one that waits, which is `QueueHoldsWaiting`. Lemmas give
the type of what each statement commits (`CreateProfileType`, ...), what `Query`,
`Modify` and `Refuse` preserve, and what each handler does to the phases
(`HandlerPhase`). From it follow

| theorem | property |
|---|---|
| `TypeCorrect`, `OneAtATime`, `CopyIsFresh`, `BacklogIsWaiting` | `TypeOK`, `Serial`, `FreshCopy`, `QueueHoldsWaiting` |
| `NoUpdateIsLost` | `NoLostUpdate`: a handler's statement changes the profile as asked; for the UPDATE of `PATCH /me` this is `FreshCopy` |
| `OthersRowsStay` | `OwnRowsOnly` |
| `ChangesAreAnswered` | `ChangesAreAcknowledged` |
| `AnswersAreTrue` | `AnswersMatchTables` |

`AnswersAreTrue` needs that the fallback of `GET /notifications/{chat_id}` is
entered by that request only and, with a connection, only for a chat id the column
does not accept (`FallbackAsked`); this is kept because only a restart brings a
connection back, and then nobody is served (`DownIsIdle`). The rest is a lemma per
statement, that what it leaves is what the reads find (`CreateConfirmed`,
`MuteConfirmed`, ...), and `Serial`: nobody changes the tables between the statement
and the answer.

**ProfileService implements ProfileApi.** `ProfileApiProofs` adds

    Mapped == who is free has asked nothing, and who has an answer is being told it

and shows that each handler's step is, in terms of `ProfileApi`, one of four
(`HandlerSeen`: refused, abandoned, served, or not seen), from what `Query`,
`Modify` and `Refuse` are (`QuerySeen`, `ModifySeen`). For the second half of
`PATCH /me` this is `FreshCopy` again: the row written is the row of now with the
patch over it, so two transactions are one step. `FallbackAsked` is what makes the
answer of the fallback that of the abstract request.

| theorem | property |
|---|---|
| `ServiceImplementsApi` | `ImplementsApi`, the whole refinement |
| `RetriesAreHarmless` | `RetryIsHarmless`: each statement, done on what it left, leaves it (`WriteTwice`) |

**ServerLifecycle.** The inductive invariant is

    IInv == TypeOK /\ MainOwnsThread /\ AtMostOneLate /\ LateSoFar
            /\ ServedWasSent /\ HandledFate

`MainOwnsThread` ties the main thread's position to the life of `m_impl` and of
the thread; `LateSoFar` says that nothing late was handled before the worker
looked at `m_running` for the last time; `ServedWasSent` that a request being
handled was sent in full, so that its client can only be waiting or gone;
`HandledFate` where the client of a handled request is: about to be answered,
answered, with a broken connection, or gone. They give
`LifecycleTypes`, `ThreadStaysWithin`, `OneLateRequest` and `EveryAnswerIsTried`.

**ServerLifecycle implements ServerApi** (`LifecycleImplementsApi`,
`ImplementsServerApi`). This takes a second invariant about who is in line,

    LInv == InLine /\ Once /\ StopperIsNew

`InLine`: the acceptor is open and the worker holds a socket at the positions where
the code has them, no connection is queued twice and none that is queued was handled;
`Once`: the request being read was not handled before, the one being
written was; both are kept only because who was ever in line is not idle and so
does not connect again, which for Stop's own connection is `StopperIsNew`. Then the
steps: MainStop is `AskToStop` or, after a failure of the thread, a stutter;
accepting stutters, since who is accepted stays first in line (`AcceptedIsFirst`);
an exception that escapes `Handle`, a failed bind and the end of the loop are `Close`,
with nobody handled in line; `late` decides whether the server drains or has drained,
which needs `LateSoFar` again.

**FrontEnd.** The theorems are for any targets and any bodies. `RouteKnown` is the
heart: a handler that `ResolveRoute` yields for a target is, by its method and
path (`ResolvedMeets`), the one operation that the `Handle` of its class selects for
it. The invariant `Inv` carries from phase to phase that what is bound was
resolved and admitted and has the parameters of its target; from it follow
`RoutedIsRun`, `OnlyCreateIsAnonymous` (nothing but `CreateProfile` resolves for
`POST /internal/profiles`) and `TargetIsItsPath`, which needs that a prefix and
the rest after it make the target again (`PrefixAndRest`) and that a target is
under one prefix only. `EveryRouteIsReached` is
the other direction, that a target a route matches is resolved (`MatchedIsResolved`,
route by route), and needs that a request answered without an operation could have
none (`Undecided`). `TimesAreKept` is about the times in a body: what is stored was
read from the text of this request (`TimeRead`), whose Z stands for no offset
(`TimesAssumption`).

**DecodeBase64.** `Base64DecoderProofs` is about the loop, for a text of any length
and an int of any width from twelve bits. With `digits` the base64 digits before `at`:

    DecoderInv == DecoderTypeOK /\ decoded = Octets(digits, 2)
                  /\ valb = Left(Len(digits)) - 8 /\ Low(val) = LastTwo(digits)

That `decoded` is right so far is not inductive: the next byte comes out of `val`, which
has lost all but its last bits. What the loop needs of it is `val` modulo 4096,
the last two digits (`LastTwo`); a byte begins at most four bits above the end
of the next digit, so it lies in those (`Cut`, `Shows`). `valb` says how many bits are
left to go out, `Left`. `digits` is a recursive function, whose equations
TLAPS does not derive; `Solvable` states that its recursion has a solution, which is
carried along a step at a time, as the loop goes over the text once.

| theorem | property |
|---|---|
| `Types` | `FrontEnd`'s `TypeOK`, with that the bytes are bytes and `valb` one of four counts |
| `NothingIsLost` | `OverflowIsHarmless`: however often `val` overflows, every byte is eight bits of the digits behind two zero bits |
| `HandedAreRequests` | `HandsOverRequests`: what a handler goes on with is a request of `Requests` |

`HandedAreRequests` is what makes the theorems about `ProfileService`, which are
for any set of such requests, theorems about what the front end gives it. Its proof
has a lemma per handler (`UpdateProfileHandsOver`, ...) over what `Bind` gave (`PlainIds`)
and what a body holds (`FieldsAre`, and `BadBodies` for one that misses or mistypes
a field); that the operation at hand is one of the handler's is again `Inv`.

**DatabaseSession.** The inductive invariant adds to the types what the
transaction, the connection and the session are at each `pc`, and that `pending`
is one of the databases the statements done so far can leave from `store`
(`Outcomes`). `SessionTypes`, `NothingIsLeft` and the step simulation
`SessionImplementsApi` follow from it: the committing step maps to `Perform` or
`Abandon`, the rollback to `Discard`, the rest to stutters, refusals and outages.

**Only model-checked.** Of the properties of the passing runs, the liveness ones
(`EveryRequestEnds`, `StopTerminates`, `SignalEndsProcess`, `SentRequestEnds`,
`EveryCallEnds`, `RequestIsDecided`): fairness and ENABLED are outside TLAPS's
reach. That `Solvable` holds of every text at once is an induction over data; the
proof does without it. The disagreements of section 3 are
counterexamples found by TLC.

## 5. Not modelled, and why

* The conversion of values to and from text (`ConvertValueToPQXX`,
  `PostgresRow`) beyond NULL and "", and the getters of types no mapper reads.
* Timestamps, the order of lists, JSON formatting, logging: no property is about
  them, and the mappers answer with the current time.
* VARCHAR lengths and the UUID type of user ids in `docker/init.sql`: a further
  way for a statement to be refused, of the kind `UsernamesUnique` and the foreign
  keys already are. User ids are taken as well-formed.
* Accept errors that leave the connection in the queue (EMFILE): the loop would
  spin. An error for a connection that died in the queue is modelled.
* A thread that cannot be created in `Server::Start`, and exceptions for want of
  memory where no other exception can come.
* An `http::write` that blocks because its client does not read: writing is one step.
* The result set cursor, `ParseTimestamp`,
  `FormatTimestamp`, `OptionalToJson`: no caller in the service.
* The texts of error messages: a response is its status.
* Instance-wise: `FrontEnd` has one request at a time, as the worker thread does;
  interleavings with other requests are `ProfileService`'s subject.
* Privacy settings are stored and returned; no handler consults them.
* Pure I/O, the logger, the test page, build files.

## 6. What could come next

1. A composition of `ServerLifecycle` with the request path: what a `Stop`, a
   signal or an escaping exception in the middle of `PATCH /me` leaves in the
   tables. `Crash` in `ProfileService` has the death at any point, not `Stop`'s
   order.
2. The cursor of `PostgresResultSet` against an abstract sequence, once something
   uses it; `Next` before the first `GetRow` would skip a row.
