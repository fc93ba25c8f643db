# A TLA+ development of ikigai-python

ikigai-python (`src/src/ikigai`) carries typed resource calls (resolve a URI
under a capability, with a verb) between processes. A *door* serves a *space*
of endpoints over a Unix socket, and clients (blocking, asyncio, and QUIC in
both styles) issue calls over it. This directory holds TLA+ models of that
program, the TLC configurations that check them on small instances, and proofs
that TLAPS checks for every value of the constants.

Line numbers below are those of the files under `src/src/ikigai/`, and of
`src/examples/` for the tic-tac-toe app.

## 1. Inventory

| component | code | state it keeps | operations | talks to |
|---|---|---|---|---|
| QUIC client wire | `quic.py` 593-745, 755-784 | `protocol`, `_lock`, `_stale`, `_pinger`, `server_version`; a task per call | `round_trip`, `_heal`, `_redial`, `_attempt`, `_ping`, `close` | the connection (awaits its futures), the door |
| QUIC connection | `quic.py` 321-533 | the future of each stream, the reply buffers, the first failure, the negotiated version | `quic_event_received`, `wait_ready`, `send_call`, `cancel_call`, `_terminated` | aioquic, the wire |
| synchronous QUIC client | `quic.py` 787-860 | a loop thread and the asynchronous client on it | one blocking call per verb, `close` | the loop thread |
| asyncio Unix client | `aio.py` | `_lock`, a stream pair | `connect`, `_round_trip`, the verbs, `close` | the server's thread for the connection |
| blocking Unix client | `client.py` | a socket file, `server_version` | `connect`, `_hello`, `_dial`, `_round_trip`, `close` | the same |
| Unix server | `serve.py` 1945-2107 | listener, `_closing`, the socket at the path, a thread per connection | `__init__`, `serve_forever`, `_handle`, `_serve_one_frame`, `shutdown` | the kernel, the space |
| served space | `serve.py` 1600-1943 | the declared doors; the run context of the call being handled (a context variable) | `route`, `dispatch` (Source, Sink, New, Delete, Exists, Meta) | handlers |
| endpoint declarations | `serve.py` 1-1599 | none after construction | decorators, families, alias templates | the space |
| wire codec | `wire.py`, `postcard.py`, `base64.py` | none | frames, hello, calls, replies, version downgrades | clients and server |
| version negotiation | `wire.py` 1359-1387 and the dial loops | the version offered | `accepted_version`, `connect_version` | clients and server |
| capabilities | `capability.py` | none | `allows`, `satisfies` | the space, the checker |
| templates | `template.py` | none | match, expand | the space |
| contracts and checker | `contract.py`, `check.py` | none | parse and render contracts, pre-flight a call | callers |
| auth, HTML, demo | `auth.py`, `html.py`, `demo.py` | none | format and recognise header values; escape and decode | endpoints |
| tic-tac-toe app | `examples/tictactoe_app.py` | none of its own: a thread and a connection per HTTP request; the boards are the host's | `target`, `respond`, `handle_request`, the views, `play`, `reply` | the blocking client, the host `ttt-host` |
| other examples | `examples/` | a board in a store behind one lock | glue for web frameworks | the clients |

What is hard, and what makes each part correct:

* **QUIC client.** Calls are tasks that interleave at every await; connections
  end, redial, refuse; deadlines and cancellations race replies. A write must
  never run twice; a read may be replayed once, on another connection; a door
  never hears a form its version does not know; no connection is left open
  without an owner; no reply is awaited from a dead connection; a refusal on
  trust is not papered over; every call ends.
* **Unix clients.** The wire is a byte stream with no request identifiers:
  call and reply are matched by order alone, so whatever a call leaves unread
  belongs to the next.
* **Server.** `shutdown` runs in another thread than `serve_forever`, and the
  path outlives processes. Shutdown must stop the loop at any point of it, a
  server that is up must be the one the path leads to, and a restart must
  succeed over what a crash left.
* **Version negotiation.** The two sides may be of different packages and the
  server may be replaced between two dials: offers must step down, stop, and
  land on the best version both speak.
* **Blocking client and codec.** Each side encodes for the version the other
  speaks, a package of an older version has fewer words, and a call may be cut
  short by a timeout in either direction. No call may be altered or answered
  with another's reply, and neither side may meet what it cannot read.
* **Contracts.** The server's check must admit what a contract allows and refuse
  the rest before a handler runs, through lists, defaults of the binding,
  dependencies and groups.
* **Tic-tac-toe app.** A view is several reads, one round trip each, while other
  players move; a write may be carried out and its answer lost.
* **Space.** What a caller may not see must be indistinguishable from what is
  not there, in every verb, and no handler may run without its scopes.

`PROJECT.json` lists the hazards at their lines, each with the properties that
cover it or the reason why none does yet.

## 2. Plan

Written, in this order:

1. `QuicWire`, with `QuicWireProofs`.
2. `RoundTrips`, the abstract specification that the clients implement.
3. `AioClient`, the stream client and the server's thread for it, with
   `AioClientProofs`.
4. `UnixServer`, servers and dialing clients at one path, with negotiation, and
   `UnixServerProofs`.
5. `Space`, with `SpaceProofs`: routing, the scope floor, concealment, handlers
   and their results, the run context.
6. `QuicConnection`, with `QuicConnectionProofs`: the handshake's checks, the
   close codes, the table of calls and its entries for cancelled calls.
7. `Exchange`, which composes the messages (`Messages`), the templates
   (`Template`) and the checker (`Check`) into calls between a client and a
   server of two versions, over a codec that is a parameter; `MCExchange` runs it
   over the package's own (`Postcard`, `Wire`), byte for byte. `CheckProofs`, about
   the checker alone, and `ExchangeProofs`.
8. `TicTacToe`, the app over the blocking client, with `TicTacToeProofs`.

Left: `QuicSync` (the loop thread of the synchronous QUIC client and the threads
that call it), the contract model (`contract.py`: an identity of contracts that
survives their texts), and the template filler and the stored-cell server of the
tic-tac-toe example.

## 3. The modules and the code

### QuicWire

One client of `connect_async`, its tasks, its connections and a door about
which nothing is assumed. An action is what the event loop runs between two
awaits:

| action | code |
|---|---|
| `Issue` | a verb: `build_issue_call` for `server_version`, then `await lock` |
| `Acquire` | the lock is got: `_heal` if there is no usable connection, else `_payload` and `send_call` |
| `Resolved`, `ResolveFails`, `AddressFails`, `DialRefused`, `DialReady` | `_dial` and `_dial_one`: name resolution, an address at a time, `wait_ready` |
| `Redialed` | the dial returns: rest of `_redial`, then encode and send; on Python 3.11 the connection may have ended meanwhile, and `_attempt` heals once more with the payload already encoded |
| `ReplyArrives`, `ReplyTooLarge`, `StreamReset`, `ConnEnds` | `quic_event_received` and `_terminated` |
| `Answered`, `Refused`, `ReplyLost`, `TimesOut` | `_attempt` resumes, then `round_trip`: done, raise, replay, or drop the stream |
| `CancelQueued`, `CancelDial`, `CancelWait` | the caller cancels its task at each await |
| `Close` | `_Wire.close`, without the lock, as often as it likes |

`Python311` selects how `asyncio.wait_for` behaves: up to 3.11 it runs the dial
as a task of its own, so the connection may end between the dial's end and the
resumption; from 3.12 a deadline or cancellation may win over a result that is
already there. The package supports both. Time is not modelled: a deadline may
pass whenever a task awaits under one. Every deadline is taken to be there: a
`timeout` or `describe_timeout` of `None` is left out, and so is a name resolution
that never ends (`_dial` awaits `loop.getaddrinfo`, 541, outside its `wait_for`; in
the model it resolves or fails). What is in a call or reply is left out,
apart from the form the call is encoded in (`plain`, or `with` a run context,
which needs wire version 9).

`TypeOK` of this and of the other proved modules is proved, and no run spends
itself on it.

### RoundTrips

The promise every client makes: one call at a time on a connection, each handed
to the peer at most once (twice if it may be replayed), no reply before that.
`QuicWire` and `AioClient` both implement it (`ImplementsRoundTrips`, by a
refinement mapping at the end of each module). For `AioClient` nothing may be
replayed.

### QuicConnection

One `_DoorProtocol`, from its dial to its drop, and a door whose view of this
client (`verdict`) is chosen at the start: its certificate is not the pinned one
or none at all, it agrees on no version or says nothing about one, it does not
trust the client, it has not enrolled it, or it serves it. The callbacks are
operators on a record of the connection and its callers' futures, because a
datagram carries several events and the code runs them one after the other
before it looks at the close:

| action or operator | code |
|---|---|
| `Datagram`, `Received` | `datagram_received`: `HeardAll` is aioquic calling `quic_event_received` for each event, `Judge` the lines after it (391-401) |
| `StrayDatagram` | a datagram on a closed connection |
| `Heard`, `HandshakeCompleted`, `StreamDataReceived`, `FailCall` | `quic_event_received`, `_handshake_completed`, `_fail_call` |
| `Terminated`, `WhyEnded`, `Refuse` | `_terminated`, `_why_ended`, `_refuse` |
| `Drained`, `HearsNothing` | aioquic's timers: the end of a draining period, and of a silence |
| `Dialed`, `DialTimesOut` | `wait_ready` and the end of `_dial_one` |
| `SendCall`, `WaitTimesOut`, `CallerCancelled`, `Drop` | `send_call`, `cancel_call`, a cancelled task, `_drop` |

Abstractions: a datagram brings one event or two (a pair is enough for each
order of a reply and a close); a reply is a number of chunks, each known by its
stream and place, and its end comes with the last one or by itself (`Pieces`); a
close is its code, whether it names a frame type and whether
its words name ALPN. What a door may send (`Frames`, `Closes`) is external, and
taken from what the code tells apart. `LeftoversBounded` bounds the bytes an entry
of the table holds, not how many entries a caller that cancels may leave.

### AioClient

One `AsyncClient` and `Server._handle` at the other end. A reply is two parts,
its length and its body, because `_round_trip` reads them in two awaits; a part
that was left by an abandoned call is read by the next one as whatever it now
asks for (`garbled`: a body read as a length). What bytes read out of frame decode
to is not known: `ReadGarbled` consumes any number of parts and either refuses or
returns a reply. `Large` calls fill the transport's write buffer, so `drain()` waits
for the server to read (`Flushing`); a call that finds room does not wait.

### UnixServer

Servers that bind one path, each with `__init__` in two steps (`Clear`, `Bind`),
the accept loop split where another thread can get in between (`CallAccept`,
`Accept`, `Check`), `shutdown` in the four steps other threads can see
(`Shutdown` sets `_closing`, `Nudge` connects, `CloseListener`, `Unlink`), and
`Crash`. Clients run `connect`: `Dial`, the offer, then proceed, step down and
redial, or refuse. The kernel's part is modelled from what the code relies on:
a listening socket is alive while its descriptor is open or a thread is blocked
in `accept()` on it; a queue of connections outlives nothing.

Abstractions: the uid check is a nondeterministic drop; `bind`, `chmod` and
`listen` are one step; the backlog of `listen` is not reached; a client always
has a timeout (`timeout=None` is left out). `Orderly` says that each server
starts after every other is down and that `shutdown` is not called on one that
is: the invariants about the path need it, and `SecondShutdownIsNoOp` shows what
happens without. Out of order the path may also be another server's when the
wake-up connects, and the accept loop of the first is not woken.

### Space

The space one server serves and the connection threads that dispatch to it.
Which space it is, and which peers address it through an alias mount, is chosen
in `Init`; doors do not change afterwards. Up to a handler's entry, and from its
return, a dispatch touches nothing that threads share, so each is one step:

| action or operator | code |
|---|---|
| `Lookup` | `Space.lookup`: the first match in the mode's form, else in the other |
| `RequiredScopes`, `Conceals`, `Satisfies`, `Allows` | the functions of those names in `serve.py` 888-985 and `capability.py` |
| `Unresolved`, `Denied`, `Meta`, `FlatExists`, `Refused` | the early returns of `_resolve` and `_exists` |
| `BadArguments`, `Enter` | `_invoke` and `_preflight`; `_RUN.set` |
| `Return`, `RaiseNotFound`, `RaiseOther`, `ReturnUnusable` | the handler's result through `_representation`, or its exception; `_RUN.reset` |
| `Written` | `_serve_one_frame` writes the reply, or finds the peer gone |

A pattern is the set of names it matches, a capability is root or a set of
scopes, and which scopes are families, exclusions or principals is given by
constants. `Issue`, `IssueAs`, `IssueTraced` and `IssueWith` differ only in the
capability, the run and the trace they carry, which are fields of a call. Whether
a call's arguments fit the contract is a field too. Of a representation only
whether it may be cached is kept. `Entries` and `IsCached`, which read constants,
are left out.

The properties do not quote the floor: they say what it is for. What a caller
gets is compared with the scopes of the action that governs the answer
(`GrantedBeforeAnswered`), and, for a caller that covers none of a marked door's
verbs, with the reply to an unbound name (`HiddenIsUnbound`).

### Exchange, over Messages, Template and Check; Postcard and Wire

`Messages` has what is exchanged whatever its bytes: `BuildIssueCall`,
`DowngradeCall`, `DowngradeError`, `DowngradeReply`, `ReplyError`, the frames and
the hello, whose bytes are fixed. `Postcard` is the encoding of `postcard.py` and
of the helpers of `wire.py` over it, written as layouts: `Put` writes a value by
one, `Get` reads by one, and yields nothing where the code refuses. `Wire` gives
the layouts of the calls, the replies and the failures, once as the encoder has
them and once as the decoder of a given version has them. `Template` is
`UriTemplate`, parsed, matched and expanded. `Check` is `check()` with its rules,
the server's `_invoke` up to the handler and its `_preflight`, and `Lawful`: what a
contract asks of a call, said without the check's order, joins and blanks.
`Declarable` is what `Action.__init__` makes sure of in every contract.

`Exchange` takes the codec as four operators, `CallBytes`, `CallsIn`,
`ReplyBytes` and `RepliesIn` (a reader yields the set of what it reads, empty when
it refuses), and `CodecAssumption` says what it needs of them: what one side
writes for a peer of a version fits a frame, and a peer of that version or of a
later one reads what was meant, in the words of that version. `MCExchange` joins
`Exchange` and `Wire`, its configuration gives the four their definitions in
`Wire`, and TLC evaluates the assumption for every message of the run. So the
run is about the package's bytes, and the proofs about any codec that keeps
what it is given; `Postcard`'s layouts are recursive, and no proof reaches them.

`Exchange` is one blocking `Client` and one `Server._handle` over them, each of a
version of its own:

| action | code |
|---|---|
| `Greet`, `HearHello`, `HearAnswer`, `NotHeard` | `_hello` and the server's first frame |
| `MakeCall` | `_issue`, `source_traced`, `entries`, `is_cached`: the call is built for the agreed version, encoded and written |
| `WriteTimesOut` | the socket's timeout while a frame is written: a part is in the stream, and what `flush` did not get out stays in the file's buffer (`unsent`) and goes before the next frame; what `write` did not is dropped |
| `ReadReply`, `ReadTimesOut`, `ReadRefused`, `ServerLost` | `_round_trip`'s read: after a timeout the socket's file refuses every later read |
| `ReadCall`, `RefuseFrame` | `_serve_one_frame`: decode, dispatch up to the handler |
| `HandlerReturns`, `HandlerRaises` | the rest of it: the reply, downgraded and written |
| `Close`, `Gone` | either side goes; closing the file flushes it as far as it can |

A write can only time out when the frame is larger than the file's buffer or comes
behind one the server has not taken (`intent.large \/ timedOut \/ cut`).

The older versions are those of this package's own tables: a decoder of version 8
knows the variants up to 8. Abstractions: characters are small numbers, all ASCII;
a timestamp has 15 bits and a count 10 (`Bits64`, `Bits32`), wide enough for
varints of two and three bytes and for values beyond the width; floats,
descriptions and base64 are left to the repository's vectors; the range of an
`i64` and the underscores Python's `int()` takes are not reached. Which door a
name leads to and what its floor admits is `Space`'s, so there is one door, of
one verb.

### TicTacToe

The app runs a thread per request, and requests share nothing but the host's
boards: so there is one request thread, and `Elsewhere` stands for every other
player, through this app or another.

| action or operator | code |
|---|---|
| `Target`, `Respond` | `segments` and `target`; `respond`, in its order |
| `Arrive`, `Describe`, `DescribeAgain` | `handle_request` up to the view, and `described()` from each of its two places |
| `Script`, `FollowUp`, `Shows` | the reads of `page`, `board`, `status`, `play` and `reply`: one step is one round trip |
| `Read`, `Went`, `Failed`, `Spliced` | `Game.source` and `fill`: `answer` keeps the failure of a marker and asks the level's others, and the first one kept is raised when they are spliced |
| `Sink`, `Raised` | `Game.sink`, and the except clauses with `STATUS_OF` |
| `Lost` | `ConnectionLost`, at any round trip |

The host is external: a board, the rule for a move, an unresolved name for a game
it lacks, and a store that may fail with the move stored or not. `Denied` is not
among the failures: the app acts as root, though `STATUS_OF` has a status for it.
Only the squares of a board are several markers of one level; any other step is the
only request of its level, so that its failure ends the fill. The template that
`conditional` chooses is read together with what it reads next, in one step.
Markup, `Allow` headers and templates' syntax are left out.

## 4. Runs

| run | shows |
|---|---|
| `quic_311` | Python 3.11, two addresses: at most once, one at a time, nothing awaited from a dead connection, no leaked connection, the ping task, trust refusals stick, a stale connection is not reused, `RoundTrips` is implemented |
| `quic_live` | every call ends, whatever the door does (Python 3.12+) |
| `quic_conn` | a call is only sent to a door that passed every check; replies come whole or not at all, also beside a close; an end is called what it was, once, and nobody waits after it |
| `aio` | replies are in step until a call is abandoned, no reply is returned twice, `RoundTrips` is implemented, every call ends but for a `drain()` that waits for the server |
| `unix_server` | a server that is up is reachable, leftovers are replaced, the best version is negotiated, the accept loop and every connect end |
| `space` | the floor admits only callers that cover the governing action, hides what is marked, keeps runs apart, and no write's answer is cached |
| `exchange` | over every pair of versions, calls arrive as made, a call gets its own reply or none, nothing is unreadable, a part of a message is none, the contract decides, a handler is bound to the name asked for |
| `tictactoe` | an answer tells what was written, a view shows what the game was, every request ends and only one for a game the host lacks may end unanswered |
| `v_close` | a call after `close()` redials: "a closed client is final" does not hold |
| `v_old_door` | Python 3.11: a payload encoded for one door is sent to an older one |
| `v_aio` | a call that timed out leaves its reply to the next call |
| `v_shutdown` | a second `shutdown()` removes the successor's socket |

The last four are disagreements between the code and its own documentation; the
findings in `PROJECT.json` quote both.

### Divergences read, without a run

Found while modelling; the models follow the code.

* `quic.py` 138-139 says of a trust refusal "a client never redials past it";
  one met on a redial (620) is forgotten, and the next call dials again.
  `TrustRefusalSticks` says what does hold: it sticks to the connection that met
  it.
* `serve.py` 1714-1715 says dispatch "never raises for a well-formed call"; a
  Source handler that returns `None` makes `_representation` raise outside the `try` (1873),
  which ends the connection's thread without a reply (`ReturnUnusable` in
  `Space`). No property says that every call is answered, for that does not hold.
* `serve.py` 2094 says `shutdown()` stops `serve_forever`; where another server
  bound the path before the wake-up connects (2102), it is that server that is
  woken, and the `accept()` of the first stays blocked. `AcceptLoopEnds` is about
  servers that run one after the other.
* `client.py` 147-156: a write that times out raises `ConnectionLost`, but the rest
  of the frame may go out with the next call's, whose reply is then the first
  call's; or the next frame is read as the rest of the first. What is said of calls
  and replies in `exchange` is said of connections where this has not happened
  (`cut`), except that no handler runs on arguments its contract rules out
  (`ContractDecides`) or bound to another name than it was asked for
  (`HandlersSeeTheName`).
* `aio.py` 96: `drain()` has no deadline, so a call that finds the buffer full may
  wait, with the lock held, for ever (`OnlyDrainHangs`).
* `check.py` 190-191 says the violations are "empty exactly when the arguments
  conform". Dispatch refuses more, before that check runs (`ContractDecides`
  exempts exactly this, and `NoneKeptOut` shows that there is nothing else among
  what is modelled): an integer in the name that is not in its plain form
  (`serve.py` 1589-1596), and, of an envelope, an input the check passes over and
  `_invoke` reads all the same, because it is required or because the signature's
  type refuses its text.
* `check.py` 227-228 says that an envelope's fields are checked when the caller
  proposes them. `_preflight` puts the bindings among the pairs (`serve.py` 1888),
  so in a family the name itself counts as a proposed field (229-231): its carrier
  is never asked for, and giving it is giving the body twice. The model follows, in
  `FieldsGiven` and in `Lawful`; the door `Addressed` of `MCExchange` is one.
* A `float` argument whose text is none is refused by `_coerce_derived`, and
  `_plausible` does not know the type; that class is not modelled.
* `tictactoe_app.py` 720 calls `described()` inside an except clause: a
  connection lost there is caught by nothing, and the request ends unanswered
  (`Lost` when a request is `"failed"`).
* `template.py` 33 says a template matches its own source text; one like `{ab}b`
  does not, and a value that holds the text after its variable is captured short
  (`HandlersSeeTheName` says when). It is about templates that name no variable
  twice: of one that does, the last capture wins, as `template.py` 36-37 says, and
  the name is not given back.
* `quic.py` 766: the timeout of `connect_async` bounds each wait, not the call.
* The status view may show "- to play", or "draw has won", when a game ends, or
  is reset, between two reads (`ViewIsOfTheGame` says when).

### Bounds

* `MaxConns` (5, or 4 in `quic_311`): the connections one client ever opens. From
  Python 3.12 with one address a call dials at most once per attempt and has two
  attempts, so two calls never reach a sixth and the bound cuts nothing off. In
  `quic_311` a call may dial two addresses and heal twice; four connections hold
  every sequence of dial, next address, end, reheal and replay of one call beside
  the first dial of another. At the bound a dial does not start, and
  the name may still fail to resolve.
* Two calls: one read that may be replayed and is under the describe deadline,
  and one write, which is enough for a queue at the lock, for a replay racing a
  write, and for either to follow the other on a connection.
* `Addresses` 2 in `quic_311`, so that a dial goes on to a next address.
* `aio`: three calls, so that one can be abandoned, one take its reply, and one
  come after; one of them fills the buffer.
* `quic_conn`: two calls, replies of one to three chunks against a limit of two,
  two versions and all seven verdicts; a reply within the limit, at it and over
  it, finished with a close in the same datagram or before it, beside another.
* `unix_server`: two servers, two shutdowns, one client, packages with the
  ranges 7..8, 8..10 and 4..6 against clients that speak 7..9: an older server,
  a newer one that still speaks an older version, and one out of reach.
* `space`: four spaces of one or two doors, chosen so that a scope is required by
  one verb and not another, a marked verb sits beside an unmarked one, Exists is
  declared or not, a door is flat or not, and a name matches two doors in
  different forms; capabilities that cover a scope exactly, by family, through
  an exclusion, as the only principal, or not because there are two. One peer
  makes every call, the other a few with a run of its own.
* `exchange`: every pair of versions 7 to 9 of which one is this package's, two
  calls, nine doors whose contracts use every rule of the check (two of them are
  families, one with an envelope and one with an integer in its name; one contract
  is an envelope by signature), and calls that keep and break each. `Combined` is a state constraint that says what is
  combined with what: versions and mount modes with the forms of a call, every
  failure with the simplest call, a second call with the simplest first one and
  with one written in part; contracts are checked at version 9. A frame may have
  1000 bytes, and `Large` marks a call longer than the socket file's buffer.
* `tictactoe`: a board of three squares and two winning rows, a game beside the
  root and one the host lacks, a path of every shape, and every method class.

### Fairness

Only what the program's own scheduler owes: asyncio runs a task that is ready,
`wait_for` ends each awaited dial and reply, threads are scheduled, and a
client's socket has a timeout. Weak fairness of each call's own steps says so. In `QuicConnection` only
aioquic's draining timer is fair, in `TicTacToe` a thread's own next step (a round
trip is answered or ends with the client's timeout).
Nothing is assumed of the door, the network, the callers or the peers, and no
strong fairness is used. Handing over the lock is first come first served, as
in `asyncio.Lock`, so weak fairness is enough.

## 5. Proofs

`QuicWireProofs` proves, for every set of calls, number of connections and
addresses, set of door versions and either Python, that `Spec` implies the
always-truth of:

* `TypeOK` (`TypeCorrect`);
* `SentAgainOnlyIfLost` (`AtMostOnceForWrites`): a write is handed to a door at
  most once, a read twice at most, and on another connection;
* `OneAtATime` (`CallsSentOneAtATime`);
* `EndedConnectionOwesNothing` (`NothingAwaitedFromTheDead`);
* `NoConnectionLeaks` (`ConnectionsKept`) and `PingedWhileOpen`
  (`PingedUntilClosed`).

None is inductive alone. The invariant `IInv` joins `TypeOK` with: who holds the
lock (`LockInv`: at most one call is suspended inside it, and a waiting call has
a future on its own stream); what a dial looks like at each point (`DialInv`:
connections are numbered in the order they were opened, and only a dialing call
has one in progress); that a pending future's connection is not ended
(`PendingInv`); how often each call was sent at each point of its life and on
which connections (`SendInv`); and that a call that is over stays over
(`DoneInv`). Each part is one lemma, `XStep`, with one step per action.

Its last part builds on that: `StaleNeverReused` and `TrustSticks`
are the two action properties; `OldDoorsSpared` is `OldDoorHearsNoIssueWith` under
`~Python311` (with Python 3.11 it is false, as `v_old_door` shows); and
`RoundTripsImplemented` is the refinement `Spec => RT!Spec`.

Assumptions: `CallsAssumption` and `NumbersAssumption` of `QuicWire` (describe
calls may be replayed, the numbers are positive, versions are 7 to 9).

`SpaceProofs` proves `TypeOK`, `GrantedBeforeAnswered`, `HiddenIsUnbound`,
`RunIsOwn` and `WritesNeverCached` (`WritesAreNotCached`) for every set of threads, spaces, scopes and
calls (`SpacesAssumption`, `CallsAssumption`, `ScopesAssumption` say only what a
door, a call and a scope are). The invariant `ThreadInv` says that what a
thread is doing agrees with what the floor says of its call: a running handler's
call was admitted, and a reply waiting to be written fits (`Fits`). Two lemmas carry the
argument: `Covered`, that an admitted call covers the governing action, and
`Hidden`, that a marked door of which a caller covers no verb is a miss. That the
first of several matching doors exists is a fact about the naturals by induction;
`Bound` is written so that the proofs do not need it.

`QuicConnectionProofs` proves `TypeOK` and all the safety of the run for every
set of verdicts and versions, lengths of replies, frame limit and number of
calls. The invariant `Good(c, f)` is about a connection and its futures as
values, not as variables, since a datagram passes through several of them before
it is a state: `Types`, `Lawful` (what is known of the door at each stage of the
handshake, and that the reason given fits the close and the door), `Opened` (a
call only on a connection the dial found open) and `Tabled` (an entry of the
table is awaited or cancelled and holds exactly what has come; a failed call was
reset, too long, or on a closed connection). One lemma for each event
(`HandshakeGood`, `ConfirmGood`, `DataGood`, `ResetGood`, `ClosedGood`,
`EndedGood`) is joined by `HeardGood` and `JudgeGood` into the step.
`FirstReasonStands` follows because a connection with a reason is closed and
hears nothing more. Assumption: `ConnectionAssumption`.

`AioClientProofs` proves `TypeOK`, `InStepUntilAbandoned`, `RepliesUsedOnce` and
the refinement of `RoundTrips`, for every set of calls. The invariant says where
each call's request and each reply's two parts are (`PlacesInv`), that the
stream's halves are in order (`StreamInv`), what a task holds at each point
(`TasksInv`), that while nothing has been abandoned the reply at the head of
the stream is the waiting call's (`StepInv`), and that until then no read is out of
frame (`FrameInv`): what a misframed read returns is anybody's, so it has to be shown
that there is none.

`UnixServerProofs` proves `UpIsReachable`, `LeftoverReplaced`, `NegotiatesBest` and
`OfferStepsDown` for every number of servers, clients, shutdowns and packages.
`OrderInv` says in which order servers come and go when they are `Orderly`, and
so whose socket the path can hold; `VersionInv` which answers an offer can have
met.

`ExchangeProofs` proves, for every set of pairs of versions, doors, intents,
failures and results, and every codec that keeps `CodecAssumption`:

* `CallsArriveAsMade` (`TakenAsMade`), `OwnReplyOrNone` (`OwnReplies`),
  `NothingUnreadable` (`EveryMessageRead`) and `DowngradedAsBuilt`
  (`RedialAsksTheSame`);
* `~cut => HandlersSeeTheName` (`NamesKept`);
* `~cut => ContractDecides` (`ContractKept`);
* `StreamsAgree`, the invariant all of these rest on.

`IInv` is `Settled /\ (~cut => Unheard \/ Heard)`, beside `NothingKept`: without a cut
no part of a frame waits in the buffer. `Unheard` is a connection whose
server has not read the hello. In `Heard`, the bytes under way to the server are
the frames of exactly the calls made and not yet taken (`CallsReceived`), each
call taken was answered or is being handled (`CallsAnswered`), each call that
ended did so with its own reply or with none (`CallsEnded`), and the bytes under
way to the client are the hello's answer (`Greeted`) or the frames of exactly the
replies it has not read (`RepliesUnderway`). The last is where the timeout
matters: only while the client's file still reads does the next reply in the
stream belong to the call that waits. Once a frame was written in part (`cut`) the
server may read anything, so nothing is said of it, and what the properties say of
calls that arrive and replies that are returned is said of connections where
that has not happened (a hazard of its own in `PROJECT.json`).
`EnteredInv` adds that the calls that entered the handler are calls the server took
that nothing could answer earlier, and that every other call that was answered was
answered at once (`Immediate`), so that what its contract made of it is known.

`NamesKept` needs facts about templates for parts and names of any length: what
`FlattenSeq` makes of the parts (`Cuts`, `PartsLie`, `PartsMake`), that a match
is a sequence of cuts of the name (`Matched`, `MatchTraced`), and that each
capture ends at the first place its end can be (`FirstEnd`, `CapturedAsFilled`).
They are inductions over positions, carried out with a least counterexample
(`Least`, `UpTo`), which is how the installed provers can do them. After a cut the
bytes a server reads are arbitrary, and the assumptions say nothing of what a
codec makes of those, so there the property stays with TLC.

`ContractKept` joins three results. `MatchOnce` (by the same kind of induction): a
name matches a template in one way at most, and captures a text for exactly its
variables, so what dispatch was given is a call the contract's declaration
foresees (`CallDeclared`). And from `CheckProofs`, which is about the checker and
dispatch as functions, for contracts, names and arguments of any size:

* `OnlyLawfulEnter`: a call whose `Refusals` are empty is `Lawful`;
* `NoneKeptOut`: if the check finds nothing in the pairs and none of the two
  exemptions holds, the `Refusals` are empty.

Both rest on `CheckMeans`: the violations are of no kind the server enforces exactly
when the rules hold of the values, one for each name (`Conforms`); and on the
pairs' order not mattering, since the server reads the arguments from a map. The
assumption is `Declarable`: an input is a binding exactly when the template names
it, and then required and no list; a signature declares no list; a carrier and a
group are of inputs.

Assumptions: `PeersAssumption`, `DoorsAssumption` (a door's template is one its own
source parses to, its contract is `Declarable`, its intents fill the template in
and give pairs of texts), `CallsAssumption`, `FailuresAssumption`,
`FrameAssumption` and `CodecAssumption`. TLC evaluates them all in the run
`exchange`, over the package's codec.

`TicTacToeProofs` proves `AnswerTellsTheWrite` (`AnswersTell`) and
`ViewIsOfTheGame` (`ViewsOfTheGame`) for any number of requests, games, paths and
players elsewhere, and boards with any finite set of squares and any rows
(`TicTacToeAssumption`: squares are pairs of strings, a path is of strings, the
host fails with a timeout, as unavailable, or otherwise). The invariant
(`RequestsKept`) has four parts: a request is where its handler can be, with the
round trips that place has left (`Placed`); a write was done for it only if it got
past its `Sink`, and "ok" is said of no other (`Told`); what it has shown is of
a board the game has had since its write or its first read (`Fresh`); and every
square of a board has been shown, is still to be read, or has failed, and then the
failure is kept (`Whole`), so that no board with a hole in it is a 200.

Model-checked only:

* liveness, which is out of the prover's reach: `EveryCallEnds`, `OnlyDrainHangs`,
  `AcceptLoopEnds`, `EveryConnectEnds`, `EndIsTold`, `EveryRequestEnds`;
* `PartIsNoMessage`, and that the package's codec keeps `CodecAssumption`: both
  are about what recursive readers do with data of any depth;
* after a frame was cut, what `ContractDecides` and `HandlersSeeTheName` still say
  then, that a call taken from the pieces is held to the contract and bound to the
  name it gives.

## 6. Not modelled

* `auth.py`, `html.py`, `demo.py` and `base64.py`: stateless transformations of
  text that the repository pins with test vectors.
* `contract.py`: the model of contracts and their texts; what the check reads of
  a contract is the data of `Check`.
* Deriving contracts from signatures, and descriptions (`serve.py` 1-1599): code
  that runs before anything is served. What it leaves behind is the data of
  `Space` and `Exchange`.
* The synchronous QUIC client's loop thread (`quic.py` 787-860); planned.
* Declaring a verb while serving; the doors of `Space` do not change.
* In the tic-tac-toe example the syntax of templates and the stored-cell server
  (three handlers under one lock). The framework examples are glue.
