# A formal model of BetterTunnels

TLA+ modules, TLC runs and TLAPS proofs for BetterTunnels: a CLI (`cli/main.go`)
holds a websocket to the client API (`service-tunnels-client`), the public proxy
(`service-tunnels-proxy`) relays visitors' requests and websockets through it to an
app on the developer's machine, and Postgres keeps the rows both plugins read. Paths
below are relative to the repository's root; `PROJECT.json` maps every definition
to the lines it stands for.

## 1. Inventory

| component | state it keeps | operations | talks to | module |
|---|---|---|---|---|
| Public HTTP relay, `src/plugins/service-tunnels-proxy/index.ts` | `publicResponses`: one `PublicResponse` (stream controller, owner, settled) for each request being relayed | the request handler, events `proxy.response.body/.end/.error`, the stream's cancel callback, `dispose`, `recordUsage` | RPC `proxy.request` and event `proxy.cancel` to the client API; usage counters in Postgres | `ProxyStream` |
| Pending requests, `src/plugins/service-tunnels-client/index.ts` | `tunnel.pending`: promise, `started`, two timers, the delivery chain | `proxy.request`, `proxy.cancel`, `handleClientFrame`, total and idle timers, `failPending` | frames to and from the CLI; events to the proxy | `ProxyStream` |
| CLI forwarding, `cli/main.go` | `requestCancels`, goroutines and their contexts | `connectTunnel`, `handleRequest`, `localRequest`, heartbeat | the local app | `ProxyStream` |
| Tunnel sessions, client plugin and `registry.ts` | `TunnelRegistry` (subdomain -> `ActiveTunnel`), expiry timers, tunnel rows | upgrade, `handleTunnelSocket` (five awaits), close, expiry, `init` reconciliation, `dispose` | Postgres; the CLI's reconnects | `TunnelSession` |
| Visitors' websockets, all three programs | `publicSockets`, `originSockets` | `handlePublicSocket`, `ws.toOrigin`, `ws.fromOrigin`, `handleOriginWS` | bus, tunnel websocket, local app | `PublicSocket` |
| Login sessions and device tokens, client plugin and admin's verify page | `ClientAuthSession`, `ClientDeviceToken`, `ClientTrustedIpRange` | `auth/start`, approval, `auth/status`, `validateDeviceToken` | CLI, a user's browser | `AuthSession` |
| CLI reconnect and login, `cli/main.go` | the token file, `authMu`, attempt and rejection of each tunnel | `prepareTunnelAuth`, `startTunnel`, `reauthenticate`, `login`, `pollAuthStatus`, `saveState`, `logout` | client API; another CLI on the machine | `CliProcess` |
| `btunnel up`, `cli/main.go` | `children`, `shuttingDown`, goroutines in `Wait` | start, readiness, kill, exit, supervisor | operating system | `CliProcess` |
| Visitor verification, `verification.ts` | cookies and signed tokens, `VisitorValidation` rows | `enforce`, verification host, handover of embedded pages | Turnstile, browsers | `VerificationFlow` |
| Migrations, `src/prisma.ts` | `_prisma_migrations`, an advisory lock, one promise per process | `applyPrismaMigrations` | Postgres | `Migrations` |
| Versions and self-update, Node CLI for development, admin pages, scripts | | | | none, see 6 |

What is hard here:

- Three processes and a socket share one request. The reply of the RPC, the
  events of the response, the visitor's cancel, three timers and the loss of the
  tunnel race with each other, and each of them may end the request.
- `handleTunnelSocket` awaits the database between looking at the socket and
  attaching its handlers, and the close handler writes a row without waiting;
  `handlePublicSocket` attaches its handlers after two awaits as well.
- A reconnect takes over the subdomain of a socket that may still be open; frames
  for visitors of the old connection arrive on the new one.
- The verify page and the status poll read a login session, check it and write it
  later by its id; the transport may repeat the poll.
- Several programs write the token file without a lock; several goroutines may
  stop `up`, each with its own exit code.
- Proof of a visit is handed on from cookie to challenge to cookie to row, each
  with a lifetime of its own, between two hosts and several tabs.
- Processes crash, restart and start together; a COMMIT may be executed after the
  process that sent it is gone.
- The bus's failed deliveries are swallowed.

What makes the components correct: a request is answered, settled and counted
once; nothing waits without a timer; a response that looks complete is complete;
the local app does not work for nobody; both directions of a websocket are runs
without gaps and its ends reach each other; a displaced socket never disturbs its
successor; registry and rows agree; a token names who approved it, and using it
spreads no trust; nobody is let in long after the check; the ledger of migrations
tells what took effect; stopping `up` leaves nothing behind. `PROJECT.json` lists
the hazards at their lines, with the properties that speak of them.

## 2. Modules

### Requests: `PublicExchange`, `ProxyStream`

`PublicExchange` is what the proxy promises in five lines of behaviour: an
exchange is refused or opened, passes chunks in order while open, and settles
once, which is when its usage is counted. `ProxyStream` is the whole request path
and implements it. Its variables are grouped by process:

| variable | code |
|---|---|
| `web`, `answer` | where the proxy's handler is, and the `Response` it returned |
| `entry`, `stream`, `got`, `owner` | the `PublicResponse`: in the map and unsettled, its controller, its enqueued chunks, `ownerServerId` set |
| `usage` | calls of `recordUsage` |
| `pend`, `total`, `idle`, `delivery` | `tunnel.pending` and its four fields |
| `rpc`, `cancelMsg` | the RPC and its outcome, a `proxy.cancel` in flight |
| `sock`, `conn`, `toCli`, `toSrv` | the two ends of the tunnel's websocket and its frames |
| `work`, `cancelled`, `sent` | the request's goroutine, its context, its progress |

One action stands for each handler: `WebStart` up to the await of the RPC,
`WebReturn...` and `Catch` for the ways on from there, `ProxyEvent` for the three
event handlers, `ClientRequest`, `ClientCancel`, `HandleClientFrame` (with
`OnStart`, `OnBody`, `OnEnd`, `OnError`), `TotalTimeout` and `IdleTimeout` (both
`failPending`), `SocketClosed` for the close handler, and the CLI's goroutines
cut at their frames. Frames of one request keep their order; different requests
do not order each other, because nothing in the code relates them. Chunks are
numbers, headers only a type of start frame (plain, event stream, 502/503).

### Sessions: `TunnelSession`

`TunnelSession` is `handleTunnelSocket`, cut at its awaits, against the registry
of each process and the tunnel rows; with expiry, the un-awaited update of the
close handler (a set of `writes` that commit in any order), `init`, `dispose`
and a crash between any two steps. A reconnect is another socket of the same
session. `Lapse` is the passing of a tunnel's `expiresAt`; `Reject`, `InvalidFrame`,
`ExpiryTimer` and `Dispose` are the four ways the server starts to close a socket.

A query that was sent outlives whoever waits for it: an upsert whose handshake threw
or whose process ended (`orphaned`) may be executed at any time after (`LateUpsert`),
also after the next process's reconciliation; so may the `updateMany` of a `dispose`
that did not live to see it end (`unswept`, `LateSweep`) and the `writes`.

### Websockets: `PublicSocket`

| variable | code |
|---|---|
| `pub`, `early`, `deaf` | the await `handlePublicSocket` is in; messages and a close that came before its handlers |
| `table`, `vws` | `publicSockets`, the `readyState` of the visitor's socket |
| `toClient`, `back` | events `ws.toOrigin` and `ws.fromOrigin` on the bus |
| `reg`, `link`, `wire`, `down`, `up` | the registered tunnel; the number and state of its connection, and the frames on it |
| `cli`, `dialing`, `origin`, `gen` | the read loop; the dial it is in; `originSockets` and each one's reading goroutine; the connection they belong to |
| `sent`, `got`, `said`, `seen`, `blank` | messages in both directions, by number; empty ones, which have none |

`LookupMissing`, `LookupActive` and `Relay` are the pieces of `handlePublicSocket`
between its awaits, `Closed` its close handler, `ReadOpen`, `ReadMsg`, `ReadClose`,
`DialDone` and `DialFails` are `handleOriginWS`, which runs in the read loop;
`AppSays`, `AppCloses` and `ReaderEnds` are the goroutine that reads the local app.
`CliNotices` closes the origin sockets when the tunnel breaks; `Reconnect` opens the
next link. The read loop is also busy while it writes to the local app
(`WriteReturns`); neither the dial nor the write has a timeout. An empty message takes
the whole way and is dropped at its end, by the guards on `body` in `handleOriginWS`
and in the proxy's `ws.fromOrigin`. Messages and closes are emitted without `await`:
where the bus does not keep the order of such events (`load.ordered` is FALSE), one may
overtake the one before it (`OvertakesToOrigin`, `OvertakesFromOrigin`), except the
open, which is awaited. Different visitors are never ordered by the bus. The row's
state is a free choice in the lookup, since its truth is the subject of
`TunnelSession`.

### Logins and `up`: `AuthSession`, `CliProcess`

`AuthSession` is the server's side: sessions, tokens and trusted ranges, with the
verify page cut between `findUnique` and `update`, and a status poll between its
read and its transaction. `CliProcess` extends it by the program that polls and by
`btunnel up`, of which a single tunnel is the case of one entry without a service.

| variable | code |
|---|---|
| `session`, `token`, `trust` | the three tables; `linked` remembers which ranges a completed login came from |
| `page`, `poll` | verify handlers and status handlers under way; each login may be polled twice at once |
| `file`, `authMu` | the token file, which may be torn between truncation and write, and the mutex |
| `pc`, `rejected`, `try` | where each agent (main goroutine, tunnels, other terminal) is; `authAttempted`'s token; the poll it waits for |
| `tok`, `who`, `why` | the token of a tunnel's attempt, the user it is connected as, its last close |
| `child`, `kids` | the shell of each service; whether something that shell spawned is alive |
| `list`, `waits`, `late` | `children`; goroutines in `Wait`; services listed after the walk |
| `shutting`, `codes`, `proc` | `shuttingDown`, exits about to happen, the exit |

`Prepare...` are the ways out of `prepareTunnelAuth`; `Reauth...` those of
`reauthenticate`; `LoginStarts` to `LoginSaves` are `login`, `pollAuthStatus` and
`saveState`, where `waiting` is the head of the loop, the only place that looks at the
deadline, and `asking` a poll under way, which has no timeout; `KillTrees` is
`killTree`, which reaches what a shell spawned on Windows only; `Closed` is
`startTunnel`'s decision after `connectTunnel`, with `DialFails`, `DialRefused`,
`DialRejected`, `Drops`, `Expires` and `Garbled` for the reasons; `EntryFails` to `Exit`
are the loop of `up` and its goroutines. `Plans` is a set of scenarios (entries,
services, what users and the environment may do), one of which is chosen in `Init`.

### Migrations: `Migrations`

Every step of `applyPrismaMigrations` is an action of a process: lock, load, skip or
refuse or run a migration in a transaction, release. `Call` and `Resolve` are the
promise that the plugins of a process share. The database is apart: `Execute` is the
server executing a COMMIT, maybe after the process is gone, and `ServerNotices` the
end of a session whose connection is gone, which frees the lock. A process is one
life; a restart is another process. `Shipped` and `File` give the migrations and the
checksums that each process's build has.

### Visitor verification: `VerificationFlow`

A visit is a record that the two hosts pass on through redirects: `enforce` is
`AdmitCreator`, `AdmitCookie`, `Redeem`, `AdmitRow`, `Divert` and `Deny`, one for
each return of the function, in its order; `handleVerificationHost` is
`VerifyInvalid`, `VerifyKnown`, `VerifyPage`, `TurnstileFails` and `TurnstilePasses`.
Tokens are records of kind, address and user agent, host and expiry. `checked` is
when an address and user agent last passed Turnstile; the code keeps no such thing.

### The other files

`MC...` modules hold the model values and symmetry sets; `...Proofs` modules the
theorems. Definitions called "Faulty variant" are not part of a specification: each
is an operation with one plausible mistake, and with it in place of the real one the
property named beside it in `PROJECT.json` fails.

## 3. Runs

| run | instance | states | shows |
|---|---|---|---|
| `proxy_pair` | 2 requests, no chunks, lossy bus, symmetry | 2.5 M | `UsageCountedOnce`, `PendingIsTimed`, `RpcIsPending`, `NoForgottenWork` |
| `proxy_body` | 1 request, 2 chunks, bus that delivers, fairness | 59 k | `StreamWillEnd`, `BodyInOrder`, `ClosedMeansWhole`, the refinement `ImplementsExchange`, and `WaitingIsAnswered`, `LiveSettles`, `WorkEnds` |
| `session_two` | 2 sockets, 2 processes that overlap, failing and late queries, fairness | 1.1 M | `RegistryCoherent`, `OnlyOwnCloseUnregisters`, `ServerClosesOnlyLapsed`, `LapsedUnregisters` |
| `session_rows` | 3 sockets, 2 processes in turn, late queries, symmetry | 2.5 M | `ActiveRowIsHeld`, `ActiveRowOwnerRuns` |
| `public_socket` | 2 visitors, 5 loads: a talker with 2 messages up and 1 down, or 2 down and an empty one, over 2 links; 2 up and an empty one; 2 visitors on one link; a bus that swaps events; fairness | 110 k | `AppReadsARun`, `VisitorReadsARun`, `OrphanLeftEarly`, `LeavingReachesApp`, `AppEndReachesVisitor`, `MessageArrives` |
| `cli_process` | 2 tunnels, 2 users, 2 ranges, 2 versions, times 0 to 2, 6 plans, fairness | 1.0 M | `TrustIsLinked`, `OwnRangeIsTrusted`, `TokenNamesApprover`, `NoServiceLeftBehind`, `ExitCodeTells`, `PrepareEnds` |
| `migrations` | 3 processes, 2 migrations, 2 checksums, any ledger to start with, fairness | 231 k | `LedgerIsTrue`, `ReadyMeansMigrated`, `WaitingEnds` |
| `verification` | 2 visits of one browser, 2 addresses, 1 host, times 0 to 3, fairness | 133 k | `AdmittedWasVerified`, `VisitEnds` |
| `session_dead` | 2 sockets | | finding: a close during the handshake is missed |
| `session_race` | 2 sockets | | finding: a late update overwrites a reconnect |
| `reauth_lost` | as `cli_process` | | finding: a rejected token ends the tunnel |
| `killed_tree` | as `cli_process` | | finding: what a killed shell spawned lives on |

Each module's type invariant is checked with its first run.

Why the bounds are enough.

- Requests interact only through the socket and `dispose`, so two show every
  interaction; chunks matter for order, loss and repetition, which two exhibit. A
  chunk costs states only in one request, so the two dimensions are separate runs.
- A socket can be displaced by one other and displace another itself: three sockets
  show a chain, two a pair. Processes have one life each; two give a crash or a
  shutdown and the restart, with or without overlap. Names: the prefix everybody may
  ask for and one random name for each socket.
- Visitors' websockets share only the link: `drops` lets it break once under a
  visitor that talks in both directions, and a second visitor stands with its dial
  between the frames of the first. Two messages show a gap or a repeat. An empty
  message stands before, between or after two others. A swap needs two events of one
  visitor in flight.
- Logins: two users may open one link; two polls of it may overlap; one old token
  runs out while a new one is fetched; a second range and a second version exist to
  be refused. Each lifetime is one or two instants, so everything expires in some
  behaviour. Two services give a failure while the other is starting, listed or
  killed. The plans keep apart what does not interact: services need no login, and
  the other terminal meets only the token file.
- Migrations: an old version, the new one and one with an edited file; two
  migrations, so that one may be there and the next not. All starting ledgers are
  tried, with rows that the Prisma command line leaves.
- Verification: `CookieTtl` is 1 and `ChallengeTtl` is 0 instants, so tokens are good
  at the instant they run out and a clock of four instants lets the chain of
  cookies, challenge and row run to its end. Two visits share the cookies, and one
  may open the address, challenge included, that the other was given. `MaxChanges`
  lets the address change or the tunnel reconnect once.

`CHECK_DEADLOCK FALSE`: every system here may stop, when each request, socket,
process or login has been dealt with. `verification` checks deadlock: a visit may
always start again.

### Fairness

- `proxy_body`: the event loops run what is due (the replies, the events,
  `proxy.request`, `proxy.cancel`, the frames, both timers), the CLI's read loop and
  cancelled goroutines run, and a connection that one end has closed closes at the
  other (the closing handshake has a timeout in both libraries). Nothing is asked of
  the visitor, the local app, the network, the RPC's own limit or the CLI's response.
- `session_two`: expiry timers fire and a closing handshake ends; nothing is asked of
  the database.
- `public_socket`: handlers whose input is there run, a broken connection is noticed at
  both ends (the heartbeat and TCP), a closing socket closes. Visitors, the app's talk,
  drops and reconnects are free, and so is the end of a dial and of a write: the code
  gives them no timeout, so an app that accepts a connection and never answers blocks
  the read loop of the tunnel. `LeavingReachesApp` and `MessageArrives` have the
  premise that this does not happen for ever (`LoopGoesOn`); `AppEndReachesVisitor`
  needs none.
- `cli_process`: time passes and the main goroutine goes on. Nothing makes a user
  approve, a server answer or a second process take the right steps. `PrepareEnds` has
  the premise that no request of `login` hangs for ever (`http.DefaultClient` has no
  timeout); the request of `prepareTunnelAuth` itself has one of five seconds.
- `migrations`: a process at work goes on, the database executes and notices, and
  Postgres grants the lock to a waiter that could have it again and again (its queue
  is fair: strong fairness of `Acquire`).
- `verification`: requests are answered, a visitor does something with a page, and
  Turnstile does not refuse one for ever (strong fairness of `TurnstilePasses`).

### Findings

1. `ClosedIsNotActive`: `Upsert`, then `SocketCloses`, then `Attach`. The close
   event fires before line 567 attaches a handler; the dead socket is registered
   and its row stays `active` for up to 24 hours. Visitors get 503 from the
   socket's `readyState`, and the name looks alive.
2. `RegisteredIsActive`: a socket closes, its update waits for the database, the
   CLI reconnects (one second later) and upserts `active`; then the update
   commits `disconnected`. HTTP goes on, as it asks the registry; visitors'
   websockets are refused, as `handlePublicSocket` asks the row.
3. `RejectedIsNotTheEnd`: SPEC.md:508 promises that a tunnel whose saved token is
   rejected enters the login flow. `closeReason` returns the text of the error, in
   which the reason is a part, and `shouldReauthenticate` compares it as a whole:
   `Load`, `DialRejected`, and the tunnel has ended. (`prepareTunnelAuth` does start
   the login; the reconnect of a tunnel whose token was refused later does not.)
4. `KilledAsATree`: SPEC.md:518 and the comment above `killTree` promise that a service
   goes with everything it spawned. On Unix the signal is sent to the shell alone, which
   leads no process group: `ServiceStarts`, `EntryFails`, `Exit(1)`, and the command the
   shell had spawned still runs. A Ctrl-C of the terminal reaches it by itself, being of
   the terminal's process group; the property is therefore about exits with code 1,
   which no signal accompanies.

Observations that the models show and that have no run of their own:

- SPEC.md:88 and 256 promise 502 for a client that disconnects in the middle of a
  request. `failPending` rejects the proxy's call with an error, and the catch block
  answers every error with `tunnelUnavailable`, whose status is 503 (`http.ts:84`).
  `ProxyStream` answers 503 there too; no property is about the code.
- An upsert that is executed late may leave a row `active` for a process that has
  ended, past the next process's reconciliation, until the one after it
  (`ActiveRowOwnerRuns` names it).
- Empty messages of a visitor or of the app never arrive; messages may be swapped on a
  bus that does not keep the order of events emitted without `await`.
- A local app that accepts a connection and answers nothing holds up every frame of
  its tunnel for as long as it likes, including the cancels.
- `login` may hang in a request for longer than its ten minutes.
- A token from before `20260724000000_add_client_trusted_ip_ranges` has no trusted
  range until it is used; it is accepted from the range that its row holds.
- A shutdown of the proxy closes live streams as if they were complete
  (`ClosedMeansWhole` speaks of a proxy that is up), and the catch block of the
  request handler sends no `proxy.cancel`, so a request that hits the RPC's limit or
  an unusable header is ended by the client plugin's timers.
- What a visitor's websocket sends, and its close, during the awaits of
  `handlePublicSocket` is lost (`early`, `deaf`): a visitor that closes then leaves
  its connection to the local app open until the tunnel drops. When a tunnel drops,
  its visitors are not told; they keep a socket that leads nowhere.
- Two polls of one approved login make two tokens, and an approval may turn a
  consumed session into an approved one again: both tokens are in the name of the
  approver (`TokenNamesApprover`), so this costs rows, not rights.
- A service that starts while `up` is stopping is not killed (`NoServiceLeftBehind`
  names the two windows).
- The proof of a visit is renewed on the way: a visitor may be let in up to twice
  the cookie's lifetime and the challenge's after the check (about 122 minutes), with
  validation by address three times (182 minutes), though each token lives an hour.
- SPEC.md:174 and 177 want a wait of 15 seconds for anonymous tunnels and the
  automatic issue for registered ones only, and SPEC.md:173 the creator's bypass
  while the session is active; `verification.ts` and the proxy make none of these
  distinctions. No property is about it.

## 4. Proofs

Seven modules prove 31 theorems for every value of the constants under the named
assumptions of the specifications. Assumptions are what the code gives: the names of
migrations are distinct (they are directories, `DistinctAssumption`), lifetimes are
natural numbers, a token lives no longer than the trust in its range
(`TTLAssumption`: both constants are in `index.ts`), the old token was issued no
later than now (`OldAssumption`).

`ProxyStreamProofs`, for every set of requests, every `MaxChunks` and both kinds of
bus:

- `TypeCorrect`: `Spec => []TypeOK`. The type invariant is inductive; it is split
  into one conjunct for each process, a step is shown to keep the conjuncts it
  touches, and `TypeFrameRule` covers the others.
- `UsageCorrect`: `Spec => []UsageCountedOnce`. Not inductive alone: a reply with
  a body counts when the stream is open, so the proof needs that the stream is
  open exactly while the entry is unsettled, and that a waiting handler has an
  entry. `ExchangeInv` says so for one request, and `ExchangeStep` goes through
  the actions; every other process leaves the four variables alone.
- `PendingTimed` and `RpcNeverStranded`: `PendingInv` joins both properties with
  "a request enters the map at most once, and after the call". Its induction
  fails at one place by itself: `response.end` drops a request without settling
  its promise. That is safe only because the CLI sends `response.start` first
  and the socket keeps order, which is `WireInv`; the two are proved together
  (`PendingStep`, `WireStep`).

`ProxyDeliveryProofs`, for every set of requests and every `MaxChunks`. What arrives
whole does so only on a bus that delivers: `queueDelivery` swallows a failed emission
and goes on with the next event, so a lost event leaves a gap or an open stream. The
theorems that need it assume `~LossyBus`; two do not.

- `NothingForgotten`, on every bus. A cancel that the CLI reads before the start
  would be lost on it, so `WorkInv` has the start, until it is read, at the head of
  the queue, and a request that left the map over at the CLI, told, or about to be.
- `ChunksNeverRepeat`, on every bus: chunk numbers rise along the stream, the chain
  and the frames (`Ascend`), so a loss leaves a gap and never a chunk twice, early,
  or one that was not sent. No run checks it on its own; without losses it is part of
  `BodyInOrder`.
- `StreamsEnd` (`~LossyBus`): `proxy.cancel` is the one way out of the map without an
  event, and `EndInv` shows that the entry was settled before it was sent.
- `BodyArrivesInOrder`, `ClosedIsWhole` (`~LossyBus`). `ChunkInv` counts on from the
  stream through the chain into the frames (`EventInOrder`, `Continues`): each place
  holds the next chunk, and an end stands only behind the last one. It holds while
  the entry is live; a settled stream stays as it is.
- `PathImplementsExchange` (`~LossyBus`): `Spec => ImplementsExchange`. The entry is
  the phase; a step that settles entries is a `Settle` of that set, an event with a
  chunk a `Pass` because `ChunkInv` says it is the next one, and the steps of client
  plugin, socket and CLI are stutters.

`TunnelSessionProofs`, for every set of sockets, processes and names:

- `TypeCorrect`; `RegistryIsCoherent`, by an inductive invariant that ties a registry
  entry and an armed timer to a socket that has come to the end of its handshake in
  that process; from it the action properties `OnlyOwnClose` and `OnlyLapsedClosed`.
- `OneOwner` and `ActiveIsHeld` are about the tunnel rows. The code says that one
  process runs at a time (the comment above `init`'s reconciliation), so both assume
  `~Overlap`, and `ActiveIsHeld`, which a failing query breaks, `~DbFails`. Neither
  assumes that a query dies with its process: the invariants follow late upserts,
  sweeps and updates, and the statements name what a late upsert does to a row.

`MigrationsProofs`: `TypeCorrect`; `LedgerTruth` and `ReadyIsMigrated`. The invariant
says that a process past the lock holds it unless its connection is gone, that what
it loaded is still the ledger except for what it committed itself, and that a COMMIT
not yet executed belongs to the session that has the lock, on a migration without a
row (`LockHeld`, `LedgerAsRead`, `WorkIsNew`, `DealtWith`). So two processes never run one migration, and a lost answer does no harm.

`VerificationProofs`: `TypeCorrect`; `AdmissionIsVerified`. The invariant gives each
token and row the latest time it may end, counted from the check of its peer: a wide
cookie one cookie's lifetime, a challenge its own on top, the cookie given for it two
and the challenge's, a row made with that cookie three (`WideInv`, `ChallengeInv`,
`CookieInv`, `RowInv`). The bound holds for all lifetimes, visits and hosts.

`CliProcessProofs`: `TypeCorrect`; `TokenOwner`, `TrustComesFromLogins`,
`OwnRangeTrusted` (but for the old token, whose range may have no row yet) over the
server's state, `NoneLeftBehind` and `ExitCodeIsTrue` over
the process. The two halves have an invariant each, `AuthInv` and `CliInv`, whose
conjuncts are named; the first needs that an approved session, and a poll that has
read it, name a user whose page is done (`SessionApproved`, `PollApproved`), that
trust outlives every token issued to a range (`TokenBacked`) and is linked
(`TrustBounded`); the second that a stop leaves no live shell on the list it has
walked (`ServicesListed`), nothing on Windows of what a killed one had spawned
(`TreesKilled`), and that each exit under way has its cause (`StopsJustified`).

`PublicSocketProofs`, for any number of visitors, messages, drops and reconnections
of the tunnel:

- `TypeCorrect`; `OrphansLeftEarly`. Both rest on what can stand where while a
  visitor's open is under way: a visitor has one open, it is in front of its other
  frames in both queues, and nothing of the visitor exists behind it (`DialInv`).
  So a close that the proxy sends after the open cannot overtake it, and
  `OrphanInv` only has to follow the close along the two queues; with a lost frame
  the open, or the connection it made, is on the lost link as well.
- `AppReadsInOrder` and `VisitorReadsInOrder`. A message passes two queues, and
  either may lose frames when its end of the tunnel changes. `Lined` says that the
  numbers rise along the near queue and on along the far one; `Run` that the reader
  finds the next number first and no gap in the near queue; `Feeds` that the far
  queue will fit behind it; `Upto` that nothing sent is missing, all four of the
  messages that are not empty. They are lemmas about any pair of queues; `AppInv` and
  `SeenInv` say when each holds, on a bus that keeps the order (`load.ordered`): `Run`
  as long as the reader is there, `Upto` as long as the link is the one the socket was
  opened on.

All safety properties that the passing runs check, the type invariants, the action
properties of `TunnelSession` and the refinement are proved. Only model-checked is
liveness, which is beyond the prover (fairness and ENABLED): `WaitingIsAnswered`,
`LiveSettles`, `WorkEnds`, `LapsedUnregisters`, `LeavingReachesApp`,
`AppEndReachesVisitor`, `MessageArrives`, `PrepareEnds`, `WaitingEnds` and `VisitEnds`.

## 5. Abstractions

- Bytes, headers, metrics, logs, HTML. Header rewriting matters to the model only
  where a response cannot be built (`WebBuildFails`).
- The bus and the websocket libraries are external: an event is delivered after
  it was emitted, in the order of the emissions that were awaited one after
  another; those that were not awaited keep their order only where a model says so
  (`load.ordered` in `PublicSocket`; `AppReadsARun` and `VisitorReadsARun` are stated
  for such a bus, the other properties for both); a socket delivers frames in order or not at all;
  `send` and `close` on a closing socket do nothing.
- `recordUsage` is counted as a call; a request for an unknown subdomain, which
  is not counted because it has no tunnel row, is not distinguished.
- The lookup of a session's prior row takes any unexpired row where the code
  takes the latest: more behaviours, not fewer. Two random names never collide
  (six characters of four random bytes: possible, not modelled).
- A tunnel websocket in `ProxyStream` is one connection; which connection serves
  a name is `TunnelSession`'s subject. In `PublicSocket` a link is registered when it
  opens, and its number stands for the object `connectTunnel` works on.
- `validateDeviceToken` is one step where the code reads, checks and renews; so is a
  status answer that creates nothing. Each agent logs in at most once. Waiting times
  of the CLI are steps that may come at any time.
- Sockets of `TunnelSession` are of one session each; those with the configured
  prefix never look at the session, so that they also stand for sockets of several
  sessions with one name. A query that a dying process has sent is executed late or
  not at all.
- A request of `login` ends or does not (no timeout); a test for the deadline comes
  only between polls. The two seconds between polls are a step.
- A service is its shell and, as one thing, what the shell has spawned. `Wait` may
  return when the shell is dead or once its descendants have let go of the output
  pipe. `taskkill /T` takes the tree of a shell that still runs. A terminal's Ctrl-C
  that also reaches the services appears as services that exit by themselves.
- The old token of `AuthInit` was issued before or after the migration
  `20260724000000_add_client_trusted_ip_ranges`, which fills in no rows: its range is
  trusted or not known yet.
- One row for each migration name, as the Prisma command line keeps it when nothing
  was retried; the SQL itself is opaque, and takes effect with its COMMIT.
- A handler of `VerificationFlow` takes no time on its clock. A browser drops cookies
  when they run out and sends none with fetches of other sites (`SameSite=Lax`).
  Turnstile is configured; signatures cannot be made by others.

## 6. Not modelled

- The supervisor's side of `up --proc` (`superviseUpWindows`): it opens windows by
  the operating system and waits; its effect on a window, a stop at any time, is in
  `CliProcess`.
- Versions and the self-update: comparison of strings, downloads and two renames,
  with the operating system between them; the refusal of an old version is in
  `CliProcess`.
- `src/cli.ts`, a smaller Node client of the same protocol for development
  (README.md:32): the models are of the Go CLI.
- Metrics: one more round of messages that no other step waits for.
- Parsing of flags and configuration, admin pages, generated registries and build
  scripts: no state that another part depends on.
- Two client processes at the same time for one set of tunnel rows: the code says
  that it does not support it (`session_two` overlaps processes for the registry).

## 7. Plan

1. Requests of a displaced tunnel: a composition of `TunnelSession` and the pending
   requests, small enough to check.
2. Proofs: the safety of the composition of item 1; what a bus that loses events
   leaves of `ClosedMeansWhole` (a stream that closed may lack chunks, but the local
   app did end its response).
3. The supervisor's windows, and the self-update's two renames with a crash between.
4. Pure algorithms against reference definitions: version comparison and
   `updatePolicy`, `retryDelay`, `selectUpEntries`.
