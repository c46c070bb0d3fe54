----------------------------- MODULE ProxyStream -----------------------------
(***************************************************************************)
(* The life of public HTTP requests through one tunnel: the proxy plugin   *)
(* that holds the visitor's response stream, the client plugin that holds  *)
(* the pending request and its timers, the event bus between the two, the  *)
(* tunnel's websocket, and the CLI that asks the local app.                *)
(*                                                                         *)
(* The tunnel socket is one connection, from tunnel.ready to its close; a  *)
(* reconnect makes another ActiveTunnel with an empty pending map, which   *)
(* TunnelSession models.                                                   *)
(***************************************************************************)
EXTENDS Naturals, Sequences

CONSTANTS Requests,   \* the visitors' HTTP requests that reach the proxy
          MaxChunks,  \* bound: body chunks the local app writes per response
          LossyBus    \* whether an event of the bus can fail to be delivered

ASSUME MaxChunksAssumption == MaxChunks \in Nat
ASSUME LossyBusAssumption == LossyBus \in BOOLEAN

VARIABLES
  \* service-tunnels-proxy
  web,        \* the request handler: "idle" (no request yet, or the handler in
              \* its awaits before the entry), "waiting" for the RPC, "done"
  answer,     \* the Response it returned: "none", "4xx", "503", "relayed"
  entry,      \* publicResponses: "none", "live", "settled" (and deleted)
  stream,     \* the ReadableStream: "open", "closed", "errored", or "left"
              \* (closed because the visitor cancelled it)
  got,        \* chunks enqueued on it
  owner,      \* ownerServerId and requestId known in the entry
  usage,      \* calls of recordUsage for this request
  disposed,   \* the plugin has been disposed of
  \* service-tunnels-client
  pend,       \* tunnel.pending: "none", "waiting", "started", "gone"
  total,      \* the total timer is armed
  idle,       \* the idle timer is armed
  delivery,   \* events chained on pending.delivery, not yet emitted
  \* the bus
  rpc,        \* the proxy.request call and its outcome
  cancelMsg,  \* a proxy.cancel event is in flight
  \* the tunnel websocket
  sock,       \* readyState at the server: "open", "closing", "closed"
  conn,       \* the CLI still reads its end
  toCli,      \* frames for the CLI, per request (one FIFO socket)
  toSrv,      \* frames for the server
  \* the CLI
  work,       \* the request's goroutine: "none", "local", "streaming",
              \* "finished" (response.end sent), "failed"
  cancelled,  \* its context is cancelled
  sent        \* chunks it has sent

proxyVars == <<web, answer, entry, stream, got, owner, usage, disposed>>
clientVars == <<pend, total, idle, delivery>>
busVars == <<rpc, cancelMsg>>
wireVars == <<sock, conn, toCli, toSrv>>
cliVars == <<work, cancelled, sent>>
vars == <<proxyVars, clientVars, busVars, wireVars, cliVars>>

-----------------------------------------------------------------------------
(* Data.  A chunk is its number in the order the local app wrote it. *)

\* Why the client plugin's promise was rejected, as its Error message tells.
Rejections == {"timedOut", "stalled", "disconnected", "appError", "cancelled"}
\* "unavailable" carries a body; "ok" and "bad" (status 502 or 503) do not.
Replies == {"unavailable", "ok", "bad"} \cup Rejections

Chunks == 1 .. MaxChunks
BodyFrames == [t : {"body"}, n : Chunks]
OtherFrames == [t : {"start", "startSse", "startBad", "end", "error"}, n : {0}]
Frames == BodyFrames \cup OtherFrames
Frame(t) == [t |-> t, n |-> 0]
\* Faulty variant: numbers chunks from one too high.
LateBodyFrame(n) == [t |-> "body", n |-> n + 1]

BodyFrame(n) == [t |-> "body", n |-> n]

InMap(r) == pend[r] \in {"waiting", "started"}
Running(r) == work[r] \in {"local", "streaming"}

ProxyTypes ==
  /\ web \in [Requests -> {"idle", "waiting", "done"}]
  /\ answer \in [Requests -> {"none", "4xx", "503", "relayed"}]
  /\ entry \in [Requests -> {"none", "live", "settled"}]
  /\ stream \in [Requests -> {"open", "closed", "errored", "left"}]
  /\ owner \in [Requests -> BOOLEAN]
  /\ usage \in [Requests -> Nat]
  /\ disposed \in BOOLEAN

ClientTypes ==
  /\ pend \in [Requests -> {"none", "waiting", "started", "gone"}]
  /\ total \in [Requests -> BOOLEAN]
  /\ idle \in [Requests -> BOOLEAN]

BusTypes ==
  /\ rpc \in [Requests -> {"none", "called", "serving"} \cup Replies]
  /\ cancelMsg \in [Requests -> BOOLEAN]

WireTypes ==
  /\ sock \in {"open", "closing", "closed"}
  /\ conn \in BOOLEAN

CliTypes ==
  /\ work \in [Requests -> {"none", "local", "streaming", "finished", "failed"}]
  /\ cancelled \in [Requests -> BOOLEAN]
  /\ sent \in [Requests -> 0 .. MaxChunks]

QueueTypes ==
  /\ got \in [Requests -> Seq(Chunks)]
  /\ delivery \in [Requests -> Seq(Frames)]
  /\ toCli \in [Requests -> Seq({"request.start", "request.cancel"})]
  /\ toSrv \in [Requests -> Seq(Frames)]

TypeOK == ProxyTypes /\ ClientTypes /\ BusTypes /\ WireTypes /\ CliTypes /\ QueueTypes

Init ==
  /\ web = [r \in Requests |-> "idle"]
  /\ answer = [r \in Requests |-> "none"]
  /\ entry = [r \in Requests |-> "none"]
  /\ stream = [r \in Requests |-> "open"]
  /\ got = [r \in Requests |-> <<>>]
  /\ owner = [r \in Requests |-> FALSE]
  /\ usage = [r \in Requests |-> 0]
  /\ disposed = FALSE
  /\ pend = [r \in Requests |-> "none"]
  /\ total = [r \in Requests |-> FALSE]
  /\ idle = [r \in Requests |-> FALSE]
  /\ delivery = [r \in Requests |-> <<>>]
  /\ rpc = [r \in Requests |-> "none"]
  /\ cancelMsg = [r \in Requests |-> FALSE]
  /\ sock = "open"
  /\ conn = TRUE
  /\ toCli = [r \in Requests |-> <<>>]
  /\ toSrv = [r \in Requests |-> <<>>]
  /\ work = [r \in Requests |-> "none"]
  /\ cancelled = [r \in Requests |-> FALSE]
  /\ sent = [r \in Requests |-> 0]

-----------------------------------------------------------------------------
(* service-tunnels-proxy: the request handler and the response stream. *)

\* finishPublicResponse: settle a live entry and count its usage.
Finish(r, state) ==
  /\ entry' = [entry EXCEPT ![r] = "settled"]
  /\ stream' = [stream EXCEPT ![r] = state]
  /\ usage' = [usage EXCEPT ![r] = @ + 1]

Return(r, response) ==
  /\ web' = [web EXCEPT ![r] = "done"]
  /\ answer' = [answer EXCEPT ![r] = response]

\* The handler answers before it creates an entry: headers or body too large
\* (4xx), or the upload breaks off (503 from the catch). usageDeferred is
\* still false, so the finally block counts the request. A handler that was in
\* an earlier await during dispose() goes on after it.
WebRefuse(r) ==
  /\ web[r] = "idle"
  /\ \E response \in {"4xx", "503"} : Return(r, response)
  /\ usage' = [usage EXCEPT ![r] = @ + 1]
  /\ UNCHANGED <<entry, stream, got, owner, disposed>>
  /\ UNCHANGED <<clientVars, busVars, wireVars, cliVars>>

\* The same for a handler that comes to its entry after dispose(), which has
\* looked at the entries there were.
WebStart(r) ==
  /\ web[r] = "idle"
  /\ web' = [web EXCEPT ![r] = "waiting"]
  /\ entry' = [entry EXCEPT ![r] = "live"]
  /\ rpc' = [rpc EXCEPT ![r] = "called"]
  /\ UNCHANGED <<answer, stream, got, owner, usage, disposed, cancelMsg>>
  /\ UNCHANGED <<clientVars, wireVars, cliVars>>

\* Faulty variant: usageDeferred is reset before close() can throw.
EagerReturnUnavailable(r) ==
  /\ web[r] = "waiting" /\ rpc[r] = "unavailable"
  /\ owner' = [owner EXCEPT ![r] = TRUE]
  /\ Finish(r, "closed")
  /\ Return(r, "503")
  /\ UNCHANGED <<got, disposed>>
  /\ UNCHANGED <<clientVars, busVars, wireVars, cliVars>>

\* A reply with a body: the entry is dropped first, then the controller is
\* closed. Only if that does not throw is usageDeferred reset, which makes the
\* finally block count the request; a shutdown has closed and counted already.
WebReturnUnavailable(r) ==
  /\ web[r] = "waiting" /\ rpc[r] = "unavailable"
  /\ owner' = [owner EXCEPT ![r] = TRUE]
  /\ entry' = [entry EXCEPT ![r] = "settled"]
  /\ IF stream[r] = "open"
     THEN /\ stream' = [stream EXCEPT ![r] = "closed"]
          /\ usage' = [usage EXCEPT ![r] = @ + 1]
     ELSE UNCHANGED <<stream, usage>>
  /\ Return(r, "503")
  /\ UNCHANGED <<got, disposed>>
  /\ UNCHANGED <<clientVars, busVars, wireVars, cliVars>>

\* The tunnel relays a 502 or 503 of the local app: cancelPublicResponse with
\* closeStream, which tells the client plugin to cancel.
WebReturnBad(r) ==
  /\ web[r] = "waiting" /\ rpc[r] = "bad"
  /\ owner' = [owner EXCEPT ![r] = TRUE]
  /\ IF entry[r] = "live"
     THEN /\ Finish(r, "closed")
          /\ cancelMsg' = [cancelMsg EXCEPT ![r] = TRUE]
     ELSE UNCHANGED <<entry, stream, usage, cancelMsg>>
  /\ Return(r, "503")
  /\ UNCHANGED <<got, disposed, rpc>>
  /\ UNCHANGED <<clientVars, wireVars, cliVars>>

WebReturnStream(r) ==
  /\ web[r] = "waiting" /\ rpc[r] = "ok"
  /\ owner' = [owner EXCEPT ![r] = TRUE]
  /\ Return(r, "relayed")
  /\ UNCHANGED <<entry, stream, got, usage, disposed>>
  /\ UNCHANGED <<clientVars, busVars, wireVars, cliVars>>

\* The catch block. It settles a live entry but sends no proxy.cancel.
Catch(r) ==
  /\ IF entry[r] = "live"
     THEN Finish(r, "errored")
     ELSE UNCHANGED <<entry, stream, usage>>
  /\ Return(r, "503")
  /\ UNCHANGED <<got, disposed>>
  /\ UNCHANGED <<clientVars, busVars, wireVars, cliVars>>

WebRejected(r) ==
  /\ web[r] = "waiting" /\ rpc[r] \in Rejections
  /\ owner' = owner
  /\ Catch(r)

\* The RPC's own 310 s run out, whatever has become of the call.
WebTimeout(r) ==
  /\ web[r] = "waiting"
  /\ owner' = owner
  /\ Catch(r)

\* The app's headers cannot be put in a Response.
WebBuildFails(r) ==
  /\ web[r] = "waiting" /\ rpc[r] = "ok"
  /\ owner' = [owner EXCEPT ![r] = TRUE]
  /\ Catch(r)

\* cancelPublicResponse for the requests of S: settle, count, and tell the
\* client plugin if the entry knows the owner.
CancelPublic(S, state) ==
  LET live == {r \in S : entry[r] = "live"} IN
  /\ entry' = [r \in Requests |-> IF r \in live THEN "settled" ELSE entry[r]]
  /\ usage' = [r \in Requests |-> IF r \in live THEN usage[r] + 1 ELSE usage[r]]
  /\ stream' = [r \in Requests |-> IF r \in live THEN state ELSE stream[r]]
  /\ cancelMsg' = [r \in Requests |->
                     (r \in live /\ owner[r]) \/ cancelMsg[r]]

\* The visitor goes away: the stream's cancel callback.
VisitorLeaves(r) ==
  /\ answer[r] = "relayed" /\ stream[r] = "open"
  /\ CancelPublic({r}, "left")
  /\ UNCHANGED <<web, answer, got, owner, disposed, rpc>>
  /\ UNCHANGED <<clientVars, wireVars, cliVars>>

\* dispose(): cancel every entry; server.close() lets the handlers finish.
Dispose ==
  /\ ~disposed
  /\ disposed' = TRUE
  /\ CancelPublic(Requests, "closed")
  /\ UNCHANGED <<web, answer, got, owner, rpc>>
  /\ UNCHANGED <<clientVars, wireVars, cliVars>>

\* Faulty variant: the body handler does not ask whether the entry is settled.
UncheckedProxyEvent(r) ==
  /\ delivery[r] # <<>>
  /\ delivery' = [delivery EXCEPT ![r] = Tail(@)]
  /\ LET event == Head(delivery[r]) IN
     \/ /\ event.t = "body"
        /\ got' = [got EXCEPT ![r] = Append(@, event.n)]
        /\ UNCHANGED <<entry, stream, usage>>
     \/ /\ event.t # "body"
        /\ IF entry[r] = "live"
           THEN Finish(r, IF event.t = "end" THEN "closed" ELSE "errored")
           ELSE UNCHANGED <<entry, stream, usage>>
        /\ got' = got
  /\ UNCHANGED <<web, answer, owner, disposed, pend, total, idle>>
  /\ UNCHANGED <<busVars, wireVars, cliVars>>

\* The handlers of proxy.response.body, .end and .error: the event emitted at
\* the head of the delivery chain reaches publicResponses.
ProxyEvent(r) ==
  /\ delivery[r] # <<>>
  /\ delivery' = [delivery EXCEPT ![r] = Tail(@)]
  /\ LET event == Head(delivery[r]) IN
     \/ /\ entry[r] # "live"
        /\ UNCHANGED <<entry, stream, got, usage>>
     \/ /\ entry[r] = "live" /\ event.t = "body"
        /\ got' = [got EXCEPT ![r] = Append(@, event.n)]
        /\ UNCHANGED <<entry, stream, usage>>
     \/ /\ entry[r] = "live" /\ event.t = "end"
        /\ Finish(r, "closed")
        /\ got' = got
     \/ /\ entry[r] = "live" /\ event.t = "error"
        /\ Finish(r, "errored")
        /\ got' = got
  /\ UNCHANGED <<web, answer, owner, disposed, pend, total, idle>>
  /\ UNCHANGED <<busVars, wireVars, cliVars>>

\* queueDelivery catches a failed emission and goes on with the next.
EventLost(r) ==
  /\ LossyBus /\ delivery[r] # <<>>
  /\ delivery' = [delivery EXCEPT ![r] = Tail(@)]
  /\ UNCHANGED <<proxyVars, pend, total, idle, busVars, wireVars, cliVars>>

-----------------------------------------------------------------------------
(* service-tunnels-client: the RPC handler, frames, timers, cancellation. *)

\* ws.send drops the frame unless the socket is open.
SendToCli(r, frame) ==
  toCli' = IF sock = "open" THEN [toCli EXCEPT ![r] = Append(@, frame)] ELSE toCli

\* proxy.request: refuse without an open tunnel, else proxyRequest.
ClientRequest(r) ==
  /\ rpc[r] = "called"
  /\ \/ /\ sock # "open"
        /\ rpc' = [rpc EXCEPT ![r] = "unavailable"]
        /\ UNCHANGED <<pend, total, toCli>>
     \/ /\ sock = "open"
        /\ rpc' = [rpc EXCEPT ![r] = "serving"]
        /\ pend' = [pend EXCEPT ![r] = "waiting"]
        /\ total' = [total EXCEPT ![r] = TRUE]
        /\ SendToCli(r, "request.start")
  /\ UNCHANGED <<idle, delivery, cancelMsg, sock, conn, toSrv>>
  /\ UNCHANGED <<proxyVars, cliVars>>

\* A promise settles once: later calls of resolve and reject do nothing.
SettlePromise(r, outcome) ==
  rpc' = IF rpc[r] = "serving" THEN [rpc EXCEPT ![r] = outcome] ELSE rpc

\* Faulty variant: the idle timer survives its request.
DropWithoutIdleTimer(r) ==
  /\ pend' = [pend EXCEPT ![r] = "gone"]
  /\ total' = [total EXCEPT ![r] = FALSE]
  /\ idle' = idle

\* clearPendingTimers and pending.delete.
Drop(r) ==
  /\ pend' = [pend EXCEPT ![r] = "gone"]
  /\ total' = [total EXCEPT ![r] = FALSE]
  /\ idle' = [idle EXCEPT ![r] = FALSE]

\* Faulty variant: the newest event overtakes those waiting.
PushDelivery(r, event) ==
  delivery' = [delivery EXCEPT ![r] = <<event>> \o @]

QueueDelivery(r, event) ==
  delivery' = [delivery EXCEPT ![r] = Append(@, event)]

\* Faulty variant: a request that has not started is dropped silently.
FailWithoutReject(r, why) ==
  /\ Drop(r)
  /\ IF pend[r] = "waiting"
     THEN UNCHANGED <<rpc, delivery>>
     ELSE QueueDelivery(r, Frame("error")) /\ rpc' = rpc

\* Faulty variant: a started request fails without an event.
FailWithoutEvent(r, why) ==
  /\ Drop(r)
  /\ delivery' = delivery
  /\ IF pend[r] = "waiting" THEN SettlePromise(r, why) ELSE rpc' = rpc

\* Faulty variant: a started request that fails is reported as complete.
FailAsEnd(r, why) ==
  /\ Drop(r)
  /\ IF pend[r] = "waiting"
     THEN SettlePromise(r, why) /\ delivery' = delivery
     ELSE QueueDelivery(r, Frame("end")) /\ rpc' = rpc

\* failPending up to its cancel frame: reject the promise before
\* response.start, send an error event after it.
Fail(r, why) ==
  /\ Drop(r)
  /\ IF pend[r] = "waiting"
     THEN SettlePromise(r, why) /\ delivery' = delivery
     ELSE QueueDelivery(r, Frame("error")) /\ rpc' = rpc

\* Faulty variant: response.start does not resolve the RPC.
OnStartUnresolved(r, type) ==
  /\ pend' = [pend EXCEPT ![r] = "started"]
  /\ total' = IF type = "startSse" THEN [total EXCEPT ![r] = FALSE] ELSE total
  /\ idle' = [idle EXCEPT ![r] = TRUE]
  /\ UNCHANGED <<rpc, delivery, toCli>>

\* Faulty variant: response.start does not arm the idle timer.
OnStartUntimed(r, type) ==
  /\ pend' = [pend EXCEPT ![r] = "started"]
  /\ total' = IF type = "startSse" THEN [total EXCEPT ![r] = FALSE] ELSE total
  /\ idle' = idle
  /\ SettlePromise(r, IF type = "startBad" THEN "bad" ELSE "ok")
  /\ UNCHANGED <<delivery, toCli>>

OnStart(r, type) ==
  /\ pend' = [pend EXCEPT ![r] = "started"]
  /\ total' = IF type = "startSse" THEN [total EXCEPT ![r] = FALSE] ELSE total
  /\ idle' = [idle EXCEPT ![r] = TRUE]
  /\ SettlePromise(r, IF type = "startBad" THEN "bad" ELSE "ok")
  /\ UNCHANGED <<delivery, toCli>>

OnBody(r, n) ==
  /\ idle' = [idle EXCEPT ![r] = TRUE]
  /\ QueueDelivery(r, BodyFrame(n))
  /\ UNCHANGED <<pend, total, rpc, toCli>>

OnEnd(r) ==
  /\ Drop(r)
  /\ QueueDelivery(r, Frame("end"))
  /\ UNCHANGED <<rpc, toCli>>

OnError(r) ==
  /\ Fail(r, "appError")
  /\ SendToCli(r, "request.cancel")

\* handleClientFrame for the frames of a request; a frame whose request is no
\* longer pending is dropped.
HandleClientFrame(r) ==
  /\ sock # "closed" /\ toSrv[r] # <<>>
  /\ toSrv' = [toSrv EXCEPT ![r] = Tail(@)]
  /\ LET f == Head(toSrv[r]) IN
     \/ ~InMap(r) /\ UNCHANGED <<clientVars, rpc, toCli>>
     \/ InMap(r) /\ f.t \in {"start", "startSse", "startBad"} /\ OnStart(r, f.t)
     \/ InMap(r) /\ f.t = "body" /\ OnBody(r, f.n)
     \/ InMap(r) /\ f.t = "end" /\ OnEnd(r)
     \/ InMap(r) /\ f.t = "error" /\ OnError(r)
  /\ UNCHANGED <<proxyVars, cancelMsg, sock, conn, cliVars>>

\* Faulty variant: the CLI is not told that a request timed out.
TimerFailsQuietly(r, why) ==
  /\ InMap(r)
  /\ Fail(r, why)
  /\ UNCHANGED <<toCli, proxyVars, cancelMsg, sock, conn, toSrv, cliVars>>

TimerFails(r, why) ==
  /\ InMap(r)
  /\ Fail(r, why)
  /\ SendToCli(r, "request.cancel")
  /\ UNCHANGED <<proxyVars, cancelMsg, sock, conn, toSrv, cliVars>>

TotalTimeout(r) == total[r] /\ TimerFails(r, "timedOut")

IdleTimeout(r) == idle[r] /\ TimerFails(r, "stalled")

\* The proxy.cancel handler.
ClientCancel(r) ==
  /\ cancelMsg[r]
  /\ cancelMsg' = [cancelMsg EXCEPT ![r] = FALSE]
  /\ \/ /\ sock = "closed" \/ ~InMap(r)
        /\ UNCHANGED <<pend, total, idle, rpc, toCli>>
     \/ /\ sock # "closed" /\ InMap(r)
        /\ Drop(r)
        /\ SendToCli(r, "request.cancel")
        /\ IF pend[r] = "waiting" THEN SettlePromise(r, "cancelled") ELSE rpc' = rpc
  /\ UNCHANGED <<delivery, sock, conn, toSrv, proxyVars, cliVars>>

CancelLost(r) ==
  /\ LossyBus /\ cancelMsg[r]
  /\ cancelMsg' = [cancelMsg EXCEPT ![r] = FALSE]
  /\ UNCHANGED <<rpc, proxyVars, clientVars, wireVars, cliVars>>

-----------------------------------------------------------------------------
(* The tunnel websocket. *)

\* Either end starts the closing handshake: expiry, an invalid frame, the
\* plugin's dispose, or the CLI's close frame.
SocketCloses ==
  /\ sock = "open"
  /\ sock' = "closing"
  /\ UNCHANGED <<conn, toCli, toSrv, proxyVars, clientVars, busVars, cliVars>>

\* The close event: every pending request fails, frames not read are lost.
SocketClosed ==
  LET failed == {r \in Requests : InMap(r)} IN
  /\ sock = "closing"
  /\ sock' = "closed"
  /\ toSrv' = [r \in Requests |-> <<>>]
  /\ pend' = [r \in Requests |-> IF r \in failed THEN "gone" ELSE pend[r]]
  /\ total' = [r \in Requests |-> r \notin failed /\ total[r]]
  /\ idle' = [r \in Requests |-> r \notin failed /\ idle[r]]
  /\ rpc' = [r \in Requests |->
               IF pend[r] = "waiting" /\ rpc[r] = "serving" THEN "disconnected" ELSE rpc[r]]
  /\ delivery' = [r \in Requests |->
                    IF pend[r] = "started" THEN Append(delivery[r], Frame("error"))
                    ELSE delivery[r]]
  /\ UNCHANGED <<conn, toCli, cancelMsg, proxyVars, cliVars>>

\* Faulty variant: a lost connection leaves the requests' contexts alone.
CliDisconnectsOnly ==
  /\ conn
  /\ conn' = FALSE
  /\ toCli' = [r \in Requests |-> <<>>]
  /\ UNCHANGED <<cancelled, sock, toSrv, work, sent, proxyVars, clientVars, busVars>>

\* The CLI's read loop ends: a close frame, a missed heartbeat, a lost
\* connection or the end of the process; its deferred function cancels every
\* request's context.
CliDisconnects ==
  /\ conn
  /\ conn' = FALSE
  /\ toCli' = [r \in Requests |-> <<>>]
  /\ cancelled' = [r \in Requests |-> cancelled[r] \/ Running(r)]
  /\ UNCHANGED <<sock, toSrv, work, sent, proxyVars, clientVars, busVars>>

-----------------------------------------------------------------------------
(* The CLI: connectTunnel's read loop, handleRequest and localRequest. *)

CliFrame(r) ==
  /\ conn /\ toCli[r] # <<>>
  /\ toCli' = [toCli EXCEPT ![r] = Tail(@)]
  /\ \/ /\ Head(toCli[r]) = "request.start"
        /\ work' = [work EXCEPT ![r] = "local"]
        /\ cancelled' = cancelled
     \/ /\ Head(toCli[r]) = "request.cancel"
        /\ cancelled' = [cancelled EXCEPT ![r] = @ \/ Running(r)]
        /\ work' = work
  /\ UNCHANGED <<sent, sock, conn, toSrv, proxyVars, clientVars, busVars>>

SendToSrv(r, frame) ==
  /\ conn
  /\ toSrv' = IF sock = "closed" THEN toSrv ELSE [toSrv EXCEPT ![r] = Append(@, frame)]

\* The local app's status line and headers.
CliStart(r) ==
  /\ work[r] = "local"
  /\ \E type \in {"start", "startSse", "startBad"} : SendToSrv(r, Frame(type))
  /\ work' = [work EXCEPT ![r] = "streaming"]
  /\ UNCHANGED <<cancelled, sent, sock, conn, toCli, proxyVars, clientVars, busVars>>

\* A chunk of its body; MaxChunks bounds them.
CliBody(r) ==
  /\ work[r] = "streaming" /\ sent[r] < MaxChunks
  /\ SendToSrv(r, BodyFrame(sent[r] + 1))
  /\ sent' = [sent EXCEPT ![r] = @ + 1]
  /\ UNCHANGED <<work, cancelled, sock, conn, toCli, proxyVars, clientVars, busVars>>

\* End of the body.
CliEnd(r) ==
  /\ work[r] = "streaming"
  /\ SendToSrv(r, Frame("end"))
  /\ work' = [work EXCEPT ![r] = "finished"]
  /\ UNCHANGED <<cancelled, sent, sock, conn, toCli, proxyVars, clientVars, busVars>>

\* The local app refuses or breaks the connection.
CliError(r) ==
  /\ Running(r) /\ ~cancelled[r]
  /\ SendToSrv(r, Frame("error"))
  /\ work' = [work EXCEPT ![r] = "failed"]
  /\ UNCHANGED <<cancelled, sent, sock, conn, toCli, proxyVars, clientVars, busVars>>

\* A cancelled context ends the goroutine without another frame.
CliAborts(r) ==
  /\ Running(r) /\ cancelled[r]
  /\ work' = [work EXCEPT ![r] = "failed"]
  /\ UNCHANGED <<cancelled, sent, wireVars, proxyVars, clientVars, busVars>>

-----------------------------------------------------------------------------
Proxy(r) ==
  \/ WebRefuse(r) \/ WebStart(r) \/ VisitorLeaves(r)
  \/ WebReturnUnavailable(r) \/ WebReturnBad(r) \/ WebReturnStream(r)
  \/ WebRejected(r) \/ WebTimeout(r) \/ WebBuildFails(r)
  \/ ProxyEvent(r) \/ EventLost(r)

Client(r) ==
  \/ ClientRequest(r) \/ HandleClientFrame(r)
  \/ TotalTimeout(r) \/ IdleTimeout(r)
  \/ ClientCancel(r) \/ CancelLost(r)

Cli(r) ==
  CliFrame(r) \/ CliStart(r) \/ CliBody(r) \/ CliEnd(r) \/ CliError(r) \/ CliAborts(r)

\* A request whose handler has returned may simply stay that way.
Next ==
  \/ \E r \in Requests : Proxy(r) \/ Client(r) \/ Cli(r)
  \/ Dispose \/ SocketCloses \/ SocketClosed \/ CliDisconnects

Spec == Init /\ [][Next]_vars

\* Event loops, timers, the bus and the CLI's goroutines run; the local app,
\* the visitor and the network owe nothing. A connection that one end has
\* closed is closed at the other (close handshake and its timeout).
Fairness ==
  /\ \A r \in Requests :
       /\ WF_vars(WebReturnUnavailable(r) \/ WebReturnBad(r) \/ WebReturnStream(r)
                  \/ WebRejected(r))
       /\ WF_vars(ProxyEvent(r))
       /\ WF_vars(ClientRequest(r))
       /\ WF_vars(HandleClientFrame(r))
       /\ WF_vars(TotalTimeout(r))
       /\ WF_vars(IdleTimeout(r))
       /\ WF_vars(ClientCancel(r))
       /\ WF_vars(CliFrame(r))
       /\ WF_vars(CliAborts(r))
  /\ WF_vars(SocketClosed)
  /\ WF_vars(sock # "open" /\ CliDisconnects)

FairSpec == Spec /\ Fairness

-----------------------------------------------------------------------------
(* Safety. *)

\* Usage is counted once for each request, at the moment it settles: not
\* again by the finally block, a late event, a cancel or a shutdown
\* (recordUsage has five callers in three handlers).
UsageCountedOnce ==
  \A r \in Requests :
    usage[r] = IF entry[r] = "settled" \/ (entry[r] = "none" /\ web[r] = "done")
               THEN 1 ELSE 0

\* The five parts of a pending request agree: it is in the map exactly while
\* one of its timers is armed, so nothing waits without a limit and no timer
\* outlives its request; before response.start that is the total timer.
PendingIsTimed ==
  \A r \in Requests :
    /\ InMap(r) <=> total[r] \/ idle[r]
    /\ pend[r] = "waiting" => total[r]

\* The proxy's RPC is never stranded: while it is being served its request is
\* in the map, and has not started.
RpcIsPending ==
  \A r \in Requests : rpc[r] = "serving" <=> pend[r] = "waiting"

\* The visitor's stream is never left open behind a request the client plugin
\* has given up: the event that ends it is queued, or the rejected RPC is on
\* its way back to the handler.
StreamWillEnd ==
  \A r \in Requests :
    entry[r] = "live" /\ pend[r] = "gone" =>
      \/ \E i \in DOMAIN delivery[r] : delivery[r][i].t \in {"end", "error"}
      \/ web[r] = "waiting" /\ rpc[r] \in Rejections

\* Over three processes the visitor gets the chunks the local app wrote, in
\* order, with none missing or repeated.
BodyInOrder ==
  \A r \in Requests :
    /\ Len(got[r]) <= sent[r]
    /\ \A i \in DOMAIN got[r] : got[r][i] = i

\* A relayed response that closes (rather than errors) while the proxy is up
\* is whole: the local app ended it and every chunk arrived. A timeout, a
\* lost tunnel or a broken local app never looks like the end of a response.
ClosedMeansWhole ==
  \A r \in Requests :
    answer[r] = "relayed" /\ stream[r] = "closed" /\ ~disposed =>
      work[r] = "finished" /\ Len(got[r]) = sent[r]

\* While the tunnel stands, the local app works only for requests that are
\* still pending, or whose cancellation is on its way to the CLI.
NoForgottenWork ==
  \A r \in Requests :
    Running(r) /\ ~InMap(r) /\ sock = "open" /\ conn =>
      cancelled[r] \/ \E i \in DOMAIN toCli[r] : toCli[r][i] = "request.cancel"

-----------------------------------------------------------------------------
(* The exchange the proxy promises, and liveness. *)

phase ==
  [r \in Requests |-> IF entry[r] = "live" THEN "open"
                      ELSE IF web[r] = "idle" THEN "new" ELSE "settled"]

Exchange == INSTANCE PublicExchange WITH body <- got, counted <- usage

\* Seen from outside, the whole path behaves as the simple exchange: chunks in
\* order while open, one settlement counted once, nothing after it.
ImplementsExchange == Exchange!Spec

\* Every request forwarded to the tunnel is answered, without relying on the
\* RPC's own 310 s limit: the reply, a rejection or a close reaches it.
WaitingIsAnswered ==
  \A r \in Requests : web[r] = "waiting" ~> web[r] = "done"

\* Every response stream ends, whatever the local app, the CLI and the tunnel
\* fail to do.
LiveSettles ==
  \A r \in Requests : entry[r] = "live" ~> entry[r] = "settled"

\* No goroutine of the CLI works for ever for a request: a silent local app
\* runs into a timer, whose cancellation (or the loss of the tunnel) reaches it.
WorkEnds ==
  \A r \in Requests : Running(r) ~> ~Running(r)
=============================================================================
