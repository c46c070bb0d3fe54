---------------------------- MODULE PublicSocket ----------------------------
(***************************************************************************)
(* A visitor's websocket on its way to the local app and back: the proxy   *)
(* plugin's handlePublicSocket and its table publicSockets, the bus        *)
(* handlers ws.toOrigin and ws.fromOrigin, the tunnel websocket, and       *)
(* handleOriginWS in the read loop of the CLI.                             *)
(*                                                                         *)
(* The tunnel websocket may drop and be dialed again; each connection is a *)
(* link with a number.  How a link is opened and registered is the subject *)
(* of TunnelSession; here a link is registered when it opens.              *)
(***************************************************************************)
EXTENDS Integers, Sequences

CONSTANTS Visitors,   \* visitors' websockets, over the whole history
          Nobody,     \* no visitor
          Loads       \* bounds, one of which a behaviour is under: the
                      \* visitors that come, those that may leave, the
                      \* messages each sends and is sent, the empty ones of
                      \* either end, the drops of the link; and whether the bus
                      \* keeps the order of events emitted without await

ASSUME NobodyAssumption == Nobody \notin Visitors
ASSUME LoadAssumption ==
  \A l \in Loads : /\ l.come \subseteq Visitors /\ l.leave \subseteq Visitors
                   /\ l.sent \in [Visitors -> Nat]
                   /\ l.said \in [Visitors -> Nat]
                   /\ l.blank \in [Visitors -> Nat]
                   /\ l.drops \in Nat
                   /\ l.ordered \in BOOLEAN

VARIABLES
  load,      \* the bounds of this behaviour
  pub,       \* handlePublicSocket of each visitor, by the await it is in:
             \* "none", "lookup", "opening", "relayed" (handlers attached),
             \* "refused" (no active tunnel)
  table,     \* visitors with an entry in publicSockets
  vws,       \* readyState at the proxy: "none", "open", "closing", "closed"
  deaf,      \* visitors that were closed before the close handler was attached
  toClient,  \* ws.toOrigin events of each visitor, not yet handled
  back,      \* ws.fromOrigin events of each visitor, not yet handled
  reg,       \* the registry has a tunnel, and its socket is OPEN
  link,      \* number of the latest link
  wire,      \* it carries frames
  down,      \* frames from the server to the CLI on it, of all visitors
  up,        \* ws.fromOrigin frames of each visitor on its link
  cli,       \* read loop of the latest link: "reading", "dialing" and
             \* "writing" (to the local app, neither with a timeout), "gone"
  dialing,   \* the visitor whose dial the read loop is in
  origin,    \* connection to the local app: "none", "dialing", "open",
             \* "closing" (closed by either end, its reader not yet woken),
             \* "closed", "failed" (dial refused)
  gen,       \* link on which it was dialed, 0 for none
  sent,      \* messages a visitor sent, without the empty ones
  early,     \* those sent before the message handler was attached
  got,       \* numbers of those written to the local app
  said,      \* messages the local app sent to a visitor, likewise
  seen,      \* numbers of those the visitor received
  blank      \* empty messages of a visitor and of the local app to it

proxyVars == <<load, pub, table, vws, deaf, sent, early, seen, blank>>
linkVars == <<link, wire>>
cliVars == <<cli, dialing, origin, gen, got, said>>
vars == <<load, pub, table, vws, deaf, toClient, back, reg, link, wire, down, up,
          cli, dialing, origin, gen, sent, early, got, said, seen, blank>>

\* Faulty variant: a frame without its body.
BareFrame(k, i) == [kind |-> k]

\* A message has its number, an empty one has an empty body: 0.
Frames == [kind : {"open", "msg", "close", "ack"}, n : Nat]
Frame(k, i) == [kind |-> k, n |-> i]

TypeOK ==
  /\ load \in Loads
  /\ pub \in [Visitors -> {"none", "lookup", "opening", "relayed", "refused"}]
  /\ table \subseteq Visitors
  /\ vws \in [Visitors -> {"none", "open", "closing", "closed"}]
  /\ deaf \subseteq Visitors
  /\ toClient \in [Visitors -> Seq(Frames)]
  /\ back \in [Visitors -> Seq(Frames)]
  /\ reg \in BOOLEAN
  /\ link \in Nat
  /\ wire \in BOOLEAN
  /\ down \in Seq(Visitors \X Frames)
  /\ up \in [Visitors -> Seq(Frames)]
  /\ cli \in {"reading", "dialing", "writing", "gone"}
  /\ dialing \in Visitors \cup {Nobody}
  /\ origin \in [Visitors -> {"none", "dialing", "open", "closing", "closed", "failed"}]
  /\ gen \in [Visitors -> Nat]
  /\ sent \in [Visitors -> Nat]
  /\ early \in [Visitors -> Nat]
  /\ got \in [Visitors -> Seq(Nat)]
  /\ said \in [Visitors -> Nat]
  /\ seen \in [Visitors -> Seq(Nat)]
  /\ blank \in [Visitors -> Nat]

Init ==
  /\ load \in Loads
  /\ pub = [v \in Visitors |-> "none"]
  /\ table = {}
  /\ vws = [v \in Visitors |-> "none"]
  /\ deaf = {}
  /\ toClient = [v \in Visitors |-> <<>>]
  /\ back = [v \in Visitors |-> <<>>]
  /\ reg = TRUE
  /\ link = 1
  /\ wire = TRUE
  /\ down = <<>>
  /\ up = [v \in Visitors |-> <<>>]
  /\ cli = "reading"
  /\ dialing = Nobody
  /\ origin = [v \in Visitors |-> "none"]
  /\ gen = [v \in Visitors |-> 0]
  /\ sent = [v \in Visitors |-> 0]
  /\ early = [v \in Visitors |-> 0]
  /\ got = [v \in Visitors |-> <<>>]
  /\ said = [v \in Visitors |-> 0]
  /\ seen = [v \in Visitors |-> <<>>]
  /\ blank = [v \in Visitors |-> 0]

Put(q, v, f) == [q EXCEPT ![v] = Append(@, f)]
Pop(q, v) == [q EXCEPT ![v] = Tail(@)]

-----------------------------------------------------------------------------
(* The proxy plugin. *)

\* The upgrade is done; handlePublicSocket starts, up to the row's await.
Upgrade(v) ==
  /\ pub[v] = "none" /\ v \in load.come
  /\ pub' = [pub EXCEPT ![v] = "lookup"]
  /\ vws' = [vws EXCEPT ![v] = "open"]
  /\ UNCHANGED <<load, table, deaf, sent, early, seen, blank, toClient, back, reg, linkVars,
                 down, up, cliVars>>

\* ws.close: nothing happens to a socket that is closing or closed.
CloseVisitor(v) == vws' = IF vws[v] = "open" THEN [vws EXCEPT ![v] = "closing"] ELSE vws

\* No row, no owner, or a row that is not active.
LookupMissing(v) ==
  /\ pub[v] = "lookup"
  /\ pub' = [pub EXCEPT ![v] = "refused"]
  /\ CloseVisitor(v)
  /\ UNCHANGED <<load, table, deaf, sent, early, seen, blank, toClient, back, reg, linkVars,
                 down, up, cliVars>>

\* Faulty variant: the table entry is made when the handlers are attached.
LookupActiveUntabled(v) ==
  /\ pub[v] = "lookup"
  /\ pub' = [pub EXCEPT ![v] = "opening"]
  /\ toClient' = Put(toClient, v, Frame("open", 0))
  /\ UNCHANGED <<load, table, vws, deaf, sent, early, seen, blank, back, reg, linkVars,
                 down, up, cliVars>>

\* The entry is made first, then the open event is emitted and awaited.
LookupActive(v) ==
  /\ pub[v] = "lookup"
  /\ pub' = [pub EXCEPT ![v] = "opening"]
  /\ table' = table \cup {v}
  /\ toClient' = Put(toClient, v, Frame("open", 0))
  /\ UNCHANGED <<load, vws, deaf, sent, early, seen, blank, back, reg, linkVars,
                 down, up, cliVars>>

\* The await returns and both handlers are attached.  A close event that has
\* fired is not seen any more.
Relay(v) ==
  /\ pub[v] = "opening"
  /\ pub' = [pub EXCEPT ![v] = "relayed"]
  /\ table' = table \cup {v}
  /\ deaf' = IF vws[v] = "closed" THEN deaf \cup {v} ELSE deaf
  /\ early' = [early EXCEPT ![v] = sent[v]]
  /\ UNCHANGED <<load, vws, sent, seen, blank, toClient, back, reg, linkVars, down, up, cliVars>>

\* A message of the visitor.  Without a handler it is lost; a socket that the
\* proxy is closing still delivers.
VisitorSends(v) ==
  /\ vws[v] \in {"open", "closing"} /\ sent[v] < load.sent[v]
  /\ sent' = [sent EXCEPT ![v] = @ + 1]
  /\ toClient' = IF pub[v] = "relayed"
                 THEN Put(toClient, v, Frame("msg", sent[v] + 1)) ELSE toClient
  /\ UNCHANGED <<load, pub, table, vws, deaf, early, seen, blank, back, reg, linkVars,
                 down, up, cliVars>>

\* The same with an empty message, which the handler does not tell apart.
VisitorSendsEmpty(v) ==
  /\ vws[v] \in {"open", "closing"} /\ blank[v] < load.blank[v]
  /\ blank' = [blank EXCEPT ![v] = @ + 1]
  /\ toClient' = IF pub[v] = "relayed" THEN Put(toClient, v, Frame("msg", 0)) ELSE toClient
  /\ UNCHANGED <<load, pub, table, vws, deaf, sent, early, seen, back, reg, linkVars,
                 down, up, cliVars>>

\* Faulty variant: the entry goes, the client plugin is not told.
ClosedUntold(v) ==
  /\ vws' = [vws EXCEPT ![v] = "closed"]
  /\ table' = IF pub[v] = "relayed" THEN table \ {v} ELSE table
  /\ UNCHANGED <<load, pub, deaf, sent, early, seen, blank, toClient, back, reg, linkVars,
                 down, up, cliVars>>

\* The close event of a visitor's socket.
Closed(v) ==
  /\ vws' = [vws EXCEPT ![v] = "closed"]
  /\ table' = IF pub[v] = "relayed" THEN table \ {v} ELSE table
  /\ toClient' = IF pub[v] = "relayed"
                 THEN Put(toClient, v, Frame("close", 0)) ELSE toClient
  /\ UNCHANGED <<load, pub, deaf, sent, early, seen, blank, back, reg, linkVars,
                 down, up, cliVars>>

VisitorLeaves(v) == vws[v] = "open" /\ v \in load.leave /\ Closed(v)
CloseCompletes(v) == vws[v] = "closing" /\ Closed(v)

\* ws.fromOrigin at the proxy; an ack is not used, nor is a message that is empty.
FromOrigin(v) ==
  /\ back[v] # <<>>
  /\ back' = Pop(back, v)
  /\ LET f == Head(back[v])
         live == v \in table /\ vws[v] = "open"
     IN  /\ seen' = IF live /\ f.kind = "msg" /\ f.n # 0
                    THEN [seen EXCEPT ![v] = Append(@, f.n)] ELSE seen
         /\ vws' = IF live /\ f.kind = "close"
                   THEN [vws EXCEPT ![v] = "closing"] ELSE vws
  /\ UNCHANGED <<load, pub, table, deaf, sent, early, blank, toClient, reg, linkVars,
                 down, up, cliVars>>

-----------------------------------------------------------------------------
(* The bus. *)

Swapped(q, i) == [q EXCEPT ![i] = q[i + 1], ![i + 1] = q[i]]

\* An event overtakes the one before it: messages and the close are emitted
\* without await, after the await of the open has returned.
OvertakesToOrigin(v) ==
  /\ ~load.ordered
  /\ \E i \in 1..Len(toClient[v]) - 1 :
       /\ toClient[v][i].kind # "open"
       /\ toClient' = [toClient EXCEPT ![v] = Swapped(@, i)]
  /\ UNCHANGED <<proxyVars, back, reg, linkVars, down, up, cliVars>>

\* So are the events that the client plugin sends for the frames of a tunnel.
OvertakesFromOrigin(v) ==
  /\ ~load.ordered
  /\ \E i \in 1..Len(back[v]) - 1 : back' = [back EXCEPT ![v] = Swapped(@, i)]
  /\ UNCHANGED <<proxyVars, toClient, reg, linkVars, down, up, cliVars>>

-----------------------------------------------------------------------------
(* The client plugin. *)

\* Faulty variant: an event without a tunnel is dropped.
ToOriginUnanswered(v) ==
  /\ toClient[v] # <<>>
  /\ toClient' = Pop(toClient, v)
  /\ down' = IF reg /\ wire THEN Append(down, <<v, Head(toClient[v])>>) ELSE down
  /\ UNCHANGED <<proxyVars, back, reg, linkVars, up, cliVars>>

\* ws.toOrigin: forwarded on the registered tunnel, or answered with a close.
\* What is written to a link that has dropped, and whose socket has not closed
\* yet, is lost.
ToOrigin(v) ==
  /\ toClient[v] # <<>>
  /\ toClient' = Pop(toClient, v)
  /\ down' = IF reg /\ wire THEN Append(down, <<v, Head(toClient[v])>>) ELSE down
  /\ back' = IF reg THEN back ELSE Put(back, v, Frame("close", 0))
  /\ UNCHANGED <<proxyVars, reg, linkVars, up, cliVars>>

\* handleClientFrame: ws.fromOrigin goes to the proxy of the visitor.
FromTunnel(v) ==
  /\ up[v] # <<>>
  /\ up' = Pop(up, v)
  /\ back' = Put(back, v, Head(up[v]))
  /\ UNCHANGED <<proxyVars, toClient, reg, linkVars, down, cliVars>>

\* The close event of the tunnel's socket: the registry forgets it.  The
\* visitors on it are not told.
ServerNotices ==
  /\ ~wire /\ reg
  /\ reg' = FALSE
  /\ UNCHANGED <<proxyVars, toClient, back, linkVars, down, up, cliVars>>

-----------------------------------------------------------------------------
(* The link. *)

LinkLost(v) == gen[v] # 0 /\ (gen[v] < link \/ ~wire)

WireDrops ==
  /\ wire /\ link <= load.drops
  /\ wire' = FALSE
  /\ UNCHANGED <<proxyVars, toClient, back, reg, link, down, up, cliVars>>

\* Frames to the server that a dropped link did not deliver.
UpLost(v) ==
  /\ LinkLost(v) /\ up[v] # <<>>
  /\ up' = [up EXCEPT ![v] = <<>>]
  /\ UNCHANGED <<proxyVars, toClient, back, reg, linkVars, down, cliVars>>

-----------------------------------------------------------------------------
(* The CLI. *)

\* writer.send on the link of v; the error of a dead link is ignored.
Answer(v, f) == up' = IF LinkLost(v) THEN up ELSE Put(up, v, f)

\* The frame at the head of the tunnel is v's, of kind k.
HeadIs(v, k) ==
  /\ cli = "reading" /\ down # <<>>
  /\ Head(down)[1] = v /\ Head(down)[2].kind = k
  /\ down' = Tail(down)

\* Faulty variant: the dial runs in a goroutine of its own.
ReadOpenAside(v) ==
  /\ HeadIs(v, "open")
  /\ dialing' = v
  /\ origin' = [origin EXCEPT ![v] = "dialing"]
  /\ gen' = [gen EXCEPT ![v] = link]
  /\ UNCHANGED <<cli, proxyVars, toClient, back, reg, linkVars, up, got, said>>

\* open: the read loop dials the local app and reads nothing meanwhile.
ReadOpen(v) ==
  /\ HeadIs(v, "open")
  /\ cli' = "dialing"
  /\ dialing' = v
  /\ origin' = [origin EXCEPT ![v] = "dialing"]
  /\ gen' = [gen EXCEPT ![v] = link]
  /\ UNCHANGED <<proxyVars, toClient, back, reg, linkVars, up, got, said>>

\* The connection of v is in originSockets of the latest link.  A reader that
\* has not been woken keeps it there.
Held(v) == gen[v] = link /\ origin[v] \in {"open", "closing"}

\* msg: written to the local app, if there is something to write and its
\* connection takes it.
ReadMsg(v) ==
  LET n == Head(down)[2].n
      written == Held(v) /\ origin[v] = "open" /\ n # 0
  IN
  /\ HeadIs(v, "msg")
  /\ got' = IF written THEN [got EXCEPT ![v] = Append(@, n)] ELSE got
  /\ cli' = IF written THEN "writing" ELSE cli
  /\ UNCHANGED <<proxyVars, toClient, back, reg, linkVars, up, dialing, origin, gen, said>>

\* origin.Write returns, with or without an error.
WriteReturns ==
  /\ cli = "writing"
  /\ cli' = "reading"
  /\ UNCHANGED <<proxyVars, toClient, back, reg, linkVars, down, up,
                 dialing, origin, gen, got, said>>

\* Faulty variant: the close is read and the connection kept.
ReadCloseKept(v) ==
  /\ HeadIs(v, "close")
  /\ UNCHANGED <<proxyVars, toClient, back, reg, linkVars, up, cliVars>>

\* close: the connection to the local app is closed, its reader will wake.
ReadClose(v) ==
  /\ HeadIs(v, "close")
  /\ origin' = IF Held(v) THEN [origin EXCEPT ![v] = "closing"] ELSE origin
  /\ UNCHANGED <<proxyVars, toClient, back, reg, linkVars, up,
                 cli, dialing, gen, got, said>>

\* Faulty variant: no entry in originSockets.
DialDoneUnlisted(v) ==
  /\ dialing = v /\ origin[v] = "dialing"
  /\ cli' = "reading"
  /\ dialing' = Nobody
  /\ origin' = [origin EXCEPT ![v] = "open"]
  /\ gen' = [gen EXCEPT ![v] = 0]
  /\ Answer(v, Frame("ack", 0))
  /\ UNCHANGED <<proxyVars, toClient, back, reg, linkVars, down, got, said>>

\* The dial returns: entry in originSockets, ack, a goroutine that reads.
DialDone(v) ==
  /\ dialing = v /\ origin[v] = "dialing"
  /\ cli' = "reading"
  /\ dialing' = Nobody
  /\ origin' = [origin EXCEPT ![v] = "open"]
  /\ Answer(v, Frame("ack", 0))
  /\ UNCHANGED <<proxyVars, toClient, back, reg, linkVars, down, gen, got, said>>

\* The dial fails, which is answered with a close.
DialFails(v) ==
  /\ dialing = v /\ origin[v] = "dialing"
  /\ cli' = "reading"
  /\ dialing' = Nobody
  /\ origin' = [origin EXCEPT ![v] = "failed"]
  /\ Answer(v, Frame("close", 0))
  /\ UNCHANGED <<proxyVars, toClient, back, reg, linkVars, down, gen, got, said>>

\* The reading goroutine gets a message of the local app and sends it on.
AppSays(v) ==
  /\ origin[v] = "open" /\ said[v] < load.said[v]
  /\ said' = [said EXCEPT ![v] = @ + 1]
  /\ Answer(v, Frame("msg", said[v] + 1))
  /\ UNCHANGED <<proxyVars, toClient, back, reg, linkVars, down,
                 cli, dialing, origin, gen, got>>

\* An empty message is sent on too; omitempty leaves the frame without a body.
AppSaysEmpty(v) ==
  /\ origin[v] = "open" /\ blank[v] < load.blank[v]
  /\ blank' = [blank EXCEPT ![v] = @ + 1]
  /\ Answer(v, Frame("msg", 0))
  /\ UNCHANGED <<load, pub, table, vws, deaf, sent, early, seen, toClient, back, reg, linkVars,
                 down, cliVars>>

\* The local app closes the connection.
AppCloses(v) ==
  /\ origin[v] = "open"
  /\ origin' = [origin EXCEPT ![v] = "closing"]
  /\ UNCHANGED <<proxyVars, toClient, back, reg, linkVars, up, down,
                 cli, dialing, gen, got, said>>

\* The reading goroutine wakes with an error: entry removed, close sent.
ReaderEnds(v) ==
  /\ origin[v] = "closing"
  /\ origin' = [origin EXCEPT ![v] = "closed"]
  /\ Answer(v, Frame("close", 0))
  /\ UNCHANGED <<proxyVars, toClient, back, reg, linkVars, down,
                 cli, dialing, gen, got, said>>

\* Faulty variant: the connections to the local app stay open.
CliNoticesOnly ==
  /\ ~wire /\ cli = "reading"
  /\ cli' = "gone"
  /\ UNCHANGED <<proxyVars, toClient, back, reg, linkVars, up, down,
                 dialing, origin, gen, got, said>>

\* The read loop's Read fails: every connection to the local app is closed.
CliNotices ==
  /\ ~wire /\ cli = "reading"
  /\ cli' = "gone"
  /\ origin' = [v \in Visitors |->
                 IF gen[v] = link /\ origin[v] = "open" THEN "closing" ELSE origin[v]]
  /\ UNCHANGED <<proxyVars, toClient, back, reg, linkVars, up, down,
                 dialing, gen, got, said>>

\* startTunnel dials again: a new link, with an empty originSockets.  It may be
\* registered before the close event of the old one.
Reconnect ==
  /\ cli = "gone"
  /\ link' = link + 1
  /\ wire' = TRUE
  /\ reg' = TRUE
  /\ cli' = "reading"
  /\ down' = <<>>
  /\ UNCHANGED <<proxyVars, toClient, back, up, dialing, origin, gen, got, said>>

-----------------------------------------------------------------------------
Next ==
  \/ \E v \in Visitors :
       \/ Upgrade(v) \/ LookupMissing(v) \/ LookupActive(v) \/ Relay(v)
       \/ VisitorSends(v) \/ VisitorSendsEmpty(v) \/ VisitorLeaves(v) \/ CloseCompletes(v)
       \/ OvertakesToOrigin(v) \/ OvertakesFromOrigin(v)
       \/ FromOrigin(v) \/ ToOrigin(v) \/ FromTunnel(v) \/ UpLost(v)
       \/ ReadOpen(v) \/ ReadMsg(v) \/ ReadClose(v)
       \/ DialDone(v) \/ DialFails(v)
       \/ AppSays(v) \/ AppSaysEmpty(v) \/ AppCloses(v) \/ ReaderEnds(v)
  \/ WriteReturns \/ ServerNotices \/ WireDrops \/ CliNotices \/ Reconnect

\* Handlers whose input is there run; a dropped link is noticed at both ends
\* (heartbeats); a socket that was told to close closes (ws has a timer for
\* it).  Visitors, the local app, drops and reconnections are free; so are the
\* end of a dial and of a write to the local app, which have no timeout.
Fairness ==
  /\ \A v \in Visitors :
       /\ WF_vars(LookupMissing(v) \/ LookupActive(v) \/ Relay(v))
       /\ WF_vars(CloseCompletes(v))
       /\ WF_vars(FromOrigin(v))
       /\ WF_vars(ToOrigin(v))
       /\ WF_vars(FromTunnel(v) \/ UpLost(v))
       /\ WF_vars(ReaderEnds(v))
  /\ WF_vars(\E v \in Visitors : ReadOpen(v) \/ ReadMsg(v) \/ ReadClose(v))
  /\ WF_vars(ServerNotices)
  /\ WF_vars(CliNotices)

Spec == Init /\ [][Next]_vars
FairSpec == Spec /\ Fairness

-----------------------------------------------------------------------------
(* Safety. *)

\* If the bus keeps the order of events: what is written to the local app for a
\* visitor is a run without gaps or repeats of the messages it sent that are not
\* empty, starting with the first after the handler was attached.  They pass a
\* lookup, two queues, a dial inside the read loop and possibly a change of
\* links; empty ones are dropped on the way.
AppReadsARun ==
  load.ordered =>
    \A v \in Visitors : \A i \in 1..Len(got[v]) : got[v][i] = early[v] + i

\* If the bus keeps the order of events: what the visitor receives is a run
\* without gaps or repeats of the messages that are not empty, from the first
\* the local app sent: an answer may arrive before the handlers of the visitor's
\* socket are attached.
VisitorReadsARun ==
  load.ordered =>
    \A v \in Visitors : \A i \in 1..Len(seen[v]) : seen[v][i] = i

Kinds(q) == {q[i].kind : i \in 1..Len(q)}
DownKinds(v) == {down[i][2].kind : i \in {j \in 1..Len(down) : down[j][1] = v}}

\* A connection to the local app that outlives its visitor is about to be
\* closed (the close is on its way, or its link is lost), unless the visitor
\* left while handlePublicSocket was in an await.
OrphanLeftEarly ==
  \A v \in Visitors :
    (vws[v] = "closed" /\ pub[v] = "relayed" /\ v \notin deaf
       /\ origin[v] \in {"dialing", "open"})
      => \/ "close" \in Kinds(toClient[v]) \cup DownKinds(v)
         \/ LinkLost(v)

-----------------------------------------------------------------------------
(* Liveness. *)

\* Dials of the local app and writes to it end: one that does not (an app that
\* accepts a connection and answers nothing, or stops reading) blocks the read
\* loop of the tunnel for ever, which has no timeout for either.
LoopGoesOn == []<>(cli \notin {"dialing", "writing"})

\* A visitor that leaves after the handlers were attached takes the connection
\* to the local app with it, across a dial that is still running and across a
\* link that drops, if no dial and no write lasts for ever.
LeavingReachesApp ==
  LoopGoesOn =>
    \A v \in Visitors :
      (pub[v] = "relayed" /\ vws[v] = "closed" /\ v \notin deaf)
        ~> (origin[v] \in {"none", "closed", "failed"})

\* When the connection to the local app ends or cannot be made, the visitor's
\* socket is closed, unless its link drops: then nobody tells the visitor.  And
\* when an event of the visitor finds no tunnel at the client plugin, unless a
\* tunnel registers before the event is handled.
AppEndReachesVisitor ==
  \A v \in Visitors :
    /\ (origin[v] \in {"closed", "failed"} /\ ~LinkLost(v))
         ~> (vws[v] \in {"closing", "closed"} \/ LinkLost(v))
    /\ (toClient[v] # <<>> /\ ~reg)
         ~> (vws[v] \in {"closing", "closed"} \/ reg)

\* Every message that is not empty and was sent after the handler was attached
\* is written to the local app, or the connection to the app is over or could
\* not be made, or a link dropped: the dials and writes of other visitors in the
\* same read loop hold it up only while they last.
MessageArrives ==
  LoopGoesOn =>
    \A v \in Visitors :
      (pub[v] = "relayed" /\ sent[v] > early[v])
        ~> \/ Len(got[v]) = sent[v] - early[v]
           \/ origin[v] \in {"closing", "closed", "failed"}
           \/ ~wire \/ link > 1   \* the first link dropped
=============================================================================
