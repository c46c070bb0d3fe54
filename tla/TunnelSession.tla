---------------------------- MODULE TunnelSession ----------------------------
(***************************************************************************)
(* Tunnel websockets from upgrade to close: the awaits of                  *)
(* handleTunnelSocket, the in-memory TunnelRegistry of each client plugin  *)
(* process, the tunnel rows in Postgres, expiry timers, the un-awaited     *)
(* status update of the close handler, dispose, crashes and the            *)
(* reconciliation when a process starts.                                   *)
(*                                                                         *)
(* A reconnect is a new socket of the same session.  The requests pending  *)
(* on a tunnel are the subject of ProxyStream.                             *)
(***************************************************************************)

CONSTANTS Sockets,     \* tunnel websockets, over the whole history
          Sessions,    \* CLI processes (one sessionId each)
          Servers,     \* processes that run the client plugin, one life each
          Names,       \* subdomains
          PrefixName,  \* the name a configured prefix, port and IP make
          Nobody,      \* no socket or server
          Overlap,     \* may a process start while another still runs?
          DbFails      \* can queries be rejected?

ASSUME PrefixAssumption == PrefixName \in Names
ASSUME NobodyAssumption == Nobody \notin Sockets \cup Servers
ASSUME SwitchAssumption == Overlap \in BOOLEAN /\ DbFails \in BOOLEAN

VARIABLES
  srv,      \* each process: "off", "up", "draining" and "stopping" (dispose
            \* before and after its await), "down", "unswept" (ended, the
            \* updateMany of its dispose sent and not executed)
  pc,       \* each socket's handleTunnelSocket, by the await it is in:
            \* "none", "auth", "lookup", "upsert", "upserted" (committed, not
            \* yet resumed), "attached", "rejected", "failed" (it threw, or
            \* its process ended), "orphaned" (so did this one, and its
            \* tunnel.upsert may have been sent), "belated" (executed since)
  home,     \* the process that accepted the socket
  sess,     \* its sessionId
  sub,      \* its subdomain
  ws,       \* readyState: "none", "open", "closing", "closed"
  deaf,     \* it closed before its close handler was attached
  timer,    \* its expiry timer is armed
  lapsed,   \* its expiresAt has passed
  reg,      \* registry of each process: the socket registered for a name
  row,      \* tunnel rows: status, ownerServerId, and the socket whose upsert
            \* wrote sessionId and expiresAt
  writes    \* status updates of close handlers not yet committed: the socket
            \* and the status

sockVars == <<home, sess, sub>>
vars == <<srv, pc, sockVars, ws, deaf, timer, lapsed, reg, row, writes>>

Statuses == {"none", "active", "disconnected", "expired"}
Rows == [status : Statuses, owner : Servers \cup {Nobody}, by : Sockets \cup {Nobody}]
Updates == [of : Sockets, status : {"expired", "disconnected"}]

\* A process that has ended, with or without a query of its dispose behind it.
Ended == {"down", "unswept"}

TypeOK ==
  /\ srv \in [Servers -> {"off", "up", "draining", "stopping"} \cup Ended]
  /\ pc \in [Sockets -> {"none", "auth", "lookup", "upsert", "upserted",
                         "attached", "rejected", "failed", "orphaned", "belated"}]
  /\ home \in [Sockets -> Servers \cup {Nobody}]
  /\ sess \in [Sockets -> Sessions]
  /\ sub \in [Sockets -> Names]
  /\ ws \in [Sockets -> {"none", "open", "closing", "closed"}]
  /\ deaf \in [Sockets -> BOOLEAN]
  /\ timer \in [Sockets -> BOOLEAN]
  /\ lapsed \in [Sockets -> BOOLEAN]
  /\ reg \in [Servers -> [Names -> Sockets \cup {Nobody}]]
  /\ row \in [Names -> Rows]
  /\ writes \subseteq Updates

Init ==
  /\ srv = [s \in Servers |-> "off"]
  /\ pc = [c \in Sockets |-> "none"]
  /\ home = [c \in Sockets |-> Nobody]
  /\ sess \in [Sockets -> Sessions]
  /\ sub = [c \in Sockets |-> PrefixName]
  /\ ws = [c \in Sockets |-> "none"]
  /\ deaf = [c \in Sockets |-> FALSE]
  /\ timer = [c \in Sockets |-> FALSE]
  /\ lapsed = [c \in Sockets |-> FALSE]
  /\ reg = [s \in Servers |-> [n \in Names |-> Nobody]]
  /\ row = [n \in Names |-> [status |-> "none", owner |-> Nobody, by |-> Nobody]]
  /\ writes = {}

-----------------------------------------------------------------------------
(* handleTunnelSocket, one action for each stretch between two awaits. *)

Connect(c, s) ==
  /\ pc[c] = "none" /\ srv[s] \in {"up", "draining"}
  /\ pc' = [pc EXCEPT ![c] = "auth"]
  /\ home' = [home EXCEPT ![c] = s]
  /\ ws' = [ws EXCEPT ![c] = "open"]
  /\ UNCHANGED <<srv, sess, sub, deaf, timer, lapsed, reg, row, writes>>

\* ws.close: nothing happens to a socket that is closing or closed.
CloseSocket(c) == ws' = IF ws[c] = "open" THEN [ws EXCEPT ![c] = "closing"] ELSE ws

\* Incompatible version, or a token that is not valid.
Reject(c) ==
  /\ pc[c] = "auth"
  /\ pc' = [pc EXCEPT ![c] = "rejected"]
  /\ CloseSocket(c)
  /\ UNCHANGED <<srv, sockVars, deaf, timer, lapsed, reg, row, writes>>

\* Authorised; a configured prefix names the tunnel without a look at the
\* rows, else the session's prior row is looked up.
Authorize(c) ==
  /\ pc[c] = "auth"
  /\ \/ /\ pc' = [pc EXCEPT ![c] = "upsert"]
        /\ sub' = [sub EXCEPT ![c] = PrefixName]
     \/ /\ pc' = [pc EXCEPT ![c] = "lookup"]
        /\ sub' = sub
  /\ UNCHANGED <<srv, home, sess, ws, deaf, timer, lapsed, reg, row, writes>>

\* Rows of the session that have not expired (by expiresAt, whatever their
\* status).
PriorNames(c) ==
  {n \in Names : /\ row[n].by # Nobody
                 /\ sess[row[n].by] = sess[c]
                 /\ ~lapsed[row[n].by]}

\* A random name is one no row has.
FreshNames == {n \in Names \ {PrefixName} : row[n].status = "none"}

Lookup(c) ==
  /\ pc[c] = "lookup"
  /\ pc' = [pc EXCEPT ![c] = "upsert"]
  /\ \E n \in IF PriorNames(c) # {} THEN PriorNames(c) ELSE FreshNames :
       sub' = [sub EXCEPT ![c] = n]
  /\ UNCHANGED <<srv, home, sess, ws, deaf, timer, lapsed, reg, row, writes>>

\* tunnel.upsert commits. (clientSession.upsert, awaited just before it, writes
\* a row that nothing modelled here reads.)
Upsert(c) ==
  /\ pc[c] = "upsert"
  /\ pc' = [pc EXCEPT ![c] = "upserted"]
  /\ row' = [row EXCEPT ![sub[c]] =
               [status |-> "active", owner |-> home[c], by |-> c]]
  /\ UNCHANGED <<srv, sockVars, ws, deaf, timer, lapsed, reg, writes>>

\* Faulty variant: no expiry timer.
AttachUntimed(c) ==
  /\ pc[c] = "upserted"
  /\ pc' = [pc EXCEPT ![c] = "attached"]
  /\ reg' = [reg EXCEPT ![home[c]][sub[c]] = c]
  /\ deaf' = [deaf EXCEPT ![c] = ws[c] = "closed"]
  /\ UNCHANGED <<srv, sockVars, ws, timer, lapsed, row, writes>>

\* The handler resumes: timer, registry, tunnel.ready, message and close
\* handlers. A close event that has already fired is not seen any more.
Attach(c) ==
  /\ pc[c] = "upserted"
  /\ pc' = [pc EXCEPT ![c] = "attached"]
  /\ timer' = [timer EXCEPT ![c] = TRUE]
  /\ reg' = [reg EXCEPT ![home[c]][sub[c]] = c]
  /\ deaf' = [deaf EXCEPT ![c] = ws[c] = "closed"]
  /\ UNCHANGED <<srv, sockVars, ws, lapsed, row, writes>>

\* Where a handshake that is given up ends: the database may have been sent
\* the upsert.
GivenUp(c) == IF pc[c] = "upsert" THEN "orphaned" ELSE "failed"

\* A query of the handler is rejected, or its answer is lost: nothing catches
\* it, the socket stays as it is, without handlers.
HandshakeFails(c) ==
  /\ DbFails /\ pc[c] \in {"auth", "lookup", "upsert", "upserted"}
  /\ pc' = [pc EXCEPT ![c] = GivenUp(c)]
  /\ UNCHANGED <<srv, sockVars, ws, deaf, timer, lapsed, reg, row, writes>>

\* An upsert that was sent is executed though nobody waits for it any more. It
\* need not be.
LateUpsert(c) ==
  /\ pc[c] = "orphaned"
  /\ pc' = [pc EXCEPT ![c] = "belated"]
  /\ row' = [row EXCEPT ![sub[c]] =
               [status |-> "active", owner |-> home[c], by |-> c]]
  /\ UNCHANGED <<srv, sockVars, ws, deaf, timer, lapsed, reg, writes>>

-----------------------------------------------------------------------------
(* Close, expiry and the database. *)

Registered(c) == home[c] # Nobody /\ reg[home[c]][sub[c]] = c

\* Faulty variant: a status the lifecycle does not have.
ClosedStatus(c) == "closed"

\* tunnelStatusAfterDisconnect
StatusAfterDisconnect(c) == IF lapsed[c] THEN "expired" ELSE "disconnected"

CloseUpdate(c) == [of |-> c, status |-> StatusAfterDisconnect(c)]

\* Faulty variant: the expiry timer is left armed.
OnCloseKeepsTimer(c) ==
  /\ timer' = timer
  /\ IF Registered(c)
     THEN /\ reg' = [reg EXCEPT ![home[c]][sub[c]] = Nobody]
          /\ writes' = writes \cup {CloseUpdate(c)}
     ELSE UNCHANGED <<reg, writes>>

\* Faulty variant: tears the name down whoever holds it.
OnCloseUnchecked(c) ==
  /\ timer' = [timer EXCEPT ![c] = FALSE]
  /\ reg' = [reg EXCEPT ![home[c]][sub[c]] = Nobody]
  /\ writes' = writes \cup {CloseUpdate(c)}

\* Faulty variant: the row is left as it is.
OnCloseWithoutUpdate(c) ==
  /\ timer' = [timer EXCEPT ![c] = FALSE]
  /\ reg' = IF Registered(c) THEN [reg EXCEPT ![home[c]][sub[c]] = Nobody] ELSE reg
  /\ writes' = writes

\* The close handler: only the registered socket is torn down, and the update
\* of the row by its id is not awaited.
OnClose(c) ==
  /\ timer' = [timer EXCEPT ![c] = FALSE]
  /\ IF Registered(c)
     THEN /\ reg' = [reg EXCEPT ![home[c]][sub[c]] = Nobody]
          /\ writes' = writes \cup {CloseUpdate(c)}
     ELSE UNCHANGED <<reg, writes>>

\* The socket is gone: a close frame, a broken connection, the end of the
\* closing handshake.
SocketCloses(c) ==
  /\ ws[c] \in {"open", "closing"}
  /\ ws' = [ws EXCEPT ![c] = "closed"]
  /\ IF pc[c] = "attached" THEN OnClose(c) ELSE UNCHANGED <<timer, reg, writes>>
  /\ UNCHANGED <<srv, pc, sockVars, deaf, lapsed, row>>

\* A frame that does not parse: the server closes the tunnel.
InvalidFrame(c) ==
  /\ pc[c] = "attached" /\ ws[c] = "open"
  /\ ws' = [ws EXCEPT ![c] = "closing"]
  /\ UNCHANGED <<srv, pc, sockVars, deaf, timer, lapsed, reg, row, writes>>

\* The update was sent in the close handler: it is executed even if the process
\* has ended meanwhile.
UpdateCommits(w) ==
  /\ w \in writes
  /\ writes' = writes \ {w}
  /\ row' = [row EXCEPT ![sub[w.of]].status = w.status]
  /\ UNCHANGED <<srv, pc, sockVars, ws, deaf, timer, lapsed, reg>>

\* .catch(() => undefined)
UpdateFails(w) ==
  /\ DbFails /\ w \in writes
  /\ writes' = writes \ {w}
  /\ UNCHANGED <<srv, pc, sockVars, ws, deaf, timer, lapsed, reg, row>>

\* Time passes the expiresAt of a tunnel or of a row; a handshake does not
\* last for hours.
Lapse(c) ==
  /\ pc[c] = "attached" \/ (pc[c] \in {"failed", "belated"} /\ row[sub[c]].by = c)
  /\ ~lapsed[c]
  /\ lapsed' = [lapsed EXCEPT ![c] = TRUE]
  /\ UNCHANGED <<srv, pc, sockVars, ws, deaf, timer, reg, row, writes>>

\* Faulty variant: closes whichever socket holds the name.
ExpiryTimerUnchecked(c) ==
  /\ timer[c] /\ lapsed[c]
  /\ timer' = [timer EXCEPT ![c] = FALSE]
  /\ LET d == reg[home[c]][sub[c]] IN
     IF d # Nobody THEN CloseSocket(d) ELSE ws' = ws
  /\ UNCHANGED <<srv, pc, sockVars, deaf, lapsed, reg, row, writes>>

\* The expiry timer closes its socket if that is still the registered one.
ExpiryTimer(c) ==
  /\ timer[c] /\ lapsed[c]
  /\ timer' = [timer EXCEPT ![c] = FALSE]
  /\ IF Registered(c) THEN CloseSocket(c) ELSE ws' = ws
  /\ UNCHANGED <<srv, pc, sockVars, deaf, lapsed, reg, row, writes>>

-----------------------------------------------------------------------------
(* Processes. *)

\* Faulty variant: init() only expires rows.
StartExpiresOnly(s) ==
  /\ srv[s] = "off"
  /\ Overlap \/ \A t \in Servers : srv[t] \in {"off"} \cup Ended
  /\ srv' = [srv EXCEPT ![s] = "up"]
  /\ row' = [n \in Names |->
               IF row[n].status = "active" /\ lapsed[row[n].by]
               THEN [row[n] EXCEPT !.status = "expired"] ELSE row[n]]
  /\ UNCHANGED <<pc, sockVars, ws, deaf, timer, lapsed, reg, writes>>

\* init(): expire what has expired, disconnect every other active row.
Start(s) ==
  /\ srv[s] = "off"
  /\ Overlap \/ \A t \in Servers : srv[t] \in {"off"} \cup Ended
  /\ srv' = [srv EXCEPT ![s] = "up"]
  /\ row' = [n \in Names |->
               IF row[n].status # "active" THEN row[n]
               ELSE [row[n] EXCEPT !.status =
                       IF lapsed[row[n].by] THEN "expired" ELSE "disconnected"]]
  /\ UNCHANGED <<pc, sockVars, ws, deaf, timer, lapsed, reg, writes>>

\* dispose() up to its await: timers cleared, sockets of the registry closed.
Dispose(s) ==
  LET live == {c \in Sockets : home[c] = s /\ Registered(c)} IN
  /\ srv[s] = "up"
  /\ srv' = [srv EXCEPT ![s] = "draining"]
  /\ timer' = [c \in Sockets |-> timer[c] /\ c \notin live]
  /\ ws' = [c \in Sockets |->
              IF c \in live /\ ws[c] = "open" THEN "closing" ELSE ws[c]]
  /\ UNCHANGED <<pc, sockVars, deaf, lapsed, reg, row, writes>>

\* updateMany of the process's own active rows.
Swept(s) ==
  [n \in Names |->
     IF row[n].status = "active" /\ row[n].owner = s
     THEN [row[n] EXCEPT !.status = "disconnected"] ELSE row[n]]

\* The await of dispose(); until it has ended the servers still accept
\* connections.
DisposeUpdate(s) ==
  /\ srv[s] = "draining"
  /\ srv' = [srv EXCEPT ![s] = "stopping"]
  /\ row' = Swept(s)
  /\ UNCHANGED <<pc, sockVars, ws, deaf, timer, lapsed, reg, writes>>

\* The process ends: by a crash, or after dispose. Its sockets, timers and its
\* registry are gone; rows stay, and so do the queries it has sent.
Exit(s) ==
  /\ srv[s] \in {"up", "draining", "stopping"}
  /\ srv' = [srv EXCEPT ![s] = IF srv[s] = "draining" THEN "unswept" ELSE "down"]
  /\ ws' = [c \in Sockets |-> IF home[c] = s THEN "closed" ELSE ws[c]]
  /\ pc' = [c \in Sockets |->
              IF home[c] = s /\ pc[c] \in {"auth", "lookup", "upsert", "upserted"}
              THEN GivenUp(c) ELSE pc[c]]
  /\ timer' = [c \in Sockets |-> timer[c] /\ home[c] # s]
  /\ reg' = [reg EXCEPT ![s] = [n \in Names |-> Nobody]]
  /\ UNCHANGED <<sockVars, deaf, lapsed, row, writes>>

\* The updateMany of a dispose that did not live to see it end.
LateSweep(s) ==
  /\ srv[s] = "unswept"
  /\ srv' = [srv EXCEPT ![s] = "down"]
  /\ row' = Swept(s)
  /\ UNCHANGED <<pc, sockVars, ws, deaf, timer, lapsed, reg, writes>>

-----------------------------------------------------------------------------
Handshake(c) ==
  \/ Reject(c) \/ Authorize(c) \/ Lookup(c) \/ Upsert(c) \/ Attach(c)
  \/ HandshakeFails(c) \/ LateUpsert(c)

Next ==
  \/ \E c \in Sockets, s \in Servers : Connect(c, s)
  \/ \E c \in Sockets :
       Handshake(c) \/ SocketCloses(c) \/ InvalidFrame(c) \/ Lapse(c) \/ ExpiryTimer(c)
  \/ \E w \in writes : UpdateCommits(w) \/ UpdateFails(w)
  \/ \E s \in Servers : Start(s) \/ Dispose(s) \/ DisposeUpdate(s) \/ Exit(s) \/ LateSweep(s)

Spec == Init /\ [][Next]_vars

\* Timers fire, and a closing handshake ends (ws gives up after 30 s). The
\* network and the database owe nothing.
Fairness ==
  \A c \in Sockets :
    /\ WF_vars(ExpiryTimer(c))
    /\ WF_vars(ws[c] = "closing" /\ SocketCloses(c))

FairSpec == Spec /\ Fairness

-----------------------------------------------------------------------------
(* Properties. *)

\* The registry of a process names, for a subdomain, a socket of that process
\* that has that subdomain and finished its handshake; it has not closed,
\* unless it closed before anybody listened.  A process that has ended has
\* neither registry nor timers.
RegistryCoherent ==
  /\ \A s \in Servers, n \in Names :
       LET c == reg[s][n] IN
       c # Nobody => /\ srv[s] \in {"up", "draining", "stopping"}
                     /\ home[c] = s /\ sub[c] = n /\ pc[c] = "attached"
                     /\ ws[c] # "closed" \/ deaf[c]
  /\ \A c \in Sockets : timer[c] => /\ pc[c] = "attached"
                                    /\ ws[c] # "closed" \/ deaf[c]

\* A name leaves the registry only because its own socket closed or the
\* process ended: the late close or expiry of a socket that a reconnect has
\* replaced never takes its successor down.
OnlyOwnCloseUnregisters ==
  [][\A s \in Servers, n \in Names :
       reg[s][n] # Nobody /\ reg'[s][n] = Nobody =>
         ws'[reg[s][n]] = "closed" \/ srv'[s] \in Ended]_vars

\* No process closes the socket that serves a name because another socket's
\* time is up: only a lapsed tunnel, a rejected one, one that sent an invalid
\* frame or one of a process that is being disposed of is closed by the server.
ServerClosesOnlyLapsed ==
  [][\A c \in Sockets :
       ws[c] = "open" /\ ws'[c] = "closing" =>
         \/ pc'[c] = "rejected"
         \/ lapsed[c] /\ Registered(c)
         \/ InvalidFrame(c)
         \/ srv'[home[c]] = "draining"]_vars

\* A tunnel past its expiresAt does not stay registered, if its close handler
\* was attached in time.
LapsedUnregisters ==
  \A c \in Sockets :
    Registered(c) /\ lapsed[c] /\ ~deaf[c] ~> ~Registered(c)

\* One process at a time and no failing query: a row that says a running
\* process has an active tunnel names, with the socket that wrote it, the one
\* that holds the name or is about to.  Else an update by that process is on its
\* way, or that socket registered and was displaced: by one whose upsert came
\* first and whose handler resumed last.
ActiveRowIsHeld ==
  \A n \in Names :
    row[n].status = "active" /\ srv[row[n].owner] = "up" =>
      LET c == row[n].by
          held == reg[row[n].owner][n] IN
      \/ held = c \/ pc[c] = "upserted"
      \/ pc[c] = "attached" /\ held # Nobody
      \/ \E w \in writes : sub[w.of] = n /\ home[w.of] = row[n].owner

\* One process at a time: while it is up, no row is active for a process that
\* has ended, however that one ended; the exception is a row that an upsert
\* executed after its handshake was given up, which no reconciliation sees if
\* it comes last.
ActiveRowOwnerRuns ==
  \A n \in Names, s \in Servers :
    row[n].status = "active" /\ srv[s] = "up" =>
      row[n].owner = s \/ pc[row[n].by] = "belated"

\* SPEC.md: "active -> disconnected" and "force disconnect and session
\* cleanup": once its socket has closed, a tunnel's row is not left active.
ClosedIsNotActive ==
  \A c \in Sockets :
    pc[c] = "attached" /\ ws[c] = "closed" /\ srv[home[c]] = "up" /\ row[sub[c]].by = c
        /\ row[sub[c]].status = "active" =>
      \E w \in writes : sub[w.of] = sub[c]

\* Comment in the close handler: "A reconnect may already own this subdomain;
\* only tear down if this socket is still the registered one." So a registered
\* tunnel whose socket is open keeps an active row once nothing is in flight.
RegisteredIsActive ==
  \A c \in Sockets :
    Registered(c) /\ ws[c] = "open" /\ ~lapsed[c] /\ srv[home[c]] = "up"
        /\ writes = {}
        /\ (\A d \in Sockets :
              pc[d] \notin {"auth", "lookup", "upsert", "upserted", "orphaned"}) =>
      row[sub[c]].status = "active"
=============================================================================
