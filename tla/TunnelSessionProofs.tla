------------------------ MODULE TunnelSessionProofs ------------------------
(***************************************************************************)
(* Proofs about TunnelSession: types, the registry, who may close a socket *)
(* and what may remove a name from the registry.                           *)
(***************************************************************************)
EXTENDS TunnelSession, TLAPS

Running == {"up", "draining", "stopping"}

\* A socket has a process from its upgrade on; the process of a handshake that
\* goes on has not ended.
Homes ==
  \A c \in Sockets :
    /\ pc[c] = "none" => ws[c] = "none" /\ home[c] = Nobody
    /\ pc[c] # "none" => home[c] \in Servers
    /\ pc[c] \in {"auth", "lookup", "upsert", "upserted"} => srv[home[c]] \in Running

\* RegistryCoherent, in two parts.
Registry ==
  \A s \in Servers, n \in Names : reg[s][n] # Nobody =>
    /\ srv[s] \in Running
    /\ home[reg[s][n]] = s /\ sub[reg[s][n]] = n /\ pc[reg[s][n]] = "attached"
    /\ ws[reg[s][n]] # "closed" \/ deaf[reg[s][n]]
Timers ==
  \A c \in Sockets : timer[c] => pc[c] = "attached" /\ (ws[c] # "closed" \/ deaf[c])

IInv == TypeOK /\ Homes /\ Registry /\ Timers

-----------------------------------------------------------------------------
LEMMA RegType ==
  ASSUME TypeOK, NEW s \in Servers, NEW n \in Names, NEW v \in Sockets \cup {Nobody},
         reg' = [reg EXCEPT ![s][n] = v]
  PROVE  /\ reg' \in [Servers -> [Names -> Sockets \cup {Nobody}]]
         /\ \A t \in Servers, m \in Names :
              reg'[t][m] = IF t = s /\ m = n THEN v ELSE reg[t][m]
<1>1. reg \in [Servers -> [Names -> Sockets \cup {Nobody}]]
  BY DEF TypeOK
<1>2. reg' = [reg EXCEPT ![s] = [reg[s] EXCEPT ![n] = v]]
  OBVIOUS
<1>3. reg[s] \in [Names -> Sockets \cup {Nobody}]
  BY <1>1
<1>4. [reg[s] EXCEPT ![n] = v] \in [Names -> Sockets \cup {Nobody}]
  BY <1>3
<1>5. reg'[s] = [reg[s] EXCEPT ![n] = v] /\ \A t \in Servers \ {s} : reg'[t] = reg[t]
  BY <1>1, <1>2
<1>6. reg' \in [Servers -> [Names -> Sockets \cup {Nobody}]]
  BY <1>1, <1>2, <1>4
<1> QED BY <1>3, <1>5, <1>6

LEMMA RegCleared ==
  ASSUME TypeOK, NEW s \in Servers, NEW n \in Names, reg' = [reg EXCEPT ![s][n] = Nobody]
  PROVE  \A t \in Servers, m \in Names :
           reg'[t][m] = IF t = s /\ m = n THEN Nobody ELSE reg[t][m]
<1>1. Nobody \in Sockets \cup {Nobody}
  OBVIOUS
<1> QED BY <1>1, RegType

LEMMA RowType ==
  ASSUME TypeOK, NEW n \in Names, NEW r \in Rows, row' = [row EXCEPT ![n] = r]
  PROVE  row' \in [Names -> Rows]
BY DEF TypeOK

LEMMA StatusType ==
  ASSUME NEW r \in Rows, NEW x \in Statuses
  PROVE  [r EXCEPT !.status = x] \in Rows
BY DEF Rows

LEMMA SweptType ==
  ASSUME TypeOK, NEW s \in Servers
  PROVE  Swept(s) \in [Names -> Rows]
<1>1. \A n \in Names : row[n] \in Rows /\ [row[n] EXCEPT !.status = "disconnected"] \in Rows
  BY StatusType DEF TypeOK, Statuses
<1> QED BY <1>1 DEF Swept

LEMMA SocketHome ==
  ASSUME TypeOK, NEW c \in Sockets, home[c] # Nobody
  PROVE  home[c] \in Servers /\ sub[c] \in Names
BY DEF TypeOK

\* What the close handler does to the registry.
LEMMA CloseType ==
  ASSUME TypeOK, NEW c \in Sockets, OnClose(c)
  PROVE  /\ timer' \in [Sockets -> BOOLEAN]
         /\ reg' \in [Servers -> [Names -> Sockets \cup {Nobody}]]
         /\ writes' \subseteq Updates
<1>1. timer' \in [Sockets -> BOOLEAN]
  BY DEF OnClose, TypeOK
<1>2. CASE Registered(c)
  <2>1. home[c] \in Servers /\ sub[c] \in Names
    BY <1>2, SocketHome DEF Registered
  <2>2. reg' \in [Servers -> [Names -> Sockets \cup {Nobody}]]
    BY <1>2, <2>1, RegType DEF OnClose
  <2>3. CloseUpdate(c) \in Updates
    BY DEF CloseUpdate, Updates, StatusAfterDisconnect
  <2> QED BY <1>1, <1>2, <2>2, <2>3 DEF OnClose, TypeOK
<1>3. CASE ~Registered(c)
  BY <1>1, <1>3 DEF OnClose, TypeOK
<1> QED BY <1>2, <1>3

LEMMA TypeInit == Init => TypeOK
<1> SUFFICES ASSUME Init PROVE TypeOK
  OBVIOUS
<1>1. [status |-> "none", owner |-> Nobody, by |-> Nobody] \in Rows
  BY DEF Rows, Statuses
<1> QED BY <1>1, PrefixAssumption DEF Init, TypeOK

LEMMA TypeStep == TypeOK /\ Homes /\ [Next]_vars => TypeOK'
<1> SUFFICES ASSUME TypeOK, Homes, [Next]_vars PROVE TypeOK'
  OBVIOUS
<1>1. CASE UNCHANGED vars
  BY <1>1 DEF TypeOK, CloseSocket, sockVars, vars
<1>2. ASSUME NEW c \in Sockets, NEW s \in Servers, Connect(c, s) PROVE TypeOK'
  BY <1>2 DEF TypeOK, CloseSocket, sockVars, Connect
<1>3. ASSUME NEW c \in Sockets, Reject(c) PROVE TypeOK'
  BY <1>3 DEF TypeOK, CloseSocket, sockVars, Reject
<1>4. ASSUME NEW c \in Sockets, Authorize(c) PROVE TypeOK'
  <2>1. sub' \in [Sockets -> Names]
    BY <1>4, PrefixAssumption DEF Authorize, TypeOK
  <2>2. pc' \in [Sockets -> {"none", "auth", "lookup", "upsert", "upserted",
                           "attached", "rejected", "failed", "orphaned", "belated"}]
    BY <1>4 DEF Authorize, TypeOK
  <2> QED BY <1>4, <2>1, <2>2 DEF Authorize, TypeOK
<1>5. ASSUME NEW c \in Sockets, Lookup(c) PROVE TypeOK'
  <2>1. PICK n \in Names : sub' = [sub EXCEPT ![c] = n]
    BY <1>5 DEF Lookup, PriorNames, FreshNames
  <2> QED BY <1>5, <2>1 DEF Lookup, TypeOK
<1>6. ASSUME NEW c \in Sockets, Upsert(c) PROVE TypeOK'
  <2>1. sub[c] \in Names /\ [status |-> "active", owner |-> home[c], by |-> c] \in Rows
    BY DEF TypeOK, Rows, Statuses
  <2>2. row' \in [Names -> Rows]
    BY <1>6, <2>1, RowType DEF Upsert
  <2> QED BY <1>6, <2>2 DEF Upsert, TypeOK, sockVars
<1>7. ASSUME NEW c \in Sockets, Attach(c) PROVE TypeOK'
  <2>1. home[c] \in Servers /\ sub[c] \in Names
    BY <1>7 DEF Attach, Homes, TypeOK
  <2>2. reg' \in [Servers -> [Names -> Sockets \cup {Nobody}]]
    BY <1>7, <2>1, RegType DEF Attach
  <2> QED BY <1>7, <2>2 DEF Attach, TypeOK, sockVars
<1>8. ASSUME NEW c \in Sockets, HandshakeFails(c) PROVE TypeOK'
  BY <1>8 DEF TypeOK, CloseSocket, sockVars, HandshakeFails, GivenUp
<1>9. ASSUME NEW c \in Sockets, SocketCloses(c) PROVE TypeOK'
  <2>1. /\ timer' \in [Sockets -> BOOLEAN]
        /\ reg' \in [Servers -> [Names -> Sockets \cup {Nobody}]]
        /\ writes' \subseteq Updates
    BY <1>9, CloseType DEF SocketCloses, TypeOK
  <2> QED BY <1>9, <2>1 DEF SocketCloses, TypeOK, sockVars
<1>10. ASSUME NEW c \in Sockets, Lapse(c) PROVE TypeOK'
  BY <1>10 DEF TypeOK, CloseSocket, sockVars, Lapse
<1>11. ASSUME NEW c \in Sockets, ExpiryTimer(c) PROVE TypeOK'
  BY <1>11 DEF TypeOK, CloseSocket, sockVars, ExpiryTimer
<1>12. ASSUME NEW w \in writes, UpdateCommits(w) PROVE TypeOK'
  <2>1. sub[w.of] \in Names /\ w.status \in Statuses
    BY DEF TypeOK, Updates, Statuses
  <2>2. [row[sub[w.of]] EXCEPT !.status = w.status] \in Rows
    BY <2>1, StatusType DEF TypeOK
  <2>3. row' \in [Names -> Rows]
    BY <1>12, <2>1, <2>2, RowType DEF UpdateCommits
  <2> QED BY <1>12, <2>3 DEF UpdateCommits, TypeOK, sockVars
<1>13. ASSUME NEW w \in writes, UpdateFails(w) PROVE TypeOK'
  BY <1>13 DEF TypeOK, CloseSocket, sockVars, UpdateFails
<1>14. ASSUME NEW s \in Servers, Start(s) PROVE TypeOK'
  <2>1. \A n \in Names, x \in Statuses : row[n] \in Rows /\ [row[n] EXCEPT !.status = x] \in Rows
    BY StatusType DEF TypeOK
  <2>2. row' \in [Names -> Rows]
    BY <1>14, <2>1 DEF Start, Statuses
  <2> QED BY <1>14, <2>2 DEF Start, TypeOK, sockVars
<1>15. ASSUME NEW s \in Servers, Dispose(s) PROVE TypeOK'
  BY <1>15 DEF TypeOK, CloseSocket, sockVars, Dispose
<1>16. ASSUME NEW s \in Servers, DisposeUpdate(s) PROVE TypeOK'
  BY <1>16, SweptType DEF DisposeUpdate, TypeOK, sockVars
<1>17. ASSUME NEW s \in Servers, Exit(s) PROVE TypeOK'
  <2>1. reg' \in [Servers -> [Names -> Sockets \cup {Nobody}]]
    <3>1. [n \in Names |-> Nobody] \in [Names -> Sockets \cup {Nobody}]
      OBVIOUS
    <3> QED BY <1>17, <3>1 DEF Exit, TypeOK
  <2> QED BY <1>17, <2>1 DEF Exit, GivenUp, Ended, TypeOK, sockVars
<1>18. ASSUME NEW c \in Sockets, LateUpsert(c) PROVE TypeOK'
  <2>1. sub[c] \in Names /\ [status |-> "active", owner |-> home[c], by |-> c] \in Rows
    BY DEF TypeOK, Rows, Statuses
  <2>2. row' \in [Names -> Rows]
    BY <1>18, <2>1, RowType DEF LateUpsert
  <2> QED BY <1>18, <2>2 DEF LateUpsert, TypeOK, sockVars
<1>19. ASSUME NEW c \in Sockets, InvalidFrame(c) PROVE TypeOK'
  BY <1>19 DEF TypeOK, CloseSocket, sockVars, InvalidFrame
<1>20. ASSUME NEW s \in Servers, LateSweep(s) PROVE TypeOK'
  BY <1>20, SweptType DEF LateSweep, TypeOK, Ended, sockVars
<1> QED BY <1>1, <1>2, <1>3, <1>4, <1>5, <1>6, <1>7, <1>8, <1>9, <1>10, <1>11, <1>12, <1>13,
           <1>14, <1>15, <1>16, <1>17, <1>18, <1>19, <1>20 DEF Next, Handshake

LEMMA HomesStep == TypeOK /\ Homes /\ [Next]_vars => Homes'
<1> SUFFICES ASSUME TypeOK, Homes, [Next]_vars PROVE Homes'
  OBVIOUS
<1>1. CASE UNCHANGED vars
  BY <1>1, NobodyAssumption DEF TypeOK, Homes, Running, CloseSocket, sockVars, vars
<1>2. ASSUME NEW c \in Sockets, NEW s \in Servers, Connect(c, s) PROVE Homes'
  BY <1>2, NobodyAssumption DEF TypeOK, Homes, Running, CloseSocket, sockVars, Connect
<1>3. ASSUME NEW c \in Sockets, Reject(c) PROVE Homes'
  BY <1>3, NobodyAssumption DEF TypeOK, Homes, Running, CloseSocket, sockVars, Reject
<1>4. ASSUME NEW c \in Sockets, Authorize(c) PROVE Homes'
  BY <1>4, NobodyAssumption DEF TypeOK, Homes, Running, CloseSocket, sockVars, Authorize
<1>5. ASSUME NEW c \in Sockets, Lookup(c) PROVE Homes'
  BY <1>5, NobodyAssumption DEF TypeOK, Homes, Running, CloseSocket, sockVars, Lookup
<1>6. ASSUME NEW c \in Sockets, Upsert(c) PROVE Homes'
  BY <1>6, NobodyAssumption DEF TypeOK, Homes, Running, CloseSocket, sockVars, Upsert
<1>7. ASSUME NEW c \in Sockets, Attach(c) PROVE Homes'
  BY <1>7, NobodyAssumption DEF TypeOK, Homes, Running, CloseSocket, sockVars, Attach
<1>8. ASSUME NEW c \in Sockets, HandshakeFails(c) PROVE Homes'
  BY <1>8, NobodyAssumption DEF TypeOK, Homes, Running, CloseSocket, sockVars, HandshakeFails, GivenUp
<1>9. ASSUME NEW c \in Sockets, SocketCloses(c) PROVE Homes'
  BY <1>9, NobodyAssumption DEF TypeOK, Homes, Running, CloseSocket, sockVars, SocketCloses
<1>10. ASSUME NEW c \in Sockets, Lapse(c) PROVE Homes'
  BY <1>10, NobodyAssumption DEF TypeOK, Homes, Running, CloseSocket, sockVars, Lapse
<1>11. ASSUME NEW c \in Sockets, ExpiryTimer(c) PROVE Homes'
  BY <1>11, NobodyAssumption DEF TypeOK, Homes, Running, CloseSocket, sockVars, ExpiryTimer
<1>12. ASSUME NEW w \in writes, UpdateCommits(w) PROVE Homes'
  BY <1>12, NobodyAssumption DEF TypeOK, Homes, Running, CloseSocket, sockVars, UpdateCommits
<1>13. ASSUME NEW w \in writes, UpdateFails(w) PROVE Homes'
  BY <1>13, NobodyAssumption DEF TypeOK, Homes, Running, CloseSocket, sockVars, UpdateFails
<1>14. ASSUME NEW s \in Servers, Start(s) PROVE Homes'
  BY <1>14, NobodyAssumption DEF TypeOK, Homes, Running, CloseSocket, sockVars, Start
<1>15. ASSUME NEW s \in Servers, Dispose(s) PROVE Homes'
  BY <1>15, NobodyAssumption DEF TypeOK, Homes, Running, CloseSocket, sockVars, Dispose
<1>16. ASSUME NEW s \in Servers, DisposeUpdate(s) PROVE Homes'
  BY <1>16, NobodyAssumption DEF TypeOK, Homes, Running, CloseSocket, sockVars, DisposeUpdate
<1>17. ASSUME NEW s \in Servers, Exit(s) PROVE Homes'
  BY <1>17, NobodyAssumption DEF TypeOK, Homes, Running, CloseSocket, sockVars, Exit, GivenUp, Ended
<1>18. ASSUME NEW c \in Sockets, LateUpsert(c) PROVE Homes'
  BY <1>18, NobodyAssumption DEF TypeOK, Homes, Running, CloseSocket, sockVars, LateUpsert
<1>19. ASSUME NEW c \in Sockets, InvalidFrame(c) PROVE Homes'
  BY <1>19, NobodyAssumption DEF TypeOK, Homes, Running, CloseSocket, sockVars, InvalidFrame
<1>20. ASSUME NEW s \in Servers, LateSweep(s) PROVE Homes'
  BY <1>20, NobodyAssumption DEF TypeOK, Homes, Running, CloseSocket, sockVars, LateSweep
<1> QED BY <1>1, <1>2, <1>3, <1>4, <1>5, <1>6, <1>7, <1>8, <1>9, <1>10, <1>11, <1>12, <1>13,
           <1>14, <1>15, <1>16, <1>17, <1>18, <1>19, <1>20 DEF Next, Handshake

LEMMA RegistryStep == TypeOK /\ Homes /\ Registry /\ [Next]_vars => Registry'
<1> SUFFICES ASSUME TypeOK, Homes, Registry, [Next]_vars PROVE Registry'
  OBVIOUS
<1>1. CASE UNCHANGED vars
  BY <1>1 DEF TypeOK, Homes, Registry, Running, CloseSocket, sockVars, vars
<1>2. ASSUME NEW c \in Sockets, NEW s \in Servers, Connect(c, s) PROVE Registry'
  <2>1. \A t \in Servers, m \in Names : reg[t][m] # Nobody => reg[t][m] \in Sockets \ {c}
    BY <1>2 DEF Connect, TypeOK, Registry
  <2> QED BY <1>2, <2>1 DEF Connect, TypeOK, Registry
<1>3. ASSUME NEW c \in Sockets, Reject(c) PROVE Registry'
  <2>1. \A t \in Servers, m \in Names : reg[t][m] # Nobody => reg[t][m] \in Sockets \ {c}
    BY <1>3 DEF Reject, TypeOK, Registry
  <2> QED BY <1>3, <2>1 DEF Reject, TypeOK, Registry, CloseSocket, sockVars
<1>4. ASSUME NEW c \in Sockets, Authorize(c) PROVE Registry'
  <2>1. \A t \in Servers, m \in Names : reg[t][m] # Nobody => reg[t][m] \in Sockets \ {c}
    BY <1>4 DEF Authorize, TypeOK, Registry
  <2> QED BY <1>4, <2>1 DEF Authorize, TypeOK, Registry, CloseSocket, sockVars
<1>5. ASSUME NEW c \in Sockets, Lookup(c) PROVE Registry'
  <2>1. \A t \in Servers, m \in Names : reg[t][m] # Nobody => reg[t][m] \in Sockets \ {c}
    BY <1>5 DEF Lookup, TypeOK, Registry
  <2> QED BY <1>5, <2>1 DEF Lookup, TypeOK, Registry, CloseSocket, sockVars
<1>6. ASSUME NEW c \in Sockets, Upsert(c) PROVE Registry'
  <2>1. \A t \in Servers, m \in Names : reg[t][m] # Nobody => reg[t][m] \in Sockets \ {c}
    BY <1>6 DEF Upsert, TypeOK, Registry
  <2> QED BY <1>6, <2>1 DEF Upsert, TypeOK, Registry, CloseSocket, sockVars
<1>7. ASSUME NEW c \in Sockets, Attach(c) PROVE Registry'
  <2>1. home[c] \in Servers /\ sub[c] \in Names /\ srv[home[c]] \in Running
    BY <1>7 DEF Attach, Homes, TypeOK
  <2>2. \A t \in Servers, m \in Names :
          reg'[t][m] = IF t = home[c] /\ m = sub[c] THEN c ELSE reg[t][m]
    BY <1>7, <2>1, RegType DEF Attach
  <2> SUFFICES ASSUME NEW t \in Servers, NEW m \in Names, reg'[t][m] # Nobody
               PROVE  /\ srv'[t] \in Running
                      /\ home'[reg'[t][m]] = t /\ sub'[reg'[t][m]] = m /\ pc'[reg'[t][m]] = "attached"
                      /\ ws'[reg'[t][m]] # "closed" \/ deaf'[reg'[t][m]]
    BY DEF Registry
  <2>3. CASE t = home[c] /\ m = sub[c]
    <3>1. reg'[t][m] = c
      BY <2>2, <2>3
    <3>2. UNCHANGED <<srv, home, sub, ws>>
      BY <1>7 DEF Attach, sockVars
    <3>3. pc'[c] = "attached" /\ deaf'[c] = (ws[c] = "closed")
      BY <1>7 DEF Attach, TypeOK
    <3> QED BY <2>1, <2>3, <3>1, <3>2, <3>3
  <2>4. CASE ~(t = home[c] /\ m = sub[c])
    <3>1. reg'[t][m] = reg[t][m] /\ reg[t][m] \in Sockets /\ reg[t][m] # c
      BY <1>7, <2>2, <2>4 DEF Attach, TypeOK, Registry
    <3> QED BY <1>7, <3>1 DEF Attach, TypeOK, Registry, sockVars
  <2> QED BY <2>3, <2>4
<1>8. ASSUME NEW c \in Sockets, HandshakeFails(c) PROVE Registry'
  <2>1. \A t \in Servers, m \in Names : reg[t][m] # Nobody => reg[t][m] \in Sockets \ {c}
    BY <1>8 DEF HandshakeFails, TypeOK, Registry
  <2> QED BY <1>8, <2>1 DEF HandshakeFails, GivenUp, TypeOK, Registry, CloseSocket, sockVars
<1>9. ASSUME NEW c \in Sockets, SocketCloses(c) PROVE Registry'
  <2> SUFFICES ASSUME NEW t \in Servers, NEW m \in Names, reg'[t][m] # Nobody
               PROVE  /\ srv'[t] \in Running
                      /\ home'[reg'[t][m]] = t /\ sub'[reg'[t][m]] = m /\ pc'[reg'[t][m]] = "attached"
                      /\ ws'[reg'[t][m]] # "closed" \/ deaf'[reg'[t][m]]
    BY DEF Registry
  <2>1. reg'[t][m] = reg[t][m] /\ reg[t][m] # c
    <3>1. CASE pc[c] = "attached" /\ Registered(c)
      <4>1. home[c] \in Servers /\ sub[c] \in Names
        BY <3>1, SocketHome DEF Registered
      <4>5. reg' = [reg EXCEPT ![home[c]][sub[c]] = Nobody]
        BY <1>9, <3>1 DEF SocketCloses, OnClose
      <4>6. \A x \in Servers, y \in Names :
              reg'[x][y] = IF x = home[c] /\ y = sub[c] THEN Nobody ELSE reg[x][y]
        BY <4>1, <4>5, RegCleared
      <4>2. reg'[t][m] = IF t = home[c] /\ m = sub[c] THEN Nobody ELSE reg[t][m]
        BY <4>6
      <4>3. ~(t = home[c] /\ m = sub[c]) /\ reg'[t][m] = reg[t][m]
        BY <4>2
      <4>4. reg[t][m] # Nobody => home[reg[t][m]] = t /\ sub[reg[t][m]] = m
        BY DEF Registry
      <4> QED BY <4>3, <4>4
    <3>2. CASE pc[c] = "attached" /\ ~Registered(c)
      <4>1. reg' = reg
        BY <1>9, <3>2 DEF SocketCloses, OnClose
      <4>2. reg[t][m] # c
        BY <3>2, <4>1, NobodyAssumption DEF Registered, Registry
      <4> QED BY <4>1, <4>2
    <3>3. CASE pc[c] # "attached"
      BY <1>9, <3>3 DEF SocketCloses, Registry
    <3> QED BY <3>1, <3>2, <3>3
  <2>2. reg[t][m] \in Sockets
    BY <2>1 DEF TypeOK
  <2> QED BY <1>9, <2>1, <2>2 DEF SocketCloses, Registry, TypeOK, sockVars
<1>10. ASSUME NEW c \in Sockets, Lapse(c) PROVE Registry'
  BY <1>10 DEF TypeOK, Homes, Registry, Running, CloseSocket, sockVars, Lapse
<1>11. ASSUME NEW c \in Sockets, ExpiryTimer(c) PROVE Registry'
  BY <1>11 DEF TypeOK, Homes, Registry, Running, CloseSocket, sockVars, ExpiryTimer
<1>12. ASSUME NEW w \in writes, UpdateCommits(w) PROVE Registry'
  BY <1>12 DEF TypeOK, Homes, Registry, Running, CloseSocket, sockVars, UpdateCommits
<1>13. ASSUME NEW w \in writes, UpdateFails(w) PROVE Registry'
  BY <1>13 DEF TypeOK, Homes, Registry, Running, CloseSocket, sockVars, UpdateFails
<1>14. ASSUME NEW s \in Servers, Start(s) PROVE Registry'
  BY <1>14 DEF TypeOK, Homes, Registry, Running, CloseSocket, sockVars, Start
<1>15. ASSUME NEW s \in Servers, Dispose(s) PROVE Registry'
  BY <1>15 DEF TypeOK, Homes, Registry, Running, CloseSocket, sockVars, Dispose
<1>16. ASSUME NEW s \in Servers, DisposeUpdate(s) PROVE Registry'
  BY <1>16 DEF TypeOK, Homes, Registry, Running, CloseSocket, sockVars, DisposeUpdate
<1>17. ASSUME NEW s \in Servers, Exit(s) PROVE Registry'
  <2> SUFFICES ASSUME NEW t \in Servers, NEW m \in Names, reg'[t][m] # Nobody
               PROVE  /\ srv'[t] \in Running
                      /\ home'[reg'[t][m]] = t /\ sub'[reg'[t][m]] = m /\ pc'[reg'[t][m]] = "attached"
                      /\ ws'[reg'[t][m]] # "closed" \/ deaf'[reg'[t][m]]
    BY DEF Registry
  <2>1. t # s /\ reg'[t][m] = reg[t][m]
    BY <1>17 DEF Exit, TypeOK
  <2>2. reg[t][m] \in Sockets /\ home[reg[t][m]] = t
    BY <2>1 DEF TypeOK, Registry
  <2> QED BY <1>17, <2>1, <2>2 DEF Exit, GivenUp, Registry, TypeOK, sockVars
<1>18. ASSUME NEW c \in Sockets, LateUpsert(c) PROVE Registry'
  <2>1. \A t \in Servers, m \in Names : reg[t][m] # Nobody => reg[t][m] \in Sockets \ {c}
    BY <1>18 DEF LateUpsert, TypeOK, Registry
  <2> QED BY <1>18, <2>1 DEF LateUpsert, TypeOK, Registry, sockVars
<1>19. ASSUME NEW c \in Sockets, InvalidFrame(c) PROVE Registry'
  BY <1>19 DEF TypeOK, Homes, Registry, Running, CloseSocket, sockVars, InvalidFrame
<1>20. ASSUME NEW s \in Servers, LateSweep(s) PROVE Registry'
  BY <1>20 DEF TypeOK, Homes, Registry, Running, CloseSocket, sockVars, LateSweep
<1> QED BY <1>1, <1>2, <1>3, <1>4, <1>5, <1>6, <1>7, <1>8, <1>9, <1>10, <1>11, <1>12, <1>13,
           <1>14, <1>15, <1>16, <1>17, <1>18, <1>19, <1>20 DEF Next, Handshake

LEMMA TimersStep == TypeOK /\ Homes /\ Timers /\ [Next]_vars => Timers'
<1> SUFFICES ASSUME TypeOK, Homes, Timers, [Next]_vars PROVE Timers'
  OBVIOUS
<1>1. CASE UNCHANGED vars
  BY <1>1 DEF TypeOK, Homes, Timers, CloseSocket, sockVars, vars
<1>2. ASSUME NEW c \in Sockets, NEW s \in Servers, Connect(c, s) PROVE Timers'
  BY <1>2 DEF TypeOK, Homes, Timers, CloseSocket, sockVars, Connect
<1>3. ASSUME NEW c \in Sockets, Reject(c) PROVE Timers'
  BY <1>3 DEF TypeOK, Homes, Timers, CloseSocket, sockVars, Reject
<1>4. ASSUME NEW c \in Sockets, Authorize(c) PROVE Timers'
  BY <1>4 DEF TypeOK, Homes, Timers, CloseSocket, sockVars, Authorize
<1>5. ASSUME NEW c \in Sockets, Lookup(c) PROVE Timers'
  BY <1>5 DEF TypeOK, Homes, Timers, CloseSocket, sockVars, Lookup
<1>6. ASSUME NEW c \in Sockets, Upsert(c) PROVE Timers'
  BY <1>6 DEF TypeOK, Homes, Timers, CloseSocket, sockVars, Upsert
<1>7. ASSUME NEW c \in Sockets, Attach(c) PROVE Timers'
  BY <1>7 DEF TypeOK, Homes, Timers, CloseSocket, sockVars, Attach
<1>8. ASSUME NEW c \in Sockets, HandshakeFails(c) PROVE Timers'
  BY <1>8 DEF TypeOK, Homes, Timers, CloseSocket, sockVars, HandshakeFails, GivenUp
<1>9. ASSUME NEW c \in Sockets, SocketCloses(c) PROVE Timers'
  <2>1. CASE pc[c] = "attached"
    BY <1>9, <2>1 DEF SocketCloses, OnClose, Timers, TypeOK
  <2>2. CASE pc[c] # "attached"
    BY <1>9, <2>2 DEF SocketCloses, Timers, TypeOK
  <2> QED BY <2>1, <2>2
<1>10. ASSUME NEW c \in Sockets, Lapse(c) PROVE Timers'
  BY <1>10 DEF TypeOK, Homes, Timers, CloseSocket, sockVars, Lapse
<1>11. ASSUME NEW c \in Sockets, ExpiryTimer(c) PROVE Timers'
  BY <1>11 DEF TypeOK, Homes, Timers, CloseSocket, sockVars, ExpiryTimer
<1>12. ASSUME NEW w \in writes, UpdateCommits(w) PROVE Timers'
  BY <1>12 DEF TypeOK, Homes, Timers, CloseSocket, sockVars, UpdateCommits
<1>13. ASSUME NEW w \in writes, UpdateFails(w) PROVE Timers'
  BY <1>13 DEF TypeOK, Homes, Timers, CloseSocket, sockVars, UpdateFails
<1>14. ASSUME NEW s \in Servers, Start(s) PROVE Timers'
  BY <1>14 DEF TypeOK, Homes, Timers, CloseSocket, sockVars, Start
<1>15. ASSUME NEW s \in Servers, Dispose(s) PROVE Timers'
  BY <1>15 DEF TypeOK, Homes, Timers, CloseSocket, sockVars, Dispose
<1>16. ASSUME NEW s \in Servers, DisposeUpdate(s) PROVE Timers'
  BY <1>16 DEF TypeOK, Homes, Timers, CloseSocket, sockVars, DisposeUpdate
<1>17. ASSUME NEW s \in Servers, Exit(s) PROVE Timers'
  BY <1>17 DEF TypeOK, Homes, Timers, CloseSocket, sockVars, Exit, GivenUp, Ended
<1>18. ASSUME NEW c \in Sockets, LateUpsert(c) PROVE Timers'
  BY <1>18 DEF TypeOK, Homes, Timers, CloseSocket, sockVars, LateUpsert
<1>19. ASSUME NEW c \in Sockets, InvalidFrame(c) PROVE Timers'
  BY <1>19 DEF TypeOK, Homes, Timers, CloseSocket, sockVars, InvalidFrame
<1>20. ASSUME NEW s \in Servers, LateSweep(s) PROVE Timers'
  BY <1>20 DEF TypeOK, Homes, Timers, CloseSocket, sockVars, LateSweep
<1> QED BY <1>1, <1>2, <1>3, <1>4, <1>5, <1>6, <1>7, <1>8, <1>9, <1>10, <1>11, <1>12, <1>13,
           <1>14, <1>15, <1>16, <1>17, <1>18, <1>19, <1>20 DEF Next, Handshake

LEMMA Invariant == Spec => []IInv
<1>1. Init => IInv
  <2> SUFFICES ASSUME Init PROVE IInv
    OBVIOUS
  <2>1. TypeOK
    BY TypeInit
  <2>2. Homes
    BY DEF Init, Homes
  <2>3. Registry /\ Timers
    BY DEF Init, Registry, Timers
  <2> QED BY <2>1, <2>2, <2>3 DEF IInv
<1>2. IInv /\ [Next]_vars => IInv'
  BY TypeStep, HomesStep, RegistryStep, TimersStep DEF IInv
<1> QED BY <1>1, <1>2, PTL DEF Spec

\* Every variable keeps its type.
THEOREM TypeCorrect == Spec => []TypeOK
<1>1. IInv => TypeOK
  BY DEF IInv
<1> QED BY <1>1, Invariant, PTL

\* The registries name only sockets of their process that hold the name, for
\* any number of sockets, sessions, processes and names, with processes that
\* overlap and queries that fail.
THEOREM RegistryIsCoherent == Spec => []RegistryCoherent
<1>1. IInv => RegistryCoherent
  <2> SUFFICES ASSUME IInv PROVE RegistryCoherent
    OBVIOUS
  <2>1. Registry /\ Timers
    BY DEF IInv
  <2> QED BY <2>1 DEF Registry, Timers, Running, RegistryCoherent
<1> QED BY <1>1, Invariant, PTL

-----------------------------------------------------------------------------
Unregistering ==
  \A s \in Servers, n \in Names :
    reg[s][n] # Nobody /\ reg'[s][n] = Nobody =>
      ws'[reg[s][n]] = "closed" \/ srv'[s] \in Ended

Closing ==
  \A c \in Sockets :
    ws[c] = "open" /\ ws'[c] = "closing" =>
      \/ pc'[c] = "rejected"
      \/ lapsed[c] /\ Registered(c)
      \/ InvalidFrame(c)
      \/ srv'[home[c]] = "draining"

LEMMA UnregisteringStep == IInv /\ [Next]_vars => Unregistering
<1> SUFFICES ASSUME IInv, [Next]_vars PROVE Unregistering
  OBVIOUS
<1>1. CASE UNCHANGED vars
  BY <1>1 DEF Unregistering, vars
<1>2. ASSUME NEW c \in Sockets, NEW s \in Servers, Connect(c, s) PROVE Unregistering
  BY <1>2 DEF Unregistering, Connect
<1>3. ASSUME NEW c \in Sockets, Reject(c) PROVE Unregistering
  BY <1>3 DEF Unregistering, Reject
<1>4. ASSUME NEW c \in Sockets, Authorize(c) PROVE Unregistering
  BY <1>4 DEF Unregistering, Authorize
<1>5. ASSUME NEW c \in Sockets, Lookup(c) PROVE Unregistering
  BY <1>5 DEF Unregistering, Lookup
<1>6. ASSUME NEW c \in Sockets, Upsert(c) PROVE Unregistering
  BY <1>6 DEF Unregistering, Upsert
<1>7. ASSUME NEW c \in Sockets, Attach(c) PROVE Unregistering
  <2>1. home[c] \in Servers /\ sub[c] \in Names
    BY <1>7 DEF IInv, Attach, Homes, TypeOK
  <2>2. \A t \in Servers, m \in Names :
          reg'[t][m] = IF t = home[c] /\ m = sub[c] THEN c ELSE reg[t][m]
    BY <1>7, <2>1, RegType DEF IInv, Attach
  <2> QED BY <2>2, NobodyAssumption DEF Unregistering
<1>8. ASSUME NEW c \in Sockets, HandshakeFails(c) PROVE Unregistering
  BY <1>8 DEF Unregistering, HandshakeFails
<1>9. ASSUME NEW c \in Sockets, SocketCloses(c) PROVE Unregistering
  <2>1. CASE pc[c] = "attached" /\ Registered(c)
    <3>1. home[c] \in Servers /\ sub[c] \in Names
      BY <2>1, SocketHome DEF IInv, Registered
    <3>2. \A t \in Servers, m \in Names :
            reg'[t][m] = IF t = home[c] /\ m = sub[c] THEN Nobody ELSE reg[t][m]
      <4>1. TypeOK /\ reg' = [reg EXCEPT ![home[c]][sub[c]] = Nobody]
        BY <1>9, <2>1 DEF IInv, SocketCloses, OnClose
      <4> QED BY <3>1, <4>1, RegCleared
    <3>3. ws'[c] = "closed"
      BY <1>9 DEF SocketCloses, IInv, TypeOK
    <3> QED BY <2>1, <3>2, <3>3 DEF Unregistering, Registered
  <2>2. CASE ~(pc[c] = "attached" /\ Registered(c))
    BY <1>9, <2>2 DEF SocketCloses, OnClose, Unregistering
  <2> QED BY <2>1, <2>2
<1>10. ASSUME NEW c \in Sockets, Lapse(c) PROVE Unregistering
  BY <1>10 DEF Unregistering, Lapse
<1>11. ASSUME NEW c \in Sockets, ExpiryTimer(c) PROVE Unregistering
  BY <1>11 DEF Unregistering, ExpiryTimer
<1>12. ASSUME NEW w \in writes, UpdateCommits(w) PROVE Unregistering
  BY <1>12 DEF Unregistering, UpdateCommits
<1>13. ASSUME NEW w \in writes, UpdateFails(w) PROVE Unregistering
  BY <1>13 DEF Unregistering, UpdateFails
<1>14. ASSUME NEW s \in Servers, Start(s) PROVE Unregistering
  BY <1>14 DEF Unregistering, Start
<1>15. ASSUME NEW s \in Servers, Dispose(s) PROVE Unregistering
  BY <1>15 DEF Unregistering, Dispose
<1>16. ASSUME NEW s \in Servers, DisposeUpdate(s) PROVE Unregistering
  BY <1>16 DEF Unregistering, DisposeUpdate
<1>17. ASSUME NEW s \in Servers, Exit(s) PROVE Unregistering
  <2>1. srv'[s] \in Ended /\ \A t \in Servers \ {s} : reg'[t] = reg[t]
    BY <1>17 DEF Exit, Ended, IInv, TypeOK
  <2> QED BY <2>1 DEF Unregistering
<1>18. ASSUME NEW c \in Sockets, LateUpsert(c) PROVE Unregistering
  BY <1>18 DEF Unregistering, LateUpsert
<1>19. ASSUME NEW c \in Sockets, InvalidFrame(c) PROVE Unregistering
  BY <1>19 DEF Unregistering, InvalidFrame
<1>20. ASSUME NEW s \in Servers, LateSweep(s) PROVE Unregistering
  BY <1>20 DEF Unregistering, LateSweep
<1> QED BY <1>1, <1>2, <1>3, <1>4, <1>5, <1>6, <1>7, <1>8, <1>9, <1>10, <1>11, <1>12, <1>13,
           <1>14, <1>15, <1>16, <1>17, <1>18, <1>19, <1>20 DEF Next, Handshake

LEMMA ClosingStep == IInv /\ [Next]_vars => Closing
<1> SUFFICES ASSUME IInv, [Next]_vars PROVE Closing
  OBVIOUS
<1>1. CASE UNCHANGED vars
  BY <1>1 DEF IInv, TypeOK, Closing, CloseSocket, vars
<1>2. ASSUME NEW c \in Sockets, NEW s \in Servers, Connect(c, s) PROVE Closing
  BY <1>2 DEF IInv, TypeOK, Closing, CloseSocket, Connect
<1>3. ASSUME NEW c \in Sockets, Reject(c) PROVE Closing
  BY <1>3 DEF IInv, TypeOK, Closing, CloseSocket, Reject
<1>4. ASSUME NEW c \in Sockets, Authorize(c) PROVE Closing
  BY <1>4 DEF IInv, TypeOK, Closing, CloseSocket, Authorize
<1>5. ASSUME NEW c \in Sockets, Lookup(c) PROVE Closing
  BY <1>5 DEF IInv, TypeOK, Closing, CloseSocket, Lookup
<1>6. ASSUME NEW c \in Sockets, Upsert(c) PROVE Closing
  BY <1>6 DEF IInv, TypeOK, Closing, CloseSocket, Upsert
<1>7. ASSUME NEW c \in Sockets, Attach(c) PROVE Closing
  BY <1>7 DEF IInv, TypeOK, Closing, CloseSocket, Attach
<1>8. ASSUME NEW c \in Sockets, HandshakeFails(c) PROVE Closing
  BY <1>8 DEF IInv, TypeOK, Closing, CloseSocket, HandshakeFails
<1>9. ASSUME NEW c \in Sockets, SocketCloses(c) PROVE Closing
  BY <1>9 DEF IInv, TypeOK, Closing, CloseSocket, SocketCloses
<1>10. ASSUME NEW c \in Sockets, Lapse(c) PROVE Closing
  BY <1>10 DEF IInv, TypeOK, Closing, CloseSocket, Lapse
<1>11. ASSUME NEW c \in Sockets, ExpiryTimer(c) PROVE Closing
  BY <1>11 DEF IInv, TypeOK, Closing, CloseSocket, ExpiryTimer
<1>12. ASSUME NEW w \in writes, UpdateCommits(w) PROVE Closing
  BY <1>12 DEF IInv, TypeOK, Closing, CloseSocket, UpdateCommits
<1>13. ASSUME NEW w \in writes, UpdateFails(w) PROVE Closing
  BY <1>13 DEF IInv, TypeOK, Closing, CloseSocket, UpdateFails
<1>14. ASSUME NEW s \in Servers, Start(s) PROVE Closing
  BY <1>14 DEF IInv, TypeOK, Closing, CloseSocket, Start
<1>15. ASSUME NEW s \in Servers, Dispose(s) PROVE Closing
  BY <1>15 DEF IInv, TypeOK, Closing, Dispose
<1>16. ASSUME NEW s \in Servers, DisposeUpdate(s) PROVE Closing
  BY <1>16 DEF IInv, TypeOK, Closing, CloseSocket, DisposeUpdate
<1>17. ASSUME NEW s \in Servers, Exit(s) PROVE Closing
  BY <1>17 DEF IInv, TypeOK, Closing, CloseSocket, Exit
<1>18. ASSUME NEW c \in Sockets, LateUpsert(c) PROVE Closing
  BY <1>18 DEF IInv, TypeOK, Closing, CloseSocket, LateUpsert
<1>19. ASSUME NEW c \in Sockets, InvalidFrame(c) PROVE Closing
  BY <1>19 DEF IInv, TypeOK, Closing, InvalidFrame
<1>20. ASSUME NEW s \in Servers, LateSweep(s) PROVE Closing
  BY <1>20 DEF IInv, TypeOK, Closing, CloseSocket, LateSweep
<1> QED BY <1>1, <1>2, <1>3, <1>4, <1>5, <1>6, <1>7, <1>8, <1>9, <1>10, <1>11, <1>12, <1>13,
           <1>14, <1>15, <1>16, <1>17, <1>18, <1>19, <1>20 DEF Next, Handshake

\* A reconnect's tunnel is never taken down by the late close or expiry of the
\* socket it replaced.
THEOREM OnlyOwnClose == Spec => OnlyOwnCloseUnregisters
<1>1. IInv /\ [Next]_vars => [Unregistering]_vars
  BY UnregisteringStep
<1>2. Spec => [][Unregistering]_vars
  BY <1>1, Invariant, PTL DEF Spec
<1> QED BY <1>2 DEF OnlyOwnCloseUnregisters, Unregistering

\* The server closes a socket that is open only if it is rejected, has lapsed,
\* sent an invalid frame, or its process is disposed of.
THEOREM OnlyLapsedClosed == Spec => ServerClosesOnlyLapsed
<1>1. IInv /\ [Next]_vars => [Closing]_vars
  BY ClosingStep
<1>2. Spec => [][Closing]_vars
  BY <1>1, Invariant, PTL DEF Spec
<1> QED BY <1>2 DEF ServerClosesOnlyLapsed, Closing

-----------------------------------------------------------------------------
(* One process at a time: whose the active rows are. *)

OneRuns == \A s, t \in Servers : srv[s] \in Running /\ srv[t] \in Running => s = t

\* An active row was written by a handshake that got as far as its upsert, of
\* the process that owns the row, which is the one that runs, if one does and
\* the upsert was not executed late.
RowOwned ==
  \A n \in Names : row[n].status = "active" =>
    /\ row[n].by \in Sockets
    /\ pc[row[n].by] \in {"upserted", "attached", "failed", "belated"}
    /\ sub[row[n].by] = n /\ home[row[n].by] = row[n].owner
    /\ row[n].owner \in Servers
    /\ \A s \in Servers : srv[s] \in Running =>
         row[n].owner = s \/ pc[row[n].by] = "belated"

OInv == OneRuns /\ RowOwned

\* What a step does to a socket whose upsert has been executed.
SocketKeeps(c) ==
  /\ pc[c] \in {"upserted", "attached", "failed", "belated"} =>
       /\ pc'[c] \in {"upserted", "attached", "failed", "belated"}
       /\ pc[c] \in {"attached", "belated"} => pc'[c] = pc[c]
       /\ sub'[c] = sub[c] /\ home'[c] = home[c]

LEMMA SocketsKeep == TypeOK /\ [Next]_vars => \A c \in Sockets : SocketKeeps(c)
<1> SUFFICES ASSUME TypeOK, [Next]_vars, NEW c \in Sockets PROVE SocketKeeps(c)
  OBVIOUS
<1> USE DEF SocketKeeps
<1>1. CASE UNCHANGED vars
  BY <1>1 DEF vars, sockVars
<1>2. ASSUME NEW d \in Sockets, NEW s \in Servers, Connect(d, s) PROVE SocketKeeps(c)
  BY <1>2 DEF TypeOK, Connect
<1>3. ASSUME NEW d \in Sockets, Reject(d) PROVE SocketKeeps(c)
  BY <1>3 DEF TypeOK, Reject, sockVars
<1>4. ASSUME NEW d \in Sockets, Authorize(d) PROVE SocketKeeps(c)
  BY <1>4 DEF TypeOK, Authorize
<1>5. ASSUME NEW d \in Sockets, Lookup(d) PROVE SocketKeeps(c)
  BY <1>5 DEF TypeOK, Lookup
<1>6. ASSUME NEW d \in Sockets, Upsert(d) \/ LateUpsert(d) \/ Attach(d) PROVE SocketKeeps(c)
  BY <1>6 DEF TypeOK, Upsert, LateUpsert, Attach, sockVars
<1>7. ASSUME NEW d \in Sockets, HandshakeFails(d) PROVE SocketKeeps(c)
  BY <1>7 DEF TypeOK, HandshakeFails, GivenUp, sockVars
<1>8. ASSUME NEW d \in Sockets, SocketCloses(d) \/ InvalidFrame(d) \/ Lapse(d) \/ ExpiryTimer(d)
      PROVE  SocketKeeps(c)
  BY <1>8 DEF SocketCloses, InvalidFrame, Lapse, ExpiryTimer, sockVars
<1>9. ASSUME NEW w \in writes, UpdateCommits(w) \/ UpdateFails(w) PROVE SocketKeeps(c)
  BY <1>9 DEF UpdateCommits, UpdateFails, sockVars
<1>10. ASSUME NEW s \in Servers, Start(s) \/ Dispose(s) \/ DisposeUpdate(s) \/ LateSweep(s)
       PROVE  SocketKeeps(c)
  BY <1>10 DEF Start, Dispose, DisposeUpdate, LateSweep, sockVars
<1>11. ASSUME NEW s \in Servers, Exit(s) PROVE SocketKeeps(c)
  BY <1>11 DEF TypeOK, Exit, GivenUp, sockVars
<1> QED BY <1>1, <1>2, <1>3, <1>4, <1>5, <1>6, <1>7, <1>8, <1>9, <1>10, <1>11
        DEF Next, Handshake

\* A step that starts no process and writes no active row.
LEMMA OwnersKeep ==
  ASSUME OInv, \A c \in Sockets : SocketKeeps(c),
         \A s \in Servers : srv'[s] \in Running => srv[s] \in Running,
         \A n \in Names : row'[n].status = "active" => row'[n] = row[n]
  PROVE  OInv'
<1>1. OneRuns'
  BY DEF OInv, OneRuns
<1>2. ASSUME NEW n \in Names, row'[n].status = "active"
      PROVE  /\ row'[n].by \in Sockets
             /\ pc'[row'[n].by] \in {"upserted", "attached", "failed", "belated"}
             /\ sub'[row'[n].by] = n /\ home'[row'[n].by] = row'[n].owner
             /\ row'[n].owner \in Servers
             /\ \A s \in Servers : srv'[s] \in Running =>
                  row'[n].owner = s \/ pc'[row'[n].by] = "belated"
  <2>1. row'[n] = row[n]
    BY <1>2
  <2>2. /\ row[n].by \in Sockets
        /\ pc[row[n].by] \in {"upserted", "attached", "failed", "belated"}
        /\ sub[row[n].by] = n /\ home[row[n].by] = row[n].owner
        /\ row[n].owner \in Servers
        /\ \A s \in Servers : srv[s] \in Running =>
             row[n].owner = s \/ pc[row[n].by] = "belated"
    BY <1>2, <2>1 DEF OInv, RowOwned
  <2>3. SocketKeeps(row[n].by)
    BY <2>2
  <2> QED BY <2>1, <2>2, <2>3 DEF SocketKeeps
<1>3. RowOwned'
  BY <1>2 DEF RowOwned
<1> QED BY <1>1, <1>3 DEF OInv

\* The row that the upsert of a socket writes.
LEMMA UpsertOwns ==
  ASSUME TypeOK, Homes, OInv, \A d \in Sockets : SocketKeeps(d), NEW c \in Sockets,
         UNCHANGED srv, UNCHANGED sockVars, pc[c] \in {"upsert", "orphaned"},
         pc'[c] = IF pc[c] = "upsert" THEN "upserted" ELSE "belated",
         row' = [row EXCEPT ![sub[c]] =
                   [status |-> "active", owner |-> home[c], by |-> c]]
  PROVE  OInv'
<1>1. home[c] \in Servers /\ (pc[c] = "upsert" => srv[home[c]] \in Running)
  BY DEF Homes
<1>2. \A n \in Names :
        row'[n] = IF n = sub[c] THEN [status |-> "active", owner |-> home[c], by |-> c]
                  ELSE row[n]
  BY DEF TypeOK
<1>3. OneRuns'
  BY DEF OInv, OneRuns
<1>4. ASSUME NEW n \in Names, row'[n].status = "active"
      PROVE  /\ row'[n].by \in Sockets
             /\ pc'[row'[n].by] \in {"upserted", "attached", "failed", "belated"}
             /\ sub'[row'[n].by] = n /\ home'[row'[n].by] = row'[n].owner
             /\ row'[n].owner \in Servers
             /\ \A s \in Servers : srv'[s] \in Running =>
                  row'[n].owner = s \/ pc'[row'[n].by] = "belated"
  <2>1. CASE n = sub[c]
    <3>1. row'[n].owner = home[c] /\ row'[n].by = c
      BY <1>2, <2>1
    <3>2. \A s \in Servers : srv'[s] \in Running => home[c] = s \/ pc'[c] = "belated"
      BY <1>1 DEF OInv, OneRuns
    <3> QED BY <1>1, <2>1, <3>1, <3>2 DEF sockVars
  <2>2. CASE n # sub[c]
    <3>1. row'[n] = row[n]
      BY <1>2, <2>2
    <3>2. /\ row[n].by \in Sockets
          /\ pc[row[n].by] \in {"upserted", "attached", "failed", "belated"}
          /\ sub[row[n].by] = n /\ home[row[n].by] = row[n].owner
          /\ row[n].owner \in Servers
          /\ \A s \in Servers : srv[s] \in Running =>
               row[n].owner = s \/ pc[row[n].by] = "belated"
      BY <1>4, <3>1 DEF OInv, RowOwned
    <3>3. SocketKeeps(row[n].by)
      BY <3>2
    <3> QED BY <3>1, <3>2, <3>3 DEF SocketKeeps
  <2> QED BY <2>1, <2>2
<1>5. RowOwned'
  BY <1>4 DEF RowOwned
<1> QED BY <1>3, <1>5 DEF OInv

\* What updateMany and the update of a close handler leave active is as it was.
LEMMA SweptKeeps ==
  ASSUME TypeOK, NEW s \in Servers, row' = Swept(s)
  PROVE  \A n \in Names : row'[n].status = "active" => row'[n] = row[n]
BY DEF TypeOK, Rows, Swept

LEMMA UpdateKeeps ==
  ASSUME TypeOK, NEW w \in writes, UpdateCommits(w)
  PROVE  /\ sub[w.of] \in Names /\ row'[sub[w.of]].status # "active"
         /\ \A n \in Names : row'[n].status = "active" => row'[n] = row[n]
<1>1. w.of \in Sockets /\ sub[w.of] \in Names /\ w.status # "active"
  BY DEF TypeOK, Updates
<1>2. \A n \in Names :
        row'[n] = IF n = sub[w.of] THEN [row[n] EXCEPT !.status = w.status] ELSE row[n]
  BY DEF TypeOK, UpdateCommits
<1>3. row[sub[w.of]] \in Rows
  BY <1>1 DEF TypeOK
<1>4. row'[sub[w.of]].status = w.status
  BY <1>1, <1>2, <1>3 DEF Rows
<1> QED BY <1>1, <1>2, <1>4

LEMMA OwnersPreserved ==
  ASSUME ~Overlap PROVE IInv /\ OInv /\ [Next]_vars => OInv'
<1> SUFFICES ASSUME IInv, OInv, [Next]_vars PROVE OInv'
  OBVIOUS
<1>1. TypeOK /\ Homes
  BY DEF IInv
<1>2. \A c \in Sockets : SocketKeeps(c)
  BY <1>1, SocketsKeep
<1>3. CASE UNCHANGED vars
  BY <1>2, <1>3, OwnersKeep DEF vars
<1>4. ASSUME NEW c \in Sockets, NEW s \in Servers, Connect(c, s) PROVE OInv'
  BY <1>2, <1>4, OwnersKeep DEF Connect
<1>5. ASSUME NEW c \in Sockets, Reject(c) PROVE OInv'
  BY <1>2, <1>5, OwnersKeep DEF Reject
<1>6. ASSUME NEW c \in Sockets, Authorize(c) PROVE OInv'
  BY <1>2, <1>6, OwnersKeep DEF Authorize
<1>7. ASSUME NEW c \in Sockets, Lookup(c) PROVE OInv'
  BY <1>2, <1>7, OwnersKeep DEF Lookup
<1>8. ASSUME NEW c \in Sockets, Upsert(c) PROVE OInv'
  <2>1. pc'[c] = "upserted"
    BY <1>1, <1>8 DEF TypeOK, Upsert
  <2> QED BY <1>1, <1>2, <1>8, <2>1, UpsertOwns DEF Upsert
<1>9. ASSUME NEW c \in Sockets, LateUpsert(c) PROVE OInv'
  <2>1. pc'[c] = "belated"
    BY <1>1, <1>9 DEF TypeOK, LateUpsert
  <2> QED BY <1>1, <1>2, <1>9, <2>1, UpsertOwns DEF LateUpsert
<1>10. ASSUME NEW c \in Sockets, Attach(c) PROVE OInv'
  BY <1>2, <1>10, OwnersKeep DEF Attach
<1>11. ASSUME NEW c \in Sockets, HandshakeFails(c) PROVE OInv'
  BY <1>2, <1>11, OwnersKeep DEF HandshakeFails
<1>12. ASSUME NEW c \in Sockets, SocketCloses(c) PROVE OInv'
  BY <1>2, <1>12, OwnersKeep DEF SocketCloses
<1>13. ASSUME NEW c \in Sockets, InvalidFrame(c) PROVE OInv'
  BY <1>2, <1>13, OwnersKeep DEF InvalidFrame
<1>14. ASSUME NEW c \in Sockets, Lapse(c) PROVE OInv'
  BY <1>2, <1>14, OwnersKeep DEF Lapse
<1>15. ASSUME NEW c \in Sockets, ExpiryTimer(c) PROVE OInv'
  BY <1>2, <1>15, OwnersKeep DEF ExpiryTimer
<1>16. ASSUME NEW w \in writes, UpdateCommits(w) PROVE OInv'
  <2>1. srv' = srv
    BY <1>16 DEF UpdateCommits
  <2>2. \A n \in Names : row'[n].status = "active" => row'[n] = row[n]
    BY <1>1, <1>16, UpdateKeeps
  <2> QED BY <1>2, <2>1, <2>2, OwnersKeep
<1>17. ASSUME NEW w \in writes, UpdateFails(w) PROVE OInv'
  BY <1>2, <1>17, OwnersKeep DEF UpdateFails
<1>18. ASSUME NEW s \in Servers, Start(s) PROVE OInv'
  <2>1. \A t \in Servers : srv[t] \in {"off"} \cup Ended
    BY <1>18 DEF Start
  <2>2. \A t \in Servers : srv'[t] \in Running => t = s
    BY <1>1, <1>18, <2>1 DEF TypeOK, Start, Running, Ended
  <2>3. \A n \in Names : row'[n].status # "active"
    BY <1>1, <1>18 DEF TypeOK, Rows, Start
  <2> QED BY <2>2, <2>3 DEF OInv, OneRuns, RowOwned
<1>19. ASSUME NEW s \in Servers, Dispose(s) PROVE OInv'
  <2>1. row' = row /\ \A t \in Servers : srv'[t] \in Running => srv[t] \in Running
    BY <1>1, <1>19 DEF TypeOK, Dispose, Running
  <2> QED BY <1>2, <2>1, OwnersKeep
<1>20. ASSUME NEW s \in Servers, DisposeUpdate(s) PROVE OInv'
  <2>1. row' = Swept(s) /\ \A t \in Servers : srv'[t] \in Running => srv[t] \in Running
    BY <1>1, <1>20 DEF TypeOK, DisposeUpdate, Running
  <2>2. \A n \in Names : row'[n].status = "active" => row'[n] = row[n]
    BY <1>1, <2>1, SweptKeeps
  <2> QED BY <1>2, <2>1, <2>2, OwnersKeep
<1>21. ASSUME NEW s \in Servers, Exit(s) PROVE OInv'
  <2>1. row' = row /\ \A t \in Servers : srv'[t] \in Running => srv[t] \in Running
    BY <1>1, <1>21 DEF TypeOK, Exit, Running
  <2> QED BY <1>2, <2>1, OwnersKeep
<1>22. ASSUME NEW s \in Servers, LateSweep(s) PROVE OInv'
  <2>1. row' = Swept(s) /\ \A t \in Servers : srv'[t] \in Running => srv[t] \in Running
    BY <1>1, <1>22 DEF TypeOK, LateSweep, Running
  <2>2. \A n \in Names : row'[n].status = "active" => row'[n] = row[n]
    BY <1>1, <2>1, SweptKeeps
  <2> QED BY <1>2, <2>1, <2>2, OwnersKeep
<1> QED BY <1>3, <1>4, <1>5, <1>6, <1>7, <1>8, <1>9, <1>10, <1>11, <1>12, <1>13, <1>14, <1>15,
           <1>16, <1>17, <1>18, <1>19, <1>20, <1>21, <1>22 DEF Next, Handshake

-----------------------------------------------------------------------------
(* One process at a time and reliable queries: who holds the active rows. *)

\* A handshake is given up only with its process; a process that has ended
\* does not run again.
Orphans == \A c \in Sockets : pc[c] = "orphaned" => srv[home[c]] \in Ended

\* An update comes from the close handler of a socket that had registered.
Written == \A w \in writes : w.of \in Sockets /\ pc[w.of] = "attached"

\* ActiveRowIsHeld for one name.
Held(n) ==
  row[n].status = "active" /\ srv[row[n].owner] = "up" =>
    \/ reg[row[n].owner][n] = row[n].by \/ pc[row[n].by] = "upserted"
    \/ pc[row[n].by] = "attached" /\ reg[row[n].owner][n] # Nobody
    \/ \E w \in writes : sub[w.of] = n /\ home[w.of] = row[n].owner

HInv == Orphans /\ Written /\ \A n \in Names : Held(n)

\* A socket that registered stays that, and keeps its process and its name.
LEMMA AttachedKeep ==
  ASSUME TypeOK, [Next]_vars, NEW c \in Sockets, pc[c] = "attached"
  PROVE  pc'[c] = "attached" /\ sub'[c] = sub[c] /\ home'[c] = home[c]
<1>1. SocketKeeps(c)
  BY SocketsKeep
<1> QED BY <1>1 DEF SocketKeeps

\* A step that takes nothing away leaves what holds a row.
LEMMA HeldKeep ==
  ASSUME TypeOK, [Next]_vars, OInv, Written, NEW n \in Names, Held(n),
         row'[n].status = "active" => row'[n] = row[n],
         \A s \in Servers : srv'[s] = "up" => srv[s] = "up",
         \A c \in Sockets :
           pc[c] = "upserted" /\ srv'[home[c]] = "up" => pc'[c] = "upserted",
         \A s \in Servers : srv'[s] = "up" =>
           reg'[s][n] = reg[s][n]
             \/ \E w \in writes' : sub'[w.of] = n /\ home'[w.of] = s,
         \A w \in writes : w \in writes' \/ sub[w.of] # n \/ row'[n].status # "active"
  PROVE  Held(n)'
<1> DEFINE o == row[n].owner
           c == row[n].by
<1> SUFFICES ASSUME row'[n].status = "active", srv'[row'[n].owner] = "up"
             PROVE  \/ reg'[row'[n].owner][n] = row'[n].by \/ pc'[row'[n].by] = "upserted"
                    \/ pc'[row'[n].by] = "attached" /\ reg'[row'[n].owner][n] # Nobody
                    \/ \E w \in writes' : sub'[w.of] = n /\ home'[w.of] = row'[n].owner
  BY DEF Held
<1>1. row'[n] = row[n] /\ row[n].status = "active"
  OBVIOUS
<1>2. o \in Servers /\ c \in Sockets /\ home[c] = o
  BY <1>1 DEF OInv, RowOwned
<1>3. srv'[o] = "up" /\ srv[o] = "up"
  BY <1>1, <1>2
<1>4. \/ reg[o][n] = c \/ pc[c] = "upserted"
      \/ pc[c] = "attached" /\ reg[o][n] # Nobody
      \/ \E w \in writes : sub[w.of] = n /\ home[w.of] = o
  BY <1>1, <1>3 DEF Held
<1>5. reg'[o][n] = reg[o][n] \/ \E w \in writes' : sub'[w.of] = n /\ home'[w.of] = o
  BY <1>2, <1>3
<1>6. CASE reg[o][n] = c
  BY <1>1, <1>5, <1>6
<1>7. CASE pc[c] = "upserted"
  BY <1>1, <1>2, <1>3, <1>7
<1>8. CASE pc[c] = "attached" /\ reg[o][n] # Nobody
  <2>1. pc'[c] = "attached"
    BY <1>2, <1>8, AttachedKeep
  <2> QED BY <1>1, <1>5, <1>8, <2>1
<1>9. ASSUME NEW w \in writes, sub[w.of] = n, home[w.of] = o
      PROVE  \E x \in writes' : sub'[x.of] = n /\ home'[x.of] = o
  <2>1. w \in writes'
    BY <1>9
  <2>2. sub'[w.of] = n /\ home'[w.of] = o
    BY <1>9, AttachedKeep DEF Written
  <2> QED BY <2>1, <2>2
<1> QED BY <1>1, <1>4, <1>6, <1>7, <1>8, <1>9

\* The same for the three parts together, when no update is written.
LEMMA HoldersKeep ==
  ASSUME TypeOK, [Next]_vars, OInv, HInv,
         \A n \in Names : row'[n].status = "active" => row'[n] = row[n],
         \A s \in Servers : srv'[s] = "up" => srv[s] = "up",
         \A s \in Servers : srv[s] \in Ended => srv'[s] \in Ended,
         \A c \in Sockets :
           pc[c] = "upserted" /\ srv'[home[c]] = "up" => pc'[c] = "upserted",
         \A c \in Sockets : pc'[c] = "orphaned" => pc[c] = "orphaned" /\ home'[c] = home[c],
         \A s \in Servers : srv'[s] = "up" => reg'[s] = reg[s],
         writes' \subseteq writes,
         \A w \in writes : w \in writes' \/ row'[sub[w.of]].status # "active",
         Homes
  PROVE  HInv'
<1>1. Orphans'
  <2> SUFFICES ASSUME NEW c \in Sockets, pc'[c] = "orphaned" PROVE srv'[home'[c]] \in Ended
    BY DEF Orphans
  <2>1. pc[c] = "orphaned" /\ home'[c] = home[c] /\ home[c] \in Servers
    BY DEF Homes
  <2> QED BY <2>1 DEF HInv, Orphans
<1>2. Written'
  BY AttachedKeep DEF HInv, Written
<1>3. ASSUME NEW n \in Names PROVE Held(n)'
  <2>1. Held(n) /\ Written
    BY DEF HInv
  <2>2. \A s \in Servers : srv'[s] = "up" => reg'[s][n] = reg[s][n]
    OBVIOUS
  <2>3. \A w \in writes : w \in writes' \/ sub[w.of] # n \/ row'[n].status # "active"
    OBVIOUS
  <2> QED BY <2>1, <2>2, <2>3, HeldKeep
<1> QED BY <1>1, <1>2, <1>3 DEF HInv

\* Steps of a socket that touch neither a row nor a registry nor an update.
LEMMA SocketStep ==
  ASSUME TypeOK, Homes, [Next]_vars, OInv, HInv, UNCHANGED <<srv, reg, row, writes>>,
         \A c \in Sockets : pc[c] = "upserted" => pc'[c] = "upserted",
         \A c \in Sockets : pc'[c] = "orphaned" => pc[c] = "orphaned" /\ home'[c] = home[c]
  PROVE  HInv'
<1>1. UNCHANGED srv /\ UNCHANGED reg /\ UNCHANGED row /\ UNCHANGED writes
  OBVIOUS
<1> QED BY <1>1, HoldersKeep

LEMMA HoldersPreserved ==
  ASSUME ~Overlap, ~DbFails PROVE IInv /\ OInv /\ HInv /\ [Next]_vars => HInv'
<1> SUFFICES ASSUME IInv, OInv, HInv, [Next]_vars PROVE HInv'
  OBVIOUS
<1>1. TypeOK /\ Homes /\ Registry
  BY DEF IInv
<1>2. Written /\ Orphans /\ \A n \in Names : Held(n)
  BY DEF HInv
<1>3. CASE UNCHANGED vars
  BY <1>1, <1>3, SocketStep DEF vars, sockVars
<1>4. ASSUME NEW c \in Sockets, NEW s \in Servers, Connect(c, s) PROVE HInv'
  <2>1. UNCHANGED <<srv, reg, row, writes>>
    BY <1>4 DEF Connect
  <2>2. \A d \in Sockets : /\ pc[d] = "upserted" => pc'[d] = "upserted"
                           /\ pc'[d] = "orphaned" => pc[d] = "orphaned" /\ home'[d] = home[d]
    BY <1>1, <1>4 DEF TypeOK, Connect
  <2> QED BY <1>1, <2>1, <2>2, SocketStep
<1>5. ASSUME NEW c \in Sockets, Reject(c) \/ Authorize(c) \/ Lookup(c) PROVE HInv'
  <2>1. UNCHANGED <<srv, reg, row, writes>> /\ home' = home
    BY <1>5 DEF Reject, Authorize, Lookup, sockVars
  <2>2. \A d \in Sockets : /\ pc[d] = "upserted" => pc'[d] = "upserted"
                           /\ pc'[d] = "orphaned" => pc[d] = "orphaned"
    BY <1>1, <1>5 DEF TypeOK, Reject, Authorize, Lookup
  <2> QED BY <1>1, <2>1, <2>2, SocketStep
<1>6. ASSUME NEW c \in Sockets, Upsert(c) PROVE HInv'
  <2>1. \A m \in Names : row'[m] = IF m = sub[c] THEN [status |-> "active", owner |-> home[c], by |-> c]
                                    ELSE row[m]
    BY <1>1, <1>6 DEF TypeOK, Upsert
  <2>2. UNCHANGED srv /\ UNCHANGED reg /\ UNCHANGED writes /\ UNCHANGED home /\ UNCHANGED sub
    BY <1>6 DEF Upsert, sockVars
  <2>3. pc'[c] = "upserted" /\ \A d \in Sockets \ {c} : pc'[d] = pc[d]
    BY <1>1, <1>6 DEF TypeOK, Upsert
  <2>4. Orphans' /\ Written'
    BY <1>2, <2>2, <2>3, <1>6 DEF Orphans, Written, Upsert
  <2>5. ASSUME NEW m \in Names PROVE Held(m)'
    <3>1. CASE m = sub[c]
      BY <2>1, <2>3, <3>1 DEF Held
    <3>2. CASE m # sub[c]
      <4>1. row'[m] = row[m] /\ Held(m)
        BY <1>2, <2>1, <3>2
      <4>2. \A d \in Sockets : pc[d] = "upserted" => pc'[d] = "upserted"
        BY <2>3
      <4> QED BY <1>1, <1>2, <2>2, <4>1, <4>2, HeldKeep
    <3> QED BY <3>1, <3>2
  <2> QED BY <2>4, <2>5 DEF HInv
<1>7. ASSUME NEW c \in Sockets, LateUpsert(c) PROVE HInv'
  <2>1. \A m \in Names : row'[m] = IF m = sub[c] THEN [status |-> "active", owner |-> home[c], by |-> c]
                                    ELSE row[m]
    BY <1>1, <1>7 DEF TypeOK, LateUpsert
  <2>2. UNCHANGED srv /\ UNCHANGED reg /\ UNCHANGED writes /\ UNCHANGED home /\ UNCHANGED sub
    BY <1>7 DEF LateUpsert, sockVars
  <2>3. pc'[c] = "belated" /\ \A d \in Sockets \ {c} : pc'[d] = pc[d]
    BY <1>1, <1>7 DEF TypeOK, LateUpsert
  <2>4. Orphans' /\ Written'
    BY <1>2, <2>2, <2>3, <1>7 DEF Orphans, Written, LateUpsert
  <2>5. srv[home[c]] \in Ended
    BY <1>2, <1>7 DEF Orphans, LateUpsert
  <2>6. ASSUME NEW m \in Names PROVE Held(m)'
    <3>1. CASE m = sub[c]
      <4>1. srv'[row'[m].owner] # "up"
        BY <2>1, <2>2, <2>5, <3>1 DEF Ended
      <4> QED BY <4>1 DEF Held
    <3>2. CASE m # sub[c]
      <4>1. row'[m] = row[m] /\ Held(m)
        BY <1>2, <2>1, <3>2
      <4>2. \A d \in Sockets : pc[d] = "upserted" => pc'[d] = "upserted"
        BY <2>3, <1>7 DEF LateUpsert
      <4> QED BY <1>1, <1>2, <2>2, <4>1, <4>2, HeldKeep
    <3> QED BY <3>1, <3>2
  <2> QED BY <2>4, <2>6 DEF HInv
<1>8. ASSUME NEW c \in Sockets, Attach(c) PROVE HInv'
  <2>1. home[c] \in Servers /\ sub[c] \in Names /\ c # Nobody
    BY <1>1, <1>8, NobodyAssumption DEF TypeOK, Homes, Attach
  <2>2. \A s \in Servers, m \in Names :
          reg'[s][m] = IF s = home[c] /\ m = sub[c] THEN c ELSE reg[s][m]
    BY <1>1, <1>8, <2>1, RegType DEF Attach
  <2>3. UNCHANGED srv /\ UNCHANGED row /\ UNCHANGED writes /\ UNCHANGED home /\ UNCHANGED sub
    BY <1>8 DEF Attach, sockVars
  <2>4. pc'[c] = "attached" /\ \A d \in Sockets \ {c} : pc'[d] = pc[d]
    BY <1>1, <1>8 DEF TypeOK, Attach
  <2>5. Orphans' /\ Written'
    BY <1>2, <2>3, <2>4 DEF Orphans, Written
  <2>6. ASSUME NEW m \in Names PROVE Held(m)'
    <3> DEFINE o == row[m].owner
               d == row[m].by
    <3>1. SUFFICES ASSUME row[m].status = "active", srv[o] = "up"
                   PROVE  \/ reg'[o][m] = d \/ pc'[d] = "upserted"
                          \/ pc'[d] = "attached" /\ reg'[o][m] # Nobody
                          \/ \E w \in writes : sub[w.of] = m /\ home[w.of] = o
      BY <2>3 DEF Held
    <3>2. o \in Servers /\ d \in Sockets /\ home[d] = o /\ sub[d] = m
      BY <3>1 DEF OInv, RowOwned
    <3>3. \/ reg[o][m] = d \/ pc[d] = "upserted"
          \/ pc[d] = "attached" /\ reg[o][m] # Nobody
          \/ \E w \in writes : sub[w.of] = m /\ home[w.of] = o
      BY <1>2, <3>1 DEF Held
    <3>4. CASE d = c
      BY <2>1, <2>2, <3>2, <3>4
    <3>5. CASE d # c
      <4>1. pc'[d] = pc[d]
        BY <2>4, <3>2, <3>5
      <4>2. reg[o][m] = d => pc[d] = "attached"
        BY <1>1, <3>2, NobodyAssumption DEF Registry
      <4>3. reg[o][m] # Nobody => reg'[o][m] # Nobody
        BY <2>1, <2>2, <3>2
      <4>4. d # Nobody
        BY <3>2, NobodyAssumption
      <4> QED BY <3>3, <4>1, <4>2, <4>3, <4>4
    <3> QED BY <3>4, <3>5
  <2> QED BY <2>5, <2>6 DEF HInv
<1>9. ASSUME NEW c \in Sockets, HandshakeFails(c) PROVE HInv'
  BY <1>9 DEF HandshakeFails
<1>10. ASSUME NEW c \in Sockets, SocketCloses(c) PROVE HInv'
  <2>1. /\ UNCHANGED srv /\ UNCHANGED pc /\ UNCHANGED home /\ UNCHANGED sub /\ UNCHANGED row
        /\ writes \subseteq writes'
    BY <1>10 DEF SocketCloses, OnClose, sockVars
  <2>2. Orphans'
    BY <1>2, <2>1 DEF Orphans
  <2>3. Written'
    <3>1. CASE pc[c] = "attached" /\ Registered(c)
      <4>1. writes' = writes \cup {CloseUpdate(c)} /\ CloseUpdate(c).of = c
        BY <1>10, <3>1 DEF SocketCloses, OnClose, CloseUpdate
      <4> QED BY <1>2, <2>1, <3>1, <4>1 DEF Written
    <3>2. CASE ~(pc[c] = "attached" /\ Registered(c))
      <4>1. writes' = writes
        BY <1>10, <3>2 DEF SocketCloses, OnClose
      <4> QED BY <1>2, <2>1, <4>1 DEF Written
    <3> QED BY <3>1, <3>2
  <2>4. ASSUME NEW m \in Names PROVE Held(m)'
    <3>1. ASSUME NEW s \in Servers
          PROVE  reg'[s][m] = reg[s][m]
                   \/ \E w \in writes' : sub'[w.of] = m /\ home'[w.of] = s
      <4>1. CASE pc[c] = "attached" /\ Registered(c)
        <5>1. home[c] \in Servers /\ sub[c] \in Names
          BY <1>1, <4>1, SocketHome DEF Registered
        <5>2. reg' = [reg EXCEPT ![home[c]][sub[c]] = Nobody]
              /\ CloseUpdate(c) \in writes' /\ CloseUpdate(c).of = c
          BY <1>10, <4>1 DEF SocketCloses, OnClose, CloseUpdate
        <5>3. \A t \in Servers, n \in Names :
                reg'[t][n] = IF t = home[c] /\ n = sub[c] THEN Nobody ELSE reg[t][n]
          BY <1>1, <5>1, <5>2, RegCleared
        <5>4. reg'[s][m] = IF s = home[c] /\ m = sub[c] THEN Nobody ELSE reg[s][m]
          BY <5>3
        <5> QED BY <2>1, <5>2, <5>4
      <4>2. CASE ~(pc[c] = "attached" /\ Registered(c))
        BY <1>10, <4>2 DEF SocketCloses, OnClose
      <4> QED BY <4>1, <4>2
    <3>2. Held(m)
      BY <1>2
    <3> QED BY <1>1, <1>2, <2>1, <3>1, <3>2, HeldKeep
  <2> QED BY <2>2, <2>3, <2>4 DEF HInv
<1>11. ASSUME NEW c \in Sockets, InvalidFrame(c) \/ Lapse(c) \/ ExpiryTimer(c) PROVE HInv'
  <2>1. UNCHANGED <<srv, reg, row, writes>> /\ UNCHANGED pc /\ UNCHANGED home
    BY <1>11 DEF InvalidFrame, Lapse, ExpiryTimer, sockVars
  <2> QED BY <1>1, <2>1, SocketStep
<1>12. ASSUME NEW w \in writes, UpdateCommits(w) PROVE HInv'
  <2>1. /\ UNCHANGED srv /\ UNCHANGED reg /\ UNCHANGED pc /\ UNCHANGED home
        /\ writes' = writes \ {w}
    BY <1>12 DEF UpdateCommits, sockVars
  <2>2. /\ row'[sub[w.of]].status # "active"
        /\ \A n \in Names : row'[n].status = "active" => row'[n] = row[n]
    BY <1>1, <1>12, UpdateKeeps
  <2>3. \A x \in writes : x \in writes' \/ row'[sub[x.of]].status # "active"
    BY <2>1, <2>2
  <2> QED BY <1>1, <2>1, <2>2, <2>3, HoldersKeep
<1>13. ASSUME NEW w \in writes, UpdateFails(w) PROVE HInv'
  BY <1>13 DEF UpdateFails
<1>14. ASSUME NEW s \in Servers, Start(s) PROVE HInv'
  <2>1. \A m \in Names : row'[m].status # "active"
    BY <1>1, <1>14 DEF TypeOK, Rows, Start
  <2>2. UNCHANGED pc /\ UNCHANGED home /\ UNCHANGED writes
        /\ \A t \in Servers : srv[t] \in Ended => srv'[t] \in Ended
    BY <1>1, <1>14 DEF TypeOK, Start, Ended, sockVars
  <2>3. Orphans' /\ Written'
    <3>1. \A c \in Sockets : pc[c] = "orphaned" => home[c] \in Servers
      BY <1>1 DEF Homes
    <3> QED BY <1>2, <2>2, <3>1 DEF Orphans, Written
  <2>4. \A n \in Names : Held(n)'
    BY <2>1 DEF Held
  <2> QED BY <2>3, <2>4 DEF HInv
<1>15. ASSUME NEW s \in Servers, Dispose(s) \/ DisposeUpdate(s) \/ LateSweep(s) PROVE HInv'
  <2>1. UNCHANGED reg /\ UNCHANGED pc /\ UNCHANGED home /\ UNCHANGED writes
    BY <1>15 DEF Dispose, DisposeUpdate, LateSweep, sockVars
  <2>2. \A t \in Servers : /\ srv'[t] = "up" => srv[t] = "up"
                           /\ srv[t] \in Ended => srv'[t] \in Ended
    BY <1>1, <1>15 DEF TypeOK, Dispose, DisposeUpdate, LateSweep, Ended
  <2>3. row' = row \/ row' = Swept(s)
    BY <1>15 DEF Dispose, DisposeUpdate, LateSweep
  <2>4. \A n \in Names : row'[n].status = "active" => row'[n] = row[n]
    BY <1>1, <2>3, SweptKeeps
  <2> QED BY <1>1, <2>1, <2>2, <2>4, HoldersKeep
<1>16. ASSUME NEW s \in Servers, Exit(s) PROVE HInv'
  <2>1. srv[s] \in Running /\ srv'[s] \in Ended /\ \A t \in Servers \ {s} : srv'[t] = srv[t]
    BY <1>1, <1>16 DEF TypeOK, Exit, Running, Ended
  <2>2. \A t \in Servers : srv'[t] # "up"
    BY <2>1 DEF OInv, OneRuns, Running, Ended
  <2>3. UNCHANGED row /\ UNCHANGED home /\ UNCHANGED writes
    BY <1>16 DEF Exit, sockVars
  <2>4. Orphans'
    <3> SUFFICES ASSUME NEW c \in Sockets, pc'[c] = "orphaned" PROVE srv'[home[c]] \in Ended
      BY <2>3 DEF Orphans
    <3>1. home[c] = s \/ (pc[c] = "orphaned" /\ home[c] \in Servers)
      BY <1>1, <1>16 DEF TypeOK, Exit, GivenUp, Homes
    <3> QED BY <1>2, <2>1, <3>1 DEF Orphans
  <2>5. Written'
    BY <1>1, <1>2, <2>3, AttachedKeep DEF Written
  <2>6. ASSUME NEW n \in Names PROVE Held(n)'
    <3>1. row[n].status = "active" => row[n].owner \in Servers
      BY DEF OInv, RowOwned
    <3> QED BY <2>2, <2>3, <3>1 DEF Held
  <2> QED BY <2>4, <2>5, <2>6 DEF HInv
<1> QED BY <1>3, <1>4, <1>5, <1>6, <1>7, <1>8, <1>9, <1>10, <1>11, <1>12, <1>13, <1>14, <1>15,
           <1>16 DEF Next, Handshake

\* With one process at a time, an active row belongs to the process that is up,
\* unless its upsert was executed after the handshake was given up.
THEOREM OneOwner == ASSUME ~Overlap PROVE Spec => []ActiveRowOwnerRuns
<1>1. Init => OInv
  BY DEF Init, OInv, OneRuns, RowOwned, Running
<1>2. IInv /\ OInv /\ [Next]_vars => OInv'
  BY OwnersPreserved
<1>3. OInv => ActiveRowOwnerRuns
  BY DEF OInv, RowOwned, ActiveRowOwnerRuns, Running
<1> QED BY <1>1, <1>2, <1>3, Invariant, PTL DEF Spec

\* With one process at a time and reliable queries, the socket that wrote an
\* active row of a process that is up holds its name there or is about to,
\* unless an update is on its way or another handshake has displaced it.
THEOREM ActiveIsHeld == ASSUME ~Overlap, ~DbFails PROVE Spec => []ActiveRowIsHeld
<1>1. Init => OInv /\ HInv
  BY DEF Init, OInv, OneRuns, RowOwned, Running, HInv, Orphans, Written, Held
<1>2. IInv /\ OInv /\ [Next]_vars => OInv'
  BY OwnersPreserved
<1>3. IInv /\ OInv /\ HInv /\ [Next]_vars => HInv'
  BY HoldersPreserved
<1>4. HInv => ActiveRowIsHeld
  BY DEF HInv, Held, ActiveRowIsHeld
<1> QED BY <1>1, <1>2, <1>3, <1>4, Invariant, PTL DEF Spec
=============================================================================
