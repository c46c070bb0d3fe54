------------------------ MODULE ProxyDeliveryProofs ------------------------
(***************************************************************************)
(* Theorems about what ProxyStream delivers: cancellations to the CLI,     *)
(* the end of every response stream, the chunks of its body in order, and  *)
(* the simple exchange the whole path implements.                          *)
(***************************************************************************)
EXTENDS ProxyStreamProofs

-----------------------------------------------------------------------------
(* Sequences and steps. *)

\* What remains of a queue whose head is taken.
LEMMA TailOf ==
  ASSUME NEW S, NEW s \in Seq(S), s # <<>>
  PROVE  /\ Len(s) \in Nat \ {0}
         /\ Head(s) = s[1] /\ Head(s) \in S
         /\ Tail(s) \in Seq(S) /\ Len(Tail(s)) = Len(s) - 1
         /\ \A i \in 1 .. Len(s) - 1 : Tail(s)[i] = s[i + 1]
OBVIOUS

\* A queue that grows at its end.
LEMMA AppendOf ==
  ASSUME NEW S, NEW s \in Seq(S), NEW e \in S
  PROVE  /\ Len(s) \in Nat
         /\ Append(s, e) \in Seq(S) /\ Len(Append(s, e)) = Len(s) + 1
         /\ \A i \in 1 .. Len(s) : Append(s, e)[i] = s[i]
         /\ Append(s, e)[Len(s) + 1] = e
OBVIOUS

\* A step of one request leaves everything of the others alone, and the state
\* of the connection.
LEMMA StepOther ==
  ASSUME TypeOK, NEW r \in Requests, NEW q \in Requests, q # r,
         Proxy(r) \/ Client(r) \/ Cli(r)
  PROVE  /\ web'[q] = web[q] /\ answer'[q] = answer[q] /\ entry'[q] = entry[q]
         /\ stream'[q] = stream[q] /\ got'[q] = got[q] /\ disposed' = disposed
         /\ delivery'[q] = delivery[q] /\ rpc'[q] = rpc[q] /\ cancelMsg'[q] = cancelMsg[q]
         /\ conn' = conn /\ cancelled'[q] = cancelled[q] /\ sent'[q] = sent[q]
<1> USE DEF proxyVars, clientVars, busVars, wireVars, cliVars
<1>1. /\ ProxyTypes
      /\ got \in [Requests -> Seq(Chunks)] /\ delivery \in [Requests -> Seq(Frames)]
      /\ rpc \in [Requests -> {"none", "called", "serving"} \cup Replies]
      /\ cancelMsg \in [Requests -> BOOLEAN] /\ cancelled \in [Requests -> BOOLEAN]
      /\ sent \in [Requests -> 0 .. MaxChunks]
  BY DEF TypeOK, QueueTypes, BusTypes, CliTypes
<1>2. CASE Proxy(r)
  <2>1. UNCHANGED <<conn, cancelled, sent, disposed>>
    BY <1>2 DEF Proxy, WebRefuse, WebStart, VisitorLeaves, WebReturnUnavailable,
                WebReturnBad, WebReturnStream, WebRejected, WebTimeout, WebBuildFails,
                Catch, ProxyEvent, EventLost
  <2>2. web'[q] = web[q] /\ answer'[q] = answer[q]
    BY <1>1, <1>2 DEF ProxyTypes, Proxy, WebRefuse, WebStart, VisitorLeaves,
                WebReturnUnavailable, WebReturnBad, WebReturnStream, WebRejected,
                WebTimeout, WebBuildFails, Catch, ProxyEvent, EventLost, Return
  <2>3. entry'[q] = entry[q] /\ stream'[q] = stream[q] /\ cancelMsg'[q] = cancelMsg[q]
    <3>1. CASE VisitorLeaves(r)
      BY <1>1, <3>1 DEF ProxyTypes, VisitorLeaves, CancelPublic
    <3>2. CASE ProxyEvent(r)
      BY <1>1, <3>2 DEF ProxyTypes, ProxyEvent, Finish
    <3> QED
      BY <1>1, <1>2, <3>1, <3>2 DEF ProxyTypes, Proxy, WebRefuse, WebStart,
                WebReturnUnavailable, WebReturnBad, WebReturnStream, WebRejected,
                WebTimeout, WebBuildFails, Catch, EventLost, Return, Finish
  <2>4. got'[q] = got[q] /\ delivery'[q] = delivery[q] /\ rpc'[q] = rpc[q]
    BY <1>1, <1>2 DEF Proxy, WebRefuse, WebStart, VisitorLeaves, WebReturnUnavailable,
                WebReturnBad, WebReturnStream, WebRejected, WebTimeout, WebBuildFails,
                Catch, ProxyEvent, EventLost
  <2> QED
    BY <2>1, <2>2, <2>3, <2>4
<1>3. CASE Client(r)
  <2>1. /\ UNCHANGED <<web, answer, entry, stream, got, disposed, conn, cancelled, sent>>
        /\ cancelMsg'[q] = cancelMsg[q]
    BY <1>1, <1>3 DEF Client, ClientRequest, HandleClientFrame, TotalTimeout, IdleTimeout,
                TimerFails, ClientCancel, CancelLost
  <2>2. rpc'[q] = rpc[q]
    BY <1>1, <1>3 DEF Client, ClientRequest, HandleClientFrame, TotalTimeout, IdleTimeout,
                TimerFails, ClientCancel, CancelLost, OnStart, OnBody, OnEnd, OnError,
                Fail, SettlePromise
  <2>3. delivery'[q] = delivery[q]
    BY <1>1, <1>3 DEF Client, ClientRequest, HandleClientFrame, TotalTimeout, IdleTimeout,
                TimerFails, ClientCancel, CancelLost, OnStart, OnBody, OnEnd, OnError,
                Fail, QueueDelivery
  <2> QED
    BY <2>1, <2>2, <2>3
<1>4. CASE Cli(r)
  BY <1>1, <1>4 DEF Cli, CliFrame, CliStart, CliBody, CliEnd, CliError, CliAborts, SendToSrv
<1> QED
  BY <1>2, <1>3, <1>4

-----------------------------------------------------------------------------
(* The order of a request's life on the wire.  Its start is the first frame *)
(* for the CLI and the CLI works only after it; nothing follows the end or  *)
(* the error of a response; the proxy gets nothing before the request is in *)
(* the map.                                                                 *)

\* Frames and events that end a response.
Ends == {"end", "error"}

\* What cannot have been sent, queued or read yet for request r.
OrderInv(r) ==
  /\ work[r] \in {"none", "local"} =>
       toSrv[r] = <<>> /\ sent[r] = 0 /\ pend[r] # "started"
  /\ \A i \in 1 .. Len(toSrv[r]) :
       /\ toSrv[r][i].t = "end" => work[r] = "finished"
       /\ toSrv[r][i].t = "error" => work[r] = "failed"
  /\ \A i \in 1 .. Len(toCli[r]) :
       toCli[r][i] = "request.start" => i = 1 /\ work[r] = "none"
  /\ pend[r] = "none" => delivery[r] = <<>> /\ got[r] = <<>>

\* A request that a step does not concern keeps the order.
LEMMA OrderFrame ==
  ASSUME NEW q, OrderInv(q), work'[q] = work[q], sent'[q] = sent[q],
         pend'[q] = pend[q], toSrv'[q] = toSrv[q], toCli'[q] = toCli[q],
         delivery'[q] = delivery[q], got'[q] = got[q]
  PROVE  OrderInv(q)'
BY DEF OrderInv

\* What a step of the client plugin does to its own request: it takes at most
\* the head of the frames from the CLI, sends at most a cancel, and adds to
\* the chain of events.
LEMMA ClientSends ==
  ASSUME TypeOK, NEW r \in Requests, Client(r), ~ClientRequest(r)
  PROVE  /\ UNCHANGED <<proxyVars, cliVars, sock, conn>>
         /\ toCli'[r] = toCli[r] \/ toCli'[r] = Append(toCli[r], "request.cancel")
         /\ \/ toSrv'[r] = toSrv[r]
            \/ toSrv[r] # <<>> /\ toSrv'[r] = Tail(toSrv[r])
         /\ pend'[r] = pend[r] \/ pend'[r] = "gone"
              \/ (toSrv[r] # <<>> /\ pend[r] # "none" /\ pend'[r] = "started")
         /\ pend[r] = "none" => pend'[r] = "none" /\ delivery'[r] = delivery[r]
<1> USE DEF proxyVars, cliVars, clientVars, wireVars
<1>1. /\ toCli \in [Requests -> Seq({"request.start", "request.cancel"})]
      /\ toSrv \in [Requests -> Seq(Frames)]
      /\ pend \in [Requests -> {"none", "waiting", "started", "gone"}]
  BY DEF TypeOK, QueueTypes, ClientTypes
<1>2. UNCHANGED <<proxyVars, cliVars, sock, conn>>
  BY DEF Client, HandleClientFrame, TotalTimeout, IdleTimeout, TimerFails,
         ClientCancel, CancelLost
<1>3. toCli'[r] = toCli[r] \/ toCli'[r] = Append(toCli[r], "request.cancel")
  BY <1>1 DEF Client, HandleClientFrame, TotalTimeout, IdleTimeout, TimerFails,
         ClientCancel, CancelLost, OnStart, OnBody, OnEnd, OnError, SendToCli
<1>4. toSrv'[r] = toSrv[r] \/ (toSrv[r] # <<>> /\ toSrv'[r] = Tail(toSrv[r]))
  BY <1>1 DEF Client, HandleClientFrame, TotalTimeout, IdleTimeout, TimerFails,
         ClientCancel, CancelLost
<1>5. pend'[r] = pend[r] \/ pend'[r] = "gone"
        \/ (toSrv[r] # <<>> /\ pend[r] # "none" /\ pend'[r] = "started")
  BY <1>1 DEF Client, HandleClientFrame, TotalTimeout, IdleTimeout, TimerFails,
         ClientCancel, CancelLost, OnStart, OnBody, OnEnd, OnError, Fail, Drop, InMap
<1>6. pend[r] = "none" => pend'[r] = "none" /\ delivery'[r] = delivery[r]
  BY <1>1 DEF Client, HandleClientFrame, TotalTimeout, IdleTimeout, TimerFails,
         ClientCancel, CancelLost, InMap
<1> QED
  BY <1>2, <1>3, <1>4, <1>5, <1>6

\* Every step of the client plugin keeps the order of its own request.
LEMMA OrderClient ==
  ASSUME TypeOK, NEW r \in Requests, Client(r), OrderInv(r), WireInv(r), PendingInv(r)
  PROVE  OrderInv(r)'
<1> DEFINE Cmd == {"request.start", "request.cancel"}
<1>1. /\ toCli[r] \in Seq(Cmd)
      /\ toSrv[r] \in Seq(Frames)
      /\ pend \in [Requests -> {"none", "waiting", "started", "gone"}]
  BY DEF TypeOK, QueueTypes, ClientTypes
<1>2. CASE ClientRequest(r)
  <2>1. pend[r] = "none" /\ toCli[r] = <<>> /\ work[r] = "none" /\ toSrv[r] = <<>>
    BY <1>2 DEF ClientRequest, PendingInv, WireInv
  <2>2. /\ UNCHANGED <<work, sent, toSrv, delivery, got>>
        /\ pend'[r] \in {"none", "waiting"}
    BY <1>1, <1>2, <2>1 DEF ClientRequest, proxyVars, cliVars
  <2>3. toCli'[r] = toCli[r] \/ toCli'[r] = Append(toCli[r], "request.start")
    BY <1>2 DEF ClientRequest, SendToCli, TypeOK, QueueTypes
  <2>4. Len(toCli'[r]) <= 1 /\ Len(toCli'[r]) \in Nat
    <3>1. CASE toCli'[r] = toCli[r]
      BY <2>1, <3>1
    <3>2. CASE toCli'[r] = Append(toCli[r], "request.start")
      <4>1. Len(toCli'[r]) = Len(toCli[r]) + 1
        BY <1>1, <3>2, AppendOf
      <4> QED
        BY <2>1, <4>1
    <3> QED
      BY <2>3, <3>1, <3>2
  <2>5. \A i \in 1 .. Len(toCli'[r]) : i = 1
    BY <2>4
  <2> QED
    BY <2>1, <2>2, <2>5 DEF OrderInv
<1>3. CASE ~ClientRequest(r)
  <2>1. UNCHANGED <<work, sent, got>>
    BY <1>3, ClientSends DEF proxyVars, cliVars
  <2>2. ASSUME NEW i \in 1 .. Len(toCli'[r]), toCli'[r][i] = "request.start"
        PROVE  i = 1 /\ work'[r] = "none"
    <3>1. i \in 1 .. Len(toCli[r]) /\ toCli[r][i] = "request.start"
      <4>1. CASE toCli'[r] = toCli[r]
        BY <2>2, <4>1
      <4>2. CASE toCli'[r] = Append(toCli[r], "request.cancel")
        BY <1>1, <2>2, <4>2, AppendOf
      <4> QED
        BY <1>3, <4>1, <4>2, ClientSends
    <3> QED
      BY <2>1, <3>1 DEF OrderInv
  <2>3. ASSUME NEW i \in 1 .. Len(toSrv'[r])
        PROVE  /\ toSrv'[r][i].t = "end" => work'[r] = "finished"
               /\ toSrv'[r][i].t = "error" => work'[r] = "failed"
    <3>1. PICK j \in 1 .. Len(toSrv[r]) : toSrv'[r][i] = toSrv[r][j]
      <4>1. CASE toSrv'[r] = toSrv[r]
        BY <2>3, <4>1
      <4>2. CASE toSrv[r] # <<>> /\ toSrv'[r] = Tail(toSrv[r])
        <5>1. i + 1 \in 1 .. Len(toSrv[r]) /\ toSrv'[r][i] = toSrv[r][i + 1]
          BY <1>1, <2>3, <4>2, TailOf
        <5> QED
          BY <5>1
      <4> QED
        BY <1>3, <4>1, <4>2, ClientSends
    <3> QED
      BY <2>1, <3>1 DEF OrderInv
  <2>4. work[r] \in {"none", "local"} =>
          toSrv'[r] = <<>> /\ sent'[r] = 0 /\ pend'[r] # "started"
    BY <1>3, <2>1, ClientSends DEF OrderInv
  <2>5. pend'[r] = "none" => delivery'[r] = <<>> /\ got'[r] = <<>>
    BY <1>3, <2>1, ClientSends DEF OrderInv
  <2> QED
    BY <2>1, <2>2, <2>3, <2>4, <2>5 DEF OrderInv
<1> QED
  BY <1>2, <1>3

\* Every step of the CLI keeps the order of its own request.
LEMMA OrderCli ==
  ASSUME TypeOK, NEW r \in Requests, Cli(r), OrderInv(r)
  PROVE  OrderInv(r)'
<1> USE DEF proxyVars, clientVars, busVars, wireVars
<1>1. /\ toCli \in [Requests -> Seq({"request.start", "request.cancel"})]
      /\ toSrv \in [Requests -> Seq(Frames)]
      /\ work \in [Requests -> {"none", "local", "streaming", "finished", "failed"}]
      /\ sent \in [Requests -> 0 .. MaxChunks]
  BY DEF TypeOK, QueueTypes, CliTypes
<1>2. UNCHANGED <<pend, delivery, got>>
  BY DEF Cli, CliFrame, CliStart, CliBody, CliEnd, CliError, CliAborts
\* A frame sent while the goroutine runs comes after no end and no error.
<1>3. ASSUME Running(r), NEW frame \in Frames, SendToSrv(r, frame), toCli' = toCli,
             work'[r] \in {"streaming", "finished", "failed"},
             frame.t = "end" => work'[r] = "finished",
             frame.t = "error" => work'[r] = "failed"
      PROVE  OrderInv(r)'
  <2>1. toSrv'[r] = toSrv[r] \/ toSrv'[r] = Append(toSrv[r], frame)
    BY <1>1, <1>3 DEF SendToSrv
  <2>2. ASSUME NEW i \in 1 .. Len(toSrv'[r])
        PROVE  /\ toSrv'[r][i].t = "end" => work'[r] = "finished"
               /\ toSrv'[r][i].t = "error" => work'[r] = "failed"
    <3>1. \/ i \in 1 .. Len(toSrv[r]) /\ toSrv'[r][i] = toSrv[r][i]
          \/ toSrv'[r][i] = frame
      <4>1. CASE toSrv'[r] = toSrv[r]
        BY <2>2, <4>1
      <4>2. CASE toSrv'[r] = Append(toSrv[r], frame)
        BY <1>1, <2>2, <4>2, AppendOf
      <4> QED
        BY <2>1, <4>1, <4>2
    <3> QED
      BY <1>3, <3>1 DEF OrderInv, Running
  <2>3. \A i \in 1 .. Len(toCli'[r]) : toCli'[r][i] # "request.start"
    BY <1>3 DEF OrderInv, Running
  <2> QED
    BY <1>2, <1>3, <2>2, <2>3 DEF OrderInv
<1>4. CASE CliFrame(r)
  <2>1. /\ toCli[r] # <<>> /\ toCli'[r] = Tail(toCli[r])
        /\ UNCHANGED <<toSrv, sent>>
    BY <1>1, <1>4 DEF CliFrame
  <2>2. \A i \in 1 .. Len(toCli'[r]) :
          i + 1 \in 1 .. Len(toCli[r]) /\ toCli'[r][i] = toCli[r][i + 1] /\ i + 1 # 1
    BY <1>1, <2>1, TailOf
  <2>3. \A i \in 1 .. Len(toCli'[r]) : toCli'[r][i] # "request.start"
    BY <2>2 DEF OrderInv
  <2>4. 1 \in 1 .. Len(toCli[r]) /\ Head(toCli[r]) = toCli[r][1]
    BY <1>1, <2>1, TailOf
  <2>5. \/ work' = work
        \/ work[r] = "none" /\ work'[r] = "local"
    BY <1>1, <1>4, <2>4 DEF CliFrame, OrderInv
  <2> QED
    BY <1>2, <2>1, <2>3, <2>5 DEF OrderInv
<1>5. CASE CliStart(r)
  <2>1. PICK type \in {"start", "startSse", "startBad"} : SendToSrv(r, Frame(type))
    BY <1>5 DEF CliStart
  <2>2. Frame(type) \in Frames /\ Frame(type).t \notin Ends
    BY DEF Frame, Frames, OtherFrames, Ends
  <2> QED
    BY <1>1, <1>3, <1>5, <2>1, <2>2 DEF CliStart, Running, Ends
<1>6. CASE CliBody(r)
  <2>1. sent[r] + 1 \in 1 .. MaxChunks
    BY <1>1, <1>6, MaxChunksAssumption DEF CliBody
  <2>2. BodyFrame(sent[r] + 1) \in Frames /\ BodyFrame(sent[r] + 1).t = "body"
    BY <2>1 DEF BodyFrame, Frames, BodyFrames, Chunks
  <2> QED
    BY <1>3, <1>6, <2>2 DEF CliBody, Running
<1>7. CASE CliEnd(r)
  <2>1. Frame("end") \in Frames /\ Frame("end").t = "end"
    BY DEF Frame, Frames, OtherFrames
  <2> QED
    BY <1>1, <1>3, <1>7, <2>1 DEF CliEnd, Running
<1>8. CASE CliError(r)
  <2>1. Frame("error") \in Frames /\ Frame("error").t = "error"
    BY DEF Frame, Frames, OtherFrames
  <2> QED
    BY <1>1, <1>3, <1>8, <2>1 DEF CliError, Running
<1>9. CASE CliAborts(r)
  <2>1. work'[r] = "failed" /\ UNCHANGED <<toSrv, toCli, sent>> /\ Running(r)
    BY <1>1, <1>9 DEF CliAborts
  <2> QED
    BY <1>2, <2>1 DEF OrderInv, Running
<1> QED
  BY <1>4, <1>5, <1>6, <1>7, <1>8, <1>9 DEF Cli

\* Every step of the proxy plugin keeps the order of its own request: an
\* event reaches the stream only after the request was in the map.
LEMMA OrderProxy ==
  ASSUME TypeOK, NEW r \in Requests, Proxy(r), OrderInv(r)
  PROVE  OrderInv(r)'
<1> USE DEF proxyVars, clientVars, busVars, wireVars, cliVars
<1>1. UNCHANGED <<pend, toCli, toSrv, work, sent>>
  BY DEF Proxy, WebRefuse, WebStart, VisitorLeaves, WebReturnUnavailable,
         WebReturnBad, WebReturnStream, WebRejected, WebTimeout, WebBuildFails,
         Catch, ProxyEvent, EventLost
<1>2. CASE ProxyEvent(r) \/ EventLost(r)
  BY <1>1, <1>2 DEF OrderInv, ProxyEvent, EventLost
<1>3. CASE ~(ProxyEvent(r) \/ EventLost(r))
  <2>1. UNCHANGED <<delivery, got>>
    BY <1>3 DEF Proxy, WebRefuse, WebStart, VisitorLeaves, WebReturnUnavailable,
           WebReturnBad, WebReturnStream, WebRejected, WebTimeout, WebBuildFails, Catch
  <2> QED
    BY <1>1, <2>1, OrderFrame
<1> QED
  BY <1>2, <1>3

\* Every step keeps the order of every request.
LEMMA OrderStep ==
  ASSUME TypeOK, [Next]_vars, NEW q \in Requests, OrderInv(q), WireInv(q), PendingInv(q)
  PROVE  OrderInv(q)'
<1>1. ASSUME NEW r \in Requests, Proxy(r) \/ Client(r) \/ Cli(r)
      PROVE  OrderInv(q)'
  <2>1. CASE q # r
    BY <1>1, <2>1, WireOther, StepOther, OrderFrame
  <2>2. CASE q = r
    BY <1>1, <2>2, OrderProxy, OrderClient, OrderCli
  <2> QED
    BY <2>1, <2>2
<1>2. CASE SocketClosed
  <2>1. /\ UNCHANGED <<toCli, work, sent, got>> /\ toSrv'[q] = <<>>
        /\ pend'[q] = pend[q] \/ pend'[q] = "gone"
        /\ pend[q] = "none" => delivery'[q] = delivery[q]
    BY <1>2 DEF SocketClosed, InMap, proxyVars, cliVars
  <2>2. pend'[q] = "none" => pend[q] = "none"
    BY <2>1
  <2> QED
    BY <2>1, <2>2 DEF OrderInv
<1>3. CASE CliDisconnects
  <2>1. /\ UNCHANGED <<toSrv, work, sent, got, pend, delivery>> /\ toCli'[q] = <<>>
    BY <1>3 DEF CliDisconnects, proxyVars, clientVars
  <2> QED
    BY <2>1 DEF OrderInv
<1>4. CASE Dispose \/ SocketCloses \/ UNCHANGED vars
  BY <1>4, OrderFrame
     DEF Dispose, SocketCloses, vars, proxyVars, clientVars, wireVars, cliVars
<1> QED
  BY <1>1, <1>2, <1>3, <1>4 DEF Next

\* The order of every request holds throughout.
LEMMA OrderHolds == Spec => [](\A r \in Requests : OrderInv(r) /\ WireInv(r) /\ PendingInv(r))
<1> DEFINE Inv == TypeOK /\ \A r \in Requests : OrderInv(r) /\ WireInv(r) /\ PendingInv(r)
<1>1. Init => Inv
  BY TypeInit DEF Init, OrderInv, PendingInv, WireInv, InMap
<1>2. Inv /\ [Next]_vars => Inv'
  BY TypeStep, OrderStep, PendingStep, WireStep
<1>3. Inv => \A r \in Requests : OrderInv(r) /\ WireInv(r) /\ PendingInv(r)
  OBVIOUS
<1> QED
  BY <1>1, <1>2, <1>3, PTL DEF Spec

-----------------------------------------------------------------------------
(* The CLI works for nothing that is forgotten.                             *)
(*                                                                          *)
(* A cancel that is read before the request's start would be lost on it;    *)
(* so the start, if it has not been read, stands at the head. A request     *)
(* that leaves the map without a cancel was ended by the CLI itself.        *)

\* A cancel has reached the goroutine of r, or is on its way to the CLI.
Told(r) == cancelled[r] \/ \E i \in 1 .. Len(toCli[r]) : toCli[r][i] = "request.cancel"

\* While the tunnel stands: the start of r waits for the CLI, and a request that
\* has left the map is over at the CLI or the CLI is told.
WorkInv(r) ==
  sock = "open" /\ conn =>
    /\ work[r] = "none" /\ pend[r] # "none" =>
         toCli[r] # <<>> /\ toCli[r][1] = "request.start"
    /\ pend[r] = "gone" => work[r] \in {"finished", "failed"} \/ Told(r)

\* A request that a step does not concern, or whose tunnel does not stand any
\* more, keeps its part of the invariant.
LEMMA WorkFrame ==
  ASSUME NEW q, WorkInv(q),
         \/ sock' # "open" \/ ~conn'
         \/ /\ sock' = sock /\ conn' = conn /\ work'[q] = work[q] /\ pend'[q] = pend[q]
            /\ toCli'[q] = toCli[q] /\ cancelled'[q] = cancelled[q]
  PROVE  WorkInv(q)'
BY DEF WorkInv, Told

\* A request of the client plugin leaves the map with a cancel for the CLI, or
\* because the CLI has ended the response.
LEMMA ClientDrops ==
  ASSUME TypeOK, NEW r \in Requests, Client(r), ~ClientRequest(r), OrderInv(r),
         sock = "open", pend'[r] = "gone", pend[r] # "gone"
  PROVE  toCli'[r] = Append(toCli[r], "request.cancel") \/ work[r] = "finished"
<1> USE DEF clientVars
<1>1. /\ toCli \in [Requests -> Seq({"request.start", "request.cancel"})]
      /\ toSrv[r] \in Seq(Frames)
      /\ pend \in [Requests -> {"none", "waiting", "started", "gone"}]
  BY DEF TypeOK, QueueTypes, ClientTypes
<1>2. CASE HandleClientFrame(r) /\ Head(toSrv[r]).t = "end"
  <2>1. 1 \in 1 .. Len(toSrv[r]) /\ Head(toSrv[r]) = toSrv[r][1]
    BY <1>1, <1>2, TailOf DEF HandleClientFrame
  <2> QED
    BY <1>2, <2>1 DEF OrderInv
<1>3. CASE HandleClientFrame(r) /\ Head(toSrv[r]).t # "end"
  BY <1>1, <1>3 DEF HandleClientFrame, OnStart, OnBody, OnError, SendToCli
<1>4. CASE ~HandleClientFrame(r)
  BY <1>1, <1>4 DEF Client, TotalTimeout, IdleTimeout, TimerFails, ClientCancel, CancelLost,
         SendToCli
<1> QED
  BY <1>2, <1>3, <1>4

\* Every step of the client plugin tells the CLI what it gives up.
LEMMA WorkClient ==
  ASSUME TypeOK, NEW r \in Requests, Client(r), WorkInv(r), OrderInv(r), WireInv(r),
         PendingInv(r)
  PROVE  WorkInv(r)'
<1> SUFFICES ASSUME sock = "open", conn, sock' = "open", conn'
             PROVE  WorkInv(r)'
  <2>1. sock' = sock /\ conn' = conn
    BY DEF Client, ClientRequest, HandleClientFrame, TotalTimeout, IdleTimeout, TimerFails,
           ClientCancel, CancelLost, wireVars
  <2> QED
    BY <2>1, WorkFrame
<1>1. /\ toCli \in [Requests -> Seq({"request.start", "request.cancel"})]
      /\ pend \in [Requests -> {"none", "waiting", "started", "gone"}]
  BY DEF TypeOK, QueueTypes, ClientTypes
<1>2. CASE ClientRequest(r)
  <2>1. pend[r] = "none" /\ toCli[r] = <<>>
    BY <1>2 DEF ClientRequest, PendingInv, WireInv
  <2>2. pend'[r] = "waiting" /\ toCli'[r] = Append(toCli[r], "request.start")
    BY <1>1, <1>2 DEF ClientRequest, SendToCli
  <2>3. toCli'[r] # <<>> /\ toCli'[r][1] = "request.start"
    BY <2>1, <2>2
  <2> QED
    BY <2>2, <2>3 DEF WorkInv
<1>3. CASE ~ClientRequest(r)
  <2>1. UNCHANGED <<work, cancelled>>
    BY <1>3, ClientSends DEF cliVars
  <2>2. toCli'[r] = toCli[r] \/ toCli'[r] = Append(toCli[r], "request.cancel")
    BY <1>3, ClientSends
  <2>3. Told(r) => Told(r)'
    BY <1>1, <2>1, <2>2, AppendOf DEF Told
  <2>4. ASSUME toCli'[r] = Append(toCli[r], "request.cancel")
        PROVE  Told(r)'
    <3>1. /\ Len(toCli[r]) \in Nat /\ Len(toCli'[r]) = Len(toCli[r]) + 1
          /\ toCli'[r][Len(toCli[r]) + 1] = "request.cancel"
      BY <1>1, <2>4, AppendOf
    <3>2. Len(toCli[r]) + 1 \in 1 .. Len(toCli'[r])
      BY <3>1
    <3> QED
      BY <3>1, <3>2 DEF Told
  <2>5. toCli[r] # <<>> /\ toCli[r][1] = "request.start" =>
          toCli'[r] # <<>> /\ toCli'[r][1] = "request.start"
    <3>1. CASE toCli'[r] = toCli[r]
      BY <3>1
    <3>2. CASE toCli'[r] = Append(toCli[r], "request.cancel") /\ toCli[r] # <<>>
      <4>1. Len(toCli[r]) \in Nat \ {0} /\ Len(toCli'[r]) = Len(toCli[r]) + 1
        BY <1>1, <3>2, AppendOf, TailOf
      <4>2. toCli'[r][1] = toCli[r][1]
        BY <1>1, <3>2, <4>1, AppendOf
      <4> QED
        BY <4>1, <4>2
    <3> QED
      BY <2>2, <3>1, <3>2
  <2>6. work'[r] = "none" /\ pend'[r] # "none" =>
          toCli'[r] # <<>> /\ toCli'[r][1] = "request.start"
    BY <1>3, <2>1, <2>5, ClientSends DEF WorkInv
  <2>7. pend'[r] = "gone" => work'[r] \in {"finished", "failed"} \/ Told(r)'
    BY <1>3, <2>1, <2>3, <2>4, ClientDrops DEF WorkInv
  <2> QED
    BY <2>6, <2>7 DEF WorkInv
<1> QED
  BY <1>2, <1>3

\* Every step of the CLI keeps the invariant: a cancel that it reads finds
\* the request running or over.
LEMMA WorkCli ==
  ASSUME TypeOK, NEW r \in Requests, Cli(r), WorkInv(r), OrderInv(r)
  PROVE  WorkInv(r)'
<1> USE DEF proxyVars, clientVars, busVars, wireVars
<1>1. /\ toCli \in [Requests -> Seq({"request.start", "request.cancel"})]
      /\ work \in [Requests -> {"none", "local", "streaming", "finished", "failed"}]
      /\ cancelled \in [Requests -> BOOLEAN]
  BY DEF TypeOK, QueueTypes, CliTypes
<1>2. UNCHANGED <<pend, sock, conn>>
  BY DEF Cli, CliFrame, CliStart, CliBody, CliEnd, CliError, CliAborts
<1>3. CASE ~CliFrame(r)
  <2>1. UNCHANGED <<toCli, cancelled>> /\ Running(r) /\ work'[r] # "none"
    BY <1>1, <1>3 DEF Cli, CliStart, CliBody, CliEnd, CliError, CliAborts, Running
  <2> QED
    BY <1>2, <2>1 DEF WorkInv, Told, Running
<1>4. CASE CliFrame(r)
  <2>1. toCli[r] # <<>> /\ toCli'[r] = Tail(toCli[r])
    BY <1>1, <1>4 DEF CliFrame
  <2>2. /\ 1 \in 1 .. Len(toCli[r]) /\ Head(toCli[r]) = toCli[r][1]
        /\ \A i \in 2 .. Len(toCli[r]) :
             i - 1 \in 1 .. Len(toCli'[r]) /\ toCli'[r][i - 1] = toCli[r][i]
    BY <1>1, <2>1, TailOf
  <2>3. CASE Head(toCli[r]) = "request.start"
    <3>1. work[r] = "none" /\ work'[r] = "local" /\ UNCHANGED cancelled
      BY <1>1, <1>4, <2>2, <2>3 DEF CliFrame, OrderInv
    <3>2. ASSUME Told(r)
          PROVE  Told(r)'
      <4>1. CASE cancelled[r]
        BY <3>1, <4>1 DEF Told
      <4>2. CASE ~cancelled[r]
        <5>1. PICK i \in 1 .. Len(toCli[r]) : toCli[r][i] = "request.cancel"
          BY <3>2, <4>2 DEF Told
        <5>2. i \in 2 .. Len(toCli[r])
          BY <2>2, <2>3, <5>1
        <5> QED
          BY <2>2, <5>1, <5>2 DEF Told
      <4> QED
        BY <4>1, <4>2
    <3> QED
      BY <1>2, <3>1, <3>2 DEF WorkInv
  <2>4. CASE Head(toCli[r]) = "request.cancel"
    <3>1. work' = work /\ cancelled'[r] = (cancelled[r] \/ Running(r))
      BY <1>1, <1>4, <2>4 DEF CliFrame
    <3>2. sock = "open" /\ conn /\ pend[r] # "none" => work[r] # "none"
      BY <2>2, <2>4 DEF WorkInv
    <3>3. sock = "open" /\ conn /\ pend[r] = "gone" =>
            work'[r] \in {"finished", "failed"} \/ Told(r)'
      BY <1>1, <3>1, <3>2 DEF Told, Running
    <3> QED
      BY <1>2, <3>1, <3>2, <3>3 DEF WorkInv
  <2> QED
    BY <1>4, <2>3, <2>4 DEF CliFrame
<1> QED
  BY <1>3, <1>4

\* Every step keeps the invariant of every request.
LEMMA WorkStep ==
  ASSUME TypeOK, [Next]_vars, NEW q \in Requests, WorkInv(q), OrderInv(q), WireInv(q),
         PendingInv(q)
  PROVE  WorkInv(q)'
<1> USE DEF proxyVars, clientVars, wireVars, cliVars
<1>1. ASSUME NEW r \in Requests, Proxy(r)
      PROVE  UNCHANGED <<sock, conn, pend, toCli, work, cancelled>>
  BY <1>1 DEF Proxy, WebRefuse, WebStart, VisitorLeaves, WebReturnUnavailable,
              WebReturnBad, WebReturnStream, WebRejected, WebTimeout, WebBuildFails,
              Catch, ProxyEvent, EventLost
<1>2. ASSUME NEW r \in Requests, Proxy(r) \/ Client(r) \/ Cli(r)
      PROVE  WorkInv(q)'
  <2>1. CASE q # r
    BY <1>2, <2>1, WireOther, StepOther, WorkFrame
  <2>2. CASE q = r
    BY <1>1, <1>2, <2>2, WorkClient, WorkCli, WorkFrame
  <2> QED
    BY <2>1, <2>2
<1>3. CASE SocketCloses \/ SocketClosed \/ CliDisconnects
  BY <1>3, WorkFrame DEF SocketCloses, SocketClosed, CliDisconnects
<1>4. CASE Dispose \/ UNCHANGED vars
  BY <1>4, WorkFrame DEF Dispose, vars
<1> QED
  BY <1>2, <1>3, <1>4 DEF Next

\* While the tunnel stands, the local app works only for requests that are
\* still pending or whose cancellation is on its way to the CLI or has reached
\* the goroutine, however timeouts, cancellations, errors of the app and the
\* reading of frames interleave (failPending and proxy.cancel send the cancel,
\* the CLI's read loop applies it).
THEOREM NothingForgotten == Spec => []NoForgottenWork
<1> DEFINE Inv == TypeOK /\ \A r \in Requests : WorkInv(r) /\ OrderInv(r) /\ WireInv(r)
                                                /\ PendingInv(r)
<1>1. Init => Inv
  BY TypeInit DEF Init, WorkInv, OrderInv, PendingInv, WireInv, InMap
<1>2. Inv /\ [Next]_vars => Inv'
  BY TypeStep, WorkStep, OrderStep, PendingStep, WireStep
<1>3. Inv => NoForgottenWork
  <2> SUFFICES ASSUME Inv, NEW r \in Requests, Running(r), ~InMap(r), sock = "open", conn
               PROVE  cancelled[r] \/ \E i \in DOMAIN toCli[r] : toCli[r][i] = "request.cancel"
    BY DEF NoForgottenWork
  <2>1. pend[r] = "gone" /\ toCli[r] \in Seq({"request.start", "request.cancel"})
    BY DEF TypeOK, ClientTypes, QueueTypes, InMap, Running, WireInv
  <2>2. Told(r)
    BY <2>1 DEF WorkInv, Running
  <2> QED
    BY <2>1, <2>2 DEF Told
<1> QED
  BY <1>1, <1>2, <1>3, PTL DEF Spec

-----------------------------------------------------------------------------
(* Every response stream will end, on a bus that loses nothing.             *)
(*                                                                          *)
(* A request that leaves the map after response.start queues its end or an  *)
(* error, except on a proxy.cancel: then the entry was settled before the   *)
(* event was sent. One that leaves it before rejects the call, and the      *)
(* handler has not returned, for an entry is live behind a handler that has *)
(* returned only if the call was answered.                                  *)

\* The event that ends the stream of r waits in the chain.
EndQueued(r) == \E i \in 1 .. Len(delivery[r]) : delivery[r][i].t \in Ends

\* What is on its way for an entry that is live behind a forgotten request.
EndInv(r) ==
  /\ cancelMsg[r] => entry[r] = "settled"
  /\ entry[r] = "live" => web[r] = "waiting" \/ (web[r] = "done" /\ rpc[r] = "ok")
  /\ entry[r] = "live" /\ pend[r] = "gone" =>
       EndQueued(r) \/ (web[r] = "waiting" /\ rpc[r] \in Rejections)

\* A request that a step does not concern keeps its part of the invariant.
LEMMA EndFrame ==
  ASSUME NEW q, EndInv(q), cancelMsg'[q] = cancelMsg[q], entry'[q] = entry[q],
         web'[q] = web[q], rpc'[q] = rpc[q], pend'[q] = pend[q],
         delivery'[q] = delivery[q]
  PROVE  EndInv(q)'
BY DEF EndInv, EndQueued

\* A settled entry asks for nothing.
LEMMA EndSettled ==
  ASSUME NEW q, entry'[q] = "settled"
  PROVE  EndInv(q)'
BY DEF EndInv

\* Every step of the proxy plugin keeps the invariant: whatever ends the
\* handler's wait without an answer settles the entry, and so does an end.
LEMMA EndProxy ==
  ASSUME TypeOK, ~LossyBus, NEW r \in Requests, Proxy(r), EndInv(r), ExchangeInv(r),
         PendingInv(r)
  PROVE  EndInv(r)'
<1> USE DEF clientVars, busVars
<1>1. ProxyTypes /\ BusTypes /\ delivery \in [Requests -> Seq(Frames)]
  BY DEF TypeOK, QueueTypes
<1>2. CASE WebRefuse(r)
  <2>1. entry[r] = "none" /\ entry'[r] = "none" /\ UNCHANGED cancelMsg
    BY <1>2 DEF WebRefuse, ExchangeInv
  <2> QED
    BY <2>1 DEF EndInv
<1>3. CASE WebStart(r)
  <2>1. entry[r] = "none" /\ pend[r] = "none" /\ UNCHANGED <<pend, cancelMsg>>
    BY <1>3 DEF WebStart, ExchangeInv, PendingInv
  <2>2. web'[r] = "waiting"
    BY <1>1, <1>3 DEF WebStart, ProxyTypes
  <2> QED
    BY <2>1, <2>2 DEF EndInv
<1>4. CASE VisitorLeaves(r)
  <2>1. CASE entry[r] = "live"
    <3>1. entry'[r] = "settled"
      BY <1>4, <2>1 DEF VisitorLeaves, CancelPublic
    <3> QED
      BY <3>1, EndSettled
  <2>2. CASE entry[r] # "live"
    <3>1. entry'[r] = entry[r] /\ cancelMsg'[r] = cancelMsg[r]
      BY <1>1, <1>4, <2>2 DEF VisitorLeaves, CancelPublic, BusTypes
    <3> QED
      BY <2>2, <3>1 DEF EndInv
  <2> QED
    BY <2>1, <2>2
<1>5. CASE WebReturnUnavailable(r)
  <2>1. entry'[r] = "settled"
    BY <1>1, <1>5 DEF WebReturnUnavailable, ProxyTypes
  <2> QED
    BY <2>1, EndSettled
<1>6. CASE WebReturnBad(r) \/ WebRejected(r) \/ WebTimeout(r) \/ WebBuildFails(r)
  <2>1. CASE entry[r] = "live"
    <3>1. entry'[r] = "settled"
      BY <1>1, <1>6, <2>1
         DEF WebReturnBad, WebRejected, WebTimeout, WebBuildFails, Catch, Finish, ProxyTypes
    <3> QED
      BY <3>1, EndSettled
  <2>2. CASE entry[r] # "live"
    <3>1. UNCHANGED <<entry, cancelMsg>>
      BY <1>6, <2>2 DEF WebReturnBad, WebRejected, WebTimeout, WebBuildFails, Catch
    <3> QED
      BY <2>2, <3>1 DEF EndInv
  <2> QED
    BY <2>1, <2>2
<1>7. CASE WebReturnStream(r)
  <2>1. rpc[r] = "ok" /\ web'[r] = "done"
    BY <1>1, <1>7 DEF WebReturnStream, Return, ProxyTypes
  <2>2. UNCHANGED <<entry, cancelMsg, rpc, pend, delivery>>
    BY <1>7 DEF WebReturnStream
  <2>3. rpc[r] \notin Rejections
    BY <2>1 DEF Rejections
  <2> QED
    BY <2>1, <2>2, <2>3 DEF EndInv, EndQueued
<1>8. CASE ProxyEvent(r)
  <2>1. UNCHANGED <<web, rpc, pend, cancelMsg>> /\ delivery[r] # <<>>
        /\ delivery'[r] = Tail(delivery[r])
    BY <1>1, <1>8 DEF ProxyEvent
  <2>2. CASE entry[r] # "live"
    BY <1>8, <2>1, <2>2 DEF ProxyEvent, EndInv
  <2>3. CASE entry[r] = "live" /\ Head(delivery[r]).t \in Ends
    <3>1. entry'[r] = "settled"
      BY <1>1, <1>8, <2>3 DEF ProxyEvent, Finish, Ends, ProxyTypes
    <3> QED
      BY <3>1, EndSettled
  <2>4. CASE entry[r] = "live" /\ Head(delivery[r]).t \notin Ends
    <3>1. UNCHANGED entry
      BY <1>8, <2>4 DEF ProxyEvent, Ends
    <3>2. /\ Head(delivery[r]) = delivery[r][1]
          /\ \A i \in 2 .. Len(delivery[r]) :
               i - 1 \in 1 .. Len(delivery'[r]) /\ delivery'[r][i - 1] = delivery[r][i]
      BY <1>1, <2>1, TailOf
    <3>3. EndQueued(r) => EndQueued(r)'
      <4>1. SUFFICES ASSUME NEW i \in 1 .. Len(delivery[r]), delivery[r][i].t \in Ends
                     PROVE  EndQueued(r)'
        BY DEF EndQueued
      <4>2. i \in 2 .. Len(delivery[r])
        BY <2>4, <3>2, <4>1
      <4> QED
        BY <3>2, <4>1, <4>2 DEF EndQueued
    <3> QED
      BY <2>1, <3>1, <3>3 DEF EndInv
  <2> QED
    BY <2>2, <2>3, <2>4
<1>9. ~EventLost(r)
  BY DEF EventLost
<1> QED
  BY <1>2, <1>3, <1>4, <1>5, <1>6, <1>7, <1>8, <1>9 DEF Proxy

\* Every step of the client plugin that gives a request up rejects the call
\* or queues the end of the stream.
LEMMA EndClient ==
  ASSUME TypeOK, NEW r \in Requests, Client(r), EndInv(r), PendingInv(r)
  PROVE  EndInv(r)'
<1> USE DEF proxyVars, clientVars
<1>1. /\ BusTypes /\ pend \in [Requests -> {"none", "waiting", "started", "gone"}]
      /\ delivery \in [Requests -> Seq(Frames)] /\ toSrv[r] \in Seq(Frames)
  BY DEF TypeOK, ClientTypes, QueueTypes
<1>2. UNCHANGED <<entry, web>>
  BY DEF Client, ClientRequest, HandleClientFrame, TotalTimeout, IdleTimeout, TimerFails,
         ClientCancel, CancelLost
<1>3. ASSUME NEW event \in Frames, event.t \in Ends, QueueDelivery(r, event)
      PROVE  EndQueued(r)'
  <2>1. delivery'[r] = Append(delivery[r], event) /\ Len(delivery[r]) \in Nat
    BY <1>1, <1>3 DEF QueueDelivery
  <2>2. /\ Len(delivery'[r]) = Len(delivery[r]) + 1
        /\ delivery'[r][Len(delivery[r]) + 1] = event
    BY <1>1, <2>1, AppendOf
  <2>3. Len(delivery[r]) + 1 \in 1 .. Len(delivery'[r])
    BY <2>1, <2>2
  <2> QED
    BY <1>3, <2>2, <2>3 DEF EndQueued
<1>4. Frame("end") \in Frames /\ Frame("error") \in Frames
      /\ Frame("end").t \in Ends /\ Frame("error").t \in Ends
  BY DEF Frame, Frames, OtherFrames, Ends
\* failPending.
<1>5. ASSUME NEW why \in Rejections, InMap(r), Fail(r, why), UNCHANGED cancelMsg
      PROVE  EndInv(r)'
  <2>1. CASE pend[r] = "waiting"
    <3>1. rpc[r] = "serving" /\ rpc'[r] = why
      BY <1>1, <1>5, <2>1 DEF Fail, SettlePromise, PendingInv, BusTypes
    <3> QED
      BY <1>2, <1>5, <3>1 DEF EndInv
  <2>2. CASE pend[r] # "waiting"
    <3>1. EndQueued(r)' /\ UNCHANGED rpc
      BY <1>3, <1>4, <1>5, <2>2 DEF Fail
    <3> QED
      BY <1>2, <1>5, <3>1 DEF EndInv
  <2> QED
    BY <2>1, <2>2
<1>6. CASE ClientRequest(r)
  <2>1. pend[r] = "none" /\ rpc[r] = "called" /\ pend'[r] \in {"none", "waiting"}
        /\ UNCHANGED cancelMsg
    BY <1>1, <1>6 DEF ClientRequest, PendingInv
  <2> QED
    BY <1>2, <2>1 DEF EndInv
<1>7. CASE HandleClientFrame(r)
  <2> DEFINE f == Head(toSrv[r])
  <2>1. UNCHANGED cancelMsg
    BY <1>7 DEF HandleClientFrame
  <2>2. CASE ~InMap(r) /\ UNCHANGED <<clientVars, rpc, toCli>>
    BY <1>2, <2>1, <2>2, EndFrame
  <2>3. CASE InMap(r) /\ OnStart(r, f.t)
    <3>1. pend'[r] = "started" /\ (rpc'[r] = rpc[r] \/ rpc[r] = "serving")
      BY <1>1, <2>3 DEF OnStart, SettlePromise
    <3> QED
      BY <1>2, <2>1, <3>1 DEF EndInv
  <2>4. CASE InMap(r) /\ f.t = "body" /\ OnBody(r, f.n)
    <3>1. UNCHANGED <<pend, rpc>>
      BY <2>4 DEF OnBody
    <3> QED
      BY <1>2, <2>1, <2>4, <3>1 DEF EndInv, InMap
  <2>5. CASE InMap(r) /\ OnEnd(r)
    <3>1. EndQueued(r)' /\ UNCHANGED rpc
      BY <1>3, <1>4, <2>5 DEF OnEnd
    <3> QED
      BY <1>2, <2>1, <3>1 DEF EndInv
  <2>6. CASE InMap(r) /\ OnError(r)
    BY <1>5, <2>1, <2>6 DEF OnError, Rejections
  <2> QED
    BY <1>7, <2>2, <2>3, <2>4, <2>5, <2>6 DEF HandleClientFrame
<1>8. CASE TotalTimeout(r) \/ IdleTimeout(r)
  BY <1>5, <1>8 DEF TotalTimeout, IdleTimeout, TimerFails, Rejections
<1>9. CASE ClientCancel(r) \/ CancelLost(r)
  <2>1. entry[r] = "settled"
    BY <1>9 DEF ClientCancel, CancelLost, EndInv
  <2> QED
    BY <1>2, <2>1, EndSettled
<1> QED
  BY <1>6, <1>7, <1>8, <1>9 DEF Client

\* Every step keeps the invariant of every request.
LEMMA EndStep ==
  ASSUME TypeOK, ~LossyBus, [Next]_vars, NEW q \in Requests, EndInv(q), ExchangeInv(q),
         PendingInv(q)
  PROVE  EndInv(q)'
<1> USE DEF proxyVars, clientVars, busVars, wireVars, cliVars
<1>1. ASSUME NEW r \in Requests, Proxy(r) \/ Client(r) \/ Cli(r)
      PROVE  EndInv(q)'
  <2>1. CASE q # r
    BY <1>1, <2>1, WireOther, StepOther, EndFrame
  <2>2. CASE q = r /\ Cli(r)
    <3>1. UNCHANGED <<cancelMsg, entry, web, rpc, pend, delivery>>
      BY <2>2 DEF Cli, CliFrame, CliStart, CliBody, CliEnd, CliError, CliAborts
    <3> QED
      BY <3>1, EndFrame
  <2> QED
    BY <1>1, <2>1, <2>2, EndProxy, EndClient
<1>2. CASE Dispose
  <2>1. CASE entry[q] = "live"
    <3>1. entry'[q] = "settled"
      BY <1>2, <2>1 DEF Dispose, CancelPublic
    <3> QED
      BY <3>1, EndSettled
  <2>2. CASE entry[q] # "live"
    <3>1. entry'[q] = entry[q] /\ cancelMsg'[q] = cancelMsg[q]
      BY <1>2, <2>2 DEF Dispose, CancelPublic, TypeOK, BusTypes
    <3> QED
      BY <2>2, <3>1 DEF EndInv
  <2> QED
    BY <2>1, <2>2
<1>3. CASE SocketClosed
  <2>1. UNCHANGED <<cancelMsg, entry, web>>
    BY <1>3 DEF SocketClosed
  <2>2. CASE pend[q] = "waiting"
    <3>1. rpc[q] = "serving" /\ rpc'[q] = "disconnected"
      BY <1>3, <2>2 DEF SocketClosed, PendingInv
    <3> QED
      BY <2>1, <3>1 DEF EndInv, Rejections
  <2>3. CASE pend[q] = "started"
    <3>1. delivery[q] \in Seq(Frames) /\ Frame("error") \in Frames
          /\ Frame("error").t \in Ends
      BY DEF TypeOK, QueueTypes, Frame, Frames, OtherFrames, Ends
    <3>2. delivery'[q] = Append(delivery[q], Frame("error")) /\ rpc'[q] = rpc[q]
      BY <1>3, <2>3 DEF SocketClosed
    <3>3. /\ Len(delivery[q]) + 1 \in 1 .. Len(delivery'[q])
          /\ delivery'[q][Len(delivery[q]) + 1] = Frame("error")
      BY <3>1, <3>2, AppendOf
    <3> QED
      BY <2>1, <3>1, <3>2, <3>3 DEF EndInv, EndQueued
  <2>4. CASE pend[q] \notin {"waiting", "started"}
    BY <1>3, <2>1, <2>4, EndFrame DEF SocketClosed, InMap
  <2> QED
    BY <2>2, <2>3, <2>4
<1>4. CASE SocketCloses \/ CliDisconnects \/ UNCHANGED vars
  BY <1>4, EndFrame DEF SocketCloses, CliDisconnects, vars
<1> QED
  BY <1>1, <1>2, <1>3, <1>4 DEF Next

\* On a bus that loses nothing, no response stream is left open behind a
\* request the client plugin has given up: its end or error event is queued,
\* or the rejected call is on its way to the handler (failPending, response.end
\* and the close of the socket against timeouts, cancels and a shutdown).
THEOREM StreamsEnd ==
  ASSUME ~LossyBus
  PROVE  Spec => []StreamWillEnd
<1> DEFINE Inv == TypeOK /\ \A r \in Requests : EndInv(r) /\ ExchangeInv(r) /\ WireInv(r)
                                                /\ PendingInv(r)
<1>1. Init => Inv
  BY TypeInit DEF Init, EndInv, ExchangeInv, PendingInv, WireInv, InMap
<1>2. Inv /\ [Next]_vars => Inv'
  BY TypeStep, EndStep, ExchangeStep, PendingStep, WireStep
<1>3. Inv => StreamWillEnd
  <2>1. ASSUME Inv, NEW r \in Requests
        PROVE  DOMAIN delivery[r] = 1 .. Len(delivery[r])
    BY <2>1 DEF TypeOK, QueueTypes
  <2> QED
    BY <2>1 DEF EndInv, EndQueued, StreamWillEnd, Ends
<1> QED
  BY <1>1, <1>2, <1>3, PTL DEF Spec

-----------------------------------------------------------------------------
(* Chunks arrive in order, and a closed stream is whole, on a bus that      *)
(* loses nothing.                                                           *)
(*                                                                          *)
(* While the entry is live, the stream, the chain of events and, as long as *)
(* the request is in the map, the frames from the CLI hold the chunks 1, 2, *)
(* 3, ... one after the other up to the last one sent; an end or an error   *)
(* comes only after all of them. When the entry settles the stream stops    *)
(* where it is; if it was an end that settled it, nothing is missing.       *)

\* The frames of s hold the chunks after the k-th, up to the m-th or, before
\* an end or error, a last one.
Continues(s, k, m) ==
  /\ \A i \in 1 .. Len(s) : s[i].t \notin Ends => s[i] = BodyFrame(k + i)
  /\ \A i \in 1 .. Len(s) : s[i].t \in Ends => i = Len(s) /\ k + i = m + 1
  /\ (\A i \in 1 .. Len(s) : s[i].t \notin Ends) => k + Len(s) = m

\* The i-th event queued for the stream, which may be the last.
EventInOrder(r, i) ==
  \/ delivery[r][i] = BodyFrame(Len(got[r]) + i) /\ Len(got[r]) + i <= sent[r]
  \/ /\ i = Len(delivery[r]) /\ pend[r] = "gone"
     /\ \/ delivery[r][i].t = "error"
        \/ /\ delivery[r][i].t = "end"
           /\ work[r] = "finished" /\ Len(got[r]) + i = sent[r] + 1

\* The frames of a request in the map.
FramesInOrder(r) ==
  /\ pend[r] = "started" => Continues(toSrv[r], Len(got[r]) + Len(delivery[r]), sent[r])
  /\ pend[r] = "waiting" =>
       /\ got[r] = <<>> /\ delivery[r] = <<>>
       /\ toSrv[r] = <<>> => sent[r] = 0
       /\ toSrv[r] # <<>> /\ toSrv[r][1].t \in Starts => Continues(Tail(toSrv[r]), 0, sent[r])

\* The local app has finished, and the stream has all it sent.
Whole(r) == work[r] = "finished" /\ Len(got[r]) = sent[r]

\* Chunks are in order in the stream, the chain and the frames, and a stream that
\* closed has all of them.
ChunkInv(r) ==
  /\ Len(got[r]) <= sent[r]
  /\ \A i \in 1 .. Len(got[r]) : got[r][i] = i
  /\ entry[r] = "live" =>
       (\A i \in 1 .. Len(delivery[r]) : EventInOrder(r, i)) /\ FramesInOrder(r)
  /\ stream[r] = "closed" /\ ~disposed /\ answer[r] \notin {"4xx", "503"} => Whole(r)
  /\ answer[r] \in {"4xx", "503"} => web[r] = "done"

\* A request that a step does not concern keeps its part of the invariant.
LEMMA ChunkFrame ==
  ASSUME NEW q, ChunkInv(q), got'[q] = got[q], sent'[q] = sent[q], work'[q] = work[q],
         entry'[q] = entry[q], delivery'[q] = delivery[q], pend'[q] = pend[q],
         toSrv'[q] = toSrv[q], stream'[q] = stream[q], disposed' = disposed,
         answer'[q] = answer[q], web'[q] = web[q]
  PROVE  ChunkInv(q)'
<1>1. FramesInOrder(q) => FramesInOrder(q)'
  BY DEF FramesInOrder
<1>2. \A i : EventInOrder(q, i) => EventInOrder(q, i)'
  BY DEF EventInOrder
<1>3. Whole(q) => Whole(q)'
  BY DEF Whole
<1> QED
  BY <1>1, <1>2, <1>3 DEF ChunkInv

\* A response without its first frame.
LEMMA ContinuesTail ==
  ASSUME NEW s \in Seq(Frames), s # <<>>, NEW k \in Nat, NEW m \in Nat,
         Continues(s, k, m), s[1].t \notin Ends
  PROVE  s[1] = BodyFrame(k + 1) /\ k + 1 <= m /\ Continues(Tail(s), k + 1, m)
<1>1. /\ Len(s) \in Nat \ {0} /\ Len(Tail(s)) = Len(s) - 1
      /\ \A i \in 1 .. Len(Tail(s)) : i + 1 \in 1 .. Len(s) /\ Tail(s)[i] = s[i + 1]
      /\ \A i \in 2 .. Len(s) : i - 1 \in 1 .. Len(Tail(s)) /\ Tail(s)[i - 1] = s[i]
      /\ 1 \in 1 .. Len(s)
  BY TailOf
<1>2. s[1] = BodyFrame(k + 1)
  BY <1>1 DEF Continues
<1>3. k + 1 <= m
  <2>1. CASE \A i \in 1 .. Len(s) : s[i].t \notin Ends
    <3>1. k + Len(s) = m
      BY <2>1 DEF Continues
    <3> QED
      BY <1>1, <3>1
  <2>2. CASE \E i \in 1 .. Len(s) : s[i].t \in Ends
    <3>1. PICK i \in 1 .. Len(s) : s[i].t \in Ends
      BY <2>2
    <3>2. i # 1 /\ k + i = m + 1
      BY <3>1 DEF Continues
    <3> QED
      BY <1>1, <3>2
  <2> QED
    BY <2>1, <2>2
<1>4. \A i \in 1 .. Len(Tail(s)) :
        Tail(s)[i].t \notin Ends => Tail(s)[i] = BodyFrame((k + 1) + i)
  <2>1. ASSUME NEW i \in 1 .. Len(Tail(s)), Tail(s)[i].t \notin Ends
        PROVE  Tail(s)[i] = BodyFrame((k + 1) + i)
    <3>1. Tail(s)[i] = BodyFrame(k + (i + 1))
      BY <1>1, <2>1 DEF Continues
    <3>2. k + (i + 1) = (k + 1) + i
      BY <1>1
    <3> QED
      BY <3>1, <3>2
  <2> QED
    BY <2>1
<1>5. \A i \in 1 .. Len(Tail(s)) :
        Tail(s)[i].t \in Ends => i = Len(Tail(s)) /\ (k + 1) + i = m + 1
  <2>1. ASSUME NEW i \in 1 .. Len(Tail(s)), Tail(s)[i].t \in Ends
        PROVE  i = Len(Tail(s)) /\ (k + 1) + i = m + 1
    <3>1. i + 1 \in 1 .. Len(s) /\ s[i + 1].t \in Ends
      BY <1>1, <2>1
    <3>2. \A j \in 1 .. Len(s) : s[j].t \in Ends => j = Len(s) /\ k + j = m + 1
      BY DEF Continues
    <3>3. i + 1 = Len(s) /\ k + (i + 1) = m + 1
      BY <3>1, <3>2, Zenon
    <3>4. Len(s) \in Nat /\ Len(Tail(s)) = Len(s) - 1 /\ i \in Nat
      BY <1>1
    <3>5. i = Len(Tail(s))
      BY <3>3, <3>4
    <3>6. (k + 1) + i = m + 1
      BY <3>3, <3>4
    <3> QED
      BY <3>5, <3>6
  <2> QED
    BY <2>1
<1>6. (\A i \in 1 .. Len(Tail(s)) : Tail(s)[i].t \notin Ends) => (k + 1) + Len(Tail(s)) = m
  <2>1. ASSUME \A i \in 1 .. Len(Tail(s)) : Tail(s)[i].t \notin Ends
        PROVE  \A i \in 1 .. Len(s) : s[i].t \notin Ends
    <3>1. ASSUME NEW i \in 1 .. Len(s)
          PROVE  s[i].t \notin Ends
      <4>1. i = 1 \/ i \in 2 .. Len(s)
        BY <1>1
      <4> QED
        BY <1>1, <2>1, <4>1
    <3> QED
      BY <3>1
  <2>2. (\A i \in 1 .. Len(s) : s[i].t \notin Ends) => k + Len(s) = m
    BY DEF Continues
  <2>3. k + Len(s) = m => (k + 1) + Len(Tail(s)) = m
    BY <1>1
  <2> QED
    BY <2>1, <2>2, <2>3
<1> QED
  BY <1>2, <1>3, <1>4, <1>5, <1>6 DEF Continues

\* A response with one more chunk, or its end.
LEMMA ContinuesAppend ==
  ASSUME NEW s \in Seq(Frames), NEW k \in Nat, NEW m \in Nat, Continues(s, k, m),
         \A i \in 1 .. Len(s) : s[i].t \notin Ends, NEW f \in Frames
  PROVE  /\ f = BodyFrame(m + 1) => Continues(Append(s, f), k, m + 1)
         /\ f.t \in Ends => Continues(Append(s, f), k, m)
<1> DEFINE u == Append(s, f)
<1>1. /\ Len(s) \in Nat /\ Len(u) = Len(s) + 1
      /\ \A i \in 1 .. Len(s) : u[i] = s[i]
      /\ u[Len(s) + 1] = f
  BY AppendOf
<1>2. k + Len(s) = m
  BY DEF Continues
<1>3. \A i \in 1 .. Len(u) : i \in 1 .. Len(s) \/ (i = Len(u) /\ u[i] = f /\ k + i = m + 1)
  BY <1>1, <1>2
<1>4. \A i \in 1 .. Len(s) : u[i].t \notin Ends /\ u[i] = BodyFrame(k + i)
  BY <1>1 DEF Continues
<1>5. k + Len(u) = m + 1 /\ Len(u) \in 1 .. Len(u)
  BY <1>1, <1>2
<1>6. BodyFrame(m + 1).t \notin Ends
  BY DEF BodyFrame, Ends
<1> HIDE DEF u
<1>7. f = BodyFrame(m + 1) => Continues(u, k, m + 1)
  BY <1>3, <1>4, <1>5, <1>6 DEF Continues
<1>8. f.t \in Ends => Continues(u, k, m)
  BY <1>1, <1>3, <1>4, <1>5 DEF Continues
<1> QED
  BY <1>7, <1>8 DEF u

\* Once an entry is not live, only the way its stream ended is asked of it.
LEMMA ChunkNotLive ==
  ASSUME NEW q, ChunkInv(q), entry'[q] # "live", got'[q] = got[q], sent'[q] = sent[q],
         work'[q] = work[q], answer'[q] \in {"4xx", "503"} => web'[q] = "done",
         \/ stream'[q] # "closed" \/ disposed' \/ answer'[q] \in {"4xx", "503"}
         \/ /\ stream[q] = "closed" /\ ~disposed /\ answer[q] \notin {"4xx", "503"}
  PROVE  ChunkInv(q)'
BY DEF ChunkInv, Whole

\* The handler and the stream's cancel keep the invariant: they settle the
\* entry without a claim that the response is whole.
LEMMA ChunkWeb ==
  ASSUME TypeOK, NEW r \in Requests, Proxy(r), ~ProxyEvent(r), ~EventLost(r),
         ChunkInv(r), ExchangeInv(r), PendingInv(r), OrderInv(r)
  PROVE  ChunkInv(r)'
<1> USE DEF clientVars, busVars, wireVars, cliVars
<1>1. ProxyTypes /\ got \in [Requests -> Seq(Chunks)]
  BY DEF TypeOK, QueueTypes
<1>2. UNCHANGED <<got, delivery, pend, toSrv, work, sent, disposed>>
  BY DEF Proxy, WebRefuse, WebStart, VisitorLeaves, WebReturnUnavailable, WebReturnBad,
         WebReturnStream, WebRejected, WebTimeout, WebBuildFails, Catch
<1>3. CASE WebRefuse(r)
  <2>1. entry'[r] # "live" /\ answer'[r] \in {"4xx", "503"} /\ web'[r] = "done"
    BY <1>1, <1>3 DEF WebRefuse, ExchangeInv, ProxyTypes, Return
  <2> QED
    BY <1>2, <2>1, ChunkNotLive
<1>4. CASE WebStart(r)
  <2>1. pend[r] = "none" /\ web[r] # "done"
    BY <1>4 DEF WebStart, PendingInv
  <2>2. delivery[r] = <<>> /\ got[r] = <<>>
    BY <2>1 DEF OrderInv
  <2>3. UNCHANGED <<answer, stream>>
    BY <1>4 DEF WebStart
  <2>4. \A i \in 1 .. Len(delivery'[r]) : FALSE
    BY <1>2, <2>2
  <2> QED
    BY <1>2, <2>1, <2>3, <2>4 DEF ChunkInv, FramesInOrder, Whole
<1>5. CASE VisitorLeaves(r)
  <2>1. UNCHANGED <<answer, web>>
    BY <1>5 DEF VisitorLeaves
  <2>2. stream[r] = "open" /\ answer[r] = "relayed"
    BY <1>5 DEF VisitorLeaves
  <2>3. entry'[r] # "live" /\ stream'[r] # "closed"
    BY <1>1, <1>5, <2>2 DEF VisitorLeaves, CancelPublic, ProxyTypes
  <2> QED
    BY <1>2, <2>1, <2>2, <2>3, ChunkNotLive
<1>6. CASE WebReturnUnavailable(r) \/ WebReturnBad(r) \/ WebRejected(r) \/ WebTimeout(r)
           \/ WebBuildFails(r)
  <2>1. answer'[r] = "503" /\ web'[r] = "done"
    BY <1>1, <1>6 DEF WebReturnUnavailable, WebReturnBad, WebRejected, WebTimeout,
           WebBuildFails, Catch, Return, ProxyTypes
  <2>2. entry'[r] # "live"
    BY <1>1, <1>6 DEF WebReturnUnavailable, WebReturnBad, WebRejected, WebTimeout,
           WebBuildFails, Catch, Finish, ProxyTypes
  <2> QED
    BY <1>2, <2>1, <2>2, ChunkNotLive
<1>7. CASE WebReturnStream(r)
  <2>1. answer[r] \notin {"4xx", "503"}
    BY <1>7 DEF WebReturnStream, ChunkInv
  <2>2. answer'[r] = "relayed" /\ web'[r] = "done" /\ UNCHANGED <<entry, stream>>
    BY <1>1, <1>7 DEF WebReturnStream, Return, ProxyTypes
  <2> QED
    BY <1>2, <2>1, <2>2 DEF ChunkInv, EventInOrder, FramesInOrder, Whole
<1> QED
  BY <1>3, <1>4, <1>5, <1>6, <1>7 DEF Proxy

\* An event that reaches a live entry is the next chunk, the end after the
\* last one, or an error.
LEMMA ChunkEvent ==
  ASSUME TypeOK, NEW r \in Requests, ProxyEvent(r), ChunkInv(r), OrderInv(r)
  PROVE  ChunkInv(r)'
<1> USE DEF clientVars, busVars, wireVars, cliVars
<1>1. /\ ProxyTypes /\ got[r] \in Seq(Chunks) /\ delivery[r] \in Seq(Frames)
      /\ got \in [Requests -> Seq(Chunks)] /\ delivery \in [Requests -> Seq(Frames)]
      /\ sent[r] \in Nat
  BY MaxChunksAssumption DEF TypeOK, QueueTypes, CliTypes
<1>2. /\ UNCHANGED <<pend, toSrv, work, sent, disposed, answer, web>>
      /\ delivery[r] # <<>> /\ delivery'[r] = Tail(delivery[r])
  BY DEF ProxyEvent, TypeOK, QueueTypes
<1>3. /\ Len(delivery[r]) \in Nat \ {0} /\ Len(delivery'[r]) = Len(delivery[r]) - 1
      /\ Head(delivery[r]) = delivery[r][1] /\ 1 \in 1 .. Len(delivery[r])
      /\ \A i \in 1 .. Len(delivery'[r]) :
           i + 1 \in 1 .. Len(delivery[r]) /\ delivery'[r][i] = delivery[r][i + 1]
  BY <1>1, <1>2, TailOf
<1>4. Len(got[r]) \in Nat
  BY <1>1
<1>5. CASE entry[r] # "live"
  <2>1. UNCHANGED <<entry, stream, got>>
    BY <1>5 DEF ProxyEvent
  <2> QED
    BY <1>2, <1>5, <2>1 DEF ChunkInv, Whole
<1>6. CASE entry[r] = "live" /\ Head(delivery[r]).t = "body"
  <2> DEFINE n == Len(got[r])
  <2>1. delivery[r][1] = BodyFrame(n + 1) /\ n + 1 <= sent[r]
    BY <1>3, <1>6 DEF ChunkInv, EventInOrder
  <2>2. /\ got'[r] = Append(got[r], n + 1)
        /\ UNCHANGED <<entry, stream>>
    BY <1>3, <1>6, <2>1 DEF ProxyEvent, BodyFrame, TypeOK, QueueTypes
  <2>3. n + 1 \in Chunks
    BY <1>1, <1>4, <2>1, MaxChunksAssumption DEF Chunks, TypeOK, CliTypes
  <2>4. /\ Len(got'[r]) = n + 1
        /\ \A i \in 1 .. n : got'[r][i] = got[r][i]
        /\ got'[r][n + 1] = n + 1
    BY <1>1, <2>2, <2>3, AppendOf
  <2>5. Len(got'[r]) = Len(got[r]) + 1
    BY <1>1, <2>2, <2>3, AppendOf
  <2>6. Len(got'[r]) <= sent'[r] /\ \A i \in 1 .. Len(got'[r]) : got'[r][i] = i
    <3>1. \A i \in 1 .. n : got[r][i] = i
      BY DEF ChunkInv
    <3>2. \A i \in 1 .. n + 1 : i \in 1 .. n \/ i = n + 1
      BY <1>4
    <3> QED
      BY <1>2, <2>1, <2>4, <3>1, <3>2
  <2>7. ASSUME NEW i \in 1 .. Len(delivery'[r])
        PROVE  EventInOrder(r, i)'
    <3>1. EventInOrder(r, i + 1)
      BY <1>3, <1>6 DEF ChunkInv
    <3>2. /\ delivery'[r][i] = delivery[r][i + 1]
          /\ i + 1 = Len(delivery[r]) => i = Len(delivery'[r])
      BY <1>3
    <3>3. i \in Nat
      BY <1>3
    <3>4. Len(got'[r]) + i = Len(got[r]) + (i + 1)
      <4>1. Len(got'[r]) + i = (Len(got[r]) + 1) + i
        BY <2>5, Zenon
      <4>2. (Len(got[r]) + 1) + i = Len(got[r]) + (i + 1)
        BY <1>1, <1>4, <3>3
      <4> QED
        BY <4>1, <4>2, Zenon
    <3> QED
      BY <1>2, <3>1, <3>2, <3>4 DEF EventInOrder
  <2>8. FramesInOrder(r)'
    <3>1. Len(got'[r]) + Len(delivery'[r]) = Len(got[r]) + Len(delivery[r])
      <4>1. Len(delivery'[r]) = Len(delivery[r]) - 1 /\ Len(delivery[r]) \in Nat
        BY <1>3
      <4>2. Len(got'[r]) + Len(delivery'[r]) = (Len(got[r]) + 1) + (Len(delivery[r]) - 1)
        BY <2>5, <4>1, Zenon
      <4>3. (Len(got[r]) + 1) + (Len(delivery[r]) - 1) = Len(got[r]) + Len(delivery[r])
        BY <1>1, <1>4, <4>1
      <4> QED
        BY <4>2, <4>3, Zenon
    <3>2. pend[r] # "waiting"
      BY <1>2, <1>6 DEF ChunkInv, FramesInOrder
    <3>3. FramesInOrder(r)
      BY <1>6 DEF ChunkInv
    <3> QED
      BY <1>2, <3>1, <3>2, <3>3 DEF FramesInOrder
  <2>9. ~(stream'[r] = "closed" /\ ~disposed' /\ answer'[r] \notin {"4xx", "503"})
    <3>1. ASSUME Whole(r) PROVE FALSE
      BY <1>1, <1>4, <2>1, <3>1 DEF Whole
    <3> QED
      BY <1>2, <2>2, <3>1 DEF ChunkInv
  <2> QED
    BY <1>2, <2>2, <2>6, <2>7, <2>8, <2>9 DEF ChunkInv
<1>7. CASE entry[r] = "live" /\ Head(delivery[r]).t = "end"
  <2>1. Frame("end") # BodyFrame(Len(got[r]) + 1) /\ "end" # "body"
    BY DEF Frame, BodyFrame
  <2>2. work[r] = "finished" /\ Len(got[r]) + 1 = sent[r] + 1
    <3>1. EventInOrder(r, 1)
      BY <1>3, <1>7 DEF ChunkInv
    <3> QED
      BY <1>3, <1>7, <3>1 DEF EventInOrder, BodyFrame
  <2>3. Len(got[r]) = sent[r]
    BY <1>1, <1>4, <2>2
  <2>4. entry'[r] = "settled" /\ got' = got
    BY <1>1, <1>7 DEF ProxyEvent, Finish, ProxyTypes
  <2> QED
    BY <1>2, <2>2, <2>3, <2>4 DEF ChunkInv, Whole
<1>8. CASE entry[r] = "live" /\ Head(delivery[r]).t = "error"
  <2>1. entry'[r] = "settled" /\ stream'[r] = "errored" /\ got' = got
    BY <1>1, <1>8 DEF ProxyEvent, Finish, ProxyTypes
  <2> QED
    BY <1>2, <2>1, ChunkNotLive DEF ChunkInv
<1> QED
  BY <1>5, <1>6, <1>7, <1>8 DEF ProxyEvent

\* A request that leaves the map unfinished: at most an error is queued.
LEMMA ChunkGone ==
  ASSUME TypeOK, NEW q \in Requests, ChunkInv(q),
         UNCHANGED <<got, sent, work, entry, stream, disposed, answer, web>>,
         pend'[q] = "gone",
         \/ delivery'[q] = delivery[q]
         \/ delivery'[q] = Append(delivery[q], Frame("error")) /\ pend[q] # "gone"
  PROVE  ChunkInv(q)'
<1>1. delivery[q] \in Seq(Frames)
  BY DEF TypeOK, QueueTypes
<1>2. Frame("error") \in Frames /\ Frame("error").t = "error"
  BY DEF Frame, Frames, OtherFrames
<1>3. CASE entry[q] # "live"
  BY <1>3, ChunkNotLive DEF ChunkInv
<1>4. CASE entry[q] = "live"
  <2>1. \A i \in 1 .. Len(delivery[q]) : EventInOrder(q, i)
    BY <1>4 DEF ChunkInv
  <2>2. ASSUME NEW i \in 1 .. Len(delivery'[q])
        PROVE  EventInOrder(q, i)'
    <3>1. CASE delivery'[q] = delivery[q]
      BY <2>1, <2>2, <3>1 DEF EventInOrder
    <3>2. CASE delivery'[q] = Append(delivery[q], Frame("error")) /\ pend[q] # "gone"
      <4>1. \/ i \in 1 .. Len(delivery[q]) /\ delivery'[q][i] = delivery[q][i]
            \/ i = Len(delivery'[q]) /\ delivery'[q][i] = Frame("error")
        BY <1>1, <1>2, <2>2, <3>2, AppendOf
      <4> QED
        BY <1>2, <2>1, <3>2, <4>1 DEF EventInOrder
    <3> QED
      BY <3>1, <3>2
  <2>3. FramesInOrder(q)'
    BY DEF FramesInOrder
  <2> QED
    BY <2>2, <2>3 DEF ChunkInv, Whole
<1> QED
  BY <1>3, <1>4

\* A frame of a started request reaches the chain in its order.
LEMMA ChunkQueued ==
  ASSUME TypeOK, NEW r \in Requests, ChunkInv(r), entry[r] = "live", pend[r] = "started",
         UNCHANGED <<got, sent, work, entry, stream, disposed, answer, web>>,
         NEW f \in Frames, delivery'[r] = Append(delivery[r], f),
         EventInOrder(r, Len(delivery[r]))', FramesInOrder(r)'
  PROVE  ChunkInv(r)'
<1>1. delivery[r] \in Seq(Frames)
  BY DEF TypeOK, QueueTypes
<1>2. \A i \in 1 .. Len(delivery[r]) : EventInOrder(r, i)
  BY DEF ChunkInv
<1>3. ASSUME NEW i \in 1 .. Len(delivery'[r])
      PROVE  EventInOrder(r, i)'
  <2>1. \/ i \in 1 .. Len(delivery[r]) /\ delivery'[r][i] = delivery[r][i]
        \/ i = Len(delivery'[r])
    BY <1>1, <1>3, AppendOf
  <2>2. CASE i \in 1 .. Len(delivery[r]) /\ delivery'[r][i] = delivery[r][i]
    BY <1>2, <2>2 DEF EventInOrder
  <2>3. CASE i = Len(delivery'[r])
    BY <2>3 DEF EventInOrder
  <2> QED
    BY <2>1, <2>2, <2>3
<1> QED
  BY <1>3 DEF ChunkInv, Whole

\* Every step of the client plugin keeps the invariant of its own request: a
\* frame moves from the socket to the chain of events in its order.
LEMMA ChunkClient ==
  ASSUME TypeOK, NEW r \in Requests, Client(r), ChunkInv(r), OrderInv(r), WireInv(r),
         PendingInv(r), EndInv(r)
  PROVE  ChunkInv(r)'
<1> USE DEF proxyVars, clientVars, cliVars
<1> DEFINE k == Len(got[r]) + Len(delivery[r])
<1>1. /\ pend \in [Requests -> {"none", "waiting", "started", "gone"}]
      /\ delivery \in [Requests -> Seq(Frames)] /\ toSrv \in [Requests -> Seq(Frames)]
      /\ delivery[r] \in Seq(Frames) /\ toSrv[r] \in Seq(Frames) /\ got[r] \in Seq(Chunks)
      /\ sent[r] \in Nat /\ got \in [Requests -> Seq(Chunks)]
  BY MaxChunksAssumption DEF TypeOK, ClientTypes, QueueTypes, CliTypes
<1>2. UNCHANGED <<got, sent, work, entry, stream, disposed, answer, web>>
  BY DEF Client, ClientRequest, HandleClientFrame, TotalTimeout, IdleTimeout, TimerFails,
         ClientCancel, CancelLost
<1>3. Len(got[r]) \in Nat /\ Len(delivery[r]) \in Nat /\ k \in Nat
  BY <1>1
<1> HIDE DEF k
<1>4. CASE entry[r] # "live"
  BY <1>2, <1>4, ChunkNotLive DEF ChunkInv
<1>5. CASE entry[r] = "live" /\ ClientRequest(r)
  <2>1. pend[r] = "none" /\ toSrv[r] = <<>> /\ work[r] = "none"
    BY <1>5 DEF ClientRequest, PendingInv, WireInv
  <2>2. delivery[r] = <<>> /\ got[r] = <<>> /\ sent[r] = 0
    BY <2>1 DEF OrderInv
  <2>3. UNCHANGED <<delivery, toSrv>> /\ pend'[r] # "started"
    BY <1>1, <1>5, <2>1 DEF ClientRequest
  <2>4. \A i \in 1 .. Len(delivery'[r]) : FALSE
    BY <2>2, <2>3
  <2>5. FramesInOrder(r)'
    BY <1>2, <2>1, <2>2, <2>3 DEF FramesInOrder
  <2> QED
    BY <1>2, <2>4, <2>5 DEF ChunkInv, Whole
<1>6. CASE entry[r] = "live" /\ HandleClientFrame(r)
  <2> DEFINE f == Head(toSrv[r])
  <2>1. /\ toSrv[r] # <<>> /\ toSrv'[r] = Tail(toSrv[r])
        /\ f = toSrv[r][1] /\ f \in Frames /\ 1 \in 1 .. Len(toSrv[r])
        /\ Tail(toSrv[r]) \in Seq(Frames)
    BY <1>1, <1>6, TailOf DEF HandleClientFrame
  <2>2. FramesInOrder(r)
    BY <1>6 DEF ChunkInv
  <2>3. pend[r] = "waiting" => f.t \in Starts \cup {"error"}
    BY <2>1 DEF WireInv
  <2>4. pend[r] = "started" => Continues(toSrv[r], k, sent[r])
    BY <2>2 DEF FramesInOrder, k
  <2> HIDE DEF f
  <2>5. pend[r] = "started" /\ f.t \notin Ends =>
          f = BodyFrame(k + 1) /\ k + 1 <= sent[r] /\ Continues(Tail(toSrv[r]), k + 1, sent[r])
    BY <1>1, <1>3, <2>1, <2>4, ContinuesTail
  <2>6. CASE ~InMap(r) /\ UNCHANGED <<clientVars, rpc, toCli>>
    <3>1. FramesInOrder(r)'
      BY <2>6 DEF FramesInOrder, InMap
    <3>2. \A i \in 1 .. Len(delivery[r]) : EventInOrder(r, i)
      BY <1>6 DEF ChunkInv
    <3>3. \A i \in 1 .. Len(delivery'[r]) : EventInOrder(r, i)'
      BY <1>2, <2>6, <3>2 DEF EventInOrder
    <3> QED
      BY <1>2, <3>1, <3>3 DEF ChunkInv, Whole
  <2>7. CASE InMap(r) /\ f.t \in Starts /\ OnStart(r, f.t)
    <3>1. pend[r] = "waiting"
      <4>1. pend[r] # "started"
        BY <2>5, <2>7 DEF Starts, Ends, BodyFrame
      <4> QED
        BY <2>7, <4>1 DEF InMap
    <3>2. /\ got[r] = <<>> /\ delivery[r] = <<>>
          /\ Continues(Tail(toSrv[r]), 0, sent[r])
      BY <2>1, <2>2, <2>7, <3>1 DEF FramesInOrder
    <3>3. pend'[r] = "started" /\ delivery' = delivery
      BY <1>1, <2>7 DEF OnStart
    <3>4. \A i \in 1 .. Len(delivery'[r]) : FALSE
      BY <3>2, <3>3
    <3>5. Len(got'[r]) + Len(delivery'[r]) = 0
      BY <1>2, <3>2, <3>3
    <3>6. FramesInOrder(r)'
      BY <1>2, <2>1, <3>2, <3>3, <3>5 DEF FramesInOrder
    <3> QED
      BY <1>2, <3>4, <3>6 DEF ChunkInv, Whole
  <2>8. CASE InMap(r) /\ f.t = "body" /\ OnBody(r, f.n)
    <3>1. pend[r] = "started"
      BY <2>3, <2>8 DEF Starts, InMap
    <3>2. f = BodyFrame(k + 1) /\ k + 1 <= sent[r] /\ Continues(Tail(toSrv[r]), k + 1, sent[r])
      BY <2>5, <2>8, <3>1 DEF Ends
    <3>3. BodyFrame(f.n) = f
      BY <3>2 DEF BodyFrame
    <3>4. delivery'[r] = Append(delivery[r], f) /\ pend' = pend
      BY <1>1, <2>8, <3>3 DEF OnBody, QueueDelivery
    <3>5. /\ Len(delivery'[r]) = Len(delivery[r]) + 1
          /\ delivery'[r][Len(delivery'[r])] = f
      BY <1>1, <2>1, <3>4, AppendOf
    <3>6. Len(got[r]) + Len(delivery'[r]) = k + 1
      <4>1. Len(got[r]) + (Len(delivery[r]) + 1) = (Len(got[r]) + Len(delivery[r])) + 1
        BY <1>1, <1>3
      <4> QED
        BY <3>5, <4>1, Zenon DEF k
    <3>7. EventInOrder(r, Len(delivery[r]))'
      BY <1>2, <3>2, <3>5, <3>6 DEF EventInOrder
    <3>8. FramesInOrder(r)'
      BY <1>2, <2>1, <3>1, <3>2, <3>4, <3>6 DEF FramesInOrder
    <3> QED
      BY <1>2, <1>6, <2>1, <3>1, <3>4, <3>7, <3>8, ChunkQueued
  <2>9. CASE InMap(r) /\ f.t = "end" /\ OnEnd(r)
    <3>1. pend[r] = "started"
      BY <2>3, <2>9 DEF Starts, InMap
    <3>2. k + 1 = sent[r] + 1
      BY <2>1, <2>4, <2>9, <3>1 DEF Continues, Ends
    <3>3. work[r] = "finished"
      BY <2>1, <2>9 DEF OrderInv
    <3>4. Frame("end") \in Frames /\ Frame("end").t = "end"
      BY DEF Frame, Frames, OtherFrames
    <3>5. delivery'[r] = Append(delivery[r], Frame("end")) /\ pend'[r] = "gone"
      BY <1>1, <2>9 DEF OnEnd, QueueDelivery, Drop
    <3>6. /\ Len(delivery'[r]) = Len(delivery[r]) + 1
          /\ delivery'[r][Len(delivery'[r])] = Frame("end")
      BY <1>1, <3>4, <3>5, AppendOf
    <3>7. Len(got[r]) + Len(delivery'[r]) = k + 1
      <4>1. Len(got[r]) + (Len(delivery[r]) + 1) = (Len(got[r]) + Len(delivery[r])) + 1
        BY <1>1, <1>3
      <4> QED
        BY <3>6, <4>1, Zenon DEF k
    <3>8. EventInOrder(r, Len(delivery[r]))'
      BY <1>2, <3>2, <3>3, <3>4, <3>5, <3>6, <3>7 DEF EventInOrder
    <3>9. FramesInOrder(r)'
      BY <3>5 DEF FramesInOrder
    <3> QED
      BY <1>2, <1>6, <3>1, <3>4, <3>5, <3>8, <3>9, ChunkQueued
  <2>10. CASE InMap(r) /\ f.t = "error" /\ OnError(r)
    BY <1>1, <1>2, <2>10, ChunkGone DEF OnError, Fail, Drop, QueueDelivery, InMap
  <2> QED
    BY <1>6, <2>6, <2>7, <2>8, <2>9, <2>10 DEF HandleClientFrame, Starts, f
<1>7. CASE TotalTimeout(r) \/ IdleTimeout(r)
  BY <1>1, <1>2, <1>7, ChunkGone DEF TotalTimeout, IdleTimeout, TimerFails, Fail, Drop,
     QueueDelivery, InMap
<1>8. CASE entry[r] = "live" /\ (ClientCancel(r) \/ CancelLost(r))
  BY <1>8 DEF ClientCancel, CancelLost, EndInv
<1> QED
  BY <1>4, <1>5, <1>6, <1>7, <1>8 DEF Client

\* A frame that is not the first leaves the first one.
LEMMA TailAppend ==
  ASSUME NEW s \in Seq(Frames), s # <<>>, NEW f \in Frames
  PROVE  /\ Append(s, f) # <<>> /\ Append(s, f)[1] = s[1]
         /\ Tail(Append(s, f)) = Append(Tail(s), f)
OBVIOUS

\* Every step of the CLI keeps the invariant of its own request: a frame it
\* sends continues the frames before it.
LEMMA ChunkCli ==
  ASSUME TypeOK, NEW r \in Requests, Cli(r), ChunkInv(r), OrderInv(r), WireInv(r)
  PROVE  ChunkInv(r)'
<1> USE DEF proxyVars, clientVars, busVars, wireVars
<1> DEFINE k == Len(got[r]) + Len(delivery[r])
<1>1. /\ toSrv \in [Requests -> Seq(Frames)] /\ toSrv[r] \in Seq(Frames)
      /\ work \in [Requests -> {"none", "local", "streaming", "finished", "failed"}]
      /\ sent \in [Requests -> 0 .. MaxChunks] /\ sent[r] \in Nat
      /\ delivery[r] \in Seq(Frames) /\ got[r] \in Seq(Chunks)
      /\ delivery \in [Requests -> Seq(Frames)] /\ got \in [Requests -> Seq(Chunks)]
      /\ pend \in [Requests -> {"none", "waiting", "started", "gone"}]
  BY MaxChunksAssumption DEF TypeOK, ClientTypes, QueueTypes, CliTypes
<1>2. UNCHANGED <<got, delivery, pend, entry, stream, disposed, answer, web, sock>>
  BY DEF Cli, CliFrame, CliStart, CliBody, CliEnd, CliError, CliAborts
<1>3. k \in Nat /\ Len(got[r]) \in Nat
  BY <1>1
\* Only the frames are at stake: the goroutine sends no chunk after its end.
<1>4. ASSUME work[r] = "finished" => work'[r] = "finished" /\ sent'[r] = sent[r],
             sent'[r] \in {sent[r], sent[r] + 1},
             entry[r] = "live" => FramesInOrder(r)'
      PROVE  ChunkInv(r)'
  <2>1. Whole(r) => Whole(r)'
    BY <1>2, <1>4 DEF Whole
  <2>2. Len(got'[r]) <= sent'[r]
    BY <1>1, <1>2, <1>3, <1>4 DEF ChunkInv
  <2>3. ASSUME entry[r] = "live", NEW i \in 1 .. Len(delivery'[r])
        PROVE  EventInOrder(r, i)'
    <3>1. EventInOrder(r, i)
      BY <1>2, <2>3 DEF ChunkInv
    <3>2. Len(got[r]) + i <= sent[r] => Len(got[r]) + i <= sent'[r]
      BY <1>1, <1>2, <1>3, <1>4, <2>3
    <3> QED
      BY <1>2, <1>4, <3>1, <3>2 DEF EventInOrder
  <2> QED
    BY <1>2, <1>4, <2>1, <2>2, <2>3 DEF ChunkInv
<1>5. CASE CliFrame(r) \/ CliAborts(r)
  <2>1. UNCHANGED <<toSrv, sent>>
    BY <1>5 DEF CliFrame, CliAborts
  <2>2. work[r] = "finished" => work'[r] = "finished"
    <3>1. CASE CliFrame(r)
      <4>1. 1 \in 1 .. Len(toCli[r]) /\ Head(toCli[r]) = toCli[r][1]
        BY <3>1, TailOf DEF CliFrame, TypeOK, QueueTypes
      <4>2. work' = work \/ work[r] = "none"
        BY <3>1, <4>1 DEF CliFrame, OrderInv
      <4> QED
        BY <4>2
    <3>2. CASE CliAborts(r)
      BY <3>2 DEF CliAborts, Running
    <3> QED
      BY <1>5, <3>1, <3>2
  <2>3. FramesInOrder(r) => FramesInOrder(r)'
    BY <1>2, <2>1 DEF FramesInOrder
  <2> QED
    BY <1>4, <2>1, <2>2, <2>3 DEF ChunkInv
\* A closed socket leaves no request in the map.
<1>6. ASSUME NEW frame \in Frames, SendToSrv(r, frame), InMap(r)
      PROVE  toSrv'[r] = Append(toSrv[r], frame)
  BY <1>1, <1>6 DEF SendToSrv, WireInv
<1>7. \A frame : SendToSrv(r, frame) /\ ~InMap(r) => FramesInOrder(r)'
  BY <1>2 DEF FramesInOrder, InMap
\* The frames of a goroutine that works before the local app has answered.
<1>8. ASSUME work[r] = "local", NEW frame \in Frames, SendToSrv(r, frame), sent' = sent,
             entry[r] = "live", InMap(r), frame.t # "body"
      PROVE  FramesInOrder(r)'
  <2>1. toSrv[r] = <<>> /\ sent[r] = 0 /\ pend[r] = "waiting"
    BY <1>8 DEF OrderInv, InMap
  <2>2. got[r] = <<>> /\ delivery[r] = <<>>
    BY <1>8, <2>1 DEF ChunkInv, FramesInOrder
  <2>3. toSrv'[r] = <<frame>>
    BY <1>6, <1>8, <2>1
  <2>4. toSrv'[r] # <<>> /\ Tail(toSrv'[r]) = <<>>
    BY <2>3
  <2>5. Continues(<<>>, 0, 0)
    BY DEF Continues
  <2> QED
    BY <1>2, <1>8, <2>1, <2>2, <2>4, <2>5 DEF FramesInOrder
\* The frames of a goroutine that streams the body.
<1>9. ASSUME work[r] = "streaming", NEW frame \in Frames, SendToSrv(r, frame),
             entry[r] = "live", InMap(r),
             \/ frame = BodyFrame(sent[r] + 1) /\ sent'[r] = sent[r] + 1
             \/ frame.t \in Ends /\ sent'[r] = sent[r]
      PROVE  FramesInOrder(r)'
  <2>1. toSrv'[r] = Append(toSrv[r], frame)
    BY <1>6, <1>9
  <2>2. \A i \in 1 .. Len(toSrv[r]) : toSrv[r][i].t \notin Ends
    BY <1>9 DEF OrderInv, Ends
  <2>3. ASSUME NEW s \in Seq(Frames), NEW j \in Nat, Continues(s, j, sent[r]),
               \A i \in 1 .. Len(s) : s[i].t \notin Ends
        PROVE  Continues(Append(s, frame), j, sent'[r])
    BY <1>1, <1>9, <2>3, ContinuesAppend
  <2>4. CASE pend[r] = "started"
    <3>1. Continues(toSrv[r], k, sent[r])
      BY <1>9, <2>4 DEF ChunkInv, FramesInOrder
    <3>2. Continues(toSrv'[r], k, sent'[r])
      BY <1>1, <1>3, <2>1, <2>2, <2>3, <3>1
    <3> QED
      BY <1>2, <2>4, <3>2 DEF FramesInOrder
  <2>5. CASE pend[r] = "waiting"
    <3>1. toSrv[r] # <<>> /\ got[r] = <<>> /\ delivery[r] = <<>>
      BY <1>9, <2>5 DEF ChunkInv, FramesInOrder, WireInv
    <3>2. /\ toSrv'[r] # <<>> /\ toSrv'[r][1] = toSrv[r][1]
          /\ Tail(toSrv'[r]) = Append(Tail(toSrv[r]), frame)
      BY <1>1, <1>9, <2>1, <3>1, TailAppend
    <3>3. /\ Tail(toSrv[r]) \in Seq(Frames)
          /\ \A i \in 1 .. Len(Tail(toSrv[r])) : Tail(toSrv[r])[i].t \notin Ends
      <4>1. /\ Tail(toSrv[r]) \in Seq(Frames)
            /\ \A i \in 1 .. Len(Tail(toSrv[r])) :
                 i + 1 \in 1 .. Len(toSrv[r]) /\ Tail(toSrv[r])[i] = toSrv[r][i + 1]
        BY <1>1, <3>1, TailOf
      <4> QED
        BY <2>2, <4>1
    <3>4. toSrv[r][1].t \in Starts => Continues(Tail(toSrv[r]), 0, sent[r])
      BY <1>9, <2>5, <3>1 DEF ChunkInv, FramesInOrder
    <3>5. toSrv[r][1].t \in Starts => Continues(Tail(toSrv'[r]), 0, sent'[r])
      BY <2>3, <3>2, <3>3, <3>4
    <3> QED
      BY <1>2, <2>5, <3>1, <3>2, <3>5 DEF FramesInOrder
  <2> QED
    BY <1>9, <2>4, <2>5 DEF InMap
<1>10. CASE CliStart(r)
  <2>1. PICK type \in {"start", "startSse", "startBad"} : SendToSrv(r, Frame(type))
    BY <1>10 DEF CliStart
  <2>2. Frame(type) \in Frames /\ Frame(type).t # "body"
    BY DEF Frame, Frames, OtherFrames
  <2>3. work[r] = "local" /\ sent' = sent
    BY <1>10 DEF CliStart
  <2> QED
    BY <1>4, <1>7, <1>8, <2>1, <2>2, <2>3
<1>11. CASE CliBody(r)
  <2>1. sent[r] + 1 \in 1 .. MaxChunks /\ sent'[r] = sent[r] + 1
    BY <1>1, <1>11, MaxChunksAssumption DEF CliBody
  <2>2. BodyFrame(sent[r] + 1) \in Frames
    BY <2>1 DEF BodyFrame, Frames, BodyFrames, Chunks
  <2>3. work[r] = "streaming" /\ SendToSrv(r, BodyFrame(sent[r] + 1))
    BY <1>11 DEF CliBody
  <2> QED
    BY <1>4, <1>7, <1>9, <2>1, <2>2, <2>3
<1>12. CASE CliEnd(r)
  <2>1. Frame("end") \in Frames /\ Frame("end").t \in Ends
    BY DEF Frame, Frames, OtherFrames, Ends
  <2>2. work[r] = "streaming" /\ SendToSrv(r, Frame("end")) /\ sent' = sent
    BY <1>12 DEF CliEnd
  <2> QED
    BY <1>4, <1>7, <1>9, <2>1, <2>2
<1>13. CASE CliError(r)
  <2>1. /\ Frame("error") \in Frames /\ Frame("error").t \in Ends
        /\ Frame("error").t # "body"
    BY DEF Frame, Frames, OtherFrames, Ends
  <2>2. Running(r) /\ SendToSrv(r, Frame("error")) /\ sent' = sent
    BY <1>13 DEF CliError
  <2> QED
    BY <1>4, <1>7, <1>8, <1>9, <2>1, <2>2 DEF Running
<1> QED
  BY <1>5, <1>10, <1>11, <1>12, <1>13 DEF Cli

\* Every step keeps the invariant, on a bus that loses nothing.
LEMMA ChunkStep ==
  ASSUME TypeOK, ~LossyBus, [Next]_vars, NEW q \in Requests, ChunkInv(q), OrderInv(q),
         WireInv(q), PendingInv(q), EndInv(q), ExchangeInv(q)
  PROVE  ChunkInv(q)'
<1> USE DEF proxyVars, clientVars, busVars, wireVars, cliVars
<1>1. ASSUME NEW r \in Requests, Proxy(r) \/ Client(r) \/ Cli(r)
      PROVE  ChunkInv(q)'
  <2>1. CASE q # r
    BY <1>1, <2>1, WireOther, StepOther, ChunkFrame
  <2>2. ~EventLost(r)
    BY DEF EventLost
  <2> QED
    BY <1>1, <2>1, <2>2, ChunkWeb, ChunkEvent, ChunkClient, ChunkCli
<1>2. CASE Dispose
  <2>1. UNCHANGED <<got, sent, work, answer, web>> /\ disposed' /\ entry'[q] # "live"
    BY <1>2 DEF Dispose, CancelPublic
  <2> QED
    BY <2>1, ChunkNotLive DEF ChunkInv
<1>3. CASE SocketClosed
  <2>1. UNCHANGED <<got, sent, work, entry, stream, disposed, answer, web>>
    BY <1>3 DEF SocketClosed
  <2>2. CASE InMap(q)
    BY <1>3, <2>1, <2>2, ChunkGone DEF SocketClosed, InMap
  <2>3. CASE ~InMap(q)
    <3>1. UNCHANGED <<pend[q], delivery[q]>>
      BY <1>3, <2>3 DEF SocketClosed, InMap
    <3>2. FramesInOrder(q)'
      BY <2>3, <3>1 DEF FramesInOrder, InMap
    <3>3. \A i : EventInOrder(q, i) => EventInOrder(q, i)'
      BY <2>1, <3>1 DEF EventInOrder
    <3> QED
      BY <2>1, <3>1, <3>2, <3>3 DEF ChunkInv, Whole
  <2> QED
    BY <2>2, <2>3
<1>4. CASE SocketCloses \/ CliDisconnects \/ UNCHANGED vars
  BY <1>4, ChunkFrame DEF SocketCloses, CliDisconnects, vars
<1> QED
  BY <1>1, <1>2, <1>3, <1>4 DEF Next

\* The parts of the invariant, together.
DeliveryInv(r) ==
  /\ ChunkInv(r) /\ OrderInv(r) /\ EndInv(r)
  /\ WireInv(r) /\ PendingInv(r) /\ ExchangeInv(r)

\* A new system has delivered nothing.
LEMMA DeliveryInit == Init => \A r \in Requests : DeliveryInv(r)
<1> SUFFICES ASSUME Init, NEW r \in Requests
             PROVE  DeliveryInv(r)
  OBVIOUS
<1>1. OrderInv(r) /\ EndInv(r) /\ WireInv(r) /\ PendingInv(r) /\ ExchangeInv(r)
  BY DEF Init, OrderInv, EndInv, WireInv, PendingInv, ExchangeInv, InMap
<1>2. got[r] = <<>> /\ sent[r] = 0
  BY DEF Init
<1>3. Len(got[r]) <= sent[r] /\ \A i \in 1 .. Len(got[r]) : got[r][i] = i
  BY <1>2
<1>4. ChunkInv(r)
  BY <1>3 DEF Init, ChunkInv
<1> QED
  BY <1>1, <1>4 DEF DeliveryInv

\* Every step keeps it.
LEMMA DeliveryStep ==
  ASSUME TypeOK, ~LossyBus, [Next]_vars, \A r \in Requests : DeliveryInv(r)
  PROVE  \A r \in Requests : DeliveryInv(r)'
<1> SUFFICES ASSUME NEW q \in Requests
             PROVE  DeliveryInv(q)'
  OBVIOUS
<1>1. DeliveryInv(q)
  OBVIOUS
<1> QED
  BY <1>1, ChunkStep, OrderStep, EndStep, WireStep, PendingStep, ExchangeStep DEF DeliveryInv

\* It holds in every state, on a bus that loses nothing.
LEMMA DeliveryHolds ==
  ASSUME ~LossyBus
  PROVE  Spec => [](TypeOK /\ \A r \in Requests : DeliveryInv(r))
<1> DEFINE Inv == TypeOK /\ \A r \in Requests : DeliveryInv(r)
<1>1. Init => Inv
  BY TypeInit, DeliveryInit
<1>2. Inv /\ [Next]_vars => Inv'
  BY TypeStep, DeliveryStep
<1> QED
  BY <1>1, <1>2, PTL DEF Spec

\* Over the CLI's frames, the chain of events and the bus, the visitor's
\* stream gets the chunks the local app wrote in order, none missing and none
\* twice, for any number of requests and chunks (queueDelivery and the handler
\* of proxy.response.body).
THEOREM BodyArrivesInOrder ==
  ASSUME ~LossyBus
  PROVE  Spec => []BodyInOrder
<1>1. TypeOK /\ (\A r \in Requests : DeliveryInv(r)) => BodyInOrder
  <2> SUFFICES ASSUME TypeOK, NEW r \in Requests, DeliveryInv(r)
               PROVE  Len(got[r]) <= sent[r] /\ \A i \in DOMAIN got[r] : got[r][i] = i
    BY DEF BodyInOrder
  <2>1. DOMAIN got[r] = 1 .. Len(got[r])
    BY DEF TypeOK, QueueTypes
  <2> QED
    BY <2>1 DEF DeliveryInv, ChunkInv
<1> QED
  BY <1>1, DeliveryHolds, PTL

\* A relayed response whose stream closes while the proxy is up is whole: no
\* timeout, lost tunnel or broken local app ends a stream like response.end
\* does (failPending's error event and closePublicResponse).
THEOREM ClosedIsWhole ==
  ASSUME ~LossyBus
  PROVE  Spec => []ClosedMeansWhole
<1>1. TypeOK /\ (\A r \in Requests : DeliveryInv(r)) => ClosedMeansWhole
  BY DEF ClosedMeansWhole, DeliveryInv, ChunkInv, Whole
<1> QED
  BY <1>1, DeliveryHolds, PTL

-----------------------------------------------------------------------------
(* The whole path implements the simple exchange.                           *)
(*                                                                          *)
(* The entry of publicResponses is the phase: it is live while the exchange *)
(* is open. A step that settles entries is a Settle of the set it settles,  *)
(* an event with a chunk is a Pass since the chunks are in order, and every *)
(* step of the client plugin, the socket and the CLI is a stutter.          *)

\* A step that changes no entry, no chunk and no count is a stutter, as long
\* as the handlers that have begun are the same.
LEMMA StutterStep ==
  ASSUME UNCHANGED <<entry, got, usage>>,
         \A q \in Requests : web'[q] = "idle" <=> web[q] = "idle"
  PROVE  UNCHANGED Exchange!vars
BY DEF phase, Exchange!vars

\* Settling the live entries of S.
LEMMA SettleStep ==
  ASSUME TypeOK, \A q \in Requests : ExchangeInv(q), NEW S \in SUBSET Requests,
         \A q \in S : entry[q] = "live",
         entry' = [q \in Requests |-> IF q \in S THEN "settled" ELSE entry[q]],
         usage' = [q \in Requests |-> IF q \in S THEN usage[q] + 1 ELSE usage[q]],
         got' = got, \A q \in Requests : web'[q] = "idle" <=> web[q] = "idle"
  PROVE  Exchange!Settle(S)
<1>1. \A q \in S : phase[q] = "open"
  BY DEF phase
<1>2. phase' = [q \in Requests |-> IF q \in S THEN "settled" ELSE phase[q]]
  <2>1. \A q \in S : web[q] # "idle"
    BY DEF ExchangeInv
  <2> QED
    BY <2>1 DEF phase
<1>3. \A q \in S : usage[q] + 1 = 1
  BY DEF ExchangeInv
<1> QED
  BY <1>1, <1>2, <1>3 DEF Exchange!Settle

\* One entry settles, or none.
LEMMA SettleOne ==
  ASSUME TypeOK, \A q \in Requests : ExchangeInv(q), NEW r \in Requests,
         \/ UNCHANGED <<entry, usage>>
         \/ /\ entry[r] = "live"
            /\ entry' = [entry EXCEPT ![r] = "settled"]
            /\ usage' = [usage EXCEPT ![r] = @ + 1],
         got' = got, \A q \in Requests : web'[q] = "idle" <=> web[q] = "idle"
  PROVE  [Exchange!Next]_(Exchange!vars)
<1>1. CASE UNCHANGED <<entry, usage>>
  BY <1>1, StutterStep
<1>2. CASE /\ entry[r] = "live"
           /\ entry' = [entry EXCEPT ![r] = "settled"]
           /\ usage' = [usage EXCEPT ![r] = @ + 1]
  <2>1. /\ entry' = [q \in Requests |-> IF q \in {r} THEN "settled" ELSE entry[q]]
        /\ usage' = [q \in Requests |-> IF q \in {r} THEN usage[q] + 1 ELSE usage[q]]
    BY <1>2 DEF TypeOK, ProxyTypes
  <2>2. Exchange!Settle({r})
    BY <1>2, <2>1, SettleStep
  <2> QED
    BY <2>2 DEF Exchange!Next
<1> QED
  BY <1>1, <1>2

\* Every step of the proxy plugin is a step of the exchange.
LEMMA ExchangeProxy ==
  ASSUME TypeOK, \A q \in Requests : DeliveryInv(q), NEW r \in Requests, Proxy(r)
  PROVE  [Exchange!Next]_(Exchange!vars)
<1>1. /\ ProxyTypes /\ got \in [Requests -> Seq(Chunks)]
      /\ \A q \in Requests : ExchangeInv(q)
  BY DEF TypeOK, QueueTypes, DeliveryInv
<1>2. CASE WebRefuse(r)
  <2>1. /\ web[r] = "idle" /\ web' = [web EXCEPT ![r] = "done"]
        /\ usage' = [usage EXCEPT ![r] = @ + 1] /\ UNCHANGED <<entry, got>>
    BY <1>2 DEF WebRefuse, Return
  <2>2. entry[r] = "none" /\ usage[r] + 1 = 1
    BY <1>1, <2>1 DEF ExchangeInv
  <2>3. phase[r] = "new" /\ phase' = [phase EXCEPT ![r] = "settled"]
    BY <1>1, <2>1, <2>2 DEF phase, ProxyTypes
  <2>4. usage' = [usage EXCEPT ![r] = 1]
    BY <1>1, <2>1, <2>2 DEF ProxyTypes
  <2>5. Exchange!Refuse(r)
    BY <2>1, <2>3, <2>4 DEF Exchange!Refuse
  <2> QED
    BY <2>5 DEF Exchange!Next
<1>3. CASE WebStart(r)
  <2>1. /\ web[r] = "idle" /\ web' = [web EXCEPT ![r] = "waiting"]
        /\ entry' = [entry EXCEPT ![r] = "live"] /\ UNCHANGED <<usage, got>>
    BY <1>3 DEF WebStart
  <2>2. entry[r] = "none"
    BY <1>1, <2>1 DEF ExchangeInv
  <2>3. phase[r] = "new" /\ phase' = [phase EXCEPT ![r] = "open"]
    BY <1>1, <2>1, <2>2 DEF phase, ProxyTypes
  <2>4. Exchange!Open(r)
    BY <2>1, <2>3 DEF Exchange!Open
  <2> QED
    BY <2>4 DEF Exchange!Next
<1>4. CASE \/ WebReturnUnavailable(r) \/ WebReturnBad(r) \/ WebReturnStream(r)
           \/ WebRejected(r) \/ WebTimeout(r) \/ WebBuildFails(r)
  <2>1. web[r] = "waiting" /\ web' = [web EXCEPT ![r] = "done"] /\ got' = got
    BY <1>4 DEF WebReturnUnavailable, WebReturnBad, WebReturnStream, WebRejected,
                WebTimeout, WebBuildFails, Catch, Return
  <2>2. \A q \in Requests : web'[q] = "idle" <=> web[q] = "idle"
    BY <1>1, <2>1 DEF ProxyTypes
  <2>3. \/ UNCHANGED <<entry, usage>>
        \/ /\ entry[r] = "live"
           /\ entry' = [entry EXCEPT ![r] = "settled"]
           /\ usage' = [usage EXCEPT ![r] = @ + 1]
    <3>1. CASE WebReturnUnavailable(r) /\ stream[r] = "open"
      <4>1. entry[r] = "live"
        BY <1>1, <2>1, <3>1 DEF ExchangeInv, ProxyTypes
      <4> QED
        BY <3>1, <4>1 DEF WebReturnUnavailable
    <3>2. CASE WebReturnUnavailable(r) /\ stream[r] # "open"
      <4>1. entry[r] = "settled" /\ entry' = [entry EXCEPT ![r] = "settled"]
        BY <1>1, <3>2 DEF ExchangeInv, WebReturnUnavailable
      <4>2. entry' = entry /\ usage' = usage
        BY <1>1, <3>2, <4>1 DEF WebReturnUnavailable, ProxyTypes
      <4> QED
        BY <4>2
    <3>3. CASE ~WebReturnUnavailable(r)
      BY <1>4, <3>3 DEF WebReturnBad, WebReturnStream, WebRejected, WebTimeout,
                        WebBuildFails, Catch, Finish
    <3> QED
      BY <3>1, <3>2, <3>3
  <2> QED
    BY <1>1, <2>1, <2>2, <2>3, SettleOne
<1>5. CASE VisitorLeaves(r)
  <2>1. CASE entry[r] = "live"
    <3>1. /\ entry' = [q \in Requests |-> IF q \in {r} THEN "settled" ELSE entry[q]]
          /\ usage' = [q \in Requests |-> IF q \in {r} THEN usage[q] + 1 ELSE usage[q]]
          /\ UNCHANGED <<got, web>>
      BY <1>5, <2>1 DEF VisitorLeaves, CancelPublic
    <3>2. Exchange!Settle({r})
      BY <1>1, <2>1, <3>1, SettleStep
    <3> QED
      BY <3>2 DEF Exchange!Next
  <2>2. CASE entry[r] # "live"
    <3>1. UNCHANGED <<entry, usage, got, web>>
      BY <1>1, <1>5, <2>2 DEF VisitorLeaves, CancelPublic, ProxyTypes
    <3> QED
      BY <3>1, StutterStep
  <2> QED
    BY <2>1, <2>2
<1>6. CASE ProxyEvent(r)
  <2>1. web' = web
    BY <1>6 DEF ProxyEvent
  <2>2. CASE entry[r] = "live" /\ Head(delivery[r]).t = "body"
    <3>1. /\ delivery[r] # <<>> /\ 1 \in 1 .. Len(delivery[r])
          /\ Head(delivery[r]) = delivery[r][1]
      BY <1>6, TailOf DEF ProxyEvent, TypeOK, QueueTypes
    <3>2. EventInOrder(r, 1)
      BY <2>2, <3>1 DEF DeliveryInv, ChunkInv
    <3>3. Head(delivery[r]).n = Len(got[r]) + 1
      BY <2>2, <3>1, <3>2 DEF EventInOrder, BodyFrame
    <3>4. /\ got' = [got EXCEPT ![r] = Append(@, Len(@) + 1)]
          /\ UNCHANGED <<entry, usage>>
      BY <1>6, <2>2, <3>3 DEF ProxyEvent
    <3>5. phase[r] = "open" /\ phase' = phase
      BY <2>1, <2>2, <3>4 DEF phase
    <3>6. Exchange!Pass(r)
      BY <3>4, <3>5 DEF Exchange!Pass
    <3> QED
      BY <3>6 DEF Exchange!Next
  <2>3. CASE ~(entry[r] = "live" /\ Head(delivery[r]).t = "body")
    <3>1. /\ got' = got
          /\ \/ UNCHANGED <<entry, usage>>
             \/ /\ entry[r] = "live"
                /\ entry' = [entry EXCEPT ![r] = "settled"]
                /\ usage' = [usage EXCEPT ![r] = @ + 1]
      BY <1>6, <2>3 DEF ProxyEvent, Finish
    <3> QED
      BY <1>1, <2>1, <3>1, SettleOne
  <2> QED
    BY <2>2, <2>3
<1>7. CASE EventLost(r)
  BY <1>7, StutterStep DEF EventLost, proxyVars
<1> QED
  BY <1>2, <1>3, <1>4, <1>5, <1>6, <1>7 DEF Proxy

\* Seen from outside, the whole path is the simple exchange, for any number of
\* requests and chunks, on a bus that loses nothing: chunks in order while an
\* exchange is open, one settlement counted once, nothing after it.
THEOREM PathImplementsExchange ==
  ASSUME ~LossyBus
  PROVE  Spec => ImplementsExchange
<1> DEFINE Inv == TypeOK /\ \A r \in Requests : DeliveryInv(r)
<1>1. Init => Exchange!Init
  BY DEF Init, Exchange!Init, phase
<1>2. Inv /\ [Next]_vars => [Exchange!Next]_(Exchange!vars)
  <2> SUFFICES ASSUME Inv, [Next]_vars
               PROVE  [Exchange!Next]_(Exchange!vars)
    OBVIOUS
  <2>1. CASE \E r \in Requests : Proxy(r)
    BY <2>1, ExchangeProxy
  <2>2. CASE Dispose
    <3> DEFINE S == {q \in Requests : entry[q] = "live"}
    <3>1. /\ entry' = [q \in Requests |-> IF q \in S THEN "settled" ELSE entry[q]]
          /\ usage' = [q \in Requests |-> IF q \in S THEN usage[q] + 1 ELSE usage[q]]
          /\ UNCHANGED <<got, web>>
      BY <2>2 DEF Dispose, CancelPublic
    <3>2. Exchange!Settle(S)
      BY <3>1, SettleStep DEF DeliveryInv
    <3> QED
      BY <3>2 DEF Exchange!Next
  <2>3. CASE \/ \E r \in Requests : Client(r) \/ Cli(r)
             \/ SocketCloses \/ SocketClosed \/ CliDisconnects \/ UNCHANGED vars
    <3>1. UNCHANGED <<entry, got, usage, web>>
      BY <2>3 DEF vars, proxyVars, Client, ClientRequest, HandleClientFrame, TotalTimeout,
             IdleTimeout, TimerFails, ClientCancel, CancelLost, Cli, CliFrame, CliStart,
             CliBody, CliEnd, CliError, CliAborts, SocketCloses, SocketClosed, CliDisconnects
    <3> QED
      BY <3>1, StutterStep
  <2> QED
    BY <2>1, <2>2, <2>3 DEF Next
<1> QED
  BY <1>1, <1>2, DeliveryHolds, PTL DEF Spec, ImplementsExchange, Exchange!Spec

-----------------------------------------------------------------------------
(* What is left of the order on a bus that may lose events.                 *)
(*                                                                          *)
(* queueDelivery swallows a failed emission, so a chunk can be missing. The *)
(* stream, the chain of events and the frames still hold chunk numbers that *)
(* rise from each one to the next: nothing arrives twice, nothing overtakes *)
(* and nothing arrives that the CLI has not sent.                           *)

\* The places of the chunks in a queue of frames.
Bodies(s) == {i \in 1 .. Len(s) : s[i].t = "body"}

\* Chunk numbers rise along a queue.
Rising(s) == \A i, j \in Bodies(s) : i < j => s[i].n < s[j].n

\* Chunk numbers rise along a stream g, its events d and its frames f, up to m.
Ascend(g, d, f, m) ==
  /\ \A i, j \in 1 .. Len(g) : i < j => g[i] < g[j]
  /\ Rising(d) /\ Rising(f)
  /\ \A i \in 1 .. Len(g) : /\ g[i] <= m
                            /\ \A j \in Bodies(d) : g[i] < d[j].n
                            /\ \A j \in Bodies(f) : g[i] < f[j].n
  /\ \A i \in Bodies(d) : d[i].n <= m /\ \A j \in Bodies(f) : d[i].n < f[j].n
  /\ \A i \in Bodies(f) : f[i].n <= m

AscendInv(r) == Ascend(got[r], delivery[r], toSrv[r], sent[r])

\* A stream never gets a chunk twice, a chunk before an earlier one, or a
\* chunk that was not sent.
NoChunkTwice ==
  \A r \in Requests : \A i \in DOMAIN got[r] :
    /\ got[r][i] <= sent[r]
    /\ \A j \in DOMAIN got[r] : i < j => got[r][i] < got[r][j]

\* The chunks of a queue without its head are chunks of the queue, one place on.
LEMMA BodiesTail ==
  ASSUME NEW s \in Seq(Frames), s # <<>>
  PROVE  /\ Tail(s) \in Seq(Frames)
         /\ \A i \in Bodies(Tail(s)) : i \in Nat /\ i + 1 \in Bodies(s) /\ Tail(s)[i] = s[i + 1]
         /\ Head(s).t = "body" => 1 \in Bodies(s) /\ Head(s) = s[1]
<1>1. /\ Tail(s) \in Seq(Frames) /\ Len(s) \in Nat \ {0}
      /\ Head(s) = s[1] /\ 1 \in 1 .. Len(s)
      /\ \A i \in 1 .. Len(Tail(s)) :
           i \in Nat /\ i + 1 \in 1 .. Len(s) /\ Tail(s)[i] = s[i + 1]
  BY TailOf
<1> QED
  BY <1>1 DEF Bodies

\* The chunks of a queue with one more frame.
LEMMA BodiesAppend ==
  ASSUME NEW s \in Seq(Frames), NEW e \in Frames
  PROVE  /\ Append(s, e) \in Seq(Frames)
         /\ \A i \in Bodies(Append(s, e)) :
              \/ i \in Bodies(s) /\ Append(s, e)[i] = s[i]
              \/ i = Len(s) + 1 /\ Append(s, e)[i] = e /\ e.t = "body"
<1>1. /\ Append(s, e) \in Seq(Frames) /\ Len(s) \in Nat
      /\ Append(s, e)[Len(s) + 1] = e
      /\ \A i \in 1 .. Len(s) : Append(s, e)[i] = s[i]
      /\ \A i \in 1 .. Len(Append(s, e)) : i \in 1 .. Len(s) \/ i = Len(s) + 1
  BY AppendOf
<1> QED
  BY <1>1 DEF Bodies

\* Each of them was a chunk of the queue, or is the new frame.
LEMMA BodiesGrow ==
  ASSUME NEW s \in Seq(Frames), NEW e \in Frames
  PROVE  \A i \in Bodies(Append(s, e)) :
           (i \in Bodies(s) /\ Append(s, e)[i] = s[i]) \/ Append(s, e)[i] = e
BY BodiesAppend

\* A chunk's number is a number, its place is a place.
LEMMA BodiesType ==
  ASSUME NEW s \in Seq(Frames)
  PROVE  \A i \in Bodies(s) : i \in Nat /\ i <= Len(s) /\ s[i] \in Frames /\ s[i].n \in Chunks
<1>1. \A i \in 1 .. Len(s) : i \in Nat /\ i <= Len(s) /\ s[i] \in Frames
  OBVIOUS
<1>2. \A e \in Frames : e.t = "body" => e.n \in Chunks
  BY DEF Frames, BodyFrames, OtherFrames
<1> QED
  BY <1>1, <1>2 DEF Bodies

\* Numbers still rise along a queue without its head, and are above the head's.
LEMMA RisingTail ==
  ASSUME NEW s \in Seq(Frames), s # <<>>, Rising(s)
  PROVE  /\ Rising(Tail(s))
         /\ Head(s).t = "body" => \A j \in Bodies(Tail(s)) : Head(s).n < Tail(s)[j].n
<1>1. \A i, j \in Bodies(s) : i < j => s[i].n < s[j].n
  BY DEF Rising
<1>2. /\ \A i \in Bodies(Tail(s)) : i \in Nat /\ i + 1 \in Bodies(s) /\ Tail(s)[i] = s[i + 1]
      /\ Head(s).t = "body" => 1 \in Bodies(s) /\ Head(s) = s[1]
  BY BodiesTail
<1>3. \A i \in Bodies(Tail(s)) : i >= 1
  BY DEF Bodies
<1>4. ASSUME NEW i \in Bodies(Tail(s)), NEW j \in Bodies(Tail(s)), i < j
      PROVE  Tail(s)[i].n < Tail(s)[j].n
  <2>1. i + 1 < j + 1
    BY <1>2, <1>4
  <2> QED
    BY <1>1, <1>2, <2>1
<1>5. ASSUME Head(s).t = "body", NEW j \in Bodies(Tail(s))
      PROVE  Head(s).n < Tail(s)[j].n
  <2>1. 1 < j + 1
    BY <1>2, <1>3
  <2> QED
    BY <1>1, <1>2, <1>5, <2>1
<1> QED
  BY <1>4, <1>5 DEF Rising

\* Numbers rise along a queue that gets a frame without a chunk, or a chunk
\* above all of its own.
LEMMA RisingAppend ==
  ASSUME NEW s \in Seq(Frames), Rising(s), NEW e \in Frames,
         e.t = "body" => \A i \in Bodies(s) : s[i].n < e.n
  PROVE  Rising(Append(s, e))
<1>1. \A i \in Bodies(Append(s, e)) :
        \/ i \in Bodies(s) /\ Append(s, e)[i] = s[i]
        \/ i = Len(s) + 1 /\ Append(s, e)[i] = e /\ e.t = "body"
  BY BodiesAppend
<1>2. \A i \in Bodies(s) : i \in Nat /\ i <= Len(s)
  BY BodiesType
<1>3. Len(s) \in Nat
  OBVIOUS
<1>4. ASSUME NEW i \in Bodies(Append(s, e)), NEW j \in Bodies(Append(s, e)), i < j
      PROVE  Append(s, e)[i].n < Append(s, e)[j].n
  <2>1. i \in Bodies(s) /\ Append(s, e)[i] = s[i]
    <3>1. CASE i = Len(s) + 1
      BY <1>1, <1>2, <1>3, <1>4, <3>1
    <3> QED
      BY <1>1, <3>1
  <2> QED
    BY <1>1, <1>4, <2>1 DEF Rising
<1> QED
  BY <1>4 DEF Rising

\* The first event is lost, or does not matter to the stream.
LEMMA AscendEventGone ==
  ASSUME NEW g, NEW d \in Seq(Frames), NEW f, NEW m, Ascend(g, d, f, m), d # <<>>
  PROVE  Ascend(g, Tail(d), f, m)
BY BodiesTail, RisingTail DEF Ascend

\* The first frame is dropped.
LEMMA AscendFrameGone ==
  ASSUME NEW g, NEW d, NEW f \in Seq(Frames), NEW m, Ascend(g, d, f, m), f # <<>>
  PROVE  Ascend(g, d, Tail(f), m)
BY BodiesTail, RisingTail DEF Ascend

\* An event or a frame without a chunk is queued.
LEMMA AscendPlain ==
  ASSUME NEW g, NEW d \in Seq(Frames), NEW f \in Seq(Frames), NEW m, Ascend(g, d, f, m),
         NEW e \in Frames, e.t # "body"
  PROVE  Ascend(g, Append(d, e), f, m) /\ Ascend(g, d, Append(f, e), m)
<1>1. /\ \A i \in Bodies(Append(d, e)) : i \in Bodies(d) /\ Append(d, e)[i] = d[i]
      /\ \A i \in Bodies(Append(f, e)) : i \in Bodies(f) /\ Append(f, e)[i] = f[i]
  BY BodiesAppend
<1>2. Rising(Append(d, e)) /\ Rising(Append(f, e))
  BY RisingAppend DEF Ascend
<1> QED
  BY <1>1, <1>2 DEF Ascend

\* The first frame becomes the last event.
LEMMA AscendQueued ==
  ASSUME NEW g, NEW d \in Seq(Frames), NEW f \in Seq(Frames), NEW m, Ascend(g, d, f, m),
         f # <<>>, NEW e \in Frames, e = Head(f), e.t = "body"
  PROVE  Ascend(g, Append(d, e), Tail(f), m)
<1>1. /\ \A i \in Bodies(Tail(f)) : i + 1 \in Bodies(f) /\ Tail(f)[i] = f[i + 1]
      /\ 1 \in Bodies(f) /\ e = f[1]
  BY BodiesTail
<1>2. Rising(Tail(f)) /\ \A j \in Bodies(Tail(f)) : e.n < Tail(f)[j].n
  BY RisingTail DEF Ascend
<1>3. Rising(Append(d, e))
  <2>1. Rising(d) /\ \A i \in Bodies(d) : d[i].n < e.n
    BY <1>1 DEF Ascend
  <2> QED
    BY <2>1, RisingAppend
<1>4. \A i \in Bodies(Append(d, e)) :
        (i \in Bodies(d) /\ Append(d, e)[i] = d[i]) \/ Append(d, e)[i] = e
  BY BodiesGrow, Zenon
<1>5. ASSUME NEW u, Rising(u), NEW w, Rising(w),
             \A i \in Bodies(u) : (i \in Bodies(d) /\ u[i] = d[i]) \/ u[i] = e,
             \A i \in Bodies(w) : i + 1 \in Bodies(f) /\ w[i] = f[i + 1] /\ e.n < w[i].n
      PROVE  Ascend(g, u, w, m)
  BY <1>1, <1>5 DEF Ascend
<1> QED
  BY <1>1, <1>2, <1>3, <1>4, <1>5

\* The first event reaches the stream.
LEMMA AscendPassed ==
  ASSUME NEW g \in Seq(Chunks), NEW d \in Seq(Frames), NEW f, NEW m, Ascend(g, d, f, m),
         d # <<>>, Head(d).t = "body"
  PROVE  Ascend(Append(g, Head(d).n), Tail(d), f, m)
<1> DEFINE n == Head(d).n
           u == Append(g, n)
           w == Tail(d)
<1>1. /\ \A i \in Bodies(w) : i + 1 \in Bodies(d) /\ w[i] = d[i + 1]
      /\ 1 \in Bodies(d) /\ n = d[1].n
  BY BodiesTail
<1>2. Rising(w) /\ \A j \in Bodies(w) : n < w[j].n
  BY RisingTail DEF Ascend
<1>3. n \in Chunks
  BY <1>1, BodiesType
<1>4. /\ Len(g) \in Nat
      /\ \A i \in 1 .. Len(u) : (i \in 1 .. Len(g) /\ u[i] = g[i]) \/ (i = Len(g) + 1 /\ u[i] = n)
  <2>1. /\ Len(g) \in Nat /\ Len(u) = Len(g) + 1 /\ u[Len(g) + 1] = n
        /\ \A i \in 1 .. Len(g) : u[i] = g[i]
    BY <1>3, AppendOf
  <2> QED
    BY <2>1
<1> HIDE DEF n, u, w
<1>5. ASSUME NEW i \in 1 .. Len(u), NEW j \in 1 .. Len(u), i < j
      PROVE  u[i] < u[j]
  <2>1. i \in 1 .. Len(g) /\ u[i] = g[i]
    <3>1. i = Len(g) + 1 => ~(j \in 1 .. Len(g)) /\ j # Len(g) + 1
      BY <1>4, <1>5
    <3> QED
      BY <1>4, <3>1
  <2>2. g[i] < n
    BY <1>1, <2>1 DEF Ascend
  <2> QED
    BY <1>4, <1>5, <2>1, <2>2 DEF Ascend
<1>6. \A i \in 1 .. Len(u) : (i \in 1 .. Len(g) /\ u[i] = g[i]) \/ u[i] = n
  BY <1>4
<1>7. Ascend(u, w, f, m)
  BY <1>1, <1>2, <1>5, <1>6 DEF Ascend
<1> QED
  BY <1>7 DEF n, u, w

\* The next chunk is sent, and its frame queued or dropped.
LEMMA AscendSent ==
  ASSUME NEW g \in Seq(Chunks), NEW d \in Seq(Frames), NEW f \in Seq(Frames),
         NEW m \in Nat, Ascend(g, d, f, m), NEW e \in Frames, e.n = m + 1
  PROVE  Ascend(g, d, Append(f, e), m + 1) /\ Ascend(g, d, f, m + 1)
<1>1. /\ \A i \in 1 .. Len(g) : g[i] \in Nat
      /\ \A i \in Bodies(d) : d[i].n \in Nat
      /\ \A i \in Bodies(f) : f[i].n \in Nat
  BY BodiesType, MaxChunksAssumption DEF Chunks
<1>2. \A k \in Nat : k <= m => k < m + 1 /\ k <= m + 1
  OBVIOUS
<1>3. /\ \A i \in 1 .. Len(g) : g[i] < m + 1 /\ g[i] <= m + 1
      /\ \A i \in Bodies(d) : d[i].n < m + 1 /\ d[i].n <= m + 1
      /\ \A i \in Bodies(f) : f[i].n < m + 1 /\ f[i].n <= m + 1
  BY <1>1, <1>2 DEF Ascend
<1>4. Ascend(g, d, f, m + 1)
  BY <1>3 DEF Ascend
<1>5. Rising(Append(f, e))
  <2>1. Rising(f) /\ \A i \in Bodies(f) : f[i].n < e.n
    BY <1>3 DEF Ascend
  <2> QED
    BY <2>1, RisingAppend
<1>6. \A i \in Bodies(Append(f, e)) :
        (i \in Bodies(f) /\ Append(f, e)[i] = f[i]) \/ Append(f, e)[i] = e
  BY BodiesGrow, Zenon
<1>7. m + 1 <= m + 1
  OBVIOUS
<1>8. ASSUME NEW u, Rising(u),
             \A i \in Bodies(u) : (i \in Bodies(f) /\ u[i] = f[i]) \/ u[i] = e
      PROVE  Ascend(g, d, u, m + 1)
  BY <1>3, <1>4, <1>7, <1>8 DEF Ascend
<1> QED
  BY <1>4, <1>5, <1>6, <1>8

\* The socket is gone, and the frames on it.
LEMMA AscendCut ==
  ASSUME NEW g, NEW d, NEW f, NEW m, Ascend(g, d, f, m)
  PROVE  Ascend(g, d, <<>>, m)
<1>1. Bodies(<<>>) = {}
  BY DEF Bodies
<1> QED
  BY <1>1 DEF Ascend, Rising

\* Every step keeps the order, whatever the bus loses.
LEMMA AscendStep ==
  ASSUME TypeOK, [Next]_vars, NEW q \in Requests, AscendInv(q)
  PROVE  AscendInv(q)'
<1> USE DEF proxyVars, clientVars, busVars, wireVars, cliVars
<1>1. /\ got \in [Requests -> Seq(Chunks)] /\ delivery \in [Requests -> Seq(Frames)]
      /\ toSrv \in [Requests -> Seq(Frames)] /\ sent \in [Requests -> 0 .. MaxChunks]
      /\ sent[q] \in Nat /\ got[q] \in Seq(Chunks)
      /\ delivery[q] \in Seq(Frames) /\ toSrv[q] \in Seq(Frames)
  BY MaxChunksAssumption DEF TypeOK, QueueTypes, CliTypes
<1>2. Ascend(got[q], delivery[q], toSrv[q], sent[q])
  BY DEF AscendInv
<1>3. \A t \in {"start", "startSse", "startBad", "end", "error"} :
        Frame(t) \in Frames /\ Frame(t).t # "body"
  BY DEF Frame, Frames, OtherFrames
\* Only the queue of events changes: an error or an end may be added.
<1>4. ASSUME UNCHANGED <<got[q], toSrv[q], sent[q]>>,
             \/ delivery'[q] = delivery[q]
             \/ \E t \in {"error", "end"} : delivery'[q] = Append(delivery[q], Frame(t))
      PROVE  AscendInv(q)'
  BY <1>1, <1>2, <1>3, <1>4, AscendPlain DEF AscendInv
<1>5. ASSUME NEW r \in Requests, Proxy(r) \/ Client(r) \/ Cli(r), q # r
      PROVE  AscendInv(q)'
  BY <1>2, <1>5, WireOther, StepOther DEF AscendInv
<1>6. CASE Proxy(q)
  <2>1. UNCHANGED <<toSrv, sent>>
    BY <1>6 DEF Proxy, WebRefuse, WebStart, VisitorLeaves, WebReturnUnavailable,
                WebReturnBad, WebReturnStream, WebRejected, WebTimeout, WebBuildFails,
                Catch, ProxyEvent, EventLost
  <2>2. CASE ProxyEvent(q) /\ entry[q] = "live" /\ Head(delivery[q]).t = "body"
    <3>1. /\ delivery[q] # <<>> /\ delivery'[q] = Tail(delivery[q])
          /\ got'[q] = Append(got[q], Head(delivery[q]).n)
      BY <1>1, <2>2 DEF ProxyEvent
    <3> QED
      BY <1>1, <1>2, <2>1, <2>2, <3>1, AscendPassed DEF AscendInv
  <2>3. CASE EventLost(q) \/ (ProxyEvent(q) /\ ~(entry[q] = "live" /\ Head(delivery[q]).t = "body"))
    <3>1. delivery[q] # <<>> /\ delivery'[q] = Tail(delivery[q]) /\ got' = got
      BY <1>1, <2>3 DEF ProxyEvent, EventLost
    <3> QED
      BY <1>1, <1>2, <2>1, <3>1, AscendEventGone DEF AscendInv
  <2>4. CASE ~ProxyEvent(q) /\ ~EventLost(q)
    <3>1. UNCHANGED <<got, delivery>>
      BY <1>6, <2>4 DEF Proxy, WebRefuse, WebStart, VisitorLeaves, WebReturnUnavailable,
                  WebReturnBad, WebReturnStream, WebRejected, WebTimeout, WebBuildFails, Catch
    <3> QED
      BY <1>4, <2>1, <3>1
  <2> QED
    BY <2>2, <2>3, <2>4
<1>7. CASE Client(q)
  <2>1. UNCHANGED <<got, sent>>
    BY <1>7 DEF Client, ClientRequest, HandleClientFrame, TotalTimeout, IdleTimeout,
                TimerFails, ClientCancel, CancelLost
  <2>2. CASE ClientRequest(q) \/ ClientCancel(q) \/ CancelLost(q)
    <3>1. UNCHANGED <<delivery, toSrv>>
      BY <2>2 DEF ClientRequest, ClientCancel, CancelLost
    <3> QED
      BY <1>4, <2>1, <3>1
  <2>3. CASE TotalTimeout(q) \/ IdleTimeout(q)
    <3>1. toSrv' = toSrv /\ (delivery' = delivery \/ QueueDelivery(q, Frame("error")))
      BY <2>3 DEF TotalTimeout, IdleTimeout, TimerFails, Fail
    <3> QED
      BY <1>1, <1>4, <2>1, <3>1 DEF QueueDelivery
  <2>4. CASE HandleClientFrame(q)
    <3> DEFINE f == Head(toSrv[q])
    <3>1. toSrv[q] # <<>> /\ toSrv'[q] = Tail(toSrv[q]) /\ Tail(toSrv[q]) \in Seq(Frames)
      BY <1>1, <2>4, TailOf DEF HandleClientFrame
    <3>2. Ascend(got[q], delivery[q], Tail(toSrv[q]), sent[q])
      BY <1>1, <1>2, <3>1, AscendFrameGone
    <3>3. CASE f.t = "body" /\ OnBody(q, f.n)
      <4>1. f \in Frames
        BY <1>1, <3>1, TailOf
      <4>2. BodyFrame(f.n) = f
        BY <3>3, <4>1 DEF BodyFrame, Frames, BodyFrames, OtherFrames
      <4>3. delivery'[q] = Append(delivery[q], f)
        BY <1>1, <3>3, <4>2 DEF OnBody, QueueDelivery
      <4> QED
        BY <1>1, <1>2, <2>1, <3>1, <3>3, <4>3, AscendQueued DEF AscendInv
    <3>4. CASE \/ delivery' = delivery
               \/ \E t \in {"error", "end"} : QueueDelivery(q, Frame(t))
      <4>1. \/ delivery'[q] = delivery[q]
            \/ \E t \in {"error", "end"} : delivery'[q] = Append(delivery[q], Frame(t))
        BY <1>1, <3>4 DEF QueueDelivery
      <4> QED
        BY <1>1, <1>3, <2>1, <3>1, <3>2, <4>1, AscendPlain DEF AscendInv
    <3> QED
      BY <2>4, <3>3, <3>4 DEF HandleClientFrame, OnStart, OnEnd, OnError, Fail
  <2> QED
    BY <1>7, <2>2, <2>3, <2>4 DEF Client
<1>8. CASE Cli(q)
  <2>1. UNCHANGED <<got, delivery>>
    BY <1>8 DEF Cli, CliFrame, CliStart, CliBody, CliEnd, CliError, CliAborts
  <2>2. CASE CliBody(q)
    <3>1. sent[q] + 1 \in Chunks /\ sent'[q] = sent[q] + 1
      BY <1>1, <2>2, MaxChunksAssumption DEF CliBody, Chunks
    <3>2. PICK e \in Frames : e = BodyFrame(sent[q] + 1)
      BY <3>1 DEF BodyFrame, Frames, BodyFrames
    <3>3. toSrv'[q] = toSrv[q] \/ toSrv'[q] = Append(toSrv[q], e)
      BY <1>1, <2>2, <3>2 DEF CliBody, SendToSrv
    <3>4. e.n = sent[q] + 1
      BY <3>2 DEF BodyFrame
    <3>5. /\ Ascend(got[q], delivery[q], Append(toSrv[q], e), sent[q] + 1)
          /\ Ascend(got[q], delivery[q], toSrv[q], sent[q] + 1)
      BY <1>1, <1>2, <3>4, AscendSent
    <3> QED
      BY <2>1, <3>1, <3>3, <3>5 DEF AscendInv
  <2>3. CASE ~CliBody(q)
    <3>1. /\ sent' = sent
          /\ \/ toSrv' = toSrv
             \/ \E t \in {"start", "startSse", "startBad", "end", "error"} :
                  SendToSrv(q, Frame(t))
      BY <1>8, <2>3 DEF Cli, CliFrame, CliStart, CliEnd, CliError, CliAborts
    <3>2. \/ toSrv'[q] = toSrv[q]
          \/ \E t \in {"start", "startSse", "startBad", "end", "error"} :
               toSrv'[q] = Append(toSrv[q], Frame(t))
      BY <1>1, <3>1 DEF SendToSrv
    <3> QED
      BY <1>1, <1>2, <1>3, <2>1, <3>1, <3>2, AscendPlain DEF AscendInv
  <2> QED
    BY <2>2, <2>3
<1>9. CASE SocketClosed
  <2>1. /\ UNCHANGED <<got, sent>> /\ toSrv'[q] = <<>>
        /\ delivery'[q] = delivery[q] \/ delivery'[q] = Append(delivery[q], Frame("error"))
    BY <1>9 DEF SocketClosed
  <2>2. Ascend(got[q], delivery[q], <<>>, sent[q]) /\ <<>> \in Seq(Frames)
    BY <1>2, AscendCut
  <2> QED
    BY <1>1, <1>3, <2>1, <2>2, AscendPlain DEF AscendInv
<1>10. CASE Dispose \/ SocketCloses \/ CliDisconnects \/ UNCHANGED vars
  BY <1>2, <1>10 DEF Dispose, SocketCloses, CliDisconnects, vars, AscendInv
<1> QED
  BY <1>5, <1>6, <1>7, <1>8, <1>9, <1>10 DEF Next

\* On every bus the stream gets chunks in the order they were sent, none
\* twice and none that was not sent: events that are lost leave gaps and
\* nothing worse (queueDelivery, closePublicResponse, localRequest).
THEOREM ChunksNeverRepeat == Spec => []NoChunkTwice
<1> DEFINE Inv == TypeOK /\ \A r \in Requests : AscendInv(r)
<1>1. Init => Inv
  <2> SUFFICES ASSUME Init, NEW r \in Requests
               PROVE  AscendInv(r)
    BY TypeInit
  <2>1. got[r] = <<>> /\ delivery[r] = <<>> /\ toSrv[r] = <<>>
    BY DEF Init
  <2>2. Len(got[r]) = 0 /\ Bodies(<<>>) = {}
    BY <2>1 DEF Bodies
  <2> QED
    BY <2>1, <2>2 DEF AscendInv, Ascend, Rising
<1>2. Inv /\ [Next]_vars => Inv'
  BY TypeStep, AscendStep
<1>3. Inv => NoChunkTwice
  <2> SUFFICES ASSUME TypeOK, NEW r \in Requests, AscendInv(r), NEW i \in DOMAIN got[r]
               PROVE  /\ got[r][i] <= sent[r]
                      /\ \A j \in DOMAIN got[r] : i < j => got[r][i] < got[r][j]
    BY DEF NoChunkTwice
  <2>1. DOMAIN got[r] = 1 .. Len(got[r])
    BY DEF TypeOK, QueueTypes
  <2> QED
    BY <2>1 DEF AscendInv, Ascend
<1> QED
  BY <1>1, <1>2, <1>3, PTL DEF Spec
=============================================================================
