------------------------- MODULE ProxyStreamProofs -------------------------
(***************************************************************************)
(* Theorems about ProxyStream, for every set of requests, every bound on   *)
(* the chunks and both kinds of bus.                                       *)
(***************************************************************************)
EXTENDS ProxyStream, TLAPS

-----------------------------------------------------------------------------
(* Type correctness, one group of variables at a time. *)

\* The initial state has the declared types.
LEMMA TypeInit == Init => TypeOK
<1> SUFFICES ASSUME Init PROVE TypeOK
  OBVIOUS
<1>1. ProxyTypes
  BY DEF Init, ProxyTypes
<1>2. ClientTypes
  BY DEF Init, ClientTypes
<1>3. BusTypes
  BY DEF Init, BusTypes
<1>4. WireTypes
  BY DEF Init, WireTypes
<1>5. CliTypes
  BY MaxChunksAssumption DEF Init, CliTypes
<1>6. QueueTypes
  BY DEF Init, QueueTypes
<1> QED
  BY <1>1, <1>2, <1>3, <1>4, <1>5, <1>6 DEF TypeOK

\* A group of variables that a step leaves alone keeps its types.
LEMMA TypeFrameRule ==
  ASSUME TypeOK
  PROVE  /\ UNCHANGED <<web, answer, entry, stream, owner, usage, disposed>> => ProxyTypes'
         /\ UNCHANGED <<pend, total, idle>> => ClientTypes'
         /\ UNCHANGED <<rpc, cancelMsg>> => BusTypes'
         /\ UNCHANGED <<sock, conn>> => WireTypes'
         /\ UNCHANGED <<work, cancelled, sent>> => CliTypes'
         /\ UNCHANGED <<got, delivery, toCli, toSrv>> => QueueTypes'
<1> USE DEF TypeOK
<1>1. UNCHANGED <<web, answer, entry, stream, owner, usage, disposed>> => ProxyTypes'
  BY DEF ProxyTypes
<1>2. UNCHANGED <<pend, total, idle>> => ClientTypes'
  BY DEF ClientTypes
<1>3. UNCHANGED <<rpc, cancelMsg>> => BusTypes'
  BY DEF BusTypes
<1>4. UNCHANGED <<sock, conn>> => WireTypes'
  BY DEF WireTypes
<1>5. UNCHANGED <<work, cancelled, sent>> => CliTypes'
  BY DEF CliTypes
<1>6. UNCHANGED <<got, delivery, toCli, toSrv>> => QueueTypes'
  BY DEF QueueTypes
<1> QED
  BY <1>1, <1>2, <1>3, <1>4, <1>5, <1>6

\* A typed first event or frame, and a typed rest.
LEMMA HeadTailType ==
  ASSUME NEW S, NEW q \in Seq(S), q # <<>>
  PROVE  Head(q) \in S /\ Tail(q) \in Seq(S)
OBVIOUS

\* Appending to one queue of many keeps them well typed.
LEMMA AppendType ==
  ASSUME NEW D, NEW S, NEW f \in [D -> Seq(S)], NEW d \in D, NEW e \in S
  PROVE  [f EXCEPT ![d] = Append(@, e)] \in [D -> Seq(S)]
<1>1. Append(f[d], e) \in Seq(S)
  OBVIOUS
<1> QED
  BY <1>1

\* Every step of the proxy plugin keeps the types.
LEMMA TypeProxy ==
  ASSUME TypeOK, NEW r \in Requests, Proxy(r)
  PROVE  TypeOK'
<1> USE DEF TypeOK, proxyVars, clientVars, busVars, wireVars, cliVars
<1>1. CASE WebRefuse(r)
  <2>1. ProxyTypes'
    BY <1>1 DEF WebRefuse, ProxyTypes, Return
  <2> QED
    BY <1>1, <2>1, TypeFrameRule DEF WebRefuse
<1>2. CASE WebStart(r)
  <2>1. ProxyTypes'
    BY <1>2 DEF WebStart, ProxyTypes
  <2>2. BusTypes'
    BY <1>2 DEF WebStart, BusTypes
  <2> QED
    BY <1>2, <2>1, <2>2, TypeFrameRule DEF WebStart
<1>3. CASE VisitorLeaves(r)
  <2>1. ProxyTypes'
    BY <1>3 DEF VisitorLeaves, ProxyTypes, CancelPublic
  <2>2. BusTypes'
    BY <1>3 DEF VisitorLeaves, BusTypes, CancelPublic
  <2> QED
    BY <1>3, <2>1, <2>2, TypeFrameRule DEF VisitorLeaves
<1>4. CASE WebReturnUnavailable(r)
  <2>1. ProxyTypes'
    BY <1>4 DEF WebReturnUnavailable, ProxyTypes, Return
  <2> QED
    BY <1>4, <2>1, TypeFrameRule DEF WebReturnUnavailable
<1>5. CASE WebReturnBad(r)
  <2>1. ProxyTypes'
    BY <1>5 DEF WebReturnBad, ProxyTypes, Return, Finish
  <2>2. BusTypes'
    BY <1>5 DEF WebReturnBad, BusTypes
  <2> QED
    BY <1>5, <2>1, <2>2, TypeFrameRule DEF WebReturnBad
<1>6. CASE WebReturnStream(r)
  <2>1. ProxyTypes'
    BY <1>6 DEF WebReturnStream, ProxyTypes, Return
  <2> QED
    BY <1>6, <2>1, TypeFrameRule DEF WebReturnStream
<1>7. CASE WebRejected(r)
  <2>1. ProxyTypes'
    BY <1>7 DEF WebRejected, ProxyTypes, Return, Finish, Catch
  <2> QED
    BY <1>7, <2>1, TypeFrameRule DEF WebRejected, Catch
<1>8. CASE WebTimeout(r)
  <2>1. ProxyTypes'
    BY <1>8 DEF WebTimeout, ProxyTypes, Return, Finish, Catch
  <2> QED
    BY <1>8, <2>1, TypeFrameRule DEF WebTimeout, Catch
<1>9. CASE WebBuildFails(r)
  <2>1. ProxyTypes'
    BY <1>9 DEF WebBuildFails, ProxyTypes, Return, Finish, Catch
  <2> QED
    BY <1>9, <2>1, TypeFrameRule DEF WebBuildFails, Catch
<1>10. CASE ProxyEvent(r)
  <2>1. /\ delivery[r] \in Seq(Frames) /\ delivery[r] # <<>>
        /\ delivery' = [delivery EXCEPT ![r] = Tail(@)]
    BY <1>10 DEF QueueTypes, ProxyEvent
  <2>2. Head(delivery[r]) \in Frames /\ Tail(delivery[r]) \in Seq(Frames)
    BY <2>1, HeadTailType
  <2>3. Head(delivery[r]).t = "body" => Head(delivery[r]).n \in Chunks
    BY <2>2 DEF Frames, BodyFrames, OtherFrames
  <2>4. got' \in [Requests -> Seq(Chunks)]
    <3>1. CASE got' = got
      BY <3>1 DEF QueueTypes
    <3>2. CASE /\ Head(delivery[r]).t = "body"
               /\ got' = [got EXCEPT ![r] = Append(@, Head(delivery[r]).n)]
      BY <2>3, <3>2 DEF QueueTypes
    <3> QED
      BY <1>10, <3>1, <3>2 DEF ProxyEvent
  <2>5. QueueTypes'
    <3>1. delivery' \in [Requests -> Seq(Frames)]
      BY <2>1, <2>2 DEF QueueTypes
    <3>2. UNCHANGED <<toCli, toSrv>>
      BY <1>10 DEF ProxyEvent
    <3> QED
      BY <2>4, <3>1, <3>2 DEF QueueTypes
  <2>6. ProxyTypes'
    <3>1. UNCHANGED <<web, answer, owner, disposed>>
      BY <1>10 DEF ProxyEvent
    <3>2. \/ UNCHANGED <<entry, stream, usage>>
          \/ Finish(r, "closed")
          \/ Finish(r, "errored")
      BY <1>10 DEF ProxyEvent
    <3> QED
      BY <3>1, <3>2 DEF ProxyTypes, Finish
  <2> QED
    BY <1>10, <2>5, <2>6, TypeFrameRule DEF ProxyEvent
<1>11. CASE EventLost(r)
  <2>1. QueueTypes'
    BY <1>11, HeadTailType DEF QueueTypes, EventLost
  <2> QED
    BY <1>11, <2>1, TypeFrameRule DEF EventLost
<1> QED
  BY <1>1, <1>2, <1>3, <1>4, <1>5, <1>6, <1>7, <1>8, <1>9, <1>10, <1>11 DEF Proxy

\* Fail leaves the client plugin's and the bus's state and the chain of events
\* well typed.
LEMMA TypeFail ==
  ASSUME TypeOK, NEW r \in Requests, NEW why \in Rejections, Fail(r, why)
  PROVE  /\ ClientTypes'
         /\ rpc' \in [Requests -> {"none", "called", "serving"} \cup Replies]
         /\ delivery' \in [Requests -> Seq(Frames)]
<1> USE DEF TypeOK
<1>1. Frame("error") \in Frames
  BY DEF Frame, Frames, OtherFrames
<1>2. delivery' \in [Requests -> Seq(Frames)]
  <2>1. delivery' = delivery \/ delivery' = [delivery EXCEPT ![r] = Append(@, Frame("error"))]
    BY DEF Fail, QueueDelivery
  <2>2. delivery \in [Requests -> Seq(Frames)]
    BY DEF QueueTypes
  <2>3. [delivery EXCEPT ![r] = Append(@, Frame("error"))] \in [Requests -> Seq(Frames)]
    BY <1>1, <2>2, AppendType, Zenon
  <2> QED
    BY <2>1, <2>2, <2>3, Zenon
<1>3. rpc' \in [Requests -> {"none", "called", "serving"} \cup Replies]
  <2>1. rpc' = rpc \/ rpc' = [rpc EXCEPT ![r] = why]
    BY DEF Fail, SettlePromise
  <2> QED
    BY <2>1 DEF BusTypes, Replies
<1>4. ClientTypes'
  BY DEF ClientTypes, Fail, Drop
<1> QED
  BY <1>2, <1>3, <1>4

\* Frames for the CLI are well typed.
LEMMA TypeSendToCli ==
  ASSUME TypeOK, NEW r \in Requests,
         NEW frame \in {"request.start", "request.cancel"}, SendToCli(r, frame)
  PROVE  toCli' \in [Requests -> Seq({"request.start", "request.cancel"})]
<1>1. \/ toCli' = toCli
      \/ toCli' = [toCli EXCEPT ![r] = Append(@, frame)]
  BY DEF SendToCli
<1>2. toCli \in [Requests -> Seq({"request.start", "request.cancel"})]
  BY DEF TypeOK, QueueTypes
<1>3. [toCli EXCEPT ![r] = Append(@, frame)]
        \in [Requests -> Seq({"request.start", "request.cancel"})]
  BY <1>2, AppendType, Zenon
<1> QED
  BY <1>1, <1>2, <1>3, Zenon

\* Every frame of the CLI that the client plugin handles keeps the types.
LEMMA TypeFrame ==
  ASSUME TypeOK, NEW r \in Requests, HandleClientFrame(r)
  PROVE  TypeOK'
<1> DEFINE f == Head(toSrv[r])
<1> USE DEF TypeOK, proxyVars, clientVars, cliVars
<1>1. f \in Frames /\ Tail(toSrv[r]) \in Seq(Frames)
  BY HeadTailType DEF QueueTypes, HandleClientFrame
<1>2. toSrv' \in [Requests -> Seq(Frames)]
  BY <1>1 DEF QueueTypes, HandleClientFrame
<1>3. CASE ~InMap(r) /\ UNCHANGED <<clientVars, rpc, toCli>>
  <2>1. QueueTypes'
    BY <1>2, <1>3 DEF QueueTypes, HandleClientFrame
  <2> QED
    BY <1>3, <2>1, TypeFrameRule DEF HandleClientFrame
<1>4. CASE f.t \in {"start", "startSse", "startBad"} /\ OnStart(r, f.t)
  <2>1. QueueTypes'
    BY <1>2, <1>4 DEF QueueTypes, HandleClientFrame, OnStart
  <2>2. ClientTypes'
    BY <1>4 DEF ClientTypes, OnStart
  <2>3. BusTypes'
    BY <1>4 DEF BusTypes, HandleClientFrame, OnStart, SettlePromise, Replies
  <2> QED
    BY <1>4, <2>1, <2>2, <2>3, TypeFrameRule DEF HandleClientFrame
<1>5. CASE f.t = "body" /\ OnBody(r, f.n)
  <2>1. BodyFrame(f.n) \in Frames
    BY <1>1, <1>5 DEF BodyFrame, Frames, BodyFrames, OtherFrames
  <2>2. QueueTypes'
    BY <1>2, <1>5, <2>1 DEF QueueTypes, HandleClientFrame, OnBody, QueueDelivery
  <2>3. ClientTypes'
    BY <1>5 DEF ClientTypes, OnBody
  <2> QED
    BY <1>5, <2>2, <2>3, TypeFrameRule DEF HandleClientFrame, OnBody
<1>6. CASE f.t = "end" /\ OnEnd(r)
  <2>1. Frame("end") \in Frames
    BY DEF Frame, Frames, OtherFrames
  <2>2. QueueTypes'
    BY <1>2, <1>6, <2>1 DEF QueueTypes, HandleClientFrame, OnEnd, QueueDelivery
  <2>3. ClientTypes'
    BY <1>6 DEF ClientTypes, OnEnd, Drop
  <2> QED
    BY <1>6, <2>2, <2>3, TypeFrameRule DEF HandleClientFrame, OnEnd
<1>7. CASE f.t = "error" /\ OnError(r)
  <2>1. Fail(r, "appError") /\ SendToCli(r, "request.cancel")
    BY <1>7 DEF OnError
  <2>2. /\ ClientTypes' /\ delivery' \in [Requests -> Seq(Frames)]
        /\ rpc' \in [Requests -> {"none", "called", "serving"} \cup Replies]
    BY <2>1, TypeFail DEF Rejections
  <2>3. toCli' \in [Requests -> Seq({"request.start", "request.cancel"})]
    BY <2>1, TypeSendToCli
  <2>4. QueueTypes'
    BY <1>2, <2>2, <2>3 DEF QueueTypes, HandleClientFrame
  <2>5. BusTypes'
    BY <2>2 DEF BusTypes, HandleClientFrame
  <2> QED
    BY <2>2, <2>4, <2>5, TypeFrameRule DEF HandleClientFrame
<1> QED
  BY <1>3, <1>4, <1>5, <1>6, <1>7 DEF HandleClientFrame

\* Every step of the client plugin keeps the types.
LEMMA TypeClient ==
  ASSUME TypeOK, NEW r \in Requests, Client(r)
  PROVE  TypeOK'
<1> USE DEF TypeOK, proxyVars, clientVars, wireVars, cliVars
<1>1. CASE ClientRequest(r)
  <2>1. QueueTypes'
    <3>1. toCli' = toCli \/ SendToCli(r, "request.start")
      BY <1>1 DEF ClientRequest
    <3>2. toCli \in [Requests -> Seq({"request.start", "request.cancel"})]
      BY DEF QueueTypes
    <3>3. toCli' \in [Requests -> Seq({"request.start", "request.cancel"})]
      BY <3>1, <3>2, TypeSendToCli
    <3>4. UNCHANGED <<got, delivery, toSrv>>
      BY <1>1 DEF ClientRequest
    <3> QED
      BY <3>3, <3>4 DEF QueueTypes
  <2>2. ClientTypes'
    BY <1>1 DEF ClientTypes, ClientRequest
  <2>3. BusTypes'
    BY <1>1 DEF BusTypes, ClientRequest, Replies
  <2> QED
    BY <1>1, <2>1, <2>2, <2>3, TypeFrameRule DEF ClientRequest
<1>2. CASE HandleClientFrame(r)
  BY <1>2, TypeFrame
<1>3. ASSUME NEW why \in Rejections, TimerFails(r, why)
      PROVE  TypeOK'
  <2>1. /\ ClientTypes' /\ delivery' \in [Requests -> Seq(Frames)]
        /\ rpc' \in [Requests -> {"none", "called", "serving"} \cup Replies]
    BY <1>3, TypeFail DEF TimerFails
  <2>2. toCli' \in [Requests -> Seq({"request.start", "request.cancel"})]
    BY <1>3, TypeSendToCli DEF TimerFails
  <2>3. QueueTypes'
    BY <1>3, <2>1, <2>2 DEF QueueTypes, TimerFails
  <2>4. BusTypes'
    BY <1>3, <2>1 DEF BusTypes, TimerFails
  <2> QED
    BY <1>3, <2>1, <2>3, <2>4, TypeFrameRule DEF TimerFails
<1>4. CASE TotalTimeout(r)
  BY <1>3, <1>4 DEF TotalTimeout, Rejections
<1>5. CASE IdleTimeout(r)
  BY <1>3, <1>5 DEF IdleTimeout, Rejections
<1>6. CASE ClientCancel(r)
  <2>1. QueueTypes'
    <3>1. toCli' = toCli \/ SendToCli(r, "request.cancel")
      BY <1>6 DEF ClientCancel
    <3>2. toCli \in [Requests -> Seq({"request.start", "request.cancel"})]
      BY DEF QueueTypes
    <3>3. toCli' \in [Requests -> Seq({"request.start", "request.cancel"})]
      BY <3>1, <3>2, TypeSendToCli
    <3>4. UNCHANGED <<got, delivery, toSrv>>
      BY <1>6 DEF ClientCancel
    <3> QED
      BY <3>3, <3>4 DEF QueueTypes
  <2>2. ClientTypes'
    BY <1>6 DEF ClientTypes, ClientCancel, Drop
  <2>3. BusTypes'
    <3>1. rpc' = rpc \/ rpc' = [rpc EXCEPT ![r] = "cancelled"]
      BY <1>6 DEF ClientCancel, SettlePromise
    <3>2. cancelMsg' = [cancelMsg EXCEPT ![r] = FALSE]
      BY <1>6 DEF ClientCancel
    <3> QED
      BY <3>1, <3>2 DEF BusTypes, Replies, Rejections
  <2> QED
    BY <1>6, <2>1, <2>2, <2>3, TypeFrameRule DEF ClientCancel
<1>7. CASE CancelLost(r)
  <2>1. BusTypes'
    BY <1>7 DEF BusTypes, CancelLost
  <2> QED
    BY <1>7, <2>1, TypeFrameRule DEF CancelLost
<1> QED
  BY <1>1, <1>2, <1>4, <1>5, <1>6, <1>7 DEF Client

\* Every step of the CLI keeps the types.
LEMMA TypeCli ==
  ASSUME TypeOK, NEW r \in Requests, Cli(r)
  PROVE  TypeOK'
<1> USE DEF TypeOK, proxyVars, clientVars, busVars, wireVars
<1>1. ASSUME NEW frame \in Frames, SendToSrv(r, frame), UNCHANGED <<got, delivery, toCli>>
      PROVE  QueueTypes'
  BY <1>1 DEF QueueTypes, SendToSrv
<1>2. CASE CliFrame(r)
  <2>1. QueueTypes'
    <3>1. Tail(toCli[r]) \in Seq({"request.start", "request.cancel"})
      BY <1>2, HeadTailType DEF QueueTypes, CliFrame
    <3>2. /\ toCli' = [toCli EXCEPT ![r] = Tail(@)]
          /\ UNCHANGED <<got, delivery, toSrv>>
      BY <1>2 DEF CliFrame
    <3> QED
      BY <3>1, <3>2 DEF QueueTypes
  <2>2. CliTypes'
    BY <1>2 DEF CliTypes, CliFrame, Running
  <2> QED
    BY <1>2, <2>1, <2>2, TypeFrameRule DEF CliFrame
<1>3. CASE CliStart(r)
  <2>1. PICK type \in {"start", "startSse", "startBad"} : SendToSrv(r, Frame(type))
    BY <1>3 DEF CliStart
  <2>2. Frame(type) \in Frames
    BY DEF Frame, Frames, OtherFrames
  <2>3. QueueTypes'
    BY <1>1, <1>3, <2>1, <2>2 DEF CliStart
  <2>4. CliTypes'
    BY <1>3 DEF CliTypes, CliStart
  <2> QED
    BY <1>3, <2>3, <2>4, TypeFrameRule DEF CliStart
<1>4. CASE CliBody(r)
  <2>1. sent[r] \in 0 .. MaxChunks /\ sent[r] < MaxChunks
    BY <1>4 DEF CliTypes, CliBody
  <2>2. sent[r] + 1 \in 1 .. MaxChunks
    BY <2>1, MaxChunksAssumption
  <2>3. BodyFrame(sent[r] + 1) \in Frames
    BY <2>2 DEF BodyFrame, Frames, BodyFrames, Chunks
  <2>4. QueueTypes'
    BY <1>1, <1>4, <2>3 DEF CliBody
  <2>5. CliTypes'
    BY <1>4, <2>2, MaxChunksAssumption DEF CliTypes, CliBody
  <2> QED
    BY <1>4, <2>4, <2>5, TypeFrameRule DEF CliBody
<1>5. CASE CliEnd(r)
  <2>1. Frame("end") \in Frames
    BY DEF Frame, Frames, OtherFrames
  <2>2. QueueTypes'
    BY <1>1, <1>5, <2>1 DEF CliEnd
  <2>3. CliTypes'
    BY <1>5 DEF CliTypes, CliEnd
  <2> QED
    BY <1>5, <2>2, <2>3, TypeFrameRule DEF CliEnd
<1>6. CASE CliError(r)
  <2>1. Frame("error") \in Frames
    BY DEF Frame, Frames, OtherFrames
  <2>2. QueueTypes'
    BY <1>1, <1>6, <2>1 DEF CliError
  <2>3. CliTypes'
    BY <1>6 DEF CliTypes, CliError
  <2> QED
    BY <1>6, <2>2, <2>3, TypeFrameRule DEF CliError
<1>7. CASE CliAborts(r)
  <2>1. CliTypes'
    BY <1>7 DEF CliTypes, CliAborts
  <2> QED
    BY <1>7, <2>1, TypeFrameRule DEF CliAborts
<1> QED
  BY <1>2, <1>3, <1>4, <1>5, <1>6, <1>7 DEF Cli

\* The steps that concern every request at once keep the types.
LEMMA TypeShared ==
  ASSUME TypeOK, Dispose \/ SocketCloses \/ SocketClosed \/ CliDisconnects
  PROVE  TypeOK'
<1> USE DEF TypeOK, proxyVars, clientVars, busVars, wireVars, cliVars
<1>1. CASE Dispose
  <2>1. ProxyTypes'
    BY <1>1 DEF ProxyTypes, Dispose, CancelPublic
  <2>2. BusTypes'
    BY <1>1 DEF BusTypes, Dispose, CancelPublic
  <2> QED
    BY <1>1, <2>1, <2>2, TypeFrameRule DEF Dispose
<1>2. CASE SocketCloses
  <2>1. WireTypes'
    BY <1>2 DEF WireTypes, SocketCloses
  <2> QED
    BY <1>2, <2>1, TypeFrameRule DEF SocketCloses
<1>3. CASE SocketClosed
  <2>1. Frame("error") \in Frames
    BY DEF Frame, Frames, OtherFrames
  <2>2. QueueTypes'
    BY <1>3, <2>1 DEF QueueTypes, SocketClosed
  <2>3. ClientTypes'
    BY <1>3 DEF ClientTypes, SocketClosed
  <2>4. BusTypes'
    BY <1>3 DEF BusTypes, SocketClosed, Replies, Rejections
  <2>5. WireTypes'
    BY <1>3 DEF WireTypes, SocketClosed
  <2> QED
    BY <1>3, <2>2, <2>3, <2>4, <2>5, TypeFrameRule DEF SocketClosed
<1>4. CASE CliDisconnects
  <2>1. QueueTypes'
    BY <1>4 DEF QueueTypes, CliDisconnects
  <2>2. CliTypes'
    BY <1>4 DEF CliTypes, CliDisconnects
  <2>3. WireTypes'
    BY <1>4 DEF WireTypes, CliDisconnects
  <2> QED
    BY <1>4, <2>1, <2>2, <2>3, TypeFrameRule DEF CliDisconnects
<1> QED
  BY <1>1, <1>2, <1>3, <1>4

\* Every step keeps the types.
LEMMA TypeStep == TypeOK /\ [Next]_vars => TypeOK'
<1> SUFFICES ASSUME TypeOK, [Next]_vars PROVE TypeOK'
  OBVIOUS
<1>1. CASE Next
  BY <1>1, TypeProxy, TypeClient, TypeCli, TypeShared DEF Next
<1>2. CASE UNCHANGED vars
  BY <1>2, TypeFrameRule DEF TypeOK, vars, proxyVars, clientVars, busVars, wireVars, cliVars
<1> QED
  BY <1>1, <1>2

\* Type correctness: the state of the proxy, the client plugin, the bus, the
\* socket and the CLI always has the declared shape.
THEOREM TypeCorrect == Spec => []TypeOK
BY TypeInit, TypeStep, PTL DEF Spec

-----------------------------------------------------------------------------
(* Usage is counted once.                                                  *)
(*                                                                         *)
(* UsageCountedOnce is not inductive: a reply that finds a settled entry   *)
(* with an open stream would count again, and so would a handler that      *)
(* still waits although no entry was made.                                 *)

ExchangeInv(r) ==
  /\ web[r] = "idle" => entry[r] = "none"
  /\ web[r] = "waiting" => entry[r] # "none"
  /\ stream[r] = "open" <=> entry[r] # "settled"
  /\ usage[r] = IF entry[r] = "settled" \/ (entry[r] = "none" /\ web[r] = "done")
                THEN 1 ELSE 0

\* A request that a step does not concern keeps its part of the invariant.
LEMMA ExchangeFrame ==
  ASSUME NEW q, ExchangeInv(q), web'[q] = web[q], entry'[q] = entry[q],
         stream'[q] = stream[q], usage'[q] = usage[q]
  PROVE  ExchangeInv(q)'
BY DEF ExchangeInv

\* Every way for the handler to return keeps the invariant.
LEMMA ExchangeReturn ==
  ASSUME ProxyTypes, NEW r \in Requests, NEW q \in Requests, ExchangeInv(q),
         \/ WebReturnUnavailable(r) \/ WebReturnBad(r) \/ WebReturnStream(r)
         \/ WebRejected(r) \/ WebTimeout(r) \/ WebBuildFails(r)
  PROVE  ExchangeInv(q)'
<1>1. /\ web[r] = "waiting"
      /\ web' = [web EXCEPT ![r] = "done"]
  BY DEF WebReturnUnavailable, WebReturnBad, WebReturnStream, WebRejected,
         WebTimeout, WebBuildFails, Catch, Return
<1>2. CASE UNCHANGED <<entry, stream, usage>>
  BY <1>1, <1>2 DEF ExchangeInv, ProxyTypes
<1>3. CASE entry[r] = "live" /\ (Finish(r, "closed") \/ Finish(r, "errored"))
  BY <1>1, <1>3 DEF ExchangeInv, ProxyTypes, Finish
<1>4. CASE WebReturnUnavailable(r)
  BY <1>1, <1>4 DEF ExchangeInv, ProxyTypes, WebReturnUnavailable
<1> QED
  BY <1>2, <1>3, <1>4 DEF WebReturnBad, WebReturnStream, WebRejected,
                          WebTimeout, WebBuildFails, Catch

\* Cancelling any set of exchanges keeps the invariant.
LEMMA ExchangeCancel ==
  ASSUME ProxyTypes, NEW S \in SUBSET Requests, NEW state \in {"closed", "left"},
         NEW q \in Requests, ExchangeInv(q), CancelPublic(S, state), web' = web
  PROVE  ExchangeInv(q)'
BY DEF ExchangeInv, ProxyTypes, CancelPublic

\* Every step keeps the invariant.
LEMMA ExchangeStep ==
  ASSUME TypeOK, [Next]_vars, NEW q \in Requests, ExchangeInv(q)
  PROVE  ExchangeInv(q)'
<1> USE DEF proxyVars
<1>1. ProxyTypes
  BY DEF TypeOK
<1>2. ASSUME NEW r \in Requests, Proxy(r)
      PROVE  ExchangeInv(q)'
  <2>1. CASE WebRefuse(r)
    BY <1>1, <2>1 DEF ExchangeInv, ProxyTypes, WebRefuse, Return
  <2>2. CASE WebStart(r)
    BY <1>1, <2>2 DEF ExchangeInv, ProxyTypes, WebStart
  <2>3. CASE VisitorLeaves(r)
    BY <1>1, <2>3, ExchangeCancel DEF VisitorLeaves
  <2>4. CASE ProxyEvent(r)
    <3>1. web' = web
      BY <2>4 DEF ProxyEvent
    <3>2. CASE UNCHANGED <<entry, stream, usage>>
      BY <3>1, <3>2, ExchangeFrame
    <3>3. CASE entry[r] = "live" /\ (Finish(r, "closed") \/ Finish(r, "errored"))
      BY <1>1, <3>1, <3>3 DEF ExchangeInv, ProxyTypes, Finish
    <3> QED
      BY <2>4, <3>2, <3>3 DEF ProxyEvent
  <2>5. CASE EventLost(r)
    BY <2>5, ExchangeFrame DEF EventLost
  <2> QED
    BY <1>1, <1>2, <2>1, <2>2, <2>3, <2>4, <2>5, ExchangeReturn DEF Proxy
<1>3. ASSUME NEW r \in Requests, Client(r) \/ Cli(r)
      PROVE  UNCHANGED <<web, entry, stream, usage>>
  BY <1>3 DEF Client, ClientRequest, HandleClientFrame, TotalTimeout, IdleTimeout,
              TimerFails, ClientCancel, CancelLost,
              Cli, CliFrame, CliStart, CliBody, CliEnd, CliError, CliAborts
<1>4. CASE Dispose
  BY <1>1, <1>4, ExchangeCancel DEF Dispose
<1>5. CASE SocketCloses \/ SocketClosed \/ CliDisconnects \/ UNCHANGED vars
  BY <1>5, ExchangeFrame DEF SocketCloses, SocketClosed, CliDisconnects, vars
<1> QED
  BY <1>2, <1>3, <1>4, <1>5, ExchangeFrame DEF Next

\* Usage is counted once for each request, at the moment it settles, for any
\* number of requests, chunks and lost events: no order of reply, event,
\* timeout, cancel and shutdown counts twice or forgets.
THEOREM UsageCorrect == Spec => []UsageCountedOnce
<1> DEFINE Inv == TypeOK /\ \A r \in Requests : ExchangeInv(r)
<1>1. Init => Inv
  BY TypeInit DEF Init, ExchangeInv
<1>2. Inv /\ [Next]_vars => Inv'
  BY TypeStep, ExchangeStep
<1>3. Inv => UsageCountedOnce
  BY DEF ExchangeInv, UsageCountedOnce
<1> QED
  BY <1>1, <1>2, <1>3, PTL DEF Spec

-----------------------------------------------------------------------------
(* Nothing waits without a timer, and the RPC is never stranded.           *)
(*                                                                         *)
(* Both need that a request enters the pending map at most once, and not   *)
(* before the proxy has called. They also rest on the order of the CLI's   *)
(* frames: response.end drops a request without settling its call, so no   *)
(* end may be read while the request still waits for response.start.       *)

Starts == {"start", "startSse", "startBad"}

WireInv(r) ==
  /\ pend[r] = "none" => toCli[r] = <<>> /\ toSrv[r] = <<>> /\ work[r] = "none"
  /\ sock = "closed" => ~InMap(r)
  /\ pend[r] = "waiting" /\ toSrv[r] = <<>> => work[r] \notin {"streaming", "finished"}
  /\ pend[r] = "waiting" /\ toSrv[r] # <<>> => Head(toSrv[r]).t \in Starts \cup {"error"}

PendingInv(r) ==
  /\ web[r] = "idle" => rpc[r] = "none"
  /\ rpc[r] \in {"none", "called"} => pend[r] = "none"
  /\ rpc[r] = "serving" <=> pend[r] = "waiting"
  /\ InMap(r) <=> total[r] \/ idle[r]
  /\ pend[r] = "waiting" => total[r]

\* A request that a step does not concern keeps its part of the invariant.
LEMMA PendingFrame ==
  ASSUME NEW q, PendingInv(q), web'[q] = web[q] \/ web'[q] # "idle", rpc'[q] = rpc[q],
         pend'[q] = pend[q], total'[q] = total[q], idle'[q] = idle[q]
  PROVE  PendingInv(q)'
BY DEF PendingInv, InMap

\* What the handler and the stream do never makes an exchange idle again, and
\* only WebStart touches the call.
LEMMA PendingProxy ==
  ASSUME TypeOK, NEW r \in Requests, Proxy(r), NEW q \in Requests, PendingInv(q)
  PROVE  PendingInv(q)'
<1> USE DEF proxyVars, clientVars, busVars
<1>1. CASE WebStart(r)
  BY <1>1 DEF TypeOK, ProxyTypes, BusTypes, PendingInv, InMap, WebStart
<1>2. ASSUME ~WebStart(r)
      PROVE  /\ UNCHANGED <<pend, total, idle, rpc>>
             /\ web' = web \/ web' = [web EXCEPT ![r] = "done"]
  BY <1>2 DEF Proxy, WebRefuse, VisitorLeaves, WebReturnUnavailable, WebReturnBad,
              WebReturnStream, WebRejected, WebTimeout, WebBuildFails, ProxyEvent,
              EventLost, Catch, Return
<1>3. CASE ~WebStart(r)
  <2>1. web'[q] = web[q] \/ web'[q] # "idle"
    BY <1>2, <1>3 DEF TypeOK, ProxyTypes
  <2> QED
    BY <1>2, <1>3, <2>1, PendingFrame
<1> QED
  BY <1>1, <1>3

\* A request that fails leaves the map, its timers and, if it still waits,
\* the call.
LEMMA PendingFail ==
  ASSUME TypeOK, NEW r \in Requests, NEW why \in Rejections, InMap(r), Fail(r, why),
         web' = web, NEW q \in Requests, PendingInv(q), PendingInv(r)
  PROVE  PendingInv(q)'
<1>1. /\ pend' = [pend EXCEPT ![r] = "gone"]
      /\ total' = [total EXCEPT ![r] = FALSE]
      /\ idle' = [idle EXCEPT ![r] = FALSE]
  BY DEF Fail, Drop
<1>2. why \notin {"none", "called", "serving"}
  BY DEF Rejections
<1>3. rpc' = IF pend[r] = "waiting" THEN [rpc EXCEPT ![r] = why] ELSE rpc
  BY DEF Fail, SettlePromise, PendingInv
<1> QED
  BY <1>1, <1>2, <1>3 DEF TypeOK, ClientTypes, BusTypes, PendingInv, InMap

\* Every frame keeps the invariant.
LEMMA PendingFrameOfCli ==
  ASSUME TypeOK, NEW r \in Requests, HandleClientFrame(r), WireInv(r),
         NEW q \in Requests, PendingInv(q), PendingInv(r)
  PROVE  PendingInv(q)'
<1> DEFINE f == Head(toSrv[r])
<1> USE DEF proxyVars, clientVars
<1>1. web' = web
  BY DEF HandleClientFrame
<1>2. CASE ~InMap(r) /\ UNCHANGED <<clientVars, rpc, toCli>>
  BY <1>1, <1>2, PendingFrame
<1>3. CASE InMap(r) /\ OnStart(r, f.t)
  <2>1. /\ pend' = [pend EXCEPT ![r] = "started"]
        /\ total' = total \/ total' = [total EXCEPT ![r] = FALSE]
        /\ idle' = [idle EXCEPT ![r] = TRUE]
    BY <1>3 DEF OnStart
  <2>2. PICK reply \in {"ok", "bad"} :
          rpc' = IF pend[r] = "waiting" THEN [rpc EXCEPT ![r] = reply] ELSE rpc
    BY <1>3 DEF OnStart, SettlePromise, PendingInv
  <2> QED
    BY <1>1, <1>3, <2>1, <2>2 DEF TypeOK, ClientTypes, BusTypes, PendingInv, InMap
<1>4. CASE InMap(r) /\ OnBody(r, f.n)
  BY <1>1, <1>4 DEF TypeOK, ClientTypes, PendingInv, InMap, OnBody
<1>5. CASE f.t = "end" /\ InMap(r) /\ OnEnd(r)
  <2>1. pend[r] = "started"
    BY <1>5 DEF HandleClientFrame, WireInv, Starts, InMap
  <2>2. rpc' = rpc
    BY <1>5 DEF OnEnd
  <2> QED
    BY <1>1, <1>5, <2>1, <2>2 DEF TypeOK, ClientTypes, PendingInv, InMap, OnEnd, Drop
<1>6. CASE InMap(r) /\ OnError(r)
  BY <1>1, <1>6, PendingFail DEF OnError, Rejections
<1> QED
  BY <1>2, <1>3, <1>4, <1>5, <1>6 DEF HandleClientFrame

\* Every step of the client plugin keeps the invariant.
LEMMA PendingClient ==
  ASSUME TypeOK, NEW r \in Requests, Client(r), WireInv(r),
         NEW q \in Requests, PendingInv(q), PendingInv(r)
  PROVE  PendingInv(q)'
<1> USE DEF proxyVars, clientVars
<1>1. CASE ClientRequest(r)
  BY <1>1 DEF TypeOK, ClientTypes, BusTypes, PendingInv, InMap, ClientRequest
<1>2. CASE HandleClientFrame(r)
  BY <1>2, PendingFrameOfCli
<1>3. CASE TotalTimeout(r) \/ IdleTimeout(r)
  BY <1>3, PendingFail DEF TotalTimeout, IdleTimeout, TimerFails, Rejections
<1>4. CASE ClientCancel(r)
  <2>1. CASE UNCHANGED <<pend, total, idle, rpc>>
    BY <1>4, <2>1, PendingFrame DEF ClientCancel
  <2>2. CASE /\ InMap(r) /\ Drop(r)
             /\ IF pend[r] = "waiting" THEN SettlePromise(r, "cancelled") ELSE rpc' = rpc
    <3>1. rpc' = IF pend[r] = "waiting" THEN [rpc EXCEPT ![r] = "cancelled"] ELSE rpc
      BY <2>2 DEF SettlePromise, PendingInv
    <3>2. web' = web
      BY <1>4 DEF ClientCancel
    <3> QED
      BY <2>2, <3>1, <3>2 DEF TypeOK, ClientTypes, BusTypes, PendingInv, InMap, Drop
  <2> QED
    BY <1>4, <2>1, <2>2 DEF ClientCancel
<1>5. CASE CancelLost(r)
  BY <1>5, PendingFrame DEF CancelLost
<1> QED
  BY <1>1, <1>2, <1>3, <1>4, <1>5 DEF Client

\* Every step keeps the invariant.
LEMMA PendingStep ==
  ASSUME TypeOK, [Next]_vars, \A r \in Requests : PendingInv(r) /\ WireInv(r),
         NEW q \in Requests
  PROVE  PendingInv(q)'
<1> USE DEF proxyVars, clientVars, busVars
<1>1. ASSUME NEW r \in Requests, Cli(r)
      PROVE  UNCHANGED <<web, rpc, pend, total, idle>>
  BY <1>1 DEF Cli, CliFrame, CliStart, CliBody, CliEnd, CliError, CliAborts
<1>2. CASE SocketClosed
  <2>1. web' = web
    BY <1>2 DEF SocketClosed
  <2> QED
    BY <1>2, <2>1 DEF TypeOK, ClientTypes, BusTypes, PendingInv, InMap, SocketClosed
<1>3. CASE Dispose \/ SocketCloses \/ CliDisconnects \/ UNCHANGED vars
  BY <1>3, PendingFrame DEF Dispose, SocketCloses, CliDisconnects, vars
<1> QED
  BY <1>1, <1>2, <1>3, PendingProxy, PendingClient, PendingFrame DEF Next

\* A request that a step does not concern keeps its frames' order.
LEMMA WireFrame ==
  ASSUME NEW q, WireInv(q), sock' = sock, pend'[q] = pend[q],
         toCli'[q] = toCli[q], toSrv'[q] = toSrv[q], work'[q] = work[q]
  PROVE  WireInv(q)'
BY DEF WireInv, InMap

\* A request that has left the waiting state, with the socket not closed, asks
\* nothing of its frames.
LEMMA WireLeft ==
  ASSUME NEW q, pend'[q] \in {"started", "gone"}, sock' # "closed" \/ pend'[q] = "gone"
  PROVE  WireInv(q)'
BY DEF WireInv, InMap

\* The frame at the head stays there when another is sent.
LEMMA HeadAppend ==
  ASSUME NEW S, NEW s \in Seq(S), NEW e \in S
  PROVE  /\ Append(s, e) # <<>>
         /\ Head(Append(s, e)) = IF s = <<>> THEN e ELSE Head(s)
<1>1. /\ Append(s, e) \in Seq(S)
      /\ Len(Append(s, e)) = Len(s) + 1
      /\ Len(s) \in Nat
  OBVIOUS
<1>2. Append(s, e) # <<>>
  BY <1>1
<1>3. Head(Append(s, e)) = Append(s, e)[1]
  BY <1>1
<1>4. CASE s = <<>>
  BY <1>2, <1>3, <1>4
<1>5. CASE s # <<>>
  <2>1. Len(s) >= 1 /\ Head(s) = s[1]
    BY <1>5
  <2>2. Append(s, e)[1] = s[1]
    BY <2>1
  <2> QED
    BY <1>2, <1>3, <1>5, <2>1, <2>2
<1> QED
  BY <1>4, <1>5

\* A step of one request leaves the others' frames alone.
LEMMA WireOther ==
  ASSUME TypeOK, NEW r \in Requests, NEW q \in Requests, q # r,
         Proxy(r) \/ Client(r) \/ Cli(r)
  PROVE  /\ sock' = sock /\ pend'[q] = pend[q] /\ work'[q] = work[q]
         /\ toCli'[q] = toCli[q] /\ toSrv'[q] = toSrv[q]
<1> USE DEF proxyVars, clientVars, busVars, wireVars, cliVars
<1>1. /\ pend \in [Requests -> {"none", "waiting", "started", "gone"}]
      /\ work \in [Requests -> {"none", "local", "streaming", "finished", "failed"}]
      /\ toCli \in [Requests -> Seq({"request.start", "request.cancel"})]
      /\ toSrv \in [Requests -> Seq(Frames)]
  BY DEF TypeOK, ClientTypes, CliTypes, QueueTypes
<1>2. CASE Proxy(r)
  BY <1>2 DEF Proxy, WebRefuse, WebStart, VisitorLeaves, WebReturnUnavailable,
              WebReturnBad, WebReturnStream, WebRejected, WebTimeout, WebBuildFails,
              Catch, ProxyEvent, EventLost
<1>3. CASE Client(r)
  <2>1. sock' = sock /\ work' = work
    BY <1>3 DEF Client, ClientRequest, HandleClientFrame, TotalTimeout, IdleTimeout,
                TimerFails, ClientCancel, CancelLost
  <2>2. toCli'[q] = toCli[q]
    BY <1>1, <1>3 DEF Client, ClientRequest, HandleClientFrame, TotalTimeout, IdleTimeout,
                TimerFails, ClientCancel, CancelLost, SendToCli, OnStart, OnBody, OnEnd, OnError
  <2>3. toSrv'[q] = toSrv[q]
    BY <1>1, <1>3 DEF Client, ClientRequest, HandleClientFrame, TotalTimeout, IdleTimeout,
                TimerFails, ClientCancel, CancelLost
  <2>4. pend'[q] = pend[q]
    BY <1>1, <1>3 DEF Client, ClientRequest, HandleClientFrame, TotalTimeout, IdleTimeout,
                TimerFails, ClientCancel, CancelLost, OnStart, OnBody, OnEnd, OnError,
                Fail, Drop
  <2> QED
    BY <2>1, <2>2, <2>3, <2>4
<1>4. CASE Cli(r)
  BY <1>1, <1>4 DEF Cli, CliFrame, CliStart, CliBody, CliEnd, CliError, CliAborts, SendToSrv
<1> QED
  BY <1>2, <1>3, <1>4

\* Every step of the client plugin keeps the order of its own frames.
LEMMA WireClient ==
  ASSUME TypeOK, NEW r \in Requests, Client(r), WireInv(r), PendingInv(r)
  PROVE  WireInv(r)'
<1> DEFINE f == Head(toSrv[r])
<1> USE DEF clientVars, busVars, wireVars, cliVars
<1>1. sock' = sock /\ work' = work
  BY DEF Client, ClientRequest, HandleClientFrame, TotalTimeout, IdleTimeout,
         TimerFails, ClientCancel, CancelLost
<1>2. CASE ClientRequest(r)
  <2>1. pend[r] = "none" /\ toSrv' = toSrv
    BY <1>2 DEF ClientRequest, PendingInv
  <2>2. CASE UNCHANGED <<pend, total, toCli>>
    BY <1>1, <2>1, <2>2, WireFrame
  <2>3. CASE sock = "open" /\ pend' = [pend EXCEPT ![r] = "waiting"]
    <3>1. pend'[r] = "waiting"
      BY <2>3 DEF TypeOK, ClientTypes
    <3> QED
      BY <1>1, <2>1, <2>3, <3>1 DEF WireInv
  <2> QED
    BY <1>2, <2>2, <2>3 DEF ClientRequest
<1>3. ASSUME sock # "closed", pend' = [pend EXCEPT ![r] = "gone"]
      PROVE  WireInv(r)'
  <2>1. pend'[r] = "gone"
    BY <1>3 DEF TypeOK, ClientTypes
  <2> QED
    BY <2>1, WireLeft
<1>4. CASE HandleClientFrame(r)
  <2>1. CASE ~InMap(r) /\ UNCHANGED <<clientVars, rpc, toCli>>
    <3>1. pend[r] = "gone"
      BY <1>4, <2>1 DEF TypeOK, ClientTypes, WireInv, InMap, HandleClientFrame
    <3> QED
      BY <2>1, <3>1, WireLeft
  <2>2. CASE OnStart(r, f.t)
    <3>1. pend'[r] = "started"
      BY <2>2 DEF TypeOK, ClientTypes, OnStart
    <3> QED
      BY <1>1, <1>4, <3>1, WireLeft DEF HandleClientFrame
  <2>3. CASE InMap(r) /\ f.t = "body" /\ OnBody(r, f.n)
    <3>1. pend'[r] = "started"
      BY <1>4, <2>3 DEF HandleClientFrame, OnBody, WireInv, Starts, InMap
    <3> QED
      BY <1>1, <1>4, <3>1, WireLeft DEF HandleClientFrame
  <2>4. CASE OnEnd(r) \/ OnError(r)
    BY <1>3, <1>4, <2>4 DEF HandleClientFrame, OnEnd, OnError, Fail, Drop
  <2> QED
    BY <1>4, <2>1, <2>2, <2>3, <2>4 DEF HandleClientFrame
<1>5. CASE TotalTimeout(r) \/ IdleTimeout(r)
  BY <1>3, <1>5 DEF TotalTimeout, IdleTimeout, TimerFails, Fail, Drop, WireInv
<1>6. CASE ClientCancel(r)
  <2>1. CASE UNCHANGED <<pend, total, idle, rpc, toCli>>
    BY <1>1, <1>6, <2>1, WireFrame DEF ClientCancel
  <2>2. CASE sock # "closed" /\ Drop(r)
    BY <1>3, <2>2 DEF Drop
  <2> QED
    BY <1>6, <2>1, <2>2 DEF ClientCancel
<1>7. CASE CancelLost(r)
  BY <1>1, <1>7, WireFrame DEF CancelLost
<1> QED
  BY <1>2, <1>4, <1>5, <1>6, <1>7 DEF Client

\* Every step of the CLI keeps the order of the frames it sends: it starts a
\* response before it continues or ends it.
LEMMA WireCli ==
  ASSUME TypeOK, NEW r \in Requests, Cli(r), WireInv(r)
  PROVE  WireInv(r)'
<1> USE DEF proxyVars, clientVars, busVars, wireVars
<1>1. pend' = pend /\ sock' = sock
  BY DEF Cli, CliFrame, CliStart, CliBody, CliEnd, CliError, CliAborts
<1>2. CASE pend[r] = "none"
  BY <1>2 DEF WireInv, Running, Cli, CliFrame, CliStart, CliBody, CliEnd, CliError, CliAborts
<1>3. CASE pend[r] \in {"started", "gone"}
  BY <1>1, <1>3, WireLeft DEF WireInv, InMap
<1>4. CASE pend[r] = "waiting"
  <2>1. sock # "closed" /\ toSrv[r] \in Seq(Frames)
    BY <1>4 DEF WireInv, InMap, TypeOK, QueueTypes
  <2>2. ASSUME NEW frame \in Frames, SendToSrv(r, frame),
               toSrv[r] = <<>> => frame.t \in Starts \cup {"error"}
        PROVE  WireInv(r)'
    <3>1. toSrv'[r] = Append(toSrv[r], frame)
      BY <2>1, <2>2 DEF SendToSrv, TypeOK, QueueTypes
    <3>2. toSrv'[r] # <<>> /\ Head(toSrv'[r]).t \in Starts \cup {"error"}
      BY <1>4, <2>1, <2>2, <3>1, HeadAppend DEF WireInv
    <3> QED
      BY <1>1, <1>4, <2>1, <3>2 DEF WireInv
  <2>3. CASE CliFrame(r) \/ CliAborts(r)
    <3>1. toSrv' = toSrv
      BY <2>3 DEF CliFrame, CliAborts
    <3>2. work'[r] \in {"local", "failed"} \/ work'[r] = work[r]
      BY <2>3 DEF TypeOK, CliTypes, CliFrame, CliAborts
    <3> QED
      BY <1>1, <1>4, <2>1, <3>1, <3>2 DEF WireInv
  <2>4. CASE CliStart(r)
    <3>1. PICK type \in Starts : SendToSrv(r, Frame(type))
      BY <2>4 DEF CliStart, Starts
    <3>2. Frame(type) \in Frames /\ Frame(type).t \in Starts
      BY DEF Frame, Frames, OtherFrames, Starts
    <3> QED
      BY <2>2, <3>1, <3>2
  <2>5. CASE CliBody(r) \/ CliEnd(r)
    <3>1. toSrv[r] # <<>>
      BY <1>4, <2>5 DEF WireInv, CliBody, CliEnd
    <3>2. CASE CliBody(r)
      <4>1. sent[r] + 1 \in 1 .. MaxChunks
        BY <3>2, MaxChunksAssumption DEF TypeOK, CliTypes, CliBody
      <4>2. BodyFrame(sent[r] + 1) \in Frames
        BY <4>1 DEF BodyFrame, Frames, BodyFrames, Chunks
      <4> QED
        BY <2>2, <3>1, <3>2, <4>2 DEF CliBody
    <3>3. CASE CliEnd(r)
      <4>1. Frame("end") \in Frames
        BY DEF Frame, Frames, OtherFrames
      <4> QED
        BY <2>2, <3>1, <3>3, <4>1 DEF CliEnd
    <3> QED
      BY <2>5, <3>2, <3>3
  <2>6. CASE CliError(r)
    <3>1. Frame("error") \in Frames /\ Frame("error").t = "error"
      BY DEF Frame, Frames, OtherFrames
    <3> QED
      BY <2>2, <2>6, <3>1 DEF CliError
  <2> QED
    BY <2>3, <2>4, <2>5, <2>6 DEF Cli
<1> QED
  BY <1>2, <1>3, <1>4 DEF TypeOK, ClientTypes

\* Every step keeps the order.
LEMMA WireStep ==
  ASSUME TypeOK, [Next]_vars, \A r \in Requests : PendingInv(r) /\ WireInv(r),
         NEW q \in Requests
  PROVE  WireInv(q)'
<1> USE DEF proxyVars, clientVars, busVars, wireVars, cliVars
<1>1. ASSUME NEW r \in Requests, Proxy(r)
      PROVE  UNCHANGED <<sock, pend, toCli, toSrv, work>>
  BY <1>1 DEF Proxy, WebRefuse, WebStart, VisitorLeaves, WebReturnUnavailable,
              WebReturnBad, WebReturnStream, WebRejected, WebTimeout, WebBuildFails,
              Catch, ProxyEvent, EventLost
<1>2. ASSUME NEW r \in Requests, Proxy(r) \/ Client(r) \/ Cli(r)
      PROVE  WireInv(q)'
  <2>1. CASE q # r
    BY <1>2, <2>1, WireOther, WireFrame
  <2>2. CASE q = r
    BY <1>1, <1>2, <2>2, WireClient, WireCli, WireFrame
  <2> QED
    BY <2>1, <2>2
<1>3. CASE SocketClosed
  BY <1>3 DEF TypeOK, ClientTypes, WireInv, InMap, SocketClosed
<1>4. CASE CliDisconnects
  BY <1>4 DEF WireInv, InMap, CliDisconnects
<1>5. CASE SocketCloses
  BY <1>5 DEF WireInv, InMap, SocketCloses
<1>6. CASE Dispose \/ UNCHANGED vars
  BY <1>6, WireFrame DEF Dispose, vars
<1> QED
  BY <1>2, <1>3, <1>4, <1>5, <1>6 DEF Next

\* The invariant holds throughout.
LEMMA PendingHolds == Spec => [](\A r \in Requests : PendingInv(r))
<1> DEFINE Inv == TypeOK /\ \A r \in Requests : PendingInv(r) /\ WireInv(r)
<1>1. Init => Inv
  BY TypeInit DEF Init, PendingInv, WireInv, InMap
<1>2. Inv /\ [Next]_vars => Inv'
  BY TypeStep, PendingStep, WireStep
<1>3. Inv => \A r \in Requests : PendingInv(r)
  OBVIOUS
<1> QED
  BY <1>1, <1>2, <1>3, PTL DEF Spec

\* A request is in the client plugin's map exactly while a timer is armed for
\* it, however frames, timers, cancellations and the close of the socket
\* interleave.
THEOREM PendingTimed == Spec => []PendingIsTimed
<1>1. (\A r \in Requests : PendingInv(r)) => PendingIsTimed
  BY DEF PendingInv, PendingIsTimed
<1> QED
  BY <1>1, PendingHolds, PTL

\* The proxy's call is being served exactly while its request waits in the
\* map: it is settled whenever the request leaves the map or starts.
THEOREM RpcNeverStranded == Spec => []RpcIsPending
<1>1. (\A r \in Requests : PendingInv(r)) => RpcIsPending
  BY DEF PendingInv, RpcIsPending
<1> QED
  BY <1>1, PendingHolds, PTL
=============================================================================
