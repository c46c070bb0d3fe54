------------------------- MODULE PublicSocketProofs -------------------------
(***************************************************************************)
(* Theorems about PublicSocket: types, the order in which the local app    *)
(* and the visitor read, and what becomes of the connection to the local   *)
(* app when its visitor leaves.                                            *)
(***************************************************************************)
EXTENDS PublicSocket, TLAPS

-----------------------------------------------------------------------------
(* Sequences. *)

\* A queue whose head is taken.
LEMMA TailOf ==
  ASSUME NEW S, NEW s \in Seq(S), s # <<>>
  PROVE  /\ Len(s) \in Nat \ {0} /\ Len(Tail(s)) = Len(s) - 1
         /\ Head(s) = s[1] /\ Head(s) \in S /\ Tail(s) \in Seq(S)
         /\ \A i \in 1 .. Len(Tail(s)) : i + 1 \in 2 .. Len(s) /\ Tail(s)[i] = s[i + 1]
         /\ \A i \in 2 .. Len(s) : i - 1 \in 1 .. Len(Tail(s)) /\ Tail(s)[i - 1] = s[i]
         /\ \A i \in 1 .. Len(s) : i = 1 \/ i \in 2 .. Len(s)
OBVIOUS

\* A queue that grows at its end.
LEMMA AppendOf ==
  ASSUME NEW S, NEW s \in Seq(S), NEW e \in S
  PROVE  /\ Len(s) \in Nat /\ Append(s, e) \in Seq(S) /\ Len(Append(s, e)) = Len(s) + 1
         /\ \A i \in 1 .. Len(s) : i \in 1 .. Len(Append(s, e)) /\ Append(s, e)[i] = s[i]
         /\ Len(s) + 1 \in 1 .. Len(Append(s, e)) /\ Append(s, e)[Len(s) + 1] = e
         /\ \A i \in 1 .. Len(Append(s, e)) : i \in 1 .. Len(s) \/ i = Len(s) + 1
OBVIOUS

-----------------------------------------------------------------------------
(* Types. *)

\* One queue of frames for each visitor.
Queues == [Visitors -> Seq(Frames)]

\* A frame of a kind, with a number.
LEMMA FrameType ==
  \A k \in {"open", "msg", "close", "ack"}, i \in Nat :
    Frame(k, i) \in Frames /\ Frame(k, i).kind = k /\ Frame(k, i).n = i
BY DEF Frame, Frames

\* A frame at the end of one queue.
LEMMA PutType ==
  ASSUME NEW q \in Queues, NEW v \in Visitors, NEW f \in Frames
  PROVE  /\ Put(q, v, f) \in Queues /\ Put(q, v, f)[v] = Append(q[v], f)
         /\ \A w \in Visitors : w # v => Put(q, v, f)[w] = q[w]
BY DEF Put, Queues

\* The head taken from one queue.
LEMMA PopType ==
  ASSUME NEW q \in Queues, NEW v \in Visitors, q[v] # <<>>
  PROVE  /\ Pop(q, v) \in Queues /\ Pop(q, v)[v] = Tail(q[v]) /\ Head(q[v]) \in Frames
         /\ \A w \in Visitors : w # v => Pop(q, v)[w] = q[w]
BY DEF Pop, Queues

\* The frame the read loop takes.
LEMMA HeadType ==
  ASSUME TypeOK, NEW v \in Visitors, NEW k, HeadIs(v, k)
  PROVE  /\ down # <<>> /\ down' = Tail(down) /\ down' \in Seq(Visitors \X Frames)
         /\ Head(down) \in Visitors \X Frames /\ Head(down) = <<v, Head(down)[2]>>
         /\ Head(down)[2] \in Frames /\ Head(down)[2].kind = k /\ Head(down)[2].n \in Nat
         /\ cli = "reading"
<1>1. down # <<>> /\ down' = Tail(down) /\ cli = "reading"
  BY DEF HeadIs
<1>2. Head(down) \in Visitors \X Frames /\ down' \in Seq(Visitors \X Frames)
  BY <1>1, TailOf DEF TypeOK
<1>3. Head(down) = <<Head(down)[1], Head(down)[2]>> /\ Head(down)[2] \in Frames
  BY <1>2
<1> QED
  BY <1>1, <1>2, <1>3 DEF HeadIs, Frames

\* What the CLI writes.
LEMMA AnswerType ==
  ASSUME TypeOK, NEW v \in Visitors, NEW f \in Frames, Answer(v, f)
  PROVE  /\ up' \in Queues
         /\ up'[v] = IF LinkLost(v) THEN up[v] ELSE Append(up[v], f)
         /\ \A w \in Visitors : w # v => up'[w] = up[w]
<1>1. up \in Queues
  BY DEF TypeOK, Queues
<1>2. CASE LinkLost(v)
  BY <1>1, <1>2 DEF Answer
<1>3. CASE ~LinkLost(v)
  <2>1. up' = Put(up, v, f)
    BY <1>3 DEF Answer
  <2> QED
    BY <1>1, <1>3, <2>1, PutType
<1> QED
  BY <1>2, <1>3

\* A queue in which an event overtook the one before it: the same frames.
LEMMA SwapOf ==
  ASSUME NEW q \in Seq(Frames), NEW i \in 1 .. Len(q) - 1
  PROVE  /\ Swapped(q, i) \in Seq(Frames) /\ Len(Swapped(q, i)) = Len(q)
         /\ i \in 1 .. Len(q) /\ i + 1 \in 1 .. Len(q) /\ i + 1 # 1 /\ q # <<>>
         /\ Swapped(q, i)[i] = q[i + 1] /\ Swapped(q, i)[i + 1] = q[i]
         /\ \A j \in 1 .. Len(q) : j \notin {i, i + 1} => Swapped(q, i)[j] = q[j]
<1>1. Len(q) \in Nat /\ q \in [1 .. Len(q) -> Frames]
  OBVIOUS
<1>2. i \in 1 .. Len(q) /\ i + 1 \in 1 .. Len(q) /\ i + 1 # 1 /\ i # i + 1 /\ q # <<>>
  BY <1>1
<1>3. Swapped(q, i) \in [1 .. Len(q) -> Frames]
  BY <1>1, <1>2 DEF Swapped
<1>4. Swapped(q, i) \in Seq(Frames) /\ Len(Swapped(q, i)) = Len(q)
  BY <1>1, <1>3
<1>5. /\ Swapped(q, i)[i] = q[i + 1] /\ Swapped(q, i)[i + 1] = q[i]
      /\ \A j \in 1 .. Len(q) : j \notin {i, i + 1} => Swapped(q, i)[j] = q[j]
  BY <1>1, <1>2 DEF Swapped
<1> QED
  BY <1>2, <1>4, <1>5

\* One queue in which an event overtook another.
LEMMA SwapType ==
  ASSUME NEW q \in Queues, NEW v \in Visitors, NEW i \in 1 .. Len(q[v]) - 1
  PROVE  LET r == [q EXCEPT ![v] = Swapped(@, i)] IN
         /\ r \in Queues /\ r[v] = Swapped(q[v], i)
         /\ \A w \in Visitors : w # v => r[w] = q[w]
<1>1. q[v] \in Seq(Frames)
  BY DEF Queues
<1>2. Swapped(q[v], i) \in Seq(Frames)
  BY <1>1, SwapOf
<1> QED
  BY <1>2 DEF Queues

\* The initial state.
LEMMA TypeInit == Init => TypeOK
BY NobodyAssumption DEF Init, TypeOK

\* The proxy plugin's steps.
LEMMA TypeProxy ==
  ASSUME TypeOK, NEW v \in Visitors,
         \/ Upgrade(v) \/ LookupMissing(v) \/ LookupActive(v) \/ Relay(v)
         \/ VisitorSends(v) \/ VisitorSendsEmpty(v) \/ VisitorLeaves(v)
         \/ CloseCompletes(v) \/ FromOrigin(v)
  PROVE  TypeOK'
<1> USE DEF TypeOK, linkVars, cliVars
<1>1. CASE Upgrade(v)
  BY <1>1 DEF Upgrade
<1>2. CASE LookupMissing(v)
  BY <1>2 DEF LookupMissing, CloseVisitor
<1>3. CASE LookupActive(v)
  <2>1. toClient' \in Queues
    BY <1>3, FrameType, PutType DEF LookupActive, Queues
  <2> QED
    BY <1>3, <2>1 DEF LookupActive, Queues
<1>4. CASE Relay(v)
  BY <1>4 DEF Relay
<1>5. CASE VisitorSends(v)
  <2>1. sent[v] + 1 \in Nat
    <3>1. sent[v] \in Nat
      OBVIOUS
    <3> HIDE DEF TypeOK
    <3> QED
      BY <3>1
  <2>2. toClient' \in Queues
    BY <1>5, <2>1, FrameType, PutType DEF VisitorSends, Queues
  <2> QED
    BY <1>5, <2>1, <2>2 DEF VisitorSends, Queues
<1>6. CASE Closed(v)
  BY <1>6, FrameType, PutType DEF Closed, Queues
<1>7. CASE FromOrigin(v)
  <2>1. back' \in Queues /\ Head(back[v]) \in Frames
    BY <1>7, PopType DEF FromOrigin, Queues
  <2>2. Append(seen[v], Head(back[v]).n) \in Seq(Nat)
    BY <2>1 DEF Frames
  <2> QED
    BY <1>7, <2>1, <2>2 DEF FromOrigin, Queues
<1>8. CASE VisitorSendsEmpty(v)
  <2>1. blank[v] + 1 \in Nat
    <3>1. blank[v] \in Nat
      OBVIOUS
    <3> HIDE DEF TypeOK
    <3> QED
      BY <3>1
  <2>2. toClient' \in Queues
    BY <1>8, FrameType, PutType DEF VisitorSendsEmpty, Queues
  <2> QED
    BY <1>8, <2>1, <2>2 DEF VisitorSendsEmpty, Queues
<1> QED
  BY <1>1, <1>2, <1>3, <1>4, <1>5, <1>6, <1>7, <1>8 DEF VisitorLeaves, CloseCompletes

\* The bus.
LEMMA TypeBus ==
  ASSUME TypeOK, NEW v \in Visitors, OvertakesToOrigin(v) \/ OvertakesFromOrigin(v)
  PROVE  TypeOK'
<1> USE DEF TypeOK, proxyVars, linkVars, cliVars
<1>1. CASE OvertakesToOrigin(v)
  <2>1. PICK i \in 1 .. Len(toClient[v]) - 1 :
          toClient' = [toClient EXCEPT ![v] = Swapped(@, i)]
    BY <1>1 DEF OvertakesToOrigin
  <2>2. toClient' \in Queues
    BY <2>1, SwapType DEF Queues
  <2> QED
    BY <1>1, <2>2 DEF OvertakesToOrigin, Queues
<1>2. CASE OvertakesFromOrigin(v)
  <2>1. PICK i \in 1 .. Len(back[v]) - 1 : back' = [back EXCEPT ![v] = Swapped(@, i)]
    BY <1>2 DEF OvertakesFromOrigin
  <2>2. back' \in Queues
    BY <2>1, SwapType DEF Queues
  <2> QED
    BY <1>2, <2>2 DEF OvertakesFromOrigin, Queues
<1> QED
  BY <1>1, <1>2

\* The client plugin's steps and those of the link.
LEMMA TypeClient ==
  ASSUME TypeOK,
         \/ \E v \in Visitors : ToOrigin(v) \/ FromTunnel(v) \/ UpLost(v)
         \/ ServerNotices \/ WireDrops \/ WriteReturns \/ CliNotices \/ Reconnect
  PROVE  TypeOK'
<1> USE DEF TypeOK, proxyVars, linkVars, cliVars
<1>1. ASSUME NEW v \in Visitors, ToOrigin(v)
      PROVE  TypeOK'
  <2>1. toClient' \in Queues /\ Head(toClient[v]) \in Frames
    BY <1>1, PopType DEF ToOrigin, Queues
  <2>2. back' \in Queues
    BY <1>1, FrameType, PutType DEF ToOrigin, Queues
  <2>3. down' \in Seq(Visitors \X Frames)
    BY <1>1, <2>1 DEF ToOrigin
  <2> QED
    BY <1>1, <2>1, <2>2, <2>3 DEF ToOrigin, Queues
<1>2. ASSUME NEW v \in Visitors, FromTunnel(v)
      PROVE  TypeOK'
  <2>1. up' \in Queues /\ Head(up[v]) \in Frames
    BY <1>2, PopType DEF FromTunnel, Queues
  <2>2. back' \in Queues
    BY <1>2, <2>1, PutType DEF FromTunnel, Queues
  <2>3. UNCHANGED <<proxyVars, toClient, reg, linkVars, down, cliVars>>
    BY <1>2 DEF FromTunnel
  <2>4. up' \in [Visitors -> Seq(Frames)] /\ back' \in [Visitors -> Seq(Frames)]
    BY <2>1, <2>2 DEF Queues
  <2> QED
    BY <2>3, <2>4
<1>3. ASSUME NEW v \in Visitors, UpLost(v)
      PROVE  TypeOK'
  <2>1. up' \in [Visitors -> Seq(Frames)]
    BY <1>3 DEF UpLost
  <2>2. UNCHANGED <<proxyVars, toClient, back, reg, linkVars, down, cliVars>>
    BY <1>3 DEF UpLost
  <2> QED
    BY <2>1, <2>2
<1>4. CASE ServerNotices
  BY <1>4 DEF ServerNotices
<1>5. CASE WireDrops
  BY <1>5 DEF WireDrops
<1>6. CASE CliNotices
  <2>1. origin' \in [Visitors -> {"none", "dialing", "open", "closing", "closed", "failed"}]
    BY <1>6 DEF CliNotices
  <2>2. /\ cli' = "gone"
        /\ UNCHANGED <<proxyVars, toClient, back, reg, linkVars, up, down, dialing, gen, got,
                       said>>
    BY <1>6 DEF CliNotices
  <2> QED
    BY <2>1, <2>2
<1>7. CASE Reconnect
  <2>1. link' \in Nat
    <3>1. link \in Nat
      OBVIOUS
    <3> QED
      BY <1>7, <3>1 DEF Reconnect
  <2>2. down' \in Seq(Visitors \X Frames)
    BY <1>7 DEF Reconnect
  <2>3. /\ wire' = TRUE /\ reg' = TRUE /\ cli' = "reading"
        /\ UNCHANGED <<proxyVars, toClient, back, up, dialing, origin, gen, got, said>>
    BY <1>7 DEF Reconnect
  <2> QED
    BY <2>1, <2>2, <2>3
<1>8. CASE WriteReturns
  BY <1>8 DEF WriteReturns
<1> QED
  BY <1>1, <1>2, <1>3, <1>4, <1>5, <1>6, <1>7, <1>8

\* The CLI's steps.
LEMMA TypeCli ==
  ASSUME TypeOK, NEW v \in Visitors,
         \/ ReadOpen(v) \/ ReadMsg(v) \/ ReadClose(v) \/ DialDone(v) \/ DialFails(v)
         \/ AppSays(v) \/ AppSaysEmpty(v) \/ AppCloses(v) \/ ReaderEnds(v)
  PROVE  TypeOK'
<1> USE DEF TypeOK, proxyVars, linkVars, cliVars
<1>1. CASE ReadOpen(v)
  BY <1>1, HeadType DEF ReadOpen
<1>2. CASE ReadMsg(v)
  <2>1. Head(down)[2].n \in Nat /\ down' \in Seq(Visitors \X Frames)
    BY <1>2, HeadType DEF ReadMsg
  <2>2. Append(got[v], Head(down)[2].n) \in Seq(Nat)
    BY <2>1
  <2> QED
    BY <1>2, <2>1, <2>2 DEF ReadMsg
<1>3. CASE ReadClose(v)
  BY <1>3, HeadType DEF ReadClose
<1>4. CASE DialDone(v) \/ DialFails(v) \/ ReaderEnds(v)
  <2>1. up' \in Queues
    BY <1>4, FrameType, AnswerType DEF DialDone, DialFails, ReaderEnds
  <2> QED
    BY <1>4, <2>1 DEF DialDone, DialFails, ReaderEnds, Queues
<1>5. CASE AppSays(v)
  <2>1. said[v] + 1 \in Nat
    <3>1. said[v] \in Nat
      OBVIOUS
    <3> HIDE DEF TypeOK
    <3> QED
      BY <3>1
  <2>2. up' \in Queues
    BY <1>5, <2>1, FrameType, AnswerType DEF AppSays
  <2> QED
    BY <1>5, <2>1, <2>2 DEF AppSays, Queues
<1>6. CASE AppSaysEmpty(v)
  <2>1. blank[v] + 1 \in Nat
    <3>1. blank[v] \in Nat
      OBVIOUS
    <3> HIDE DEF TypeOK
    <3> QED
      BY <3>1
  <2>2. up' \in Queues
    BY <1>6, FrameType, AnswerType DEF AppSaysEmpty
  <2> QED
    BY <1>6, <2>1, <2>2 DEF AppSaysEmpty, Queues
<1>7. CASE AppCloses(v)
  BY <1>7 DEF AppCloses
<1> QED
  BY <1>1, <1>2, <1>3, <1>4, <1>5, <1>6, <1>7

\* Every step keeps the types.
LEMMA TypeStep == TypeOK /\ [Next]_vars => TypeOK'
<1> SUFFICES ASSUME TypeOK, [Next]_vars
             PROVE  TypeOK'
  OBVIOUS
<1>1. CASE UNCHANGED vars
  BY <1>1 DEF TypeOK, vars
<1> QED
  BY <1>1, TypeProxy, TypeBus, TypeClient, TypeCli DEF Next

\* Every variable keeps its type, for any number of visitors, messages, links
\* and reconnections.
THEOREM TypeCorrect == Spec => []TypeOK
BY TypeInit, TypeStep, PTL DEF Spec

-----------------------------------------------------------------------------
(* Numbered messages in two queues.                                         *)
(*                                                                          *)
(* Messages go through a far queue into a near one and from there to their  *)
(* reader: from toClient through down to the local app, and from up through *)
(* back to the visitor. The tag of a queue tells how it writes the m-th     *)
(* message; other frames, empty messages, and in down those of other        *)
(* visitors, carry none.                                                    *)

\* A tag tells numbers apart.
Injective(tag) == \A a, b \in Nat : tag[a] = tag[b] => a = b

\* The m-th message is in queue q.
Has(q, tag, m) == \E i \in 1 .. Len(q) : q[i] = tag[m]

\* Messages are in the order of their numbers, each at most once.
Ordered(q, tag) ==
  \A i, j \in 1 .. Len(q) : \A a, b \in Nat :
    q[i] = tag[a] /\ q[j] = tag[b] /\ i < j => a < b

\* Every number is there once, in order, the near ones before the far ones,
\* and none is above t.
Lined(near, tn, far, tf, t) ==
  /\ Ordered(near, tn) /\ Ordered(far, tf)
  /\ \A a, b \in Nat : Has(near, tn, a) /\ Has(far, tf, b) => a < b
  /\ \A a \in Nat : Has(near, tn, a) \/ Has(far, tf, a) => a <= t

\* The reader, who has read up to b, finds the next ones without a gap.
Run(near, tn, b) ==
  \A m \in Nat : Has(near, tn, m) => m > b /\ \A k \in b + 1 .. m - 1 : Has(near, tn, k)

\* What comes from the far queue will fit.
Feeds(near, tn, far, tf, b) ==
  \A m \in Nat : Has(far, tf, m) =>
    m > b /\ \A k \in b + 1 .. m - 1 : Has(near, tn, k) \/ Has(far, tf, k)

\* Nothing up to t is lost.
Upto(near, tn, far, tf, b, t) ==
  \A k \in b + 1 .. t : Has(near, tn, k) \/ Has(far, tf, k)

\* The numbers in a queue whose head is taken.
LEMMA HasPop ==
  ASSUME NEW S, NEW s \in Seq(S), s # <<>>, NEW tag
  PROVE  \A m \in Nat : Has(s, tag, m) <=> s[1] = tag[m] \/ Has(Tail(s), tag, m)
<1>1. /\ 1 \in 1 .. Len(s)
      /\ \A i \in 1 .. Len(Tail(s)) : i + 1 \in 1 .. Len(s) /\ Tail(s)[i] = s[i + 1]
      /\ \A i \in 1 .. Len(s) : i = 1 \/ (i - 1 \in 1 .. Len(Tail(s)) /\ Tail(s)[i - 1] = s[i])
  BY TailOf
<1>2. ASSUME NEW m \in Nat
      PROVE  Has(s, tag, m) <=> s[1] = tag[m] \/ Has(Tail(s), tag, m)
  <2>1. Has(Tail(s), tag, m) => Has(s, tag, m)
    <3>1. SUFFICES ASSUME NEW i \in 1 .. Len(Tail(s)), Tail(s)[i] = tag[m]
                   PROVE  \E j \in 1 .. Len(s) : s[j] = tag[m]
      BY DEF Has
    <3>2. i + 1 \in 1 .. Len(s) /\ Tail(s)[i] = s[i + 1]
      BY <1>1
    <3> QED
      BY <3>1, <3>2
  <2>2. Has(s, tag, m) => s[1] = tag[m] \/ Has(Tail(s), tag, m)
    <3>1. SUFFICES ASSUME NEW i \in 1 .. Len(s), s[i] = tag[m], i # 1
                   PROVE  \E j \in 1 .. Len(Tail(s)) : Tail(s)[j] = tag[m]
      BY DEF Has
    <3>2. i - 1 \in 1 .. Len(Tail(s)) /\ Tail(s)[i - 1] = s[i]
      BY <1>1, <3>1
    <3> QED
      BY <3>1, <3>2
  <2>3. s[1] = tag[m] => Has(s, tag, m)
    BY <1>1, Zenon DEF Has
  <2> QED
    BY <2>1, <2>2, <2>3
<1> QED
  BY <1>2

\* The numbers in a queue that grows.
LEMMA HasPut ==
  ASSUME NEW S, NEW s \in Seq(S), NEW e \in S, NEW tag
  PROVE  \A m \in Nat : Has(Append(s, e), tag, m) <=> Has(s, tag, m) \/ e = tag[m]
BY AppendOf DEF Has

\* The order of a queue whose head is taken, which was before the rest.
LEMMA OrderedPop ==
  ASSUME NEW S, NEW s \in Seq(S), s # <<>>, NEW tag, Ordered(s, tag)
  PROVE  /\ Ordered(Tail(s), tag)
         /\ \A a, b \in Nat : s[1] = tag[a] /\ Has(Tail(s), tag, b) => a < b
<1>1. /\ 1 \in 1 .. Len(s)
      /\ \A i \in 1 .. Len(Tail(s)) :
           i + 1 \in 1 .. Len(s) /\ 1 < i + 1 /\ Tail(s)[i] = s[i + 1]
      /\ \A i, j \in 1 .. Len(Tail(s)) : i < j => i + 1 < j + 1
  BY TailOf
<1>2. Ordered(Tail(s), tag)
  <2>1. ASSUME NEW i \in 1 .. Len(Tail(s)), NEW j \in 1 .. Len(Tail(s)), NEW a \in Nat,
               NEW b \in Nat, Tail(s)[i] = tag[a], Tail(s)[j] = tag[b], i < j
        PROVE  a < b
    <3>1. /\ i + 1 \in 1 .. Len(s) /\ j + 1 \in 1 .. Len(s) /\ i + 1 < j + 1
          /\ s[i + 1] = tag[a] /\ s[j + 1] = tag[b]
      BY <1>1, <2>1
    <3> QED
      BY <3>1 DEF Ordered
  <2> QED
    BY <2>1 DEF Ordered
<1>3. ASSUME NEW a \in Nat, NEW b \in Nat, s[1] = tag[a], Has(Tail(s), tag, b)
      PROVE  a < b
  <2>1. PICK j \in 1 .. Len(Tail(s)) : Tail(s)[j] = tag[b]
    BY <1>3 DEF Has
  <2>2. j + 1 \in 1 .. Len(s) /\ 1 < j + 1 /\ s[j + 1] = tag[b]
    BY <1>1, <2>1
  <2> QED
    BY <1>1, <1>3, <2>2 DEF Ordered
<1> QED
  BY <1>2, <1>3

\* The order of a queue that grows by a later number, or by none.
LEMMA OrderedPut ==
  ASSUME NEW S, NEW s \in Seq(S), NEW e \in S, NEW tag, Ordered(s, tag),
         \A a, b \in Nat : Has(s, tag, a) /\ e = tag[b] => a < b
  PROVE  Ordered(Append(s, e), tag)
<1> DEFINE u == Append(s, e)
<1>1. /\ Len(s) \in Nat
      /\ \A i \in 1 .. Len(u) : (i \in 1 .. Len(s) /\ u[i] = s[i]) \/ (i = Len(s) + 1 /\ u[i] = e)
  BY AppendOf
<1> HIDE DEF u
<1>2. ASSUME NEW i \in 1 .. Len(u), NEW j \in 1 .. Len(u), NEW a \in Nat, NEW b \in Nat,
             u[i] = tag[a], u[j] = tag[b], i < j
      PROVE  a < b
  <2>1. i \in 1 .. Len(s) /\ u[i] = s[i]
    BY <1>1, <1>2
  <2>2. CASE j \in 1 .. Len(s) /\ u[j] = s[j]
    BY <1>2, <2>1, <2>2 DEF Ordered
  <2>3. CASE j = Len(s) + 1 /\ u[j] = e
    BY <1>2, <2>1, <2>3 DEF Has
  <2> QED
    BY <1>1, <2>2, <2>3
<1> QED
  BY <1>2 DEF Ordered, u

\* The same numbers in the same order: a frame that carries none came or went.
LEMMA SameNumbers ==
  ASSUME NEW near, NEW near2, NEW tn, NEW far, NEW far2, NEW tf, NEW t, NEW b,
         Lined(near, tn, far, tf, t), Ordered(near2, tn), Ordered(far2, tf),
         \A m \in Nat : Has(near2, tn, m) <=> Has(near, tn, m),
         \A m \in Nat : Has(far2, tf, m) <=> Has(far, tf, m), b \in Nat, t \in Nat
  PROVE  /\ Lined(near2, tn, far2, tf, t)
         /\ Run(near, tn, b) => Run(near2, tn, b)
         /\ Feeds(near, tn, far, tf, b) => Feeds(near2, tn, far2, tf, b)
         /\ Upto(near, tn, far, tf, b, t) => Upto(near2, tn, far2, tf, b, t)
<1>1. \A m \in Nat : \A k \in b + 1 .. m - 1 : k \in Nat
  OBVIOUS
<1>2. \A k \in b + 1 .. t : k \in Nat
  OBVIOUS
<1>3. Lined(near2, tn, far2, tf, t)
  BY DEF Lined
<1>4. Run(near, tn, b) => Run(near2, tn, b)
  BY <1>1 DEF Run
<1>5. Feeds(near, tn, far, tf, b) => Feeds(near2, tn, far2, tf, b)
  BY <1>1 DEF Feeds
<1>6. Upto(near, tn, far, tf, b, t) => Upto(near2, tn, far2, tf, b, t)
  BY <1>2 DEF Upto
<1> QED
  BY <1>3, <1>4, <1>5, <1>6

\* The reader takes the next number, and nothing is missing after it.
LEMMA ReadNear ==
  ASSUME NEW S, NEW near \in Seq(S), near # <<>>, NEW tn, Injective(tn),
         NEW far, NEW tf, NEW b \in Nat, NEW t \in Nat, NEW n \in Nat, near[1] = tn[n],
         Lined(near, tn, far, tf, t), Run(near, tn, b)
  PROVE  /\ n = b + 1 /\ n <= t /\ Run(Tail(near), tn, b + 1)
         /\ Feeds(near, tn, far, tf, b) => Feeds(Tail(near), tn, far, tf, b + 1)
         /\ Upto(near, tn, far, tf, b, t) => Upto(Tail(near), tn, far, tf, b + 1, t)
<1>1. \A m \in Nat : Has(near, tn, m) <=> m = n \/ Has(Tail(near), tn, m)
  BY HasPop DEF Injective
<1>2. \A m \in Nat : Has(Tail(near), tn, m) => n < m
  BY OrderedPop DEF Lined
<1>3. \A m \in Nat : Has(far, tf, m) => n < m
  BY <1>1 DEF Lined
<1>4. n > b /\ \A k \in b + 1 .. n - 1 : Has(near, tn, k)
  BY <1>1 DEF Run
<1>5. n = b + 1
  <2>1. CASE n > b + 1
    <3>1. b + 1 \in Nat /\ b + 1 \in b + 1 .. n - 1
      BY <2>1
    <3> QED
      BY <1>1, <1>2, <1>4, <2>1, <3>1
  <2> QED
    BY <1>4, <2>1
<1>6. n <= t
  BY <1>1 DEF Lined
<1>7. \A m \in Nat : \A k \in (b + 1) + 1 .. m - 1 : k \in b + 1 .. m - 1 /\ k \in Nat /\ k # n
  BY <1>5
<1>8. \A k \in (b + 1) + 1 .. t : k \in b + 1 .. t /\ k \in Nat /\ k # n
  BY <1>5
<1>9. Run(Tail(near), tn, b + 1)
  <2>1. ASSUME NEW m \in Nat, Has(Tail(near), tn, m)
        PROVE  m > b + 1 /\ \A k \in (b + 1) + 1 .. m - 1 : Has(Tail(near), tn, k)
    <3>1. \A k \in b + 1 .. m - 1 : Has(near, tn, k)
      BY <1>1, <2>1 DEF Run
    <3> QED
      BY <1>1, <1>2, <1>5, <1>7, <2>1, <3>1
  <2> QED
    BY <2>1 DEF Run
<1>10. Feeds(near, tn, far, tf, b) => Feeds(Tail(near), tn, far, tf, b + 1)
  <2>1. ASSUME Feeds(near, tn, far, tf, b), NEW m \in Nat, Has(far, tf, m)
        PROVE  /\ m > b + 1
               /\ \A k \in (b + 1) + 1 .. m - 1 : Has(Tail(near), tn, k) \/ Has(far, tf, k)
    <3>1. \A k \in b + 1 .. m - 1 : Has(near, tn, k) \/ Has(far, tf, k)
      BY <2>1 DEF Feeds
    <3> QED
      BY <1>1, <1>3, <1>5, <1>7, <2>1, <3>1
  <2> QED
    BY <2>1 DEF Feeds
<1>11. Upto(near, tn, far, tf, b, t) => Upto(Tail(near), tn, far, tf, b + 1, t)
  BY <1>1, <1>8 DEF Upto
<1> QED
  BY <1>5, <1>6, <1>9, <1>10, <1>11

\* Whatever is taken from either queue, the rest is in line.
LEMMA LinedPop ==
  ASSUME NEW S, NEW near \in Seq(S), NEW tn, NEW T, NEW far \in Seq(T), NEW tf, NEW t,
         Lined(near, tn, far, tf, t)
  PROVE  /\ near # <<>> => Lined(Tail(near), tn, far, tf, t)
         /\ far # <<>> => Lined(near, tn, Tail(far), tf, t)
         /\ Lined(<<>>, tn, far, tf, t) /\ Lined(near, tn, <<>>, tf, t)
<1>1. \A tag : Ordered(<<>>, tag) /\ \A m : ~Has(<<>>, tag, m)
  BY DEF Ordered, Has
<1>2. ASSUME near # <<>>
      PROVE  Lined(Tail(near), tn, far, tf, t)
  <2>1. \A m \in Nat : Has(Tail(near), tn, m) => Has(near, tn, m)
    BY <1>2, HasPop
  <2>2. Ordered(Tail(near), tn)
    BY <1>2, OrderedPop DEF Lined
  <2> QED
    BY <2>1, <2>2 DEF Lined
<1>3. ASSUME far # <<>>
      PROVE  Lined(near, tn, Tail(far), tf, t)
  <2>1. \A m \in Nat : Has(Tail(far), tf, m) => Has(far, tf, m)
    BY <1>3, HasPop
  <2>2. Ordered(Tail(far), tf)
    BY <1>3, OrderedPop DEF Lined
  <2> QED
    BY <2>1, <2>2 DEF Lined
<1>4. Lined(<<>>, tn, far, tf, t) /\ Lined(near, tn, <<>>, tf, t)
  BY <1>1 DEF Lined
<1> QED
  BY <1>2, <1>3, <1>4

\* A number moves from the far queue to the near one.
LEMMA MoveNumber ==
  ASSUME NEW S, NEW near \in Seq(S), NEW tn, Injective(tn), NEW T, NEW far \in Seq(T),
         far # <<>>, NEW tf, Injective(tf), NEW b \in Nat, NEW t \in Nat, NEW n \in Nat,
         far[1] = tf[n], tn[n] \in S, Lined(near, tn, far, tf, t)
  PROVE  LET more == Append(near, tn[n]) IN
         /\ Lined(more, tn, Tail(far), tf, t)
         /\ Run(near, tn, b) /\ Feeds(near, tn, far, tf, b) =>
              Run(more, tn, b) /\ Feeds(more, tn, Tail(far), tf, b)
         /\ Upto(near, tn, far, tf, b, t) => Upto(more, tn, Tail(far), tf, b, t)
<1> DEFINE more == Append(near, tn[n])
<1>1. \A m \in Nat : Has(far, tf, m) <=> m = n \/ Has(Tail(far), tf, m)
  BY HasPop DEF Injective
<1>2. \A m \in Nat : Has(Tail(far), tf, m) => n < m
  BY OrderedPop DEF Lined
<1>3. \A m \in Nat : Has(more, tn, m) <=> m = n \/ Has(near, tn, m)
  <2>1. \A m \in Nat : Has(more, tn, m) <=> tn[n] = tn[m] \/ Has(near, tn, m)
    BY HasPut
  <2> QED
    BY <2>1 DEF Injective
<1>4. Ordered(more, tn)
  <2>1. \A a, c \in Nat : Has(near, tn, a) /\ tn[n] = tn[c] => a < c
    BY <1>1 DEF Lined, Injective
  <2>2. Ordered(near, tn)
    BY DEF Lined
  <2> QED
    BY <2>1, <2>2, OrderedPut
<1>5. Ordered(Tail(far), tf)
  BY OrderedPop DEF Lined
<1> HIDE DEF more
<1>6. Lined(more, tn, Tail(far), tf, t)
  BY <1>1, <1>2, <1>3, <1>4, <1>5 DEF Lined
<1>7. \A m \in Nat : \A k \in b + 1 .. m - 1 : k \in Nat /\ k < m
  OBVIOUS
<1>8. ASSUME Run(near, tn, b), Feeds(near, tn, far, tf, b)
      PROVE  Run(more, tn, b)
  <2>1. ASSUME NEW m \in Nat, Has(near, tn, m)
        PROVE  m > b /\ \A k \in b + 1 .. m - 1 : Has(more, tn, k)
    BY <1>3, <1>7, <1>8, <2>1 DEF Run
  <2>2. n > b /\ \A k \in b + 1 .. n - 1 : Has(more, tn, k)
    <3>1. n > b /\ \A k \in b + 1 .. n - 1 : Has(near, tn, k) \/ Has(far, tf, k)
      BY <1>1, <1>8 DEF Feeds
    <3>2. \A k \in b + 1 .. n - 1 : k \in Nat /\ ~Has(far, tf, k)
      BY <1>1, <1>2, <1>7
    <3> QED
      BY <1>3, <3>1, <3>2
  <2> QED
    BY <1>3, <2>1, <2>2 DEF Run
<1>9. ASSUME Feeds(near, tn, far, tf, b)
      PROVE  Feeds(more, tn, Tail(far), tf, b)
  <2>1. ASSUME NEW m \in Nat, Has(Tail(far), tf, m)
        PROVE  m > b /\ \A k \in b + 1 .. m - 1 : Has(more, tn, k) \/ Has(Tail(far), tf, k)
    <3>1. m > b /\ \A k \in b + 1 .. m - 1 : Has(near, tn, k) \/ Has(far, tf, k)
      BY <1>1, <1>9, <2>1 DEF Feeds
    <3> QED
      BY <1>1, <1>3, <1>7, <3>1
  <2> QED
    BY <2>1 DEF Feeds
<1>10. ASSUME Upto(near, tn, far, tf, b, t)
       PROVE  Upto(more, tn, Tail(far), tf, b, t)
  <2>1. \A k \in b + 1 .. t : k \in Nat
    OBVIOUS
  <2> QED
    BY <1>1, <1>3, <1>10, <2>1 DEF Upto
<1> QED
  BY <1>6, <1>8, <1>9, <1>10 DEF more

\* The next number is written to the far queue.
LEMMA WriteFar ==
  ASSUME NEW near, NEW tn, NEW T, NEW far \in Seq(T), NEW tf, Injective(tf),
         NEW b \in Nat, NEW t \in Nat, b <= t, tf[t + 1] \in T, Lined(near, tn, far, tf, t)
  PROVE  LET more == Append(far, tf[t + 1]) IN
         /\ Lined(near, tn, more, tf, t + 1)
         /\ Feeds(near, tn, far, tf, b) /\ Upto(near, tn, far, tf, b, t) =>
              Feeds(near, tn, more, tf, b) /\ Upto(near, tn, more, tf, b, t + 1)
<1> DEFINE more == Append(far, tf[t + 1])
<1>1. t + 1 \in Nat
  OBVIOUS
<1>2. \A m \in Nat : Has(more, tf, m) <=> m = t + 1 \/ Has(far, tf, m)
  <2>1. \A m \in Nat : Has(more, tf, m) <=> tf[t + 1] = tf[m] \/ Has(far, tf, m)
    BY HasPut
  <2> QED
    BY <1>1, <2>1 DEF Injective
<1>3. Ordered(more, tf)
  <2>1. \A a, c \in Nat : Has(far, tf, a) /\ tf[t + 1] = tf[c] => a < c
    BY <1>1 DEF Lined, Injective
  <2>2. Ordered(far, tf)
    BY DEF Lined
  <2> QED
    BY <2>1, <2>2, OrderedPut
<1> HIDE DEF more
<1>4. Lined(near, tn, more, tf, t + 1)
  BY <1>2, <1>3 DEF Lined
<1>5. ASSUME Feeds(near, tn, far, tf, b), Upto(near, tn, far, tf, b, t)
      PROVE  Feeds(near, tn, more, tf, b)
  <2>1. ASSUME NEW m \in Nat, Has(far, tf, m)
        PROVE  m > b /\ \A k \in b + 1 .. m - 1 : Has(near, tn, k) \/ Has(more, tf, k)
    <3>1. m > b /\ \A k \in b + 1 .. m - 1 : k \in Nat /\ (Has(near, tn, k) \/ Has(far, tf, k))
      BY <1>5, <2>1 DEF Feeds
    <3> QED
      BY <1>2, <3>1
  <2>2. \A k \in b + 1 .. (t + 1) - 1 : k \in b + 1 .. t /\ k \in Nat
    OBVIOUS
  <2>3. t + 1 > b /\ \A k \in b + 1 .. (t + 1) - 1 : Has(near, tn, k) \/ Has(more, tf, k)
    BY <1>2, <1>5, <2>2 DEF Upto
  <2> QED
    BY <1>2, <2>1, <2>3 DEF Feeds
<1>6. ASSUME Upto(near, tn, far, tf, b, t)
      PROVE  Upto(near, tn, more, tf, b, t + 1)
  <2>1. \A k \in b + 1 .. t + 1 : k \in Nat /\ (k = t + 1 \/ k \in b + 1 .. t)
    OBVIOUS
  <2> QED
    BY <1>2, <1>6, <2>1 DEF Upto
<1> QED
  BY <1>4, <1>5, <1>6 DEF more

\* A number that is written to no queue.
LEMMA LinedMore ==
  ASSUME NEW near, NEW tn, NEW far, NEW tf, NEW t \in Nat, Lined(near, tn, far, tf, t)
  PROVE  Lined(near, tn, far, tf, t + 1)
BY DEF Lined

\* A frame without a number at the end of a queue.
LEMMA PutNoNumber ==
  ASSUME NEW S, NEW s \in Seq(S), NEW e \in S, NEW tag, \A m \in Nat : e # tag[m]
  PROVE  /\ Ordered(s, tag) => Ordered(Append(s, e), tag)
         /\ \A m \in Nat : Has(Append(s, e), tag, m) <=> Has(s, tag, m)
BY OrderedPut, HasPut

\* A frame without a number at the head of a queue.
LEMMA PopNoNumber ==
  ASSUME NEW S, NEW s \in Seq(S), s # <<>>, NEW tag, \A m \in Nat : s[1] # tag[m]
  PROVE  /\ Ordered(s, tag) => Ordered(Tail(s), tag)
         /\ \A m \in Nat : Has(Tail(s), tag, m) <=> Has(s, tag, m)
BY OrderedPop, HasPop

\* A message that is not empty.
Numbered(f) == f.kind = "msg" /\ f.n # 0

\* How the queues of one visitor, and the tunnel for visitor v, write the m-th
\* message. No frame is the 0-th.
MsgOf == [m \in Nat |-> Frame(IF m = 0 THEN "none" ELSE "msg", m)]
MsgTo(v) == [m \in Nat |-> <<v, MsgOf[m]>>]

\* A frame carries a number if it is a message that is not empty.
LEMMA OfTag ==
  /\ Injective(MsgOf)
  /\ \A n \in Nat \ {0} : MsgOf[n] \in Frames /\ MsgOf[n] = Frame("msg", n)
  /\ \A f \in Frames : Numbered(f) => f.n \in Nat \ {0} /\ f = MsgOf[f.n]
  /\ \A f \in Frames : ~Numbered(f) => \A m \in Nat : f # MsgOf[m]
BY DEF MsgOf, Injective, Frame, Frames, Numbered

\* The same in the tunnel, if it is the visitor's.
LEMMA ToTag ==
  ASSUME NEW v \in Visitors
  PROVE  /\ Injective(MsgTo(v))
         /\ \A n \in Nat : MsgTo(v)[n] = <<v, MsgOf[n]>>
         /\ \A n \in Nat \ {0} : MsgTo(v)[n] \in Visitors \X Frames
         /\ \A p \in Visitors \X Frames :
              p[1] # v \/ ~Numbered(p[2]) => \A m \in Nat : p # MsgTo(v)[m]
<1>1. \A n \in Nat : MsgTo(v)[n] = <<v, MsgOf[n]>>
  BY DEF MsgTo
<1>2. Injective(MsgTo(v))
  BY <1>1, OfTag DEF Injective
<1>3. \A n \in Nat \ {0} : MsgTo(v)[n] \in Visitors \X Frames
  BY <1>1, OfTag
<1>4. ASSUME NEW p \in Visitors \X Frames, p[1] # v \/ ~Numbered(p[2]), NEW m \in Nat
      PROVE  p # MsgTo(v)[m]
  <2>1. p[1] = v => p[2] # MsgOf[m]
    BY <1>4, OfTag
  <2> QED
    BY <1>1, <2>1
<1> QED
  BY <1>1, <1>2, <1>3, <1>4

-----------------------------------------------------------------------------
(* The kinds of frames in a queue. *)

\* A queue without its head.
LEMMA KindsPop ==
  ASSUME NEW q \in Seq(Frames), q # <<>>
  PROVE  /\ Kinds(q) = {q[1].kind} \cup Kinds(Tail(q))
         /\ q[1] = Head(q)
<1>1. /\ 1 \in 1 .. Len(q) /\ q[1] = Head(q)
      /\ \A i \in 1 .. Len(Tail(q)) : i + 1 \in 1 .. Len(q) /\ Tail(q)[i] = q[i + 1]
      /\ \A i \in 1 .. Len(q) : i = 1 \/ (i - 1 \in 1 .. Len(Tail(q)) /\ Tail(q)[i - 1] = q[i])
  BY TailOf
<1> QED
  BY <1>1 DEF Kinds

\* A queue with one more frame.
LEMMA KindsPut ==
  ASSUME NEW q \in Seq(Frames), NEW f \in Frames
  PROVE  Kinds(Append(q, f)) = Kinds(q) \cup {f.kind}
BY AppendOf DEF Kinds

\* A frame of visitor v at place i of the tunnel.
At(v, i) == i \in 1 .. Len(down) /\ down[i][1] = v

\* A frame of v of kind k is in the tunnel.
LEMMA InDown == \A v, k : k \in DownKinds(v) <=> \E i : At(v, i) /\ down[i][2].kind = k
BY DEF DownKinds, At

\* The open of v comes before its other frames, and once.
OpenFirst(v) ==
  \A i, j : At(v, i) /\ At(v, j) /\ down[i][2].kind = "open" => i <= j

\* The tunnel without its head.
LEMMA DownPop ==
  ASSUME TypeOK, down # <<>>, down' = Tail(down), NEW w, OpenFirst(w)
  PROVE  /\ OpenFirst(w)'
         /\ DownKinds(w)' \subseteq DownKinds(w)
         /\ \A k \in DownKinds(w) :
              k \in DownKinds(w)' \/ (Head(down)[1] = w /\ Head(down)[2].kind = k)
         /\ Head(down)[1] = w => Head(down)[2].kind \in DownKinds(w)
         /\ Head(down)[1] = w => "open" \notin DownKinds(w)'
<1>1. down \in Seq(Visitors \X Frames)
  BY DEF TypeOK
<1>2. /\ 1 \in 1 .. Len(down) /\ down[1] = Head(down)
      /\ \A i \in 1 .. Len(down') :
           i + 1 \in 1 .. Len(down) /\ 1 < i + 1 /\ down'[i] = down[i + 1]
      /\ \A i \in 1 .. Len(down) : i = 1 \/ (i - 1 \in 1 .. Len(down') /\ down'[i - 1] = down[i])
      /\ \A i, j \in 1 .. Len(down') : i + 1 <= j + 1 => i <= j
  BY <1>1, TailOf
<1>3. \A i : At(w, i)' => At(w, i + 1) /\ ~(i + 1 <= 1) /\ down'[i] = down[i + 1]
  BY <1>2 DEF At
<1>4. \A i : At(w, i) => i = 1 \/ (At(w, i - 1)' /\ down'[i - 1] = down[i])
  BY <1>2 DEF At
<1>5. OpenFirst(w)'
  <2>1. ASSUME NEW i, NEW j, At(w, i)', At(w, j)', down'[i][2].kind = "open"
        PROVE  i <= j
    <3>1. i + 1 <= j + 1
      BY <1>3, <2>1 DEF OpenFirst
    <3> QED
      BY <1>2, <2>1, <3>1 DEF At
  <2> QED
    BY <2>1 DEF OpenFirst
<1>6. \A k : k \in DownKinds(w)' <=> \E i : At(w, i)' /\ down'[i][2].kind = k
  BY DEF DownKinds, At
<1>7. ASSUME NEW k \in DownKinds(w)'
      PROVE  k \in DownKinds(w)
  <2>1. PICK i : At(w, i)' /\ down'[i][2].kind = k
    BY <1>6
  <2>2. At(w, i + 1) /\ down[i + 1][2].kind = k
    BY <1>3, <2>1
  <2> QED
    BY <2>2, InDown
<1>8. ASSUME NEW k \in DownKinds(w)
      PROVE  k \in DownKinds(w)' \/ (Head(down)[1] = w /\ Head(down)[2].kind = k)
  <2>1. PICK i : At(w, i) /\ down[i][2].kind = k
    BY InDown
  <2> QED
    BY <1>2, <1>4, <1>6, <2>1 DEF At
<1>9. ASSUME Head(down)[1] = w
      PROVE  Head(down)[2].kind \in DownKinds(w) /\ "open" \notin DownKinds(w)'
  <2>1. At(w, 1) /\ Head(down)[2].kind \in DownKinds(w)
    BY <1>2, <1>9, InDown DEF At
  <2>2. ASSUME NEW i, At(w, i)', down'[i][2].kind = "open"
        PROVE  FALSE
    <3>1. At(w, i + 1) /\ down[i + 1][2].kind = "open" /\ ~(i + 1 <= 1)
      BY <1>3, <2>2
    <3> QED
      BY <2>1, <3>1 DEF OpenFirst
  <2> QED
    BY <1>6, <2>1, <2>2
<1> QED
  BY <1>5, <1>7, <1>8, <1>9

\* The tunnel with one more frame, of visitor v.
LEMMA DownPut ==
  ASSUME TypeOK, NEW v \in Visitors, NEW f \in Frames, down' = Append(down, <<v, f>>),
         NEW w, OpenFirst(w), v = w /\ f.kind = "open" => DownKinds(w) = {}
  PROVE  /\ OpenFirst(w)'
         /\ DownKinds(w)' = IF v = w THEN DownKinds(w) \cup {f.kind} ELSE DownKinds(w)
<1>0. PICK l : l = Len(down) + 1
  OBVIOUS
<1>1. down \in Seq(Visitors \X Frames) /\ <<v, f>> \in Visitors \X Frames
  BY DEF TypeOK
<1>2. /\ \A i \in 1 .. Len(down) :
           i \in 1 .. Len(down') /\ down'[i] = down[i] /\ i <= l /\ i # l
      /\ l \in 1 .. Len(down') /\ down'[l] = <<v, f>> /\ l <= l
      /\ \A i \in 1 .. Len(down') : i \in 1 .. Len(down) \/ i = l
  BY <1>0, <1>1, AppendOf
<1>3. \A i : At(w, i)' <=> At(w, i) \/ (i = l /\ v = w)
  BY <1>2 DEF At
<1>4. \A i : At(w, i) => down'[i] = down[i] /\ i <= l
  BY <1>2 DEF At
<1>5. \A k : k \in DownKinds(w)' <=> \E i : At(w, i)' /\ down'[i][2].kind = k
  BY DEF DownKinds, At
<1>6. \A k : k \in DownKinds(w)' <=> k \in DownKinds(w) \/ (v = w /\ k = f.kind)
  <2>1. ASSUME NEW k \in DownKinds(w)'
        PROVE  k \in DownKinds(w) \/ (v = w /\ k = f.kind)
    <3>1. PICK i : At(w, i)' /\ down'[i][2].kind = k
      BY <1>5
    <3>2. CASE At(w, i)
      <4>1. down[i][2].kind = k
        BY <1>4, <3>1, <3>2
      <4> QED
        BY <3>2, <4>1, InDown
    <3>3. CASE i = l /\ v = w
      BY <1>2, <3>1, <3>3
    <3> QED
      BY <1>3, <3>1, <3>2, <3>3
  <2>2. ASSUME NEW k \in DownKinds(w)
        PROVE  k \in DownKinds(w)'
    <3>1. PICK i : At(w, i) /\ down[i][2].kind = k
      BY InDown
    <3>2. At(w, i)' /\ down'[i][2].kind = k
      BY <1>3, <1>4, <3>1
    <3> QED
      BY <1>5, <3>2
  <2>3. v = w => f.kind \in DownKinds(w)'
    <3>1. v = w => At(w, l)' /\ down'[l][2].kind = f.kind
      BY <1>2, <1>3
    <3> QED
      BY <1>5, <3>1
  <2> QED
    BY <2>1, <2>2, <2>3
<1>7. OpenFirst(w)'
  <2>1. ASSUME NEW i, NEW j, At(w, i)', At(w, j)', down'[i][2].kind = "open"
        PROVE  i <= j
    <3>1. CASE i = l /\ v = w
      <4>1. ASSUME NEW m, At(w, m)
            PROVE  FALSE
        <5>1. down[m][2].kind \in DownKinds(w)
          BY <4>1, InDown
        <5> QED
          BY <1>2, <2>1, <3>1, <5>1
      <4> QED
        BY <1>2, <1>3, <2>1, <3>1, <4>1
    <3>2. CASE At(w, i)
      BY <1>2, <1>3, <1>4, <2>1, <3>2 DEF OpenFirst
    <3> QED
      BY <1>3, <2>1, <3>1, <3>2
  <2> QED
    BY <2>1 DEF OpenFirst
<1> QED
  BY <1>6, <1>7

-----------------------------------------------------------------------------
(* Steps. *)

\* Steps of the proxy plugin, of the client plugin and what the link loses, and
\* of the CLI, for visitor v.
ProxySteps(v) ==
  \/ Upgrade(v) \/ LookupMissing(v) \/ LookupActive(v) \/ Relay(v)
  \/ VisitorSends(v) \/ VisitorSendsEmpty(v) \/ VisitorLeaves(v) \/ CloseCompletes(v)
  \/ FromOrigin(v)

BusSteps(v) == ToOrigin(v) \/ FromTunnel(v) \/ UpLost(v)

CliSteps(v) ==
  \/ ReadOpen(v) \/ ReadMsg(v) \/ ReadClose(v) \/ DialDone(v) \/ DialFails(v)
  \/ AppSays(v) \/ AppSaysEmpty(v) \/ AppCloses(v) \/ ReaderEnds(v)

\* Events of v that overtake one another on the bus.
Overtakes(v) == OvertakesToOrigin(v) \/ OvertakesFromOrigin(v)

\* A step is one of a visitor, or of the link.
LEMMA StepCases ==
  ASSUME [Next]_vars
  PROVE  \/ \E v \in Visitors : ProxySteps(v) \/ BusSteps(v) \/ CliSteps(v) \/ Overtakes(v)
         \/ ServerNotices \/ WireDrops \/ WriteReturns \/ CliNotices \/ Reconnect
         \/ UNCHANGED vars
BY DEF Next, ProxySteps, BusSteps, CliSteps, Overtakes

\* The steps of one visitor leave all of another's state alone, except that
\* its own frame may come to the end of the tunnel or leave its head.
LEMMA StepOther ==
  ASSUME TypeOK, NEW v \in Visitors, NEW w \in Visitors, w # v,
         ProxySteps(v) \/ BusSteps(v) \/ CliSteps(v)
  PROVE  /\ pub'[w] = pub[w] /\ vws'[w] = vws[w] /\ sent'[w] = sent[w]
         /\ early'[w] = early[w] /\ seen'[w] = seen[w]
         /\ (w \in table' <=> w \in table) /\ (w \in deaf' <=> w \in deaf)
         /\ toClient'[w] = toClient[w] /\ back'[w] = back[w] /\ up'[w] = up[w]
         /\ origin'[w] = origin[w] /\ gen'[w] = gen[w] /\ got'[w] = got[w]
         /\ said'[w] = said[w] /\ UNCHANGED <<reg, link, wire>>
         /\ \/ down' = down
            \/ down # <<>> /\ down' = Tail(down) /\ Head(down)[1] = v
            \/ \E f \in Frames : down' = Append(down, <<v, f>>)
<1> USE DEF proxyVars, linkVars, cliVars
<1>1. /\ toClient \in Queues /\ back \in Queues /\ up \in Queues
      /\ pub \in [Visitors -> {"none", "lookup", "opening", "relayed", "refused"}]
      /\ vws \in [Visitors -> {"none", "open", "closing", "closed"}]
      /\ origin \in [Visitors -> {"none", "dialing", "open", "closing", "closed", "failed"}]
      /\ gen \in [Visitors -> Nat] /\ sent \in [Visitors -> Nat] /\ early \in [Visitors -> Nat]
      /\ got \in [Visitors -> Seq(Nat)] /\ said \in [Visitors -> Nat]
      /\ seen \in [Visitors -> Seq(Nat)]
  BY DEF TypeOK, Queues
<1>2. ASSUME NEW q \in Queues, NEW f
      PROVE  Put(q, v, f)[w] = q[w] /\ Pop(q, v)[w] = q[w]
  BY DEF Put, Pop, Queues
<1>3. CASE ProxySteps(v)
  <2>1. UNCHANGED <<up, down, reg, link, wire, origin, gen, got, said>>
    BY <1>3 DEF ProxySteps, Upgrade, LookupMissing, LookupActive, Relay, VisitorSends,
           VisitorSendsEmpty, VisitorLeaves, CloseCompletes, Closed, FromOrigin
  <2>2. pub'[w] = pub[w] /\ sent'[w] = sent[w] /\ early'[w] = early[w] /\ seen'[w] = seen[w]
    BY <1>1, <1>3 DEF ProxySteps, Upgrade, LookupMissing, LookupActive, Relay, VisitorSends,
           VisitorSendsEmpty, VisitorLeaves, CloseCompletes, Closed, FromOrigin
  <2>3. vws'[w] = vws[w]
    BY <1>1, <1>3 DEF ProxySteps, Upgrade, LookupMissing, LookupActive, Relay, VisitorSends,
           VisitorSendsEmpty, VisitorLeaves, CloseCompletes, Closed, FromOrigin,
           CloseVisitor
  <2>4. (w \in table' <=> w \in table) /\ (w \in deaf' <=> w \in deaf)
    BY <1>3 DEF ProxySteps, Upgrade, LookupMissing, LookupActive, Relay, VisitorSends,
           VisitorSendsEmpty, VisitorLeaves, CloseCompletes, Closed, FromOrigin
  <2>5. toClient'[w] = toClient[w]
    <3>1. toClient' = toClient \/ \E f : toClient' = Put(toClient, v, f)
      BY <1>3, Zenon DEF ProxySteps, Upgrade, LookupMissing, LookupActive, Relay,
             VisitorSends, VisitorSendsEmpty, VisitorLeaves, CloseCompletes, Closed,
             FromOrigin
    <3> QED
      BY <1>1, <1>2, <3>1
  <2>6. back'[w] = back[w]
    <3>1. back' = back \/ back' = Pop(back, v)
      BY <1>3 DEF ProxySteps, Upgrade, LookupMissing, LookupActive, Relay,
             VisitorSends, VisitorSendsEmpty, VisitorLeaves, CloseCompletes, Closed,
             FromOrigin
    <3> QED
      BY <1>1, <1>2, <3>1
  <2> QED
    BY <2>1, <2>2, <2>3, <2>4, <2>5, <2>6
<1>4. CASE BusSteps(v)
  <2>1. UNCHANGED <<pub, vws, sent, early, seen, table, deaf, reg, link, wire, origin, gen,
                    got, said>>
    BY <1>4 DEF BusSteps, ToOrigin, FromTunnel, UpLost
  <2>2. toClient'[w] = toClient[w] /\ back'[w] = back[w] /\ up'[w] = up[w]
    <3>1. /\ toClient' = toClient \/ toClient' = Pop(toClient, v)
          /\ back' = back \/ \E f : back' = Put(back, v, f)
          /\ up' = up \/ up' = Pop(up, v) \/ up' = [up EXCEPT ![v] = <<>>]
      <4>1. CASE ToOrigin(v)
        BY <4>1 DEF ToOrigin
      <4>2. CASE FromTunnel(v)
        BY <4>2 DEF FromTunnel
      <4>3. CASE UpLost(v)
        BY <4>3 DEF UpLost
      <4> QED
        BY <1>4, <4>1, <4>2, <4>3 DEF BusSteps
    <3>2. [up EXCEPT ![v] = <<>>][w] = up[w]
      BY <1>1 DEF Queues
    <3>3. toClient'[w] = toClient[w]
      BY <1>1, <1>2, <3>1
    <3>4. back'[w] = back[w]
      BY <1>1, <1>2, <3>1
    <3>5. up'[w] = up[w]
      BY <1>1, <1>2, <3>1, <3>2
    <3> QED
      BY <3>3, <3>4, <3>5
  <2>3. down' = down \/ \E f \in Frames : down' = Append(down, <<v, f>>)
    <3>1. \/ down' = down
          \/ toClient[v] # <<>> /\ down' = Append(down, <<v, Head(toClient[v])>>)
      BY <1>4, Zenon DEF BusSteps, ToOrigin, FromTunnel, UpLost
    <3>2. toClient[v] # <<>> => Head(toClient[v]) \in Frames
      BY <1>1, PopType
    <3> QED
      BY <3>1, <3>2
  <2> QED
    BY <2>1, <2>2, <2>3
<1>5. CASE CliSteps(v)
  <2>1. UNCHANGED <<pub, vws, sent, early, seen, table, deaf, toClient, back, reg, link, wire>>
    BY <1>5 DEF CliSteps, ReadOpen, ReadMsg, ReadClose, DialDone, DialFails, AppSays,
           AppSaysEmpty, AppCloses, ReaderEnds
  <2>2. origin'[w] = origin[w] /\ gen'[w] = gen[w] /\ got'[w] = got[w] /\ said'[w] = said[w]
    <3>1. CASE ReadOpen(v) \/ ReadMsg(v) \/ ReadClose(v)
      BY <1>1, <3>1 DEF ReadOpen, ReadMsg, ReadClose
    <3>2. CASE DialDone(v) \/ DialFails(v) \/ AppCloses(v) \/ ReaderEnds(v)
      BY <1>1, <3>2 DEF DialDone, DialFails, AppCloses, ReaderEnds
    <3>3. CASE AppSays(v) \/ AppSaysEmpty(v)
      BY <1>1, <3>3 DEF AppSays, AppSaysEmpty
    <3> QED
      BY <1>5, <3>1, <3>2, <3>3 DEF CliSteps
  <2>3. up'[w] = up[w]
    <3>1. CASE ReadOpen(v) \/ ReadMsg(v) \/ ReadClose(v) \/ AppCloses(v)
      BY <3>1 DEF ReadOpen, ReadMsg, ReadClose, AppCloses
    <3>2. CASE \E f : Answer(v, f)
      BY <1>1, <1>2, <3>2 DEF Answer
    <3> QED
      BY <1>5, <3>1, <3>2
         DEF CliSteps, DialDone, DialFails, AppSays, AppSaysEmpty, ReaderEnds
  <2>4. \/ down' = down
        \/ down # <<>> /\ down' = Tail(down) /\ Head(down)[1] = v
    BY <1>5 DEF CliSteps, ReadOpen, ReadMsg, ReadClose, DialDone, DialFails, AppSays,
           AppSaysEmpty, AppCloses, ReaderEnds, HeadIs
  <2> QED
    BY <2>1, <2>2, <2>3, <2>4
<1> QED
  BY <1>3, <1>4, <1>5

\* Events that overtake one another: the same kinds, the open in front.
LEMMA SwapStep ==
  ASSUME TypeOK, NEW v \in Visitors, NEW w \in Visitors, Overtakes(v)
  PROVE  /\ ~load.ordered
         /\ UNCHANGED <<proxyVars, up, down, reg, linkVars, cliVars>>
         /\ Kinds(toClient[w])' = Kinds(toClient[w])
         /\ toClient[w] = <<>> => toClient'[w] = <<>>
         /\ back[w] = <<>> => back'[w] = <<>>
         /\ (\A j \in 1 .. Len(toClient[w]) : toClient[w][j].kind = "open" => j = 1) =>
              \A j \in 1 .. Len(toClient'[w]) : toClient'[w][j].kind = "open" => j = 1
<1>1. toClient \in Queues /\ back \in Queues
  BY DEF TypeOK, Queues
<1>2. CASE OvertakesToOrigin(v)
  <2>1. ~load.ordered /\ UNCHANGED <<proxyVars, back, up, down, reg, linkVars, cliVars>>
    BY <1>2 DEF OvertakesToOrigin
  <2>2. PICK i \in 1 .. Len(toClient[v]) - 1 :
          /\ toClient[v][i].kind # "open"
          /\ toClient' = [toClient EXCEPT ![v] = Swapped(@, i)]
    BY <1>2 DEF OvertakesToOrigin
  <2>3. toClient'[v] = Swapped(toClient[v], i) /\ (w # v => toClient'[w] = toClient[w])
    BY <1>1, <2>2, SwapType
  <2>4. CASE w # v
    BY <2>1, <2>3, <2>4 DEF Kinds
  <2>5. CASE w = v
    <3> DEFINE q == toClient[v]
    <3> DEFINE r == toClient'[v]
    <3>1. /\ Len(r) = Len(q) /\ i \in 1 .. Len(q) /\ i + 1 \in 1 .. Len(q) /\ i + 1 # 1
          /\ q # <<>> /\ r[i] = q[i + 1] /\ r[i + 1] = q[i]
          /\ \A j \in 1 .. Len(q) : j \notin {i, i + 1} => r[j] = q[j]
      <4>1. q \in Seq(Frames) /\ i \in 1 .. Len(q) - 1
        BY <1>1, <2>2 DEF Queues
      <4>2. r = Swapped(q, i)
        BY <2>3
      <4> HIDE DEF q, r
      <4> QED
        BY <4>1, <4>2, SwapOf
    <3>2. q[i].kind # "open"
      BY <2>2
    <3> HIDE DEF q, r
    <3>3. \A k : (\E j \in 1 .. Len(r) : r[j].kind = k) <=> (\E j \in 1 .. Len(q) : q[j].kind = k)
      <4>1. ASSUME NEW k, NEW j \in 1 .. Len(r), r[j].kind = k
            PROVE  \E l \in 1 .. Len(q) : q[l].kind = k
        BY <3>1, <4>1, Zenon
      <4>2. ASSUME NEW k, NEW j \in 1 .. Len(q), q[j].kind = k
            PROVE  \E l \in 1 .. Len(r) : r[l].kind = k
        BY <3>1, <4>2, Zenon
      <4> QED
        BY <4>1, <4>2
    <3>4. Kinds(r) = Kinds(q)
      BY <3>3 DEF Kinds
    <3>5. (\A j \in 1 .. Len(q) : q[j].kind = "open" => j = 1) =>
            \A j \in 1 .. Len(r) : r[j].kind = "open" => j = 1
      BY <3>1, <3>2
    <3>6. Kinds(toClient[v])' = Kinds(r)
      BY DEF Kinds, r
    <3> QED
      BY <2>1, <2>5, <3>1, <3>4, <3>5, <3>6 DEF q, r
  <2> QED
    BY <2>4, <2>5
<1>3. CASE OvertakesFromOrigin(v)
  <2>1. /\ ~load.ordered
        /\ UNCHANGED <<proxyVars, toClient, up, down, reg, linkVars, cliVars>>
    BY <1>3 DEF OvertakesFromOrigin
  <2>2. PICK i \in 1 .. Len(back[v]) - 1 : back' = [back EXCEPT ![v] = Swapped(@, i)]
    BY <1>3 DEF OvertakesFromOrigin
  <2>3. w # v => back'[w] = back[w]
    BY <1>1, <2>2, SwapType
  <2>4. back[v] # <<>>
    BY <1>1, SwapOf DEF Queues
  <2> QED
    BY <2>1, <2>3, <2>4 DEF Kinds
<1> QED
  BY <1>2, <1>3 DEF Overtakes

\* The tunnel as one visitor sees it when a frame of another comes or goes.
LEMMA DownOther ==
  ASSUME TypeOK, NEW v \in Visitors, NEW w \in Visitors, w # v, OpenFirst(w),
         \/ down' = down
         \/ down # <<>> /\ down' = Tail(down) /\ Head(down)[1] = v
         \/ \E f \in Frames : down' = Append(down, <<v, f>>)
  PROVE  /\ OpenFirst(w)' /\ DownKinds(w)' = DownKinds(w)
         /\ Ordered(down, MsgTo(w)) => Ordered(down', MsgTo(w))
         /\ \A m \in Nat : Has(down', MsgTo(w), m) <=> Has(down, MsgTo(w), m)
<1>1. down \in Seq(Visitors \X Frames)
  BY DEF TypeOK
<1>2. CASE down' = down
  BY <1>2 DEF OpenFirst, At, DownKinds
<1>3. CASE down # <<>> /\ down' = Tail(down) /\ Head(down)[1] = v
  <2>1. down[1] = Head(down) /\ Head(down) \in Visitors \X Frames
    BY <1>1, <1>3, TailOf
  <2>2. \A m \in Nat : down[1] # MsgTo(w)[m]
    BY <1>3, <2>1, ToTag
  <2>3. OpenFirst(w)' /\ DownKinds(w)' = DownKinds(w)
    BY <1>3, DownPop
  <2> QED
    BY <1>1, <1>3, <2>2, <2>3, PopNoNumber
<1>4. CASE \E f \in Frames : down' = Append(down, <<v, f>>)
  <2>1. PICK f \in Frames : down' = Append(down, <<v, f>>)
    BY <1>4
  <2>2. <<v, f>> \in Visitors \X Frames /\ <<v, f>>[1] # w
    OBVIOUS
  <2>3. \A m \in Nat : <<v, f>> # MsgTo(w)[m]
    BY <2>2, ToTag
  <2>4. OpenFirst(w)' /\ DownKinds(w)' = DownKinds(w)
    BY <2>1, DownPut
  <2> QED
    BY <1>1, <2>1, <2>2, <2>3, <2>4, PutNoNumber
<1> QED
  BY <1>2, <1>3, <1>4

-----------------------------------------------------------------------------
(* Links, dials and opens.                                                  *)
(*                                                                          *)
(* A visitor has one open, which comes before its other frames; once it is  *)
(* read there is a link of its own, and until then nothing of the visitor   *)
(* has reached the local app. The read loop reads nothing while it dials.   *)

\* The socket of a link that carries frames is registered, and while a visitor
\* is being dialed the read loop is in that dial.
LinkInv ==
  /\ link >= 1
  /\ wire => reg
  /\ dialing # Nobody => cli = "dialing"

\* How far the open of v has come, and what cannot have happened before it.
DialInv(v) ==
  /\ gen[v] <= link
  /\ gen[v] = 0 => origin[v] = "none" /\ got[v] = <<>> /\ said[v] = 0 /\ up[v] = <<>>
  /\ origin[v] = "dialing" => dialing = v
  /\ pub[v] \in {"none", "lookup", "refused"} =>
       toClient[v] = <<>> /\ back[v] = <<>> /\ gen[v] = 0 /\ DownKinds(v) = {}
  /\ \A i \in 1 .. Len(toClient[v]) : toClient[v][i].kind = "open" => i = 1
  /\ "open" \in Kinds(toClient[v]) => gen[v] = 0 /\ DownKinds(v) = {}
  /\ OpenFirst(v) /\ ("open" \in DownKinds(v) => gen[v] = 0)

\* Every step keeps what is said of the link.
LEMMA LinkStep == TypeOK /\ LinkInv /\ [Next]_vars => LinkInv'
<1> SUFFICES ASSUME TypeOK, LinkInv, [Next]_vars
             PROVE  LinkInv'
  OBVIOUS
<1> USE DEF proxyVars, linkVars, cliVars
<1>1. ASSUME NEW v \in Visitors, ProxySteps(v) \/ BusSteps(v) \/ CliSteps(v)
      PROVE  UNCHANGED <<link, wire, reg>>
  BY <1>1 DEF ProxySteps, Upgrade, LookupMissing, LookupActive, Relay, VisitorSends,
         VisitorSendsEmpty, VisitorLeaves, CloseCompletes, Closed, FromOrigin, BusSteps,
         ToOrigin, FromTunnel, UpLost, CliSteps, ReadOpen, ReadMsg, ReadClose, DialDone,
         DialFails, AppSays, AppSaysEmpty, AppCloses, ReaderEnds
<1>2. ASSUME NEW v \in Visitors, ProxySteps(v) \/ BusSteps(v)
      PROVE  UNCHANGED <<cli, dialing>>
  BY <1>2 DEF ProxySteps, Upgrade, LookupMissing, LookupActive, Relay, VisitorSends,
         VisitorSendsEmpty, VisitorLeaves, CloseCompletes, Closed, FromOrigin, BusSteps,
         ToOrigin, FromTunnel, UpLost
<1>3. ASSUME NEW v \in Visitors, CliSteps(v)
      PROVE  dialing' # Nobody => cli' = "dialing"
  BY <1>3, NobodyAssumption DEF LinkInv, HeadIs, CliSteps, ReadOpen, ReadMsg, ReadClose, DialDone,
         DialFails, AppSays, AppSaysEmpty, AppCloses, ReaderEnds
<1>4. CASE \E v \in Visitors : ProxySteps(v) \/ BusSteps(v) \/ CliSteps(v)
  BY <1>1, <1>2, <1>3, <1>4 DEF LinkInv
<1>5. CASE ServerNotices \/ WireDrops \/ WriteReturns
  BY <1>5 DEF LinkInv, ServerNotices, WireDrops, WriteReturns
<1>6. CASE CliNotices \/ Reconnect
  BY <1>6 DEF LinkInv, TypeOK, CliNotices, Reconnect
<1>7. CASE UNCHANGED vars
  BY <1>7 DEF LinkInv, vars
<1>8. CASE \E v \in Visitors : Overtakes(v)
  <2>1. UNCHANGED <<link, wire, reg, cli, dialing>>
    BY <1>8, SwapStep
  <2> QED
    BY <2>1 DEF LinkInv
<1> QED
  BY <1>4, <1>5, <1>6, <1>7, <1>8, StepCases

\* The proxy's steps for the visitor itself.
LEMMA DialProxy ==
  ASSUME TypeOK, NEW v \in Visitors, ProxySteps(v), DialInv(v)
  PROVE  DialInv(v)'
<1> USE DEF linkVars, cliVars
<1>1. /\ toClient \in Queues /\ back \in Queues /\ toClient[v] \in Seq(Frames)
      /\ pub \in [Visitors -> {"none", "lookup", "opening", "relayed", "refused"}]
  BY DEF TypeOK, Queues
<1>2. UNCHANGED <<up, down, link, cli, dialing, origin, gen, got, said>>
  BY DEF ProxySteps, Upgrade, LookupMissing, LookupActive, Relay, VisitorSends,
         VisitorSendsEmpty, VisitorLeaves, CloseCompletes, Closed, FromOrigin
<1>3. DownKinds(v)' = DownKinds(v) /\ OpenFirst(v)' = OpenFirst(v)
  BY <1>2 DEF DownKinds, OpenFirst, At
<1>4. CASE /\ UNCHANGED <<toClient[v], back[v]>>
           /\ pub'[v] \in {"none", "lookup", "refused"} =>
                pub[v] \in {"none", "lookup", "refused"}
  BY <1>2, <1>3, <1>4 DEF DialInv, Kinds
\* A frame that is not an open, after the handlers are attached.
<1>5. ASSUME NEW f \in Frames, f.kind # "open", toClient' = Put(toClient, v, f),
             pub[v] = "relayed", UNCHANGED <<pub, back>>
      PROVE  DialInv(v)'
  <2>1. toClient'[v] = Append(toClient[v], f)
    BY <1>1, <1>5, PutType
  <2>2. \A i \in 1 .. Len(toClient'[v]) :
          \/ i \in 1 .. Len(toClient[v]) /\ toClient'[v][i] = toClient[v][i]
          \/ toClient'[v][i] = f
    BY <1>1, <1>5, <2>1, AppendOf
  <2>3. "open" \in Kinds(toClient'[v]) => "open" \in Kinds(toClient[v])
    BY <1>1, <1>5, <2>1, KindsPut
  <2> QED
    BY <1>2, <1>3, <1>5, <2>2, <2>3 DEF DialInv, Kinds
<1>6. CASE Upgrade(v) \/ LookupMissing(v) \/ Relay(v)
  <2>1. UNCHANGED <<toClient, back>>
    BY <1>6 DEF Upgrade, LookupMissing, Relay
  <2>2. pub'[v] \in {"none", "lookup", "refused"} => pub[v] \in {"none", "lookup", "refused"}
    BY <1>1, <1>6 DEF Upgrade, LookupMissing, Relay
  <2> QED
    BY <1>4, <2>1, <2>2
<1>7. CASE LookupActive(v)
  <2>1. toClient[v] = <<>> /\ gen[v] = 0 /\ DownKinds(v) = {}
    BY <1>7 DEF LookupActive, DialInv
  <2>2. pub'[v] = "opening" /\ toClient'[v] = Append(toClient[v], Frame("open", 0))
    <3>1. Frame("open", 0) \in Frames
      BY FrameType
    <3>2. pub'[v] = "opening" /\ toClient' = Put(toClient, v, Frame("open", 0))
      BY <1>1, <1>7 DEF LookupActive
    <3> QED
      BY <1>1, <3>1, <3>2, PutType
  <2>3. Len(toClient'[v]) = 1
    BY <2>1, <2>2
  <2> QED
    BY <1>2, <1>3, <2>1, <2>2, <2>3 DEF DialInv
<1>8. CASE VisitorSends(v)
  <2>1. sent[v] \in Nat /\ sent[v] + 1 \in Nat
    <3>1. sent[v] \in Nat
      BY DEF TypeOK
    <3> QED
      BY <3>1
  <2>2. Frame("msg", sent[v] + 1) \in Frames /\ Frame("msg", sent[v] + 1).kind # "open"
    BY <2>1, FrameType
  <2>3. UNCHANGED <<pub, back>>
    BY <1>8 DEF VisitorSends
  <2> QED
    BY <1>4, <1>5, <1>8, <2>2, <2>3 DEF VisitorSends
<1>11. CASE VisitorSendsEmpty(v)
  <2>1. Frame("msg", 0) \in Frames /\ Frame("msg", 0).kind # "open"
    BY FrameType
  <2>2. UNCHANGED <<pub, back>>
    BY <1>11 DEF VisitorSendsEmpty
  <2> QED
    BY <1>4, <1>5, <1>11, <2>1, <2>2 DEF VisitorSendsEmpty
<1>9. CASE Closed(v)
  <2>1. Frame("close", 0) \in Frames /\ Frame("close", 0).kind # "open"
    BY FrameType
  <2>2. UNCHANGED <<pub, back>>
    BY <1>9 DEF Closed
  <2> QED
    BY <1>4, <1>5, <1>9, <2>1, <2>2 DEF Closed
<1>10. CASE FromOrigin(v)
  <2>1. UNCHANGED <<pub, toClient>> /\ back[v] # <<>>
    BY <1>10 DEF FromOrigin
  <2>2. pub[v] \notin {"none", "lookup", "refused"}
    BY <2>1 DEF DialInv
  <2> QED
    BY <1>2, <1>3, <2>1, <2>2 DEF DialInv, Kinds
<1> QED
  BY <1>6, <1>7, <1>8, <1>9, <1>10, <1>11 DEF ProxySteps, VisitorLeaves, CloseCompletes

\* The steps between the plugins and the tunnel for the visitor itself.
LEMMA DialBus ==
  ASSUME TypeOK, NEW v \in Visitors, BusSteps(v), DialInv(v)
  PROVE  DialInv(v)'
<1> USE DEF proxyVars, linkVars, cliVars
<1>1. /\ toClient \in Queues /\ back \in Queues /\ up \in Queues
      /\ toClient[v] \in Seq(Frames)
  BY DEF TypeOK, Queues
<1>2. UNCHANGED <<pub, link, cli, dialing, origin, gen, got, said>>
  BY DEF BusSteps, ToOrigin, FromTunnel, UpLost
<1>3. CASE ToOrigin(v)
  <2> DEFINE f == Head(toClient[v])
  <2>1. /\ toClient[v] # <<>> /\ toClient'[v] = Tail(toClient[v]) /\ f \in Frames
        /\ f = toClient[v][1] /\ up' = up
    BY <1>1, <1>3, PopType, TailOf DEF ToOrigin
  <2>2. pub[v] \notin {"none", "lookup", "refused"}
    BY <2>1 DEF DialInv
  <2>3. \A i \in 1 .. Len(toClient'[v]) : toClient'[v][i].kind # "open"
    <3>1. \A i \in 1 .. Len(toClient'[v]) :
            i + 1 \in 1 .. Len(toClient[v]) /\ i + 1 # 1
            /\ toClient'[v][i] = toClient[v][i + 1]
      BY <1>1, <2>1, TailOf
    <3> QED
      BY <3>1 DEF DialInv
  <2>4. "open" \notin Kinds(toClient'[v])
    BY <2>3 DEF Kinds
  <2>5. f.kind = "open" => DownKinds(v) = {} /\ gen[v] = 0
    BY <1>1, <2>1, KindsPop DEF DialInv
  <2>6. OpenFirst(v)' /\ ("open" \in DownKinds(v)' => gen[v] = 0)
    <3>1. CASE down' = down
      BY <3>1 DEF DialInv, OpenFirst, At, DownKinds
    <3>2. CASE down' = Append(down, <<v, f>>)
      BY <2>1, <2>5, <3>2, DownPut DEF DialInv
    <3> QED
      BY <1>3, <3>1, <3>2 DEF ToOrigin
  <2> QED
    BY <1>2, <2>1, <2>2, <2>3, <2>4, <2>6 DEF DialInv, Kinds
<1>4. CASE FromTunnel(v) \/ UpLost(v)
  <2>1. UNCHANGED <<toClient, down>> /\ up[v] # <<>>
    BY <1>4 DEF FromTunnel, UpLost
  <2>2. gen[v] # 0
    BY <2>1 DEF DialInv
  <2> QED
    BY <1>2, <2>1, <2>2 DEF DialInv, OpenFirst, At, DownKinds, Kinds
<1> QED
  BY <1>3, <1>4 DEF BusSteps

\* The CLI's steps for the visitor itself.
LEMMA DialCli ==
  ASSUME TypeOK, NEW v \in Visitors, CliSteps(v), LinkInv, DialInv(v)
  PROVE  DialInv(v)'
<1> USE DEF proxyVars, linkVars, cliVars
<1>1. /\ origin \in [Visitors -> {"none", "dialing", "open", "closing", "closed", "failed"}]
      /\ gen \in [Visitors -> Nat] /\ link \in Nat
  BY DEF TypeOK
<1>2. UNCHANGED <<pub, toClient, back, link>>
  BY DEF CliSteps, ReadOpen, ReadMsg, ReadClose, DialDone, DialFails, AppSays,
         AppSaysEmpty, AppCloses, ReaderEnds
\* What a frame that is read leaves in the tunnel.
<1>3. ASSUME NEW k, HeadIs(v, k)
      PROVE  /\ OpenFirst(v)' /\ "open" \notin DownKinds(v)'
             /\ k \in DownKinds(v) /\ DownKinds(v)' \subseteq DownKinds(v)
  BY <1>3, HeadType, DownPop DEF DialInv, HeadIs
<1>4. CASE ReadOpen(v)
  <2>1. "open" \in DownKinds(v) /\ HeadIs(v, "open")
    BY <1>3, <1>4 DEF ReadOpen
  <2>2. /\ gen'[v] = link /\ origin'[v] = "dialing" /\ dialing' = v
        /\ UNCHANGED <<got, said, up>>
    BY <1>1, <1>4 DEF ReadOpen
  <2>3. link # 0 /\ link <= link
    BY <1>1 DEF LinkInv
  <2> QED
    BY <1>2, <1>3, <2>1, <2>2, <2>3 DEF DialInv, Kinds
<1>5. CASE ReadMsg(v) \/ ReadClose(v)
  <2>1. \E k : HeadIs(v, k)
    BY <1>5 DEF ReadMsg, ReadClose
  <2>2. UNCHANGED <<gen, said, up, dialing>>
    BY <1>5 DEF ReadMsg, ReadClose
  <2>3. UNCHANGED <<origin, got>> \/ (origin'[v] # "dialing" /\ Held(v))
    BY <1>1, <1>5 DEF ReadMsg, ReadClose, Held
  <2>4. Held(v) => gen[v] # 0
    BY <1>1 DEF Held, LinkInv
  <2> QED
    BY <1>2, <1>3, <2>1, <2>2, <2>3, <2>4 DEF DialInv, Kinds
<1>6. CASE ~(ReadOpen(v) \/ ReadMsg(v) \/ ReadClose(v))
  <2>1. UNCHANGED <<down, gen, got>>
    BY <1>6 DEF CliSteps, DialDone, DialFails, AppSays, AppSaysEmpty, AppCloses, ReaderEnds
  <2>2. gen[v] # 0
    BY <1>6 DEF CliSteps, DialDone, DialFails, AppSays, AppSaysEmpty, AppCloses,
           ReaderEnds, DialInv
  <2>3. origin'[v] # "dialing"
    BY <1>1, <1>6 DEF CliSteps, DialDone, DialFails, AppSays, AppSaysEmpty, AppCloses,
           ReaderEnds
  <2> QED
    BY <1>2, <2>1, <2>2, <2>3 DEF DialInv, OpenFirst, At, DownKinds, Kinds
<1> QED
  BY <1>4, <1>5, <1>6

\* Every step keeps what is said of a visitor's dial.
LEMMA DialStep ==
  ASSUME TypeOK, [Next]_vars, LinkInv, NEW w \in Visitors, DialInv(w)
  PROVE  DialInv(w)'
<1> USE DEF proxyVars, linkVars, cliVars
<1>1. ASSUME NEW v \in Visitors, ProxySteps(v) \/ BusSteps(v) \/ CliSteps(v)
      PROVE  DialInv(w)'
  <2>1. CASE w = v
    BY <1>1, <2>1, DialProxy, DialBus, DialCli
  <2>2. CASE w # v
    <3>1. origin[w] = "dialing" => dialing' = w
      <4>1. CASE ProxySteps(v) \/ BusSteps(v)
        <5>1. dialing' = dialing
          BY <4>1 DEF ProxySteps, Upgrade, LookupMissing, LookupActive, Relay, VisitorSends,
                 VisitorSendsEmpty, VisitorLeaves, CloseCompletes, Closed, FromOrigin,
                 BusSteps, ToOrigin, FromTunnel, UpLost
        <5> QED
          BY <5>1 DEF DialInv
      <4>2. CASE CliSteps(v)
        <5>1. dialing' = dialing \/ dialing = v \/ cli = "reading"
          BY <4>2 DEF CliSteps, ReadOpen, ReadMsg, ReadClose, DialDone, DialFails, AppSays,
                 AppSaysEmpty, AppCloses, ReaderEnds, HeadIs
        <5> QED
          BY <2>2, <5>1, NobodyAssumption DEF DialInv, LinkInv
      <4> QED
        BY <1>1, <4>1, <4>2
    <3>2. OpenFirst(w)' /\ DownKinds(w)' = DownKinds(w)
      BY <1>1, <2>2, StepOther, DownOther DEF DialInv
    <3>3. /\ pub'[w] = pub[w] /\ toClient'[w] = toClient[w] /\ back'[w] = back[w]
          /\ up'[w] = up[w] /\ origin'[w] = origin[w] /\ gen'[w] = gen[w]
          /\ got'[w] = got[w] /\ said'[w] = said[w] /\ link' = link
      BY <1>1, <2>2, StepOther
    <3> QED
      BY <3>1, <3>2, <3>3 DEF DialInv, Kinds
  <2> QED
    BY <2>1, <2>2
<1>2. CASE ServerNotices \/ WireDrops \/ WriteReturns \/ UNCHANGED vars
  <2>1. UNCHANGED <<pub, toClient, back, up, down, link, dialing, origin, gen, got, said>>
    BY <1>2 DEF ServerNotices, WireDrops, WriteReturns, vars
  <2>2. OpenFirst(w)' = OpenFirst(w) /\ DownKinds(w)' = DownKinds(w)
    BY <2>1 DEF OpenFirst, At, DownKinds
  <2>3. Kinds(toClient[w])' = Kinds(toClient[w])
    BY <2>1 DEF Kinds
  <2> QED
    BY <2>1, <2>2, <2>3 DEF DialInv
<1>3. CASE CliNotices
  <2>1. UNCHANGED <<pub, toClient, back, up, down, link, dialing, gen, got, said>>
    BY <1>3 DEF CliNotices
  <2>2. origin'[w] = origin[w] \/ (origin'[w] = "closing" /\ gen[w] = link)
    BY <1>3 DEF CliNotices, TypeOK
  <2>3. gen[w] = link => gen[w] # 0
    BY DEF LinkInv, TypeOK
  <2>4. OpenFirst(w)' = OpenFirst(w) /\ DownKinds(w)' = DownKinds(w)
    BY <2>1 DEF OpenFirst, At, DownKinds
  <2>5. Kinds(toClient[w])' = Kinds(toClient[w])
    BY <2>1 DEF Kinds
  <2>6. /\ gen'[w] = gen[w] /\ link' = link /\ pub'[w] = pub[w]
        /\ toClient'[w] = toClient[w] /\ back'[w] = back[w] /\ up'[w] = up[w]
        /\ got'[w] = got[w] /\ said'[w] = said[w] /\ dialing' = dialing
    BY <2>1
  <2>7. origin'[w] = "dialing" => origin[w] = "dialing"
    BY <2>2
  <2>8. gen[w] = 0 => origin'[w] = origin[w]
    BY <2>2, <2>3
  <2> HIDE DEF proxyVars, linkVars, cliVars
  <2> QED
    BY <2>4, <2>5, <2>6, <2>7, <2>8 DEF DialInv
<1>4. CASE Reconnect
  <2>1. /\ UNCHANGED <<pub, toClient, back, up, dialing, origin, gen, got, said>>
        /\ link' = link + 1 /\ down' = <<>>
    BY <1>4 DEF Reconnect
  <2>2. gen[w] <= link'
    BY <2>1 DEF DialInv, TypeOK
  <2>3. DownKinds(w)' = {} /\ OpenFirst(w)'
    BY <2>1 DEF DownKinds, OpenFirst, At
  <2>4. Kinds(toClient[w])' = Kinds(toClient[w])
    BY <2>1 DEF Kinds
  <2> QED
    BY <2>1, <2>2, <2>3, <2>4 DEF DialInv
<1>5. CASE \E v \in Visitors : Overtakes(v)
  <2>1. UNCHANGED <<proxyVars, up, down, linkVars, cliVars>>
    BY <1>5, SwapStep
  <2>2. /\ Kinds(toClient[w])' = Kinds(toClient[w])
        /\ toClient[w] = <<>> => toClient'[w] = <<>>
        /\ back[w] = <<>> => back'[w] = <<>>
        /\ (\A j \in 1 .. Len(toClient[w]) : toClient[w][j].kind = "open" => j = 1) =>
             \A j \in 1 .. Len(toClient'[w]) : toClient'[w][j].kind = "open" => j = 1
    BY <1>5, SwapStep
  <2>3. /\ UNCHANGED <<pub, up, link, dialing, origin, gen, got, said>>
        /\ OpenFirst(w)' = OpenFirst(w) /\ DownKinds(w)' = DownKinds(w)
    BY <2>1 DEF OpenFirst, At, DownKinds
  <2> HIDE DEF proxyVars, linkVars, cliVars
  <2> QED
    BY <2>2, <2>3 DEF DialInv
<1> QED
  BY <1>1, <1>2, <1>3, <1>4, <1>5, StepCases

\* What is known of all links and dials holds in every state.
LEMMA DialHolds == Spec => [](TypeOK /\ LinkInv /\ \A v \in Visitors : DialInv(v))
<1> DEFINE Inv == TypeOK /\ LinkInv /\ \A v \in Visitors : DialInv(v)
<1>1. Init => Inv
  <2> SUFFICES ASSUME Init
               PROVE  Inv
    OBVIOUS
  <2>1. LinkInv
    BY DEF Init, LinkInv
  <2>2. ASSUME NEW v \in Visitors
        PROVE  DialInv(v)
    <3>1. /\ toClient[v] = <<>> /\ back[v] = <<>> /\ up[v] = <<>> /\ got[v] = <<>>
          /\ said[v] = 0 /\ gen[v] = 0 /\ origin[v] = "none" /\ gen[v] <= link
      BY DEF Init
    <3>2. down = <<>>
      BY DEF Init
    <3>3. DownKinds(v) = {} /\ OpenFirst(v)
      BY <3>2 DEF DownKinds, OpenFirst, At
    <3>4. Kinds(toClient[v]) = {}
      BY <3>1 DEF Kinds
    <3>5. \A i \in 1 .. Len(toClient[v]) : toClient[v][i].kind = "open" => i = 1
      BY <3>1
    <3> QED
      BY <3>1, <3>3, <3>4, <3>5 DEF DialInv
  <2> QED
    BY <2>1, <2>2, TypeInit
<1>2. Inv /\ [Next]_vars => Inv'
  BY TypeStep, LinkStep, DialStep
<1> QED
  BY <1>1, <1>2, PTL DEF Spec

-----------------------------------------------------------------------------
(* Nothing of a visitor that left keeps its connection to the local app.    *)
(*                                                                          *)
(* The close follows the open on its way: while it is in toClient, an open  *)
(* before it will still be read first; once it is in the tunnel, there is   *)
(* no open left behind it. If it is lost, the link was lost, and with it    *)
(* the open or the dialed connection.                                       *)

\* The close has had its effect, or will not be needed.
Done(v) ==
  /\ "open" \in DownKinds(v) => ~wire
  /\ origin[v] \in {"dialing", "open"} => LinkLost(v)

\* A visitor that left has its close on the way, or it is done.
OrphanInv(v) ==
  pub[v] = "relayed" /\ vws[v] = "closed" /\ v \notin deaf =>
    \/ "close" \in Kinds(toClient[v])
    \/ "open" \notin Kinds(toClient[v]) /\ ("close" \in DownKinds(v) \/ Done(v))

\* The proxy's steps for the visitor itself.
LEMMA OrphanProxy ==
  ASSUME TypeOK, NEW v \in Visitors, ProxySteps(v), OrphanInv(v)
  PROVE  OrphanInv(v)'
<1> USE DEF linkVars, cliVars
<1>1. /\ toClient \in Queues /\ toClient[v] \in Seq(Frames)
      /\ pub \in [Visitors -> {"none", "lookup", "opening", "relayed", "refused"}]
      /\ vws \in [Visitors -> {"none", "open", "closing", "closed"}]
  BY DEF TypeOK, Queues
<1>2. UNCHANGED <<down, link, wire, origin, gen>>
  BY DEF ProxySteps, Upgrade, LookupMissing, LookupActive, Relay, VisitorSends,
         VisitorSendsEmpty, VisitorLeaves, CloseCompletes, Closed, FromOrigin
<1>3. CASE Upgrade(v) \/ LookupMissing(v) \/ LookupActive(v)
  <2>1. pub'[v] # "relayed"
    BY <1>1, <1>3 DEF Upgrade, LookupMissing, LookupActive
  <2> QED
    BY <2>1 DEF OrphanInv
<1>4. CASE Relay(v)
  <2>1. vws'[v] # "closed" \/ v \in deaf'
    BY <1>4 DEF Relay
  <2> QED
    BY <2>1 DEF OrphanInv
<1>5. CASE VisitorSends(v) \/ VisitorSendsEmpty(v)
  <2>1. pub[v] # "relayed" \/ vws[v] # "closed"
    BY <1>5 DEF VisitorSends, VisitorSendsEmpty
  <2>2. UNCHANGED <<pub, vws>>
    BY <1>5 DEF VisitorSends, VisitorSendsEmpty
  <2> QED
    BY <2>1, <2>2 DEF OrphanInv
<1>6. CASE Closed(v) /\ pub[v] = "relayed"
  <2>1. Frame("close", 0) \in Frames /\ Frame("close", 0).kind = "close"
    BY FrameType
  <2>2. toClient'[v] = Append(toClient[v], Frame("close", 0))
    BY <1>1, <1>6, <2>1, PutType DEF Closed
  <2>3. "close" \in Kinds(toClient'[v])
    BY <1>1, <2>1, <2>2, KindsPut
  <2>4. "close" \in Kinds(toClient[v])'
    BY <2>3 DEF Kinds
  <2> QED
    BY <2>4 DEF OrphanInv
<1>7. CASE Closed(v) /\ pub[v] # "relayed"
  BY <1>7 DEF Closed, OrphanInv
<1>8. CASE FromOrigin(v)
  <2>1. UNCHANGED <<pub, deaf, toClient>> /\ (vws'[v] = "closed" => vws[v] = "closed")
    BY <1>1, <1>8 DEF FromOrigin
  <2> QED
    BY <1>2, <2>1 DEF OrphanInv, Done, DownKinds, LinkLost, Kinds
<1> QED
  BY <1>3, <1>4, <1>5, <1>6, <1>7, <1>8 DEF ProxySteps, VisitorLeaves, CloseCompletes

\* The steps between the plugins and the tunnel for the visitor itself.
LEMMA OrphanBus ==
  ASSUME TypeOK, NEW v \in Visitors, BusSteps(v), LinkInv, DialInv(v), OrphanInv(v)
  PROVE  OrphanInv(v)'
<1> USE DEF proxyVars, linkVars, cliVars
<1>1. toClient \in Queues /\ toClient[v] \in Seq(Frames)
  BY DEF TypeOK, Queues
<1>2. UNCHANGED <<pub, vws, deaf, link, wire, origin, gen>>
  BY DEF BusSteps, ToOrigin, FromTunnel, UpLost
<1>3. CASE ToOrigin(v)
  <2> DEFINE f == Head(toClient[v])
  <2>1. /\ toClient[v] # <<>> /\ toClient'[v] = Tail(toClient[v]) /\ f \in Frames
        /\ f = toClient[v][1]
    BY <1>1, <1>3, PopType, TailOf DEF ToOrigin
  <2>2. /\ Kinds(toClient[v]) = {f.kind} \cup Kinds(toClient'[v])
        /\ Kinds(toClient[v])' = Kinds(toClient'[v])
    BY <1>1, <2>1, KindsPop DEF Kinds
  <2>3. "open" \notin Kinds(toClient'[v])
    <3>1. \A i \in 1 .. Len(toClient'[v]) :
            i + 1 \in 1 .. Len(toClient[v]) /\ i + 1 # 1
            /\ toClient'[v][i] = toClient[v][i + 1]
      BY <1>1, <2>1, TailOf
    <3>2. \A i \in 1 .. Len(toClient'[v]) : toClient'[v][i].kind # "open"
      BY <3>1 DEF DialInv
    <3> QED
      BY <3>2 DEF Kinds
  <2>4. "open" \in Kinds(toClient[v]) => DownKinds(v) = {} /\ origin[v] = "none"
    BY DEF DialInv
  <2>5. CASE reg /\ wire
    <3>1. down' = Append(down, <<v, f>>)
      BY <1>3, <2>5 DEF ToOrigin
    <3>2. DownKinds(v)' = DownKinds(v) \cup {f.kind}
      BY <2>1, <2>2, <2>4, <3>1, DownPut DEF DialInv
    <3>3. CASE f.kind = "open"
      BY <1>2, <2>2, <2>4, <3>3 DEF OrphanInv, Done
    <3>4. CASE f.kind = "close"
      BY <2>2, <2>3, <3>2, <3>4 DEF OrphanInv
    <3>5. CASE f.kind \notin {"open", "close"}
      <4>1. "open" \in DownKinds(v)' <=> "open" \in DownKinds(v)
        BY <3>2, <3>5
      <4> QED
        BY <1>2, <2>2, <2>3, <3>2, <3>5, <4>1 DEF OrphanInv, Done, LinkLost
    <3> QED
      BY <3>3, <3>4, <3>5
  <2>6. CASE ~(reg /\ wire)
    <3>1. ~wire /\ down' = down
      BY <1>3, <2>6 DEF ToOrigin, LinkInv
    <3>2. Done(v)'
      BY <1>2, <3>1 DEF Done, LinkLost, DialInv
    <3> QED
      BY <2>2, <2>3, <3>2 DEF OrphanInv
  <2> QED
    BY <2>5, <2>6
<1>4. CASE FromTunnel(v) \/ UpLost(v)
  <2>1. UNCHANGED <<toClient, down>>
    BY <1>4 DEF FromTunnel, UpLost
  <2> QED
    BY <1>2, <2>1 DEF OrphanInv, Done, DownKinds, LinkLost, Kinds
<1> QED
  BY <1>3, <1>4 DEF BusSteps

\* The CLI's steps for the visitor itself.
LEMMA OrphanCli ==
  ASSUME TypeOK, NEW v \in Visitors, CliSteps(v), LinkInv, DialInv(v), OrphanInv(v)
  PROVE  OrphanInv(v)'
<1> USE DEF proxyVars, linkVars, cliVars
<1>1. /\ origin \in [Visitors -> {"none", "dialing", "open", "closing", "closed", "failed"}]
      /\ gen \in [Visitors -> Nat] /\ link \in Nat
  BY DEF TypeOK
<1>2. UNCHANGED <<pub, vws, deaf, toClient, link, wire>> /\ Kinds(toClient[v])' = Kinds(toClient[v])
  BY DEF CliSteps, ReadOpen, ReadMsg, ReadClose, DialDone, DialFails, AppSays,
         AppSaysEmpty, AppCloses, ReaderEnds, Kinds
\* What a frame that is read leaves in the tunnel.
<1>3. ASSUME NEW k, HeadIs(v, k)
      PROVE  /\ "open" \notin DownKinds(v)' /\ k \in DownKinds(v)
             /\ "close" \in DownKinds(v) => "close" \in DownKinds(v)' \/ k = "close"
  BY <1>3, HeadType, DownPop DEF DialInv, HeadIs
<1>4. CASE ReadOpen(v)
  <2>1. HeadIs(v, "open") /\ origin'[v] = "dialing" /\ gen'[v] = link
    BY <1>1, <1>4 DEF ReadOpen
  <2>2. "open" \in DownKinds(v)
    BY <1>3, <2>1
  <2>3. link # 0
    BY <1>1 DEF LinkInv
  <2>4. Done(v) => Done(v)'
    BY <1>2, <1>3, <2>1, <2>2, <2>3 DEF Done, LinkLost
  <2>5. "close" \in DownKinds(v) => "close" \in DownKinds(v)'
    BY <1>3, <2>1
  <2> QED
    BY <1>2, <2>4, <2>5 DEF OrphanInv
<1>5. CASE ReadMsg(v)
  <2>1. HeadIs(v, "msg") /\ UNCHANGED <<origin, gen>>
    BY <1>5 DEF ReadMsg
  <2>2. Done(v) => Done(v)'
    BY <1>2, <1>3, <2>1 DEF Done, LinkLost
  <2>3. "close" \in DownKinds(v) => "close" \in DownKinds(v)'
    BY <1>3, <2>1
  <2> QED
    BY <1>2, <2>2, <2>3 DEF OrphanInv
<1>6. CASE ReadClose(v)
  <2>1. HeadIs(v, "close") /\ gen' = gen /\ cli = "reading"
    BY <1>6 DEF ReadClose, HeadIs
  <2>2. origin'[v] \in {"dialing", "open"} => origin[v] = origin'[v] /\ ~Held(v)
    BY <1>1, <1>6 DEF ReadClose
  <2>3. origin[v] # "dialing"
    BY <2>1, NobodyAssumption DEF DialInv, LinkInv
  <2>4. origin'[v] \in {"dialing", "open"} => gen[v] < link /\ gen[v] # 0
    BY <1>1, <2>2, <2>3 DEF Held, DialInv
  <2>5. Done(v)'
    BY <1>2, <1>3, <2>1, <2>4 DEF Done, LinkLost
  <2> QED
    BY <1>2, <2>5 DEF OrphanInv
<1>7. CASE ~(ReadOpen(v) \/ ReadMsg(v) \/ ReadClose(v))
  <2>1. UNCHANGED <<down, gen>>
    BY <1>7 DEF CliSteps, DialDone, DialFails, AppSays, AppSaysEmpty, AppCloses, ReaderEnds
  <2>2. origin'[v] \in {"dialing", "open"} => origin[v] \in {"dialing", "open"}
    BY <1>1, <1>7 DEF CliSteps, DialDone, DialFails, AppSays, AppSaysEmpty, AppCloses,
           ReaderEnds
  <2>3. DownKinds(v)' = DownKinds(v)
    BY <2>1 DEF DownKinds
  <2> QED
    BY <1>2, <2>1, <2>2, <2>3 DEF OrphanInv, Done, LinkLost
<1> QED
  BY <1>4, <1>5, <1>6, <1>7

\* Every step keeps the invariant.
LEMMA OrphanStep ==
  ASSUME TypeOK, [Next]_vars, LinkInv, NEW w \in Visitors, DialInv(w), OrphanInv(w)
  PROVE  OrphanInv(w)'
<1> USE DEF proxyVars, linkVars, cliVars
<1>1. ASSUME NEW v \in Visitors, ProxySteps(v) \/ BusSteps(v) \/ CliSteps(v)
      PROVE  OrphanInv(w)'
  <2>1. CASE w = v
    BY <1>1, <2>1, OrphanProxy, OrphanBus, OrphanCli
  <2>2. CASE w # v
    <3>1. DownKinds(w)' = DownKinds(w)
      BY <1>1, <2>2, StepOther, DownOther DEF DialInv
    <3>2. /\ pub'[w] = pub[w] /\ vws'[w] = vws[w] /\ (w \in deaf' <=> w \in deaf)
          /\ toClient'[w] = toClient[w] /\ origin'[w] = origin[w] /\ gen'[w] = gen[w]
          /\ link' = link /\ wire' = wire
      BY <1>1, <2>2, StepOther
    <3>3. Kinds(toClient[w])' = Kinds(toClient[w])
      BY <3>2 DEF Kinds
    <3> QED
      BY <3>1, <3>2, <3>3 DEF OrphanInv, Done, LinkLost
  <2> QED
    BY <2>1, <2>2
<1>2. CASE ServerNotices \/ WireDrops \/ WriteReturns \/ UNCHANGED vars
  <2>1. /\ UNCHANGED <<pub, vws, deaf, toClient, down, link, origin, gen>>
        /\ wire' => wire
    BY <1>2 DEF ServerNotices, WireDrops, WriteReturns, vars
  <2> QED
    BY <2>1 DEF OrphanInv, Done, LinkLost, DownKinds, Kinds
<1>3. CASE CliNotices
  <2>1. UNCHANGED <<pub, vws, deaf, toClient, down, link, wire, gen>>
    BY <1>3 DEF CliNotices
  <2>2. origin'[w] \in {"dialing", "open"} => origin[w] \in {"dialing", "open"}
    BY <1>3 DEF CliNotices, TypeOK
  <2> QED
    BY <2>1, <2>2 DEF OrphanInv, Done, LinkLost, DownKinds, Kinds
<1>4. CASE Reconnect
  <2>1. /\ UNCHANGED <<pub, vws, deaf, toClient, origin, gen>>
        /\ link' = link + 1 /\ down' = <<>>
    BY <1>4 DEF Reconnect
  <2>2. DownKinds(w)' = {}
    BY <2>1 DEF DownKinds
  <2>3. origin[w] # "none" => gen[w] # 0 /\ gen[w] < link'
    BY <2>1 DEF DialInv, TypeOK
  <2>4. Done(w)'
    BY <2>1, <2>2, <2>3 DEF Done, LinkLost
  <2> QED
    BY <2>1, <2>4 DEF OrphanInv, Kinds
<1>5. CASE \E v \in Visitors : Overtakes(v)
  <2>1. /\ UNCHANGED <<pub, vws, deaf, down, link, wire, origin, gen>>
        /\ Kinds(toClient[w])' = Kinds(toClient[w])
    BY <1>5, SwapStep
  <2> QED
    BY <2>1 DEF OrphanInv, Done, LinkLost, DownKinds
<1> QED
  BY <1>1, <1>2, <1>3, <1>4, <1>5, StepCases

\* A connection to the local app that outlives its visitor is about to be
\* closed, for any number of visitors, messages, links and reconnections,
\* unless the visitor left while handlePublicSocket was in an await.
THEOREM OrphansLeftEarly == Spec => []OrphanLeftEarly
<1> DEFINE Inv == \A v \in Visitors : OrphanInv(v)
<1> DEFINE Known == TypeOK /\ LinkInv /\ \A v \in Visitors : DialInv(v)
<1>1. Init => Inv
  BY DEF Init, OrphanInv
<1>2. Known /\ Inv /\ [Next]_vars => Inv'
  BY OrphanStep
<1>3. Inv => OrphanLeftEarly
  BY DEF OrphanInv, OrphanLeftEarly, Done
<1> QED
  BY <1>1, <1>2, <1>3, DialHolds, PTL DEF Spec
-----------------------------------------------------------------------------
(* What the local app reads.                                                *)
(*                                                                          *)
(* The messages of a visitor are in line in toClient and the tunnel. A      *)
(* frame that is lost takes the open or the connection to the local app     *)
(* with it, so what the app may still read has no gap: the tunnel goes on   *)
(* where the app stopped (Run), toClient where the tunnel ends (Feeds), up  *)
(* to the last message sent (Upto).                                         *)

\* Messages sent before the handler was attached, or read by the local app.
base(v) == early[v] + Len(got[v])

\* The latest link brings frames of the visitor to the local app.
Carried(v) ==
  "open" \in DownKinds(v) \/ (gen[v] = link /\ origin[v] \in {"dialing", "open"})

\* Frames of the visitor that the client plugin gets now may reach the app.
Coming(v) == "open" \in Kinds(toClient[v]) \/ (Carried(v) /\ wire)

\* What the local app has and will get of one visitor.
AppInv(v) ==
  /\ Lined(down, MsgTo(v), toClient[v], MsgOf, sent[v])
  /\ pub[v] # "relayed" =>
       /\ got[v] = <<>>
       /\ \A m \in Nat : ~Has(toClient[v], MsgOf, m) /\ ~Has(down, MsgTo(v), m)
  /\ base(v) <= sent[v]
  /\ Carried(v) => Run(down, MsgTo(v), base(v))
  /\ Coming(v) /\ pub[v] = "relayed" =>
       /\ Feeds(down, MsgTo(v), toClient[v], MsgOf, base(v))
       /\ Upto(down, MsgTo(v), toClient[v], MsgOf, base(v), sent[v])
  /\ \A i \in 1 .. Len(got[v]) : got[v][i] = early[v] + i

\* A tunnel without messages of the visitor carries no number.
LEMMA NoNumber ==
  ASSUME TypeOK, NEW v \in Visitors, "msg" \notin DownKinds(v)
  PROVE  \A m \in Nat : ~Has(down, MsgTo(v), m)
<1>1. ASSUME NEW m \in Nat, Has(down, MsgTo(v), m)
      PROVE  FALSE
  <2>1. PICK i \in 1 .. Len(down) : down[i] = MsgTo(v)[m]
    BY <1>1 DEF Has
  <2>2. down[i] \in Visitors \X Frames
    <3>1. down \in Seq(Visitors \X Frames)
      BY DEF TypeOK
    <3> QED
      BY <3>1
  <2>3. down[i][1] = v /\ down[i][2].kind = "msg"
    BY <2>1, <2>2, ToTag DEF Numbered
  <2> QED
    BY <2>1, <2>3, InDown DEF At
<1> QED
  BY <1>1

\* The types the arguments about one visitor's reader use.
LEMMA AppTypes ==
  ASSUME TypeOK, NEW v \in Visitors
  PROVE  /\ down \in Seq(Visitors \X Frames) /\ toClient[v] \in Seq(Frames)
         /\ sent[v] \in Nat /\ early[v] \in Nat /\ got[v] \in Seq(Nat)
         /\ Len(got[v]) \in Nat /\ base(v) \in Nat
<1>1. got[v] \in Seq(Nat) /\ early[v] \in Nat
  BY DEF TypeOK
<1>2. Len(got[v]) \in Nat
  BY <1>1
<1>3. base(v) \in Nat
  BY <1>1, <1>2 DEF base
<1> QED
  BY <1>1, <1>2, <1>3 DEF TypeOK

\* A step that neither moves, adds nor reads a message of the visitor.
LEMMA AppSame ==
  ASSUME TypeOK, NEW v \in Visitors, AppInv(v),
         Ordered(down', MsgTo(v)), Ordered(toClient'[v], MsgOf),
         \A m \in Nat : Has(down', MsgTo(v), m) <=> Has(down, MsgTo(v), m),
         \A m \in Nat : Has(toClient'[v], MsgOf, m) <=> Has(toClient[v], MsgOf, m),
         got'[v] = got[v], early'[v] = early[v], sent'[v] = sent[v],
         pub'[v] = "relayed" <=> pub[v] = "relayed",
         Carried(v)' => Carried(v) \/ \A m \in Nat : ~Has(down, MsgTo(v), m),
         Coming(v)' => Coming(v) \/ pub[v] # "relayed"
  PROVE  AppInv(v)'
<1>1. base(v)' = base(v)
  BY DEF base
<1>2. sent[v] \in Nat /\ base(v) \in Nat
  BY AppTypes
<1>3. /\ Lined(down', MsgTo(v), toClient'[v], MsgOf, sent[v])
      /\ Run(down, MsgTo(v), base(v)) => Run(down', MsgTo(v), base(v))
      /\ Feeds(down, MsgTo(v), toClient[v], MsgOf, base(v)) =>
           Feeds(down', MsgTo(v), toClient'[v], MsgOf, base(v))
      /\ Upto(down, MsgTo(v), toClient[v], MsgOf, base(v), sent[v]) =>
           Upto(down', MsgTo(v), toClient'[v], MsgOf, base(v), sent[v])
  <2>1. Lined(down, MsgTo(v), toClient[v], MsgOf, sent[v])
    BY DEF AppInv
  <2> QED
    BY <1>2, <2>1, SameNumbers
<1>4. Carried(v)' => Run(down', MsgTo(v), base(v))
  <2>1. CASE Carried(v)
    BY <1>3, <2>1 DEF AppInv
  <2>2. CASE \A m \in Nat : ~Has(down, MsgTo(v), m)
    BY <2>2 DEF Run
  <2> QED
    BY <2>1, <2>2
<1>5. Coming(v)' /\ pub'[v] = "relayed" =>
        /\ Feeds(down', MsgTo(v), toClient'[v], MsgOf, base(v))
        /\ Upto(down', MsgTo(v), toClient'[v], MsgOf, base(v), sent[v])
  BY <1>3 DEF AppInv
<1>6. /\ pub'[v] # "relayed" =>
           /\ got'[v] = <<>>
           /\ \A m \in Nat : ~Has(toClient'[v], MsgOf, m) /\ ~Has(down', MsgTo(v), m)
      /\ base(v) <= sent[v]
      /\ \A i \in 1 .. Len(got'[v]) : got'[v][i] = early'[v] + i
  BY DEF AppInv
<1> QED
  BY <1>1, <1>3, <1>4, <1>5, <1>6 DEF AppInv

\* The proxy's steps for the visitor itself.
LEMMA AppProxy ==
  ASSUME TypeOK, NEW v \in Visitors, ProxySteps(v), DialInv(v), AppInv(v)
  PROVE  AppInv(v)'
<1> USE DEF linkVars, cliVars
<1>1. /\ toClient \in Queues /\ toClient[v] \in Seq(Frames)
      /\ pub \in [Visitors -> {"none", "lookup", "opening", "relayed", "refused"}]
      /\ sent \in [Visitors -> Nat] /\ early \in [Visitors -> Nat]
  BY DEF TypeOK, Queues
<1>2. UNCHANGED <<down, link, wire, origin, gen, got>>
  BY DEF ProxySteps, Upgrade, LookupMissing, LookupActive, Relay, VisitorSends,
         VisitorSendsEmpty, VisitorLeaves, CloseCompletes, Closed, FromOrigin
<1>3. Carried(v)' = Carried(v)
  BY <1>2 DEF Carried, DownKinds
<1>4. Ordered(down', MsgTo(v)) /\ Ordered(toClient[v], MsgOf)
  BY <1>2 DEF AppInv, Lined
<1>5. \A m \in Nat : Has(down', MsgTo(v), m) <=> Has(down, MsgTo(v), m)
  BY <1>2
<1>6. ASSUME UNCHANGED <<toClient, sent, early>>, pub'[v] = "relayed" <=> pub[v] = "relayed"
      PROVE  AppInv(v)'
  <2>1. Coming(v)' = Coming(v)
    BY <1>2, <1>3, <1>6 DEF Coming, Kinds
  <2> QED
    BY <1>2, <1>3, <1>4, <1>5, <1>6, <2>1, AppSame
<1>7. CASE Upgrade(v) \/ LookupMissing(v) \/ FromOrigin(v)
  <2>1. pub'[v] = "relayed" <=> pub[v] = "relayed"
    BY <1>1, <1>7 DEF Upgrade, LookupMissing, FromOrigin
  <2> QED
    BY <1>6, <1>7, <2>1 DEF Upgrade, LookupMissing, FromOrigin
\* A frame without a number, appended.
<1>8. ASSUME NEW k \in {"open", "msg", "close"}, toClient' = Put(toClient, v, Frame(k, 0)),
             UNCHANGED <<sent, early>>, pub'[v] = "relayed" <=> pub[v] = "relayed",
             k = "open" => pub[v] # "relayed"
      PROVE  AppInv(v)'
  <2>1. Frame(k, 0) \in Frames /\ Frame(k, 0).kind = k /\ ~Numbered(Frame(k, 0))
    BY FrameType DEF Numbered
  <2>2. toClient'[v] = Append(toClient[v], Frame(k, 0))
    BY <1>1, <1>8, <2>1, PutType
  <2>3. \A m \in Nat : Frame(k, 0) # MsgOf[m]
    BY <2>1, OfTag
  <2>4. /\ Ordered(toClient'[v], MsgOf)
        /\ \A m \in Nat : Has(toClient'[v], MsgOf, m) <=> Has(toClient[v], MsgOf, m)
    BY <1>1, <1>4, <2>1, <2>2, <2>3, PutNoNumber
  <2>5. Kinds(toClient'[v]) = Kinds(toClient[v]) \cup {k}
    BY <1>1, <2>1, <2>2, KindsPut
  <2>6. Coming(v)' => Coming(v) \/ pub[v] # "relayed"
    <3>1. Kinds(toClient[v])' = Kinds(toClient'[v])
      BY DEF Kinds
    <3> QED
      BY <1>2, <1>3, <1>8, <2>5, <3>1 DEF Coming
  <2> QED
    BY <1>2, <1>3, <1>4, <1>5, <1>8, <2>4, <2>6, AppSame
<1>9. CASE LookupActive(v)
  <2>1. pub'[v] = "opening" /\ pub[v] = "lookup"
    BY <1>1, <1>9 DEF LookupActive
  <2> QED
    BY <1>8, <1>9, <2>1 DEF LookupActive
<1>10. CASE Closed(v) \/ VisitorSendsEmpty(v)
  BY <1>6, <1>8, <1>10 DEF Closed, VisitorSendsEmpty
<1>11. CASE Relay(v)
  <2>1. /\ pub[v] # "relayed" /\ early'[v] = sent[v] /\ UNCHANGED <<toClient, sent>>
    BY <1>1, <1>11 DEF Relay
  <2>2. /\ got[v] = <<>> /\ Lined(down, MsgTo(v), toClient[v], MsgOf, sent[v])
        /\ \A m \in Nat : ~Has(toClient[v], MsgOf, m) /\ ~Has(down, MsgTo(v), m)
    BY <2>1 DEF AppInv
  <2>3. base(v)' = sent[v] /\ got'[v] = <<>> /\ sent[v] \in Nat
    BY <1>1, <1>2, <2>1, <2>2 DEF base
  <2>4. /\ Run(down, MsgTo(v), sent[v]) /\ Feeds(down, MsgTo(v), toClient[v], MsgOf, sent[v])
        /\ Upto(down, MsgTo(v), toClient[v], MsgOf, sent[v], sent[v])
    BY <2>2, <2>3 DEF Run, Feeds, Upto
  <2>5. pub'[v] = "relayed"
    BY <1>1, <1>11 DEF Relay
  <2> QED
    BY <1>2, <2>1, <2>2, <2>3, <2>4, <2>5 DEF AppInv
<1>12. CASE VisitorSends(v)
  <2>1. sent'[v] = sent[v] + 1 /\ UNCHANGED <<pub, early>>
    BY <1>1, <1>12 DEF VisitorSends
  <2>2. /\ base(v)' = base(v) /\ base(v) \in Nat /\ sent[v] \in Nat /\ base(v) <= sent[v]
        /\ Lined(down, MsgTo(v), toClient[v], MsgOf, sent[v])
    BY <1>2, <2>1, AppTypes DEF base, AppInv
  <2>3. base(v) <= sent[v] + 1
    BY <2>2
  <2>4. CASE pub[v] # "relayed"
    <3>1. toClient' = toClient
      BY <1>12, <2>4 DEF VisitorSends
    <3>2. Lined(down, MsgTo(v), toClient[v], MsgOf, sent[v] + 1)
      BY <2>2, LinedMore
    <3> QED
      BY <1>2, <1>3, <2>1, <2>2, <2>3, <2>4, <3>1, <3>2 DEF AppInv
  <2>5. CASE pub[v] = "relayed"
    <3>1. sent[v] + 1 \in Nat \ {0}
      BY <2>2
    <3>2. Frame("msg", sent[v] + 1) = MsgOf[sent[v] + 1] /\ MsgOf[sent[v] + 1] \in Frames
      BY <3>1, OfTag
    <3>3. toClient' = Put(toClient, v, MsgOf[sent[v] + 1])
      BY <1>12, <2>5, <3>2 DEF VisitorSends
    <3>4. toClient'[v] = Append(toClient[v], MsgOf[sent[v] + 1])
      BY <1>1, <3>2, <3>3, PutType
    <3>5. /\ Lined(down, MsgTo(v), toClient'[v], MsgOf, sent[v] + 1)
          /\ Feeds(down, MsgTo(v), toClient[v], MsgOf, base(v))
               /\ Upto(down, MsgTo(v), toClient[v], MsgOf, base(v), sent[v]) =>
             /\ Feeds(down, MsgTo(v), toClient'[v], MsgOf, base(v))
             /\ Upto(down, MsgTo(v), toClient'[v], MsgOf, base(v), sent[v] + 1)
      <4>1. Injective(MsgOf)
        BY OfTag
      <4>2. LET more == Append(toClient[v], MsgOf[sent[v] + 1]) IN
            /\ Lined(down, MsgTo(v), more, MsgOf, sent[v] + 1)
            /\ Feeds(down, MsgTo(v), toClient[v], MsgOf, base(v))
                 /\ Upto(down, MsgTo(v), toClient[v], MsgOf, base(v), sent[v]) =>
               /\ Feeds(down, MsgTo(v), more, MsgOf, base(v))
               /\ Upto(down, MsgTo(v), more, MsgOf, base(v), sent[v] + 1)
        BY <1>1, <2>2, <3>2, <4>1, WriteFar
      <4> QED
        BY <3>4, <4>2
    <3>6. Coming(v)' = Coming(v)
      <4>1. MsgOf[sent[v] + 1].kind = "msg"
        BY <3>1, <3>2, FrameType
      <4>2. Kinds(toClient'[v]) = Kinds(toClient[v]) \cup {"msg"}
        BY <1>1, <3>2, <3>4, <4>1, KindsPut
      <4>3. Kinds(toClient[v])' = Kinds(toClient'[v])
        BY DEF Kinds
      <4> QED
        BY <1>2, <1>3, <4>2, <4>3 DEF Coming
    <3> QED
      BY <1>2, <1>3, <2>1, <2>2, <2>3, <2>5, <3>5, <3>6 DEF AppInv
  <2> QED
    BY <2>4, <2>5
<1> QED
  BY <1>7, <1>9, <1>10, <1>11, <1>12 DEF ProxySteps, VisitorLeaves, CloseCompletes

\* The steps between the plugins and the tunnel for the visitor itself.
LEMMA AppBus ==
  ASSUME TypeOK, NEW v \in Visitors, BusSteps(v), LinkInv, DialInv(v), AppInv(v)
  PROVE  AppInv(v)'
<1> USE DEF proxyVars, linkVars, cliVars
<1>1. /\ toClient \in Queues /\ toClient[v] \in Seq(Frames)
      /\ down \in Seq(Visitors \X Frames)
  BY DEF TypeOK, Queues
<1>2. UNCHANGED <<pub, sent, early, got, link, wire, origin, gen>>
  BY DEF BusSteps, ToOrigin, FromTunnel, UpLost
<1>3. Ordered(down, MsgTo(v)) /\ Ordered(toClient[v], MsgOf)
  BY DEF AppInv, Lined
<1>4. CASE FromTunnel(v) \/ UpLost(v)
  <2>1. UNCHANGED <<toClient, down>>
    BY <1>4 DEF FromTunnel, UpLost
  <2>2. Carried(v)' = Carried(v) /\ Coming(v)' = Coming(v)
    BY <1>2, <2>1 DEF Carried, Coming, DownKinds, Kinds
  <2> QED
    BY <1>2, <1>3, <2>1, <2>2, AppSame
<1>5. CASE ToOrigin(v)
  <2>0. PICK f \in Frames : f = Head(toClient[v])
    BY <1>1, <1>5, PopType DEF ToOrigin
  <2>1. /\ toClient[v] # <<>> /\ toClient'[v] = Tail(toClient[v]) /\ f = toClient[v][1]
    BY <1>1, <1>5, <2>0, PopType, TailOf DEF ToOrigin
  <2>2. f.kind \in Kinds(toClient[v])
    BY <1>1, <2>1, KindsPop
  <2>3. "open" \notin Kinds(toClient[v])'
    <3>1. \A i \in 1 .. Len(toClient'[v]) :
            i + 1 \in 1 .. Len(toClient[v]) /\ i + 1 # 1
            /\ toClient'[v][i] = toClient[v][i + 1]
      BY <1>1, <2>1, TailOf
    <3>2. \A i \in 1 .. Len(toClient'[v]) : toClient'[v][i].kind # "open"
      BY <3>1 DEF DialInv
    <3> QED
      BY <3>2 DEF Kinds
  <2>4. Coming(v)' <=> Carried(v)' /\ wire
    BY <1>2, <2>3 DEF Coming
  <2>5. CASE ~(reg /\ wire)
    <3>1. ~wire /\ down' = down
      BY <1>5, <2>5 DEF ToOrigin, LinkInv
    <3>2. Carried(v)' = Carried(v) /\ ~Coming(v)' /\ base(v)' = base(v)
      BY <1>2, <2>4, <3>1 DEF Carried, DownKinds, base
    <3>3. Lined(down, MsgTo(v), toClient'[v], MsgOf, sent[v])
      <4>1. Lined(down, MsgTo(v), toClient[v], MsgOf, sent[v])
        BY DEF AppInv
      <4> QED
        BY <1>1, <2>1, <4>1, LinedPop
    <3>4. \A m \in Nat : Has(toClient'[v], MsgOf, m) => Has(toClient[v], MsgOf, m)
      BY <1>1, <2>1, HasPop
    <3> QED
      BY <1>2, <3>1, <3>2, <3>3, <3>4 DEF AppInv
  <2>6. CASE reg /\ wire
    <3>1. down' = Append(down, <<v, f>>) /\ <<v, f>> \in Visitors \X Frames
      BY <1>5, <2>0, <2>6 DEF ToOrigin
    <3>2. DownKinds(v)' = DownKinds(v) \cup {f.kind}
      BY <2>2, <3>1, DownPut DEF DialInv
    <3>3. CASE ~Numbered(f)
      <4>1. \A m \in Nat : f # MsgOf[m] /\ <<v, f>> # MsgTo(v)[m]
        BY <3>1, <3>3, OfTag, ToTag
      <4>2. /\ Ordered(toClient'[v], MsgOf)
            /\ \A m \in Nat : Has(toClient'[v], MsgOf, m) <=> Has(toClient[v], MsgOf, m)
        BY <1>1, <1>3, <2>1, <4>1, PopNoNumber
      <4>3. /\ Ordered(down', MsgTo(v))
            /\ \A m \in Nat : Has(down', MsgTo(v), m) <=> Has(down, MsgTo(v), m)
        BY <1>1, <1>3, <3>1, <4>1, PutNoNumber
      <4>4. CASE f.kind = "open"
        <5>1. DownKinds(v) = {} /\ Coming(v)
          BY <2>2, <4>4 DEF DialInv, Coming
        <5>2. \A m \in Nat : ~Has(down, MsgTo(v), m)
          BY <5>1, NoNumber
        <5> QED
          BY <1>2, <4>2, <4>3, <5>1, <5>2, AppSame
      <4>5. CASE f.kind # "open"
        <5>1. Carried(v)' = Carried(v)
          BY <1>2, <3>2, <4>5 DEF Carried
        <5>2. Coming(v)' => Coming(v)
          BY <2>4, <5>1 DEF Coming
        <5> QED
          BY <1>2, <4>2, <4>3, <5>1, <5>2, AppSame
      <4> QED
        BY <4>4, <4>5
    <3>4. CASE Numbered(f)
      <4>1. f.n \in Nat \ {0} /\ f = MsgOf[f.n] /\ Injective(MsgOf)
        BY <3>4, OfTag
      <4>2. /\ Injective(MsgTo(v)) /\ MsgTo(v)[f.n] = <<v, f>>
            /\ MsgTo(v)[f.n] \in Visitors \X Frames
        BY <4>1, ToTag
      <4>3. pub[v] = "relayed"
        <5>1. Has(toClient[v], MsgOf, f.n)
          BY <1>1, <2>1, <4>1, HasPop
        <5> QED
          BY <4>1, <5>1 DEF AppInv
      <4>4. Carried(v)' = Carried(v) /\ base(v)' = base(v)
        BY <1>2, <3>2, <3>4 DEF Carried, base, Numbered
      <4>5. Carried(v) => Coming(v)
        BY <2>6 DEF Coming
      <4>6. /\ sent[v] \in Nat /\ base(v) \in Nat
            /\ Lined(down, MsgTo(v), toClient[v], MsgOf, sent[v])
        BY AppTypes DEF AppInv
      <4>7. LET more == Append(down, MsgTo(v)[f.n]) IN
            /\ Lined(more, MsgTo(v), Tail(toClient[v]), MsgOf, sent[v])
            /\ Run(down, MsgTo(v), base(v))
                 /\ Feeds(down, MsgTo(v), toClient[v], MsgOf, base(v)) =>
               /\ Run(more, MsgTo(v), base(v))
               /\ Feeds(more, MsgTo(v), Tail(toClient[v]), MsgOf, base(v))
            /\ Upto(down, MsgTo(v), toClient[v], MsgOf, base(v), sent[v]) =>
                 Upto(more, MsgTo(v), Tail(toClient[v]), MsgOf, base(v), sent[v])
        <5>1. toClient[v][1] = MsgOf[f.n]
          BY <2>1, <4>1
        <5> QED
          BY <1>1, <2>1, <4>1, <4>2, <4>6, <5>1, MoveNumber
      <4>8. down' = Append(down, MsgTo(v)[f.n])
        BY <3>1, <4>2
      <4> QED
        BY <1>2, <2>1, <2>4, <4>3, <4>4, <4>5, <4>7, <4>8 DEF AppInv
    <3> QED
      BY <3>3, <3>4
  <2> QED
    BY <2>5, <2>6
<1> QED
  BY <1>4, <1>5 DEF BusSteps

\* The CLI's steps for the visitor itself.
LEMMA AppCli ==
  ASSUME TypeOK, NEW v \in Visitors, CliSteps(v), LinkInv, DialInv(v), AppInv(v)
  PROVE  AppInv(v)'
<1> USE DEF proxyVars, linkVars, cliVars
<1>1. /\ origin \in [Visitors -> {"none", "dialing", "open", "closing", "closed", "failed"}]
      /\ gen \in [Visitors -> Nat] /\ got \in [Visitors -> Seq(Nat)]
      /\ down \in Seq(Visitors \X Frames) /\ sent[v] \in Nat /\ early[v] \in Nat
      /\ base(v) \in Nat /\ Len(got[v]) \in Nat /\ got[v] \in Seq(Nat)
  BY AppTypes DEF TypeOK
<1>2. /\ UNCHANGED <<pub, sent, early, toClient, link, wire>>
      /\ Kinds(toClient[v])' = Kinds(toClient[v])
  BY DEF CliSteps, ReadOpen, ReadMsg, ReadClose, DialDone, DialFails, AppSays,
         AppSaysEmpty, AppCloses, ReaderEnds, Kinds
<1>3. /\ Lined(down, MsgTo(v), toClient[v], MsgOf, sent[v])
      /\ Ordered(down, MsgTo(v)) /\ Ordered(toClient[v], MsgOf)
  BY DEF AppInv, Lined
\* What a frame that is read leaves in the tunnel.
<1>4. ASSUME NEW k, HeadIs(v, k)
      PROVE  /\ k \in DownKinds(v) /\ "open" \notin DownKinds(v)'
             /\ "open" \in DownKinds(v) => k = "open"
             /\ down # <<>> /\ down' = Tail(down) /\ down[1] = Head(down)
             /\ Head(down) \in Visitors \X Frames /\ Head(down)[1] = v
             /\ Head(down)[2].kind = k /\ cli = "reading"
  <2>1. /\ down # <<>> /\ down' = Tail(down) /\ Head(down)[1] = v
        /\ Head(down)[2].kind = k /\ cli = "reading"
    BY <1>4 DEF HeadIs
  <2>2. down[1] = Head(down) /\ Head(down) \in Visitors \X Frames
    BY <1>1, <2>1, TailOf
  <2>3. OpenFirst(v)
    BY DEF DialInv
  <2>4. /\ k \in DownKinds(v) /\ "open" \notin DownKinds(v)'
        /\ "open" \in DownKinds(v) => k = "open"
    BY <2>1, <2>3, HeadType, DownPop
  <2> QED
    BY <2>1, <2>2, <2>4
\* A frame without a number is read.
<1>5. ASSUME NEW k, HeadIs(v, k), ~Numbered(Head(down)[2]), got' = got,
             Carried(v)' => Carried(v)
      PROVE  AppInv(v)'
  <2>1. \A m \in Nat : down[1] # MsgTo(v)[m]
    BY <1>4, <1>5, ToTag
  <2>2. /\ Ordered(down', MsgTo(v))
        /\ \A m \in Nat : Has(down', MsgTo(v), m) <=> Has(down, MsgTo(v), m)
    <3>1. down # <<>> /\ down' = Tail(down) /\ down \in Seq(Visitors \X Frames)
      BY <1>1, <1>4, <1>5
    <3> QED
      BY <1>3, <2>1, <3>1, PopNoNumber
  <2>3. Coming(v)' => Coming(v)
    BY <1>2, <1>5 DEF Coming
  <2>4. /\ toClient'[v] = toClient[v] /\ got'[v] = got[v] /\ early'[v] = early[v]
        /\ sent'[v] = sent[v] /\ pub'[v] = pub[v]
    BY <1>2, <1>5
  <2>5. Ordered(toClient'[v], MsgOf)
    BY <1>3, <2>4
  <2>6. \A m \in Nat : Has(toClient'[v], MsgOf, m) <=> Has(toClient[v], MsgOf, m)
    BY <2>4
  <2>7. Carried(v)' => Carried(v)
    BY <1>5
  <2> HIDE DEF proxyVars, linkVars, cliVars
  <2> QED
    BY <2>2, <2>3, <2>4, <2>5, <2>6, <2>7, AppSame
<1>6. CASE ReadOpen(v)
  <2>1. HeadIs(v, "open") /\ got' = got
    BY <1>6 DEF ReadOpen
  <2>2. Carried(v) /\ ~Numbered(Head(down)[2])
    BY <1>4, <2>1 DEF Carried, Numbered
  <2> QED
    BY <1>5, <2>1, <2>2
<1>7. CASE ReadClose(v)
  <2>1. HeadIs(v, "close") /\ got' = got /\ gen' = gen
    BY <1>7 DEF ReadClose
  <2>2. origin'[v] \in {"dialing", "open"} => origin'[v] = origin[v]
    BY <1>1, <1>7 DEF ReadClose
  <2>3. Carried(v)' => Carried(v)
    BY <1>2, <1>4, <2>1, <2>2 DEF Carried
  <2>4. ~Numbered(Head(down)[2])
    BY <1>4, <2>1 DEF Numbered
  <2> QED
    BY <1>5, <2>1, <2>3, <2>4
<1>10. CASE ReadMsg(v) /\ Head(down)[2].n = 0
  <2>1. HeadIs(v, "msg") /\ UNCHANGED <<origin, gen, got>>
    BY <1>10 DEF ReadMsg
  <2>2. Carried(v)' => Carried(v)
    BY <1>2, <1>4, <2>1 DEF Carried
  <2>3. ~Numbered(Head(down)[2])
    BY <1>10 DEF Numbered
  <2> QED
    BY <1>5, <2>1, <2>2, <2>3
<1>8. CASE ReadMsg(v) /\ Head(down)[2].n # 0
  <2>1. HeadIs(v, "msg") /\ UNCHANGED <<origin, gen>>
    BY <1>8 DEF ReadMsg
  <2>2. PICK n \in Nat : n # 0 /\ Head(down)[2].n = n /\ down[1] = MsgTo(v)[n]
    <3>1. Head(down)[2] \in Frames /\ Numbered(Head(down)[2])
      BY <1>4, <1>8, <2>1 DEF Numbered
    <3>2. Head(down)[2].n \in Nat \ {0} /\ Head(down)[2] = MsgOf[Head(down)[2].n]
      BY <3>1, OfTag
    <3>3. Head(down) = <<v, Head(down)[2]>>
      BY <1>4, <2>1
    <3>4. MsgTo(v)[Head(down)[2].n] = <<v, Head(down)[2]>>
      BY <3>2, ToTag
    <3>5. down[1] = MsgTo(v)[Head(down)[2].n]
      BY <1>4, <2>1, <3>3, <3>4, Zenon
    <3> QED
      BY <3>2, <3>5
  <2>3. /\ down # <<>> /\ down' = Tail(down) /\ "msg" \in DownKinds(v)
        /\ "open" \notin DownKinds(v) /\ "open" \notin DownKinds(v)'
    BY <1>4, <2>1
  <2>4. origin[v] # "dialing"
    BY <1>4, <2>1, NobodyAssumption DEF DialInv, LinkInv
  <2>5. Carried(v) <=> Held(v) /\ origin[v] = "open"
    BY <2>3, <2>4 DEF Carried, Held
  <2>6. (Carried(v)' <=> Carried(v)) /\ (Coming(v)' <=> Coming(v)) /\ (Coming(v) => Carried(v))
    BY <1>2, <2>1, <2>3 DEF Carried, Coming, DialInv
  <2>7. \A m \in Nat : Has(down', MsgTo(v), m) => Has(down, MsgTo(v), m)
    BY <1>1, <2>3, HasPop
  <2>8. Has(down, MsgTo(v), n)
    BY <1>1, <2>2, <2>3, HasPop
  <2>9. pub[v] = "relayed"
    BY <2>8 DEF AppInv
  <2>10. Lined(down', MsgTo(v), toClient[v], MsgOf, sent[v])
    <3>1. toClient[v] \in Seq(Frames)
      BY AppTypes
    <3> QED
      BY <1>1, <1>3, <2>3, <3>1, LinedPop
  <2>11. CASE ~Carried(v)
    <3>1. got' = got
      BY <1>8, <2>5, <2>11 DEF ReadMsg
    <3>2. base(v)' = base(v)
      BY <1>2, <3>1 DEF base
    <3> QED
      BY <1>2, <2>6, <2>9, <2>10, <2>11, <3>1, <3>2 DEF AppInv
  <2>12. CASE Carried(v)
    <3>1. got'[v] = Append(got[v], n)
      BY <1>1, <1>8, <2>2, <2>5, <2>12 DEF ReadMsg
    <3>2. /\ Len(got'[v]) = Len(got[v]) + 1 /\ got'[v][Len(got[v]) + 1] = n
          /\ \A i \in 1 .. Len(got'[v]) :
               (i \in 1 .. Len(got[v]) /\ got'[v][i] = got[v][i]) \/ i = Len(got[v]) + 1
      <4>1. got[v] \in Seq(Nat)
        BY <1>1
      <4> QED
        BY <3>1, <4>1, AppendOf
    <3>3. base(v)' = base(v) + 1
      <4>1. base(v)' = early[v] + (Len(got[v]) + 1)
        BY <1>2, <3>2, Zenon DEF base
      <4>2. base(v) = early[v] + Len(got[v])
        BY DEF base
      <4>3. early[v] \in Nat /\ Len(got[v]) \in Nat
        BY <1>1
      <4> QED
        BY <4>1, <4>2, <4>3
    <3>4. Run(down, MsgTo(v), base(v)) /\ Injective(MsgTo(v))
      BY <2>12, ToTag DEF AppInv
    <3>5. /\ n = base(v) + 1 /\ n <= sent[v] /\ Run(Tail(down), MsgTo(v), base(v) + 1)
          /\ Feeds(down, MsgTo(v), toClient[v], MsgOf, base(v)) =>
               Feeds(Tail(down), MsgTo(v), toClient[v], MsgOf, base(v) + 1)
          /\ Upto(down, MsgTo(v), toClient[v], MsgOf, base(v), sent[v]) =>
               Upto(Tail(down), MsgTo(v), toClient[v], MsgOf, base(v) + 1, sent[v])
      <4>1. /\ down \in Seq(Visitors \X Frames) /\ down # <<>>
            /\ base(v) \in Nat /\ sent[v] \in Nat
            /\ Lined(down, MsgTo(v), toClient[v], MsgOf, sent[v])
        BY <1>1, <1>3, <2>3
      <4>2. down[1] = MsgTo(v)[n] /\ n \in Nat
        BY <2>2
      <4> QED
        BY <3>4, <4>1, <4>2, ReadNear
    <3>6. ASSUME NEW i \in 1 .. Len(got'[v])
          PROVE  got'[v][i] = early[v] + i
      <4>1. CASE i \in 1 .. Len(got[v]) /\ got'[v][i] = got[v][i]
        BY <4>1 DEF AppInv
      <4>2. CASE i = Len(got[v]) + 1
        <5>1. n = early[v] + Len(got[v]) + 1
          BY <3>5 DEF base
        <5> QED
          BY <1>1, <3>2, <4>2, <5>1
      <4> QED
        BY <3>2, <4>1, <4>2
    <3> QED
      BY <1>2, <2>3, <2>6, <2>9, <2>10, <3>3, <3>5, <3>6 DEF AppInv
  <2> QED
    BY <2>11, <2>12
<1>9. CASE ~(ReadOpen(v) \/ ReadMsg(v) \/ ReadClose(v))
  <2>1. UNCHANGED <<down, gen, got>>
    BY <1>9 DEF CliSteps, DialDone, DialFails, AppSays, AppSaysEmpty, AppCloses, ReaderEnds
  <2>2. origin'[v] \in {"dialing", "open"} => origin[v] \in {"dialing", "open"}
    BY <1>1, <1>9 DEF CliSteps, DialDone, DialFails, AppSays, AppSaysEmpty, AppCloses,
           ReaderEnds
  <2>3. Carried(v)' => Carried(v)
    BY <1>2, <2>1, <2>2 DEF Carried, DownKinds
  <2>4. Coming(v)' => Coming(v)
    BY <1>2, <2>3 DEF Coming
  <2> QED
    BY <1>2, <1>3, <2>1, <2>3, <2>4, AppSame
<1> QED
  BY <1>6, <1>7, <1>8, <1>9, <1>10

\* Every step keeps what the local app has and will get.
LEMMA AppStep ==
  ASSUME TypeOK, [Next]_vars, load.ordered, LinkInv,
         NEW w \in Visitors, DialInv(w), AppInv(w)
  PROVE  AppInv(w)'
<1> USE DEF proxyVars, linkVars, cliVars
<1>1. Ordered(down, MsgTo(w)) /\ Ordered(toClient[w], MsgOf)
  BY DEF AppInv, Lined
<1>2. ASSUME NEW v \in Visitors, ProxySteps(v) \/ BusSteps(v) \/ CliSteps(v)
      PROVE  AppInv(w)'
  <2>1. CASE w = v
    BY <1>2, <2>1, AppProxy, AppBus, AppCli
  <2>2. CASE w # v
    <3>1. /\ DownKinds(w)' = DownKinds(w) /\ Ordered(down', MsgTo(w))
          /\ \A m \in Nat : Has(down', MsgTo(w), m) <=> Has(down, MsgTo(w), m)
      BY <1>1, <1>2, <2>2, StepOther, DownOther DEF DialInv
    <3>2. /\ pub'[w] = pub[w] /\ toClient'[w] = toClient[w] /\ sent'[w] = sent[w]
          /\ early'[w] = early[w] /\ origin'[w] = origin[w] /\ gen'[w] = gen[w]
          /\ got'[w] = got[w] /\ link' = link /\ wire' = wire
      BY <1>2, <2>2, StepOther
    <3>3. Carried(w)' = Carried(w) /\ Coming(w)' = Coming(w)
      BY <3>1, <3>2 DEF Carried, Coming, Kinds
    <3> QED
      BY <1>1, <3>1, <3>2, <3>3, AppSame
  <2> QED
    BY <2>1, <2>2
<1>3. CASE ServerNotices \/ WireDrops \/ WriteReturns \/ CliNotices \/ UNCHANGED vars
  <2>1. /\ UNCHANGED <<pub, toClient, down, link, gen, sent, early, got>>
        /\ wire' => wire
    BY <1>3 DEF ServerNotices, WireDrops, WriteReturns, CliNotices, vars
  <2>2. origin'[w] \in {"dialing", "open"} => origin'[w] = origin[w]
    BY <1>3 DEF TypeOK, ServerNotices, WireDrops, WriteReturns, CliNotices, vars
  <2>3. Carried(w)' => Carried(w)
    BY <2>1, <2>2 DEF Carried, DownKinds
  <2>4. Coming(w)' => Coming(w)
    BY <2>1, <2>3 DEF Coming, Kinds
  <2> QED
    BY <1>1, <2>1, <2>3, <2>4, AppSame
<1>4. CASE Reconnect
  <2>1. /\ UNCHANGED <<pub, toClient, origin, gen, sent, early, got>>
        /\ link' = link + 1 /\ down' = <<>>
    BY <1>4 DEF Reconnect
  <2>2. "open" \notin DownKinds(w)' /\ \A m : ~Has(down', MsgTo(w), m)
    BY <2>1 DEF DownKinds, Has
  <2>3. gen[w] # link'
    BY <2>1 DEF DialInv, TypeOK
  <2>4. ~Carried(w)' /\ (Coming(w)' <=> "open" \in Kinds(toClient[w]))
    BY <2>1, <2>2, <2>3 DEF Carried, Coming, Kinds
  <2>5. base(w)' = base(w)
    BY <2>1 DEF base
  <2>6. CASE "open" \in Kinds(toClient[w])
    <3>1. \A m \in Nat : ~Has(down, MsgTo(w), m)
      BY <2>6, NoNumber DEF DialInv
    <3>2. Ordered(down', MsgTo(w)) /\ Coming(w)
      BY <2>1, <2>6 DEF Ordered, Coming
    <3> QED
      BY <1>1, <2>1, <2>2, <2>4, <3>1, <3>2, AppSame
  <2>7. CASE "open" \notin Kinds(toClient[w])
    <3>1. Lined(down', MsgTo(w), toClient[w], MsgOf, sent[w])
      <4>1. Lined(down, MsgTo(w), toClient[w], MsgOf, sent[w])
        BY DEF AppInv
      <4> QED
        BY <2>1, <4>1, AppTypes, LinedPop
    <3> QED
      BY <2>1, <2>2, <2>4, <2>5, <2>7, <3>1 DEF AppInv
  <2> QED
    BY <2>6, <2>7
<1> QED
  BY <1>2, <1>3, <1>4, StepCases, SwapStep

\* Whether the bus keeps the order of events does not change.
LEMMA LoadStays == [Next]_vars => load' = load
<1> SUFFICES ASSUME [Next]_vars
             PROVE  load' = load
  OBVIOUS
<1>1. ASSUME NEW v \in Visitors, ProxySteps(v)
      PROVE  load' = load
  BY <1>1 DEF ProxySteps, Upgrade, LookupMissing, LookupActive, Relay, VisitorSends,
         VisitorSendsEmpty, VisitorLeaves, CloseCompletes, Closed, FromOrigin
<1>2. ASSUME NEW v \in Visitors, BusSteps(v) \/ CliSteps(v) \/ Overtakes(v)
      PROVE  load' = load
  BY <1>2 DEF BusSteps, ToOrigin, FromTunnel, UpLost, CliSteps, ReadOpen, ReadMsg, ReadClose,
         DialDone, DialFails, AppSays, AppSaysEmpty, AppCloses, ReaderEnds, Overtakes,
         OvertakesToOrigin, OvertakesFromOrigin, proxyVars
<1>3. CASE \/ ServerNotices \/ WireDrops \/ WriteReturns \/ CliNotices \/ Reconnect
           \/ UNCHANGED vars
  BY <1>3 DEF ServerNotices, WireDrops, WriteReturns, CliNotices, Reconnect, proxyVars, vars
<1> QED
  BY <1>1, <1>2, <1>3, StepCases

\* If the bus keeps the order of events, what is written to the local app for a
\* visitor is a run, without gaps or repeats, of the messages it sent that are
\* not empty, from the first after its handler was attached: for any number of
\* visitors, messages, empty or not, drops and reconnections.
THEOREM AppReadsInOrder == Spec => []AppReadsARun
<1> DEFINE Inv == load.ordered => \A v \in Visitors : AppInv(v)
<1> DEFINE Known == TypeOK /\ LinkInv /\ \A v \in Visitors : DialInv(v)
<1>1. Init => Inv
  <2> SUFFICES ASSUME Init, NEW v \in Visitors
               PROVE  AppInv(v)
    OBVIOUS
  <2>1. /\ down = <<>> /\ toClient[v] = <<>> /\ got[v] = <<>> /\ sent[v] = 0
        /\ early[v] = 0 /\ origin[v] = "none"
    BY DEF Init
  <2>2. \A tag : Ordered(<<>>, tag) /\ \A m : ~Has(<<>>, tag, m)
    BY DEF Ordered, Has
  <2>3. base(v) = 0
    BY <2>1 DEF base
  <2>4. Lined(down, MsgTo(v), toClient[v], MsgOf, sent[v]) /\ Run(down, MsgTo(v), base(v))
    <3>1. Lined(<<>>, MsgTo(v), <<>>, MsgOf, 0) /\ Run(<<>>, MsgTo(v), 0)
      BY <2>2 DEF Lined, Run
    <3> QED
      BY <2>1, <2>3, <3>1
  <2>5. /\ Feeds(down, MsgTo(v), toClient[v], MsgOf, base(v))
        /\ Upto(down, MsgTo(v), toClient[v], MsgOf, base(v), sent[v])
    <3>1. Feeds(<<>>, MsgTo(v), <<>>, MsgOf, 0)
      BY <2>2 DEF Feeds
    <3>2. 0 + 1 .. 0 = {}
      OBVIOUS
    <3>3. Upto(<<>>, MsgTo(v), <<>>, MsgOf, 0, 0)
      BY <3>2 DEF Upto
    <3> QED
      BY <2>1, <2>3, <3>1, <3>3
  <2>6. base(v) <= sent[v]
    BY <2>1, <2>3
  <2>7. \A i \in 1 .. Len(got[v]) : got[v][i] = early[v] + i
    BY <2>1
  <2>8. \A m \in Nat : ~Has(toClient[v], MsgOf, m) /\ ~Has(down, MsgTo(v), m)
    BY <2>1, <2>2
  <2> QED
    BY <2>1, <2>4, <2>5, <2>6, <2>7, <2>8 DEF AppInv
<1>2. Known /\ Inv /\ [Next]_vars => Inv'
  BY AppStep, LoadStays
<1>3. Inv => AppReadsARun
  BY DEF AppInv, AppReadsARun
<1> QED
  BY <1>1, <1>2, <1>3, DialHolds, PTL DEF Spec

-----------------------------------------------------------------------------
(* What the visitor reads.                                                  *)
(*                                                                          *)
(* The messages of the local app are in line in up and back. They are lost  *)
(* in up with their link, or in back when the visitor's socket does not     *)
(* take them, after which it takes none; as long as it is open it has an    *)
(* entry in the table, and what it may still get has no gap.                *)

\* What one visitor has and will get of the local app.
SeenInv(v) ==
  /\ Lined(back[v], MsgOf, up[v], MsgOf, said[v])
  /\ Len(seen[v]) <= said[v]
  /\ vws[v] = "open" =>
       /\ pub[v] \in {"opening", "relayed"} => v \in table
       /\ Run(back[v], MsgOf, Len(seen[v]))
       /\ Feeds(back[v], MsgOf, up[v], MsgOf, Len(seen[v]))
       /\ ~LinkLost(v) => Upto(back[v], MsgOf, up[v], MsgOf, Len(seen[v]), said[v])
  /\ \A i \in 1 .. Len(seen[v]) : seen[v][i] = i

\* The types the arguments about the visitor's queues use.
LEMMA SeenTypes ==
  ASSUME TypeOK, NEW v \in Visitors
  PROVE  /\ back \in Queues /\ back[v] \in Seq(Frames)
         /\ up \in Queues /\ up[v] \in Seq(Frames)
         /\ said \in [Visitors -> Nat] /\ said[v] \in Nat
         /\ seen \in [Visitors -> Seq(Nat)] /\ seen[v] \in Seq(Nat) /\ Len(seen[v]) \in Nat
<1>1. seen \in [Visitors -> Seq(Nat)] /\ seen[v] \in Seq(Nat)
  BY DEF TypeOK
<1>2. Len(seen[v]) \in Nat
  BY <1>1
<1> QED
  BY <1>1, <1>2 DEF TypeOK, Queues

\* A step that neither moves, adds nor reads a message for the visitor.
LEMMA SeenSame ==
  ASSUME TypeOK, NEW v \in Visitors, SeenInv(v),
         Ordered(back'[v], MsgOf), Ordered(up'[v], MsgOf),
         \A m \in Nat : Has(back'[v], MsgOf, m) <=> Has(back[v], MsgOf, m),
         \A m \in Nat : Has(up'[v], MsgOf, m) <=> Has(up[v], MsgOf, m),
         seen'[v] = seen[v], said'[v] = said[v], vws'[v] = "open" => vws[v] = "open",
         vws'[v] = "open" /\ pub'[v] \in {"opening", "relayed"} => v \in table',
         ~LinkLost(v)' => ~LinkLost(v)
  PROVE  SeenInv(v)'
<1>1. PICK b \in Nat : b = Len(seen[v])
  BY SeenTypes
<1>2. said[v] \in Nat
  BY SeenTypes
<1>3. /\ Lined(back'[v], MsgOf, up'[v], MsgOf, said[v])
      /\ Run(back[v], MsgOf, b) => Run(back'[v], MsgOf, b)
      /\ Feeds(back[v], MsgOf, up[v], MsgOf, b) => Feeds(back'[v], MsgOf, up'[v], MsgOf, b)
      /\ Upto(back[v], MsgOf, up[v], MsgOf, b, said[v]) =>
           Upto(back'[v], MsgOf, up'[v], MsgOf, b, said[v])
  <2>1. Lined(back[v], MsgOf, up[v], MsgOf, said[v])
    BY DEF SeenInv
  <2>2. /\ \A m \in Nat : \A k \in b + 1 .. m - 1 : k \in Nat
        /\ \A k \in b + 1 .. said[v] : k \in Nat
    BY <1>1, <1>2
  <2>3. Lined(back'[v], MsgOf, up'[v], MsgOf, said[v])
    BY <2>1 DEF Lined
  <2>4. Run(back[v], MsgOf, b) => Run(back'[v], MsgOf, b)
    BY <2>2 DEF Run
  <2>5. Feeds(back[v], MsgOf, up[v], MsgOf, b) => Feeds(back'[v], MsgOf, up'[v], MsgOf, b)
    BY <2>2 DEF Feeds
  <2>6. Upto(back[v], MsgOf, up[v], MsgOf, b, said[v]) =>
          Upto(back'[v], MsgOf, up'[v], MsgOf, b, said[v])
    BY <2>2 DEF Upto
  <2> QED
    BY <2>3, <2>4, <2>5, <2>6
<1>4. /\ Len(seen'[v]) = b /\ b <= said[v]
      /\ \A i \in 1 .. Len(seen'[v]) : seen'[v][i] = i
  BY <1>1 DEF SeenInv
<1>5. vws[v] = "open" =>
        /\ Run(back[v], MsgOf, b) /\ Feeds(back[v], MsgOf, up[v], MsgOf, b)
        /\ ~LinkLost(v) => Upto(back[v], MsgOf, up[v], MsgOf, b, said[v])
  BY <1>1 DEF SeenInv
<1> QED
  BY <1>3, <1>4, <1>5 DEF SeenInv

\* The proxy's steps for the visitor itself.
LEMMA SeenProxy ==
  ASSUME TypeOK, NEW v \in Visitors, ProxySteps(v), DialInv(v), SeenInv(v)
  PROVE  SeenInv(v)'
<1> USE DEF linkVars, cliVars
<1>1. /\ back \in Queues /\ back[v] \in Seq(Frames) /\ seen \in [Visitors -> Seq(Nat)]
      /\ pub \in [Visitors -> {"none", "lookup", "opening", "relayed", "refused"}]
      /\ vws \in [Visitors -> {"none", "open", "closing", "closed"}]
  BY SeenTypes DEF TypeOK
<1>2. UNCHANGED <<up, link, wire, gen, said>> /\ LinkLost(v)' = LinkLost(v)
  BY DEF ProxySteps, Upgrade, LookupMissing, LookupActive, Relay, VisitorSends,
         VisitorSendsEmpty, VisitorLeaves, CloseCompletes, Closed, FromOrigin, LinkLost
<1>3. /\ Lined(back[v], MsgOf, up[v], MsgOf, said[v])
      /\ Ordered(back[v], MsgOf) /\ Ordered(up[v], MsgOf)
  BY DEF SeenInv, Lined
<1>4. PICK b \in Nat : b = Len(seen[v])
  BY SeenTypes
<1>5. ASSUME UNCHANGED <<back, seen>>, vws'[v] = "open" => vws[v] = "open",
             vws'[v] = "open" /\ pub'[v] \in {"opening", "relayed"} => v \in table'
      PROVE  SeenInv(v)'
  BY <1>2, <1>3, <1>5, SeenSame
<1>6. CASE Upgrade(v)
  <2>1. pub[v] = "none" /\ UNCHANGED <<back, seen, table>> /\ pub'[v] = "lookup"
    BY <1>1, <1>6 DEF Upgrade
  <2>2. back[v] = <<>> /\ up[v] = <<>> /\ said[v] = 0
    BY <2>1 DEF DialInv
  <2>3. b = 0 /\ \A i \in 1 .. Len(seen[v]) : seen[v][i] = i
    BY <1>4, <2>2 DEF SeenInv
  <2>4. \A tag : \A m : ~Has(<<>>, tag, m)
    BY DEF Has
  <2>5. Run(<<>>, MsgOf, 0) /\ Feeds(<<>>, MsgOf, <<>>, MsgOf, 0)
    BY <2>4 DEF Run, Feeds
  <2>6. Upto(<<>>, MsgOf, <<>>, MsgOf, 0, 0)
    <3>1. 0 + 1 .. 0 = {}
      OBVIOUS
    <3> QED
      BY <3>1 DEF Upto
  <2>7. Len(seen[v]) = 0 /\ 0 <= said[v]
    BY <1>4, <2>2, <2>3
  <2> QED
    BY <1>2, <1>3, <2>1, <2>2, <2>3, <2>5, <2>6, <2>7 DEF SeenInv
<1>7. CASE LookupMissing(v)
  <2>1. /\ UNCHANGED <<back, seen>> /\ pub'[v] = "refused"
        /\ vws'[v] = "open" => vws[v] = "open"
    BY <1>1, <1>7 DEF LookupMissing, CloseVisitor
  <2> QED
    BY <1>5, <2>1
<1>8. CASE LookupActive(v) \/ Relay(v)
  <2>1. UNCHANGED <<back, seen, vws>> /\ v \in table'
    BY <1>8 DEF LookupActive, Relay
  <2> QED
    BY <1>5, <2>1
<1>9. CASE VisitorSends(v) \/ VisitorSendsEmpty(v)
  <2>1. UNCHANGED <<back, seen, vws, pub, table>>
    BY <1>9 DEF VisitorSends, VisitorSendsEmpty
  <2> QED
    BY <1>5, <2>1 DEF SeenInv
<1>10. CASE Closed(v)
  <2>1. UNCHANGED <<back, seen>> /\ vws'[v] = "closed"
    BY <1>1, <1>10 DEF Closed
  <2> QED
    BY <1>5, <2>1
<1>11. CASE FromOrigin(v)
  <2>1. PICK f \in Frames : f = Head(back[v]) /\ f = back[v][1]
    BY <1>1, <1>11, PopType, TailOf DEF FromOrigin
  <2>2. back[v] # <<>> /\ back'[v] = Tail(back[v]) /\ UNCHANGED <<pub, table>>
    BY <1>1, <1>11, PopType DEF FromOrigin
  <2>3. vws'[v] = "open" => vws[v] = "open" /\ vws' = vws
    BY <1>1, <1>11 DEF FromOrigin
  <2>4. CASE ~Numbered(f)
    <3>1. \A m \in Nat : back[v][1] # MsgOf[m]
      BY <2>1, <2>4, OfTag
    <3>2. /\ Ordered(back'[v], MsgOf)
          /\ \A m \in Nat : Has(back'[v], MsgOf, m) <=> Has(back[v], MsgOf, m)
      <4>1. back[v] \in Seq(Frames) /\ back[v] # <<>> /\ Ordered(back[v], MsgOf)
        BY <1>1, <1>3, <2>2
      <4> QED
        BY <2>2, <3>1, <4>1, PopNoNumber
    <3>3. seen' = seen
      BY <1>11, <2>1, <2>4 DEF FromOrigin, Numbered
    <3>4. vws'[v] = "open" /\ pub'[v] \in {"opening", "relayed"} => v \in table'
      BY <2>2, <2>3 DEF SeenInv
    <3> QED
      BY <1>2, <1>3, <2>3, <3>2, <3>3, <3>4, SeenSame
  <2>5. CASE Numbered(f) /\ v \in table /\ vws[v] = "open"
    <3>1. /\ seen'[v] = Append(seen[v], f.n) /\ vws' = vws
          /\ f.n \in Nat /\ back[v][1] = MsgOf[f.n] /\ Injective(MsgOf)
      BY <1>1, <1>11, <2>1, <2>5, OfTag DEF FromOrigin, Numbered
    <3>2. /\ Run(back[v], MsgOf, b) /\ Feeds(back[v], MsgOf, up[v], MsgOf, b)
          /\ ~LinkLost(v) => Upto(back[v], MsgOf, up[v], MsgOf, b, said[v])
      BY <1>4, <2>5 DEF SeenInv
    <3>3. /\ f.n = b + 1 /\ f.n <= said[v] /\ Run(Tail(back[v]), MsgOf, b + 1)
          /\ Feeds(Tail(back[v]), MsgOf, up[v], MsgOf, b + 1)
          /\ Upto(back[v], MsgOf, up[v], MsgOf, b, said[v]) =>
               Upto(Tail(back[v]), MsgOf, up[v], MsgOf, b + 1, said[v])
      <4>1. said[v] \in Nat
        BY SeenTypes
      <4>2. Lined(back[v], MsgOf, up[v], MsgOf, said[v]) /\ Run(back[v], MsgOf, b)
        BY <1>3, <3>2
      <4>3. /\ f.n = b + 1 /\ f.n <= said[v] /\ Run(Tail(back[v]), MsgOf, b + 1)
            /\ Feeds(back[v], MsgOf, up[v], MsgOf, b) =>
                 Feeds(Tail(back[v]), MsgOf, up[v], MsgOf, b + 1)
            /\ Upto(back[v], MsgOf, up[v], MsgOf, b, said[v]) =>
                 Upto(Tail(back[v]), MsgOf, up[v], MsgOf, b + 1, said[v])
        BY <1>1, <2>2, <3>1, <4>1, <4>2, ReadNear
      <4> QED
        BY <3>2, <4>3
    <3>4. Len(seen'[v]) = b + 1 /\ \A i \in 1 .. Len(seen'[v]) : seen'[v][i] = i
      <4>1. seen[v] \in Seq(Nat) /\ \A i \in 1 .. Len(seen[v]) : seen[v][i] = i
        BY SeenTypes DEF SeenInv
      <4> QED
        BY <1>4, <3>1, <3>3, <4>1, AppendOf
    <3>5. Lined(back'[v], MsgOf, up[v], MsgOf, said[v])
      BY <1>1, <1>3, <2>2, SeenTypes, LinedPop
    <3> QED
      BY <1>2, <2>2, <2>5, <3>1, <3>2, <3>3, <3>4, <3>5 DEF SeenInv
  <2>6. CASE Numbered(f) /\ ~(v \in table /\ vws[v] = "open")
    <3>1. seen' = seen /\ vws' = vws
      BY <1>11, <2>1, <2>6 DEF FromOrigin, Numbered
    <3>2. pub[v] \in {"opening", "relayed"}
      BY <1>1, <2>2 DEF DialInv
    <3>3. vws[v] # "open"
      BY <2>6, <3>2 DEF SeenInv
    <3>4. Lined(back'[v], MsgOf, up[v], MsgOf, said[v])
      BY <1>1, <1>3, <2>2, SeenTypes, LinedPop
    <3> QED
      BY <1>2, <3>1, <3>3, <3>4 DEF SeenInv
  <2> QED
    BY <2>4, <2>5, <2>6
<1> QED
  BY <1>6, <1>7, <1>8, <1>9, <1>10, <1>11 DEF ProxySteps, VisitorLeaves, CloseCompletes

\* The steps between the tunnel and the plugins for the visitor itself.
LEMMA SeenBus ==
  ASSUME TypeOK, NEW v \in Visitors, BusSteps(v), SeenInv(v)
  PROVE  SeenInv(v)'
<1> USE DEF proxyVars, linkVars, cliVars
<1>1. /\ back \in Queues /\ back[v] \in Seq(Frames) /\ up \in Queues /\ up[v] \in Seq(Frames)
      /\ said[v] \in Nat
  BY SeenTypes
<1>2. /\ UNCHANGED <<pub, vws, table, seen, said, link, wire, gen>>
      /\ LinkLost(v)' = LinkLost(v)
  BY DEF BusSteps, ToOrigin, FromTunnel, UpLost, LinkLost
<1>3. /\ Lined(back[v], MsgOf, up[v], MsgOf, said[v])
      /\ Ordered(back[v], MsgOf) /\ Ordered(up[v], MsgOf)
      /\ vws[v] = "open" => (pub[v] \in {"opening", "relayed"} => v \in table)
  BY DEF SeenInv, Lined
<1>4. PICK b \in Nat : b = Len(seen[v])
  BY SeenTypes
<1>5. vws[v] = "open" =>
        /\ Run(back[v], MsgOf, b) /\ Feeds(back[v], MsgOf, up[v], MsgOf, b)
        /\ ~LinkLost(v) => Upto(back[v], MsgOf, up[v], MsgOf, b, said[v])
  BY <1>4 DEF SeenInv
<1>6. CASE ToOrigin(v)
  <2>1. up' = up
    BY <1>6 DEF ToOrigin
  <2>2. CASE reg
    <3>1. back' = back
      BY <1>6, <2>2 DEF ToOrigin
    <3> QED
      BY <1>2, <1>3, <2>1, <3>1, SeenSame
  <2>3. CASE ~reg
    <3>1. Frame("close", 0) \in Frames /\ \A m \in Nat : Frame("close", 0) # MsgOf[m]
      BY FrameType, OfTag DEF Numbered
    <3>2. back'[v] = Append(back[v], Frame("close", 0))
      BY <1>1, <1>6, <2>3, <3>1, PutType DEF ToOrigin
    <3>3. /\ Ordered(back'[v], MsgOf)
          /\ \A m \in Nat : Has(back'[v], MsgOf, m) <=> Has(back[v], MsgOf, m)
      BY <1>1, <1>3, <3>1, <3>2, PutNoNumber
    <3> QED
      BY <1>2, <1>3, <2>1, <3>3, SeenSame
  <2> QED
    BY <2>2, <2>3
<1>7. CASE UpLost(v)
  <2>1. LinkLost(v) /\ up'[v] = <<>> /\ back' = back
    BY <1>1, <1>7 DEF UpLost, Queues
  <2>2. Lined(back[v], MsgOf, <<>>, MsgOf, said[v])
    BY <1>1, <1>3, LinedPop
  <2>3. Feeds(back[v], MsgOf, <<>>, MsgOf, b)
    BY DEF Feeds, Has
  <2> QED
    BY <1>2, <1>4, <1>5, <2>1, <2>2, <2>3 DEF SeenInv
<1>8. CASE FromTunnel(v)
  <2>1. PICK f \in Frames : f = Head(up[v]) /\ f = up[v][1]
    BY <1>1, <1>8, PopType, TailOf DEF FromTunnel
  <2>2. up[v] # <<>> /\ up'[v] = Tail(up[v]) /\ back'[v] = Append(back[v], f)
    <3>1. up[v] # <<>> /\ up' = Pop(up, v) /\ back' = Put(back, v, f)
      BY <1>8, <2>1 DEF FromTunnel
    <3>2. up'[v] = Tail(up[v])
      BY <1>1, <3>1, PopType
    <3>3. back'[v] = Append(back[v], f)
      BY <1>1, <3>1, PutType
    <3> QED
      BY <3>1, <3>2, <3>3
  <2>3. CASE ~Numbered(f)
    <3>1. \A m \in Nat : f # MsgOf[m]
      BY <2>3, OfTag
    <3>2. /\ Ordered(back'[v], MsgOf)
          /\ \A m \in Nat : Has(back'[v], MsgOf, m) <=> Has(back[v], MsgOf, m)
      BY <1>1, <1>3, <2>2, <3>1, PutNoNumber
    <3>3. /\ Ordered(up'[v], MsgOf)
          /\ \A m \in Nat : Has(up'[v], MsgOf, m) <=> Has(up[v], MsgOf, m)
      <4>1. up[v] \in Seq(Frames) /\ up[v] # <<>> /\ Ordered(up[v], MsgOf)
        BY <1>1, <1>3, <2>2
      <4>2. \A m \in Nat : up[v][1] # MsgOf[m]
        BY <2>1, <3>1
      <4> QED
        BY <2>2, <4>1, <4>2, PopNoNumber
    <3> QED
      BY <1>2, <1>3, <3>2, <3>3, SeenSame
  <2>4. CASE Numbered(f)
    <3>1. PICK n \in Nat \ {0} : f = MsgOf[n]
      BY <2>4, OfTag
    <3>2. Injective(MsgOf) /\ MsgOf[n] \in Frames /\ up[v][1] = MsgOf[n]
      BY <2>1, <3>1, OfTag
    <3>3. LET more == Append(back[v], MsgOf[n]) IN
          /\ Lined(more, MsgOf, Tail(up[v]), MsgOf, said[v])
          /\ Run(back[v], MsgOf, b) /\ Feeds(back[v], MsgOf, up[v], MsgOf, b) =>
               Run(more, MsgOf, b) /\ Feeds(more, MsgOf, Tail(up[v]), MsgOf, b)
          /\ Upto(back[v], MsgOf, up[v], MsgOf, b, said[v]) =>
               Upto(more, MsgOf, Tail(up[v]), MsgOf, b, said[v])
      <4>1. up[v] # <<>> /\ Lined(back[v], MsgOf, up[v], MsgOf, said[v])
        BY <1>3, <2>2
      <4> QED
        BY <1>1, <3>2, <4>1, MoveNumber
    <3>4. /\ Lined(back'[v], MsgOf, up'[v], MsgOf, said[v])
          /\ vws[v] = "open" =>
               /\ Run(back'[v], MsgOf, b) /\ Feeds(back'[v], MsgOf, up'[v], MsgOf, b)
               /\ ~LinkLost(v) => Upto(back'[v], MsgOf, up'[v], MsgOf, b, said[v])
      BY <1>5, <2>2, <3>1, <3>3
    <3> QED
      BY <1>2, <1>4, <3>4 DEF SeenInv
  <2> QED
    BY <2>3, <2>4
<1> QED
  BY <1>6, <1>7, <1>8 DEF BusSteps

\* The CLI's steps for the visitor itself.
LEMMA SeenCli ==
  ASSUME TypeOK, NEW v \in Visitors, CliSteps(v), DialInv(v), SeenInv(v)
  PROVE  SeenInv(v)'
<1> USE DEF proxyVars, linkVars, cliVars
<1>1. /\ up \in Queues /\ up[v] \in Seq(Frames) /\ said \in [Visitors -> Nat] /\ said[v] \in Nat
      /\ Len(seen[v]) \in Nat
  BY SeenTypes
<1>2. UNCHANGED <<pub, vws, table, seen, back, link, wire>>
  BY DEF CliSteps, ReadOpen, ReadMsg, ReadClose, DialDone, DialFails, AppSays,
         AppSaysEmpty, AppCloses, ReaderEnds
<1>3. /\ Lined(back[v], MsgOf, up[v], MsgOf, said[v])
      /\ Ordered(back[v], MsgOf) /\ Ordered(up[v], MsgOf)
      /\ vws[v] = "open" => (pub[v] \in {"opening", "relayed"} => v \in table)
      /\ Len(seen[v]) <= said[v]
  BY DEF SeenInv, Lined
\* What the CLI writes besides messages that are not empty.
<1>4. ASSUME NEW k \in {"ack", "msg", "close"}, Answer(v, Frame(k, 0)),
             UNCHANGED <<said, gen>>
      PROVE  SeenInv(v)'
  <2>1. Frame(k, 0) \in Frames /\ \A m \in Nat : Frame(k, 0) # MsgOf[m]
    BY FrameType, OfTag DEF Numbered
  <2>2. up'[v] = up[v] \/ up'[v] = Append(up[v], Frame(k, 0))
    BY <1>4, <2>1, AnswerType
  <2>3. /\ Ordered(up'[v], MsgOf)
        /\ \A m \in Nat : Has(up'[v], MsgOf, m) <=> Has(up[v], MsgOf, m)
    <3>1. CASE up'[v] = up[v]
      BY <1>3, <3>1
    <3>2. CASE up'[v] = Append(up[v], Frame(k, 0))
      BY <1>1, <1>3, <2>1, <3>2, PutNoNumber
    <3> QED
      BY <2>2, <3>1, <3>2
  <2>4. LinkLost(v)' = LinkLost(v)
    BY <1>2, <1>4 DEF LinkLost
  <2> QED
    BY <1>2, <1>3, <1>4, <2>3, <2>4, SeenSame
<1>5. CASE ReadOpen(v) \/ ReadMsg(v) \/ ReadClose(v) \/ AppCloses(v)
  <2>1. UNCHANGED <<up, said>>
    BY <1>5 DEF ReadOpen, ReadMsg, ReadClose, AppCloses
  <2>2. ~LinkLost(v)' => ~LinkLost(v)
    <3>1. CASE ReadOpen(v)
      <4>1. HeadIs(v, "open")
        BY <3>1 DEF ReadOpen
      <4>2. "open" \in DownKinds(v)
        BY <4>1, HeadType, DownPop DEF DialInv, HeadIs
      <4> QED
        BY <4>2 DEF DialInv, LinkLost
    <3>2. CASE ~ReadOpen(v)
      <4>1. gen' = gen
        BY <1>5, <3>2 DEF ReadMsg, ReadClose, AppCloses
      <4> QED
        BY <1>2, <4>1 DEF LinkLost
    <3> QED
      BY <3>1, <3>2
  <2> QED
    BY <1>2, <1>3, <2>1, <2>2, SeenSame
<1>6. CASE DialDone(v) \/ DialFails(v) \/ ReaderEnds(v) \/ AppSaysEmpty(v)
  BY <1>4, <1>6 DEF DialDone, DialFails, ReaderEnds, AppSaysEmpty
<1>7. CASE AppSays(v)
  <2>1. said'[v] = said[v] + 1 /\ gen' = gen /\ said[v] + 1 \in Nat \ {0}
    BY <1>1, <1>7 DEF AppSays
  <2>2. LinkLost(v)' = LinkLost(v)
    BY <1>2, <2>1 DEF LinkLost
  <2>3. /\ Frame("msg", said[v] + 1) = MsgOf[said[v] + 1]
        /\ MsgOf[said[v] + 1] \in Frames /\ Injective(MsgOf)
    BY <2>1, OfTag
  <2>4. up'[v] = IF LinkLost(v) THEN up[v] ELSE Append(up[v], MsgOf[said[v] + 1])
    BY <1>7, <2>3, AnswerType DEF AppSays
  <2>5. PICK b \in Nat : b = Len(seen[v]) /\ b <= said[v]
    BY <1>1, <1>3
  <2>6. vws[v] = "open" =>
          /\ Run(back[v], MsgOf, b) /\ Feeds(back[v], MsgOf, up[v], MsgOf, b)
          /\ ~LinkLost(v) => Upto(back[v], MsgOf, up[v], MsgOf, b, said[v])
    BY <2>5 DEF SeenInv
  <2>7. b <= said[v] + 1
    BY <1>1, <2>5
  <2>8. CASE LinkLost(v)
    <3>1. Lined(back[v], MsgOf, up[v], MsgOf, said[v] + 1)
      BY <1>1, <1>3, LinedMore
    <3> QED
      BY <1>2, <2>1, <2>2, <2>4, <2>5, <2>6, <2>7, <2>8, <3>1 DEF SeenInv
  <2>9. CASE ~LinkLost(v)
    <3>1. LET more == Append(up[v], MsgOf[said[v] + 1]) IN
          /\ Lined(back[v], MsgOf, more, MsgOf, said[v] + 1)
          /\ Feeds(back[v], MsgOf, up[v], MsgOf, b)
               /\ Upto(back[v], MsgOf, up[v], MsgOf, b, said[v]) =>
             /\ Feeds(back[v], MsgOf, more, MsgOf, b)
             /\ Upto(back[v], MsgOf, more, MsgOf, b, said[v] + 1)
      BY <1>1, <1>3, <2>3, <2>5, WriteFar
    <3>2. up'[v] = Append(up[v], MsgOf[said[v] + 1])
      BY <2>4, <2>9
    <3> QED
      BY <1>2, <2>1, <2>2, <2>5, <2>6, <2>7, <2>9, <3>1, <3>2 DEF SeenInv
  <2> QED
    BY <2>8, <2>9
<1> QED
  BY <1>5, <1>6, <1>7 DEF CliSteps

\* Every step keeps what the visitor has and will get.
LEMMA SeenStep ==
  ASSUME TypeOK, [Next]_vars, load.ordered, NEW w \in Visitors, DialInv(w), SeenInv(w)
  PROVE  SeenInv(w)'
<1> USE DEF proxyVars, linkVars, cliVars
<1>1. /\ Ordered(back[w], MsgOf) /\ Ordered(up[w], MsgOf)
      /\ vws[w] = "open" => (pub[w] \in {"opening", "relayed"} => w \in table)
  BY DEF SeenInv, Lined
<1>2. ASSUME NEW v \in Visitors, ProxySteps(v) \/ BusSteps(v) \/ CliSteps(v)
      PROVE  SeenInv(w)'
  <2>1. CASE w = v
    BY <1>2, <2>1, SeenProxy, SeenBus, SeenCli
  <2>2. CASE w # v
    <3>1. /\ pub'[w] = pub[w] /\ vws'[w] = vws[w] /\ (w \in table' <=> w \in table)
          /\ back'[w] = back[w] /\ up'[w] = up[w] /\ gen'[w] = gen[w]
          /\ said'[w] = said[w] /\ seen'[w] = seen[w] /\ link' = link /\ wire' = wire
      BY <1>2, <2>2, StepOther
    <3>2. LinkLost(w)' = LinkLost(w)
      BY <3>1 DEF LinkLost
    <3> QED
      BY <1>1, <3>1, <3>2, SeenSame
  <2> QED
    BY <2>1, <2>2
<1>3. CASE \/ ServerNotices \/ WireDrops \/ WriteReturns \/ CliNotices \/ Reconnect
           \/ UNCHANGED vars
  <2>1. UNCHANGED <<pub, vws, table, back, up, gen, said, seen>>
    BY <1>3 DEF ServerNotices, WireDrops, WriteReturns, CliNotices, Reconnect, vars
  <2>2. LinkLost(w) => LinkLost(w)'
    <3>1. CASE Reconnect
      BY <2>1, <3>1 DEF Reconnect, LinkLost, DialInv, TypeOK
    <3>2. CASE ~Reconnect
      BY <1>3, <2>1, <3>2 DEF ServerNotices, WireDrops, WriteReturns, CliNotices, vars, LinkLost
    <3> QED
      BY <3>1, <3>2
  <2> QED
    BY <1>1, <2>1, <2>2, SeenSame
<1> QED
  BY <1>2, <1>3, StepCases, SwapStep

\* If the bus keeps the order of events, what the visitor receives is a run,
\* without gaps or repeats, of the messages of the local app that are not empty,
\* from the first on, although answers may arrive before the handlers of the
\* visitor's socket are attached: for any number of visitors, messages, empty or
\* not, drops and reconnections.
THEOREM VisitorReadsInOrder == Spec => []VisitorReadsARun
<1> DEFINE Inv == load.ordered => \A v \in Visitors : SeenInv(v)
<1> DEFINE Known == TypeOK /\ LinkInv /\ \A v \in Visitors : DialInv(v)
<1>1. Init => Inv
  <2> SUFFICES ASSUME Init, NEW v \in Visitors
               PROVE  SeenInv(v)
    OBVIOUS
  <2>1. /\ back[v] = <<>> /\ up[v] = <<>> /\ said[v] = 0 /\ seen[v] = <<>>
        /\ vws[v] = "none"
    BY DEF Init
  <2>2. Lined(<<>>, MsgOf, <<>>, MsgOf, 0)
    BY DEF Lined, Ordered, Has
  <2>3. Len(seen[v]) <= said[v] /\ \A i \in 1 .. Len(seen[v]) : seen[v][i] = i
    BY <2>1
  <2> QED
    BY <2>1, <2>2, <2>3 DEF SeenInv
<1>2. Known /\ Inv /\ [Next]_vars => Inv'
  BY SeenStep, LoadStays
<1>3. Inv => VisitorReadsARun
  BY DEF SeenInv, VisitorReadsARun
<1> QED
  BY <1>1, <1>2, <1>3, DialHolds, PTL DEF Spec
=============================================================================
