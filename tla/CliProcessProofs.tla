-------------------------- MODULE CliProcessProofs --------------------------
(***************************************************************************)
(* Proofs about CliProcess and AuthSession: types, whose name a device     *)
(* token is in, which ranges are trusted, and how `btunnel up` ends.       *)
(***************************************************************************)
EXTENDS CliProcess, TLAPS

(* What the server's tables keep to, on its own. *)

\* An approved session, a poll that has read one and a token name a user whose
\* verify handler is done with that login.
SessionApproved ==
  \A l \in Logins : session[l].status = "approved" =>
    session[l].by \in Users /\ page[l][session[l].by] = "done"
PollApproved ==
  \A l \in Logins, k \in Tries : poll[l][k].at # "none" =>
    poll[l][k].by \in Users /\ page[l][poll[l][k].by] = "done"

\* Trust is in linked ranges, and ends no later than if it were renewed now.
TrustBounded ==
  \A u \in Users, r \in Ranges :
    /\ trust[u][r] # 0 => <<u, r>> \in linked
    /\ trust[u][r] <= now + TrustTTL

\* The old token stays as it is.
OldKept ==
  /\ token[Old].by = OldUser /\ token[Old].range = OldRange /\ token[Old].until = OldUntil
  /\ <<OldUser, OldRange>> \in linked

\* The trust in a token's own range outlives the token; if it is the old one, once
\* there is any.
TokenBacked ==
  \A t \in Tokens : token[t].by # Nobody =>
    \/ token[t].until + (TrustTTL - TokenTTL) <= trust[token[t].by][token[t].range]
    \/ t = Old /\ trust[OldUser][OldRange] = 0

AuthInv ==
  /\ AuthTypes
  /\ SessionApproved /\ PollApproved /\ TokenNamesApprover
  /\ TrustBounded /\ OldKept /\ TokenBacked

(* What `up` keeps to. *)

\* A poll is waited for by its number.
TriesCounted == \A a \in Agents : pc[a] \in {"waiting", "asking", "saving"} => try[a] \in Tries

\* The main loop is about to list the service of an entry.
ListingEntry == pc[Main] = "listing" => entry < Len(plan.entries)

\* Who stops `up` has a reason, and has begun the shutdown; no service is killed
\* before it.
StopsJustified ==
  /\ 0 \in codes => asked
  /\ 1 \in codes => failed
  /\ codes # {} => shutting
  /\ \A t \in Tunnels : child[t] = "exited" => failed
  /\ \A t \in Tunnels : child[t] = "killed" => shutting

\* A service that runs is on the list, or about to be; the shutdown takes those
\* that are on it.
ServicesListed ==
  /\ \A t \in Tunnels : child[t] = "alive" =>
       t \in list \/ t \in late \/ (pc[Main] = "listing" /\ t = Entry)
  /\ shutting => list \subseteq late

\* On Windows a shell that is killed leaves nothing.
TreesKilled == plan.windows => \A t \in kids : child[t] # "killed"

CliInv ==
  /\ CliTypes /\ TriesCounted /\ ListingEntry /\ StopsJustified /\ ServicesListed
  /\ TreesKilled
  /\ proc # "running" => shutting
  /\ ExitCodeTells

-----------------------------------------------------------------------------
(* The steps of the server's tables. *)

AuthStep ==
  \/ now < MaxTime /\ Tick
  \/ \E l \in Logins, u \in Users : VerifyRead(l, u) \/ VerifyCommit(l, u)
  \/ \E l \in Logins : StartSession(l)
  \/ \E l \in Logins, k \in Tries, r \in Ranges : PollReadsApproved(l, k, r)
  \/ \E l \in Logins, k \in Tries : PollReadsOver(l, k)
  \/ \E l \in Logins, k \in Tries, ua \in UserAgents : PollCommit(l, k, ua)
  \/ \E t \in Tokens, r \in Ranges, ua \in UserAgents : Accepts(t, r, ua) /\ Renew(t, r)

LEMMA Tabled ==
  ASSUME AuthTypes, NEW l \in Logins
  PROVE  /\ session[l] \in Sessions /\ page[l] \in [Users -> {"none", "read", "done"}]
         /\ \A k \in Tries : poll[l][k] \in Polls /\ token[<<l, k>>] \in TokenRows
BY DEF AuthTypes, Tokens

LEMMA TokenTabled ==
  ASSUME AuthTypes, NEW t \in Tokens
  PROVE  /\ token[t] \in TokenRows
         /\ token[t].by \in Users \cup {Nobody} /\ token[t].range \in Ranges
         /\ token[t].ua \in UserAgents /\ token[t].until \in Nat
BY DEF AuthTypes, TokenRows

LEMMA TrustType ==
  ASSUME AuthTypes, NEW u \in Users, NEW r \in Ranges, NEW n \in Nat,
         trust' = [trust EXCEPT ![u][r] = n]
  PROVE  /\ trust' \in [Users -> [Ranges -> Nat]]
         /\ \A v \in Users, q \in Ranges :
              trust'[v][q] = IF v = u /\ q = r THEN n ELSE trust[v][q]
<1>1. trust \in [Users -> [Ranges -> Nat]]
  BY DEF AuthTypes
<1>2. trust' = [trust EXCEPT ![u] = [trust[u] EXCEPT ![r] = n]]
  OBVIOUS
<1>3. trust[u] \in [Ranges -> Nat]
  BY <1>1
<1> QED BY <1>1, <1>2, <1>3

PageStates == {"none", "read", "done"}

LEMMA PageType ==
  ASSUME AuthTypes, NEW l \in Logins, NEW u \in Users, NEW x \in PageStates,
         page' = [page EXCEPT ![l][u] = x]
  PROVE  /\ page' \in [Logins -> [Users -> PageStates]]
         /\ \A m \in Logins, v \in Users :
              page'[m][v] = IF m = l /\ v = u THEN x ELSE page[m][v]
<1>1. page \in [Logins -> [Users -> PageStates]]
  BY DEF AuthTypes, PageStates
<1>2. page' = [page EXCEPT ![l] = [page[l] EXCEPT ![u] = x]]
  OBVIOUS
<1>3. page[l] \in [Users -> PageStates]
  BY <1>1
<1> QED BY <1>1, <1>2, <1>3

LEMMA PollType ==
  ASSUME AuthTypes, NEW l \in Logins, NEW k \in Tries, NEW p \in Polls,
         poll' = [poll EXCEPT ![l][k] = p]
  PROVE  /\ poll' \in [Logins -> [Tries -> Polls]]
         /\ \A m \in Logins, j \in Tries :
              poll'[m][j] = IF m = l /\ j = k THEN p ELSE poll[m][j]
<1>1. poll \in [Logins -> [Tries -> Polls]]
  BY DEF AuthTypes
<1>2. poll' = [poll EXCEPT ![l] = [poll[l] EXCEPT ![k] = p]]
  OBVIOUS
<1>3. poll[l] \in [Tries -> Polls]
  BY <1>1
<1> QED BY <1>1, <1>2, <1>3

LEMMA SessionType ==
  ASSUME AuthTypes, NEW l \in Logins, NEW s \in Sessions,
         session' = [session EXCEPT ![l] = s]
  PROVE  /\ session' \in [Logins -> Sessions]
         /\ \A m \in Logins : session'[m] = IF m = l THEN s ELSE session[m]
BY DEF AuthTypes

-----------------------------------------------------------------------------
LEMMA AuthInitial == AuthInit => AuthInv
<1> SUFFICES ASSUME AuthInit PROVE AuthInv
  OBVIOUS
<1> USE OldAssumption, NobodyAssumption, TTLAssumption, MaxTimeAssumption
<1>1. OldUntil \in Nat /\ OldUntil <= TokenTTL /\ TrustTTL - TokenTTL \in Nat
  OBVIOUS
<1>2. token \in [Tokens -> TokenRows]
  BY <1>1 DEF AuthInit, NoToken, TokenRows
<1>11. PICK until \in {0, OldUntil + (TrustTTL - TokenTTL)} :
         trust = [u \in Users |-> [r \in Ranges |->
                   IF u = OldUser /\ r = OldRange THEN until ELSE 0]]
  BY DEF AuthInit
<1>12. until \in Nat /\ until <= TrustTTL
  BY <1>1, <1>11
<1>13. \A u \in Users, r \in Ranges :
         trust[u][r] = IF u = OldUser /\ r = OldRange THEN until ELSE 0
  BY <1>11
<1>3. trust \in [Users -> [Ranges -> Nat]]
  BY <1>11, <1>12
<1>4. poll \in [Logins -> [Tries -> Polls]]
  BY DEF AuthInit, NoPoll, Polls
<1>5. AuthTypes
  BY <1>2, <1>3, <1>4 DEF AuthInit, AuthTypes, Sessions
<1>6. SessionApproved /\ PollApproved
  BY DEF AuthInit, SessionApproved, PollApproved, NoPoll
<1>7. TokenNamesApprover
  <2>1. \A l \in Logins, k \in Tries : <<l, k>> \in Tokens /\ <<l, k>> # Old
    BY DEF Tokens, Tries
  <2> QED BY <2>1 DEF AuthInit, NoToken, TokenNamesApprover
<1>8. TrustBounded
  BY <1>12, <1>13 DEF AuthInit, TrustBounded
<1>9. OldKept
  BY DEF AuthInit, OldKept, Tokens
<1>10. TokenBacked
  <2> SUFFICES ASSUME NEW t \in Tokens, token[t].by # Nobody
               PROVE  \/ token[t].until + (TrustTTL - TokenTTL)
                           <= trust[token[t].by][token[t].range]
                      \/ t = Old /\ trust[OldUser][OldRange] = 0
    BY DEF TokenBacked
  <2>1. t = Old
    BY DEF AuthInit, NoToken
  <2>2. trust[OldUser][OldRange] = until
    BY <1>13
  <2> QED BY <1>1, <1>9, <1>11, <2>1, <2>2 DEF OldKept
<1> QED BY <1>5, <1>6, <1>7, <1>8, <1>9, <1>10 DEF AuthInv

LEMMA AuthStutter == AuthInv /\ UNCHANGED authVars => AuthInv'
BY DEF AuthInv, AuthTypes, SessionApproved, PollApproved, TokenNamesApprover, TrustBounded,
       OldKept, TokenBacked, authVars

LEMMA AuthTick == AuthInv /\ now < MaxTime /\ Tick => AuthInv'
<1> SUFFICES ASSUME AuthInv, now < MaxTime, Tick PROVE AuthInv'
  OBVIOUS
<1>1. AuthTypes'
  BY MaxTimeAssumption DEF AuthInv, AuthTypes, Tick
<1>2. TrustBounded'
  <2>1. now \in Nat /\ now' = now + 1 /\ UNCHANGED <<trust, linked>>
    BY MaxTimeAssumption DEF AuthInv, AuthTypes, Tick
  <2>2. \A u \in Users, r \in Ranges : trust[u][r] \in Nat
    BY DEF AuthInv, AuthTypes
  <2> SUFFICES ASSUME NEW u \in Users, NEW r \in Ranges
               PROVE  /\ trust'[u][r] # 0 => <<u, r>> \in linked'
                      /\ trust'[u][r] <= now' + TrustTTL
    BY DEF TrustBounded
  <2>3. (trust[u][r] # 0 => <<u, r>> \in linked) /\ trust[u][r] <= now + TrustTTL
    BY DEF AuthInv, TrustBounded
  <2> QED BY <2>1, <2>2, <2>3, TTLAssumption
<1>3. UNCHANGED <<session, page, poll, token, trust, linked>>
  BY DEF Tick
<1>4. SessionApproved' /\ PollApproved' /\ TokenNamesApprover'
  BY <1>3 DEF AuthInv, SessionApproved, PollApproved, TokenNamesApprover
<1>5. OldKept' /\ TokenBacked'
  BY <1>3 DEF AuthInv, OldKept, TokenBacked
<1> QED BY <1>1, <1>2, <1>4, <1>5 DEF AuthInv

LEMMA AuthStart == ASSUME AuthInv, NEW l \in Logins, StartSession(l) PROVE AuthInv'
<1> DEFINE s == [status |-> "pending", by |-> Nobody, until |-> now + SessionTTL]
<1>1. s \in Sessions
  BY TTLAssumption, MaxTimeAssumption DEF AuthInv, AuthTypes, Sessions
<1>2. /\ session' \in [Logins -> Sessions]
      /\ \A m \in Logins : session'[m] = IF m = l THEN s ELSE session[m]
  BY <1>1, SessionType DEF AuthInv, StartSession
<1>3. UNCHANGED <<now, page, poll, token, trust, linked>>
  BY DEF StartSession
<1>4. s.status # "approved"
  OBVIOUS
<1> HIDE DEF s
<1>5. AuthTypes'
  BY <1>2, <1>3 DEF AuthInv, AuthTypes
<1>6. SessionApproved' /\ PollApproved' /\ TokenNamesApprover'
  BY <1>2, <1>3, <1>4 DEF AuthInv, SessionApproved, PollApproved, TokenNamesApprover
<1>7. TrustBounded' /\ OldKept' /\ TokenBacked'
  BY <1>3 DEF AuthInv, TrustBounded, OldKept, TokenBacked
<1> QED BY <1>5, <1>6, <1>7 DEF AuthInv

LEMMA AuthVerifyRead ==
  ASSUME AuthInv, NEW l \in Logins, NEW u \in Users, VerifyRead(l, u) PROVE AuthInv'
<1>1. /\ page' \in [Logins -> [Users -> {"none", "read", "done"}]]
      /\ \A m \in Logins, v \in Users :
           page'[m][v] = IF m = l /\ v = u THEN "read" ELSE page[m][v]
  <2> DEFINE x == "read"
  <2>1. AuthTypes /\ page' = [page EXCEPT ![l][u] = x]
    BY DEF AuthInv, VerifyRead
  <2>2. x \in PageStates
    BY DEF PageStates
  <2>3. x = "read"
    OBVIOUS
  <2> HIDE DEF x
  <2>4. /\ page' \in [Logins -> [Users -> PageStates]]
        /\ \A m \in Logins, v \in Users :
             page'[m][v] = IF m = l /\ v = u THEN x ELSE page[m][v]
    BY <2>1, <2>2, PageType
  <2> QED BY <2>3, <2>4 DEF PageStates
<1>2. page[l][u] = "none" /\ UNCHANGED <<now, session, poll, token, trust, linked>>
  BY DEF VerifyRead
<1>3. \A m \in Logins, v \in Users : page[m][v] = "done" => page'[m][v] = "done"
  BY <1>1, <1>2
<1>4. TokenNamesApprover'
  BY <1>2, <1>3, TokenTabled DEF AuthInv, TokenNamesApprover, Tokens
<1> QED BY <1>1, <1>2, <1>3, <1>4 DEF AuthInv, AuthTypes, SessionApproved, PollApproved,
                                 TrustBounded, OldKept, TokenBacked

LEMMA AuthVerifyCommit ==
  ASSUME AuthInv, NEW l \in Logins, NEW u \in Users, VerifyCommit(l, u) PROVE AuthInv'
<1>1. /\ page' \in [Logins -> [Users -> {"none", "read", "done"}]]
      /\ \A m \in Logins, v \in Users :
           page'[m][v] = IF m = l /\ v = u THEN "done" ELSE page[m][v]
  <2> DEFINE x == "done"
  <2>1. AuthTypes /\ page' = [page EXCEPT ![l][u] = x]
    BY DEF AuthInv, VerifyCommit
  <2>2. x \in PageStates
    BY DEF PageStates
  <2>3. x = "done"
    OBVIOUS
  <2> HIDE DEF x
  <2>4. /\ page' \in [Logins -> [Users -> PageStates]]
        /\ \A m \in Logins, v \in Users :
             page'[m][v] = IF m = l /\ v = u THEN x ELSE page[m][v]
    BY <2>1, <2>2, PageType
  <2> QED BY <2>3, <2>4 DEF PageStates
<1>2. UNCHANGED <<now, poll, token, trust, linked>>
  BY DEF VerifyCommit
<1> DEFINE s == [session[l] EXCEPT !.status = "approved", !.by = u]
<1>3. s \in Sessions /\ s.status = "approved" /\ s.by = u
  BY Tabled DEF AuthInv, Sessions
<1>4. session' = [session EXCEPT ![l] = s]
  BY DEF VerifyCommit, AuthInv, AuthTypes
<1>5. /\ session' \in [Logins -> Sessions]
      /\ \A m \in Logins : session'[m] = IF m = l THEN s ELSE session[m]
  <2> HIDE DEF s
  <2> QED BY <1>3, <1>4, SessionType DEF AuthInv
<1> HIDE DEF s
<1>6. \A m \in Logins, v \in Users : page[m][v] = "done" => page'[m][v] = "done"
  BY <1>1
<1>7. SessionApproved'
  BY <1>1, <1>3, <1>5, <1>6 DEF AuthInv, SessionApproved
<1>8. TokenNamesApprover'
  BY <1>2, <1>6, TokenTabled DEF AuthInv, TokenNamesApprover, Tokens
<1> QED BY <1>1, <1>2, <1>5, <1>6, <1>7, <1>8 DEF AuthInv, AuthTypes, PollApproved,
                                 TrustBounded, OldKept, TokenBacked

LEMMA AuthReadsApproved ==
  ASSUME AuthInv, NEW l \in Logins, NEW k \in Tries, NEW r \in Ranges,
         PollReadsApproved(l, k, r)
  PROVE  AuthInv'
<1> DEFINE p == [at |-> "read", by |-> session[l].by, range |-> r]
<1>3. UNCHANGED <<now, session, page, token, trust, linked>>
  BY Zenon DEF PollReadsApproved
<1>1. p \in Polls /\ session[l].by \in Users /\ page[l][session[l].by] = "done"
  <2>1. session[l].by \in Users /\ page[l][session[l].by] = "done"
    BY DEF AuthInv, SessionApproved, PollReadsApproved
  <2> QED BY <2>1 DEF Polls
<1>2. /\ poll' \in [Logins -> [Tries -> Polls]]
      /\ \A m \in Logins, j \in Tries :
           poll'[m][j] = IF m = l /\ j = k THEN p ELSE poll[m][j]
  <2>1. AuthTypes /\ poll' = [poll EXCEPT ![l][k] = p]
    BY DEF AuthInv, PollReadsApproved
  <2>2. p \in Polls
    BY <1>1
  <2> HIDE DEF p
  <2> QED BY <2>1, <2>2, PollType
<1>4. AuthTypes' /\ SessionApproved' /\ TokenNamesApprover'
  BY <1>2, <1>3 DEF AuthInv, AuthTypes, SessionApproved, TokenNamesApprover
<1>5. PollApproved'
  BY <1>1, <1>2, <1>3 DEF AuthInv, PollApproved
<1>6. TrustBounded' /\ OldKept' /\ TokenBacked'
  BY <1>3 DEF AuthInv, TrustBounded, OldKept, TokenBacked
<1> QED BY <1>4, <1>5, <1>6 DEF AuthInv

LEMMA AuthReadsOver ==
  ASSUME AuthInv, NEW l \in Logins, NEW k \in Tries, PollReadsOver(l, k) PROVE AuthInv'
<1>1. UNCHANGED <<now, page, poll, token, trust, linked>>
  BY DEF PollReadsOver
<1> DEFINE s == [session[l] EXCEPT !.status = "expired"]
<1>2. s \in Sessions /\ s.status # "approved"
  BY Tabled DEF AuthInv, Sessions
<1>3. session' \in [Logins -> Sessions] /\ SessionApproved'
  <2>1. CASE session[l].status = "pending"
    <3>1. session' = [session EXCEPT ![l] = s]
      BY <2>1 DEF PollReadsOver, AuthInv, AuthTypes
    <3> QED BY <1>1, <1>2, <3>1 DEF AuthInv, AuthTypes, SessionApproved
  <2>2. CASE session[l].status # "pending"
    BY <1>1, <2>2 DEF PollReadsOver, AuthInv, AuthTypes, SessionApproved
  <2> QED BY <2>1, <2>2
<1> QED BY <1>1, <1>3 DEF AuthInv, AuthTypes, PollApproved, TokenNamesApprover,
                           TrustBounded, OldKept, TokenBacked

LEMMA Extended ==
  ASSUME AuthInv, NEW u \in Users, NEW r \in Ranges,
         trust' = [trust EXCEPT ![u][r] = now + TrustTTL], UNCHANGED now
  PROVE  /\ trust' \in [Users -> [Ranges -> Nat]]
         /\ trust'[u][r] = now + TrustTTL
         /\ \A v \in Users, q \in Ranges :
              trust[v][q] <= trust'[v][q] /\ trust'[v][q] <= now + TrustTTL
         /\ \A v \in Users, q \in Ranges :
              trust'[v][q] # 0 => trust[v][q] # 0 \/ <<v, q>> = <<u, r>>
<1>1. now + TrustTTL \in Nat
  BY TTLAssumption, MaxTimeAssumption DEF AuthInv, AuthTypes
<1>2. /\ trust' \in [Users -> [Ranges -> Nat]]
      /\ \A v \in Users, q \in Ranges :
           trust'[v][q] = IF v = u /\ q = r THEN now + TrustTTL ELSE trust[v][q]
  BY <1>1, TrustType DEF AuthInv
<1>3. \A v \in Users, q \in Ranges : trust[v][q] \in Nat /\ trust[v][q] <= now + TrustTTL
  BY DEF AuthInv, AuthTypes, TrustBounded
<1> QED BY <1>1, <1>2, <1>3

\* A token that stays as it is is backed as before when a range is renewed.
LEMMA StillBacked ==
  ASSUME AuthInv, NEW u \in Users, NEW r \in Ranges,
         trust'[u][r] = now + TrustTTL,
         trust' \in [Users -> [Ranges -> Nat]],
         \A v \in Users, q \in Ranges : trust[v][q] <= trust'[v][q],
         \A v \in Users, q \in Ranges :
           trust'[v][q] # 0 => trust[v][q] # 0 \/ <<v, q>> = <<u, r>>,
         NEW x \in Tokens, token[x].by # Nobody
  PROVE  \/ token[x].until + (TrustTTL - TokenTTL)
              <= trust'[token[x].by][token[x].range]
         \/ x = Old /\ trust'[OldUser][OldRange] = 0
<1> DEFINE v == token[x].by
           q == token[x].range
           n == token[x].until
<1>1. v \in Users /\ q \in Ranges /\ n \in Nat
  BY TokenTabled DEF AuthInv
<1>2. trust[v][q] \in Nat /\ trust'[v][q] \in Nat /\ trust[v][q] <= trust'[v][q]
  BY <1>1 DEF AuthInv, AuthTypes
<1>3. \/ n + (TrustTTL - TokenTTL) <= trust[v][q]
      \/ x = Old /\ trust[OldUser][OldRange] = 0
  BY DEF AuthInv, TokenBacked
<1>4. CASE n + (TrustTTL - TokenTTL) <= trust[v][q]
  <2> HIDE DEF v, q, n
  <2>1. n + (TrustTTL - TokenTTL) <= trust'[v][q]
    BY <1>1, <1>2, <1>4, TTLAssumption
  <2> QED BY <2>1 DEF v, q, n
<1>5. CASE x = Old /\ trust[OldUser][OldRange] = 0
  <2>1. v = OldUser /\ q = OldRange /\ n = OldUntil
    BY <1>5 DEF AuthInv, OldKept
  <2>2. CASE trust'[OldUser][OldRange] = 0
    BY <1>5, <2>2
  <2>3. CASE trust'[OldUser][OldRange] # 0
    <3>1. OldUser \in Users /\ OldRange \in Ranges
      BY OldAssumption
    <3>2. <<OldUser, OldRange>> = <<u, r>>
      BY <1>5, <2>3, <3>1
    <3>3. trust'[v][q] = now + TrustTTL
      BY <2>1, <3>2
    <3>4. OldUntil \in Nat /\ OldUntil <= TokenTTL /\ now \in Nat
      BY OldAssumption, TTLAssumption, MaxTimeAssumption DEF AuthInv, AuthTypes
    <3> HIDE DEF v, q, n
    <3>5. n + (TrustTTL - TokenTTL) <= trust'[v][q]
      BY <2>1, <3>3, <3>4, TTLAssumption
    <3> QED BY <3>5 DEF v, q, n
  <2> QED BY <2>2, <2>3
<1> QED BY <1>3, <1>4, <1>5

LEMMA AuthCommit ==
  ASSUME AuthInv, NEW l \in Logins, NEW k \in Tries, NEW ua \in UserAgents,
         PollCommit(l, k, ua)
  PROVE  AuthInv'
<1> DEFINE u == poll[l][k].by
           r == poll[l][k].range
           p == [poll[l][k] EXCEPT !.at = "done"]
           s == [session[l] EXCEPT !.status = "consumed"]
           t == [by |-> u, range |-> r, ua |-> ua, until |-> now + TokenTTL]
<1>0. AuthTypes
  BY DEF AuthInv
<1>1. u \in Users /\ r \in Ranges /\ page[l][u] = "done"
  BY Tabled DEF AuthInv, PollApproved, PollCommit, Polls
<1>2. p \in Polls /\ p.by = u /\ s \in Sessions /\ s.status = "consumed"
  <2>1. poll[l][k] \in Polls /\ session[l] \in Sessions
    BY Tabled DEF AuthInv
  <2>2. p \in Polls /\ p.by = u
    BY <2>1 DEF Polls
  <2> QED BY <2>1, <2>2 DEF Sessions
<1>3. t \in TokenRows /\ u # Nobody
  BY <1>1, TTLAssumption, MaxTimeAssumption, NobodyAssumption DEF AuthInv, AuthTypes, TokenRows
<1>4. UNCHANGED <<now, page>> /\ linked' = linked \cup {<<u, r>>}
  BY DEF PollCommit
<1>5. /\ poll' = [poll EXCEPT ![l][k] = p]
      /\ session' = [session EXCEPT ![l] = s]
      /\ token' = [token EXCEPT ![<<l, k>>] = t]
      /\ trust' = [trust EXCEPT ![u][r] = now + TrustTTL]
  BY DEF PollCommit, NewToken, AuthInv, AuthTypes
<1> HIDE DEF u, r, p, s, t
<1>6. /\ poll' \in [Logins -> [Tries -> Polls]]
      /\ \A m \in Logins, j \in Tries :
           poll'[m][j] = IF m = l /\ j = k THEN p ELSE poll[m][j]
  BY <1>0, <1>2, <1>5, PollType
<1>7. /\ session' \in [Logins -> Sessions]
      /\ \A m \in Logins : session'[m] = IF m = l THEN s ELSE session[m]
  BY <1>0, <1>2, <1>5, SessionType
<1>8. /\ token' \in [Tokens -> TokenRows]
      /\ \A x \in Tokens : token'[x] = IF x = <<l, k>> THEN t ELSE token[x]
  BY <1>3, <1>5 DEF AuthInv, AuthTypes
<1>9. /\ trust' \in [Users -> [Ranges -> Nat]]
      /\ trust'[u][r] = now + TrustTTL
      /\ \A v \in Users, q \in Ranges :
           trust[v][q] <= trust'[v][q] /\ trust'[v][q] <= now + TrustTTL
      /\ \A v \in Users, q \in Ranges :
           trust'[v][q] # 0 => trust[v][q] # 0 \/ <<v, q>> = <<u, r>>
  BY <1>1, <1>4, <1>5, Extended
<1>10. t.by = u /\ t.range = r /\ t.until = now + TokenTTL
  BY DEF t
<1>11. AuthTypes'
  <2>1. linked' \subseteq Users \X Ranges
    BY <1>1, <1>4 DEF AuthInv, AuthTypes
  <2>2. now' \in 0..MaxTime /\ page' \in [Logins -> [Users -> {"none", "read", "done"}]]
    BY <1>4 DEF AuthInv, AuthTypes
  <2> QED BY <1>6, <1>7, <1>8, <1>9, <2>1, <2>2 DEF AuthTypes
<1>12. SessionApproved' /\ PollApproved'
  <2>1. \A m \in Logins : session'[m].status = "approved" => session'[m] = session[m]
    BY <1>2, <1>7
  <2>2. SessionApproved'
    BY <1>4, <2>1 DEF AuthInv, SessionApproved
  <2>3. \A m \in Logins, j \in Tries :
          poll'[m][j] = poll[m][j] \/ (m = l /\ poll'[m][j].by = u)
    BY <1>2, <1>6
  <2>4. PollApproved'
    BY <1>1, <1>4, <2>3 DEF AuthInv, PollApproved
  <2> QED BY <2>2, <2>4
<1>13. TokenNamesApprover'
  BY <1>1, <1>4, <1>8, <1>10 DEF AuthInv, TokenNamesApprover, Tokens
<1>14. TrustBounded'
  BY <1>4, <1>9 DEF AuthInv, TrustBounded
<1>15. OldKept'
  <2>1. Old \in Tokens /\ Old # <<l, k>>
    BY OldAssumption DEF Tokens, Tries
  <2> QED BY <1>4, <1>8, <2>1 DEF AuthInv, OldKept
<1>16. TokenBacked'
  <2> SUFFICES ASSUME NEW x \in Tokens, token'[x].by # Nobody
               PROVE  \/ token'[x].until + (TrustTTL - TokenTTL)
                           <= trust'[token'[x].by][token'[x].range]
                      \/ x = Old /\ trust'[OldUser][OldRange] = 0
    BY DEF TokenBacked
  <2>1. CASE x = <<l, k>>
    BY <1>8, <1>9, <1>10, <2>1, TTLAssumption, MaxTimeAssumption DEF AuthInv, AuthTypes
  <2>2. CASE x # <<l, k>>
    <3>1. token'[x] = token[x]
      BY <1>8, <2>2
    <3>2. token[x].by # Nobody
      BY <3>1
    <3> QED BY <1>1, <1>4, <1>9, <3>1, <3>2, StillBacked
  <2> QED BY <2>1, <2>2
<1> QED BY <1>11, <1>12, <1>13, <1>14, <1>15, <1>16 DEF AuthInv

\* What an accepted token says of its user and range.
LEMMA Accepted ==
  ASSUME AuthInv, NEW t \in Tokens, NEW r \in Ranges, NEW ua \in UserAgents,
         Accepts(t, r, ua)
  PROVE  /\ token[t].by \in Users /\ <<token[t].by, r>> \in linked
         /\ \/ now < trust[token[t].by][r]
            \/ t = Old /\ r = OldRange /\ trust[OldUser][OldRange] = 0
<1>1. token[t].by \in Users /\ token[t].until \in Nat /\ now < token[t].until /\ now \in Nat
  BY TokenTabled, MaxTimeAssumption DEF AuthInv, AuthTypes, Accepts
<1>2. trust[token[t].by][r] \in Nat
  BY <1>1 DEF AuthInv, AuthTypes
<1>3. \/ now < trust[token[t].by][r]
      \/ t = Old /\ r = OldRange /\ trust[OldUser][OldRange] = 0
  <2>1. CASE token[t].range = r
    <3>1. \/ token[t].until + (TrustTTL - TokenTTL) <= trust[token[t].by][r]
          \/ t = Old /\ trust[OldUser][OldRange] = 0
      BY <1>1, <2>1, NobodyAssumption DEF AuthInv, TokenBacked
    <3>2. t = Old => r = OldRange
      BY <2>1 DEF AuthInv, OldKept
    <3> QED BY <1>1, <1>2, <3>1, <3>2, TTLAssumption
  <2>2. CASE token[t].range # r
    BY <2>2 DEF Accepts
  <2> QED BY <2>1, <2>2
<1>4. CASE now < trust[token[t].by][r]
  <2>1. trust[token[t].by][r] # 0
    BY <1>1, <1>2, <1>4
  <2> QED BY <1>1, <1>4, <2>1 DEF AuthInv, TrustBounded
<1>5. CASE t = Old /\ r = OldRange /\ trust[OldUser][OldRange] = 0
  BY <1>1, <1>5 DEF AuthInv, OldKept
<1> QED BY <1>3, <1>4, <1>5

LEMMA AuthRenew ==
  ASSUME AuthInv, NEW t \in Tokens, NEW r \in Ranges, NEW ua \in UserAgents,
         Accepts(t, r, ua), Renew(t, r)
  PROVE  AuthInv'
<1> DEFINE u == token[t].by
<1>1. u \in Users /\ <<u, r>> \in linked
  BY Accepted
<1>2. UNCHANGED <<now, session, page, poll, token, linked>>
  BY DEF Renew
<1>3. trust' = [trust EXCEPT ![u][r] = now + TrustTTL]
  BY DEF Renew
<1> HIDE DEF u
<1>4. /\ trust' \in [Users -> [Ranges -> Nat]]
      /\ trust'[u][r] = now + TrustTTL
      /\ \A v \in Users, q \in Ranges :
           trust[v][q] <= trust'[v][q] /\ trust'[v][q] <= now + TrustTTL
      /\ \A v \in Users, q \in Ranges :
           trust'[v][q] # 0 => trust[v][q] # 0 \/ <<v, q>> = <<u, r>>
  BY <1>1, <1>2, <1>3, Extended
<1>5. AuthTypes' /\ SessionApproved' /\ PollApproved' /\ TokenNamesApprover'
  BY <1>2, <1>4 DEF AuthInv, AuthTypes, SessionApproved, PollApproved, TokenNamesApprover
<1>6. TrustBounded'
  BY <1>1, <1>2, <1>4 DEF AuthInv, TrustBounded
<1>7. OldKept'
  BY <1>2 DEF AuthInv, OldKept
<1>8. TokenBacked'
  <2> SUFFICES ASSUME NEW x \in Tokens, token[x].by # Nobody
               PROVE  \/ token[x].until + (TrustTTL - TokenTTL)
                           <= trust'[token[x].by][token[x].range]
                      \/ x = Old /\ trust'[OldUser][OldRange] = 0
    BY <1>2 DEF TokenBacked
  <2> QED BY <1>1, <1>4, StillBacked
<1> QED BY <1>5, <1>6, <1>7, <1>8 DEF AuthInv

LEMMA AuthPreserved == AuthInv /\ (AuthStep \/ UNCHANGED authVars) => AuthInv'
BY AuthStutter, AuthTick, AuthVerifyRead, AuthVerifyCommit, AuthStart, AuthReadsApproved,
   AuthReadsOver, AuthCommit, AuthRenew DEF AuthStep

-----------------------------------------------------------------------------
(* `up`: what its actions have in common. *)

PcStates ==
  {"idle", "reauth", "start", "waiting", "asking", "saving", "failed", "loop", "listing",
   "saved", "gone", "gate", "load", "dial", "up", "backoff", "ended"}

\* Types of what one agent's login, or a tunnel's attempt, changes.
LoginTypes ==
  /\ file \in Files /\ here \in Ranges
  /\ pc \in [Agents -> PcStates]
  /\ rejected \in [Agents -> Tokens \cup {NoFile}]
  /\ try \in [Agents -> {0, 1, 2}]
  /\ authMu \in Agents \cup {Nobody}
TunnelTypes ==
  /\ tok \in [Tunnels -> Tokens \cup {NoFile}]
  /\ who \in [Tunnels -> (Users \cup {Nobody}) \X Ranges]
  /\ DOMAIN why = Tunnels /\ \A t \in Tunnels : why[t].code \in Codes
UpTypes ==
  /\ entry \in Nat
  /\ child \in [Tunnels -> {"none", "alive", "exited", "killed"}] /\ kids \subseteq Tunnels
  /\ list \subseteq Tunnels /\ waits \subseteq Tunnels
  /\ shutting \in BOOLEAN
  /\ late \subseteq Tunnels
  /\ codes \subseteq {0, 1}
  /\ proc \in {"running", "exit 0", "exit 1"}
  /\ asked \in BOOLEAN
  /\ failed \in BOOLEAN

LEMMA TypesSplit == CliTypes <=> plan \in Plans /\ LoginTypes /\ TunnelTypes /\ UpTypes
BY DEF CliTypes, LoginTypes, TunnelTypes, UpTypes, PcStates

LEMMA TypesSplitAfter ==
  CliTypes' <=> plan' \in Plans /\ LoginTypes' /\ TunnelTypes' /\ UpTypes'
BY DEF CliTypes, LoginTypes, TunnelTypes, UpTypes, PcStates

LEMMA AgentsApart ==
  /\ Main \in Agents /\ Term \in Agents /\ Tunnels \subseteq Agents
  /\ Main # Term /\ Main \notin Tunnels /\ Term \notin Tunnels
  /\ Logins = Agents
BY AgentAssumption DEF Agents

LEMMA FileTokenType == ASSUME LoginTypes PROVE FileToken \in Tokens \cup {NoFile}
BY DEF LoginTypes, FileToken

LEMMA PlanFacts ==
  ASSUME CliTypes
  PROVE  /\ plan.entries \in Seq(Tunnels) /\ plan.file \in {NoFile, Old}
         /\ plan.agent \in UserAgents /\ plan.last \in 0..MaxTime
         /\ \A l \in Logins : plan.opens[l] \subseteq Users
BY PlanAssumption DEF CliTypes, UpPlan, EnvironmentPlan

LEMMA EntryType == ASSUME CliTypes, entry < Len(plan.entries) PROVE Entry \in Tunnels
<1>1. plan.entries \in Seq(Tunnels) /\ entry \in Nat
  BY PlanFacts DEF CliTypes
<1>2. entry + 1 \in 1..Len(plan.entries)
  BY <1>1
<1> QED BY <1>1, <1>2 DEF Entry

LEMMA GotoType ==
  ASSUME LoginTypes, NEW a \in Agents, NEW l \in PcStates, Goto(a, l)
  PROVE  /\ pc' \in [Agents -> PcStates]
         /\ \A b \in Agents : pc'[b] = IF b = a THEN l ELSE pc[b]
BY DEF LoginTypes, Goto

LEMMA ReturnType ==
  ASSUME LoginTypes, NEW a \in Agents, NEW ok \in BOOLEAN, ReturnTo(a, ok)
  PROVE  /\ pc' \in [Agents -> PcStates]
         /\ \A b \in Agents \ {a} : pc'[b] = pc[b]
         /\ pc'[a] \notin {"waiting", "asking", "saving", "listing"}
         /\ authMu' \in Agents \cup {Nobody}
<1> DEFINE l == CASE a = Main -> IF ok THEN "loop" ELSE "failed"
                  [] a = Term -> IF ok THEN "saved" ELSE "failed"
                  [] OTHER    -> IF ok THEN "load" ELSE "ended"
<1>1. l \in {"loop", "failed", "saved", "load", "ended"}
  OBVIOUS
<1>2. Goto(a, l) /\ authMu' = IF authMu = a THEN Nobody ELSE authMu
  BY DEF ReturnTo
<1> HIDE DEF l
<1>3. l \in PcStates
  BY <1>1 DEF PcStates
<1>4. /\ pc' \in [Agents -> PcStates]
      /\ \A b \in Agents : pc'[b] = IF b = a THEN l ELSE pc[b]
  BY <1>2, <1>3, GotoType
<1> QED BY <1>1, <1>2, <1>4 DEF LoginTypes

-----------------------------------------------------------------------------
(* A step of a login, or of the other terminal, leaves `up` alone. *)

LEMMA LoginKeepsUp ==
  ASSUME CliInv, LoginTypes', TriesCounted', UNCHANGED <<plan, tunnelVars, upVars>>,
         pc'[Main] = "listing" <=> pc[Main] = "listing"
  PROVE  CliInv'
<1>1. CliTypes'
  BY TypesSplit, TypesSplitAfter DEF CliInv, TunnelTypes, UpTypes, tunnelVars, upVars
<1>2. StopsJustified' /\ ListingEntry'
  BY DEF CliInv, StopsJustified, ListingEntry, upVars
<1>3. ServicesListed'
  BY DEF CliInv, ServicesListed, Entry, upVars
<1>4. TreesKilled'
  BY DEF CliInv, TreesKilled, upVars
<1> QED BY <1>1, <1>2, <1>3, <1>4 DEF CliInv, ExitCodeTells, upVars

LEMMA PrepareDoneOK == ASSUME AuthInv, CliInv, PrepareDone PROVE CliInv'
<1>1. CliTypes /\ LoginTypes /\ TriesCounted
  BY TypesSplit DEF CliInv
<1>2. UNCHANGED <<plan, tunnelVars, upVars>>
  BY DEF PrepareDone
<1>3. /\ pc' \in [Agents -> PcStates]
      /\ \A b \in Agents : pc'[b] = IF b = Main THEN "loop" ELSE pc[b]
  <2>1. "loop" \in PcStates /\ Goto(Main, "loop")
    BY DEF PrepareDone, PcStates
  <2> QED BY <1>1, <2>1, GotoType, AgentsApart
<1>4. LoginTypes'
  BY <1>1, <1>3 DEF LoginTypes, Files, PrepareDone
<1>5. pc[Main] # "listing"
  BY DEF PrepareDone
<1>6. TriesCounted'
  BY <1>1, <1>3 DEF LoginTypes, TriesCounted, Tries, PrepareDone
<1>7. pc'[Main] = "listing" <=> pc[Main] = "listing"
  BY <1>3, <1>5, AgentsApart
<1> QED BY <1>2, <1>4, <1>6, <1>7, LoginKeepsUp

LEMMA PrepareFailsOK == ASSUME AuthInv, CliInv, PrepareFails PROVE CliInv'
<1>1. CliTypes /\ LoginTypes /\ TriesCounted
  BY TypesSplit DEF CliInv
<1>2. UNCHANGED <<plan, tunnelVars, upVars>>
  BY DEF PrepareFails
<1>3. /\ pc' \in [Agents -> PcStates]
      /\ \A b \in Agents : pc'[b] = IF b = Main THEN "failed" ELSE pc[b]
  <2>1. "failed" \in PcStates /\ Goto(Main, "failed")
    BY DEF PrepareFails, PcStates
  <2> QED BY <1>1, <2>1, GotoType, AgentsApart
<1>4. LoginTypes'
  BY <1>1, <1>3 DEF LoginTypes, Files, PrepareFails
<1>5. pc[Main] # "listing"
  BY DEF PrepareFails
<1>6. TriesCounted'
  BY <1>1, <1>3 DEF LoginTypes, TriesCounted, Tries, PrepareFails
<1>7. pc'[Main] = "listing" <=> pc[Main] = "listing"
  BY <1>3, <1>5, AgentsApart
<1> QED BY <1>2, <1>4, <1>6, <1>7, LoginKeepsUp

LEMMA PrepareReauthOK == ASSUME AuthInv, CliInv, PrepareReauthenticates PROVE CliInv'
<1>1. CliTypes /\ LoginTypes /\ TriesCounted
  BY TypesSplit DEF CliInv
<1>2. UNCHANGED <<plan, tunnelVars, upVars>>
  BY DEF PrepareReauthenticates
<1>3. /\ pc' \in [Agents -> PcStates]
      /\ \A b \in Agents : pc'[b] = IF b = Main THEN "reauth" ELSE pc[b]
  <2>1. "reauth" \in PcStates /\ Goto(Main, "reauth")
    BY DEF PrepareReauthenticates, PcStates
  <2> QED BY <1>1, <2>1, GotoType, AgentsApart
<1>4. LoginTypes'
  BY <1>1, <1>3, FileTokenType, AgentsApart DEF LoginTypes, Files, PrepareReauthenticates
<1>5. pc[Main] # "listing"
  BY DEF PrepareReauthenticates
<1>6. TriesCounted'
  BY <1>1, <1>3, FileTokenType, AgentsApart DEF LoginTypes, TriesCounted, Tries,
     PrepareReauthenticates
<1>7. pc'[Main] = "listing" <=> pc[Main] = "listing"
  BY <1>3, <1>5, AgentsApart
<1> QED BY <1>2, <1>4, <1>6, <1>7, LoginKeepsUp

LEMMA ReauthFailsOK == ASSUME AuthInv, CliInv, NEW a \in Agents, ReauthFails(a) PROVE CliInv'
<1>1. CliTypes /\ LoginTypes /\ TriesCounted
  BY TypesSplit DEF CliInv
<1>2. UNCHANGED <<plan, tunnelVars, upVars>>
  BY DEF ReauthFails
<1>3. /\ pc' \in [Agents -> PcStates]
      /\ \A b \in Agents \ {a} : pc'[b] = pc[b]
      /\ pc'[a] \notin {"waiting", "asking", "saving", "listing"}
      /\ authMu' \in Agents \cup {Nobody}
  <2>1. ReturnTo(a, FALSE)
    BY DEF ReauthFails
  <2> QED BY <1>1, <2>1, ReturnType, AgentsApart
<1>4. LoginTypes'
  BY <1>1, <1>3 DEF LoginTypes, Files, ReauthFails
<1>5. pc[a] # "listing"
  BY DEF ReauthFails
<1>6. TriesCounted'
  BY <1>1, <1>3 DEF LoginTypes, TriesCounted, Tries, ReauthFails
<1>7. pc'[Main] = "listing" <=> pc[Main] = "listing"
  BY <1>3, <1>5, AgentsApart
<1> QED BY <1>2, <1>4, <1>6, <1>7, LoginKeepsUp

LEMMA ReauthElsewhereOK ==
  ASSUME AuthInv, CliInv, NEW a \in Agents, ReauthElsewhere(a)
  PROVE  CliInv'
<1>1. CliTypes /\ LoginTypes /\ TriesCounted
  BY TypesSplit DEF CliInv
<1>2. UNCHANGED <<plan, tunnelVars, upVars>>
  BY DEF ReauthElsewhere
<1>3. /\ pc' \in [Agents -> PcStates]
      /\ \A b \in Agents \ {a} : pc'[b] = pc[b]
      /\ pc'[a] \notin {"waiting", "asking", "saving", "listing"}
      /\ authMu' \in Agents \cup {Nobody}
  <2>1. ReturnTo(a, TRUE)
    BY DEF ReauthElsewhere
  <2> QED BY <1>1, <2>1, ReturnType, AgentsApart
<1>4. LoginTypes'
  BY <1>1, <1>3 DEF LoginTypes, Files, ReauthElsewhere
<1>5. pc[a] # "listing"
  BY DEF ReauthElsewhere
<1>6. TriesCounted'
  BY <1>1, <1>3 DEF LoginTypes, TriesCounted, Tries, ReauthElsewhere
<1>7. pc'[Main] = "listing" <=> pc[Main] = "listing"
  BY <1>3, <1>5, AgentsApart
<1> QED BY <1>2, <1>4, <1>6, <1>7, LoginKeepsUp

LEMMA ReauthLogsInOK == ASSUME AuthInv, CliInv, NEW a \in Agents, ReauthLogsIn(a) PROVE CliInv'
<1>1. CliTypes /\ LoginTypes /\ TriesCounted
  BY TypesSplit DEF CliInv
<1>2. UNCHANGED <<plan, tunnelVars, upVars>>
  BY DEF ReauthLogsIn
<1>3. /\ pc' \in [Agents -> PcStates]
      /\ \A b \in Agents : pc'[b] = IF b = a THEN "start" ELSE pc[b]
  <2>1. "start" \in PcStates /\ Goto(a, "start")
    BY DEF ReauthLogsIn, PcStates
  <2> QED BY <1>1, <2>1, GotoType, AgentsApart
<1>4. LoginTypes'
  BY <1>1, <1>3 DEF LoginTypes, Files, ReauthLogsIn
<1>5. pc[a] # "listing"
  BY DEF ReauthLogsIn
<1>6. TriesCounted'
  BY <1>1, <1>3 DEF LoginTypes, TriesCounted, Tries, ReauthLogsIn
<1>7. pc'[Main] = "listing" <=> pc[Main] = "listing"
  BY <1>3, <1>5, AgentsApart
<1> QED BY <1>2, <1>4, <1>6, <1>7, LoginKeepsUp

LEMMA LoginStartsOK == ASSUME AuthInv, CliInv, NEW a \in Agents, LoginStarts(a) PROVE CliInv'
<1>1. CliTypes /\ LoginTypes /\ TriesCounted
  BY TypesSplit DEF CliInv
<1>2. UNCHANGED <<plan, tunnelVars, upVars>>
  BY DEF LoginStarts
<1>3. /\ pc' \in [Agents -> PcStates]
      /\ \A b \in Agents : pc'[b] = IF b = a THEN "waiting" ELSE pc[b]
  <2>1. "waiting" \in PcStates /\ Goto(a, "waiting")
    BY DEF LoginStarts, PcStates
  <2> QED BY <1>1, <2>1, GotoType, AgentsApart
<1>4. LoginTypes'
  BY <1>1, <1>3 DEF LoginTypes, Files, LoginStarts
<1>5. pc[a] # "listing"
  BY DEF LoginStarts
<1>6. TriesCounted'
  BY <1>1, <1>3 DEF LoginTypes, TriesCounted, Tries, LoginStarts
<1>7. pc'[Main] = "listing" <=> pc[Main] = "listing"
  BY <1>3, <1>5, AgentsApart
<1> QED BY <1>2, <1>4, <1>6, <1>7, LoginKeepsUp

LEMMA PollSentOK == ASSUME AuthInv, CliInv, NEW a \in Agents, PollSent(a) PROVE CliInv'
<1>1. CliTypes /\ LoginTypes /\ TriesCounted
  BY TypesSplit DEF CliInv
<1>2. UNCHANGED <<plan, tunnelVars, upVars>>
  BY DEF PollSent
<1>3. /\ pc' \in [Agents -> PcStates]
      /\ \A b \in Agents : pc'[b] = IF b = a THEN "asking" ELSE pc[b]
  <2>1. "asking" \in PcStates /\ Goto(a, "asking")
    BY DEF PollSent, PcStates
  <2> QED BY <1>1, <2>1, GotoType, AgentsApart
<1>4. LoginTypes'
  BY <1>1, <1>3 DEF LoginTypes, Files, PollSent
<1>5. pc[a] # "listing"
  BY DEF PollSent
<1>6. TriesCounted'
  BY <1>1, <1>3 DEF LoginTypes, TriesCounted, Tries, PollSent
<1>7. pc'[Main] = "listing" <=> pc[Main] = "listing"
  BY <1>3, <1>5, AgentsApart
<1> QED BY <1>2, <1>4, <1>6, <1>7, LoginKeepsUp

LEMMA PollPendingOK == ASSUME AuthInv, CliInv, NEW a \in Agents, PollPending(a) PROVE CliInv'
<1>1. CliTypes /\ LoginTypes /\ TriesCounted
  BY TypesSplit DEF CliInv
<1>2. UNCHANGED <<plan, tunnelVars, upVars>>
  BY DEF PollPending
<1>3. /\ pc' \in [Agents -> PcStates]
      /\ \A b \in Agents : pc'[b] = IF b = a THEN "waiting" ELSE pc[b]
  <2>1. "waiting" \in PcStates /\ Goto(a, "waiting")
    BY DEF PollPending, PcStates
  <2> QED BY <1>1, <2>1, GotoType, AgentsApart
<1>4. LoginTypes'
  BY <1>1, <1>3 DEF LoginTypes, Files, PollPending
<1>5. pc[a] # "listing"
  BY DEF PollPending
<1>6. TriesCounted'
  BY <1>1, <1>3 DEF LoginTypes, TriesCounted, Tries, PollPending
<1>7. pc'[Main] = "listing" <=> pc[Main] = "listing"
  BY <1>3, <1>5, AgentsApart
<1> QED BY <1>2, <1>4, <1>6, <1>7, LoginKeepsUp

LEMMA LoginFailsOK == ASSUME AuthInv, CliInv, NEW a \in Agents, LoginFails(a) PROVE CliInv'
<1>1. CliTypes /\ LoginTypes /\ TriesCounted
  BY TypesSplit DEF CliInv
<1>2. UNCHANGED <<plan, tunnelVars, upVars>>
  BY DEF LoginFails
<1>3. /\ pc' \in [Agents -> PcStates]
      /\ \A b \in Agents \ {a} : pc'[b] = pc[b]
      /\ pc'[a] \notin {"waiting", "asking", "saving", "listing"}
      /\ authMu' \in Agents \cup {Nobody}
  <2>1. ReturnTo(a, FALSE)
    BY DEF LoginFails
  <2> QED BY <1>1, <2>1, ReturnType, AgentsApart
<1>4. LoginTypes'
  BY <1>1, <1>3 DEF LoginTypes, Files, LoginFails
<1>5. pc[a] # "listing"
  BY DEF LoginFails
<1>6. TriesCounted'
  BY <1>1, <1>3 DEF LoginTypes, TriesCounted, Tries, LoginFails
<1>7. pc'[Main] = "listing" <=> pc[Main] = "listing"
  BY <1>3, <1>5, AgentsApart
<1> QED BY <1>2, <1>4, <1>6, <1>7, LoginKeepsUp

LEMMA PollRepeatsOK == ASSUME AuthInv, CliInv, NEW a \in Agents, PollRepeats(a) PROVE CliInv'
<1>1. CliTypes /\ LoginTypes /\ TriesCounted
  BY TypesSplit DEF CliInv
<1>2. UNCHANGED <<plan, tunnelVars, upVars>>
  BY DEF PollRepeats
<1>3. pc' = pc
  BY DEF PollRepeats
<1>4. LoginTypes'
  BY <1>1, <1>3 DEF LoginTypes, Files, PollRepeats
<1>6. TriesCounted'
  BY <1>1, <1>3 DEF LoginTypes, TriesCounted, Tries, PollRepeats
<1> QED BY <1>2, <1>3, <1>4, <1>6, LoginKeepsUp

LEMMA PollFindsOverOK ==
  ASSUME AuthInv, CliInv, NEW a \in Agents, PollFindsOver(a)
  PROVE  CliInv'
<1>1. CliTypes /\ LoginTypes /\ TriesCounted
  BY TypesSplit DEF CliInv
<1>2. UNCHANGED <<plan, tunnelVars, upVars>>
  BY DEF PollFindsOver
<1>3. /\ pc' \in [Agents -> PcStates]
      /\ \A b \in Agents \ {a} : pc'[b] = pc[b]
      /\ pc'[a] \notin {"waiting", "asking", "saving", "listing"}
      /\ authMu' \in Agents \cup {Nobody}
  <2>1. ReturnTo(a, FALSE)
    BY DEF PollFindsOver
  <2> QED BY <1>1, <2>1, ReturnType, AgentsApart
<1>4. LoginTypes'
  BY <1>1, <1>3 DEF LoginTypes, Files, PollFindsOver
<1>5. pc[a] # "listing"
  BY DEF PollFindsOver
<1>6. TriesCounted'
  BY <1>1, <1>3 DEF LoginTypes, TriesCounted, Tries, PollFindsOver
<1>7. pc'[Main] = "listing" <=> pc[Main] = "listing"
  BY <1>3, <1>5, AgentsApart
<1> QED BY <1>2, <1>4, <1>6, <1>7, LoginKeepsUp

LEMMA LoginDeadlineOK ==
  ASSUME AuthInv, CliInv, NEW a \in Agents, LoginDeadline(a)
  PROVE  CliInv'
<1>1. CliTypes /\ LoginTypes /\ TriesCounted
  BY TypesSplit DEF CliInv
<1>2. UNCHANGED <<plan, tunnelVars, upVars>>
  BY DEF LoginDeadline
<1>3. /\ pc' \in [Agents -> PcStates]
      /\ \A b \in Agents \ {a} : pc'[b] = pc[b]
      /\ pc'[a] \notin {"waiting", "asking", "saving", "listing"}
      /\ authMu' \in Agents \cup {Nobody}
  <2>1. ReturnTo(a, FALSE)
    BY DEF LoginDeadline
  <2> QED BY <1>1, <2>1, ReturnType, AgentsApart
<1>4. LoginTypes'
  BY <1>1, <1>3 DEF LoginTypes, Files, LoginDeadline
<1>5. pc[a] # "listing"
  BY DEF LoginDeadline
<1>6. TriesCounted'
  BY <1>1, <1>3 DEF LoginTypes, TriesCounted, Tries, LoginDeadline
<1>7. pc'[Main] = "listing" <=> pc[Main] = "listing"
  BY <1>3, <1>5, AgentsApart
<1> QED BY <1>2, <1>4, <1>6, <1>7, LoginKeepsUp

LEMMA LoginTruncatesOK ==
  ASSUME AuthInv, CliInv, NEW a \in Agents, LoginTruncates(a)
  PROVE  CliInv'
<1>1. CliTypes /\ LoginTypes /\ TriesCounted
  BY TypesSplit DEF CliInv
<1>2. UNCHANGED <<plan, tunnelVars, upVars>>
  BY DEF LoginTruncates
<1>3. /\ pc' \in [Agents -> PcStates]
      /\ \A b \in Agents : pc'[b] = IF b = a THEN "saving" ELSE pc[b]
  <2>1. "saving" \in PcStates /\ Goto(a, "saving")
    BY DEF LoginTruncates, PcStates
  <2> QED BY <1>1, <2>1, GotoType, AgentsApart
<1>4. LoginTypes'
  BY <1>1, <1>3 DEF LoginTypes, Files, LoginTruncates
<1>5. pc[a] # "listing"
  BY DEF LoginTruncates
<1>6. TriesCounted'
  BY <1>1, <1>3 DEF LoginTypes, TriesCounted, Tries, LoginTruncates
<1>7. pc'[Main] = "listing" <=> pc[Main] = "listing"
  BY <1>3, <1>5, AgentsApart
<1> QED BY <1>2, <1>4, <1>6, <1>7, LoginKeepsUp

LEMMA TermLogsInOK == ASSUME AuthInv, CliInv, TermLogsIn PROVE CliInv'
<1>1. CliTypes /\ LoginTypes /\ TriesCounted
  BY TypesSplit DEF CliInv
<1>2. UNCHANGED <<plan, tunnelVars, upVars>>
  BY DEF TermLogsIn
<1>3. /\ pc' \in [Agents -> PcStates]
      /\ \A b \in Agents : pc'[b] = IF b = Term THEN "start" ELSE pc[b]
  <2>1. "start" \in PcStates /\ Goto(Term, "start")
    BY DEF TermLogsIn, PcStates
  <2> QED BY <1>1, <2>1, GotoType, AgentsApart
<1>4. LoginTypes'
  BY <1>1, <1>3 DEF LoginTypes, Files, TermLogsIn
<1>5. pc[Term] # "listing"
  BY DEF TermLogsIn
<1>6. TriesCounted'
  BY <1>1, <1>3 DEF LoginTypes, TriesCounted, Tries, TermLogsIn
<1>7. pc'[Main] = "listing" <=> pc[Main] = "listing"
  BY <1>3, <1>5, AgentsApart
<1> QED BY <1>2, <1>4, <1>6, <1>7, LoginKeepsUp

LEMMA TermLogsOutOK == ASSUME AuthInv, CliInv, TermLogsOut PROVE CliInv'
<1>1. CliTypes /\ LoginTypes /\ TriesCounted
  BY TypesSplit DEF CliInv
<1>2. UNCHANGED <<plan, tunnelVars, upVars>>
  BY DEF TermLogsOut
<1>3. /\ pc' \in [Agents -> PcStates]
      /\ \A b \in Agents : pc'[b] = IF b = Term THEN "gone" ELSE pc[b]
  <2>1. "gone" \in PcStates /\ Goto(Term, "gone")
    BY DEF TermLogsOut, PcStates
  <2> QED BY <1>1, <2>1, GotoType, AgentsApart
<1>4. LoginTypes'
  BY <1>1, <1>3 DEF LoginTypes, Files, TermLogsOut
<1>5. pc[Term] # "listing"
  BY DEF TermLogsOut
<1>6. TriesCounted'
  BY <1>1, <1>3 DEF LoginTypes, TriesCounted, Tries, TermLogsOut
<1>7. pc'[Main] = "listing" <=> pc[Main] = "listing"
  BY <1>3, <1>5, AgentsApart
<1> QED BY <1>2, <1>4, <1>6, <1>7, LoginKeepsUp

LEMMA MovesOK == ASSUME AuthInv, CliInv, Moves PROVE CliInv'
<1>1. CliTypes /\ LoginTypes /\ TriesCounted
  BY TypesSplit DEF CliInv
<1>2. UNCHANGED <<plan, tunnelVars, upVars>>
  BY DEF Moves
<1>3. pc' = pc
  BY DEF Moves
<1>4. LoginTypes'
  BY <1>1, <1>3 DEF LoginTypes, Files, Moves
<1>6. TriesCounted'
  BY <1>1, <1>3 DEF LoginTypes, TriesCounted, Tries, Moves
<1> QED BY <1>2, <1>3, <1>4, <1>6, LoginKeepsUp

LEMMA LoginSavesOK == ASSUME AuthInv, CliInv, NEW a \in Agents, LoginSaves(a) PROVE CliInv'
<1>1. CliTypes /\ LoginTypes /\ TriesCounted
  BY TypesSplit DEF CliInv
<1>2. UNCHANGED <<plan, here, rejected, try, tunnelVars, upVars>> /\ pc[a] = "saving"
  BY DEF LoginSaves
<1>3. /\ pc' \in [Agents -> PcStates]
      /\ \A b \in Agents \ {a} : pc'[b] = pc[b]
      /\ pc'[a] \notin {"waiting", "asking", "saving", "listing"}
      /\ authMu' \in Agents \cup {Nobody}
  <2>1. ReturnTo(a, TRUE)
    BY DEF LoginSaves
  <2> QED BY <1>1, <2>1, ReturnType
<1>4. <<a, try[a]>> \in Files
  BY <1>1, <1>2, AgentsApart DEF TriesCounted, Files, Tokens
<1>5. file' \in Files
  BY <1>1, <1>4 DEF LoginSaves, LoginTypes, Files
<1>6. LoginTypes'
  BY <1>1, <1>2, <1>3, <1>5 DEF LoginTypes
<1>7. TriesCounted'
  BY <1>1, <1>2, <1>3 DEF TriesCounted
<1>8. pc'[Main] = "listing" <=> pc[Main] = "listing"
  BY <1>2, <1>3, AgentsApart
<1> QED BY <1>2, <1>6, <1>7, <1>8, LoginKeepsUp

-----------------------------------------------------------------------------
(* Steps of the main loop, the services and the shutdown. *)

\* Cleanup justifies itself and takes every service that is on the list.
LEMMA Killed ==
  ASSUME CliInv, UpTypes, NEW code \in {0, 1}, KillChildren(code), UNCHANGED <<plan, late>>
  PROVE  /\ shutting' = TRUE /\ list' = {} /\ codes' = codes \cup {code}
         /\ child' \in [Tunnels -> {"none", "alive", "exited", "killed"}]
         /\ kids' \subseteq kids
         /\ codes' \subseteq {0, 1}
         /\ \A t \in Tunnels : child'[t] = "alive" => child[t] = "alive" /\ t \notin list
         /\ \A t \in Tunnels : child'[t] = "exited" => child[t] = "exited"
         /\ TreesKilled'
<1> DEFINE hit == {t \in list : child[t] = "alive"}
<1>1. /\ shutting' = TRUE /\ list' = {} /\ codes' = codes \cup {code}
      /\ child' = [t \in Tunnels |-> IF t \in hit THEN "killed" ELSE child[t]]
      /\ kids' = IF plan.windows THEN kids \ hit ELSE kids
  BY DEF KillChildren, KillTrees
<1>2. \A t \in Tunnels : child'[t] = IF t \in hit THEN "killed" ELSE child[t]
  BY <1>1
<1>3. \A t \in Tunnels : t \in list /\ child[t] = "alive" => t \in hit
  OBVIOUS
<1>4. child' \in [Tunnels -> {"none", "alive", "exited", "killed"}]
  BY <1>1 DEF UpTypes
<1>5. codes' \subseteq {0, 1}
  BY <1>1 DEF UpTypes
<1> HIDE DEF hit
<1>6. kids' \subseteq kids
  BY <1>1
<1>7. \A t \in Tunnels : child'[t] = "alive" => child[t] = "alive" /\ t \notin list
  BY <1>2, <1>3
<1>8. \A t \in Tunnels : child'[t] = "exited" => child[t] = "exited"
  BY <1>2
<1>9. TreesKilled'
  <2> SUFFICES ASSUME plan.windows, NEW t \in kids' PROVE child'[t] # "killed"
    BY DEF TreesKilled
  <2>1. t \in kids /\ t \notin hit /\ t \in Tunnels
    BY <1>1 DEF UpTypes
  <2>2. child[t] # "killed"
    BY <2>1 DEF CliInv, TreesKilled
  <2> QED BY <1>2, <2>1, <2>2
<1> QED BY <1>1, <1>4, <1>5, <1>6, <1>7, <1>8, <1>9

LEMMA LaunchType ==
  ASSUME LoginTypes, NEW t \in Tunnels, Launch(t)
  PROVE  /\ pc' \in [Agents -> PcStates] /\ pc'[Main] = "loop"
         /\ entry' = entry + 1
         /\ \A b \in Agents : pc'[b] \in {"waiting", "asking", "saving"} => pc[b] = pc'[b]
<1>1. PICK l \in {"gate", "load"} : pc' = [pc EXCEPT ![t] = l, ![Main] = "loop"]
  BY DEF Launch
<1>2. /\ pc' \in [Agents -> PcStates]
      /\ \A b \in Agents :
           pc'[b] = IF b = Main THEN "loop" ELSE IF b = t THEN l ELSE pc[b]
  BY <1>1, AgentsApart DEF LoginTypes, PcStates
<1> QED BY <1>1, <1>2, AgentsApart DEF Launch

LEMMA EntryFailsOK == ASSUME AuthInv, CliInv, EntryFails PROVE CliInv'
<1>1. CliTypes /\ LoginTypes /\ TunnelTypes /\ UpTypes
  BY TypesSplit DEF CliInv
<1>2. /\ pc' \in [Agents -> PcStates]
      /\ pc'[Main] = "listing" <=> pc[Main] = "listing"
      /\ \A b \in Agents : pc'[b] \in {"waiting", "asking", "saving"} => pc[b] = pc'[b]
  <2>1. "failed" \in PcStates /\ Goto(Main, "failed") /\ pc[Main] = "loop"
    BY DEF EntryFails, More, PcStates
  <2> QED BY <1>1, <2>1, GotoType, AgentsApart
<1>3. /\ shutting' = TRUE /\ list' = {} /\ codes' = codes \cup {1}
      /\ child' \in [Tunnels -> {"none", "alive", "exited", "killed"}]
      /\ codes' \subseteq {0, 1}
      /\ \A t1 \in Tunnels : child'[t1] = "alive" => child[t1] = "alive" /\ t1 \notin list
      /\ \A t1 \in Tunnels : child'[t1] = "exited" => child[t1] = "exited"
      /\ kids' \subseteq kids /\ TreesKilled'
  <2>1. KillChildren(1) /\ UNCHANGED <<plan, late>>
    BY DEF EntryFails, upFixed
  <2> QED BY <1>1, <2>1, Killed
<1>4. UNCHANGED <<plan, file, here, rejected, try, authMu, tok, who, why, entry, waits, late, proc>>
  BY DEF EntryFails, upFixed, tunnelVars
<1>5. failed' = TRUE /\ (asked => asked') /\ (failed => failed')
      /\ asked' \in BOOLEAN /\ failed' \in BOOLEAN
  BY <1>1 DEF EntryFails, UpTypes
<1>6. CliTypes'
  BY <1>1, <1>2, <1>3, <1>4, <1>5, TypesSplitAfter DEF CliTypes, LoginTypes, TunnelTypes,
     UpTypes
<1>7. TriesCounted' /\ ListingEntry'
  BY <1>2, <1>4 DEF CliInv, TriesCounted, ListingEntry
<1>8. StopsJustified'
  BY <1>3, <1>5 DEF CliInv, StopsJustified
<1>9. ServicesListed'
  BY <1>2, <1>3, <1>4 DEF CliInv, ServicesListed, Entry
<1>10. (proc' # "running" => shutting') /\ ExitCodeTells'
  BY <1>3, <1>4, <1>5 DEF CliInv, ExitCodeTells
<1> QED BY <1>3, <1>6, <1>7, <1>8, <1>9, <1>10 DEF CliInv

LEMMA NotReadyOK == ASSUME AuthInv, CliInv, NEW t \in Tunnels, NotReady(t) PROVE CliInv'
<1>1. CliTypes /\ LoginTypes /\ TunnelTypes /\ UpTypes
  BY TypesSplit DEF CliInv
<1>2. /\ pc' \in [Agents -> PcStates]
      /\ pc'[Main] = "listing" <=> pc[Main] = "listing"
      /\ \A b \in Agents : pc'[b] \in {"waiting", "asking", "saving"} => pc[b] = pc'[b]
  <2>1. "ended" \in PcStates /\ Goto(t, "ended")
    BY DEF NotReady, PcStates
  <2> QED BY <1>1, <2>1, GotoType, AgentsApart
<1>3. /\ shutting' = TRUE /\ list' = {} /\ codes' = codes \cup {1}
      /\ child' \in [Tunnels -> {"none", "alive", "exited", "killed"}]
      /\ codes' \subseteq {0, 1}
      /\ \A t1 \in Tunnels : child'[t1] = "alive" => child[t1] = "alive" /\ t1 \notin list
      /\ \A t1 \in Tunnels : child'[t1] = "exited" => child[t1] = "exited"
      /\ kids' \subseteq kids /\ TreesKilled'
  <2>1. KillChildren(1) /\ UNCHANGED <<plan, late>>
    BY DEF NotReady, upFixed
  <2> QED BY <1>1, <2>1, Killed
<1>4. UNCHANGED <<plan, file, here, rejected, try, authMu, tok, who, why, entry, waits, late, proc>>
  BY DEF NotReady, upFixed, tunnelVars
<1>5. failed' = TRUE /\ (asked => asked') /\ (failed => failed')
      /\ asked' \in BOOLEAN /\ failed' \in BOOLEAN
  BY <1>1 DEF NotReady, UpTypes
<1>6. CliTypes'
  BY <1>1, <1>2, <1>3, <1>4, <1>5, TypesSplitAfter DEF CliTypes, LoginTypes, TunnelTypes,
     UpTypes
<1>7. TriesCounted' /\ ListingEntry'
  BY <1>2, <1>4 DEF CliInv, TriesCounted, ListingEntry
<1>8. StopsJustified'
  BY <1>3, <1>5 DEF CliInv, StopsJustified
<1>9. ServicesListed'
  BY <1>2, <1>3, <1>4 DEF CliInv, ServicesListed, Entry
<1>10. (proc' # "running" => shutting') /\ ExitCodeTells'
  BY <1>3, <1>4, <1>5 DEF CliInv, ExitCodeTells
<1> QED BY <1>3, <1>6, <1>7, <1>8, <1>9, <1>10 DEF CliInv

LEMMA StoppedOK == ASSUME AuthInv, CliInv, Stopped PROVE CliInv'
<1>1. CliTypes /\ LoginTypes /\ TunnelTypes /\ UpTypes
  BY TypesSplit DEF CliInv
<1>2. /\ pc' \in [Agents -> PcStates]
      /\ pc'[Main] = "listing" <=> pc[Main] = "listing"
      /\ \A b \in Agents : pc'[b] \in {"waiting", "asking", "saving"} => pc[b] = pc'[b]
  BY <1>1 DEF Stopped, LoginTypes
<1>3. /\ shutting' = TRUE /\ list' = {} /\ codes' = codes \cup {0}
      /\ child' \in [Tunnels -> {"none", "alive", "exited", "killed"}]
      /\ codes' \subseteq {0, 1}
      /\ \A t1 \in Tunnels : child'[t1] = "alive" => child[t1] = "alive" /\ t1 \notin list
      /\ \A t1 \in Tunnels : child'[t1] = "exited" => child[t1] = "exited"
      /\ kids' \subseteq kids /\ TreesKilled'
  <2>1. KillChildren(0) /\ UNCHANGED <<plan, late>>
    BY DEF Stopped, upFixed
  <2> QED BY <1>1, <2>1, Killed
<1>4. UNCHANGED <<plan, file, here, rejected, try, authMu, tok, who, why, entry, waits, late, proc>>
  BY DEF Stopped, upFixed, tunnelVars
<1>5. asked' = TRUE /\ (asked => asked') /\ (failed => failed')
      /\ asked' \in BOOLEAN /\ failed' \in BOOLEAN
  BY <1>1 DEF Stopped, UpTypes
<1>6. CliTypes'
  BY <1>1, <1>2, <1>3, <1>4, <1>5, TypesSplitAfter DEF CliTypes, LoginTypes, TunnelTypes,
     UpTypes
<1>7. TriesCounted' /\ ListingEntry'
  BY <1>2, <1>4 DEF CliInv, TriesCounted, ListingEntry
<1>8. StopsJustified'
  BY <1>3, <1>5 DEF CliInv, StopsJustified
<1>9. ServicesListed'
  BY <1>2, <1>3, <1>4 DEF CliInv, ServicesListed, Entry
<1>10. (proc' # "running" => shutting') /\ ExitCodeTells'
  BY <1>3, <1>4, <1>5 DEF CliInv, ExitCodeTells
<1> QED BY <1>3, <1>6, <1>7, <1>8, <1>9, <1>10 DEF CliInv

LEMMA EntryLaunchesOK == ASSUME AuthInv, CliInv, EntryLaunches PROVE CliInv'
<1>1. CliTypes /\ LoginTypes /\ TunnelTypes /\ UpTypes
  BY TypesSplit DEF CliInv
<1>2. Entry \in Tunnels
  BY <1>1, EntryType DEF EntryLaunches, More
<1>3. /\ pc' \in [Agents -> PcStates] /\ pc'[Main] = "loop"
      /\ entry' = entry + 1
      /\ \A b \in Agents : pc'[b] \in {"waiting", "asking", "saving"} => pc[b] = pc'[b]
  <2>1. Launch(Entry)
    BY DEF EntryLaunches
  <2> QED BY <1>1, <1>2, <2>1, LaunchType, AgentsApart
<1>4. /\ pc[Main] = "loop"
      /\ UNCHANGED <<plan, file, here, rejected, try, authMu, tok, who, why, child, kids,
                     list, waits, shutting, late, codes, proc, asked, failed>>
  BY DEF EntryLaunches, More, upFixed, tunnelVars
<1>5. CliTypes'
  <2>1. LoginTypes' /\ TunnelTypes'
    BY <1>1, <1>3, <1>4 DEF LoginTypes, TunnelTypes
  <2>4. plan' \in Plans
    BY <1>1, <1>4 DEF CliTypes
  <2>2. entry' \in Nat
    <3>1. entry \in Nat
      BY <1>1 DEF UpTypes
    <3>2. entry' = entry + 1
      BY <1>3
    <3> QED BY <3>1, <3>2
  <2>3. UpTypes'
    BY <1>1, <1>4, <2>2 DEF UpTypes
  <2> QED BY <2>1, <2>3, <2>4, TypesSplitAfter
<1>6. TriesCounted' /\ ListingEntry' /\ StopsJustified' /\ ExitCodeTells'
  BY <1>3, <1>4 DEF CliInv, TriesCounted, ListingEntry, StopsJustified, ExitCodeTells
<1>7. ServicesListed' /\ TreesKilled'
  BY <1>3, <1>4 DEF CliInv, ServicesListed, TreesKilled
<1> QED BY <1>4, <1>5, <1>6, <1>7 DEF CliInv

LEMMA ServiceStartsOK == ASSUME AuthInv, CliInv, ServiceStarts PROVE CliInv'
<1>1. CliTypes /\ LoginTypes /\ TunnelTypes /\ UpTypes
  BY TypesSplit DEF CliInv
<1>2. Entry \in Tunnels /\ entry < Len(plan.entries) /\ pc[Main] = "loop"
  BY <1>1, EntryType DEF ServiceStarts, More
<1>3. /\ pc' \in [Agents -> PcStates]
      /\ \A b \in Agents : pc'[b] = IF b = Main THEN "listing" ELSE pc[b]
  <2>1. "listing" \in PcStates /\ Goto(Main, "listing")
    BY DEF ServiceStarts, PcStates
  <2> QED BY <1>1, <2>1, GotoType, AgentsApart
<1>4. UNCHANGED <<plan, file, here, rejected, try, authMu, tok, who, why, entry, list,
                  waits, shutting, late, codes, proc, asked, failed>>
  BY DEF ServiceStarts, upFixed, tunnelVars
<1>5. /\ child' \in [Tunnels -> {"none", "alive", "exited", "killed"}]
      /\ \A t \in Tunnels : child'[t] = IF t = Entry THEN "alive" ELSE child[t]
      /\ kids' \subseteq kids \cup {Entry}
  BY <1>1, <1>2 DEF ServiceStarts, UpTypes
<1>6. CliTypes'
  <2>1. LoginTypes' /\ TunnelTypes' /\ plan' \in Plans
    BY <1>1, <1>3, <1>4 DEF CliTypes, LoginTypes, TunnelTypes
  <2>2. kids' \subseteq Tunnels
    BY <1>1, <1>2, <1>5 DEF UpTypes
  <2>3. UpTypes'
    BY <1>1, <1>4, <1>5, <2>2 DEF UpTypes
  <2> QED BY <2>1, <2>3, TypesSplitAfter
<1>7. TriesCounted' /\ ListingEntry' /\ StopsJustified' /\ ExitCodeTells'
  BY <1>2, <1>3, <1>4, <1>5, AgentsApart
  DEF CliInv, TriesCounted, ListingEntry, StopsJustified, ExitCodeTells
<1>8. ServicesListed'
  <2>1. Entry' = Entry /\ pc'[Main] = "listing"
    BY <1>3, <1>4, AgentsApart DEF Entry
  <2> QED BY <1>2, <1>4, <1>5, <2>1 DEF CliInv, ServicesListed
<1>9. TreesKilled'
  <2>1. plan.windows => \A t \in kids : child[t] # "killed"
    BY DEF CliInv, TreesKilled
  <2>2. kids \subseteq Tunnels /\ plan' = plan
    BY <1>1, <1>4 DEF UpTypes
  <2> QED BY <1>2, <1>5, <2>1, <2>2 DEF TreesKilled
<1>10. (proc' # "running" => shutting')
  BY <1>4 DEF CliInv
<1> QED BY <1>10, <1>6, <1>7, <1>8, <1>9 DEF CliInv

LEMMA ServiceListedOK == ASSUME AuthInv, CliInv, ServiceListed PROVE CliInv'
<1>1. CliTypes /\ LoginTypes /\ TunnelTypes /\ UpTypes
  BY TypesSplit DEF CliInv
<1>2. Entry \in Tunnels /\ pc[Main] = "listing"
  BY <1>1, EntryType DEF ServiceListed, CliInv, ListingEntry
<1>3. /\ pc' \in [Agents -> PcStates] /\ pc'[Main] = "loop"
      /\ entry' = entry + 1
      /\ \A b \in Agents : pc'[b] \in {"waiting", "asking", "saving"} => pc[b] = pc'[b]
  <2>1. Launch(Entry)
    BY DEF ServiceListed
  <2> QED BY <1>1, <1>2, <2>1, LaunchType, AgentsApart
<1>4. /\ UNCHANGED <<plan, file, here, rejected, try, authMu, tok, who, why, child, kids,
                     shutting, codes, proc, asked, failed>>
      /\ list' = list \cup {Entry} /\ waits' = waits \cup {Entry}
      /\ late' = IF shutting THEN late \cup {Entry} ELSE late
  BY DEF ServiceListed, upFixed, tunnelVars
<1>5. CliTypes'
  <2>1. LoginTypes' /\ TunnelTypes'
    BY <1>1, <1>3, <1>4 DEF LoginTypes, TunnelTypes
  <2>4. plan' \in Plans
    BY <1>1, <1>4 DEF CliTypes
  <2>2. entry' \in Nat
    <3>1. entry \in Nat
      BY <1>1 DEF UpTypes
    <3>2. entry' = entry + 1
      BY <1>3
    <3> QED BY <3>1, <3>2
  <2>3. UpTypes'
    BY <1>1, <1>2, <1>4, <2>2 DEF UpTypes
  <2> QED BY <2>1, <2>3, <2>4, TypesSplitAfter
<1>6. TriesCounted' /\ ListingEntry' /\ StopsJustified' /\ ExitCodeTells'
  BY <1>3, <1>4 DEF CliInv, TriesCounted, ListingEntry, StopsJustified, ExitCodeTells
<1>7. ServicesListed' /\ TreesKilled'
  BY <1>2, <1>4 DEF CliInv, ServicesListed, TreesKilled
<1> QED BY <1>4, <1>5, <1>6, <1>7 DEF CliInv

LEMMA ServiceExitsOK == ASSUME AuthInv, CliInv, NEW t \in Tunnels, ServiceExits(t) PROVE CliInv'
<1>1. CliTypes /\ LoginTypes /\ TunnelTypes /\ UpTypes
  BY TypesSplit DEF CliInv
<1>2. /\ UNCHANGED <<plan, file, here, rejected, try, authMu, tok, who, why, pc, entry,
                     kids, list, waits, shutting, late, codes, proc, asked>>
      /\ failed' = TRUE
  BY DEF ServiceExits, upFixed, tunnelVars
<1>3. /\ child' \in [Tunnels -> {"none", "alive", "exited", "killed"}]
      /\ \A s \in Tunnels : child'[s] = IF s = t THEN "exited" ELSE child[s]
  BY <1>1 DEF ServiceExits, UpTypes
<1>4. CliTypes'
  BY <1>1, <1>2, <1>3, TypesSplitAfter DEF CliTypes, LoginTypes, TunnelTypes, UpTypes
<1>5. TriesCounted' /\ ListingEntry' /\ StopsJustified' /\ ExitCodeTells'
  BY <1>2, <1>3 DEF CliInv, TriesCounted, ListingEntry, StopsJustified, ExitCodeTells
<1>6. ServicesListed' /\ TreesKilled'
  BY <1>1, <1>2, <1>3 DEF CliInv, ServicesListed, Entry, TreesKilled, UpTypes
<1> QED BY <1>2, <1>4, <1>5, <1>6 DEF CliInv

LEMMA KidsExitOK == ASSUME AuthInv, CliInv, NEW t \in Tunnels, KidsExit(t) PROVE CliInv'
<1>1. CliTypes /\ LoginTypes /\ TunnelTypes /\ UpTypes
  BY TypesSplit DEF CliInv
<1>2. /\ UNCHANGED <<plan, file, here, rejected, try, authMu, tok, who, why, pc, entry,
                     child, list, waits, shutting, late, codes, proc, asked, failed>>
      /\ kids' \subseteq kids
  BY DEF KidsExit, upFixed, tunnelVars
<1>3. CliTypes'
  BY <1>1, <1>2, TypesSplitAfter DEF CliTypes, LoginTypes, TunnelTypes, UpTypes
<1>4. TriesCounted' /\ ListingEntry' /\ StopsJustified' /\ ExitCodeTells'
  BY <1>2 DEF CliInv, TriesCounted, ListingEntry, StopsJustified, ExitCodeTells
<1>5. ServicesListed' /\ TreesKilled'
  BY <1>2 DEF CliInv, ServicesListed, Entry, TreesKilled
<1> QED BY <1>2, <1>3, <1>4, <1>5 DEF CliInv

LEMMA WaitReturnsOK == ASSUME AuthInv, CliInv, NEW t \in Tunnels, WaitReturns(t) PROVE CliInv'
<1>1. CliTypes /\ LoginTypes /\ TunnelTypes /\ UpTypes
  BY TypesSplit DEF CliInv
<1>2. /\ UNCHANGED <<plan, file, here, rejected, try, authMu, tok, who, why, pc, entry,
                     late, proc, asked, failed>>
      /\ waits' \subseteq waits /\ child[t] \in {"exited", "killed"}
  BY DEF WaitReturns, upFixed, tunnelVars
<1>3. TriesCounted' /\ ListingEntry' /\ ExitCodeTells'
  BY <1>2 DEF CliInv, TriesCounted, ListingEntry, ExitCodeTells
<1>4. CASE shutting
  <2>1. UNCHANGED <<shutting, child, kids, list, codes>>
    BY <1>4 DEF WaitReturns
  <2>2. CliTypes'
    BY <1>1, <1>2, <2>1, TypesSplitAfter DEF CliTypes, LoginTypes, TunnelTypes, UpTypes
  <2>3. StopsJustified' /\ ServicesListed' /\ TreesKilled'
    BY <1>2, <2>1 DEF CliInv, StopsJustified, ServicesListed, Entry, TreesKilled
  <2> QED BY <1>2, <1>3, <2>1, <2>2, <2>3 DEF CliInv
<1>5. CASE ~shutting
  <2>1. /\ shutting' = TRUE /\ list' = {} /\ codes' = codes \cup {1}
        /\ child' \in [Tunnels -> {"none", "alive", "exited", "killed"}]
        /\ codes' \subseteq {0, 1}
        /\ \A s \in Tunnels : child'[s] = "alive" => child[s] = "alive" /\ s \notin list
        /\ \A s \in Tunnels : child'[s] = "exited" => child[s] = "exited"
        /\ kids' \subseteq kids /\ TreesKilled'
    <3>1. KillChildren(1) /\ UNCHANGED <<plan, late>>
      BY <1>5 DEF WaitReturns, upFixed
    <3> QED BY <1>1, <3>1, Killed
  <2>2. failed
    BY <1>2, <1>5 DEF CliInv, StopsJustified
  <2>3. CliTypes'
    BY <1>1, <1>2, <2>1, TypesSplitAfter DEF CliTypes, LoginTypes, TunnelTypes, UpTypes
  <2>4. StopsJustified'
    BY <1>2, <2>1, <2>2 DEF CliInv, StopsJustified
  <2>5. ServicesListed'
    BY <1>2, <2>1 DEF CliInv, ServicesListed, Entry
  <2> QED BY <1>2, <1>3, <2>1, <2>3, <2>4, <2>5 DEF CliInv
<1> QED BY <1>4, <1>5

LEMMA ExitOK == ASSUME AuthInv, CliInv, NEW code \in {0, 1}, Exit(code) PROVE CliInv'
<1>1. CliTypes /\ LoginTypes /\ TunnelTypes /\ UpTypes
  BY TypesSplit DEF CliInv
<1>2. /\ UNCHANGED <<plan, file, here, rejected, try, authMu, tok, who, why, pc, entry, child,
                     kids, list, waits, shutting, late, codes, asked, failed>>
      /\ code \in codes /\ proc' = IF code = 0 THEN "exit 0" ELSE "exit 1"
  BY DEF Exit, upFixed, tunnelVars
<1>3. CliTypes'
  BY <1>1, <1>2, TypesSplitAfter DEF CliTypes, LoginTypes, TunnelTypes, UpTypes
<1>4. TriesCounted' /\ ListingEntry' /\ StopsJustified'
  BY <1>2 DEF CliInv, TriesCounted, ListingEntry, StopsJustified
<1>5. ServicesListed' /\ TreesKilled'
  BY <1>2 DEF CliInv, ServicesListed, Entry, TreesKilled
<1>6. shutting' /\ ExitCodeTells'
  <2>1. code \in {0, 1} /\ (0 \in codes => asked) /\ (1 \in codes => failed) /\ shutting
    BY <1>2 DEF CliInv, StopsJustified
  <2> QED BY <1>2, <2>1 DEF ExitCodeTells
<1> QED BY <1>3, <1>4, <1>5, <1>6 DEF CliInv

-----------------------------------------------------------------------------
(* Steps of a tunnel's attempts. *)

LEMMA TunnelKeepsUp ==
  ASSUME CliInv, NEW t \in Tunnels, UNCHANGED <<plan, file, here, try, authMu, upVars>>,
         pc' \in [Agents -> PcStates],
         \A b \in Agents \ {t} : pc'[b] = pc[b],
         pc'[t] \notin {"waiting", "asking", "saving"},
         rejected' \in [Agents -> Tokens \cup {NoFile}],
         TunnelTypes'
  PROVE  CliInv'
<1>1. CliTypes /\ LoginTypes /\ UpTypes
  BY TypesSplit DEF CliInv
<1>2. CliTypes'
  BY <1>1, TypesSplitAfter DEF CliTypes, LoginTypes, UpTypes, upVars
<1>3. pc'[Main] = pc[Main]
  BY AgentsApart
<1>4. TriesCounted' /\ ListingEntry'
  BY <1>3 DEF CliInv, TriesCounted, ListingEntry, upVars
<1>5. StopsJustified' /\ ExitCodeTells' /\ (proc' # "running" => shutting')
  BY DEF CliInv, StopsJustified, ExitCodeTells, upVars
<1>6. ServicesListed' /\ TreesKilled'
  BY <1>3 DEF CliInv, ServicesListed, Entry, TreesKilled, upVars
<1> QED BY <1>2, <1>4, <1>5, <1>6 DEF CliInv

LEMMA ReadyOK == ASSUME AuthInv, CliInv, NEW t \in Tunnels, Ready(t) PROVE CliInv'
<1>1. CliTypes /\ LoginTypes /\ TunnelTypes
  BY TypesSplit DEF CliInv
<1>2. /\ pc' \in [Agents -> PcStates]
      /\ \A b \in Agents : pc'[b] = IF b = t THEN "load" ELSE pc[b]
  <2>1. "load" \in PcStates /\ Goto(t, "load")
    BY DEF Ready, PcStates
  <2> QED BY <1>1, <2>1, GotoType, AgentsApart
<1>3. UNCHANGED <<plan, file, here, try, authMu, upVars>> /\ rejected' = rejected
  BY DEF Ready, runFixed
<1>4. TunnelTypes'
  BY <1>1 DEF TunnelTypes, Ready, tunnelVars
<1>6. \A b \in Agents \ {t} : pc'[b] = pc[b]
  BY <1>2
<1>7. pc'[t] \notin {"waiting", "asking", "saving"}
  BY <1>2, AgentsApart
<1>8. rejected' \in [Agents -> Tokens \cup {NoFile}]
  BY <1>1, <1>3 DEF LoginTypes
<1> QED BY <1>2, <1>3, <1>4, <1>6, <1>7, <1>8, TunnelKeepsUp

LEMMA LoadOK == ASSUME AuthInv, CliInv, NEW t \in Tunnels, Load(t) PROVE CliInv'
<1>1. CliTypes /\ LoginTypes /\ TunnelTypes
  BY TypesSplit DEF CliInv
<1>2. /\ pc' \in [Agents -> PcStates]
      /\ \A b \in Agents : pc'[b] = IF b = t THEN "dial" ELSE pc[b]
  <2>1. "dial" \in PcStates /\ Goto(t, "dial")
    BY DEF Load, PcStates
  <2> QED BY <1>1, <2>1, GotoType, AgentsApart
<1>3. UNCHANGED <<plan, file, here, try, authMu, upVars>> /\ rejected' = rejected
  BY DEF Load, runFixed
<1>4. TunnelTypes'
  BY <1>1, FileTokenType DEF TunnelTypes, Load
<1>6. \A b \in Agents \ {t} : pc'[b] = pc[b]
  BY <1>2
<1>7. pc'[t] \notin {"waiting", "asking", "saving"}
  BY <1>2, AgentsApart
<1>8. rejected' \in [Agents -> Tokens \cup {NoFile}]
  BY <1>1, <1>3 DEF LoginTypes
<1> QED BY <1>2, <1>3, <1>4, <1>6, <1>7, <1>8, TunnelKeepsUp

LEMMA WakesOK == ASSUME AuthInv, CliInv, NEW t \in Tunnels, Wakes(t) PROVE CliInv'
<1>1. CliTypes /\ LoginTypes /\ TunnelTypes
  BY TypesSplit DEF CliInv
<1>2. /\ pc' \in [Agents -> PcStates]
      /\ \A b \in Agents : pc'[b] = IF b = t THEN "load" ELSE pc[b]
  <2>1. "load" \in PcStates /\ Goto(t, "load")
    BY DEF Wakes, PcStates
  <2> QED BY <1>1, <2>1, GotoType, AgentsApart
<1>3. UNCHANGED <<plan, file, here, try, authMu, upVars>> /\ rejected' = rejected
  BY DEF Wakes, runFixed
<1>4. TunnelTypes'
  BY <1>1 DEF TunnelTypes, Wakes, tunnelVars
<1>6. \A b \in Agents \ {t} : pc'[b] = pc[b]
  BY <1>2
<1>7. pc'[t] \notin {"waiting", "asking", "saving"}
  BY <1>2, AgentsApart
<1>8. rejected' \in [Agents -> Tokens \cup {NoFile}]
  BY <1>1, <1>3 DEF LoginTypes
<1> QED BY <1>2, <1>3, <1>4, <1>6, <1>7, <1>8, TunnelKeepsUp

LEMMA ConnectedOK == ASSUME AuthInv, CliInv, NEW t \in Tunnels, Connected(t) PROVE CliInv'
<1>1. CliTypes /\ LoginTypes /\ TunnelTypes
  BY TypesSplit DEF CliInv
<1>2. /\ pc' \in [Agents -> PcStates]
      /\ \A b \in Agents : pc'[b] = IF b = t THEN "up" ELSE pc[b]
  <2>1. "up" \in PcStates /\ Goto(t, "up")
    BY DEF Connected, PcStates
  <2> QED BY <1>1, <2>1, GotoType, AgentsApart
<1>3. UNCHANGED <<plan, file, here, try, authMu, upVars>> /\ rejected' = rejected
  BY DEF Connected, runFixed
<1>5. who' \in [Tunnels -> (Users \cup {Nobody}) \X Ranges]
  <2>1. CASE tok[t] = NoFile
    BY <1>1, <2>1 DEF Connected, TunnelTypes
  <2>2. CASE tok[t] # NoFile
    <3>1. tok[t] \in Tokens
      BY <1>1, <2>2 DEF TunnelTypes
    <3>2. token[tok[t]].by \in Users \cup {Nobody} /\ here \in Ranges
      BY <1>1, <3>1, TokenTabled DEF AuthInv, LoginTypes
    <3>3. who' = [who EXCEPT ![t] = <<token[tok[t]].by, here>>]
      BY <2>2 DEF Connected
    <3> QED BY <1>1, <3>2, <3>3 DEF TunnelTypes
  <2> QED BY <2>1, <2>2
<1>4. TunnelTypes'
  BY <1>1, <1>5 DEF TunnelTypes, Connected
<1>6. \A b \in Agents \ {t} : pc'[b] = pc[b]
  BY <1>2
<1>7. pc'[t] \notin {"waiting", "asking", "saving"}
  BY <1>2, AgentsApart
<1>8. rejected' \in [Agents -> Tokens \cup {NoFile}]
  BY <1>1, <1>3 DEF LoginTypes
<1> QED BY <1>2, <1>3, <1>4, <1>6, <1>7, <1>8, TunnelKeepsUp

LEMMA ClosedOK ==
  ASSUME AuthInv, CliInv, NEW t \in Tunnels, NEW code \in Codes, NEW text, Closed(t, code, text)
  PROVE  CliInv'
<1>1. CliTypes /\ LoginTypes /\ TunnelTypes
  BY TypesSplit DEF CliInv
<1>2. UNCHANGED <<plan, file, here, try, authMu, upVars>> /\ UNCHANGED tok
  BY DEF Closed, runFixed
<1>3. PICK l \in {"ended", "reauth", "backoff"} : Goto(t, l)
  BY DEF Closed
<1>4. /\ pc' \in [Agents -> PcStates]
      /\ \A b \in Agents : pc'[b] = IF b = t THEN l ELSE pc[b]
  <2>1. l \in PcStates
    BY <1>3 DEF PcStates
  <2> QED BY <1>1, <1>3, <2>1, GotoType, AgentsApart
<1>5. tok[t] \in Tokens \cup {NoFile} /\ rejected \in [Agents -> Tokens \cup {NoFile}]
  BY <1>1 DEF LoginTypes, TunnelTypes
<1>6. \/ rejected' = [rejected EXCEPT ![t] = tok[t]]
      \/ rejected' = [rejected EXCEPT ![t] = NoFile]
      \/ rejected' = rejected
  BY DEF Closed
<1>7. rejected' \in [Agents -> Tokens \cup {NoFile}]
  BY <1>5, <1>6
<1>8. TunnelTypes'
  <2>1. /\ why' = [why EXCEPT ![t] = [code |-> code, reason |-> text]]
        /\ who' = [who EXCEPT ![t] = Anonymous]
    BY DEF Closed
  <2>2. who' \in [Tunnels -> (Users \cup {Nobody}) \X Ranges]
    BY <1>1, <2>1, OldAssumption DEF TunnelTypes, Anonymous
  <2>3. DOMAIN why' = Tunnels /\ \A s \in Tunnels : why'[s].code \in Codes
    BY <1>1, <2>1 DEF TunnelTypes
  <2> QED BY <1>1, <1>2, <2>2, <2>3 DEF TunnelTypes
<1>9. pc'[t] \notin {"waiting", "asking", "saving"} /\ \A b \in Agents \ {t} : pc'[b] = pc[b]
  BY <1>3, <1>4, AgentsApart
<1> QED BY <1>2, <1>4, <1>7, <1>8, <1>9, TunnelKeepsUp

LEMMA AttemptEndsOK ==
  ASSUME AuthInv, CliInv, NEW t \in Tunnels,
         \/ DialFails(t) \/ DialRefused(t) \/ DialRejected(t)
         \/ Drops(t) \/ Expires(t) \/ Garbled(t)
  PROVE  CliInv'
<1>1. 0 \in Codes /\ PolicyViolation \in Codes /\ 1002 \in Codes /\ 1006 \in Codes
  BY DEF Codes
<1>2. CASE DialFails(t)
  <2>1. Closed(t, 0, "unreachable")
    BY <1>2 DEF DialFails
  <2> QED BY <1>1, <2>1, ClosedOK
<1>3. CASE DialRefused(t)
  <2>1. Closed(t, PolicyViolation, "incompatible version")
    BY <1>3 DEF DialRefused
  <2> QED BY <1>1, <2>1, ClosedOK
<1>4. CASE DialRejected(t)
  <2>1. Closed(t, PolicyViolation, "reauth required")
    BY <1>4 DEF DialRejected
  <2> QED BY <1>1, <2>1, ClosedOK
<1>5. CASE Drops(t)
  <2>1. Closed(t, 1006, "lost")
    BY <1>5 DEF Drops
  <2> QED BY <1>1, <2>1, ClosedOK
<1>6. CASE Expires(t)
  <2>1. Closed(t, PolicyViolation, "tunnel expired")
    BY <1>6 DEF Expires
  <2> QED BY <1>1, <2>1, ClosedOK
<1>7. CASE Garbled(t)
  <2> DEFINE ProtocolError == 1002
  <2>1. ProtocolError \in Codes
    BY <1>1
  <2>2. Closed(t, ProtocolError, "protocol error")
    BY <1>7 DEF Garbled
  <2> HIDE DEF ProtocolError
  <2> QED BY <2>1, <2>2, ClosedOK
<1> QED BY <1>2, <1>3, <1>4, <1>5, <1>6, <1>7

-----------------------------------------------------------------------------
(* Every step of the program is a step of the tables, or leaves them alone. *)

LEMMA LoginSteps ==
  ASSUME AuthInv, CliInv, NEW a \in Agents, Login(a)
  PROVE  AuthStep \/ UNCHANGED authVars
<1>1. CliTypes /\ LoginTypes /\ a \in Logins /\ Agent \in UserAgents /\ here \in Ranges
  BY TypesSplit, AgentAssumption DEF CliInv, LoginTypes
<1>2. CASE \/ ReauthFails(a) \/ ReauthLogsIn(a) \/ LoginFails(a) \/ PollRepeats(a)
           \/ PollSent(a) \/ PollPending(a) \/ LoginDeadline(a) \/ LoginTruncates(a) \/ LoginSaves(a)
  BY <1>2 DEF ReauthFails, ReauthLogsIn, LoginFails, PollRepeats, PollSent, PollPending,
              LoginDeadline,
              LoginTruncates, LoginSaves, authVars
<1>3. CASE ReauthElsewhere(a)
  <2>1. FileToken \in Tokens
    BY <1>1, <1>3, FileTokenType DEF ReauthElsewhere
  <2>2. Accepts(FileToken, here, Agent) /\ Renew(FileToken, here)
    BY <1>3 DEF ReauthElsewhere
  <2> QED BY <1>1, <2>1, <2>2 DEF AuthStep
<1>4. CASE LoginStarts(a)
  BY <1>1, <1>4 DEF LoginStarts, AuthStep
<1>5. CASE PollFindsApproved(a)
  <2>1. try[a] \in Tries
    BY <1>5 DEF CliInv, TriesCounted, PollFindsApproved
  <2> QED BY <1>1, <1>5, <2>1 DEF PollFindsApproved, AuthStep
<1>6. CASE PollFindsOver(a)
  <2>1. try[a] \in Tries
    BY <1>6 DEF CliInv, TriesCounted, PollFindsOver
  <2> QED BY <1>1, <1>6, <2>1 DEF PollFindsOver, AuthStep
<1> QED BY <1>2, <1>3, <1>4, <1>5, <1>6 DEF Login

LEMMA UpSteps == ASSUME AuthInv, CliInv, Up PROVE AuthStep \/ UNCHANGED authVars
<1>1. LoginTypes /\ Agent \in UserAgents /\ here \in Ranges
  BY TypesSplit, AgentAssumption DEF CliInv, LoginTypes
<1>2. CASE PrepareDone
  <2>1. CASE FileToken = NoFile
    BY <1>2, <2>1 DEF PrepareDone
  <2>2. CASE FileToken # NoFile
    <3>1. FileToken \in Tokens
      BY <1>1, <2>2, FileTokenType
    <3>2. Accepts(FileToken, here, Agent) /\ Renew(FileToken, here)
      BY <1>2, <2>2 DEF PrepareDone
    <3> QED BY <1>1, <3>1, <3>2 DEF AuthStep
  <2> QED BY <2>1, <2>2
<1>3. CASE PrepareFails \/ PrepareReauthenticates
  BY <1>3 DEF PrepareFails, PrepareReauthenticates
<1>4. CASE \/ EntryFails \/ EntryLaunches \/ ServiceStarts \/ ServiceListed \/ Stopped
           \/ \E code \in {0, 1} : Exit(code)
  BY <1>4 DEF EntryFails, EntryLaunches, ServiceStarts, ServiceListed, Stopped, Exit, upFixed
<1> QED BY <1>2, <1>3, <1>4 DEF Up

LEMMA TunnelSteps ==
  ASSUME AuthInv, CliInv, NEW t \in Tunnels, Tunnel(t)
  PROVE  AuthStep \/ UNCHANGED authVars
<1>1. LoginTypes /\ TunnelTypes /\ Agent \in UserAgents /\ here \in Ranges
  BY TypesSplit, AgentAssumption DEF CliInv, LoginTypes
<1>2. CASE Connected(t)
  <2>1. CASE tok[t] = NoFile
    BY <1>2, <2>1 DEF Connected
  <2>2. CASE tok[t] # NoFile
    <3>1. tok[t] \in Tokens
      BY <1>1, <2>2 DEF TunnelTypes
    <3>2. Accepts(tok[t], here, Agent) /\ Renew(tok[t], here)
      BY <1>2, <2>2 DEF Connected
    <3> QED BY <1>1, <3>1, <3>2 DEF AuthStep
  <2> QED BY <2>1, <2>2
<1>3. CASE Ready(t) \/ NotReady(t) \/ Load(t) \/ Wakes(t) \/ WaitReturns(t)
  BY <1>3 DEF Ready, NotReady, Load, Wakes, WaitReturns, upFixed
<1>4. CASE \/ DialFails(t) \/ DialRefused(t) \/ DialRejected(t)
           \/ Drops(t) \/ Expires(t) \/ Garbled(t)
  <2>1. CASE DialFails(t) \/ DialRefused(t) \/ DialRejected(t)
    BY <2>1 DEF DialFails, DialRefused, DialRejected, Closed
  <2>2. CASE Drops(t) \/ Expires(t)
    BY <2>2 DEF Drops, Expires, Closed
  <2>3. CASE Garbled(t)
    BY <2>3 DEF Garbled, Closed
  <2> QED BY <1>4, <2>1, <2>2, <2>3
<1> QED BY <1>2, <1>3, <1>4 DEF Tunnel

-----------------------------------------------------------------------------
IInv == AuthInv /\ CliInv

LEMMA Initial == Init => IInv
<1> SUFFICES ASSUME Init PROVE IInv
  OBVIOUS
<1>1. AuthInv
  BY AuthInitial DEF Init
<1>2. plan \in Plans /\ plan.file \in {NoFile, Old}
  BY PlanAssumption DEF Init, UpPlan
<1>3. LoginTypes
  BY <1>2 DEF Init, LoginTypes, PcStates, Files, Tokens
<1>4. TunnelTypes
  BY OldAssumption DEF Init, TunnelTypes, Anonymous, Open, Codes
<1>5. UpTypes
  BY DEF Init, UpTypes
<1>6. CliTypes
  BY <1>2, <1>3, <1>4, <1>5, TypesSplit
<1>7. TriesCounted /\ ListingEntry /\ StopsJustified /\ ServicesListed /\ TreesKilled
      /\ ExitCodeTells /\ proc = "running"
  BY AgentsApart DEF Init, TriesCounted, ListingEntry, StopsJustified, ServicesListed,
                     TreesKilled, ExitCodeTells
<1> QED BY <1>1, <1>6, <1>7 DEF IInv, CliInv

LEMMA CliStutter == CliInv /\ UNCHANGED cliVars => CliInv'
<1> SUFFICES ASSUME CliInv, UNCHANGED cliVars PROVE CliInv'
  OBVIOUS
<1>1. CliTypes /\ LoginTypes /\ TriesCounted
  BY TypesSplit DEF CliInv
<1>2. LoginTypes' /\ TriesCounted'
  BY <1>1 DEF LoginTypes, TriesCounted, cliVars
<1>3. UNCHANGED <<plan, tunnelVars, upVars>> /\ pc' = pc
  BY DEF cliVars, tunnelVars, upVars
<1> QED BY <1>2, <1>3, LoginKeepsUp

LEMMA Preserved == IInv /\ [Next]_vars => IInv'
<1> SUFFICES ASSUME AuthInv, CliInv, [Next]_vars PROVE AuthInv' /\ CliInv'
  BY DEF IInv
<1>1. CASE UNCHANGED vars
  BY <1>1, AuthPreserved, CliStutter DEF vars
<1>2. CASE now < plan.last /\ Tick /\ UNCHANGED cliVars
  <2>1. plan.last \in 0..MaxTime /\ now \in Nat
    BY PlanFacts, MaxTimeAssumption DEF CliInv, AuthInv, AuthTypes
  <2>2. AuthStep
    BY <1>2, <2>1, MaxTimeAssumption DEF AuthStep
  <2> QED BY <1>2, <2>2, AuthPreserved, CliStutter
<1>3. ASSUME NEW l \in Logins, NEW u \in plan.opens[l],
             VerifyRead(l, u) \/ VerifyCommit(l, u), UNCHANGED cliVars
      PROVE  AuthInv' /\ CliInv'
  <2>1. u \in Users
    BY PlanFacts DEF CliInv
  <2>2. AuthStep
    BY <1>3, <2>1 DEF AuthStep
  <2> QED BY <1>3, <2>2, AuthPreserved, CliStutter
<1>4. ASSUME NEW a \in Agents, PollTransaction(a) PROVE AuthInv' /\ CliInv'
  <2>1. a \in Logins /\ UA(a) \in UserAgents
    BY PlanFacts, AgentAssumption DEF CliInv, UA
  <2>2. AuthStep
    BY <1>4, <2>1 DEF AuthStep, PollTransaction
  <2> QED BY <1>4, <2>2, AuthPreserved, CliStutter DEF PollTransaction
<1>5. ASSUME NEW a \in Agents, Login(a) PROVE AuthInv' /\ CliInv'
  <2>1. AuthInv'
    BY <1>5, LoginSteps, AuthPreserved
  <2>2. CASE ReauthFails(a)
    BY <2>1, <2>2, ReauthFailsOK
  <2>3. CASE ReauthElsewhere(a)
    BY <2>1, <2>3, ReauthElsewhereOK
  <2>4. CASE ReauthLogsIn(a)
    BY <2>1, <2>4, ReauthLogsInOK
  <2>5. CASE LoginStarts(a)
    BY <2>1, <2>5, LoginStartsOK
  <2>13. CASE PollSent(a)
    BY <2>1, <2>13, PollSentOK
  <2>14. CASE PollPending(a)
    BY <2>1, <2>14, PollPendingOK
  <2>6. CASE LoginFails(a)
    BY <2>1, <2>6, LoginFailsOK
  <2>7. CASE PollFindsApproved(a)
    BY <2>1, <2>7, CliStutter DEF PollFindsApproved
  <2>8. CASE PollRepeats(a)
    BY <2>1, <2>8, PollRepeatsOK
  <2>9. CASE PollFindsOver(a)
    BY <2>1, <2>9, PollFindsOverOK
  <2>10. CASE LoginDeadline(a)
    BY <2>1, <2>10, LoginDeadlineOK
  <2>11. CASE LoginTruncates(a)
    BY <2>1, <2>11, LoginTruncatesOK
  <2>12. CASE LoginSaves(a)
    BY <2>1, <2>12, LoginSavesOK
  <2> QED BY <1>5, <2>1, <2>2, <2>3, <2>4, <2>5, <2>6, <2>7, <2>8, <2>9, <2>10, <2>11,
             <2>12, <2>13, <2>14 DEF Login
<1>6. CASE Up
  <2>1. AuthInv'
    BY <1>6, UpSteps, AuthPreserved
  <2>2. CASE PrepareDone
    BY <2>1, <2>2, PrepareDoneOK
  <2>3. CASE PrepareFails
    BY <2>1, <2>3, PrepareFailsOK
  <2>4. CASE PrepareReauthenticates
    BY <2>1, <2>4, PrepareReauthOK
  <2>5. CASE EntryFails
    BY <2>1, <2>5, EntryFailsOK
  <2>6. CASE EntryLaunches
    BY <2>1, <2>6, EntryLaunchesOK
  <2>7. CASE ServiceStarts
    BY <2>1, <2>7, ServiceStartsOK
  <2>8. CASE ServiceListed
    BY <2>1, <2>8, ServiceListedOK
  <2>9. CASE Stopped
    BY <2>1, <2>9, StoppedOK
  <2>10. ASSUME NEW code \in {0, 1}, Exit(code) PROVE CliInv'
    BY <2>1, <2>10, ExitOK
  <2> QED BY <1>6, <2>1, <2>2, <2>3, <2>4, <2>5, <2>6, <2>7, <2>8, <2>9, <2>10 DEF Up
<1>7. ASSUME NEW t \in Tunnels, Tunnel(t) PROVE AuthInv' /\ CliInv'
  <2>1. AuthInv'
    BY <1>7, TunnelSteps, AuthPreserved
  <2>2. CASE Ready(t)
    BY <2>1, <2>2, ReadyOK
  <2>3. CASE NotReady(t)
    BY <2>1, <2>3, NotReadyOK
  <2>4. CASE Load(t)
    BY <2>1, <2>4, LoadOK
  <2>5. CASE Connected(t)
    BY <2>1, <2>5, ConnectedOK
  <2>6. CASE Wakes(t)
    BY <2>1, <2>6, WakesOK
  <2>7. CASE WaitReturns(t)
    BY <2>1, <2>7, WaitReturnsOK
  <2>8. CASE \/ DialFails(t) \/ DialRefused(t) \/ DialRejected(t)
             \/ Drops(t) \/ Expires(t) \/ Garbled(t)
    BY <2>1, <2>8, AttemptEndsOK
  <2> QED BY <1>7, <2>1, <2>2, <2>3, <2>4, <2>5, <2>6, <2>7, <2>8 DEF Tunnel
<1>8. ASSUME NEW t \in Tunnels, ServiceExits(t) \/ KidsExit(t) PROVE AuthInv' /\ CliInv'
  <2>1. UNCHANGED authVars
    BY <1>8 DEF ServiceExits, KidsExit, upFixed
  <2> QED BY <1>8, <2>1, AuthPreserved, ServiceExitsOK, KidsExitOK
<1>9. CASE TermLogsIn \/ TermLogsOut \/ Moves
  <2>1. UNCHANGED authVars
    BY <1>9 DEF TermLogsIn, TermLogsOut, Moves
  <2> QED BY <1>9, <2>1, AuthPreserved, TermLogsInOK, TermLogsOutOK, MovesOK
<1> QED BY <1>1, <1>2, <1>3, <1>4, <1>5, <1>6, <1>7, <1>8, <1>9 DEF Next

LEMMA Invariant == Spec => []IInv
<1>1. Init => IInv
  BY Initial
<1>2. IInv /\ [Next]_vars => IInv'
  BY Preserved
<1> QED BY <1>1, <1>2, PTL DEF Spec

\* The state of the CLI, of the token file and of the server's tables always has
\* the declared shape, for any entries, users, ranges and lifetimes.
THEOREM TypeCorrect == Spec => []TypeOK
<1>1. IInv => TypeOK
  BY DEF IInv, AuthInv, CliInv, TypeOK
<1> QED BY <1>1, Invariant, PTL

\* A device token is in the name of a user who approved the login that it was
\* issued for, however two users and two polls race.
THEOREM TokenOwner == Spec => []TokenNamesApprover
<1>1. IInv => TokenNamesApprover
  BY DEF IInv, AuthInv
<1> QED BY <1>1, Invariant, PTL

\* Tokens spread trust to no range from which no approved login was completed.
THEOREM TrustComesFromLogins == Spec => []TrustIsLinked
<1>1. IInv => TrustIsLinked
  <2> SUFFICES ASSUME AuthInv, NEW u \in Users, NEW r \in Ranges
               PROVE  /\ trust[u][r] # 0 => <<u, r>> \in linked
                      /\ \A t \in Tokens, ua \in UserAgents :
                           (token[t].by = u /\ Accepts(t, r, ua)) => <<u, r>> \in linked
    BY DEF IInv, TrustIsLinked
  <2>1. trust[u][r] # 0 => <<u, r>> \in linked
    BY DEF AuthInv, TrustBounded
  <2> QED BY <2>1, Accepted
<1> QED BY <1>1, Invariant, PTL

\* A token that is accepted where it was issued is accepted from a range that
\* the user trusts: trust outlives the token, but for an old token that has not
\* been used since there are trusted ranges.
THEOREM OwnRangeTrusted == Spec => []OwnRangeIsTrusted
<1>1. IInv => OwnRangeIsTrusted
  BY Accepted DEF IInv, OwnRangeIsTrusted
<1> QED BY <1>1, Invariant, PTL

\* `btunnel up` leaves the shell of no service behind that was on its list when it
\* stopped; on Windows it leaves nothing that a killed shell had spawned.
THEOREM NoneLeftBehind == Spec => []NoServiceLeftBehind
<1>1. IInv => NoServiceLeftBehind
  BY DEF IInv, CliInv, ServicesListed, TreesKilled, NoServiceLeftBehind
<1> QED BY <1>1, Invariant, PTL

\* Its exit code tells a stop that was asked for from a failure.
THEOREM ExitCodeIsTrue == Spec => []ExitCodeTells
<1>1. IInv => ExitCodeTells
  BY DEF IInv, CliInv
<1> QED BY <1>1, Invariant, PTL
=============================================================================
