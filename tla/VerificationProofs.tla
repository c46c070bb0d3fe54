-------------------------- MODULE VerificationProofs --------------------------
(***************************************************************************)
(* Proofs about VerificationFlow: types, and that whoever is admitted      *)
(* passed the check not too long ago.  Every token and row is bounded by   *)
(* the peer's last check, each kind by one link more of the chain.         *)
(***************************************************************************)
EXTENDS VerificationFlow, TLAPS

LEMMA AtType ==
  ASSUME NEW place \in Places, NEW kind \in Kinds, NEW h \in Hosts
  PROVE  At(place, kind, h) \in VisitTypes
BY DEF At, VisitTypes

LEMMA WhoType ==
  ASSUME NEW v \in Visits, TypeOK
  PROVE  Who(v) \in Peers /\ BrowserOf[v] \in Browsers /\ Host(v) \in Hosts
<1>1. BrowserOf[v] \in Browsers /\ AgentOf[BrowserOf[v]] \in Agents
  BY VisitAssumption
<1>2. ip[BrowserOf[v]] \in Ips /\ visit[v] \in VisitTypes
  BY <1>1 DEF TypeOK
<1> QED BY <1>1, <1>2 DEF Who, Peers, Host, VisitTypes

LEMMA SignType ==
  ASSUME NEW kind \in {"wide", "host", "challenge", "embed"}, NEW w \in Peers,
         NEW h \in Hosts \cup {Nothing}, NEW ttl \in Nat, TypeOK
  PROVE  /\ Sign(kind, w, h, ttl) \in Tokens
         /\ Sign(kind, w, h, ttl) \in Some(kind, h)
BY DEF Sign, Tokens, Some, TypeOK

LEMMA GoType ==
  ASSUME NEW v \in Visits, NEW r \in VisitTypes, TypeOK, Go(v, r)
  PROVE  visit' \in [Visits -> VisitTypes]
BY DEF Go, TypeOK

LEMMA RecordType ==
  ASSUME NEW v \in Visits, TypeOK, Record(v)
  PROVE  rows' \in [Hosts -> [Peers -> Nat]]
<1>1. now + CookieTtl \in Nat
  BY TtlAssumption DEF TypeOK
<1> QED BY <1>1, WhoType DEF Record, TypeOK

LEMMA ChallengeType ==
  ASSUME NEW v \in Visits, TypeOK
  PROVE  Challenge(v) \in VisitTypes /\ Challenge(v).chal = Sign("challenge", Who(v), Host(v), ChallengeTtl)
<1>1. Sign("challenge", Who(v), Host(v), ChallengeTtl) \in Tokens
  BY WhoType, SignType, TtlAssumption
<1>2. At("tunnel", "page", Host(v)) \in VisitTypes
  BY WhoType, AtType DEF Places, Kinds
<1> QED BY <1>1, <1>2 DEF Challenge, VisitTypes

LEMMA TypeInit == Init => TypeOK
<1> SUFFICES ASSUME Init PROVE TypeOK
  OBVIOUS
<1>1. \A h \in Hosts : At("off", "page", h) \in VisitTypes
  BY AtType DEF Places, Kinds
<1>2. NoToken \in Some("wide", Nothing) /\ \A h \in Hosts : NoToken \in Some("host", h)
  BY DEF Some
<1>3. visit \in [Visits -> VisitTypes]
  BY <1>1 DEF Init
<1> QED BY <1>2, <1>3 DEF Init, TypeOK

LEMMA TypeStep == TypeOK /\ [Next]_vars => TypeOK'
<1> SUFFICES ASSUME TypeOK, [Next]_vars PROVE TypeOK'
  OBVIOUS
<1>1. CASE UNCHANGED vars
  BY <1>1 DEF TypeOK, vars
<1>2. CASE Tick
  <2>1. now' \in Nat
    BY <1>2 DEF Tick, TypeOK
  <2>2. wide' \in [Browsers -> Some("wide", Nothing)]
    BY <1>2 DEF Tick, TypeOK, Some
  <2>3. \A b \in Browsers, h \in Hosts : cookie'[b][h] \in Some("host", h)
    BY <1>2 DEF Tick, TypeOK, Some
  <2>4. cookie' \in [Browsers -> [Hosts -> Tokens \cup {NoToken}]]
    BY <1>2 DEF Tick, TypeOK
  <2> QED BY <1>2, <2>1, <2>2, <2>3, <2>4 DEF Tick, TypeOK
<1>3. ASSUME NEW b \in Browsers, NEW i \in Ips, Moves(b, i) PROVE TypeOK'
  BY <1>3 DEF Moves, TypeOK
<1>4. ASSUME NEW h \in Hosts, NEW m \in {"cookie", "ip"}, NEW i \in Ips, TunnelConnects(h, m, i)
      PROVE  TypeOK'
  <2>1. mode' \in [Hosts -> {"none", "cookie", "ip"}]
    BY <1>4 DEF TunnelConnects, TypeOK
  <2>2. creator' \in [Hosts -> Ips \cup {Nothing}]
    BY <1>4 DEF TunnelConnects, TypeOK
  <2> QED BY <1>4, <2>1, <2>2 DEF TunnelConnects, TypeOK
<1>5. ASSUME NEW v \in Visits, NEW kind \in KindsOf[v], NEW h \in Hosts, Starts(v, kind, h)
      PROVE  TypeOK'
  <2>1. At("tunnel", kind, h) \in VisitTypes
    BY KindAssumption, AtType DEF Places
  <2>2. visit' \in [Visits -> VisitTypes]
    BY <1>5, <2>1, GoType DEF Starts
  <2> QED BY <1>5, <2>2 DEF Starts, TypeOK
<1>6. ASSUME NEW v \in Visits, NEW w \in Visits, Follows(v, w) PROVE TypeOK'
  <2>1. visit[w] \in VisitTypes
    BY DEF TypeOK
  <2>2. visit' \in [Visits -> VisitTypes]
    BY <1>6, <2>1, GoType DEF Follows
  <2> QED BY <1>6, <2>2 DEF Follows, TypeOK
<1>7. ASSUME NEW v \in Visits, TakesOver(v) PROVE TypeOK'
  <2>1. [visit[v] EXCEPT !.at = "verify", !.back = TRUE] \in VisitTypes
    BY DEF TypeOK, VisitTypes, Places
  <2>2. visit' \in [Visits -> VisitTypes]
    BY <1>7, <2>1, GoType DEF TakesOver
  <2> QED BY <1>7, <2>2 DEF TakesOver, TypeOK
<1>8. ASSUME NEW v \in Visits, Submits(v) PROVE TypeOK'
  <2>1. [visit[v] EXCEPT !.at = "posted"] \in VisitTypes
    BY DEF TypeOK, VisitTypes, Places
  <2>2. visit' \in [Visits -> VisitTypes]
    BY <1>8, <2>1, GoType DEF Submits
  <2> QED BY <1>8, <2>2 DEF Submits, TypeOK
<1>9. ASSUME NEW v \in Visits, GivesUp(v) PROVE TypeOK'
  <2>1. At("off", "page", Host(v)) \in VisitTypes
    BY WhoType, AtType DEF Places, Kinds, TypeOK, VisitTypes
  <2>2. visit' \in [Visits -> VisitTypes]
    BY <1>9, <2>1, GoType DEF GivesUp
  <2> QED BY <1>9, <2>2 DEF GivesUp, TypeOK
<1>10. ASSUME NEW v \in Visits, FetchesAgain(v) PROVE TypeOK'
  <2>1. At("tunnel", "embed", Host(v)) \in VisitTypes
    BY WhoType, AtType DEF Places, Kinds, TypeOK, VisitTypes
  <2>2. visit' \in [Visits -> VisitTypes]
    BY <1>10, <2>1, GoType DEF FetchesAgain
  <2> QED BY <1>10, <2>2 DEF FetchesAgain, TypeOK
<1>11. ASSUME NEW v \in Visits, AdmitCreator(v) PROVE TypeOK'
  <2>1. At("in", "page", Host(v)) \in VisitTypes
    BY WhoType, AtType DEF Places, Kinds, TypeOK, VisitTypes
  <2>2. visit' \in [Visits -> VisitTypes]
    BY <1>11, <2>1, GoType DEF AdmitCreator
  <2> QED BY <1>11, <2>2 DEF AdmitCreator, TypeOK
<1>12. ASSUME NEW v \in Visits, AdmitCookie(v) PROVE TypeOK'
  <2>1. At("in", "page", Host(v)) \in VisitTypes
    BY WhoType, AtType DEF Places, Kinds, TypeOK, VisitTypes
  <2>2. visit' \in [Visits -> VisitTypes]
    BY <1>12, <2>1, GoType DEF AdmitCookie
  <2>5. rows' \in [Hosts -> [Peers -> Nat]]
    BY <1>12, RecordType DEF AdmitCookie, TypeOK
  <2> QED BY <1>12, <2>2, <2>5 DEF AdmitCookie, TypeOK
<1>13. ASSUME NEW v \in Visits, Redeem(v) PROVE TypeOK'
  <2>1. At("tunnel", visit[v].kind, Host(v)) \in VisitTypes
    BY WhoType, AtType DEF Places, Kinds, TypeOK, VisitTypes
  <2>2. visit' \in [Visits -> VisitTypes]
    BY <1>13, <2>1, GoType DEF Redeem
  <2>5. Sign("host", Who(v), Host(v), CookieTtl) \in Some("host", Host(v)) \cap Tokens
    BY WhoType, SignType, TtlAssumption
  <2>6. cookie' \in [Browsers -> [Hosts -> Tokens \cup {NoToken}]]
    BY <1>13, <2>5, WhoType DEF Redeem, TypeOK
  <2>7. ASSUME NEW b \in Browsers, NEW h \in Hosts PROVE cookie'[b][h] \in Some("host", h)
    BY <1>13, <2>5, WhoType DEF Redeem, TypeOK
  <2> QED BY <1>13, <2>2, <2>6, <2>7 DEF Redeem, TypeOK
<1>14. ASSUME NEW v \in Visits, AdmitRow(v) PROVE TypeOK'
  <2>1. At("in", "page", Host(v)) \in VisitTypes
    BY WhoType, AtType DEF Places, Kinds, TypeOK, VisitTypes
  <2>2. visit' \in [Visits -> VisitTypes]
    BY <1>14, <2>1, GoType DEF AdmitRow
  <2> QED BY <1>14, <2>2 DEF AdmitRow, TypeOK
<1>15. ASSUME NEW v \in Visits, Divert(v) PROVE TypeOK'
  <2> DEFINE token == IF visit[v].kind = "embed" /\ mode[Host(v)] = "ip"
                      THEN Sign("embed", Who(v), Host(v), CookieTtl) ELSE NoToken
  <2>1. token \in Tokens \cup {NoToken}
    BY WhoType, SignType, TtlAssumption
  <2>3. At("verify", visit[v].kind, Host(v)) \in VisitTypes
    BY WhoType, AtType DEF Places, TypeOK, VisitTypes
  <2>4. [At("verify", visit[v].kind, Host(v)) EXCEPT !.embed = token] \in VisitTypes
    BY <2>1, <2>3 DEF VisitTypes
  <2>2. visit' \in [Visits -> VisitTypes]
    BY <1>15, <2>4, GoType DEF Divert
  <2> QED BY <1>15, <2>2 DEF Divert, TypeOK
<1>16. ASSUME NEW v \in Visits, Deny(v) PROVE TypeOK'
  <2>1. At("off", "page", Host(v)) \in VisitTypes
    BY WhoType, AtType DEF Places, Kinds, TypeOK, VisitTypes
  <2>2. visit' \in [Visits -> VisitTypes]
    BY <1>16, <2>1, GoType DEF Deny
  <2> QED BY <1>16, <2>2 DEF Deny, TypeOK
<1>17. ASSUME NEW v \in Visits, VerifyInvalid(v) PROVE TypeOK'
  <2>1. At("off", "page", Host(v)) \in VisitTypes
    BY WhoType, AtType DEF Places, Kinds, TypeOK, VisitTypes
  <2>2. visit' \in [Visits -> VisitTypes]
    BY <1>17, <2>1, GoType DEF VerifyInvalid
  <2> QED BY <1>17, <2>2 DEF VerifyInvalid, TypeOK
<1>18. ASSUME NEW v \in Visits, VerifyKnown(v) PROVE TypeOK'
  <2>1. At("back", "embed", Host(v)) \in VisitTypes /\ Challenge(v) \in VisitTypes
    BY WhoType, AtType, ChallengeType DEF Places, Kinds
  <2>2. visit' \in [Visits -> VisitTypes]
    BY <1>18, <2>1, GoType DEF VerifyKnown
  <2>5. rows' \in [Hosts -> [Peers -> Nat]]
    BY <1>18, RecordType DEF VerifyKnown, TypeOK
  <2> QED BY <1>18, <2>2, <2>5 DEF VerifyKnown, TypeOK
<1>19. ASSUME NEW v \in Visits, VerifyPage(v) PROVE TypeOK'
  <2>1. [visit[v] EXCEPT !.at = "page"] \in VisitTypes
    BY DEF TypeOK, VisitTypes, Places
  <2>2. visit' \in [Visits -> VisitTypes]
    BY <1>19, <2>1, GoType DEF VerifyPage
  <2> QED BY <1>19, <2>2 DEF VerifyPage, TypeOK
<1>20. ASSUME NEW v \in Visits, TurnstileFails(v) PROVE TypeOK'
  <2>1. [visit[v] EXCEPT !.at = "page"] \in VisitTypes
    BY DEF TypeOK, VisitTypes, Places
  <2>2. visit' \in [Visits -> VisitTypes]
    BY <1>20, <2>1, GoType DEF TurnstileFails
  <2> QED BY <1>20, <2>2 DEF TurnstileFails, TypeOK
<1>21. ASSUME NEW v \in Visits, TurnstilePasses(v) PROVE TypeOK'
  <2>1. At("back", "embed", Host(v)) \in VisitTypes /\ Challenge(v) \in VisitTypes
    BY WhoType, AtType, ChallengeType DEF Places, Kinds
  <2>2. visit' \in [Visits -> VisitTypes]
    BY <1>21, <2>1, GoType DEF TurnstilePasses
  <2>5. rows' \in [Hosts -> [Peers -> Nat]]
    BY <1>21, RecordType DEF TurnstilePasses, TypeOK
  <2>6. checked' \in [Peers -> Int]
    BY <1>21, WhoType DEF TurnstilePasses, TypeOK
  <2>7. Sign("wide", Who(v), Nothing, CookieTtl) \in Some("wide", Nothing)
    BY WhoType, SignType, TtlAssumption
  <2>8. wide' \in [Browsers -> Some("wide", Nothing)]
    BY <1>21, <2>7, WhoType DEF TurnstilePasses, TypeOK
  <2> QED BY <1>21, <2>2, <2>5, <2>6, <2>8 DEF TurnstilePasses, TypeOK
<1> QED BY <1>1, <1>2, <1>3, <1>4, <1>5, <1>6, <1>7, <1>8, <1>9, <1>10, <1>11, <1>12, <1>13,
           <1>14, <1>15, <1>16, <1>17, <1>18, <1>19, <1>20, <1>21
  DEF Next, Enforce, HandleVerificationHost

-----------------------------------------------------------------------------
ChallengeAge == CookieTtl + ChallengeTtl
HostAge == 2 * CookieTtl + ChallengeTtl
RowAge == 3 * CookieTtl + ChallengeTtl

\* time is at most age after the last check of w; c: the checks.
Within(c, w, time, age) == c[w] >= 0 /\ time <= c[w] + age

WideInv ==
  \A b \in Browsers : wide[b] # NoToken => Within(checked, wide[b].who, wide[b].exp, CookieTtl)
ChallengeInv ==
  \A v \in Visits : visit[v].chal.kind = "challenge" =>
    Within(checked, visit[v].chal.who, visit[v].chal.exp, ChallengeAge)
CookieInv ==
  \A b \in Browsers, h \in Hosts : cookie[b][h] # NoToken =>
    Within(checked, cookie[b][h].who, cookie[b][h].exp, HostAge)
RowInv ==
  \A h \in Hosts, w \in Peers : rows[h][w] > 0 => Within(checked, w, rows[h][w], RowAge)
CheckedInv == \A w \in Peers : checked[w] <= now

Ages == WideInv /\ ChallengeInv /\ CookieInv /\ RowInv /\ CheckedInv
IInv == TypeOK /\ Ages

LEMMA AgesInit == Init => Ages
<1> SUFFICES ASSUME Init PROVE Ages
  OBVIOUS
<1>1. NoToken.kind # "challenge"
  BY DEF NoToken
<1>2. ChallengeInv
  BY <1>1 DEF Init, ChallengeInv, At
<1> QED BY <1>2 DEF Init, Ages, WideInv, CookieInv, RowInv, CheckedInv

\* A step that signs nothing and checks nobody.
LEMMA Quiet ==
  ASSUME TypeOK, Ages, UNCHANGED <<now, wide, cookie, rows, checked>>,
         \A x \in Visits : \/ visit'[x].chal = NoToken
                           \/ \E y \in Visits : visit'[x].chal = visit[y].chal
  PROVE  Ages'
<1>1. NoToken.kind # "challenge"
  BY DEF NoToken
<1>2. ChallengeInv'
  <2> SUFFICES ASSUME NEW x \in Visits, visit'[x].chal.kind = "challenge"
               PROVE  Within(checked, visit'[x].chal.who, visit'[x].chal.exp, ChallengeAge)
    BY DEF ChallengeInv, Within
  <2>1. PICK y \in Visits : visit'[x].chal = visit[y].chal
    BY <1>1
  <2> QED BY <2>1 DEF Ages, ChallengeInv
<1>3. WideInv' /\ CookieInv' /\ RowInv' /\ CheckedInv'
  BY DEF Ages, WideInv, CookieInv, RowInv, CheckedInv, Within
<1> QED BY <1>2, <1>3 DEF Ages

LEMMA GoChal ==
  ASSUME NEW v \in Visits, NEW r, TypeOK, Go(v, r),
         r.chal = NoToken \/ \E y \in Visits : r.chal = visit[y].chal
  PROVE  \A x \in Visits : \/ visit'[x].chal = NoToken
                           \/ \E y \in Visits : visit'[x].chal = visit[y].chal
<1> SUFFICES ASSUME NEW x \in Visits
             PROVE  \/ visit'[x].chal = NoToken
                    \/ \E y \in Visits : visit'[x].chal = visit[y].chal
  OBVIOUS
<1>1. visit'[x] = IF x = v THEN r ELSE visit[x]
  BY DEF Go, TypeOK
<1> QED BY <1>1

LEMMA AtChal ==
  ASSUME NEW place, NEW kind, NEW h
  PROVE  At(place, kind, h).chal = NoToken
BY DEF At

\* A challenge signed when its peer is known to have been checked.
LEMMA GoChallenge ==
  ASSUME NEW v \in Visits, TypeOK, ChallengeInv, \A w \in Peers : checked[w] <= checked'[w],
         TypeOK', Within(checked', Who(v), now, CookieTtl),
         Who(v)' = Who(v), now' = now,
         Go(v, Challenge(v)) \/ Go(v, At("back", "embed", Host(v)))
  PROVE  ChallengeInv'
<1> SUFFICES ASSUME NEW x \in Visits, visit'[x].chal.kind = "challenge"
             PROVE  Within(checked', visit'[x].chal.who, visit'[x].chal.exp, ChallengeAge)
  BY DEF ChallengeInv
<1>0. NoToken.kind # "challenge"
  BY DEF NoToken
<1>1. CASE x = v
  <2>1. visit'[x] = Challenge(v)
    BY <1>0, <1>1, AtChal DEF Go, TypeOK
  <2>2. visit'[x].chal = Sign("challenge", Who(v), Host(v), ChallengeTtl)
    BY <2>1, ChallengeType
  <2>3. visit'[x].chal.who = Who(v) /\ visit'[x].chal.exp = now + ChallengeTtl
    BY <2>2 DEF Sign
  <2>4. Who(v) \in Peers /\ checked'[Who(v)] \in Int /\ now \in Nat
    BY WhoType DEF TypeOK
  <2>5. checked'[Who(v)] >= 0 /\ now <= checked'[Who(v)] + CookieTtl
    BY DEF Within
  <2> QED BY <2>3, <2>4, <2>5, TtlAssumption DEF Within, ChallengeAge
<1>2. CASE x # v
  <2>1. visit'[x] = visit[x] /\ visit[x].chal \in Tokens
    BY <1>0, <1>2 DEF Go, TypeOK, VisitTypes
  <2>2. Within(checked, visit[x].chal.who, visit[x].chal.exp, ChallengeAge)
    BY <2>1 DEF ChallengeInv
  <2>3. visit[x].chal.who \in Peers /\ visit[x].chal.exp \in Nat
    BY <2>1 DEF Tokens
  <2> QED BY <2>1, <2>2, <2>3, TtlAssumption DEF Within, ChallengeAge, TypeOK
<1> QED BY <1>1, <1>2

\* A row recorded when its peer is known to have been checked.
LEMMA RecordAge ==
  ASSUME NEW v \in Visits, TypeOK, TypeOK', RowInv, \A w \in Peers : checked[w] <= checked'[w],
         Record(v) \/ rows' = rows, checked'[Who(v)] >= 0, now <= checked'[Who(v)] + HostAge
  PROVE  RowInv'
<1> SUFFICES ASSUME NEW h \in Hosts, NEW w \in Peers, rows'[h][w] > 0
             PROVE  Within(checked', w, rows'[h][w], RowAge)
  BY DEF RowInv
<1>1. Who(v) \in Peers /\ Host(v) \in Hosts /\ now \in Nat /\ checked'[Who(v)] \in Int
  BY WhoType DEF TypeOK
<1>2. CASE rows'[h][w] = rows[h][w]
  <2>1. Within(checked, w, rows[h][w], RowAge) /\ rows[h][w] \in Nat
    BY <1>2 DEF RowInv, TypeOK
  <2> QED BY <1>2, <2>1, TtlAssumption DEF Within, RowAge, TypeOK
<1>3. CASE rows'[h][w] # rows[h][w]
  <2>2. rows \in [Hosts -> [Peers -> Nat]]
    BY DEF TypeOK
  <2>3. rows' = [rows EXCEPT ![Host(v)] = [rows[Host(v)] EXCEPT ![Who(v)] = now + CookieTtl]]
    BY <1>3 DEF Record
  <2>4. h = Host(v) /\ rows'[h] = [rows[h] EXCEPT ![Who(v)] = now + CookieTtl]
    BY <1>1, <1>3, <2>2, <2>3
  <2>5. rows[h] \in [Peers -> Nat]
    BY <2>2
  <2>1. w = Who(v) /\ rows'[h][w] = now + CookieTtl
    BY <1>1, <1>3, <2>4, <2>5
  <2> QED BY <1>1, <2>1, TtlAssumption DEF Within, RowAge, HostAge
<1> QED BY <1>2, <1>3

LEMMA ProofAge ==
  ASSUME NEW v \in Visits, TypeOK, Ages
  PROVE  /\ Known(v) => Within(checked, Who(v), now, CookieTtl)
         /\ ByChallenge(v) => Within(checked, Who(v), now, ChallengeAge)
         /\ ByCookie(v) => Within(checked, Who(v), now, HostAge)
         /\ IpValidated(v) => Within(checked, Who(v), now, RowAge)
<1> DEFINE b == BrowserOf[v]
<1>1. Who(v) \in Peers /\ b \in Browsers /\ Host(v) \in Hosts /\ now \in Nat /\ checked[Who(v)] \in Int
  BY WhoType DEF TypeOK
<1>2. NoToken.kind = "none"
  BY DEF NoToken
<1>3. Known(v) => Within(checked, Who(v), now, CookieTtl)
  <2> SUFFICES ASSUME Known(v) PROVE Within(checked, Who(v), now, CookieTtl)
    OBVIOUS
  <2>1. wide[b].kind = "wide" /\ wide[b].exp >= now /\ wide[b].who = Who(v)
    BY DEF Known, Valid
  <2>2. wide[b] \in Tokens
    BY <1>1, <1>2, <2>1 DEF TypeOK, Some
  <2>3. wide[b].exp \in Nat /\ Within(checked, Who(v), wide[b].exp, CookieTtl)
    BY <1>1, <1>2, <2>1, <2>2 DEF Ages, WideInv, Tokens
  <2> QED BY <1>1, <2>1, <2>3, TtlAssumption DEF Within
<1>4. ByChallenge(v) => Within(checked, Who(v), now, ChallengeAge)
  <2> SUFFICES ASSUME ByChallenge(v) PROVE Within(checked, Who(v), now, ChallengeAge)
    OBVIOUS
  <2> DEFINE t == visit[v].chal
  <2>1. t.kind = "challenge" /\ t.exp >= now /\ t.who = Who(v)
    BY DEF ByChallenge, Valid
  <2>2. t \in Tokens
    BY <1>2, <2>1 DEF TypeOK, VisitTypes
  <2>3. t.exp \in Nat /\ Within(checked, Who(v), t.exp, ChallengeAge)
    BY <2>1, <2>2 DEF Ages, ChallengeInv, Tokens
  <2> QED BY <1>1, <2>1, <2>3, TtlAssumption DEF Within, ChallengeAge
<1>5. ByCookie(v) => Within(checked, Who(v), now, HostAge)
  <2> SUFFICES ASSUME ByCookie(v) PROVE Within(checked, Who(v), now, HostAge)
    OBVIOUS
  <2> DEFINE t == cookie[b][Host(v)]
  <2>1. t.kind = "host" /\ t.exp >= now /\ t.who = Who(v)
    BY DEF ByCookie, Valid
  <2>2. t \in Tokens /\ t # NoToken
    BY <1>1, <1>2, <2>1 DEF TypeOK, Some
  <2>3. t.exp \in Nat /\ Within(checked, Who(v), t.exp, HostAge)
    BY <1>1, <2>1, <2>2 DEF Ages, CookieInv, Tokens
  <2> QED BY <1>1, <2>1, <2>3, TtlAssumption DEF Within, HostAge
<1>6. IpValidated(v) => Within(checked, Who(v), now, RowAge)
  <2> SUFFICES ASSUME IpValidated(v) PROVE Within(checked, Who(v), now, RowAge)
    OBVIOUS
  <2>1. rows[Host(v)][Who(v)] \in Nat /\ rows[Host(v)][Who(v)] > now
    BY <1>1 DEF TypeOK, IpValidated
  <2>2. Within(checked, Who(v), rows[Host(v)][Who(v)], RowAge)
    BY <1>1, <2>1 DEF Ages, RowInv
  <2> QED BY <1>1, <2>1, <2>2, TtlAssumption DEF Within, RowAge
<1> QED BY <1>3, <1>4, <1>5, <1>6

LEMMA AgesStep == TypeOK /\ TypeOK' /\ Ages /\ [Next]_vars => Ages'
<1> SUFFICES ASSUME TypeOK, TypeOK', Ages, [Next]_vars PROVE Ages'
  OBVIOUS
<1>0. now \in Nat /\ checked \in [Peers -> Int]
  BY DEF TypeOK
<1>1. CASE UNCHANGED vars
  BY <1>1, Quiet DEF vars
<1>2. CASE Tick
  <2>1. CheckedInv'
    BY <1>0, <1>2 DEF Tick, Ages, CheckedInv
  <2>2. WideInv'
    BY <1>2 DEF Tick, Ages, WideInv, Within, TypeOK
  <2>3. CookieInv'
    BY <1>2 DEF Tick, Ages, CookieInv, Within, TypeOK
  <2>4. ChallengeInv' /\ RowInv'
    BY <1>2 DEF Tick, Ages, ChallengeInv, RowInv, Within
  <2> QED BY <2>1, <2>2, <2>3, <2>4 DEF Ages
<1>3. ASSUME NEW b \in Browsers, NEW i \in Ips, Moves(b, i) PROVE Ages'
  BY <1>3, Quiet DEF Moves
<1>4. ASSUME NEW h \in Hosts, NEW m \in {"cookie", "ip"}, NEW i \in Ips, TunnelConnects(h, m, i)
      PROVE  Ages'
  BY <1>4, Quiet DEF TunnelConnects
<1>5. ASSUME NEW v \in Visits, NEW kind \in KindsOf[v], NEW h \in Hosts, Starts(v, kind, h)
      PROVE  Ages'
  BY <1>5, AtChal, GoChal, Quiet DEF Starts
<1>6. ASSUME NEW v \in Visits, NEW w \in Visits, Follows(v, w) PROVE Ages'
  BY <1>6, GoChal, Quiet DEF Follows
<1>7. ASSUME NEW v \in Visits, TakesOver(v) PROVE Ages'
  <2>1. [visit[v] EXCEPT !.at = "verify", !.back = TRUE].chal = visit[v].chal
    BY DEF TypeOK, VisitTypes
  <2> QED BY <1>7, <2>1, GoChal, Quiet DEF TakesOver
<1>8. ASSUME NEW v \in Visits, Submits(v) PROVE Ages'
  <2>1. [visit[v] EXCEPT !.at = "posted"].chal = visit[v].chal
    BY DEF TypeOK, VisitTypes
  <2> QED BY <1>8, <2>1, GoChal, Quiet DEF Submits
<1>9. ASSUME NEW v \in Visits, GivesUp(v) PROVE Ages'
  BY <1>9, AtChal, GoChal, Quiet DEF GivesUp
<1>10. ASSUME NEW v \in Visits, FetchesAgain(v) PROVE Ages'
  BY <1>10, AtChal, GoChal, Quiet DEF FetchesAgain
<1>11. ASSUME NEW v \in Visits, AdmitCreator(v) PROVE Ages'
  BY <1>11, AtChal, GoChal, Quiet DEF AdmitCreator
<1>12. ASSUME NEW v \in Visits, AdmitCookie(v) PROVE Ages'
  <2>1. Within(checked, Who(v), now, HostAge)
    BY <1>12, ProofAge DEF AdmitCookie
  <2>2. RowInv'
    BY <1>0, <1>12, <2>1, RecordAge DEF AdmitCookie, Within, Ages
  <2>3. ChallengeInv'
    BY <1>12, AtChal DEF AdmitCookie, Go, ChallengeInv, Ages, Within, TypeOK, NoToken
  <2> QED BY <1>12, <2>2, <2>3 DEF AdmitCookie, Ages, WideInv, CookieInv, CheckedInv, Within
<1>13. ASSUME NEW v \in Visits, Redeem(v) PROVE Ages'
  <2>1. Within(checked, Who(v), now, ChallengeAge)
    BY <1>13, ProofAge DEF Redeem
  <2>2. CookieInv'
    <3> SUFFICES ASSUME NEW b \in Browsers, NEW h \in Hosts, cookie'[b][h] # NoToken
                 PROVE  Within(checked', cookie'[b][h].who, cookie'[b][h].exp, HostAge)
      BY DEF CookieInv
    <3>1. CASE cookie'[b][h] = cookie[b][h]
      BY <1>13, <3>1 DEF Ages, CookieInv, Within, Redeem
    <3>2. CASE cookie'[b][h] = Sign("host", Who(v), Host(v), CookieTtl)
      <4>1. cookie'[b][h].who = Who(v) /\ cookie'[b][h].exp = now + CookieTtl
        BY <3>2 DEF Sign
      <4>2. checked[Who(v)] \in Int /\ checked' = checked
        BY <1>0, <1>13, WhoType DEF Redeem
      <4> QED BY <1>0, <2>1, <4>1, <4>2, TtlAssumption DEF Within, ChallengeAge, HostAge
    <3> QED BY <1>13, <3>1, <3>2 DEF Redeem, TypeOK
  <2>3. ChallengeInv'
    BY <1>13, AtChal DEF Redeem, Go, ChallengeInv, Ages, Within, TypeOK, NoToken
  <2> QED BY <1>13, <2>2, <2>3 DEF Redeem, Ages, WideInv, RowInv, CheckedInv, Within
<1>14. ASSUME NEW v \in Visits, AdmitRow(v) PROVE Ages'
  BY <1>14, AtChal, GoChal, Quiet DEF AdmitRow
<1>15. ASSUME NEW v \in Visits, Divert(v) PROVE Ages'
  <2> DEFINE token == IF visit[v].kind = "embed" /\ mode[Host(v)] = "ip"
                      THEN Sign("embed", Who(v), Host(v), CookieTtl) ELSE NoToken
  <2>1. [At("verify", visit[v].kind, Host(v)) EXCEPT !.embed = token].chal = NoToken
    BY DEF At
  <2> QED BY <1>15, <2>1, GoChal, Quiet DEF Divert
<1>16. ASSUME NEW v \in Visits, Deny(v) PROVE Ages'
  BY <1>16, AtChal, GoChal, Quiet DEF Deny
<1>17. ASSUME NEW v \in Visits, VerifyInvalid(v) PROVE Ages'
  BY <1>17, AtChal, GoChal, Quiet DEF VerifyInvalid
<1>18. ASSUME NEW v \in Visits, VerifyKnown(v) PROVE Ages'
  <2>1. Within(checked, Who(v), now, CookieTtl)
    BY <1>18, ProofAge DEF VerifyKnown
  <2>2. Who(v)' = Who(v) /\ checked' = checked /\ now' = now
    BY <1>18 DEF VerifyKnown, Who
  <2>3. \A w \in Peers : checked[w] <= checked'[w]
    BY <1>0, <2>2
  <2>4. ChallengeInv'
    BY <1>18, <2>1, <2>2, <2>3, GoChallenge DEF VerifyKnown, Ages, Within
  <2>5. checked'[Who(v)] >= 0 /\ now <= checked'[Who(v)] + HostAge
    BY <1>0, <2>1, <2>2, WhoType, TtlAssumption DEF Within, HostAge
  <2>6. RowInv'
    BY <1>18, <2>3, <2>5, RecordAge DEF VerifyKnown, Ages
  <2> QED BY <1>18, <2>4, <2>6 DEF VerifyKnown, Ages, WideInv, CookieInv, CheckedInv, Within
<1>19. ASSUME NEW v \in Visits, VerifyPage(v) PROVE Ages'
  <2>1. [visit[v] EXCEPT !.at = "page"].chal = visit[v].chal
    BY DEF TypeOK, VisitTypes
  <2> QED BY <1>19, <2>1, GoChal, Quiet DEF VerifyPage
<1>20. ASSUME NEW v \in Visits, TurnstileFails(v) PROVE Ages'
  <2>1. [visit[v] EXCEPT !.at = "page"].chal = visit[v].chal
    BY DEF TypeOK, VisitTypes
  <2> QED BY <1>20, <2>1, GoChal, Quiet DEF TurnstileFails
<1>21. ASSUME NEW v \in Visits, TurnstilePasses(v) PROVE Ages'
  <2>1. Who(v)' = Who(v) /\ now' = now /\ Who(v) \in Peers /\ checked'[Who(v)] = now
    BY <1>0, <1>21, WhoType DEF TurnstilePasses, Who
  <2>2. \A w \in Peers : checked[w] <= checked'[w] /\ checked'[w] <= now
    BY <1>0, <1>21 DEF TurnstilePasses, Ages, CheckedInv
  <2>3. Within(checked', Who(v), now, CookieTtl)
    BY <1>0, <2>1, TtlAssumption DEF Within
  <2>4. ChallengeInv'
    BY <1>21, <2>1, <2>2, <2>3, GoChallenge DEF TurnstilePasses, Ages
  <2>5. checked'[Who(v)] >= 0 /\ now <= checked'[Who(v)] + HostAge
    BY <1>0, <2>1, TtlAssumption DEF HostAge
  <2>6. RowInv'
    BY <1>21, <2>2, <2>5, RecordAge DEF TurnstilePasses, Ages
  <2>7. WideInv'
    <3> SUFFICES ASSUME NEW b \in Browsers, wide'[b] # NoToken
                 PROVE  Within(checked', wide'[b].who, wide'[b].exp, CookieTtl)
      BY DEF WideInv
    <3>1. CASE wide'[b] = wide[b]
      <4>1. wide[b].who \in Peers /\ wide[b].exp \in Nat
        BY <3>1 DEF TypeOK, Some, Tokens
      <4>2. Within(checked, wide[b].who, wide[b].exp, CookieTtl)
        BY <3>1 DEF Ages, WideInv
      <4> QED BY <2>2, <3>1, <4>1, <4>2, TtlAssumption DEF Within, TypeOK
    <3>2. CASE wide'[b] = Sign("wide", Who(v), Nothing, CookieTtl)
      <4>1. wide'[b].who = Who(v) /\ wide'[b].exp = now + CookieTtl
        BY <3>2 DEF Sign
      <4> QED BY <1>0, <2>1, <4>1, TtlAssumption DEF Within
    <3> QED BY <1>21, <3>1, <3>2 DEF TurnstilePasses, TypeOK
  <2>8. CookieInv'
    <3> SUFFICES ASSUME NEW b \in Browsers, NEW h \in Hosts, cookie[b][h] # NoToken
                 PROVE  Within(checked', cookie[b][h].who, cookie[b][h].exp, HostAge)
      BY <1>21 DEF CookieInv, TurnstilePasses, Within
    <3>1. cookie[b][h].who \in Peers /\ cookie[b][h].exp \in Nat
      BY DEF TypeOK, Tokens
    <3>2. Within(checked, cookie[b][h].who, cookie[b][h].exp, HostAge)
      BY DEF Ages, CookieInv
    <3> QED BY <1>21, <2>2, <3>1, <3>2, TtlAssumption DEF Within, HostAge, TypeOK,
               TurnstilePasses
  <2>9. CheckedInv'
    BY <2>1, <2>2 DEF CheckedInv
  <2> QED BY <2>4, <2>6, <2>7, <2>8, <2>9 DEF Ages
<1> QED BY <1>1, <1>2, <1>3, <1>4, <1>5, <1>6, <1>7, <1>8, <1>9, <1>10, <1>11, <1>12, <1>13,
           <1>14, <1>15, <1>16, <1>17, <1>18, <1>19, <1>20, <1>21
  DEF Next, Enforce, HandleVerificationHost

LEMMA Invariant == Spec => []IInv
<1>1. Init => IInv
  BY TypeInit, AgesInit DEF IInv
<1>2. IInv /\ [Next]_vars => IInv'
  BY TypeStep, AgesStep DEF IInv
<1> QED BY <1>1, <1>2, PTL DEF Spec

\* Every variable keeps its type; a cookie kept for a host was signed for it.
THEOREM TypeCorrect == Spec => []TypeOK
<1>1. IInv => TypeOK
  BY DEF IInv
<1> QED BY <1>1, Invariant, PTL

Admission ==
  \A v \in Visits : Enters(v) =>
    \/ ByCreator(v)
    \/ checked[Who(v)] >= 0 /\ now <= checked[Who(v)] + Bound(Host(v))

\* A visit that enters had its proof looked at in the step.
LEMMA EntersBy ==
  ASSUME NEW v \in Visits, TypeOK, [Next]_vars, Enters(v)
  PROVE  AdmitCreator(v) \/ AdmitCookie(v) \/ AdmitRow(v)
<1> DEFINE Goal == AdmitCreator(v) \/ AdmitCookie(v) \/ AdmitRow(v)
<1>0. /\ v \in DOMAIN visit
      /\ visit[v].at # "in" /\ visit'[v].at = "in"
  BY DEF Enters, TypeOK
<1>1. ASSUME NEW w \in Visits, NEW r, Go(w, r), r.at # "in" PROVE FALSE
  <2>1. visit'[v] = IF v = w THEN r ELSE visit[v]
    BY <1>1 DEF Go, TypeOK
  <2> QED BY <1>0, <1>1, <2>1
<1>2. CASE UNCHANGED visit
  BY <1>0, <1>2
<1>3. ASSUME NEW w \in Visits, NEW kind, NEW h, Starts(w, kind, h) PROVE FALSE
  <2>1. At("tunnel", kind, h).at # "in"
    BY DEF At
  <2> QED BY <1>1, <1>3, <2>1 DEF Starts
<1>4. ASSUME NEW w \in Visits, NEW u \in Visits, Follows(w, u) PROVE FALSE
  BY <1>1, <1>4 DEF Follows
<1>5. ASSUME NEW w \in Visits, TakesOver(w) \/ Submits(w) \/ VerifyPage(w) \/ TurnstileFails(w)
      PROVE  FALSE
  <2>1. /\ [visit[w] EXCEPT !.at = "verify", !.back = TRUE].at # "in"
        /\ [visit[w] EXCEPT !.at = "posted"].at # "in"
        /\ [visit[w] EXCEPT !.at = "page"].at # "in"
    BY DEF TypeOK, VisitTypes
  <2> QED BY <1>1, <1>5, <2>1 DEF TakesOver, Submits, VerifyPage, TurnstileFails
<1>6. ASSUME NEW w \in Visits,
             GivesUp(w) \/ FetchesAgain(w) \/ Redeem(w) \/ Deny(w) \/ VerifyInvalid(w)
      PROVE  FALSE
  <2>1. /\ At("off", "page", Host(w)).at # "in" /\ At("tunnel", "embed", Host(w)).at # "in"
        /\ At("tunnel", visit[w].kind, Host(w)).at # "in"
    BY DEF At
  <2> QED BY <1>1, <1>6, <2>1 DEF GivesUp, FetchesAgain, Redeem, Deny, VerifyInvalid
<1>7. ASSUME NEW w \in Visits, Divert(w) PROVE FALSE
  <2> DEFINE token == IF visit[w].kind = "embed" /\ mode[Host(w)] = "ip"
                      THEN Sign("embed", Who(w), Host(w), CookieTtl) ELSE NoToken
  <2>1. [At("verify", visit[w].kind, Host(w)) EXCEPT !.embed = token].at # "in"
    BY DEF At
  <2> QED BY <1>1, <1>7, <2>1 DEF Divert
<1>8. ASSUME NEW w \in Visits, VerifyKnown(w) \/ TurnstilePasses(w) PROVE FALSE
  <2>1. At("back", "embed", Host(w)).at # "in" /\ Challenge(w).at # "in"
    BY DEF At, Challenge
  <2> QED BY <1>1, <1>8, <2>1 DEF VerifyKnown, TurnstilePasses
<1>9. ASSUME NEW w \in Visits, AdmitCreator(w) \/ AdmitCookie(w) \/ AdmitRow(w) PROVE Goal
  <2>1. w = v
    BY <1>0, <1>9 DEF AdmitCreator, AdmitCookie, AdmitRow, Go, TypeOK
  <2> QED BY <1>9, <2>1
<1>10. Tick \/ (\E b \in Browsers, i \in Ips : Moves(b, i))
         \/ (\E h \in Hosts, m \in {"cookie", "ip"}, i \in Ips : TunnelConnects(h, m, i))
         => UNCHANGED visit
  BY DEF Tick, Moves, TunnelConnects
<1> QED BY <1>2, <1>3, <1>4, <1>5, <1>6, <1>7, <1>8, <1>9, <1>10
        DEF Next, vars, Enforce, HandleVerificationHost

LEMMA AdmissionStep == IInv /\ [Next]_vars => Admission
<1> SUFFICES ASSUME IInv, [Next]_vars, NEW v \in Visits, Enters(v), ~ByCreator(v)
             PROVE  checked[Who(v)] >= 0 /\ now <= checked[Who(v)] + Bound(Host(v))
  BY DEF Admission
<1>1. TypeOK /\ Ages
  BY DEF IInv
<1>2. Who(v) \in Peers /\ now \in Nat /\ checked[Who(v)] \in Int
  BY <1>1, WhoType DEF TypeOK
<1>3. AdmitCreator(v) \/ AdmitCookie(v) \/ AdmitRow(v)
  BY <1>1, EntersBy
<1>4. ~AdmitCreator(v)
  BY DEF AdmitCreator
<1>5. CASE AdmitCookie(v)
  <2>1. Within(checked, Who(v), now, HostAge)
    BY <1>1, <1>5, ProofAge DEF AdmitCookie
  <2> QED BY <1>2, <2>1, TtlAssumption DEF Within, HostAge, Bound
<1>6. CASE AdmitRow(v)
  <2>1. mode[Host(v)] = "ip" /\ IpValidated(v)
    BY <1>6 DEF AdmitRow, ByRow
  <2>2. Within(checked, Who(v), now, RowAge)
    BY <1>1, <2>1, ProofAge
  <2> QED BY <1>2, <2>1, <2>2 DEF Within, RowAge, Bound
<1> QED BY <1>3, <1>4, <1>5, <1>6

\* Whoever is admitted is the tunnel's creator or passed the check at most that
\* long ago: for any number of visits, browsers and hosts, and any lifetimes of
\* cookies and challenges.
THEOREM AdmissionIsVerified == Spec => AdmittedWasVerified
<1>1. IInv /\ [Next]_vars => [Admission]_vars
  BY AdmissionStep
<1>2. Spec => [][Admission]_vars
  BY <1>1, Invariant, PTL DEF Spec
<1> QED BY <1>2 DEF AdmittedWasVerified, Admission
=============================================================================
