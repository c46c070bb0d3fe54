-------------------------- MODULE VerificationFlow --------------------------
(***************************************************************************)
(* Visitor verification: what the proxy does with a visit to a tunnel      *)
(* host, and what the verification host does with the visits it gets.      *)
(*                                                                         *)
(* A visit goes through redirects between the two; the visits of a browser *)
(* share its cookies.  Tokens name the address and user agent they were    *)
(* signed for and run out.  Only a request's arrival is a step: its        *)
(* queries are taken to last less than a tick of the clock.                *)
(***************************************************************************)
EXTENDS Integers

CONSTANTS Visits,     \* tabs, fetches and websockets of browsers
          Browsers,
          BrowserOf,  \* the browser of each visit
          Agents,     \* user agents
          AgentOf,    \* the user agent of each browser
          Ips,        \* addresses
          Hosts,      \* hosts of tunnels
          Nothing,    \* no token, host or address
          CookieTtl,
          ChallengeTtl,
          MaxTime,    \* bound of the clock
          MaxChanges, \* how often addresses and tunnels change
          KindsOf     \* what each visit may be

\* "page" is a top-level navigation, "embed" a fetch by a page of another
\* site, "socket" a websocket or a preflight, which follow no redirect.
Kinds == {"page", "embed", "socket"}

ASSUME KindAssumption == KindsOf \in [Visits -> SUBSET Kinds]
ASSUME VisitAssumption == BrowserOf \in [Visits -> Browsers] /\ AgentOf \in [Browsers -> Agents]
ASSUME NothingAssumption == Nothing \notin Hosts \cup Ips
ASSUME TtlAssumption == CookieTtl \in Nat /\ ChallengeTtl \in Nat
ASSUME BoundAssumption == MaxTime \in Nat /\ MaxChanges \in Nat

Peers == Ips \X Agents

Tokens == [kind : {"wide", "host", "challenge", "embed"}, who : Peers,
           host : Hosts \cup {Nothing}, exp : Nat]

NoToken == [kind |-> "none", who |-> Nothing, host |-> Nothing, exp |-> 0]

Some(kind, host) == {t \in Tokens : t.kind = kind /\ t.host = host} \cup {NoToken}

VARIABLES
  now,      \* the clock
  changes,  \* of addresses and tunnels so far
  ip,       \* each browser's address
  wide,     \* its bt_verify cookie
  cookie,   \* its bt_tunnel cookie of each host
  visit,    \* where each visit is
  mode,     \* validation of each host's tunnel row; "none" without a row
  creator,  \* the address of the session that holds the tunnel
  rows,     \* visitor_validations: when the last row of a host and peer expires
  checked   \* when the peer last passed Turnstile; -1: never

vars == <<now, changes, ip, wide, cookie, visit, mode, creator, rows, checked>>

\* "tunnel" and "verify": the visit requests the tunnel's host or the
\* verification host; "page": it shows the warning page; "posted": its form is
\* sent; "back": it returns to the embedding page; "in": its last request went
\* through to the tunnel; "off": there was none, or it did not.
Places == {"off", "tunnel", "verify", "page", "posted", "back", "in"}

\* embed is the embed_token of the address, back says if it has browser_return.
VisitTypes ==
  [at : Places, kind : Kinds, host : Hosts, chal : Tokens \cup {NoToken},
   embed : Tokens \cup {NoToken}, back : BOOLEAN]

TypeOK ==
  /\ now \in Nat /\ changes \in Nat
  /\ ip \in [Browsers -> Ips]
  /\ wide \in [Browsers -> Some("wide", Nothing)]
  /\ cookie \in [Browsers -> [Hosts -> Tokens \cup {NoToken}]]
  /\ \A b \in Browsers, h \in Hosts : cookie[b][h] \in Some("host", h)
  /\ visit \in [Visits -> VisitTypes]
  /\ mode \in [Hosts -> {"none", "cookie", "ip"}]
  /\ creator \in [Hosts -> Ips \cup {Nothing}]
  /\ rows \in [Hosts -> [Peers -> Nat]]
  /\ checked \in [Peers -> Int]

\* A visit to host without tokens in its address.
At(place, kind, host) ==
  [at |-> place, kind |-> kind, host |-> host, chal |-> NoToken, embed |-> NoToken,
   back |-> FALSE]

Init ==
  /\ now = 0 /\ changes = 0
  /\ ip \in [Browsers -> Ips]
  /\ wide = [b \in Browsers |-> NoToken]
  /\ cookie = [b \in Browsers |-> [h \in Hosts |-> NoToken]]
  /\ visit \in [Visits -> {At("off", "page", h) : h \in Hosts}]
  /\ mode \in [Hosts -> {"none", "cookie", "ip"}]
  /\ creator \in [Hosts -> Ips \cup {Nothing}]
  /\ \A h \in Hosts : mode[h] = "none" <=> creator[h] = Nothing
  /\ rows = [h \in Hosts |-> [w \in Peers |-> 0]]
  /\ checked = [w \in Peers |-> -1]

-----------------------------------------------------------------------------
Go(v, r) == visit' = [visit EXCEPT ![v] = r]
Host(v) == visit[v].host
Who(v) == <<ip[BrowserOf[v]], AgentOf[BrowserOf[v]]>>

Sign(kind, who, host, ttl) == [kind |-> kind, who |-> who, host |-> host, exp |-> now + ttl]

Valid(t, kind, who, host) ==
  t.kind = kind /\ t.exp >= now /\ t.who = who /\ t.host = host

\* The cookies are SameSite=Lax: a fetch by a page of another site carries none.
SendsCookies(v) == visit[v].kind # "embed" \/ visit[v].back

ByCreator(v) == creator[Host(v)] = ip[BrowserOf[v]]
ByCookie(v) ==
  SendsCookies(v) /\ Valid(cookie[BrowserOf[v]][Host(v)], "host", Who(v), Host(v))
ByChallenge(v) == Valid(visit[v].chal, "challenge", Who(v), Host(v))
IpValidated(v) == rows[Host(v)][Who(v)] > now
ByRow(v) == mode[Host(v)] = "ip" /\ IpValidated(v)
Known(v) == SendsCookies(v) /\ Valid(wide[BrowserOf[v]], "wide", Who(v), Nothing)

\* recordIpValidation, for a tunnel with validation by address.
Record(v) ==
  rows' = IF mode[Host(v)] = "ip"
          THEN [rows EXCEPT ![Host(v)] = [@ EXCEPT ![Who(v)] = now + CookieTtl]]
          ELSE rows

-----------------------------------------------------------------------------
\* The browser and its surroundings.

Tick ==
  /\ now < MaxTime
  /\ now' = now + 1
  /\ wide' = [b \in Browsers |-> IF wide[b].exp < now + 1 THEN NoToken ELSE wide[b]]
  /\ cookie' = [b \in Browsers |-> [h \in Hosts |->
                  IF cookie[b][h].exp < now + 1 THEN NoToken ELSE cookie[b][h]]]
  /\ UNCHANGED <<changes, ip, visit, mode, creator, rows, checked>>

Moves(b, i) ==
  /\ changes < MaxChanges /\ i # ip[b]
  /\ changes' = changes + 1
  /\ ip' = [ip EXCEPT ![b] = i]
  /\ UNCHANGED <<now, wide, cookie, visit, mode, creator, rows, checked>>

\* The upsert of a tunnel's handshake.
TunnelConnects(h, m, i) ==
  /\ changes < MaxChanges
  /\ changes' = changes + 1
  /\ mode' = [mode EXCEPT ![h] = m]
  /\ creator' = [creator EXCEPT ![h] = i]
  /\ UNCHANGED <<now, ip, wide, cookie, visit, rows, checked>>

Idle(v) == visit[v].at \in {"off", "in"}

Starts(v, kind, h) ==
  /\ Idle(v)
  /\ Go(v, At("tunnel", kind, h))
  /\ UNCHANGED <<now, changes, ip, wide, cookie, mode, creator, rows, checked>>

\* The address of another visit, challenge included, is opened.
Follows(v, w) ==
  /\ Idle(v) /\ visit[w].at = "tunnel" /\ visit[w].kind = "page"
  /\ Go(v, visit[w])
  /\ UNCHANGED <<now, changes, ip, wide, cookie, mode, creator, rows, checked>>

\* The script of the page, in a page of the embedding origin.
TakesOver(v) ==
  /\ visit[v].at = "page" /\ visit[v].embed # NoToken /\ ~visit[v].back
  /\ Go(v, [visit[v] EXCEPT !.at = "verify", !.back = TRUE])
  /\ UNCHANGED <<now, changes, ip, wide, cookie, mode, creator, rows, checked>>

Submits(v) ==
  /\ visit[v].at = "page" /\ (visit[v].kind = "page" \/ visit[v].back)
  /\ Go(v, [visit[v] EXCEPT !.at = "posted"])
  /\ UNCHANGED <<now, changes, ip, wide, cookie, mode, creator, rows, checked>>

\* The page is closed, or it is the answer to a fetch that cannot show it.
GivesUp(v) ==
  /\ visit[v].at = "page"
  /\ Go(v, At("off", "page", Host(v)))
  /\ UNCHANGED <<now, changes, ip, wide, cookie, mode, creator, rows, checked>>

FetchesAgain(v) ==
  /\ visit[v].at = "back"
  /\ Go(v, At("tunnel", "embed", Host(v)))
  /\ UNCHANGED <<now, changes, ip, wide, cookie, mode, creator, rows, checked>>

-----------------------------------------------------------------------------
\* enforce, at the tunnel's host.

AdmitCreator(v) ==
  /\ visit[v].at = "tunnel" /\ ByCreator(v)
  /\ Go(v, At("in", "page", Host(v)))
  /\ UNCHANGED <<now, changes, ip, wide, cookie, mode, creator, rows, checked>>

\* Faulty variant: the cookie is renewed when it is used.
AdmitAndRenew(v) ==
  /\ visit[v].at = "tunnel" /\ ~ByCreator(v) /\ ByCookie(v)
  /\ Go(v, At("in", "page", Host(v)))
  /\ IF IpValidated(v) THEN UNCHANGED rows ELSE Record(v)
  /\ cookie' = [cookie EXCEPT ![BrowserOf[v]] =
                  [@ EXCEPT ![Host(v)] = Sign("host", Who(v), Host(v), CookieTtl)]]
  /\ UNCHANGED <<now, changes, ip, wide, mode, creator, checked>>

AdmitCookie(v) ==
  /\ visit[v].at = "tunnel" /\ ~ByCreator(v) /\ ByCookie(v)
  /\ Go(v, At("in", "page", Host(v)))
  /\ IF IpValidated(v) THEN UNCHANGED rows ELSE Record(v)
  /\ UNCHANGED <<now, changes, ip, wide, cookie, mode, creator, checked>>

Unproven(v) == visit[v].at = "tunnel" /\ ~ByCreator(v) /\ ~ByCookie(v)

\* Faulty variant: the challenge itself becomes the cookie.
RedeemAsIs(v) ==
  /\ Unproven(v) /\ ByChallenge(v) /\ visit[v].kind # "socket"
  /\ Go(v, At("tunnel", visit[v].kind, Host(v)))
  /\ cookie' = [cookie EXCEPT ![BrowserOf[v]] = [@ EXCEPT ![Host(v)] = visit[v].chal]]
  /\ UNCHANGED <<now, changes, ip, wide, mode, creator, rows, checked>>

\* The challenge is exchanged for a cookie of this host.
Redeem(v) ==
  /\ Unproven(v) /\ ByChallenge(v) /\ visit[v].kind # "socket"
  /\ Go(v, At("tunnel", visit[v].kind, Host(v)))
  /\ cookie' = [cookie EXCEPT ![BrowserOf[v]] =
                  [@ EXCEPT ![Host(v)] = Sign("host", Who(v), Host(v), CookieTtl)]]
  /\ UNCHANGED <<now, changes, ip, wide, mode, creator, rows, checked>>

AdmitRow(v) ==
  /\ Unproven(v) /\ ~ByChallenge(v) /\ ByRow(v)
  /\ Go(v, At("in", "page", Host(v)))
  /\ UNCHANGED <<now, changes, ip, wide, cookie, mode, creator, rows, checked>>

\* To the verification host; for a fetch and a tunnel with validation by
\* address the embedding origin goes along.
Divert(v) ==
  /\ Unproven(v) /\ ~ByChallenge(v) /\ ~ByRow(v) /\ visit[v].kind # "socket"
  /\ Go(v, [At("verify", visit[v].kind, Host(v)) EXCEPT
              !.embed = IF visit[v].kind = "embed" /\ mode[Host(v)] = "ip"
                        THEN Sign("embed", Who(v), Host(v), CookieTtl) ELSE NoToken])
  /\ UNCHANGED <<now, changes, ip, wide, cookie, mode, creator, rows, checked>>

\* A websocket or preflight is not redirected: 403, or 204 without a location.
Deny(v) ==
  /\ Unproven(v) /\ visit[v].kind = "socket" /\ (ByChallenge(v) \/ ~ByRow(v))
  /\ Go(v, At("off", "page", Host(v)))
  /\ UNCHANGED <<now, changes, ip, wide, cookie, mode, creator, rows, checked>>

-----------------------------------------------------------------------------
\* handleVerificationHost.

Embedded(v) == visit[v].embed # NoToken
EmbedValid(v) == Embedded(v) => Valid(visit[v].embed, "embed", Who(v), Host(v))
GoesBack(v) == visit[v].back /\ mode[Host(v)] = "ip"

VerifyInvalid(v) ==
  /\ visit[v].at \in {"verify", "posted"} /\ ~EmbedValid(v)
  /\ Go(v, At("off", "page", Host(v)))
  /\ UNCHANGED <<now, changes, ip, wide, cookie, mode, creator, rows, checked>>

\* Faulty variant: the challenge is good for no host.
ChallengeNowhere(v) ==
  [At("tunnel", "page", Host(v)) EXCEPT
     !.chal = Sign("challenge", Who(v), Nothing, ChallengeTtl)]

\* redirectWithChallenge.
Challenge(v) ==
  [At("tunnel", "page", Host(v)) EXCEPT
     !.chal = Sign("challenge", Who(v), Host(v), ChallengeTtl)]

\* The visitor is known here: no page.
VerifyKnown(v) ==
  /\ visit[v].at = "verify" /\ EmbedValid(v) /\ Known(v)
  /\ Record(v)
  /\ Go(v, IF GoesBack(v) THEN At("back", "embed", Host(v)) ELSE Challenge(v))
  /\ UNCHANGED <<now, changes, ip, wide, cookie, mode, creator, checked>>

VerifyPage(v) ==
  /\ visit[v].at = "verify" /\ EmbedValid(v) /\ ~Known(v)
  /\ Go(v, [visit[v] EXCEPT !.at = "page"])
  /\ UNCHANGED <<now, changes, ip, wide, cookie, mode, creator, rows, checked>>

TurnstileFails(v) ==
  /\ visit[v].at = "posted" /\ EmbedValid(v)
  /\ Go(v, [visit[v] EXCEPT !.at = "page"])
  /\ UNCHANGED <<now, changes, ip, wide, cookie, mode, creator, rows, checked>>

\* The wide cookie goes with the challenge, not with the way back.
TurnstilePasses(v) ==
  /\ visit[v].at = "posted" /\ EmbedValid(v)
  /\ checked' = [checked EXCEPT ![Who(v)] = now]
  /\ Record(v)
  /\ Go(v, IF GoesBack(v) THEN At("back", "embed", Host(v)) ELSE Challenge(v))
  /\ wide' = IF GoesBack(v) THEN wide
             ELSE [wide EXCEPT ![BrowserOf[v]] = Sign("wide", Who(v), Nothing, CookieTtl)]
  /\ UNCHANGED <<now, changes, ip, cookie, mode, creator>>

-----------------------------------------------------------------------------
Enforce(v) ==
  AdmitCreator(v) \/ AdmitCookie(v) \/ Redeem(v) \/ AdmitRow(v) \/ Divert(v) \/ Deny(v)

HandleVerificationHost(v) ==
  VerifyInvalid(v) \/ VerifyKnown(v) \/ VerifyPage(v) \/ TurnstileFails(v) \/ TurnstilePasses(v)

Next ==
  \/ Tick
  \/ \E b \in Browsers, i \in Ips : Moves(b, i)
  \/ \E h \in Hosts, m \in {"cookie", "ip"}, i \in Ips : TunnelConnects(h, m, i)
  \/ \E v \in Visits :
       \/ \E kind \in KindsOf[v], h \in Hosts : Starts(v, kind, h)
       \/ \E w \in Visits : Follows(v, w)
       \/ TakesOver(v) \/ Submits(v) \/ GivesUp(v) \/ FetchesAgain(v)
       \/ Enforce(v) \/ HandleVerificationHost(v)

\* Requests are answered; a visitor does something with the page, and Turnstile
\* lets the visitor pass who tries again and again.
Fairness ==
  \A v \in Visits :
    /\ WF_vars(Enforce(v)) /\ WF_vars(HandleVerificationHost(v))
    /\ WF_vars(TakesOver(v) \/ Submits(v) \/ GivesUp(v)) /\ WF_vars(FetchesAgain(v))
    /\ SF_vars(TurnstilePasses(v))

Spec == Init /\ [][Next]_vars
FairSpec == Spec /\ Fairness

-----------------------------------------------------------------------------
\* How long a check may let its peer in: the wide cookie, a challenge signed
\* with it, a cookie given for the challenge and, for validation by address, a
\* row made with that cookie.
Bound(h) ==
  IF mode[h] = "ip" THEN 3 * CookieTtl + ChallengeTtl ELSE 2 * CookieTtl + ChallengeTtl

Enters(v) == visit[v].at # "in" /\ visit'[v].at = "in"

\* A request goes through to a tunnel only for the tunnel's creator or for an
\* address and user agent that passed the check, and only for so long after it,
\* however cookies, challenges and rows were renewed or handed on.
AdmittedWasVerified ==
  [][\A v \in Visits : Enters(v) =>
       \/ ByCreator(v)
       \/ checked[Who(v)] >= 0 /\ now <= checked[Who(v)] + Bound(Host(v))]_vars

\* Every visit comes to an end: the two hosts never send it round in a circle,
\* though tokens run out and addresses change on the way.
VisitEnds == \A v \in Visits : visit[v].at = "tunnel" ~> Idle(v)
=============================================================================
