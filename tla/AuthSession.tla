---------------------------- MODULE AuthSession ----------------------------
(***************************************************************************)
(* What the server keeps of a login: the session that `btunnel login`      *)
(* starts, a browser approves and a poll turns into a device token, the    *)
(* tokens, and the trusted IP ranges of each user.  The polling side, and  *)
(* the tunnels that use the tokens, are in CliProcess.                     *)
(*                                                                         *)
(* Handlers are cut at the reads and writes of the database that race:     *)
(* the verify page between its findUnique and its update, a status poll    *)
(* between its findUnique and its transaction.                             *)
(***************************************************************************)
EXTENDS Integers

CONSTANTS Logins,      \* login sessions, over the whole history
          Users,
          Ranges,      \* normalised IP ranges
          Old,         \* a token from before, in the name of OldUser
          OldUser, OldRange, OldUA, OldUntil,
          UserAgents,
          Nobody,
          SessionTTL, TokenTTL, TrustTTL,
          MaxTime      \* bound: the last instant

\* The old token was issued no later than now.
ASSUME OldAssumption == /\ OldUser \in Users /\ OldRange \in Ranges
                        /\ OldUA \in UserAgents /\ OldUntil \in 0..TokenTTL
                        /\ Old \notin Logins \X {1, 2}
ASSUME NobodyAssumption == Nobody \notin Users
\* AUTH_SESSION_TTL_MS, DEVICE_TOKEN_TTL_MS and TRUSTED_IP_TTL_MS.
ASSUME TTLAssumption == /\ SessionTTL \in Nat /\ TrustTTL \in Nat
                        /\ TokenTTL \in Nat /\ TokenTTL <= TrustTTL
ASSUME MaxTimeAssumption == MaxTime \in Nat

\* A status request may reach the server twice: the Go transport repeats a GET
\* whose connection broke before it was answered.
Tries == {1, 2}
Tokens == (Logins \X Tries) \cup {Old}

VARIABLES
  now,
  session,  \* each login session: status, approving user, expiresAt
  page,     \* verify handler of each login and user: "none", "read", "done"
  poll,     \* status handler of each login and try: what it has done and read
  token,    \* each token's row
  trust,    \* expiresAt of each user's range, 0 for no row
  linked    \* user and range of each login that a poll completed

authVars == <<now, session, page, poll, token, trust, linked>>

Sessions == [status : {"none", "pending", "approved", "expired", "consumed"},
             by : Users \cup {Nobody}, until : Nat]
NoToken == [by |-> Nobody, range |-> OldRange, ua |-> OldUA, until |-> 0]
TokenRows == [by : Users \cup {Nobody}, range : Ranges, ua : UserAgents, until : Nat]
NoPoll == [at |-> "none", by |-> Nobody, range |-> OldRange]
Polls == [at : {"none", "read", "done"}, by : Users \cup {Nobody}, range : Ranges]

AuthTypes ==
  /\ now \in 0..MaxTime
  /\ session \in [Logins -> Sessions]
  /\ page \in [Logins -> [Users -> {"none", "read", "done"}]]
  /\ poll \in [Logins -> [Tries -> Polls]]
  /\ token \in [Tokens -> TokenRows]
  /\ trust \in [Users -> [Ranges -> Nat]]
  /\ linked \subseteq Users \X Ranges

\* A token from before the migration that creates the trusted ranges has no row
\* for its range until it is used.
AuthInit ==
  /\ now = 0
  /\ session = [l \in Logins |-> [status |-> "none", by |-> Nobody, until |-> 0]]
  /\ page = [l \in Logins |-> [u \in Users |-> "none"]]
  /\ poll = [l \in Logins |-> [k \in Tries |-> NoPoll]]
  /\ token = [t \in Tokens |->
               IF t = Old THEN [by |-> OldUser, range |-> OldRange,
                                ua |-> OldUA, until |-> OldUntil]
               ELSE NoToken]
  /\ \E until \in {0, OldUntil + (TrustTTL - TokenTTL)} :
       trust = [u \in Users |-> [r \in Ranges |->
                 IF u = OldUser /\ r = OldRange THEN until ELSE 0]]
  /\ linked = {<<OldUser, OldRange>>}

-----------------------------------------------------------------------------
Tick ==
  /\ now < MaxTime
  /\ now' = now + 1
  /\ UNCHANGED <<session, page, poll, token, trust, linked>>

\* POST auth/start
StartSession(l) ==
  /\ session[l].status = "none"
  /\ session' = [session EXCEPT ![l] = [status |-> "pending", by |-> Nobody,
                                        until |-> now + SessionTTL]]
  /\ UNCHANGED <<now, page, poll, token, trust, linked>>

\* Faulty variant: approved when it is read, before the link's key is checked.
VerifyReadApproves(l, u) ==
  /\ page[l][u] = "none"
  /\ session[l].status = "pending" /\ now < session[l].until
  /\ page' = [page EXCEPT ![l][u] = "read"]
  /\ session' = [session EXCEPT ![l].status = "approved", ![l].by = u]
  /\ UNCHANGED <<now, poll, token, trust, linked>>

\* The verify page reads the session for a signed-in user; one that is not
\* pending, or past its time, is refused.
VerifyRead(l, u) ==
  /\ page[l][u] = "none"
  /\ session[l].status = "pending" /\ now < session[l].until
  /\ page' = [page EXCEPT ![l][u] = "read"]
  /\ UNCHANGED <<now, session, poll, token, trust, linked>>

\* It updates the session by its id, whatever has become of it meanwhile.
VerifyCommit(l, u) ==
  /\ page[l][u] = "read"
  /\ page' = [page EXCEPT ![l][u] = "done"]
  /\ session' = [session EXCEPT ![l].status = "approved", ![l].by = u]
  /\ UNCHANGED <<now, poll, token, trust, linked>>

\* A poll reads an approved session.
PollReadsApproved(l, k, r) ==
  /\ poll[l][k].at = "none"
  /\ session[l].status = "approved"
  /\ poll' = [poll EXCEPT ![l][k] = [at |-> "read", by |-> session[l].by, range |-> r]]
  /\ UNCHANGED <<now, session, page, token, trust, linked>>

\* It finds a pending session past its time, or one that is neither pending nor
\* approved: the answer says that there is nothing to wait for.
PollReadsOver(l, k) ==
  /\ poll[l][k].at = "none"
  /\ \/ session[l].status = "pending" /\ session[l].until <= now
     \/ session[l].status \in {"expired", "consumed"}
  /\ session' = IF session[l].status = "pending"
                THEN [session EXCEPT ![l].status = "expired"] ELSE session
  /\ UNCHANGED <<now, page, poll, token, trust, linked>>

NewToken(l, k, ua) ==
  token' = [token EXCEPT ![<<l, k>>] =
              [by |-> poll[l][k].by, range |-> poll[l][k].range,
               ua |-> ua, until |-> now + TokenTTL]]

\* Faulty variant: the range is linked only if the user had none like it.
PollCommitCreates(l, k, ua) ==
  LET u == poll[l][k].by  r == poll[l][k].range IN
  /\ poll[l][k].at = "read"
  /\ poll' = [poll EXCEPT ![l][k].at = "done"]
  /\ NewToken(l, k, ua)
  /\ trust' = IF trust[u][r] = 0 THEN [trust EXCEPT ![u][r] = now + TrustTTL] ELSE trust
  /\ linked' = linked \cup {<<u, r>>}
  /\ session' = [session EXCEPT ![l].status = "consumed"]
  /\ UNCHANGED <<now, page>>

\* The transaction: token, trusted range, session.
PollCommit(l, k, ua) ==
  LET u == poll[l][k].by  r == poll[l][k].range IN
  /\ poll[l][k].at = "read"
  /\ poll' = [poll EXCEPT ![l][k].at = "done"]
  /\ NewToken(l, k, ua)
  /\ trust' = [trust EXCEPT ![u][r] = now + TrustTTL]
  /\ linked' = linked \cup {<<u, r>>}
  /\ session' = [session EXCEPT ![l].status = "consumed"]
  /\ UNCHANGED <<now, page>>

-----------------------------------------------------------------------------
(* validateDeviceToken. *)

\* Faulty variant: the range is only linked, not looked up.
AcceptsAnywhere(t, r, ua) ==
  /\ token[t].by # Nobody /\ now < token[t].until
  /\ token[t].ua = ua

\* A token that has not expired, from its user agent, and from the range it was
\* issued to or another the user trusts.
Accepts(t, r, ua) ==
  /\ token[t].by # Nobody /\ now < token[t].until
  /\ token[t].ua = ua
  /\ token[t].range = r \/ now < trust[token[t].by][r]

\* An accepted token renews the trust in its range.
Renew(t, r) ==
  /\ trust' = [trust EXCEPT ![token[t].by][r] = now + TrustTTL]
  /\ UNCHANGED <<now, session, page, poll, token, linked>>

-----------------------------------------------------------------------------
(* Safety. *)

\* A range is trusted, and a token is accepted from it, only if a poll of a
\* login that the same user approved came from that range: using a token
\* spreads trust to no other range.
TrustIsLinked ==
  \A u \in Users, r \in Ranges :
    /\ trust[u][r] # 0 => <<u, r>> \in linked
    /\ \A t \in Tokens, ua \in UserAgents :
         (token[t].by = u /\ Accepts(t, r, ua)) => <<u, r>> \in linked

\* A token's own range needs no look at the trusted ranges: it is one of them,
\* and has not expired, whenever the token has not; but for a token from before
\* there were trusted ranges that has not been used since.
OwnRangeIsTrusted ==
  \A t \in Tokens, r \in Ranges, ua \in UserAgents :
    Accepts(t, r, ua) =>
      \/ now < trust[token[t].by][r]
      \/ t = Old /\ r = OldRange /\ trust[OldUser][OldRange] = 0

\* Every token is in the name of a user who approved the very login that it was
\* issued for, even when two users open one link or two polls race.
TokenNamesApprover ==
  \A l \in Logins, k \in Tries :
    token[<<l, k>>].by # Nobody => page[l][token[<<l, k>>].by] = "done"
=============================================================================
