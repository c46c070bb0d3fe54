----------------------------- MODULE CliProcess -----------------------------
(***************************************************************************)
(* `btunnel up`: the login it may need, the services it starts, and one    *)
(* goroutine per tunnel that waits for its service, connects and           *)
(* reconnects; with the token file it shares with another terminal that    *)
(* may log in and out, and the server's side of logins and tokens          *)
(* (AuthSession).  A single tunnel command is an `up` of one entry without *)
(* a service.                                                              *)
(***************************************************************************)
EXTENDS AuthSession, Sequences, FiniteSets

CONSTANTS Tunnels,     \* goroutines of tunnel entries
          Main,        \* the main goroutine
          Term,        \* `btunnel login`, and `logout`, in another terminal
          Agent,       \* user agent of this CLI
          NoFile, Torn, \* no token file; one that is being written
          Plans        \* what a behaviour may start with

Agents == Tunnels \cup {Main, Term}

ASSUME AgentAssumption == /\ Main # Term /\ {Main, Term} \cap Tunnels = {}
                          /\ Agent \in UserAgents
                          /\ Logins = Agents
ASSUME FileAssumption == {NoFile, Torn} \cap Tokens = {}
\* Of `up`: entries in order; those with a service; those with a static
\* directory; is a prefix or IP validation configured; the token file.
\* Of the environment, as bounds: does the other terminal log in, and with which
\* version of the CLI; does it log out; who opens the link of a login; does the
\* machine move to another range; is `up` stopped; does the connection of a poll
\* break; is it Windows; the last instant.
UpPlan(p) ==
  /\ p.entries \in Seq(Tunnels)
  /\ p.run \subseteq Tunnels /\ p.dir \subseteq Tunnels /\ p.run \cap p.dir = {}
  /\ p.named \in BOOLEAN /\ p.file \in {NoFile, Old}
EnvironmentPlan(p) ==
  /\ {p.login, p.logout, p.moves, p.stops, p.breaks, p.windows} \subseteq BOOLEAN
  /\ p.agent \in UserAgents
  /\ p.opens \in [Logins -> SUBSET Users]
  /\ p.last \in 0..MaxTime

ASSUME PlanAssumption == \A p \in Plans : UpPlan(p) /\ EnvironmentPlan(p)

VARIABLES
  plan,
  file,      \* the token file
  here,      \* range this machine is in
  pc,        \* where each agent is
  rejected,  \* token an agent came to reauthenticate with, or NoFile
  try,       \* try of an agent's status poll that it waits for
  authMu,    \* holder of authMu
  tok,       \* token a tunnel connects with, or NoFile for none
  who,       \* user a connected tunnel is of, and its range
  why,       \* code and reason of its last close
  entry,     \* entries the main loop is done with
  child,     \* shell of each service: "none", "alive", "exited", "killed"
  kids,      \* services with a process alive that their shell has spawned
  list,      \* children: the services its cleanup kills
  waits,     \* services whose Wait a goroutine is in
  shutting,  \* shuttingDown
  late,      \* services listed after shutdown began
  codes,     \* os.Exit calls about to be made, by their code
  proc,      \* "running", or the code it exited with
  asked,     \* the user or the supervisor stopped it
  failed     \* a service exited by itself, or something did not start

cliVars == <<plan, file, here, pc, rejected, try, authMu, tok, who, why, entry,
             child, kids, list, waits, shutting, late, codes, proc, asked, failed>>
vars == <<authVars, cliVars>>

Files == Tokens \cup {NoFile, Torn}
Anonymous == <<Nobody, OldRange>>
PolicyViolation == 1008
Codes == {0, PolicyViolation, 1002, 1006}
Open == [code |-> 0, reason |-> "none"]

CliTypes ==
  /\ plan \in Plans
  /\ file \in Files
  /\ here \in Ranges
  /\ pc \in [Agents -> {"idle", "reauth", "start", "waiting", "asking", "saving", "failed",
                        "loop", "listing", "saved", "gone",
                        "gate", "load", "dial", "up", "backoff", "ended"}]
  /\ rejected \in [Agents -> Tokens \cup {NoFile}]
  /\ try \in [Agents -> {0, 1, 2}]
  /\ authMu \in Agents \cup {Nobody}
  /\ tok \in [Tunnels -> Tokens \cup {NoFile}]
  /\ who \in [Tunnels -> (Users \cup {Nobody}) \X Ranges]
  /\ DOMAIN why = Tunnels /\ \A t \in Tunnels : why[t].code \in Codes
  /\ entry \in Nat
  /\ child \in [Tunnels -> {"none", "alive", "exited", "killed"}]
  /\ kids \subseteq Tunnels
  /\ list \subseteq Tunnels /\ waits \subseteq Tunnels
  /\ shutting \in BOOLEAN
  /\ late \subseteq Tunnels
  /\ codes \subseteq {0, 1}
  /\ proc \in {"running", "exit 0", "exit 1"}
  /\ asked \in BOOLEAN
  /\ failed \in BOOLEAN

TypeOK == AuthTypes /\ CliTypes

Init ==
  /\ AuthInit
  /\ plan \in Plans
  /\ file = plan.file
  /\ here \in Ranges
  /\ pc = [a \in Agents |-> "idle"]
  /\ rejected = [a \in Agents |-> NoFile]
  /\ try = [a \in Agents |-> 0]
  /\ authMu = Nobody
  /\ tok = [t \in Tunnels |-> NoFile]
  /\ who = [t \in Tunnels |-> Anonymous]
  /\ why = [t \in Tunnels |-> Open]
  /\ entry = 0
  /\ child = [t \in Tunnels |-> "none"]
  /\ kids = {}
  /\ list = {} /\ waits = {}
  /\ shutting = FALSE
  /\ late = {}
  /\ codes = {}
  /\ proc = "running"
  /\ asked = FALSE
  /\ failed = FALSE

Goto(a, l) == pc' = [pc EXCEPT ![a] = l]
Running(a) == proc = "running" \/ a = Term
UA(a) == IF a = Term THEN plan.agent ELSE Agent
tunnelVars == <<tok, who, why>>
upVars == <<entry, child, kids, list, waits, shutting, late, codes, proc, asked, failed>>

\* What loadState returns as token: an unreadable file is an error with none.
FileToken == IF file \in Tokens THEN file ELSE NoFile

-----------------------------------------------------------------------------
(* prepareTunnelAuth and reauthenticate. *)

AuthRequired == FileToken # NoFile \/ plan.named

\* The saved token, or its absence, is good enough.
PrepareDone ==
  /\ pc[Main] = "idle" /\ file # Torn
  /\ Goto(Main, "loop")
  /\ IF FileToken = NoFile
     THEN ~AuthRequired /\ UNCHANGED authVars
     ELSE Accepts(FileToken, here, Agent) /\ Renew(FileToken, here)
  /\ UNCHANGED <<plan, file, here, rejected, try, authMu, tunnelVars, upVars>>

\* The file cannot be read, or the server not be asked.
PrepareFails ==
  /\ pc[Main] = "idle" /\ (file = Torn \/ FileToken # NoFile)
  /\ Goto(Main, "failed")
  /\ UNCHANGED <<authVars, plan, file, here, rejected, try, authMu, tunnelVars, upVars>>

PrepareReauthenticates ==
  /\ pc[Main] = "idle" /\ file # Torn /\ AuthRequired
  /\ FileToken # NoFile => ~Accepts(FileToken, here, Agent)
  /\ Goto(Main, "reauth")
  /\ rejected' = [rejected EXCEPT ![Main] = FileToken]
  /\ UNCHANGED <<authVars, plan, file, here, try, authMu, tunnelVars, upVars>>

\* reauthenticate or login returns: to prepareTunnelAuth, to startTunnel, or to
\* the other terminal's prompt.
ReturnTo(a, ok) ==
  /\ Goto(a, CASE a = Main -> IF ok THEN "loop" ELSE "failed"
               [] a = Term -> IF ok THEN "saved" ELSE "failed"
               [] OTHER    -> IF ok THEN "load" ELSE "ended")
  /\ authMu' = IF authMu = a THEN Nobody ELSE authMu

ReauthFails(a) ==
  /\ pc[a] = "reauth" /\ authMu = Nobody
  /\ file = Torn
  /\ ReturnTo(a, FALSE)
  /\ UNCHANGED <<authVars, plan, file, here, rejected, try, tunnelVars, upVars>>

\* Another token has been saved meanwhile, and the server takes it.
ReauthElsewhere(a) ==
  /\ pc[a] = "reauth" /\ authMu = Nobody
  /\ FileToken \notin {NoFile, rejected[a]}
  /\ Accepts(FileToken, here, Agent) /\ Renew(FileToken, here)
  /\ ReturnTo(a, TRUE)
  /\ UNCHANGED <<plan, file, here, rejected, try, tunnelVars, upVars>>

\* No other token, or the check of it fails for any reason.
ReauthLogsIn(a) ==
  /\ pc[a] = "reauth" /\ authMu = Nobody
  /\ file # Torn
  /\ authMu' = a
  /\ Goto(a, "start")
  /\ UNCHANGED <<authVars, plan, file, here, rejected, try, tunnelVars, upVars>>

-----------------------------------------------------------------------------
(* login *)

\* The POST is answered.  (A login begins early enough for its deadline to lie
\* within the bound.)
LoginStarts(a) ==
  /\ pc[a] = "start" /\ now + SessionTTL <= plan.last
  /\ StartSession(a)
  /\ Goto(a, "waiting")
  /\ try' = [try EXCEPT ![a] = 1]
  /\ UNCHANGED <<plan, file, here, rejected, authMu, tunnelVars, upVars>>

\* Its request fails, or the poll's.  Neither has a timeout: it may also never be
\* answered.
LoginFails(a) ==
  /\ pc[a] \in {"start", "asking"}
  /\ ReturnTo(a, FALSE)
  /\ UNCHANGED <<authVars, plan, file, here, rejected, try, tunnelVars, upVars>>

\* The head of the loop: ten minutes, as long as the session lives, are not over,
\* and after two seconds the next poll is sent...
PollSent(a) ==
  /\ pc[a] = "waiting" /\ now < session[a].until
  /\ Goto(a, "asking")
  /\ UNCHANGED <<authVars, plan, file, here, rejected, try, authMu, tunnelVars, upVars>>

\* Faulty variant: they only end the login once the session is not pending.
DeadlineAfterAnswer(a) ==
  /\ pc[a] = "waiting" /\ session[a].until <= now
  /\ session[a].status # "pending"
  /\ ReturnTo(a, FALSE)
  /\ UNCHANGED <<authVars, plan, file, here, rejected, try, tunnelVars, upVars>>

\* ... or they are.
LoginDeadline(a) ==
  /\ pc[a] = "waiting" /\ session[a].until <= now
  /\ ReturnTo(a, FALSE)
  /\ UNCHANGED <<authVars, plan, file, here, rejected, try, tunnelVars, upVars>>

\* The poll finds a session that nobody has approved yet.
PollPending(a) ==
  /\ pc[a] = "asking" /\ poll[a][try[a]].at = "none"
  /\ session[a].status = "pending" /\ now < session[a].until
  /\ Goto(a, "waiting")
  /\ UNCHANGED <<authVars, plan, file, here, rejected, try, authMu, tunnelVars, upVars>>

\* It finds the session approved; its transaction follows.
PollFindsApproved(a) ==
  /\ pc[a] = "asking"
  /\ PollReadsApproved(a, try[a], here)
  /\ UNCHANGED cliVars

\* It runs to its end even if the CLI has stopped waiting for the answer.
PollTransaction(a) ==
  /\ \E k \in Tries : PollCommit(a, k, UA(a))
  /\ UNCHANGED cliVars

\* Faulty variant: the transport asks again as often as it likes.
PollRepeatsAgain(a) ==
  /\ pc[a] = "asking" /\ try[a] # 0 /\ poll[a][1].at # "none" /\ plan.breaks
  /\ try' = [try EXCEPT ![a] = @ + 1]
  /\ UNCHANGED <<authVars, plan, file, here, pc, rejected, authMu, tunnelVars, upVars>>

\* The connection breaks before the answer, and the transport asks again.
PollRepeats(a) ==
  /\ pc[a] = "asking" /\ try[a] = 1 /\ poll[a][1].at # "none" /\ plan.breaks
  /\ try' = [try EXCEPT ![a] = 2]
  /\ UNCHANGED <<authVars, plan, file, here, pc, rejected, authMu, tunnelVars, upVars>>

\* Expired, or already consumed.
PollFindsOver(a) ==
  /\ pc[a] = "asking"
  /\ PollReadsOver(a, try[a])
  /\ ReturnTo(a, FALSE)
  /\ UNCHANGED <<plan, file, here, rejected, try, tunnelVars, upVars>>

\* The answer with the token: saveState truncates the file...
LoginTruncates(a) ==
  /\ pc[a] = "asking" /\ poll[a][try[a]].at = "done"
  /\ Goto(a, "saving")
  /\ file' = Torn
  /\ UNCHANGED <<authVars, plan, here, rejected, try, authMu, tunnelVars, upVars>>

\* ... and writes it.  A file that was removed meanwhile stays removed; one that
\* another process has written meanwhile may be left a mixture.
LoginSaves(a) ==
  /\ pc[a] = "saving"
  /\ \/ file # NoFile /\ file' = <<a, try[a]>>
     \/ file \in Tokens /\ file' = Torn
     \/ file = NoFile /\ UNCHANGED file
  /\ ReturnTo(a, TRUE)
  /\ UNCHANGED <<authVars, plan, here, rejected, try, tunnelVars, upVars>>

\* The other terminal.
TermLogsIn ==
  /\ plan.login /\ pc[Term] = "idle"
  /\ Goto(Term, "start")
  /\ UNCHANGED <<authVars, plan, file, here, rejected, try, authMu, tunnelVars, upVars>>

TermLogsOut ==
  /\ plan.logout /\ pc[Term] \in {"idle", "saved", "failed"}
  /\ Goto(Term, "gone")
  /\ file' = NoFile
  /\ UNCHANGED <<authVars, plan, here, rejected, try, authMu, tunnelVars, upVars>>

Moves ==
  /\ plan.moves
  /\ here' \in Ranges \ {here}
  /\ UNCHANGED <<authVars, plan, file, pc, rejected, try, authMu, tunnelVars, upVars>>

-----------------------------------------------------------------------------
(* The services of `up`. *)

upFixed == <<authVars, plan, file, here, rejected, try, authMu, tunnelVars>>

\* killTree of the services in `set`.  On Unix the signal reaches the shell alone;
\* on Windows the tree below a shell that still runs goes with it.
KillTrees(set) ==
  LET hit == {t \in set : child[t] = "alive"} IN
  /\ child' = [t \in Tunnels |-> IF t \in hit THEN "killed" ELSE child[t]]
  /\ kids' = IF plan.windows THEN kids \ hit ELSE kids

\* Faulty variant: shuttingDown is not set.
KillFirst(code) ==
  /\ KillTrees(list)
  /\ list' = {}
  /\ codes' = codes \cup {code}
  /\ UNCHANGED shutting

\* killChildren, and the exit that follows it.
KillChildren(code) ==
  /\ shutting' = TRUE
  /\ KillTrees(list)
  /\ list' = {}
  /\ codes' = codes \cup {code}

Entry == plan.entries[entry + 1]
More == pc[Main] = "loop" /\ entry < Len(plan.entries)

\* The goroutine of an entry; without a service it waits only for a health path.
Launch(t) ==
  /\ entry' = entry + 1
  /\ \E l \in IF t \in plan.run THEN {"gate"} ELSE {"gate", "load"} :
       pc' = [pc EXCEPT ![t] = l, ![Main] = "loop"]

\* serveStatic's listener or cmd.Start fails.
EntryFails ==
  /\ More /\ Entry \in plan.dir \cup plan.run
  /\ Goto(Main, "failed")
  /\ failed' = TRUE
  /\ KillChildren(1)
  /\ UNCHANGED <<upFixed, entry, waits, late, proc, asked>>

EntryLaunches ==
  /\ More /\ Entry \notin plan.run
  /\ Launch(Entry)
  /\ UNCHANGED <<upFixed, child, kids, list, waits, shutting, late, codes, proc, asked, failed>>

\* cmd.Start; the shell becomes the command, or spawns it.
ServiceStarts ==
  /\ More /\ Entry \in plan.run
  /\ Goto(Main, "listing")
  /\ child' = [child EXCEPT ![Entry] = "alive"]
  /\ kids' \in {kids, kids \cup {Entry}}
  /\ UNCHANGED <<upFixed, entry, list, waits, shutting, late, codes, proc, asked, failed>>

\* The append under childMu, the goroutine in Wait, the entry's goroutine.
ServiceListed ==
  /\ pc[Main] = "listing"
  /\ list' = list \cup {Entry}
  /\ waits' = waits \cup {Entry}
  /\ late' = IF shutting THEN late \cup {Entry} ELSE late
  /\ Launch(Entry)
  /\ UNCHANGED <<upFixed, child, kids, shutting, codes, proc, asked, failed>>

\* A service's shell exits by itself; what it has spawned may go on...
ServiceExits(t) ==
  /\ child[t] = "alive"
  /\ child' = [child EXCEPT ![t] = "exited"]
  /\ failed' = TRUE
  /\ UNCHANGED <<upFixed, pc, entry, kids, list, waits, shutting, late, codes, proc, asked>>

\* ... and ends by itself.
KidsExit(t) ==
  /\ t \in kids
  /\ kids' = kids \ {t}
  /\ UNCHANGED <<upFixed, pc, entry, child, list, waits, shutting, late, codes, proc,
                 asked, failed>>

\* Wait returns, at once or when the last process that holds the output pipe has
\* ended: everything stops, unless it is stopping already.
WaitReturns(t) ==
  /\ t \in waits /\ child[t] \in {"exited", "killed"}
  /\ waits' = waits \ {t}
  /\ IF shutting THEN UNCHANGED <<shutting, child, kids, list, codes>> ELSE KillChildren(1)
  /\ UNCHANGED <<upFixed, pc, entry, late, proc, asked, failed>>

\* Faulty variant: the services are left to themselves.
StoppedOnly ==
  /\ pc[Main] \in {"loop", "listing"} /\ ~asked /\ plan.stops
  /\ asked' = TRUE
  /\ codes' = codes \cup {0}
  /\ shutting' = TRUE
  /\ UNCHANGED <<upFixed, pc, entry, child, kids, list, waits, late, proc, failed>>

\* Ctrl-C, or the supervisor's connection closes.
Stopped ==
  /\ pc[Main] \in {"loop", "listing"} /\ ~asked /\ plan.stops
  /\ asked' = TRUE
  /\ KillChildren(0)
  /\ UNCHANGED <<upFixed, pc, entry, waits, late, proc, failed>>

Exit(code) ==
  /\ code \in codes
  /\ proc' = IF code = 0 THEN "exit 0" ELSE "exit 1"
  /\ UNCHANGED <<upFixed, pc, entry, child, kids, list, waits, shutting, late, codes, asked,
                 failed>>

-----------------------------------------------------------------------------
(* waitReady and startTunnel. *)

runFixed == <<plan, file, here, try, authMu, upVars>>

Ready(t) ==
  /\ pc[t] = "gate"
  /\ Goto(t, "load")
  /\ UNCHANGED <<authVars, rejected, tunnelVars, runFixed>>

NotReady(t) ==
  /\ pc[t] = "gate"
  /\ Goto(t, "ended")
  /\ failed' = TRUE
  /\ KillChildren(1)
  /\ UNCHANGED <<upFixed, entry, waits, late, proc, asked>>

\* Each attempt reads the token file, and goes without a token if it cannot.
Load(t) ==
  /\ pc[t] = "load"
  /\ tok' = [tok EXCEPT ![t] = FileToken]
  /\ Goto(t, "dial")
  /\ UNCHANGED <<authVars, rejected, who, why, runFixed>>

\* closeReason gives the whole text of the error, of which the reason in the
\* close frame is a part.
CloseReason(text) == [text |-> text, whole |-> FALSE]
ReauthRequired == [text |-> "reauth required", whole |-> TRUE]

ShouldReauthenticate(code, reason) ==
  code = PolicyViolation /\ reason = ReauthRequired

\* startTunnel's decision after connectTunnel: log in, give up, or try again.
\* A second rejection with no success in between is the last.
Closed(t, code, text) ==
  /\ why' = [why EXCEPT ![t] = [code |-> code, reason |-> text]]
  /\ who' = [who EXCEPT ![t] = Anonymous]
  /\ IF ShouldReauthenticate(code, CloseReason(text))
     THEN /\ Goto(t, IF rejected[t] # NoFile /\ pc[t] # "up" THEN "ended" ELSE "reauth")
          /\ rejected' = [rejected EXCEPT ![t] = tok[t]]
     ELSE /\ Goto(t, IF code \in {1002, PolicyViolation} THEN "ended" ELSE "backoff")
          /\ rejected' = IF pc[t] = "up" THEN [rejected EXCEPT ![t] = NoFile] ELSE rejected
  /\ UNCHANGED <<authVars, tok, runFixed>>

\* No answer; or a version the server refuses.
DialFails(t) == pc[t] = "dial" /\ Closed(t, 0, "unreachable")
DialRefused(t) == pc[t] = "dial" /\ Closed(t, PolicyViolation, "incompatible version")

DialRejected(t) ==
  /\ pc[t] = "dial"
  /\ tok[t] # NoFile /\ ~Accepts(tok[t], here, Agent)
  /\ Closed(t, PolicyViolation, "reauth required")

Connected(t) ==
  /\ pc[t] = "dial"
  /\ Goto(t, "up")
  /\ IF tok[t] = NoFile THEN UNCHANGED <<authVars, who>>
     ELSE /\ Accepts(tok[t], here, Agent) /\ Renew(tok[t], here)
          /\ who' = [who EXCEPT ![t] = <<token[tok[t]].by, here>>]
  /\ UNCHANGED <<rejected, tok, why, runFixed>>

\* The connection is lost, the tunnel's 24 hours end, or a frame is not JSON.
Drops(t) == pc[t] = "up" /\ Closed(t, 1006, "lost")
Expires(t) == pc[t] = "up" /\ Closed(t, PolicyViolation, "tunnel expired")
Garbled(t) == pc[t] = "up" /\ Closed(t, 1002, "protocol error")

Wakes(t) ==
  /\ pc[t] = "backoff"
  /\ Goto(t, "load")
  /\ UNCHANGED <<authVars, rejected, tunnelVars, runFixed>>

-----------------------------------------------------------------------------
Login(a) ==
  \/ ReauthFails(a) \/ ReauthElsewhere(a) \/ ReauthLogsIn(a)
  \/ LoginStarts(a) \/ LoginFails(a) \/ PollSent(a) \/ LoginDeadline(a)
  \/ PollPending(a) \/ PollFindsApproved(a) \/ PollRepeats(a) \/ PollFindsOver(a)
  \/ LoginTruncates(a) \/ LoginSaves(a)

Up ==
  \/ PrepareDone \/ PrepareFails \/ PrepareReauthenticates
  \/ EntryFails \/ EntryLaunches \/ ServiceStarts \/ ServiceListed
  \/ Stopped \/ \E code \in {0, 1} : Exit(code)

Tunnel(t) ==
  \/ Ready(t) \/ NotReady(t) \/ Load(t) \/ DialFails(t) \/ DialRefused(t)
  \/ DialRejected(t) \/ Connected(t) \/ Drops(t) \/ Expires(t) \/ Garbled(t)
  \/ Wakes(t) \/ WaitReturns(t)

Next ==
  \/ now < plan.last /\ Tick /\ UNCHANGED cliVars
  \/ \E l \in Logins : \E u \in plan.opens[l] :
       (VerifyRead(l, u) \/ VerifyCommit(l, u)) /\ UNCHANGED cliVars
  \/ \E a \in Agents : PollTransaction(a) \/ (Running(a) /\ Login(a))
  \/ proc = "running" /\ (Up \/ \E t \in Tunnels : Tunnel(t))
  \/ \E t \in Tunnels : ServiceExits(t) \/ KidsExit(t)
  \/ TermLogsIn \/ TermLogsOut \/ Moves

\* Time passes, and the main goroutine goes on.  The status request of prepare has
\* a timeout of five seconds; the requests of login have none, so that nothing
\* makes them end, and nothing makes a user approve.
Fairness ==
  /\ WF_vars(now < plan.last /\ Tick /\ UNCHANGED cliVars)
  /\ WF_vars(PrepareDone \/ PrepareFails \/ PrepareReauthenticates)
  /\ WF_vars(ReauthFails(Main) \/ ReauthLogsIn(Main))
  /\ WF_vars(PollSent(Main) \/ LoginDeadline(Main))
  /\ WF_vars(LoginSaves(Main))

Spec == Init /\ [][Next]_vars
FairSpec == Spec /\ Fairness

-----------------------------------------------------------------------------
\* No service on the list when the shutdown begins outlives the process,
\* whichever of the five ways to stop comes first: one whose shell does was started
\* before its turn on the list came, or listed when the list had been walked.  On
\* Windows nothing is left of what a killed shell had spawned either.
NoServiceLeftBehind ==
  proc # "running" =>
    \A t \in Tunnels :
      /\ child[t] = "alive" => t \in late \/ (pc[Main] = "listing" /\ t = Entry)
      /\ plan.windows /\ t \in kids => child[t] # "killed"

\* When a failure ends `up`, and no signal of the terminal has reached its
\* services, a service is killed as a tree: SPEC.md says so of exit and ctrl-c, and
\* killTree's comment of the descendants that its shell spawned.
KilledAsATree ==
  proc = "exit 1" => \A t \in kids : child[t] # "killed"

\* Exit code 0 is for a stop that was asked for, 1 for a service that exited by
\* itself, was not ready or did not start: a service that dies because it is
\* killed is not taken for one that failed.
ExitCodeTells ==
  /\ proc = "exit 0" => asked
  /\ proc = "exit 1" => failed

\* A tunnel that the server rejects for its token does not end there:
\* SPEC.md has the login flow start.
RejectedIsNotTheEnd ==
  \A t \in Tunnels : pc[t] = "ended" => why[t].reason # "reauth required"

\* prepareTunnelAuth comes to an end, with a token, without need of one, or with an
\* error, even if nobody approves the login; as long as the login's own requests,
\* which have no timeout, end.
PrepareEnds ==
  []<>(pc[Main] \notin {"start", "asking"}) =>
    ((pc[Main] = "idle") ~> (pc[Main] \in {"loop", "listing", "failed"}))
=============================================================================
