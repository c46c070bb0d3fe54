---------------------------- MODULE MCCliProcess ----------------------------
(***************************************************************************)
(* Model values for CliProcess: a tunnel with a prefix that starts from an *)
(* old token, approved by either of two users or under the hands of        *)
(* another terminal; and entries with services or a directory, which need  *)
(* no login.                                                               *)
(***************************************************************************)
EXTENDS CliProcess

CONSTANTS t1, t2

Both(a, b) == [l \in Logins |-> CASE l = Main -> a [] l = Term -> b [] OTHER -> {}]

Named ==
  [entries |-> <<t1>>, run |-> {}, dir |-> {}, named |-> TRUE, file |-> Old,
   login |-> FALSE, logout |-> FALSE, moves |-> TRUE, stops |-> FALSE,
   breaks |-> TRUE, opens |-> Both({"u1", "u2"}, {}), last |-> 2, agent |-> Agent,
   windows |-> FALSE]

Shared ==
  [Named EXCEPT !.login = TRUE, !.logout = TRUE, !.moves = FALSE,
                !.breaks = FALSE, !.opens = Both({"u1"}, {"u1"})]

\* The other terminal runs another version.
Newer == [Shared EXCEPT !.agent = "v2", !.logout = FALSE, !.last = 1]

Services ==
  [Named EXCEPT !.entries = <<t1, t2>>, !.run = {t1, t2}, !.named = FALSE,
                !.file = NoFile, !.moves = FALSE, !.stops = TRUE, !.last = 0]

Directory == [Services EXCEPT !.run = {t1}, !.dir = {t2}]

Windows == [Directory EXCEPT !.windows = TRUE]

PlanValues == {Named, Shared, Newer, Services, Directory, Windows}
=============================================================================
