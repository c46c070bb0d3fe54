--------------------------- MODULE PublicExchange ---------------------------
(***************************************************************************)
(* What the public proxy promises about the HTTP exchanges it relays,      *)
(* without sockets, frames, timers or events: an exchange is refused or    *)
(* opened, an open one passes body chunks to the visitor in the order the  *)
(* local app wrote them, and it settles once, at which moment its usage is *)
(* counted.  A settled exchange never moves again.                         *)
(***************************************************************************)
EXTENDS Naturals, Sequences

CONSTANT Requests   \* the visitors' HTTP requests

VARIABLES phase,    \* "new", "open" or "settled"
          body,     \* the chunks passed to the visitor's response stream
          counted   \* how often the exchange was added to the usage counter

vars == <<phase, body, counted>>

Init ==
  /\ phase = [r \in Requests |-> "new"]
  /\ body = [r \in Requests |-> <<>>]
  /\ counted = [r \in Requests |-> 0]

\* Answered by the proxy itself, before any tunnel is asked.
Refuse(r) ==
  /\ phase[r] = "new"
  /\ phase' = [phase EXCEPT ![r] = "settled"]
  /\ counted' = [counted EXCEPT ![r] = 1]
  /\ body' = body

Open(r) ==
  /\ phase[r] = "new"
  /\ phase' = [phase EXCEPT ![r] = "open"]
  /\ UNCHANGED <<body, counted>>

\* Chunks are numbered by the order in which the local app wrote them.
Pass(r) ==
  /\ phase[r] = "open"
  /\ body' = [body EXCEPT ![r] = Append(@, Len(@) + 1)]
  /\ UNCHANGED <<phase, counted>>

\* One exchange ends, or a shutdown of the proxy ends several at once.
Settle(S) ==
  /\ \A r \in S : phase[r] = "open"
  /\ phase' = [r \in Requests |-> IF r \in S THEN "settled" ELSE phase[r]]
  /\ counted' = [r \in Requests |-> IF r \in S THEN 1 ELSE counted[r]]
  /\ body' = body

Next ==
  \/ \E r \in Requests : Refuse(r) \/ Open(r) \/ Pass(r)
  \/ \E S \in SUBSET Requests : Settle(S)

Spec == Init /\ [][Next]_vars
=============================================================================
