--------------------------- MODULE MCPublicSocket ---------------------------
(***************************************************************************)
(* Model values for PublicSocket.  One visitor talks while its link drops  *)
(* once: mostly towards the local app, or towards the visitor only; either *)
(* with an empty message in between.  Two visitors share a link: the dial  *)
(* of one stands between the frames of the other.  Last, one visitor talks *)
(* over a bus that lets events overtake one another.                       *)
(***************************************************************************)
EXTENDS PublicSocket

CONSTANTS talker, other

Silent == [v \in Visitors |-> 0]
Talk(n) == [Silent EXCEPT ![talker] = n]

LoadValues ==
  {[come |-> {talker}, leave |-> {talker}, ordered |-> TRUE,
    sent |-> Talk(2), said |-> Talk(1), blank |-> Silent, drops |-> 1],
   [come |-> {talker}, leave |-> {talker}, ordered |-> TRUE,
    sent |-> Silent, said |-> Talk(2), blank |-> Talk(1), drops |-> 1],
   [come |-> {talker}, leave |-> {}, ordered |-> TRUE,
    sent |-> Talk(2), said |-> Silent, blank |-> Talk(1), drops |-> 0],
   [come |-> {talker, other}, leave |-> {talker}, ordered |-> TRUE,
    sent |-> Talk(1), said |-> Silent, blank |-> Silent, drops |-> 0],
   [come |-> {talker}, leave |-> {talker}, ordered |-> FALSE,
    sent |-> Talk(2), said |-> Talk(1), blank |-> Silent, drops |-> 0]}
=============================================================================
