----------------------------- MODULE MCSessions -----------------------------
(***************************************************************************)
(* One configuration for what holds whatever overlaps and whatever is cut  *)
(* short, and for what holds until something is.                           *)
(***************************************************************************)
EXTENDS Sessions, TLC

VARIABLE disturbed   \* history: requests have overlapped, or one was cut short

MCInit == Init /\ disturbed = FALSE
MCNext ==
  \/ \E r \in Slots :
       \/ Serve(r) /\ disturbed' = (disturbed \/ \E other \in Slots \ {r} : ~Free(other))
       \/ Interrupted(r) /\ disturbed' = (disturbed \/ requests[r].pc # "refresh.user")
  \/ \E t \in Tokens : Expire(t) /\ UNCHANGED disturbed
MCSpec == MCInit /\ [][MCNext]_<<vars, disturbed>>

\* A sign-in has one live refresh token, or none, but for the moment in which
\* a rotation has issued the next (tokens.service.ts: rotate revokes the one it
\* was given), as long as requests are served one at a time and to their end.
SerialOneLivePerLogin == ~disturbed => OneLivePerLogin

\* A password change that nothing overlaps and nothing cuts short leaves no
\* session verified against an older password (auth.service.ts: changePassword).
SerialPasswordEndsSessions == ~disturbed => PasswordEndsSessions

Sym == Permutations(Tokens) \cup Permutations(Slots)
=============================================================================
