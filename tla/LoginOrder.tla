----------------------------- MODULE LoginOrder -----------------------------
(***************************************************************************)
(* Which logins create_session() keeps.  Its comment promises the newest   *)
(* ones; the row records only when a session expires, so the time of each  *)
(* login is remembered here, beside the table.                             *)
(***************************************************************************)
EXTENDS Auth

VARIABLE logins      \* auxiliary: [token, at] for every session in the table

orderVars == <<vars, logins>>

OrderInit == Init /\ logins = {}

\* The logins of the sessions left, and one at this second for each new session.
OrderNext ==
  /\ Next
  /\ logins' =
       {l \in logins : \E s \in sessions \cap sessions' : s.token = l.token}
         \cup {[token |-> s.token, at |-> now] : s \in sessions' \ sessions}

OrderSpec == OrderInit /\ [][OrderNext]_orderVars
-----------------------------------------------------------------------------
LoginTimes(s) == {l.at : l \in {x \in logins : x.token = s.token}}

\* auth.py:229: "A single administrator keeps the 20 newest logins."  When a login
\* pushes out a session that has not expired, every session it keeps is at least
\* as recent.
NewestLoginsKept ==
  [][~(sessions' \subseteq sessions) =>
       \A s \in Live(sessions) \ sessions', k \in sessions \cap sessions' :
         \A t \in LoginTimes(s), u \in LoginTimes(k) : t <= u]_orderVars
=============================================================================
