------------------------------- MODULE Account ------------------------------
(***************************************************************************)
(* The account forms of main.tsx in one browser: signing in with or        *)
(* without a second factor, enrolling and managing the second factor, the  *)
(* one-time recovery codes, changing the password and signing out, under   *)
(* the guard that asks who is signed in.                                   *)
(*                                                                         *)
(* A call is a request under way.  It carries the cookies the browser had  *)
(* when it was sent, and its answer sets cookies whatever the page thinks  *)
(* of it by then; live() of useOperation() says whether the form that sent *)
(* it still takes the answer.  The server is what Auth models in detail:   *)
(* here it keeps the sessions and the challenges it accepts.               *)
(***************************************************************************)
EXTENDS Naturals, FiniteSets

CONSTANTS MaxId, MaxCalls     \* bounds of the model: cookies issued, calls under way

ASSUME AccountAssumption == MaxId \in Nat \ {0} /\ MaxCalls \in Nat \ {0}

VARIABLES
  route,     \* "login", "settings", or "away": another protected page
  held,      \* the reads whose data the cache holds
  stage,     \* of the login form: "password", or "code" while challengeActive
  mode,      \* of TwoFactorSettings, where "scan" is an enrollment on show
  codes,     \* whether one-time recovery codes are on show
  calls,
  jar,       \* cookies of the browser
  server

page == <<route, held, stage, mode, codes>>
accountVars == <<page, calls, jar, server>>

None == 0
Id == 1..MaxId
Cookie == {"session", "challenge"}
Jar == [Cookie -> Id \cup {None}]
Cookies(session, challenge) ==
  [name \in Cookie |-> IF name = "session" THEN session ELSE challenge]
NoCookies == Cookies(None, None)
\* The jar after an answer.
SetCookies(sets, old) ==
  [name \in Cookie |-> IF name \in DOMAIN sets THEN sets[name] ELSE old[name]]

Read == {"me", "settings"}
SignIn == {"login", "verify"}
Factor == {"enroll", "confirm", "regenerate", "disable"}
Op == Read \cup SignIn \cup Factor \cup {"cancel", "password", "logout"}
Call ==
  [op : Op, at : {"waiting", "sent", "answered"}, live : BOOLEAN, jar : Jar,
   status : {"none", "ok", "challenge", "refused", "gone"},
   sets : UNION {[names -> Id \cup {None}] : names \in SUBSET Cookie}]

Request(op) ==
  [op |-> op, at |-> "sent", live |-> TRUE, jar |-> jar, status |-> "none", sets |-> <<>>]

Pending(ops) == \E c \in calls : c.op \in ops /\ c.live
\* The operation is cancelled, or its form goes away.
Outdated(cs, ops) == {IF c.op \in ops THEN [c EXCEPT !.live = FALSE] ELSE c : c \in cs}
Room == Cardinality(calls) < MaxCalls
Ask(op) == Room /\ calls' = calls \cup {Request(op)}

\* Protected and SettingsPage show their forms once they have read what they need.
FormsShown == route = "settings" /\ Read \subseteq held

-----------------------------------------------------------------------------
(* Pages come and go. *)

\* A page that goes away outdates what its forms wait for.  The login form gives up
\* the challenge it has on show, and nobody waits for that call.
Abandoned(cs) ==
  CASE route = "login" ->
         Outdated(cs, SignIn \cup {"cancel"})
           \cup {[Request("cancel") EXCEPT !.live = FALSE] : s \in {stage} \cap {"code"}}
    [] route = "settings" -> Outdated(cs, Factor \cup {"password"})
    [] OTHER -> cs
Fresh == stage' = "password" /\ mode' = "idle" /\ codes' = FALSE

Goto(r) ==
  /\ r # route /\ Room
  /\ route' = r /\ calls' = Abandoned(calls) /\ Fresh
  /\ UNCHANGED <<held, jar, server>>

\* A query of the page on show is read, at first and whenever it is stale.
Refetch(q) ==
  /\ \/ q = "me" /\ route # "login"
     \/ q = "settings" /\ route = "settings" /\ "me" \in held
  /\ ~Pending({q})
  /\ Ask(q)
  /\ UNCHANGED <<route, held, stage, mode, codes, jar, server>>

-----------------------------------------------------------------------------
(* The forms. *)

\* cancellation.current.then(...): the login is sent after the form's own cancel.
SubmitPassword ==
  /\ route = "login" /\ stage = "password" /\ ~Pending(SignIn)
  /\ Room
  /\ calls' = calls \cup {[Request("login") EXCEPT !.at = "waiting"]}
  /\ UNCHANGED <<route, held, stage, mode, codes, jar, server>>
\* Variant: the login does not wait.
NothingToAwait == TRUE
CancelIsDone ==
  ~Pending({"cancel"})
Send(c) ==
  /\ c.at = "waiting" /\ CancelIsDone
  /\ calls' = (calls \ {c}) \cup {[c EXCEPT !.at = "sent", !.jar = jar]}
  /\ UNCHANGED <<route, held, stage, mode, codes, jar, server>>

SubmitCode ==
  /\ route = "login" /\ stage = "code" /\ ~Pending(SignIn)
  /\ Ask("verify")
  /\ UNCHANGED <<route, held, stage, mode, codes, jar, server>>
CancelSignIn ==
  /\ route = "login" /\ stage = "code" /\ Room
  /\ stage' = "password"
  /\ calls' = Outdated(calls, SignIn) \cup {Request("cancel")}
  /\ UNCHANGED <<route, held, mode, codes, jar, server>>

\* The forms of TwoFactorSettings; which of them are offered is the server's business.
Open(m) ==
  /\ FormsShown /\ mode = "idle" /\ ~codes
  /\ mode' = m
  /\ UNCHANGED <<route, held, stage, codes, calls, jar, server>>
OpOf(m) ==
  CASE m = "enroll" -> "enroll" [] m = "scan" -> "confirm"
    [] m = "recovery" -> "regenerate" [] m = "disable" -> "disable"
SubmitFactor ==
  /\ FormsShown /\ mode # "idle" /\ ~codes /\ ~Pending(Factor)
  /\ Ask(OpOf(mode))
  /\ UNCHANGED <<route, held, stage, mode, codes, jar, server>>
CancelFactor ==
  /\ FormsShown /\ mode # "idle" /\ ~codes
  /\ mode' = "idle" /\ calls' = Outdated(calls, Factor)
  /\ UNCHANGED <<route, held, stage, codes, jar, server>>
\* The timer of the enrollment on show.
ExpireEnrollment ==
  /\ FormsShown /\ mode = "scan" /\ ~codes
  /\ mode' = "enroll" /\ calls' = Outdated(calls, Factor)
  /\ UNCHANGED <<route, held, stage, codes, jar, server>>
CodesSaved ==
  /\ FormsShown /\ codes
  /\ codes' = FALSE /\ mode' = "idle"
  /\ UNCHANGED <<route, held, stage, calls, jar, server>>

\* PasswordChange, and the button that signs out.
Submit(op) ==
  /\ FormsShown /\ ~Pending({op})
  /\ Ask(op)
  /\ UNCHANGED <<route, held, stage, mode, codes, jar, server>>

-----------------------------------------------------------------------------
(* The server answers: what it changes and which cookies the answer sets. *)

Reply(c, status, sets) ==
  /\ c.at = "sent"
  /\ calls' = (calls \ {c}) \cup {[c EXCEPT !.at = "answered", !.status = status, !.sets = sets]}
  /\ UNCHANGED <<page, jar>>
SignedIn(cookies) == cookies["session"] \in server.sessions
Challenged(cookies) == cookies["challenge"] \in server.challenges
Issue == server.last + 1
CanIssue == Issue \in Id
NewSession == Cookies(Issue, None)

ServeRead(c) ==
  /\ c.op \in Read /\ UNCHANGED server
  /\ Reply(c, IF SignedIn(c.jar) THEN "ok" ELSE "gone", <<>>)
Refuse(c) ==
  /\ c.op \notin Read \cup {"cancel"} /\ UNCHANGED server
  /\ Reply(c, "refused", <<>>)
ServeLogin(c) ==
  /\ c.op = "login" /\ CanIssue
  /\ IF server.factor
     THEN /\ server' = [server EXCEPT !.last = Issue, !.sessions = @ \ {c.jar["session"]},
                          !.challenges = (@ \ {c.jar["challenge"]}) \cup {Issue}]
          /\ Reply(c, "challenge", Cookies(None, Issue))
     ELSE /\ server' = [server EXCEPT !.last = Issue, !.sessions = @ \cup {Issue}]
          /\ Reply(c, "ok", NewSession)
ServeVerify(c) ==
  /\ c.op = "verify" /\ CanIssue /\ Challenged(c.jar)
  /\ server' = [server EXCEPT !.last = Issue, !.sessions = @ \cup {Issue},
                  !.challenges = @ \ {c.jar["challenge"]}]
  /\ Reply(c, "ok", NewSession)
ServeCancel(c) ==
  /\ c.op = "cancel"
  /\ server' = [server EXCEPT !.challenges = @ \ {c.jar["challenge"]}]
  /\ Reply(c, "ok", [name \in {"challenge"} |-> None])
ServeEnroll(c) ==
  /\ c.op = "enroll" /\ SignedIn(c.jar) /\ ~server.factor
  /\ server' = [server EXCEPT !.enrollment = c.jar["session"]]
  /\ Reply(c, "ok", <<>>)
\* Confirming and regenerating leave no session but the new one.
ServeCodes(c) ==
  /\ SignedIn(c.jar) /\ CanIssue
  /\ \/ c.op = "confirm" /\ ~server.factor /\ server.enrollment = c.jar["session"]
     \/ c.op = "regenerate" /\ server.factor
  /\ server' = [last |-> Issue, factor |-> TRUE, enrollment |-> None,
                 sessions |-> {Issue}, challenges |-> {}]
  /\ Reply(c, "ok", NewSession)
ServeRevocation(c) ==
  /\ SignedIn(c.jar)
  /\ (c.op = "disable" /\ server.factor) \/ c.op = "password"
  /\ server' = [last |-> server.last, factor |-> server.factor /\ c.op # "disable",
                 enrollment |-> None, sessions |-> {}, challenges |-> {}]
  /\ Reply(c, "ok", NoCookies)
ServeLogout(c) ==
  /\ c.op = "logout" /\ SignedIn(c.jar)
  /\ server' = [server EXCEPT !.sessions = @ \ {c.jar["session"]},
                  !.challenges = @ \ {c.jar["challenge"]}]
  /\ Reply(c, "ok", NoCookies)
\* Another device changes the password, or the time of an enrollment is over.
Elsewhere ==
  /\ server' \in {[server EXCEPT !.sessions = {}, !.challenges = {}, !.enrollment = None],
                  [server EXCEPT !.enrollment = None]}
  /\ UNCHANGED <<page, calls, jar>>

-----------------------------------------------------------------------------
(* An answer lands. *)

Landed(c) == c.at = "answered"
\* Variant: a form takes every answer.
AlwaysLive(c) == TRUE
Live(c) ==
  c.live
Taken(c) == calls \ {c}
\* clearAuthenticatedSession(), and the login page.  What is read is forgotten.
SignOut(c) ==
  /\ route' = "login" /\ held' = {}
  /\ calls' = {d \in (IF route = "login" THEN Taken(c) ELSE Abandoned(Taken(c))) : d.op \notin Read}
  /\ IF route = "login" THEN UNCHANGED <<stage, mode, codes>> ELSE Fresh

\* Variant: what is being read is not asked for anew.
ReadingOn(c) == Taken(c)
\* refreshAfterFactorRotation(): invalidating a query abandons the read under way.
ReadAnew(c) ==
  {d \in Taken(c) : d.op \notin Read} \cup {[Request(q) EXCEPT !.jar = c.sets] : q \in Read}

LandRead(c) ==
  /\ c.op \in Read
  /\ CASE c.status = "ok" ->
            /\ held' = held \cup {c.op} /\ calls' = Taken(c)
            /\ UNCHANGED <<route, stage, mode, codes>>
       [] c.status = "gone" /\ (route = "settings" \/ (route = "away" /\ c.op = "me")) -> SignOut(c)
       [] OTHER -> calls' = Taken(c) /\ UNCHANGED page

LandOn(r, c) ==
  /\ route' = r /\ held' = {} /\ Fresh
  /\ calls' = {d \in Outdated(Taken(c), SignIn \cup {"cancel"}) : d.op \notin Read}
LandSignIn(c) ==
  /\ c.op \in SignIn
  /\ CASE c.status = "ok" -> LandOn("away", c)
       [] c.status = "challenge" ->
            /\ stage' = "code" /\ held' = {}
            /\ calls' = {d \in Taken(c) : d.op \notin Read}
            /\ UNCHANGED <<route, mode, codes>>
       [] OTHER -> calls' = Taken(c) /\ UNCHANGED page

LandFactor(c) ==
  /\ c.op \in {"enroll", "confirm", "regenerate"}
  /\ IF c.status = "ok" /\ c.op # "enroll"
     THEN codes' = TRUE /\ mode' = IF mode = "scan" THEN "enroll" ELSE mode
     ELSE
       /\ mode' \in (IF c.op = "enroll" THEN {IF c.status = "ok" THEN "scan" ELSE mode}
                    ELSE IF c.op = "confirm" THEN {mode, "enroll"} ELSE {mode})
       /\ UNCHANGED codes
  /\ calls' = IF c.status = "ok" /\ c.op # "enroll" THEN ReadAnew(c) ELSE Taken(c)
  /\ UNCHANGED <<route, held, stage>>

LandEnd(c) ==
  /\ c.op \in {"disable", "password", "logout"}
  /\ IF c.status = "ok" THEN SignOut(c) ELSE calls' = Taken(c) /\ UNCHANGED page

Land(c) ==
  /\ Landed(c) /\ jar' = SetCookies(c.sets, jar)
  /\ UNCHANGED server
  /\ IF Live(c) /\ c.op # "cancel"
     THEN LandRead(c) \/ LandSignIn(c) \/ LandFactor(c) \/ LandEnd(c)
     ELSE calls' = Taken(c) /\ UNCHANGED page

\* The request or its answer is lost: the form says so, and the page stays.
Lose(c) ==
  /\ c.at # "waiting"
  /\ calls' = Taken(c) /\ UNCHANGED <<page, jar, server>>

-----------------------------------------------------------------------------
AccountInit ==
  /\ calls = {} /\ stage = "password" /\ mode = "idle" /\ codes = FALSE
  /\ \/ route = "settings" /\ held = Read /\ jar = Cookies(1, None)
     \/ route = "login" /\ held = {} /\ jar = NoCookies
  /\ server \in [last : {1}, factor : BOOLEAN, enrollment : {None},
                 sessions : {{1}}, challenges : {{}}]

AdministratorStep ==
  \/ \E r \in {"login", "settings", "away"} : Goto(r)
  \/ SubmitPassword \/ SubmitCode \/ CancelSignIn
  \/ \E m \in {"enroll", "recovery", "disable"} : Open(m)
  \/ SubmitFactor \/ CancelFactor \/ CodesSaved
  \/ Submit("password") \/ Submit("logout")

Serve(c) ==
  \/ ServeRead(c) \/ Refuse(c) \/ ServeLogin(c) \/ ServeVerify(c) \/ ServeCancel(c)
  \/ ServeEnroll(c) \/ ServeCodes(c) \/ ServeRevocation(c) \/ ServeLogout(c)

AccountNext ==
  \/ AdministratorStep \/ ExpireEnrollment \/ Elsewhere
  \/ \E q \in Read : Refetch(q)
  \/ \E c \in calls : Send(c) \/ Serve(c) \/ Land(c) \/ Lose(c)

AccountSpec == AccountInit /\ [][AccountNext]_accountVars

-----------------------------------------------------------------------------
(* Properties. *)

AccountTypeOK ==
  /\ route \in {"login", "settings", "away"} /\ held \subseteq Read
  /\ stage \in {"password", "code"} /\ mode \in {"idle", "enroll", "scan", "recovery", "disable"}
  /\ codes \in BOOLEAN /\ calls \subseteq Call /\ jar \in Jar
  /\ server \in [last : Id, factor : BOOLEAN, enrollment : Id \cup {None},
                 sessions : SUBSET Id, challenges : SUBSET Id]
  /\ route # "login" => stage = "password"
  /\ route # "settings" => mode = "idle" /\ ~codes

\* "A transient refetch error must not unmount local forms or one-time secrets"
\* (main.tsx:1509): recovery codes on show give way to the administrator, to an answer
\* that a form still waits for, or when the browser's session has ended; never to a
\* read of before the session rotated, nor to a failed one.
CodesStay ==
  [][ codes /\ ~codes' =>
        \/ AdministratorStep
        \/ \E c \in calls : c.live /\ c.op \notin Read /\ Land(c)
        \/ ~SignedIn(jar) ]_accountVars

\* The login form's own cancel never takes the challenge of the login that follows:
\* while a code is asked for, the challenge cookie changes only with the answer to it,
\* with that of a call nobody waits for, or when a sign-out from before is answered.
CancelsComeFirst ==
  [][ stage = "code" /\ stage' = "code" /\ jar'["challenge"] # jar["challenge"] =>
        \E c \in calls : Land(c) /\ (~c.live \/ c.op = "logout") ]_accountVars
=============================================================================
