------------------------------- MODULE Client -------------------------------
(***************************************************************************)
(* The browser client of frontend/src/api/client.ts and the CSRF check of  *)
(* backend/matescope/auth.py.  Tabs share one cookie jar, and each caches  *)
(* a token of its own in csrfToken.  A write carries the cached token in a *)
(* header and the jar's in the cookie; the server accepts it when the two  *)
(* are equal and not expired.  It stores nothing.                          *)
(*                                                                         *)
(* An exchange with the server has three moments: the server sees the      *)
(* cookie the browser attached and answers; the answer's Set-Cookie lands  *)
(* in the jar; the script that awaits the answer goes on.  Attaching the   *)
(* cookie and answering are one step: in between nothing else reads or     *)
(* writes what this exchange depends on.  A continuation of the script is  *)
(* one step, because a tab runs one at a time.                             *)
(***************************************************************************)
EXTENDS Integers, FiniteSets

CONSTANTS
  Tab,          \* tabs of one browser
  Call, NoCall, \* what a tab may have under way
  TabOf,        \* the tab of a call
  Token,        \* CSRF tokens, used again once nobody holds them
  KindsOf,      \* what a call may ask for, of the kinds below
  NoToken,      \* no cookie; the empty string in a header or in csrfToken
  MaxExpiries   \* bound of the model: how many tokens expire

(* A status is the GET of /setup/status, whose token the sign-in page caches; *)
(* a save is any write of the settings; a proof is a one-time post that      *)
(* answers with a new token (sign-in, verify, confirm, new recovery codes);  *)
(* a leave is one whose answer deletes the cookies (password, disable); a    *)
(* cancel changes no cookie of this module.                                  *)
Kind == {"status", "save", "logout", "proof", "leave", "cancel"}
OneTime == {"proof", "leave", "cancel"}    \* posted by oneTimePost
Form == {"proof", "leave"}                 \* guarded by useOperation
Clearing == {"logout", "leave"}            \* answers that delete the cookie


ASSUME ClientAssumption ==
  /\ TabOf \in [Call -> Tab] /\ KindsOf \in [Call -> SUBSET Kind]
  /\ IsFiniteSet(Call) /\ IsFiniteSet(Tab) /\ IsFiniteSet(Token)
  \* The jar, each tab and each call, in its header or its answer, may hold one.
  /\ Cardinality(Token) > 1 + Cardinality(Tab) + Cardinality(Call)
  /\ NoToken \notin Token /\ NoCall \notin Call
  /\ MaxExpiries \in Nat

VARIABLES
  jar,         \* the cookie matescope_csrf
  expired,     \* tokens past their expiry
  csrfToken,   \* per tab
  generation,  \* per tab: the call whose result a form still waits for, or none
  calls,       \* per call: where it stands
  cookies,     \* whether the browser keeps the site's cookies
  expiries     \* how many tokens expired so far

vars == <<jar, expired, csrfToken, generation, calls, cookies, expiries>>

Idle == [at |-> "idle"]

AnyToken == Token \cup {NoToken}
Busy ==
  [at : {"fetching", "send", "again", "sent", "answered", "landed"},
   kind : Kind,
   retry : BOOLEAN,            \* retryCsrf: the write has not been repeated yet
   then : {"send", "again"},   \* what follows a refresh
   header : AnyToken,          \* forgotten once the server let the write through
   verdict : {"none", "token", "ok", "refused", "csrf"},
   body : AnyToken,            \* csrf_token of the answer
   cookie : {"keep", "clear", "set"},   \* what the answer does to the jar
   sends : 0..2,               \* auxiliary: how often the write was sent
   applied : 0..2]             \* auxiliary: how often it took effect

ClientTypeOK ==
  /\ jar \in AnyToken /\ expired \subseteq Token
  /\ csrfToken \in [Tab -> AnyToken]
  /\ generation \in [Tab -> Call \cup {NoCall}]
  /\ calls \in [Call -> Busy \cup {Idle}]
  /\ cookies \in BOOLEAN /\ expiries \in 0..MaxExpiries

Init ==
  /\ jar = NoToken /\ expired = {}
  /\ csrfToken = [t \in Tab |-> NoToken]
  /\ generation = [t \in Tab |-> NoCall]
  /\ calls = [c \in Call |-> Idle]
  /\ cookies \in BOOLEAN /\ expiries = 0

At(c, places) == calls[c].at \in places

-----------------------------------------------------------------------------
(* The server. *)

Held ==
  {jar} \cup {csrfToken[t] : t \in Tab}
    \cup UNION {{calls[c].header, calls[c].body} : c \in {d \in Call : calls[d] # Idle}}
Fresh == CHOOSE t \in Token : t \notin Held

\* valid_csrf()
ValidCsrf(token) == token # NoToken /\ token \notin expired

\* Variant: an expired cookie is handed out again.
IssueStale(rotate) == IF rotate \/ jar = NoToken THEN Fresh ELSE jar
\* issue_csrf(): the cookie's token while it is valid, otherwise a new one.
Issue(rotate) == IF rotate \/ ~ValidCsrf(jar) THEN Fresh ELSE jar

\* require_csrf()
RequireCsrf(header) == ValidCsrf(jar) /\ header = jar

\* An answer with a token.  A cookie that is already in the jar is not set again.
AnswerToken(c, verdict, rotate) ==
  LET token == Issue(rotate)
      set == token # jar
  IN /\ calls' = [calls EXCEPT
            ![c].at = IF set THEN "answered" ELSE "landed",
            ![c].verdict = verdict, ![c].header = NoToken, ![c].body = token,
            ![c].cookie = IF set THEN "set" ELSE "keep",
            ![c].applied = IF verdict = "ok" THEN @ + 1 ELSE @]
     /\ expired' = IF set THEN expired \ {token} ELSE expired

\* GET /auth/csrf and GET /setup/status
ServeToken(c) ==
  /\ \/ At(c, {"fetching"})
     \/ At(c, {"sent"}) /\ calls[c].kind = "status"
  /\ AnswerToken(c, "token", FALSE)
  /\ UNCHANGED <<jar, csrfToken, generation, cookies, expiries>>

\* A write that passes the check takes effect, or is refused for another reason.
\* A sign-in and its like rotate the token, create_session() and login().
ServeWrite(c) ==
  /\ At(c, {"sent"}) /\ calls[c].kind # "status"
  /\ RequireCsrf(calls[c].header)
  /\ \/ calls[c].kind = "proof" /\ AnswerToken(c, "ok", TRUE)
     \/ /\ calls[c].kind # "proof"
        /\ calls' = [calls EXCEPT
             ![c].at = IF calls[c].kind \in Clearing THEN "answered" ELSE "landed",
             ![c].verdict = "ok", ![c].header = NoToken, ![c].applied = @ + 1,
             ![c].cookie = IF calls[c].kind \in Clearing THEN "clear" ELSE "keep"]
        /\ UNCHANGED expired
     \/ /\ calls' = [calls EXCEPT
             ![c].at = "landed", ![c].verdict = "refused", ![c].header = NoToken]
        /\ UNCHANGED expired
  /\ UNCHANGED <<jar, csrfToken, generation, cookies, expiries>>

RefuseWrite(c) ==
  /\ At(c, {"sent"}) /\ calls[c].kind # "status"
  /\ ~RequireCsrf(calls[c].header)
  /\ calls' = [calls EXCEPT ![c].at = "landed", ![c].verdict = "csrf"]
  /\ UNCHANGED <<jar, expired, csrfToken, generation, cookies, expiries>>

\* A token reaches its day.  The browser drops its cookie no earlier, because it
\* counts the same day from when the answer arrived.
Expire(token) ==
  /\ expiries < MaxExpiries /\ expiries' = expiries + 1
  /\ token \in Held \ (expired \cup {NoToken})
  /\ expired' = (expired \cap Held) \cup {token}
  /\ UNCHANGED <<jar, csrfToken, generation, calls, cookies>>

-----------------------------------------------------------------------------
(* The browser. *)

DropCookie ==
  /\ jar \in expired /\ jar' = NoToken
  /\ UNCHANGED <<expired, csrfToken, generation, calls, cookies, expiries>>

\* The Set-Cookie of an answer lands in the jar, in the order of arrival.
Land(c) ==
  /\ At(c, {"answered"})
  /\ calls' = [calls EXCEPT ![c].at = "landed"]
  /\ jar' = IF ~cookies THEN jar
            ELSE IF calls[c].cookie = "set" THEN calls[c].body ELSE NoToken
  /\ UNCHANGED <<expired, csrfToken, generation, cookies, expiries>>

Ends(c) == calls' = [calls EXCEPT ![c] = Idle]
\* finally(() => { if (live()) setPending(false) })
Released(c) ==
  generation' = [generation EXCEPT ![TabOf[c]] = IF @ = c THEN NoCall ELSE @]

\* A refusal is lost with its request: either way nothing has happened.
Losable(c) == At(c, {"fetching", "sent", "answered", "landed"}) /\ calls[c].verdict # "csrf"

\* Variant: a write whose answer is lost is sent again.
LoseAndRepeat(c) ==
  /\ Losable(c)
  /\ IF calls[c].verdict = "ok" /\ calls[c].kind \notin OneTime /\ calls[c].retry
     THEN calls' = [calls EXCEPT ![c].at = "again"] /\ UNCHANGED generation
     ELSE Ends(c) /\ Released(c)
  /\ UNCHANGED <<jar, expired, csrfToken, cookies, expiries>>
\* The request or its answer is lost, or the page goes away: fetch() throws.
Lose(c) ==
  /\ Losable(c)
  /\ Ends(c) /\ Released(c)
  /\ UNCHANGED <<jar, expired, csrfToken, cookies, expiries>>

-----------------------------------------------------------------------------
(* The script of a tab. *)

\* A call before its next exchange.
Unanswered(r) == [r EXCEPT !.verdict = "none", !.body = NoToken, !.cookie = "keep"]
\* fetch() with the token cached now, which may be none if another call of the tab
\* emptied the cache meanwhile.
Sent(r, t) ==
  [Unanswered(r) EXCEPT !.at = "sent", !.header = csrfToken[t], !.sends = @ + 1]
Fetching(r, then) ==
  [Unanswered(r) EXCEPT !.at = "fetching", !.then = then, !.header = NoToken]
\* if (!csrfToken) await refreshCsrf()
Begun(r, t) == IF csrfToken[t] = NoToken THEN Fetching(r, "send") ELSE Sent(r, t)

New(k) ==
  [at |-> "sent", kind |-> k, retry |-> TRUE, then |-> "send", header |-> NoToken,
   verdict |-> "none", body |-> NoToken, cookie |-> "keep", sends |-> 0, applied |-> 0]

\* A form that waits for an answer starts nothing new.
Start(c, k) ==
  /\ calls[c] = Idle
  /\ k \in Form => generation[TabOf[c]] = NoCall
  /\ generation' = [generation EXCEPT ![TabOf[c]] = IF k \in Form THEN c ELSE @]
  /\ calls' = [calls EXCEPT
       ![c] = IF k = "status" THEN New(k) ELSE Begun(New(k), TabOf[c])]
  /\ UNCHANGED <<jar, expired, csrfToken, cookies, expiries>>

\* The continuation of a write whose token was refreshed first.
Proceed(c) ==
  /\ At(c, {"send"})
  /\ calls' = [calls EXCEPT ![c] = Sent(@, TabOf[c])]
  /\ UNCHANGED <<jar, expired, csrfToken, generation, cookies, expiries>>

\* Variant: the repetition may be repeated.
RepeatForever(c) ==
  /\ At(c, {"again"})
  /\ calls' = [calls EXCEPT ![c] = Begun(@, TabOf[c])]
  /\ UNCHANGED <<jar, expired, csrfToken, generation, cookies, expiries>>
\* Variant: the same, without counting how often.
RepeatAgain(c) ==
  /\ At(c, {"again"})
  /\ calls' = [calls EXCEPT ![c] = Begun([@ EXCEPT !.sends = 1], TabOf[c])]
  /\ UNCHANGED <<jar, expired, csrfToken, generation, cookies, expiries>>
\* requestWithCsrf(retryInput, init, false)
Repeat(c) ==
  /\ At(c, {"again"})
  /\ calls' = [calls EXCEPT ![c] = Begun([@ EXCEPT !.retry = FALSE], TabOf[c])]
  /\ UNCHANGED <<jar, expired, csrfToken, generation, cookies, expiries>>

\* refreshCsrf(), or setCsrf() of the sign-in page, which no generation guards.
TakeToken(c) ==
  /\ At(c, {"landed"}) /\ calls[c].verdict = "token"
  /\ csrfToken' = [csrfToken EXCEPT ![TabOf[c]] = calls[c].body]
  /\ IF calls[c].kind = "status" THEN Ends(c)
     ELSE calls' = [calls EXCEPT ![c] = [Unanswered(@) EXCEPT !.at = calls[c].then]]
  /\ UNCHANGED <<jar, expired, generation, cookies, expiries>>

\* The answer of a write; only the form that still waits for it takes the token.
Finish(c) ==
  /\ At(c, {"landed"}) /\ calls[c].verdict \in {"ok", "refused"}
  /\ csrfToken' = [csrfToken EXCEPT ![TabOf[c]] =
       IF calls[c].kind = "proof" /\ calls[c].verdict = "ok" /\ generation[TabOf[c]] = c
       THEN calls[c].body ELSE @]
  /\ Ends(c) /\ Released(c)
  /\ UNCHANGED <<jar, expired, cookies, expiries>>

\* A settings write that failed the check refreshes the token and goes once more.
RetryWrite(c) ==
  /\ At(c, {"landed"}) /\ calls[c].verdict = "csrf" /\ calls[c].kind \notin OneTime
  /\ IF calls[c].retry THEN calls' = [calls EXCEPT ![c] = Fetching(@, "again")]
                       ELSE Ends(c)
  /\ UNCHANGED <<jar, expired, csrfToken, generation, cookies, expiries>>

\* Variant: the refused token stays in the cache.
GiveUpProofKeepingToken(c) ==
  /\ At(c, {"landed"}) /\ calls[c].verdict = "csrf" /\ calls[c].kind \in OneTime
  /\ Ends(c) /\ Released(c)
  /\ UNCHANGED <<jar, expired, csrfToken, cookies, expiries>>
\* oneTimePost() never repeats; it forgets the token it submitted, unless another
\* call has cached a newer one.
GiveUpProof(c) ==
  /\ At(c, {"landed"}) /\ calls[c].verdict = "csrf" /\ calls[c].kind \in OneTime
  /\ csrfToken' = [csrfToken EXCEPT ![TabOf[c]] =
       IF @ = calls[c].header THEN NoToken ELSE @]
  /\ Ends(c) /\ Released(c)
  /\ UNCHANGED <<jar, expired, cookies, expiries>>

\* operation.cancel(), or the form goes away.
Cancel(t) ==
  /\ generation[t] # NoCall
  /\ generation' = [generation EXCEPT ![t] = NoCall]
  /\ UNCHANGED <<jar, expired, csrfToken, calls, cookies, expiries>>

\* The page is loaded anew; what it had under way was lost before.
Reload(t) ==
  /\ csrfToken[t] # NoToken
  /\ \A c \in Call : TabOf[c] = t => calls[c] = Idle
  /\ csrfToken' = [csrfToken EXCEPT ![t] = NoToken]
  /\ UNCHANGED <<jar, expired, generation, calls, cookies, expiries>>

-----------------------------------------------------------------------------
Progress(c) ==
  \/ ServeToken(c) \/ ServeWrite(c) \/ RefuseWrite(c) \/ Land(c) \/ Lose(c)
  \/ Proceed(c) \/ Repeat(c) \/ TakeToken(c) \/ Finish(c) \/ RetryWrite(c) \/ GiveUpProof(c)

Next ==
  \/ \E c \in Call : Progress(c) \/ \E k \in KindsOf[c] : Start(c, k)
  \/ \E t \in Tab : Cancel(t) \/ Reload(t)
  \/ \E token \in Token : Expire(token)
  \/ DropCookie

Spec == Init /\ [][Next]_vars

\* A request is answered or fails, and a script goes on.
FairSpec == Spec /\ \A c \in Call : WF_vars(Progress(c))

-----------------------------------------------------------------------------
(* Properties. *)

\* "Authentication proofs can be consumed by the server.  Never replay them": one
\* submission reaches the server once, whatever the token did; and a write that is
\* repeated took effect once at most, whatever was lost or rotated in between.
AppliedOnce ==
  \A c \in Call : calls[c] # Idle =>
    /\ calls[c].applied <= 1
    /\ calls[c].applied = 1 => calls[c].at \in {"answered", "landed"}
    /\ calls[c].kind \in OneTime => calls[c].sends <= 1

\* A call ends: a repetition is not repeated, even in a browser that keeps no
\* cookie and is refused each time.
CallsEnd == \A c \in Call : calls[c] # Idle ~> calls[c] = Idle

\* A step of another's that makes a token useless.
Disturbs(c) ==
  \/ \E d \in Call : Lose(d)
  \/ \E d \in Call \ {c} : ServeWrite(d) /\ calls'[d].cookie # "keep"
  \/ \E token \in Token : Expire(token)
  \/ DropCookie
GetsThrough(c) == ServeWrite(c) /\ calls[c].header # NoToken
Submits(c) == \E k \in KindsOf[c] \ {"status"} : Start(c, k)

\* No tab is shut out: who goes on submitting gets through again, whatever token its
\* tab had cached when the others stopped signing in and out and the network
\* stopped losing answers.
NobodyShutOut ==
  cookies =>
    \A c \in Call :
      (<>[][~Disturbs(c)]_vars /\ []<><<Submits(c)>>_vars) => []<><<GetsThrough(c)>>_vars
=============================================================================
