--------------------------- MODULE ClientProofs ----------------------------
(***************************************************************************)
(* A write is never repeated once it took effect, and a one-time post      *)
(* never at all, for any number of tabs and calls.                         *)
(***************************************************************************)
EXTENDS Client, FiniteSetTheorems, TLAPS

-----------------------------------------------------------------------------
(* The inductive invariant. *)

\* An exchange with the server that only asks for a token.
Refreshing(r) ==
  \/ r.at \in {"fetching", "send", "again"}
  \/ r.verdict = "token" /\ r.kind # "status"

\* How often a write was sent, read off where its call stands.
SendsAt(r) ==
  IF r.kind = "status" THEN 0
  ELSE IF Refreshing(r) THEN (IF r.retry /\ r.then = "send" THEN 0 ELSE 1)
  ELSE (IF r.retry THEN 1 ELSE 2)

VerdictFits(r) ==
  /\ r.verdict # "none" <=> r.at \in {"answered", "landed"}
  /\ r.applied = IF r.verdict = "ok" THEN 1 ELSE 0
  /\ r.kind = "status" => r.at = "sent" \/ r.verdict = "token"
  /\ r.verdict = "csrf" => r.at = "landed"

RetryFits(r) ==
  /\ r.kind \in OneTime \cup {"status"} => r.retry /\ r.then = "send"
  /\ r.at = "again" => r.retry /\ r.then = "again"
  /\ r.at = "send" => r.then = "send"
  /\ Refreshing(r) /\ r.then = "again" => r.retry
  /\ r.sends = SendsAt(r)

\* A call holds one token, so that there is always a fresh one.
HoldsOne(r) ==
  /\ r.header = NoToken \/ r.body = NoToken
  /\ r.at \in {"fetching", "send", "again"} => r.body = NoToken
  /\ r.at = "sent" => r.body = NoToken
  /\ r.verdict = "csrf" => r.body = NoToken

CallFits(r) == VerdictFits(r) /\ RetryFits(r) /\ HoldsOne(r)

ClientInv ==
  /\ ClientTypeOK
  /\ \A c \in Call : calls[c] # Idle => CallFits(calls[c])

USE ClientAssumption

-----------------------------------------------------------------------------
(* A fresh token exists. *)

TokenOf(c) ==
  IF calls[c] = Idle THEN NoToken
  ELSE IF calls[c].header = NoToken THEN calls[c].body ELSE calls[c].header
CallTokens == [c \in Call |-> TokenOf(c)]

\* A function on a finite set has at most as many values as arguments.
LEMMA RangeIsSmall ==
  ASSUME NEW S, IsFiniteSet(S), NEW f, f = [x \in S |-> f[x]]
  PROVE  /\ IsFiniteSet({f[x] : x \in S})
         /\ Cardinality({f[x] : x \in S}) <= Cardinality(S)
<1> DEFINE R == {f[x] : x \in S}
<1>1. f \in Surjection(S, R)
  BY DEF Surjection
<1> QED BY <1>1, FS_Surjection

\* One of the tokens is held by nobody, so that issuing never runs out of them.
LEMMA FreshExists ==
  ASSUME ClientInv
  PROVE  Fresh \in Token /\ Fresh \notin Held
<1> DEFINE A == {csrfToken[t] : t \in Tab}
           B == {CallTokens[c] : c \in Call}
           All == (A \cup B) \cup {jar}
<1>1. IsFiniteSet(A) /\ Cardinality(A) <= Cardinality(Tab)
  <2>1. csrfToken = [t \in Tab |-> csrfToken[t]]
    BY DEF ClientInv, ClientTypeOK
  <2> QED BY <2>1, RangeIsSmall
<1>2. IsFiniteSet(B) /\ Cardinality(B) <= Cardinality(Call)
  <2>1. CallTokens = [c \in Call |-> CallTokens[c]]
    BY DEF CallTokens
  <2> QED BY <2>1, RangeIsSmall
<1>3. Held \subseteq All \cup {NoToken}
  <2>1. \A c \in Call : calls[c] # Idle =>
          /\ calls[c].header \in {NoToken, CallTokens[c]}
          /\ calls[c].body \in {NoToken, CallTokens[c]}
    BY DEF ClientInv, CallFits, HoldsOne, CallTokens, TokenOf
  <2> QED BY <2>1 DEF Held
<1>4. IsFiniteSet(All) /\ Cardinality(All) <= 1 + Cardinality(Tab) + Cardinality(Call)
  <2> HIDE DEF A, B
  <2>1. /\ IsFiniteSet(A \cup B)
        /\ Cardinality(A \cup B) = Cardinality(A) + Cardinality(B) - Cardinality(A \cap B)
    BY <1>1, <1>2, FS_Union
  <2>2. Cardinality(A \cap B) \in Nat
    BY <1>1, FS_Intersection, FS_CardinalityType
  <2>3. /\ IsFiniteSet(All)
        /\ Cardinality(All) = IF jar \in A \cup B THEN Cardinality(A \cup B)
                                                  ELSE Cardinality(A \cup B) + 1
    BY <2>1, FS_AddElement
  <2>4. /\ Cardinality(A) \in Nat /\ Cardinality(B) \in Nat
        /\ Cardinality(Tab) \in Nat /\ Cardinality(Call) \in Nat
    BY <1>1, <1>2, FS_CardinalityType
  <2> QED BY <1>1, <1>2, <2>1, <2>2, <2>3, <2>4
<1>5. ~(Token \subseteq All)
  <2> HIDE DEF A, B, All
  <2>1. SUFFICES ASSUME Token \subseteq All PROVE FALSE
    OBVIOUS
  <2>2. Cardinality(Token) <= Cardinality(All)
    BY <1>4, <2>1, FS_Subset
  <2>3. /\ Cardinality(All) \in Nat /\ Cardinality(Token) \in Nat
        /\ Cardinality(Tab) \in Nat /\ Cardinality(Call) \in Nat
    BY <1>4, FS_CardinalityType
  <2> QED BY <1>4, <2>2, <2>3
<1>6. PICK t \in Token : t \notin Held
  BY <1>3, <1>5
<1> QED BY <1>6 DEF Fresh

-----------------------------------------------------------------------------
(* Every step keeps the invariant.  A step of a call touches that call alone. *)

\* When one call changes and stays fit, all calls are fit.
LEMMA OneCall ==
  ASSUME ClientInv, NEW c \in Call,
         calls' = [calls EXCEPT ![c] = calls'[c]],
         (calls'[c] \in Busy /\ CallFits(calls'[c])) \/ calls'[c] = Idle
  PROVE  /\ calls' \in [Call -> Busy \cup {Idle}]
         /\ \A d \in Call : calls'[d] # Idle => CallFits(calls'[d])
<1>1. calls \in [Call -> Busy \cup {Idle}]
  BY DEF ClientInv, ClientTypeOK
<1>2. ASSUME NEW d \in Call, d # c PROVE calls'[d] = calls[d]
  BY <1>1, <1>2
<1>3. calls'[c] \in Busy \cup {Idle}
  OBVIOUS
<1>4. calls' \in [Call -> Busy \cup {Idle}]
  BY <1>1, <1>3
<1>5. ASSUME NEW d \in Call, calls'[d] # Idle PROVE CallFits(calls'[d])
  <2>1. CASE d = c
    BY <2>1, <1>5
  <2>2. CASE d # c
    BY <2>2, <1>2, <1>5 DEF ClientInv
  <2> QED BY <2>1, <2>2
<1> QED BY <1>4, <1>5

\* A call that ends leaves the others as they are.
LEMMA EndsFits ==
  ASSUME ClientInv, NEW c \in Call, Ends(c)
  PROVE  /\ calls' \in [Call -> Busy \cup {Idle}]
         /\ \A d \in Call : calls'[d] # Idle => CallFits(calls'[d])
<1>1. calls \in [Call -> Busy \cup {Idle}]
  BY DEF ClientInv, ClientTypeOK
<1>2. calls' = [calls EXCEPT ![c] = calls'[c]] /\ calls'[c] = Idle
  BY <1>1 DEF Ends
<1> QED BY <1>2, OneCall

\* A call that stands somewhere is a record that fits.
LEMMA Standing ==
  ASSUME ClientInv, NEW c \in Call, NEW P, At(c, P), "idle" \notin P
  PROVE  calls[c] \in Busy /\ CallFits(calls[c])
BY DEF ClientInv, ClientTypeOK, At, Idle

\* An answer that carries a token, which the exchange then holds alone.
LEMMA AnswerTokenFits ==
  ASSUME ClientInv, NEW c \in Call, NEW verdict, NEW rotate \in BOOLEAN,
         AnswerToken(c, verdict, rotate),
         \/ verdict = "token" /\ At(c, {"fetching"})
         \/ verdict = "token" /\ At(c, {"sent"}) /\ calls[c].kind = "status"
         \/ verdict = "ok" /\ At(c, {"sent"}) /\ calls[c].kind = "proof"
  PROVE  /\ calls' \in [Call -> Busy \cup {Idle}]
         /\ \A d \in Call : calls'[d] # Idle => CallFits(calls'[d])
         /\ expired' \subseteq Token
<1> DEFINE r == calls[c]
           token == Issue(rotate)
<1>1. r \in Busy /\ CallFits(r)
  BY Standing
<1>2. calls \in [Call -> Busy \cup {Idle}] /\ expired \subseteq Token /\ jar \in AnyToken
  BY DEF ClientInv, ClientTypeOK
<1>3. token \in AnyToken
  BY <1>2, FreshExists DEF Issue, AnyToken
<1>4. expired' \subseteq Token
  BY <1>2 DEF AnswerToken
<1> DEFINE place == IF token # jar THEN "answered" ELSE "landed"
           cookie == IF token # jar THEN "set" ELSE "keep"
           applied == IF verdict = "ok" THEN 1 ELSE 0
<1>5. r.applied = 0
  BY <1>1 DEF CallFits, VerdictFits, At
<1>6. /\ place \in {"answered", "landed"} /\ cookie \in {"set", "keep"}
      /\ applied \in 0..2 /\ (verdict = "ok" => applied = 1) /\ (verdict # "ok" => applied = 0)
      /\ verdict \in {"token", "ok"}
  OBVIOUS
<1>10. /\ calls' = [calls EXCEPT ![c] = calls'[c]]
       /\ calls'[c] = [r EXCEPT !.at = place, !.verdict = verdict, !.header = NoToken,
                                !.body = token, !.cookie = cookie,
                                !.applied = IF verdict = "ok" THEN @ + 1 ELSE @]
  BY <1>2 DEF AnswerToken
<1> HIDE DEF token, place, cookie, applied
<1>11. calls'[c] = [r EXCEPT !.at = place, !.verdict = verdict, !.header = NoToken,
                             !.body = token, !.cookie = cookie, !.applied = applied]
  BY <1>5, <1>10 DEF applied
<1>12. calls'[c] = [at |-> place, kind |-> r.kind, retry |-> r.retry, then |-> r.then,
                    header |-> NoToken, verdict |-> verdict, body |-> token,
                    cookie |-> cookie, sends |-> r.sends, applied |-> applied]
  BY <1>1, <1>11 DEF Busy
<1>13. calls'[c] \in Busy
  BY <1>1, <1>3, <1>6, <1>12 DEF Busy, AnyToken
<1>7. VerdictFits(calls'[c])
  BY <1>1, <1>6, <1>12 DEF CallFits, VerdictFits, At
<1>8. RetryFits(calls'[c])
  BY <1>1, <1>6, <1>12 DEF CallFits, VerdictFits, RetryFits, Refreshing, SendsAt, At, OneTime
<1>9. HoldsOne(calls'[c])
  BY <1>6, <1>12 DEF HoldsOne
<1> QED BY <1>4, <1>10, <1>13, <1>7, <1>8, <1>9, OneCall DEF CallFits

\* What a write is before it is sent.
Unsent(r) ==
  /\ r \in Busy /\ r.kind # "status" /\ r.applied = 0
  /\ r.sends = IF r.retry THEN 0 ELSE 1
  /\ r.kind \in OneTime => r.retry /\ r.then = "send"

\* An exchange before its answer, field by field.
LEMMA UnansweredIs ==
  ASSUME NEW r \in Busy, NEW q, q = Unanswered(r)
  PROVE  q = [at |-> r.at, kind |-> r.kind, retry |-> r.retry, then |-> r.then,
              header |-> r.header, verdict |-> "none", body |-> NoToken,
              cookie |-> "keep", sends |-> r.sends, applied |-> r.applied]
BY DEF Unanswered, Busy

\* A write as it is sent, field by field.
LEMMA SentIs ==
  ASSUME NEW r \in Busy, NEW t, NEW q, q = Sent(r, t)
  PROVE  q = [at |-> "sent", kind |-> r.kind, retry |-> r.retry, then |-> r.then,
              header |-> csrfToken[t], verdict |-> "none", body |-> NoToken,
              cookie |-> "keep", sends |-> r.sends + 1, applied |-> r.applied]
BY DEF Sent, Unanswered, Busy

\* A refresh of the token as it is sent, field by field.
LEMMA FetchingIs ==
  ASSUME NEW r \in Busy, NEW then, NEW q, q = Fetching(r, then)
  PROVE  q = [at |-> "fetching", kind |-> r.kind, retry |-> r.retry, then |-> then,
              header |-> NoToken, verdict |-> "none", body |-> NoToken,
              cookie |-> "keep", sends |-> r.sends, applied |-> r.applied]
BY DEF Fetching, Unanswered, Busy

\* A write that was not sent before may be sent.
LEMMA SentFits ==
  ASSUME ClientInv, NEW t \in Tab, NEW r, Unsent(r)
  PROVE  Sent(r, t) \in Busy /\ CallFits(Sent(r, t))
<1>1. csrfToken[t] \in AnyToken
  BY DEF ClientInv, ClientTypeOK
<1>2. r \in Busy
  BY DEF Unsent
<1>3. Sent(r, t) =
        [at |-> "sent", kind |-> r.kind, retry |-> r.retry, then |-> r.then,
         header |-> csrfToken[t], verdict |-> "none", body |-> NoToken,
         cookie |-> "keep", sends |-> r.sends + 1, applied |-> r.applied]
  BY <1>2, SentIs
<1>4. Sent(r, t) \in Busy
  BY <1>1, <1>3 DEF Unsent, Busy, AnyToken
<1>5. CallFits(Sent(r, t))
  BY <1>2, <1>3 DEF Unsent, CallFits, VerdictFits, RetryFits, HoldsOne, Refreshing, SendsAt, OneTime, Busy
<1> QED BY <1>4, <1>5

\* A call that took no effect may refresh its token.
LEMMA FetchingFits ==
  ASSUME NEW r, r \in Busy, r.kind # "status", r.applied = 0,
         r.kind \in OneTime => r.retry, NEW then \in {"send", "again"},
         then = "again" => r.retry /\ r.kind \notin OneTime,
         r.sends = IF r.retry /\ then = "send" THEN 0 ELSE 1
  PROVE  Fetching(r, then) \in Busy /\ CallFits(Fetching(r, then))
<1>1. Fetching(r, then) =
        [at |-> "fetching", kind |-> r.kind, retry |-> r.retry, then |-> then,
         header |-> NoToken, verdict |-> "none", body |-> NoToken,
         cookie |-> "keep", sends |-> r.sends, applied |-> r.applied]
  BY FetchingIs
<1>2. Fetching(r, then) \in Busy
  BY <1>1 DEF Busy, AnyToken
<1>3. CallFits(Fetching(r, then))
  BY <1>1 DEF CallFits, VerdictFits, RetryFits, HoldsOne, Refreshing, SendsAt, OneTime
<1> QED BY <1>2, <1>3

\* A call begins with a send, or with a refresh when its tab has no token.
LEMMA BegunFits ==
  ASSUME ClientInv, NEW t \in Tab, NEW r, Unsent(r)
  PROVE  Begun(r, t) \in Busy /\ CallFits(Begun(r, t))
<1>1. CASE csrfToken[t] = NoToken
  <2>1. Fetching(r, "send") \in Busy /\ CallFits(Fetching(r, "send"))
    BY FetchingFits DEF Unsent
  <2> QED BY <1>1, <2>1 DEF Begun
<1>2. CASE csrfToken[t] # NoToken
  BY <1>2, SentFits DEF Begun
<1> QED BY <1>1, <1>2

-----------------------------------------------------------------------------
(* One lemma per action. *)

\* The server answers with a token.
LEMMA ServeTokenKeepsInv ==
  ASSUME ClientInv, NEW c \in Call, ServeToken(c)
  PROVE  ClientInv'
<1>1. AnswerToken(c, "token", FALSE)
  BY DEF ServeToken
<1>2. /\ calls' \in [Call -> Busy \cup {Idle}]
      /\ \A d \in Call : calls'[d] # Idle => CallFits(calls'[d])
      /\ expired' \subseteq Token
  BY <1>1, AnswerTokenFits DEF ServeToken
<1> QED BY <1>2 DEF ServeToken, ClientInv, ClientTypeOK

\* A write that took effect, field by field.
LEMMA AppliedIs ==
  ASSUME NEW r \in Busy, NEW place, NEW cookie, NEW q,
         q = [r EXCEPT !.at = place, !.verdict = "ok", !.header = NoToken,
                       !.applied = @ + 1, !.cookie = cookie]
  PROVE  q = [at |-> place, kind |-> r.kind, retry |-> r.retry, then |-> r.then,
              header |-> NoToken, verdict |-> "ok", body |-> r.body,
              cookie |-> cookie, sends |-> r.sends, applied |-> r.applied + 1]
BY DEF Busy

\* The server performs a write.
LEMMA ServeWriteKeepsInv ==
  ASSUME ClientInv, NEW c \in Call, ServeWrite(c)
  PROVE  ClientInv'
<1> DEFINE r == calls[c]
<1>1. r \in Busy /\ CallFits(r) /\ r.at = "sent" /\ r.kind # "status"
  BY Standing DEF ServeWrite, At
<1>2. calls \in [Call -> Busy \cup {Idle}] /\ expired \subseteq Token
  BY DEF ClientInv, ClientTypeOK
<1>3. r.applied = 0 /\ r.verdict = "none" /\ r.body = NoToken /\ r.cookie \in {"keep", "set", "clear"}
  BY <1>1 DEF CallFits, VerdictFits, HoldsOne, Busy
<1> SUFFICES /\ calls' \in [Call -> Busy \cup {Idle}]
             /\ \A d \in Call : calls'[d] # Idle => CallFits(calls'[d])
             /\ expired' \subseteq Token
  BY DEF ServeWrite, ClientInv, ClientTypeOK
<1>4. CASE r.kind = "proof" /\ AnswerToken(c, "ok", TRUE)
  BY <1>4, AnswerTokenFits DEF ServeWrite
<1>5. CASE /\ calls' = [calls EXCEPT
                ![c].at = IF r.kind \in Clearing THEN "answered" ELSE "landed",
                ![c].verdict = "ok", ![c].header = NoToken, ![c].applied = @ + 1,
                ![c].cookie = IF r.kind \in Clearing THEN "clear" ELSE "keep"]
           /\ UNCHANGED expired
  <2> DEFINE place == IF r.kind \in Clearing THEN "answered" ELSE "landed"
             cookie == IF r.kind \in Clearing THEN "clear" ELSE "keep"
  <2>1. place \in {"answered", "landed"} /\ cookie \in {"clear", "keep"}
    OBVIOUS
  <2>2. /\ calls' = [calls EXCEPT ![c] = calls'[c]]
        /\ calls'[c] = [r EXCEPT !.at = place, !.verdict = "ok", !.header = NoToken,
                                 !.applied = @ + 1, !.cookie = cookie]
    BY <1>2, <1>5
  <2> HIDE DEF place, cookie
  <2>3. calls'[c] = [at |-> place, kind |-> r.kind, retry |-> r.retry, then |-> r.then,
                     header |-> NoToken, verdict |-> "ok", body |-> r.body,
                     cookie |-> cookie, sends |-> r.sends, applied |-> 1]
    <3>1. r \in Busy /\ r.applied + 1 = 1
      BY <1>1, <1>3
    <3>2. calls'[c] = [r EXCEPT !.at = place, !.verdict = "ok", !.header = NoToken,
                                !.applied = @ + 1, !.cookie = cookie]
      BY <2>2
    <3> HIDE DEF r
    <3>3. calls'[c] = [at |-> place, kind |-> r.kind, retry |-> r.retry, then |-> r.then,
                       header |-> NoToken, verdict |-> "ok", body |-> r.body,
                       cookie |-> cookie, sends |-> r.sends, applied |-> r.applied + 1]
      BY <3>1, <3>2, AppliedIs
    <3> QED BY <3>1, <3>3
  <2>4. calls'[c] \in Busy
    BY <1>1, <2>1, <2>3 DEF Busy, AnyToken
  <2>5. CallFits(calls'[c])
    BY <1>1, <1>3, <2>1, <2>3
    DEF CallFits, VerdictFits, RetryFits, HoldsOne, Refreshing, SendsAt, OneTime
  <2> QED BY <1>2, <1>5, <2>2, <2>4, <2>5, OneCall
<1>6. CASE /\ calls' = [calls EXCEPT
                ![c].at = "landed", ![c].verdict = "refused", ![c].header = NoToken]
           /\ UNCHANGED expired
  <2>1. /\ calls' = [calls EXCEPT ![c] = calls'[c]]
        /\ calls'[c] = [r EXCEPT !.at = "landed", !.verdict = "refused", !.header = NoToken]
    BY <1>2, <1>6
  <2>2. calls'[c] = [at |-> "landed", kind |-> r.kind, retry |-> r.retry, then |-> r.then,
                     header |-> NoToken, verdict |-> "refused", body |-> r.body,
                     cookie |-> r.cookie, sends |-> r.sends, applied |-> 0]
    BY <1>1, <1>3, <2>1 DEF Busy
  <2>3. calls'[c] \in Busy
    BY <1>1, <1>3, <2>2 DEF Busy, AnyToken
  <2>4. CallFits(calls'[c])
    BY <1>1, <1>3, <2>2
    DEF CallFits, VerdictFits, RetryFits, HoldsOne, Refreshing, SendsAt, OneTime
  <2> QED BY <1>2, <1>6, <2>1, <2>3, <2>4, OneCall
<1> QED BY <1>4, <1>5, <1>6 DEF ServeWrite

\* The server refuses a write for its token.
LEMMA RefuseWriteKeepsInv ==
  ASSUME ClientInv, NEW c \in Call, RefuseWrite(c)
  PROVE  ClientInv'
<1> DEFINE r == calls[c]
<1>1. r \in Busy /\ CallFits(r) /\ r.at = "sent" /\ r.kind # "status"
  BY Standing DEF RefuseWrite, At
<1>2. calls \in [Call -> Busy \cup {Idle}]
  BY DEF ClientInv, ClientTypeOK
<1>3. /\ calls' = [calls EXCEPT ![c] = calls'[c]]
      /\ calls'[c] = [r EXCEPT !.at = "landed", !.verdict = "csrf"]
  BY <1>2 DEF RefuseWrite
<1>4. calls'[c] = [at |-> "landed", kind |-> r.kind, retry |-> r.retry, then |-> r.then,
                   header |-> r.header, verdict |-> "csrf", body |-> r.body,
                   cookie |-> r.cookie, sends |-> r.sends, applied |-> r.applied]
  BY <1>1, <1>3 DEF Busy
<1>5. calls'[c] \in Busy
  BY <1>1, <1>4 DEF Busy
<1>6. CallFits(calls'[c])
  BY <1>1, <1>4 DEF CallFits, VerdictFits, RetryFits, HoldsOne, Refreshing, SendsAt, OneTime
<1> QED BY <1>3, <1>5, <1>6, OneCall DEF RefuseWrite, ClientInv, ClientTypeOK

\* The cookie of an answer lands in the jar.
LEMMA LandKeepsInv ==
  ASSUME ClientInv, NEW c \in Call, Land(c)
  PROVE  ClientInv'
<1> DEFINE r == calls[c]
<1>1. r \in Busy /\ CallFits(r) /\ r.at = "answered"
  BY Standing DEF Land, At
<1>2. calls \in [Call -> Busy \cup {Idle}] /\ jar \in AnyToken
  BY DEF ClientInv, ClientTypeOK
<1>3. /\ calls' = [calls EXCEPT ![c] = calls'[c]]
      /\ calls'[c] = [r EXCEPT !.at = "landed"]
  BY <1>2 DEF Land
<1>4. calls'[c] = [at |-> "landed", kind |-> r.kind, retry |-> r.retry, then |-> r.then,
                   header |-> r.header, verdict |-> r.verdict, body |-> r.body,
                   cookie |-> r.cookie, sends |-> r.sends, applied |-> r.applied]
  BY <1>1, <1>3 DEF Busy
<1>5. calls'[c] \in Busy
  BY <1>1, <1>4 DEF Busy
<1>6. CallFits(calls'[c])
  BY <1>1, <1>4 DEF CallFits, VerdictFits, RetryFits, HoldsOne, Refreshing, SendsAt
<1>7. jar' \in AnyToken
  BY <1>1, <1>2 DEF Land, Busy, AnyToken
<1> QED BY <1>3, <1>5, <1>6, <1>7, OneCall DEF Land, ClientInv, ClientTypeOK

\* The form that waited for a call waits for none.
LEMMA ReleasedFits ==
  ASSUME ClientInv, NEW c \in Call, Released(c)
  PROVE  generation' \in [Tab -> Call \cup {NoCall}]
BY DEF ClientInv, ClientTypeOK, Released

\* A request or its answer is lost.
LEMMA LoseKeepsInv ==
  ASSUME ClientInv, NEW c \in Call, Lose(c)
  PROVE  ClientInv'
BY EndsFits, ReleasedFits DEF Lose, ClientInv, ClientTypeOK

\* A script sends its write with the token in its tab's cache.
LEMMA ProceedKeepsInv ==
  ASSUME ClientInv, NEW c \in Call, Proceed(c)
  PROVE  ClientInv'
<1> DEFINE r == calls[c]
<1>1. r \in Busy /\ CallFits(r) /\ r.at = "send"
  BY Standing DEF Proceed, At
<1>2. calls \in [Call -> Busy \cup {Idle}]
  BY DEF ClientInv, ClientTypeOK
<1>3. Unsent(r)
  BY <1>1 DEF Unsent, CallFits, VerdictFits, RetryFits, Refreshing, SendsAt
<1>4. calls' = [calls EXCEPT ![c] = calls'[c]] /\ calls'[c] = Sent(r, TabOf[c])
  BY <1>2 DEF Proceed
<1>5. calls'[c] \in Busy /\ CallFits(calls'[c])
  BY <1>3, <1>4, SentFits
<1> QED BY <1>4, <1>5, OneCall DEF Proceed, ClientInv, ClientTypeOK

\* A refused write is sent once more.
LEMMA RepeatKeepsInv ==
  ASSUME ClientInv, NEW c \in Call, Repeat(c)
  PROVE  ClientInv'
<1> DEFINE r == calls[c]
           once == [r EXCEPT !.retry = FALSE]
<1>1. r \in Busy /\ CallFits(r) /\ r.at = "again"
  BY Standing DEF Repeat, At
<1>2. calls \in [Call -> Busy \cup {Idle}]
  BY DEF ClientInv, ClientTypeOK
<1>3. Unsent(once)
  <2>1. r.kind \notin OneTime \cup {"status"} /\ r.applied = 0 /\ r.sends = 1
    BY <1>1 DEF CallFits, VerdictFits, RetryFits, Refreshing, SendsAt
  <2>2. once \in Busy
    BY <1>1 DEF Busy
  <2> QED BY <1>1, <2>1, <2>2 DEF Unsent, Busy
<1>4. calls' = [calls EXCEPT ![c] = calls'[c]] /\ calls'[c] = Begun(once, TabOf[c])
  BY <1>2 DEF Repeat
<1>5. calls'[c] \in Busy /\ CallFits(calls'[c])
  BY <1>3, <1>4, BegunFits
<1> QED BY <1>4, <1>5, OneCall DEF Repeat, ClientInv, ClientTypeOK

\* A script takes the token of an answer into its tab's cache.
LEMMA TakeTokenKeepsInv ==
  ASSUME ClientInv, NEW c \in Call, TakeToken(c)
  PROVE  ClientInv'
<1> DEFINE r == calls[c]
<1>1. r \in Busy /\ CallFits(r) /\ r.at = "landed" /\ r.verdict = "token"
  BY Standing DEF TakeToken, At
<1>2. calls \in [Call -> Busy \cup {Idle}]
  BY DEF ClientInv, ClientTypeOK
<1>3. csrfToken' \in [Tab -> AnyToken]
  BY <1>1 DEF TakeToken, ClientInv, ClientTypeOK, Busy
<1>4. CASE r.kind = "status"
  BY <1>3, <1>4, EndsFits DEF TakeToken, ClientInv, ClientTypeOK
<1>5. CASE r.kind # "status"
  <2>1. /\ calls' = [calls EXCEPT ![c] = calls'[c]]
        /\ calls'[c] = [Unanswered(r) EXCEPT !.at = r.then]
    BY <1>2, <1>5 DEF TakeToken
  <2>2. calls'[c] = [at |-> r.then, kind |-> r.kind, retry |-> r.retry, then |-> r.then,
                     header |-> r.header, verdict |-> "none", body |-> NoToken,
                     cookie |-> "keep", sends |-> r.sends, applied |-> r.applied]
    BY <1>1, <2>1 DEF Unanswered, Busy
  <2>3. calls'[c] \in Busy
    BY <1>1, <2>2 DEF Busy, AnyToken
  <2>4. CallFits(calls'[c])
    BY <1>1, <1>5, <2>2
    DEF CallFits, VerdictFits, RetryFits, HoldsOne, Refreshing, SendsAt, Busy
  <2> QED BY <1>3, <2>1, <2>3, <2>4, OneCall DEF TakeToken, ClientInv, ClientTypeOK
<1> QED BY <1>4, <1>5

\* A call ends with its answer.
LEMMA FinishKeepsInv ==
  ASSUME ClientInv, NEW c \in Call, Finish(c)
  PROVE  ClientInv'
<1>1. calls[c] \in Busy
  BY Standing DEF Finish
<1>2. csrfToken' \in [Tab -> AnyToken]
  BY <1>1 DEF Finish, ClientInv, ClientTypeOK, Busy
<1> QED BY <1>2, EndsFits, ReleasedFits DEF Finish, ClientInv, ClientTypeOK

\* A refused write refreshes the token first.
LEMMA RetryWriteKeepsInv ==
  ASSUME ClientInv, NEW c \in Call, RetryWrite(c)
  PROVE  ClientInv'
<1> DEFINE r == calls[c]
<1>1. /\ r \in Busy /\ CallFits(r) /\ r.at = "landed"
      /\ r.verdict = "csrf" /\ r.kind \notin OneTime
  BY Standing DEF RetryWrite, At
<1>2. calls \in [Call -> Busy \cup {Idle}]
  BY DEF ClientInv, ClientTypeOK
<1>3. CASE r.retry
  <2>1. calls' = [calls EXCEPT ![c] = calls'[c]] /\ calls'[c] = Fetching(r, "again")
    BY <1>2, <1>3 DEF RetryWrite
  <2>2. r.kind # "status" /\ r.applied = 0 /\ r.sends = 1
    BY <1>1, <1>3 DEF CallFits, VerdictFits, RetryFits, Refreshing, SendsAt
  <2>3. calls'[c] \in Busy /\ CallFits(calls'[c])
    BY <1>1, <1>3, <2>1, <2>2, FetchingFits
  <2> QED BY <2>1, <2>3, OneCall DEF RetryWrite, ClientInv, ClientTypeOK
<1>4. CASE ~r.retry
  BY <1>4, EndsFits DEF RetryWrite, ClientInv, ClientTypeOK
<1> QED BY <1>3, <1>4

\* A refused one-time post is given up.
LEMMA GiveUpProofKeepsInv ==
  ASSUME ClientInv, NEW c \in Call, GiveUpProof(c)
  PROVE  ClientInv'
<1>1. csrfToken' \in [Tab -> AnyToken]
  BY DEF GiveUpProof, ClientInv, ClientTypeOK, AnyToken
<1> QED BY <1>1, EndsFits, ReleasedFits DEF GiveUpProof, ClientInv, ClientTypeOK

\* A call starts.
LEMMA StartKeepsInv ==
  ASSUME ClientInv, NEW c \in Call, NEW k \in KindsOf[c], Start(c, k)
  PROVE  ClientInv'
<1>1. calls \in [Call -> Busy \cup {Idle}] /\ k \in Kind
  BY DEF ClientInv, ClientTypeOK
<1>2. generation' \in [Tab -> Call \cup {NoCall}]
  BY DEF Start, ClientInv, ClientTypeOK
<1>3. New(k) \in Busy
  BY <1>1 DEF New, Busy, AnyToken
<1>4. CASE k = "status"
  <2>1. calls' = [calls EXCEPT ![c] = calls'[c]] /\ calls'[c] = New(k)
    BY <1>1, <1>4 DEF Start
  <2>2. CallFits(New(k))
    BY <1>4 DEF New, CallFits, VerdictFits, RetryFits, HoldsOne, Refreshing, SendsAt
  <2> QED BY <1>2, <1>3, <2>1, <2>2, OneCall DEF Start, ClientInv, ClientTypeOK
<1>5. CASE k # "status"
  <2>1. calls' = [calls EXCEPT ![c] = calls'[c]] /\ calls'[c] = Begun(New(k), TabOf[c])
    BY <1>1, <1>5 DEF Start
  <2>2. Unsent(New(k))
    BY <1>3, <1>5 DEF Unsent, New
  <2>3. calls'[c] \in Busy /\ CallFits(calls'[c])
    BY <2>1, <2>2, BegunFits
  <2> QED BY <1>2, <2>1, <2>3, OneCall DEF Start, ClientInv, ClientTypeOK
<1> QED BY <1>4, <1>5

\* Steps that touch no call.
LEMMA QuietStepKeepsInv ==
  ASSUME ClientInv,
         \/ \E t \in Tab : Cancel(t) \/ Reload(t)
         \/ \E token \in Token : Expire(token)
         \/ DropCookie
         \/ UNCHANGED vars
  PROVE  ClientInv'
<1>1. CASE \E t \in Tab : Cancel(t)
  BY <1>1 DEF Cancel, ClientInv, ClientTypeOK
<1>2. CASE \E t \in Tab : Reload(t)
  BY <1>2 DEF Reload, ClientInv, ClientTypeOK, AnyToken
<1>3. CASE \E token \in Token : Expire(token)
  BY <1>3 DEF Expire, ClientInv, ClientTypeOK
<1>4. CASE DropCookie
  BY <1>4 DEF DropCookie, ClientInv, ClientTypeOK, AnyToken
<1>5. CASE UNCHANGED vars
  BY <1>5 DEF vars, ClientInv, ClientTypeOK
<1> QED BY <1>1, <1>2, <1>3, <1>4, <1>5

\* Every step of the client.
LEMMA StepKeepsInv ==
  ASSUME ClientInv, [Next]_vars
  PROVE  ClientInv'
<1>1. ASSUME NEW c \in Call, Progress(c) PROVE ClientInv'
  BY <1>1, ServeTokenKeepsInv, ServeWriteKeepsInv, RefuseWriteKeepsInv, LandKeepsInv,
     LoseKeepsInv, ProceedKeepsInv, RepeatKeepsInv, TakeTokenKeepsInv, FinishKeepsInv,
     RetryWriteKeepsInv, GiveUpProofKeepsInv DEF Progress
<1>2. ASSUME NEW c \in Call, NEW k \in KindsOf[c], Start(c, k) PROVE ClientInv'
  BY <1>2, StartKeepsInv
<1> QED BY <1>1, <1>2, QuietStepKeepsInv DEF Next

\* The client as it is loaded.
LEMMA InitFits ==
  ASSUME Init
  PROVE  ClientInv
BY DEF Init, ClientInv, ClientTypeOK, AnyToken

-----------------------------------------------------------------------------
(* Results. *)

\* The invariant of the client: at every moment the number of sends, the verdict and
\* what may follow agree with where the call stands, and a fresh token exists.
THEOREM ClientInvariant == Spec => []ClientInv
BY InitFits, StepKeepsInv, PTL DEF Spec

\* The client's variables keep their types; in particular issue_csrf() always finds a
\* token that nobody holds.
THEOREM ClientTypeCorrect == Spec => []ClientTypeOK
<1>1. ClientInv => ClientTypeOK
  BY DEF ClientInv
<1> QED BY <1>1, ClientInvariant, PTL

\* What the invariant says of effects.
LEMMA InvGivesAppliedOnce == ClientInv => AppliedOnce
<1> SUFFICES ASSUME ClientInv, NEW c \in Call, calls[c] # Idle
             PROVE  /\ calls[c].applied <= 1
                    /\ calls[c].applied = 1 => calls[c].at \in {"answered", "landed"}
                    /\ calls[c].kind \in OneTime => calls[c].sends <= 1
  BY DEF AppliedOnce
<1>1. CallFits(calls[c])
  BY DEF ClientInv
<1> QED BY <1>1 DEF CallFits, VerdictFits, RetryFits, SendsAt, Refreshing, OneTime

\* For any number of tabs and calls: a one-time post reaches the server at most once
\* per submission, and a write that client.ts repeats takes effect at most once.
THEOREM ClientAppliesOnce == Spec => []AppliedOnce
BY ClientInvariant, InvGivesAppliedOnce, PTL
=============================================================================
