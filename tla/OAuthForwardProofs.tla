------------------------- MODULE OAuthForwardProofs -------------------------
(***************************************************************************)
(* What the proxy passes on and back is right for every number of calls.   *)
(*                                                                         *)
(* The provider accepts at most its newest token.  Only a call that was    *)
(* sent with this token gets a new one, so while a new token is on its way *)
(* to the client no second one is issued (OneOnItsWay), and the client has *)
(* the newest token unless it is on its way or was lost (NewestSomewhere). *)
(***************************************************************************)
EXTENDS OAuthForward, TLAPS

\* The provider.
Provider ==
    /\ valid \subseteq {newest}
    /\ revoked = {} => newest \in valid
    /\ revoked \cap valid = {}
    /\ \A t \in revoked : t <= newest
    /\ held <= newest
    /\ \A c \in Calls : call[c].token <= held

\* Before the provider has answered nothing is known of a call.
Unanswered ==
    \A c \in Calls :
        /\ call[c].st \in {"new", "handler", "provider"} => call[c].status = 0 /\ call[c].body = NoBody
        /\ call[c].st = "answer" => call[c].status # 0

\* A revocation that was confirmed has happened.
Confirmed ==
    \A c \in Calls : (call[c].kind = "revoke" /\ call[c].status = 200) => call[c].token \in revoked

\* Call c has a new token for the client.
Carries(c) == call[c].st \in {"answer", "reply"} /\ call[c].body \in Tokens

\* The new token of call c has been lost, or may be.
Lost(c) ==
    \/ call[c].status = 502 \/ call[c].st = "gone"
    \/ call[c].st = "answer" /\ call[c].kind = "refresh" /\ call[c].body = BadBody

OneOnItsWay ==
    /\ \A c \in Calls : Carries(c) =>
         call[c].body = newest /\ held < newest /\ call[c].kind = "refresh"
    /\ \A c, d \in Calls : (Carries(c) /\ Carries(d)) => c = d

NewestSomewhere == held = newest \/ \E c \in Calls : Carries(c) \/ Lost(c)

FInv == TypeOK /\ Provider /\ Unanswered /\ Confirmed /\ OneOnItsWay /\ NewestSomewhere

LEMMA ForwardInit == Init => FInv
<1> SUFFICES ASSUME Init PROVE FInv
    OBVIOUS
<1> USE ForwardAssumption DEF Init, Call, CallRecords, Tokens
<1>1. TypeOK
    BY DEF TypeOK
<1>2. Provider /\ Unanswered /\ Confirmed
    BY DEF Provider, Unanswered, Confirmed
<1>3. OneOnItsWay /\ NewestSomewhere
    BY DEF OneOnItsWay, NewestSomewhere, Carries
<1> QED BY <1>1, <1>2, <1>3 DEF FInv

\* A step that changes one call only, which neither had a new token nor has one
\* afterwards, nor had lost one, and confirms no revocation.
Plain(c, r) ==
    /\ UNCHANGED <<valid, newest, revoked, held>>
    /\ r \in CallRecords
    /\ call' = [call EXCEPT ![c] = r]
    /\ r.st \in {"reply", "done", "gone"} => r.status # 0 /\ r.body # BadBody
    /\ r.token <= held
    /\ r.st \in {"new", "handler", "provider"} => r.status = 0 /\ r.body = NoBody
    /\ r.st = "answer" => r.status # 0
    /\ (r.kind = "revoke" /\ r.status = 200) => r.token \in revoked
    /\ (r.st \in {"answer", "reply"} /\ r.body \in Tokens) =>
         (Carries(c) /\ r.body = call[c].body /\ r.kind = call[c].kind)
    /\ \/ ~Carries(c) /\ ~Lost(c)
       \/ r.st \in {"answer", "reply"} /\ r.body \in Tokens
       \/ r.status = 502 \/ r.st = "gone"

LEMMA PlainStep == ASSUME FInv, NEW c \in Calls, NEW r, Plain(c, r) PROVE FInv'
<1> USE ForwardAssumption DEF FInv, TypeOK, Tokens, CallRecords, Plain
<1>1. TypeOK'
    OBVIOUS
<1>2. /\ call'[c] = r
      /\ \A d \in Calls : d # c => call'[d] = call[d]
    OBVIOUS
<1>3. Provider'
    BY <1>2 DEF Provider
<1>4. Unanswered' /\ Confirmed'
    BY <1>2 DEF Unanswered, Confirmed
<1>5. /\ Carries(c)' => Carries(c) /\ r.body = call[c].body /\ r.kind = call[c].kind
      /\ \A d \in Calls : d # c => (Carries(d)' <=> Carries(d)) /\ (Lost(d)' <=> Lost(d))
    BY <1>2 DEF Carries, Lost
<1>6. OneOnItsWay'
    BY <1>2, <1>5 DEF OneOnItsWay
<1>7. (Carries(c) \/ Lost(c)) => (Carries(c)' \/ Lost(c)')
    BY <1>2 DEF Carries, Lost
<1>8. NewestSomewhere'
    BY <1>5, <1>7 DEF NewestSomewhere
<1> QED BY <1>1, <1>3, <1>4, <1>6, <1>8

\* The record that Becomes gives to a call.
After(c, st, status, body) == Call(st, call[c].kind, call[c].token, status, body)

LEMMA BecomesRecord ==
    ASSUME TypeOK, NEW c \in Calls, NEW st, NEW status, NEW body, Becomes(c, st, status, body)
    PROVE  call' = [call EXCEPT ![c] = After(c, st, status, body)]
BY DEF Becomes, After

LEMMA AfterFields ==
    ASSUME TypeOK, NEW c \in Calls,
           NEW st \in {"new", "handler", "provider", "answer", "reply", "done", "gone"},
           NEW status \in {0, 200, 400, 502, 503}, NEW body \in Tokens \cup {NoBody, BadBody, Error}
    PROVE  LET r == After(c, st, status, body)
           IN  /\ r \in CallRecords
               /\ r.st = st /\ r.status = status /\ r.body = body
               /\ r.kind = call[c].kind /\ r.token = call[c].token
BY DEF TypeOK, CallRecords, After, Call

LEMMA CallFields ==
    ASSUME TypeOK, NEW c \in Calls
    PROVE  /\ call[c].kind \in {"refresh", "revoke"} /\ call[c].token \in Tokens
           /\ call[c].status \in {0, 200, 400, 502, 503}
           /\ call[c].body \in Tokens \cup {NoBody, BadBody, Error}
BY DEF TypeOK, CallRecords

LEMMA NotTokens == {NoBody, BadBody, Error} \cap Tokens = {}
BY ForwardAssumption DEF Tokens

\* Nothing of a call that has no answer is on its way or lost.
LEMMA NothingYet ==
    ASSUME FInv, NEW c \in Calls, call[c].st \in {"new", "handler", "provider"}
    PROVE  /\ ~Carries(c) /\ ~Lost(c)
           /\ call[c].status = 0 /\ call[c].body = NoBody
<1>1. call[c].status = 0 /\ call[c].body = NoBody
    BY DEF FInv, Unanswered
<1> QED BY <1>1 DEF Carries, Lost

LEMMA SendStep == ASSUME FInv, NEW c \in Calls, Send(c) PROVE FInv'
<1>1. PICK kind \in {"refresh", "revoke"} : call' = [call EXCEPT ![c] = Call("handler", kind, held, 0, NoBody)]
    BY DEF Send
<1> DEFINE r == Call("handler", kind, held, 0, NoBody)
<1>2. /\ r \in CallRecords
      /\ r.st = "handler" /\ r.status = 0 /\ r.body = NoBody /\ r.token = held
    BY DEF CallRecords, Call, FInv, TypeOK
<1>3. call' = [call EXCEPT ![c] = r]
    BY <1>1
<1>4. r.token <= held
    BY <1>2, ForwardAssumption DEF FInv, TypeOK, Tokens
<1>5. ~Carries(c) /\ ~Lost(c)
    BY NothingYet DEF Send
<1>6. UNCHANGED <<valid, newest, revoked, held>>
    BY DEF Send
<1> HIDE DEF r
<1>7. Plain(c, r)
    BY <1>2, <1>3, <1>4, <1>5, <1>6 DEF Plain
<1> QED BY <1>7, PlainStep

\* PlainStep for the actions that use Becomes.
LEMMA BecomesStep ==
    ASSUME FInv, UNCHANGED <<valid, newest, revoked, held>>, NEW c \in Calls,
           NEW st \in {"provider", "answer", "reply", "gone"},
           NEW status \in {0, 200, 400, 502, 503}, NEW body \in Tokens \cup {NoBody, BadBody, Error},
           Becomes(c, st, status, body),
           st \in {"reply", "gone"} => status # 0 /\ body # BadBody,
           st = "provider" => status = 0 /\ body = NoBody,
           st = "answer" => status # 0,
           (call[c].kind = "revoke" /\ status = 200) => call[c].status = 200,
           (st \in {"answer", "reply"} /\ body \in Tokens) => Carries(c) /\ body = call[c].body,
           \/ ~Carries(c) /\ ~Lost(c)
           \/ st \in {"answer", "reply"} /\ body \in Tokens
           \/ status = 502 \/ st = "gone"
    PROVE  FInv'
<1> DEFINE r == After(c, st, status, body)
<1>1. /\ r \in CallRecords
      /\ r.st = st /\ r.status = status /\ r.body = body
      /\ r.kind = call[c].kind /\ r.token = call[c].token
    BY AfterFields DEF FInv
<1>2. call' = [call EXCEPT ![c] = r]
    BY BecomesRecord DEF FInv
<1>3. call[c].token <= held
    BY DEF FInv, Provider
<1>4. (call[c].kind = "revoke" /\ status = 200) => call[c].token \in revoked
    BY DEF FInv, Confirmed
<1> HIDE DEF r
<1>5. Plain(c, r)
    BY <1>1, <1>2, <1>3, <1>4 DEF Plain
<1> QED BY <1>5, PlainStep

LEMMA HandlerStep ==
    ASSUME FInv, NEW c \in Calls, Unsupported(c) \/ PostRefresh(c) \/ PostRevoke(c)
    PROVE  FInv'
<1>1. ~Carries(c) /\ ~Lost(c)
    BY NothingYet DEF Unsupported, PostRefresh, PostRevoke
<1>2. CASE Unsupported(c)
    BY <1>1, <1>2, BecomesStep, NotTokens, ForwardAssumption DEF Unsupported
<1>3. CASE PostRefresh(c)
    BY <1>1, <1>3, BecomesStep, NotTokens DEF PostRefresh
<1>4. CASE PostRevoke(c)
    BY <1>1, <1>4, BecomesStep, NotTokens DEF PostRevoke
<1> QED BY <1>2, <1>3, <1>4

\* The provider refuses the token, or does nothing.
LEMMA RefusedStep ==
    ASSUME FInv, NEW c \in Calls, call[c].st = "provider", UNCHANGED <<valid, newest, revoked, held>>,
           NEW status \in {400, 503}, NEW body \in {Error, BadBody}, Becomes(c, "answer", status, body)
    PROVE  FInv'
<1>1. ~Carries(c) /\ ~Lost(c)
    BY NothingYet
<1> QED BY <1>1, BecomesStep, NotTokens

\* The provider issues a token: the one that asked had the newest, so nobody else is
\* to get one.
LEMMA IssueStep ==
    ASSUME FInv, NEW c \in Calls, call[c].st = "provider", call[c].kind = "refresh",
           call[c].token \in valid, newest < MaxTokens, newest' = newest + 1, valid' = {newest + 1},
           NEW body \in {newest + 1, BadBody}, Becomes(c, "answer", 200, body),
           UNCHANGED <<revoked, held>>
    PROVE  FInv'
<1>1. TypeOK /\ Provider /\ Unanswered /\ Confirmed /\ OneOnItsWay
    BY DEF FInv
<1>2. newest + 1 \in Tokens /\ newest \in Nat /\ held \in Nat /\ Tokens \subseteq Nat
    BY <1>1, ForwardAssumption DEF TypeOK, Tokens
<1>3. held = newest
  <2>1. call[c].token = newest /\ call[c].token <= held /\ held <= newest
      BY <1>1 DEF Provider
  <2> QED BY <1>2, <2>1
<1>4. /\ After(c, "answer", 200, body) \in CallRecords
      /\ call' = [call EXCEPT ![c] = After(c, "answer", 200, body)]
    BY <1>1, <1>2, BecomesRecord, AfterFields
<1>5. /\ \A d \in Calls : d # c => call'[d] = call[d]
      /\ call'[c].st = "answer" /\ call'[c].kind = "refresh" /\ call'[c].status = 200
      /\ call'[c].body = body /\ call'[c].token = call[c].token
    BY <1>1, <1>2, <1>4, AfterFields DEF TypeOK
<1>6. \A d \in Calls : ~Carries(d)
    BY <1>1, <1>2, <1>3 DEF OneOnItsWay
<1>7. TypeOK'
    BY <1>1, <1>2, <1>4, <1>5 DEF TypeOK, Tokens
<1>8. Provider'
  <2>1. \A d \in Calls : call'[d].token <= held
      BY <1>1, <1>5 DEF Provider
  <2>2. \A t \in revoked : t \in Nat /\ t <= newest
      BY <1>1, <1>2 DEF Provider, TypeOK
  <2> QED BY <1>2, <1>3, <2>1, <2>2 DEF Provider
<1>9. Unanswered' /\ Confirmed'
    BY <1>1, <1>5 DEF Unanswered, Confirmed
<1>10. \A d \in Calls : Carries(d)' => d = c /\ body = newest + 1
    BY <1>5, <1>6, NotTokens DEF Carries, Tokens
<1>11. OneOnItsWay'
    BY <1>2, <1>3, <1>5, <1>10 DEF OneOnItsWay
<1>12. Carries(c)' \/ Lost(c)'
    BY <1>2, <1>5 DEF Carries, Lost, Tokens
<1> QED BY <1>7, <1>8, <1>9, <1>11, <1>12 DEF NewestSomewhere, FInv

LEMMA RefreshStep == ASSUME FInv, NEW c \in Calls, ProviderRefresh(c) PROVE FInv'
<1>1. CASE call[c].token \in valid
  <2>1. PICK body \in {newest + 1, BadBody} : Becomes(c, "answer", 200, body)
      BY <1>1 DEF ProviderRefresh
  <2> QED BY <1>1, <2>1, IssueStep DEF ProviderRefresh
<1>2. CASE call[c].token \notin valid
    BY <1>2, RefusedStep DEF ProviderRefresh
<1> QED BY <1>1, <1>2

LEMMA RevokeStep == ASSUME FInv, NEW c \in Calls, ProviderRevoke(c) PROVE FInv'
<1>1. TypeOK /\ Provider /\ Unanswered /\ Confirmed /\ OneOnItsWay /\ NewestSomewhere
    BY DEF FInv
<1>2. /\ call[c].kind = "revoke" /\ Becomes(c, "answer", 200, NoBody)
      /\ valid' = valid \ {call[c].token} /\ revoked' = revoked \cup {call[c].token}
      /\ newest' = newest /\ held' = held
    BY DEF ProviderRevoke
<1>3. ~Carries(c) /\ ~Lost(c)
    BY NothingYet DEF ProviderRevoke
<1>4. /\ After(c, "answer", 200, NoBody) \in CallRecords
      /\ call' = [call EXCEPT ![c] = After(c, "answer", 200, NoBody)]
    BY <1>1, <1>2, BecomesRecord, AfterFields
<1>5. /\ \A d \in Calls : d # c => call'[d] = call[d]
      /\ call'[c].st = "answer" /\ call'[c].kind = "revoke" /\ call'[c].status = 200
      /\ call'[c].body = NoBody /\ call'[c].token = call[c].token
    BY <1>1, <1>2, <1>4, AfterFields DEF TypeOK
<1>6. call[c].token \in Tokens
    BY <1>1, CallFields
<1>7. TypeOK'
    BY <1>1, <1>2, <1>4, <1>5, <1>6 DEF TypeOK, Tokens
<1>8. Provider'
  <2>0. Tokens \subseteq Nat
      BY ForwardAssumption DEF Tokens
  <2>1. newest \in Nat /\ held \in Nat /\ call[c].token \in Nat
      BY <1>1, <1>6, <2>0 DEF TypeOK
  <2>2. call[c].token <= newest
      BY <1>1, <2>1 DEF Provider
  <2> QED BY <1>1, <1>2, <1>5, <2>2 DEF Provider
<1>9. Unanswered' /\ Confirmed'
    BY <1>1, <1>2, <1>5 DEF Unanswered, Confirmed
<1>10. /\ ~Carries(c)'
       /\ \A d \in Calls : d # c => (Carries(d)' <=> Carries(d)) /\ (Lost(d)' <=> Lost(d))
    BY <1>5, NotTokens DEF Carries, Lost, Tokens
<1>11. OneOnItsWay'
    BY <1>1, <1>2, <1>5, <1>10 DEF OneOnItsWay
<1>12. NewestSomewhere'
    BY <1>1, <1>2, <1>3, <1>10 DEF NewestSomewhere
<1> QED BY <1>7, <1>8, <1>9, <1>11, <1>12 DEF FInv

LEMMA BusyStep == ASSUME FInv, NEW c \in Calls, ProviderBusy(c) PROVE FInv'
<1>1. PICK body \in {Error, BadBody} : Becomes(c, "answer", 503, body)
    BY DEF ProviderBusy
<1> QED BY <1>1, RefusedStep DEF ProviderBusy

LEMMA FailStep == ASSUME FInv, NEW c \in Calls, PostFails(c) PROVE FInv'
BY BecomesStep, NotTokens, ForwardAssumption DEF PostFails

LEMMA ReplyRefreshStep == ASSUME FInv, NEW c \in Calls, ReplyRefresh(c) PROVE FInv'
<1>1. /\ call[c].st = "answer" /\ call[c].kind = "refresh" /\ call[c].status # 0
      /\ UNCHANGED <<valid, newest, revoked, held>>
    BY DEF ReplyRefresh, FInv, Unanswered
<1>2. CASE call[c].body = BadBody
  <2>1. Becomes(c, "reply", 502, Error)
      BY <1>2 DEF ReplyRefresh
  <2> QED BY <1>1, <2>1, BecomesStep, NotTokens, ForwardAssumption
<1>3. CASE call[c].body # BadBody
  <2>1. Becomes(c, "reply", call[c].status, call[c].body)
      BY <1>3 DEF ReplyRefresh
  <2>2. /\ call[c].body \in Tokens => Carries(c)
        /\ (~Carries(c) /\ ~Lost(c)) \/ call[c].body \in Tokens \/ call[c].status = 502
      BY <1>1, <1>3 DEF Carries, Lost
  <2>3. /\ call[c].status \in {0, 200, 400, 502, 503}
        /\ call[c].body \in Tokens \cup {NoBody, BadBody, Error}
      BY CallFields DEF FInv
  <2> QED BY <1>1, <1>3, <2>1, <2>2, <2>3, BecomesStep
<1> QED BY <1>2, <1>3

LEMMA ReplyRevokeStep == ASSUME FInv, NEW c \in Calls, ReplyRevoke(c) PROVE FInv'
<1>1. /\ call[c].st = "answer" /\ call[c].kind = "revoke" /\ call[c].status # 0
      /\ UNCHANGED <<valid, newest, revoked, held>>
    BY DEF ReplyRevoke, FInv, Unanswered
<1> DEFINE body == IF call[c].status # 200 /\ call[c].body # BadBody THEN call[c].body ELSE NoBody
<1>2. Becomes(c, "reply", call[c].status, body)
    BY DEF ReplyRevoke
<1>3. ~Carries(c)
    BY <1>1 DEF FInv, OneOnItsWay
<1>4. call[c].body \notin Tokens
    BY <1>1, <1>3 DEF Carries
<1>5. ~Lost(c) \/ call[c].status = 502
    BY <1>1 DEF Lost
<1>6. /\ call[c].status \in {0, 200, 400, 502, 503}
      /\ body \in {NoBody, BadBody, Error} /\ body \notin Tokens /\ body # BadBody
    BY <1>4, CallFields, NotTokens, ForwardAssumption DEF FInv
<1> HIDE DEF body
<1> QED BY <1>1, <1>2, <1>3, <1>5, <1>6, BecomesStep

LEMMA VanishStep == ASSUME FInv, NEW c \in Calls, Vanish(c) PROVE FInv'
<1>1. /\ call[c].status \in {0, 200, 400, 502, 503}
      /\ call[c].body \in Tokens \cup {NoBody, BadBody, Error}
    BY CallFields DEF FInv
<1>2. call[c].status # 0 /\ call[c].body # BadBody
    BY DEF Vanish, FInv, TypeOK
<1> QED BY <1>1, <1>2, BecomesStep DEF Vanish

\* The client gets what was on its way, the newest token, if there was one.
LEMMA DeliverStep == ASSUME FInv, NEW c \in Calls, Deliver(c) PROVE FInv'
<1>1. TypeOK /\ Provider /\ Unanswered /\ Confirmed /\ OneOnItsWay /\ NewestSomewhere
    BY DEF FInv
<1>2. /\ call[c].st = "reply" /\ Becomes(c, "done", call[c].status, call[c].body)
      /\ held' = IF call[c].body \in Tokens THEN call[c].body ELSE held
      /\ valid' = valid /\ newest' = newest /\ revoked' = revoked
    BY DEF Deliver
<1>3. /\ After(c, "done", call[c].status, call[c].body) \in CallRecords
      /\ call' = [call EXCEPT ![c] = After(c, "done", call[c].status, call[c].body)]
    BY <1>1, <1>2, BecomesRecord, AfterFields, CallFields
<1>4. /\ \A d \in Calls : d # c => call'[d] = call[d]
      /\ call'[c].st = "done" /\ call'[c].kind = call[c].kind /\ call'[c].status = call[c].status
      /\ call'[c].body = call[c].body /\ call'[c].token = call[c].token
  <2>1. call'[c] = After(c, "done", call[c].status, call[c].body)
      BY <1>1, <1>3 DEF TypeOK
  <2>2. \A d \in Calls : d # c => call'[d] = call[d]
      BY <1>1, <1>3 DEF TypeOK
  <2> QED BY <2>1, <2>2 DEF After, Call
<1>5. newest \in Nat /\ held \in Nat /\ \A d \in Calls : call[d].token \in Nat
    BY <1>1, CallFields, ForwardAssumption DEF TypeOK, Tokens
<1>6. \/ Carries(c) /\ held' = newest /\ held < newest
      \/ ~Carries(c) /\ held' = held
    BY <1>1, <1>2 DEF Carries, OneOnItsWay
<1>7. TypeOK'
    BY <1>1, <1>2, <1>3, <1>4 DEF TypeOK, Tokens
<1>8. Provider'
    BY <1>1, <1>2, <1>4, <1>5, <1>6 DEF Provider
<1>9. Unanswered' /\ Confirmed'
    BY <1>1, <1>2, <1>4 DEF Unanswered, Confirmed
<1>10. /\ ~Carries(c)'
       /\ \A d \in Calls : d # c => (Carries(d)' <=> Carries(d)) /\ (Lost(d)' <=> Lost(d))
    BY <1>4 DEF Carries, Lost, Tokens
<1>11. OneOnItsWay'
    BY <1>1, <1>2, <1>4, <1>6, <1>10 DEF OneOnItsWay
<1>12. Lost(c) => Lost(c)'
    BY <1>2, <1>4 DEF Lost
<1>13. NewestSomewhere'
    BY <1>1, <1>2, <1>6, <1>10, <1>12 DEF NewestSomewhere
<1> QED BY <1>7, <1>8, <1>9, <1>11, <1>13 DEF FInv

LEMMA ForwardNext == FInv /\ [Next]_vars => FInv'
<1> SUFFICES ASSUME FInv, [Next]_vars PROVE FInv'
    OBVIOUS
<1>1. CASE Next
    BY <1>1, SendStep, HandlerStep, RefreshStep, RevokeStep, BusyStep, FailStep,
       ReplyRefreshStep, ReplyRevokeStep, DeliverStep, VanishStep DEF Next
<1>2. CASE UNCHANGED vars
    BY <1>2 DEF vars, FInv, TypeOK, Provider, Unanswered, Confirmed, OneOnItsWay, NewestSomewhere,
         Carries, Lost, Tokens
<1> QED BY <1>1, <1>2

LEMMA ForwardInv == Spec => []FInv
BY ForwardInit, ForwardNext, PTL DEF Spec

\* Whatever the calls do in whatever order, what the handlers of refresh and revoke
\* write has a status and a body that can be read.
THEOREM ForwardTyping == Spec => []TypeOK
<1>1. FInv => TypeOK
    BY DEF FInv
<1> QED BY <1>1, ForwardInv, PTL

\* A revocation that handleRevoke confirms has happened, and stands.
THEOREM RevokedIsRevokedThm == Spec => []RevokedIsRevoked
<1>1. FInv => RevokedIsRevoked
    BY DEF FInv, RevokedIsRevoked, Confirmed, Provider
<1> QED BY <1>1, ForwardInv, PTL

\* handleTokenRefresh loses no session by itself, for any number of overlapping calls.
THEOREM SessionKeptThm == Spec => []SessionKept
<1>1. FInv => SessionKept
  <2> SUFFICES ASSUME FInv, revoked = {},
                      \A c \in Calls : call[c].st \in {"new", "done"} /\ call[c].status # 502
               PROVE  held \in valid
      BY DEF SessionKept
  <2>1. ASSUME NEW c \in Calls PROVE ~Carries(c) /\ ~Lost(c)
    <3>1. call[c].st \in {"new", "done"} /\ call[c].status # 502
        OBVIOUS
    <3> QED BY <3>1 DEF Carries, Lost
  <2>2. held = newest
      BY <2>1 DEF FInv, NewestSomewhere
  <2> QED BY <2>2 DEF FInv, Provider
<1> QED BY <1>1, ForwardInv, PTL
=============================================================================
