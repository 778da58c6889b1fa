-------------------------- MODULE OAuthProxyProofs --------------------------
(***************************************************************************)
(* Proofs about the authorization code flow, for any number of nodes, keys *)
(* and flows, any clock differences up to MaxSkew and any times to live.   *)
(***************************************************************************)
EXTENDS OAuthProxy, TLAPS

(***************************************************************************)
(* The inductive invariant follows the data through the flow: what a state *)
(* parameter says is what the accepted request said; what a code says is   *)
(* what the state parameter that came with the callback said; what was     *)
(* released was asked for with what the code says.  Which code a callback  *)
(* brings with which state parameter is left open.                         *)
(***************************************************************************)
StateMatchesQuery ==
    \A a \in accepted :
        /\ a.query \in Queries /\ isValidRedirectURI(a.query.redirect_uri)
        /\ a.cipher.client_id = a.query.client_id
        /\ a.cipher.redirect_uri = a.query.redirect_uri
        /\ a.cipher.code_challenge = a.query.code_challenge
        /\ a.cipher.client_state = a.query.state

\* d is the redirect of a callback that came with the state parameter st.
EndOf(d, st) ==
    /\ d.code.from = st
    /\ d.code.client_id = st.client_id
    /\ d.code.redirect_uri = st.redirect_uri
    /\ d.code.code_challenge = st.code_challenge
    /\ d.uri = st.redirect_uri /\ d.state = st.client_state

CodeMatchesState ==
    \A d \in redirects : d.code.access_token \in spent /\ \E st \in StatesOut : EndOf(d, st)

ReleaseMatchesCode ==
    \A r \in released :
        /\ r.code \in CodesOut
        /\ r.client_id = r.code.client_id
        /\ r.redirect_uri = r.code.redirect_uri
        /\ S256[r.code_verifier] = r.code.code_challenge

\* Where callbacks under way come from.
CallTyped(c) ==
    /\ c \in [node : Nodes, code : LoginCodes, state : StatesOut,
             life : Lifetimes \cup {Waiting}, issued : Nat]
    /\ c.issued <= now

\* Tokens that have arrived in a handler are in no redirect and no other handler.
TokensInOnePlace ==
    /\ \A c \in calls : c.life # Waiting =>
          /\ c.code \in spent
          /\ \A d \in redirects : d.code.access_token # c.code
          /\ \A e \in calls : e.life # Waiting /\ e.code = c.code => e = c
    /\ \A d, e \in redirects : d.code.access_token = e.code.access_token => d = e

FlowInv ==
    /\ now \in Nat /\ \A c \in calls : CallTyped(c)
    /\ StateMatchesQuery /\ CodeMatchesState
    /\ ReleaseMatchesCode /\ TokensInOnePlace

LEMMA FlowInit == Init => FlowInv
BY DEF Init, FlowInv, StateMatchesQuery, CodeMatchesState, ReleaseMatchesCode, TokensInOnePlace

\* A call stays typed when time goes on and more has been handed out.
LEMMA CallStays ==
    ASSUME NEW c, CallTyped(c), now \in Nat, now' \in Nat, now <= now',
           accepted \subseteq accepted', logins \subseteq logins'
    PROVE  CallTyped(c)'
<1>1. StatesOut \subseteq StatesOut' /\ LoginCodes \subseteq LoginCodes'
    BY DEF StatesOut, LoginCodes
<1>2. c \in [node : Nodes, code : LoginCodes, state : StatesOut,
            life : Lifetimes \cup {Waiting}, issued : Nat]
    BY DEF CallTyped
<1>3. c \in [node : Nodes, code : LoginCodes', state : StatesOut',
            life : Lifetimes \cup {Waiting}, issued : Nat]
    BY <1>1, <1>2
<1>4. c.issued <= now /\ c.issued \in Nat
    BY <1>2 DEF CallTyped
<1>5. c.issued <= now'
    BY <1>4
<1> QED BY <1>3, <1>5 DEF CallTyped

LEMMA FlowNext == FlowInv /\ [Next]_vars => FlowInv'
<1> SUFFICES ASSUME FlowInv, [Next]_vars PROVE FlowInv'
    OBVIOUS
<1> USE DEF FlowInv
<1>0. CASE UNCHANGED vars
    BY <1>0 DEF vars, StateMatchesQuery, CodeMatchesState, ReleaseMatchesCode, CallTyped, LoginCodes,
                TokensInOnePlace, StatesOut, CodesOut
<1>a. ASSUME calls' \subseteq calls, now' \in Nat, now <= now', accepted \subseteq accepted', logins \subseteq logins'
      PROVE  \A c \in calls' : CallTyped(c)'
    BY <1>a, CallStays
<1>1. ASSUME NEW n \in Nodes, NEW q \in Queries, Authorize(n, q) PROVE FlowInv'
    <2>1. StateMatchesQuery'
        BY <1>1 DEF Authorize, StatePayload, StateMatchesQuery
    <2>2. /\ accepted \subseteq accepted'
          /\ UNCHANGED <<now, logins, spent, calls, redirects, released>>
        BY <1>1 DEF Authorize
    <2>3. CodeMatchesState'
        BY <2>2 DEF CodeMatchesState, EndOf, StatesOut
    <2>4. ReleaseMatchesCode' /\ TokensInOnePlace'
        BY <2>2 DEF ReleaseMatchesCode, TokensInOnePlace, CodesOut
    <2>5. \A c \in calls' : CallTyped(c)'
        BY <1>a, <2>2
    <2> QED BY <2>1, <2>2, <2>3, <2>4, <2>5
<1>2. ASSUME NEW n \in Nodes, NEW code \in LoginCodes, NEW state \in StatesOut, CallbackStart(n, code, state)
      PROVE  FlowInv'
    <2> DEFINE e == [node |-> n, code |-> code, state |-> state, life |-> Waiting, issued |-> 0]
    <2>1. calls' = calls \cup {e} /\ UNCHANGED <<now, accepted, logins, spent, redirects, released>>
        BY <1>2 DEF CallbackStart
    <2>2. CallTyped(e) /\ e.life = Waiting
        BY DEF CallTyped
    <2> HIDE DEF e
    <2>3. \A c \in calls' : CallTyped(c)
        BY <2>1, <2>2
    <2>4. \A c \in calls' : CallTyped(c)'
        BY <2>1, <2>3, CallStays
    <2>5. TokensInOnePlace'
        BY <2>1, <2>2 DEF TokensInOnePlace
    <2>6. StateMatchesQuery' /\ CodeMatchesState' /\ ReleaseMatchesCode'
        BY <2>1 DEF StateMatchesQuery, CodeMatchesState, ReleaseMatchesCode, StatesOut, CodesOut
    <2> QED BY <2>1, <2>4, <2>5, <2>6
<1>3. ASSUME NEW n \in Nodes, NEW code \in CodesOut, NEW client \in Clients, NEW uri \in URIs,
             NEW verifier \in Verifiers, TokenAuthorizationCode(n, code, client, uri, verifier)
      PROVE  FlowInv'
    <2>1. ReleaseMatchesCode'
        BY <1>3 DEF TokenAuthorizationCode, ReleaseMatchesCode, verifyCodeChallenge, CodesOut
    <2>2. UNCHANGED <<now, accepted, logins, spent, calls, redirects>>
        BY <1>3 DEF TokenAuthorizationCode
    <2>3. StateMatchesQuery' /\ CodeMatchesState' /\ TokensInOnePlace'
        BY <2>2 DEF StateMatchesQuery, CodeMatchesState, TokensInOnePlace, StatesOut
    <2>4. \A c \in calls' : CallTyped(c)'
        BY <1>a, <2>2
    <2> QED BY <2>1, <2>2, <2>3, <2>4
<1>4. ASSUME NEW c \in calls, CallbackFinish(c) PROVE FlowInv'
    <2> DEFINE d == RedirectOf(c)
    <2>1. /\ c.life # Waiting /\ redirects' = redirects \cup {d} /\ calls' = calls \ {c}
          /\ UNCHANGED <<now, accepted, logins, spent, released>>
        BY <1>4 DEF CallbackFinish
    <2>2. EndOf(d, c.state) /\ d.code.access_token = c.code
        BY DEF EndOf, RedirectOf, AuthCodePayload
    <2>3. c.state \in StatesOut /\ c.code \in spent
        BY <2>1 DEF TokensInOnePlace, CallTyped
    <2> HIDE DEF d
    <2>4. CodeMatchesState'
        BY <2>1, <2>2, <2>3 DEF CodeMatchesState, EndOf, StatesOut
    <2>5. TokensInOnePlace'
        BY <2>1, <2>2 DEF TokensInOnePlace
    <2>6. ReleaseMatchesCode'
        BY <2>1 DEF ReleaseMatchesCode, CodesOut
    <2>7. StateMatchesQuery'
        BY <2>1 DEF StateMatchesQuery
    <2>8. \A e \in calls' : CallTyped(e)'
        BY <1>a, <2>1
    <2> QED BY <2>1, <2>4, <2>5, <2>6, <2>7, <2>8
<1>5. ASSUME NEW c \in calls, CallbackFail(c) PROVE FlowInv'
    <2>1. calls' \subseteq calls /\ UNCHANGED <<now, accepted, logins, spent, redirects, released>>
        BY <1>5 DEF CallbackFail
    <2>2. StateMatchesQuery' /\ CodeMatchesState' /\ ReleaseMatchesCode' /\ TokensInOnePlace'
        BY <2>1 DEF StateMatchesQuery, CodeMatchesState, ReleaseMatchesCode, TokensInOnePlace, StatesOut, CodesOut
    <2> QED BY <1>a, <2>1, <2>2
<1>6. ASSUME NEW c \in calls, ProviderExchange(c) PROVE FlowInv'
    <2>1. PICK life \in Lifetimes : calls' = (calls \ {c}) \cup {[c EXCEPT !.life = life, !.issued = now]}
        BY <1>6 DEF ProviderExchange
    <2> DEFINE e == [c EXCEPT !.life = life, !.issued = now]
    <2>a. /\ now \in Nat
          /\ c \in [node : Nodes, code : LoginCodes, state : StatesOut,
                   life : Lifetimes \cup {Waiting}, issued : Nat]
        BY DEF CallTyped
    <2>b. e \in [node : Nodes, code : LoginCodes, state : StatesOut,
                life : Lifetimes \cup {Waiting}, issued : Nat]
        BY <2>a
    <2>c. e.issued = now /\ e.code = c.code
        BY <2>a
    <2>2. CallTyped(e) /\ e.code = c.code
      <3> HIDE DEF e
      <3>1. e.issued <= now
          BY <2>a, <2>c
      <3> QED BY <2>b, <2>c, <3>1 DEF CallTyped
    <2>3. /\ spent' = spent \cup {c.code} /\ c.code \notin spent
          /\ UNCHANGED <<now, accepted, logins, redirects, released>>
        BY <1>6 DEF ProviderExchange
    <2> HIDE DEF e
    <2>4. calls' = (calls \ {c}) \cup {e}
        BY <2>1 DEF e
    <2>5. TokensInOnePlace'
        BY <2>2, <2>3, <2>4 DEF TokensInOnePlace, CodeMatchesState
    <2>6. StateMatchesQuery' /\ CodeMatchesState' /\ ReleaseMatchesCode'
        BY <2>3 DEF StateMatchesQuery, CodeMatchesState, ReleaseMatchesCode, StatesOut, CodesOut, EndOf
    <2>7. \A k \in calls' : CallTyped(k)
        BY <2>2, <2>4
    <2>8. \A k \in calls' : CallTyped(k)'
        BY <2>3, <2>7, CallStays
    <2> QED BY <2>3, <2>5, <2>6, <2>8
<1>7. ASSUME NEW s \in StatesOut, ProviderLogin(s) PROVE FlowInv'
    <2>1. logins \subseteq logins' /\ UNCHANGED <<now, accepted, spent, calls, redirects, released>>
        BY <1>7 DEF ProviderLogin
    <2>2. StateMatchesQuery' /\ CodeMatchesState' /\ ReleaseMatchesCode' /\ TokensInOnePlace'
        BY <2>1 DEF StateMatchesQuery, CodeMatchesState, ReleaseMatchesCode, TokensInOnePlace, StatesOut, CodesOut
    <2> QED BY <1>a, <2>1, <2>2
<1>8. ASSUME NEW n \in Nodes, NEW k \in Keys, Restart(n, k) PROVE FlowInv'
    <2>1. calls' \subseteq calls /\ UNCHANGED <<now, accepted, logins, spent, redirects, released>>
        BY <1>8 DEF Restart
    <2>2. StateMatchesQuery' /\ CodeMatchesState' /\ ReleaseMatchesCode' /\ TokensInOnePlace'
        BY <2>1 DEF StateMatchesQuery, CodeMatchesState, ReleaseMatchesCode, TokensInOnePlace, StatesOut, CodesOut
    <2> QED BY <1>a, <2>1, <2>2
<1>9. CASE Tick
    <2>1. now' \in Nat /\ now <= now' /\ UNCHANGED <<accepted, logins, spent, calls, redirects, released>>
        BY <1>9 DEF Tick
    <2>2. StateMatchesQuery' /\ CodeMatchesState' /\ ReleaseMatchesCode' /\ TokensInOnePlace'
        BY <2>1 DEF StateMatchesQuery, CodeMatchesState, ReleaseMatchesCode, TokensInOnePlace, StatesOut, CodesOut
    <2> QED BY <1>a, <2>1, <2>2
<1> QED BY <1>0, <1>1, <1>2, <1>3, <1>4, <1>5, <1>6, <1>7, <1>8, <1>9 DEF Next, Handle

\* A redirect belongs to the request whose state parameter came with its callback.
LEMMA EndHasQuery ==
    ASSUME FlowInv, NEW d \in redirects
    PROVE  \E q \in Queries :
              /\ StartedBy(d.code, q)
              /\ d.code.client_id = q.client_id /\ d.code.redirect_uri = q.redirect_uri
              /\ d.code.code_challenge = q.code_challenge
              /\ d.uri = q.redirect_uri /\ d.state = q.state
<1>1. PICK st \in StatesOut : EndOf(d, st)
    BY DEF FlowInv, CodeMatchesState
<1>2. PICK a \in accepted : a.cipher = st
    BY DEF StatesOut
<1>3. /\ a.query \in Queries /\ isValidRedirectURI(a.query.redirect_uri)
      /\ st.client_id = a.query.client_id /\ st.redirect_uri = a.query.redirect_uri
      /\ st.code_challenge = a.query.code_challenge /\ st.client_state = a.query.state
    BY <1>2 DEF FlowInv, StateMatchesQuery
<1>4. StartedBy(d.code, a.query)
    BY <1>1, <1>2, <1>3 DEF StartedBy, EndOf
<1> QED BY <1>1, <1>3, <1>4 DEF EndOf

\* Tokens are released only for the client, the redirect URI and the PKCE challenge of
\* the one request whose state parameter came with their callback, however the steps
\* of any number of flows interleave on any number of nodes, through restarts and
\* changes of keys, and whatever codes and state parameters callbacks combine.
THEOREM TokensOnlyToRequesterThm == Spec => []TokensOnlyToRequester
<1>1. FlowInv => TokensOnlyToRequester
    <2> SUFFICES ASSUME FlowInv, NEW r \in released
                 PROVE  \E q \in Queries :
                            /\ StartedBy(r.code, q)
                            /\ q.client_id = r.client_id /\ q.redirect_uri = r.redirect_uri
                            /\ q.code_challenge = S256[r.code_verifier]
        BY DEF TokensOnlyToRequester
    <2>1. PICK d \in redirects : d.code = r.code
        BY DEF FlowInv, ReleaseMatchesCode, CodesOut
    <2>2. PICK q \in Queries :
              /\ StartedBy(d.code, q)
              /\ d.code.client_id = q.client_id /\ d.code.redirect_uri = q.redirect_uri
              /\ d.code.code_challenge = q.code_challenge
        BY EndHasQuery
    <2> QED BY <2>1, <2>2 DEF FlowInv, ReleaseMatchesCode
<1> QED BY <1>1, FlowInit, FlowNext, PTL DEF Spec

\* The browser is sent to the address of the request whose state parameter came back,
\* and the tokens of one login never get into two authorization codes, whatever codes
\* and state parameters callbacks combine.
THEOREM RedirectMatchesStateThm == Spec => []RedirectMatchesState
<1>1. FlowInv => RedirectMatchesState
    <2> SUFFICES ASSUME FlowInv PROVE RedirectMatchesState
        OBVIOUS
    <2>1. ASSUME NEW d \in redirects
          PROVE  \E q \in Queries : StartedBy(d.code, q) /\ d.uri = q.redirect_uri /\ d.state = q.state
        BY EndHasQuery
    <2>2. \A d, e \in redirects : d.code.access_token = e.code.access_token => d = e
        BY DEF FlowInv, TokensInOnePlace
    <2> QED BY <2>1, <2>2 DEF RedirectMatchesState
<1> QED BY <1>1, FlowInit, FlowNext, PTL DEF Spec

(***************************************************************************)
(* Time.  A time stamp is at most a second behind the clock of its node,   *)
(* which is at most MaxSkew ahead of real time; that is all the age checks *)
(* rest on.                                                                *)
(***************************************************************************)
LEMMA WholeSeconds ==
    ASSUME NEW x \in Nat, NEW T \in Nat \ {0}
    PROVE  /\ (x \div T) \in Nat
           /\ (x \div T) * T <= x
           /\ x <= (x \div T) * T + (T - 1)
OBVIOUS

Stamped(cipher) ==
    /\ cipher.at \in Nat
    /\ cipher.stamp \in Nat
    /\ cipher.stamp * TicksPerSecond <= cipher.at + MaxSkew
    /\ cipher.at <= cipher.stamp * TicksPerSecond + (TicksPerSecond - 1)

TimeInv ==
    /\ now \in Nat
    /\ \A a \in accepted : Stamped(a.cipher)
    /\ \A d \in redirects : Stamped(d.code)

\* What is made now is stamped correctly.
LEMMA StampNow ==
    ASSUME TimeInv, NEW n \in Nodes, NEW cipher, cipher.at = now, cipher.stamp = Stamp(n)
    PROVE  Stamped(cipher)
<1>1. /\ now \in Nat /\ Skew[n] \in Nat /\ MaxSkew \in Nat /\ Skew[n] <= MaxSkew
      /\ TicksPerSecond \in Nat \ {0} /\ Clock(n) = now + Skew[n]
    BY OAuthAssumption DEF TimeInv, Clock
<1>2. /\ Stamp(n) \in Nat
      /\ Stamp(n) * TicksPerSecond <= Clock(n)
      /\ Clock(n) <= Stamp(n) * TicksPerSecond + (TicksPerSecond - 1)
  <2> DEFINE x == Clock(n)
  <2>1. x \in Nat
    BY <1>1
  <2> HIDE DEF x
  <2>2. /\ (x \div TicksPerSecond) \in Nat
        /\ (x \div TicksPerSecond) * TicksPerSecond <= x
        /\ x <= (x \div TicksPerSecond) * TicksPerSecond + (TicksPerSecond - 1)
    BY <1>1, <2>1, WholeSeconds
  <2> QED BY <2>2 DEF x, Stamp
<1>3. Stamp(n) * TicksPerSecond \in Nat
    BY <1>1, <1>2
<1> QED BY <1>1, <1>2, <1>3 DEF Stamped

\* Something stamped that node n does not consider expired is not much too old.
LEMMA AgeBound ==
    ASSUME TimeInv, NEW n \in Nodes, NEW cipher, Stamped(cipher), NEW ttl \in Nat
    PROVE  /\ ~Expired(n, cipher.stamp, ttl) => now - cipher.at <= ttl + MaxSkew
           /\ now - cipher.at <= ttl - MaxSkew - (TicksPerSecond - 1) => ~Expired(n, cipher.stamp, ttl)
<1>1. /\ now \in Nat /\ Skew[n] \in Nat /\ MaxSkew \in Nat /\ Skew[n] <= MaxSkew
      /\ TicksPerSecond \in Nat \ {0}
    BY OAuthAssumption DEF TimeInv
<1> DEFINE whole == cipher.stamp * TicksPerSecond
<1>2. /\ cipher.at \in Nat /\ whole \in Nat
      /\ whole <= cipher.at + MaxSkew /\ cipher.at <= whole + (TicksPerSecond - 1)
    BY <1>1 DEF Stamped
<1>3. Expired(n, cipher.stamp, ttl) <=> (now + Skew[n]) - whole > ttl
    BY DEF Expired, Clock
<1> HIDE DEF whole
<1> QED BY <1>1, <1>2, <1>3

LEMMA TimeInit == Init => TimeInv
BY DEF Init, TimeInv

\* Time goes on, and state parameters and codes come from two handlers only.
LEMMA OtherSteps ==
    ASSUME now \in Nat, [Next]_vars
    PROVE  /\ now' \in Nat /\ now <= now'
           /\ \/ \E n \in Nodes, q \in Queries : Authorize(n, q)
              \/ \E c \in calls : CallbackFinish(c)
              \/ UNCHANGED <<accepted, redirects>>
<1>1. CASE Tick
    BY <1>1 DEF Tick
<1>2. CASE ~Tick
  <2>1. now' = now
      BY <1>2 DEF Next, Handle, Authorize, CallbackStart, TokenAuthorizationCode, CallbackFinish, CallbackFail,
                  ProviderExchange, ProviderLogin, Restart, vars
  <2>2. \/ \E n \in Nodes, q \in Queries : Authorize(n, q)
        \/ \E c \in calls : CallbackFinish(c)
        \/ UNCHANGED <<accepted, redirects>>
      BY <1>2 DEF Next, Handle, CallbackStart, TokenAuthorizationCode, CallbackFail,
                  ProviderExchange, ProviderLogin, Restart, vars
  <2> QED BY <2>1, <2>2
<1> QED BY <1>1, <1>2

LEMMA TimeNext == FlowInv /\ TimeInv /\ [Next]_vars => TimeInv'
<1> SUFFICES ASSUME FlowInv, TimeInv, [Next]_vars PROVE TimeInv'
    OBVIOUS
<1>1. ASSUME UNCHANGED <<accepted, redirects>>, now' \in Nat PROVE TimeInv'
    BY <1>1 DEF TimeInv, Stamped
<1>2. ASSUME NEW n \in Nodes, NEW q \in Queries, Authorize(n, q) PROVE TimeInv'
    <2>1. /\ accepted' = accepted \cup {[query |-> q, cipher |-> StatePayload(n, q)]}
          /\ now' = now /\ redirects' = redirects
        BY <1>2 DEF Authorize
    <2>2. Stamped(StatePayload(n, q))
        BY StampNow DEF StatePayload
    <2> QED BY <2>1, <2>2 DEF TimeInv, Stamped
<1>3. ASSUME NEW c \in calls, CallbackFinish(c) PROVE TimeInv'
    <2>1. /\ redirects' = redirects \cup {RedirectOf(c)}
          /\ now' = now /\ accepted' = accepted /\ RedirectOf(c).code = AuthCodePayload(c)
        BY <1>3 DEF CallbackFinish, RedirectOf
    <2>2. c.node \in Nodes
        BY DEF FlowInv, CallTyped
    <2>3. Stamped(AuthCodePayload(c))
        BY <2>2, StampNow DEF AuthCodePayload
    <2> QED BY <2>1, <2>3 DEF TimeInv, Stamped
<1> QED BY <1>1, <1>2, <1>3, OtherSteps DEF TimeInv

\* No state parameter and no authorization code is refused for its age while it
\* is younger than its time to live by a second and the clocks' difference.
THEOREM YoungIsAcceptedThm == Spec => []YoungIsAccepted
<1>1. TimeInv => YoungIsAccepted
    BY AgeBound, OAuthAssumption DEF TimeInv, YoungIsAccepted, StatesOut, CodesOut
<1> QED BY <1>1, FlowInit, FlowNext, TimeInit, TimeNext, PTL DEF Spec

\* None is accepted later than its time to live and the clocks' difference.
THEOREM StaleIsRefusedThm == Spec => StaleIsRefused
<1> DEFINE Act ==
       /\ \A c \in calls' \ calls : c.life = Waiting => now - c.state.at <= stateTTL + MaxSkew
       /\ \A r \in released' \ released : now - r.code.at <= authCodeTTL + MaxSkew
<1>1. FlowInv /\ TimeInv /\ [Next]_vars => [Act]_vars
    <2> SUFFICES ASSUME FlowInv, TimeInv, Next PROVE Act
        OBVIOUS
    <2>1. ASSUME NEW n \in Nodes, NEW code \in LoginCodes, NEW state \in StatesOut, CallbackStart(n, code, state)
          PROVE  Act
        <3>1. Stamped(state)
            BY DEF StatesOut, TimeInv
        <3>2. now - state.at <= stateTTL + MaxSkew
            BY <2>1, <3>1, AgeBound, OAuthAssumption DEF CallbackStart
        <3> QED BY <2>1, <3>2 DEF CallbackStart
    <2>2. ASSUME NEW n \in Nodes, NEW code \in CodesOut, NEW client \in Clients, NEW uri \in URIs,
                 NEW verifier \in Verifiers, TokenAuthorizationCode(n, code, client, uri, verifier)
          PROVE  Act
        <3>1. Stamped(code)
            BY DEF CodesOut, TimeInv
        <3>2. now - code.at <= authCodeTTL + MaxSkew
            BY <2>2, <3>1, AgeBound, OAuthAssumption DEF TokenAuthorizationCode
        <3> QED BY <2>2, <3>2 DEF TokenAuthorizationCode
    <2>3. ASSUME NEW c \in calls, ProviderExchange(c) PROVE Act
        <3>1. PICK life \in Lifetimes : calls' = (calls \ {c}) \cup {[c EXCEPT !.life = life, !.issued = now]}
            BY <2>3 DEF ProviderExchange
        <3>2. c \in [node : Nodes, code : LoginCodes, state : StatesOut,
                    life : Lifetimes \cup {Waiting}, issued : Nat]
            BY DEF FlowInv, CallTyped
        <3>3. [c EXCEPT !.life = life, !.issued = now].life # Waiting
            BY <3>2, OAuthAssumption DEF Waiting
        <3> QED BY <2>3, <3>1, <3>3 DEF ProviderExchange
    <2>4. ASSUME calls' \subseteq calls, released' = released PROVE Act
        BY <2>4
    <2> QED
        BY <2>1, <2>2, <2>3, <2>4
        DEF Next, Handle, Authorize, CallbackFinish, CallbackFail, ProviderLogin, Restart, Tick
<1> QED BY <1>1, FlowInit, FlowNext, TimeInit, TimeNext, PTL DEF Spec, StaleIsRefused

(***************************************************************************)
(* expires_in.  When the provider's answer arrives it is less than the     *)
(* granted lifetime, by at most a second; the rest of the error is the age *)
(* of the answer and of the code.                                          *)
(***************************************************************************)
Granted(code) ==
    /\ code.life \in Nat /\ code.expires_in \in Nat
    /\ code.issued \in Nat /\ code.at \in Nat
    /\ code.issued <= code.at /\ code.at <= now
    /\ code.expires_in > 0 =>
          /\ code.expires_in * TicksPerSecond < code.life
          /\ code.life <= code.expires_in * TicksPerSecond + TicksPerSecond

GrantInv == \A d \in redirects : Granted(d.code)

LEMMA ExpiresInBound ==
    ASSUME NEW life \in Nat
    PROVE  /\ ExpiresIn(life) \in Nat
           /\ ExpiresIn(life) > 0 =>
                 /\ ExpiresIn(life) * TicksPerSecond < life
                 /\ life <= ExpiresIn(life) * TicksPerSecond + TicksPerSecond
<1>1. TicksPerSecond \in Nat \ {0}
    BY OAuthAssumption
<1>2. CASE life = 0
    BY <1>2 DEF ExpiresIn
<1>3. CASE life # 0
  <2>1. life - 1 \in Nat
      BY <1>3
  <2> DEFINE x == life - 1
            whole == x \div TicksPerSecond
  <2> HIDE DEF x
  <2>2. /\ whole \in Nat /\ whole * TicksPerSecond <= x
        /\ x <= whole * TicksPerSecond + (TicksPerSecond - 1)
      BY <1>1, <2>1, WholeSeconds DEF x
  <2>3. ExpiresIn(life) = whole
      BY <1>3 DEF ExpiresIn, x
  <2> HIDE DEF whole
  <2>4. whole * TicksPerSecond \in Nat
      BY <1>1, <2>2
  <2>5. whole * TicksPerSecond < life /\ life <= whole * TicksPerSecond + TicksPerSecond
      BY <1>1, <2>1, <2>2, <2>4 DEF x
  <2> QED BY <2>2, <2>3, <2>5
<1> QED BY <1>2, <1>3

LEMMA GrantNext == FlowInv /\ GrantInv /\ [Next]_vars => GrantInv'
<1> SUFFICES ASSUME FlowInv, GrantInv, [Next]_vars PROVE GrantInv'
    OBVIOUS
<1>t. now \in Nat
    BY DEF FlowInv
<1>1. ASSUME redirects' = redirects, now' \in Nat, now <= now' PROVE GrantInv'
  <2> SUFFICES ASSUME NEW d \in redirects PROVE Granted(d.code)'
      BY <1>1 DEF GrantInv
  <2>1. Granted(d.code)
      BY DEF GrantInv
  <2>2. d.code.issued <= d.code.at /\ d.code.at <= now /\ d.code.issued \in Nat
      BY <2>1 DEF Granted
  <2>3. d.code.at \in Nat
      BY <2>1 DEF Granted
  <2>4. d.code.at <= now'
      BY <1>1, <1>t, <2>2, <2>3
  <2> QED BY <2>1, <2>4 DEF Granted
<1>2. ASSUME NEW c \in calls, CallbackFinish(c) PROVE GrantInv'
  <2>1. c.life \in Nat /\ c.issued \in Nat /\ c.issued <= now
      BY <1>2, OAuthAssumption DEF CallbackFinish, FlowInv, CallTyped
  <2>2. Granted(AuthCodePayload(c))
      BY <1>t, <2>1, ExpiresInBound DEF Granted, AuthCodePayload
  <2>3. RedirectOf(c).code = AuthCodePayload(c) /\ redirects' = redirects \cup {RedirectOf(c)} /\ now' = now
      BY <1>2 DEF RedirectOf, CallbackFinish
  <2>4. \A d \in redirects' : Granted(d.code)
      BY <2>2, <2>3 DEF GrantInv
  <2> QED BY <2>3, <2>4 DEF GrantInv, Granted
<1>3. ASSUME NEW n \in Nodes, NEW q \in Queries, Authorize(n, q) PROVE redirects' = redirects
    BY <1>3 DEF Authorize
<1> QED BY <1>t, <1>1, <1>2, <1>3, OtherSteps

\* Whatever the client is told of the lifetime of its tokens, against their real end: it
\* is too short by at most a second, and too long by less than the time to live of the
\* code, the clocks' difference and the time that the provider's answer took.
THEOREM ExpiryOverstatedThm == Spec => ExpiryOverstated
<1>1. Init => GrantInv
    BY DEF Init, GrantInv
<1> DEFINE Bounded(code) ==
        /\ ExpiryError(code) >= -TicksPerSecond
        /\ ExpiryError(code) < authCodeTTL + MaxSkew + (code.at - code.issued)
<1>2. FlowInv /\ TimeInv /\ GrantInv /\ [Next]_vars =>
        [\A r \in released' \ released : r.code.expires_in > 0 => Bounded(r.code)]_vars
  <2> SUFFICES ASSUME FlowInv, TimeInv, GrantInv, Next, NEW r \in released' \ released, r.code.expires_in > 0
               PROVE  Bounded(r.code)
      OBVIOUS
  <2>1. PICK n \in Nodes, code \in CodesOut, client \in Clients, uri \in URIs, verifier \in Verifiers :
            TokenAuthorizationCode(n, code, client, uri, verifier)
      BY DEF Next, Handle, Authorize, CallbackStart, CallbackFinish, CallbackFail, ProviderExchange,
             ProviderLogin, Restart, Tick
  <2>2. r.code = code /\ ~Expired(n, code.stamp, authCodeTTL)
      BY <2>1 DEF TokenAuthorizationCode
  <2>3. Stamped(code) /\ Granted(code)
      BY DEF CodesOut, TimeInv, GrantInv
  <2>4. now - code.at <= authCodeTTL + MaxSkew
      BY <2>2, <2>3, AgeBound, OAuthAssumption
  <2> DEFINE promised == code.expires_in * TicksPerSecond
  <2>5. promised \in Nat /\ promised < code.life /\ code.life <= promised + TicksPerSecond
      BY <2>2, <2>3, OAuthAssumption DEF Granted
  <2>6. /\ now \in Nat /\ code.at \in Nat /\ code.life \in Nat /\ authCodeTTL \in Nat /\ MaxSkew \in Nat
        /\ TicksPerSecond \in Nat /\ code.issued \in Nat /\ code.at \in Nat
    /\ code.issued <= code.at /\ code.at <= now
      BY <2>3, OAuthAssumption DEF TimeInv, Stamped, Granted
  <2>7. ExpiryError(code) = (now + promised) - (code.issued + code.life)
      BY DEF ExpiryError
  <2> HIDE DEF promised
  <2>8. /\ (now + promised) - (code.issued + code.life) >= -TicksPerSecond
        /\ (now + promised) - (code.issued + code.life) < authCodeTTL + MaxSkew + (code.at - code.issued)
      BY <2>4, <2>5, <2>6
  <2> QED BY <2>2, <2>7, <2>8
<1> QED BY <1>1, <1>2, FlowInit, FlowNext, TimeInit, TimeNext, GrantNext, PTL DEF Spec, ExpiryOverstated

(***************************************************************************)
(* Typing.  Half of it is in FlowInv; the other half is Typed.             *)
(***************************************************************************)
Typed ==
    /\ key \in [Nodes -> Keys]
    /\ \A a \in accepted : a.cipher.key \in Keys /\ a.cipher.at \in 0 .. now
    /\ \A l \in logins : l.code \in ProviderCodes /\ l.state \in StatesOut
    /\ spent \subseteq LoginCodes
    /\ \A d \in redirects : d.code.key \in Keys /\ d.code.at \in 0 .. now
    /\ \A r \in released : /\ r.client_id \in Clients /\ r.redirect_uri \in URIs
                           /\ r.code_verifier \in Verifiers

LEMMA TypedNext == FlowInv /\ Typed /\ [Next]_vars => Typed'
<1> SUFFICES ASSUME FlowInv, Typed, [Next]_vars PROVE Typed'
    OBVIOUS
<1> USE OAuthAssumption DEF StatesOut, LoginCodes
<1>n. now \in Nat
    BY DEF FlowInv
<1>0. CASE UNCHANGED vars
    BY <1>0 DEF vars, Typed
<1>1. ASSUME NEW n \in Nodes, NEW q \in Queries, Authorize(n, q) PROVE Typed'
  <2>1. StatePayload(n, q).key \in Keys /\ StatePayload(n, q).at = now
      BY DEF Typed, StatePayload
  <2> QED BY <1>1, <1>n, <2>1 DEF Authorize, Typed
<1>2. ASSUME NEW n \in Nodes, NEW code \in LoginCodes, NEW state \in StatesOut, CallbackStart(n, code, state)
      PROVE  Typed'
    BY <1>2 DEF CallbackStart, Typed
<1>3. ASSUME NEW n \in Nodes, NEW code \in CodesOut, NEW client \in Clients, NEW uri \in URIs,
             NEW verifier \in Verifiers, TokenAuthorizationCode(n, code, client, uri, verifier)
      PROVE  Typed'
    BY <1>3 DEF TokenAuthorizationCode, Typed
<1>4. ASSUME NEW c \in calls, CallbackFinish(c) PROVE Typed'
  <2>1. c.node \in Nodes
      BY DEF FlowInv, CallTyped
  <2>2. RedirectOf(c).code.key \in Keys /\ RedirectOf(c).code.at = now
      BY <2>1 DEF Typed, RedirectOf, AuthCodePayload
  <2> QED BY <1>4, <1>n, <2>2 DEF CallbackFinish, Typed
<1>5. ASSUME NEW c \in calls, CallbackFail(c) PROVE Typed'
    BY <1>5 DEF CallbackFail, Typed
<1>6. ASSUME NEW c \in calls, ProviderExchange(c) PROVE Typed'
  <2>1. c.code \in LoginCodes
      BY DEF FlowInv, CallTyped
  <2> QED BY <1>6, <2>1 DEF ProviderExchange, Typed
<1>7. ASSUME NEW s \in StatesOut, ProviderLogin(s) PROVE Typed'
    BY <1>7 DEF ProviderLogin, Typed
<1>8. ASSUME NEW n \in Nodes, NEW k \in Keys, Restart(n, k) PROVE Typed'
    BY <1>8 DEF Restart, Typed
<1>9. CASE Tick
    BY <1>9, <1>n DEF Tick, Typed
<1> QED BY <1>0, <1>1, <1>2, <1>3, <1>4, <1>5, <1>6, <1>7, <1>8, <1>9 DEF Next, Handle

\* Whatever is under way has its type: each state parameter, login, call, code and
\* answer refers to one before it in the flow, and nothing is dated in the future.
THEOREM OAuthTyping == Spec => []TypeOK
<1>1. Init => Typed
    BY OAuthAssumption DEF Init, Typed
<1>2. FlowInv /\ Typed => TypeOK
  <2> SUFFICES ASSUME FlowInv, Typed PROVE TypeOK
      OBVIOUS
  <2>1. ASSUME NEW c \in calls
        PROVE  c \in [node : Nodes, code : LoginCodes, state : StatesOut,
                     life : Lifetimes \cup {Waiting}, issued : 0 .. now]
    <3>1. c \in [node : Nodes, code : LoginCodes, state : StatesOut,
                life : Lifetimes \cup {Waiting}, issued : Nat]
        BY DEF FlowInv, CallTyped
    <3>2. c.issued \in 0 .. now
        BY <3>1 DEF FlowInv, CallTyped
    <3> QED BY <3>1, <3>2
  <2> QED BY <2>1 DEF FlowInv, Typed, TypeOK, StateMatchesQuery, CodeMatchesState, ReleaseMatchesCode
<1> QED BY <1>1, <1>2, TypedNext, FlowInit, FlowNext, PTL DEF Spec
=============================================================================
