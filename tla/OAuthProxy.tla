----------------------------- MODULE OAuthProxy -----------------------------
(***************************************************************************)
(* pkg/auth/oauth: the authorization code flow of the OAuth proxy.  The    *)
(* proxy keeps no sessions.  What it must remember between two requests    *)
(* it encrypts and hands out: the state parameter on the way to the OIDC   *)
(* provider, the authorization code on the way to the MCP client.  Both    *)
(* carry a time stamp and are refused when they are too old.               *)
(*                                                                         *)
(*   client -> /oauth/authorize -> provider (login) -> /oauth/callback     *)
(*          -> client -> /oauth/token                                      *)
(*                                                                         *)
(* Several nodes may serve the same flow.  Each has a key, derived from    *)
(* its SECRET_KEY, and a clock of its own.  Whatever was handed out once   *)
(* can arrive at any node, late, twice or never: accepted, logins and      *)
(* redirects are sets that only grow.  It comes back to the handler it was *)
(* made for: a state parameter to /oauth/callback, a code to /oauth/token. *)
(* A callback brings a code and a state parameter, and the proxy reads     *)
(* them one by one: nothing in it ties the code to the state parameter     *)
(* that the provider sent it with.                                         *)
(* A request that is refused changes nothing and is no step here; nor is   *)
(* /oauth/register, which answers with a random name that no other handler *)
(* looks up.                                                               *)
(*                                                                         *)
(* Encryption is ideal: decrypt succeeds exactly with the key of encrypt,  *)
(* and nobody makes up a ciphertext (AES-GCM).  S256 is a function without *)
(* collisions (SHA-256).  The provider is external: it answers a code once *)
(* (RFC 6749, 4.1.2).                                                      *)
(***************************************************************************)
EXTENDS Integers, FiniteSets

CONSTANTS
    Nodes,          \* server processes
    Keys,           \* keys derived from the values of SECRET_KEY in use
    Skew,           \* Skew[n]: how many ticks the clock of n is ahead
    MaxSkew,        \* no clock is further ahead
    TicksPerSecond, \* resolution of the model's time
    stateTTL,       \* in ticks
    authCodeTTL,    \* in ticks
    Queries,        \* query strings sent to /oauth/authorize
    Absent,         \* a parameter that is missing or empty
    Clients,        \* values of client_id sent to /oauth/token
    URIs,           \* redirect URIs, as url.Parse splits them
    Verifiers,      \* PKCE code verifiers
    S256,           \* S256[v]: the challenge made from verifier v
    ProviderCodes,  \* codes the provider gives out, one for each login; a bound
    Lifetimes,      \* token lifetimes the provider grants, in ticks; 0: none given
    MaxAuthorize,   \* bound: accepted authorize requests
    MaxCalls,       \* bound: callbacks that wait for the provider at the same time
    MaxReleases,    \* bound: different answers of /oauth/token
    Horizon         \* bound: Horizon[k] is the last tick after k accepted requests and logins

ASSUME OAuthAssumption ==
    /\ Skew \in [Nodes -> Nat] /\ MaxSkew \in Nat
    /\ \A n \in Nodes : Skew[n] <= MaxSkew
    /\ TicksPerSecond \in Nat \ {0}
    /\ stateTTL \in Nat /\ authCodeTTL \in Nat
    /\ \A v, w \in Verifiers : S256[v] = S256[w] => v = w
    /\ Lifetimes \subseteq Nat
    /\ MaxAuthorize \in Nat /\ MaxCalls \in Nat /\ MaxReleases \in Nat
    /\ Horizon \in [0 .. MaxAuthorize + Cardinality(ProviderCodes) -> Nat]

VARIABLES
    now,        \* real time in ticks
    key,        \* key[n]: the key of node n
    accepted,   \* authorize requests redirected to the provider, with their state parameter
    logins,     \* callbacks the provider has sent browsers to: a code and a state parameter
    spent,      \* external: codes the provider has exchanged for tokens
    calls,      \* handleCallback invocations that wait for the provider
    redirects,  \* redirects to the client: where to, the authorization code, its state
    released    \* history: successful answers of /oauth/token

vars == <<now, key, accepted, logins, spent, calls, redirects, released>>
-----------------------------------------------------------------------------
(* Time stamps, ciphertexts and checks *)

\* time.Now on node n
Clock(n) == now + Skew[n]

\* Fault: the time stamp is rounded up to the next second.
StampUp(n) == (Clock(n) \div TicksPerSecond) + 1

\* Timestamp = time.Now().Unix(): whole seconds.
Stamp(n) == Clock(n) \div TicksPerSecond

\* Fault: an age of exactly the limit is refused as well.
ExpiredAtLimit(n, stamp, ttl) == Clock(n) - stamp * TicksPerSecond >= ttl

\* time.Since(time.Unix(stamp, 0)) > ttl, on node n
Expired(n, stamp, ttl) == Clock(n) - stamp * TicksPerSecond > ttl

\* decrypt succeeds on node n.
Decrypts(n, cipher) == cipher.key = key[n]

LoopbackHosts == {"localhost", "127.0.0.1", "::1"}

isValidRedirectURI(u) == u.host \in LoopbackHosts \/ u.scheme = "https"

\* Fault: the verifier is only required to be there.
verifyPresence(verifier, challenge) == verifier \in Verifiers

verifyCodeChallenge(verifier, challenge) == S256[verifier] = challenge

\* Fault: the seconds are rounded up.
ExpiresInUp(life) == (life + TicksPerSecond - 1) \div TicksPerSecond

\* ExpiresIn of the authorization code, in whole seconds: the time left when the
\* tokens have arrived, an instant after Expiry was computed.  The client is told
\* nothing (0) where the provider gave no lifetime or less than a second is left.
ExpiresIn(life) == IF life = 0 THEN 0 ELSE (life - 1) \div TicksPerSecond

\* What /oauth/authorize encrypts.  The field "at" is not part of the message: it
\* is the real time at which it was made, for the properties.
StatePayload(n, q) ==
    [key |-> key[n], redirect_uri |-> q.redirect_uri, code_challenge |-> q.code_challenge,
     client_id |-> q.client_id, client_state |-> q.state, stamp |-> Stamp(n), at |-> now]

\* What /oauth/callback encrypts at the end of call c.  The tokens go by the name of
\* the provider's code; "from" (the state parameter of the callback), "at", "issued"
\* (when the provider made the tokens) and "life" are there for the properties.
AuthCodePayload(c) ==
    [key |-> key[c.node], access_token |-> c.code, expires_in |-> ExpiresIn(c.life),
     code_challenge |-> c.state.code_challenge, client_id |-> c.state.client_id,
     redirect_uri |-> c.state.redirect_uri, stamp |-> Stamp(c.node),
     from |-> c.state, at |-> now, issued |-> c.issued, life |-> c.life]

\* The redirect to the client at the end of call c.
RedirectOf(c) ==
    [uri |-> c.state.redirect_uri, state |-> c.state.client_state, code |-> AuthCodePayload(c)]

\* The state parameters and the authorization codes handed out so far.
StatesOut == {a.cipher : a \in accepted}
CodesOut  == {d.code : d \in redirects}

\* The codes that the provider has handed out.
LoginCodes == {l.code : l \in logins}

\* What the bound Horizon depends on.
Size == Cardinality(accepted) + Cardinality(logins)
-----------------------------------------------------------------------------
Waiting == -1   \* the provider has not answered yet

TypeOK ==
    /\ now \in Nat
    /\ key \in [Nodes -> Keys]
    /\ \A a \in accepted : a.query \in Queries /\ a.cipher.key \in Keys /\ a.cipher.at \in 0 .. now
    /\ \A l \in logins : l.code \in ProviderCodes /\ l.state \in StatesOut
    /\ spent \subseteq LoginCodes
    /\ calls \subseteq [node : Nodes, code : LoginCodes, state : StatesOut,
                       life : Lifetimes \cup {Waiting}, issued : 0 .. now]
    /\ \A d \in redirects : d.code.key \in Keys /\ d.code.access_token \in spent /\ d.code.at \in 0 .. now
    /\ \A r \in released : /\ r.code \in CodesOut
                           /\ r.client_id \in Clients /\ r.redirect_uri \in URIs
                           /\ r.code_verifier \in Verifiers

Init ==
    /\ now = 0
    /\ key \in [Nodes -> Keys]
    /\ accepted = {} /\ logins = {} /\ spent = {}
    /\ calls = {} /\ redirects = {} /\ released = {}
-----------------------------------------------------------------------------
(* The handlers of the proxy *)

\* handleAuthorize
Authorize(n, q) ==
    /\ q.response_type = "code"
    /\ Absent \notin {q.client_id, q.redirect_uri, q.state, q.code_challenge}
    /\ q.code_challenge_method = "S256"
    /\ isValidRedirectURI(q.redirect_uri)
    /\ Cardinality(accepted) < MaxAuthorize
    /\ now <= Horizon[Size + 1]
    /\ accepted' = accepted \cup {[query |-> q, cipher |-> StatePayload(n, q)]}
    /\ UNCHANGED <<now, key, logins, spent, calls, redirects, released>>

\* handleCallback up to the call of Exchange, for any code and any state parameter
\* that are about.  A second identical request at the same node adds nothing: at
\* most one of the two gets tokens.
CallbackStart(n, code, state) ==
    /\ Decrypts(n, state)
    /\ ~Expired(n, state.stamp, stateTTL)
    /\ Cardinality(calls) < MaxCalls
    /\ calls' = calls \cup
         {[node |-> n, code |-> code, state |-> state, life |-> Waiting, issued |-> 0]}
    /\ UNCHANGED <<now, key, accepted, logins, spent, redirects, released>>

\* Exchange returns an error: the provider refuses (a spent code), cannot be
\* reached, or the browser went away and the request's context is cancelled.
CallbackFail(c) ==
    /\ calls' = calls \ {c}
    /\ UNCHANGED <<now, key, accepted, logins, spent, redirects, released>>

\* Fault: the error of Exchange is ignored.
CallbackFinishBlind(c) ==
    /\ redirects' = redirects \cup {RedirectOf(c)}
    /\ calls' = calls \ {c}
    /\ UNCHANGED <<now, key, accepted, logins, spent, released>>

\* Fault: the handler goes on after it has answered.
CallbackFinishAgain(c) ==
    /\ c.life # Waiting
    /\ redirects' = redirects \cup {RedirectOf(c)}
    /\ UNCHANGED <<now, key, accepted, logins, spent, calls, released>>

\* The rest of handleCallback, once Exchange has returned tokens.
CallbackFinish(c) ==
    /\ c.life # Waiting
    /\ redirects' = redirects \cup {RedirectOf(c)}
    /\ calls' = calls \ {c}
    /\ UNCHANGED <<now, key, accepted, logins, spent, released>>

\* handleTokenAuthorizationCode
TokenAuthorizationCode(n, code, client, uri, verifier) ==
    /\ Decrypts(n, code)
    /\ ~Expired(n, code.stamp, authCodeTTL)
    /\ code.client_id = client
    /\ code.redirect_uri = uri
    /\ verifyCodeChallenge(verifier, code.code_challenge)
    /\ released' = released \cup
         {[code |-> code, client_id |-> client, redirect_uri |-> uri, code_verifier |-> verifier]}
    /\ Cardinality(released') <= MaxReleases
    /\ UNCHANGED <<now, key, accepted, logins, spent, calls, redirects>>
-----------------------------------------------------------------------------
(* Its environment *)

\* A user signs in at the provider, which sends the browser to /oauth/callback
\* with a new code and the state parameter it was given.
ProviderLogin(s) ==
    /\ \E p \in ProviderCodes \ LoginCodes :
            /\ now <= Horizon[Size + 1]
            /\ logins' = logins \cup {[code |-> p, state |-> s]}
    /\ UNCHANGED <<now, key, accepted, spent, calls, redirects, released>>

\* The provider exchanges a code that is not spent for tokens, whose lifetime begins
\* now; its answer may take any time.
ProviderExchange(c) ==
    /\ c.life = Waiting
    /\ c.code \notin spent
    /\ spent' = spent \cup {c.code}
    /\ \E life \in Lifetimes :
            calls' = (calls \ {c}) \cup {[c EXCEPT !.life = life, !.issued = now]}
    /\ UNCHANGED <<now, key, accepted, logins, redirects, released>>

\* Node n is restarted, perhaps with another SECRET_KEY.
Restart(n, k) ==
    /\ key' = [key EXCEPT ![n] = k]
    /\ calls' = {c \in calls : c.node # n}
    /\ UNCHANGED <<now, accepted, logins, spent, redirects, released>>

Tick ==
    /\ now < Horizon[Size]
    /\ now' = now + 1
    /\ UNCHANGED <<key, accepted, logins, spent, calls, redirects, released>>
-----------------------------------------------------------------------------
Handle(n) ==
    \/ \E q \in Queries : Authorize(n, q)
    \/ \E code \in LoginCodes, state \in StatesOut : CallbackStart(n, code, state)
    \/ \E code \in CodesOut, client \in Clients, uri \in URIs, verifier \in Verifiers :
            TokenAuthorizationCode(n, code, client, uri, verifier)

Next ==
    \/ \E n \in Nodes : Handle(n)
    \/ \E c \in calls : CallbackFinish(c) \/ CallbackFail(c) \/ ProviderExchange(c)
    \/ \E s \in StatesOut : ProviderLogin(s)
    \/ \E n \in Nodes, k \in Keys : Restart(n, k)
    \/ Tick

Spec == Init /\ [][Next]_vars
-----------------------------------------------------------------------------
(* Properties *)

\* The state parameter of the callback was handed out to an accepted authorize
\* request with query q, to an admissible address.
StartedBy(code, q) ==
    /\ \E a \in accepted : a.query = q /\ a.cipher = code.from
    /\ isValidRedirectURI(q.redirect_uri)

\* What is released is bound to one request: whatever flows do at the same time on
\* whatever nodes, and whichever code a callback brings with which state parameter,
\* /oauth/token releases tokens only under the client_id, the redirect_uri and the
\* challenge of the one accepted authorize request whose state parameter came back
\* with them.  So a callback as the provider sent it serves the party that asked for
\* this login.
TokensOnlyToRequester ==
    \A r \in released : \E q \in Queries :
        /\ StartedBy(r.code, q)
        /\ q.client_id = r.client_id /\ q.redirect_uri = r.redirect_uri
        /\ q.code_challenge = S256[r.code_verifier]

\* The browser is sent to the address of the request whose state parameter came back,
\* with the state value that the client gave there; the tokens of one login get into
\* one authorization code, however often its code is delivered, to whatever nodes and
\* with whatever state parameters.
RedirectMatchesState ==
    /\ \A d \in redirects : \E q \in Queries :
            /\ StartedBy(d.code, q)
            /\ d.uri = q.redirect_uri /\ d.state = q.state
    /\ \A d, e \in redirects : d.code.access_token = e.code.access_token => d = e

\* A state parameter is not accepted later than stateTTL after it was handed out,
\* an authorization code not later than authCodeTTL, up to the clocks' difference.
StaleIsRefused ==
    [][/\ \A c \in calls' \ calls : c.life = Waiting => now - c.state.at <= stateTTL + MaxSkew
       /\ \A r \in released' \ released : now - r.code.at <= authCodeTTL + MaxSkew]_vars

\* A state parameter or a code is not refused for its age as long as it is younger
\* than its time to live by a second (the time stamp is cut to seconds) and the
\* clocks' difference.
YoungIsAccepted ==
    \A n \in Nodes :
        /\ \A s \in StatesOut :
             now - s.at <= stateTTL - MaxSkew - (TicksPerSecond - 1) => ~Expired(n, s.stamp, stateTTL)
        /\ \A code \in CodesOut :
             now - code.at <= authCodeTTL - MaxSkew - (TicksPerSecond - 1)
                => ~Expired(n, code.stamp, authCodeTTL)

\* What the client is told of the lifetime of its tokens, against their real end: the
\* lifetime that the provider granted, counted from when it made them.  expires_in is
\* computed when the provider's answer has arrived and passed on when the client
\* fetches the tokens.  It is never too short by more than a second, and too long by
\* less than authCodeTTL, the clocks' difference and the time the provider's answer
\* took, for which the code sets no limit.
ExpiryError(code) ==
    (now + code.expires_in * TicksPerSecond) - (code.issued + code.life)

ExpiryOverstated ==
    [][\A r \in released' \ released :
          r.code.expires_in > 0 =>
            /\ ExpiryError(r.code) >= -TicksPerSecond
            /\ ExpiryError(r.code) < authCodeTTL + MaxSkew + (r.code.at - r.code.issued)]_vars
=============================================================================
