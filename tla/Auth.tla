-------------------------------- MODULE Auth --------------------------------
(***************************************************************************)
(* Authentication on the nodes of a deployment: each node configures its   *)
(* chain of providers when it starts (AuthConfig), and each request goes   *)
(* through the chain of its node.  The OIDC provider checks a bearer token *)
(* against keys that it fetches from the identity provider when it meets a *)
(* signature it cannot check with the ones it has.                         *)
(*                                                                         *)
(* External, modelled from how pkg/auth uses it:                           *)
(*   the middleware of query-engine: ErrSkipAuth and ErrInvalidKeyType go  *)
(*     on to the next provider, the latter is remembered, and a request    *)
(*     whose token was rejected never becomes anonymous; other errors end  *)
(*     the request, and so does the end of the chain;                      *)
(*   go-oidc: Verify looks at issuer, expiry and signature, in this order; *)
(*     one fetch of the keys serves all requests that wait for it; its     *)
(*     time limit is that of the HTTP client, none if 0; a request whose   *)
(*     client has gone stops waiting, the fetch goes on;                   *)
(*   API keys and JWT providers; what a wrong API key does is left open.   *)
(***************************************************************************)
EXTENDS AuthConfig

CONSTANTS
    Nodes,
    Requests,
    Credentials,    \* what a request may carry
    Keys,           \* signing keys: those of the identity provider, and others
    IssuerKeys,     \* the keys that the identity provider signs with
    NoToken,        \* no Authorization header and no access_token, or no cookie
    EmptyToken,     \* one without content
    NotAString,     \* a claim, or an item of one, that is not a string
    None,
    MaxTime,        \* bound: the clock stops there
    MaxRotations    \* bound: how often the identity provider changes its keys

ASSUME AuthAssumption ==
    /\ IssuerKeys \subseteq Keys
    /\ MaxTime \in Nat /\ MaxRotations \in Nat
    /\ NoToken # EmptyToken
    /\ None \notin Nat \cup Credentials

\* Headers are finitely many; a claim is a list whose items are texts or no strings.
ASSUME CredentialsAssumption ==
    \A cred \in Credentials :
        /\ IsFiniteSet(DOMAIN cred.headers)
        /\ \A t \in {cred.bearer, cred.cookie} \ {NoToken, EmptyToken} :
             /\ t.exp \in Nat
             /\ \A key \in DOMAIN t.claims :
                  /\ IsText(t.claims[key])
                  /\ \A i \in DOMAIN t.claims[key] :
                       t.claims[key][i] # NotAString => IsText(t.claims[key][i])

VARIABLES
    env,        \* the environment, the same on all nodes
    file,       \* the configuration file, the same on all nodes
    node,       \* node[n]: how far it has started, with what result
    cached,     \* cached[n]: the keys its OIDC provider has
    fetch,      \* fetch[n]: ticks left for the fetch of keys under way, or None
    req,        \* req[r]: the request and how far it is
    published,  \* the keys that the identity provider publishes
    now,
    rotations   \* bound variable

nodeVars == <<env, file, node>>
vars     == <<env, file, node, cached, fetch, req, published, now, rotations>>

\* Without a chain there is no authentication, without a secret no OAuth proxy.
NoAuth  == [providers |-> <<>>, managed |-> FALSE]
NoProxy == [issuer |-> "", secret |-> ""]

Node(st, c, auth, proxy) == [st |-> st, c |-> c, auth |-> auth, proxy |-> proxy]
Request(st, n, cred, at, rejected, role, via) ==
    [st |-> st, node |-> n, cred |-> cred, at |-> at, rejected |-> rejected, role |-> role, via |-> via]

NewNode(e) == Node("down", e, NoAuth, NoProxy)
NewRequest == Request("new", None, None, 0, FALSE, <<>>, None)
Decided == {"admitted", "denied", "gone"}

TypeOK ==
    /\ env \in Environments /\ file \in ConfigFiles
    /\ \A n \in Nodes :
         /\ node[n].st \in {"down", "configured", "up", "failed"}
         /\ node[n].auth # NoAuth => node[n].auth.providers # <<>>
         /\ cached[n] \subseteq Keys
         /\ fetch[n] \in {None} \cup 0 .. node[n].c.oidc.timeout
    /\ \A r \in Requests :
         /\ req[r].st \in {"new", "pending", "waiting"} \cup Decided
         /\ req[r].st \in {"pending", "waiting"} =>
              req[r].at \in 1 .. Len(node[req[r].node].auth.providers)
         /\ req[r].st = "waiting" => fetch[req[r].node] # None
    /\ published \subseteq Keys
    /\ now \in 0 .. MaxTime /\ rotations \in 0 .. MaxRotations

Init ==
    /\ env \in Environments /\ file \in ConfigFiles
    /\ node = [n \in Nodes |-> NewNode(env)]
    /\ cached = [n \in Nodes |-> {}]
    /\ fetch = [n \in Nodes |-> None]
    /\ req = [r \in Requests |-> NewRequest]
    /\ \E k \in IssuerKeys : published = {k}
    /\ now = 0 /\ rotations = 0
-----------------------------------------------------------------------------
(* Start of a node *)

Becomes(n, st, c, auth, proxy) == node' = [node EXCEPT ![n] = Node(st, c, auth, proxy)]

\* The configuration that Configure returns for a chain: none if it is empty.
AuthWith(chain, c) == IF chain = <<>> THEN NoAuth ELSE [providers |-> chain, managed |-> c.managed]

\* Fault: the settings of the file go into the chain, but not back to main.
ConfigureLocally(n) ==
    LET pc == LoadFile(file)
        c  == Apply(node[n].c, pc)
    IN  /\ node[n].st = "down" /\ Loads(file)
        /\ \E chain \in Chains(c, pc) :
             Becomes(n, "configured", node[n].c, AuthWith(chain, c), NoProxy)
        /\ UNCHANGED <<env, file, cached, fetch, req, published, now, rotations>>

\* Configure: the process ends if the file cannot be read or parsed, or NewJwt refuses
\* what it has, or the identity provider does not answer the discovery of
\* NewOIDCProvider.
Configure(n) ==
    LET pc == LoadFile(file)
        c  == Apply(node[n].c, pc)
    IN  /\ node[n].st = "down"
        /\ \/ /\ Loads(file)
              /\ \E chain \in Chains(c, pc) :
                   Becomes(n, "configured", c, AuthWith(chain, c), NoProxy)
           \/ /\ file.format = "none" => c.oidc.issuer # ""
              /\ Becomes(n, "failed", node[n].c, NoAuth, NoProxy)
        /\ UNCHANGED <<env, file, cached, fetch, req, published, now, rotations>>

\* The secret of the OAuth proxy: its own, or that of the OIDC client.
ProxySecret(c) == IF c.mcpSecret # "" THEN c.mcpSecret ELSE c.oidc.clientSecret

\* main after Configure: /auth/config and the OAuth proxy are built from the
\* settings that Configure has left.  NewProxy fails without a secret key, or
\* without an answer of the identity provider.
Mount(n) ==
    LET c     == node[n].c
        wants == c.oidc.issuer # "" /\ c.mcp /\ ProxySecret(c) # ""
    IN  /\ node[n].st = "configured"
        /\ \/ /\ wants => c.secretKey # ""
              /\ Becomes(n, "up", c, node[n].auth,
                   IF wants THEN [issuer |-> c.oidc.issuer, secret |-> ProxySecret(c)] ELSE NoProxy)
           \/ /\ wants
              /\ Becomes(n, "failed", c, node[n].auth, NoProxy)
        /\ UNCHANGED <<env, file, cached, fetch, req, published, now, rotations>>
-----------------------------------------------------------------------------
(* Claims.  A string is a sequence of words, so that a prefix can be cut off *)
(* it; a claim is a sequence of strings, of one string if it is no list.      *)

HasPrefix(s, prefix) == Len(s) >= Len(prefix) /\ SubSeq(s, 1, Len(prefix)) = prefix

claimString(claims, key, prefix) ==
    LET items == IF key \in DOMAIN claims THEN claims[key] ELSE <<>>
        hits  == {i \in DOMAIN items : items[i] # NotAString /\ HasPrefix(items[i], prefix)}
    IN  IF hits = {} THEN <<>>
        ELSE LET first == CHOOSE i \in hits : \A j \in hits : i <= j
             IN  SubSeq(items[first], Len(prefix) + 1, Len(items[first]))

RoleOf(t, prefix) ==
    LET role == claimString(t.claims, "x-hugr-role", prefix)
    IN  IF role # <<>> THEN role ELSE claimString(t.claims, "scopes", prefix)
-----------------------------------------------------------------------------
(* What a provider makes of a request *)

Outcome(kind, role) == [kind |-> kind, role |-> role]
Skip    == Outcome("skip", <<>>)      \* ErrSkipAuth
Invalid == Outcome("invalid", <<>>)   \* ErrInvalidKeyType
Stop    == Outcome("stop", <<>>)      \* ErrForbidden, ErrTokenExpired, any other error
Wait    == Outcome("wait", <<>>)      \* in Verify

\* The extractors.  "bearer" is what OAuth2Extractor finds: the Authorization header,
\* or else the argument access_token.  A header without content still comes before the
\* cookie.
ExtractToken(cred, p) ==
    IF cred.bearer # NoToken THEN cred.bearer
    ELSE IF p.cookie THEN cred.cookie
    ELSE NoToken

\* The end of Authenticate, after Verify.
AdmitRole(t, prefix) ==
    LET role == RoleOf(t, prefix) IN IF role = <<>> THEN Stop ELSE Outcome("admit", role)

\* Fault: a token of another issuer is passed over without a trace.
AuthenticateLenient(p, cred, known) ==
    LET t == ExtractToken(cred, p)
    IN  IF t \in {NoToken, EmptyToken} THEN Skip
        ELSE IF t.iss # p.issuer THEN Skip
        ELSE IF now > t.exp THEN Stop
        ELSE IF t.key \in known THEN AdmitRole(t, p.prefix)
        ELSE Wait

\* Authenticate of the OIDC provider, up to the place where Verify has to fetch
\* keys.  A token of another issuer fails there before anything else is checked.
Authenticate(p, cred, known) ==
    LET t == ExtractToken(cred, p)
    IN  IF t \in {NoToken, EmptyToken} THEN Skip
        ELSE IF t.iss # p.issuer THEN Invalid
        ELSE IF now > t.exp THEN Stop
        ELSE IF t.key \in known THEN AdmitRole(t, p.prefix)
        ELSE Wait

\* The same after a fetch: a signature that still cannot be checked is an error of
\* a token issued here.
AfterFetch(p, cred, known) ==
    LET t == ExtractToken(cred, p)
    IN  IF t.key \in known THEN AdmitRole(t, p.prefix) ELSE Stop

\* The extractor of the cookie may return an error, which Authenticate passes on.
OIDCOutcomes(p, cred, known) ==
    {Authenticate(p, cred, known)}
        \cup (IF p.cookie /\ cred.bearer = NoToken THEN {Stop} ELSE {})

\* External: API keys, JWT providers, anonymous access.
ApiKeyOutcomes(p, cred) ==
    IF p.header \notin DOMAIN cred.headers THEN {Skip}
    ELSE IF cred.headers[p.header] = p.key THEN {Outcome("admit", p.role)}
    ELSE {Skip, Invalid, Stop}

JwtOutcome(p, cred) ==
    LET o == Authenticate(p, cred, {p.key}) IN IF o = Wait THEN Stop ELSE o

AnonymousOutcome(p, rejected) == IF rejected THEN Skip ELSE Outcome("admit", p.role)

Outcomes(p, r, known) ==
    CASE p.type = "apikey"    -> ApiKeyOutcomes(p, r.cred)
      [] p.type = "jwt"       -> {JwtOutcome(p, r.cred)}
      [] p.type = "oidc"      -> OIDCOutcomes(p, r.cred, known)
      [] p.type = "anonymous" -> {AnonymousOutcome(p, r.rejected)}
-----------------------------------------------------------------------------
(* A request *)

Providers(n) == node[n].auth.providers

\* Fault: the chain has no end.
ProceedPastEnd(x, o) ==
    LET to(st, at, rejected, role, via) == Request(st, x.node, x.cred, at, rejected, role, via)
    IN  CASE o.kind = "admit"   -> to("admitted", x.at, x.rejected, o.role, Providers(x.node)[x.at].type)
          [] o.kind = "stop"    -> to("denied", x.at, x.rejected, x.role, x.via)
          [] o.kind = "skip"    -> to("pending", x.at + 1, x.rejected, x.role, x.via)
          [] o.kind = "invalid" -> to("pending", x.at + 1, TRUE, x.role, x.via)
          [] o.kind = "wait"    -> to("waiting", x.at, x.rejected, x.role, x.via)

\* The middleware takes outcome o of the current provider for request x.
Proceed(x, o) ==
    LET to(st, at, rejected, role, via) == Request(st, x.node, x.cred, at, rejected, role, via)
        next(rejected) == IF x.at < Len(Providers(x.node))
                          THEN to("pending", x.at + 1, rejected, x.role, x.via)
                          ELSE to("denied", x.at, rejected, x.role, x.via)
    IN  CASE o.kind = "admit"   -> to("admitted", x.at, x.rejected, o.role, Providers(x.node)[x.at].type)
          [] o.kind = "stop"    -> to("denied", x.at, x.rejected, x.role, x.via)
          [] o.kind = "skip"    -> next(x.rejected)
          [] o.kind = "invalid" -> next(TRUE)
          [] o.kind = "wait"    -> to("waiting", x.at, x.rejected, x.role, x.via)

\* A request reaches a node that has started and has a chain.
Arrive(r) ==
    /\ req[r].st = "new"
    /\ \E n \in Nodes, cred \in Credentials :
        /\ node[n].st = "up" /\ node[n].auth # NoAuth
        /\ req' = [req EXCEPT ![r] = Request("pending", n, cred, 1, FALSE, <<>>, None)]
    /\ UNCHANGED <<nodeVars, cached, fetch, published, now, rotations>>

\* One provider of the chain.  Verify joins a fetch under way or starts one.
Try(r) ==
    LET x == req[r]
    IN  /\ x.st = "pending"
        /\ \E o \in Outcomes(Providers(x.node)[x.at], x, cached[x.node]) :
            /\ req' = [req EXCEPT ![r] = Proceed(x, o)]
            /\ fetch' = IF o = Wait /\ fetch[x.node] = None
                        THEN [fetch EXCEPT ![x.node] = node[x.node].c.oidc.timeout]
                        ELSE fetch
        /\ UNCHANGED <<nodeVars, cached, published, now, rotations>>

\* The requests that wait for node n go on with these keys.
Resume(n, known) ==
    req' = [r \in Requests |->
        IF req[r].st = "waiting" /\ req[r].node = n
        THEN Proceed(req[r], AfterFetch(Providers(n)[req[r].at], req[r].cred, known))
        ELSE req[r]]

\* The identity provider answers the fetch.
FetchAnswered(n) ==
    /\ fetch[n] # None
    /\ cached' = [cached EXCEPT ![n] = published]
    /\ fetch' = [fetch EXCEPT ![n] = None]
    /\ Resume(n, published)
    /\ UNCHANGED <<nodeVars, published, now, rotations>>

\* Fault: the tokens that could not be checked are let through.
FetchFailsOpen(n) ==
    /\ fetch[n] # None
    /\ fetch' = [fetch EXCEPT ![n] = None]
    /\ Resume(n, Keys)
    /\ UNCHANGED <<nodeVars, cached, published, now, rotations>>

\* It answers with an error, the connection breaks, or the time limit passes.
FetchFails(n) ==
    /\ fetch[n] # None
    /\ fetch' = [fetch EXCEPT ![n] = None]
    /\ Resume(n, {})
    /\ UNCHANGED <<nodeVars, cached, published, now, rotations>>

\* The time limit of the HTTP client has passed; the fetch fails.
TimedOut(n) == fetch[n] = 0 /\ node[n].c.oidc.timeout > 0

\* The client closes its connection: the context of the request is done.
Cancel(r) ==
    /\ req[r].st = "waiting"
    /\ LET x == req[r]
       IN  req' = [req EXCEPT ![r] = Request("gone", x.node, x.cred, x.at, x.rejected, x.role, x.via)]
    /\ UNCHANGED <<nodeVars, cached, fetch, published, now, rotations>>

\* The identity provider changes its keys.
Rotate ==
    /\ rotations < MaxRotations
    /\ rotations' = rotations + 1
    /\ published' \in (SUBSET IssuerKeys) \ {{}, published}
    /\ UNCHANGED <<nodeVars, cached, fetch, req, now>>

\* Fault: the HTTP client has no time limit.
TickUnlimited ==
    /\ now' = IF now < MaxTime THEN now + 1 ELSE now
    /\ UNCHANGED <<nodeVars, cached, fetch, req, published, rotations>>

\* Time passes; what is timed out ends first.
Tick ==
    /\ \A n \in Nodes : ~TimedOut(n)
    /\ now' = IF now < MaxTime THEN now + 1 ELSE now
    /\ fetch' = [n \in Nodes |-> IF fetch[n] \in {None, 0} THEN fetch[n] ELSE fetch[n] - 1]
    /\ UNCHANGED <<nodeVars, cached, req, published, rotations>>

Next ==
    \/ \E n \in Nodes : Configure(n) \/ Mount(n) \/ FetchAnswered(n) \/ FetchFails(n)
    \/ \E r \in Requests : Arrive(r) \/ Try(r) \/ Cancel(r)
    \/ Rotate
    \/ Tick

Spec == Init /\ [][Next]_vars

\* Goroutines run and time passes; the identity provider need not answer.
FairSpec ==
    /\ Spec
    /\ \A r \in Requests : WF_vars(Try(r))
    /\ \A n \in Nodes : WF_vars(TimedOut(n) /\ FetchFails(n))
    /\ WF_vars(Tick)
-----------------------------------------------------------------------------
(* Properties *)

Carries(cred, p) == ExtractToken(cred, p) \notin {NoToken, EmptyToken}

\* A bearer token that some provider of the chain has looked at never ends in
\* anonymous access, whether it is expired, forged, of an unknown issuer, or could
\* not be checked: the comments of Authenticate promise a 401.
NeverDowngraded ==
    \A r \in Requests : (req[r].st = "admitted" /\ req[r].via = "anonymous") =>
        \A i \in 1 .. Len(Providers(req[r].node)) :
            LET p == Providers(req[r].node)[i]
            IN  p.type \in {"jwt", "oidc"} => ~Carries(req[r].cred, p)

\* Who gets in through OIDC has a token of this issuer, signed with a key of the
\* identity provider, and a role that the token grants: its own words, under the
\* prefix, in the role claim or the scopes.
AdmittedGenuine ==
    \A r \in Requests : (req[r].st = "admitted" /\ req[r].via = "oidc") =>
        LET p     == Providers(req[r].node)[req[r].at]
            t     == ExtractToken(req[r].cred, p)
            items == UNION {{t.claims[k][i] : i \in DOMAIN t.claims[k]} : k \in DOMAIN t.claims}
        IN  /\ t.iss = p.issuer /\ t.key \in IssuerKeys
            /\ req[r].role # <<>> /\ (p.prefix \o req[r].role) \in items

\* The expiry is checked before the keys are fetched, so a token may be expired
\* when its bearer gets in, but by no more than the time limit of the fetch, if that
\* has one: OIDC_TIMEOUT is 0 when it is not set, and then nothing bounds it.
StalenessBounded ==
    [][\A r \in Requests :
         (req'[r].st = "admitted" /\ req[r].st # "admitted" /\ req'[r].via = "oidc") =>
            LET c == node[req[r].node].c.oidc
                t == ExtractToken(req[r].cred, Providers(req[r].node)[req[r].at])
            IN  c.timeout > 0 => now <= t.exp + c.timeout]_vars

\* Whoever comes first in a Go map, the same role comes out: of API keys under one
\* header with one value, and of JWT providers with one issuer and one key.
Unambiguous ==
    \A f \in ConfigFiles : Loads(f) =>
        LET pc == LoadFile(f)
        IN  /\ \A p, q \in pc.apiKeys : p.header = q.header /\ p.key = q.key => p.role = q.role
            /\ \A p, q \in pc.jwt : p.issuer = q.issuer /\ p.key = q.key => p.prefix = q.prefix

\* The nodes agree on who a request is, though each has a chain of its own order:
\* under an unambiguous configuration, what carries at most one API key gets the same
\* role from the same kind of provider wherever and whenever it gets in.
NodesAgree ==
    \A r, s \in Requests :
        (/\ req[r].st = "admitted" /\ req[s].st = "admitted"
         /\ req[r].cred = req[s].cred
         /\ Cardinality(DOMAIN req[r].cred.headers) <= 1)
            => (req[r].role = req[s].role /\ req[r].via = req[s].via)

\* A credential that an API key, or a JWT or OIDC provider, feels responsible for.
Matches(cred, p) == p.header \in DOMAIN cred.headers /\ cred.headers[p.header] = p.key
Ours(cred, p)    == Carries(cred, p) /\ ExtractToken(cred, p).iss = p.issuer

\* What environment and file together have for a credential, without nodes, orders,
\* cached keys and time: the first kind of provider that is responsible decides, and
\* only who shows no token at all is anonymous.
Right(via, role) == [via |-> via, role |-> role]
Rights(policy, cred) ==
    LET pc   == LoadFile(policy[2])
        c    == Apply(policy[1], pc)
        oidc == IF c.oidc.issuer # "" THEN {OIDCProvider(c)} ELSE {}
        keys == {p \in pc.apiKeys : Matches(cred, p)}
        jwts == {p \in pc.jwt : Ours(cred, p)}
        role(p)       == RoleOf(ExtractToken(cred, p), p.prefix)
        signed(p, by) == ExtractToken(cred, p).key \in by /\ role(p) # <<>>
    IN  IF keys # {} THEN {Right("apikey", p.role) : p \in keys}
        ELSE IF jwts # {} THEN {Right("jwt", role(p)) : p \in {q \in jwts : signed(q, {q.key})}}
        ELSE IF c.secretKey # "" /\ Matches(cred, SecretProvider(c)) THEN {Right("apikey", <<"admin">>)}
        ELSE IF \E p \in oidc : Ours(cred, p)
             THEN {Right("oidc", role(p)) : p \in {q \in oidc : signed(q, IssuerKeys)}}
        ELSE IF c.anonymous /\ \A p \in pc.jwt \cup oidc : ~Carries(cred, p)
             THEN {Right("anonymous", c.anonymousRole)}
        ELSE {}

Sent    == [r \in Requests |-> IF req[r].st = "new" THEN None ELSE req[r].cred]
Verdict == [r \in Requests |->
    IF req[r].st = "admitted" THEN Right(req[r].via, req[r].role)
    ELSE IF req[r].st \in Decided THEN Right("refused", <<>>)
    ELSE Right("open", <<>>)]

Granting == INSTANCE Access
    WITH Policies <- Environments \X ConfigFiles, Nobody <- None, Open <- Right("open", <<>>),
         Refused <- Right("refused", <<>>), policy <- <<env, file>>, cred <- Sent, verdict <- Verdict

\* Nodes that start in any order, chains of any order, key fetches and rotations
\* implement Access: each request gets one verdict, and what it is granted is what the
\* configuration has for its credential.
ImplementsAccess == Granting!Spec

\* The tokens that the OAuth proxy hands out are ones that this node accepts: both
\* use the issuer that is in force after the file was read, and so does /auth/config.
ProxyMatchesChain ==
    \A n \in Nodes : (node[n].st = "up" /\ node[n].proxy # NoProxy) =>
        /\ node[n].auth # NoAuth
        /\ \E i \in 1 .. Len(Providers(n)) :
              Providers(n)[i].type = "oidc" /\ Providers(n)[i].issuer = node[n].proxy.issuer

\* Every request is decided, or its client has gone.
RequestsDecided == \A r \in Requests : (req[r].st # "new") ~> (req[r].st \in Decided)
=============================================================================
