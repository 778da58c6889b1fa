----------------------------- MODULE AuthConfig -----------------------------
(***************************************************************************)
(* pkg/auth Configure and LoadFile, and the part of cmd/server that uses   *)
(* what Configure leaves behind: how the environment and the configuration *)
(* file become a chain of providers and the settings of the OAuth proxy.   *)
(*                                                                         *)
(* Every node does this by itself when it starts.  Go ranges over a map in *)
(* an order of its own each time, so the chains of two nodes with the same *)
(* environment and file may differ.                                        *)
(*                                                                         *)
(* A file is a function from the keys that its text has to their values.   *)
(* External (query-engine): the providers made by NewApiKey, NewJwt and    *)
(* NewAnonymous, here only the data they are made from.                    *)
(***************************************************************************)
EXTENDS Naturals, Sequences, FiniteSets

CONSTANTS
    Environments,   \* what loadConfig may return
    ConfigFiles     \* what AUTH_CONFIG_FILE may be, NoFile too

NoFile == [format |-> "none", text |-> <<>>]

\* A setting that is not there, in the environment or in a file.
NoOIDC      == [issuer |-> "", clientSecret |-> "", timeout |-> 0, cookie |-> FALSE, prefix |-> <<>>]
NoAnonymous == [allowed |-> FALSE, role |-> <<>>]
Zero == [managed |-> FALSE, anonymous |-> NoAnonymous, apiKeys |-> {}, jwt |-> {},
         oidc |-> NoOIDC, secretKey |-> ""]

\* The tags of ProvidersConfig: under which key a format keeps a field.
Tags == [json |-> [managed |-> "managed_api_keys", anonymous |-> "anonymous", apiKeys |-> "api_keys",
                   jwt |-> "jwt", oidc |-> "oidc", secretKey |-> "secret_key"],
         yaml |-> [managed |-> "managed-api-keys", anonymous |-> "anonymous", apiKeys |-> "api-keys",
                   jwt |-> "jwt", oidc |-> "oidc", secretKey |-> "secret-key"]]

\* json.Unmarshal and yaml.Unmarshal: keys without a field are passed over, and the
\* client secret has no key in JSON.
Unmarshal(file) ==
    LET field(x) == LET key == Tags[file.format][x]
                    IN  IF key \in DOMAIN file.text THEN file.text[key] ELSE Zero[x]
    IN  [x \in DOMAIN Zero |->
            IF x = "oidc" /\ file.format = "json"
            THEN [field(x) EXCEPT !.clientSecret = ""]
            ELSE field(x)]

\* LoadFile knows two formats; without a file there is nothing to read.
Loads(file) == file.format \in {"none", "json", "yaml"}
LoadFile(file) == IF file.format = "none" THEN Zero ELSE Unmarshal(file)

\* The types of OIDCConfig and ProvidersConfig; a Go map is finite.
IsText(t) == t \in Seq({t[i] : i \in DOMAIN t})
IsOIDC(o) == o.timeout \in Nat /\ IsText(o.prefix)
IsMapOf(type, values) == IsFiniteSet(values) /\ \A p \in values : p.type = type

ASSUME ConfigAssumption ==
    /\ \A e \in Environments : IsOIDC(e.oidc)
    /\ \A f \in ConfigFiles : Loads(f) =>
         LET pc == LoadFile(f)
         IN  IsOIDC(pc.oidc) /\ IsMapOf("apikey", pc.apiKeys) /\ IsMapOf("jwt", pc.jwt)

\* Configure overwrites its receiver c by what the file pc sets.  The OIDC settings
\* change all together, and anonymous access can only be switched on.
Apply(c, pc) ==
    [mcp           |-> c.mcp,
     mcpSecret     |-> c.mcpSecret,
     oidc          |-> IF pc.oidc.issuer # "" THEN pc.oidc ELSE c.oidc,
     anonymous     |-> c.anonymous \/ pc.anonymous.allowed,
     anonymousRole |-> IF pc.anonymous.allowed THEN pc.anonymous.role ELSE c.anonymousRole,
     secretKey     |-> IF pc.secretKey # "" THEN pc.secretKey ELSE c.secretKey,
     managed       |-> c.managed \/ pc.managed]

\* The orders in which Go may range over a map with these values.
MapOrders(values) ==
    {q \in [1 .. Cardinality(values) -> values] : \A v \in values : \E i \in DOMAIN q : q[i] = v}

One(condition, provider) == IF condition THEN <<provider>> ELSE <<>>

SecretProvider(c)    == [type |-> "apikey", header |-> "x-hugr-secret-key", key |-> c.secretKey,
                         role |-> <<"admin">>]
OIDCProvider(c)      == [type |-> "oidc", issuer |-> c.oidc.issuer, cookie |-> c.oidc.cookie,
                         prefix |-> c.oidc.prefix]
AnonymousProvider(c) == [type |-> "anonymous", role |-> c.anonymousRole]

\* The chain for an order of the API keys and one of the JWT providers.
ChainOf(c, k, j) ==
    k \o j \o One(c.secretKey # "", SecretProvider(c)) \o One(c.oidc.issuer # "", OIDCProvider(c))
      \o One(c.anonymous, AnonymousProvider(c))

\* Fault: API keys and JWT providers come out of one map.
ChainsOneMap(c, pc) == {ChainOf(c, k, <<>>) : k \in MapOrders(pc.apiKeys \cup pc.jwt)}

\* The chains Configure may build from its settings c and the file pc.
Chains(c, pc) == {ChainOf(c, k, j) : k \in MapOrders(pc.apiKeys), j \in MapOrders(pc.jwt)}
=============================================================================
