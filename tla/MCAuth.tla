------------------------------- MODULE MCAuth -------------------------------
(* Environments, files, tokens and requests that tell the cases apart. *)
EXTENDS Auth, TLC

CONSTANTS k1, k2, kOther, kForged

\* The defaults of initEnvs, and a node with OIDC and the OAuth proxy.
Default == [mcp |-> FALSE, mcpSecret |-> "", oidc |-> NoOIDC, anonymous |-> TRUE,
            anonymousRole |-> <<"admin">>, secretKey |-> "", managed |-> FALSE]
WithOIDC == [Default EXCEPT !.mcp = TRUE, !.secretKey = "s",
               !.oidc = [NoOIDC EXCEPT !.issuer = "idp", !.clientSecret = "c", !.timeout = 1]]
OwnSecret  == [WithOIDC EXCEPT !.mcpSecret = "m"]
NoSecret   == [WithOIDC EXCEPT !.secretKey = ""]
ClosedDoor == [Default EXCEPT !.anonymous = FALSE, !.managed = TRUE]

Key(name, role) == [type |-> "apikey", header |-> name, key |-> name, role |-> role]
Jwt(iss) == [type |-> "jwt", issuer |-> iss, key |-> kOther, cookie |-> TRUE, prefix |-> <<>>]
FileOIDC == [issuer |-> "idp2", clientSecret |-> "f", timeout |-> 1, cookie |-> TRUE, prefix |-> <<"hugr:">>]

\* One text, in JSON (as in auth.md) and in YAML with the keys that are read.
Text == [x \in {"anonymous", "api_keys", "jwt", "oidc", "managed_api_keys", "secret_key"} |->
    CASE x = "anonymous" -> [allowed |-> TRUE, role |-> <<"guest">>]
      [] x = "api_keys" -> {Key("h1", <<"one">>), Key("h2", <<"two">>)}
      [] x = "jwt" -> {Jwt("other")}
      [] x = "oidc" -> FileOIDC
      [] x = "managed_api_keys" -> TRUE
      [] x = "secret_key" -> "t"]
JsonFile == [format |-> "json", text |-> Text]
DocFile  == [format |-> "yaml", text |-> Text]
YamlFile == [format |-> "yaml",
    text |-> [x \in {"anonymous", "api-keys", "jwt", "oidc", "managed-api-keys", "secret-key"} |->
        CASE x = "api-keys" -> Text["api_keys"]
          [] x = "managed-api-keys" -> Text["managed_api_keys"]
          [] x = "secret-key" -> Text["secret_key"]
          [] OTHER -> Text[x]]]
NoSuchFormat == [format |-> "toml", text |-> <<>>]

\* NodesAgree is about configurations like these.
ASSUME MCUnambiguous == Unambiguous

MCEnvironments == {Default, WithOIDC, OwnSecret, NoSecret, ClosedDoor}
NoFiles == {NoFile}
MCFiles == {NoFile, JsonFile, YamlFile, DocFile, NoSuchFormat}
-----------------------------------------------------------------------------
\* One environment and one file: OIDC with a prefix, two API keys, a JWT provider,
\* a secret key and anonymous access.
OneEnvironment == {WithOIDC}
OneFile == {YamlFile}
\* No liveness is checked in the run that uses it.
Symmetry == Permutations(Nodes) \cup Permutations(Requests)

\* OIDC from the environment only, as it comes without OIDC_TIMEOUT.
NoTimeout == {[WithOIDC EXCEPT !.oidc.timeout = 0]}

Token(iss, key, exp, claims) == [iss |-> iss, key |-> key, exp |-> exp, claims |-> claims]
Admin  == "x-hugr-role" :> <<<<"hugr:", "admin">>>>
\* A list with an item that is no string, one under another prefix and one without a role.
Scopes == "x-hugr-role" :> <<<<"hugr:">>>> @@ "scopes" :> <<NotAString, <<"app:", "dba">>, <<"hugr:", "user">>>>
NoRole == "x-hugr-role" :> <<<<"hugr:">>>>

Good    == Token("idp2", k1, 1, Admin)
Scoped  == Token("idp2", k2, 1, Scopes)
Roleless == Token("idp2", k1, 2, NoRole)
Forged  == Token("idp2", kForged, 2, Admin)
Foreign == Token("nobody", k1, 2, Admin)
Other   == Token("other", kOther, 2, "x-hugr-role" :> <<<<"dev">>>>)

Cred(bearer, cookie, headers) == [bearer |-> bearer, cookie |-> cookie, headers |-> headers]
Nothing == [h \in {} |-> ""]
MCCredentials ==
    {Cred(t, NoToken, Nothing) : t \in {NoToken, Good, Scoped, Roleless, Forged, Other}}
    \cup {Cred(NoToken, Good, Nothing), Cred(EmptyToken, Forged, Nothing),
          Cred(Other, NoToken, "h1" :> "h1"),
          Cred(Foreign, NoToken, "h2" :> "wrong")}

\* Enough to meet a fetch that hangs, under either issuer.
LiveCredentials == {Cred(t, NoToken, Nothing) :
    t \in {Good, Forged, Token("idp", k1, 2, Admin), Token("idp", kForged, 2, Admin)}}
=============================================================================
