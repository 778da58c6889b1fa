---------------------------- MODULE MCOAuthProxy ----------------------------
(* Two MCP clients with flows of their own, on nodes whose clocks differ. *)
EXTENDS OAuthProxy, TLC

Local  == [scheme |-> "http", host |-> "localhost"]
Remote == [scheme |-> "https", host |-> "app.example"]
Plain  == [scheme |-> "http", host |-> "app.example"]
MCURIs == {Local, Remote}

MCS256 == [v \in {"v1", "v2"} |-> IF v = "v1" THEN "c1" ELSE "c2"]

Query(client, uri, state, challenge, method) ==
    [response_type |-> "code", client_id |-> client, redirect_uri |-> uri, state |-> state,
     code_challenge |-> challenge, code_challenge_method |-> method]

\* Two proper requests, one to an address that is not admissible, one without
\* client_id and one with the wrong method.
MCQueries ==
    { Query("A", Local, "sA", "c1", "S256"),
      Query("B", Remote, "sB", "c2", "S256"),
      Query("B", Plain, "sB", "c2", "S256"),
      Query(Absent, Local, "sA", "c1", "S256"),
      Query("A", Local, "sA", "c1", "plain") }

Symmetry == Permutations(ProviderCodes)

\* One flow is followed through all its time limits, two within one tick.
MCHorizon == [k \in 0 .. 4 |-> IF k <= 2 THEN 14 ELSE 0]

MCSkew == [n \in {"n1", "n2"} |-> IF n = "n1" THEN 0 ELSE 1]
=============================================================================
