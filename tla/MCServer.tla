------------------------------ MODULE MCServer ------------------------------
(* Configurations that take every branch of the start-up. *)
EXTENDS Server

Standalone ==
    [tlsCert |-> FALSE, tlsKey |-> FALSE, tlsLoads |-> FALSE, cluster |-> FALSE, role |-> "none",
     coreDB |-> "memory", readOnly |-> FALSE, oidc |-> FALSE, mcp |-> FALSE,
     mcpSecret |-> FALSE, secretKey |-> FALSE, serviceBind |-> TRUE]

\* A cluster node with all options; and a standalone one without service endpoint.
Full == [Standalone EXCEPT !.tlsCert = TRUE, !.tlsKey = TRUE, !.tlsLoads = TRUE,
            !.cluster = TRUE, !.role = "worker", !.coreDB = "postgres", !.oidc = TRUE,
            !.mcp = TRUE, !.mcpSecret = TRUE, !.secretKey = TRUE]
NoService == [Standalone EXCEPT !.serviceBind = FALSE]

\* Configurations with a mistake.
NoTLSKey    == [Full EXCEPT !.tlsKey = FALSE]
BadRole     == [Full EXCEPT !.role = "other"]
ClusterFile == [Full EXCEPT !.coreDB = "file"]
ReadOnly    == [Standalone EXCEPT !.readOnly = TRUE]
NoSecretKey == [Full EXCEPT !.secretKey = FALSE]

MCConfigs == {Standalone, Full, NoService, NoTLSKey, BadRole, ClusterFile, ReadOnly, NoSecretKey}
=============================================================================
