----------------------------- MODULE CoreSchema -----------------------------
(***************************************************************************)
(* What the servers that use the core database may count on, whatever the  *)
(* migrators do: a schema is a set of installed scripts, its version row   *)
(* promises some of them, and what they did is there but for the tables    *)
(* that are missing.  Migrate implements this specification.               *)
(***************************************************************************)
CONSTANTS
    Scripts,
    Levels,             \* what the version row may say
    NoLevel,            \* there is no schema yet
    Precedes(_, _),     \* the order of the scripts
    Promised(_),        \* the scripts that a level stands for
    Renews(_)           \* the tables that a script drops and creates anew

VARIABLES
    installed,          \* the scripts that have done all they do
    missing,            \* the tables that are not there now
    level               \* the version row

Init ==
    /\ missing = {}
    /\ \/ level = NoLevel /\ installed = {}
       \/ level \in Levels /\ installed = Promised(level)

\* The schema is created, all of it at once.
Create ==
    /\ level = NoLevel
    /\ level' \in Levels
    /\ installed' = Promised(level')
    /\ UNCHANGED missing

\* One script changes the schema, after all that come before it.  Only it and later
\* ones can be lost by this, and none that the version row, which may change,
\* promises.  It may take away tables that it renews, and a table stays away only as
\* long as a script that renews it is not installed.
Evolve ==
    /\ level \in Levels
    /\ \E s \in Scripts :
        /\ \A q \in Scripts : Precedes(q, s) => q \in installed
        /\ installed' \subseteq installed \cup {s}
        /\ \A q \in installed \ installed' : q = s \/ Precedes(s, q)
        /\ missing' \subseteq missing \cup Renews(s)
    /\ \A t \in missing' : \E q \in Scripts \ installed' : t \in Renews(q)
    /\ level' \in Levels
    /\ Promised(level') \subseteq installed'

\* The version row changes, to something that is true.
Record ==
    /\ level \in Levels
    /\ level' \in Levels
    /\ Promised(level') \subseteq installed
    /\ UNCHANGED <<installed, missing>>

Next == Create \/ Evolve \/ Record

Spec == Init /\ [][Next]_<<installed, missing, level>>
=============================================================================
