------------------------------ MODULE Versions ------------------------------
(***************************************************************************)
(* The order of version names used by cmd/migrate.  A version is a string  *)
(* such as "0.0.10"; the tool splits it at the dots, reads every part with *)
(* strconv.Atoi (a part that is not a number counts as 0, because the      *)
(* error is dropped) and compares the two sequences of numbers, the        *)
(* shorter one continued with zeros.                                       *)
(*                                                                         *)
(* The string itself is abstracted to its sequence of numbers: Parts[v].   *)
(* Two different names may have the same parts ("0.0.1" and "0.0.01").     *)
(***************************************************************************)
EXTENDS Integers, Sequences

CONSTANTS
    Versions,   \* the version names: of the scripts, of the database, of -to-version
    Parts       \* Parts[v] is what Split and Atoi make of the name v

ASSUME PartsAssumption == Parts \in [Versions -> Seq(Int)]

\* The i-th number of version v: a missing part is 0.
Part(v, i) == IF i <= Len(Parts[v]) THEN Parts[v][i] ELSE 0

\* The number of parts the loop of compareVersions looks at.
Width(a, b) == IF Len(Parts[a]) < Len(Parts[b]) THEN Len(Parts[b]) ELSE Len(Parts[a])

\* The first part in which a and b differ is smaller in a.
FirstDifferenceBelow(a, b) ==
    \E i \in 1 .. Width(a, b) :
        /\ Part(a, i) < Part(b, i)
        /\ \A j \in 1 .. (i - 1) : Part(a, j) = Part(b, j)

\* -1, 0 or 1, as the function of the same name returns.
compareVersions(a, b) ==
    IF FirstDifferenceBelow(a, b) THEN -1
    ELSE IF FirstDifferenceBelow(b, a) THEN 1
    ELSE 0

Older(a, b)      == compareVersions(a, b) < 0
NotNewer(a, b)   == compareVersions(a, b) <= 0
SameVersion(a, b) == compareVersions(a, b) = 0
=============================================================================
