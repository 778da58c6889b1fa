--------------------------- MODULE VersionsProofs ---------------------------
(***************************************************************************)
(* The order of versions is a total preorder: what cmd/migrate needs to    *)
(* sort scripts by it and to skip the ones below the recorded version.     *)
(***************************************************************************)
EXTENDS Versions, WellFoundedInduction, TLAPS

Pos == Nat \ {0}

\* A part is a number, and it is 0 beyond the width of the comparison.
LEMMA PartFacts ==
    ASSUME NEW a \in Versions, NEW b \in Versions
    PROVE  /\ \A i \in Pos : Part(a, i) \in Int
           /\ Width(a, b) \in Nat
           /\ Width(a, b) = Width(b, a)
           /\ \A i \in Pos : i > Width(a, b) => Part(a, i) = 0 /\ Part(b, i) = 0
<1>1. Parts[a] \in Seq(Int) /\ Parts[b] \in Seq(Int)
    BY PartsAssumption
<1>2. Len(Parts[a]) \in Nat /\ Len(Parts[b]) \in Nat
    BY <1>1
<1>3. \A i \in Pos : i <= Len(Parts[a]) => Parts[a][i] \in Int
    BY <1>1 DEF Pos
<1>4. QED
    BY <1>2, <1>3 DEF Part, Width, Pos

\* The bound of the comparison loop loses nothing.
LEMMA FirstDifferenceUnbounded ==
    ASSUME NEW a \in Versions, NEW b \in Versions
    PROVE  FirstDifferenceBelow(a, b) <=>
             \E i \in Pos : /\ Part(a, i) < Part(b, i)
                            /\ \A j \in Pos : j < i => Part(a, j) = Part(b, j)
<1>1. \A i \in Pos : Part(a, i) < Part(b, i) => i <= Width(a, b)
    BY PartFacts DEF Pos
<1>2. \A i \in Pos : (\A j \in 1 .. (i - 1) : Part(a, j) = Part(b, j))
                        <=> (\A j \in Pos : j < i => Part(a, j) = Part(b, j))
    BY DEF Pos
<1>3. \A i : i \in 1 .. Width(a, b) <=> i \in Pos /\ i <= Width(a, b)
    BY PartFacts DEF Pos
<1>4. QED
    BY <1>1, <1>2, <1>3 DEF FirstDifferenceBelow

\* Of two different part sequences, one is below the other: there is a first
\* part in which they differ.
LEMMA EqualParts ==
    ASSUME NEW a \in Versions, NEW b \in Versions,
           ~FirstDifferenceBelow(a, b), ~FirstDifferenceBelow(b, a)
    PROVE  \A i \in Pos : Part(a, i) = Part(b, i)
<1> DEFINE D == {i \in Pos : Part(a, i) # Part(b, i)}
<1> SUFFICES ASSUME D # {} PROVE FALSE
    OBVIOUS
<1>1. D \subseteq Nat
    BY DEF Pos
<1>2. PICK i \in D : \A j \in D : ~(<<j, i>> \in OpToRel(<, Nat))
    <2> HIDE DEF D
    <2> QED BY <1>1, WFMin, NatLessThanWellFounded, Zenon
<1>3. \A j \in D : ~(j < i)
    BY <1>1, <1>2 DEF OpToRel
<1>4. \A j \in Pos : j < i => Part(a, j) = Part(b, j)
    BY <1>3
<1>5. Part(a, i) < Part(b, i) \/ Part(b, i) < Part(a, i)
    BY PartFacts
<1>6. QED
    BY <1>4, <1>5, FirstDifferenceUnbounded

\* "Older" is a strict order that "same version" respects, and any two versions
\* are comparable: the order in which compareVersions sorts is well defined.
THEOREM VersionOrder ==
    ASSUME NEW a \in Versions, NEW b \in Versions, NEW c \in Versions
    PROVE  /\ ~Older(a, a) /\ SameVersion(a, a)
           /\ Older(a, b) <=> ~NotNewer(b, a)
           /\ NotNewer(a, b) <=> Older(a, b) \/ SameVersion(a, b)
           /\ SameVersion(a, b) <=> SameVersion(b, a)
           /\ NotNewer(a, b) /\ NotNewer(b, c) => NotNewer(a, c)
           /\ NotNewer(a, b) /\ Older(b, c) => Older(a, c)
           /\ Older(a, b) /\ NotNewer(b, c) => Older(a, c)
<1> DEFINE FDB(x, y) == FirstDifferenceBelow(x, y)
<1>1. ASSUME NEW x \in Versions, NEW y \in Versions PROVE ~(FDB(x, y) /\ FDB(y, x))
    <2>1. SUFFICES ASSUME FDB(x, y), FDB(y, x) PROVE FALSE
        OBVIOUS
    <2>2. PICK i \in Pos : /\ Part(x, i) < Part(y, i)
                           /\ \A j \in Pos : j < i => Part(x, j) = Part(y, j)
        BY <2>1, FirstDifferenceUnbounded
    <2>3. PICK k \in Pos : /\ Part(y, k) < Part(x, k)
                           /\ \A j \in Pos : j < k => Part(y, j) = Part(x, j)
        BY <2>1, FirstDifferenceUnbounded
    <2>4. Part(x, i) \in Int /\ Part(y, i) \in Int /\ Part(x, k) \in Int /\ Part(y, k) \in Int
        BY PartFacts
    <2>5. i < k \/ k < i \/ i = k
        BY DEF Pos
    <2> QED BY <2>2, <2>3, <2>4, <2>5
<1>2. ASSUME NEW x \in Versions, NEW y \in Versions, NEW z \in Versions,
             FDB(x, y), ~FDB(z, y)
      PROVE  FDB(x, z)
    <2>1. PICK i \in Pos : /\ Part(x, i) < Part(y, i)
                           /\ \A j \in Pos : j < i => Part(x, j) = Part(y, j)
        BY <1>2, FirstDifferenceUnbounded
    <2>2. CASE FDB(y, z)
        <3>1. PICK k \in Pos : /\ Part(y, k) < Part(z, k)
                               /\ \A j \in Pos : j < k => Part(y, j) = Part(z, j)
            BY <2>2, FirstDifferenceUnbounded
        <3>2. \A n \in Pos : Part(x, n) \in Int /\ Part(y, n) \in Int /\ Part(z, n) \in Int
            BY PartFacts
        <3>3. CASE i <= k
            <4>1. Part(x, i) < Part(z, i)
                BY <2>1, <3>1, <3>2, <3>3 DEF Pos
            <4>2. \A j \in Pos : j < i => Part(x, j) = Part(z, j)
                BY <2>1, <3>1, <3>3 DEF Pos
            <4> QED BY <4>1, <4>2, FirstDifferenceUnbounded
        <3>4. CASE k < i
            <4>1. Part(x, k) < Part(z, k)
                BY <2>1, <3>1, <3>2, <3>4
            <4>2. \A j \in Pos : j < k => Part(x, j) = Part(z, j)
                BY <2>1, <3>1, <3>4 DEF Pos
            <4> QED BY <4>1, <4>2, FirstDifferenceUnbounded
        <3> QED BY <3>3, <3>4 DEF Pos
    <2>3. CASE ~FDB(y, z)
        <3>1. \A j \in Pos : Part(y, j) = Part(z, j)
            BY <1>2, <2>3, EqualParts
        <3> QED BY <2>1, <3>1, FirstDifferenceUnbounded
    <2> QED BY <2>2, <2>3
<1>3. ASSUME NEW x \in Versions, NEW y \in Versions
      PROVE  /\ Older(x, y) <=> FDB(x, y)
             /\ NotNewer(x, y) <=> ~FDB(y, x)
             /\ SameVersion(x, y) <=> ~FDB(x, y) /\ ~FDB(y, x)
    BY <1>1 DEF Older, NotNewer, SameVersion, compareVersions
<1> HIDE DEF FDB
<1>4. /\ ~FDB(a, a)
      /\ FDB(a, b) => ~FDB(b, a)
    BY <1>1
<1>5. ~FDB(b, a) /\ ~FDB(c, b) => ~FDB(c, a)
    BY <1>2
<1>6. ~FDB(b, a) /\ FDB(b, c) => FDB(a, c)
    <2>1. SUFFICES ASSUME ~FDB(b, a), FDB(b, c), ~FDB(a, c) PROVE FALSE
        OBVIOUS
    <2>2. FDB(b, a)
        BY <1>2, <2>1
    <2> QED BY <2>1, <2>2
<1>7. FDB(a, b) /\ ~FDB(c, b) => FDB(a, c)
    BY <1>2
<1> QED BY <1>3, <1>4, <1>5, <1>6, <1>7
=============================================================================
