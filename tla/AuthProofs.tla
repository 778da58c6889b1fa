----------------------------- MODULE AuthProofs -----------------------------
(***************************************************************************)
(* Authentication, for all environments, files, credentials, nodes and     *)
(* requests.                                                               *)
(*                                                                         *)
(* The first part says how a chain is laid out, the second what each       *)
(* outcome of a provider tells about the credential.  The invariant keeps, *)
(* for each request, what the providers it has passed have found.          *)
(***************************************************************************)
EXTENDS Auth, FiniteSetTheorems, SequenceTheorems, NaturalsInduction, WellFoundedInduction, TLAPS

\* The provider has let the request go on.
Passed(p, cred, rejected) ==
    /\ p.type = "apikey" => ~Matches(cred, p)
    /\ p.type \in {"jwt", "oidc"} => ~Ours(cred, p) /\ (Carries(cred, p) => rejected)

\* The provider may give the request this role.
Entitled(p, cred, rejected, role) ==
    /\ p.type = "apikey" => Matches(cred, p) /\ role = p.role
    /\ p.type \in {"jwt", "oidc"} =>
         Ours(cred, p) /\ role = RoleOf(ExtractToken(cred, p), p.prefix) /\ role # <<>>
    /\ p.type = "jwt" => ExtractToken(cred, p).key = p.key
    /\ p.type = "oidc" => ExtractToken(cred, p).key \in IssuerKeys
    /\ p.type = "anonymous" => ~rejected /\ role = p.role
-----------------------------------------------------------------------------
(* The layout of a chain *)

\* Where each kind of provider ends.
Secrets(c)       == IF c.secretKey # "" THEN 1 ELSE 0
OIDCs(c)         == IF c.oidc.issuer # "" THEN 1 ELSE 0
Anonymouses(c)   == IF c.anonymous THEN 1 ELSE 0
KeysEnd(pc)      == Cardinality(pc.apiKeys)
JwtEnd(pc)       == KeysEnd(pc) + Cardinality(pc.jwt)
SecretEnd(c, pc) == JwtEnd(pc) + Secrets(c)
OIDCEnd(c, pc)   == SecretEnd(c, pc) + OIDCs(c)
ChainEnd(c, pc)  == OIDCEnd(c, pc) + Anonymouses(c)

\* The API keys of the file, its JWT providers, the secret key, OIDC, anonymous.
Layout(chain, c, pc) ==
    /\ Len(chain) = ChainEnd(c, pc)
    /\ \A i \in 1 .. KeysEnd(pc) : chain[i] \in pc.apiKeys
    /\ \A p \in pc.apiKeys : \E i \in 1 .. KeysEnd(pc) : chain[i] = p
    /\ \A i \in KeysEnd(pc) + 1 .. JwtEnd(pc) : chain[i] \in pc.jwt
    /\ \A p \in pc.jwt : \E i \in KeysEnd(pc) + 1 .. JwtEnd(pc) : chain[i] = p
    /\ \A i \in JwtEnd(pc) + 1 .. SecretEnd(c, pc) : chain[i] = SecretProvider(c)
    /\ \A i \in SecretEnd(c, pc) + 1 .. OIDCEnd(c, pc) : chain[i] = OIDCProvider(c)
    /\ \A i \in OIDCEnd(c, pc) + 1 .. ChainEnd(c, pc) : chain[i] = AnonymousProvider(c)

\* The maps of a file that was read.
GoodMaps(pc) == IsMapOf("apikey", pc.apiKeys) /\ IsMapOf("jwt", pc.jwt)

EndsInOrder(c, pc) ==
    /\ KeysEnd(pc) \in Nat /\ JwtEnd(pc) \in Nat /\ SecretEnd(c, pc) \in Nat
    /\ OIDCEnd(c, pc) \in Nat /\ ChainEnd(c, pc) \in Nat
    /\ KeysEnd(pc) <= JwtEnd(pc) /\ JwtEnd(pc) <= SecretEnd(c, pc)
    /\ SecretEnd(c, pc) <= OIDCEnd(c, pc) /\ OIDCEnd(c, pc) <= ChainEnd(c, pc)
    /\ ChainEnd(c, pc) <= OIDCEnd(c, pc) + 1

LEMMA EndsType ==
    ASSUME NEW c, NEW pc, GoodMaps(pc)
    PROVE  EndsInOrder(c, pc)
<1>1. Cardinality(pc.apiKeys) \in Nat /\ Cardinality(pc.jwt) \in Nat
  BY FS_CardinalityType DEF GoodMaps, IsMapOf
<1>2. Secrets(c) \in 0 .. 1 /\ OIDCs(c) \in 0 .. 1 /\ Anonymouses(c) \in 0 .. 1
  BY DEF Secrets, OIDCs, Anonymouses
<1>3. KeysEnd(pc) \in Nat /\ JwtEnd(pc) \in Nat /\ KeysEnd(pc) <= JwtEnd(pc)
  BY <1>1 DEF KeysEnd, JwtEnd
<1>4. SecretEnd(c, pc) \in Nat /\ JwtEnd(pc) <= SecretEnd(c, pc)
  BY <1>2, <1>3 DEF SecretEnd
<1>5. OIDCEnd(c, pc) \in Nat /\ SecretEnd(c, pc) <= OIDCEnd(c, pc)
  BY <1>2, <1>4 DEF OIDCEnd
<1>6. ChainEnd(c, pc) \in Nat /\ OIDCEnd(c, pc) <= ChainEnd(c, pc) /\ ChainEnd(c, pc) <= OIDCEnd(c, pc) + 1
  BY <1>2, <1>5 DEF ChainEnd
<1> QED
  BY <1>3, <1>4, <1>5, <1>6 DEF EndsInOrder

\* b is a, and then n times p.
Followed(T, a, b, p, n) ==
    /\ b \in Seq(T) /\ Len(b) = Len(a) + n
    /\ \A i \in 1 .. Len(a) : b[i] = a[i]
    /\ \A i \in Len(a) + 1 .. Len(a) + n : b[i] = p

LEMMA ConcatOne ==
    ASSUME NEW T, NEW a \in Seq(T), NEW p \in T, NEW b, NEW n,
           (b = <<p>> /\ n = 1) \/ (b = <<>> /\ n = 0)
    PROVE  Followed(T, a, a \o b, p, n)
<1>1. CASE b = <<p>> /\ n = 1
  <2>1. /\ a \o <<p>> \in Seq(T) /\ Len(a \o <<p>>) = Len(a) + 1
        /\ \A i \in 1 .. Len(a) : (a \o <<p>>)[i] = a[i]
        /\ \A i \in Len(a) + 1 .. Len(a) + 1 : (a \o <<p>>)[i] = p
    OBVIOUS
  <2> QED
    BY <1>1, <2>1 DEF Followed
<1>2. CASE b = <<>> /\ n = 0
  <2>1. /\ a \o <<>> \in Seq(T) /\ Len(a \o <<>>) = Len(a) + 0
        /\ \A i \in 1 .. Len(a) : (a \o <<>>)[i] = a[i]
        /\ \A i \in Len(a) + 1 .. Len(a) + 0 : (a \o <<>>)[i] = p
    OBVIOUS
  <2> QED
    BY <1>2, <2>1 DEF Followed
<1> QED
  BY <1>1, <1>2

\* q is a sequence of these values, with all of them.
Lists(T, q, values) ==
    /\ q \in Seq(T) /\ Len(q) = Cardinality(values)
    /\ \A i \in 1 .. Len(q) : q[i] \in values
    /\ \A v \in values : \E i \in 1 .. Len(q) : q[i] = v

LEMMA OrderOfMap ==
    ASSUME NEW values, IsFiniteSet(values), NEW T, values \subseteq T, NEW q \in MapOrders(values)
    PROVE  Lists(T, q, values)
<1>1. Cardinality(values) \in Nat
  BY FS_CardinalityType
<1>2. /\ q \in [1 .. Cardinality(values) -> values]
      /\ \A v \in values : \E i \in DOMAIN q : q[i] = v
  BY DEF MapOrders
<1>3. q \in Seq(values) /\ Len(q) = Cardinality(values) /\ DOMAIN q = 1 .. Len(q)
  BY <1>1, <1>2
<1>4. q \in Seq(T)
  BY <1>3
<1> QED
  BY <1>1, <1>2, <1>3, <1>4 DEF Lists

\* Two lists, one after the other: that of A ends at m, that of B at n.
ListsBoth(T, q, A, m, B, n) ==
    /\ q \in Seq(T) /\ Len(q) = n
    /\ \A i \in 1 .. m : q[i] \in A
    /\ \A v \in A : \E i \in 1 .. m : q[i] = v
    /\ \A i \in m + 1 .. n : q[i] \in B
    /\ \A v \in B : \E i \in m + 1 .. n : q[i] = v

LEMMA TwoLists ==
    ASSUME NEW T, NEW k, NEW A, Lists(T, k, A), NEW j, NEW B, Lists(T, j, B), NEW m, NEW n,
           m = Cardinality(A), n = m + Cardinality(B)
    PROVE  ListsBoth(T, k \o j, A, m, B, n)
<1>1. /\ k \in Seq(T) /\ Len(k) = m /\ j \in Seq(T) /\ n = m + Len(j)
      /\ \A i \in 1 .. m : k[i] \in A
      /\ \A v \in A : \E i \in 1 .. m : k[i] = v
      /\ \A i \in 1 .. Len(j) : j[i] \in B
      /\ \A v \in B : \E i \in 1 .. Len(j) : j[i] = v
  BY DEF Lists
<1>2. /\ k \o j \in Seq(T) /\ Len(k \o j) = n /\ m \in Nat /\ n \in Nat /\ Len(j) \in Nat
      /\ \A i \in 1 .. m : (k \o j)[i] = k[i]
      /\ \A i \in m + 1 .. n : (k \o j)[i] = j[i - m]
  BY <1>1
<1>3. /\ \A i \in m + 1 .. n : i - m \in 1 .. Len(j)
      /\ \A i \in 1 .. Len(j) : m + i \in m + 1 .. n /\ (m + i) - m = i
  <2>1. m \in Nat /\ Len(j) \in Nat /\ n = m + Len(j)
    BY <1>1, <1>2
  <2> QED
    BY <2>1
<1>4. \A i \in m + 1 .. n : (k \o j)[i] \in B
  BY <1>1, <1>2, <1>3
<1>5. ASSUME NEW v \in B PROVE \E i \in m + 1 .. n : (k \o j)[i] = v
  <2>1. PICK i \in 1 .. Len(j) : j[i] = v
    BY <1>1
  <2>2. m + i \in m + 1 .. n /\ (m + i) - m = i
    BY <1>3
  <2>3. (k \o j)[m + i] = j[(m + i) - m]
    BY <1>2, <2>2
  <2> QED
    BY <2>1, <2>2, <2>3
<1>6. /\ \A i \in 1 .. m : (k \o j)[i] \in A
      /\ \A v \in A : \E i \in 1 .. m : (k \o j)[i] = v
  BY <1>1, <1>2, Zenon
<1> QED
  BY <1>2, <1>4, <1>5, <1>6 DEF ListsBoth

\* What Configure builds is laid out so, whatever the orders of the two maps.
LEMMA ChainLayout ==
    ASSUME NEW c, NEW pc, GoodMaps(pc), NEW chain \in Chains(c, pc)
    PROVE  Layout(chain, c, pc) /\ \E T : chain \in Seq(T)
<1> DEFINE T == pc.apiKeys \cup pc.jwt \cup {SecretProvider(c), OIDCProvider(c), AnonymousProvider(c)}
           secret == One(c.secretKey # "", SecretProvider(c))
           oidc == One(c.oidc.issuer # "", OIDCProvider(c))
           anonymous == One(c.anonymous, AnonymousProvider(c))
<1>1. PICK k \in MapOrders(pc.apiKeys), j \in MapOrders(pc.jwt) : chain = ChainOf(c, k, j)
  BY DEF Chains
<1> DEFINE s1 == k \o j
           s2 == s1 \o secret
           s3 == s2 \o oidc
           s4 == s3 \o anonymous
<1>2. chain = s4
  BY <1>1 DEF ChainOf
<1>3. /\ IsFiniteSet(pc.apiKeys) /\ IsFiniteSet(pc.jwt) /\ pc.apiKeys \subseteq T /\ pc.jwt \subseteq T
      /\ SecretProvider(c) \in T /\ OIDCProvider(c) \in T /\ AnonymousProvider(c) \in T
  BY DEF GoodMaps, IsMapOf
<1>4. /\ (secret = <<SecretProvider(c)>> /\ Secrets(c) = 1) \/ (secret = <<>> /\ Secrets(c) = 0)
      /\ (oidc = <<OIDCProvider(c)>> /\ OIDCs(c) = 1) \/ (oidc = <<>> /\ OIDCs(c) = 0)
      /\ (anonymous = <<AnonymousProvider(c)>> /\ Anonymouses(c) = 1) \/ (anonymous = <<>> /\ Anonymouses(c) = 0)
  BY DEF One, Secrets, OIDCs, Anonymouses
<1> HIDE DEF T, secret, oidc, anonymous
<1>5. Lists(T, k, pc.apiKeys) /\ Lists(T, j, pc.jwt)
  BY <1>1, <1>3, OrderOfMap, Zenon
<1>6. ListsBoth(T, s1, pc.apiKeys, KeysEnd(pc), pc.jwt, JwtEnd(pc))
  <2>1. KeysEnd(pc) = Cardinality(pc.apiKeys) /\ JwtEnd(pc) = KeysEnd(pc) + Cardinality(pc.jwt)
    BY Zenon DEF KeysEnd, JwtEnd
  <2> QED
    BY <1>5, <2>1, TwoLists, Zenon
<1> HIDE DEF s1
<1>7. Followed(T, s1, s2, SecretProvider(c), Secrets(c))
  BY <1>3, <1>4, <1>6, ConcatOne, Zenon DEF ListsBoth
<1>8. s2 \in Seq(T) /\ Len(s2) = SecretEnd(c, pc)
  BY <1>6, <1>7 DEF Followed, SecretEnd, ListsBoth
<1>9. Followed(T, s2, s3, OIDCProvider(c), OIDCs(c))
  BY <1>3, <1>4, <1>8, ConcatOne, Zenon
<1> HIDE DEF s2
<1>10. s3 \in Seq(T) /\ Len(s3) = OIDCEnd(c, pc)
  BY <1>8, <1>9 DEF Followed, OIDCEnd
<1>11. Followed(T, s3, s4, AnonymousProvider(c), Anonymouses(c))
  BY <1>3, <1>4, <1>10, ConcatOne, Zenon
<1> HIDE DEF s3, s4
<1>12. s4 \in Seq(T) /\ Len(s4) = ChainEnd(c, pc)
  BY <1>10, <1>11 DEF Followed, ChainEnd
<1>13. /\ \A i \in 1 .. JwtEnd(pc) : s2[i] = s1[i]
       /\ \A i \in JwtEnd(pc) + 1 .. SecretEnd(c, pc) : s2[i] = SecretProvider(c)
  BY <1>6, <1>7 DEF Followed, SecretEnd, ListsBoth
<1>14. /\ \A i \in 1 .. SecretEnd(c, pc) : s3[i] = s2[i]
       /\ \A i \in SecretEnd(c, pc) + 1 .. OIDCEnd(c, pc) : s3[i] = OIDCProvider(c)
  BY <1>8, <1>9 DEF Followed, OIDCEnd
<1>15. /\ \A i \in 1 .. OIDCEnd(c, pc) : s4[i] = s3[i]
       /\ \A i \in OIDCEnd(c, pc) + 1 .. ChainEnd(c, pc) : s4[i] = AnonymousProvider(c)
  BY <1>10, <1>11 DEF Followed, ChainEnd
<1>16. EndsInOrder(c, pc)
  BY EndsType
<1>17. /\ \A i \in 1 .. JwtEnd(pc) : s4[i] = s1[i]
       /\ \A i \in JwtEnd(pc) + 1 .. SecretEnd(c, pc) : s4[i] = SecretProvider(c)
       /\ \A i \in SecretEnd(c, pc) + 1 .. OIDCEnd(c, pc) : s4[i] = OIDCProvider(c)
  BY <1>13, <1>14, <1>15, <1>16 DEF EndsInOrder
<1>18. /\ \A i \in 1 .. KeysEnd(pc) : s4[i] = s1[i]
       /\ \A i \in KeysEnd(pc) + 1 .. JwtEnd(pc) : s4[i] = s1[i]
  BY <1>16, <1>17 DEF EndsInOrder
<1>19. Layout(s4, c, pc)
  BY <1>6, <1>12, <1>15, <1>17, <1>18, Zenon DEF Layout, ListsBoth
<1> QED
  BY <1>2, <1>12, <1>19
-----------------------------------------------------------------------------
(* Outcomes *)

Kinds == {"skip", "invalid", "stop", "wait", "admit"}
Types == {"apikey", "jwt", "oidc", "anonymous"}

LEMMA OutcomeFields ==
    ASSUME NEW kind, NEW role
    PROVE  Outcome(kind, role).kind = kind /\ Outcome(kind, role).role = role
  BY DEF Outcome

LEMMA FixedOutcomes ==
    Skip.kind = "skip" /\ Invalid.kind = "invalid" /\ Stop.kind = "stop" /\ Wait.kind = "wait"
  BY DEF Skip, Invalid, Stop, Wait, Outcome

\* The token that an OIDC or JWT provider looks at has a time of expiry.
LEMMA TokenExp ==
    ASSUME NEW cred \in Credentials, NEW p, Carries(cred, p)
    PROVE  ExtractToken(cred, p).exp \in Nat
<1>1. ExtractToken(cred, p) \in {cred.bearer, cred.cookie} \ {NoToken, EmptyToken}
  BY DEF Carries, ExtractToken
<1> QED
  BY <1>1, CredentialsAssumption

\* What Authenticate has found out when it returns o.
Found(o, p, cred, known) ==
    \/ o = Skip /\ ~Carries(cred, p)
    \/ o = Invalid /\ Carries(cred, p) /\ ~Ours(cred, p)
    \/ o = Stop
    \/ o = Wait /\ Ours(cred, p) /\ now <= ExtractToken(cred, p).exp
    \/ /\ o = Outcome("admit", RoleOf(ExtractToken(cred, p), p.prefix)) /\ RoleOf(ExtractToken(cred, p), p.prefix) # <<>>
       /\ Ours(cred, p) /\ ExtractToken(cred, p).key \in known /\ now <= ExtractToken(cred, p).exp

LEMMA AdmitRoleFinds ==
    ASSUME NEW t, NEW prefix
    PROVE  \/ AdmitRole(t, prefix) = Stop
           \/ AdmitRole(t, prefix) = Outcome("admit", RoleOf(t, prefix)) /\ RoleOf(t, prefix) # <<>>
  BY DEF AdmitRole

LEMMA AuthenticateFinds ==
    ASSUME now \in Nat, NEW p, NEW cred \in Credentials, NEW known
    PROVE  Found(Authenticate(p, cred, known), p, cred, known)
<1> DEFINE t == ExtractToken(cred, p)
           o == Authenticate(p, cred, known)
<1>1. o = IF t \in {NoToken, EmptyToken} THEN Skip
          ELSE IF t.iss # p.issuer THEN Invalid
          ELSE IF now > t.exp THEN Stop
          ELSE IF t.key \in known THEN AdmitRole(t, p.prefix)
          ELSE Wait
  BY DEF Authenticate
<1>2. Carries(cred, p) <=> t \notin {NoToken, EmptyToken}
  BY DEF Carries
<1>3. Ours(cred, p) <=> Carries(cred, p) /\ t.iss = p.issuer
  BY DEF Ours
<1>4. Carries(cred, p) => t.exp \in Nat
  BY TokenExp
<1> HIDE DEF t, o
<1>5. CASE ~Carries(cred, p)
  <2>1. o = Skip
    BY <1>1, <1>2, <1>5
  <2> QED
    BY <1>5, <2>1 DEF Found, o
<1>6. CASE Carries(cred, p) /\ t.iss # p.issuer
  <2>1. o = Invalid /\ ~Ours(cred, p)
    BY <1>1, <1>2, <1>3, <1>6
  <2> QED
    BY <1>6, <2>1 DEF Found, o
<1>7. CASE Ours(cred, p) /\ now > t.exp
  <2>1. o = Stop
    BY <1>1, <1>2, <1>3, <1>7
  <2> QED
    BY <2>1 DEF Found, o
<1>8. CASE Ours(cred, p) /\ ~(now > t.exp)
  <2>1. now <= t.exp
    BY <1>3, <1>4, <1>8
  <2>2. o = IF t.key \in known THEN AdmitRole(t, p.prefix) ELSE Wait
    BY <1>1, <1>2, <1>3, <1>8
  <2>3. \/ o = Stop
        \/ o = Wait
        \/ o = Outcome("admit", RoleOf(t, p.prefix)) /\ RoleOf(t, p.prefix) # <<>> /\ t.key \in known
    BY <2>2, AdmitRoleFinds
  <2> QED
    BY <1>8, <2>1, <2>3, Zenon DEF Found, o, t
<1> QED
  BY <1>3, <1>5, <1>6, <1>7, <1>8

\* What an outcome of provider p tells of the credential.
Tells(o, p, cred, rejected) ==
    /\ o.kind \in Kinds
    /\ o.kind = "skip" => Passed(p, cred, rejected)
    /\ o.kind = "invalid" => Passed(p, cred, TRUE)
    /\ o.kind = "admit" => Entitled(p, cred, rejected, o.role)
    /\ o.kind = "admit" /\ p.type = "oidc" => now <= ExtractToken(cred, p).exp
    /\ o.kind = "wait" <=> o = Wait
    /\ o.kind = "wait" => p.type = "oidc" /\ Ours(cred, p) /\ now <= ExtractToken(cred, p).exp

LEMMA FoundTells ==
    ASSUME now \in Nat, NEW p, NEW cred, NEW rejected \in BOOLEAN, NEW known, NEW o, Found(o, p, cred, known),
           \/ p.type = "jwt" /\ o # Wait /\ known = {p.key}
           \/ p.type = "oidc" /\ known \subseteq IssuerKeys
    PROVE  Tells(o, p, cred, rejected)
<1> DEFINE role == RoleOf(ExtractToken(cred, p), p.prefix)
<1> USE FixedOutcomes
<1>1. CASE o = Skip /\ ~Carries(cred, p)
  <2>1. Passed(p, cred, rejected)
    BY <1>1 DEF Passed, Ours
  <2> QED
    BY <1>1, <2>1 DEF Tells, Kinds
<1>2. CASE o = Invalid /\ Carries(cred, p) /\ ~Ours(cred, p)
  <2>1. Passed(p, cred, TRUE)
    BY <1>2 DEF Passed
  <2> QED
    BY <1>2, <2>1 DEF Tells, Kinds
<1>3. CASE o = Stop
  BY <1>3 DEF Tells, Kinds
<1>4. CASE o = Wait /\ Ours(cred, p) /\ now <= ExtractToken(cred, p).exp
  BY <1>4 DEF Tells, Kinds
<1>5. CASE /\ o = Outcome("admit", role) /\ role # <<>>
           /\ Ours(cred, p) /\ ExtractToken(cred, p).key \in known /\ now <= ExtractToken(cred, p).exp
  <2>1. o.kind = "admit" /\ o.role = role
    BY <1>5, OutcomeFields
  <2>2. Entitled(p, cred, rejected, role)
    BY <1>5 DEF Entitled
  <2> QED
    BY <1>5, <2>1, <2>2 DEF Tells, Kinds
<1> QED
  BY <1>1, <1>2, <1>3, <1>4, <1>5 DEF Found

LEMMA OutcomesTell ==
    ASSUME now \in Nat, NEW p, p.type \in Types, NEW x, x.cred \in Credentials, x.rejected \in BOOLEAN,
           NEW known, known \subseteq IssuerKeys, NEW o \in Outcomes(p, x, known)
    PROVE  Tells(o, p, x.cred, x.rejected)
<1> USE FixedOutcomes
<1>1. CASE p.type = "apikey"
  <2>1. o \in ApiKeyOutcomes(p, x.cred)
    BY <1>1 DEF Outcomes
  <2>2. \/ o \in {Skip, Invalid, Stop} /\ ~Matches(x.cred, p)
        \/ o = Outcome("admit", p.role) /\ Matches(x.cred, p)
    BY <2>1 DEF ApiKeyOutcomes, Matches
  <2>3. CASE o \in {Skip, Invalid, Stop} /\ ~Matches(x.cred, p)
    BY <1>1, <2>3 DEF Tells, Kinds, Passed
  <2>4. CASE o = Outcome("admit", p.role) /\ Matches(x.cred, p)
    <3>1. o.kind = "admit" /\ o.role = p.role
      BY <2>4, OutcomeFields
    <3> QED
      BY <1>1, <2>4, <3>1 DEF Tells, Kinds, Entitled
  <2> QED
    BY <2>2, <2>3, <2>4
<1>2. CASE p.type = "jwt"
  <2>1. o = JwtOutcome(p, x.cred)
    BY <1>2 DEF Outcomes
  <2>2. Found(Authenticate(p, x.cred, {p.key}), p, x.cred, {p.key})
    BY AuthenticateFinds
  <2>3. o # Wait /\ (o = Stop \/ o = Authenticate(p, x.cred, {p.key}))
    BY <2>1 DEF JwtOutcome
  <2>4. Found(o, p, x.cred, {p.key})
    BY <2>2, <2>3 DEF Found
  <2> QED
    BY <1>2, <2>3, <2>4, FoundTells
<1>3. CASE p.type = "oidc"
  <2>1. o = Authenticate(p, x.cred, known) \/ o = Stop
    BY <1>3 DEF Outcomes, OIDCOutcomes
  <2>2. Found(o, p, x.cred, known)
    BY <2>1, AuthenticateFinds DEF Found
  <2> QED
    BY <1>3, <2>2, FoundTells
<1>4. CASE p.type = "anonymous"
  <2>1. o = AnonymousOutcome(p, x.rejected)
    BY <1>4 DEF Outcomes
  <2>2. CASE x.rejected
    BY <1>4, <2>1, <2>2 DEF Tells, Kinds, Passed, AnonymousOutcome
  <2>3. CASE ~x.rejected
    <3>1. o.kind = "admit" /\ o.role = p.role
      BY <2>1, <2>3, OutcomeFields DEF AnonymousOutcome
    <3> QED
      BY <1>4, <2>3, <3>1 DEF Tells, Kinds, Entitled
  <2> QED
    BY <2>2, <2>3
<1> QED
  BY <1>1, <1>2, <1>3, <1>4 DEF Types

-----------------------------------------------------------------------------
(* The inductive invariant *)

NodeSt == {"down", "configured", "up", "failed"}
ReqSt  == {"new", "pending", "waiting"} \cup Decided

Settled == Apply(env, LoadFile(file))

\* A node that has started has the settings and a chain of environment and file.
NodeInv(n) ==
    /\ node[n].st \in NodeSt
    /\ node[n].st = "down" => node[n].c = env
    /\ node[n].st \in {"configured", "up"} =>
         /\ Loads(file) /\ node[n].c = Settled
         /\ node[n].auth.providers \in Chains(Settled, LoadFile(file))
    /\ node[n].auth # NoAuth => node[n].auth.providers # <<>>
    /\ node[n].proxy # NoProxy =>
         /\ node[n].st = "up"
         /\ Settled.oidc.issuer # "" /\ node[n].proxy.issuer = Settled.oidc.issuer

\* The keys that a node has are ones of the identity provider, and its fetch has a
\* time limit that is not used up.
KeysInv(n) ==
    /\ cached[n] \subseteq IssuerKeys
    /\ fetch[n] # None => node[n].st = "up" /\ fetch[n] \in 0 .. Settled.oidc.timeout

\* Where a request is in the chain of its node, and what it has passed.
ReqInv(x) ==
    /\ x.st \in ReqSt
    /\ x.st # "new" =>
         /\ x.node \in Nodes /\ node[x.node].st = "up"
         /\ x.cred \in Credentials
         /\ x.at \in 1 .. Len(Providers(x.node))
         /\ x.rejected \in BOOLEAN
         /\ \A i \in 1 .. x.at - 1 : Passed(Providers(x.node)[i], x.cred, x.rejected)
    /\ x.st = "admitted" =>
         /\ x.via = Providers(x.node)[x.at].type
         /\ Entitled(Providers(x.node)[x.at], x.cred, x.rejected, x.role)

\* A request that waits has a token that was valid when the fetch began or later.
WaitInv(x) ==
    x.st = "waiting" =>
        LET p == Providers(x.node)[x.at]
        IN  /\ p.type = "oidc" /\ Ours(x.cred, p)
            /\ fetch[x.node] # None
            /\ Settled.oidc.timeout > 0 =>
                 now + fetch[x.node] <= ExtractToken(x.cred, p).exp + Settled.oidc.timeout

IInv ==
    /\ env \in Environments /\ file \in ConfigFiles
    /\ DOMAIN node = Nodes /\ DOMAIN cached = Nodes /\ DOMAIN fetch = Nodes /\ DOMAIN req = Requests
    /\ published \subseteq IssuerKeys
    /\ now \in 0 .. MaxTime /\ rotations \in 0 .. MaxRotations
    /\ \A n \in Nodes : NodeInv(n) /\ KeysInv(n)
    /\ \A r \in Requests : ReqInv(req[r]) /\ WaitInv(req[r])
-----------------------------------------------------------------------------
(* Requests go on *)

LEMMA RequestFields ==
    ASSUME NEW st, NEW n, NEW cred, NEW at, NEW rejected, NEW role, NEW via, NEW y,
           y = Request(st, n, cred, at, rejected, role, via)
    PROVE  /\ y.st = st /\ y.node = n /\ y.cred = cred /\ y.at = at
           /\ y.rejected = rejected /\ y.role = role /\ y.via = via
  BY DEF Request

\* What outcome o of the current provider means for request x, which becomes y.
GoesOn(x, o, y) ==
    /\ y.node = x.node /\ y.cred = x.cred
    /\ o.kind = "admit" =>
         /\ y.st = "admitted" /\ y.at = x.at /\ y.rejected = x.rejected /\ y.role = o.role
         /\ y.via = Providers(x.node)[x.at].type
    /\ o.kind = "stop" => y.st = "denied" /\ y.at = x.at /\ y.rejected = x.rejected
    /\ o.kind = "skip" => y.rejected = x.rejected
    /\ o.kind = "invalid" => y.rejected = TRUE
    /\ o.kind \in {"skip", "invalid"} =>
         \/ y.st = "pending" /\ x.at < Len(Providers(x.node)) /\ y.at = x.at + 1
         \/ y.st = "denied" /\ y.at = x.at
    /\ o.kind = "wait" => y.st = "waiting" /\ y.at = x.at /\ y.rejected = x.rejected

LEMMA ProceedGoesOn ==
    ASSUME NEW x, NEW o, o.kind \in Kinds
    PROVE  GoesOn(x, o, Proceed(x, o))
<1> DEFINE y == Proceed(x, o)
           more == x.at < Len(Providers(x.node))
           st == IF more THEN "pending" ELSE "denied"
           at == IF more THEN x.at + 1 ELSE x.at
<1>1. CASE o.kind = "admit"
  <2>1. y = Request("admitted", x.node, x.cred, x.at, x.rejected, o.role, Providers(x.node)[x.at].type)
    BY <1>1 DEF Proceed
  <2> QED
    BY <1>1, <2>1, RequestFields DEF GoesOn
<1>2. CASE o.kind = "stop"
  <2>1. y = Request("denied", x.node, x.cred, x.at, x.rejected, x.role, x.via)
    BY <1>2 DEF Proceed
  <2> QED
    BY <1>2, <2>1, RequestFields DEF GoesOn
<1>3. CASE o.kind = "wait"
  <2>1. y = Request("waiting", x.node, x.cred, x.at, x.rejected, x.role, x.via)
    BY <1>3 DEF Proceed
  <2> QED
    BY <1>3, <2>1, RequestFields DEF GoesOn
<1>4. CASE o.kind = "skip"
  <2>1. y = Request(st, x.node, x.cred, at, x.rejected, x.role, x.via)
    BY <1>4 DEF Proceed
  <2> QED
    BY <1>4, <2>1, RequestFields DEF GoesOn
<1>5. CASE o.kind = "invalid"
  <2>1. y = Request(st, x.node, x.cred, at, TRUE, x.role, x.via)
    BY <1>5 DEF Proceed
  <2>2. y.rejected = TRUE /\ y.node = x.node /\ y.cred = x.cred /\ y.st = st /\ y.at = at
    BY <2>1 DEF Request
  <2> QED
    BY <1>5, <2>2 DEF GoesOn
<1> QED
  BY <1>1, <1>2, <1>3, <1>4, <1>5 DEF Kinds

\* The part of Tells that the place of a request in its chain depends on.
Allows(o, p, cred, rejected) ==
    /\ o.kind \in Kinds
    /\ o.kind = "skip" => Passed(p, cred, rejected)
    /\ o.kind = "invalid" => Passed(p, cred, TRUE)
    /\ o.kind = "admit" => Entitled(p, cred, rejected, o.role)

LEMMA GoesOnReqInv ==
    ASSUME NEW x, ReqInv(x), x.st # "new", Len(Providers(x.node)) \in Nat,
           NEW o, Allows(o, Providers(x.node)[x.at], x.cred, x.rejected),
           NEW y, GoesOn(x, o, y)
    PROVE  ReqInv(y) /\ y.st # "new"
<1> DEFINE chain == Providers(x.node)
<1>1. /\ x.node \in Nodes /\ node[x.node].st = "up" /\ x.cred \in Credentials
      /\ x.at \in 1 .. Len(chain) /\ x.rejected \in BOOLEAN
      /\ \A i \in 1 .. x.at - 1 : Passed(chain[i], x.cred, x.rejected)
  BY DEF ReqInv
<1>2. y.node = x.node /\ y.cred = x.cred
  BY DEF GoesOn
<1>3. Providers(y.node) = chain
  BY <1>2
<1> HIDE DEF chain
<1>4. CASE o.kind \in {"admit", "stop", "wait"}
  <2>1. y.st \in {"admitted", "denied", "waiting"} /\ y.at = x.at /\ y.rejected = x.rejected
    BY <1>4 DEF GoesOn
  <2>2. y.st = "admitted" => /\ y.via = chain[y.at].type
                             /\ Entitled(chain[y.at], y.cred, y.rejected, y.role)
    BY <1>2, <1>4 DEF GoesOn, Allows, chain
  <2>3. \A i \in 1 .. y.at - 1 : Passed(chain[i], y.cred, y.rejected)
    BY <1>1, <1>2, <2>1
  <2>4. y.st \in ReqSt /\ y.st # "new"
    BY <2>1 DEF ReqSt, Decided
  <2> QED
    BY <1>1, <1>2, <1>3, <2>1, <2>2, <2>3, <2>4 DEF ReqInv
<1>5. CASE o.kind \in {"skip", "invalid"}
  <2>1. y.rejected \in BOOLEAN /\ (x.rejected => y.rejected)
    BY <1>1, <1>5 DEF GoesOn
  <2>2. Passed(chain[x.at], y.cred, y.rejected)
    BY <1>2, <1>5 DEF GoesOn, Allows, chain
  <2>3. \A i \in 1 .. x.at - 1 : Passed(chain[i], y.cred, y.rejected)
    BY <1>1, <1>2, <2>1 DEF Passed
  <2>4. \/ y.st = "pending" /\ x.at < Len(chain) /\ y.at = x.at + 1
        \/ y.st = "denied" /\ y.at = x.at
    BY <1>5 DEF GoesOn, chain
  <2>5. y.at \in 1 .. Len(chain)
    BY <1>1, <2>4 DEF chain
  <2>6. \A i \in 1 .. y.at - 1 : Passed(chain[i], y.cred, y.rejected)
    <3>1. \A i \in 1 .. y.at - 1 : i \in 1 .. x.at - 1 \/ i = x.at
      BY <1>1, <2>4 DEF chain
    <3> QED
      BY <2>2, <2>3, <3>1
  <2>7. y.st \in ReqSt /\ y.st # "new" /\ y.st # "admitted"
    BY <2>4 DEF ReqSt, Decided
  <2> QED
    BY <1>1, <1>2, <1>3, <2>1, <2>5, <2>6, <2>7 DEF ReqInv
<1> QED
  BY <1>4, <1>5 DEF Allows, Kinds

\* After a fetch a token is accepted or the request ends.
LEMMA AfterFetchAllows ==
    ASSUME NEW p, p.type = "oidc", NEW cred, Ours(cred, p), NEW rejected,
           NEW known, known \subseteq IssuerKeys
    PROVE  /\ Allows(AfterFetch(p, cred, known), p, cred, rejected)
           /\ AfterFetch(p, cred, known).kind \in {"stop", "admit"}
<1> DEFINE t == ExtractToken(cred, p)
           o == AfterFetch(p, cred, known)
<1>1. \/ o = Stop
      \/ o = Outcome("admit", RoleOf(t, p.prefix)) /\ RoleOf(t, p.prefix) # <<>> /\ t.key \in known
  BY AdmitRoleFinds DEF AfterFetch
<1>2. CASE o = Stop
  BY <1>2, FixedOutcomes DEF Allows, Kinds
<1>3. CASE o = Outcome("admit", RoleOf(t, p.prefix)) /\ RoleOf(t, p.prefix) # <<>> /\ t.key \in known
  <2>1. o.kind = "admit" /\ o.role = RoleOf(t, p.prefix)
    BY <1>3, OutcomeFields
  <2>2. Entitled(p, cred, rejected, o.role)
    BY <1>3, <2>1 DEF Entitled
  <2> QED
    BY <2>1, <2>2 DEF Allows, Kinds
<1> QED
  BY <1>1, <1>2, <1>3
-----------------------------------------------------------------------------
(* Nodes that are up *)

LEMMA SettledType ==
    ASSUME env \in Environments, file \in ConfigFiles, Loads(file)
    PROVE  IsOIDC(Settled.oidc) /\ GoodMaps(LoadFile(file))
<1>1. IsOIDC(env.oidc) /\ IsOIDC(LoadFile(file).oidc) /\ GoodMaps(LoadFile(file))
  BY ConfigAssumption DEF GoodMaps
<1>2. Settled.oidc \in {env.oidc, LoadFile(file).oidc}
  BY DEF Settled, Apply
<1> QED
  BY <1>1, <1>2

\* The kind of a provider tells where in the chain it is.
Placed(chain, i, c, pc) ==
    \/ i \in 1 .. KeysEnd(pc) /\ chain[i] \in pc.apiKeys /\ chain[i].type = "apikey"
    \/ i \in KeysEnd(pc) + 1 .. JwtEnd(pc) /\ chain[i] \in pc.jwt /\ chain[i].type = "jwt"
    \/ i \in JwtEnd(pc) + 1 .. SecretEnd(c, pc) /\ chain[i] = SecretProvider(c) /\ chain[i].type = "apikey"
    \/ i \in SecretEnd(c, pc) + 1 .. OIDCEnd(c, pc) /\ chain[i] = OIDCProvider(c) /\ chain[i].type = "oidc"
    \/ i \in OIDCEnd(c, pc) + 1 .. ChainEnd(c, pc) /\ chain[i] = AnonymousProvider(c) /\ chain[i].type = "anonymous"

LEMMA ProviderPlaced ==
    ASSUME NEW chain, NEW c, NEW pc, GoodMaps(pc), Layout(chain, c, pc), NEW i \in 1 .. Len(chain)
    PROVE  Placed(chain, i, c, pc) /\ chain[i].type \in Types
<1>1. EndsInOrder(c, pc)
  BY EndsType
<1>2. \/ i \in 1 .. KeysEnd(pc)
      \/ i \in KeysEnd(pc) + 1 .. JwtEnd(pc)
      \/ i \in JwtEnd(pc) + 1 .. SecretEnd(c, pc)
      \/ i \in SecretEnd(c, pc) + 1 .. OIDCEnd(c, pc)
      \/ i \in OIDCEnd(c, pc) + 1 .. ChainEnd(c, pc)
  <2>1. Len(chain) = ChainEnd(c, pc)
    BY DEF Layout
  <2> QED
    BY <1>1, <2>1 DEF EndsInOrder
<1>3. /\ SecretProvider(c).type = "apikey" /\ OIDCProvider(c).type = "oidc"
      /\ AnonymousProvider(c).type = "anonymous"
  BY DEF SecretProvider, OIDCProvider, AnonymousProvider
<1>4. (\A p \in pc.apiKeys : p.type = "apikey") /\ (\A p \in pc.jwt : p.type = "jwt")
  BY DEF GoodMaps, IsMapOf
<1>5. Placed(chain, i, c, pc)
  BY <1>2, <1>3, <1>4, Zenon DEF Layout, Placed
<1> QED
  BY <1>5 DEF Placed, Types

LEMMA UpChain ==
    ASSUME env \in Environments, file \in ConfigFiles, NEW n \in Nodes, NodeInv(n), node[n].st = "up"
    PROVE  /\ Layout(Providers(n), Settled, LoadFile(file)) /\ GoodMaps(LoadFile(file))
           /\ Len(Providers(n)) \in Nat /\ (Providers(n) # <<>> => 1 \in 1 .. Len(Providers(n)))
           /\ \A i \in 1 .. Len(Providers(n)) :
                Placed(Providers(n), i, Settled, LoadFile(file)) /\ Providers(n)[i].type \in Types
           /\ node[n].c = Settled /\ Settled.oidc.timeout \in Nat /\ IsOIDC(Settled.oidc)
<1>1. /\ Loads(file) /\ node[n].c = Settled
      /\ Providers(n) \in Chains(Settled, LoadFile(file))
  BY DEF NodeInv, Providers
<1>2. IsOIDC(Settled.oidc) /\ GoodMaps(LoadFile(file))
  BY <1>1, SettledType
<1>3. Layout(Providers(n), Settled, LoadFile(file)) /\ \E T : Providers(n) \in Seq(T)
  BY <1>1, <1>2, ChainLayout, Zenon
<1>4. Len(Providers(n)) \in Nat /\ (Providers(n) # <<>> => 1 \in 1 .. Len(Providers(n)))
  BY <1>3
<1>5. \A i \in 1 .. Len(Providers(n)) :
        Placed(Providers(n), i, Settled, LoadFile(file)) /\ Providers(n)[i].type \in Types
  BY <1>2, <1>3, ProviderPlaced, Zenon
<1>6. Settled.oidc.timeout \in Nat
  BY <1>2 DEF IsOIDC
<1> QED
  BY <1>1, <1>2, <1>3, <1>4, <1>5, <1>6
-----------------------------------------------------------------------------
(* The invariant is inductive *)

LEMMA InitIInv == Init => IInv
<1> SUFFICES ASSUME Init PROVE IInv
  OBVIOUS
<1> USE DEF Init
<1>1. ASSUME NEW n \in Nodes PROVE NodeInv(n) /\ KeysInv(n)
  <2>1. node[n] = NewNode(env) /\ cached[n] = {} /\ fetch[n] = None
    BY <1>1
  <2>2. /\ node[n].st = "down" /\ node[n].c = env
        /\ node[n].auth = NoAuth /\ node[n].proxy = NoProxy
    BY <2>1 DEF NewNode, Node
  <2> QED
    BY <2>1, <2>2 DEF NodeInv, KeysInv, NodeSt
<1>2. ASSUME NEW r \in Requests PROVE ReqInv(req[r]) /\ WaitInv(req[r])
  <2>1. req[r].st = "new"
    BY <1>2 DEF NewRequest, Request
  <2> QED
    BY <2>1 DEF ReqInv, WaitInv, ReqSt
<1> QED
  BY <1>1, <1>2, AuthAssumption DEF IInv

\* What does not change, request by request.
LEMMA NodesSame ==
    ASSUME IInv, UNCHANGED nodeVars
    PROVE  \A n \in Nodes : NodeInv(n)'
  BY DEF IInv, nodeVars, NodeInv, Settled

LEMMA ReqSame ==
    ASSUME UNCHANGED nodeVars, NEW s, ReqInv(req'[s])
    PROVE  ReqInv(req[s])'
  BY DEF nodeVars, ReqInv, Providers

LEMMA WaitSame ==
    ASSUME IInv, UNCHANGED <<nodeVars, now>>, NEW s \in Requests, req'[s] = req[s],
           fetch'[req[s].node] = fetch[req[s].node]
    PROVE  WaitInv(req[s])'
<1>1. WaitInv(req[s])
  BY DEF IInv
<1> QED
  BY <1>1 DEF nodeVars, WaitInv, Providers, Settled

LEMMA NotWaiting ==
    ASSUME NEW s, req'[s].st # "waiting"
    PROVE  WaitInv(req[s])'
  BY DEF WaitInv

\* A node that is not up goes on starting.
LEMMA NodeStep ==
    ASSUME IInv, NEW n \in Nodes, node[n].st # "up",
           DOMAIN node' = Nodes, \A m \in Nodes \ {n} : node'[m] = node[m], NodeInv(n)',
           UNCHANGED <<env, file, cached, fetch, req, published, now, rotations>>
    PROVE  IInv'
<1>1. \A m \in Nodes : NodeInv(m) /\ KeysInv(m)
  BY DEF IInv
<1>2. ASSUME NEW m \in Nodes PROVE NodeInv(m)'
  <2>1. CASE m = n
    BY <2>1
  <2>2. CASE m # n
    <3>1. NodeInv(m) /\ node'[m] = node[m]
      BY <1>1, <2>2
    <3> QED
      BY <3>1 DEF NodeInv, Settled
  <2> QED
    BY <2>1, <2>2
<1>3. ASSUME NEW m \in Nodes PROVE KeysInv(m)'
  <2>1. fetch[m] # None => node'[m] = node[m]
    BY <1>1 DEF KeysInv
  <2> QED
    BY <1>1, <2>1 DEF KeysInv, Settled
<1>4. ASSUME NEW r \in Requests PROVE ReqInv(req[r])' /\ WaitInv(req[r])'
  <2>1. ReqInv(req[r]) /\ WaitInv(req[r])
    BY DEF IInv
  <2>2. req[r].st # "new" => req[r].node \in Nodes /\ node'[req[r].node] = node[req[r].node]
    BY <2>1 DEF ReqInv
  <2>3. ReqInv(req[r])'
    BY <2>1, <2>2 DEF ReqInv, Providers
  <2>4. WaitInv(req[r])'
    BY <2>1, <2>2 DEF WaitInv, Providers, Settled
  <2> QED
    BY <2>3, <2>4
<1> QED
  BY <1>2, <1>3, <1>4 DEF IInv

LEMMA NodeFields ==
    ASSUME NEW st, NEW c, NEW auth, NEW proxy, NEW d, d = Node(st, c, auth, proxy)
    PROVE  d.st = st /\ d.c = c /\ d.auth = auth /\ d.proxy = proxy
  BY DEF Node

LEMMA AuthWithFields ==
    ASSUME NEW chain, NEW c
    PROVE  /\ AuthWith(chain, c).providers = chain
           /\ AuthWith(chain, c) # NoAuth => chain # <<>>
  BY DEF AuthWith, NoAuth

LEMMA ConfigureStep ==
    ASSUME IInv, NEW n \in Nodes, Configure(n)
    PROVE  IInv'
<1> DEFINE pc == LoadFile(file)
           c  == Apply(node[n].c, pc)
<1>1. node[n].st = "down" /\ node[n].c = env
  BY DEF Configure, IInv, NodeInv
<1>2. c = Settled
  BY <1>1 DEF Settled
<1> HIDE DEF c
<1>3. UNCHANGED <<env, file, cached, fetch, req, published, now, rotations>>
  BY DEF Configure
<1>4. \/ Loads(file) /\ \E chain \in Chains(c, pc) : Becomes(n, "configured", c, AuthWith(chain, c), NoProxy)
      \/ Becomes(n, "failed", node[n].c, NoAuth, NoProxy)
  BY DEF Configure, c
<1>5. DOMAIN node = Nodes
  BY DEF IInv
<1>6. ASSUME NEW chain \in Chains(c, pc), Loads(file), Becomes(n, "configured", c, AuthWith(chain, c), NoProxy)
      PROVE  IInv'
  <2>1. /\ DOMAIN node' = Nodes /\ \A m \in Nodes \ {n} : node'[m] = node[m]
        /\ node'[n] = Node("configured", c, AuthWith(chain, c), NoProxy)
    BY <1>5, <1>6 DEF Becomes
  <2>2. /\ node'[n].st = "configured" /\ node'[n].c = c /\ node'[n].auth = AuthWith(chain, c)
        /\ node'[n].proxy = NoProxy
    BY <2>1, NodeFields
  <2>3. node'[n].auth.providers = chain /\ (node'[n].auth # NoAuth => chain # <<>>)
    BY <2>2, AuthWithFields
  <2>4. chain \in Chains(Settled, LoadFile(file))
    BY <1>2, <1>6
  <2>5. Settled' = Settled
    BY <1>3 DEF Settled
  <2>6. NodeInv(n)'
    BY <1>2, <1>3, <1>6, <2>2, <2>3, <2>4, <2>5 DEF NodeInv, NodeSt
  <2> QED
    BY <1>1, <1>3, <2>1, <2>6, NodeStep
<1>7. CASE Becomes(n, "failed", node[n].c, NoAuth, NoProxy)
  <2>1. /\ DOMAIN node' = Nodes /\ \A m \in Nodes \ {n} : node'[m] = node[m]
        /\ node'[n] = Node("failed", node[n].c, NoAuth, NoProxy)
    BY <1>5, <1>7 DEF Becomes
  <2>2. node'[n].st = "failed" /\ node'[n].auth = NoAuth /\ node'[n].proxy = NoProxy
    BY <2>1, NodeFields
  <2>3. NodeInv(n)'
    BY <2>2 DEF NodeInv, NodeSt
  <2> QED
    BY <1>1, <1>3, <2>1, <2>3, NodeStep
<1> QED
  BY <1>4, <1>6, <1>7

LEMMA MountStep ==
    ASSUME IInv, NEW n \in Nodes, Mount(n)
    PROVE  IInv'
<1> DEFINE c == node[n].c
           wants == c.oidc.issuer # "" /\ c.mcp /\ ProxySecret(c) # ""
           proxy == IF wants THEN [issuer |-> c.oidc.issuer, secret |-> ProxySecret(c)] ELSE NoProxy
<1>1. /\ node[n].st = "configured" /\ c = Settled /\ Loads(file)
      /\ node[n].auth.providers \in Chains(Settled, LoadFile(file))
      /\ node[n].auth # NoAuth => node[n].auth.providers # <<>>
  BY DEF Mount, IInv, NodeInv
<1>2. UNCHANGED <<env, file, cached, fetch, req, published, now, rotations>>
  BY DEF Mount
<1>3. Becomes(n, "up", c, node[n].auth, proxy) \/ Becomes(n, "failed", c, node[n].auth, NoProxy)
  BY DEF Mount
<1>4. DOMAIN node = Nodes
  BY DEF IInv
<1>5. proxy # NoProxy => c.oidc.issuer # "" /\ proxy.issuer = c.oidc.issuer
  OBVIOUS
<1>6. Settled' = Settled
  BY <1>2 DEF Settled
<1> HIDE DEF c, proxy
<1>7. CASE Becomes(n, "up", c, node[n].auth, proxy)
  <2>1. /\ DOMAIN node' = Nodes /\ \A m \in Nodes \ {n} : node'[m] = node[m]
        /\ node'[n] = Node("up", c, node[n].auth, proxy)
    BY <1>4, <1>7 DEF Becomes
  <2>2. node'[n].st = "up" /\ node'[n].c = c /\ node'[n].auth = node[n].auth /\ node'[n].proxy = proxy
    BY <2>1, NodeFields
  <2>3. NodeInv(n)'
    BY <1>1, <1>2, <1>5, <1>6, <2>2 DEF NodeInv, NodeSt
  <2> QED
    BY <1>1, <1>2, <2>1, <2>3, NodeStep
<1>8. CASE Becomes(n, "failed", c, node[n].auth, NoProxy)
  <2>1. /\ DOMAIN node' = Nodes /\ \A m \in Nodes \ {n} : node'[m] = node[m]
        /\ node'[n] = Node("failed", c, node[n].auth, NoProxy)
    BY <1>4, <1>8 DEF Becomes
  <2>2. node'[n].st = "failed" /\ node'[n].auth = node[n].auth /\ node'[n].proxy = NoProxy
    BY <2>1, NodeFields
  <2>3. NodeInv(n)'
    BY <1>1, <2>2 DEF NodeInv, NodeSt
  <2> QED
    BY <1>1, <1>2, <2>1, <2>3, NodeStep
<1> QED
  BY <1>3, <1>7, <1>8

\* Requests go on, and perhaps a fetch begins or ends.
LEMMA RequestStep ==
    ASSUME IInv, UNCHANGED <<nodeVars, now, rotations>>, DOMAIN req' = Requests,
           published' \subseteq IssuerKeys, DOMAIN cached' = Nodes, DOMAIN fetch' = Nodes,
           \A n \in Nodes : KeysInv(n)',
           \A r \in Requests : ReqInv(req'[r]) /\ WaitInv(req[r])'
    PROVE  IInv'
<1>1. \A n \in Nodes : NodeInv(n)'
  BY NodesSame
<1>2. \A r \in Requests : ReqInv(req[r])'
  BY ReqSame
<1> QED
  BY <1>1, <1>2 DEF IInv, nodeVars

LEMMA KeysSame ==
    ASSUME IInv, UNCHANGED <<nodeVars, cached>>, NEW n \in Nodes, fetch'[n] = fetch[n]
    PROVE  KeysInv(n)'
<1>1. KeysInv(n)
  BY DEF IInv
<1> QED
  BY <1>1 DEF KeysInv, nodeVars, Settled

LEMMA ArriveStep ==
    ASSUME IInv, NEW r \in Requests, Arrive(r)
    PROVE  IInv'
<1>1. PICK n \in Nodes, cred \in Credentials :
        /\ node[n].st = "up" /\ node[n].auth # NoAuth
        /\ req' = [req EXCEPT ![r] = Request("pending", n, cred, 1, FALSE, <<>>, None)]
  BY DEF Arrive
<1>2. UNCHANGED <<nodeVars, cached, fetch, published, now, rotations>>
  BY DEF Arrive
<1>3. /\ DOMAIN req' = Requests /\ \A s \in Requests \ {r} : req'[s] = req[s]
      /\ req'[r] = Request("pending", n, cred, 1, FALSE, <<>>, None)
  BY <1>1 DEF IInv
<1>4. /\ req'[r].st = "pending" /\ req'[r].node = n /\ req'[r].cred = cred /\ req'[r].at = 1
      /\ req'[r].rejected = FALSE
  BY <1>3 DEF Request
<1>5. 1 \in 1 .. Len(Providers(n))
  <2>1. NodeInv(n) /\ env \in Environments /\ file \in ConfigFiles
    BY DEF IInv
  <2>2. Providers(n) # <<>>
    BY <1>1, <2>1 DEF NodeInv, Providers
  <2> QED
    BY <1>1, <2>1, <2>2, UpChain
<1>6. ReqInv(req'[r])
  <2>1. \A i \in 1 .. 1 - 1 : FALSE
    OBVIOUS
  <2> QED
    BY <1>1, <1>4, <1>5, <2>1 DEF ReqInv, ReqSt
<1>7. \A s \in Requests : ReqInv(req'[s]) /\ WaitInv(req[s])'
  <2>1. WaitInv(req[r])'
    BY <1>4, NotWaiting
  <2>2. ASSUME NEW s \in Requests, s # r PROVE ReqInv(req'[s]) /\ WaitInv(req[s])'
    <3>1. req'[s] = req[s] /\ ReqInv(req[s])
      BY <1>3, <2>2 DEF IInv
    <3> QED
      BY <1>2, <3>1, WaitSame
  <2> QED
    BY <1>6, <2>1, <2>2
<1>8. \A m \in Nodes : KeysInv(m)'
  BY <1>2, KeysSame
<1>9. published' \subseteq IssuerKeys /\ DOMAIN cached' = Nodes /\ DOMAIN fetch' = Nodes
  BY <1>2 DEF IInv
<1> QED
  BY <1>2, <1>3, <1>7, <1>8, <1>9, RequestStep

LEMMA CancelStep ==
    ASSUME IInv, NEW r \in Requests, Cancel(r)
    PROVE  IInv'
<1> DEFINE x == req[r]
<1>1. /\ x.st = "waiting"
      /\ req' = [req EXCEPT ![r] = Request("gone", x.node, x.cred, x.at, x.rejected, x.role, x.via)]
      /\ UNCHANGED <<nodeVars, cached, fetch, published, now, rotations>>
  BY DEF Cancel
<1>2. /\ DOMAIN req' = Requests /\ \A s \in Requests \ {r} : req'[s] = req[s]
      /\ req'[r] = Request("gone", x.node, x.cred, x.at, x.rejected, x.role, x.via)
  BY <1>1 DEF IInv
<1>3. /\ req'[r].st = "gone" /\ req'[r].node = x.node /\ req'[r].cred = x.cred /\ req'[r].at = x.at
      /\ req'[r].rejected = x.rejected
  BY <1>2, RequestFields
<1>4. ReqInv(req'[r])
  <2>1. ReqInv(x)
    BY DEF IInv
  <2> QED
    BY <1>1, <1>3, <2>1 DEF ReqInv, ReqSt, Decided
<1>5. \A s \in Requests : ReqInv(req'[s]) /\ WaitInv(req[s])'
  <2>1. WaitInv(req[r])'
    BY <1>3, NotWaiting
  <2>2. ASSUME NEW s \in Requests, s # r PROVE ReqInv(req'[s]) /\ WaitInv(req[s])'
    <3>1. req'[s] = req[s] /\ ReqInv(req[s])
      BY <1>2, <2>2 DEF IInv
    <3> QED
      BY <1>1, <3>1, WaitSame
  <2> QED
    BY <1>4, <2>1, <2>2
<1>6. \A m \in Nodes : KeysInv(m)'
  BY <1>1, KeysSame
<1>7. published' \subseteq IssuerKeys /\ DOMAIN cached' = Nodes /\ DOMAIN fetch' = Nodes
  BY <1>1 DEF IInv
<1> QED
  BY <1>1, <1>2, <1>5, <1>6, <1>7, RequestStep

\* What a step of the current provider tells of a request that is not new.
LEMMA TryTells ==
    ASSUME IInv, NEW r \in Requests, req[r].st # "new",
           NEW o \in Outcomes(Providers(req[r].node)[req[r].at], req[r], cached[req[r].node])
    PROVE  /\ req[r].node \in Nodes /\ node[req[r].node].st = "up"
           /\ Tells(o, Providers(req[r].node)[req[r].at], req[r].cred, req[r].rejected)
           /\ Len(Providers(req[r].node)) \in Nat /\ node[req[r].node].c = Settled
           /\ Settled.oidc.timeout \in Nat /\ req[r].cred \in Credentials
<1> DEFINE x == req[r]
           n == x.node
           p == Providers(n)[x.at]
<1>1. /\ n \in Nodes /\ node[n].st = "up" /\ x.at \in 1 .. Len(Providers(n))
      /\ x.cred \in Credentials /\ x.rejected \in BOOLEAN
  BY DEF IInv, ReqInv
<1>2. /\ NodeInv(n) /\ KeysInv(n) /\ env \in Environments /\ file \in ConfigFiles
      /\ now \in Nat
  BY <1>1, AuthAssumption DEF IInv
<1>3. /\ p.type \in Types /\ Len(Providers(n)) \in Nat
      /\ node[n].c = Settled /\ Settled.oidc.timeout \in Nat
  BY <1>1, <1>2, UpChain
<1>4. cached[n] \subseteq IssuerKeys
  BY <1>2 DEF KeysInv
<1>5. Tells(o, p, x.cred, x.rejected)
  BY <1>1, <1>2, <1>3, <1>4, OutcomesTell
<1> QED
  BY <1>1, <1>3, <1>5

LEMMA TryStep ==
    ASSUME IInv, NEW r \in Requests, Try(r)
    PROVE  IInv'
<1> DEFINE x == req[r]
           n == x.node
           p == Providers(n)[x.at]
<1>1. PICK o \in Outcomes(p, x, cached[n]) :
        /\ req' = [req EXCEPT ![r] = Proceed(x, o)]
        /\ fetch' = IF o = Wait /\ fetch[n] = None
                    THEN [fetch EXCEPT ![n] = node[n].c.oidc.timeout]
                    ELSE fetch
  BY DEF Try
<1>2. x.st = "pending" /\ UNCHANGED <<nodeVars, cached, published, now, rotations>>
  BY DEF Try
<1>3. /\ n \in Nodes /\ node[n].st = "up" /\ Tells(o, p, x.cred, x.rejected)
      /\ Len(Providers(n)) \in Nat /\ node[n].c = Settled
      /\ Settled.oidc.timeout \in Nat /\ x.cred \in Credentials
  BY <1>2, TryTells
<1>4. /\ DOMAIN req' = Requests /\ \A s \in Requests \ {r} : req'[s] = req[s]
      /\ req'[r] = Proceed(x, o)
  BY <1>1 DEF IInv
<1>5. GoesOn(x, o, req'[r])
  BY <1>3, <1>4, ProceedGoesOn DEF Tells
<1>6. ReqInv(req'[r])
  <2>1. ReqInv(x)
    BY DEF IInv
  <2>2. Allows(o, p, x.cred, x.rejected)
    BY <1>3 DEF Tells, Allows
  <2> QED
    BY <1>2, <1>3, <1>5, <2>1, <2>2, GoesOnReqInv
<1>7. /\ DOMAIN fetch' = Nodes /\ \A m \in Nodes : m # n \/ fetch[n] # None => fetch'[m] = fetch[m]
      /\ fetch'[n] = fetch[n] \/ (fetch[n] = None /\ fetch'[n] = Settled.oidc.timeout)
      /\ o = Wait /\ fetch[n] = None => fetch'[n] = Settled.oidc.timeout
  BY <1>1, <1>3 DEF IInv
<1>8. ASSUME NEW m \in Nodes PROVE KeysInv(m)'
  <2>1. CASE fetch'[m] = fetch[m]
    BY <1>2, <2>1, KeysSame
  <2>2. CASE m = n /\ fetch'[n] = Settled.oidc.timeout
    <3>1. KeysInv(n)
      BY <1>3 DEF IInv
    <3>2. Settled' = Settled
      BY <1>2 DEF Settled, nodeVars
    <3> QED
      BY <1>2, <1>3, <2>2, <3>1, <3>2 DEF KeysInv, nodeVars
  <2> QED
    BY <1>7, <2>1, <2>2
<1>9. WaitInv(req[r])'
  <2>1. CASE o.kind # "wait"
    <3>1. req'[r].st # "waiting"
      BY <1>3, <1>5, <2>1 DEF Tells, Kinds, GoesOn
    <3> QED
      BY <3>1, NotWaiting
  <2>2. CASE o.kind = "wait"
    <3>1. o = Wait /\ p.type = "oidc" /\ Ours(x.cred, p) /\ now <= ExtractToken(x.cred, p).exp
      BY <1>3, <2>2 DEF Tells
    <3>2. req'[r].node = n /\ req'[r].cred = x.cred /\ req'[r].at = x.at
      BY <1>5, <2>2 DEF GoesOn
    <3>3. fetch'[n] # None /\ fetch'[n] \in 0 .. Settled.oidc.timeout
      <4>1. KeysInv(n)
        BY <1>3 DEF IInv
      <4> QED
        BY <1>3, <1>7, <3>1, <4>1, AuthAssumption DEF KeysInv
    <3>4. ExtractToken(x.cred, p).exp \in Nat /\ now \in Nat
      BY <1>3, <3>1, TokenExp, AuthAssumption DEF Ours, IInv
    <3>5. now + fetch'[n] <= ExtractToken(x.cred, p).exp + Settled.oidc.timeout
      BY <1>3, <3>1, <3>3, <3>4
    <3>6. Settled' = Settled /\ Providers(n)' = Providers(n)
      BY <1>2, <3>2 DEF Settled, nodeVars, Providers
    <3> QED
      BY <1>2, <3>1, <3>2, <3>3, <3>5, <3>6 DEF WaitInv, Providers
  <2> QED
    BY <2>1, <2>2
<1>10. ASSUME NEW s \in Requests, s # r PROVE ReqInv(req'[s]) /\ WaitInv(req[s])'
  <2>1. req'[s] = req[s] /\ ReqInv(req[s]) /\ WaitInv(req[s])
    BY <1>4, <1>10 DEF IInv
  <2>2. CASE req[s].st # "waiting"
    BY <2>1, <2>2, NotWaiting
  <2>3. CASE req[s].st = "waiting"
    <3>1. req[s].node \in Nodes /\ fetch[req[s].node] # None
      BY <2>1, <2>3 DEF ReqInv, WaitInv
    <3>2. fetch'[req[s].node] = fetch[req[s].node]
      BY <1>7, <3>1
    <3> QED
      BY <1>2, <2>1, <3>2, WaitSame
  <2> QED
    BY <2>2, <2>3
<1>11. published' \subseteq IssuerKeys /\ DOMAIN cached' = Nodes
  BY <1>2 DEF IInv
<1> QED
  BY <1>2, <1>4, <1>6, <1>7, <1>8, <1>9, <1>10, <1>11, RequestStep

\* A fetch ends: those who waited for it are decided, the others do not notice.
LEMMA ResumeReqs ==
    ASSUME IInv, NEW n \in Nodes, NEW known, known \subseteq IssuerKeys, Resume(n, known),
           UNCHANGED <<nodeVars, now>>, \A m \in Nodes \ {n} : fetch'[m] = fetch[m]
    PROVE  DOMAIN req' = Requests /\ \A r \in Requests : ReqInv(req'[r]) /\ WaitInv(req[r])'
<1>1. DOMAIN req' = Requests
  BY DEF Resume
<1>2. ASSUME NEW r \in Requests PROVE ReqInv(req'[r]) /\ WaitInv(req[r])'
  <2> DEFINE x == req[r]
             p == Providers(n)[x.at]
             o == AfterFetch(p, x.cred, known)
  <2>1. ReqInv(x) /\ WaitInv(x)
    BY DEF IInv
  <2>2. CASE x.st = "waiting" /\ x.node = n
    <3>1. req'[r] = Proceed(x, o)
      BY <2>2 DEF Resume
    <3>2. p.type = "oidc" /\ Ours(x.cred, p)
      BY <2>1, <2>2 DEF WaitInv
    <3>3. Allows(o, p, x.cred, x.rejected) /\ o.kind \in {"stop", "admit"}
      BY <3>2, AfterFetchAllows
    <3>4. Len(Providers(n)) \in Nat
      <4>1. NodeInv(n) /\ env \in Environments /\ file \in ConfigFiles /\ node[n].st = "up"
        BY <2>1, <2>2 DEF IInv, ReqInv
      <4> QED
        BY <4>1, UpChain
    <3> HIDE DEF o, p, x
    <3>5. GoesOn(x, o, req'[r])
      BY <3>1, <3>3, ProceedGoesOn DEF Allows
    <3>6. ReqInv(req'[r])
      <4>1. x.st # "new" /\ Providers(x.node)[x.at] = p /\ Len(Providers(x.node)) \in Nat
        BY <2>2, <3>4 DEF p
      <4> QED
        BY <2>1, <3>3, <3>5, <4>1, GoesOnReqInv
    <3>7. req'[r].st # "waiting"
      BY <3>3, <3>5 DEF GoesOn
    <3> QED
      BY <3>6, <3>7, NotWaiting
  <2>3. CASE ~(x.st = "waiting" /\ x.node = n)
    <3>1. req'[r] = x
      BY <2>3 DEF Resume
    <3>2. CASE x.st # "waiting"
      BY <2>1, <3>1, <3>2, NotWaiting
    <3>3. CASE x.st = "waiting"
      <4>1. fetch'[x.node] = fetch[x.node]
        BY <2>1, <2>3, <3>3 DEF ReqInv
      <4> QED
        BY <2>1, <3>1, <4>1, WaitSame
    <3> QED
      BY <3>2, <3>3
  <2> QED
    BY <2>2, <2>3
<1> QED
  BY <1>1, <1>2

LEMMA FetchStep ==
    ASSUME IInv, NEW n \in Nodes, FetchAnswered(n) \/ FetchFails(n)
    PROVE  IInv'
<1>1. /\ UNCHANGED <<nodeVars, published, now, rotations>> /\ fetch' = [fetch EXCEPT ![n] = None]
      /\ DOMAIN cached' = Nodes /\ \A m \in Nodes : cached'[m] \in {cached[m], published}
  BY DEF IInv, FetchAnswered, FetchFails
<1>2. \E known \in {published, {}} : Resume(n, known)
  BY DEF FetchAnswered, FetchFails
<1>3. /\ DOMAIN fetch' = Nodes /\ fetch'[n] = None
      /\ \A m \in Nodes \ {n} : fetch'[m] = fetch[m]
  BY <1>1 DEF IInv
<1>4. published \subseteq IssuerKeys
  BY DEF IInv
<1>5. DOMAIN req' = Requests /\ \A r \in Requests : ReqInv(req'[r]) /\ WaitInv(req[r])'
  <2>1. PICK known \in {published, {}} : Resume(n, known)
    BY <1>2
  <2>2. known \subseteq IssuerKeys
    BY <1>4
  <2> QED
    BY <1>1, <1>3, <2>1, <2>2, ResumeReqs
<1>6. ASSUME NEW m \in Nodes PROVE KeysInv(m)'
  <2>1. KeysInv(m)
    BY DEF IInv
  <2>2. fetch'[m] \in {None, fetch[m]} /\ cached'[m] \subseteq IssuerKeys
    BY <1>1, <1>3, <1>4, <2>1 DEF KeysInv
  <2> QED
    BY <1>1, <2>1, <2>2 DEF KeysInv, nodeVars, Settled
<1> QED
  BY <1>1, <1>3, <1>4, <1>5, <1>6, RequestStep

LEMMA RotateStep ==
    ASSUME IInv, Rotate
    PROVE  IInv'
<1>1. /\ UNCHANGED <<nodeVars, cached, fetch, req, now>> /\ published' \subseteq IssuerKeys
      /\ rotations < MaxRotations /\ rotations' = rotations + 1
  BY DEF Rotate
<1>2. rotations' \in 0 .. MaxRotations
  BY <1>1, AuthAssumption DEF IInv
<1>3. \A n \in Nodes : NodeInv(n)' /\ KeysInv(n)'
  BY <1>1, NodesSame, KeysSame
<1>4. \A r \in Requests : ReqInv(req[r])' /\ WaitInv(req[r])'
  <2>1. \A r \in Requests : ReqInv(req'[r])
    BY <1>1 DEF IInv
  <2> QED
    BY <1>1, <2>1, ReqSame, WaitSame
<1> QED
  BY <1>1, <1>2, <1>3, <1>4 DEF IInv, nodeVars

\* While a fetch has time left, each tick takes of it what it adds to the clock.
LEMMA TickStep ==
    ASSUME IInv, Tick
    PROVE  IInv'
<1>1. /\ UNCHANGED <<nodeVars, cached, req, published, rotations>>
      /\ now' = IF now < MaxTime THEN now + 1 ELSE now
      /\ fetch' = [n \in Nodes |-> IF fetch[n] \in {None, 0} THEN fetch[n] ELSE fetch[n] - 1]
      /\ \A n \in Nodes : ~TimedOut(n)
  BY DEF Tick
<1>2. now \in 0 .. MaxTime /\ now' \in 0 .. MaxTime /\ now' <= now + 1 /\ now \in Nat /\ now' \in Nat
  BY <1>1, AuthAssumption DEF IInv
<1>3. ASSUME NEW n \in Nodes, fetch[n] # None
      PROVE  /\ node[n].st = "up" /\ node[n].c = Settled /\ Settled.oidc.timeout \in Nat
             /\ fetch[n] \in 0 .. Settled.oidc.timeout
             /\ fetch'[n] \in 0 .. Settled.oidc.timeout /\ fetch'[n] # None
             /\ Settled.oidc.timeout > 0 => fetch'[n] = fetch[n] - 1
  <2>1. NodeInv(n) /\ KeysInv(n) /\ env \in Environments /\ file \in ConfigFiles
    BY DEF IInv
  <2>2. node[n].st = "up" /\ fetch[n] \in 0 .. Settled.oidc.timeout
    BY <1>3, <2>1 DEF KeysInv
  <2>3. node[n].c = Settled /\ Settled.oidc.timeout \in Nat
    BY <2>1, <2>2, UpChain
  <2>4. fetch'[n] = IF fetch[n] \in {None, 0} THEN fetch[n] ELSE fetch[n] - 1
    BY <1>1
  <2>5. Settled.oidc.timeout > 0 => fetch[n] # 0
    BY <1>1, <2>3 DEF TimedOut
  <2>6. fetch'[n] \in 0 .. Settled.oidc.timeout
    BY <1>3, <2>2, <2>3, <2>4
  <2>7. fetch'[n] \in Nat
    BY <2>3, <2>6
  <2>8. fetch'[n] # None
    BY <2>7, AuthAssumption
  <2> QED
    BY <1>3, <2>2, <2>3, <2>4, <2>5, <2>6, <2>8
<1>4. DOMAIN fetch' = Nodes /\ \A n \in Nodes : fetch[n] = None => fetch'[n] = None
  BY <1>1
<1>5. Settled' = Settled
  BY <1>1 DEF Settled, nodeVars
<1>6. ASSUME NEW n \in Nodes PROVE KeysInv(n)'
  <2>1. KeysInv(n)
    BY DEF IInv
  <2> QED
    BY <1>1, <1>3, <1>4, <1>5, <2>1 DEF KeysInv, nodeVars
<1>7. ASSUME NEW r \in Requests PROVE ReqInv(req[r])' /\ WaitInv(req[r])'
  <2> DEFINE x == req[r]
             p == Providers(x.node)[x.at]
  <2>1. ReqInv(x) /\ WaitInv(x) /\ req' = req
    BY <1>1 DEF IInv
  <2>2. ReqInv(req[r])'
    BY <1>1, <2>1, ReqSame
  <2>3. CASE x.st # "waiting"
    BY <2>1, <2>2, <2>3, NotWaiting
  <2>4. CASE x.st = "waiting"
    <3>1. /\ x.node \in Nodes /\ x.cred \in Credentials /\ p.type = "oidc" /\ Ours(x.cred, p)
          /\ fetch[x.node] # None
          /\ Settled.oidc.timeout > 0 =>
               now + fetch[x.node] <= ExtractToken(x.cred, p).exp + Settled.oidc.timeout
      BY <2>1, <2>4 DEF ReqInv, WaitInv
    <3>2. /\ Settled.oidc.timeout \in Nat /\ fetch[x.node] \in 0 .. Settled.oidc.timeout
          /\ fetch'[x.node] \in 0 .. Settled.oidc.timeout /\ fetch'[x.node] # None
          /\ Settled.oidc.timeout > 0 => fetch'[x.node] = fetch[x.node] - 1
      BY <1>3, <3>1
    <3>3. ExtractToken(x.cred, p).exp \in Nat
      BY <3>1, TokenExp DEF Ours
    <3>4. Settled.oidc.timeout > 0 =>
            now' + fetch'[x.node] <= ExtractToken(x.cred, p).exp + Settled.oidc.timeout
      BY <1>2, <3>1, <3>2, <3>3
    <3>5. WaitInv(req[r])'
      BY <1>1, <1>5, <2>1, <3>1, <3>2, <3>4 DEF WaitInv, nodeVars, Providers
    <3> QED
      BY <2>2, <3>5
  <2> QED
    BY <2>3, <2>4
<1>8. \A n \in Nodes : NodeInv(n)'
  BY <1>1, NodesSame
<1> QED
  BY <1>1, <1>2, <1>4, <1>6, <1>7, <1>8 DEF IInv, nodeVars

LEMMA StepIInv == IInv /\ [Next]_vars => IInv'
<1> SUFFICES ASSUME IInv, [Next]_vars PROVE IInv'
  OBVIOUS
<1>1. CASE UNCHANGED vars
  <2>1. /\ UNCHANGED nodeVars /\ UNCHANGED <<nodeVars, now>> /\ UNCHANGED <<nodeVars, cached>>
        /\ UNCHANGED <<cached, fetch, req, published, now, rotations>>
    BY <1>1 DEF vars, nodeVars
  <2>2. \A n \in Nodes : NodeInv(n)' /\ KeysInv(n)'
    BY <2>1, NodesSame, KeysSame
  <2>3. \A r \in Requests : ReqInv(req'[r])
    BY <2>1 DEF IInv
  <2>4. \A r \in Requests : ReqInv(req[r])' /\ WaitInv(req[r])'
    BY <2>1, <2>3, ReqSame, WaitSame
  <2> QED
    BY <2>1, <2>2, <2>4 DEF IInv, nodeVars
<1>2. CASE Next
  BY <1>2, ConfigureStep, MountStep, FetchStep, ArriveStep, TryStep, CancelStep, RotateStep, TickStep DEF Next
<1> QED
  BY <1>1, <1>2

LEMMA SpecIInv == Spec => []IInv
  BY InitIInv, StepIInv, PTL DEF Spec
-----------------------------------------------------------------------------
(* Theorems *)

\* Every request is at a provider of a chain that exists, and nobody waits for a fetch
\* that is not there.
THEOREM TypeCorrect == Spec => []TypeOK
<1>1. IInv => TypeOK
  <2> SUFFICES ASSUME IInv PROVE TypeOK
    OBVIOUS
  <2>1. ASSUME NEW n \in Nodes
        PROVE  /\ node[n].st \in {"down", "configured", "up", "failed"}
               /\ node[n].auth # NoAuth => node[n].auth.providers # <<>>
               /\ cached[n] \subseteq Keys
               /\ fetch[n] \in {None} \cup 0 .. node[n].c.oidc.timeout
    <3>1. NodeInv(n) /\ KeysInv(n)
      BY DEF IInv
    <3> QED
      BY <3>1, AuthAssumption DEF NodeInv, KeysInv, NodeSt
  <2>2. ASSUME NEW r \in Requests
        PROVE  /\ req[r].st \in {"new", "pending", "waiting"} \cup Decided
               /\ req[r].st \in {"pending", "waiting"} =>
                    req[r].at \in 1 .. Len(node[req[r].node].auth.providers)
               /\ req[r].st = "waiting" => fetch[req[r].node] # None
    <3>1. ReqInv(req[r]) /\ WaitInv(req[r])
      BY DEF IInv
    <3> QED
      BY <3>1 DEF ReqInv, WaitInv, ReqSt, Providers
  <2>3. published \subseteq Keys
    BY AuthAssumption DEF IInv
  <2> QED
    BY <2>1, <2>2, <2>3 DEF IInv, TypeOK
<1> QED
  BY <1>1, SpecIInv, PTL

\* Where the chain has an anonymous provider it is the last one.
LEMMA AnonymousIsLast ==
    ASSUME NEW chain, NEW c, NEW pc, GoodMaps(pc), Layout(chain, c, pc), NEW i \in 1 .. Len(chain),
           chain[i].type = "anonymous"
    PROVE  i = Len(chain) /\ Len(chain) \in Nat
<1>1. EndsInOrder(c, pc) /\ Len(chain) = ChainEnd(c, pc)
  BY EndsType DEF Layout
<1>2. i \in OIDCEnd(c, pc) + 1 .. ChainEnd(c, pc)
  BY ProviderPlaced DEF Placed
<1> QED
  BY <1>1, <1>2 DEF EndsInOrder

\* Whatever the chain, the credential and the interleaving with fetches, rotations and
\* other requests: the middleware gives anonymous access to no request with a token
\* that a JWT or OIDC provider of the chain looks at.
THEOREM Undowngraded == Spec => []NeverDowngraded
<1>1. IInv => NeverDowngraded
  <2> SUFFICES ASSUME IInv, NEW r \in Requests, req[r].st = "admitted", req[r].via = "anonymous",
                      NEW i \in 1 .. Len(Providers(req[r].node)),
                      Providers(req[r].node)[i].type \in {"jwt", "oidc"}
               PROVE  ~Carries(req[r].cred, Providers(req[r].node)[i])
    BY DEF NeverDowngraded
  <2> DEFINE x == req[r]
             chain == Providers(x.node)
  <2>1. ReqInv(x)
    BY DEF IInv
  <2>2. /\ x.node \in Nodes /\ node[x.node].st = "up" /\ x.at \in 1 .. Len(chain)
        /\ \A k \in 1 .. x.at - 1 : Passed(chain[k], x.cred, x.rejected)
        /\ chain[x.at].type = "anonymous" /\ Entitled(chain[x.at], x.cred, x.rejected, x.role)
    BY <2>1 DEF ReqInv
  <2>3. Layout(chain, Settled, LoadFile(file)) /\ GoodMaps(LoadFile(file))
    <3>1. NodeInv(x.node) /\ env \in Environments /\ file \in ConfigFiles
      BY <2>2 DEF IInv
    <3> QED
      BY <2>2, <3>1, UpChain
  <2>4. x.at = Len(chain) /\ Len(chain) \in Nat
    BY <2>2, <2>3, AnonymousIsLast
  <2>5. i # x.at
    BY <2>2
  <2>6. i \in 1 .. x.at - 1
    BY <2>4, <2>5
  <2>7. Passed(chain[i], x.cred, x.rejected) /\ ~x.rejected
    BY <2>2, <2>6 DEF Entitled
  <2> QED
    BY <2>7 DEF Passed
<1> QED
  BY <1>1, SpecIInv, PTL

\* On every node that is up, the issuer whose tokens the OAuth proxy hands out is that
\* of an OIDC provider of its chain: Configure has left in its receiver what it has
\* built the chain from, and main reads it from there.
THEOREM ProxyAndChain == Spec => []ProxyMatchesChain
<1>1. IInv => ProxyMatchesChain
  <2> SUFFICES ASSUME IInv, NEW n \in Nodes, node[n].st = "up", node[n].proxy # NoProxy
               PROVE  /\ node[n].auth # NoAuth
                      /\ \E i \in 1 .. Len(Providers(n)) :
                           Providers(n)[i].type = "oidc" /\ Providers(n)[i].issuer = node[n].proxy.issuer
    BY DEF ProxyMatchesChain
  <2> DEFINE pc == LoadFile(file)
             i == OIDCEnd(Settled, pc)
  <2>1. NodeInv(n) /\ env \in Environments /\ file \in ConfigFiles
    BY DEF IInv
  <2>2. Settled.oidc.issuer # "" /\ node[n].proxy.issuer = Settled.oidc.issuer
    BY <2>1 DEF NodeInv
  <2>3. Layout(Providers(n), Settled, pc) /\ GoodMaps(pc)
    BY <2>1, UpChain
  <2>4. EndsInOrder(Settled, pc)
    BY <2>3, EndsType
  <2>5. i = SecretEnd(Settled, pc) + 1
    BY <2>2 DEF OIDCEnd, OIDCs
  <2>6. /\ i \in SecretEnd(Settled, pc) + 1 .. OIDCEnd(Settled, pc)
        /\ i \in 1 .. ChainEnd(Settled, pc) /\ ChainEnd(Settled, pc) # 0
    BY <2>4, <2>5 DEF EndsInOrder
  <2>7. Providers(n)[i] = OIDCProvider(Settled) /\ Len(Providers(n)) = ChainEnd(Settled, pc)
    BY <2>3, <2>6 DEF Layout
  <2>8. OIDCProvider(Settled).type = "oidc" /\ OIDCProvider(Settled).issuer = Settled.oidc.issuer
    BY DEF OIDCProvider
  <2>9. node[n].auth # NoAuth
    <3>1. Len(NoAuth.providers) = 0
      BY DEF NoAuth
    <3> QED
      BY <2>6, <2>7, <3>1 DEF Providers
  <2> QED
    BY <2>2, <2>6, <2>7, <2>8, <2>9
<1> QED
  BY <1>1, SpecIInv, PTL

\* What StalenessBounded says of one request.
Fresh(r) ==
    (req'[r].st = "admitted" /\ req[r].st # "admitted" /\ req'[r].via = "oidc") =>
        LET c == node[req[r].node].c.oidc
            t == ExtractToken(req[r].cred, Providers(req[r].node)[req[r].at])
        IN  c.timeout > 0 => now <= t.exp + c.timeout

LEMMA FreshUnlessAdmitted ==
    ASSUME NEW r, req'[r].st # "admitted" \/ req'[r] = req[r]
    PROVE  Fresh(r)
  BY DEF Fresh

LEMMA TryFresh ==
    ASSUME IInv, NEW r \in Requests, Try(r)
    PROVE  Fresh(r)
<1> DEFINE x == req[r]
           n == x.node
           p == Providers(n)[x.at]
<1> SUFFICES ASSUME req'[r].st = "admitted", req'[r].via = "oidc"
             PROVE  now <= ExtractToken(x.cred, p).exp + node[n].c.oidc.timeout
  BY DEF Fresh
<1>1. PICK o \in Outcomes(p, x, cached[n]) : req' = [req EXCEPT ![r] = Proceed(x, o)]
  BY DEF Try
<1>2. x.st = "pending"
  BY DEF Try
<1>3. /\ Tells(o, p, x.cred, x.rejected) /\ node[n].c = Settled
      /\ Settled.oidc.timeout \in Nat /\ x.cred \in Credentials
  BY <1>2, TryTells
<1>4. req'[r] = Proceed(x, o)
  BY <1>1 DEF IInv
<1>5. GoesOn(x, o, req'[r])
  BY <1>3, <1>4, ProceedGoesOn DEF Tells
<1>6. o.kind = "admit"
  BY <1>3, <1>5 DEF Tells, Kinds, GoesOn
<1>7. p.type = "oidc"
  BY <1>5, <1>6 DEF GoesOn
<1>8. now <= ExtractToken(x.cred, p).exp /\ Ours(x.cred, p)
  BY <1>3, <1>6, <1>7 DEF Tells, Entitled
<1>9. ExtractToken(x.cred, p).exp \in Nat /\ now \in Nat
  BY <1>3, <1>8, TokenExp, AuthAssumption DEF Ours, IInv
<1> QED
  BY <1>3, <1>8, <1>9

LEMMA WaitFresh ==
    ASSUME IInv, NEW r \in Requests, req[r].st = "waiting"
    PROVE  Fresh(r)
<1> DEFINE x == req[r]
           n == x.node
           p == Providers(n)[x.at]
<1>1. ReqInv(x) /\ WaitInv(x)
  BY DEF IInv
<1>2. /\ n \in Nodes /\ node[n].st = "up" /\ x.cred \in Credentials /\ Ours(x.cred, p) /\ fetch[n] # None
      /\ Settled.oidc.timeout > 0 => now + fetch[n] <= ExtractToken(x.cred, p).exp + Settled.oidc.timeout
  BY <1>1 DEF ReqInv, WaitInv
<1>3. NodeInv(n) /\ KeysInv(n) /\ env \in Environments /\ file \in ConfigFiles
  BY <1>2 DEF IInv
<1>4. node[n].c = Settled /\ Settled.oidc.timeout \in Nat
  BY <1>2, <1>3, UpChain
<1>5. fetch[n] \in 0 .. Settled.oidc.timeout
  BY <1>2, <1>3 DEF KeysInv
<1>6. ExtractToken(x.cred, p).exp \in Nat /\ now \in Nat
  BY <1>2, TokenExp, AuthAssumption DEF Ours, IInv
<1>7. Settled.oidc.timeout > 0 => now <= ExtractToken(x.cred, p).exp + Settled.oidc.timeout
  BY <1>2, <1>4, <1>5, <1>6
<1> QED
  BY <1>4, <1>7 DEF Fresh

\* Whoever is admitted by the OIDC provider, at once or after waiting for keys, has a
\* token that is expired by no more than the time limit of the HTTP client.
THEOREM StalenessIsBounded == Spec => StalenessBounded
<1>1. IInv /\ [Next]_vars => [\A r \in Requests : Fresh(r)]_vars
  <2> SUFFICES ASSUME IInv, Next, NEW r \in Requests PROVE Fresh(r)
    OBVIOUS
  <2>1. CASE req' = req
    BY <2>1, FreshUnlessAdmitted
  <2>2. ASSUME NEW s \in Requests, Arrive(s) PROVE Fresh(r)
    <3>1. req'[r] = req[r] \/ req'[r].st = "pending"
      BY <2>2 DEF Arrive, IInv, Request
    <3> QED
      BY <3>1, FreshUnlessAdmitted
  <2>3. ASSUME NEW s \in Requests, Cancel(s) PROVE Fresh(r)
    <3>1. req'[r] = req[r] \/ req'[r].st = "gone"
      BY <2>3 DEF Cancel, IInv, Request
    <3> QED
      BY <3>1, FreshUnlessAdmitted
  <2>4. ASSUME NEW s \in Requests, Try(s) PROVE Fresh(r)
    <3>1. CASE s = r
      BY <2>4, <3>1, TryFresh
    <3>2. CASE s # r
      <4>1. req'[r] = req[r]
        BY <2>4, <3>2 DEF Try, IInv
      <4> QED
        BY <4>1, FreshUnlessAdmitted
    <3> QED
      BY <3>1, <3>2
  <2>5. ASSUME NEW n \in Nodes, FetchAnswered(n) \/ FetchFails(n) PROVE Fresh(r)
    <3>1. req'[r] = req[r] \/ req[r].st = "waiting"
      BY <2>5 DEF FetchAnswered, FetchFails, Resume
    <3> QED
      BY <3>1, WaitFresh, FreshUnlessAdmitted
  <2>6. ASSUME NEW n \in Nodes, Configure(n) \/ Mount(n) PROVE Fresh(r)
    BY <2>1, <2>6 DEF Configure, Mount
  <2>7. CASE Rotate \/ Tick
    BY <2>1, <2>7 DEF Rotate, Tick
  <2> QED
    BY <2>2, <2>3, <2>4, <2>5, <2>6, <2>7 DEF Next
<1>2. [][\A r \in Requests : Fresh(r)]_vars => StalenessBounded
  BY DEF StalenessBounded, Fresh
<1> QED
  BY <1>1, <1>2, SpecIInv, PTL DEF Spec
-----------------------------------------------------------------------------
(* The role of a token *)

\* Cutting a prefix off a text and putting it before what is left gives the text.
LEMMA PrefixAndRest ==
    ASSUME NEW s, IsText(s), NEW prefix, IsText(prefix), HasPrefix(s, prefix)
    PROVE  prefix \o SubSeq(s, Len(prefix) + 1, Len(s)) = s
<1> DEFINE S == {s[i] : i \in DOMAIN s}
<1>1. Len(prefix) \in Nat /\ s \in Seq(S)
  BY DEF IsText
<1> HIDE DEF S
<1>2. Len(prefix) <= Len(s) /\ SubSeq(s, 1, Len(prefix)) = prefix /\ Len(s) \in Nat
  BY <1>1 DEF HasPrefix
<1>3. /\ 1 \in 1 .. Len(s) + 1 /\ Len(prefix) \in 1 - 1 .. Len(s) /\ Len(s) \in Len(prefix) .. Len(s)
  BY <1>1, <1>2
<1>4. SubSeq(s, 1, Len(prefix)) \o SubSeq(s, Len(prefix) + 1, Len(s)) = SubSeq(s, 1, Len(s))
  BY <1>1, <1>3, ConcatAdjacentSubSeq, Zenon
<1>5. SubSeq(s, 1, Len(s)) = s
  BY <1>1, SubSeqFull
<1> QED
  BY <1>2, <1>4, <1>5

\* A set of numbers has a least one: claimString finds the first hit.
LEMMA Least ==
    ASSUME NEW D, D \subseteq Nat, D # {}
    PROVE  \E i \in D : \A j \in D : i <= j
<1>1. PICK i \in D : \A j \in D : ~(<<j, i>> \in OpToRel(<, Nat))
  BY WFMin, NatLessThanWellFounded, Zenon
<1>2. \A j \in D : ~(j < i)
  BY <1>1 DEF OpToRel
<1>3. \A j \in D : i <= j
  BY <1>2
<1> QED
  BY <1>3

\* Some claim has this role, under the prefix, among its items.
Granted(claims, prefix, role) ==
    \E k \in DOMAIN claims : \E i \in DOMAIN claims[k] : claims[k][i] = prefix \o role

\* The claims of a token that was read.
GoodClaims(claims) ==
    \A key \in DOMAIN claims :
       /\ IsText(claims[key])
       /\ \A i \in DOMAIN claims[key] :
             claims[key][i] # NotAString => IsText(claims[key][i])

LEMMA ClaimGranted ==
    ASSUME NEW claims, GoodClaims(claims), NEW prefix, IsText(prefix), NEW key,
           claimString(claims, key, prefix) # <<>>
    PROVE  Granted(claims, prefix, claimString(claims, key, prefix))
<1> DEFINE items == IF key \in DOMAIN claims THEN claims[key] ELSE <<>>
           hits == {i \in DOMAIN items : items[i] # NotAString /\ HasPrefix(items[i], prefix)}
           first == CHOOSE i \in hits : \A j \in hits : i <= j
           s == items[first]
<1>1. hits # {} /\ claimString(claims, key, prefix) = SubSeq(s, Len(prefix) + 1, Len(s))
  BY Zenon DEF claimString
<1>2. key \in DOMAIN claims /\ items = claims[key]
  <2>1. CASE key \notin DOMAIN claims
    <3>1. items = <<>>
      BY <2>1
    <3>2. DOMAIN items = {}
      BY <3>1
    <3> QED
      BY <1>1, <3>2
  <2> QED
    BY <2>1
<1> HIDE DEF items
<1>3. hits \subseteq Nat
  <2>1. DOMAIN items \subseteq Nat
    BY <1>2 DEF GoodClaims, IsText
  <2> QED
    BY <2>1
<1>4. first \in hits
  <2>1. \E i \in hits : \A j \in hits : i <= j
    <3> HIDE DEF hits
    <3> QED
      BY <1>1, <1>3, Least, Zenon
  <2> HIDE DEF hits
  <2> QED
    BY <2>1, Zenon
<1> HIDE DEF first
<1>5. first \in DOMAIN items /\ s # NotAString /\ HasPrefix(s, prefix)
  BY <1>4
<1>6. IsText(s)
  BY <1>2, <1>5, Zenon DEF GoodClaims
<1> HIDE DEF s
<1>7. prefix \o SubSeq(s, Len(prefix) + 1, Len(s)) = s
  BY <1>5, <1>6, PrefixAndRest, Zenon
<1> QED
  BY <1>1, <1>2, <1>5, <1>7 DEF Granted, s

\* The role that the OIDC provider takes from a token is in one of its claims.
LEMMA RoleGranted ==
    ASSUME NEW t, GoodClaims(t.claims), NEW prefix, IsText(prefix), RoleOf(t, prefix) # <<>>
    PROVE  Granted(t.claims, prefix, RoleOf(t, prefix))
<1>1. \E key : RoleOf(t, prefix) = claimString(t.claims, key, prefix)
  BY Zenon DEF RoleOf
<1> QED
  BY <1>1, ClaimGranted

LEMMA TokenClaims ==
    ASSUME NEW cred \in Credentials, NEW p, Carries(cred, p)
    PROVE  GoodClaims(ExtractToken(cred, p).claims)
<1>1. ExtractToken(cred, p) \in {cred.bearer, cred.cookie} \ {NoToken, EmptyToken}
  BY DEF Carries, ExtractToken
<1> QED
  BY <1>1, CredentialsAssumption DEF GoodClaims

\* Whoever the OIDC provider of a node admits, at once or after a fetch and however the
\* keys have rotated since, has a token of its issuer under a key of the identity
\* provider, and gets a role that is word for word in the token's claims.
THEOREM GenuineIsAdmitted == Spec => []AdmittedGenuine
<1>1. IInv => AdmittedGenuine
  <2> SUFFICES ASSUME IInv, NEW r \in Requests, req[r].st = "admitted", req[r].via = "oidc"
               PROVE  LET p     == Providers(req[r].node)[req[r].at]
                          t     == ExtractToken(req[r].cred, p)
                          items == UNION {{t.claims[k][i] : i \in DOMAIN t.claims[k]} : k \in DOMAIN t.claims}
                      IN  /\ t.iss = p.issuer /\ t.key \in IssuerKeys
                          /\ req[r].role # <<>> /\ (p.prefix \o req[r].role) \in items
    BY Zenon DEF AdmittedGenuine
  <2> DEFINE x == req[r]
             p == Providers(x.node)[x.at]
             t == ExtractToken(x.cred, p)
  <2>1. ReqInv(x)
    BY DEF IInv
  <2>2. /\ x.node \in Nodes /\ node[x.node].st = "up" /\ x.cred \in Credentials
        /\ x.at \in 1 .. Len(Providers(x.node))
        /\ p.type = "oidc" /\ Entitled(p, x.cred, x.rejected, x.role)
    BY <2>1 DEF ReqInv
  <2>3. /\ Carries(x.cred, p) /\ t.iss = p.issuer /\ t.key \in IssuerKeys
        /\ x.role = RoleOf(t, p.prefix) /\ x.role # <<>>
    BY <2>2 DEF Entitled, Ours
  <2>4. IsText(p.prefix)
    <3>1. NodeInv(x.node) /\ env \in Environments /\ file \in ConfigFiles
      BY <2>2 DEF IInv
    <3>2. Placed(Providers(x.node), x.at, Settled, LoadFile(file)) /\ IsOIDC(Settled.oidc)
      BY <2>2, <3>1, UpChain
    <3>3. p = OIDCProvider(Settled)
      BY <2>2, <3>2 DEF Placed
    <3> QED
      BY <3>2, <3>3 DEF IsOIDC, OIDCProvider
  <2>5. Granted(t.claims, p.prefix, x.role)
    BY <2>2, <2>3, <2>4, TokenClaims, RoleGranted
  <2>6. p.prefix \o x.role \in UNION {{t.claims[k][i] : i \in DOMAIN t.claims[k]} : k \in DOMAIN t.claims}
    <3>1. ASSUME NEW claims, NEW w, \E k \in DOMAIN claims : \E i \in DOMAIN claims[k] : claims[k][i] = w
          PROVE  w \in UNION {{claims[k][i] : i \in DOMAIN claims[k]} : k \in DOMAIN claims}
      <4>1. PICK k \in DOMAIN claims : \E i \in DOMAIN claims[k] : claims[k][i] = w
        BY <3>1
      <4>2. w \in {claims[k][i] : i \in DOMAIN claims[k]}
        BY <4>1
      <4> QED
        BY <4>2, Zenon
    <3> QED
      BY <2>5, <3>1, Zenon DEF Granted
  <2> QED
    BY <2>3, <2>6
<1> QED
  BY <1>1, SpecIInv, PTL
-----------------------------------------------------------------------------
(* Chains of one configuration *)

\* Chains of one configuration have the same providers before each boundary.
LEMMA Earlier ==
    ASSUME NEW A, NEW B, NEW c, NEW pc, GoodMaps(pc), Layout(A, c, pc), Layout(B, c, pc),
           NEW i \in 1 .. Len(A),
           NEW E \in {KeysEnd(pc), JwtEnd(pc), SecretEnd(c, pc), OIDCEnd(c, pc)}, i <= E
    PROVE  A[i].type \in {"apikey", "jwt", "oidc"} /\ \E k \in 1 .. E : B[k] = A[i]
<1>1. EndsInOrder(c, pc) /\ Placed(A, i, c, pc)
  BY EndsType, ProviderPlaced
<1>2. CASE i \in 1 .. KeysEnd(pc) /\ A[i] \in pc.apiKeys /\ A[i].type = "apikey"
  <2>1. PICK k \in 1 .. KeysEnd(pc) : B[k] = A[i]
    BY <1>2 DEF Layout
  <2>2. k \in 1 .. E
    BY <1>1, <2>1 DEF EndsInOrder
  <2> QED
    BY <1>2, <2>1, <2>2
<1>3. CASE i \in KeysEnd(pc) + 1 .. JwtEnd(pc) /\ A[i] \in pc.jwt /\ A[i].type = "jwt"
  <2>1. PICK k \in KeysEnd(pc) + 1 .. JwtEnd(pc) : B[k] = A[i]
    BY <1>3 DEF Layout
  <2>2. k \in 1 .. E
    BY <1>1, <1>3, <2>1 DEF EndsInOrder
  <2> QED
    BY <1>3, <2>1, <2>2
<1>4. CASE i \in JwtEnd(pc) + 1 .. SecretEnd(c, pc) /\ A[i] = SecretProvider(c) /\ A[i].type = "apikey"
  <2>1. B[i] = A[i]
    BY <1>4 DEF Layout
  <2>2. i \in 1 .. E
    BY <1>1, <1>4 DEF EndsInOrder
  <2> QED
    BY <1>4, <2>1, <2>2
<1>5. CASE i \in SecretEnd(c, pc) + 1 .. OIDCEnd(c, pc) /\ A[i] = OIDCProvider(c) /\ A[i].type = "oidc"
  <2>1. B[i] = A[i]
    BY <1>5 DEF Layout
  <2>2. i \in 1 .. E
    BY <1>1, <1>5 DEF EndsInOrder
  <2> QED
    BY <1>5, <2>1, <2>2
<1>6. CASE i \in OIDCEnd(c, pc) + 1 .. ChainEnd(c, pc)
  BY <1>1, <1>6 DEF EndsInOrder
<1> QED
  BY <1>1, <1>2, <1>3, <1>4, <1>5, <1>6 DEF Placed

\* Position i of chain A has admitted this credential, and what is before it has not.
Admits(A, i, cred, role) ==
    /\ i \in 1 .. Len(A)
    /\ \E rejected \in BOOLEAN :
         /\ \A k \in 1 .. i - 1 : Passed(A[k], cred, rejected)
         /\ Entitled(A[i], cred, rejected, role)

\* What one chain admits before a boundary, no other admits behind it: there the other
\* has passed the same provider.
LEMMA NotSeparated ==
    ASSUME NEW A, NEW B, NEW c, NEW pc, GoodMaps(pc), Layout(A, c, pc), Layout(B, c, pc),
           NEW cred, NEW i, NEW j, NEW role, NEW other,
           Admits(A, i, cred, role), Admits(B, j, cred, other),
           NEW E \in {KeysEnd(pc), JwtEnd(pc), SecretEnd(c, pc), OIDCEnd(c, pc)}, i <= E
    PROVE  j <= E
<1> SUFFICES ASSUME ~(j <= E) PROVE FALSE
  OBVIOUS
<1>1. i \in 1 .. Len(A) /\ j \in 1 .. Len(B) /\ E \in Nat
  BY EndsType DEF Admits, EndsInOrder
<1>2. PICK k \in 1 .. E : B[k] = A[i] /\ A[i].type \in {"apikey", "jwt", "oidc"}
  BY <1>1, Earlier
<1>3. k \in 1 .. j - 1
  BY <1>1, <1>2
<1>4. /\ \E rejected \in BOOLEAN : Passed(A[i], cred, rejected)
      /\ \E rejected \in BOOLEAN : Entitled(A[i], cred, rejected, role)
  BY <1>2, <1>3 DEF Admits
<1> QED
  BY <1>2, <1>4 DEF Passed, Entitled

\* The two come from one map of the file, or are the same.
SameKind(p, q, pc) ==
    \/ p \in pc.apiKeys /\ q \in pc.apiKeys /\ p.type = "apikey" /\ q.type = "apikey"
    \/ p \in pc.jwt /\ q \in pc.jwt /\ p.type = "jwt" /\ q.type = "jwt"
    \/ p = q

LEMMA AdmittedAlike ==
    ASSUME NEW A, NEW B, NEW c, NEW pc, GoodMaps(pc), Layout(A, c, pc), Layout(B, c, pc),
           NEW cred, NEW i, NEW j, NEW role, NEW other,
           Admits(A, i, cred, role), Admits(B, j, cred, other)
    PROVE  SameKind(A[i], B[j], pc)
<1> DEFINE Ends == {KeysEnd(pc), JwtEnd(pc), SecretEnd(c, pc), OIDCEnd(c, pc)}
<1>1. i \in 1 .. Len(A) /\ j \in 1 .. Len(B)
  BY DEF Admits
<1>2. EndsInOrder(c, pc) /\ Placed(A, i, c, pc) /\ Placed(B, j, c, pc)
  BY <1>1, EndsType, ProviderPlaced
<1>3. \A E \in Ends : i <= E => j <= E
  BY NotSeparated
<1>4. \A E \in Ends : j <= E => i <= E
  BY NotSeparated
<1>5. /\ i <= KeysEnd(pc) <=> j <= KeysEnd(pc)
      /\ i <= JwtEnd(pc) <=> j <= JwtEnd(pc)
      /\ i <= SecretEnd(c, pc) <=> j <= SecretEnd(c, pc)
      /\ i <= OIDCEnd(c, pc) <=> j <= OIDCEnd(c, pc)
  BY <1>3, <1>4
<1>6. CASE i \in 1 .. KeysEnd(pc) /\ A[i] \in pc.apiKeys /\ A[i].type = "apikey"
  BY <1>2, <1>5, <1>6 DEF EndsInOrder, Placed, SameKind
<1>7. CASE i \in KeysEnd(pc) + 1 .. JwtEnd(pc) /\ A[i] \in pc.jwt /\ A[i].type = "jwt"
  BY <1>2, <1>5, <1>7 DEF EndsInOrder, Placed, SameKind
<1>8. CASE i \in JwtEnd(pc) + 1 .. SecretEnd(c, pc) /\ A[i] = SecretProvider(c)
  BY <1>2, <1>5, <1>8 DEF EndsInOrder, Placed, SameKind
<1>9. CASE i \in SecretEnd(c, pc) + 1 .. OIDCEnd(c, pc) /\ A[i] = OIDCProvider(c)
  BY <1>2, <1>5, <1>9 DEF EndsInOrder, Placed, SameKind
<1>10. CASE i \in OIDCEnd(c, pc) + 1 .. ChainEnd(c, pc) /\ A[i] = AnonymousProvider(c)
  BY <1>2, <1>5, <1>10 DEF EndsInOrder, Placed, SameKind
<1> QED
  BY <1>2, <1>6, <1>7, <1>8, <1>9, <1>10 DEF Placed

LEMMA AtMostOne ==
    ASSUME NEW S, IsFiniteSet(S), Cardinality(S) <= 1, NEW a \in S, NEW b \in S
    PROVE  a = b
<1>1. Cardinality(S) \in Nat
  BY FS_CardinalityType
<1>2. Cardinality(S) # 0
  BY FS_EmptySet
<1>3. Cardinality(S) = 1
  BY <1>1, <1>2
<1>4. \E x : S = {x}
  BY <1>3, FS_Singleton
<1> QED
  BY <1>4

LEMMA SameRole ==
    ASSUME Unambiguous, NEW f \in ConfigFiles, Loads(f), NEW cred \in Credentials,
           Cardinality(DOMAIN cred.headers) <= 1,
           NEW p, NEW q, SameKind(p, q, LoadFile(f)), p.type \in Types, NEW role, NEW other,
           \E rejected \in BOOLEAN : Entitled(p, cred, rejected, role),
           \E rejected \in BOOLEAN : Entitled(q, cred, rejected, other)
    PROVE  role = other /\ p.type = q.type
<1> DEFINE pc == LoadFile(f)
<1>1. /\ \A a, b \in pc.apiKeys : a.header = b.header /\ a.key = b.key => a.role = b.role
      /\ \A a, b \in pc.jwt : a.issuer = b.issuer /\ a.key = b.key => a.prefix = b.prefix
  BY DEF Unambiguous
<1>2. CASE p \in pc.apiKeys /\ q \in pc.apiKeys /\ p.type = "apikey" /\ q.type = "apikey"
  <2>1. Matches(cred, p) /\ role = p.role /\ Matches(cred, q) /\ other = q.role
    BY <1>2 DEF Entitled
  <2>2. p.header = q.header
    BY <2>1, AtMostOne, CredentialsAssumption DEF Matches
  <2> QED
    BY <1>1, <1>2, <2>1, <2>2 DEF Matches
<1>3. CASE p \in pc.jwt /\ q \in pc.jwt /\ p.type = "jwt" /\ q.type = "jwt"
  <2>1. /\ Ours(cred, p) /\ role = RoleOf(ExtractToken(cred, p), p.prefix) /\ ExtractToken(cred, p).key = p.key
        /\ Ours(cred, q) /\ other = RoleOf(ExtractToken(cred, q), q.prefix) /\ ExtractToken(cred, q).key = q.key
    BY <1>3 DEF Entitled
  <2>2. ExtractToken(cred, p) = ExtractToken(cred, q)
    BY <2>1 DEF Ours, Carries, ExtractToken
  <2>3. p.issuer = q.issuer /\ p.key = q.key
    BY <2>1, <2>2 DEF Ours
  <2> QED
    BY <1>1, <1>3, <2>1, <2>2, <2>3
<1>4. CASE p = q
  BY <1>4 DEF Entitled, Types
<1> QED
  BY <1>2, <1>3, <1>4 DEF SameKind

\* Wherever and whenever two requests with one credential get in, on nodes that have
\* ranged over the maps of the file in orders of their own: the same kind of provider
\* has given them the same role, if the file leaves no choice between two keys or two
\* JWT providers that match alike.
THEOREM Agreement == ASSUME Unambiguous PROVE Spec => []NodesAgree
<1>1. IInv => NodesAgree
  <2> SUFFICES ASSUME IInv, NEW r \in Requests, NEW s \in Requests,
                      req[r].st = "admitted", req[s].st = "admitted", req[r].cred = req[s].cred,
                      Cardinality(DOMAIN req[r].cred.headers) <= 1
               PROVE  req[r].role = req[s].role /\ req[r].via = req[s].via
    BY DEF NodesAgree
  <2> DEFINE pc == LoadFile(file)
             A == Providers(req[r].node)
             B == Providers(req[s].node)
             cred == req[r].cred
             i == req[r].at
             j == req[s].at
  <2>1. ASSUME NEW q \in Requests, req[q].st = "admitted"
        PROVE  /\ Admits(Providers(req[q].node), req[q].at, req[q].cred, req[q].role)
               /\ Layout(Providers(req[q].node), Settled, pc) /\ GoodMaps(pc) /\ Loads(file)
               /\ Providers(req[q].node)[req[q].at].type \in Types
               /\ req[q].via = Providers(req[q].node)[req[q].at].type
               /\ req[q].cred \in Credentials
               /\ \E rejected \in BOOLEAN :
                    Entitled(Providers(req[q].node)[req[q].at], req[q].cred, rejected, req[q].role)
    <3>1. ReqInv(req[q]) /\ env \in Environments /\ file \in ConfigFiles
      BY DEF IInv
    <3>2. /\ req[q].node \in Nodes /\ node[req[q].node].st = "up" /\ req[q].cred \in Credentials
          /\ req[q].at \in 1 .. Len(Providers(req[q].node)) /\ req[q].rejected \in BOOLEAN
          /\ \A k \in 1 .. req[q].at - 1 : Passed(Providers(req[q].node)[k], req[q].cred, req[q].rejected)
          /\ req[q].via = Providers(req[q].node)[req[q].at].type
          /\ Entitled(Providers(req[q].node)[req[q].at], req[q].cred, req[q].rejected, req[q].role)
      BY <2>1, <3>1 DEF ReqInv
    <3>3. NodeInv(req[q].node)
      BY <3>2 DEF IInv
    <3>4. /\ Layout(Providers(req[q].node), Settled, pc) /\ GoodMaps(pc)
          /\ Providers(req[q].node)[req[q].at].type \in Types
      BY <3>1, <3>2, <3>3, UpChain
    <3>5. Loads(file)
      BY <3>2, <3>3 DEF NodeInv
    <3> QED
      BY <3>2, <3>4, <3>5, Zenon DEF Admits
  <2>2. /\ Admits(A, i, cred, req[r].role) /\ Admits(B, j, cred, req[s].role)
        /\ Layout(A, Settled, pc) /\ Layout(B, Settled, pc) /\ GoodMaps(pc) /\ Loads(file)
        /\ A[i].type \in Types /\ req[r].via = A[i].type /\ req[s].via = B[j].type
        /\ cred \in Credentials
        /\ \E rejected \in BOOLEAN : Entitled(A[i], cred, rejected, req[r].role)
        /\ \E rejected \in BOOLEAN : Entitled(B[j], cred, rejected, req[s].role)
    BY <2>1
  <2>3. SameKind(A[i], B[j], pc)
    BY <2>2, AdmittedAlike
  <2>4. file \in ConfigFiles
    BY DEF IInv
  <2>5. req[r].role = req[s].role /\ A[i].type = B[j].type
    BY <2>2, <2>3, <2>4, SameRole
  <2> QED
    BY <2>2, <2>5
<1> QED
  BY <1>1, SpecIInv, PTL
-----------------------------------------------------------------------------
(* Access *)

\* What is known of a credential that has come to position i.
Behind(i, c, pc, cred, rejected) ==
    /\ i > KeysEnd(pc) => \A p \in pc.apiKeys : ~Matches(cred, p)
    /\ i > JwtEnd(pc) => \A p \in pc.jwt : ~Ours(cred, p) /\ (Carries(cred, p) => rejected)
    /\ i > SecretEnd(c, pc) => c.secretKey = "" \/ ~Matches(cred, SecretProvider(c))
    /\ i > OIDCEnd(c, pc) => \/ c.oidc.issuer = ""
                             \/ /\ ~Ours(cred, OIDCProvider(c))
                                /\ Carries(cred, OIDCProvider(c)) => rejected

LEMMA AllPassed ==
    ASSUME NEW A, NEW c, NEW pc, GoodMaps(pc), Layout(A, c, pc), NEW i \in 1 .. Len(A),
           NEW cred, NEW rejected \in BOOLEAN,
           \A k \in 1 .. i - 1 : Passed(A[k], cred, rejected)
    PROVE  Behind(i, c, pc, cred, rejected)
<1>1. EndsInOrder(c, pc) /\ Len(A) = ChainEnd(c, pc)
  BY EndsType DEF Layout
<1>2. i \in Nat
  BY <1>1 DEF EndsInOrder
<1>3. (\A p \in pc.apiKeys : p.type = "apikey") /\ (\A p \in pc.jwt : p.type = "jwt")
  BY DEF GoodMaps, IsMapOf
<1>4. SecretProvider(c).type = "apikey" /\ OIDCProvider(c).type = "oidc"
  BY DEF SecretProvider, OIDCProvider
<1>5. ASSUME i > KeysEnd(pc), NEW p \in pc.apiKeys PROVE ~Matches(cred, p)
  <2>1. PICK k \in 1 .. KeysEnd(pc) : A[k] = p
    BY DEF Layout
  <2>2. k \in 1 .. i - 1
    BY <1>1, <1>5, <2>1 DEF EndsInOrder
  <2> QED
    BY <1>3, <2>1, <2>2 DEF Passed
<1>6. ASSUME i > JwtEnd(pc), NEW p \in pc.jwt PROVE ~Ours(cred, p) /\ (Carries(cred, p) => rejected)
  <2>1. PICK k \in KeysEnd(pc) + 1 .. JwtEnd(pc) : A[k] = p
    BY DEF Layout
  <2>2. k \in 1 .. i - 1
    BY <1>1, <1>6, <2>1 DEF EndsInOrder
  <2>3. Passed(p, cred, rejected) /\ p.type = "jwt"
    BY <1>3, <2>1, <2>2
  <2> QED
    BY <2>3 DEF Passed
<1>7. ASSUME i > SecretEnd(c, pc), c.secretKey # "" PROVE ~Matches(cred, SecretProvider(c))
  <2>1. PICK k : k = SecretEnd(c, pc)
    OBVIOUS
  <2>2. k = JwtEnd(pc) + 1
    BY <1>7, <2>1 DEF SecretEnd, Secrets
  <2>3. i > k /\ k \in Nat /\ JwtEnd(pc) \in Nat
    BY <1>1, <1>7, <2>1 DEF EndsInOrder
  <2>4. k \in JwtEnd(pc) + 1 .. k /\ k \in 1 .. i - 1
    BY <1>2, <2>2, <2>3
  <2>5. A[k] = SecretProvider(c)
    BY <2>1, <2>4 DEF Layout
  <2> QED
    BY <1>4, <2>4, <2>5 DEF Passed
<1>8. ASSUME i > OIDCEnd(c, pc), c.oidc.issuer # ""
      PROVE  ~Ours(cred, OIDCProvider(c)) /\ (Carries(cred, OIDCProvider(c)) => rejected)
  <2>1. PICK k : k = OIDCEnd(c, pc)
    OBVIOUS
  <2>2. k = SecretEnd(c, pc) + 1
    BY <1>8, <2>1 DEF OIDCEnd, OIDCs
  <2>3. i > k /\ k \in Nat /\ SecretEnd(c, pc) \in Nat
    BY <1>1, <1>8, <2>1 DEF EndsInOrder
  <2>4. k \in SecretEnd(c, pc) + 1 .. k /\ k \in 1 .. i - 1
    BY <1>2, <2>2, <2>3
  <2>5. A[k] = OIDCProvider(c)
    BY <2>1, <2>4 DEF Layout
  <2>6. Passed(OIDCProvider(c), cred, rejected)
    BY <2>4, <2>5
  <2> QED
    BY <1>4, <2>6 DEF Passed
<1> QED
  BY <1>5, <1>6, <1>7, <1>8 DEF Behind

\* A setting that has a provider in the chain is there.
LEMMA BlockThere ==
    ASSUME NEW c, NEW pc, GoodMaps(pc), NEW i \in Nat
    PROVE  /\ i \in JwtEnd(pc) + 1 .. SecretEnd(c, pc) => c.secretKey # ""
           /\ i \in SecretEnd(c, pc) + 1 .. OIDCEnd(c, pc) => c.oidc.issuer # ""
           /\ i \in OIDCEnd(c, pc) + 1 .. ChainEnd(c, pc) => c.anonymous
<1>1. EndsInOrder(c, pc)
  BY EndsType
<1>2. ASSUME c.secretKey = "" PROVE SecretEnd(c, pc) = JwtEnd(pc)
  <2>1. Secrets(c) = 0
    BY <1>2 DEF Secrets
  <2> QED
    BY <1>1, <2>1 DEF SecretEnd, EndsInOrder
<1>3. ASSUME c.oidc.issuer = "" PROVE OIDCEnd(c, pc) = SecretEnd(c, pc)
  <2>1. OIDCs(c) = 0
    BY <1>3 DEF OIDCs
  <2> QED
    BY <1>1, <2>1 DEF OIDCEnd, EndsInOrder
<1>4. ASSUME ~c.anonymous PROVE ChainEnd(c, pc) = OIDCEnd(c, pc)
  <2>1. Anonymouses(c) = 0
    BY <1>4 DEF Anonymouses
  <2> QED
    BY <1>1, <2>1 DEF ChainEnd, EndsInOrder
<1>5. \A e \in Nat : ~(i \in e + 1 .. e)
  OBVIOUS
<1>6. JwtEnd(pc) \in Nat /\ SecretEnd(c, pc) \in Nat /\ OIDCEnd(c, pc) \in Nat
  BY <1>1 DEF EndsInOrder
<1>7. i \in JwtEnd(pc) + 1 .. SecretEnd(c, pc) => c.secretKey # ""
  BY <1>2, <1>5, <1>6, Zenon
<1>8. i \in SecretEnd(c, pc) + 1 .. OIDCEnd(c, pc) => c.oidc.issuer # ""
  BY <1>3, <1>5, <1>6, Zenon
<1>9. i \in OIDCEnd(c, pc) + 1 .. ChainEnd(c, pc) => c.anonymous
  BY <1>4, <1>5, <1>6, Zenon
<1> QED
  BY <1>7, <1>8, <1>9

\* The provider that admits a request gives it a right of the configuration.
LEMMA AdmitsRight ==
    ASSUME NEW A, NEW policy, NEW c, NEW pc, pc = LoadFile(policy[2]), c = Apply(policy[1], pc),
           GoodMaps(pc), Layout(A, c, pc), NEW i \in 1 .. Len(A), NEW cred, NEW rejected \in BOOLEAN, NEW role,
           \A k \in 1 .. i - 1 : Passed(A[k], cred, rejected),
           Entitled(A[i], cred, rejected, role)
    PROVE  Right(A[i].type, role) \in Rights(policy, cred)
<1> DEFINE oidc == IF c.oidc.issuer # "" THEN {OIDCProvider(c)} ELSE {}
           keys == {p \in pc.apiKeys : Matches(cred, p)}
           jwts == {p \in pc.jwt : Ours(cred, p)}
           roleOf(p) == RoleOf(ExtractToken(cred, p), p.prefix)
           signed(p, by) == ExtractToken(cred, p).key \in by /\ roleOf(p) # <<>>
           R1 == {Right("apikey", p.role) : p \in keys}
           R2 == {Right("jwt", roleOf(p)) : p \in {q \in jwts : signed(q, {q.key})}}
           R4 == {Right("oidc", roleOf(p)) : p \in {q \in oidc : signed(q, IssuerKeys)}}
           secret == c.secretKey # "" /\ Matches(cred, SecretProvider(c))
           ours == \E p \in oidc : Ours(cred, p)
           bare == c.anonymous /\ \A p \in pc.jwt \cup oidc : ~Carries(cred, p)
<1>1. Rights(policy, cred) =
        IF keys # {} THEN R1 ELSE IF jwts # {} THEN R2
        ELSE IF secret THEN {Right("apikey", <<"admin">>)}
        ELSE IF ours THEN R4
        ELSE IF bare THEN {Right("anonymous", c.anonymousRole)} ELSE {}
  BY Zenon DEF Rights
<1>2. Placed(A, i, c, pc) /\ EndsInOrder(c, pc) /\ i \in Nat
  <2>1. EndsInOrder(c, pc)
    BY EndsType, Zenon
  <2>2. Placed(A, i, c, pc)
    BY ProviderPlaced, Zenon
  <2>3. Len(A) = ChainEnd(c, pc)
    BY DEF Layout
  <2>4. i \in Nat
    BY <2>1, <2>3 DEF EndsInOrder
  <2> QED
    BY <2>1, <2>2, <2>4
<1>3. /\ i > KeysEnd(pc) => keys = {}
      /\ i > JwtEnd(pc) => jwts = {} /\ \A p \in pc.jwt : Carries(cred, p) => rejected
      /\ i > SecretEnd(c, pc) => ~secret
      /\ i > OIDCEnd(c, pc) => ~ours /\ \A p \in oidc : Carries(cred, p) => rejected
  <2>1. Behind(i, c, pc, cred, rejected)
    BY AllPassed, Zenon
  <2>2. i > KeysEnd(pc) => keys = {}
    BY <2>1, Zenon DEF Behind
  <2>3. i > JwtEnd(pc) => jwts = {} /\ \A p \in pc.jwt : Carries(cred, p) => rejected
    BY <2>1, Zenon DEF Behind
  <2>4. \A p \in oidc : p = OIDCProvider(c) /\ c.oidc.issuer # ""
    BY Zenon
  <2> HIDE DEF oidc, keys, jwts
  <2>5. i > OIDCEnd(c, pc) => ~ours /\ \A p \in oidc : Carries(cred, p) => rejected
    BY <2>1, <2>4, Zenon DEF Behind
  <2> QED
    BY <2>1, <2>2, <2>3, <2>5, Zenon DEF Behind
<1>4. /\ i \in KeysEnd(pc) + 1 .. JwtEnd(pc) => i > KeysEnd(pc)
      /\ i \in JwtEnd(pc) + 1 .. SecretEnd(c, pc) => i > KeysEnd(pc) /\ i > JwtEnd(pc)
      /\ i \in SecretEnd(c, pc) + 1 .. OIDCEnd(c, pc) =>
           i > KeysEnd(pc) /\ i > JwtEnd(pc) /\ i > SecretEnd(c, pc)
      /\ i \in OIDCEnd(c, pc) + 1 .. ChainEnd(c, pc) =>
           i > KeysEnd(pc) /\ i > JwtEnd(pc) /\ i > SecretEnd(c, pc) /\ i > OIDCEnd(c, pc)
  BY <1>2 DEF EndsInOrder
<1> HIDE DEF oidc, keys, jwts, secret, ours
<1>5. /\ i \in JwtEnd(pc) + 1 .. SecretEnd(c, pc) => c.secretKey # ""
      /\ i \in SecretEnd(c, pc) + 1 .. OIDCEnd(c, pc) => c.oidc.issuer # ""
      /\ i \in OIDCEnd(c, pc) + 1 .. ChainEnd(c, pc) => c.anonymous
  BY <1>2, BlockThere, Zenon
<1>6. CASE i \in 1 .. KeysEnd(pc) /\ A[i] \in pc.apiKeys /\ A[i].type = "apikey"
  <2>1. Matches(cred, A[i]) /\ role = A[i].role
    BY <1>6 DEF Entitled
  <2>2. A[i] \in keys
    BY <1>6, <2>1 DEF keys
  <2>3. Right(A[i].type, role) \in R1
    BY <1>6, <2>1, <2>2
  <2> QED
    BY <1>1, <2>2, <2>3, Zenon
<1>7. CASE i \in KeysEnd(pc) + 1 .. JwtEnd(pc) /\ A[i] \in pc.jwt /\ A[i].type = "jwt"
  <2>1. Ours(cred, A[i]) /\ role = roleOf(A[i]) /\ signed(A[i], {A[i].key})
    BY <1>7 DEF Entitled
  <2>2. A[i] \in jwts /\ keys = {}
    BY <1>3, <1>4, <1>7, <2>1, Zenon DEF jwts
  <2>3. Right(A[i].type, role) \in R2
    BY <1>7, <2>1, <2>2
  <2> QED
    BY <1>1, <2>2, <2>3, Zenon
<1>8. CASE i \in JwtEnd(pc) + 1 .. SecretEnd(c, pc) /\ A[i] = SecretProvider(c) /\ A[i].type = "apikey"
  <2>1. Matches(cred, SecretProvider(c)) /\ role = SecretProvider(c).role
    BY <1>8 DEF Entitled
  <2>2. role = <<"admin">>
    BY <2>1 DEF SecretProvider
  <2>3. secret
    BY <1>5, <1>8, <2>1 DEF secret
  <2>4. keys = {} /\ jwts = {}
    BY <1>3, <1>4, <1>8, Zenon
  <2> QED
    BY <1>1, <1>8, <2>2, <2>3, <2>4
<1>9. CASE i \in SecretEnd(c, pc) + 1 .. OIDCEnd(c, pc) /\ A[i] = OIDCProvider(c) /\ A[i].type = "oidc"
  <2>1. Ours(cred, A[i]) /\ role = roleOf(A[i]) /\ signed(A[i], IssuerKeys)
    BY <1>9 DEF Entitled
  <2>2. A[i] \in oidc
    BY <1>5, <1>9 DEF oidc
  <2>3. ours /\ Right(A[i].type, role) \in R4
    BY <1>9, <2>1, <2>2 DEF ours
  <2>4. keys = {} /\ jwts = {} /\ ~secret
    BY <1>3, <1>4, <1>9, Zenon
  <2> QED
    BY <1>1, <2>3, <2>4, Zenon
<1>10. CASE i \in OIDCEnd(c, pc) + 1 .. ChainEnd(c, pc) /\ A[i] = AnonymousProvider(c) /\ A[i].type = "anonymous"
  <2>1. ~rejected /\ role = AnonymousProvider(c).role
    BY <1>10 DEF Entitled
  <2>2. role = c.anonymousRole
    BY <2>1 DEF AnonymousProvider
  <2>3. /\ keys = {} /\ jwts = {} /\ ~secret /\ ~ours
        /\ \A p \in pc.jwt \cup oidc : ~Carries(cred, p)
    BY <1>3, <1>4, <1>10, <2>1, Zenon
  <2>4. bare
    BY <1>5, <1>10, <2>3, Zenon
  <2> QED
    BY <1>1, <1>10, <2>2, <2>3, <2>4
<1> QED
  BY <1>2, <1>6, <1>7, <1>8, <1>9, <1>10 DEF Placed

\* What is admitted has a right of the configuration.
AdmittedRights ==
    \A r \in Requests : req[r].st = "admitted" =>
        Right(req[r].via, req[r].role) \in Rights(<<env, file>>, req[r].cred)

LEMMA AdmittedRight == IInv => AdmittedRights
<1> SUFFICES ASSUME IInv, NEW r \in Requests, req[r].st = "admitted"
             PROVE  Right(req[r].via, req[r].role) \in Rights(<<env, file>>, req[r].cred)
  BY DEF AdmittedRights
<1> DEFINE x == req[r]
           A == Providers(x.node)
<1>1. ReqInv(x) /\ env \in Environments /\ file \in ConfigFiles
  BY DEF IInv
<1>2. /\ x.node \in Nodes /\ node[x.node].st = "up" /\ x.at \in 1 .. Len(A)
      /\ \A k \in 1 .. x.at - 1 : Passed(A[k], x.cred, x.rejected)
      /\ x.rejected \in BOOLEAN
      /\ x.via = A[x.at].type /\ Entitled(A[x.at], x.cred, x.rejected, x.role)
  BY <1>1 DEF ReqInv
<1>3. Layout(A, Settled, LoadFile(file)) /\ GoodMaps(LoadFile(file))
  <2>1. NodeInv(x.node)
    BY <1>2 DEF IInv
  <2> QED
    BY <1>1, <1>2, <2>1, UpChain
<1>4. <<env, file>>[1] = env /\ <<env, file>>[2] = file /\ Settled = Apply(env, LoadFile(file))
  BY DEF Settled
<1>5. LoadFile(file) = LoadFile(<<env, file>>[2]) /\ Settled = Apply(<<env, file>>[1], LoadFile(file))
  BY <1>4
<1>6. Right(A[x.at].type, x.role) \in Rights(<<env, file>>, x.cred)
  BY <1>2, <1>3, <1>5, AdmitsRight
<1> QED
  BY <1>2, <1>6

\* What a step does to a request.
Moves(r) ==
    \/ req'[r] = req[r]
    \/ req[r].st = "new" /\ req'[r].st = "pending" /\ req'[r].cred \in Credentials
    \/ /\ req[r].st \in {"pending", "waiting"} /\ req'[r].cred = req[r].cred
       /\ req'[r].st # "new"

LEMMA StepMoves ==
    ASSUME IInv, IInv', Next, NEW r \in Requests
    PROVE  Moves(r) /\ UNCHANGED <<env, file>>
<1>1. CASE req' = req /\ UNCHANGED <<env, file>>
  BY <1>1 DEF Moves
<1>2. ASSUME NEW s \in Requests, Arrive(s) PROVE Moves(r) /\ UNCHANGED <<env, file>>
  <2>1. req'[r] = req[r] \/ (req[r].st = "new" /\ req'[r].st = "pending" /\ req'[r].cred \in Credentials)
    BY <1>2 DEF Arrive, IInv, Request
  <2> QED
    BY <1>2, <2>1 DEF Moves, Arrive, nodeVars
<1>3. ASSUME NEW s \in Requests, Cancel(s) PROVE Moves(r) /\ UNCHANGED <<env, file>>
  <2>1. req'[r] = req[r] \/ (req[r].st = "waiting" /\ req'[r].st = "gone" /\ req'[r].cred = req[r].cred)
    BY <1>3 DEF Cancel, IInv, Request
  <2> QED
    BY <1>3, <2>1 DEF Moves, Cancel, nodeVars
<1>4. ASSUME NEW s \in Requests, Try(s) PROVE Moves(r) /\ UNCHANGED <<env, file>>
  <2>1. CASE s # r
    <3>1. req'[r] = req[r]
      BY <1>4, <2>1 DEF Try, IInv
    <3> QED
      BY <1>4, <3>1 DEF Moves, Try, nodeVars
  <2>2. CASE s = r
    <3>1. PICK o \in Outcomes(Providers(req[r].node)[req[r].at], req[r], cached[req[r].node]) :
            req' = [req EXCEPT ![r] = Proceed(req[r], o)]
      BY <1>4, <2>2 DEF Try
    <3>2. req[r].st = "pending" /\ UNCHANGED <<env, file>> /\ req'[r] = Proceed(req[r], o)
      BY <1>4, <2>2, <3>1 DEF Try, nodeVars, IInv
    <3>3. Tells(o, Providers(req[r].node)[req[r].at], req[r].cred, req[r].rejected)
      BY <3>1, <3>2, TryTells
    <3>4. GoesOn(req[r], o, req'[r]) /\ o.kind \in Kinds
      BY <3>2, <3>3, ProceedGoesOn DEF Tells
    <3>5. req'[r].cred = req[r].cred /\ req'[r].st # "new"
      BY <3>4 DEF GoesOn, Kinds
    <3> QED
      BY <3>2, <3>5 DEF Moves
  <2> QED
    BY <2>1, <2>2
<1>5. ASSUME NEW n \in Nodes, FetchAnswered(n) \/ FetchFails(n) PROVE Moves(r) /\ UNCHANGED <<env, file>>
  <2>1. UNCHANGED <<env, file>>
    BY <1>5 DEF FetchAnswered, FetchFails, nodeVars
  <2>2. PICK known : Resume(n, known) /\ known \in {published, {}}
    BY <1>5 DEF FetchAnswered, FetchFails
  <2>3. CASE ~(req[r].st = "waiting" /\ req[r].node = n)
    BY <2>1, <2>2, <2>3 DEF Resume, Moves
  <2>4. CASE req[r].st = "waiting" /\ req[r].node = n
    <3> DEFINE p == Providers(n)[req[r].at]
               o == AfterFetch(p, req[r].cred, known)
    <3>1. req'[r] = Proceed(req[r], o)
      BY <2>2, <2>4 DEF Resume
    <3>2. p.type = "oidc" /\ Ours(req[r].cred, p) /\ known \subseteq IssuerKeys
      BY <2>2, <2>4 DEF IInv, WaitInv
    <3>3. o.kind \in {"stop", "admit"}
      BY <3>2, AfterFetchAllows
    <3> HIDE DEF o
    <3>4. GoesOn(req[r], o, req'[r])
      BY <3>1, <3>3, ProceedGoesOn DEF Kinds
    <3> QED
      BY <2>1, <2>4, <3>3, <3>4 DEF GoesOn, Moves
  <2> QED
    BY <2>3, <2>4
<1>6. ASSUME NEW n \in Nodes, Configure(n) \/ Mount(n) PROVE Moves(r) /\ UNCHANGED <<env, file>>
  BY <1>1, <1>6 DEF Configure, Mount
<1>7. CASE Rotate \/ Tick
  BY <1>1, <1>7 DEF Rotate, Tick, nodeVars
<1> QED
  BY <1>2, <1>3, <1>4, <1>5, <1>6, <1>7 DEF Next

\* Nodes that start in any order, chains of any order, key fetches, rotations and
\* time implement Access: the verdict on a request is given once, and what is granted
\* is what environment and file together have for its credential.  The state of the
\* key cache, time and a client that leaves can turn a grant into a refusal; nothing
\* turns it into one that the configuration does not have.
THEOREM AccessImplemented == Spec => ImplementsAccess
<1>1. Init => Granting!Init
  <2> SUFFICES ASSUME Init PROVE Granting!Init
    OBVIOUS
  <2>1. \A r \in Requests : req[r].st = "new"
    BY DEF Init, NewRequest, Request
  <2>2. Sent = [r \in Requests |-> None] /\ Verdict = [r \in Requests |-> Right("open", <<>>)]
    BY <2>1 DEF Sent, Verdict, Decided
  <2>3. <<env, file>> \in Environments \X ConfigFiles
    BY DEF Init
  <2> QED
    BY <2>2, <2>3 DEF Granting!Init
<1>2. IInv /\ IInv' /\ AdmittedRights' /\ [Next]_vars => [Granting!Next]_(<<<<env, file>>, Sent, Verdict>>)
  <2>1. CASE UNCHANGED vars
    BY <2>1 DEF vars, Sent, Verdict
  <2>2. ASSUME IInv, IInv', AdmittedRights', Next PROVE Granting!Next
    <3>1. ASSUME NEW r \in Requests PROVE Granting!Stay(r) \/ Granting!Present(r) \/ Granting!Decide(r)
      <4>1. Moves(r) /\ UNCHANGED <<env, file>>
        BY <2>2, StepMoves
      <4>2. /\ Sent[r] = IF req[r].st = "new" THEN None ELSE req[r].cred
            /\ Sent'[r] = IF req'[r].st = "new" THEN None ELSE req'[r].cred
        BY DEF Sent
      <4>3. /\ Verdict[r] = IF req[r].st = "admitted" THEN Right(req[r].via, req[r].role)
                            ELSE IF req[r].st \in Decided THEN Right("refused", <<>>)
                            ELSE Right("open", <<>>)
            /\ Verdict'[r] = IF req'[r].st = "admitted" THEN Right(req'[r].via, req'[r].role)
                             ELSE IF req'[r].st \in Decided THEN Right("refused", <<>>)
                             ELSE Right("open", <<>>)
        BY DEF Verdict
      <4>4. CASE req'[r] = req[r]
        BY <4>2, <4>3, <4>4 DEF Granting!Stay
      <4>5. CASE req[r].st = "new" /\ req'[r].st = "pending" /\ req'[r].cred \in Credentials
        BY <4>2, <4>3, <4>5 DEF Granting!Present, Decided
      <4>6. CASE /\ req[r].st \in {"pending", "waiting"} /\ req'[r].cred = req[r].cred
                 /\ req'[r].st # "new"
        <5>1. Sent[r] = req[r].cred /\ Sent'[r] = req[r].cred /\ Verdict[r] = Right("open", <<>>)
          BY <4>2, <4>3, <4>6 DEF Decided
        <5>2. req[r].cred \in Credentials /\ req[r].cred # None
          BY <2>2, <4>6, AuthAssumption DEF IInv, ReqInv
        <5>3. CASE req'[r].st = "admitted"
          <6>1. Right(req'[r].via, req'[r].role) \in Rights(<<env', file'>>, req'[r].cred)
            BY <2>2, <5>3 DEF AdmittedRights
          <6>2. Verdict'[r] \in Rights(<<env, file>>, req[r].cred)
            BY <4>1, <4>3, <4>6, <5>3, <6>1
          <6> QED
            BY <5>1, <5>2, <6>2 DEF Granting!Decide
        <5>4. CASE req'[r].st \in Decided /\ req'[r].st # "admitted"
          <6>1. Verdict'[r] = Right("refused", <<>>)
            BY <4>3, <5>4
          <6> QED
            BY <5>1, <5>2, <6>1 DEF Granting!Decide
        <5>5. CASE req'[r].st \notin Decided
          <6>1. Verdict'[r] = Right("open", <<>>)
            BY <4>3, <5>5 DEF Decided
          <6> QED
            BY <5>1, <6>1 DEF Granting!Stay
        <5> QED
          BY <5>3, <5>4, <5>5
      <4> QED
        BY <4>1, <4>4, <4>5, <4>6 DEF Moves
    <3>2. UNCHANGED <<env, file>>
      BY <2>2 DEF Next, Configure, Mount, FetchAnswered, FetchFails, Arrive, Try, Cancel, Rotate, Tick, nodeVars
    <3> QED
      BY <3>1, <3>2 DEF Granting!Next
  <2> QED
    BY <2>1, <2>2
<1> QED
  BY <1>1, <1>2, SpecIInv, AdmittedRight, PTL DEF Spec, ImplementsAccess, Granting!Spec
=============================================================================
