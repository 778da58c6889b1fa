----------------------------- MODULE CorsProofs -----------------------------
(***************************************************************************)
(* For all settings and pages: a foreign origin is kept out, and one that  *)
(* is on a list separated by white space gets through.                     *)
(***************************************************************************)
EXTENDS Cors, TLAPS

States == {"new", "allowed", "blocked", "executed", "read", "unreadable"}

CorsTypeOK == settings \in Settings /\ page \in [Pages -> States]

Foreign(p) == {p.origin, Star} \cap Words(settings.origins) = {}

\* What a foreign page has been allowed so far: nothing that a preflight decides.
ForeignInv ==
    \A p \in Pages : Foreign(p) =>
        page[p] \notin {"allowed", "read"} /\ (page[p] = "executed" => Simple(p))

SpacedSettings == Spaced(settings.origins) /\ Spaced(settings.headers) /\ Spaced(settings.methods)

IInv == CorsTypeOK /\ ForeignInv /\ SpacedGetsThrough
-----------------------------------------------------------------------------
(* The list of origins *)

LEMMA OneWord ==
    ASSUME NEW S, NEW text \in Seq(S), NEW i \in 1 .. Len(text), NEW j \in 1 .. Len(text), i <= j,
           Len(SubSeq(text, i, j)) = 1
    PROVE  i \in DOMAIN text /\ i \in i .. j /\ SubSeq(text, i, j) = <<text[i]>>
<1> DEFINE w == SubSeq(text, i, j)
<1>1. i = j
  OBVIOUS
<1>2. w \in Seq(S) /\ w[1] = text[i]
  BY <1>1
<1>3. w = <<w[1]>>
  <2> HIDE DEF w
  <2>1. Len(w) = 1
    BY DEF w
  <2> QED
    BY <1>2, <2>1
<1> QED
  BY <1>1, <1>2, <1>3

\* A field of a setting that is a single word is one of its words.
LEMMA FieldIsWord ==
    ASSUME NEW S, NEW text \in Seq(S), NEW w \in GetStringSlice(text), Len(w) = 1, w # <<",">>
    PROVE  w \in Words(text)
<1>1. PICK i \in 1 .. Len(text), j \in 1 .. Len(text) :
         /\ w = SubSeq(text, i, j) /\ i <= j /\ \A k \in i .. j : text[k] # " "
  BY DEF GetStringSlice, Fields
<1>2. i \in DOMAIN text /\ i \in i .. j /\ w = <<text[i]>>
  BY <1>1, OneWord
<1>3. text[i] # "," /\ text[i] # " "
  BY <1>1, <1>2, Zenon
<1> QED
  BY <1>2, <1>3 DEF Words, Separators

LEMMA WordAt ==
    ASSUME NEW S, NEW text \in Seq(S), NEW i \in 1 .. Len(text)
    PROVE  SubSeq(text, i, i) = <<text[i]>>
<1>1. Len(SubSeq(text, i, i)) = 1
  OBVIOUS
<1> QED
  BY <1>1, OneWord

LEMMA Neighbours ==
    ASSUME NEW n \in Nat, NEW i \in 1 .. n
    PROVE  /\ i \in i .. i /\ i <= i
           /\ \A k \in i .. i : k = i
           /\ \A j \in 1 .. n : i <= j => i \in i .. j
           /\ \A j \in 1 .. n : i <= j /\ i # j =>
                 i + 1 \in i .. j /\ i \in 1 .. (n - 1) /\ i + 1 \in 1 .. n
           /\ i # n => i \in 1 .. (n - 1) /\ i + 1 \in 1 .. n
           /\ i # 1 => i - 1 \in 1 .. (n - 1) /\ i - 1 \in 1 .. n /\ (i - 1) + 1 = i
OBVIOUS

\* White space alone between the words: the fields are the words.
LEMMA FieldsAreWords ==
    ASSUME NEW text, IsText(text), Spaced(text)
    PROVE  GetStringSlice(text) = Words(text)
<1>0. PICK S : text \in Seq(S)
  BY DEF IsText
<1>1. DOMAIN text = 1 .. Len(text) /\ Len(text) \in Nat
  BY <1>0
<1>2. ASSUME NEW w \in GetStringSlice(text) PROVE w \in Words(text)
  <2>1. PICK i \in 1 .. Len(text), j \in 1 .. Len(text) :
           w = SubSeq(text, i, j) /\ i <= j /\ \A k \in i .. j : text[k] # " "
    BY <1>2 DEF GetStringSlice, Fields
  <2>2. i = j
    <3>1. SUFFICES ASSUME i # j PROVE FALSE
      OBVIOUS
    <3>2. i \in i .. j /\ i + 1 \in i .. j /\ i \in 1 .. (Len(text) - 1) /\ i + 1 \in 1 .. Len(text)
      BY <1>1, <2>1, <3>1, Neighbours, Zenon
    <3>3. text[i] # " " /\ text[i + 1] # " "
      BY <2>1, <3>2
    <3>4. text[i] # "," /\ text[i + 1] # ","
      BY <1>1, <3>2 DEF Spaced
    <3>5. text[i] \in Separators \/ text[i + 1] \in Separators
      BY <3>2 DEF IsText
    <3> QED
      BY <3>3, <3>4, <3>5 DEF Separators
  <2>3. w = <<text[i]>>
    BY <1>0, <2>1, <2>2, WordAt
  <2>4. text[i] # " " /\ text[i] # ","
    <3>1. i \in i .. j
      BY <1>1, <2>1, Neighbours, Zenon
    <3> QED
      BY <1>1, <2>1, <3>1 DEF Spaced
  <2> QED
    BY <1>1, <2>3, <2>4 DEF Words, Separators
<1>3. ASSUME NEW w \in Words(text) PROVE w \in GetStringSlice(text)
  <2>1. PICK i \in DOMAIN text : text[i] \notin Separators /\ w = <<text[i]>>
    BY <1>3 DEF Words
  <2>2. text[i] # " " /\ i \in 1 .. Len(text)
    BY <1>1, <2>1 DEF Separators
  <2>3. i = 1 \/ text[i - 1] = " "
    <3>1. SUFFICES ASSUME i # 1 PROVE text[i - 1] = " "
      OBVIOUS
    <3>2. i - 1 \in 1 .. (Len(text) - 1) /\ i - 1 \in DOMAIN text /\ (i - 1) + 1 = i
      BY <1>1, <2>2, <3>1, Neighbours, Zenon
    <3>3. text[i - 1] \in Separators
      BY <2>1, <3>2 DEF IsText
    <3> QED
      BY <3>2, <3>3 DEF Separators, Spaced
  <2>4. i = Len(text) \/ text[i + 1] = " "
    <3>1. SUFFICES ASSUME i # Len(text) PROVE text[i + 1] = " "
      OBVIOUS
    <3>2. i \in 1 .. (Len(text) - 1) /\ i + 1 \in DOMAIN text
      BY <1>1, <2>2, <3>1, Neighbours, Zenon
    <3>3. text[i + 1] \in Separators
      BY <2>1, <3>2 DEF IsText
    <3> QED
      BY <3>2, <3>3 DEF Separators, Spaced
  <2>5. <<i, i>> \in Fields(text)
    <3>1. i <= i /\ \A k \in i .. i : text[k] # " "
      BY <1>1, <2>2, Neighbours, Zenon
    <3> DEFINE ij == <<i, i>>
    <3>2. ij \in (1 .. Len(text)) \X (1 .. Len(text)) /\ ij[1] = i /\ ij[2] = i
      BY <2>2
    <3> HIDE DEF ij
    <3>3. ij \in Fields(text)
      BY <2>3, <2>4, <3>1, <3>2, Zenon DEF Fields
    <3> QED
      BY <3>3 DEF ij
  <2>6. SubSeq(text, i, i) = w
    BY <1>0, <2>1, <2>2, WordAt
  <2> QED
    <3> DEFINE ij == <<i, i>>
    <3>1. ij \in Fields(text) /\ ij[1] = i /\ ij[2] = i
      BY <2>5
    <3> HIDE DEF ij
    <3> QED
      BY <2>6, <3>1, Zenon DEF GetStringSlice
<1> QED
  BY <1>2, <1>3

\* The browser lets no foreign page pass.
LEMMA ForeignFails ==
    ASSUME settings \in Settings, NEW p \in Pages, Foreign(p)
    PROVE  ~OriginPasses(Middleware(p.origin), p)
<1> DEFINE origins == GetStringSlice(settings.origins)
<1>0. PICK S : settings.origins \in Seq(S)
  BY CorsAssumption DEF IsText
<1>1. p.origin \notin origins
  <2>1. Len(p.origin) = 1 /\ p.origin # <<",">>
    BY CorsAssumption
  <2> QED
    BY <1>0, <2>1, FieldIsWord DEF Foreign
<1>2. Star \notin origins
  <2>1. Len(Star) = 1 /\ Star # <<",">>
    BY DEF Star
  <2> QED
    BY <1>0, <2>1, FieldIsWord DEF Foreign
<1>3. Middleware(p.origin) = NoAnswer
  BY <1>1, <1>2 DEF Middleware
<1>4. NoAnswer.origin # p.origin /\ NoAnswer.origin # Star
  <2>1. NoAnswer.origin = <<>>
    BY DEF NoAnswer
  <2>2. Len(p.origin) = 1 /\ Len(Star) = 1 /\ Len(<<>>) = 0
    BY CorsAssumption DEF Star
  <2> QED
    BY <2>1, <2>2
<1> QED
  BY <1>3, <1>4 DEF OriginPasses

\* The browser lets a listed page pass, before and after its request.
LEMMA ListedPasses ==
    ASSUME NEW p, Listed(p), settings \in Settings, SpacedSettings
    PROVE  OriginPasses(Middleware(p.origin), p) /\ PreflightPasses(Middleware(p.origin), p)
<1> DEFINE a == Middleware(p.origin)
<1>0. /\ GetStringSlice(settings.origins) = Words(settings.origins)
      /\ GetStringSlice(settings.headers) = Words(settings.headers)
      /\ GetStringSlice(settings.methods) = Words(settings.methods)
  BY FieldsAreWords, CorsAssumption DEF SpacedSettings
<1>1. /\ a.origin = p.origin /\ a.credentials = TRUE
      /\ a.headers = Or(Words(settings.headers), DefaultHeaders)
      /\ a.methods = Or(Words(settings.methods), DefaultMethods)
  BY <1>0 DEF Middleware, Listed
<1>2. OriginPasses(a, p)
  BY <1>1 DEF OriginPasses
<1>3. PreflightPasses(a, p)
  BY <1>1, <1>2 DEF PreflightPasses, Listed
<1> QED
  BY <1>2, <1>3
-----------------------------------------------------------------------------
LEMMA InitIInv == Init => IInv
  BY DEF Init, IInv, CorsTypeOK, States, ForeignInv, SpacedGetsThrough, ListedGetsThrough

\* A step of one page leaves the settings and the other pages alone.
LEMMA StepIInv == IInv /\ [Next]_vars => IInv'
<1> SUFFICES ASSUME IInv, [Next]_vars PROVE IInv'
  OBVIOUS
<1> USE DEF IInv
<1>0. CASE UNCHANGED vars
  BY <1>0 DEF vars, CorsTypeOK, ForeignInv, Foreign, SpacedGetsThrough, ListedGetsThrough, Listed
<1>1. ASSUME NEW p \in Pages, NEW st \in States, GoTo(p, st),
             Foreign(p) => st \notin {"allowed", "read"} /\ (st = "executed" => Simple(p)),
             SpacedSettings /\ Listed(p) => st \notin {"blocked", "unreadable"}
      PROVE  IInv'
  <2>1. settings' = settings /\ page' = [page EXCEPT ![p] = st]
    BY <1>1 DEF GoTo
  <2>2. CorsTypeOK'
    BY <2>1 DEF CorsTypeOK
  <2>3. \A q \in Pages : page'[q] = IF q = p THEN st ELSE page[q]
    BY <2>1 DEF CorsTypeOK
  <2>4. ForeignInv'
    BY <1>1, <2>1, <2>3 DEF ForeignInv, Foreign
  <2>5. SpacedGetsThrough'
    BY <1>1, <2>1, <2>3 DEF SpacedGetsThrough, SpacedSettings, ListedGetsThrough, Listed
  <2> QED
    BY <2>2, <2>4, <2>5
<1>2. ASSUME NEW p \in Pages, Preflight(p) PROVE IInv'
  <2>1. CASE PreflightPasses(Middleware(p.origin), p)
    <3>1. ~Foreign(p)
      BY <2>1, ForeignFails DEF PreflightPasses, CorsTypeOK
    <3>2. GoTo(p, "allowed")
      BY <1>2, <2>1 DEF Preflight
    <3> QED
      BY <1>1, <3>1, <3>2 DEF States
  <2>2. CASE ~PreflightPasses(Middleware(p.origin), p)
    <3>1. ~(SpacedSettings /\ Listed(p))
      BY <2>2, ListedPasses DEF CorsTypeOK
    <3>2. GoTo(p, "blocked")
      BY <1>2, <2>2 DEF Preflight
    <3> QED
      BY <1>1, <3>1, <3>2 DEF States
  <2> QED
    BY <2>1, <2>2
<1>3. ASSUME NEW p \in Pages, Request(p) PROVE IInv'
  <2>1. GoTo(p, "executed") /\ (page[p] = "allowed" \/ Simple(p))
    BY <1>3 DEF Request
  <2>2. Foreign(p) => Simple(p)
    BY <2>1 DEF ForeignInv
  <2> QED
    BY <1>1, <2>1, <2>2 DEF States
<1>4. ASSUME NEW p \in Pages, Read(p) PROVE IInv'
  <2>1. CASE OriginPasses(Middleware(p.origin), p)
    <3>1. ~Foreign(p)
      BY <2>1, ForeignFails DEF CorsTypeOK
    <3>2. GoTo(p, "read")
      BY <1>4, <2>1 DEF Read
    <3> QED
      BY <1>1, <3>1, <3>2 DEF States
  <2>2. CASE ~OriginPasses(Middleware(p.origin), p)
    <3>1. ~(SpacedSettings /\ Listed(p))
      BY <2>2, ListedPasses DEF CorsTypeOK
    <3>2. GoTo(p, "unreadable")
      BY <1>4, <2>2 DEF Read
    <3> QED
      BY <1>1, <3>1, <3>2 DEF States
  <2> QED
    BY <2>1, <2>2
<1> QED
  BY <1>0, <1>2, <1>3, <1>4 DEF Next

LEMMA SpecIInv == Spec => []IInv
  BY InitIInv, StepIInv, PTL DEF Spec

\* Whatever the settings, a page of an origin they do not name reads no answer, and
\* makes the engine do nothing that the browser asks about first: Middleware sends no
\* header to an origin that is not a field of CORS_ALLOWED_ORIGINS.
THEOREM ForeignIsKeptOut == Spec => []ForeignKeptOut
<1>1. IInv => ForeignKeptOut
  BY DEF IInv, ForeignInv, ForeignKeptOut, Foreign
<1> QED
  BY <1>1, SpecIInv, PTL

\* Whatever the lists, as long as white space separates their words: what Middleware
\* answers to the preflight and to the request of a page on them agree, so the page is
\* neither blocked nor left with an answer it cannot read.
THEOREM SpacedIsServed == Spec => []SpacedGetsThrough
<1>1. IInv => SpacedGetsThrough
  BY DEF IInv
<1> QED
  BY <1>1, SpecIInv, PTL
=============================================================================
