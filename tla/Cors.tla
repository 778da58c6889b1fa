-------------------------------- MODULE Cors --------------------------------
(***************************************************************************)
(* pkg/cors: the middleware in front of the API, and the lists it is given *)
(* by cmd/server.  What its headers are worth is decided by the browser    *)
(* (external, the Fetch standard): a page asks first with OPTIONS, unless  *)
(* its request is a simple one, then sends the request, then may read the  *)
(* answer or not.                                                          *)
(*                                                                         *)
(* A text is a sequence of words and separators; an origin, a method or a  *)
(* header is a text of one word.                                           *)
(***************************************************************************)
EXTENDS Naturals, Sequences

CONSTANTS
    Settings,   \* texts of CORS_ALLOWED_ORIGINS, _HEADERS and _METHODS
    Pages       \* requests of pages: origin, method, headers, with credentials or not

\* Words do not follow one another without a separator; an origin is one word.
Separators == {" ", ","}
IsText(t) ==
    /\ t \in Seq({t[i] : i \in DOMAIN t})
    /\ \A i \in 1 .. (Len(t) - 1) : t[i] \in Separators \/ t[i + 1] \in Separators

ASSUME CorsAssumption ==
    /\ \A s \in Settings : IsText(s.origins) /\ IsText(s.headers) /\ IsText(s.methods)
    /\ \A p \in Pages : Len(p.origin) = 1 /\ p.origin # <<",">>

VARIABLES
    settings,
    page        \* page[p]: how far the request of page p is

vars == <<settings, page>>

\* viper.GetStringSlice on an environment variable: the fields between white space,
\* each from its first place in the text to its last.
Fields(text) ==
    {ij \in (1 .. Len(text)) \X (1 .. Len(text)) :
        /\ ij[1] <= ij[2]
        /\ \A k \in ij[1] .. ij[2] : text[k] # " "
        /\ ij[1] = 1 \/ text[ij[1] - 1] = " "
        /\ ij[2] = Len(text) \/ text[ij[2] + 1] = " "}

GetStringSlice(text) == {SubSeq(text, ij[1], ij[2]) : ij \in Fields(text)}

DefaultHeaders == {<<"Content-Type">>, <<"Authorization">>, <<"x-api-key">>, <<"Accept">>,
                   <<"Content-Length">>, <<"Accept-Encoding">>, <<"X-CSRF-Token">>}
DefaultMethods == {<<"GET">>, <<"POST">>, <<"PUT">>, <<"DELETE">>, <<"OPTIONS">>}

Or(list, default) == IF list = {} THEN default ELSE list

Star == <<"*">>
NoAnswer == [origin |-> <<>>, headers |-> {}, methods |-> {}, credentials |-> FALSE]

\* Fault: every origin is reflected, unless the setting is a star.
MiddlewareReflects(origin) ==
    IF \E i \in DOMAIN settings.origins : settings.origins[i] # "*"
    THEN [origin |-> origin, headers |-> Or(GetStringSlice(settings.headers), DefaultHeaders),
          methods |-> Or(GetStringSlice(settings.methods), DefaultMethods), credentials |-> TRUE]
    ELSE NoAnswer

\* Fault: the headers of the preflight come without the origin.
MiddlewareNoOrigin(origin) == [NoAnswer EXCEPT !.headers = DefaultHeaders, !.methods = DefaultMethods]

\* The headers of the answer to a request from this origin.
Middleware(origin) ==
    LET origins == GetStringSlice(settings.origins)
    IN  IF origin \in origins
        THEN [origin |-> origin, headers |-> Or(GetStringSlice(settings.headers), DefaultHeaders),
              methods |-> Or(GetStringSlice(settings.methods), DefaultMethods), credentials |-> TRUE]
        ELSE IF origins = {Star} /\ \A x, y \in Fields(settings.origins) : x = y
        THEN [origin |-> Star, headers |-> {Star}, methods |-> {Star}, credentials |-> TRUE]
        ELSE NoAnswer
-----------------------------------------------------------------------------
(* The browser *)

Simple(p) == p.method \in {<<"GET">>, <<"POST">>} /\ p.headers = {}

OriginPasses(a, p) ==
    /\ a.origin = p.origin \/ (a.origin = Star /\ ~p.credentials)
    /\ p.credentials => a.credentials

PreflightPasses(a, p) ==
    /\ OriginPasses(a, p)
    /\ p.method \in a.methods \cup {<<"GET">>, <<"POST">>} \/ (Star \in a.methods /\ ~p.credentials)
    /\ \A h \in p.headers :
         h \in a.headers \/ (Star \in a.headers /\ ~p.credentials /\ h # <<"Authorization">>)

Init ==
    /\ settings \in Settings
    /\ page = [p \in Pages |-> "new"]

GoTo(p, st) == page' = [page EXCEPT ![p] = st] /\ UNCHANGED settings

\* OPTIONS: the middleware answers it itself, if it is there at all.
Preflight(p) ==
    /\ page[p] = "new" /\ ~Simple(p)
    /\ GoTo(p, IF PreflightPasses(Middleware(p.origin), p) THEN "allowed" ELSE "blocked")

\* The request reaches the engine.
Request(p) ==
    /\ page[p] = "allowed" \/ (page[p] = "new" /\ Simple(p))
    /\ GoTo(p, "executed")

\* The answer comes back; the page may read it or not.
Read(p) ==
    /\ page[p] = "executed"
    /\ GoTo(p, IF OriginPasses(Middleware(p.origin), p) THEN "read" ELSE "unreadable")

Next == \E p \in Pages : Preflight(p) \/ Request(p) \/ Read(p)

Spec == Init /\ [][Next]_vars
-----------------------------------------------------------------------------
(* Properties *)

\* What the administrator means by a list: its words, whatever stands between them.
Words(text) == {<<text[i]>> : i \in {j \in DOMAIN text : text[j] \notin Separators}}

\* A page of an origin that the setting does not name can neither read an answer nor
\* make the engine do what needs a preflight.
ForeignKeptOut ==
    \A p \in Pages : {p.origin, Star} \cap Words(settings.origins) = {} =>
        page[p] # "read" /\ (page[p] = "executed" => Simple(p))

\* Origin, headers and method of the page are on the lists.
Listed(p) ==
    /\ p.origin \in Words(settings.origins)
    /\ p.headers \subseteq Or(Words(settings.headers), DefaultHeaders)
    /\ p.method \in Or(Words(settings.methods), DefaultMethods)

\* README.md: the three settings are "comma separated" lists.  A page that is on them
\* gets through all three steps, and can read the answer in the end.
ListedGetsThrough ==
    \A p \in Pages : Listed(p) => page[p] \notin {"blocked", "unreadable"}

\* The words of the list are separated by white space alone.
Spaced(text) == \A i \in DOMAIN text : text[i] # ","

\* The same where white space separates the words: what the preflight allows to a page
\* on such lists, and what it may read in the end, agree with the lists.
SpacedGetsThrough ==
    Spaced(settings.origins) /\ Spaced(settings.headers) /\ Spaced(settings.methods)
        => ListedGetsThrough
=============================================================================
