------------------------------- MODULE MCCors -------------------------------
(* Settings of one, two or no origins, and pages of a listed and a foreign one. *)
EXTENDS Cors

Origin(text) == [origins |-> text, headers |-> <<>>, methods |-> <<>>]
MCSettings ==
    {Origin(<<>>), Origin(<<"a">>), Origin(<<"a", " ", "b">>), Origin(<<"*">>),
     Origin(<<"*", " ", "*">>), Origin(<<"a", ",", "b">>),
     [origins |-> <<"a">>, headers |-> <<"x-api-key">>, methods |-> <<"GET", " ", "DELETE">>]}

PagesOf(origin) ==
    {[origin |-> origin, method |-> <<"GET">>, headers |-> {}, credentials |-> FALSE],
     [origin |-> origin, method |-> <<"POST">>, headers |-> {<<"Authorization">>}, credentials |-> FALSE],
     [origin |-> origin, method |-> <<"DELETE">>, headers |-> {<<"x-api-key">>}, credentials |-> TRUE]}
MCPages == PagesOf(<<"a">>) \cup PagesOf(<<"c">>)
=============================================================================
