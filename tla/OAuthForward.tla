---------------------------- MODULE OAuthForward ----------------------------
(***************************************************************************)
(* pkg/auth/oauth handleTokenRefresh and handleRevoke: requests that the   *)
(* proxy passes on to the OIDC provider, and the answers it passes back.   *)
(*                                                                         *)
(* The proxy keeps nothing, but what passes through it cannot be repeated: *)
(* the provider (external) replaces a refresh token when it is used, and   *)
(* the client knows the next one only if the answer reaches it.  PostForm  *)
(* does not know about the client's request: the provider may act for a    *)
(* client that has long gone.                                              *)
(*                                                                         *)
(* One session; its refresh tokens are numbered as they are issued.        *)
(***************************************************************************)
EXTENDS Naturals

CONSTANTS
    Calls,      \* requests to /oauth/token and /oauth/revoke
    MaxTokens,  \* bound: how often the provider replaces the token
    NoBody,     \* an answer without body
    BadBody,    \* one whose body is not JSON, or breaks off
    Error       \* one with an OAuth error in JSON

ASSUME ForwardAssumption ==
    /\ MaxTokens \in Nat
    /\ {NoBody, BadBody, Error} \cap Nat = {}
    /\ NoBody # BadBody /\ NoBody # Error /\ BadBody # Error

VARIABLES
    valid,      \* the refresh tokens that the provider accepts: one or none
    newest,     \* the last one issued
    revoked,    \* the tokens that a revocation was granted for
    held,       \* the token that the client has
    call        \* call[c]: where the call is, and what is known of it

vars == <<valid, newest, revoked, held, call>>

Tokens == 0 .. MaxTokens

\* "handler": before PostForm.  "provider": the provider has the request.
\* "answer": the provider has answered.  "reply": the handler has.
CallRecords ==
    [st: {"new", "handler", "provider", "answer", "reply", "done", "gone"},
     kind: {"refresh", "revoke"}, token: Tokens, status: {0, 200, 400, 502, 503},
     body: Tokens \cup {NoBody, BadBody, Error}]
Call(st, kind, token, status, body) ==
    [st |-> st, kind |-> kind, token |-> token, status |-> status, body |-> body]

\* What a handler has written has a status, and a body that can be read.
TypeOK ==
    /\ newest \in Tokens /\ held \in Tokens
    /\ valid \subseteq Tokens /\ revoked \subseteq Tokens
    /\ call \in [Calls -> CallRecords]
    /\ \A c \in Calls : call[c].st \in {"reply", "done", "gone"} =>
         call[c].status # 0 /\ call[c].body # BadBody

Init ==
    /\ valid = {0} /\ newest = 0 /\ revoked = {} /\ held = 0
    /\ call = [c \in Calls |-> Call("new", "refresh", 0, 0, NoBody)]
-----------------------------------------------------------------------------
Becomes(c, st, status, body) ==
    call' = [call EXCEPT ![c] = Call(st, @.kind, @.token, status, body)]

\* The client sends the token that it has; it may do so several times at once.
Send(c) ==
    /\ call[c].st = "new"
    /\ \E kind \in {"refresh", "revoke"} :
        call' = [call EXCEPT ![c] = Call("handler", kind, held, 0, NoBody)]
    /\ UNCHANGED <<valid, newest, revoked, held>>

\* handleRevoke answers by itself if the provider has no revocation endpoint.
Unsupported(c) ==
    /\ call[c].st = "handler" /\ call[c].kind = "revoke"
    /\ Becomes(c, "reply", 400, Error)
    /\ UNCHANGED <<valid, newest, revoked, held>>

\* PostForm to the token endpoint, or to the revocation endpoint.
PostRefresh(c) ==
    /\ call[c].st = "handler" /\ call[c].kind = "refresh"
    /\ Becomes(c, "provider", 0, NoBody)
    /\ UNCHANGED <<valid, newest, revoked, held>>

PostRevoke(c) ==
    /\ call[c].st = "handler" /\ call[c].kind = "revoke"
    /\ Becomes(c, "provider", 0, NoBody)
    /\ UNCHANGED <<valid, newest, revoked, held>>

\* The provider replaces a token that it accepts, and refuses any other.
ProviderRefresh(c) ==
    /\ call[c].st = "provider" /\ call[c].kind = "refresh"
    /\ \/ /\ call[c].token \in valid /\ newest < MaxTokens
          /\ newest' = newest + 1 /\ valid' = {newest + 1}
          /\ \E body \in {newest + 1, BadBody} : Becomes(c, "answer", 200, body)
       \/ /\ call[c].token \notin valid
          /\ Becomes(c, "answer", 400, Error)
          /\ UNCHANGED <<valid, newest>>
    /\ UNCHANGED <<revoked, held>>

\* It revokes a token, or finds that there is nothing to revoke.
ProviderRevoke(c) ==
    /\ call[c].st = "provider" /\ call[c].kind = "revoke"
    /\ valid' = valid \ {call[c].token}
    /\ revoked' = revoked \cup {call[c].token}
    /\ Becomes(c, "answer", 200, NoBody)
    /\ UNCHANGED <<newest, held>>

\* It does nothing, and says so.
ProviderBusy(c) ==
    /\ call[c].st = "provider"
    /\ \E body \in {Error, BadBody} : Becomes(c, "answer", 503, body)
    /\ UNCHANGED <<valid, newest, revoked, held>>

\* PostForm returns an error: the connection broke, before or after the provider acted.
PostFails(c) ==
    /\ call[c].st \in {"provider", "answer"}
    /\ Becomes(c, "reply", 502, Error)
    /\ UNCHANGED <<valid, newest, revoked, held>>

\* Fault: the answer is decoded into a struct that has no refresh_token.
ReplyRefreshTrimmed(c) ==
    /\ call[c].st = "answer" /\ call[c].kind = "refresh"
    /\ IF call[c].body = BadBody THEN Becomes(c, "reply", 502, Error)
       ELSE Becomes(c, "reply", call[c].status, IF call[c].body = Error THEN Error ELSE NoBody)
    /\ UNCHANGED <<valid, newest, revoked, held>>

\* Fault: the answer is copied as it is.
ReplyRefreshRaw(c) ==
    /\ call[c].st = "answer" /\ call[c].kind = "refresh"
    /\ Becomes(c, "reply", call[c].status, call[c].body)
    /\ UNCHANGED <<valid, newest, revoked, held>>

\* The end of handleTokenRefresh: any status with JSON passes as it is.
ReplyRefresh(c) ==
    /\ call[c].st = "answer" /\ call[c].kind = "refresh"
    /\ IF call[c].body = BadBody THEN Becomes(c, "reply", 502, Error)
       ELSE Becomes(c, "reply", call[c].status, call[c].body)
    /\ UNCHANGED <<valid, newest, revoked, held>>

\* Fault: the status is written before the answer is looked at.
ReplyRevokeOK(c) ==
    /\ call[c].st = "answer" /\ call[c].kind = "revoke"
    /\ Becomes(c, "reply", 200, NoBody)
    /\ UNCHANGED <<valid, newest, revoked, held>>

\* The end of handleRevoke: the status passes, with the body of an error if it is JSON.
ReplyRevoke(c) ==
    /\ call[c].st = "answer" /\ call[c].kind = "revoke"
    /\ Becomes(c, "reply", call[c].status,
               IF call[c].status # 200 /\ call[c].body # BadBody THEN call[c].body ELSE NoBody)
    /\ UNCHANGED <<valid, newest, revoked, held>>

\* The client gets the reply, and has a new token if there is one in it.
Deliver(c) ==
    /\ call[c].st = "reply"
    /\ Becomes(c, "done", call[c].status, call[c].body)
    /\ held' = IF call[c].body \in Tokens THEN call[c].body ELSE held
    /\ UNCHANGED <<valid, newest, revoked>>

\* The client has gone before the reply reaches it; nothing stops the handler.
Vanish(c) ==
    /\ call[c].st = "reply"
    /\ Becomes(c, "gone", call[c].status, call[c].body)
    /\ UNCHANGED <<valid, newest, revoked, held>>

Next ==
    \E c \in Calls :
        \/ Send(c) \/ Unsupported(c) \/ PostRefresh(c) \/ PostRevoke(c)
        \/ ProviderRefresh(c) \/ ProviderRevoke(c) \/ ProviderBusy(c) \/ PostFails(c)
        \/ ReplyRefresh(c) \/ ReplyRevoke(c)
        \/ Deliver(c) \/ Vanish(c)

Spec == Init /\ [][Next]_vars
-----------------------------------------------------------------------------
(* Properties *)

\* Who was told that a token is revoked need not fear it: the provider has revoked
\* it and will not accept it again, whatever refreshes are under way.
RevokedIsRevoked ==
    \A c \in Calls : (call[c].st = "done" /\ call[c].kind = "revoke" /\ call[c].status = 200) =>
        call[c].token \in revoked /\ call[c].token \notin valid

\* The proxy loses no session: a client that got an answer to all its calls, none of
\* them a 502, and that revoked nothing, has the token that the provider accepts,
\* though its calls overlap and all but one of them were refused.
SessionKept ==
    (/\ \A c \in Calls : call[c].st \in {"new", "done"} /\ call[c].status # 502
     /\ revoked = {})
        => held \in valid
=============================================================================
