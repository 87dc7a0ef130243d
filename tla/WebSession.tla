---------------------------- MODULE WebSession ----------------------------
(***************************************************************************)
(* A signed-in page of the customer or admin web app (http.ts,             *)
(* auth-store.ts, auth-provider.tsx: the two apps share them) against the  *)
(* token endpoints of AuthService.  A pair is numbered in the order it is  *)
(* issued and stands for its access token and its refresh token.  Requests *)
(* of the page overlap; one refresh serves all that met a 401.             *)
(***************************************************************************)
EXTENDS Integers, FiniteSets

CONSTANTS Call,      \* requests the page has under way at once
          MaxPairs,  \* bound: token pairs issued
          None

Pair == 1..MaxPairs

VARIABLES session,     \* sessionState and its copy in localStorage
          refreshing,  \* refreshPromise, and where its request stands
          call,        \* the requests of the page
          issued,      \* pairs issued so far
          revoked,     \* pairs whose refresh token the server has revoked
          fresh,       \* pairs whose access token is still accepted
          loggedOut,   \* history: logout has ended and nobody signed in since
          overlap,     \* history: a refresh outlived a logout
          cut          \* history: a reload cut off a request that revokes

vars == <<session, refreshing, call, issued, revoked, fresh, loggedOut,
          overlap, cut>>

NoCall == [at |-> "idle", kind |-> None, bearer |-> None, body |-> None,
           retry |-> FALSE]

CallState ==
    {r \in [at : {"idle", "sent", "waiting"}, kind : {"api", "logout", None},
            bearer : Pair \cup {None}, body : Pair \cup {None}, retry : BOOLEAN] :
       r.at = "idle" => r.kind = None}
Refresh == [token : Pair, pair : Pair,
            at : {"find", "revoke", "issue", "answer", "refused"}]

TypeOK ==
    /\ session \in Pair \cup {None}
    /\ refreshing \in Refresh \cup {None}
    /\ call \in [Call -> CallState]
    /\ issued \in 0..MaxPairs
    /\ revoked \cup fresh \subseteq 1..issued
    /\ loggedOut \in BOOLEAN
    /\ overlap \in BOOLEAN
    /\ cut \in BOOLEAN

Init ==
    /\ session = None
    /\ refreshing = None
    /\ call = [c \in Call |-> NoCall]
    /\ issued = 0
    /\ revoked = {}
    /\ fresh = {}
    /\ loggedOut = FALSE
    /\ overlap = FALSE
    /\ cut = FALSE

LoggingOut == \E c \in Call : call[c].kind = "logout"

\* issueTokens
IssueTokens ==
    /\ issued < MaxPairs
    /\ issued' = issued + 1
    /\ fresh' = fresh \cup {issued + 1}

\* loginWithOtp and setSession: the login screen is shown without a session.
LoginWithOtp ==
    /\ session = None
    /\ IssueTokens
    /\ session' = issued + 1
    /\ loggedOut' = FALSE
    /\ UNCHANGED <<refreshing, call, revoked, overlap, cut>>

\* request(): the bearer token is the session's at this moment.  logout()
\* also captures the refresh token it will ask the server to revoke; its
\* button is enabled again when the page is shown anew.
Request(c, kind) ==
    /\ call[c].at = "idle"
    /\ session # None
    /\ call' = [call EXCEPT ![c] = [at |-> "sent", kind |-> kind,
                  bearer |-> session, body |-> session, retry |-> TRUE]]
    /\ UNCHANGED <<session, refreshing, issued, revoked, fresh, loggedOut,
                   overlap, cut>>

AfterLogoutOnlyOnSuccess(ok, s) == IF ok THEN None ELSE s

\* The finally clause of logout().
AfterLogout(ok, s) == None

\* Request c is over.  A logout ends with clearSession, failed or not.
End(c, ok, s, r) ==
    /\ call' = [call EXCEPT ![c] = NoCall]
    /\ session' = IF call[c].kind = "logout" THEN AfterLogout(ok, s) ELSE s
    /\ loggedOut' = (loggedOut \/ call[c].kind = "logout")
    /\ overlap' = (overlap \/ (call[c].kind = "logout" /\ r # None))

\* The server accepts the access token; /auth/logout revokes its body.
Accepted(c) ==
    /\ call[c].at = "sent"
    /\ call[c].bearer \in fresh
    /\ revoked' = IF call[c].kind = "logout" THEN revoked \cup {call[c].body}
                  ELSE revoked
    /\ End(c, TRUE, session, refreshing)
    /\ UNCHANGED <<refreshing, issued, fresh, cut>>

\* fetch rejects, or the server fails.
Fails(c) ==
    /\ call[c].at = "sent"
    /\ End(c, FALSE, session, refreshing)
    /\ UNCHANGED <<refreshing, issued, revoked, fresh, cut>>

MustRefreshEachCall == TRUE

\* if (!refreshPromise)
MustRefresh == refreshing = None

\* 401 on the first attempt, with a session: join or start the refresh.
Unauthorized(c) ==
    /\ call[c].at = "sent"
    /\ call[c].bearer \notin fresh
    /\ call[c].retry
    /\ session # None
    /\ call' = [call EXCEPT ![c].at = "waiting"]
    /\ refreshing' = IF MustRefresh THEN [token |-> session, pair |-> session,
                                          at |-> "find"]
                     ELSE refreshing
    /\ UNCHANGED <<session, issued, revoked, fresh, loggedOut, overlap, cut>>

\* 401 on the retry, or with the session gone: the error reaches the caller.
Rejected(c) ==
    /\ call[c].at = "sent"
    /\ call[c].bearer \notin fresh
    /\ call[c].retry => session = None
    /\ End(c, FALSE, session, refreshing)
    /\ UNCHANGED <<refreshing, issued, revoked, fresh, cut>>

(***************************************************************************)
(* AuthService.refresh, one statement at a time.                           *)
(***************************************************************************)
FindRefreshToken ==
    /\ refreshing # None
    /\ refreshing.at = "find"
    /\ refreshing' = [refreshing EXCEPT !.at =
                        IF refreshing.token \in revoked THEN "refused"
                        ELSE "revoke"]
    /\ UNCHANGED <<session, call, issued, revoked, fresh, loggedOut, overlap,
                   cut>>

RevokeRefreshToken ==
    /\ refreshing # None
    /\ refreshing.at = "revoke"
    /\ revoked' = revoked \cup {refreshing.token}
    /\ refreshing' = [refreshing EXCEPT !.at = "issue"]
    /\ UNCHANGED <<session, call, issued, fresh, loggedOut, overlap, cut>>

IssueRefreshed ==
    /\ refreshing # None
    /\ refreshing.at = "issue"
    /\ IssueTokens
    /\ refreshing' = [refreshing EXCEPT !.at = "answer", !.pair = issued + 1]
    /\ UNCHANGED <<session, call, revoked, loggedOut, overlap, cut>>

\* The user is inactive, a statement fails, the answer is lost, or it
\* expired: the page sees an error whatever the server has done by now.
RefreshFails ==
    /\ refreshing # None
    /\ refreshing.at # "refused"
    /\ refreshing' = [refreshing EXCEPT !.at = "refused"]
    /\ UNCHANGED <<session, call, issued, revoked, fresh, loggedOut, overlap,
                   cut>>

OnlyTheFirstWaiter ==
    IF \E c \in Call : call[c].at = "waiting"
    THEN {CHOOSE c \in Call : call[c].at = "waiting"} ELSE {}

\* Every request that awaited refreshPromise goes on.
Waiters == {c \in Call : call[c].at = "waiting"}

\* setSession with the new pair; the waiting requests are sent once more,
\* with the token of the session and their old body.
Refreshed ==
    /\ refreshing # None
    /\ refreshing.at = "answer"
    /\ session' = refreshing.pair
    /\ refreshing' = None
    /\ call' = [c \in Call |-> IF c \in Waiters
                  THEN [call[c] EXCEPT !.at = "sent",
                          !.bearer = refreshing.pair, !.retry = FALSE]
                  ELSE call[c]]
    /\ UNCHANGED <<issued, revoked, fresh, loggedOut, overlap, cut>>

\* clearSession; the waiting requests fail with the 401 they had.
NotRefreshed ==
    /\ refreshing # None
    /\ refreshing.at = "refused"
    /\ session' = None
    /\ refreshing' = None
    /\ call' = [c \in Call |-> IF c \in Waiters THEN NoCall ELSE call[c]]
    /\ loggedOut' = (loggedOut \/ \E c \in Waiters : call[c].kind = "logout")
    /\ UNCHANGED <<issued, revoked, fresh, overlap, cut>>

\* The page is loaded again: loadSession finds the stored session, requests
\* under way have reached the server or not.
Reload ==
    /\ cut' = (cut \/ refreshing # None \/ LoggingOut)
    /\ \E done \in SUBSET ({r.token : r \in {refreshing} \ {None}}
                \cup {call[c].body : c \in {d \in Call : call[d].kind = "logout"}}) :
         revoked' = revoked \cup done
    /\ refreshing' = None
    /\ call' = [c \in Call |-> NoCall]
    /\ UNCHANGED <<session, issued, fresh, loggedOut, overlap>>

AccessExpires ==
    /\ \E p \in fresh : fresh' = fresh \ {p}
    /\ UNCHANGED <<session, refreshing, call, issued, revoked, loggedOut,
                   overlap, cut>>

Answers(c) == Accepted(c) \/ Fails(c) \/ Unauthorized(c) \/ Rejected(c)

RefreshStep ==
    \/ FindRefreshToken \/ RevokeRefreshToken \/ IssueRefreshed
    \/ RefreshFails \/ Refreshed \/ NotRefreshed

Next ==
    \/ LoginWithOtp \/ Reload \/ AccessExpires \/ RefreshStep
    \/ \E c \in Call : Answers(c) \/ \E k \in {"api", "logout"} : Request(c, k)

\* fetch answers or rejects; the page cannot keep a request waiting.
Fairness ==
    /\ WF_vars(RefreshStep)
    /\ \A c \in Call : WF_vars(Answers(c))

Spec == Init /\ [][Next]_vars /\ Fairness

(***************************************************************************)
(* Properties                                                              *)
(***************************************************************************)

\* A page that no reload has cut off never asks for a refresh with a token an
\* earlier refresh of its own has rotated, and never keeps such a session:
\* refreshPromise is shared, refresh() revokes before it issues.  It can do
\* both when a refresh outlives a logout.
SessionIsLive ==
    ~cut /\ ~overlap /\ ~LoggingOut =>
        /\ session # None /\ refreshing = None => session \notin revoked
        /\ refreshing # None /\ refreshing.at = "find"
              => refreshing.token \notin revoked

\* Once logout() has ended the page has no session until somebody signs in,
\* also when the logout request failed or was itself refreshed; only a
\* refresh of another request, under way at that moment, can bring one back.
LogoutIsFinal == loggedOut /\ ~overlap => session = None

\* A request ends, with an answer or an error: a 401 is retried once and no
\* waiter of a refresh is forgotten.
CallsSettle == \A c \in Call : call[c].at # "idle" ~> call[c].at = "idle"

\* What the page works with has been issued, and nothing else.
OnlyIssued ==
    /\ session \in 1..issued \cup {None}
    /\ refreshing # None =>
         refreshing.token \in 1..issued /\ refreshing.pair \in 1..issued
    /\ \A c \in Call : call[c].kind = "logout" => call[c].body \in 1..issued

\* The inductive invariant behind the first two: while nothing has gone wrong
\* between logout and refresh, a refresh is of the session the page has, and
\* the pair it brings is not revoked.
RefreshesItsOwn ==
    ~cut /\ ~overlap /\ ~LoggingOut /\ refreshing # None =>
       /\ session = refreshing.token
       /\ refreshing.at = "answer" => refreshing.pair \notin revoked

LogoutEndsIt == loggedOut /\ ~overlap => session = None /\ refreshing = None

SessionInv ==
    /\ TypeOK
    /\ OnlyIssued
    /\ SessionIsLive
    /\ RefreshesItsOwn
    /\ LogoutEndsIt
=============================================================================
