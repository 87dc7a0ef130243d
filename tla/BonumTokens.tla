---------------------------- MODULE BonumTokens ----------------------------
(***************************************************************************)
(* BonumProvider: invoices are created with an access token that the       *)
(* process caches, refreshes and, after a 401, replaces.  Requests for     *)
(* invoices overlap at every await and share the cache without a lock.     *)
(* Token pairs are numbered in the order Bonum issues them.                *)
(***************************************************************************)
EXTENDS Integers, FiniteSets

CONSTANTS Invoice,    \* createInvoice calls under way at once
          MaxTokens,  \* bound: pairs issued
          None

VARIABLES tokens,     \* the cached pair
          lapsed,     \* pairs whose access token has expired by our clock
          ended,      \* pairs whose refresh token has expired by our clock
          accepted,   \* pairs whose access token Bonum still accepts
          pairs,      \* pairs issued so far
          ask         \* the calls

bonumVars == <<tokens, lapsed, ended, accepted, pairs, ask>>

NoAsk == [at |-> "idle", bearer |-> None, got |-> None, since |-> None]

Token == 1..MaxTokens

TypeOK ==
    /\ tokens \in Token \cup {None}
    /\ lapsed \cup ended \cup accepted \subseteq 1..pairs
    /\ pairs \in 0..MaxTokens
    /\ ask \in [Invoice -> [at : {"idle", "token", "refresh", "create", "send"},
                            bearer : Token \cup {None},
                            got : Token \cup {None},
                            since : 0..MaxTokens \cup {None}]]

Init ==
    /\ tokens = None
    /\ lapsed = {}
    /\ ended = {}
    /\ accepted = {}
    /\ pairs = 0
    /\ ask = [i \in Invoice |-> NoAsk]

Step(i, r) == ask' = [ask EXCEPT ![i] = r]

\* The 401 has been met: getAccessToken(config, true).
Forced(i) == ask[i].since # None

CreateInvoice(i) ==
    /\ ask[i].at = "idle"
    /\ Step(i, [NoAsk EXCEPT !.at = "token"])
    /\ UNCHANGED <<tokens, lapsed, ended, accepted, pairs>>

CachedWillDoUnforced(i) == tokens # None /\ tokens \notin lapsed

CachedWillDo(i) == ~Forced(i) /\ tokens # None /\ tokens \notin lapsed

\* getAccessToken up to its first await: the cached token, a refresh of the
\* cached pair, or a new pair.
GetAccessToken(i) ==
    /\ ask[i].at = "token"
    /\ Step(i, IF CachedWillDo(i)
               THEN [ask[i] EXCEPT !.at = "send", !.bearer = tokens]
               ELSE [ask[i] EXCEPT !.at = IF tokens # None /\ tokens \notin ended
                                          THEN "refresh" ELSE "create"])
    /\ UNCHANGED <<tokens, lapsed, ended, accepted, pairs>>

\* Bonum issues a pair.  Whether it goes on accepting older ones is its
\* affair, and the answer may be lost.
BonumIssues(i) ==
    /\ ask[i].at \in {"refresh", "create"}
    /\ ask[i].got = None
    /\ pairs < MaxTokens
    /\ pairs' = pairs + 1
    /\ \/ accepted' = accepted \cup {pairs + 1}
       \/ accepted' = {pairs + 1}
    /\ Step(i, [ask[i] EXCEPT !.got = pairs + 1])
    /\ UNCHANGED <<tokens, lapsed, ended>>

\* parseTokenResponse, this.tokens = ..., and the token this call was given.
TokensArrive(i) ==
    /\ ask[i].got # None
    /\ tokens' = ask[i].got
    /\ Step(i, [ask[i] EXCEPT !.at = "send", !.bearer = ask[i].got,
                              !.got = None])
    /\ UNCHANGED <<lapsed, ended, accepted, pairs>>

\* A failed refresh falls back to creating a pair, a failed create ends the
\* call with BONUM_AUTH_FAILED.
TokensFail(i) ==
    /\ ask[i].at \in {"refresh", "create"}
    /\ Step(i, IF ask[i].at = "refresh"
               THEN [ask[i] EXCEPT !.at = "create", !.got = None] ELSE NoAsk)
    /\ UNCHANGED <<tokens, lapsed, ended, accepted, pairs>>

\* Any answer but a 401, or a failed fetch: createInvoice returns or throws.
Answered(i) ==
    /\ ask[i].at = "send"
    /\ Step(i, NoAsk)
    /\ UNCHANGED <<tokens, lapsed, ended, accepted, pairs>>

\* A 401: once more with a token of its own, then the 401 is the answer.
Refused(i) ==
    /\ ask[i].at = "send"
    /\ ask[i].bearer \notin accepted
    /\ Step(i, IF Forced(i) THEN NoAsk
               ELSE [NoAsk EXCEPT !.at = "token", !.since = pairs])
    /\ UNCHANGED <<tokens, lapsed, ended, accepted, pairs>>

\* Our clock is asked of the cached pair only.
TimePasses ==
    /\ \/ lapsed' = lapsed \cup ({tokens} \ {None}) /\ UNCHANGED <<ended, accepted>>
       \/ ended' = ended \cup ({tokens} \ {None}) /\ UNCHANGED <<lapsed, accepted>>
       \/ /\ \E p \in accepted : accepted' = accepted \ {p}
          /\ UNCHANGED <<lapsed, ended>>
    /\ UNCHANGED <<tokens, pairs, ask>>

\* A restarted process has no cache and no call under way.
Restart ==
    /\ tokens' = None
    /\ ask' = [i \in Invoice |-> NoAsk]
    /\ UNCHANGED <<lapsed, ended, accepted, pairs>>

Next ==
    \/ TimePasses \/ Restart
    \/ \E i \in Invoice :
         \/ CreateInvoice(i) \/ GetAccessToken(i) \/ BonumIssues(i)
         \/ TokensArrive(i) \/ TokensFail(i) \/ Answered(i) \/ Refused(i)

Spec == Init /\ [][Next]_bonumVars

\* An invoice that Bonum answered with 401 is asked for again with a token
\* issued after that answer, whatever other calls put into the cache
\* meanwhile: a stale cached pair costs one round trip, never an invoice.
RetriesWithNewToken ==
    \A i \in Invoice :
        ask[i].at = "send" /\ Forced(i) => ask[i].bearer > ask[i].since
\* The inductive invariant behind it: a token under way to a call was issued
\* after the 401 that the call has met, the cached one has been issued.
RetriesInv ==
    /\ TypeOK
    /\ RetriesWithNewToken
    /\ tokens \in 1..pairs \cup {None}
    /\ \A i \in Invoice :
         /\ Forced(i) => ask[i].since <= pairs
         /\ ask[i].got # None =>
              /\ ask[i].got <= pairs
              /\ Forced(i) => ask[i].got > ask[i].since
=============================================================================
