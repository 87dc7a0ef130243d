----------------------------- MODULE OAuthCodes -----------------------------
(***************************************************************************)
(* From a Google consent to the tokens of the mobile app: AuthController   *)
(* googleAuth, googleCallback, exchangeCode over the Redis keys            *)
(* google:state:<state> and oauth:code:<code>.  The browser may load the   *)
(* callback again and the app may repeat the exchange; either key may      *)
(* expire, and a process may die between two statements.                   *)
(***************************************************************************)
EXTENDS Integers, FiniteSets

CONSTANTS Consent,   \* states, and the consent each stands for
          Callback,  \* requests for the callback that overlap
          None

VARIABLES pending,   \* google:state keys
          callback,  \* what each callback request works on
          minted,    \* consent -> refresh tokens issued for it
          codes,     \* oauth:code keys: the consent each pair came from
          handed,    \* consent -> times a token pair reached an app
          spent      \* consents that were ever initiated

oauthVars == <<pending, callback, minted, codes, handed, spent>>

TypeOK ==
    /\ pending \subseteq spent
    /\ spent \subseteq Consent
    /\ callback \in [Callback -> [at : {"idle", "exchange", "store"},
                                  for : Consent \cup {None}]]
    /\ codes \subseteq Consent
    /\ minted \in [Consent -> Nat]
    /\ handed \in [Consent -> Nat]

Init ==
    /\ pending = {}
    /\ callback = [c \in Callback |-> [at |-> "idle", for |-> None]]
    /\ minted = [s \in Consent |-> 0]
    /\ codes = {}
    /\ handed = [s \in Consent |-> 0]
    /\ spent = {}

\* initiateGoogleAuth: a fresh random state, SET with EX 300.
InitiateGoogleAuth(s) ==
    /\ s \notin spent
    /\ spent' = spent \cup {s}
    /\ pending' = pending \cup {s}
    /\ UNCHANGED <<callback, minted, codes, handed>>

AfterLook(keys, s) == keys

\* GETDEL
AfterTake(keys, s) == keys \ {s}

\* completeGoogleAuth takes the state, else GOOGLE_AUTH_FAILED.
TakeState(c, s) ==
    /\ callback[c].at = "idle"
    /\ s \in pending
    /\ pending' = AfterTake(pending, s)
    /\ callback' = [callback EXCEPT ![c] = [at |-> "exchange", for |-> s]]
    /\ UNCHANGED <<minted, codes, handed, spent>>

\* exchangeGoogleCode and issueTokens.
IssueTokens(c) ==
    /\ callback[c].at = "exchange"
    /\ minted' = [minted EXCEPT ![callback[c].for] = @ + 1]
    /\ callback' = [callback EXCEPT ![c].at = "store"]
    /\ UNCHANGED <<pending, codes, handed, spent>>

\* issueOnetimeCode, then the redirect carries the code.
IssueOnetimeCode(c) ==
    /\ callback[c].at = "store"
    /\ codes' = codes \cup {callback[c].for}
    /\ callback' = [callback EXCEPT ![c] = [at |-> "idle", for |-> None]]
    /\ UNCHANGED <<pending, minted, handed, spent>>

\* Google refuses, the user is inactive, a statement fails, the process dies:
\* the app is redirected with an error or not at all.
CallbackFails(c) ==
    /\ callback[c].at # "idle"
    /\ callback' = [callback EXCEPT ![c] = [at |-> "idle", for |-> None]]
    /\ UNCHANGED <<pending, minted, codes, handed, spent>>

\* exchangeOnetimeCode, asked once or again; its answer may be lost, which
\* leaves the code used and the tokens with nobody.
ExchangeOnetimeCode(s) ==
    /\ s \in codes
    /\ codes' = AfterTake(codes, s)
    /\ \/ handed' = [handed EXCEPT ![s] = @ + 1]
       \/ UNCHANGED handed
    /\ UNCHANGED <<pending, callback, minted, spent>>

KeyExpires ==
    /\ \/ /\ \E s \in pending : pending' = pending \ {s}
          /\ UNCHANGED codes
       \/ /\ \E s \in codes : codes' = codes \ {s}
          /\ UNCHANGED pending
    /\ UNCHANGED <<callback, minted, handed, spent>>

Next ==
    \/ KeyExpires
    \/ \E s \in Consent : InitiateGoogleAuth(s) \/ ExchangeOnetimeCode(s)
    \/ \E c \in Callback :
         \/ IssueTokens(c) \/ IssueOnetimeCode(c) \/ CallbackFails(c)
         \/ \E s \in Consent : TakeState(c, s)

Spec == Init /\ [][Next]_oauthVars

\* One consent signs in one app: a callback loaded twice, an exchange asked
\* again, requests that overlap and keys that expire never make a second pair
\* of tokens out of a consent, nor hand one pair to two.
OneSessionPerConsent ==
    \A s \in Consent : handed[s] <= minted[s] /\ minted[s] <= 1
\* The inductive invariant behind it: a consent is in one place at a time,
\* and every pair of tokens is at most one step ahead of the app.
OnTheWay(s) == {c \in Callback : callback[c].at # "idle" /\ callback[c].for = s}

OneSessionInv ==
    /\ TypeOK
    /\ \A c \in Callback : callback[c].at # "idle" => callback[c].for \in spent
    /\ codes \subseteq spent
    /\ \A s \in Consent :
         /\ s \in pending => OnTheWay(s) = {}
         /\ s \in pending => s \notin codes /\ minted[s] = 0
         /\ \A c, d \in OnTheWay(s) : c = d
         /\ \A c \in OnTheWay(s) :
              /\ s \notin codes
              /\ handed[s] = 0
              /\ minted[s] = IF callback[c].at = "store" THEN 1 ELSE 0
         /\ s \in codes => minted[s] = 1 /\ handed[s] = 0
         /\ s \notin spent => minted[s] = 0
         /\ handed[s] <= minted[s] /\ minted[s] <= 1
=============================================================================
