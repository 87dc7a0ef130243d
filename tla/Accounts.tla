------------------------------ MODULE Accounts ------------------------------
(***************************************************************************)
(* Who a sign-in belongs to: users and their identities                    *)
(* (UsersRepository), sign-in by phone and by Google, and verification of  *)
(* a national id with DAN (AuthService, AuthRepository).  Each handler     *)
(* looks up before it writes; only the unique keys of the schema order     *)
(* handlers that overlap.                                                  *)
(***************************************************************************)
EXTENDS Integers, FiniteSets

CONSTANTS Visitor,     \* handlers that overlap
          User,        \* ids of users
          Phone,
          Google,      \* Google accounts (the subject of the id token)
          Mail,        \* [Google -> mail address or None]
          NationalId,
          None

VARIABLES user,      \* the rows of users: [phone, email, tier], or None
          identity,  \* auth_identities: the user of each phone and account
          dan,       \* dan_verifications: the national id of each user
          visit,     \* where each handler stands
          consents   \* google:state and dan:state keys in Redis

accountVars == <<user, identity, dan, visit, consents>>

Away == [at |-> "idle", who |-> None, as |-> None]

Sub == Phone \cup Google

EmailOf(s) == IF s \in Google THEN Mail[s] ELSE None

UserRow == [phone : Phone \cup {None}, email : {EmailOf(s) : s \in Sub},
            tier : {1, 2}]

Visit == [at : {"idle", "byMail", "link", "create", "dan", "upsert", "mark"},
          who : Sub \cup NationalId \cup {None}, as : User \cup {None}]

TypeOK ==
    /\ user \in [User -> UserRow \cup {None}]
    /\ identity \in [Sub -> User \cup {None}]
    /\ dan \in [User -> NationalId \cup {None}]
    /\ visit \in [Visitor -> Visit]
    /\ consents \subseteq {"google"} \cup User

Init ==
    /\ user = [u \in User |-> None]
    /\ identity = [s \in Sub |-> None]
    /\ dan = [u \in User |-> None]
    /\ visit = [v \in Visitor |-> Away]
    /\ consents = {}

Known == {u \in User : user[u] # None}

At(v, step, who, as) ==
    visit' = [visit EXCEPT ![v] = [at |-> step, who |-> who, as |-> as]]

Leave(v) == visit' = [visit EXCEPT ![v] = Away]

WithEmail(m) == {u \in Known : m # None /\ user[u].email = m}

\* findOrCreatePhoneUser, first statement: a known phone signs in at once.
FindByPhone(v, p) ==
    /\ visit[v].at = "idle"
    /\ \A u \in Known : user[u].phone # p
    /\ At(v, "create", p, None)
    /\ UNCHANGED <<user, identity, dan, consents>>

\* initiateGoogleAuth and initiateDan store a state with a TTL.
Initiate(s) ==
    /\ s \in {"google"} \cup Known
    /\ consents' = consents \cup {s}
    /\ UNCHANGED <<user, identity, dan, visit>>

ConsentExpires ==
    /\ \E s \in consents : consents' = consents \ {s}
    /\ UNCHANGED <<user, identity, dan, visit>>

\* completeGoogleAuth: GETDEL of the state, the exchange with Google, then
\* findByIdentity.  When the exchange fails the state is spent.
CompleteGoogle(v, g) ==
    /\ visit[v].at = "idle"
    /\ "google" \in consents
    /\ consents' = consents \ {"google"}
    /\ \/ identity[g] = None /\ At(v, "byMail", g, None)
       \/ UNCHANGED visit
    /\ UNCHANGED <<user, identity, dan>>

\* findByEmail decides between linking and creating.
FindByEmail(v) ==
    /\ visit[v].at = "byMail"
    /\ LET owners == WithEmail(EmailOf(visit[v].who)) IN
         \/ owners = {} /\ At(v, "create", visit[v].who, None)
         \/ \E u \in owners : At(v, "link", visit[v].who, u)
    /\ UNCHANGED <<user, identity, dan, consents>>

\* linkIdentity is an upsert on the key (provider, providerUserId).
LinkIdentity(v) ==
    /\ visit[v].at = "link"
    /\ identity' = [identity EXCEPT ![visit[v].who] = visit[v].as]
    /\ Leave(v)
    /\ UNCHANGED <<user, dan, consents>>

OnlyMailIsTaken(s) == WithEmail(EmailOf(s)) # {}

\* The unique keys of the phone, the mail address and the identity.
Taken(s) ==
    \/ identity[s] # None
    \/ s \in Phone /\ \E u \in Known : user[u].phone = s
    \/ WithEmail(EmailOf(s)) # {}

\* create inserts the user and its identity in one statement.
CreateUser(v) ==
    /\ visit[v].at = "create"
    /\ LET s == visit[v].who IN
         \/ Taken(s) /\ UNCHANGED <<user, identity>>
         \/ /\ ~Taken(s)
            /\ \E u \in User \ Known :
                 /\ user' = [user EXCEPT ![u] =
                      [phone |-> IF s \in Phone THEN s ELSE None,
                       email |-> EmailOf(s), tier |-> 1]]
                 /\ identity' = [identity EXCEPT ![s] = u]
    /\ Leave(v)
    /\ UNCHANGED <<dan, consents>>

(***************************************************************************)
(* DAN                                                                     *)
(***************************************************************************)

\* exchangeDanCode: two requests to DAN, the answers of both checked, and
\* any of them may fail.
ExchangeDanCode(v, u, n) == At(v, "dan", n, u) \/ UNCHANGED visit

\* completeDan: GETDEL of the state, then the exchange; when it fails the
\* state is spent.
CompleteDan(v, u, n) ==
    /\ visit[v].at = "idle"
    /\ u \in consents
    /\ consents' = consents \ {u}
    /\ ExchangeDanCode(v, u, n)
    /\ UNCHANGED <<user, identity, dan>>

HeldBySomeoneElse(u, n) == \E w \in User \ {u} : dan[w] = n

\* findDanVerificationByNationalIdHash: 409 when another user has the id.
CheckNationalId(v) ==
    /\ visit[v].at = "dan"
    /\ IF HeldBySomeoneElse(visit[v].as, visit[v].who) THEN Leave(v)
       ELSE At(v, "upsert", visit[v].who, visit[v].as)
    /\ UNCHANGED <<user, identity, dan, consents>>

NationalIdIsFreeUnchecked(u, n) == TRUE

\* nationalIdHash is unique.
NationalIdIsFree(u, n) == ~HeldBySomeoneElse(u, n)

\* upsertDanVerification, keyed by the user.
UpsertDan(v) ==
    /\ visit[v].at = "upsert"
    /\ LET u == visit[v].as
           n == visit[v].who
       IN  IF NationalIdIsFree(u, n)
           THEN /\ dan' = [dan EXCEPT ![u] = n]
                /\ At(v, "mark", n, u)
           ELSE Leave(v) /\ UNCHANGED dan
    /\ UNCHANGED <<user, identity, consents>>

\* markDanVerified
MarkDanVerified(v) ==
    /\ visit[v].at = "mark"
    /\ user' = [user EXCEPT ![visit[v].as].tier = 2]
    /\ Leave(v)
    /\ UNCHANGED <<identity, dan, consents>>

\* The process dies, or a statement fails.
VisitFails(v) ==
    /\ visit[v].at # "idle"
    /\ Leave(v)
    /\ UNCHANGED <<user, identity, dan, consents>>

Next ==
    \/ ConsentExpires
    \/ \E s \in {"google"} \cup User : Initiate(s)
    \/ \E v \in Visitor :
         \/ FindByEmail(v) \/ LinkIdentity(v) \/ CreateUser(v)
         \/ CheckNationalId(v) \/ UpsertDan(v) \/ MarkDanVerified(v)
         \/ VisitFails(v)
         \/ \E p \in Phone : FindByPhone(v, p)
         \/ \E g \in Google : CompleteGoogle(v, g)
         \/ \E u \in User, n \in NationalId : CompleteDan(v, u, n)

Spec == Init /\ [][Next]_accountVars

(***************************************************************************)
(* Properties                                                              *)
(***************************************************************************)

\* A user of tier 2 has a verification on record, and no two users share a
\* national id, whatever verifications overlap or fail half way.
VerifiedHasIdentity ==
    /\ \A u \in Known : user[u].tier = 2 => dan[u] # None
    /\ \A u, w \in User : dan[u] = dan[w] /\ dan[u] # None => u = w

\* A sign-in method leads to one user for good: once linked, an identity
\* never moves, and no user can be reached by nobody.
IdentitiesAreStable ==
    [][/\ \A s \in Sub : identity[s] # None => identity'[s] = identity[s]
       /\ \A u \in User : user'[u] # None => \E s \in Sub : identity'[s] = u
      ]_accountVars

\* The inductive invariant behind them: what a handler has found out is still
\* so when it writes, because nothing of it is ever taken back.
ConsentsOfUsers == consents \subseteq {"google"} \cup Known

EveryoneIsReachable == \A u \in Known : \E s \in Sub : identity[s] = u

IdentityMatchesMail ==
    \A s \in Sub : identity[s] # None =>
       identity[s] \in Known /\ user[identity[s]].email = EmailOf(s)

MailsAreUnique ==
    \A u, w \in Known :
       user[u].email = user[w].email /\ user[u].email # None => u = w

FindingsStand ==
    \A v \in Visitor :
       /\ visit[v].at \in {"byMail", "link", "create"} => visit[v].who \in Sub
       /\ visit[v].at = "link" =>
            visit[v].as \in WithEmail(EmailOf(visit[v].who))
       /\ visit[v].at \in {"dan", "upsert", "mark"} =>
            visit[v].who \in NationalId /\ visit[v].as \in Known
       /\ visit[v].at = "mark" => dan[visit[v].as] # None

AccountsInv ==
    /\ TypeOK
    /\ VerifiedHasIdentity
    /\ ConsentsOfUsers
    /\ EveryoneIsReachable
    /\ IdentityMatchesMail
    /\ MailsAreUnique
    /\ FindingsStand
=============================================================================
