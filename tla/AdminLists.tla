----------------------------- MODULE AdminLists -----------------------------
(***************************************************************************)
(* Browsing one of the admin panel's lists: users, rentals, payments,      *)
(* wallet transactions, power banks.  A screen holds a page number and its *)
(* filters, reads page and total with two queries that nothing orders      *)
(* (AdminRepository.find...), and keeps the answers of 30 seconds.  Rows   *)
(* are numbered in the order they appear and listed newest first; rows of  *)
(* one time come in any order, another one for every page that is read.    *)
(***************************************************************************)
EXTENDS Integers, FiniteSets

CONSTANTS MaxRows,  \* bound: rows created
          CreatedAt, \* the time of each row, createdAt or startedAt
          Limit,    \* rows of a page
          MaxKept   \* bound: answers kept

Filter == {"all", "open", "recent"}
Pages == 1..(MaxRows \div Limit + 1)
Unanswered == [rows |-> {0}, total |-> 0]

VARIABLES created,   \* rows so far
          open,      \* rows a status filter selects
          page,
          filter,
          answer,    \* what the screen shows, Unanswered while it loads
          reading,   \* the two queries of the request under way
          kept,      \* answers in the query cache
          unseen     \* history: rows with a time of their own that matched when
                     \* browsing began and were not shown since, or Spoilt

listVars == <<created, open, page, filter, answer, reading, kept, unseen>>

Spoilt == {0}

Listed == (SUBSET (1..MaxRows)) \cup {{0}}
Answer == [rows : Listed, total : 0..MaxRows]
Reading == [rows : Listed, total : 0..(MaxRows + 1)]
Unread == [rows |-> {0}, total |-> MaxRows + 1]

TypeOK ==
    /\ created \in 0..MaxRows
    /\ open \subseteq 1..created
    /\ page \in Pages
    /\ filter \in Filter
    /\ answer \in Answer
    /\ reading \in Reading
    /\ kept \in [Filter \X Pages -> Answer]
    /\ unseen = Spoilt \/ unseen \subseteq 1..created

\* where
Matching(f) == CASE f = "all"    -> 1..created
                 [] f = "open"   -> open
                 [] f = "recent" -> 2..created

\* Rows that share their time with no other.
Alone == {r \in 1..MaxRows :
            \A q \in 1..MaxRows \ {r} : CreatedAt[q] # CreatedAt[r]}

Sought(f) == Matching(f) \cap Alone

Newer(r, f) == Cardinality({q \in Matching(f) : CreatedAt[q] > CreatedAt[r]})

Peers(r, f) == {q \in Matching(f) : CreatedAt[q] = CreatedAt[r]}

SkipWholePages(p) == p * Limit

Skip(p) == (p - 1) * Limit

\* The places of a row and its peers in the list, as far as a page has them.
PlacesOnPage(r, f, p) ==
    (Newer(r, f)..(Newer(r, f) + Cardinality(Peers(r, f)) - 1))
       \cap (Skip(p)..(Skip(p) + Limit - 1))

\* orderBy createdAt desc, skip, take: the pages the database may answer.
FindMany(f, p) ==
    {s \in SUBSET Matching(f) :
       \A r \in Matching(f) :
          Cardinality(s \cap Peers(r, f)) = Cardinality(PlacesOnPage(r, f, p))}

TotalPages(n) == IF n = 0 THEN 1 ELSE (n + Limit - 1) \div Limit

Init ==
    /\ created \in 0..MaxRows
    /\ open \in {{}, 1..created}
    /\ page = 1
    /\ filter = "all"
    /\ answer = Unanswered
    /\ reading = Unread
    /\ kept = [k \in Filter \X Pages |-> Unanswered]
    /\ unseen = Sought("all")

\* The screen asks for another key: an answer that is kept is shown, else the
\* loading screen.
Show(f, p) ==
    /\ page' = p
    /\ filter' = f
    /\ answer' = kept[<<f, p>>]
    /\ reading' = Unread
    /\ UNCHANGED <<created, open, kept>>

\* Search and select boxes go back to the first page.
Choose(f) ==
    /\ answer # Unanswered
    /\ f # filter
    /\ Show(f, 1)
    /\ unseen' = IF kept[<<f, 1>>] = Unanswered THEN Sought(f) ELSE Spoilt

\* The date boxes of payments and wallet transactions do not.
ChooseDates ==
    /\ answer # Unanswered
    /\ filter # "open"
    /\ LET f == IF filter = "all" THEN "recent" ELSE "all" IN
         /\ Show(f, page)
         /\ unseen' = IF page = 1 /\ kept[<<f, 1>>] = Unanswered
                      THEN Sought(f) ELSE Spoilt

NextPage ==
    /\ answer # Unanswered
    /\ page < TotalPages(answer.total)
    /\ page < MaxRows \div Limit + 1
    /\ Show(filter, page + 1)
    /\ unseen' = IF kept[<<filter, page + 1>>] = Unanswered
                 THEN unseen ELSE Spoilt

PreviousPage ==
    /\ answer # Unanswered
    /\ page > 1
    /\ Show(filter, page - 1)
    /\ unseen' = Spoilt

\* A page is read when it is asked for, and again when its answer is stale or
\* the network is back.
ReadRows ==
    /\ reading.rows = Unread.rows
    /\ \E s \in FindMany(filter, page) : reading' = [reading EXCEPT !.rows = s]
    /\ UNCHANGED <<created, open, page, filter, answer, kept, unseen>>

ReadTotal ==
    /\ reading.total = Unread.total
    /\ reading' = [reading EXCEPT !.total = Cardinality(Matching(filter))]
    /\ UNCHANGED <<created, open, page, filter, answer, kept, unseen>>

\* Both are there: the answer is shown and kept.
Answered ==
    /\ reading.rows # Unread.rows
    /\ reading.total # Unread.total
    /\ Cardinality({k \in DOMAIN kept : kept[k] # Unanswered} \cup {<<filter, page>>})
         <= MaxKept
    /\ answer' = reading
    /\ kept' = [kept EXCEPT ![<<filter, page>>] = reading]
    /\ unseen' = unseen \ reading.rows
    /\ reading' = Unread
    /\ UNCHANGED <<created, open, page, filter>>

\* A failed request is asked again, by itself or with the retry button.
ReadFails ==
    /\ reading # Unread
    /\ reading' = Unread
    /\ UNCHANGED <<created, open, page, filter, answer, kept, unseen>>

\* An answer that is not on the screen has been kept long enough.
Forget ==
    /\ \E k \in DOMAIN kept \ {<<filter, page>>} :
          kept[k] # Unanswered /\ kept' = [kept EXCEPT ![k] = Unanswered]
    /\ UNCHANGED <<created, open, page, filter, answer, reading, unseen>>

\* A new row takes its place in the list.
Create ==
    /\ created < MaxRows
    /\ created' = created + 1
    /\ open' = open \cup {created + 1}
    /\ unseen' = IF reading.total # Unread.total /\ reading.rows = Unread.rows
                 THEN Spoilt ELSE unseen
    /\ UNCHANGED <<page, filter, answer, reading, kept>>

\* A row changes its status: the rows after it move up.
Leave ==
    /\ \E r \in open : open' = open \ {r}
    /\ unseen' = IF filter = "open" THEN Spoilt ELSE unseen
    /\ UNCHANGED <<created, page, filter, answer, reading, kept>>

Next ==
    \/ ChooseDates \/ NextPage \/ PreviousPage
    \/ ReadRows \/ ReadTotal \/ Answered \/ ReadFails \/ Forget
    \/ Create \/ Leave
    \/ \E f \in Filter : Choose(f)

Spec == Init /\ [][Next]_listVars

\* Whoever reads from the first page until "next" is disabled has seen every
\* row with a time of its own that matched when they began, although rows are
\* created meanwhile, rows of one time change places, and the total is counted
\* apart from the page.  Spoilt by rows that leave the filter, by a row created
\* between the count and the page, by answers kept from before, by going back,
\* and by the date boxes, which leave the reader in the middle.
BrowsingMissesNothing ==
    unseen # Spoilt /\ answer # Unanswered /\ page = TotalPages(answer.total) =>
        unseen = {}

\* Row r comes after the first p pages.
IsAfter(r, p) == Newer(r, filter) >= p * Limit

\* Rows not seen yet match, and come after the pages that were read.
UnseenAreAhead ==
    /\ unseen \subseteq Sought(filter)
    /\ \A r \in unseen : IsAfter(r, page - 1)

\* Those that the page shown does not have come after it, and it says so.
AnswerPromisesMore ==
    answer # Unanswered =>
       \A r \in unseen : IsAfter(r, page) /\ answer.total > page * Limit

\* So it will be with the page being read, whichever query is first.
ReadingPromisesMore ==
    IF reading.rows = Unread.rows
    THEN reading.total # Unread.total => reading.total = Cardinality(Matching(filter))
    ELSE \A r \in unseen \ reading.rows :
            /\ IsAfter(r, page)
            /\ reading.total # Unread.total => reading.total > page * Limit

\* The inductive invariant behind it.
BrowsingInv ==
    /\ TypeOK
    /\ unseen # Spoilt =>
          UnseenAreAhead /\ AnswerPromisesMore /\ ReadingPromisesMore
=============================================================================
