------------------------------ MODULE Overview ------------------------------
(***************************************************************************)
(* The admin dashboard.  One request counts the tables with queries that   *)
(* run side by side and each see what is committed when it is their turn   *)
(* (AdminRepository.getOverviewSnapshot), while the system goes on.  Kept  *)
(* are those of its sixteen queries whose figures the screen relates: the  *)
(* stations and their statuses, the rentals completed ever and today.      *)
(***************************************************************************)
EXTENDS Integers, FiniteSets

CONSTANTS Station,
          MaxWrites,  \* bound: writes of the system
          HasBroker   \* MQTT_URL is set

Status == {"active", "inactive", "maintenance"}
CabinetState == {"none", "fresh", "old"}   \* no device, heard of in time, or not

Query == {"byStatus", "records", "completed", "today"}

VARIABLES stations,  \* created stations |-> status and cabinet
          completed, \* completed rentals, and how many of them today
          writes,    \* writes so far
          counted,   \* what the queries of the request under way have read
          since,     \* writes when it began, Idle if there is none
          answer,    \* the last snapshot, NoAnswer before the first
          failed     \* the last request failed

overviewVars == <<stations, completed, writes, counted, since, answer, failed>>

database == <<stations, completed, writes>>

Idle == MaxWrites + 1
NoAnswer == [writes |-> Idle]

CountOf(S, P(_)) == Cardinality({s \in S : P(s)})

Created == {s \in Station : stations[s].status # "none"}

TypeOK ==
    /\ stations \in [Station -> [status : Status \cup {"none"}, cabinet : CabinetState]]
    /\ completed \in [rows : Nat, today : Nat]
    /\ writes \in 0..MaxWrites
    /\ DOMAIN counted \subseteq Query
    /\ since \in 0..Idle
    /\ answer.writes \in 0..Idle
    /\ failed \in BOOLEAN

Init ==
    /\ completed = [rows |-> 1, today |-> 1]
    /\ \E S \in {{}, Station} :
          stations = [s \in Station |->
                        [status |-> IF s \in S THEN "active" ELSE "none",
                         cabinet |-> IF s \in S THEN "fresh" ELSE "none"]]
    /\ writes = 0
    /\ counted = <<>>
    /\ since = Idle
    /\ answer = NoAnswer
    /\ failed = FALSE
-----------------------------------------------------------------------------
\* What the rest of the system commits meanwhile.

Write ==
    /\ writes < MaxWrites
    /\ writes' = writes + 1
    /\ UNCHANGED <<counted, since, answer, failed>>

CreateStation(s) ==
    /\ Write
    /\ s \notin Created
    /\ stations' = [stations EXCEPT ![s] = [status |-> "active", cabinet |-> "none"]]
    /\ UNCHANGED completed

\* A station edited or deleted, which sets it inactive.
ChangeStatus(s) ==
    /\ Write
    /\ s \in Created
    /\ \E t \in Status \ {stations[s].status} :
          stations' = [stations EXCEPT ![s].status = t]
    /\ UNCHANGED completed

\* A device assigned, heard of, or not heard of in time.
ChangeCabinet(s) ==
    /\ Write
    /\ s \in Created
    /\ \E c \in CabinetState \ {stations[s].cabinet, "none"} :
          stations' = [stations EXCEPT ![s].cabinet = c]
    /\ UNCHANGED completed

CompleteRental ==
    /\ Write
    /\ completed' = [rows |-> completed.rows + 1, today |-> completed.today + 1]
    /\ UNCHANGED stations
-----------------------------------------------------------------------------
\* The request.

\* The screen is opened, its answer is stale, or "retry".
Ask ==
    /\ since = Idle
    /\ since' = writes
    /\ counted' = <<>>
    /\ UNCHANGED <<database, answer, failed>>

\* groupBy status
ByStatus == [t \in Status |-> CountOf(Station, LAMBDA s : stations[s].status = t)]

\* findMany: one row for each station
Records == [c \in CabinetState |-> CountOf(Created, LAMBDA s : stations[s].cabinet = c)]

Value(q) ==
    CASE q = "byStatus"  -> ByStatus
      [] q = "records"   -> Records
      [] q = "completed" -> completed.rows
      [] q = "today"     -> completed.today

Count(q) ==
    /\ since # Idle
    /\ q \notin DOMAIN counted
    /\ counted' = [r \in DOMAIN counted \cup {q} |->
                     IF r = q THEN Value(q) ELSE counted[r]]
    /\ UNCHANGED <<database, since, answer, failed>>

CalculateCabinetHealth(records) ==
    IF HasBroker THEN [online |-> records["fresh"], offline |-> records["old"]]
    ELSE [online |-> 0, offline |-> 0]

Sum(f) == f["active"] + f["inactive"] + f["maintenance"]

LosesMaintenance(f) == f["active"] + f["inactive"]

\* active, inactive and maintenance, as getOverviewSnapshot spreads the groups
StationCounts(f) == Sum(f)

TotalStations(records) == records["none"] + records["fresh"] + records["old"]

Answered ==
    /\ since # Idle
    /\ DOMAIN counted = Query
    /\ answer' = [writes |-> writes - since,
                  stations |-> TotalStations(counted["records"]),
                  inStatus |-> StationCounts(counted["byStatus"]),
                  health |-> CalculateCabinetHealth(counted["records"]),
                  completed |-> counted["completed"],
                  today |-> counted["today"]]
    /\ failed' = FALSE
    /\ since' = Idle
    /\ counted' = <<>>
    /\ UNCHANGED database

\* One query fails: so does the request, and after one more try the screen
\* shows the error, also in place of an older answer.
Fails ==
    /\ since # Idle
    /\ since' = Idle
    /\ counted' = <<>>
    /\ failed' = TRUE
    /\ UNCHANGED <<database, answer>>

Next ==
    \/ CompleteRental
    \/ \E s \in Station :
          CreateStation(s) \/ ChangeStatus(s) \/ ChangeCabinet(s)
    \/ Ask \/ Answered \/ Fails
    \/ \E q \in Query : Count(q)

Spec == Init /\ [][Next]_overviewVars
-----------------------------------------------------------------------------
Shown == answer # NoAnswer /\ ~failed

\* What one answer may disagree about.
FiguresAgree ==
    /\ answer.today - answer.completed <= answer.writes
    /\ answer.inStatus - answer.stations <= answer.writes
    /\ answer.stations - answer.inStatus <= answer.writes
    /\ answer.health.online + answer.health.offline <= answer.stations

\* The figures of one screen contradict each other by no more than what was
\* written while they were counted: so many more rentals completed today than
\* ever, so many more or fewer stations than their statuses add up to.  Online
\* and offline cabinets come from one query and never exceed the stations.
FiguresDriftByWrites == Shown => FiguresAgree

\* A figure read since the request began is behind by at most the writes since.
Lags(figure, n) ==
    figure \in Nat /\ figure <= n /\ n - figure <= writes - since

\* Behind it: what each query has read, and what is true of the tables.
CountsLag ==
    since # Idle =>
       /\ since <= writes
       /\ "completed" \in DOMAIN counted => Lags(counted["completed"], completed.rows)
       /\ "today" \in DOMAIN counted => Lags(counted["today"], completed.today)
       /\ "byStatus" \in DOMAIN counted =>
             Lags(StationCounts(counted["byStatus"]), Cardinality(Created))
       /\ "records" \in DOMAIN counted =>
             /\ counted["records"] \in [CabinetState -> Nat]
             /\ Lags(TotalStations(counted["records"]), Cardinality(Created))

TodayIsCompleted == completed.today <= completed.rows

\* The inductive invariant behind it.
OverviewInv ==
    /\ TypeOK
    /\ TodayIsCompleted
    /\ CountsLag
    /\ answer # NoAnswer => FiguresAgree
=============================================================================
