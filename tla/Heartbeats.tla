----------------------------- MODULE Heartbeats -----------------------------
(***************************************************************************)
(* When a cabinet counts as online: messages on the heartbeat, status and  *)
(* slot topics (CabinetCommandService), the copy of the last one in the    *)
(* process and in stations.last_heartbeat_at, and the readers of both.     *)
(* One station, whose device an administrator may replace.  The cabinets'  *)
(* clocks agree with the server's; the broker may delay, reorder, repeat   *)
(* and lose messages.                                                      *)
(***************************************************************************)
EXTENDS Integers, FiniteSets

CONSTANTS Cabinet,           \* mqttDeviceIds
          HeartbeatTimeout,  \* MQTT_HEARTBEAT_TIMEOUT_MS, in ticks
          MaxTime,           \* bound: ticks
          MaxMessages,       \* bound: messages in transit, and handlers
          None

VARIABLES now,
          mqttDeviceId,      \* of the station
          lastHeartbeatAt,   \* of the station
          heartbeats,        \* the Map of the process
          touching,          \* handlers that await touchHeartbeat
          inTransit,         \* messages: cabinet, time sent, whether it says so
          spoke,             \* history: when each cabinet last sent
          undated,           \* history: last arrival of a message with no time
          assigned           \* history: devices the station has had

heartbeatVars == <<now, mqttDeviceId, lastHeartbeatAt, heartbeats, touching,
                   inTransit, spoke, undated, assigned>>

Time == 0..MaxTime
Touch == [from : Cabinet, seenAt : Time]
Message == [from : Cabinet, sent : Time, dated : BOOLEAN]

TypeOK ==
    /\ now \in Time
    /\ mqttDeviceId \in Cabinet \cup {None}
    /\ lastHeartbeatAt \in Time \cup {None}
    /\ heartbeats \in [Cabinet -> Time \cup {None}]
    /\ touching \subseteq Touch
    /\ inTransit \subseteq Message
    /\ spoke \in [Cabinet -> Time \cup {None}]
    /\ undated \in [Cabinet -> Time \cup {None}]
    /\ assigned \subseteq Cabinet

Init ==
    /\ now = 0
    /\ mqttDeviceId \in Cabinet \cup {None}
    /\ lastHeartbeatAt = None
    /\ heartbeats = [c \in Cabinet |-> None]
    /\ touching = {}
    /\ inTransit = {}
    /\ spoke = [c \in Cabinet |-> None]
    /\ undated = [c \in Cabinet |-> None]
    /\ assigned = {mqttDeviceId} \ {None}

Tick ==
    /\ now < MaxTime
    /\ now' = now + 1
    /\ UNCHANGED <<mqttDeviceId, lastHeartbeatAt, heartbeats, touching,
                   inTransit, spoke, undated, assigned>>

\* A cabinet publishes, with or without one of the four timestamps.
Publish(c, dated) ==
    /\ Cardinality(inTransit) < MaxMessages
    /\ inTransit' = inTransit \cup {[from |-> c, sent |-> now, dated |-> dated]}
    /\ spoke' = [spoke EXCEPT ![c] = now]
    /\ UNCHANGED <<now, mqttDeviceId, lastHeartbeatAt, heartbeats, touching,
                   undated, assigned>>

Drop ==
    /\ \E m \in inTransit : inTransit' = inTransit \ {m}
    /\ UNCHANGED <<now, mqttDeviceId, lastHeartbeatAt, heartbeats, touching,
                   spoke, undated, assigned>>

SeenOnArrival(m) == now

\* readSeenAt
SeenAt(m) == IF m.dated THEN m.sent ELSE now

\* handleHeartbeatMessage, handleStatusMessage, handleSlotMessage up to the
\* first await: recordCabinetSeen sets the Map.  A later message may carry an
\* earlier time; the last one to arrive wins.
HandleMessage(m) ==
    /\ Cardinality(touching) < MaxMessages
    /\ heartbeats' = [heartbeats EXCEPT ![m.from] = SeenAt(m)]
    /\ touching' = touching \cup {[from |-> m.from, seenAt |-> SeenAt(m)]}
    /\ undated' = IF m.dated THEN undated ELSE [undated EXCEPT ![m.from] = now]
    /\ inTransit' \in {inTransit, inTransit \ {m}}
    /\ UNCHANGED <<now, mqttDeviceId, lastHeartbeatAt, spoke, assigned>>

\* where: { mqttDeviceId }
StationOf(c) == mqttDeviceId = c

\* touchHeartbeat; overlapping ones are executed in any order, or fail.
TouchHeartbeat(t) ==
    /\ touching' = touching \ {t}
    /\ lastHeartbeatAt' \in
         {IF StationOf(t.from) THEN t.seenAt ELSE lastHeartbeatAt,
          lastHeartbeatAt}
    /\ UNCHANGED <<now, mqttDeviceId, heartbeats, inTransit, spoke, undated,
                   assigned>>

\* StationsService.update with a device: last_heartbeat_at stays.
AssignDevice(c) ==
    /\ mqttDeviceId' = c
    /\ assigned' = assigned \cup {c}
    /\ UNCHANGED <<now, lastHeartbeatAt, heartbeats, touching, inTransit,
                   spoke, undated>>

\* The Map and the handlers are gone, the row is not.
Restart ==
    /\ heartbeats' = [c \in Cabinet |-> None]
    /\ touching' = {}
    /\ UNCHANGED <<now, mqttDeviceId, lastHeartbeatAt, inTransit, spoke,
                   undated, assigned>>

Next ==
    \/ Tick \/ Drop \/ Restart
    \/ \E c \in Cabinet :
         \/ AssignDevice(c)
         \/ \E dated \in BOOLEAN : Publish(c, dated)
    \/ \E m \in inTransit : HandleMessage(m)
    \/ \E t \in touching : TouchHeartbeat(t)

Spec == Init /\ [][Next]_heartbeatVars

Recent(t) == t # None /\ now - t <= HeartbeatTimeout

\* isOnline, isStationOnline and calculateCabinetHealth read the row.
IsOnline == mqttDeviceId # None /\ Recent(lastHeartbeatAt)

\* requireOnlineCabinet prefers the Map.
RequireOnlineCabinet ==
    /\ mqttDeviceId # None
    /\ Recent(IF heartbeats[mqttDeviceId] # None THEN heartbeats[mqttDeviceId]
              ELSE lastHeartbeatAt)

\* c has sent something within the timeout, or something undated has arrived.
Alive(c) == Recent(spoke[c]) \/ Recent(undated[c])

\* A silent cabinet goes offline: however late, repeated or out of order its
\* messages arrive, and whether the process restarts in between, the station
\* is online only while a cabinet that is or was its own has spoken within
\* the timeout, and commands go to a cabinet the process has heard of only
\* while that very cabinet has.  The other way round nothing is promised: a
\* cabinet that speaks may count as offline, because a late message with an
\* older time overwrites a newer one.
NoFalseOnline ==
    /\ IsOnline \/ RequireOnlineCabinet => \E c \in assigned : Alive(c)
    /\ RequireOnlineCabinet /\ heartbeats[mqttDeviceId] # None
          => Alive(mqttDeviceId)

\* By what a cabinet has sent or what has arrived of it, it had spoken at t.
Heard(c, t) ==
    \/ spoke[c] # None /\ t <= spoke[c]
    \/ undated[c] # None /\ t <= undated[c]

\* The inductive invariant behind it: every time on its way, in the Map and in
\* the row is one at which its cabinet had spoken.
SpokenBefore ==
    \A c \in Cabinet : /\ spoke[c] # None => spoke[c] <= now
                       /\ undated[c] # None => undated[c] <= now

TimesAreHeard ==
    /\ \A m \in inTransit : Heard(m.from, m.sent)
    /\ \A t \in touching : Heard(t.from, t.seenAt)
    /\ \A c \in Cabinet : heartbeats[c] # None => Heard(c, heartbeats[c])
    /\ lastHeartbeatAt # None => \E c \in assigned : Heard(c, lastHeartbeatAt)

OnlineInv ==
    /\ TypeOK
    /\ mqttDeviceId # None => mqttDeviceId \in assigned
    /\ SpokenBefore
    /\ TimesAreHeard
=============================================================================
