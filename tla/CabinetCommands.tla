--------------------------- MODULE CabinetCommands ---------------------------
(***************************************************************************)
(* CabinetCommandService.sendCommand and the promises behind it: a command *)
(* is registered in pendingAcks with a timer, handed to the MQTT client,   *)
(* and only when the client calls back does the handler start to await the *)
(* acknowledgement.  A promise that is rejected before anyone awaits it is *)
(* an unhandled rejection: main.ts installs no listener for it, so Node    *)
(* terminates the process.                                                 *)
(*                                                                         *)
(* The MQTT client, the broker and the cabinet are modelled from how the   *)
(* service uses them: a publish with QoS 1 that outlives a connection is   *)
(* sent again, and its callback runs when the broker has confirmed it.     *)
(***************************************************************************)
EXTENDS Naturals

CONSTANTS CommandId,  \* of commands (randomUUID: never reused)
          MaxOutage   \* bound: lost connections and failed background work

ASSUME CommandsAssumption == MaxOutage \in Nat

VARIABLES
    alive,    \* the backend process runs
    ready,    \* its connection to the broker is up
    call,     \* how far sendCommand has come for each command
    promise,  \* ackPromise
    pending,  \* the keys of pendingAcks
    timer,    \* the armed acknowledgement timers
    outbox,   \* publishes the client has not got confirmed
    taken,    \* ... which the broker has taken on this connection
    broker,   \* commands the broker has for the cabinet
    executed, \* commands the cabinet has carried out
    ack,      \* acknowledgements on their way to the backend
    outages

backend == <<alive, call, promise, pending, timer>>
network == <<ready, outbox, taken, broker, ack, outages>>
vars    == <<backend, network, executed>>

\* 'lost': the process died before sendCommand returned or threw.
CallState == {"idle", "publishing", "awaiting", "ok", "error", "lost"}

TypeOK ==
    /\ alive \in BOOLEAN
    /\ ready \in BOOLEAN
    /\ call \in [CommandId -> CallState]
    /\ promise \in [CommandId -> {"none", "pending", "resolved", "rejected"}]
    /\ pending \subseteq CommandId
    /\ timer \subseteq CommandId
    /\ outbox \subseteq CommandId
    /\ taken \subseteq CommandId
    /\ broker \subseteq CommandId
    /\ executed \subseteq CommandId
    /\ ack \in [CommandId -> {"none", "ok", "error"}]
    /\ outages \in Nat

Init ==
    /\ alive = TRUE
    /\ ready = TRUE
    /\ call = [c \in CommandId |-> "idle"]
    /\ promise = [c \in CommandId |-> "none"]
    /\ pending = {} /\ timer = {} /\ outbox = {} /\ taken = {}
    /\ broker = {} /\ executed = {}
    /\ ack = [c \in CommandId |-> "none"]
    /\ outages = 0
-----------------------------------------------------------------------------
\* Settling promises.

\* Whether a rejection of the command's promise finds a handler: sendCommand
\* has reached its 'return ackPromise'.
IsAwaited(c) == call[c] = "awaiting"

\* The process ends: maps, timers and suspended handlers are gone.
Dies ==
    /\ alive' = FALSE
    /\ call' = [c \in CommandId |->
                  IF call[c] \in {"publishing", "awaiting"} THEN "lost" ELSE call[c]]
    /\ pending' = {}
    /\ timer' = {}

\* The promises of 'commands' are rejected and their keys and timers dropped.
Reject(commands) ==
    /\ promise' = [c \in CommandId |->
                     IF c \in commands /\ promise[c] = "pending" THEN "rejected"
                                                                 ELSE promise[c]]
    /\ IF \E c \in commands : promise[c] = "pending" /\ ~IsAwaited(c)
         THEN Dies
         ELSE /\ pending' = pending \ commands
              /\ timer' = timer \ commands
              /\ UNCHANGED <<alive, call>>
-----------------------------------------------------------------------------
\* sendCommand.

ArmNoTimer(c) == timer

\* waitForAck starts the timer and registers the command.
ArmTimer(c) == timer \cup {c}

Publish(c) ==
    /\ alive /\ ready
    /\ call[c] = "idle"
    /\ call' = [call EXCEPT ![c] = "publishing"]
    /\ promise' = [promise EXCEPT ![c] = "pending"]
    /\ pending' = pending \cup {c}
    /\ timer' = ArmTimer(c)
    /\ outbox' = outbox \cup {c}
    /\ UNCHANGED <<alive, ready, taken, broker, ack, outages, executed>>

\* MqttUnavailableException before anything is registered.
NotReady(c) ==
    /\ alive /\ ~ready
    /\ call[c] = "idle"
    /\ call' = [call EXCEPT ![c] = "error"]
    /\ UNCHANGED <<alive, promise, pending, timer, network, executed>>

\* The publish callback without an error.
Published(c) ==
    /\ alive /\ ready
    /\ c \in outbox \cap taken
    /\ outbox' = outbox \ {c}
    /\ call' = [call EXCEPT ![c] = IF @ = "publishing" THEN "awaiting" ELSE @]
    /\ UNCHANGED <<alive, promise, pending, timer, ready, taken, broker, ack, outages, executed>>

\* The publish callback with an error: the key is deleted, the timer is not
\* cleared and the promise stays pending.
PublishFails(c) ==
    /\ alive
    /\ call[c] = "publishing"
    /\ c \in outbox
    /\ outbox' = outbox \ {c}
    /\ pending' = pending \ {c}
    /\ call' = [call EXCEPT ![c] = "error"]
    /\ UNCHANGED <<alive, promise, timer, ready, taken, broker, ack, outages, executed>>

\* sendCommand returns the acknowledgement or throws.
Return(c) ==
    /\ alive
    /\ call[c] = "awaiting"
    /\ promise[c] \in {"resolved", "rejected"}
    /\ call' = [call EXCEPT ![c] = IF promise[c] = "resolved" THEN "ok" ELSE "error"]
    /\ UNCHANGED <<alive, promise, pending, timer, network, executed>>

\* The acknowledgement timeout.
TimerFires(c) ==
    /\ alive
    /\ c \in timer
    /\ Reject({c})
    /\ UNCHANGED <<network, executed>>
-----------------------------------------------------------------------------
\* handleAckMessage.

AnyPending(c) == pending

\* The entry an acknowledgement is for: its topic carries the command id.
Addressed(c) == pending \cap {c}

\* An acknowledgement without a pending entry is ignored.
HandleAck(c) ==
    /\ alive /\ ready
    /\ ack[c] # "none"
    /\ ack' = [ack EXCEPT ![c] = "none"]
    /\ IF ack[c] = "error"
         THEN Reject(Addressed(c))
         ELSE /\ promise' = [d \in CommandId |->
                               IF d \in Addressed(c) THEN "resolved" ELSE promise[d]]
              /\ pending' = pending \ Addressed(c)
              /\ timer' = timer \ Addressed(c)
              /\ UNCHANGED <<alive, call>>
    /\ UNCHANGED <<ready, outbox, taken, broker, outages, executed>>
-----------------------------------------------------------------------------
\* The connection.

\* 'offline', 'close' or 'error': rejectAllPending.
ConnectionLost ==
    /\ alive /\ ready
    /\ outages < MaxOutage
    /\ outages' = outages + 1
    /\ ready' = FALSE
    /\ Reject(pending)
    /\ UNCHANGED <<outbox, taken, broker, ack, executed>>

\* 'connect': the client sends again what was not confirmed.
Connected ==
    /\ alive /\ ~ready
    /\ ready' = TRUE
    /\ taken' = taken \ outbox
    /\ UNCHANGED <<backend, outbox, broker, ack, outages, executed>>

\* What the event handlers start with 'void' nobody awaits either: a refused
\* subscription after 'connect', or a failed database write after a heartbeat,
\* a status or a slot message.
BackgroundRejection ==
    /\ alive /\ ready
    /\ outages < MaxOutage
    /\ outages' = outages + 1
    /\ Dies
    /\ UNCHANGED <<promise, ready, outbox, taken, broker, ack, executed>>

\* The broker takes a publish; it forwards it and confirms it in any order.
BrokerTakes(c) ==
    /\ alive /\ ready
    /\ c \in outbox \ taken
    /\ taken' = taken \cup {c}
    /\ broker' = broker \cup {c}
    /\ UNCHANGED <<backend, ready, outbox, ack, outages, executed>>

\* The cabinet carries a command out, once, and acknowledges it.
Execute(c) ==
    /\ c \in broker \ executed
    /\ broker' = broker \ {c}
    /\ executed' = executed \cup {c}
    /\ ack' = [ack EXCEPT ![c] = "ok"]
    /\ UNCHANGED <<backend, ready, outbox, taken, outages>>

\* It cannot carry it out, or gets it again.
Refuse(c) ==
    /\ c \in broker
    /\ broker' = broker \ {c}
    /\ ack' = [ack EXCEPT ![c] = "error"]
    /\ UNCHANGED <<backend, ready, outbox, taken, outages, executed>>

\* The cabinet never gets it, or its acknowledgement is lost.
LoseCommand(c) ==
    /\ c \in broker
    /\ broker' = broker \ {c}
    /\ UNCHANGED <<backend, ready, outbox, taken, ack, outages, executed>>

LoseAck(c) ==
    /\ ack[c] # "none"
    /\ ack' = [ack EXCEPT ![c] = "none"]
    /\ UNCHANGED <<backend, ready, outbox, taken, broker, outages, executed>>
-----------------------------------------------------------------------------
SendCommand(c) == Publish(c) \/ NotReady(c) \/ Published(c) \/ PublishFails(c) \/ Return(c)

Cabinet(c) == Execute(c) \/ Refuse(c) \/ LoseCommand(c) \/ LoseAck(c)

Next ==
    \/ \E c \in CommandId :
          SendCommand(c) \/ TimerFires(c) \/ HandleAck(c) \/ BrokerTakes(c) \/ Cabinet(c)
    \/ ConnectionLost
    \/ Connected
    \/ BackgroundRejection

Spec == Init /\ [][Next]_vars

\* Timers fire and settled promises resume their handlers.  The client connects
\* again by itself and a broker it is connected to confirms what it was sent.
\* Nothing is assumed of the cabinet.
Fairness ==
    /\ \A c \in CommandId : /\ WF_vars(TimerFires(c))
                            /\ WF_vars(Return(c))
                            /\ WF_vars(BrokerTakes(c))
                            /\ WF_vars(Published(c))
    /\ WF_vars(Connected)

FairSpec == Spec /\ Fairness
-----------------------------------------------------------------------------
\* A handler is told 'ok' only when the cabinet carried out its own command,
\* whichever acknowledgements of other commands come in between.
OkMeansExecuted == \A c \in CommandId : call[c] = "ok" => c \in executed

\* Nothing waits without a way out: an unsettled promise that a handler may be
\* suspended on has an entry for its acknowledgement and an armed timer, and
\* what has neither is settled.
WaitsAreBounded ==
    \A c \in CommandId :
       /\ c \in pending => c \in timer /\ promise[c] = "pending"
       /\ call[c] \in {"publishing", "awaiting"} /\ promise[c] = "pending"
             => c \in pending

\* The inductive invariant behind both: acknowledgements on their way and
\* promises they resolved stand for what the cabinet did.
CommandInv ==
    /\ TypeOK
    /\ WaitsAreBounded
    /\ OkMeansExecuted
    /\ \A c \in CommandId : ack[c] = "ok" \/ promise[c] = "resolved" => c \in executed

\* sendCommand ends, if only with the process.
CommandsEnd ==
    \A c \in CommandId :
       call[c] \in {"publishing", "awaiting"} ~> call[c] \in {"ok", "error", "lost"}

\* BACKEND.md:252: no acknowledgement within 60 seconds means that the payment
\* is released, so the handler that froze it must be told.
HandlersAreTold == \A c \in CommandId : call[c] # "lost"
=============================================================================
