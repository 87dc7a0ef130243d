----------------------------- MODULE CabinetProofs -----------------------------
(***************************************************************************)
(* Proofs about CabinetCommands: for any number of commands and outages a  *)
(* handler is told 'ok' only for a command its cabinet carried out, and    *)
(* every promise a handler may wait on has a timer to end the wait.        *)
(***************************************************************************)
EXTENDS CabinetCommands, TLAPS

\* CommandInv holds initially: nothing is sent, promised or executed.
LEMMA CommandInit == Init => CommandInv
  BY DEF Init, CommandInv, TypeOK, CallState, WaitsAreBounded, OkMeansExecuted

\* The process ends: nothing is registered any more and nobody waits.
LEMMA DiesKeeps ==
  ASSUME TypeOK, Dies,
         promise' \in [CommandId -> {"none", "pending", "resolved", "rejected"}]
  PROVE  /\ alive' \in BOOLEAN
         /\ call' \in [CommandId -> CallState]
         /\ pending' \subseteq CommandId
         /\ timer' \subseteq CommandId
         /\ WaitsAreBounded'
         /\ \A c \in CommandId : call'[c] = "ok" => call[c] = "ok"
<1>1. \A c \in CommandId : call'[c] \in CallState \ {"publishing", "awaiting"}
  BY DEF Dies, TypeOK, CallState
<1>2. call' \in [CommandId -> CallState]
  BY <1>1 DEF Dies
<1> QED
  BY <1>1, <1>2 DEF Dies, WaitsAreBounded, TypeOK

\* Rejecting promises, with or without the end of the process, leaves every
\* wait bounded and makes nothing look carried out.
LEMMA RejectKeeps ==
  ASSUME CommandInv, NEW S \in SUBSET CommandId, Reject(S)
  PROVE  /\ alive' \in BOOLEAN
         /\ call' \in [CommandId -> CallState]
         /\ promise' \in [CommandId -> {"none", "pending", "resolved", "rejected"}]
         /\ pending' \subseteq CommandId
         /\ timer' \subseteq CommandId
         /\ WaitsAreBounded'
         /\ \A c \in CommandId : /\ call'[c] = "ok" => call[c] = "ok"
                                 /\ promise'[c] = "resolved" => promise[c] = "resolved"
<1>1. promise' \in [CommandId -> {"none", "pending", "resolved", "rejected"}]
  BY DEF Reject, CommandInv, TypeOK
<1>2. \A c \in CommandId : /\ promise'[c] = "resolved" => promise[c] = "resolved"
                           /\ promise'[c] = "pending" => promise[c] = "pending" /\ c \notin S
                           /\ c \notin S => promise'[c] = promise[c]
  BY DEF Reject, CommandInv, TypeOK
<1>3. CASE Dies
  BY <1>1, <1>2, <1>3, DiesKeeps DEF CommandInv
<1>4. CASE ~Dies
  <2>1. pending' = pending \ S /\ timer' = timer \ S /\ UNCHANGED <<alive, call>>
    BY <1>4 DEF Reject
  <2>2. WaitsAreBounded'
    BY <1>2, <2>1 DEF CommandInv, WaitsAreBounded
  <2> QED
    BY <1>1, <1>2, <2>1, <2>2 DEF CommandInv, TypeOK
<1> QED
  BY <1>3, <1>4

\* CommandInv survives every step of the service, the broker and the cabinet.
LEMMA CommandStep == CommandInv /\ [Next]_vars => CommandInv'
<1> SUFFICES ASSUME CommandInv, [Next]_vars
             PROVE  CommandInv'
  OBVIOUS
<1> USE DEF CommandInv, TypeOK, CallState, WaitsAreBounded, OkMeansExecuted
<1>1. CASE \E c \in CommandId : Publish(c)
  BY <1>1 DEF Publish, ArmTimer
<1>2. CASE \E c \in CommandId : NotReady(c)
  BY <1>2 DEF NotReady, network
<1>3. CASE \E c \in CommandId : Published(c)
  BY <1>3 DEF Published
<1>4. CASE \E c \in CommandId : PublishFails(c)
  BY <1>4 DEF PublishFails
<1>5. CASE \E c \in CommandId : Return(c)
  BY <1>5 DEF Return, network
<1>6. CASE \E c \in CommandId : TimerFires(c)
  <2>1. PICK c \in CommandId : TimerFires(c)
    BY <1>6
  <2>2. Reject({c}) /\ {c} \in SUBSET CommandId
    BY <2>1 DEF TimerFires
  <2> QED
    BY <2>1, <2>2, RejectKeeps DEF TimerFires, network
<1>7. CASE \E c \in CommandId : HandleAck(c)
  <2>1. PICK c \in CommandId : HandleAck(c)
    BY <1>7
  <2>2. CASE ack[c] = "error"
    <3>1. Reject(Addressed(c)) /\ Addressed(c) \in SUBSET CommandId
      BY <2>1, <2>2 DEF HandleAck, Addressed
    <3> QED
      BY <2>1, <3>1, RejectKeeps DEF HandleAck
  <2>3. CASE ack[c] = "ok"
    BY <2>1, <2>3 DEF HandleAck, Addressed
  <2> QED
    BY <2>1, <2>2, <2>3 DEF HandleAck
<1>8. CASE ConnectionLost
  <2>1. Reject(pending) /\ pending \in SUBSET CommandId
    BY <1>8 DEF ConnectionLost
  <2>2. /\ ready' = FALSE
        /\ outages' \in Nat
    <3>1. ready' = FALSE /\ outages' = outages + 1
      BY <1>8 DEF ConnectionLost
    <3> QED
      BY <3>1
  <2>3. UNCHANGED <<outbox, taken, broker, ack, executed>>
    BY <1>8 DEF ConnectionLost
  <2>4. TypeOK' /\ WaitsAreBounded'
    BY <2>1, <2>2, <2>3, RejectKeeps
  <2>5. \A c \in CommandId : call'[c] = "ok" \/ promise'[c] = "resolved" \/ ack'[c] = "ok"
                               => c \in executed'
    BY <2>1, <2>3, RejectKeeps
  <2> QED
    BY <2>4, <2>5
<1>9. CASE Connected
  BY <1>9 DEF Connected, backend
<1>10. CASE BackgroundRejection
  BY <1>10, DiesKeeps DEF BackgroundRejection
<1>11. CASE \E c \in CommandId : BrokerTakes(c)
  BY <1>11 DEF BrokerTakes, backend
<1>12. CASE \E c \in CommandId : Cabinet(c)
  BY <1>12 DEF Cabinet, Execute, Refuse, LoseCommand, LoseAck, backend
<1>13. CASE UNCHANGED vars
  BY <1>13 DEF vars, backend, network
<1> QED
  BY <1>1, <1>2, <1>3, <1>4, <1>5, <1>6, <1>7, <1>8, <1>9, <1>10, <1>11, <1>12, <1>13
     DEF Next, SendCommand

\* CommandInv holds in every reachable state, from the two lemmas.
LEMMA CommandInvariant == Spec => []CommandInv
  BY CommandInit, CommandStep, PTL DEF Spec

\* sendCommand returns only when the cabinet carried out its own command,
\* whatever acknowledgements of other commands, losses and redeliveries came
\* in between.
THEOREM AcksAreTruthful == Spec => []OkMeansExecuted
<1>1. CommandInv => OkMeansExecuted
  BY DEF CommandInv
<1> QED
  BY <1>1, CommandInvariant, PTL

\* No handler is suspended on a promise that neither an acknowledgement nor a
\* timer can settle.
THEOREM NoEndlessWait == Spec => []WaitsAreBounded
<1>1. CommandInv => WaitsAreBounded
  BY DEF CommandInv
<1> QED
  BY <1>1, CommandInvariant, PTL
=============================================================================
