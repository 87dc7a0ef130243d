---------------------------- MODULE SlotReports ----------------------------
(***************************************************************************)
(* The status column of one slot follows the slot messages of its cabinet  *)
(* (CabinetCommandService.handleSlotMessage).  Every message is handled    *)
(* by an async function of its own that nobody awaits, and each of them    *)
(* writes the station's row before it writes the slot's, so that two of    *)
(* them may finish in either order.  The messages carry a time, which the  *)
(* slot's row does not keep.                                               *)
(***************************************************************************)
EXTENDS Naturals, Sequences

CONSTANTS Handler,    \* messages handled at one time
          MaxQueued,  \* bound: messages on their way
          None

SlotStatus == {"empty", "occupied", "faulty"}

VARIABLES stored,   \* slots.status
          reported, \* status the cabinet has told last
          queued,   \* messages on their way, as the backend will read them
          handler,  \* handlers under way: what was read, and what is awaited
          spoilt    \* history: since the last report sent in quiet, one was
                    \* lost, two were handled at once, or a handler died

slotVars == <<stored, reported, queued, handler, spoilt>>

Idle == [at |-> "idle", status |-> None]

\* What a message reads as: a status, or nothing.
Reading == SlotStatus \cup {None}
Handling == {r \in [at : {"idle", "touch", "sync"}, status : Reading] :
               r.at = "sync" => r.status # None}

TypeOK ==
    /\ stored \in SlotStatus /\ reported \in SlotStatus
    /\ queued \in Seq(Reading)
    /\ handler \in [Handler -> Handling]
    /\ spoilt \in BOOLEAN

Init ==
    /\ stored \in SlotStatus
    /\ reported \in SlotStatus
    /\ queued = <<>>
    /\ handler = [h \in Handler |-> Idle]
    /\ spoilt = TRUE

\* What a cabinet may send of a slot: a word for its status, or none that the
\* backend knows, and flags that agree with it or are missing.  Without a
\* word, a fault is told by its flag, whatever the other flag says.
Flag == {"missing", "true", "false"}

Reports(s) ==
    LET faulty == IF s = "faulty" THEN "true" ELSE "false"
        held   == IF s = "occupied" THEN {"true"}
                  ELSE IF s = "empty" THEN {"false"} ELSE Flag \ {"missing"}
    IN  [word : {s}, faulty : {"missing", faulty}, held : held \cup {"missing"}]
        \cup [word : {"other"},
              faulty : IF s = "faulty" THEN {"true"} ELSE {"missing", "false"},
              held : IF s = "faulty" THEN Flag ELSE held]

\* The flags of normalizeSlotStatus, in the wrong order.
HeldBeforeFaulty(r) ==
    CASE r.word \in SlotStatus -> r.word
      [] r.word = "other" /\ r.held = "true" -> "occupied"
      [] r.word = "other" /\ r.held = "false" -> "empty"
      [] OTHER -> IF r.faulty = "true" THEN "faulty" ELSE None

\* normalizeSlotStatus: a known word decides, then the fault flag.
NormalizeSlotStatus(r) ==
    CASE r.word \in SlotStatus -> r.word
      [] r.word = "other" /\ r.faulty = "true" -> "faulty"
      [] OTHER -> CASE r.held = "true"  -> "occupied"
                    [] r.held = "false" -> "empty"
                    [] OTHER -> None

Busy == {h \in Handler : handler[h].at # "idle"}

Quiet == queued = <<>> /\ Busy = {}

Publish(s) ==
    /\ Len(queued) < MaxQueued
    /\ \E r \in Reports(s) : queued' = Append(queued, NormalizeSlotStatus(r))
    /\ reported' = s
    /\ spoilt' = (spoilt /\ ~Quiet)
    /\ UNCHANGED <<stored, handler>>

\* A payload the backend cannot read, or one for a slot it does not know.
PublishUnreadable ==
    /\ Len(queued) < MaxQueued
    /\ queued' = Append(queued, None)
    /\ UNCHANGED <<stored, reported, handler, spoilt>>

\* Lost between cabinet and backend; a readable one after it makes up for it.
Lose ==
    /\ queued # <<>>
    /\ queued' = Tail(queued)
    /\ spoilt' = (spoilt \/ \A i \in 2..Len(queued) : queued[i] = None)
    /\ UNCHANGED <<stored, reported, handler>>

\* handleIncomingMessage: quality of service 1, so it may come again.
HandleSlotMessage(h) ==
    /\ handler[h] = Idle
    /\ queued # <<>>
    /\ handler' = [handler EXCEPT ![h] = [at |-> "touch", status |-> Head(queued)]]
    /\ queued' \in {queued, Tail(queued)}
    /\ spoilt' = (spoilt \/ Busy # {})
    /\ UNCHANGED <<stored, reported>>

\* recordCabinetSeen has been awaited.
SeenRecorded(h) ==
    /\ handler[h].at = "touch"
    /\ handler' = [handler EXCEPT
                     ![h] = IF @.status = None THEN Idle ELSE [@ EXCEPT !.at = "sync"]]
    /\ UNCHANGED <<stored, reported, queued, spoilt>>

\* updateMany, whatever the row says by now.
SyncSlotStatus(h) ==
    /\ handler[h].at = "sync"
    /\ stored' = handler[h].status
    /\ handler' = [handler EXCEPT ![h] = Idle]
    /\ UNCHANGED <<reported, queued, spoilt>>

\* A statement fails: nobody catches it, and the process ends with every
\* handler.  Or it is stopped.
Restart ==
    /\ Busy # {}
    /\ handler' = [h \in Handler |-> Idle]
    /\ spoilt' = TRUE
    /\ UNCHANGED <<stored, reported, queued>>

Next ==
    \/ \E s \in SlotStatus : Publish(s)
    \/ PublishUnreadable \/ Lose \/ Restart
    \/ \E h \in Handler :
          HandleSlotMessage(h) \/ SeenRecorded(h) \/ SyncSlotStatus(h)

Spec == Init /\ [][Next]_slotVars

\* When the messages have been handled the row says what the cabinet told
\* last, in whatever words and however often it came.  Not promised after a
\* loss, a restart, or two messages handled at once, until the next report
\* that is sent with nothing on its way.
SettledSlotIsReported == Quiet /\ ~spoilt => stored = reported

\* The last readable one of these messages says s; none of them is readable.
Tells(q, s) ==
    \E i \in 1..Len(q) : q[i] = s /\ \A j \in i + 1..Len(q) : q[j] = None

TellsNothing(q) == \A i \in 1..Len(q) : q[i] = None

\* The inductive invariant behind it: what was told last is on its way, in
\* the hands of the one handler, or in the row.
ReportIsKept ==
    \/ Tells(queued, reported)
    \/ TellsNothing(queued) /\ \E h \in Busy : handler[h].status = reported
    \/ /\ TellsNothing(queued)
       /\ \A h \in Busy : handler[h].status = None
       /\ stored = reported

OneHandles == \A g, h \in Busy : g = h

SettledInv ==
    /\ TypeOK
    /\ ~spoilt => OneHandles /\ ReportIsKept
=============================================================================
