------------------------------ MODULE ScanPage ------------------------------
(***************************************************************************)
(* The customer's scan page: a code is resolved, the slot it names is      *)
(* previewed, a rental is started.  Each step is a mutation whose answer   *)
(* may be late; a new code resets the later steps, which detaches their    *)
(* requests from the page but does not stop them.                          *)
(***************************************************************************)
EXTENDS Integers, FiniteSets

CONSTANTS Code,    \* QR codes
          Slotted, \* those that name a slot; the others name a station
          DemoQr,  \* the one the text field starts with
          Press,   \* start requests of one visit
          None

VARIABLES qrData,      \* the code in the text field, None when it holds none
          retyped,     \* history: it was edited after the last resolve began
          picture,     \* scanFileMutation is reading a picture
          resolving,   \* resolveMutation
          previewing,  \* previewMutation
          starting,    \* startExactMutation or startAutoMutation
          pressed,     \* the start requests, attached or not
          rental,      \* on the server: the code a rental was started from
          shownPage    \* scan, active, or another

text == <<qrData, retyped>>

scanVars == <<qrData, retyped, picture, resolving, previewing, starting, pressed,
              rental, shownPage>>

Fresh == [at |-> "idle", code |-> None, can |-> FALSE]
Mutation == [at : {"idle", "pending", "success", "error"},
             code : Code \cup {None}, can : BOOLEAN]

TypeOK ==
    /\ qrData \in Code \cup {None}
    /\ retyped \in BOOLEAN
    /\ picture \in BOOLEAN
    /\ resolving \in Mutation
    /\ previewing \in Mutation
    /\ starting \in [at : {"idle", "pending", "error"},
                     press : Press \cup {None}]
    /\ pressed \in [Press -> [at : {"unused", "sent", "started", "refused",
                                    "done"},
                              code : Code \cup {None}]]
    /\ rental \in Code \cup {None}
    /\ shownPage \in {"scan", "active", "other"}

Init ==
    /\ qrData = DemoQr
    /\ retyped = FALSE
    /\ picture = FALSE
    /\ resolving = Fresh
    /\ previewing = Fresh
    /\ starting = [at |-> "idle", press |-> None]
    /\ pressed = [p \in Press |-> [at |-> "unused", code |-> None]]
    /\ rental = None
    /\ shownPage = "scan"

KeepPreview == previewing

\* resetNextSteps
ResetPreview == Fresh

ResetStart == [at |-> "idle", press |-> None]

\* The page and the state of its hooks are gone.
Unmounted ==
    /\ qrData' = DemoQr
    /\ retyped' = FALSE
    /\ picture' = FALSE
    /\ resolving' = Fresh
    /\ previewing' = Fresh
    /\ starting' = ResetStart

ShowText(c) == qrData' = c

\* handleResolve starts over with this code, which the text field shows too.
HandleResolve(c) ==
    /\ shownPage = "scan"
    /\ ShowText(c)
    /\ retyped' = FALSE
    /\ resolving' = [Fresh EXCEPT !.at = "pending", !.code = c]
    /\ previewing' = ResetPreview
    /\ starting' = ResetStart
    /\ UNCHANGED <<pressed, rental, shownPage>>

\* A camera that runs may detect a code while another one is being resolved.
OnDetected(c) ==
    /\ HandleResolve(c)
    /\ UNCHANGED picture

\* Typing, or "Demo QR", only edits the field: what was resolved, its preview
\* and its start button stay.
Type(c) ==
    /\ shownPage = "scan"
    /\ qrData' = c
    /\ retyped' = TRUE
    /\ UNCHANGED <<picture, resolving, previewing, starting, pressed, rental,
                   shownPage>>

ResolveTyped ==
    /\ resolving.at # "pending"
    /\ qrData # None
    /\ HandleResolve(qrData)
    /\ UNCHANGED picture

ChoosePicture ==
    /\ shownPage = "scan"
    /\ ~picture
    /\ picture' = TRUE
    /\ UNCHANGED <<text, resolving, previewing, starting, pressed, rental, shownPage>>

\* scanFile has found a code, whatever the page shows by then.
PictureRead(c) ==
    /\ picture
    /\ picture' = FALSE
    /\ HandleResolve(c)

\* No code in it, or a browser that cannot look for one.
PictureUnread ==
    /\ picture
    /\ picture' = FALSE
    /\ UNCHANGED <<text, resolving, previewing, starting, pressed, rental, shownPage>>

\* An answer of resolveQr: whether a rental can be started, or an error.
Resolved ==
    /\ resolving.at = "pending"
    /\ \/ \E can \in BOOLEAN :
            resolving' = [resolving EXCEPT !.at = "success", !.can = can]
       \/ resolving' = [resolving EXCEPT !.at = "error"]
    /\ UNCHANGED <<text, picture, previewing, starting, pressed, rental, shownPage>>

\* The preview button of the slot that was detected.
Preview ==
    /\ shownPage = "scan"
    /\ resolving.at = "success"
    /\ resolving.can
    /\ resolving.code \in Slotted
    /\ previewing.at # "pending"
    /\ previewing' = [Fresh EXCEPT !.at = "pending", !.code = resolving.code]
    /\ UNCHANGED <<text, picture, resolving, starting, pressed, rental, shownPage>>

Previewed ==
    /\ previewing.at = "pending"
    /\ \/ \E can \in BOOLEAN :
            previewing' = [previewing EXCEPT !.at = "success", !.can = can]
       \/ previewing' = [previewing EXCEPT !.at = "error"]
    /\ UNCHANGED <<text, picture, resolving, starting, pressed, rental, shownPage>>

\* The code whose start button can be pressed: the previewed slot, or a
\* station without one.
Startable(c) ==
    /\ starting.at # "pending"
    /\ \/ previewing.at = "success" /\ previewing.can /\ previewing.code = c
       \/ /\ resolving.at = "success" /\ resolving.can /\ resolving.code = c
          /\ c \notin Slotted

PressStart(p, c) ==
    /\ shownPage = "scan"
    /\ Startable(c)
    /\ pressed[p].at = "unused"
    /\ pressed' = [pressed EXCEPT ![p] = [at |-> "sent", code |-> c]]
    /\ starting' = [at |-> "pending", press |-> p]
    /\ UNCHANGED <<text, picture, resolving, previewing, rental, shownPage>>

\* RentalsService.start, as the page knows it: one rental at a time.
ServerAnswers(p) ==
    /\ pressed[p].at = "sent"
    /\ \/ /\ rental = None
          /\ rental' = pressed[p].code
          /\ pressed' = [pressed EXCEPT ![p].at = "started"]
       \/ /\ pressed' = [pressed EXCEPT ![p].at = "refused"]
          /\ UNCHANGED rental
    /\ UNCHANGED <<text, picture, resolving, previewing, starting, shownPage>>

\* onSuccess leaves for the active rental, even when the page has moved on to
\* another code.  A refusal or a lost answer is an error, which only the
\* attached mutation shows.
StartAnswered(p) ==
    /\ pressed[p].at \in {"started", "refused"}
    /\ pressed' = [pressed EXCEPT ![p].at = "done"]
    /\ \/ /\ pressed[p].at = "started"
          /\ shownPage' = "active"
          /\ Unmounted
       \/ /\ starting' = IF starting.press = p
                         THEN [starting EXCEPT !.at = "error"] ELSE starting
          /\ UNCHANGED <<text, picture, shownPage, resolving, previewing>>
    /\ UNCHANGED rental

\* Leaving the page, or opening it again: it starts afresh.
Leave ==
    /\ shownPage' = IF shownPage = "scan" THEN "other" ELSE "scan"
    /\ Unmounted
    /\ UNCHANGED <<pressed, rental>>

Next ==
    \/ Resolved \/ Preview \/ Previewed \/ Leave
    \/ ResolveTyped \/ ChoosePicture \/ PictureUnread
    \/ \E c \in Code \cup {None} : Type(c)
    \/ \E c \in Code :
          \/ OnDetected(c) \/ PictureRead(c)
          \/ \E p \in Press : PressStart(p, c)
    \/ \E p \in Press : ServerAnswers(p) \/ StartAnswered(p)

Spec == Init /\ [][Next]_scanVars

\* The price, the slot and the start that the page shows belong to the code
\* resolved last, however late the answers for an earlier code are; and that
\* is the code in the text field, wherever it came from, until the field is
\* edited.
PreviewIsForTheCodeShown ==
    /\ previewing.at # "idle" => /\ resolving.at = "success"
                                 /\ previewing.code = resolving.code
    /\ starting.press # None =>
         pressed[starting.press].code = resolving.code
    /\ resolving.at # "idle" /\ ~retyped => resolving.code = qrData

\* The inductive invariant behind it.
PreviewInv == TypeOK /\ PreviewIsForTheCodeShown
=============================================================================
