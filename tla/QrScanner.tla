----------------------------- MODULE QrScanner -----------------------------
(***************************************************************************)
(* The camera of the scan page: useQrScanner and the part of ScanPage that *)
(* renders it.  The hook lives in refs that its callbacks read and write;  *)
(* the <video> element exists only while React has rendered the status     *)
(* "active".  The browser's camera, detector and frames are modelled from  *)
(* how the hook uses them.                                                 *)
(***************************************************************************)
EXTENDS Integers, FiniteSets

CONSTANTS Start,  \* bound: calls of start(), and the streams they open
          None

VARIABLES scanner,      \* status
          mounted,      \* the page is shown
          video,        \* videoRef: no element, or its srcObject
          streamRef,
          live,         \* streams whose tracks run
          activeRef,
          rafRef,       \* the call whose frame was requested last
          detectInFlight,
          opening,      \* where each call of start() stands
          loop,         \* the frame loop each call has begun
          overlapped    \* history: a camera was asked for on top of another,
                        \* or the page was left while it was

scannerVars == <<scanner, mounted, video, streamRef, live, activeRef, rafRef,
                 detectInFlight, opening, loop, overlapped>>

TypeOK ==
    /\ scanner \in {"idle", "requesting", "active", "blocked", "error"}
    /\ mounted \in BOOLEAN
    /\ video \in {"absent", "blank"} \cup Start
    /\ streamRef \in Start \cup {None}
    /\ live \subseteq Start
    /\ activeRef \in BOOLEAN
    /\ rafRef \in Start \cup {None}
    /\ detectInFlight \in BOOLEAN
    /\ opening \in [Start -> {"unused", "asking", "playing", "done"}]
    /\ loop \in [Start -> {"none", "scheduled", "detecting"}]
    /\ overlapped \in BOOLEAN

Init ==
    /\ scanner = "idle"
    /\ mounted = TRUE
    /\ video = "absent"
    /\ streamRef = None
    /\ live = {}
    /\ activeRef = FALSE
    /\ rafRef = None
    /\ detectInFlight = FALSE
    /\ opening = [s \in Start |-> "unused"]
    /\ loop = [s \in Start |-> "none"]
    /\ overlapped = FALSE

Opening == \E s \in Start : opening[s] \in {"asking", "playing"}

TracksForgotten == live

TracksStopped == live \ {streamRef}

\* dispose(), when the loops have come to l.
Dispose(l) ==
    /\ activeRef' = FALSE
    /\ detectInFlight' = FALSE
    /\ loop' = IF rafRef # None /\ l[rafRef] = "scheduled"
               THEN [l EXCEPT ![rafRef] = "none"] ELSE l
    /\ rafRef' = None
    /\ live' = TracksStopped
    /\ streamRef' = None

Blanked == IF video = "absent" THEN "absent" ELSE "blank"

\* The button is rendered unless the scanner is active; start() up to
\* getUserMedia.
StartScanner(s) ==
    /\ mounted
    /\ video = "absent"
    /\ opening[s] = "unused"
    /\ scanner' = "requesting"
    /\ opening' = [opening EXCEPT ![s] = "asking"]
    /\ overlapped' = (overlapped \/ Opening \/ streamRef # None)
    /\ UNCHANGED <<mounted, video, streamRef, live, activeRef, rafRef,
                   detectInFlight, loop>>

Activate(s) ==
    /\ activeRef' = TRUE
    /\ scanner' = "active"
    /\ loop' = [loop EXCEPT ![s] = "scheduled"]
    /\ rafRef' = s
    /\ opening' = [opening EXCEPT ![s] = "done"]

\* getUserMedia resolves; only an element that exists is given the stream.
StreamOpens(s) ==
    /\ opening[s] = "asking"
    /\ streamRef' = s
    /\ live' = live \cup {s}
    /\ \/ /\ video = "absent"
          /\ Activate(s)
          /\ UNCHANGED video
       \/ /\ video # "absent"
          /\ video' = s
          /\ opening' = [opening EXCEPT ![s] = "playing"]
          /\ UNCHANGED <<activeRef, scanner, loop, rafRef>>
    /\ UNCHANGED <<mounted, detectInFlight, overlapped>>

\* await video.play()
Plays(s) ==
    /\ opening[s] = "playing"
    /\ Activate(s)
    /\ UNCHANGED <<mounted, video, streamRef, live, detectInFlight, overlapped>>

\* getUserMedia or play() rejects.
StartFails(s) ==
    /\ \/ opening[s] = "asking"  /\ scanner' \in {"blocked", "error"}
       \/ opening[s] = "playing" /\ scanner' = "error"
    /\ opening' = [opening EXCEPT ![s] = "done"]
    /\ Dispose(loop)
    /\ video' = Blanked
    /\ UNCHANGED <<mounted, overlapped>>

\* React commits: the element comes and goes with the status.
Render ==
    /\ mounted
    /\ video' = IF scanner # "active" THEN "absent"
                ELSE IF video = "absent" THEN "blank" ELSE video
    /\ UNCHANGED <<scanner, mounted, streamRef, live, activeRef, rafRef,
                   detectInFlight, opening, loop, overlapped>>

\* tick(), up to its await.
Tick(s) ==
    /\ loop[s] = "scheduled"
    /\ \/ /\ ~activeRef
          /\ loop' = [loop EXCEPT ![s] = "none"]
          /\ UNCHANGED <<scanner, video, streamRef, live, activeRef, rafRef,
                         detectInFlight>>
       \/ /\ activeRef
          /\ video = "absent"
          /\ scanner' = "error"
          /\ Dispose([loop EXCEPT ![s] = "none"])
          /\ UNCHANGED video
       \/ /\ activeRef
          /\ video = "blank" \/ (video # "absent" /\ detectInFlight)
          /\ rafRef' = s
          /\ UNCHANGED <<scanner, video, streamRef, live, activeRef,
                         detectInFlight, loop>>
       \/ /\ activeRef
          /\ video \in Start
          /\ ~detectInFlight
          /\ detectInFlight' = TRUE
          /\ loop' = [loop EXCEPT ![s] = "detecting"]
          /\ UNCHANGED <<scanner, video, streamRef, live, activeRef, rafRef>>
    /\ UNCHANGED <<mounted, opening, overlapped>>

\* The detector finds a code, or throws: the camera is given back.
DetectEnds(s) ==
    /\ loop[s] = "detecting"
    /\ scanner' \in {"idle", "error"}
    /\ Dispose([loop EXCEPT ![s] = "none"])
    /\ video' = Blanked
    /\ UNCHANGED <<mounted, opening, overlapped>>

\* No code in this frame: the next one, unless stopped meanwhile.
DetectsNothing(s) ==
    /\ loop[s] = "detecting"
    /\ detectInFlight' = FALSE
    /\ loop' = [loop EXCEPT ![s] = IF activeRef THEN "scheduled" ELSE "none"]
    /\ rafRef' = IF activeRef THEN s ELSE rafRef
    /\ UNCHANGED <<scanner, mounted, video, streamRef, live, activeRef,
                   opening, overlapped>>

\* stop(): its button is rendered while the scanner is active.
Stop ==
    /\ mounted
    /\ video # "absent"
    /\ scanner' = "idle"
    /\ Dispose(loop)
    /\ video' = Blanked
    /\ UNCHANGED <<mounted, opening, overlapped>>

\* The element goes, then the effect's cleanup; callbacks under way still run.
Unmount ==
    /\ mounted
    /\ mounted' = FALSE
    /\ Dispose(loop)
    /\ video' = "absent"
    /\ overlapped' = (overlapped \/ Opening)
    /\ UNCHANGED <<scanner, opening>>

Next ==
    \/ Render \/ Stop \/ Unmount
    \/ \E s \in Start :
         \/ StartScanner(s) \/ StreamOpens(s) \/ Plays(s) \/ StartFails(s)
         \/ Tick(s) \/ DetectEnds(s) \/ DetectsNothing(s)

\* React commits, frames are delivered, and the detector answers on a code
\* that the camera is held to.
ScannerFairness ==
    /\ WF_scannerVars(Render)
    /\ \A s \in Start : /\ WF_scannerVars(Tick(s))
                        /\ WF_scannerVars(DetectEnds(s))

Spec == Init /\ [][Next]_scannerVars /\ ScannerFairness

\* The camera is on only while the scanner holds it: nothing that the user
\* stops, leaves, or that fails keeps a stream open.  A start() before another
\* has been answered or its camera shown, or leaving while the browser asks for
\* permission, loses one.
CameraIsReleased ==
    ~overlapped =>
        /\ live \subseteq {streamRef}
        /\ ~mounted \/ scanner \in {"idle", "blocked", "error"} => live = {}

\* What the page says of an active camera (scan/page.tsx:213): a code it is
\* pointed at is recognised.
ActiveScannerDetects ==
    (mounted /\ scanner = "active") ~> (~mounted \/ scanner # "active")
\* The inductive invariant behind it: without an overlap one call of start()
\* at most is waiting for the camera, on a page without a stream and without
\* an element to show it.
CameraInv ==
    /\ TypeOK
    /\ ~overlapped =>
         /\ live # {} => live = {streamRef} /\ mounted /\ scanner = "active"
         /\ \A s \in Start : opening[s] # "playing"
         /\ \A s, t \in Start :
              opening[s] = "asking" /\ opening[t] = "asking" => s = t
         /\ Opening => /\ mounted
                       /\ streamRef = None
                       /\ live = {}
                       /\ video = "absent"
                       /\ scanner # "active"
=============================================================================
