---------------------------- MODULE CameraScanner ----------------------------
(***************************************************************************)
(* The camera of the receiving app (apps/ios/AirFerryIOS/Receiver/         *)
(* CameraScanner.swift) and the ReceiverViewModel of IosReceiver in front  *)
(* of it.                                                                  *)
(*                                                                         *)
(* start, stop and retry return at once: jobs on a serial queue start and  *)
(* stop the capture session, report to the main queue what came of it, and *)
(* overlap with the answer to the question whether the camera may be used  *)
(* and with errors of the session, which come on threads of the system.    *)
(* IosReceiver's camera is what was asked for last; frames come as long as *)
(* the session runs, and the one that is being scanned a little longer.    *)
(***************************************************************************)
EXTENDS IosReceiver, Sequences

CONSTANTS
  MaxJobs,    (* bound: jobs and closures waiting when the user taps         *)
  MaxLeaves,  (* bound: times the view goes away                              *)
  MaxErrors   (* bound: failures and errors of the capture session            *)

ASSUME CameraAssumption ==
  /\ MaxJobs \in Nat /\ MaxLeaves \in Nat /\ MaxErrors \in Nat
  /\ None \notin {"running", "failed", "mediaServicesWereReset", "other"}

VARIABLES
  visible,       (* whether ReceiverView is there                             *)
  access,        (* authorizationStatus                                       *)
  requests,      (* calls of requestAccess that wait for the user's answer    *)
  captureQueue,  (* jobs: "run", "reconfigure", "stop"                        *)
  posting,       (* what the job at work is about to report                   *)
  mainQueue,     (* closures waiting: answers and states                      *)
  isConfigured,
  isRunning,     (* AVCaptureSession.isRunning                                *)
  notice,        (* an error of the session that is yet to be handled         *)
  scanning,      (* a frame is being scanned on visionQueue                   *)
  state,         (* CameraScanner.State, what the view shows                  *)
  awakened,      (* history: the system asked for a camera nobody wanted      *)
  overtaken,     (* history: an error was reported before an older success    *)
  leaves, errors (* history: counts                                           *)

queueVars   == <<captureQueue, posting, mainQueue>>
captureVars == <<isConfigured, isRunning, notice, scanning>>
boundVars   == <<leaves, errors>>
cameraVars  == <<visible, access, requests, queueVars, captureVars, state, awakened,
                 overtaken, boundVars>>
receiverVars == vars
allVars      == <<receiverVars, cameraVars>>

----------------------------------------------------------------------------
(* start, stop and retry. *)

Enqueued(job) == captureQueue' = Append(captureQueue, job)

\* start.
Start ==
  /\ awakened' = FALSE
  /\ CASE access = "authorized"    -> Enqueued("run") /\ UNCHANGED <<requests, state>>
       [] access = "notDetermined" -> /\ requests' = requests + 1
                                      /\ UNCHANGED <<captureQueue, state>>
       [] access = "denied"        -> /\ state' = "denied"
                                      /\ UNCHANGED <<captureQueue, requests>>

\* Bug: stop looks at the session before its job is due.
StopIfRunning ==
  /\ awakened' = FALSE
  /\ IF isRunning THEN Enqueued("stop") ELSE UNCHANGED captureQueue
  /\ UNCHANGED <<requests, state>>

\* stop.
Stop ==
  /\ awakened' = FALSE
  /\ Enqueued("stop")
  /\ UNCHANGED <<requests, state>>

\* What neither of them touches.
Rest == <<access, posting, mainQueue, captureVars, overtaken, errors>>

\* The camera of IosReceiver changes, and nothing else of it.
Asked(on) ==
  /\ camera' = on
  /\ UNCHANGED <<showing, tasks, sessionVars, historyVars, resets>>

\* onAppear.
Appear ==
  /\ ~visible
  /\ visible' = TRUE
  /\ Asked(TRUE)
  /\ Start
  /\ UNCHANGED <<Rest, leaves>>

\* onDisappear.
Disappear ==
  /\ visible
  /\ leaves < MaxLeaves
  /\ visible' = FALSE
  /\ leaves' = leaves + 1
  /\ Asked(FALSE)
  /\ Stop
  /\ UNCHANGED Rest

\* The button that the view shows in place of the picture: retry.
Retry ==
  /\ visible /\ state = "failed"
  /\ Len(captureQueue) + Len(mainQueue) < MaxJobs
  /\ Asked(TRUE)
  /\ awakened' = FALSE
  /\ Enqueued("reconfigure")
  /\ UNCHANGED <<visible, requests, state, Rest, leaves>>

----------------------------------------------------------------------------
(* The view model. *)

\* A task runs; finish stops the camera.
IngestFrame(s) ==
  /\ Ingest(s)
  /\ IF saved' # saved THEN Stop
     ELSE UNCHANGED <<awakened, captureQueue, requests, state>>
  /\ UNCHANGED <<visible, Rest, leaves>>

\* reset starts it, whether or not it runs.
ReceiveNext ==
  /\ visible
  /\ Reset
  /\ Start
  /\ UNCHANGED <<visible, Rest, leaves>>

----------------------------------------------------------------------------
(* The queues. *)

\* A failure, or an error, of the capture session.
Error == errors < MaxErrors /\ errors' = errors + 1

\* stop's job.
StopJob ==
  /\ posting = None
  /\ captureQueue # <<>> /\ Head(captureQueue) = "stop"
  /\ captureQueue' = Tail(captureQueue)
  /\ isRunning' = FALSE
  /\ UNCHANGED <<receiverVars, visible, access, requests, posting, mainQueue,
                 isConfigured, notice, scanning, state, awakened, overtaken, boundVars>>

\* configureAndRun's job: it configures the session, if need be, starts it and
\* looks whether it runs.  Configuring and starting may fail.
RunJob ==
  /\ posting = None
  /\ captureQueue # <<>> /\ Head(captureQueue) # "stop"
  /\ captureQueue' = Tail(captureQueue)
  /\ LET kept == isConfigured /\ Head(captureQueue) = "run"
     IN  \/ /\ isConfigured' = TRUE
            /\ isRunning' = TRUE
            /\ posting' = "running"
            /\ UNCHANGED errors
         \/ /\ ~kept
            /\ Error
            /\ isConfigured' = FALSE
            /\ isRunning' = FALSE
            /\ posting' = "failed"
         \/ /\ ~(kept /\ isRunning)
            /\ Error
            /\ isConfigured' = TRUE
            /\ isRunning' = FALSE
            /\ posting' = "failed"
  /\ overtaken' = FALSE
  /\ UNCHANGED <<receiverVars, visible, access, requests, mainQueue, notice, scanning, state,
                 awakened, leaves>>

\* It reports what it found to the main queue.
Post ==
  /\ posting # None
  /\ mainQueue' = Append(mainQueue, posting)
  /\ posting' = None
  /\ UNCHANGED <<receiverVars, visible, access, requests, captureQueue, captureVars,
                 state, awakened, overtaken, boundVars>>

\* A closure on the main queue: the answer to requestAccess, or a state.
RunMain ==
  /\ mainQueue # <<>>
  /\ mainQueue' = Tail(mainQueue)
  /\ IF Head(mainQueue) = "allowed"
     THEN /\ Enqueued("run")
          /\ awakened' = ~camera
          /\ UNCHANGED state
     ELSE /\ state' = Head(mainQueue)
          /\ UNCHANGED <<captureQueue, awakened>>
  /\ UNCHANGED <<receiverVars, visible, access, requests, posting, captureVars,
                 overtaken, boundVars>>

----------------------------------------------------------------------------
(* The system. *)

\* The user answers the question; every call that waits is told.
Answer(allowed) ==
  /\ requests > 0
  /\ requests' = 0
  /\ access' = IF allowed THEN "authorized" ELSE "denied"
  /\ mainQueue' = mainQueue \o [i \in 1..requests |-> IF allowed THEN "allowed" ELSE "denied"]
  /\ UNCHANGED <<receiverVars, visible, captureQueue, posting, captureVars, state,
                 awakened, overtaken, boundVars>>

\* The session fails: because the media services restart, or otherwise.
SessionError(kind) ==
  /\ isRunning
  /\ notice = None
  /\ Error
  /\ isRunning' = FALSE
  /\ notice' = kind
  /\ UNCHANGED <<receiverVars, visible, access, requests, queueVars, isConfigured,
                 scanning, state, awakened, overtaken, leaves>>

\* handleRuntimeError, some time later: the session is set up again, or the view
\* is told.
HandleRuntimeError ==
  /\ notice # None
  /\ notice' = None
  /\ IF notice = "mediaServicesWereReset"
     THEN /\ Enqueued("reconfigure")
          /\ awakened' = ~camera
          /\ UNCHANGED <<mainQueue, overtaken>>
     ELSE /\ mainQueue' = Append(mainQueue, "failed")
          /\ overtaken' = (posting = "running" /\ ~isRunning)
          /\ UNCHANGED <<captureQueue, awakened>>
  /\ UNCHANGED <<receiverVars, visible, access, requests, posting, isConfigured,
                 isRunning, scanning, state, boundVars>>

\* A frame arrives; one that comes while another is scanned is discarded.
Deliver ==
  /\ isRunning /\ ~scanning
  /\ scanning' = TRUE
  /\ UNCHANGED <<receiverVars, visible, access, requests, queueVars, isConfigured,
                 isRunning, notice, state, awakened, overtaken, boundVars>>

\* captureOutput finds a code, or finds none or fails.
Scan ==
  /\ scanning
  /\ scanning' = FALSE
  /\ Film
  /\ UNCHANGED <<visible, access, requests, queueVars, isConfigured, isRunning, notice, state,
                 awakened, overtaken, boundVars>>

ScanFails ==
  /\ scanning
  /\ scanning' = FALSE
  /\ UNCHANGED <<receiverVars, visible, access, requests, queueVars, isConfigured,
                 isRunning, notice, state, awakened, overtaken, boundVars>>

----------------------------------------------------------------------------
(* Users that follow the instructions on the two screens. *)

\* The sender's user goes on to a segment that is missing once the receiver
\* says that the one on the screen is done.
ShowMissing ==
  /\ showing \in arrived
  /\ \E s \in Sessions \ arrived : s[1] = showing[1] /\ ShowSession(s)
  /\ UNCHANGED cameraVars

\* The view appears for the first time.
CInit ==
  /\ Init
  /\ visible = TRUE
  /\ access \in {"authorized", "notDetermined"}
  /\ requests = IF access = "notDetermined" THEN 1 ELSE 0
  /\ captureQueue = IF access = "authorized" THEN <<"run">> ELSE <<>>
  /\ posting = None
  /\ mainQueue = <<>>
  /\ isConfigured = FALSE /\ isRunning = FALSE /\ notice = None /\ scanning = FALSE
  /\ state = "idle"
  /\ awakened = FALSE /\ overtaken = FALSE
  /\ leaves = 0 /\ errors = 0

CNext ==
  \/ Appear \/ Disappear \/ Retry
  \/ ReceiveNext
  \/ \E s \in Sessions : IngestFrame(s)
  \/ StopJob \/ RunJob \/ Post \/ RunMain
  \/ \E allowed \in BOOLEAN : Answer(allowed)
  \/ SessionError("mediaServicesWereReset") \/ SessionError("other")
  \/ HandleRuntimeError
  \/ Deliver \/ Scan \/ ScanFails
  \/ ShowMissing

\* The queues and the main actor go on, a session that runs delivers frames and
\* a code is found in some of them, and the users do as told: they answer, come
\* back, take up the offer to try again and show what is missing.
CSpec ==
  /\ CInit /\ [][CNext]_allVars
  /\ WF_allVars(StopJob) /\ WF_allVars(RunJob) /\ WF_allVars(Post) /\ WF_allVars(RunMain)
  /\ WF_allVars(HandleRuntimeError)
  /\ WF_allVars(Deliver) /\ SF_allVars(Scan)
  /\ \A s \in Sessions : WF_allVars(IngestFrame(s))
  /\ WF_allVars(\E allowed \in BOOLEAN : Answer(allowed))
  /\ WF_allVars(Appear) /\ WF_allVars(Retry) /\ WF_allVars(ShowMissing)

----------------------------------------------------------------------------
(* Properties. *)

\* Nothing is under way.
Settled ==
  /\ captureQueue = <<>> /\ posting = None /\ mainQueue = <<>>
  /\ requests = 0 /\ notice = None

\* Once all that was asked for is done, in whatever order the view, the user's
\* answer, the jobs and the errors of the session met: the camera does not run
\* unless the last call asked for it, and if one did it runs or the view says why
\* not and offers to try again.  The code makes two exceptions: a late answer or a
\* restart of the media services starts a camera that was stopped in the meantime,
\* and an error between the last look at the session and its report is replaced by
\* the success that is older (CameraScanner.swift:53-108).
CameraFollowsView ==
  Settled =>
    /\ isRunning => camera \/ awakened
    /\ camera => isRunning \/ state \in {"denied", "failed"} \/ overtaken

\* With users that do as told, the file is saved, however often the view goes away
\* and the camera fails, unless the user denies access or an error is overtaken.
FileSaved == [](access # "denied" /\ ~overtaken) => <>(saved[showing[1]] = 1)
=============================================================================
