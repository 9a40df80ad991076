------------------------------ MODULE GpsSession ------------------------------
(***************************************************************************)
(* The sessions of the GPS HAL (gst4tq_gb/app, gps_sirf.c): the thread     *)
(* that carries them out, android_session_handler, and the callers it      *)
(* talks to through semaphores: the client (gps_start and gps_stop), the   *)
(* telephony framework (a network-initiated session, the answers to what   *)
(* the session needs to know), and the LSM library, which is external.     *)
(* There are sessions of the client ("mo"), of the network ("ni") and of   *)
(* the control plane ("cp"), with a rising claim to the receiver.          *)
(***************************************************************************)
EXTENDS Integers

CONSTANTS
  MaxCalls,   \* bound: calls from outside, answers not counted
  MaxRaced    \* bound: calls, once something has fallen into a window

Questions == {"conn", "setid", "cell"}

\* The windows between two steps of the handler that nothing in the code closes.
Windows == {"clear", "dispatch", "launch", "overlap", "expired", "late"}

ASSUME GpsAssumption == MaxCalls \in Nat /\ MaxRaced \in 0..MaxCalls

VARIABLES
  pc, kind,          \* the handler: where it is, and the session it is in
  check,             \* android_session_check: the session that has the claim
  noUpdate,          \* Noupdatetosessionhandler
  session,           \* g_SessionID is valid
  ni,                \* g_NI_Session
  resuming,          \* the request that sleeps with sAndroidSessionMutex
  stop,              \* where the client is in gps_stop
  stopPending,       \* stopupdatepending
  toClose,           \* the callback has read NI_SESSION_RUNNING, and waits
                     \* for the mutex
  semHandler, semMo, semNi, semRil, semStop,
  ask, tries,        \* the handler's and the LSM callback's questions
  rilPending,        \* RilRequestPending
  conn,              \* DataConnectionStatus
  agps,              \* agpsStatus.status
  pending,           \* sAndroidStatusPendingCallbacks
  reporter,          \* android_status_report_handler runs
  asked, held,       \* the framework: what it was asked and has not answered,
                     \* and whether it keeps the connection open
  overdue,           \* what it was asked, and nobody waits for any longer
  calls,
  raced              \* history: the windows something has fallen into

handler  == <<pc, kind, session, noUpdate>>
claim    == <<check, resuming>>
client   == <<stop, stopPending>>
sems     == <<semHandler, semMo, semNi, semRil, semStop>>
ril      == <<ask, tries, rilPending, conn, agps, pending>>
outside  == <<reporter, asked, held, overdue>>
vars     == <<handler, claim, ni, client, toClose, sems, ril, outside, calls, raced>>

Askers == {"handler", "lsm"}

\* The handler has created its semaphores and set android_session_check.
Init ==
  /\ pc = "clear" /\ kind = "mo" /\ session = FALSE /\ noUpdate = FALSE
  /\ check = "none" /\ resuming = "none" /\ ni = "none"
  /\ stop = "no" /\ stopPending = FALSE /\ toClose = FALSE
  /\ semHandler = 0 /\ semMo = 0 /\ semNi = 0 /\ semRil = 0 /\ semStop = 0
  /\ ask = [a \in Askers |-> "no"] /\ tries = [a \in Askers |-> 0]
  /\ rilPending = FALSE /\ conn = "closed" /\ agps = "release" /\ pending = {}
  /\ reporter = TRUE /\ asked = {} /\ held = FALSE /\ overdue = {}
  /\ calls = 0 /\ raced = {}

\* The history: something falls into window w, if hit.
Fell(w, hit) == raced' = IF hit THEN raced \cup {w} ELSE raced

-----------------------------------------------------------------------------
(* What a session needs to know: requestAllRilInfo, in the handler and in  *)
(* the callback of the LSM.  A question is put to the status thread, and   *)
(* semRilEvent awaited for three seconds.                                  *)
ReleaseConnection ==                                \* releaseDataConnection
  /\ agps' = "release" /\ conn' = "closed"
  /\ pending' = IF conn = "closed" THEN pending ELSE pending \cup {"conn"}

\* requestDataConnection, up to the first wait.
BeginAsking(a) ==
  /\ ask' = [ask EXCEPT ![a] = "conn"] /\ tries' = [tries EXCEPT ![a] = 0]
  /\ conn' = "opening" /\ rilPending' = TRUE
  /\ agps' = "request" /\ pending' = pending \cup {"conn"}

\* The end of requestAllRilInfo.  A session of the client goes on without the
\* answers; the callback reports LSM_SUPL_NETWORK_FAILED, and releases.
EndAsking(a, answered) ==
  /\ ask' = [ask EXCEPT ![a] = "no"]
  /\ IF a = "handler" THEN pc' = IF answered \/ kind = "mo" THEN "check" ELSE "idle"
                      ELSE UNCHANGED pc
  /\ IF a = "lsm" /\ ~answered THEN ReleaseConnection ELSE UNCHANGED <<agps, conn, pending>>

\* Whatever releases semRilEvent is taken for the answer.
Answered(a) ==
  /\ ask[a] \in Questions /\ semRil > 0 /\ semRil' = semRil - 1
  /\ IF ask[a] = "cell"
     THEN EndAsking(a, TRUE)
     ELSE LET next == IF ask[a] = "conn" THEN "setid" ELSE "cell" IN
          /\ ask' = [ask EXCEPT ![a] = next] /\ pending' = pending \cup {next}
          /\ UNCHANGED <<pc, agps, conn>>
  /\ UNCHANGED <<kind, session, noUpdate, claim, ni, client, toClose,
                 semHandler, semMo, semNi, semStop, tries, rilPending, outside, calls, raced>>

\* Three seconds are over.  The framework has been asked by now, unless the
\* status thread has ended; it may answer yet.
TimeOut(a) ==
  /\ ask[a] \in Questions /\ semRil = 0
  /\ ask[a] \in pending => ~reporter
  /\ asked' = IF ask[a] = "conn" THEN asked ELSE asked \ {ask[a]}
  /\ overdue' = overdue \cup (asked \ asked')
  /\ IF ask[a] = "conn" THEN ask' = [ask EXCEPT ![a] = "expired"]
                             /\ UNCHANGED <<pc, agps, conn, pending>>
                        ELSE EndAsking(a, FALSE)
  /\ UNCHANGED <<kind, session, noUpdate, claim, ni, client, toClose, sems,
                 tries, rilPending, reporter, held, calls, raced>>

\* mutant: the second request for the connection is given up like the first.
NotGivenUp(a) ==
  /\ ask[a] = "expired"
  /\ IF tries[a] = 0
     THEN /\ ask' = [ask EXCEPT ![a] = "conn"] /\ tries' = [tries EXCEPT ![a] = 1]
          /\ rilPending' = TRUE
          /\ agps' = "request" /\ pending' = pending \cup {"conn"} /\ UNCHANGED <<pc, conn>>
     ELSE EndAsking(a, FALSE) /\ UNCHANGED <<tries, rilPending>>
  /\ UNCHANGED <<kind, session, noUpdate, claim, ni, client, toClose, sems, outside, calls, raced>>

\* The wait for the connection is over: ask once more, or give up.
Expired(a) ==
  /\ ask[a] = "expired"
  /\ IF tries[a] = 0
     THEN /\ ask' = [ask EXCEPT ![a] = "conn"] /\ tries' = [tries EXCEPT ![a] = 1]
          /\ rilPending' = TRUE
          /\ agps' = "request" /\ pending' = pending \cup {"conn"} /\ UNCHANGED <<pc, conn>>
     ELSE EndAsking(a, FALSE) /\ rilPending' = FALSE /\ UNCHANGED tries
  /\ UNCHANGED <<kind, session, noUpdate, claim, ni, client, toClose, sems, outside, calls, raced>>

-----------------------------------------------------------------------------
(* android_session_handler.                                                *)
\* mutant: the claim is given up, whoever has taken over.
IdleRegardless ==
  /\ pc = "idle" /\ noUpdate' = FALSE /\ pc' = "clear"
  /\ UNCHANGED <<kind, session, claim, ni, client, toClose, sems, ril, outside, calls, raced>>

\* IdleState: the claim is given up, unless another session has taken it over.
Idle ==
  /\ pc = "idle" /\ noUpdate' = FALSE
  /\ pc' = IF noUpdate THEN "wait" ELSE "clear"
  /\ UNCHANGED <<kind, session, claim, ni, client, toClose, sems, ril, outside, calls, raced>>

Clear ==
  /\ pc = "clear" /\ pc' = "wait" /\ check' = "none"
  /\ IF conn # "closed" THEN ReleaseConnection ELSE UNCHANGED <<agps, conn, pending>>
  /\ UNCHANGED <<kind, session, noUpdate, resuming, ni, client, toClose, sems,
                 ask, tries, rilPending, outside, calls, raced>>

\* A new session: of whom, android_session_check says.
Dispatch ==
  /\ pc = "wait" /\ Fell("dispatch", resuming # "none")
  /\ semHandler > 0 /\ semHandler' = semHandler - 1
  /\ pc' = CASE check \in {"mo", "ni"} -> "start" [] check = "cp" -> "cp" [] OTHER -> "dead"
  /\ kind' = IF check \in {"mo", "ni"} THEN check ELSE kind
  /\ UNCHANGED <<session, noUpdate, claim, ni, client, toClose,
                 semMo, semNi, semRil, semStop, ril, outside, calls>>

\* A stand-alone session of the client asks nothing.
Start ==
  /\ pc = "start"
  /\ \/ pc' = "ask" /\ BeginAsking("handler")
     \/ kind = "mo" /\ pc' = "check" /\ UNCHANGED ril
  /\ UNCHANGED <<kind, session, noUpdate, claim, ni, client, toClose, sems, outside, calls, raced>>

\* The control plane may have taken over meanwhile; the session's configuration
\* may be missing.
Check ==
  /\ pc = "check"
  /\ \/ kind = "mo" /\ pc' = "idle" /\ UNCHANGED <<session, ni>>
     \/ /\ resuming = "none"
        /\ pc' = IF check = "cp" THEN "idle" ELSE "launch"
        /\ session' = IF check = "cp" /\ kind = "mo" THEN FALSE ELSE session
        /\ ni' = IF check = "cp" /\ kind = "ni" THEN "none" ELSE ni
  /\ UNCHANGED <<kind, noUpdate, claim, client, toClose, sems, ril, outside, calls, raced>>

\* LSM_Start, or CP_SendNetMessage, which may fail.
Launch ==
  /\ pc = "launch"
  /\ \E ok \in BOOLEAN :
       /\ pc' = IF ok THEN "running" ELSE "idle"
       /\ session' = IF kind = "mo" THEN ok ELSE session
       /\ ni' = IF kind = "ni" /\ ok THEN "running" ELSE ni
  /\ UNCHANGED <<kind, noUpdate, claim, client, toClose, sems, ril, outside, calls, raced>>

\* The end of a session of the client; LSM_Stop comes back after the LSM's callback.
EndMo ==
  /\ pc = "running" /\ kind = "mo" /\ semMo > 0 /\ semMo' = semMo - 1
  /\ pc' = "closing" /\ session' = FALSE
  /\ UNCHANGED <<kind, noUpdate, claim, ni, client, toClose,
                 semHandler, semNi, semRil, semStop, ril, outside, calls, raced>>

Closed ==
  /\ pc = "closing" /\ Fell("overlap", ask["lsm"] # "no")
  /\ stopPending' = FALSE
  /\ pc' = IF stopPending THEN "tell" ELSE "idle"
  /\ UNCHANGED <<kind, session, noUpdate, claim, ni, stop, toClose, sems, ril, outside, calls>>

Tell ==
  /\ pc = "tell" /\ pc' = "idle" /\ semStop' = semStop + 1
  /\ UNCHANGED <<kind, session, noUpdate, claim, ni, client, toClose,
                 semHandler, semMo, semNi, semRil, ril, outside, calls, raced>>

\* The end of a session of the network, asked for or after forty seconds.
EndNi ==
  /\ pc = "running" /\ kind = "ni"
  /\ semNi' = IF semNi > 0 THEN semNi - 1 ELSE 0
  /\ pc' = "ending"
  /\ UNCHANGED <<kind, session, noUpdate, claim, ni, client, toClose,
                 semHandler, semMo, semRil, semStop, ril, outside, calls, raced>>

NiEnded ==
  /\ pc = "ending" /\ pc' = "idle" /\ ni' = "none"
  /\ UNCHANGED <<kind, session, noUpdate, claim, client, toClose, sems, ril, outside, calls, raced>>

-----------------------------------------------------------------------------
(* android_session_handler_resume, under sAndroidSessionMutex.  A claim that *)
(* takes over from another ends its session, sleeps for 20 ms with the mutex *)
(* and is set then.                                                          *)
Refused(r) ==
  /\ check # "none" /\ r # "cp"
  /\ ~(check = "ni" /\ r = "mo")

Claim(r) ==
  /\ check = "none" /\ check' = r /\ semHandler' = semHandler + 1
  /\ UNCHANGED <<resuming, noUpdate, ni, semMo, semNi>>

\* mutant: the handler may give up the claim that takes over.
TakeOverUnmarked(r) ==
  /\ check # "none" /\ ~Refused(r) /\ resuming' = r
  /\ UNCHANGED noUpdate
  /\ semMo' = IF check = "mo" /\ session THEN semMo + 1 ELSE semMo
  /\ IF check = "ni" /\ ni = "running" THEN ni' = "closing" /\ semNi' = semNi + 1
                                       ELSE UNCHANGED <<ni, semNi>>
  /\ UNCHANGED <<check, semHandler>>

\* mutant: the session of the client is not told to end.
TakeOverSilently(r) ==
  /\ check # "none" /\ ~Refused(r) /\ resuming' = r
  /\ noUpdate' = (noUpdate \/ check # "cp")
  /\ IF check = "ni" /\ ni = "running" THEN ni' = "closing" /\ semNi' = semNi + 1
                                       ELSE UNCHANGED <<ni, semNi>>
  /\ UNCHANGED <<check, semHandler, semMo>>

TakeOver(r) ==
  /\ check # "none" /\ ~Refused(r) /\ resuming' = r
  /\ noUpdate' = (noUpdate \/ check # "cp")
  /\ semMo' = IF check = "mo" /\ session THEN semMo + 1 ELSE semMo
  /\ IF check = "ni" /\ ni = "running" THEN ni' = "closing" /\ semNi' = semNi + 1
                                       ELSE UNCHANGED <<ni, semNi>>
  /\ UNCHANGED <<check, semHandler>>

\* A call from outside, counted.
Called ==
  /\ calls < (IF raced = {} THEN MaxCalls ELSE MaxRaced) /\ calls' = calls + 1

\* A claim that the handler is about to give up unseen; one that takes over from
\* another the handler has not seen, or from a session that is not noted yet.
InWindow(r) ==
  {w \in Windows : \/ w = "clear" /\ pc = "clear"
                   \/ w = "dispatch" /\ pc = "wait" /\ semHandler > 0
                   \/ w = "launch" /\ pc = "launch" /\ r = "cp"}

Resume(r) ==
  /\ resuming = "none" /\ Called
  /\ \/ Refused(r) /\ UNCHANGED <<check, resuming, noUpdate, ni, semHandler, semMo, semNi, raced>>
     \/ (Claim(r) \/ TakeOver(r)) /\ raced' = raced \cup InWindow(r)
  /\ UNCHANGED <<pc, kind, session, client, toClose, semRil, semStop, ril, outside>>

Resumed ==
  /\ resuming # "none" /\ resuming' = "none" /\ check' = resuming
  /\ semHandler' = semHandler + 1
  /\ UNCHANGED <<handler, ni, client, toClose, semMo, semNi, semRil, semStop, ril, outside, calls, raced>>

GpsStart == stop = "no" /\ Resume("mo")              \* sirf_gps_start
NiMessage == Resume("ni")                            \* sirf_agps_ril_ni_message

\* The LSM makes one callback at a time.
LsmFree == ask["lsm"] = "no" /\ ~toClose /\ resuming # "cp"

CpStarted == LsmFree /\ Resume("cp")                  \* LSM_CP_SESSION_STARTED

\* android_session_handler_suspend: end the session that has the claim.
Suspend ==
  /\ semMo' = IF check = "mo" THEN semMo + 1 ELSE semMo
  /\ semNi' = IF check = "ni" THEN semNi + 1 ELSE semNi
  /\ UNCHANGED <<semHandler, semRil, semStop>>

\* sirf_gps_stop: nothing to do while the control plane has the receiver.
GpsStop ==
  /\ stop = "no" /\ resuming # "mo" /\ Called
  /\ stop' = IF check = "cp" THEN "no" ELSE "begun"
  /\ UNCHANGED <<handler, claim, ni, stopPending, toClose, sems, ril, outside, raced>>

StopSession ==
  /\ stop = "begun" /\ resuming = "none" /\ stopPending' = TRUE
  /\ stop' = IF check = "none" THEN "no" ELSE "wait"
  /\ Suspend
  /\ UNCHANGED <<handler, claim, ni, toClose, ril, outside, calls, raced>>

StopAnswered ==
  /\ stop = "wait" /\ semStop > 0 /\ semStop' = semStop - 1 /\ stop' = "no"
  /\ UNCHANGED <<handler, claim, ni, stopPending, toClose,
                 semHandler, semMo, semNi, semRil, ril, outside, calls, raced>>

\* Four seconds are over.
StopTimeOut ==
  /\ stop = "wait" /\ semStop = 0
  /\ stop' = "no" /\ stopPending' = FALSE
  /\ UNCHANGED <<handler, claim, ni, toClose, sems, ril, outside, calls, raced>>

\* LSM_TO_CLOSE: the session of the network is over; g_NI_Session is read
\* before the mutex is taken.
ToClose ==
  /\ LsmFree /\ ni = "running" /\ toClose' = TRUE
  /\ UNCHANGED <<handler, claim, ni, client, sems, ril, outside, calls, raced>>

CloseNi ==
  /\ toClose /\ resuming = "none" /\ toClose' = FALSE
  /\ ni' = "closing" /\ Suspend
  /\ UNCHANGED <<handler, claim, client, ril, outside, calls, raced>>

\* LSM_SUPL_NETWORK_RESUME in a session of the client, and _CLOSED or _FAILED in
\* any: the LSM has a network while it has a session.
LsmRuns == pc \in {"launch", "running", "closing", "ending"}

NetworkResume ==
  /\ LsmFree /\ session /\ Called /\ BeginAsking("lsm")
  /\ UNCHANGED <<handler, claim, ni, client, toClose, sems, outside, raced>>

NetworkClosed ==
  /\ LsmFree /\ Fell("overlap", ~LsmRuns) /\ Called /\ ReleaseConnection
  /\ UNCHANGED <<handler, claim, ni, client, toClose, sems, ask, tries, rilPending, outside>>

-----------------------------------------------------------------------------
(* The status thread, and the framework.                                   *)
\* All that is pending is reported; of a request and a release, the later one.
\* After ANDROID_STATUS_REPORT_POWER_SAVING the thread ends.
Report ==
  /\ reporter /\ pending # {} /\ pending' = {}
  /\ LET release == "conn" \in pending /\ agps = "release" IN
     /\ asked' = (asked \cup (pending \cap Questions)) \ (IF release THEN {"conn"} ELSE {})
     /\ held' = (held /\ ~release)
  /\ reporter' = ("power" \notin pending)
  /\ UNCHANGED <<handler, claim, ni, client, toClose, sems, ask, tries, rilPending, conn, agps,
                 overdue, calls, raced>>

PowerOff ==                                          \* SendAP_PowerOff_Notification
  /\ check = "none" /\ Called /\ pending' = pending \cup {"power"}
  /\ UNCHANGED <<handler, claim, ni, client, toClose, sems,
                 ask, tries, rilPending, conn, agps, outside, raced>>

\* sirf_agps_data_conn_open and _failed.
ConnectionAnswered(open) ==
  /\ "conn" \in asked /\ asked' = asked \ {"conn"}
  /\ Fell("expired", \E a \in Askers : ask[a] = "expired")
  /\ held' = open /\ conn' = IF open THEN "open" ELSE "closed"
  /\ rilPending' = FALSE
  /\ semRil' = IF rilPending THEN semRil + 1 ELSE semRil
  /\ UNCHANGED <<handler, claim, ni, client, toClose, semHandler, semMo, semNi, semStop,
                 ask, tries, agps, pending, reporter, overdue, calls>>

ConnectionLost ==                                    \* sirf_agps_data_conn_closed
  /\ held /\ held' = FALSE /\ conn' = "closed"
  /\ UNCHANGED <<handler, claim, ni, client, toClose, sems,
                 ask, tries, rilPending, agps, pending, reporter, asked, overdue, calls, raced>>

\* sirf_agps_ril_set_set_id and _set_ref_location, which do not look whether
\* anybody waits.
IdAnswered(q) ==
  /\ \/ q \in asked \ {"conn"} /\ asked' = asked \ {q} /\ UNCHANGED <<overdue, raced>>
     \/ q \in overdue /\ overdue' = overdue \ {q} /\ Fell("late", TRUE) /\ UNCHANGED asked
  /\ semRil' = semRil + 1
  /\ UNCHANGED <<handler, claim, ni, client, toClose, semHandler, semMo, semNi, semStop,
                 ril, reporter, held, calls>>

-----------------------------------------------------------------------------
HandlerStep == \/ Idle \/ Clear \/ Dispatch \/ Start \/ Check \/ Launch
               \/ EndMo \/ Closed \/ Tell \/ EndNi \/ NiEnded
AskStep     == \E a \in Askers : Answered(a) \/ TimeOut(a) \/ Expired(a)
ClientStep  == GpsStart \/ GpsStop \/ StopSession \/ StopAnswered \/ StopTimeOut
LsmStep     == CpStarted \/ ToClose \/ CloseNi \/ NetworkResume \/ NetworkClosed \/ PowerOff
Framework   == \/ NiMessage \/ ConnectionLost
               \/ \E open \in BOOLEAN : ConnectionAnswered(open)
               \/ \E q \in Questions : IdAnswered(q)

Next == HandlerStep \/ AskStep \/ ClientStep \/ LsmStep \/ Framework \/ Resumed \/ Report

Spec == Init /\ [][Next]_vars

\* The threads are scheduled, the timeouts elapse, and 20 ms of sleep end.
Fairness == /\ WF_vars(HandlerStep) /\ WF_vars(Resumed) /\ WF_vars(Report)
            /\ \A a \in Askers : WF_vars(Answered(a) \/ TimeOut(a) \/ Expired(a))

FairSpec == Spec /\ Fairness

-----------------------------------------------------------------------------
FlagsOK ==
  /\ noUpdate \in BOOLEAN /\ session \in BOOLEAN /\ stopPending \in BOOLEAN
  /\ toClose \in BOOLEAN /\ rilPending \in BOOLEAN /\ reporter \in BOOLEAN /\ held \in BOOLEAN

TypeOK ==
  /\ FlagsOK
  /\ pc \in {"idle", "clear", "wait", "start", "ask", "check", "launch", "running",
             "closing", "tell", "ending", "cp", "dead"}
  /\ kind \in {"mo", "ni"} /\ check \in {"none", "mo", "ni", "cp"}
  /\ ni \in {"none", "running", "closing"} /\ resuming \in {"none", "mo", "cp"}
  /\ stop \in {"no", "begun", "wait"}
  /\ semHandler \in Nat /\ semMo \in Nat /\ semNi \in Nat /\ semRil \in Nat /\ semStop \in Nat
  /\ ask \in [Askers -> {"no", "expired"} \cup Questions] /\ tries \in [Askers -> {0, 1}]
  /\ conn \in {"closed", "opening", "open"} /\ agps \in {"request", "release"}
  /\ pending \subseteq Questions \cup {"power"} /\ asked \subseteq Questions
  /\ overdue \subseteq Questions /\ calls \in 0..MaxCalls /\ raced \subseteq Windows

\* No claim has fallen where the handler, about to give it up or yet to see the
\* one before, does not see it: what the rest relies on, and nothing ensures.
Seen == raced \cap {"clear", "dispatch"} = {}

\* As long as every claim was seen, a handler that waits, with no request on its
\* way, leaves no session behind that has the claim: nothing would ever take it
\* away, and sirf_gps_start would be refused for good.  Nor does it ever find a
\* request without a claim (UnknownSession), which ends the thread.  No other
\* window can bring either about.
IdleIsFree ==
  Seen =>
    /\ pc # "dead"
    /\ pc = "wait" /\ semHandler = 0 /\ resuming = "none" => check = "none" /\ ~noUpdate /\ ~session

\* One question at a time, and its answer before it is given up, or put again:
\* semRilEvent relies on that, and nothing ensures it.
Matched == raced \cap {"overlap", "expired", "late"} = {}

\* As long as questions and answers matched, when nobody waits for an answer there
\* is none left in semRilEvent, to be taken for the answer to the next question:
\* not of an answer about the connection that comes after its three seconds, or
\* after both requests were given up, however the claims raced.
NoStaleAnswer ==
  Matched /\ (\A a \in Askers : ask[a] = "no") => semRil = 0

\* With no session, and nothing under way to the framework or back, the
\* framework does not keep a data connection open, nothing having fallen into a window.
ConnectionGivenBack ==
  (/\ raced = {} /\ pc = "wait" /\ check = "none" /\ ask["lsm"] = "no"
   /\ "conn" \notin pending \cup asked /\ reporter)
    => ~held

\* A session that gps_start was promised begins, unless the control plane took
\* over, or a claim was not seen.
StartIsServed ==
  (check = "mo" /\ semHandler > 0) ~> (pc = "start" /\ kind = "mo") \/ check = "cp" \/ ~Seen

\* The control plane gets the receiver: whatever session there was ends, unless a
\* claim was not seen, or came before the session it took over was noted.
CpEndsOthers ==
  (check = "cp") ~> (pc = "cp" /\ ~session) \/ ~Seen \/ "launch" \in raced
=============================================================================
