--------------------------- MODULE GpsSession_proofs ---------------------------
(***************************************************************************)
(* Proofs about GpsSession, for every number of calls, at whatever moment  *)
(* they and the answers come: the type invariant; that a handler at rest   *)
(* has no claim and no session, as long as it has seen every claim; and    *)
(* that no answer is left to be mistaken, as long as questions and answers *)
(* matched.  What the latter two need of the history is proved to be all   *)
(* they need: no other window, and no other order, can bring them down.    *)
(***************************************************************************)
EXTENDS GpsSession, TLAPS

\* TypeOK without the flags, which are proved apart.
RestOK ==
  /\ pc \in {"idle", "clear", "wait", "start", "ask", "check", "launch", "running",
             "closing", "tell", "ending", "cp", "dead"}
  /\ kind \in {"mo", "ni"} /\ check \in {"none", "mo", "ni", "cp"}
  /\ ni \in {"none", "running", "closing"} /\ resuming \in {"none", "mo", "cp"}
  /\ stop \in {"no", "begun", "wait"}
  /\ semHandler \in Nat /\ semMo \in Nat /\ semNi \in Nat /\ semRil \in Nat /\ semStop \in Nat
  /\ ask \in [Askers -> {"no", "expired"} \cup Questions] /\ tries \in [Askers -> {0, 1}]
  /\ conn \in {"closed", "opening", "open"} /\ agps \in {"request", "release"}
  /\ pending \subseteq Questions \cup {"power"} /\ asked \subseteq Questions
  /\ overdue \subseteq Questions /\ calls \in 0..MaxCalls /\ raced \subseteq Windows

\* The handler has a session, or ends one.
Busy == pc \notin {"wait", "clear", "cp", "dead"}
\* A request that the handler has not seen.
Coming == semHandler > 0 \/ resuming # "none"

\* Where every claim was seen: a handler that is busy has been told of every request to come, and is alone in
\* giving up a claim; one that waits has no claim but of a request to come.
ClaimOK ==
  /\ pc # "dead"
  /\ pc = "clear" => ~noUpdate /\ ~Coming
  /\ pc = "wait" => ~noUpdate /\ (check # "none" <=> Coming)
  /\ Busy => check # "none" /\ (noUpdate <=> Coming)
  /\ pc = "cp" => check = "cp"
  /\ check # "cp" => semHandler <= 1
  /\ check = "ni" /\ Busy => semHandler = 0
  /\ check = "cp" /\ Busy => noUpdate
  /\ resuming = "mo" => check = "ni" /\ semHandler = 0

\* g_SessionID is valid in a session of the client that runs.
SessionOK == session => pc = "running" /\ kind = "mo"

\* Question q may still be answered.
Alive(q) == q \in asked \/ (reporter /\ q \in pending)

\* The handler asks where it waits for the answers.
HandlerAsks == ask["handler"] # "no" <=> pc = "ask"

\* Where questions and answers matched: the callback asks in a session of the
\* client only, and never while the handler does.
LsmAsks == ask["lsm"] # "no" => pc \in {"running", "closing"} /\ kind = "mo"

\* What semRilEvent holds, and what may still come, answers the question asked.
AnswerOK ==
  /\ \A a \in Askers :
       /\ ask[a] = "conn" => semRil = IF rilPending THEN 0 ELSE 1
       /\ ask[a] = "expired" => semRil = 0
       /\ ask[a] \in {"setid", "cell"} =>
            /\ ~rilPending /\ semRil \in {0, 1}
            /\ semRil = 1 => ~Alive(ask[a])
            /\ ~(ask[a] \in asked /\ reporter /\ ask[a] \in pending)
  /\ (\A a \in Askers : ask[a] = "no") => semRil = 0 /\ ~rilPending
  /\ \A q \in {"setid", "cell"} : Alive(q) => \E a \in Askers : ask[a] = q
-----------------------------------------------------------------------------
(* Types.                                                                  *)
\* The types hold at the start.
LEMMA InitTyped == Init => RestOK
BY GpsAssumption DEF Init, RestOK, Askers, Questions, GpsAssumption

\* Every step keeps the types of all but the flags.
LEMMA StepTyped ==
  ASSUME RestOK, FlagsOK, [Next]_vars
  PROVE  RestOK'
<1> USE DEF RestOK, Askers, Questions, Windows, Fell
<1>1. CASE Idle  BY <1>1 DEF Idle, claim, client, sems, ril, outside
<1>2. CASE Clear  BY <1>2 DEF Clear, ReleaseConnection, client, sems, outside
<1>3. CASE Dispatch  BY <1>3 DEF Dispatch, claim, client, ril, outside
<1>4. CASE Start  BY <1>4 DEF Start, BeginAsking, claim, client, sems, ril, outside
<1>5. CASE Check  BY <1>5 DEF Check, claim, client, sems, ril, outside
<1>6. CASE Launch  BY <1>6 DEF Launch, claim, client, sems, ril, outside
<1>7. CASE EndMo  BY <1>7 DEF EndMo, claim, client, ril, outside
<1>8. CASE Closed  BY <1>8 DEF Closed, claim, sems, ril, outside
<1>9. CASE Tell  BY <1>9 DEF Tell, claim, client, ril, outside
<1>10. CASE EndNi  BY <1>10 DEF EndNi, claim, client, ril, outside
<1>11. CASE NiEnded  BY <1>11 DEF NiEnded, claim, client, sems, ril, outside
<1>12. ASSUME NEW a \in Askers, Answered(a)  PROVE RestOK'
  <2>1. ask' \in [Askers -> {"no", "expired"} \cup Questions]
    BY <1>12 DEF Answered, EndAsking
  <2>2. pc' \in {pc, "check", "idle"} /\ pending' \subseteq Questions \cup {"power"}
    BY <1>12 DEF Answered, EndAsking, ReleaseConnection
  <2>3. conn' \in {conn, "closed"} /\ agps' \in {agps, "release"} /\ semRil' \in Nat
    BY <1>12 DEF Answered, EndAsking, ReleaseConnection
  <2> QED  BY <1>12, <2>1, <2>2, <2>3 DEF Answered, claim, client, outside
<1>13. ASSUME NEW a \in Askers, TimeOut(a)  PROVE RestOK'
  <2>1. ask' \in [Askers -> {"no", "expired"} \cup Questions]
    BY <1>13 DEF TimeOut, EndAsking
  <2>2. pc' \in {pc, "check", "idle"} /\ pending' \subseteq Questions \cup {"power"}
    BY <1>13 DEF TimeOut, EndAsking, ReleaseConnection
  <2>3. conn' \in {conn, "closed"} /\ agps' \in {agps, "release"}
    BY <1>13 DEF TimeOut, EndAsking, ReleaseConnection
  <2>4. asked' \subseteq Questions /\ overdue' \subseteq Questions
    BY <1>13 DEF TimeOut
  <2> QED  BY <1>13, <2>1, <2>2, <2>3, <2>4 DEF TimeOut, claim, client, sems
<1>14. ASSUME NEW a \in Askers, Expired(a)  PROVE RestOK'
  <2>1. ask' \in [Askers -> {"no", "expired"} \cup Questions]
    BY <1>14 DEF Expired, EndAsking
  <2>2. pc' \in {pc, "check", "idle"} /\ pending' \subseteq Questions \cup {"power"}
    BY <1>14 DEF Expired, EndAsking, ReleaseConnection
  <2>3. conn' \in {conn, "closed"} /\ agps' \in {agps, "release", "request"}
    BY <1>14 DEF Expired, EndAsking, ReleaseConnection
  <2>4. tries' \in [Askers -> {0, 1}]
    BY <1>14 DEF Expired
  <2> QED  BY <1>14, <2>1, <2>2, <2>3, <2>4 DEF Expired, claim, client, sems, outside
<1>15. ASSUME NEW r \in {"mo", "ni", "cp"}, Resume(r)  PROVE RestOK'
  <2>1. calls' \in 0..MaxCalls
    BY <1>15, GpsAssumption DEF GpsAssumption, Resume, Called
  <2>2. raced' \subseteq Windows
    BY <1>15 DEF Resume, InWindow
  <2>3. CASE Refused(r) /\ UNCHANGED <<check, resuming, noUpdate, ni, semHandler, semMo, semNi>>
    BY <1>15, <2>1, <2>2, <2>3 DEF Resume, client, ril, outside
  <2>4. CASE Claim(r)
    BY <1>15, <2>1, <2>2, <2>4 DEF Resume, Claim, client, ril, outside
  <2>5. CASE TakeOver(r)
    BY <1>15, <2>1, <2>2, <2>5 DEF Resume, Refused, TakeOver, client, ril, outside
  <2> QED  BY <1>15, <2>3, <2>4, <2>5 DEF Resume
<1>16. CASE GpsStop  BY <1>16, GpsAssumption DEF GpsAssumption, GpsStop, Called, handler, claim, sems, ril, outside
<1>17. CASE StopSession  BY <1>17 DEF StopSession, Suspend, handler, claim, ril, outside
<1>18. CASE StopAnswered  BY <1>18 DEF StopAnswered, handler, claim, ril, outside
<1>19. CASE StopTimeOut  BY <1>19 DEF StopTimeOut, handler, claim, sems, ril, outside
<1>20. CASE ToClose  BY <1>20 DEF ToClose, handler, claim, client, sems, ril, outside
<1>21. CASE CloseNi  BY <1>21 DEF CloseNi, Suspend, handler, claim, client, ril, outside
<1>22. CASE NetworkResume
  BY <1>22, GpsAssumption DEF GpsAssumption, NetworkResume, Called, BeginAsking, handler, claim, client, sems, outside
<1>23. CASE NetworkClosed
  BY <1>23, GpsAssumption DEF GpsAssumption, NetworkClosed, Called, ReleaseConnection, handler, claim, client, sems, outside
<1>24. CASE PowerOff  BY <1>24, GpsAssumption DEF GpsAssumption, PowerOff, Called, handler, claim, client, sems, outside
<1>25. CASE ConnectionLost  BY <1>25 DEF ConnectionLost, handler, claim, client, sems
<1>26. ASSUME NEW open \in BOOLEAN, ConnectionAnswered(open)  PROVE RestOK'
  BY <1>26 DEF ConnectionAnswered, handler, claim, client
<1>27. ASSUME NEW q \in Questions, IdAnswered(q)  PROVE RestOK'
  <2>1. asked' \subseteq Questions /\ overdue' \subseteq Questions /\ raced' \subseteq Windows
    BY <1>27 DEF IdAnswered
  <2> QED  BY <1>27, <2>1 DEF IdAnswered, handler, claim, client, ril
<1>28. CASE Resumed  BY <1>28 DEF Resumed, handler, client, ril, outside
<1>29. CASE Report  BY <1>29 DEF Report, handler, claim, client, sems
<1>30. CASE UNCHANGED vars
  BY <1>30 DEF vars, handler, claim, client, sems, ril, outside
<1> QED
  BY <1>1, <1>2, <1>3, <1>4, <1>5, <1>6, <1>7, <1>8, <1>9, <1>10, <1>11, <1>12, <1>13,
     <1>14, <1>15, <1>16, <1>17, <1>18, <1>19, <1>20, <1>21, <1>22, <1>23, <1>24, <1>25,
     <1>26, <1>27, <1>28, <1>29, <1>30
  DEF Next, HandlerStep, AskStep, ClientStep, LsmStep, Framework, GpsStart, NiMessage, CpStarted

\* Every step keeps the flags Boolean.
LEMMA StepFlags ==
  ASSUME FlagsOK, [Next]_vars
  PROVE  FlagsOK'
<1> USE DEF FlagsOK
<1>1. CASE Idle  BY Zenon, <1>1 DEF Idle, claim, client, sems, ril, outside
<1>2. CASE Clear  BY Zenon, <1>2 DEF Clear, ReleaseConnection, client, sems, outside
<1>3. CASE Dispatch  BY Zenon, <1>3 DEF Dispatch, claim, client, ril, outside
<1>4. CASE Start  BY Zenon, <1>4 DEF Start, BeginAsking, claim, client, sems, ril, outside
<1>5. CASE Check  BY Zenon, <1>5 DEF Check, claim, client, sems, ril, outside
<1>6. CASE Launch  BY Zenon, <1>6 DEF Launch, claim, client, sems, ril, outside
<1>7. CASE EndMo  BY Zenon, <1>7 DEF EndMo, claim, client, ril, outside
<1>8. CASE Closed  BY Zenon, <1>8 DEF Closed, claim, sems, ril, outside
<1>9. CASE Tell  BY Zenon, <1>9 DEF Tell, claim, client, ril, outside
<1>10. CASE EndNi  BY Zenon, <1>10 DEF EndNi, claim, client, ril, outside
<1>11. CASE NiEnded  BY Zenon, <1>11 DEF NiEnded, claim, client, sems, ril, outside
<1>12. ASSUME NEW a \in Askers, Answered(a)  PROVE FlagsOK'
  BY Zenon, <1>12 DEF Answered, EndAsking, ReleaseConnection, claim, client, outside
<1>13. ASSUME NEW a \in Askers, TimeOut(a)  PROVE FlagsOK'
  BY Zenon, <1>13 DEF TimeOut, EndAsking, ReleaseConnection, claim, client, sems
<1>14. ASSUME NEW a \in Askers, Expired(a)  PROVE FlagsOK'
  BY Zenon, <1>14 DEF Expired, EndAsking, ReleaseConnection, claim, client, sems, outside
<1>15. ASSUME NEW r \in {"mo", "ni", "cp"}, Resume(r)  PROVE FlagsOK'
  BY Zenon, <1>15 DEF Resume, Called, Refused, Claim, TakeOver, client, ril, outside
<1>16. CASE GpsStop  BY Zenon, <1>16 DEF GpsStop, Called, handler, claim, sems, ril, outside
<1>17. CASE StopSession  BY Zenon, <1>17 DEF StopSession, Suspend, handler, claim, ril, outside
<1>18. CASE StopAnswered  BY Zenon, <1>18 DEF StopAnswered, handler, claim, ril, outside
<1>19. CASE StopTimeOut  BY Zenon, <1>19 DEF StopTimeOut, handler, claim, sems, ril, outside
<1>20. CASE ToClose  BY Zenon, <1>20 DEF ToClose, handler, claim, client, sems, ril, outside
<1>21. CASE CloseNi  BY Zenon, <1>21 DEF CloseNi, Suspend, handler, claim, client, ril, outside
<1>22. CASE NetworkResume
  BY Zenon, <1>22 DEF NetworkResume, Called, BeginAsking, handler, claim, client, sems, outside
<1>23. CASE NetworkClosed
  BY Zenon, <1>23 DEF NetworkClosed, Called, ReleaseConnection, handler, claim, client, sems, outside
<1>24. CASE PowerOff  BY Zenon, <1>24 DEF PowerOff, Called, handler, claim, client, sems, outside
<1>25. CASE ConnectionLost  BY Zenon, <1>25 DEF ConnectionLost, handler, claim, client, sems
<1>26. ASSUME NEW open \in BOOLEAN, ConnectionAnswered(open)  PROVE FlagsOK'
  BY Zenon, <1>26 DEF ConnectionAnswered, handler, claim, client
<1>27. ASSUME NEW q \in Questions, IdAnswered(q)  PROVE FlagsOK'
  BY Zenon, <1>27 DEF IdAnswered, handler, claim, client, ril
<1>28. CASE Resumed  BY Zenon, <1>28 DEF Resumed, handler, client, ril, outside
<1>29. CASE Report  BY Zenon, <1>29 DEF Report, handler, claim, client, sems
<1>30. CASE UNCHANGED vars
  BY Zenon, <1>30 DEF vars, handler, claim, client, sems, ril, outside
<1> QED
  BY <1>1, <1>2, <1>3, <1>4, <1>5, <1>6, <1>7, <1>8, <1>9, <1>10, <1>11, <1>12, <1>13,
     <1>14, <1>15, <1>16, <1>17, <1>18, <1>19, <1>20, <1>21, <1>22, <1>23, <1>24, <1>25,
     <1>26, <1>27, <1>28, <1>29, <1>30
  DEF Next, HandlerStep, AskStep, ClientStep, LsmStep, Framework, GpsStart, NiMessage, CpStarted
-----------------------------------------------------------------------------
(* The claim and the questions.                                            *)
\* What has fallen into a window stays in the history.
LEMMA RacedGrows ==
  ASSUME [Next]_vars
  PROVE  raced \subseteq raced'
<1>1. CASE HandlerStep
  BY <1>1
  DEF HandlerStep, Idle, Clear, Dispatch, Start, Check, Launch, EndMo, Closed, Tell, EndNi, NiEnded, Fell
<1>2. CASE AskStep  BY <1>2 DEF AskStep, Answered, TimeOut, Expired
<1>3. ASSUME NEW r, Resume(r)  PROVE raced \subseteq raced'
  BY <1>3 DEF Resume
<1>4. CASE ClientStep
  BY <1>3, <1>4 DEF ClientStep, GpsStart, GpsStop, StopSession, StopAnswered, StopTimeOut
<1>5. CASE LsmStep
  BY <1>3, <1>5
  DEF LsmStep, CpStarted, ToClose, CloseNi, NetworkResume, NetworkClosed, PowerOff, Fell
<1>6. CASE Framework
  BY <1>3, <1>6 DEF Framework, NiMessage, ConnectionLost, ConnectionAnswered, IdAnswered, Fell
<1>7. CASE Resumed \/ Report \/ UNCHANGED vars  BY <1>7 DEF Resumed, Report, vars
<1> QED  BY <1>1, <1>2, <1>4, <1>5, <1>6, <1>7 DEF Next

\* A request and a step of the handler keep the claim right, where it is seen.
LEMMA StepClaim ==
  ASSUME TypeOK, ClaimOK, HandlerAsks, Seen', [Next]_vars
  PROVE  ClaimOK'
<1> USE DEF TypeOK, RestOK, FlagsOK, ClaimOK, Busy, Coming
<1>1. CASE Idle  BY <1>1 DEF Idle, claim, client, sems, ril, outside
<1>2. CASE Clear  BY <1>2 DEF Clear, client, sems, outside
<1>3. CASE Dispatch
  <2>1. resuming = "none"
    BY <1>3 DEF Dispatch, Fell, Seen
  <2> QED  BY <1>3, <2>1 DEF Dispatch, claim
<1>4. CASE Start  BY <1>4 DEF Start, claim, client, sems, outside
<1>5. CASE Check  BY <1>5 DEF Check, claim, client, sems, ril, outside
<1>6. CASE Launch  BY <1>6 DEF Launch, claim, client, sems, ril, outside
<1>7. CASE EndMo  BY <1>7 DEF EndMo, claim, client, ril, outside
<1>8. CASE Closed  BY <1>8 DEF Closed, claim, sems, ril, outside
<1>9. CASE Tell  BY <1>9 DEF Tell, claim, client, ril, outside
<1>10. CASE EndNi  BY <1>10 DEF EndNi, claim, client, ril, outside
<1>11. CASE NiEnded  BY <1>11 DEF NiEnded, claim, client, sems, ril, outside
<1>12. ASSUME NEW a \in Askers, Answered(a) \/ TimeOut(a) \/ Expired(a)  PROVE ClaimOK'
  <2>1. UNCHANGED <<kind, noUpdate, claim, semHandler>>
    BY <1>12 DEF Answered, TimeOut, Expired, sems
  <2>2. pc' = pc \/ (pc = "ask" /\ pc' \in {"check", "idle"})
    BY <1>12 DEF Answered, TimeOut, Expired, EndAsking, HandlerAsks, Askers, Questions
  <2> QED  BY <2>1, <2>2 DEF claim
<1>13. ASSUME NEW r \in {"mo", "ni", "cp"}, Resume(r)  PROVE ClaimOK'
  <2>1. CASE Refused(r) /\ UNCHANGED <<check, resuming, noUpdate, ni, semHandler, semMo, semNi>>
    BY <1>13, <2>1 DEF Resume
  <2>2. ASSUME Claim(r) \/ TakeOver(r), raced' = raced \cup InWindow(r)  PROVE ClaimOK'
    <3>1. pc # "clear" /\ ~(pc = "wait" /\ semHandler > 0)
      BY <2>2 DEF InWindow, Windows, Seen
    <3>2. CASE Claim(r)  BY <1>13, <3>1, <3>2 DEF Resume, Claim
    <3>3. CASE TakeOver(r)
      <4>1. (check # "cp" => noUpdate') /\ (check = "cp" => (noUpdate' <=> noUpdate))
        BY Zenon, <3>3 DEF TakeOver
      <4>2. resuming' = r /\ UNCHANGED <<pc, kind, check, semHandler>>
        BY <1>13, <3>3 DEF Resume, TakeOver
      <4>3. r = "mo" => check = "ni"
        BY <3>3 DEF TakeOver, Refused
      <4>4. resuming = "none" /\ check # "none"
        BY <1>13, <3>3 DEF Resume, TakeOver
      <4> QED  BY <3>1, <4>1, <4>2, <4>3, <4>4
    <3> QED  BY <2>2, <3>2, <3>3
  <2> QED  BY <1>13, <2>1, <2>2 DEF Resume
<1>14. CASE Resumed  BY <1>14 DEF Resumed, handler, client, ril, outside
<1>15. ASSUME UNCHANGED <<handler, claim, semHandler>>  PROVE ClaimOK'
  BY <1>15 DEF handler, claim
<1>16. ASSUME NEW open \in BOOLEAN, ConnectionAnswered(open)  PROVE ClaimOK'
  BY <1>15, <1>16 DEF ConnectionAnswered
<1>17. ASSUME NEW q \in Questions, IdAnswered(q)  PROVE ClaimOK'
  BY <1>15, <1>17 DEF IdAnswered
<1>18. CASE ClientStep
  BY <1>13, <1>15, <1>18
  DEF ClientStep, GpsStart, GpsStop, StopSession, StopAnswered, StopTimeOut, Suspend, sems
<1>19. CASE LsmStep
  BY <1>13, <1>15, <1>19
  DEF LsmStep, CpStarted, ToClose, CloseNi, Suspend, NetworkResume, NetworkClosed, PowerOff, sems
<1>20. CASE Framework
  BY <1>13, <1>15, <1>16, <1>17, <1>20 DEF Framework, NiMessage, ConnectionLost, sems
<1>21. CASE Report \/ UNCHANGED vars
  BY <1>15, <1>21 DEF Report, vars, sems
<1> QED
  BY <1>1, <1>2, <1>3, <1>4, <1>5, <1>6, <1>7, <1>8, <1>9, <1>10, <1>11, <1>12, <1>14,
     <1>18, <1>19, <1>20, <1>21
  DEF Next, HandlerStep, AskStep

\* g_SessionID is valid while a session of the client runs, however claims race.
LEMMA StepSession ==
  ASSUME TypeOK, SessionOK, HandlerAsks, [Next]_vars
  PROVE  SessionOK'
<1> USE DEF TypeOK, FlagsOK, SessionOK
<1>1. ASSUME UNCHANGED <<pc, kind, session>>  PROVE SessionOK'
  BY <1>1
<1>2. CASE HandlerStep
  BY <1>2
  DEF HandlerStep, Idle, Clear, Dispatch, Start, Check, Launch, EndMo, Closed, Tell, EndNi, NiEnded
<1>3. CASE AskStep
  <2>1. PICK a \in Askers : Answered(a) \/ TimeOut(a) \/ Expired(a)
    BY <1>3 DEF AskStep
  <2>2. UNCHANGED <<kind, session>>
    BY <2>1 DEF Answered, TimeOut, Expired
  <2>3. pc' = pc \/ ask["handler"] # "no"
    BY <2>1 DEF Answered, TimeOut, Expired, EndAsking, Askers, Questions
  <2> QED  BY <2>2, <2>3 DEF HandlerAsks
<1>4. CASE ClientStep
  BY <1>1, <1>4
  DEF ClientStep, GpsStart, Resume, GpsStop, StopSession, StopAnswered, StopTimeOut, handler
<1>5. CASE LsmStep
  BY <1>1, <1>5
  DEF LsmStep, CpStarted, Resume, ToClose, CloseNi, NetworkResume, NetworkClosed, PowerOff, handler
<1>6. CASE Framework
  BY <1>1, <1>6
  DEF Framework, NiMessage, Resume, ConnectionLost, ConnectionAnswered, IdAnswered, handler
<1>7. CASE Resumed \/ Report \/ UNCHANGED vars
  BY <1>1, <1>7 DEF Resumed, Report, vars, handler
<1> QED  BY <1>2, <1>3, <1>4, <1>5, <1>6, <1>7 DEF Next

\* The handler asks where it waits for answers; and only one of the two askers
\* asks at a time, as long as the callback asks in its session.
LEMMA StepAsk ==
  ASSUME TypeOK, HandlerAsks, [Next]_vars
  PROVE  HandlerAsks' /\ (SessionOK /\ LsmAsks /\ Matched' => LsmAsks')
<1> DEFINE G == HandlerAsks' /\ (SessionOK /\ LsmAsks /\ Matched' => LsmAsks')
<1> SUFFICES G  OBVIOUS
<1> USE DEF TypeOK, RestOK, FlagsOK, HandlerAsks, LsmAsks, Askers
<1>1. ASSUME UNCHANGED <<pc, kind, ask>>  PROVE G
  BY <1>1
<1>2. CASE HandlerStep
  <2>1. CASE Idle  BY <2>1 DEF Idle, ril
  <2>2. CASE Clear  BY <2>2 DEF Clear
  <2>3. CASE Dispatch  BY <2>3 DEF Dispatch, ril
  <2>4. CASE Start  BY <2>4 DEF Start, BeginAsking, ril
  <2>5. CASE Check  BY <2>5 DEF Check, ril
  <2>6. CASE Launch  BY <2>6 DEF Launch, ril
  <2>7. CASE EndMo  BY <2>7 DEF EndMo, ril
  <2>8. CASE Closed
    <3>1. Matched' => ask["lsm"] = "no"
      BY <2>8 DEF Closed, Fell, Matched
    <3> QED  BY <2>8, <3>1 DEF Closed, ril
  <2>9. CASE Tell  BY <2>9 DEF Tell, ril
  <2>10. CASE EndNi  BY <2>10 DEF EndNi, ril
  <2>11. CASE NiEnded  BY <2>11 DEF NiEnded, ril
  <2> QED
    BY <1>2, <2>1, <2>2, <2>3, <2>4, <2>5, <2>6, <2>7, <2>8, <2>9, <2>10, <2>11 DEF HandlerStep
<1>3. CASE AskStep
  <2>1. PICK a \in Askers : Answered(a) \/ TimeOut(a) \/ Expired(a)
    BY <1>3 DEF AskStep
  <2>2. kind' = kind /\ ask[a] # "no"
    BY <2>1 DEF Answered, TimeOut, Expired, Questions
  <2>3. CASE ask' = [ask EXCEPT ![a] = "no"]
    <3>1. IF a = "handler" THEN pc' # "ask" ELSE pc' = pc
      BY <2>1, <2>3 DEF Answered, TimeOut, Expired, EndAsking, Questions
    <3> QED  BY <2>2, <2>3, <3>1
  <2>4. CASE \E w \in Questions \cup {"expired"} : ask' = [ask EXCEPT ![a] = w]
    <3>1. pc' = pc
      BY <2>1, <2>4 DEF Answered, TimeOut, Expired, EndAsking, Questions
    <3> QED  BY <2>2, <2>4, <3>1 DEF Questions
  <2> QED  BY <2>1, <2>3, <2>4 DEF Answered, TimeOut, Expired, EndAsking, Questions
<1>4. CASE ClientStep
  BY <1>1, <1>4
  DEF ClientStep, GpsStart, Resume, GpsStop, StopSession, StopAnswered, StopTimeOut, handler, ril
<1>5. CASE LsmStep
  <2>1. CASE NetworkResume
    BY <2>1 DEF NetworkResume, BeginAsking, SessionOK, handler
  <2> QED
    BY <1>1, <1>5, <2>1
    DEF LsmStep, CpStarted, Resume, ToClose, CloseNi, NetworkClosed, PowerOff, handler, ril
<1>6. CASE Framework
  BY <1>1, <1>6
  DEF Framework, NiMessage, Resume, ConnectionLost, ConnectionAnswered, IdAnswered, handler, ril
<1>7. CASE Resumed \/ Report \/ UNCHANGED vars
  BY <1>1, <1>7 DEF Resumed, Report, vars, handler, ril
<1> QED  BY <1>2, <1>3, <1>4, <1>5, <1>6, <1>7 DEF Next

\* An answer is counted for the question that is asked, and for no other.
LEMMA StepAnswer ==
  ASSUME TypeOK, SessionOK, HandlerAsks, LsmAsks, AnswerOK, Matched', [Next]_vars
  PROVE  AnswerOK'
<1> USE DEF TypeOK, RestOK, FlagsOK, AnswerOK, Askers, Alive
<1>1. ASSUME UNCHANGED <<semRil, ask, rilPending, reporter, asked>>,
             pending' \subseteq pending \cup {"conn", "power"}, pending \subseteq pending'
      PROVE  AnswerOK'
  BY <1>1
<1>2. ASSUME NEW a \in Askers
      PROVE  ask[a] # "no" => \A b \in Askers : b # a => ask[b] = "no"
  BY DEF HandlerAsks, LsmAsks
<1>3. ASSUME NEW a \in Askers, ask[a] = "no", \A b \in Askers : ask[b] = "no",
             ask' = [ask EXCEPT ![a] = "conn"], rilPending' = TRUE,
             UNCHANGED <<semRil, reporter, asked>>,
             pending' = pending \cup {"conn"}
      PROVE  AnswerOK'
  BY <1>3
<1>4. CASE HandlerStep
  <2>1. CASE Start
    <3>1. CASE BeginAsking("handler")
      <4>1. \A b \in Askers : ask[b] = "no"
        BY <2>1 DEF Start, HandlerAsks, LsmAsks
      <4> QED  BY <1>3, <2>1, <3>1, <4>1 DEF Start, BeginAsking, sems, outside
    <3>2. CASE UNCHANGED ril
      BY <1>1, <2>1, <3>2 DEF Start, ril, sems, outside
    <3> QED  BY <2>1, <3>1, <3>2 DEF Start
  <2>2. CASE Clear
    BY <1>1, <2>2 DEF Clear, ReleaseConnection, sems, outside
  <2> QED
    BY <1>1, <1>4, <2>1, <2>2
    DEF HandlerStep, Idle, Dispatch, Check, Launch, EndMo, Closed, Tell, EndNi, NiEnded,
        ril, sems, outside
<1>5. CASE \E a \in Askers : Answered(a)
  <2>1. PICK a \in Askers : Answered(a)
    BY <1>5
  <2>2. semRil = 1 /\ semRil' = 0 /\ ~rilPending /\ UNCHANGED <<rilPending, reporter, asked>>
    BY <2>1 DEF Answered, outside, Questions
  <2>3. \A b \in Askers : b # a => ask[b] = "no"
    BY <1>2, <2>1 DEF Answered, Questions
  <2>4. CASE ask[a] = "cell"
    <3>1. ask' = [ask EXCEPT ![a] = "no"] /\ UNCHANGED pending
      BY <2>1, <2>4 DEF Answered, EndAsking
    <3>2. ~Alive("cell") /\ ~Alive("setid")
      BY <2>2, <2>3, <2>4
    <3> QED  BY <2>2, <2>3, <3>1, <3>2
  <2>5. CASE ask[a] \in {"conn", "setid"}
    <3> DEFINE next == IF ask[a] = "conn" THEN "setid" ELSE "cell"
    <3>1. ask' = [ask EXCEPT ![a] = next] /\ pending' = pending \cup {next}
      BY <2>1, <2>5 DEF Answered
    <3>2. ~Alive("cell") /\ ~Alive("setid")
      BY <2>2, <2>3, <2>5
    <3> QED  BY <2>2, <2>3, <2>5, <3>1, <3>2
  <2> QED  BY <2>1, <2>4, <2>5 DEF Answered, Questions
<1>6. CASE \E a \in Askers : TimeOut(a)
  <2>1. PICK a \in Askers : TimeOut(a)
    BY <1>6
  <2>2. semRil = 0 /\ UNCHANGED <<semRil, rilPending, reporter>>
    BY <2>1 DEF TimeOut, sems
  <2>3. \A b \in Askers : b # a => ask[b] = "no"
    BY <1>2, <2>1 DEF TimeOut, Questions
  <2>4. CASE ask[a] = "conn"
    <3>1. ask' = [ask EXCEPT ![a] = "expired"] /\ UNCHANGED pending
          /\ UNCHANGED asked
      BY <2>1, <2>4 DEF TimeOut
    <3> QED  BY <2>2, <2>3, <2>4, <3>1
  <2>5. CASE ask[a] \in {"setid", "cell"}
    <3>1. ask' = [ask EXCEPT ![a] = "no"] /\ pending' \in {pending, pending \cup {"conn"}}
      BY <2>1, <2>5 DEF TimeOut, EndAsking, ReleaseConnection
    <3>2. asked' = asked \ {ask[a]} /\ (ask[a] \in pending => ~reporter)
      BY <2>1, <2>5 DEF TimeOut
    <3> QED  BY <2>2, <2>3, <2>5, <3>1, <3>2
  <2> QED  BY <2>1, <2>4, <2>5 DEF TimeOut, Questions
<1>7. CASE \E a \in Askers : Expired(a)
  <2>1. PICK a \in Askers : Expired(a)
    BY <1>7
  <2>2. semRil = 0 /\ UNCHANGED <<semRil, reporter, asked>>
    BY <2>1 DEF Expired, sems, outside
  <2>3. \A b \in Askers : b # a => ask[b] = "no"
    BY <1>2, <2>1 DEF Expired
  <2>4. ~Alive("cell") /\ ~Alive("setid")
    BY <2>1, <2>3 DEF Expired
  <2>5. pending' \in {pending, pending \cup {"conn"}}
    BY <2>1 DEF Expired, EndAsking, ReleaseConnection
  <2>6. CASE tries[a] = 0
    <3>1. ask' = [ask EXCEPT ![a] = "conn"] /\ rilPending' = TRUE
      BY <2>1, <2>6 DEF Expired
    <3> QED  BY <2>2, <2>3, <2>4, <2>5, <3>1
  <2>7. CASE tries[a] # 0
    <3>1. ask' = [ask EXCEPT ![a] = "no"] /\ rilPending' = FALSE
      BY <2>1, <2>7 DEF Expired, EndAsking
    <3> QED  BY <2>2, <2>3, <2>4, <2>5, <3>1
  <2> QED  BY <2>6, <2>7
<1>8. CASE ClientStep
  BY <1>1, <1>8
  DEF ClientStep, GpsStart, Resume, GpsStop, StopSession, StopAnswered, StopTimeOut, Suspend,
      ril, sems, outside
<1>9. CASE LsmStep
  <2>1. CASE NetworkResume
    <3>1. \A b \in Askers : ask[b] = "no"
      BY <2>1 DEF NetworkResume, LsmFree, HandlerAsks, SessionOK
    <3> QED  BY <1>3, <2>1, <3>1 DEF NetworkResume, BeginAsking, sems, outside
  <2>2. CASE NetworkClosed
    BY <1>1, <2>2 DEF NetworkClosed, ReleaseConnection, sems, outside
  <2>3. CASE PowerOff
    BY <1>1, <2>3 DEF PowerOff, sems, outside
  <2> QED
    BY <1>1, <1>9, <2>1, <2>2, <2>3
    DEF LsmStep, CpStarted, Resume, ToClose, CloseNi, Suspend, ril, sems, outside
<1>10. CASE Framework
  <2>1. CASE NiMessage
    BY <1>1, <2>1 DEF NiMessage, Resume, ril, outside
  <2>2. CASE ConnectionLost
    BY <1>1, <2>2 DEF ConnectionLost, sems
  <2>3. ASSUME NEW open \in BOOLEAN, ConnectionAnswered(open)  PROVE AnswerOK'
    <3>1. \A a \in Askers : ask[a] # "expired"
      BY <2>3 DEF ConnectionAnswered, Fell, Matched
    <3>2. rilPending' = FALSE /\ UNCHANGED <<ask, pending, reporter>> /\ asked' = asked \ {"conn"}
          /\ semRil' = IF rilPending THEN semRil + 1 ELSE semRil
      BY <2>3 DEF ConnectionAnswered
    <3>3. CASE rilPending
      <4>1. PICK a \in Askers : ask[a] = "conn"
        BY <3>1, <3>3 DEF Questions
      <4>2. \A b \in Askers : b # a => ask[b] = "no"
        BY <1>2, <4>1
      <4>3. semRil = 0
        BY <3>3, <4>1
      <4> QED  BY <3>2, <3>3, <4>1, <4>2, <4>3
    <3>4. CASE ~rilPending
      BY <3>1, <3>2, <3>4
    <3> QED  BY <3>3, <3>4
  <2>4. ASSUME NEW q \in Questions, IdAnswered(q)  PROVE AnswerOK'
    <3>1. q \in {"setid", "cell"} /\ q \in asked /\ asked' = asked \ {q} /\ semRil' = semRil + 1
          /\ UNCHANGED <<ask, rilPending, pending, reporter>>
      BY <2>4 DEF IdAnswered, Fell, Matched, Questions, ril
    <3>2. PICK a \in Askers : ask[a] = q
      BY <3>1
    <3>3. \A b \in Askers : b # a => ask[b] = "no"
      BY <1>2, <3>1, <3>2
    <3>4. semRil = 0 /\ ~rilPending /\ ~(reporter /\ q \in pending)
      BY <3>1, <3>2
    <3> QED  BY <3>1, <3>2, <3>3, <3>4
  <2> QED  BY <1>10, <2>1, <2>2, <2>3, <2>4 DEF Framework
<1>11. CASE Report
  <2>1. reporter /\ pending' = {} /\ UNCHANGED <<semRil, ask, rilPending>>
        /\ \A q \in {"setid", "cell"} : q \in asked' <=> q \in asked \cup pending
    BY <1>11 DEF Report, sems, Questions
  <2> QED  BY <2>1
<1>12. CASE Resumed \/ UNCHANGED vars
  BY <1>1, <1>12 DEF Resumed, vars, ril, sems, outside
<1> QED
  BY <1>4, <1>5, <1>6, <1>7, <1>8, <1>9, <1>10, <1>11, <1>12 DEF Next, AskStep

-----------------------------------------------------------------------------
(* The theorems.                                                           *)
\* The flags are Boolean at the start.
LEMMA InitFlags == Init => FlagsOK
BY Zenon DEF Init, FlagsOK

\* Every variable keeps its type, whatever falls between two steps.
THEOREM TypeCorrect == Spec => []TypeOK
<1>1. Init => TypeOK
  BY InitTyped, InitFlags DEF TypeOK, RestOK
<1>2. TypeOK /\ [Next]_vars => TypeOK'
  <2>1. TypeOK <=> FlagsOK /\ RestOK
    BY DEF TypeOK, RestOK
  <2>2. TypeOK' <=> FlagsOK' /\ RestOK'
    BY DEF TypeOK, RestOK
  <2> QED  BY <2>1, <2>2, StepTyped, StepFlags
<1> QED  BY <1>1, <1>2, PTL DEF Spec

\* What holds throughout: the claim where every claim was seen, the answers where
\* they matched.
IInv ==
  /\ TypeOK /\ SessionOK /\ HandlerAsks
  /\ Seen => ClaimOK
  /\ Matched => LsmAsks /\ AnswerOK

\* The invariant holds at the start.
LEMMA InitInv == Init => SessionOK /\ HandlerAsks /\ ClaimOK /\ LsmAsks /\ AnswerOK
BY DEF Init, SessionOK, HandlerAsks, ClaimOK, LsmAsks, AnswerOK, Busy, Coming, Alive, Askers

\* The invariant holds throughout, whatever falls into the windows.
LEMMA InvCorrect == Spec => []IInv
<1>1. IInv /\ TypeOK' /\ [Next]_vars => IInv'
  <2> SUFFICES ASSUME IInv, TypeOK', [Next]_vars  PROVE IInv'
    OBVIOUS
  <2> USE DEF IInv
  <2>1. SessionOK' /\ HandlerAsks'
    BY StepSession, StepAsk
  <2>2. (Seen' => Seen) /\ (Matched' => Matched)
    BY RacedGrows DEF Seen, Matched
  <2>3. ASSUME Seen'  PROVE ClaimOK'
    BY <2>2, <2>3, StepClaim
  <2>4. ASSUME Matched'  PROVE LsmAsks' /\ AnswerOK'
    BY <2>2, <2>4, StepAsk, StepAnswer
  <2> QED  BY <2>1, <2>3, <2>4
<1>2. Init /\ TypeOK => IInv
  BY InitInv DEF IInv
<1> QED  BY <1>1, <1>2, TypeCorrect, PTL DEF Spec

\* The handler at rest has no claim and no session, and never meets a request
\* without a claim, as long as every claim was seen: the two windows of Seen are
\* the only way there, whatever else falls between two steps of the handler.
THEOREM IdleIsFreeCorrect == Spec => []IdleIsFree
<1>1. IInv => IdleIsFree
  BY DEF IInv, TypeOK, FlagsOK, SessionOK, ClaimOK, Coming, IdleIsFree
<1> QED  BY <1>1, InvCorrect, PTL

\* When nobody asks, semRilEvent holds no answer, as long as questions and
\* answers matched: the next question is never given the answer to an earlier
\* one, however late the connection is and however the claims raced.
THEOREM NoStaleAnswerCorrect == Spec => []NoStaleAnswer
<1>1. IInv => NoStaleAnswer
  BY DEF IInv, AnswerOK, NoStaleAnswer
<1> QED  BY <1>1, InvCorrect, PTL
================================================================================
