------------------------- MODULE RobotMotionProofs -------------------------
(***************************************************************************)
(* What holds of every instance of RobotMotion, checked by TLAPS.          *)
(***************************************************************************)
EXTENDS RobotMotion, TLAPS

---------------------------------------------------------------------------
(* Type correctness.                                                       *)

(* The set a Move or StopMove response is looked for in.                   *)
LEMMA PolledType ==
  ASSUME TypeOK
  PROVE  PolledStream \in Seq(Response) /\ PolledResponses \subseteq Response
<1>1. tcp \in Seq(Response) /\ responses \subseteq Response
  BY DEF TypeOK
<1>2. tcp # <<>> => Head(tcp) \in Response /\ Tail(tcp) \in Seq(Response)
  BY <1>1
<1>. QED  BY <1>1, <1>2 DEF PolledStream, PolledResponses, Stored

LEMMA ModeTypes ==
  /\ IdleMode \in Mode
  /\ \A k \in AllKinds : ModeOf(k) \in Mode
BY DEF IdleMode, ModeOf, Mode, AllKinds

LEMMA CurrentStateType ==
  ASSUME TypeOK  PROVE  CurrentState \in RobotState
<1>1. srv \in [phase : Phases, id : Nat, kind : AllKinds, reflex : BOOLEAN]
  BY DEF TypeOK
<1>2. ModeOf(srv.kind) \in Mode /\ IdleMode \in Mode
  BY <1>1, ModeTypes
<1>3. [ModeOf(srv.kind) EXCEPT !.ctl = "other"] \in Mode
  BY <1>2 DEF Mode
<1>4. CurrentState.mode \in Mode
  BY <1>2, <1>3 DEF CurrentState
<1>. QED  BY <1>1, <1>4 DEF CurrentState, RobotState, RobotModes

LEMMA SendCommandType ==
  ASSUME TypeOK, NEW f \in BOOLEAN, NEW next, SendCommand(f, next)
  PROVE  /\ commands' \subseteq [motion : Nat, mid : Nat, finished : BOOLEAN]
         /\ outcome' \subseteq [id : Nat, result : Results]
         /\ pc' \in {"failed", next}
BY DEF TypeOK, SendCommand, Report, Results

LEMMA BeginReceiveType ==
  ASSUME TypeOK, NEW t \in Receivers, BeginReceive(t)
  PROVE  snap' \in [Receivers -> Nat]
BY DEF TypeOK, BeginReceive

LEMMA SendRequestType ==
  ASSUME TypeOK, NEW cmd \in {"move", "stop", "recover"}, NEW k \in AllKinds,
         SendRequest(cmd, k)
  PROVE  conn' \in {"up", "closed", "broken"} /\ requests' \in Seq(Request) /\ nextId' \in Nat
<1>1. [cmd |-> cmd, id |-> nextId, kind |-> k] \in Request
  BY DEF TypeOK, Request
<1>. QED  BY <1>1 DEF SendRequest, TypeOK

LEMMA CancelMotionType ==
  ASSUME TypeOK, CancelMotion
  PROVE  /\ conn' \in {"up", "closed", "broken"} /\ requests' \in Seq(Request)
         /\ nextId' \in Nat /\ callId' \in Nat /\ pc' \in Pcs
         /\ UNCHANGED <<tcp, responses>>
<1>1. CASE conn = "broken"
  BY <1>1 DEF CancelMotion, TypeOK, tcpVars, Pcs
<1>2. CASE conn # "broken"
  <2>1. SendRequest("stop", kind)
    BY <1>2 DEF CancelMotion
  <2>2. conn' \in {"up", "closed", "broken"} /\ requests' \in Seq(Request) /\ nextId' \in Nat
    BY <2>1, SendRequestType DEF TypeOK
  <2>. QED  BY <1>2, <2>2 DEF CancelMotion, TypeOK, Pcs, MotionPcs
<1>. QED  BY <1>1, <1>2

LEMMA ReportType ==
  ASSUME TypeOK, NEW r \in Results, Report(r)
  PROVE  outcome' \subseteq [id : Nat, result : Results]
BY DEF TypeOK, Report

LEMMA TypeInit == ConstantsAssumption => (Init => TypeOK)
<1>. SUFFICES ASSUME Init PROVE TypeOK
  OBVIOUS
<1>1. IdleState \in RobotState
  BY ModeTypes DEF IdleState, RobotState, RobotModes
<1>2. <<IdleState>> \in Seq(RobotState)
  BY <1>1
<1>. QED
  BY <1>2, ModeTypes DEF Init, TypeOK, Pcs, MotionPcs, AllKinds, AllApis, RobotModes, Phases

(* Which steps leave which part of the state alone.                        *)
LEMMA TypeControlStep ==
  ASSUME TypeOK, ControlStep  PROVE  TypeOK'
<1>. USE PolledType, ModeTypes
         DEF TypeOK, Report, Results, Pcs, MotionPcs, BeginReceive, Received, Receivers,
             viewVars, ctlVars, srvVars, tcpVars
<1>1. CASE MotionStarted
  BY <1>1 DEF MotionStarted
<1>2. CASE AwaitModes
  <2>1. "ctl" \in Receivers /\ StartReturned \in Pcs
    BY DEF StartReturned
  <2>2. UNCHANGED <<conn, requests, nextId>>
    BY <1>2 DEF AwaitModes
  <2>3. tcp' \in Seq(Response) /\ responses' \subseteq Response
    BY <1>2 DEF AwaitModes
  <2>4. snap' \in [Receivers -> Nat]
    BY <1>2, <2>1, BeginReceiveType DEF AwaitModes
  <2>5. pc' \in Pcs
    BY <1>2, <2>1 DEF AwaitModes
  <2>6. outcome' \subseteq [id : Nat, result : Results]
    BY <1>2 DEF AwaitModes
  <2>. QED  BY <1>2, <2>2, <2>3, <2>4, <2>5, <2>6 DEF AwaitModes
<1>3. CASE LoopStart
  <2>1. snap' \in [Receivers -> Nat]
    BY <1>3, BeginReceiveType DEF LoopStart
  <2>. QED  BY <1>3, <2>1 DEF LoopStart
<1>4. CASE CheckState
  BY <1>4 DEF CheckState
<1>5. CASE MotionError
  BY <1>5 DEF MotionError
<1>6. CASE FinishCheck
  BY <1>6, SendCommandType DEF FinishCheck
<1>7. CASE FinishResponse
  BY <1>7 DEF FinishResponse
<1>8. CASE CancelFailed
  BY <1>8, CancelMotionType DEF CancelFailed
<1>9. CASE CancelAnswered
  <2>1. snap' \in [Receivers -> Nat]
    BY <1>9, BeginReceiveType DEF CancelAnswered
  <2>2. tcp' \in Seq(Response) /\ responses' \subseteq Response
    BY <1>9 DEF CancelAnswered
  <2>. QED  BY <1>9, <2>1, <2>2 DEF CancelAnswered, AfterFailedCancel
<1>10. CASE DrainCheck
  BY <1>10 DEF DrainCheck, AfterFailedCancel
<1>11. CASE WaitBroken
  <2>1. outcome' \subseteq [id : Nat, result : Results]
    BY <1>11, ReportType DEF WaitBroken
  <2>2. pc' \in Pcs
    BY <1>11 DEF WaitBroken, AfterFailedCancel
  <2>3. UNCHANGED <<tcpVars, viewVars, move, snap, motion, callId, kind, api, seen, stopId,
                    srvVars, commands>>
    BY <1>11 DEF WaitBroken
  <2>. QED  BY <2>1, <2>2, <2>3
<1>12. CASE Recovered
  BY <1>12 DEF Recovered
<1>. QED
  BY <1>1, <1>2, <1>3, <1>4, <1>5, <1>6, <1>7, <1>8, <1>9, <1>10, <1>11, <1>12
     DEF ControlStep

LEMMA TypeControlCall ==
  ASSUME ConstantsAssumption, TypeOK, ControlCall  PROVE  TypeOK'
<1>. USE PolledType, ModeTypes, SendCommandType
         DEF TypeOK, Report, Results, Pcs, MotionPcs, Receivers,
             viewVars, ctlVars, srvVars, tcpVars
<1>1. CASE \E k \in Kinds, a \in Apis : Start(k, a)
  <2>1. PICK k \in AllKinds, a \in AllApis : Start(k, a)
    BY <1>1 DEF ConstantsAssumption
  <2>2. conn' \in {"up", "closed", "broken"} /\ requests' \in Seq(Request) /\ nextId' \in Nat
    BY <2>1, SendRequestType DEF Start
  <2>3. move' \in Mode
    BY <2>1 DEF Start
  <2>. QED  BY <2>1, <2>2, <2>3 DEF Start
<1>2. CASE StartRefused
  <2>1. outcome' \subseteq [id : Nat, result : Results]
    BY <1>2, ReportType DEF StartRefused
  <2>. QED  BY <1>2, <2>1 DEF StartRefused
<1>3. CASE ReadIdle
  BY <1>3, BeginReceiveType DEF ReadIdle
<1>4. CASE Recover
  <2>1. conn' \in {"up", "closed", "broken"} /\ requests' \in Seq(Request) /\ nextId' \in Nat
    BY <1>4, SendRequestType DEF Recover
  <2>. QED  BY <1>4, <2>1 DEF Recover
<1>5. CASE ReadOnce
  BY <1>5, BeginReceiveType DEF ReadOnce
<1>6. CASE WriteOnce
  BY <1>6 DEF WriteOnce
<1>7. CASE LoopUpdate
  <2>1. snap' \in [Receivers -> Nat]
    BY <1>7, BeginReceiveType DEF LoopUpdate
  <2>. QED  BY <1>7, <2>1 DEF LoopUpdate
<1>8. CASE Finish
  <2>1. snap' \in [Receivers -> Nat]
    BY <1>8, BeginReceiveType DEF Finish
  <2>2. commands' \subseteq [motion : Nat, mid : Nat, finished : BOOLEAN] /\ pc' \in Pcs
    <3>1. CASE SendCommand(TRUE, "finishing")
      BY <3>1
    <3>2. CASE ~SendCommand(TRUE, "finishing")
      BY <1>8, <3>2 DEF Finish
    <3>. QED  BY <3>1, <3>2
  <2>3. outcome' \subseteq [id : Nat, result : Results]
    <3>1. CASE SendCommand(TRUE, "finishing")
      BY <3>1
    <3>2. CASE Report("finished") \/ Report("controlError")
      BY <3>2, ReportType
    <3>. QED  BY <1>8, <3>1, <3>2 DEF Finish
  <2>4. move' \in Mode
    BY <1>8 DEF Finish
  <2>. QED  BY <1>8, <2>1, <2>2, <2>3, <2>4 DEF Finish
<1>9. CASE Abandon
  <2>1. outcome' \subseteq [id : Nat, result : Results]
    BY <1>9 DEF Abandon
  <2>2. CancelMotion
    BY <1>9 DEF Abandon
  <2>. QED  BY <1>9, <2>1, <2>2, CancelMotionType DEF Abandon
<1>. QED
  BY <1>1, <1>2, <1>3, <1>4, <1>5, <1>6, <1>7, <1>8, <1>9 DEF ControlCall

LEMMA TypeReceive ==
  ASSUME TypeOK, NEW t \in Receivers, Receive(t)  PROVE  TypeOK'
<1>. USE DEF TypeOK, Report, Results, Pcs, MotionPcs, viewVars, ctlVars, srvVars, tcpVars
<1>1. CASE ReceiveTimeout(t)
  BY <1>1 DEF ReceiveTimeout, AfterFailedCancel
<1>2. CASE \E m \in DOMAIN published : AcceptState(t, m)
  <2>1. PICK m \in DOMAIN published : AcceptState(t, m)
    BY <1>2
  <2>2. m \in Nat /\ published[m] \in RobotState
    BY <2>1
  <2>. QED  BY <2>1, <2>2 DEF AcceptState, AfterReceive, RobotState
<1>. QED  BY <1>1, <1>2 DEF Receive

LEMMA TypeOtherThreads ==
  ASSUME TypeOK, OtherThreads \/ ReadSocket  PROVE  TypeOK'
<1>. USE PolledType DEF TypeOK, Received, viewVars, ctlVars, srvVars, tcpVars
<1>1. CASE StopCall
  <2>1. conn' \in {"up", "closed", "broken"} /\ requests' \in Seq(Request) /\ nextId' \in Nat
    BY <1>1, SendRequestType DEF StopCall
  <2>. QED  BY <1>1, <2>1 DEF StopCall
<1>2. CASE StopReturns
  BY <1>2 DEF StopReturns
<1>3. CASE \E t \in Monitors : MonitorRead(t)
  <2>1. PICK t \in Receivers : MonitorRead(t)
    BY <1>3 DEF Receivers
  <2>. QED  BY <2>1, BeginReceiveType DEF MonitorRead
<1>4. CASE ReadSocket
  BY <1>4 DEF ReadSocket
<1>. QED  BY <1>1, <1>2, <1>3, <1>4 DEF OtherThreads

LEMMA TypeRobot ==
  ASSUME TypeOK, RobotServes \/ RobotMoves \/ RobotFails  PROVE  TypeOK'
<1>. USE DEF TypeOK, clientVars, viewVars, ctlVars, srvVars, Phases
<1>1. \A n \in Nat, s \in Statuses :
        Final(n, s) \in Response /\ Append(tcp, Final(n, s)) \in Seq(Response)
  BY DEF Final, Response
<1>2. requests # <<>> => /\ Head(requests).id \in Nat /\ Head(requests).kind \in AllKinds
                         /\ Tail(requests) \in Seq(Request)
  <2>1. requests # <<>> => Head(requests) \in Request /\ Tail(requests) \in Seq(Request)
    OBVIOUS
  <2>. QED  BY <2>1 DEF Request
<1>3. ASSUME NEW s \in Statuses, NEW p \in Phases, NEW r \in BOOLEAN, EndMotion(s, p, r)
      PROVE  /\ ended' \subseteq Response /\ owed' \subseteq Response
             /\ srv' \in [phase : Phases, id : Nat, kind : AllKinds, reflex : BOOLEAN]
  BY <1>1, <1>3 DEF EndMotion
<1>4. CASE ServeMove
  <2>1. tcp' \in Seq(Response)
    <3>1. PICK s \in {"started", "rejected"} : tcp' = Append(tcp, Final(Head(requests).id, s))
      BY <1>4 DEF ServeMove
    <3>. QED  BY <1>1, <1>2, <1>4, <3>1 DEF ServeMove, Statuses
  <2>2. srv' \in [phase : Phases, id : Nat, kind : AllKinds, reflex : BOOLEAN]
    <3>1. CASE srv' = srv
      BY <3>1
    <3>2. CASE srv' # srv
      <4>1. PICK n \in Nat, k \in AllKinds :
              srv' = [phase |-> "starting", id |-> n, kind |-> k, reflex |-> FALSE]
        BY <1>2, <1>4, <3>2 DEF ServeMove
      <4>. QED  BY <4>1
    <3>. QED  BY <3>1, <3>2
  <2>3. requests' \in Seq(Request)
    BY <1>2, <1>4 DEF ServeMove
  <2>. QED  BY <1>4, <2>1, <2>2, <2>3 DEF ServeMove
<1>5. CASE ServeStop
  <2>1. tcp' \in Seq(Response)
    BY <1>1, <1>2, <1>5 DEF ServeStop, Statuses
  <2>2. /\ ended' \subseteq Response /\ owed' \subseteq Response
        /\ srv' \in [phase : Phases, id : Nat, kind : AllKinds, reflex : BOOLEAN]
    BY <1>3, <1>5 DEF ServeStop, Statuses
  <2>. QED  BY <1>2, <1>5, <2>1, <2>2 DEF ServeStop
<1>6. CASE ServeRecover
  <2>1. tcp' \in Seq(Response)
    BY <1>1, <1>2, <1>6 DEF ServeRecover, Statuses
  <2>. QED  BY <1>2, <1>6, <2>1 DEF ServeRecover
<1>7. CASE SendFinal
  BY <1>7 DEF SendFinal
<1>8. CASE MotionRuns
  BY <1>8 DEF MotionRuns
<1>9. CASE MotionFinishes
  BY <1>3, <1>9 DEF MotionFinishes, Statuses
<1>10. CASE MotionStops
  BY <1>10 DEF MotionStops
<1>11. CASE Publish
  BY <1>11, CurrentStateType DEF Publish
<1>12. CASE Reflex
  BY <1>3, <1>12 DEF Reflex, Statuses
<1>13. CASE CloseConnection
  BY <1>13 DEF CloseConnection
<1>14. CASE LostClient
  BY <1>3, <1>14 DEF LostClient, Statuses
<1>. QED
  BY <1>4, <1>5, <1>6, <1>7, <1>8, <1>9, <1>10, <1>11, <1>12, <1>13, <1>14
     DEF RobotServes, RobotMoves, RobotFails

LEMMA TypeStep ==
  ASSUME ConstantsAssumption, TypeOK, [Next]_vars  PROVE  TypeOK'
<1>1. CASE Next
  BY <1>1, TypeControlStep, TypeControlCall, TypeReceive, TypeOtherThreads, TypeRobot DEF Next
<1>2. CASE UNCHANGED vars
  BY <1>2 DEF vars, tcpVars, viewVars, ctlVars, srvVars, TypeOK
<1>. QED  BY <1>1, <1>2

(* Every variable of the client and of the robot keeps its type, whatever  *)
(* the threads, the two channels and the robot do.                         *)
THEOREM TypeCorrect == Spec => []TypeOK
<1>1. ConstantsAssumption
  BY ConstantsAssumption
<1>2. Init => TypeOK
  BY <1>1, TypeInit
<1>3. TypeOK /\ [Next]_vars => TypeOK'
  BY <1>1, TypeStep
<1>. QED  BY <1>2, <1>3, PTL DEF Spec

---------------------------------------------------------------------------
(* The states that hold a receiving thread's snapshot.  With one receiving *)
(* thread nobody else can change messageId between its two halves.         *)

SnapFresh == snap["ctl"] \in {0, messageId}

---------------------------------------------------------------------------
(* What keeps a motion that did not succeed from being reported finished.  *)

(* Command ids are never used twice: all that is on record is older than   *)
(* the next id.                                                            *)
IdsAreOld ==
  /\ motion < nextId /\ srv.id < nextId
  /\ \A i \in DOMAIN requests : requests[i].id < nextId
  /\ \A i \in DOMAIN tcp : tcp[i].id < nextId
  /\ \A r \in responses \cup ended : r.id < nextId
  /\ \A c \in commands : c.motion < nextId

(* The command id of the motion belongs to one Move request.               *)
MotionIsMove ==
  \A i, j \in DOMAIN requests :
    requests[i].id = motion => /\ requests[i].cmd = "move"
                               /\ requests[j].id = motion => i = j

(* A motion whose request is not served yet has left no trace.             *)
NoTraceYet ==
  (\E i \in DOMAIN requests : requests[i].id = motion) =>
    /\ srv.id # motion
    /\ \A r \in responses \cup ended : r.id # motion
    /\ \A j \in DOMAIN tcp : tcp[j].id # motion

(* "started" comes before anything else the robot says about the motion.   *)
StartedFirst ==
  \A i \in DOMAIN tcp : tcp[i] = Final(motion, "started") =>
    /\ \A r \in responses : r.id # motion
    /\ \A j \in DOMAIN tcp : tcp[j].id = motion => i <= j

OneStored == \A r, s \in responses : r.id = s.id => r = s

(* There is one "started" for a motion, so none once it has been received. *)
StartedOnce ==
  /\ \A i, j \in DOMAIN tcp :
       tcp[i] = Final(motion, "started") /\ tcp[j] = Final(motion, "started") => i = j
  /\ pc # "awaitStarted" =>
       /\ Final(motion, "started") \notin responses
       /\ \A i \in DOMAIN tcp : tcp[i] # Final(motion, "started")
       /\ \A i \in DOMAIN requests : requests[i].id # motion

StreamInv == OneStored /\ MotionIsMove /\ NoTraceYet
             /\ (conn # "broken" => StartedFirst /\ StartedOnce)

SuccessIsEnd ==
  /\ owed \subseteq ended
  /\ \A r \in ended : r.status # "started"
  /\ Final(motion, "success") \in responses => Final(motion, "success") \in ended
  /\ \A i \in DOMAIN tcp :
       tcp[i] = Final(motion, "success") => Final(motion, "success") \in ended

NoCommandYet ==
  pc \in {"awaitStarted", "starting", "startRecv"} =>
    /\ Final(motion, "success") \notin ended
    /\ \A c \in commands : c.motion # motion

MotionDriven ==
  /\ pc \in MotionPcs => Running(move)
  /\ snap["ctl"] # 0 => pc \in UdpWaits

SessionInv == IdsAreOld /\ StreamInv /\ SuccessIsEnd /\ NoCommandYet /\ MotionDriven

(* With one receiving thread the last state shows the motion under way.    *)
ActiveIsRunning == pc = "active" => view = move

FinishInv == SessionInv /\ ActiveIsRunning /\ FinishedMeansSuccess

---------------------------------------------------------------------------
(* Sequences, and how the client's steps touch the two channels.           *)

LEMMA TailElements ==
  ASSUME NEW S, NEW s \in Seq(S), s # <<>>
  PROVE  /\ Head(s) = s[1] /\ 1 \in DOMAIN s /\ Tail(s) \in Seq(S)
         /\ \A i \in DOMAIN Tail(s) : i \in Nat /\ i + 1 \in DOMAIN s /\ Tail(s)[i] = s[i + 1]
OBVIOUS

LEMMA AppendElements ==
  ASSUME NEW S, NEW s \in Seq(S), NEW e \in S
  PROVE  /\ DOMAIN s \subseteq Nat
         /\ DOMAIN Append(s, e) = DOMAIN s \cup {Len(s) + 1}
         /\ \A i \in DOMAIN s : i <= Len(s) /\ Append(s, e)[i] = s[i]
         /\ Append(s, e)[Len(s) + 1] = e
OBVIOUS

(* The socket is polled, or not, and some responses are taken.             *)
Polls ==
  /\ UNCHANGED <<conn, requests, nextId>>
  /\ \/ tcp' = tcp /\ responses' \subseteq responses
     \/ tcp # <<>> /\ tcp' = Tail(tcp) /\ responses' \subseteq Stored(responses, Head(tcp))

Sends == \E cmd \in {"stop", "recover"} :
           SendRequest(cmd, kind) /\ UNCHANGED <<tcp, responses>>

Breaks == conn' = "broken" /\ UNCHANGED <<requests, tcp, responses, nextId>>

(* What every step of the client does that does not start a motion.        *)
ClientStep ==
  /\ Polls \/ Sends \/ Breaks
  /\ UNCHANGED <<motion, kind, srvVars>>
  /\ \A c \in commands' :
       \/ c \in commands
       \/ /\ c.motion = motion
          /\ pc' \notin {"awaitStarted", "starting", "startRecv"}
  /\ pc' = "awaitStarted" => pc = "awaitStarted"
  /\ pc = "awaitStarted" /\ pc' # "awaitStarted" /\ ~MotionStarted => conn = "broken"
  /\ pc' \in {"starting", "startRecv"} => pc \in {"awaitStarted", "starting", "startRecv"}

LEMMA PolledPolls ==
  ASSUME UNCHANGED <<conn, requests, nextId>>, tcp' = PolledStream,
         responses' \subseteq PolledResponses
  PROVE  Polls
BY DEF Polls, PolledStream, PolledResponses

LEMMA ReceivedPolls ==
  ASSUME NEW id, NEW r, Received(id, r)  PROVE Polls
BY PolledPolls DEF Received

LEMMA NothingPolls ==
  ASSUME UNCHANGED tcpVars  PROVE Polls
BY DEF Polls, tcpVars

LEMMA CancelSends ==
  ASSUME CancelMotion  PROVE (Polls \/ Sends) /\ pc' \in {"idle", "awaitStop"}
BY NothingPolls DEF CancelMotion, Sends

LEMMA ControlStepIsClient ==
  ASSUME ControlStep  PROVE ClientStep
<1>. USE NothingPolls, ReceivedPolls DEF ClientStep, viewVars, ctlVars, srvVars
<1>1. CASE MotionStarted
  BY <1>1 DEF MotionStarted
<1>2. CASE AwaitModes
  <2>1. Polls
    BY <1>2, PolledPolls DEF AwaitModes, Polls, tcpVars
  <2>2. pc = "starting" /\ pc' # "awaitStarted"
    BY <1>2 DEF AwaitModes, StartReturned
  <2>. QED  BY <1>2, <2>1, <2>2 DEF AwaitModes
<1>3. CASE LoopStart
  BY <1>3 DEF LoopStart
<1>4. CASE CheckState
  BY <1>4 DEF CheckState
<1>5. CASE MotionError
  BY <1>5 DEF MotionError
<1>6. CASE FinishCheck
  <2>1. /\ \A c \in commands' : c \in commands \/ c.motion = motion
        /\ pc' \notin {"awaitStarted", "starting", "startRecv"}
    <3>1. CASE SendCommand(TRUE, "finishing")
      BY <3>1 DEF SendCommand
    <3>2. CASE ~SendCommand(TRUE, "finishing")
      BY <1>6, <3>2 DEF FinishCheck
    <3>. QED  BY <3>1, <3>2
  <2>. QED  BY <1>6, <2>1 DEF FinishCheck
<1>7. CASE FinishResponse
  BY <1>7 DEF FinishResponse
<1>8. CASE CancelFailed
  BY <1>8, CancelSends DEF CancelFailed
<1>9. CASE CancelAnswered
  BY <1>9 DEF CancelAnswered, AfterFailedCancel
<1>10. CASE DrainCheck
  <2>1. Polls
    BY <1>10, PolledPolls DEF DrainCheck, Polls, tcpVars
  <2>. QED  BY <1>10, <2>1 DEF DrainCheck, AfterFailedCancel
<1>11. CASE WaitBroken
  BY <1>11 DEF WaitBroken, AfterFailedCancel
<1>12. CASE Recovered
  BY <1>12 DEF Recovered
<1>. QED
  BY <1>1, <1>2, <1>3, <1>4, <1>5, <1>6, <1>7, <1>8, <1>9, <1>10, <1>11, <1>12
     DEF ControlStep

LEMMA OtherClientSteps ==
  ASSUME MotionDriven,
         \/ ControlCall /\ ~\E k \in Kinds, a \in Apis : Start(k, a)
         \/ ReadSocket \/ OtherThreads \/ \E t \in Receivers : Receive(t)
  PROVE  ClientStep
<1>. USE NothingPolls, ReceivedPolls DEF ClientStep, viewVars, ctlVars, srvVars
<1>1. CASE StartRefused
  BY <1>1 DEF StartRefused
<1>2. CASE ReadIdle \/ ReadOnce
  BY <1>2 DEF ReadIdle, ReadOnce
<1>3. CASE Recover
  <2>1. Sends
    BY <1>3 DEF Recover, Sends
  <2>. QED  BY <1>3, <2>1 DEF Recover
<1>4. CASE WriteOnce
  <2>1. /\ \A c \in commands' : c \in commands \/ c.motion = motion
        /\ pc' \notin {"awaitStarted", "starting", "startRecv"}
    <3>1. CASE SendCommand(FALSE, "active")
      BY <3>1 DEF SendCommand
    <3>2. CASE ~SendCommand(FALSE, "active")
      BY <1>4, <3>2 DEF WriteOnce
    <3>. QED  BY <3>1, <3>2
  <2>. QED  BY <1>4, <2>1 DEF WriteOnce
<1>5. CASE LoopUpdate
  <2>1. /\ \A c \in commands' : c \in commands \/ c.motion = motion
        /\ pc' \notin {"awaitStarted", "starting", "startRecv"}
    <3>1. CASE SendCommand(FALSE, "reading")
      BY <3>1 DEF SendCommand
    <3>2. CASE ~SendCommand(FALSE, "reading")
      BY <1>5, <3>2 DEF LoopUpdate
    <3>. QED  BY <3>1, <3>2
  <2>. QED  BY <1>5, <2>1 DEF LoopUpdate
<1>6. CASE Finish
  <2>1. /\ \A c \in commands' : c \in commands \/ c.motion = motion
        /\ pc' \notin {"awaitStarted", "starting", "startRecv"}
    <3>1. CASE SendCommand(TRUE, "finishing")
      BY <3>1 DEF SendCommand
    <3>2. CASE ~SendCommand(TRUE, "finishing")
      BY <1>6, <3>2 DEF Finish
    <3>. QED  BY <3>1, <3>2
  <2>. QED  BY <1>6, <2>1 DEF Finish
<1>7. CASE Abandon
  BY <1>7, CancelSends DEF Abandon
<1>8. CASE ReadSocket
  BY <1>8, PolledPolls DEF ReadSocket
<1>9. CASE StopCall
  <2>1. Sends
    BY <1>9 DEF StopCall, Sends
  <2>. QED  BY <1>9, <2>1 DEF StopCall
<1>10. CASE StopReturns
  BY <1>10 DEF StopReturns
<1>11. CASE \E t \in Monitors : MonitorRead(t)
  BY <1>11 DEF MonitorRead
<1>12. CASE \E t \in Receivers : ReceiveTimeout(t)
  <2>1. Breaks /\ UNCHANGED <<motion, kind, srvVars, commands>>
    BY <1>12 DEF ReceiveTimeout, Breaks
  <2>2. pc' = pc \/ (pc \in UdpWaits /\ pc' \in {"idle", "failed", "terminated"})
    BY <1>12 DEF ReceiveTimeout, AfterFailedCancel, MotionDriven
  <2>. QED  BY <2>1, <2>2 DEF UdpWaits
<1>13. CASE \E t \in Receivers, m \in DOMAIN published : AcceptState(t, m)
  <2>1. Polls /\ UNCHANGED <<motion, kind, srvVars, commands>>
    BY <1>13 DEF AcceptState
  <2>2. pc' = pc \/ (pc \in UdpWaits /\ pc' = AfterReceive)
    BY <1>13 DEF AcceptState, MotionDriven
  <2>. QED  BY <2>1, <2>2 DEF UdpWaits, AfterReceive
<1>. QED
  BY <1>1, <1>2, <1>3, <1>4, <1>5, <1>6, <1>7, <1>8, <1>9, <1>10, <1>11, <1>12, <1>13
     DEF ControlCall, OtherThreads, Receive

---------------------------------------------------------------------------
(* The message id.                                                         *)

LEMMA SnapFreshStep ==
  ASSUME Monitors = {}, TypeOK, SnapFresh, [Next]_vars
  PROVE  SnapFresh' /\ [messageId' > messageId]_messageId
<1>. USE DEF SnapFresh, TypeOK, BeginReceive, Receivers, viewVars, ctlVars, srvVars, tcpVars,
             clientVars
<1>1. CASE \E m \in DOMAIN published : AcceptState("ctl", m)
  <2>1. PICK m \in DOMAIN published : AcceptState("ctl", m)
    BY <1>1
  <2>2. m \in Nat /\ m > messageId
    BY <2>1 DEF AcceptState, Acceptable
  <2>. QED  BY <2>1, <2>2 DEF AcceptState
<1>2. CASE ReceiveTimeout("ctl")
  BY <1>2 DEF ReceiveTimeout
<1>3. CASE ControlStep
  BY <1>3 DEF ControlStep, MotionStarted, AwaitModes, LoopStart, CheckState, MotionError,
       FinishCheck, FinishResponse, CancelFailed, CancelAnswered, DrainCheck, WaitBroken, Recovered
<1>4. CASE ControlCall
  BY <1>4 DEF ControlCall, Start, StartRefused, ReadIdle, Recover, ReadOnce, WriteOnce,
       LoopUpdate, Finish, Abandon
<1>5. CASE ReadSocket \/ StopCall \/ StopReturns
  BY <1>5 DEF ReadSocket, StopCall, StopReturns
<1>6. CASE RobotServes \/ RobotMoves \/ RobotFails
  BY <1>6 DEF RobotServes, RobotMoves, RobotFails, ServeMove, ServeStop, ServeRecover, SendFinal,
       MotionRuns, MotionFinishes, MotionStops, Publish, Reflex, CloseConnection, LostClient
<1>7. CASE UNCHANGED vars
  BY <1>7 DEF vars
<1>. QED  BY <1>1, <1>2, <1>3, <1>4, <1>5, <1>6, <1>7 DEF Next, Receive, OtherThreads

(* As long as no other thread receives robot states, a state that was      *)
(* overtaken on its way never replaces the one that overtook it            *)
(* (Robot::Impl::receiveRobotState).                                       *)
THEOREM OneReceiverMessageIdGrows ==
  ASSUME Monitors = {}
  PROVE  Spec => MessageIdGrows
<1>1. Init => SnapFresh
  BY DEF Init, SnapFresh, Receivers
<1>2. TypeOK /\ SnapFresh /\ [Next]_vars => SnapFresh' /\ [messageId' > messageId]_messageId
  BY SnapFreshStep
<1>. QED  BY <1>1, <1>2, TypeCorrect, PTL DEF Spec, MessageIdGrows

---------------------------------------------------------------------------
(* Where the control thread stands and what it believes to be running.     *)

LEMMA ModesRun == \A k \in AllKinds : Running(ModeOf(k))
BY DEF AllKinds, Running, MotionGeneratorRunning, ControllerRunning, ModeOf

(* A response that ends the wait in startMotion is never a good one.       *)
LEMMA AwaitedIsFailure ==
  ASSUME TypeOK, StreamInv, SuccessIsEnd, NoCommandYet, pc = "starting", conn # "broken",
         NEW r \in PolledResponses \cup responses, r.id = motion
  PROVE  r.status \notin {"started", "success"}
<1>1. r \in Response /\ tcp \in Seq(Response)
  BY PolledType DEF TypeOK
<1>2. r = Final(motion, r.status)
  BY <1>1 DEF Response, Final
<1>3. r \in responses \/ (1 \in DOMAIN tcp /\ r = tcp[1])
  BY <1>1, TailElements DEF PolledResponses, Stored
<1>4. r # Final(motion, "started")
  BY <1>3 DEF StreamInv, StartedOnce
<1>5. r # Final(motion, "success")
  BY <1>3 DEF SuccessIsEnd, NoCommandYet
<1>. QED  BY <1>2, <1>4, <1>5

LEMMA MotionDrivenStep ==
  ASSUME ConstantsAssumption, TypeOK, MotionDriven, [Next]_vars
  PROVE  MotionDriven'
<1>. USE DEF MotionDriven, TypeOK, MotionPcs, UdpWaits, BeginReceive,
             viewVars, ctlVars, srvVars, tcpVars
<1>0. "ctl" \in Receivers /\ \A t \in Monitors : t # "ctl" /\ t \in Receivers
  BY DEF ConstantsAssumption, Receivers
<1>1. CASE \E k \in Kinds, a \in Apis : Start(k, a)
  <2>1. PICK k \in AllKinds, a \in AllApis : Start(k, a)
    BY <1>1 DEF ConstantsAssumption
  <2>2. Running(ModeOf(k))
    BY ModesRun
  <2>. QED  BY <2>1, <2>2 DEF Start, Running, MotionGeneratorRunning, ControllerRunning
<1>2. CASE ControlCall /\ ~\E k \in Kinds, a \in Apis : Start(k, a)
  <2>1. CASE StartRefused \/ ReadIdle \/ Recover
    BY <2>1 DEF StartRefused, ReadIdle, Recover
  <2>2. CASE ReadOnce \/ WriteOnce \/ LoopUpdate
    BY <2>2 DEF ReadOnce, WriteOnce, LoopUpdate, SendCommand
  <2>3. CASE Finish
    BY <2>3 DEF Finish, SendCommand
  <2>4. CASE Abandon
    BY <2>4 DEF Abandon, CancelMotion
  <2>. QED  BY <1>2, <2>1, <2>2, <2>3, <2>4 DEF ControlCall
<1>3. CASE AwaitModes
  <2>1. /\ pc = "starting" /\ UNCHANGED move
        /\ snap' = snap \/ pc' = "startRecv"
    BY <1>3 DEF AwaitModes
  <2>. QED  BY <2>1
<1>4. CASE MotionStarted \/ LoopStart \/ CheckState \/ MotionError
  BY <1>4 DEF MotionStarted, LoopStart, CheckState, MotionError
<1>5. CASE FinishCheck \/ FinishResponse
  BY <1>5 DEF FinishCheck, FinishResponse, SendCommand
<1>6. CASE CancelFailed \/ CancelAnswered
  BY <1>6 DEF CancelFailed, CancelAnswered, CancelMotion, AfterFailedCancel
<1>7. CASE DrainCheck
  BY <1>7 DEF DrainCheck, AfterFailedCancel
<1>8. CASE WaitBroken \/ Recovered
  <2>1. CASE WaitBroken
    <3>1. pc' \in {"idle", "terminated", "failed"} /\ (pc' = "failed" => pc \in MotionPcs)
      BY <2>1 DEF WaitBroken, AfterFailedCancel, TcpWaits
    <3>2. UNCHANGED <<move, snap>> /\ pc \notin UdpWaits
      BY <2>1 DEF WaitBroken, TcpWaits
    <3>. QED  BY <3>1, <3>2
  <2>2. CASE Recovered
    BY <2>2 DEF Recovered
  <2>. QED  BY <1>8, <2>1, <2>2
<1>9. CASE ReadSocket \/ StopCall \/ StopReturns
  BY <1>9 DEF ReadSocket, StopCall, StopReturns
<1>10. CASE ReceiveTimeout("ctl")
  BY <1>0, <1>10 DEF ReceiveTimeout, AfterFailedCancel
<1>11. CASE \E m \in DOMAIN published : AcceptState("ctl", m)
  BY <1>0, <1>11 DEF AcceptState, AfterReceive
<1>12. CASE \E t \in Monitors : MonitorRead(t) \/ Receive(t)
  <2>1. PICK t \in Monitors : MonitorRead(t) \/ Receive(t)
    BY <1>12
  <2>2. UNCHANGED <<pc, move>> /\ snap'["ctl"] = snap["ctl"]
    BY <1>0, <2>1 DEF MonitorRead, Receive, ReceiveTimeout, AcceptState
  <2>. QED  BY <2>2
<1>13. CASE RobotServes \/ RobotMoves \/ RobotFails
  BY <1>13 DEF RobotServes, RobotMoves, RobotFails, ServeMove, ServeStop, ServeRecover, SendFinal,
       MotionRuns, MotionFinishes, MotionStops, Publish, Reflex, CloseConnection, LostClient,
       clientVars
<1>14. CASE UNCHANGED vars
  BY <1>14 DEF vars
<1>. QED
  BY <1>1, <1>2, <1>3, <1>4, <1>5, <1>6, <1>7, <1>8, <1>9, <1>10, <1>11, <1>12, <1>13, <1>14
     DEF Next, ControlStep, Receive, OtherThreads, Receivers

(* Only startMotion and throwOnMotionError come to "active", and they have *)
(* compared the modes; no other thread changes them.                       *)
LEMMA ActiveIsRunningStep ==
  ASSUME ConstantsAssumption, Monitors = {}, TypeOK, SessionInv, ActiveIsRunning, [Next]_vars
  PROVE  ActiveIsRunning'
<1>. USE DEF ActiveIsRunning, TypeOK, Receivers, MotionPcs, BeginReceive,
             viewVars, ctlVars, srvVars, tcpVars
<1>1. CASE \E k \in Kinds, a \in Apis : Start(k, a)
  BY <1>1 DEF Start
<1>2. CASE ControlCall /\ ~\E k \in Kinds, a \in Apis : Start(k, a)
  <2>1. CASE StartRefused \/ ReadIdle \/ Recover
    BY <2>1 DEF StartRefused, ReadIdle, Recover
  <2>2. CASE ReadOnce \/ WriteOnce \/ LoopUpdate
    BY <2>2 DEF ReadOnce, WriteOnce, LoopUpdate, SendCommand
  <2>3. CASE Finish
    BY <2>3 DEF Finish, SendCommand
  <2>4. CASE Abandon
    BY <2>4 DEF Abandon, CancelMotion
  <2>. QED  BY <1>2, <2>1, <2>2, <2>3, <2>4 DEF ControlCall
<1>3. CASE AwaitModes
  <2>1. CASE view = move
    BY <1>3, <2>1 DEF AwaitModes, StartReturned
  <2>2. CASE view # move
    <3>1. CASE conn = "broken"
      BY <1>3, <2>2, <3>1 DEF AwaitModes
    <3>2. CASE conn # "broken"
      BY <1>3, <2>2, <3>2, AwaitedIsFailure DEF AwaitModes, SessionInv
    <3>. QED  BY <3>1, <3>2
  <2>. QED  BY <2>1, <2>2
<1>4. CASE MotionStarted \/ LoopStart \/ CheckState \/ MotionError
  BY <1>4 DEF MotionStarted, LoopStart, CheckState, MotionError
<1>5. CASE FinishCheck \/ FinishResponse
  BY <1>5 DEF FinishCheck, FinishResponse, SendCommand
<1>6. CASE CancelFailed \/ CancelAnswered
  BY <1>6 DEF CancelFailed, CancelAnswered, CancelMotion, AfterFailedCancel
<1>7. CASE DrainCheck
  BY <1>7 DEF DrainCheck, AfterFailedCancel
<1>8. CASE WaitBroken \/ Recovered
  BY <1>8 DEF WaitBroken, AfterFailedCancel, Recovered
<1>9. CASE ReadSocket \/ StopCall \/ StopReturns
  BY <1>9 DEF ReadSocket, StopCall, StopReturns
<1>10. CASE ReceiveTimeout("ctl")
  BY <1>10 DEF ReceiveTimeout, AfterFailedCancel
<1>11. CASE \E m \in DOMAIN published : AcceptState("ctl", m)
  <2>1. pc \in UdpWaits /\ pc' = AfterReceive
    BY <1>11 DEF AcceptState, SessionInv, MotionDriven
  <2>. QED  BY <2>1 DEF AfterReceive, UdpWaits
<1>12. CASE RobotServes \/ RobotMoves \/ RobotFails
  BY <1>12 DEF RobotServes, RobotMoves, RobotFails, ServeMove, ServeStop, ServeRecover, SendFinal,
       MotionRuns, MotionFinishes, MotionStops, Publish, Reflex, CloseConnection, LostClient,
       clientVars
<1>13. CASE UNCHANGED vars
  BY <1>13 DEF vars
<1>. QED
  BY <1>1, <1>2, <1>3, <1>4, <1>5, <1>6, <1>7, <1>8, <1>9, <1>10, <1>11, <1>12, <1>13
     DEF Next, ControlStep, Receive, OtherThreads

---------------------------------------------------------------------------
(* What a step of the robot, or of the network, does.                      *)

Ends == {"success", "aborted", "preempted"}

RobotStep ==
  /\ UNCHANGED clientVars
  /\ conn' # "broken" => conn # "broken"
  /\ conn' = "up" => conn = "up"
  /\ \/ UNCHANGED <<requests, tcp>>
     \/ requests' = <<>> /\ tcp' = tcp
     \/ requests' = requests /\ \E o \in owed : tcp' = Append(tcp, o)
     \/ /\ requests # <<>> /\ requests' = Tail(requests)
        /\ \E s \in Statuses :
             /\ tcp' = Append(tcp, Final(Head(requests).id, s))
             /\ s = "success" => Head(requests).cmd # "move"
  /\ \/ srv'.id = srv.id
     \/ requests # <<>> /\ requests' = Tail(requests) /\ srv'.id = Head(requests).id
  /\ owed' \subseteq owed \cup ended'
  /\ \/ ended' = ended
     \/ \E s \in Ends :
          /\ ended' = ended \cup {Final(srv.id, s)}
          /\ s = "success" => \E c \in commands : c.motion = srv.id

LEMMA EndMotionEnds ==
  ASSUME TypeOK, NEW s \in Ends, NEW p, NEW r, EndMotion(s, p, r)
  PROVE  /\ srv'.id = srv.id /\ owed' \subseteq owed \cup ended'
         /\ ended' = ended \cup {Final(srv.id, s)}
BY DEF EndMotion, TypeOK

LEMMA RobotStepIsRobot ==
  ASSUME TypeOK, RobotServes \/ RobotMoves \/ RobotFails  PROVE RobotStep
<1>. USE DEF RobotStep, Ends
<1>1. CASE ServeMove
  <2>1. /\ requests # <<>> /\ requests' = Tail(requests)
        /\ UNCHANGED <<conn, owed, ended, clientVars>>
        /\ \E s \in Statuses :
             /\ tcp' = Append(tcp, Final(Head(requests).id, s))
             /\ s # "success"
    BY <1>1 DEF ServeMove, Statuses
  <2>2. srv'.id = srv.id \/ srv'.id = Head(requests).id
    BY <1>1 DEF ServeMove
  <2>. QED  BY <2>1, <2>2
<1>2. CASE ServeStop
  <2>1. /\ requests # <<>> /\ requests' = Tail(requests) /\ Head(requests).cmd # "move"
        /\ UNCHANGED <<conn, clientVars>>
        /\ \E s \in Statuses : tcp' = Append(tcp, Final(Head(requests).id, s))
    BY <1>2 DEF ServeStop, Statuses
  <2>2. CASE Moving
    <3>1. EndMotion("preempted", "stopping", srv.reflex)
      BY <1>2, <2>2 DEF ServeStop
    <3>. QED  BY <2>1, <3>1, EndMotionEnds
  <2>3. CASE ~Moving
    BY <1>2, <2>1, <2>3 DEF ServeStop
  <2>. QED  BY <2>2, <2>3
<1>3. CASE ServeRecover
  <2>1. /\ requests # <<>> /\ requests' = Tail(requests) /\ Head(requests).cmd # "move"
        /\ UNCHANGED <<conn, owed, ended, clientVars>>
        /\ \E s \in Statuses : tcp' = Append(tcp, Final(Head(requests).id, s))
    BY <1>3 DEF ServeRecover, Statuses
  <2>2. srv'.id = srv.id
    BY <1>3 DEF ServeRecover, TypeOK
  <2>. QED  BY <2>1, <2>2
<1>4. CASE SendFinal
  BY <1>4 DEF SendFinal
<1>5. CASE MotionRuns \/ MotionStops
  BY <1>5 DEF MotionRuns, MotionStops, TypeOK
<1>6. CASE MotionFinishes
  BY <1>6, EndMotionEnds DEF MotionFinishes
<1>7. CASE Reflex
  BY <1>7, EndMotionEnds DEF Reflex
<1>8. CASE LostClient
  BY <1>8, EndMotionEnds DEF LostClient
<1>9. CASE Publish
  BY <1>9 DEF Publish
<1>10. CASE CloseConnection
  BY <1>10 DEF CloseConnection, srvVars
<1>. QED
  BY <1>1, <1>2, <1>3, <1>4, <1>5, <1>6, <1>7, <1>8, <1>9, <1>10
     DEF RobotServes, RobotMoves, RobotFails

(* Where the elements of the channels come from.                           *)
LEMMA PollElements ==
  ASSUME TypeOK, Polls
  PROVE  /\ \A i \in DOMAIN tcp' : \E j \in DOMAIN tcp : tcp'[i] = tcp[j]
         /\ \A r \in responses' : r \in responses \/ \E j \in DOMAIN tcp : r = tcp[j]
<1>1. tcp \in Seq(Response)
  BY DEF TypeOK
<1>2. CASE tcp' = tcp /\ responses' \subseteq responses
  BY <1>2
<1>3. CASE tcp # <<>> /\ tcp' = Tail(tcp) /\ responses' \subseteq Stored(responses, Head(tcp))
  BY <1>1, <1>3, TailElements DEF Stored
<1>. QED  BY <1>2, <1>3 DEF Polls

LEMMA SendElements ==
  ASSUME TypeOK, NEW cmd \in {"move", "stop", "recover"}, NEW k \in AllKinds,
         SendRequest(cmd, k)
  PROVE  /\ nextId' = nextId + 1
         /\ \A i \in DOMAIN requests' :
              \/ i \in DOMAIN requests /\ requests'[i] = requests[i]
              \/ /\ i = Len(requests) + 1
                 /\ requests'[i].id = nextId /\ requests'[i].cmd = cmd
<1>1. [cmd |-> cmd, id |-> nextId, kind |-> k] \in Request /\ requests \in Seq(Request)
  BY DEF TypeOK, Request
<1>. QED  BY <1>1, AppendElements DEF SendRequest

LEMMA IdTypes ==
  ASSUME TypeOK
  PROVE  /\ nextId \in Nat /\ motion \in Nat /\ srv.id \in Nat
         /\ \A i \in DOMAIN requests : requests[i].id \in Nat
         /\ \A i \in DOMAIN tcp : tcp[i].id \in Nat
         /\ \A r \in responses \cup ended \cup owed : r.id \in Nat
         /\ \A c \in commands : c.motion \in Nat
<1>1. \A i \in DOMAIN requests : requests[i] \in Request
  BY DEF TypeOK
<1>2. \A i \in DOMAIN tcp : tcp[i] \in Response
  BY DEF TypeOK
<1>. QED  BY <1>1, <1>2 DEF TypeOK, Request, Response

LEMMA IdsStep ==
  ASSUME ConstantsAssumption, TypeOK, MotionDriven, SuccessIsEnd, IdsAreOld, [Next]_vars
  PROVE  IdsAreOld'
<1>. USE IdTypes DEF IdsAreOld
<1>0. tcp \in Seq(Response) /\ requests \in Seq(Request) /\ kind \in AllKinds
  BY DEF TypeOK
<1>1. CASE \E k \in Kinds, a \in Apis : Start(k, a)
  <2>1. PICK k \in AllKinds, a \in AllApis : Start(k, a)
    BY <1>1 DEF ConstantsAssumption
  <2>2. /\ motion' = nextId /\ SendRequest("move", k)
        /\ UNCHANGED <<tcp, responses, commands, srv, ended>>
    BY <2>1 DEF Start, srvVars
  <2>3. /\ nextId' = nextId + 1
        /\ \A i \in DOMAIN requests' :
             \/ i \in DOMAIN requests /\ requests'[i] = requests[i]
             \/ requests'[i].id = nextId
    BY <2>2, SendElements
  <2>. QED  BY <2>2, <2>3
<1>2. CASE ClientStep
  <2>1. UNCHANGED <<motion, srv, ended>>
    BY <1>2 DEF ClientStep, srvVars
  <2>2. \A c \in commands' : c.motion \in Nat /\ c.motion < nextId
    BY <1>2 DEF ClientStep
  <2>3. CASE Polls
    BY <2>1, <2>2, <2>3, PollElements DEF Polls
  <2>4. CASE Sends
    <3>1. PICK cmd \in {"stop", "recover"} :
            SendRequest(cmd, kind) /\ UNCHANGED <<tcp, responses>>
      BY <2>4 DEF Sends
    <3>2. /\ nextId' = nextId + 1
          /\ \A i \in DOMAIN requests' :
               \/ i \in DOMAIN requests /\ requests'[i] = requests[i]
               \/ requests'[i].id = nextId
      BY <1>0, <3>1, SendElements
    <3>. QED  BY <2>1, <2>2, <3>1, <3>2
  <2>5. CASE Breaks
    BY <2>1, <2>2, <2>5 DEF Breaks
  <2>. QED  BY <1>2, <2>3, <2>4, <2>5 DEF ClientStep
<1>3. CASE RobotStep
  <2>1. UNCHANGED <<motion, nextId, responses, commands>>
    BY <1>3 DEF RobotStep, clientVars, ctlVars
  <2>2. srv'.id < nextId
    BY <1>0, <1>3, TailElements DEF RobotStep
  <2>3. \A r \in ended' : r.id < nextId
    <3>1. ended' = ended \/ \E s \in Ends : ended' = ended \cup {Final(srv.id, s)}
      BY <1>3 DEF RobotStep
    <3>2. \A s \in Ends : Final(srv.id, s).id = srv.id
      BY DEF Final
    <3>. QED  BY <3>1, <3>2
  <2>4. \A i \in DOMAIN requests' : requests'[i].id < nextId
    <3>1. CASE requests # <<>> /\ requests' = Tail(requests)
      BY <1>0, <3>1, TailElements
    <3>2. requests' = requests \/ requests' = <<>> \/ (requests # <<>> /\ requests' = Tail(requests))
      BY <1>3 DEF RobotStep
    <3>. QED  BY <3>1, <3>2
  <2>5. \A i \in DOMAIN tcp' : tcp'[i].id < nextId
    <3>1. CASE tcp' = tcp
      BY <3>1
    <3>2. CASE \E o \in Response : o.id < nextId /\ tcp' = Append(tcp, o)
      BY <1>0, <3>2, AppendElements
    <3>3. \A o \in owed : o \in Response /\ o.id < nextId
      BY DEF SuccessIsEnd, TypeOK
    <3>4. \A s \in Statuses : requests # <<>> =>
            Final(Head(requests).id, s) \in Response /\ Final(Head(requests).id, s).id < nextId
      BY <1>0, TailElements DEF Final, Response
    <3>. QED  BY <1>3, <3>1, <3>2, <3>3, <3>4 DEF RobotStep
  <2>. QED  BY <2>1, <2>2, <2>3, <2>4, <2>5
<1>4. CASE UNCHANGED vars
  BY <1>4 DEF vars, tcpVars, ctlVars, srvVars
<1>. QED
  BY <1>1, <1>2, <1>3, <1>4, ControlStepIsClient, OtherClientSteps, RobotStepIsRobot DEF Next

---------------------------------------------------------------------------
(* The two channels.                                                       *)

LEMMA StreamPoll ==
  ASSUME TypeOK, StreamInv, Polls, UNCHANGED <<motion, srv, ended>>,
         pc' = "awaitStarted" => pc = "awaitStarted",
         pc = "awaitStarted" /\ pc' # "awaitStarted" => conn = "broken"
  PROVE  StreamInv'
<1>0. tcp \in Seq(Response) /\ UNCHANGED <<conn, requests>>
  BY DEF TypeOK, Polls
<1>1. \/ tcp' = tcp /\ responses' \subseteq responses
      \/ tcp # <<>> /\ tcp' = Tail(tcp) /\ responses' \subseteq Stored(responses, Head(tcp))
  BY DEF Polls
<1>2. OneStored'
  BY <1>1 DEF StreamInv, OneStored, Stored
<1>3. MotionIsMove' /\ NoTraceYet'
  BY <1>0, PollElements DEF StreamInv, MotionIsMove, NoTraceYet
<1>4. ASSUME conn' # "broken"  PROVE StartedFirst' /\ StartedOnce'
  <2>1. StartedFirst /\ StartedOnce /\ (pc = "awaitStarted" <=> pc' = "awaitStarted")
    BY <1>0, <1>4 DEF StreamInv
  <2>2. CASE tcp' = tcp /\ responses' \subseteq responses
    BY <1>0, <2>1, <2>2 DEF StartedFirst, StartedOnce
  <2>3. CASE tcp # <<>> /\ tcp' = Tail(tcp) /\ responses' \subseteq Stored(responses, Head(tcp))
    <3>1. /\ 1 \in DOMAIN tcp /\ DOMAIN tcp' \subseteq Nat
          /\ \A i \in DOMAIN tcp' : i + 1 \in DOMAIN tcp /\ tcp'[i] = tcp[i + 1]
          /\ \A r \in responses' : r \in responses \/ r = tcp[1]
      BY <1>0, <2>3, TailElements DEF Stored
    <3>2. Final(motion, "started").id = motion
      BY DEF Final
    <3>3. StartedFirst'
      BY <1>0, <2>1, <3>1, <3>2 DEF StartedFirst
    <3>4. StartedOnce'
      BY <1>0, <2>1, <3>1 DEF StartedOnce
    <3>. QED  BY <3>3, <3>4
  <2>. QED  BY <1>1, <2>2, <2>3
<1>. QED  BY <1>2, <1>3, <1>4 DEF StreamInv

LEMMA StreamStarted ==
  ASSUME TypeOK, StreamInv, MotionStarted
  PROVE  StreamInv'
<1>1. PICK r \in PolledResponses : Received(motion, r)
  BY DEF MotionStarted
<1>2. /\ UNCHANGED <<motion, srv, ended, conn, requests>> /\ r.id = motion
      /\ tcp' = PolledStream /\ responses' = PolledResponses \ {r} /\ conn # "broken"
  BY <1>1 DEF MotionStarted, Received, srvVars
<1>3. tcp \in Seq(Response) /\ (tcp # <<>> => Head(tcp) = tcp[1] /\ 1 \in DOMAIN tcp)
  BY TailElements DEF TypeOK
<1>4. \A q, s \in PolledResponses : q.id = s.id => q = s
  BY DEF PolledResponses, Stored, StreamInv, OneStored
<1>5. \A s \in responses' : s.id # motion
  BY <1>1, <1>2, <1>4
<1>6. r \in responses \/ (1 \in DOMAIN tcp /\ r = tcp[1])
  BY <1>1, <1>3 DEF PolledResponses, Stored
<1>7. \A i \in DOMAIN requests : requests[i].id # motion
  BY <1>2, <1>6 DEF StreamInv, NoTraceYet
<1>8. \A i \in DOMAIN tcp' : tcp'[i] # Final(motion, "started")
  <2>. SUFFICES ASSUME NEW i \in DOMAIN tcp', tcp'[i] = Final(motion, "started")
                PROVE  FALSE
    OBVIOUS
  <2>1. /\ tcp # <<>> /\ i \in Nat /\ i >= 1 /\ i + 1 \in DOMAIN tcp
        /\ tcp[i + 1] = Final(motion, "started")
    BY <1>2, <1>3, TailElements DEF PolledStream
  <2>. QED  BY <1>2, <1>6, <2>1 DEF StreamInv, StartedFirst
<1>9. OneStored'
  BY <1>2, <1>4 DEF OneStored
<1>10. Final(motion, "started").id = motion
  BY DEF Final
<1>. QED
  BY <1>2, <1>5, <1>7, <1>8, <1>9, <1>10
     DEF StreamInv, MotionIsMove, NoTraceYet, StartedFirst, StartedOnce

LEMMA StreamSend ==
  ASSUME TypeOK, IdsAreOld, StreamInv, Sends, UNCHANGED <<motion, srv, ended>>,
         pc' = "awaitStarted" => pc = "awaitStarted",
         pc = "awaitStarted" /\ pc' # "awaitStarted" => conn = "broken"
  PROVE  StreamInv'
<1>1. PICK cmd \in {"stop", "recover"} : SendRequest(cmd, kind) /\ UNCHANGED <<tcp, responses>>
  BY DEF Sends
<1>2. conn' # "broken" => conn # "broken"
  BY <1>1 DEF SendRequest
<1>3. \A i \in DOMAIN requests' :
        requests'[i].id = motion => i \in DOMAIN requests /\ requests'[i] = requests[i]
  BY <1>1, SendElements, IdTypes DEF IdsAreOld, TypeOK
<1>4. MotionIsMove' /\ NoTraceYet'
  BY <1>1, <1>3 DEF StreamInv, MotionIsMove, NoTraceYet
<1>. QED
  BY <1>1, <1>2, <1>3, <1>4 DEF StreamInv, OneStored, StartedFirst, StartedOnce

LEMMA StreamStart ==
  ASSUME TypeOK, IdsAreOld, StreamInv, NEW k \in AllKinds, NEW a, Start(k, a)
  PROVE  StreamInv'
<1>1. /\ motion' = nextId /\ SendRequest("move", k) /\ pc' = "awaitStarted"
      /\ UNCHANGED <<tcp, responses, srv, ended>>
  BY DEF Start, srvVars
<1>2. \A i \in DOMAIN requests' :
        requests'[i].id = nextId => i = Len(requests) + 1 /\ requests'[i].cmd = "move"
  BY <1>1, SendElements, IdTypes DEF IdsAreOld
<1>3. MotionIsMove'
  BY <1>1, <1>2 DEF MotionIsMove
<1>4. /\ srv.id # nextId /\ \A r \in responses \cup ended : r.id # nextId
      /\ \A i \in DOMAIN tcp : tcp[i].id # nextId
  BY IdTypes DEF IdsAreOld
<1>5. Final(nextId, "started").id = nextId
  BY DEF Final
<1>. QED
  BY <1>1, <1>3, <1>4, <1>5
     DEF StreamInv, OneStored, NoTraceYet, StartedFirst, StartedOnce

LEMMA StreamRobot ==
  ASSUME TypeOK, SuccessIsEnd, StreamInv, RobotStep
  PROVE  StreamInv'
<1>0. /\ tcp \in Seq(Response) /\ requests \in Seq(Request)
      /\ UNCHANGED <<motion, responses, pc>> /\ (conn' # "broken" => conn # "broken")
  BY DEF TypeOK, RobotStep, clientVars, ctlVars
<1>1. \A i : Final(motion, "started").id = motion /\ Final(srv.id, i).id = srv.id
  BY DEF Final
<1>2. OneStored'
  BY <1>0 DEF StreamInv, OneStored
<1>3. ended' = ended \/ \E s \in Ends : ended' = ended \cup {Final(srv.id, s)}
  BY DEF RobotStep
<1>4. \A r \in ended' : r \in ended \/ r.id = srv.id
  BY <1>1, <1>3
<1>5. CASE /\ requests # <<>> /\ requests' = Tail(requests)
           /\ \E s \in Statuses : tcp' = Append(tcp, Final(Head(requests).id, s))
  <2>1. PICK s \in Statuses : tcp' = Append(tcp, Final(Head(requests).id, s))
    BY <1>5
  <2>2. /\ Head(requests) = requests[1] /\ 1 \in DOMAIN requests /\ requests[1].id \in Nat
        /\ \A i \in DOMAIN requests' : /\ i \in Nat /\ i + 1 \in DOMAIN requests
                                      /\ i + 1 # 1 /\ requests'[i] = requests[i + 1]
    BY <1>0, <1>5, TailElements, IdTypes
  <2>3. Final(requests[1].id, s) \in Response /\ Final(requests[1].id, s).id = requests[1].id
    BY <2>2 DEF Final, Response
  <2>4. /\ DOMAIN tcp \subseteq Nat /\ DOMAIN tcp' = DOMAIN tcp \cup {Len(tcp) + 1}
        /\ \A i \in DOMAIN tcp : i <= Len(tcp) /\ tcp'[i] = tcp[i]
        /\ tcp'[Len(tcp) + 1].id = requests[1].id
    BY <1>0, <2>1, <2>2, <2>3, AppendElements
  <2>5. srv'.id = srv.id \/ srv'.id = requests[1].id
    BY <2>2 DEF RobotStep
  <2>6. MotionIsMove'
    BY <1>0, <2>2 DEF StreamInv, MotionIsMove
  <2>7. (\E i \in DOMAIN requests' : requests'[i].id = motion) => requests[1].id # motion
    BY <2>2 DEF StreamInv, MotionIsMove
  <2>8. NoTraceYet'
    BY <1>0, <1>4, <2>2, <2>4, <2>5, <2>7 DEF StreamInv, NoTraceYet
  <2>9. requests[1].id = motion => /\ \A r \in responses : r.id # motion
                                  /\ \A j \in DOMAIN tcp : tcp[j].id # motion
    BY <2>2 DEF StreamInv, NoTraceYet
  <2>10. ASSUME conn' # "broken"  PROVE StartedFirst' /\ StartedOnce'
    <3>1. StartedFirst /\ StartedOnce
      BY <1>0, <2>10 DEF StreamInv
    <3>2. StartedFirst'
      BY <1>0, <1>1, <2>4, <2>9, <3>1 DEF StartedFirst
    <3>3. StartedOnce'
      BY <1>0, <1>1, <2>2, <2>4, <2>9, <3>1 DEF StartedOnce
    <3>. QED  BY <3>2, <3>3
  <2>. QED  BY <1>2, <2>6, <2>8, <2>10 DEF StreamInv
<1>6. CASE requests' = requests /\ \E o \in owed : tcp' = Append(tcp, o)
  <2>1. PICK o \in owed : tcp' = Append(tcp, o)
    BY <1>6
  <2>2. o \in Response /\ o \in ended /\ o.status # "started"
    BY DEF TypeOK, SuccessIsEnd
  <2>3. /\ DOMAIN tcp \subseteq Nat /\ DOMAIN tcp' = DOMAIN tcp \cup {Len(tcp) + 1}
        /\ \A i \in DOMAIN tcp : i <= Len(tcp) /\ tcp'[i] = tcp[i]
        /\ tcp'[Len(tcp) + 1] = o
    BY <1>0, <2>1, <2>2, AppendElements
  <2>4. o # Final(motion, "started")
    BY <2>2 DEF Final
  <2>5. srv'.id = srv.id \/ (requests' = Tail(requests) /\ requests # <<>>)
    BY DEF RobotStep
  <2>6. requests # <<>> => Tail(requests) # requests
    BY <1>0
  <2>7. MotionIsMove' /\ NoTraceYet'
    BY <1>0, <1>4, <1>6, <2>2, <2>3, <2>5, <2>6 DEF StreamInv, MotionIsMove, NoTraceYet
  <2>8. ASSUME conn' # "broken"  PROVE StartedFirst' /\ StartedOnce'
    BY <1>0, <1>6, <2>3, <2>4, <2>8 DEF StreamInv, StartedFirst, StartedOnce
  <2>. QED  BY <1>2, <2>7, <2>8 DEF StreamInv
<1>7. CASE tcp' = tcp /\ (requests' = requests \/ requests' = <<>>)
  <2>1. requests # <<>> => Tail(requests) # requests
    BY <1>0
  <2>2. requests' = requests => srv'.id = srv.id
    BY <2>1 DEF RobotStep
  <2>. QED
    BY <1>0, <1>2, <1>4, <1>7, <2>2
       DEF StreamInv, MotionIsMove, NoTraceYet, StartedFirst, StartedOnce
<1>. QED  BY <1>5, <1>6, <1>7 DEF RobotStep

LEMMA StreamStep ==
  ASSUME ConstantsAssumption, TypeOK, IdsAreOld, MotionDriven, SuccessIsEnd, StreamInv,
         [Next]_vars
  PROVE  StreamInv'
<1>1. CASE \E k \in Kinds, a \in Apis : Start(k, a)
  BY <1>1, StreamStart DEF ConstantsAssumption
<1>2. CASE MotionStarted
  BY <1>2, StreamStarted
<1>3. CASE ClientStep /\ ~MotionStarted
  <2>1. /\ UNCHANGED <<motion, srv, ended>>
        /\ pc' = "awaitStarted" => pc = "awaitStarted"
        /\ pc = "awaitStarted" /\ pc' # "awaitStarted" => conn = "broken"
    BY <1>3 DEF ClientStep, srvVars
  <2>2. CASE Breaks
    BY <2>1, <2>2 DEF Breaks, StreamInv, OneStored, MotionIsMove, NoTraceYet
  <2>. QED  BY <1>3, <2>1, <2>2, StreamPoll, StreamSend DEF ClientStep
<1>4. CASE RobotServes \/ RobotMoves \/ RobotFails
  BY <1>4, RobotStepIsRobot, StreamRobot
<1>5. CASE UNCHANGED vars
  BY <1>5 DEF vars, tcpVars, ctlVars, srvVars, StreamInv, OneStored, MotionIsMove, NoTraceYet,
       StartedFirst, StartedOnce
<1>. QED
  BY <1>1, <1>2, <1>3, <1>4, <1>5, ControlStepIsClient, OtherClientSteps DEF Next

---------------------------------------------------------------------------
(* Success.                                                                *)

LEMMA SuccessStep ==
  ASSUME ConstantsAssumption, TypeOK, IdsAreOld, MotionDriven, StreamInv, SuccessIsEnd,
         [Next]_vars
  PROVE  SuccessIsEnd'
<1>0. tcp \in Seq(Response) /\ requests \in Seq(Request)
  BY DEF TypeOK
<1>1. CASE \E k \in Kinds, a \in Apis : Start(k, a)
  <2>1. /\ motion' = nextId /\ UNCHANGED <<tcp, responses, owed, ended>>
    BY <1>1 DEF Start, srvVars
  <2>2. Final(nextId, "success").id = nextId
    BY DEF Final
  <2>. QED  BY <2>1, <2>2, IdTypes DEF IdsAreOld, SuccessIsEnd
<1>2. CASE ClientStep
  <2>1. UNCHANGED <<motion, owed, ended>>
    BY <1>2 DEF ClientStep, srvVars
  <2>2. CASE Polls
    BY <2>1, <2>2, PollElements DEF SuccessIsEnd
  <2>3. CASE Sends \/ Breaks
    BY <2>1, <2>3 DEF Sends, Breaks, SuccessIsEnd
  <2>. QED  BY <1>2, <2>2, <2>3 DEF ClientStep
<1>3. CASE RobotStep
  <2>1. UNCHANGED <<motion, responses>>
    BY <1>3 DEF RobotStep, clientVars, ctlVars
  <2>2. ended \subseteq ended' /\ owed' \subseteq ended'
    BY <1>3 DEF RobotStep, SuccessIsEnd
  <2>3. \A r \in ended' : r.status # "started"
    <3>1. \A r \in ended' : r \in ended \/ \E s \in Ends : r = Final(srv.id, s)
      BY <1>3 DEF RobotStep
    <3>2. \A s \in Ends : Final(srv.id, s).status # "started"
      BY DEF Final, Ends
    <3>. QED  BY <3>1, <3>2 DEF SuccessIsEnd
  <2>4. ASSUME NEW i \in DOMAIN tcp', tcp'[i] = Final(motion, "success")
        PROVE  Final(motion, "success") \in ended'
    <3>1. CASE tcp' = tcp
      BY <2>2, <2>4, <3>1 DEF SuccessIsEnd
    <3>2. CASE \E o \in owed : tcp' = Append(tcp, o)
      <4>1. PICK o \in owed : tcp' = Append(tcp, o)
        BY <3>2
      <4>2. o \in Response /\ o \in ended
        BY DEF TypeOK, SuccessIsEnd
      <4>. QED  BY <1>0, <2>2, <2>4, <4>1, <4>2, AppendElements DEF SuccessIsEnd
    <3>3. CASE requests # <<>> /\ \E s \in Statuses :
                 /\ tcp' = Append(tcp, Final(Head(requests).id, s))
                 /\ s = "success" => Head(requests).cmd # "move"
      <4>1. PICK s \in Statuses :
              /\ tcp' = Append(tcp, Final(Head(requests).id, s))
              /\ s = "success" => Head(requests).cmd # "move"
        BY <3>3
      <4>2. Head(requests) = requests[1] /\ 1 \in DOMAIN requests /\ requests[1].id \in Nat
        BY <1>0, <3>3, TailElements, IdTypes
      <4>3. Final(requests[1].id, s) \in Response
        BY <4>2 DEF Final, Response
      <4>4. Final(requests[1].id, s) # Final(motion, "success")
        BY <4>1, <4>2 DEF Final, StreamInv, MotionIsMove
      <4>. QED  BY <1>0, <2>2, <2>4, <4>1, <4>2, <4>3, <4>4, AppendElements DEF SuccessIsEnd
    <3>. QED  BY <1>3, <3>1, <3>2, <3>3 DEF RobotStep
  <2>. QED  BY <2>1, <2>2, <2>3, <2>4 DEF SuccessIsEnd
<1>4. CASE UNCHANGED vars
  BY <1>4 DEF vars, tcpVars, ctlVars, srvVars, SuccessIsEnd
<1>. QED
  BY <1>1, <1>2, <1>3, <1>4, ControlStepIsClient, OtherClientSteps, RobotStepIsRobot DEF Next

LEMMA NoCommandStep ==
  ASSUME ConstantsAssumption, TypeOK, IdsAreOld, MotionDriven, NoCommandYet, [Next]_vars
  PROVE  NoCommandYet'
<1>1. CASE \E k \in Kinds, a \in Apis : Start(k, a)
  <2>1. /\ motion' = nextId /\ UNCHANGED <<commands, ended>>
    BY <1>1 DEF Start, srvVars
  <2>2. Final(nextId, "success").id = nextId
    BY DEF Final
  <2>. QED  BY <2>1, <2>2, IdTypes DEF IdsAreOld, NoCommandYet
<1>2. CASE ClientStep
  BY <1>2 DEF ClientStep, srvVars, NoCommandYet
<1>3. CASE RobotStep
  <2>1. UNCHANGED <<motion, pc, commands>>
    BY <1>3 DEF RobotStep, clientVars, ctlVars
  <2>2. ASSUME Final(motion, "success") \in ended', Final(motion, "success") \notin ended
        PROVE  \E c \in commands : c.motion = motion
    <3>1. PICK s \in Ends :
            /\ ended' = ended \cup {Final(srv.id, s)}
            /\ s = "success" => \E c \in commands : c.motion = srv.id
      BY <1>3, <2>2 DEF RobotStep
    <3>2. Final(motion, "success") = Final(srv.id, s)
      BY <2>2, <3>1
    <3>. QED  BY <3>1, <3>2 DEF Final
  <2>. QED  BY <2>1, <2>2 DEF NoCommandYet
<1>4. CASE UNCHANGED vars
  BY <1>4 DEF vars, ctlVars, srvVars, NoCommandYet
<1>. QED
  BY <1>1, <1>2, <1>3, <1>4, ControlStepIsClient, OtherClientSteps, RobotStepIsRobot DEF Next

LEMMA EndedGrows ==
  ASSUME ConstantsAssumption, TypeOK, MotionDriven, [Next]_vars
  PROVE  ended \subseteq ended'
<1>1. CASE \E k \in Kinds, a \in Apis : Start(k, a)
  BY <1>1 DEF Start, srvVars
<1>2. CASE ClientStep
  BY <1>2 DEF ClientStep, srvVars
<1>3. CASE RobotStep
  BY <1>3 DEF RobotStep
<1>4. CASE UNCHANGED vars
  BY <1>4 DEF vars, srvVars
<1>. QED
  BY <1>1, <1>2, <1>3, <1>4, ControlStepIsClient, OtherClientSteps, RobotStepIsRobot DEF Next

(* Only the two ends of finishMotion report a motion as finished.          *)
NoneFinished == \A o \in outcome' : o \in outcome \/ o.result # "finished"

LEMMA ReportNoneFinished ==
  ASSUME NEW r, Report(r), r # "finished"  PROVE NoneFinished
BY DEF Report, NoneFinished

LEMMA SendCommandNoneFinished ==
  ASSUME NEW f, NEW next, SendCommand(f, next)  PROVE NoneFinished
BY DEF SendCommand, Report, NoneFinished

LEMMA FinishedStep ==
  ASSUME ConstantsAssumption, TypeOK, FinishInv, [Next]_vars
  PROVE  FinishedMeansSuccess'
<1>1. ended \subseteq ended'
  BY EndedGrows DEF FinishInv, SessionInv
<1>. USE DEF FinishInv, SessionInv
<1>2. CASE NoneFinished
  BY <1>1, <1>2 DEF NoneFinished, FinishedMeansSuccess
<1>3. CASE UNCHANGED outcome
  BY <1>1, <1>3 DEF FinishedMeansSuccess
<1>4. CASE Finish
  <2>1. pc = "active" /\ Running(view)
    BY <1>4 DEF Finish, ActiveIsRunning, MotionDriven, MotionPcs
  <2>2. Report("controlError") \/ SendCommand(TRUE, "finishing")
    BY <1>4, <2>1 DEF Finish
  <2>. QED  BY <1>2, <2>2, ReportNoneFinished, SendCommandNoneFinished
<1>5. CASE FinishResponse
  <2>1. PICK r \in PolledResponses :
          /\ Received(motion, r)
          /\ IF r.status \in {"started", "success"} THEN Report("finished")
                                                     ELSE Report("controlError")
    BY <1>5 DEF FinishResponse
  <2>2. CASE r.status \notin {"started", "success"}
    BY <1>2, <2>1, <2>2, ReportNoneFinished
  <2>3. CASE r.status \in {"started", "success"}
    <3>1. r.id = motion /\ conn # "broken" /\ pc # "awaitStarted" /\ r \in Response
      BY <1>5, <2>1, PolledType DEF FinishResponse, Received
    <3>2. r = Final(motion, r.status)
      BY <3>1 DEF Response, Final
    <3>3. r \in responses \/ (1 \in DOMAIN tcp /\ r = tcp[1])
      BY TailElements DEF PolledResponses, Stored, TypeOK
    <3>4. r # Final(motion, "started")
      BY <3>1, <3>3 DEF StreamInv, StartedOnce
    <3>5. Final(motion, "success") \in ended
      BY <2>3, <3>2, <3>3, <3>4 DEF SuccessIsEnd
    <3>6. \A o \in outcome' : o \in outcome \/ o.id = motion
      BY <2>1, <2>3 DEF Report
    <3>. QED  BY <1>1, <3>5, <3>6 DEF FinishedMeansSuccess
  <2>. QED  BY <2>2, <2>3
<1>6. CASE ControlStep /\ ~FinishResponse
  <2>1. CASE MotionStarted \/ MotionError
    BY <1>2, <1>3, <2>1, ReportNoneFinished DEF MotionStarted, MotionError
  <2>2. CASE AwaitModes
    BY <1>2, <1>3, <2>2, ReportNoneFinished DEF AwaitModes
  <2>3. CASE LoopStart \/ WaitBroken
    BY <1>2, <1>3, <2>3, ReportNoneFinished DEF LoopStart, WaitBroken
  <2>4. CASE FinishCheck
    BY <1>2, <1>3, <2>4, SendCommandNoneFinished DEF FinishCheck
  <2>5. CASE CheckState \/ CancelFailed \/ CancelAnswered \/ DrainCheck \/ Recovered
    BY <1>3, <2>5 DEF CheckState, CancelFailed, CancelAnswered, DrainCheck, Recovered
  <2>. QED  BY <1>6, <2>1, <2>2, <2>3, <2>4, <2>5 DEF ControlStep
<1>7. CASE ControlCall /\ ~Finish
  <2>1. CASE StartRefused \/ Abandon
    BY <1>2, <2>1, ReportNoneFinished DEF StartRefused, Abandon
  <2>2. CASE WriteOnce \/ LoopUpdate
    BY <1>2, <2>2, SendCommandNoneFinished DEF WriteOnce, LoopUpdate
  <2>3. CASE ReadIdle \/ Recover \/ ReadOnce \/ \E k \in Kinds, a \in Apis : Start(k, a)
    BY <1>3, <2>3 DEF ReadIdle, Recover, ReadOnce, Start
  <2>. QED  BY <1>7, <2>1, <2>2, <2>3 DEF ControlCall
<1>8. CASE ReadSocket \/ OtherThreads
  BY <1>3, <1>8 DEF ReadSocket, OtherThreads, StopCall, StopReturns, MonitorRead
<1>9. CASE \E t \in Receivers : Receive(t)
  <2>1. CASE \E t \in Receivers : ReceiveTimeout(t)
    BY <1>2, <1>3, <2>1, ReportNoneFinished DEF ReceiveTimeout
  <2>2. CASE \E t \in Receivers, m \in DOMAIN published : AcceptState(t, m)
    BY <1>3, <2>2 DEF AcceptState
  <2>. QED  BY <1>9, <2>1, <2>2 DEF Receive
<1>10. CASE RobotStep
  BY <1>3, <1>10 DEF RobotStep, clientVars
<1>11. CASE UNCHANGED vars
  BY <1>3, <1>11 DEF vars
<1>. QED
  BY <1>4, <1>5, <1>6, <1>7, <1>8, <1>9, <1>10, <1>11, RobotStepIsRobot DEF Next

LEMMA SessionInvInit == Init => SessionInv
<1>. SUFFICES ASSUME Init PROVE SessionInv
  OBVIOUS
<1>1. IdsAreOld /\ StreamInv
  BY DEF Init, IdsAreOld, StreamInv, OneStored, MotionIsMove, NoTraceYet, StartedFirst, StartedOnce
<1>2. SuccessIsEnd /\ NoCommandYet
  BY DEF Init, SuccessIsEnd, NoCommandYet
<1>3. MotionDriven
  BY DEF Init, MotionDriven, MotionPcs, Receivers
<1>. QED  BY <1>1, <1>2, <1>3 DEF SessionInv

LEMMA SessionInvStep ==
  ASSUME TypeOK, SessionInv, [Next]_vars  PROVE SessionInv'
<1>1. ConstantsAssumption
  BY ConstantsAssumption
<1>. QED
  BY <1>1, IdsStep, StreamStep, SuccessStep, NoCommandStep, MotionDrivenStep DEF SessionInv

(* A motion that the client reports as finished was ended successfully by  *)
(* the robot, for any kinds of motion, any number of commands and states,  *)
(* with Robot::stop() called at any time and the connection lost at any    *)
(* time, provided that no other thread calls Robot::readOnce().            *)
THEOREM FinishedIsSuccess ==
  ASSUME Monitors = {}
  PROVE  Spec => []FinishedMeansSuccess
<1>1. Init => FinishInv
  BY SessionInvInit DEF FinishInv, Init, ActiveIsRunning, FinishedMeansSuccess
<1>2. TypeOK /\ FinishInv /\ [Next]_vars => FinishInv'
  BY ConstantsAssumption, SessionInvStep, ActiveIsRunningStep, FinishedStep DEF FinishInv
<1>3. FinishInv => FinishedMeansSuccess
  BY DEF FinishInv
<1>. QED  BY <1>1, <1>2, <1>3, TypeCorrect, PTL DEF Spec

---------------------------------------------------------------------------
(* What keeps the robot from being left moving.                            *)

(* The only Move request on its way is that of the current motion.         *)
MoveIsOwn ==
  conn = "up" =>
    \A i \in DOMAIN requests : requests[i].cmd = "move" => requests[i].id = motion

(* What moves is the motion that the control thread holds the mutex for,   *)
(* and nothing has been said about its end.                                *)
MovingIsOwn ==
  conn = "up" /\ Moving =>
    /\ srv.id = motion /\ pc \in MotionPcs \ {"draining", "drainCheck"}
    /\ \A r \in responses \cup ended : r.id = motion => r.status = "started"
    /\ \A i \in DOMAIN tcp : tcp[i].id = motion => tcp[i].status = "started"

ViewAtRest == pc \in {"awaitStarted", "awaitFinish"} => ~Running(view)

StopPending ==
  /\ \A r \in responses : r.id # callId
  /\ \A i \in DOMAIN tcp : tcp[i].id # callId
  /\ \E i \in DOMAIN requests : requests[i].id = callId

(* The StopMove of cancelMotion halts the motion before it is answered.    *)
StopIsServed ==
  pc = "awaitStop" /\ conn # "broken" =>
    /\ callId < nextId /\ srv.id # callId
    /\ \A i \in DOMAIN requests : requests[i].id = callId => requests[i].cmd = "stop"
    /\ \A r \in ended : r.id # callId
    /\ conn = "up" /\ Moving => StopPending
    /\ ~RejectsStop =>
         /\ \A r \in responses : r.id = callId => r.status = "success"
         /\ \A i \in DOMAIN tcp : tcp[i].id = callId => tcp[i].status = "success"

RestInv == MoveIsOwn /\ MovingIsOwn /\ ViewAtRest /\ StopIsServed

(* A Move request on its way is one that awaits its first response.        *)
LEMMA MoveAwaitsStart ==
  ASSUME SessionInv, MoveIsOwn, conn = "up",
         NEW i \in DOMAIN requests, requests[i].cmd = "move"
  PROVE  /\ pc = "awaitStarted" /\ requests[i].id = motion
         /\ srv.id # motion /\ \A r \in responses \cup ended : r.id # motion
         /\ \A j \in DOMAIN tcp : tcp[j].id # motion
BY DEF SessionInv, StreamInv, StartedOnce, NoTraceYet, MoveIsOwn

LEMMA MoveIsOwnStep ==
  ASSUME ConstantsAssumption, TypeOK, SessionInv, MoveIsOwn, [Next]_vars
  PROVE  MoveIsOwn'
<1>0. requests \in Seq(Request)
  BY DEF TypeOK
<1>1. CASE \E k \in Kinds, a \in Apis : Start(k, a)
  <2>1. PICK k \in AllKinds, a \in AllApis : Start(k, a)
    BY <1>1 DEF ConstantsAssumption
  <2>2. pc = "idle" /\ motion' = nextId /\ SendRequest("move", k) /\ (conn' = "up" => conn = "up")
    BY <2>1 DEF Start, SendRequest
  <2>3. \A i \in DOMAIN requests' :
          (i \in DOMAIN requests /\ requests'[i] = requests[i]) \/ requests'[i].id = nextId
    BY <2>2, SendElements
  <2>. QED  BY <2>2, <2>3, MoveAwaitsStart DEF MoveIsOwn
<1>2. CASE ClientStep
  <2>1. UNCHANGED motion
    BY <1>2 DEF ClientStep
  <2>2. CASE Polls \/ Breaks
    BY <2>1, <2>2 DEF Polls, Breaks, MoveIsOwn
  <2>3. CASE Sends
    <3>1. PICK cmd \in {"stop", "recover"} : SendRequest(cmd, kind)
      BY <2>3 DEF Sends
    <3>2. \A i \in DOMAIN requests' :
            (i \in DOMAIN requests /\ requests'[i] = requests[i]) \/ requests'[i].cmd = cmd
      BY <3>1, SendElements DEF TypeOK
    <3>3. conn' = "up" => conn = "up"
      BY <3>1 DEF SendRequest
    <3>. QED  BY <2>1, <3>2, <3>3 DEF MoveIsOwn
  <2>. QED  BY <1>2, <2>2, <2>3 DEF ClientStep
<1>3. CASE RobotStep
  <2>1. UNCHANGED motion /\ (conn' = "up" => conn = "up")
    BY <1>3 DEF RobotStep, clientVars, ctlVars
  <2>2. requests' \in {requests, <<>>} \/ (requests # <<>> /\ requests' = Tail(requests))
    BY <1>3 DEF RobotStep
  <2>3. CASE requests # <<>> /\ requests' = Tail(requests)
    BY <1>0, <2>1, <2>3, TailElements DEF MoveIsOwn
  <2>. QED  BY <2>1, <2>2, <2>3 DEF MoveIsOwn
<1>4. CASE UNCHANGED vars
  BY <1>4 DEF vars, tcpVars, ctlVars, MoveIsOwn
<1>. QED
  BY <1>1, <1>2, <1>3, <1>4, ControlStepIsClient, OtherClientSteps, RobotStepIsRobot
     DEF Next, SessionInv

LEMMA ViewAtRestStep ==
  ASSUME ConstantsAssumption, Monitors = {}, TypeOK, SessionInv, ViewAtRest, [Next]_vars
  PROVE  ViewAtRest'
<1>. USE DEF ViewAtRest, Receivers, viewVars, ctlVars, Running, MotionGeneratorRunning,
             ControllerRunning
<1>1. CASE ControlStep
  <2>1. CASE MotionStarted \/ LoopStart \/ CheckState \/ MotionError \/ FinishResponse
    BY <2>1 DEF MotionStarted, LoopStart, CheckState, MotionError, FinishResponse
  <2>2. CASE AwaitModes
    BY <2>2 DEF AwaitModes, StartReturned
  <2>3. CASE FinishCheck
    BY <2>3 DEF FinishCheck, SendCommand
  <2>4. CASE CancelFailed \/ CancelAnswered
    BY <2>4 DEF CancelFailed, CancelAnswered, CancelMotion, AfterFailedCancel
  <2>5. CASE DrainCheck \/ Recovered
    BY <2>5 DEF DrainCheck, AfterFailedCancel, Recovered
  <2>6. CASE WaitBroken
    BY <2>6 DEF WaitBroken, AfterFailedCancel
  <2>. QED  BY <1>1, <2>1, <2>2, <2>3, <2>4, <2>5, <2>6 DEF ControlStep
<1>2. CASE ControlCall
  <2>1. CASE StartRefused \/ ReadIdle \/ Recover \/ ReadOnce
    BY <2>1 DEF StartRefused, ReadIdle, Recover, ReadOnce
  <2>2. CASE WriteOnce \/ LoopUpdate
    BY <2>2 DEF WriteOnce, LoopUpdate, SendCommand
  <2>3. CASE Finish
    BY <2>3 DEF Finish, SendCommand
  <2>4. CASE Abandon
    BY <2>4 DEF Abandon, CancelMotion
  <2>5. CASE \E k \in Kinds, a \in Apis : Start(k, a)
    BY <2>5 DEF Start
  <2>. QED  BY <1>2, <2>1, <2>2, <2>3, <2>4, <2>5 DEF ControlCall
<1>3. CASE ReadSocket \/ StopCall \/ StopReturns
  BY <1>3 DEF ReadSocket, StopCall, StopReturns
<1>4. CASE ReceiveTimeout("ctl")
  BY <1>4 DEF ReceiveTimeout, AfterFailedCancel
<1>5. CASE \E m \in DOMAIN published : AcceptState("ctl", m)
  BY <1>5 DEF AcceptState, AfterReceive
<1>6. CASE RobotStep
  BY <1>6 DEF RobotStep, clientVars
<1>7. CASE UNCHANGED vars
  BY <1>7 DEF vars
<1>. QED
  BY <1>1, <1>2, <1>3, <1>4, <1>5, <1>6, <1>7, RobotStepIsRobot DEF Next, Receive, OtherThreads

(* While it moves, whatever the control thread does it holds the mutex.    *)
LEMMA StaysUnderMutex ==
  ASSUME Monitors = {}, TypeOK, SessionInv, ActiveIsRunning, RestInv, conn = "up", Moving,
         conn' = "up",
         \/ ControlStep \/ ControlCall \/ ReadSocket \/ OtherThreads
         \/ \E t \in Receivers : Receive(t)
  PROVE  pc' \in MotionPcs \ {"draining", "drainCheck"}
<1>1. /\ pc \in MotionPcs \ {"draining", "drainCheck"}
      /\ \A r \in PolledResponses \cup responses : r.id = motion => r.status = "started"
  <2>1. tcp # <<>> => Head(tcp) = tcp[1] /\ 1 \in DOMAIN tcp
    BY TailElements DEF TypeOK
  <2>. QED  BY <2>1 DEF RestInv, MovingIsOwn, PolledResponses, Stored
<1>2. pc # "awaitStarted" => \A r \in PolledResponses : r.id # motion
  <2>. SUFFICES ASSUME pc # "awaitStarted", NEW r \in PolledResponses, r.id = motion
                PROVE  FALSE
    OBVIOUS
  <2>1. r = Final(motion, "started")
    BY <1>1, PolledType DEF Response, Final
  <2>2. r \in responses \/ (1 \in DOMAIN tcp /\ r = tcp[1])
    BY TailElements DEF PolledResponses, Stored, TypeOK
  <2>. QED  BY <2>1, <2>2 DEF SessionInv, StreamInv, StartedOnce
<1>3. pc = "awaitStop" => \A r \in PolledResponses : r.id # callId
  <2>1. tcp # <<>> => Head(tcp) = tcp[1] /\ 1 \in DOMAIN tcp
    BY TailElements DEF TypeOK
  <2>. QED  BY <2>1 DEF RestInv, StopIsServed, StopPending, PolledResponses, Stored
<1>. HIDE DEF RestInv
<1>. USE <1>1 DEF MotionPcs
<1>4. CASE MotionStarted
  <2>1. ~MotionGeneratorRunning(view)
    BY <1>4 DEF MotionStarted, RestInv, ViewAtRest, Running
  <2>. QED  BY <1>4, <2>1 DEF MotionStarted, Received
<1>5. CASE AwaitModes
  <2>1. pc = "starting"
    BY <1>5 DEF AwaitModes
  <2>2. \A r \in PolledResponses : r.id # motion
    BY <1>2, <2>1
  <2>3. pc' \in {StartReturned, "startRecv"}
    BY <1>5, <2>2 DEF AwaitModes, ConnectionClosed
  <2>. QED  BY <2>3 DEF StartReturned
<1>6. CASE LoopStart \/ CheckState \/ MotionError
  BY <1>6 DEF LoopStart, CheckState, MotionError
<1>7. CASE FinishCheck
  BY <1>7 DEF FinishCheck, SendCommand
<1>8. CASE FinishResponse
  BY <1>2, <1>8 DEF FinishResponse, Received
<1>9. CASE CancelFailed
  BY <1>9 DEF CancelFailed, CancelMotion
<1>10. CASE CancelAnswered
  BY <1>3, <1>10 DEF CancelAnswered, Received
<1>11. CASE DrainCheck \/ WaitBroken \/ Recovered
  BY <1>11 DEF DrainCheck, WaitBroken, Recovered
<1>12. CASE ControlCall
  <2>1. CASE \/ StartRefused \/ ReadIdle \/ Recover \/ ReadOnce
             \/ \E k \in Kinds, a \in Apis : Start(k, a)
    BY <2>1 DEF StartRefused, ReadIdle, Recover, ReadOnce, Start
  <2>2. CASE WriteOnce \/ LoopUpdate
    BY <2>2 DEF WriteOnce, LoopUpdate, SendCommand
  <2>3. CASE Finish
    <3>1. Running(view)
      BY <2>3 DEF Finish, SessionInv, MotionDriven, ActiveIsRunning
    <3>. QED  BY <2>3, <3>1 DEF Finish, SendCommand
  <2>4. CASE Abandon
    BY <2>4 DEF Abandon, CancelMotion
  <2>. QED  BY <1>12, <2>1, <2>2, <2>3, <2>4 DEF ControlCall
<1>13. CASE ReadSocket \/ OtherThreads
  BY <1>13 DEF ReadSocket, OtherThreads, StopCall, StopReturns, MonitorRead, ctlVars
<1>14. CASE \E m \in DOMAIN published : AcceptState("ctl", m)
  <2>1. pc \in UdpWaits /\ pc' = AfterReceive
    BY <1>14 DEF AcceptState, SessionInv, MotionDriven
  <2>. QED  BY <2>1 DEF AfterReceive, UdpWaits
<1>15. ~ReceiveTimeout("ctl")
  BY DEF ReceiveTimeout
<1>. QED
  BY <1>4, <1>5, <1>6, <1>7, <1>8, <1>9, <1>10, <1>11, <1>12, <1>13, <1>14, <1>15
     DEF ControlStep, Receive, Receivers

LEMMA MovingIsOwnStep ==
  ASSUME ConstantsAssumption, Monitors = {}, TypeOK, SessionInv, ActiveIsRunning, RestInv,
         [Next]_vars
  PROVE  MovingIsOwn'
<1>. SUFFICES ASSUME conn' = "up", Moving'
              PROVE  /\ srv'.id = motion' /\ pc' \in MotionPcs \ {"draining", "drainCheck"}
                     /\ \A r \in responses' \cup ended' : r.id = motion' => r.status = "started"
                     /\ \A i \in DOMAIN tcp' : tcp'[i].id = motion' => tcp'[i].status = "started"
  BY DEF MovingIsOwn
<1>0. tcp \in Seq(Response) /\ requests \in Seq(Request)
  BY DEF TypeOK
<1>1. conn = "up" /\ Moving =>
        /\ srv.id = motion /\ pc \in MotionPcs \ {"draining", "drainCheck"}
        /\ \A r \in responses \cup ended : r.id = motion => r.status = "started"
        /\ \A i \in DOMAIN tcp : tcp[i].id = motion => tcp[i].status = "started"
  BY DEF RestInv, MovingIsOwn
<1>2. requests # <<>> => Head(requests) = requests[1] /\ 1 \in DOMAIN requests
  BY <1>0, TailElements
<1>3. CASE \E k \in Kinds, a \in Apis : Start(k, a)
  BY <1>1, <1>3 DEF Start, SendRequest, srvVars, Moving, MotionPcs
<1>4. CASE /\ ClientStep
           /\ \/ ControlStep \/ ControlCall \/ ReadSocket \/ OtherThreads
              \/ \E t \in Receivers : Receive(t)
  <2>1. UNCHANGED <<srv, ended, motion>>
    BY <1>4 DEF ClientStep, srvVars
  <2>2. conn = "up"
    BY <1>4 DEF ClientStep, Polls, Sends, SendRequest, Breaks
  <2>3. Moving
    BY <2>1 DEF Moving
  <2>4. pc' \in MotionPcs \ {"draining", "drainCheck"}
    BY <1>4, <2>2, <2>3, StaysUnderMutex
  <2>5. /\ \A i \in DOMAIN tcp' : \E j \in DOMAIN tcp : tcp'[i] = tcp[j]
        /\ \A r \in responses' : r \in responses \/ \E j \in DOMAIN tcp : r = tcp[j]
    <3>1. CASE Polls
      BY <3>1, PollElements
    <3>2. CASE Sends \/ Breaks
      BY <3>2 DEF Sends, Breaks
    <3>. QED  BY <1>4, <3>1, <3>2 DEF ClientStep
  <2>. QED  BY <1>1, <2>1, <2>2, <2>3, <2>4, <2>5
<1>5. CASE RobotServes \/ RobotMoves \/ RobotFails
  <2>1. UNCHANGED <<motion, pc, responses>>
    BY <1>5, RobotStepIsRobot DEF RobotStep, clientVars, ctlVars
  <2>2. conn = "up"
    BY <1>5, RobotStepIsRobot DEF RobotStep
  <2>3. CASE ServeMove
    <3>1. /\ requests # <<>> /\ requests[1].cmd = "move" /\ UNCHANGED ended
          /\ \/ /\ srv'.id = requests[1].id
                /\ tcp' = Append(tcp, Final(requests[1].id, "started"))
             \/ /\ tcp' = Append(tcp, Final(requests[1].id, "rejected"))
                /\ UNCHANGED srv
      BY <1>2, <2>3 DEF ServeMove
    <3>2. /\ pc = "awaitStarted" /\ requests[1].id = motion /\ srv.id # motion
          /\ \A r \in responses \cup ended : r.id # motion
          /\ \A j \in DOMAIN tcp : tcp[j].id # motion
      BY <1>2, <2>2, <3>1, MoveAwaitsStart DEF RestInv
    <3>3. srv'.id = motion /\ tcp' = Append(tcp, Final(motion, "started"))
      BY <1>1, <2>2, <3>1, <3>2 DEF Moving
    <3>4. Final(motion, "started") \in Response /\ Final(motion, "started").status = "started"
      BY DEF Final, Response, Statuses, TypeOK
    <3>. QED  BY <1>0, <2>1, <3>1, <3>2, <3>3, <3>4, AppendElements DEF MotionPcs
  <2>4. CASE ServeRecover
    <3>1. /\ requests # <<>> /\ requests[1].cmd = "recover" /\ UNCHANGED ended
          /\ srv.phase = "idle" => srv'.phase = "idle"
          /\ srv.phase # "idle" => /\ tcp' = Append(tcp, Final(requests[1].id, "rejected"))
                                   /\ UNCHANGED srv
      BY <1>2, <2>4 DEF ServeRecover, TypeOK
    <3>2. UNCHANGED srv /\ Moving /\ tcp' = Append(tcp, Final(requests[1].id, "rejected"))
      BY <3>1 DEF Moving
    <3>3. requests[1].id # motion /\ requests[1].id \in Nat
      BY <1>2, <3>1, IdTypes DEF SessionInv, StreamInv, MotionIsMove
    <3>4. Final(requests[1].id, "rejected") \in Response /\ Final(requests[1].id, "rejected").id # motion
      BY <3>3 DEF Final, Response, Statuses
    <3>. QED  BY <1>0, <1>1, <2>1, <2>2, <3>1, <3>2, <3>4, AppendElements
  <2>5. CASE SendFinal
    <3>1. PICK o \in owed : tcp' = Append(tcp, o)
      BY <2>5 DEF SendFinal
    <3>2. UNCHANGED <<srv, ended>> /\ Moving
      BY <2>5 DEF SendFinal, Moving
    <3>3. o \in Response /\ o \in ended /\ o.id # motion
      BY <1>1, <2>2, <3>2 DEF SessionInv, SuccessIsEnd, TypeOK
    <3>. QED  BY <1>0, <1>1, <2>1, <2>2, <3>1, <3>2, <3>3, AppendElements
  <2>6. CASE MotionRuns \/ Publish
    BY <1>1, <2>1, <2>2, <2>6 DEF MotionRuns, Publish, Moving, TypeOK
  <2>7. ~(ServeStop \/ MotionFinishes \/ MotionStops \/ Reflex \/ LostClient)
    <3>1. ~ServeStop
      BY DEF ServeStop, EndMotion, Moving, TypeOK
    <3>2. ~MotionFinishes /\ ~Reflex /\ ~LostClient
      BY DEF MotionFinishes, Reflex, LostClient, EndMotion, Moving, TypeOK
    <3>3. ~MotionStops
      BY DEF MotionStops, Moving, TypeOK
    <3>. QED  BY <3>1, <3>2, <3>3
  <2>8. ~CloseConnection
    BY DEF CloseConnection
  <2>. QED
    BY <1>5, <2>3, <2>4, <2>5, <2>6, <2>7, <2>8 DEF RobotServes, RobotMoves, RobotFails
<1>6. CASE UNCHANGED vars
  BY <1>1, <1>6 DEF vars, tcpVars, ctlVars, srvVars, Moving
<1>. QED
  BY <1>3, <1>4, <1>5, <1>6, ControlStepIsClient, OtherClientSteps DEF Next, SessionInv

(* cancelMotion sends its StopMove with an ID that nothing bears yet.      *)
LEMMA StopIsNew ==
  ASSUME TypeOK, SessionInv, CancelMotion, pc' = "awaitStop", conn' # "broken",
         UNCHANGED <<srv, ended>>
  PROVE  StopIsServed'
<1>1. SendRequest("stop", kind) /\ callId' = nextId /\ UNCHANGED <<tcp, responses>>
  BY DEF CancelMotion
<1>2. /\ nextId \in Nat /\ nextId' = nextId + 1
      /\ \A i \in DOMAIN requests' :
           \/ i \in DOMAIN requests /\ requests'[i] = requests[i]
           \/ requests'[i].id = nextId /\ requests'[i].cmd = "stop"
  BY <1>1, SendElements DEF TypeOK
<1>3. /\ srv.id # nextId
      /\ \A i \in DOMAIN requests : requests[i].id # nextId
      /\ \A i \in DOMAIN tcp : tcp[i].id # nextId
      /\ \A r \in responses \cup ended : r.id # nextId
  BY IdTypes DEF SessionInv, IdsAreOld
<1>4. \E i \in DOMAIN requests' : requests'[i].id = nextId
  <2>1. /\ requests \in Seq(Request) /\ [cmd |-> "stop", id |-> nextId, kind |-> kind] \in Request
        /\ requests' = Append(requests, [cmd |-> "stop", id |-> nextId, kind |-> kind])
    BY <1>1 DEF SendRequest, TypeOK, Request
  <2>. QED  BY <2>1, AppendElements
<1>. QED  BY <1>1, <1>2, <1>3, <1>4 DEF StopIsServed, StopPending

LEMMA StopIsServedPoll ==
  ASSUME TypeOK, StopIsServed, ClientStep, pc = "awaitStop", pc' = "awaitStop",
         callId' = callId, conn' # "broken"
  PROVE  StopIsServed'
<1>1. UNCHANGED <<srv, ended>> /\ (Moving' <=> Moving)
  BY DEF ClientStep, srvVars, Moving
<1>2. CASE Polls
  <2>1. UNCHANGED <<conn, requests, nextId>>
    BY <1>2 DEF Polls
  <2>. QED  BY <1>1, <1>2, <2>1, PollElements DEF StopIsServed, StopPending
<1>3. CASE Sends
  <2>1. PICK cmd \in {"stop", "recover"} :
          SendRequest(cmd, kind) /\ UNCHANGED <<tcp, responses>>
    BY <1>3 DEF Sends
  <2>2. conn = "up" /\ conn' = "up" /\ nextId \in Nat /\ nextId' = nextId + 1
    BY <2>1 DEF SendRequest, TypeOK
  <2>3. \A i \in DOMAIN requests' :
          (i \in DOMAIN requests /\ requests'[i] = requests[i]) \/ requests'[i].id = nextId
    BY <2>1, SendElements DEF TypeOK
  <2>4. \A i \in DOMAIN requests : i \in DOMAIN requests' /\ requests'[i] = requests[i]
    <3>1. /\ requests \in Seq(Request) /\ [cmd |-> cmd, id |-> nextId, kind |-> kind] \in Request
          /\ requests' = Append(requests, [cmd |-> cmd, id |-> nextId, kind |-> kind])
      BY <2>1, <2>2 DEF SendRequest, TypeOK, Request
    <3>. QED  BY <3>1, AppendElements
  <2>5. /\ callId \in Nat /\ callId < nextId
        /\ \A i \in DOMAIN requests : requests[i].id = callId => requests[i].cmd = "stop"
    BY <2>2 DEF StopIsServed, TypeOK
  <2>6. \A i \in DOMAIN requests' : requests'[i].id = callId => requests'[i].cmd = "stop"
    BY <2>2, <2>3, <2>5
  <2>7. Moving => StopPending /\ StopPending'
    BY <2>1, <2>2, <2>4 DEF StopIsServed, StopPending
  <2>. QED  BY <1>1, <2>1, <2>2, <2>5, <2>6, <2>7 DEF StopIsServed
<1>. QED  BY <1>2, <1>3 DEF ClientStep, Breaks

LEMMA StopIsServedRobot ==
  ASSUME TypeOK, SessionInv, RestInv, RobotServes \/ RobotMoves \/ RobotFails,
         pc = "awaitStop", conn' # "broken"
  PROVE  StopIsServed'
<1>0. /\ tcp \in Seq(Response) /\ requests \in Seq(Request)
      /\ UNCHANGED <<pc, callId, nextId, responses>> /\ conn # "broken"
      /\ conn' = "up" => conn = "up"
  BY RobotStepIsRobot DEF TypeOK, RobotStep, clientVars, ctlVars
<1>1. /\ callId < nextId /\ srv.id # callId
      /\ \A i \in DOMAIN requests : requests[i].id = callId => requests[i].cmd = "stop"
      /\ \A r \in ended : r.id # callId
      /\ conn = "up" /\ Moving => StopPending
      /\ ~RejectsStop =>
           /\ \A r \in responses : r.id = callId => r.status = "success"
           /\ \A i \in DOMAIN tcp : tcp[i].id = callId => tcp[i].status = "success"
  BY <1>0 DEF RestInv, StopIsServed
<1>2. requests # <<>> =>
        /\ Head(requests) = requests[1] /\ 1 \in DOMAIN requests /\ requests[1].id \in Nat
        /\ \A i \in DOMAIN Tail(requests) :
             i + 1 \in DOMAIN requests /\ Tail(requests)[i] = requests[i + 1]
        /\ \A i \in DOMAIN requests : i # 1 => i - 1 \in DOMAIN Tail(requests)
                                               /\ Tail(requests)[i - 1] = requests[i]
  BY <1>0, IdTypes, TailElements
<1>3. ~ServeMove
  BY <1>0, <1>2, MoveAwaitsStart DEF ServeMove, RestInv
<1>4. \A n \in Nat, s \in Statuses : /\ Final(n, s) \in Response
                                    /\ Final(n, s).id = n /\ Final(n, s).status = s
  BY DEF Final, Response
<1>5. /\ srv'.id # callId /\ \A r \in ended' : r.id # callId
  <2>1. srv'.id = srv.id
    BY <1>3 DEF RobotServes, RobotMoves, RobotFails, ServeStop, ServeRecover, SendFinal, MotionRuns,
        MotionFinishes, MotionStops, Publish, Reflex, CloseConnection, LostClient, EndMotion,
        srvVars, TypeOK
  <2>2. \A r \in ended' : r \in ended \/ r.id = srv.id
    BY RobotStepIsRobot DEF RobotStep, Final
  <2>. QED  BY <1>1, <2>1, <2>2
<1>6. CASE ServeStop
  <2>1. PICK s \in Statuses : /\ tcp' = Append(tcp, Final(requests[1].id, s))
                              /\ ~RejectsStop => s = "success"
    BY <1>2, <1>6 DEF ServeStop, Statuses
  <2>2. requests # <<>> /\ requests' = Tail(requests) /\ ~Moving'
    BY <1>6 DEF ServeStop, EndMotion, Moving, TypeOK
  <2>3. \A i \in DOMAIN tcp' : \/ i \in DOMAIN tcp /\ tcp'[i] = tcp[i]
                              \/ tcp'[i].status = s
    BY <1>0, <1>2, <1>4, <2>1, <2>2, AppendElements
  <2>. QED  BY <1>0, <1>1, <1>2, <1>5, <2>1, <2>2, <2>3 DEF StopIsServed
<1>7. CASE ServeRecover
  <2>1. PICK s \in Statuses : tcp' = Append(tcp, Final(requests[1].id, s))
    BY <1>2, <1>7 DEF ServeRecover, Statuses
  <2>2. /\ requests # <<>> /\ requests' = Tail(requests) /\ requests[1].cmd = "recover"
        /\ conn = "up" /\ (Moving' => Moving)
    BY <1>2, <1>7 DEF ServeRecover, Moving, TypeOK
  <2>3. requests[1].id # callId
    BY <1>1, <1>2, <2>2
  <2>4. \A i \in DOMAIN tcp' : \/ i \in DOMAIN tcp /\ tcp'[i] = tcp[i]
                              \/ tcp'[i].id # callId
    BY <1>0, <1>2, <1>4, <2>1, <2>2, <2>3, AppendElements
  <2>5. Moving' => StopPending'
    <3>1. SUFFICES ASSUME Moving'  PROVE StopPending'
      OBVIOUS
    <3>2. StopPending
      BY <1>1, <2>2, <3>1
    <3>3. PICK i \in DOMAIN requests : requests[i].id = callId
      BY <3>2 DEF StopPending
    <3>4. i - 1 \in DOMAIN requests' /\ requests'[i - 1].id = callId
      BY <1>2, <2>2, <2>3, <3>3
    <3>. QED  BY <1>0, <2>4, <3>2, <3>4 DEF StopPending
  <2>. QED  BY <1>0, <1>1, <1>2, <1>5, <2>2, <2>4, <2>5 DEF StopIsServed
<1>8. CASE SendFinal
  <2>1. PICK o \in owed : tcp' = Append(tcp, o)
    BY <1>8 DEF SendFinal
  <2>2. UNCHANGED <<conn, requests, srv>> /\ (Moving' <=> Moving)
    BY <1>8 DEF SendFinal, Moving
  <2>3. o \in Response /\ o.id # callId
    BY <1>1 DEF SessionInv, SuccessIsEnd, TypeOK
  <2>4. \A i \in DOMAIN tcp' : \/ i \in DOMAIN tcp /\ tcp'[i] = tcp[i]
                              \/ tcp'[i].id # callId
    BY <1>0, <2>1, <2>3, AppendElements
  <2>. QED  BY <1>0, <1>1, <1>5, <2>2, <2>4 DEF StopIsServed, StopPending
<1>9. CASE RobotMoves \/ Reflex \/ LostClient
  <2>1. UNCHANGED <<conn, requests, tcp>>
    BY <1>9 DEF RobotMoves, MotionRuns, MotionFinishes, MotionStops, Publish, Reflex, LostClient
  <2>2. Moving' => Moving
    BY <1>9 DEF RobotMoves, MotionRuns, MotionFinishes, MotionStops, Publish, Reflex, LostClient,
        EndMotion, Moving, TypeOK
  <2>. QED  BY <1>0, <1>1, <1>5, <2>1, <2>2 DEF StopIsServed, StopPending
<1>10. CASE CloseConnection
  <2>1. tcp' = tcp /\ requests' = <<>> /\ conn' # "up"
    BY <1>10 DEF CloseConnection
  <2>. QED  BY <1>0, <1>1, <1>5, <2>1 DEF StopIsServed
<1>. QED
  BY <1>3, <1>6, <1>7, <1>8, <1>9, <1>10 DEF RobotServes, RobotFails

LEMMA StopIsServedStep ==
  ASSUME ConstantsAssumption, TypeOK, SessionInv, RestInv, [Next]_vars
  PROVE  StopIsServed'
<1>. SUFFICES ASSUME pc' = "awaitStop", conn' # "broken"  PROVE StopIsServed'
  BY DEF StopIsServed
<1>. USE DEF ctlVars, srvVars
<1>1. CASE CancelFailed \/ Abandon
  BY <1>1, StopIsNew DEF CancelFailed, Abandon
<1>2. CASE ReadSocket \/ OtherThreads \/ (\E t \in Monitors : Receive(t))
  <2>1. UNCHANGED <<pc, callId>>
    BY <1>2 DEF ReadSocket, OtherThreads, StopCall, StopReturns, MonitorRead, Receive,
        ReceiveTimeout, AcceptState, ConstantsAssumption
  <2>2. ClientStep
    BY <1>2, OtherClientSteps DEF SessionInv, Receivers
  <2>. QED  BY <2>1, <2>2, StopIsServedPoll DEF RestInv
<1>3. ~Receive("ctl")
  BY DEF Receive, ReceiveTimeout, AcceptState, AfterReceive
<1>4. CASE ControlStep /\ ~CancelFailed
  <2>1. ~(MotionStarted \/ LoopStart \/ CheckState \/ MotionError \/ FinishResponse)
    BY DEF MotionStarted, LoopStart, CheckState, MotionError, FinishResponse
  <2>2. ~AwaitModes
    BY DEF AwaitModes, StartReturned
  <2>3. ~FinishCheck
    BY DEF FinishCheck, SendCommand
  <2>4. ~(CancelAnswered \/ DrainCheck \/ Recovered)
    BY DEF CancelAnswered, DrainCheck, Recovered, AfterFailedCancel
  <2>5. ~WaitBroken
    BY DEF WaitBroken, AfterFailedCancel
  <2>. QED  BY <1>4, <2>1, <2>2, <2>3, <2>4, <2>5 DEF ControlStep
<1>5. CASE ControlCall /\ ~Abandon
  <2>1. /\ ~(StartRefused \/ ReadIdle \/ Recover \/ ReadOnce)
        /\ ~\E k \in Kinds, a \in Apis : Start(k, a)
    BY DEF StartRefused, ReadIdle, Recover, ReadOnce, Start
  <2>2. ~(WriteOnce \/ LoopUpdate \/ Finish)
    BY DEF WriteOnce, LoopUpdate, Finish, SendCommand
  <2>. QED  BY <1>5, <2>1, <2>2 DEF ControlCall
<1>6. CASE RobotServes \/ RobotMoves \/ RobotFails
  <2>1. pc = "awaitStop"
    BY <1>6, RobotStepIsRobot DEF RobotStep, clientVars
  <2>. QED  BY <1>6, <2>1, StopIsServedRobot
<1>7. CASE UNCHANGED vars
  BY <1>7 DEF vars, tcpVars, RestInv, StopIsServed, StopPending, Moving
<1>. QED
  BY <1>1, <1>2, <1>3, <1>4, <1>5, <1>6, <1>7 DEF Next, Receivers

LEMMA RestInvInit == Init => RestInv
BY DEF Init, RestInv, MoveIsOwn, MovingIsOwn, ViewAtRest, StopIsServed, Moving

(* With one receiving thread the robot is left moving by no way out of a   *)
(* motion on a connection that is up: neither by a start that failed, nor  *)
(* by finishMotion, nor by cancelMotion, whether the robot accepts its     *)
(* StopMove or not, and with Robot::stop() called at any time.             *)
THEOREM RobotLeftAtRest ==
  ASSUME Monitors = {}
  PROVE  Spec => []RobotNotLeftMoving
<1> DEFINE Inv == FinishInv /\ RestInv
<1>1. Init => Inv
  BY RestInvInit, SessionInvInit DEF FinishInv, Init, ActiveIsRunning, FinishedMeansSuccess
<1>2. TypeOK /\ Inv /\ [Next]_vars => Inv'
  BY ConstantsAssumption, SessionInvStep, ActiveIsRunningStep, FinishedStep,
     MoveIsOwnStep, MovingIsOwnStep, ViewAtRestStep, StopIsServedStep DEF FinishInv, RestInv
<1>3. Inv => RobotNotLeftMoving
  BY DEF RestInv, MovingIsOwn, RobotNotLeftMoving, ControlMutexHeld
<1>. QED  BY <1>1, <1>2, <1>3, TypeCorrect, PTL DEF Spec

---------------------------------------------------------------------------
(* What keeps the Move response from being gone.                           *)

(* The thread has not yet taken the response that ends its motion.         *)
DrivingPcs == {"awaitStarted", "starting", "startRecv", "loopStart", "active", "reading",
               "readCheck", "awaitEnd", "finishing", "finishCheck", "awaitFinish"}

FinalOwed ==
  \/ \E r \in owed : r.id = motion
  \/ \E i \in DOMAIN tcp : tcp[i].id = motion /\ tcp[i].status # "started"
  \/ srv.id = motion /\ Moving

OwedInv ==
  /\ stopId = 0
  /\ MoveIsOwn
  /\ pc \in DrivingPcs => \A r \in responses : r.id # motion
  /\ pc \in DrivingPcs /\ conn = "up" =>
       FinalOwed \/ \E i \in DOMAIN requests : requests[i].id = motion

(* What a poll of the socket leaves behind.                                *)
LEMMA PollLeaves ==
  ASSUME TypeOK, tcp' = PolledStream
  PROVE  \A i \in DOMAIN tcp :
           \/ \E j \in DOMAIN tcp' : tcp'[j] = tcp[i]
           \/ tcp # <<>> /\ tcp[i] = Head(tcp)
<1>1. tcp \in Seq(Response)
  BY DEF TypeOK
<1>2. CASE tcp = <<>>
  BY <1>2
<1>3. CASE tcp # <<>>
  <2>1. \A i \in DOMAIN tcp : i # 1 => i - 1 \in DOMAIN Tail(tcp) /\ Tail(tcp)[i - 1] = tcp[i]
    BY <1>1, <1>3
  <2>2. Head(tcp) = tcp[1] /\ tcp' = Tail(tcp)
    BY <1>3 DEF PolledStream
  <2>. QED  BY <1>3, <2>1, <2>2
<1>. QED  BY <1>2, <1>3

(* The three ways in which the control thread goes on without the response *)
(* that ends its motion.                                                   *)
GoesOn ==
  \/ responses' = responses /\ (conn' = "up" => UNCHANGED <<conn, requests, tcp>>)
  \/ /\ UNCHANGED <<conn, requests>>
     /\ tcp' = PolledStream /\ responses' = PolledResponses
     /\ \A r \in PolledResponses : r.id # motion
  \/ /\ UNCHANGED <<conn, requests>>
     /\ \E r \in PolledResponses :
          /\ r.id = motion /\ r.status = "started"
          /\ tcp' = PolledStream /\ responses' = PolledResponses \ {r}

LEMMA ControlGoesOn ==
  ASSUME ConstantsAssumption, ~CanStop, TypeOK, SessionInv, OwedInv, pc' \in DrivingPcs,
         \/ ControlStep
         \/ ControlCall /\ ~\E k \in Kinds, a \in Apis : Start(k, a)
         \/ ReadSocket \/ OtherThreads \/ \E t \in Receivers : Receive(t)
  PROVE  pc \in DrivingPcs /\ GoesOn /\ UNCHANGED <<motion, stopId, srvVars>>
<1>. USE DEF DrivingPcs, GoesOn, tcpVars, ctlVars
<1>0. stopId = 0 /\ TcpTryLock = {TRUE}
  BY DEF OwedInv, TcpTryLock
<1>1. CASE MotionStarted
  <2>1. PICK r \in PolledResponses :
          Received(motion, r) /\ (r.status = "started" \/ pc' = "idle")
    BY <1>1 DEF MotionStarted
  <2>. QED  BY <1>1, <2>1 DEF MotionStarted, Received
<1>2. CASE AwaitModes
  <2>1. CASE view = move \/ conn = "broken"
    BY <1>2, <2>1 DEF AwaitModes
  <2>2. CASE view # move /\ conn # "broken"
    <3>1. pc = "starting"
      BY <1>2 DEF AwaitModes
    <3>2. \A r \in PolledResponses : r.id = motion => r.status \notin {"started", "success"}
      BY <2>2, <3>1, AwaitedIsFailure DEF SessionInv
    <3>3. /\ UNCHANGED <<conn, requests>> /\ tcp' = PolledStream
          /\ \A r \in PolledResponses : r.id # motion
          /\ responses' = PolledResponses
      BY <1>0, <1>2, <2>2, <3>2 DEF AwaitModes
    <3>. QED  BY <1>2, <3>1, <3>3 DEF AwaitModes
  <2>. QED  BY <2>1, <2>2
<1>3. CASE LoopStart \/ CheckState
  BY <1>3 DEF LoopStart, CheckState
<1>4. CASE FinishCheck
  BY <1>4 DEF FinishCheck
<1>5. ~(MotionError \/ FinishResponse \/ Recovered)
  BY DEF MotionError, FinishResponse, Recovered
<1>6. ~(CancelFailed \/ CancelAnswered \/ DrainCheck \/ Abandon)
  BY DEF CancelFailed, Abandon, CancelMotion, CancelAnswered, DrainCheck, AfterFailedCancel
<1>7. ~WaitBroken
  BY DEF WaitBroken, AfterFailedCancel
<1>8. ~(StartRefused \/ ReadIdle \/ Recover)
  BY DEF StartRefused, ReadIdle, Recover
<1>9. CASE ReadOnce \/ WriteOnce \/ LoopUpdate \/ Finish
  BY <1>9 DEF ReadOnce, WriteOnce, LoopUpdate, Finish
<1>10. CASE ReadSocket
  <2>1. \A r \in PolledResponses : r.id # motion
    BY <1>0, <1>10 DEF ReadSocket, WaitIds
  <2>. QED  BY <1>10, <2>1 DEF ReadSocket
<1>11. CASE OtherThreads
  BY <1>0, <1>11 DEF OtherThreads, StopCall, StopReturns, MonitorRead
<1>12. CASE \E t \in Receivers : ReceiveTimeout(t)
  <2>1. PICK t \in Receivers : ReceiveTimeout(t)
    BY <1>12
  <2>2. t # "ctl"
    BY <2>1 DEF ReceiveTimeout, AfterFailedCancel
  <2>. QED  BY <2>1, <2>2 DEF ReceiveTimeout
<1>13. CASE \E t \in Receivers, m \in DOMAIN published : AcceptState(t, m)
  <2>1. PICK t \in Receivers, m \in DOMAIN published : AcceptState(t, m)
    BY <1>13, Zenon
  <2>2. pc \in DrivingPcs
    <3>1. CASE t = "ctl"
      BY <2>1, <3>1 DEF AcceptState, AfterReceive
    <3>2. CASE t # "ctl"
      BY <2>1, <3>2 DEF AcceptState
    <3>. QED  BY <3>1, <3>2
  <2>. QED  BY <2>1, <2>2 DEF AcceptState
<1>. QED
  BY <1>1, <1>2, <1>3, <1>4, <1>5, <1>6, <1>7, <1>8, <1>9, <1>10, <1>11, <1>12, <1>13
     DEF ControlStep, ControlCall, Receive

LEMMA OwedGoesOn ==
  ASSUME TypeOK, OwedInv, pc \in DrivingPcs, GoesOn, UNCHANGED <<motion, stopId, srvVars>>
  PROVE  /\ \A r \in responses' : r.id # motion'
         /\ conn' = "up" => FinalOwed' \/ \E i \in DOMAIN requests' : requests'[i].id = motion'
<1>1. UNCHANGED <<srv, owed>> /\ (Moving' <=> Moving)
  BY DEF srvVars, Moving
<1>2. \A r \in responses : r.id # motion
  BY DEF OwedInv
<1>3. CASE responses' = responses /\ (conn' = "up" => UNCHANGED <<conn, requests, tcp>>)
  BY <1>1, <1>2, <1>3 DEF OwedInv, FinalOwed
<1>4. CASE /\ UNCHANGED <<conn, requests>>
           /\ tcp' = PolledStream /\ responses' = PolledResponses
           /\ \A r \in PolledResponses : r.id # motion
  <2>1. tcp # <<>> => Head(tcp).id # motion
    BY <1>2, <1>4 DEF PolledResponses, Stored
  <2>2. FinalOwed => FinalOwed'
    BY <1>1, <1>4, <2>1, PollLeaves DEF FinalOwed
  <2>. QED  BY <1>4, <2>2 DEF OwedInv
<1>5. CASE /\ UNCHANGED <<conn, requests>>
           /\ \E r \in PolledResponses :
                /\ r.id = motion /\ r.status = "started"
                /\ tcp' = PolledStream /\ responses' = PolledResponses \ {r}
  <2>1. PICK r \in PolledResponses :
          /\ r.id = motion /\ r.status = "started"
          /\ tcp' = PolledStream /\ responses' = PolledResponses \ {r}
    BY <1>5
  <2>2. tcp # <<>> /\ r = Head(tcp) /\ PolledResponses = responses \cup {r}
    BY <1>2, <2>1 DEF PolledResponses, Stored
  <2>3. \A s \in responses' : s.id # motion
    BY <1>2, <2>1, <2>2
  <2>4. FinalOwed => FinalOwed'
    BY <1>1, <2>1, <2>2, PollLeaves DEF FinalOwed
  <2>. QED  BY <1>5, <2>3, <2>4 DEF OwedInv
<1>. QED  BY <1>3, <1>4, <1>5 DEF GoesOn

LEMMA OwedRobot ==
  ASSUME TypeOK, SessionInv, OwedInv, RobotServes \/ RobotMoves \/ RobotFails,
         pc \in DrivingPcs, conn' = "up"
  PROVE  FinalOwed' \/ \E i \in DOMAIN requests' : requests'[i].id = motion'
<1>0. /\ tcp \in Seq(Response) /\ requests \in Seq(Request)
      /\ UNCHANGED <<pc, motion, responses>> /\ conn = "up"
  BY RobotStepIsRobot DEF TypeOK, RobotStep, clientVars, ctlVars
<1>1. requests # <<>> =>
        /\ Head(requests) = requests[1] /\ 1 \in DOMAIN requests /\ requests[1].id \in Nat
        /\ \A i \in DOMAIN requests : i # 1 => i - 1 \in DOMAIN Tail(requests)
                                               /\ Tail(requests)[i - 1] = requests[i]
  BY <1>0, IdTypes, TailElements
<1>2. FinalOwed \/ \E i \in DOMAIN requests : requests[i].id = motion
  BY <1>0 DEF OwedInv
<1>3. \A n \in Nat, s \in Statuses : /\ Final(n, s) \in Response
                                    /\ Final(n, s).id = n /\ Final(n, s).status = s
  BY DEF Final, Response
<1>4. CASE ServeMove
  <2>1. /\ requests # <<>> /\ requests[1].cmd = "move"
        /\ \/ srv'.id = requests[1].id /\ srv'.phase = "starting"
           \/ tcp' = Append(tcp, Final(requests[1].id, "rejected"))
    BY <1>1, <1>4 DEF ServeMove
  <2>2. requests[1].id = motion
    BY <1>0, <1>1, <2>1, MoveAwaitsStart DEF OwedInv
  <2>3. Final(motion, "rejected") \in Response /\ Final(motion, "rejected").id = motion
        /\ Final(motion, "rejected").status = "rejected"
    BY <1>1, <1>3, <2>1, <2>2 DEF Statuses
  <2>. QED  BY <1>0, <2>1, <2>2, <2>3, AppendElements DEF FinalOwed, Moving
<1>5. CASE ServeStop \/ ServeRecover
  <2>1. /\ requests # <<>> /\ requests' = Tail(requests) /\ requests[1].cmd # "move"
        /\ \E s \in Statuses : tcp' = Append(tcp, Final(requests[1].id, s))
    BY <1>1, <1>5 DEF ServeStop, ServeRecover, Statuses
  <2>2. requests[1].id # motion
    BY <1>1, <2>1 DEF SessionInv, StreamInv, MotionIsMove
  <2>3. \A i \in DOMAIN tcp : i \in DOMAIN tcp' /\ tcp'[i] = tcp[i]
    BY <1>0, <1>1, <1>3, <2>1, AppendElements
  <2>4. \A r \in owed : r \in owed'
    BY <1>5 DEF ServeStop, ServeRecover, EndMotion
  <2>5. srv.id = motion /\ Moving => (srv'.id = motion /\ Moving') \/ \E r \in owed' : r.id = motion
    <3>1. CASE ServeStop
      <4>1. Moving => Final(srv.id, "preempted") \in owed'
        BY <3>1 DEF ServeStop, EndMotion
      <4>2. Final(srv.id, "preempted").id = srv.id
        BY DEF Final
      <4>. QED  BY <4>1, <4>2
    <3>2. CASE ServeRecover
      BY <3>2 DEF ServeRecover, Moving
    <3>. QED  BY <1>5, <3>1, <3>2
  <2>6. FinalOwed => FinalOwed'
    BY <1>0, <2>3, <2>4, <2>5 DEF FinalOwed
  <2>7. ASSUME NEW i \in DOMAIN requests, requests[i].id = motion
        PROVE  \E j \in DOMAIN requests' : requests'[j].id = motion
    BY <1>1, <2>1, <2>2, <2>7
  <2>. QED  BY <1>0, <1>2, <2>6, <2>7
<1>6. CASE SendFinal
  <2>1. PICK o \in owed : owed' = owed \ {o} /\ tcp' = Append(tcp, o)
    BY <1>6 DEF SendFinal
  <2>2. UNCHANGED <<requests, srv>> /\ (Moving' <=> Moving)
    BY <1>6 DEF SendFinal, Moving
  <2>3. o \in Response /\ o.status # "started"
    BY DEF SessionInv, SuccessIsEnd, TypeOK
  <2>4. /\ \A i \in DOMAIN tcp : i \in DOMAIN tcp' /\ tcp'[i] = tcp[i]
        /\ Len(tcp) + 1 \in DOMAIN tcp' /\ tcp'[Len(tcp) + 1] = o
    BY <1>0, <2>1, <2>3, AppendElements
  <2>. QED  BY <1>0, <1>2, <2>1, <2>2, <2>3, <2>4 DEF FinalOwed
<1>7. CASE MotionRuns \/ MotionStops \/ Publish
  <2>1. UNCHANGED <<requests, tcp, owed>> /\ (Moving => Moving') /\ srv'.id = srv.id
    BY <1>7 DEF MotionRuns, MotionStops, Publish, Moving, TypeOK
  <2>. QED  BY <1>0, <1>2, <2>1 DEF FinalOwed
<1>8. CASE MotionFinishes \/ Reflex
  <2>1. UNCHANGED <<requests, tcp>> /\ \E s : owed' = owed \cup {Final(srv.id, s)}
    BY <1>8 DEF MotionFinishes, Reflex, EndMotion
  <2>2. \A s : Final(srv.id, s).id = srv.id
    BY DEF Final
  <2>. QED  BY <1>0, <1>2, <2>1, <2>2 DEF FinalOwed
<1>9. ~CloseConnection /\ ~LostClient
  BY <1>0 DEF CloseConnection, LostClient
<1>. QED  BY <1>4, <1>5, <1>6, <1>7, <1>8, <1>9 DEF RobotServes, RobotMoves, RobotFails

LEMMA OwedInvStep ==
  ASSUME ~CanStop, TypeOK, SessionInv, OwedInv, [Next]_vars
  PROVE  OwedInv'
<1>0. ConstantsAssumption
  BY ConstantsAssumption
<1>1. MoveIsOwn'
  BY <1>0, MoveIsOwnStep DEF OwedInv
<1>2. CASE \E k \in Kinds, a \in Apis : Start(k, a)
  <2>1. PICK k \in AllKinds, a \in AllApis : Start(k, a)
    BY <1>0, <1>2 DEF ConstantsAssumption
  <2>2. /\ motion' = nextId /\ SendRequest("move", k) /\ UNCHANGED <<responses, stopId>>
    BY <2>1 DEF Start
  <2>3. \A r \in responses : r.id # nextId
    BY IdTypes DEF SessionInv, IdsAreOld
  <2>4. ASSUME conn' = "up"  PROVE \E i \in DOMAIN requests' : requests'[i].id = nextId
    <3>1. /\ requests \in Seq(Request) /\ [cmd |-> "move", id |-> nextId, kind |-> k] \in Request
          /\ requests' = Append(requests, [cmd |-> "move", id |-> nextId, kind |-> k])
      BY <2>2, <2>4 DEF SendRequest, TypeOK, Request
    <3>. QED  BY <3>1, AppendElements
  <2>. QED  BY <1>1, <2>2, <2>3, <2>4 DEF OwedInv
<1>3. CASE \/ ControlStep
           \/ ControlCall /\ ~\E k \in Kinds, a \in Apis : Start(k, a)
           \/ ReadSocket \/ OtherThreads \/ \E t \in Receivers : Receive(t)
  <2>1. stopId' = 0
    BY <1>3 DEF OwedInv, ControlStep, MotionStarted, AwaitModes, LoopStart, CheckState, MotionError,
        FinishCheck, FinishResponse, CancelFailed, CancelAnswered, DrainCheck, WaitBroken,
        Recovered, ControlCall, StartRefused, ReadIdle, Recover, ReadOnce, WriteOnce, LoopUpdate,
        Finish, Abandon, ReadSocket, OtherThreads, StopCall, StopReturns, MonitorRead, Receive,
        ReceiveTimeout, AcceptState
  <2>2. CASE pc' \in DrivingPcs
    BY <1>0, <1>1, <1>3, <2>1, <2>2, ControlGoesOn, OwedGoesOn DEF OwedInv
  <2>. QED  BY <1>1, <2>1, <2>2 DEF OwedInv
<1>4. CASE RobotServes \/ RobotMoves \/ RobotFails
  <2>1. UNCHANGED <<pc, motion, responses, stopId>>
    BY <1>4, RobotStepIsRobot DEF RobotStep, clientVars, ctlVars
  <2>. QED  BY <1>1, <1>4, <2>1, OwedRobot DEF OwedInv
<1>5. CASE UNCHANGED vars
  BY <1>1, <1>5 DEF vars, tcpVars, ctlVars, srvVars, OwedInv, FinalOwed, Moving
<1>. QED  BY <1>2, <1>3, <1>4, <1>5 DEF Next

(* As long as nobody calls Robot::stop(), the Move response that           *)
(* throwOnMotionError and finishMotion wait for, without a limit of time,  *)
(* has not been taken before: not by startMotion, and however many threads *)
(* are in Robot::readOnce() and change the modes it decides by.            *)
THEOREM AwaitedResponseComes ==
  ASSUME ~CanStop
  PROVE  Spec => []MoveResponseOwed
<1>1. Init => SessionInv /\ OwedInv
  BY SessionInvInit DEF Init, OwedInv, MoveIsOwn, DrivingPcs
<1>2. TypeOK /\ SessionInv /\ OwedInv /\ [Next]_vars => (SessionInv /\ OwedInv)'
  BY SessionInvStep, OwedInvStep
<1>3. SessionInv /\ OwedInv => MoveResponseOwed
  BY DEF SessionInv, OwedInv, StreamInv, StartedOnce, FinalOwed, DrivingPcs, MoveResponseOwed
<1>. QED  BY <1>1, <1>2, <1>3, TypeCorrect, PTL DEF Spec

---------------------------------------------------------------------------
(* What keeps commands and states attributable to motions.                 *)

RunsAt(i) == Running(published[i].mode)

CurrentRuns == srv.phase = "running" \/ (srv.phase = "stopping" /\ srv.kind # "torque")

ViewIsPublished == messageId \in DOMAIN published /\ view = published[messageId].mode

(* The states of a motion follow one another, and motions do not mix.      *)
StatesInOrder ==
  /\ \A i \in DOMAIN published : RunsAt(i) => published[i].motion # 0
  /\ \A i \in DOMAIN published : published[i].motion <= srv.id
  /\ \A i, j \in DOMAIN published :
       i < j /\ published[j].motion # 0 => published[i].motion <= published[j].motion

(* Between two states that show a motion running all show it running.      *)
RunsThrough ==
  \A i, j, k \in DOMAIN published :
    i <= j /\ j <= k /\ published[i].motion = published[k].motion /\ RunsAt(k) => RunsAt(j)

(* The same of the state that the robot would publish now.                 *)
RunsUntilNow ==
  /\ CurrentRuns => \A i, j \in DOMAIN published :
                      i <= j /\ published[i].motion = srv.id => RunsAt(j)
  /\ srv.phase = "starting" => \A i \in DOMAIN published : published[i].motion # srv.id
  /\ srv.phase # "idle" => srv.id # 0
  /\ srv.id <= motion

StatesInv == ViewIsPublished /\ StatesInOrder /\ RunsThrough /\ RunsUntilNow

LEMMA CurrentStateRuns ==
  ASSUME TypeOK
  PROVE  /\ Running(CurrentState.mode) <=> CurrentRuns
         /\ srv.phase \in {"running", "stopping"} => CurrentState.motion = srv.id
         /\ srv.phase \notin {"running", "stopping"} => CurrentState.motion = 0
<1>1. srv.kind \in AllKinds /\ srv.phase \in Phases
  BY DEF TypeOK
<1>2. ~Running(IdleMode)
  BY DEF IdleMode, Running, MotionGeneratorRunning, ControllerRunning
<1>3. Running(ModeOf(srv.kind))
  BY <1>1, ModesRun
<1>4. Running([ModeOf(srv.kind) EXCEPT !.ctl = "other"]) <=> srv.kind # "torque"
  BY <1>1 DEF AllKinds, ModeOf, Running, MotionGeneratorRunning, ControllerRunning
<1>. QED  BY <1>1, <1>2, <1>3, <1>4 DEF CurrentState, CurrentRuns, Phases

(* How the robot's phase changes.                                          *)
PhaseStep ==
  \/ srv'.phase = srv.phase /\ srv'.id = srv.id /\ srv'.kind = srv.kind
  \/ srv'.phase = "idle" /\ srv'.id = srv.id
  \/ Moving /\ srv'.phase = "stopping" /\ srv'.id = srv.id /\ srv'.kind = srv.kind
  \/ srv.phase = "starting" /\ srv'.phase = "running" /\ srv'.id = srv.id
  \/ /\ conn = "up" /\ pc = "awaitStarted" /\ srv.id # motion
     /\ srv'.phase = "starting" /\ srv'.id = motion

LEMMA RobotPhases ==
  ASSUME TypeOK, SessionInv, MoveIsOwn, RobotServes \/ RobotMoves \/ RobotFails
  PROVE  /\ PhaseStep
         /\ \/ published' = published
            \/ conn = "up" /\ published' = Append(published, CurrentState) /\ srv' = srv
<1>. USE DEF PhaseStep
<1>1. CASE ServeMove
  <2>1. CASE srv' = srv
    BY <1>1, <2>1 DEF ServeMove
  <2>2. CASE srv' # srv
    <3>1. /\ conn = "up" /\ requests # <<>> /\ Head(requests).cmd = "move"
          /\ srv'.phase = "starting" /\ srv'.id = Head(requests).id
      BY <1>1, <2>2 DEF ServeMove
    <3>2. Head(requests) = requests[1] /\ 1 \in DOMAIN requests
      BY <3>1, TailElements DEF TypeOK
    <3>. QED  BY <1>1, <3>1, <3>2, MoveAwaitsStart DEF ServeMove
  <2>. QED  BY <2>1, <2>2
<1>2. CASE ServeStop
  BY <1>2 DEF ServeStop, EndMotion, TypeOK
<1>3. CASE ServeRecover
  BY <1>3 DEF ServeRecover, TypeOK
<1>4. CASE SendFinal \/ Publish
  BY <1>4 DEF SendFinal, Publish
<1>5. CASE CloseConnection
  BY <1>5 DEF CloseConnection, srvVars
<1>6. CASE MotionRuns \/ MotionStops
  BY <1>6 DEF MotionRuns, MotionStops, TypeOK
<1>7. CASE MotionFinishes
  BY <1>7 DEF MotionFinishes, EndMotion, TypeOK
<1>8. CASE Reflex \/ LostClient
  BY <1>8 DEF Reflex, LostClient, EndMotion, TypeOK
<1>. QED
  BY <1>1, <1>2, <1>3, <1>4, <1>5, <1>6, <1>7, <1>8 DEF RobotServes, RobotMoves, RobotFails

LEMMA PublishedTypes ==
  ASSUME TypeOK
  PROVE  /\ published \in Seq(RobotState) /\ DOMAIN published \subseteq Nat
         /\ \A i \in DOMAIN published : published[i].motion \in Nat
         /\ srv.id \in Nat /\ motion \in Nat /\ messageId \in Nat
<1>1. published \in Seq(RobotState)
  BY DEF TypeOK
<1>2. \A i \in DOMAIN published : published[i] \in RobotState
  BY <1>1
<1>. QED  BY <1>1, <1>2 DEF TypeOK, RobotState

LEMMA StatesPublish ==
  ASSUME TypeOK, StatesInv, published' = Append(published, CurrentState), srv' = srv,
         UNCHANGED <<view, messageId, motion>>
  PROVE  StatesInv'
<1>1. PICK n \in Nat : n = Len(published) + 1
  BY PublishedTypes
<1>2. /\ DOMAIN published' = DOMAIN published \cup {n}
      /\ \A i \in DOMAIN published : i < n /\ published'[i] = published[i]
      /\ published'[n] = CurrentState
  BY <1>1, CurrentStateType, AppendElements, PublishedTypes
<1>3. /\ \A i \in DOMAIN published : RunsAt(i)' <=> RunsAt(i)
      /\ RunsAt(n)' <=> CurrentRuns
  BY <1>2, CurrentStateRuns DEF RunsAt
<1>4. CurrentRuns' <=> CurrentRuns
  BY DEF CurrentRuns
<1>5. CurrentRuns => CurrentState.motion = srv.id /\ srv.id # 0
  BY CurrentStateRuns DEF CurrentRuns, StatesInv, RunsUntilNow
<1>6. CurrentState.motion \in {0, srv.id} /\ srv.id \in Nat
  BY CurrentStateRuns, PublishedTypes
<1>. USE PublishedTypes DEF StatesInv
<1>7. ViewIsPublished'
  BY <1>2 DEF ViewIsPublished
<1>8. StatesInOrder'
  BY <1>2, <1>3, <1>5, <1>6 DEF StatesInOrder
<1>9. RunsThrough'
  <2>. SUFFICES ASSUME NEW i \in DOMAIN published', NEW j \in DOMAIN published',
                       NEW k \in DOMAIN published', i <= j, j <= k,
                       published'[i].motion = published'[k].motion, RunsAt(k)'
                PROVE  RunsAt(j)'
    BY DEF RunsThrough
  <2>1. CASE k = n
    <3>1. CurrentRuns /\ published'[i].motion = srv.id
      BY <1>2, <1>3, <1>5, <2>1
    <3>2. CASE j = n
      BY <1>3, <3>1, <3>2
    <3>3. CASE j # n
      <4>1. i \in DOMAIN published /\ j \in DOMAIN published
        BY <1>2, <3>3
      <4>. QED  BY <1>2, <1>3, <3>1, <4>1 DEF RunsUntilNow
    <3>. QED  BY <3>2, <3>3
  <2>2. CASE k # n
    <3>1. i \in DOMAIN published /\ j \in DOMAIN published /\ k \in DOMAIN published
      BY <1>2, <2>2
    <3>. QED  BY <1>2, <1>3, <3>1 DEF RunsThrough
  <2>. QED  BY <2>1, <2>2
<1>10. RunsUntilNow'
  <2>1. ASSUME CurrentRuns', NEW i \in DOMAIN published', NEW j \in DOMAIN published', i <= j,
               published'[i].motion = srv.id
        PROVE  RunsAt(j)'
    <3>1. CASE j = n
      BY <1>3, <1>4, <2>1, <3>1
    <3>2. CASE j # n
      <4>1. i \in DOMAIN published /\ j \in DOMAIN published
        BY <1>2, <2>1, <3>2
      <4>. QED  BY <1>2, <1>3, <1>4, <2>1, <4>1 DEF RunsUntilNow
    <3>. QED  BY <3>1, <3>2
  <2>2. srv.phase = "starting" => \A i \in DOMAIN published' : published'[i].motion # srv.id
    BY <1>2, CurrentStateRuns DEF RunsUntilNow
  <2>. QED  BY <2>1, <2>2 DEF RunsUntilNow
<1>. QED  BY <1>7, <1>8, <1>9, <1>10

LEMMA StatesPhase ==
  ASSUME TypeOK, TypeOK', StatesInv, PhaseStep, UNCHANGED <<published, view, messageId, motion>>
  PROVE  StatesInv'
<1>. USE PublishedTypes DEF StatesInv
<1>1. ViewIsPublished' /\ RunsThrough' /\ \A i : RunsAt(i)' <=> RunsAt(i)
  BY DEF ViewIsPublished, RunsThrough, RunsAt
<1>2. srv'.id = srv.id \/ (srv'.id = motion /\ srv.id < motion /\ srv'.phase = "starting")
  BY DEF PhaseStep, RunsUntilNow
<1>3. StatesInOrder'
  <2>1. \A i \in DOMAIN published : published[i].motion <= srv'.id
    BY <1>2 DEF StatesInOrder
  <2>. QED  BY <1>1, <2>1 DEF StatesInOrder
<1>4. RunsUntilNow'
  <2>1. srv'.id <= motion /\ (srv'.phase # "idle" => srv'.id # 0)
    BY <1>2 DEF PhaseStep, RunsUntilNow, Moving
  <2>2. ASSUME srv'.phase = "starting"
        PROVE  \A i \in DOMAIN published : published[i].motion # srv'.id
    <3>1. CASE srv.phase = "starting" /\ srv'.id = srv.id
      BY <3>1 DEF RunsUntilNow
    <3>2. CASE srv'.id = motion /\ srv.id < motion
      BY <3>2 DEF StatesInOrder
    <3>. QED  BY <1>2, <2>2, <3>1, <3>2 DEF PhaseStep, RunsUntilNow
  <2>3. ASSUME CurrentRuns', NEW i \in DOMAIN published, NEW j \in DOMAIN published, i <= j,
               published[i].motion = srv'.id
        PROVE  RunsAt(j)
    <3>1. srv'.id = srv.id /\ (CurrentRuns \/ srv.phase = "starting")
      BY <2>3 DEF PhaseStep, CurrentRuns, Moving
    <3>. QED  BY <2>3, <3>1 DEF RunsUntilNow
  <2>. QED  BY <1>1, <2>1, <2>2, <2>3 DEF RunsUntilNow
<1>. QED  BY <1>1, <1>3, <1>4

LEMMA StatesStep ==
  ASSUME TypeOK, SessionInv, MoveIsOwn, StatesInv, [Next]_vars
  PROVE  StatesInv'
<1>0. ConstantsAssumption
  BY ConstantsAssumption
<1>1. CASE RobotServes \/ RobotMoves \/ RobotFails
  <2>1. UNCHANGED <<view, messageId, motion>>
    BY <1>1, RobotStepIsRobot DEF RobotStep, clientVars, viewVars, ctlVars
  <2>2. TypeOK'
    BY <1>0, TypeStep
  <2>. QED  BY <1>1, <2>1, <2>2, RobotPhases, StatesPhase, StatesPublish
<1>2. ASSUME UNCHANGED <<srv, published>>, motion' = motion \/ motion' = nextId,
             \/ UNCHANGED <<view, messageId>>
             \/ \E m \in DOMAIN published : view' = published[m].mode /\ messageId' = m
      PROVE  StatesInv'
  <2>1. srv.id <= motion'
    BY <1>2, IdTypes DEF SessionInv, IdsAreOld, StatesInv, RunsUntilNow
  <2>. QED
    BY <1>2, <2>1 DEF StatesInv, ViewIsPublished, StatesInOrder, RunsThrough, RunsUntilNow,
       CurrentRuns, RunsAt
<1>3. CASE \E k \in Kinds, a \in Apis : Start(k, a)
  BY <1>2, <1>3 DEF Start, srvVars, viewVars
<1>4. CASE UNCHANGED vars
  BY <1>2, <1>4 DEF vars, srvVars, viewVars, ctlVars
<1>5. CASE \E t \in Receivers : Receive(t)
  BY <1>2, <1>5 DEF Receive, ReceiveTimeout, AcceptState, srvVars, viewVars
<1>6. CASE \/ ControlStep \/ ReadSocket \/ OtherThreads
           \/ ControlCall /\ ~\E k \in Kinds, a \in Apis : Start(k, a)
  <2>1. UNCHANGED <<motion, srv, published>>
    BY <1>6, ControlStepIsClient, OtherClientSteps DEF ClientStep, srvVars, SessionInv
  <2>2. UNCHANGED <<view, messageId>>
    <3>1. CASE ControlStep
      BY <3>1 DEF ControlStep, MotionStarted, AwaitModes, LoopStart, CheckState, MotionError,
         FinishCheck, FinishResponse, CancelFailed, CancelAnswered, DrainCheck, WaitBroken,
         Recovered, viewVars
    <3>2. CASE ControlCall /\ ~\E k \in Kinds, a \in Apis : Start(k, a)
      BY <3>2 DEF ControlCall, StartRefused, ReadIdle, Recover, ReadOnce, WriteOnce, LoopUpdate,
         Finish, Abandon, viewVars
    <3>3. CASE ReadSocket \/ OtherThreads
      BY <3>3 DEF ReadSocket, OtherThreads, StopCall, StopReturns, MonitorRead, viewVars
    <3>. QED  BY <1>6, <3>1, <3>2, <3>3
  <2>. QED  BY <1>2, <2>1, <2>2
<1>. QED  BY <1>1, <1>3, <1>4, <1>5, <1>6 DEF Next
(* No state to come shows a motion running.                                *)
Quiet == ~CurrentRuns /\ \A i \in DOMAIN published : i >= messageId => ~RunsAt(i)

(* The control thread has received a state that shows its motion.          *)
SeenMotion ==
  \E i \in DOMAIN published :
    i <= messageId /\ published[i].motion = motion /\ RunsAt(i)

(* If a state to come shows a motion running, it is the thread's own.      *)
OnlyOwnRuns ==
  /\ \A i \in DOMAIN published : i >= messageId /\ RunsAt(i) => published[i].motion = motion
  /\ conn = "up" /\ CurrentRuns => srv.id = motion

StartingPcs == {"awaitStarted", "starting", "startRecv"}

(* As long as no start has failed, the thread waits for the modes of its   *)
(* own motion only, has seen them while it drives the motion, and has seen *)
(* the motion stop when it lets go of the mutex.                           *)
HistoryInv ==
  \/ AStartFailed
  \/ /\ pc \in MotionPcs \ StartingPcs => SeenMotion
     /\ conn = "up" /\ pc \notin MotionPcs => Quiet \/ (RejectsStop /\ SeenMotion)
     /\ pc \in StartingPcs /\ (pc = "awaitStarted" => conn # "broken") => OnlyOwnRuns

(* Once its motion is seen and the view at rest, nothing of it is to come. *)
LEMMA SeenAtRestIsQuiet ==
  ASSUME TypeOK, StatesInv, SeenMotion, ~Running(view)  PROVE Quiet
<1>1. PICK i \in DOMAIN published : i <= messageId /\ published[i].motion = motion /\ RunsAt(i)
  BY DEF SeenMotion
<1>2. messageId \in DOMAIN published /\ ~RunsAt(messageId)
  BY DEF StatesInv, ViewIsPublished, RunsAt
<1>3. i \in Nat /\ messageId \in Nat /\ srv.id \in Nat /\ motion \in Nat /\ srv.id <= motion
  BY <1>1, PublishedTypes DEF StatesInv, RunsUntilNow
<1>4. ASSUME NEW j \in DOMAIN published, j >= messageId, RunsAt(j)  PROVE FALSE
  <2>1. j \in Nat /\ published[j].motion \in Nat /\ published[j].motion # 0
    BY <1>4, PublishedTypes DEF StatesInv, StatesInOrder
  <2>2. published[j].motion <= motion
    BY <1>3, <2>1 DEF StatesInv, StatesInOrder
  <2>3. i < j
    BY <1>1, <1>2, <1>3, <1>4, <2>1
  <2>4. published[i].motion <= published[j].motion
    BY <2>1, <2>3 DEF StatesInv, StatesInOrder
  <2>5. published[i].motion = published[j].motion
    BY <1>1, <1>3, <2>1, <2>2, <2>4
  <2>. QED  BY <1>1, <1>2, <1>4, <2>5 DEF StatesInv, RunsThrough
<1>5. ASSUME CurrentRuns  PROVE FALSE
  <2>1. published[i].motion = srv.id
    BY <1>1, <1>3 DEF StatesInv, StatesInOrder
  <2>. QED  BY <1>1, <1>2, <1>5, <2>1 DEF StatesInv, RunsUntilNow
<1>. QED  BY <1>4, <1>5 DEF Quiet

(* A running motion that the view shows is the one that was seen last.     *)
LEMMA SeenRunningIsOwn ==
  ASSUME TypeOK, StatesInv, SeenMotion, Running(view)  PROVE published[messageId].motion = motion
<1>1. PICK i \in DOMAIN published : i <= messageId /\ published[i].motion = motion
  BY DEF SeenMotion
<1>2. messageId \in DOMAIN published /\ RunsAt(messageId)
  BY DEF StatesInv, ViewIsPublished, RunsAt
<1>3. /\ i \in Nat /\ messageId \in Nat /\ srv.id \in Nat /\ motion \in Nat /\ srv.id <= motion
      /\ published[messageId].motion \in Nat /\ published[messageId].motion # 0
      /\ published[messageId].motion <= srv.id
  BY <1>1, <1>2, PublishedTypes DEF StatesInv, StatesInOrder, RunsUntilNow
<1>4. CASE i < messageId
  <2>1. published[i].motion <= published[messageId].motion
    BY <1>2, <1>3, <1>4 DEF StatesInv, StatesInOrder
  <2>. QED  BY <1>1, <1>3, <2>1
<1>. QED  BY <1>1, <1>3, <1>4

(* A poll that finds the response to the StopMove finds a good one, unless *)
(* the robot may reject it.                                                *)
LEMMA StopResponseIsGood ==
  ASSUME TypeOK, RestInv, pc = "awaitStop", conn # "broken", ~RejectsStop,
         NEW r \in PolledResponses, r.id = callId
  PROVE  r.status = "success"
<1>1. tcp # <<>> => Head(tcp) = tcp[1] /\ 1 \in DOMAIN tcp
  BY TailElements DEF TypeOK
<1>. QED  BY <1>1 DEF RestInv, StopIsServed, PolledResponses, Stored

(* How the control thread gets from one part of a motion to another.       *)
Proceeds ==
  /\ pc' \in MotionPcs \ StartingPcs =>
       pc \in MotionPcs \ StartingPcs \/ (pc = "starting" /\ view = move)
  /\ pc' \in {"starting", "startRecv"} =>
       pc \in {"starting", "startRecv"} \/ (pc = "awaitStarted" /\ conn # "broken")
  /\ conn' = "up" /\ pc' \notin MotionPcs =>
       \/ pc \notin MotionPcs
       \/ AStartFailed'
       \/ pc \in MotionPcs \ StartingPcs /\ (~Running(view) \/ RejectsStop)
  /\ pc' = "terminated" => conn' = "broken" \/ RejectsStop \/ pc = "terminated"

LEMMA StartErrorFails ==
  ASSUME Report("startError")  PROVE AStartFailed'
<1>1. [id |-> motion, result |-> "startError"] \in outcome'
  BY DEF Report
<1>2. [id |-> motion, result |-> "startError"].result = "startError"
  OBVIOUS
<1>. QED  BY <1>1, <1>2 DEF AStartFailed

LEMMA ControlProceeds ==
  ASSUME Monitors = {}, TypeOK, SessionInv, ActiveIsRunning, RestInv,
         \/ ControlStep
         \/ ControlCall /\ ~\E k \in Kinds, a \in Apis : Start(k, a)
         \/ ReadSocket \/ OtherThreads \/ \E t \in Receivers : Receive(t)
  PROVE  Proceeds
<1>. USE DEF Proceeds, MotionPcs, StartingPcs
<1>1. CASE MotionStarted
  <2>1. ~MotionGeneratorRunning(view)
    BY <1>1 DEF MotionStarted, RestInv, ViewAtRest, Running
  <2>2. /\ pc = "awaitStarted" /\ conn # "broken"
        /\ pc' = "starting" \/ (pc' = "idle" /\ Report("startError"))
    BY <1>1, <2>1 DEF MotionStarted, Received
  <2>3. Report("startError") => AStartFailed'
    BY StartErrorFails
  <2>. QED  BY <2>2, <2>3
<1>2. CASE AwaitModes
  <2>1. CASE view = move \/ conn = "broken"
    BY <1>2, <2>1 DEF AwaitModes, StartReturned, tcpVars
  <2>2. CASE view # move /\ conn # "broken"
    <3>1. pc = "starting"
      BY <1>2 DEF AwaitModes
    <3>2. \A r \in PolledResponses \cup responses :
            r.id = motion => r.status \notin {"started", "success"}
      BY <2>2, <3>1, AwaitedIsFailure DEF SessionInv
    <3>3. \/ pc' = "startRecv" \/ (pc' = "idle" /\ Report("startError"))
          \/ pc' = "idle" /\ conn' # "up"
      BY <1>2, <2>2, <3>2 DEF AwaitModes, ConnectionClosed
    <3>4. Report("startError") => AStartFailed'
      BY StartErrorFails
    <3>. QED  BY <3>1, <3>3, <3>4
  <2>. QED  BY <2>1, <2>2
<1>3. CASE LoopStart \/ CheckState \/ MotionError
  BY <1>3 DEF LoopStart, CheckState, MotionError
<1>4. CASE FinishCheck
  BY <1>4 DEF FinishCheck, SendCommand
<1>5. CASE FinishResponse
  BY <1>5 DEF FinishResponse, RestInv, ViewAtRest
<1>6. CASE CancelFailed \/ Abandon
  BY <1>6 DEF CancelFailed, Abandon, CancelMotion, tcpVars
<1>7. CASE CancelAnswered
  <2>1. pc = "awaitStop" /\ pc' \in {"draining", "idle", "terminated"}
    BY <1>7 DEF CancelAnswered, AfterFailedCancel
  <2>2. pc' # "draining" => RejectsStop
    BY <1>7, StopResponseIsGood DEF CancelAnswered, Received
  <2>. QED  BY <2>1, <2>2
<1>8. CASE DrainCheck
  BY <1>8 DEF DrainCheck, AfterFailedCancel, tcpVars
<1>9. CASE WaitBroken
  BY <1>9 DEF WaitBroken, AfterFailedCancel, tcpVars, TcpWaits
<1>10. CASE Recovered \/ StartRefused \/ ReadIdle \/ Recover \/ ReadOnce
  BY <1>10 DEF Recovered, StartRefused, ReadIdle, Recover, ReadOnce, ctlVars
<1>11. CASE WriteOnce \/ LoopUpdate
  BY <1>11 DEF WriteOnce, LoopUpdate, SendCommand
<1>12. CASE Finish
  BY <1>12 DEF Finish, SendCommand
<1>13. CASE ReadSocket \/ OtherThreads
  BY <1>13 DEF ReadSocket, OtherThreads, StopCall, StopReturns, MonitorRead, ctlVars
<1>14. CASE ReceiveTimeout("ctl")
  <2>1. conn' = "broken" /\ pc \in UdpWaits
    BY <1>14 DEF ReceiveTimeout, SessionInv, MotionDriven
  <2>2. pc' \in MotionPcs => pc' = "failed" /\ pc \notin {"startRecv", "readIdle"}
    BY <1>14 DEF ReceiveTimeout, AfterFailedCancel
  <2>. QED  BY <2>1, <2>2 DEF UdpWaits
<1>15. CASE \E m \in DOMAIN published : AcceptState("ctl", m)
  <2>1. pc \in UdpWaits /\ pc' = AfterReceive
    BY <1>15 DEF AcceptState, SessionInv, MotionDriven
  <2>. QED  BY <2>1 DEF AfterReceive, UdpWaits
<1>. QED
  BY <1>1, <1>2, <1>3, <1>4, <1>5, <1>6, <1>7, <1>8, <1>9, <1>10, <1>11, <1>12, <1>13,
     <1>14, <1>15 DEF ControlStep, ControlCall, Receive, Receivers
LEMMA OutcomeStays ==
  ASSUME [Next]_vars  PROVE outcome \subseteq outcome'
<1>. USE DEF Report, clientVars
<1>1. CASE ControlStep
  <2>1. CASE MotionStarted \/ AwaitModes \/ LoopStart \/ CheckState \/ MotionError
    BY <2>1 DEF MotionStarted, AwaitModes, LoopStart, CheckState, MotionError
  <2>2. CASE FinishCheck \/ FinishResponse
    BY <2>2 DEF FinishCheck, FinishResponse, SendCommand
  <2>3. CASE CancelFailed \/ CancelAnswered \/ DrainCheck \/ WaitBroken \/ Recovered
    BY <2>3 DEF CancelFailed, CancelAnswered, DrainCheck, WaitBroken, Recovered
  <2>. QED  BY <1>1, <2>1, <2>2, <2>3 DEF ControlStep
<1>2. CASE ControlCall
  <2>1. CASE \/ StartRefused \/ ReadIdle \/ Recover \/ ReadOnce \/ Abandon
             \/ \E k \in Kinds, a \in Apis : Start(k, a)
    BY <2>1 DEF StartRefused, ReadIdle, Recover, ReadOnce, Abandon, Start
  <2>2. CASE WriteOnce \/ LoopUpdate \/ Finish
    BY <2>2 DEF WriteOnce, LoopUpdate, Finish, SendCommand
  <2>. QED  BY <1>2, <2>1, <2>2 DEF ControlCall
<1>3. CASE ReadSocket \/ OtherThreads \/ \E t \in Receivers : Receive(t)
  BY <1>3 DEF ReadSocket, OtherThreads, StopCall, StopReturns, MonitorRead, Receive,
     ReceiveTimeout, AcceptState
<1>4. CASE RobotServes \/ RobotMoves \/ RobotFails
  BY <1>4 DEF RobotServes, RobotMoves, RobotFails, ServeMove, ServeStop, ServeRecover,
     SendFinal, MotionRuns, MotionFinishes, MotionStops, Publish, Reflex, CloseConnection,
     LostClient
<1>5. CASE UNCHANGED vars
  BY <1>5 DEF vars
<1>. QED  BY <1>1, <1>2, <1>3, <1>4, <1>5 DEF Next

(* The client's steps other than Start keep what is known of the states.   *)
LEMMA HistoryClient ==
  ASSUME TypeOK, TypeOK', SessionInv, StatesInv, HistoryInv, ~AStartFailed, ~AStartFailed',
         ClientStep, Proceeds, messageId' >= messageId
  PROVE  HistoryInv'
<1>1. /\ UNCHANGED <<motion, srv, published>>
      /\ conn' = "up" => conn = "up"
      /\ conn' # "broken" => conn # "broken"
  BY DEF ClientStep, srvVars, Polls, Sends, SendRequest, Breaks
<1>2. /\ messageId \in Nat /\ messageId' \in Nat /\ DOMAIN published \subseteq Nat
      /\ \A i : RunsAt(i)' <=> RunsAt(i)
      /\ CurrentRuns' <=> CurrentRuns
  BY <1>1, PublishedTypes DEF TypeOK, RunsAt, CurrentRuns
<1>3. SeenMotion => SeenMotion'
  BY <1>1, <1>2 DEF SeenMotion
<1>4. Quiet => Quiet'
  BY <1>1, <1>2 DEF Quiet
<1>5. OnlyOwnRuns => OnlyOwnRuns'
  BY <1>1, <1>2 DEF OnlyOwnRuns
<1>. HIDE DEF SeenMotion, Quiet, OnlyOwnRuns
<1>6. ASSUME pc' \in MotionPcs \ StartingPcs  PROVE SeenMotion'
  <2>1. CASE pc \in MotionPcs \ StartingPcs
    BY <1>3, <2>1 DEF HistoryInv
  <2>2. CASE pc = "starting" /\ view = move
    <3>1. messageId \in DOMAIN published /\ RunsAt(messageId)
      BY <2>2 DEF SessionInv, MotionDriven, MotionPcs, StatesInv, ViewIsPublished, RunsAt
    <3>2. OnlyOwnRuns
      BY <2>2 DEF HistoryInv, StartingPcs, MotionPcs
    <3>3. published[messageId].motion = motion
      BY <1>2, <3>1, <3>2 DEF OnlyOwnRuns
    <3>4. SeenMotion
      BY <1>2, <3>1, <3>3 DEF SeenMotion
    <3>. QED  BY <1>3, <3>4
  <2>. QED  BY <1>6, <2>1, <2>2 DEF Proceeds
<1>7. ASSUME conn' = "up", pc' \notin MotionPcs  PROVE Quiet' \/ (RejectsStop /\ SeenMotion')
  <2>1. CASE pc \notin MotionPcs
    BY <1>1, <1>3, <1>4, <1>7, <2>1 DEF HistoryInv
  <2>2. CASE pc \in MotionPcs \ StartingPcs /\ (~Running(view) \/ RejectsStop)
    <3>1. SeenMotion
      BY <2>2 DEF HistoryInv
    <3>. QED  BY <1>3, <1>4, <2>2, <3>1, SeenAtRestIsQuiet
  <2>. QED  BY <1>7, <2>1, <2>2 DEF Proceeds
<1>8. ASSUME pc' \in StartingPcs, pc' = "awaitStarted" => conn' # "broken"  PROVE OnlyOwnRuns'
  <2>1. pc \in StartingPcs /\ (pc = "awaitStarted" => conn # "broken")
    BY <1>1, <1>8 DEF ClientStep, Proceeds, StartingPcs
  <2>. QED  BY <1>5, <2>1 DEF HistoryInv
<1>. QED  BY <1>6, <1>7, <1>8 DEF HistoryInv

(* A new motion starts from quiet.                                         *)
LEMMA HistoryStart ==
  ASSUME TypeOK, TypeOK', StatesInv, HistoryInv, ~AStartFailed, NEW k, NEW a, Start(k, a)
  PROVE  HistoryInv'
<1>1. /\ pc' = "awaitStarted" /\ pc = "idle" /\ ~Running(view)
      /\ UNCHANGED <<srv, published, messageId>>
      /\ conn' # "broken" => conn = "up"
  BY DEF Start, SendRequest, srvVars, viewVars
<1>2. ASSUME conn' # "broken"  PROVE OnlyOwnRuns'
  <2>1. Quiet
    BY <1>1, <1>2, SeenAtRestIsQuiet DEF HistoryInv, MotionPcs
  <2>. QED  BY <1>1, <2>1 DEF OnlyOwnRuns, Quiet, CurrentRuns, RunsAt
<1>. QED  BY <1>1, <1>2 DEF HistoryInv, StartingPcs, MotionPcs

(* The robot publishes states of the thread's motion only.                 *)
LEMMA HistoryRobot ==
  ASSUME TypeOK, TypeOK', SessionInv, RestInv, StatesInv, HistoryInv, ~AStartFailed,
         RobotServes \/ RobotMoves \/ RobotFails
  PROVE  HistoryInv'
<1>1. UNCHANGED <<pc, motion, messageId>> /\ (conn' = "up" => conn = "up")
      /\ (conn' # "broken" => conn # "broken")
  BY RobotStepIsRobot DEF RobotStep, clientVars, ctlVars, viewVars
<1>2. /\ PhaseStep
      /\ \/ published' = published
         \/ conn = "up" /\ published' = Append(published, CurrentState) /\ srv' = srv
  BY RobotPhases DEF RestInv
<1>3. PICK n \in Nat : n = Len(published) + 1
  BY PublishedTypes
<1>4. /\ DOMAIN published \subseteq DOMAIN published' /\ DOMAIN published \subseteq Nat
      /\ \A i \in DOMAIN published : published'[i] = published[i] /\ i < n
      /\ \A i \in DOMAIN published' :
           i \in DOMAIN published \/ (i = n /\ published'[n] = CurrentState /\ conn = "up")
  BY <1>2, <1>3, CurrentStateType, AppendElements, PublishedTypes
<1>5. /\ \A i \in DOMAIN published : RunsAt(i)' <=> RunsAt(i)
      /\ \A i \in DOMAIN published' : i \notin DOMAIN published /\ RunsAt(i)' =>
           CurrentRuns /\ published'[i].motion = srv.id /\ conn = "up"
  BY <1>4, CurrentStateRuns DEF RunsAt, CurrentRuns
<1>6. conn' = "up" /\ CurrentRuns' =>
        srv'.id = srv.id /\ (CurrentRuns \/ (conn = "up" /\ Moving))
  BY <1>1, <1>2 DEF PhaseStep, CurrentRuns, Moving
<1>7. SeenMotion => SeenMotion'
  BY <1>1, <1>4, <1>5 DEF SeenMotion
<1>8. Moving /\ conn = "up" => srv.id = motion /\ pc \in MotionPcs
  BY DEF RestInv, MovingIsOwn
<1>9. ASSUME conn' = "up", pc \notin MotionPcs, Quiet  PROVE Quiet'
  BY <1>1, <1>4, <1>5, <1>6, <1>8, <1>9 DEF Quiet
<1>10. ASSUME OnlyOwnRuns  PROVE OnlyOwnRuns'
  BY <1>1, <1>4, <1>5, <1>6, <1>8, <1>10 DEF OnlyOwnRuns
<1>. QED  BY <1>1, <1>7, <1>9, <1>10 DEF HistoryInv
LEMMA HistoryStep ==
  ASSUME Monitors = {}, TypeOK, TypeOK', SnapFresh, SessionInv, ActiveIsRunning, RestInv,
         StatesInv, HistoryInv, [Next]_vars
  PROVE  HistoryInv'
<1>1. AStartFailed => AStartFailed'
  BY OutcomeStays DEF AStartFailed
<1>. SUFFICES ASSUME ~AStartFailed, ~AStartFailed'  PROVE HistoryInv'
  BY <1>1 DEF HistoryInv
<1>2. messageId' >= messageId
  <2>1. messageId \in Nat /\ messageId' \in Nat /\ [messageId' > messageId]_messageId
    BY SnapFreshStep DEF TypeOK
  <2>. QED  BY <2>1
<1>3. CASE \E k \in Kinds, a \in Apis : Start(k, a)
  BY <1>3, HistoryStart
<1>4. CASE \/ ControlStep
           \/ ControlCall /\ ~\E k \in Kinds, a \in Apis : Start(k, a)
           \/ ReadSocket \/ OtherThreads \/ \E t \in Receivers : Receive(t)
  <2>1. ClientStep /\ Proceeds
    BY <1>4, ControlStepIsClient, OtherClientSteps, ControlProceeds DEF SessionInv
  <2>. QED  BY <1>2, <2>1, HistoryClient
<1>5. CASE RobotServes \/ RobotMoves \/ RobotFails
  BY <1>5, HistoryRobot
<1>6. CASE UNCHANGED vars
  BY <1>6 DEF vars, tcpVars, viewVars, ctlVars, srvVars, HistoryInv, SeenMotion, Quiet,
     OnlyOwnRuns, AStartFailed, CurrentRuns, RunsAt
<1>. QED  BY <1>3, <1>4, <1>5, <1>6 DEF Next

(* A command that is sent carries the number of the last state, and the    *)
(* thread sends one only while that state shows a motion.                  *)
LEMMA CommandsAreNew ==
  ASSUME TypeOK, SessionInv, ActiveIsRunning, [Next]_vars
  PROVE  \A c \in commands' :
           \/ c \in commands
           \/ /\ c.mid = messageId /\ c.motion = motion
              /\ pc \in MotionPcs \ StartingPcs /\ Running(view)
<1>. USE DEF MotionPcs, StartingPcs
<1>1. pc = "active" => Running(view)
  BY DEF SessionInv, MotionDriven, ActiveIsRunning
<1>2. ASSUME NEW f \in BOOLEAN, NEW p, SendCommand(f, p)
      PROVE  \A c \in commands' : c \in commands \/ (c.mid = messageId /\ c.motion = motion)
  BY <1>2 DEF SendCommand
<1>3. CASE FinishCheck
  <2>1. CASE Running(view)
    BY <1>2, <1>3, <2>1 DEF FinishCheck
  <2>2. CASE ~Running(view)
    BY <1>3, <2>2 DEF FinishCheck
  <2>. QED  BY <2>1, <2>2
<1>4. CASE WriteOnce \/ LoopUpdate
  BY <1>1, <1>2, <1>4 DEF WriteOnce, LoopUpdate
<1>5. CASE Finish
  <2>1. commands' = commands \/ SendCommand(TRUE, "finishing")
    BY <1>5 DEF Finish
  <2>. QED  BY <1>1, <1>2, <1>5, <2>1 DEF Finish
<1>6. CASE ControlStep /\ ~FinishCheck
  BY <1>6 DEF ControlStep, MotionStarted, AwaitModes, LoopStart, CheckState, MotionError,
     FinishResponse, CancelFailed, CancelAnswered, DrainCheck, WaitBroken, Recovered
<1>7. CASE ControlCall /\ ~(WriteOnce \/ LoopUpdate \/ Finish)
  BY <1>7 DEF ControlCall, Start, StartRefused, ReadIdle, Recover, ReadOnce, Abandon
<1>8. CASE ReadSocket \/ OtherThreads \/ \E t \in Receivers : Receive(t)
  BY <1>8 DEF ReadSocket, OtherThreads, StopCall, StopReturns, MonitorRead, Receive,
     ReceiveTimeout, AcceptState
<1>9. CASE RobotServes \/ RobotMoves \/ RobotFails
  BY <1>9, RobotStepIsRobot DEF RobotStep, clientVars
<1>10. CASE UNCHANGED vars
  BY <1>10 DEF vars
<1>. QED  BY <1>3, <1>4, <1>5, <1>6, <1>7, <1>8, <1>9, <1>10 DEF Next

LEMMA PublishedStays ==
  ASSUME TypeOK, SessionInv, MoveIsOwn, [Next]_vars
  PROVE  \A i \in DOMAIN published : i \in DOMAIN published' /\ published'[i] = published[i]
<1>1. CASE RobotServes \/ RobotMoves \/ RobotFails
  BY <1>1, RobotPhases, CurrentStateType, AppendElements, PublishedTypes
<1>2. CASE \E k \in Kinds, a \in Apis : Start(k, a)
  BY <1>2 DEF Start, srvVars
<1>3. CASE UNCHANGED vars
  BY <1>3 DEF vars, srvVars
<1>. QED
  BY <1>1, <1>2, <1>3, ControlStepIsClient, OtherClientSteps
     DEF Next, ClientStep, srvVars, SessionInv

LEMMA CommandAttributableStep ==
  ASSUME Monitors = {}, TypeOK, SessionInv, ActiveIsRunning, RestInv, StatesInv, HistoryInv,
         CommandAttributable, [Next]_vars
  PROVE  CommandAttributable'
<1>. SUFFICES ASSUME NEW c \in commands'
              PROVE  /\ c.mid \in DOMAIN published'
                     /\ AStartFailed' \/ published'[c.mid].motion = c.motion
  BY DEF CommandAttributable
<1>1. AStartFailed => AStartFailed'
  BY OutcomeStays DEF AStartFailed
<1>2. c.mid \in DOMAIN published /\ (AStartFailed \/ published[c.mid].motion = c.motion)
  <2>1. CASE c \in commands
    BY <2>1 DEF CommandAttributable
  <2>2. CASE /\ c.mid = messageId /\ c.motion = motion
             /\ pc \in MotionPcs \ StartingPcs /\ Running(view)
    BY <2>2, SeenRunningIsOwn DEF HistoryInv, StatesInv, ViewIsPublished
  <2>. QED  BY <2>1, <2>2, CommandsAreNew
<1>. QED  BY <1>1, <1>2, PublishedStays DEF RestInv

RobotInv ==
  /\ SnapFresh /\ SessionInv /\ ActiveIsRunning /\ RestInv
  /\ StatesInv /\ HistoryInv

LEMMA RobotInvInit == ConstantsAssumption => (Init => RobotInv)
<1>. SUFFICES ASSUME ConstantsAssumption, Init  PROVE RobotInv
  OBVIOUS
<1>1. SnapFresh /\ SessionInv /\ ActiveIsRunning /\ RestInv
  BY SessionInvInit, RestInvInit DEF Init, SnapFresh, Receivers, ActiveIsRunning
<1>2. ~Running(IdleMode)
  BY DEF IdleMode, Running, MotionGeneratorRunning, ControllerRunning
<1>3. /\ DOMAIN published = {1} /\ published[1] = IdleState
      /\ IdleState.motion = 0 /\ IdleState.mode = IdleMode
  BY DEF Init, IdleState
<1>4. ~CurrentRuns /\ ~RunsAt(1)
  BY <1>2, <1>3 DEF Init, CurrentRuns, RunsAt
<1>5. StatesInv
  BY <1>3, <1>4 DEF Init, StatesInv, ViewIsPublished, StatesInOrder, RunsThrough, RunsUntilNow
<1>6. HistoryInv
  BY <1>3, <1>4 DEF Init, HistoryInv, Quiet, MotionPcs, StartingPcs
<1>. QED  BY <1>1, <1>5, <1>6 DEF RobotInv

LEMMA RobotInvStep ==
  ASSUME Monitors = {}, TypeOK, RobotInv, [Next]_vars  PROVE RobotInv'
<1>1. ConstantsAssumption /\ TypeOK'
  BY ConstantsAssumption, TypeStep
<1>2. SnapFresh' /\ SessionInv' /\ ActiveIsRunning'
  BY <1>1, SnapFreshStep, SessionInvStep, ActiveIsRunningStep DEF RobotInv
<1>3. RestInv'
  BY <1>1, MoveIsOwnStep, MovingIsOwnStep, ViewAtRestStep, StopIsServedStep DEF RobotInv, RestInv
<1>4. StatesInv' /\ HistoryInv'
  BY <1>1, StatesStep, HistoryStep DEF RobotInv, RestInv
<1>. QED  BY <1>2, <1>3, <1>4 DEF RobotInv

(* With one receiving thread, and until a start has failed, every command  *)
(* names by its message id a state that the robot published while it       *)
(* executed the motion the command is for (Robot::Impl::sendMotionCommand).*)
THEOREM CommandsNameTheirMotion ==
  ASSUME Monitors = {}
  PROVE  Spec => []CommandAttributable
<1> DEFINE Inv == RobotInv /\ CommandAttributable
<1>1. Init => Inv
  BY ConstantsAssumption, RobotInvInit DEF Init, CommandAttributable
<1>2. TypeOK /\ Inv /\ [Next]_vars => Inv'
  BY RobotInvStep, CommandAttributableStep DEF RobotInv
<1>3. Inv => CommandAttributable
  OBVIOUS
<1>. QED  BY <1>1, <1>2, <1>3, TypeCorrect, PTL DEF Spec

(* What is refused, or thrown by a destructor, has a cause.                *)
LEMMA FailuresHaveCauseStep ==
  ASSUME Monitors = {}, ~RejectsStop, TypeOK, RobotInv, FailuresHaveCause, [Next]_vars
  PROVE  FailuresHaveCause'
<1>. USE DEF RobotInv
<1>1. (conn' = "up" => conn = "up") /\ (conn = "broken" => conn' = "broken")
  <2>1. CASE \E k \in Kinds, a \in Apis : Start(k, a)
    BY <2>1 DEF Start, SendRequest
  <2>2. CASE ClientStep
    BY <2>2 DEF ClientStep, Polls, Sends, SendRequest, Breaks
  <2>3. CASE RobotStep
    BY <2>3 DEF RobotStep
  <2>4. CASE UNCHANGED vars
    BY <2>4 DEF vars, tcpVars
  <2>. QED
    BY <2>1, <2>2, <2>3, <2>4, ControlStepIsClient, OtherClientSteps, RobotStepIsRobot
       DEF Next, SessionInv
<1>2. AStartFailed => AStartFailed'
  BY OutcomeStays DEF AStartFailed
<1>3. CASE StartRefused
  <2>1. conn = "up" => AStartFailed
    BY <1>3 DEF StartRefused, HistoryInv, MotionPcs, Quiet, StatesInv, ViewIsPublished, RunsAt,
       TypeOK
  <2>. QED
    BY <1>1, <1>2, <1>3, <2>1 DEF FailuresHaveCause, RefusedOnlyAfterFailedStart,
       DestructorThrowsOnlyOnLoss, StartRefused, ctlVars, tcpVars
<1>4. ~StartRefused => \A o \in outcome' : o.result = "refused" => o \in outcome
  <2>. USE DEF Report, clientVars
  <2>1. CASE MotionStarted \/ AwaitModes \/ LoopStart \/ CheckState \/ MotionError
    BY <2>1 DEF MotionStarted, AwaitModes, LoopStart, CheckState, MotionError
  <2>2. CASE FinishCheck \/ FinishResponse \/ WriteOnce \/ LoopUpdate \/ Finish
    BY <2>2 DEF FinishCheck, FinishResponse, WriteOnce, LoopUpdate, Finish, SendCommand
  <2>3. CASE CancelFailed \/ CancelAnswered \/ DrainCheck \/ WaitBroken \/ Recovered
    BY <2>3 DEF CancelFailed, CancelAnswered, DrainCheck, WaitBroken, Recovered
  <2>4. CASE \/ ReadIdle \/ Recover \/ ReadOnce \/ Abandon
             \/ \E k \in Kinds, a \in Apis : Start(k, a)
    BY <2>4 DEF ReadIdle, Recover, ReadOnce, Abandon, Start
  <2>5. CASE ReadSocket \/ OtherThreads \/ \E t \in Receivers : Receive(t)
    BY <2>5 DEF ReadSocket, OtherThreads, StopCall, StopReturns, MonitorRead, Receive,
       ReceiveTimeout, AcceptState
  <2>6. CASE RobotServes \/ RobotMoves \/ RobotFails
    BY <2>6, RobotStepIsRobot DEF RobotStep
  <2>7. CASE UNCHANGED vars
    BY <2>7 DEF vars
  <2>. QED
    BY <2>1, <2>2, <2>3, <2>4, <2>5, <2>6, <2>7 DEF Next, ControlStep, ControlCall
<1>5. pc' = "terminated" => conn' = "broken" \/ pc = "terminated"
  <2>1. CASE \E k \in Kinds, a \in Apis : Start(k, a)
    BY <2>1 DEF Start
  <2>2. CASE RobotServes \/ RobotMoves \/ RobotFails
    BY <2>2, RobotStepIsRobot DEF RobotStep, clientVars, ctlVars
  <2>3. CASE UNCHANGED vars
    BY <2>3 DEF vars, ctlVars
  <2>. QED  BY <2>1, <2>2, <2>3, ControlProceeds DEF Next, Proceeds
<1>. QED
  BY <1>1, <1>2, <1>3, <1>4, <1>5 DEF FailuresHaveCause, RefusedOnlyAfterFailedStart,
     DestructorThrowsOnlyOnLoss

(* With one receiving thread, and a robot that accepts every StopMove, a   *)
(* start is refused on a connection that is up only if an earlier one      *)
(* failed, and the destructor of ActiveControl lets an exception escape    *)
(* only when the connection is lost.                                       *)
THEOREM NothingFailsWithoutCause ==
  ASSUME Monitors = {}, ~RejectsStop
  PROVE  Spec => []FailuresHaveCause
<1> DEFINE Inv == RobotInv /\ FailuresHaveCause
<1>1. Init => Inv
  BY ConstantsAssumption, RobotInvInit DEF Init, FailuresHaveCause, RefusedOnlyAfterFailedStart,
     DestructorThrowsOnlyOnLoss
<1>2. TypeOK /\ Inv /\ [Next]_vars => Inv'
  BY RobotInvStep, FailuresHaveCauseStep
<1>3. Inv => FailuresHaveCause
  OBVIOUS
<1>. QED  BY <1>1, <1>2, <1>3, TypeCorrect, PTL DEF Spec

=============================================================================
