------------------------ MODULE ActionServersProofs ------------------------
(***************************************************************************)
(* Each server keeps an invariant: SpineInv, PtpInv, GripperInv.           *)
(* The servers share nothing but `running', which only PtpInv looks at, so *)
(* that a step of one leaves the invariants of the others alone.  From the *)
(* three follow the safety properties of ActionServers, and that each step *)
(* is a step of ActionGoal: it changes what the clients see of one goal at *)
(* most, in a way that Allowed describes.                                  *)
(***************************************************************************)
EXTENDS ActionServers, TLAPS

---------------------------------------------------------------------------
(* A step of one goal is a step of ActionGoal.                             *)

Allowed(before, after) ==
  \/ before = after
  \/ before = "new" /\ after \in {"executing", "rejected"}
  \/ before = "executing" /\ after = "canceling"
  \/ before \in {"executing", "canceling"} /\ after \in {"succeeded", "aborted"}
  \/ before = "canceling" /\ after = "canceled"

LEMMA OneGoalSteps ==
  ASSUME NEW g \in AllGoals, \A h \in AllGoals \ {g} : Life'[h] = Life[h],
         Allowed(Life[g], Life'[g])
  PROVE  [Contract!Next]_Life
<1> DEFINE s == Life'[g]
<1>1. Life' = [Life EXCEPT ![g] = s]
  BY DEF Life, AllGoals, PTP!GoalIds
<1>2. CASE Life[g] = s
  BY <1>1, <1>2 DEF Life
<1>3. CASE Life[g] # s
  BY <1>1, <1>3
  DEF Allowed, Contract!Next, Contract!Respond, Contract!RequestCancel, Contract!End,
      Contract!Becomes
<1> QED BY <1>2, <1>3

---------------------------------------------------------------------------
(* The spine.                                                              *)

SpineTyped ==
  /\ phase \in [Goals -> {"new", "rejected", "waiting", "start", "poll", "state",
                          "ended", "over"}]
  /\ cancel \in [Goals -> BOOLEAN]
  /\ result \in [Goals -> {"none", "success", "failed", "cancelled"}]

(* A goal has a result when its motion has ended, and one that was         *)
(* cancelled was asked to be.                                              *)
SpineGoals ==
  \A g \in Goals :
    /\ phase[g] \in {"new", "rejected"} => ~cancel[g]
    /\ phase[g] \in {"ended", "over"} => result[g] # "none"
    /\ result[g] = "cancelled" => cancel[g]

SpineInv == SpineTyped /\ SpineGoals /\ Spine!OneMotion

LEMMA SpineInit == Spine!Init => SpineInv
  BY DEF Spine!Init, SpineInv, SpineTyped, SpineGoals, Spine!OneMotion, Spine!Moving

LEMMA SpineKeeps ==
  ASSUME SpineInv, NEW g \in Goals, Spine!GoalNext(g)
  PROVE  SpineInv'
<1> USE ConstantsAssumption
    DEF SpineInv, SpineTyped, SpineGoals, Spine!OneMotion, Spine!Moving
<1>1. CASE Spine!Accept(g) BY <1>1 DEF Spine!Accept
<1>2. CASE Spine!Reject(g) BY <1>2 DEF Spine!Reject
<1>3. CASE Spine!Cancel(g) BY <1>3 DEF Spine!Cancel
<1>4. CASE Spine!Lock(g) BY <1>4 DEF Spine!Lock
<1>5. CASE Spine!StartMotion(g) BY <1>5 DEF Spine!StartMotion
<1>6. CASE Spine!StartFails(g) BY <1>6 DEF Spine!StartFails, Spine!Returns
<1>7. CASE Spine!PollInactive(g) BY <1>7 DEF Spine!PollInactive, Spine!Returns
<1>8. CASE Spine!PollCancelled(g) BY <1>8 DEF Spine!PollCancelled, Spine!Returns
<1>9. CASE Spine!PollPosition(g) BY <1>9 DEF Spine!PollPosition, Spine!Returns
<1>10. CASE Spine!PollPositionFails(g) BY <1>10 DEF Spine!PollPositionFails
<1>11. CASE Spine!PollFault(g) BY <1>11 DEF Spine!PollFault, Spine!Returns
<1>12. CASE Spine!PollState(g) BY <1>12 DEF Spine!PollState
<1>13. CASE Spine!Finish(g) BY <1>13 DEF Spine!Finish
<1> QED
  BY <1>1, <1>2, <1>3, <1>4, <1>5, <1>6, <1>7, <1>8, <1>9, <1>10, <1>11, <1>12, <1>13
  DEF Spine!GoalNext

(* The services, the spine and the shutdown leave the goals alone.         *)
LEMMA SpineElse ==
  ASSUME Spine!Services \/ Spine!SpineNext \/ Spine!Shutdown
  PROVE  UNCHANGED <<phase, cancel, result, lock>>
  BY DEF Spine!Services, Spine!SpineNext, Spine!Shutdown, Spine!HaltService, Spine!SwitchOn,
         Spine!SwitchOff, Spine!FaultReset, Spine!Service, Spine!SpineMoves,
         Spine!SpineFaults, Spine!SpineStops, Spine!goalVars

LEMMA SpineLife ==
  ASSUME node = "spine"
  PROVE  \A g \in AllGoals : Life[g] = IF g \in Goals THEN SpineStatus(g) ELSE "new"
  BY DEF Life, GoalStatus, AllGoals

LEMMA SpineRefines ==
  ASSUME SpineInv, NEW g \in Goals, Spine!GoalNext(g),
         node = "spine", UNCHANGED node
  PROVE  [Contract!Next]_Life
<1>1. \A h \in Goals \ {g} : SpineStatus(h)' = SpineStatus(h)
  BY DEF SpineInv, SpineTyped, SpineStatus, Spine!GoalNext, Spine!Accept, Spine!Reject,
         Spine!Cancel, Spine!Lock,
         Spine!StartMotion, Spine!StartFails, Spine!PollInactive, Spine!PollCancelled,
         Spine!PollPosition, Spine!PollPositionFails, Spine!PollFault, Spine!PollState,
         Spine!Finish, Spine!Returns
<1>2. Allowed(SpineStatus(g), SpineStatus(g)')
  <2> USE DEF SpineInv, SpineTyped, SpineGoals, SpineStatus, Allowed
  <2>1. CASE Spine!Accept(g) BY <2>1 DEF Spine!Accept
  <2>2. CASE Spine!Reject(g) BY <2>2 DEF Spine!Reject
  <2>3. CASE Spine!Cancel(g) BY <2>3 DEF Spine!Cancel
  <2>4. CASE Spine!Lock(g) BY <2>4 DEF Spine!Lock
  <2>5. CASE Spine!StartMotion(g) BY <2>5 DEF Spine!StartMotion
  <2>6. CASE Spine!StartFails(g) BY <2>6 DEF Spine!StartFails, Spine!Returns
  <2>7. CASE Spine!PollInactive(g) BY <2>7 DEF Spine!PollInactive, Spine!Returns
  <2>8. CASE Spine!PollCancelled(g) BY <2>8 DEF Spine!PollCancelled, Spine!Returns
  <2>9. CASE Spine!PollPosition(g) BY <2>9 DEF Spine!PollPosition, Spine!Returns
  <2>10. CASE Spine!PollPositionFails(g) BY <2>10 DEF Spine!PollPositionFails
  <2>11. CASE Spine!PollFault(g) BY <2>11 DEF Spine!PollFault, Spine!Returns
  <2>12. CASE Spine!PollState(g) BY <2>12 DEF Spine!PollState
  <2>13. CASE Spine!Finish(g) BY <2>13 DEF Spine!Finish
  <2> QED
    BY <2>1, <2>2, <2>3, <2>4, <2>5, <2>6, <2>7, <2>8, <2>9, <2>10, <2>11, <2>12, <2>13
    DEF Spine!GoalNext
<1>3. \A h \in AllGoals : Life'[h] = IF h \in Goals THEN SpineStatus(h)' ELSE "new"
  BY DEF Life, GoalStatus, AllGoals
<1> QED
  BY <1>1, <1>2, <1>3, SpineLife, OneGoalSteps DEF AllGoals

---------------------------------------------------------------------------
(* The point-to-point motions.                                             *)

PtpTyped ==
  /\ goal \in 0 .. MaxGoals
  /\ server \in {"idle", "start", "execute", "poll", "gone", "ended"}
  /\ outcome \in [PTP!GoalIds -> {"none", "succeeded", "aborted"}]
  /\ basis \in [PTP!GoalIds -> PTP!GoalIds \cup {0}]
  /\ handler \in 0 .. goal /\ motionId \in 0 .. goal
  /\ thread \in [PTP!GoalIds -> {"none", "set", "loop", "return", "done"}]
  /\ uses \in [PTP!GoalIds -> PTP!GoalIds \cup {0}]
  /\ report \in [PTP!GoalIds -> PTP!Feedbacks] /\ last \in PTP!Feedbacks
  /\ control \subseteq PTP!GoalIds

(* The goals to come are untouched, and so is the answer to the one that is*)
(* served.                                                                 *)
Unanswered ==
  /\ \A g \in PTP!GoalIds : g > goal => outcome[g] = "none"
  /\ server \in {"start", "execute", "poll"} => goal > 0 /\ outcome[goal] = "none"

(* Only the last motion can have a future, so that a handler is given up   *)
(* with it.                                                                *)
OneFuture ==
  /\ futures \subseteq {motionId} \ {0}
  /\ server \in {"start", "execute"} => motionId < goal
  /\ server = "poll" => motionId = goal

(* While the node is there a thread ends with its own feedback; last_      *)
(* feedback_ is taken as it is only when the node is destroyed.            *)
OwnReport ==
  /\ node = "ptp" /\ server \notin {"gone", "ended"} => running
  /\ server \notin {"gone", "ended"} =>
       \A g \in PTP!GoalIds : thread[g] \in {"return", "done"} =>
         report[g].motion = g /\ report[g].status \in {"aborted", "reached"}

(* A handler is named after the goal that made it.                         *)
EarlierHandler == \A g \in PTP!GoalIds : uses[g] <= g

PtpInv ==
  PtpTyped /\ Unanswered /\ OneFuture /\ OwnReport /\ EarlierHandler /\ PTP!SuccessIsOwn

LEMMA PtpInit == PTP!Init => PtpInv
  BY ConstantsAssumption
  DEF PTP!Init, PtpInv, PtpTyped, Unanswered, OneFuture, OwnReport, EarlierHandler,
      PTP!SuccessIsOwn, PTP!GoalIds, PTP!NoMotion, PTP!Feedback, PTP!Feedbacks, PTP!Statuses

LEMMA PtpKeeps ==
  ASSUME PtpInv, PTP!Next, node = "ptp", UNCHANGED node
  PROVE  PtpInv'
<1> USE ConstantsAssumption
    DEF PtpInv, PtpTyped, Unanswered, OneFuture, OwnReport, EarlierHandler, PTP!SuccessIsOwn,
        PTP!GoalIds, PTP!NoMotion, PTP!Feedback, PTP!Feedbacks, PTP!Statuses,
        PTP!serverVars, PTP!motionVars, PTP!threadVars, PTP!controlVars, PTP!robotVars
<1>1. CASE PTP!Accept BY <1>1 DEF PTP!Accept
<1>2. CASE PTP!Configure BY <1>2 DEF PTP!Configure
<1>3. CASE PTP!ConfigureFails BY <1>3 DEF PTP!ConfigureFails, PTP!Over
<1>4. CASE PTP!KeepHandler BY <1>4 DEF PTP!KeepHandler
<1>5. CASE PTP!WrongSize
  <2>1. control' \subseteq control BY <1>5 DEF PTP!WrongSize, PTP!ControlBecomes
  <2>2. PtpTyped' /\ Unanswered' /\ OneFuture' /\ OwnReport' /\ EarlierHandler'
    BY <1>5, <2>1 DEF PTP!WrongSize, PTP!Over
  <2>3. PTP!SuccessIsOwn' BY <1>5, <2>1 DEF PTP!WrongSize, PTP!Over
  <2> QED BY <2>2, <2>3
<1>6. CASE PTP!Execute BY <1>6 DEF PTP!Execute
<1>7. CASE PTP!PollWorking BY <1>7 DEF PTP!PollWorking, PTP!Over
<1>8. CASE PTP!PollReady
  <2>1. /\ goal \in PTP!GoalIds /\ outcome[goal] = "none" /\ report[goal].motion = goal
        /\ server = "poll" /\ server' = "idle" /\ thread[goal] = "done"
        /\ futures' = {} /\ handler' = 0
        /\ UNCHANGED <<goal, motionId, running, last, thread, uses, report>>
    <3>1. /\ goal \in PTP!GoalIds /\ outcome[goal] = "none"
          /\ server = "poll" /\ thread[goal] = "done"
          /\ futures' = futures \ {goal} /\ handler' = 0
          /\ UNCHANGED <<goal, motionId, running, last, thread, uses, report>>
      BY <1>8 DEF PTP!PollReady
    <3>2. report[goal].motion = goal /\ report[goal].status \in {"aborted", "reached"}
      BY <3>1
    <3>3. CASE report[goal].status = "aborted"
      BY <1>8, <3>1, <3>2, <3>3 DEF PTP!PollReady, PTP!Over
    <3>4. CASE report[goal].status = "reached"
      BY <1>8, <3>1, <3>2, <3>4 DEF PTP!PollReady, PTP!Over
    <3> QED BY <3>2, <3>3, <3>4
  <2>2. control' = {} BY <1>8, <2>1 DEF PTP!PollReady, PTP!ControlBecomes, PTP!Referred
  <2>3. \E o \in {"succeeded", "aborted"} :
          outcome' = [outcome EXCEPT ![goal] = o] /\ basis' = [basis EXCEPT ![goal] = goal]
    BY <1>8, <2>1 DEF PTP!PollReady, PTP!Over
  <2> QED BY <2>1, <2>2, <2>3
<1>9. CASE PTP!Reach BY <1>9 DEF PTP!Reach
<1>10. CASE PTP!Reflex BY <1>10 DEF PTP!Reflex
<1>11. CASE PTP!Recover BY <1>11 DEF PTP!Recover
<1>12. CASE PTP!ReadState BY <1>12 DEF PTP!ReadState
<1>13. CASE PTP!Destroy BY <1>13 DEF PTP!Destroy
<1>14. CASE PTP!Joined BY <1>14 DEF PTP!Joined, PTP!ControlBecomes
<1>15. ASSUME NEW g \in PTP!GoalIds, PTP!Runs(g) PROVE PtpInv'
  <2>1. CASE PTP!SetTarget(g) BY <2>1 DEF PTP!SetTarget
  <2>2. CASE PTP!SetTargetFails(g) BY <2>2 DEF PTP!SetTargetFails, PTP!Returns
  <2>3. CASE PTP!Done(g) BY <2>3 DEF PTP!Done
  <2>4. CASE PTP!Observe(g) BY <2>4 DEF PTP!Observe
  <2>5. CASE PTP!ObserveAborted(g) BY <2>5 DEF PTP!ObserveAborted, PTP!Returns
  <2>6. CASE PTP!ObserveReached(g)
    <3>1. control' \subseteq control BY <2>6 DEF PTP!ObserveReached, PTP!ControlBecomes
    <3> QED BY <2>6, <3>1 DEF PTP!ObserveReached, PTP!Returns
  <2>7. CASE PTP!Leave(g) BY <2>7 DEF PTP!Leave, PTP!Returns
  <2> QED BY <1>15, <2>1, <2>2, <2>3, <2>4, <2>5, <2>6, <2>7 DEF PTP!Runs
<1> QED
  BY <1>1, <1>2, <1>3, <1>4, <1>5, <1>6, <1>7, <1>8, <1>9, <1>10, <1>11, <1>12, <1>13,
     <1>14, <1>15
  DEF PTP!Next, PTP!Serves, PTP!Robot

(* What a step does to the outcomes: it accepts the next goal, answers the *)
(* last one, or leaves them alone.                                         *)
LEMMA PtpOutcomes ==
  ASSUME PtpInv, PTP!Next, node = "ptp", UNCHANGED node
  PROVE  \/ goal' = goal + 1 /\ goal + 1 \in PTP!GoalIds /\ UNCHANGED outcome
         \/ /\ goal \in PTP!GoalIds /\ outcome[goal] = "none" /\ UNCHANGED goal
            /\ \E o \in {"succeeded", "aborted"} : outcome' = [outcome EXCEPT ![goal] = o]
         \/ UNCHANGED <<goal, outcome>>
<1> USE ConstantsAssumption
    DEF PtpInv, PtpTyped, Unanswered, PTP!GoalIds,
        PTP!serverVars, PTP!motionVars, PTP!threadVars, PTP!controlVars, PTP!robotVars
<1>1. CASE PTP!PollReady
  <2>1. goal \in PTP!GoalIds /\ outcome[goal] = "none" /\ UNCHANGED goal
    BY <1>1 DEF PTP!PollReady
  <2>2. report[goal].status \in {"aborted", "reached"}
    BY <1>1, <2>1 DEF PTP!PollReady, OwnReport
  <2>3. CASE report[goal].status = "aborted" BY <1>1, <2>1, <2>3 DEF PTP!PollReady, PTP!Over
  <2>4. CASE report[goal].status = "reached" BY <1>1, <2>1, <2>4 DEF PTP!PollReady, PTP!Over
  <2> QED BY <2>2, <2>3, <2>4
<1>2. CASE PTP!Accept BY <1>2 DEF PTP!Accept
<1>3. CASE PTP!ConfigureFails BY <1>3 DEF PTP!ConfigureFails, PTP!Over
<1>4. CASE PTP!WrongSize BY <1>4 DEF PTP!WrongSize, PTP!Over
<1>5. CASE PTP!PollWorking BY <1>5 DEF PTP!PollWorking, PTP!Over
<1>6. CASE \E g \in PTP!GoalIds : PTP!Runs(g)
  BY <1>6
  DEF PTP!Runs, PTP!SetTarget, PTP!SetTargetFails, PTP!Done, PTP!Observe,
      PTP!ObserveAborted, PTP!ObserveReached, PTP!Leave
<1>7. CASE PTP!Configure \/ PTP!KeepHandler \/ PTP!Execute \/ PTP!Destroy \/ PTP!Joined
  BY <1>7 DEF PTP!Configure, PTP!KeepHandler, PTP!Execute, PTP!Destroy, PTP!Joined
<1>8. CASE PTP!Robot
  BY <1>8 DEF PTP!Robot, PTP!Reach, PTP!Reflex, PTP!Recover, PTP!ReadState
<1> QED
  BY <1>1, <1>2, <1>3, <1>4, <1>5, <1>6, <1>7, <1>8 DEF PTP!Next, PTP!Serves

LEMMA PtpRefines ==
  ASSUME PtpInv, PTP!Next, node = "ptp", UNCHANGED node
  PROVE  [Contract!Next]_Life
<1>1. \A g \in AllGoals : Life[g] = IF g \in PTP!GoalIds THEN PtpStatus(g) ELSE "new"
  BY DEF Life, GoalStatus, AllGoals
<1>2. \A g \in AllGoals : Life'[g] = IF g \in PTP!GoalIds THEN PtpStatus(g)' ELSE "new"
  BY DEF Life, GoalStatus, AllGoals, PTP!GoalIds
<1>3. CASE goal' = goal + 1 /\ goal + 1 \in PTP!GoalIds /\ UNCHANGED outcome
  <2>1. \A g \in PTP!GoalIds \ {goal + 1} : PtpStatus(g)' = PtpStatus(g)
    BY <1>3 DEF PtpStatus, PtpInv, PtpTyped, PTP!GoalIds
  <2>2. PICK g \in PTP!GoalIds : g = goal + 1 BY <1>3
  <2>3. Allowed(PtpStatus(g), PtpStatus(g)')
    BY <1>3, <2>2 DEF PtpStatus, PtpInv, PtpTyped, Unanswered, PTP!GoalIds, Allowed
  <2> QED BY <1>1, <1>2, <2>1, <2>2, <2>3, OneGoalSteps DEF AllGoals
<1>4. CASE /\ goal \in PTP!GoalIds /\ outcome[goal] = "none" /\ UNCHANGED goal
           /\ \E o \in {"succeeded", "aborted"} : outcome' = [outcome EXCEPT ![goal] = o]
  <2>1. PICK g \in PTP!GoalIds : g = goal BY <1>4
  <2>2. \A h \in PTP!GoalIds \ {g} : PtpStatus(h)' = PtpStatus(h)
    BY <1>4, <2>1 DEF PtpStatus, PtpInv, PtpTyped
  <2>3. Allowed(PtpStatus(g), PtpStatus(g)')
    BY <1>4, <2>1 DEF PtpStatus, PtpInv, PtpTyped, PTP!GoalIds, Allowed
  <2> QED BY <1>1, <1>2, <2>2, <2>3, OneGoalSteps DEF AllGoals
<1>5. CASE UNCHANGED <<goal, outcome>>
  BY <1>5 DEF Life, GoalStatus, PtpStatus, AllGoals, PTP!GoalIds
<1> QED
  BY <1>3, <1>4, <1>5, PtpOutcomes

---------------------------------------------------------------------------
(* Putting a request at the end of a sequence and taking the first one.    *)

LEMMA AppendedLast ==
  ASSUME NEW S, NEW s \in Seq(S), NEW e \in S
  PROVE  /\ Append(s, e) \in Seq(S)
         /\ DOMAIN s = 1 .. Len(s) /\ Len(s) \in Nat
         /\ DOMAIN Append(s, e) = 1 .. Len(s) + 1
         /\ \A n \in DOMAIN s : Append(s, e)[n] = s[n] /\ s[n] \in S
         /\ Append(s, e)[Len(s) + 1] = e
  OBVIOUS

LEMMA TakenFirst ==
  ASSUME NEW S, NEW s \in Seq(S), s # <<>>
  PROVE  /\ Head(s) = s[1] /\ 1 \in DOMAIN s /\ s[1] \in S
         /\ Tail(s) \in Seq(S)
         /\ \A n \in DOMAIN Tail(s) :
              n \in Nat \ {0} /\ n + 1 \in DOMAIN s /\ Tail(s)[n] = s[n + 1] /\ s[n + 1] \in S
  OBVIOUS

---------------------------------------------------------------------------
(* The gripper.                                                            *)

Requests == [from : Goals \cup {NoGoal}, isStop : BOOLEAN]

GripperTyped ==
  /\ status \in [Goals -> {"new", "executing", "canceling"} \cup Gripper!Over]
  /\ gripperThread \in [Goals -> {"none", "check", "async", "loop", "waited", "stop",
                                  "get", "end"}]
  /\ future \in [Goals -> {"none", "send", "sent"} \cup Gripper!Results]
  /\ stop \in [Goals -> {"none", "sent", "answered"}]
  /\ inbox \in Seq(Requests)
  /\ busy \in Goals \cup {NoGoal}

(* Where the thread of a goal stands says what its handle may have become, *)
(* and whether its command and its stop have been sent.                    *)
ThreadAhead ==
  \A g \in Goals :
    /\ gripperThread[g] \in {"check", "async", "loop", "waited"} =>
         status[g] \in {"executing", "canceling"}
    /\ gripperThread[g] \in {"stop", "get"} => status[g] = "canceling"
    /\ status[g] = "new" \/ gripperThread[g] \in {"check", "async"} => future[g] = "none"
    /\ status[g] = "new" \/ gripperThread[g] \in {"check", "async", "loop", "waited"} =>
         stop[g] = "none"
    /\ gripperThread[g] = "get" => stop[g] = "answered"
    /\ status[g] \in Gripper!Over =>
         future[g] \in {"none"} \cup Gripper!Results /\ stop[g] # "sent"

(* What the gripper has not answered has been sent, and once.              *)
SentOnce ==
  /\ \A n \in DOMAIN inbox :
       /\ ~inbox[n].isStop =>
            /\ inbox[n].from \in Goals /\ busy # inbox[n].from
            /\ future[inbox[n].from] = "sent"
       /\ inbox[n].isStop /\ inbox[n].from # NoGoal => stop[inbox[n].from] = "sent"
  /\ \A m, n \in DOMAIN inbox :
       inbox[m] = inbox[n] /\ inbox[m].from # NoGoal => m = n
  /\ busy \in Goals => future[busy] = "sent"

GripperInv == GripperTyped /\ ThreadAhead /\ SentOnce

LEMMA GripperInit == Gripper!Init => GripperInv
  BY ConstantsAssumption
  DEF Gripper!Init, GripperInv, GripperTyped, ThreadAhead, SentOnce, Gripper!Over,
         Gripper!Results

(* A goal that is over has its answers, so that nothing of it is pending.  *)
LEMMA GripperDone == GripperInv => Gripper!OverIsDone
  BY ConstantsAssumption
  DEF GripperInv, GripperTyped, ThreadAhead, SentOnce, Gripper!OverIsDone, Gripper!Pending,
      Gripper!Over, Gripper!Results

LEMMA SameRequest ==
  ASSUME NEW r \in Requests, NEW q \in Requests, r.from = q.from, r.isStop <=> q.isStop
  PROVE  r = q
  BY DEF Requests

(* A new request comes after the others.                                   *)
LEMMA PutLast ==
  ASSUME GripperTyped, SentOnce, NEW e \in Requests, inbox' = Append(inbox, e),
         e.from # NoGoal => \A n \in DOMAIN inbox : inbox[n] # e
  PROVE  /\ inbox' \in Seq(Requests)
         /\ \A n \in DOMAIN inbox' :
              /\ inbox'[n] \in Requests
              /\ inbox'[n] = e \/ (n \in DOMAIN inbox /\ inbox'[n] = inbox[n])
         /\ \A m, n \in DOMAIN inbox' :
              inbox'[m] = inbox'[n] /\ inbox'[m].from # NoGoal => m = n
<1>1. inbox \in Seq(Requests) BY DEF GripperTyped
<1>2. /\ inbox' \in Seq(Requests)
      /\ \A n \in DOMAIN inbox : inbox'[n] = inbox[n] /\ inbox[n] \in Requests
      /\ \A n \in DOMAIN inbox' : n \in DOMAIN inbox \/ n = Len(inbox) + 1
      /\ inbox'[Len(inbox) + 1] = e
  BY <1>1, AppendedLast
<1>3. \A m, n \in DOMAIN inbox :
        inbox[m] = inbox[n] /\ inbox[m].from # NoGoal => m = n
  BY DEF SentOnce
<1> QED BY <1>2, <1>3

(* Taking the first request out leaves the others, one place further on.   *)
LEMMA TakeFirst ==
  ASSUME GripperTyped, SentOnce, inbox # <<>>, inbox' = Tail(inbox)
  PROVE  /\ Head(inbox) = inbox[1] /\ 1 \in DOMAIN inbox /\ inbox[1] \in Requests
         /\ inbox' \in Seq(Requests)
         /\ \A n \in DOMAIN inbox' :
              /\ n + 1 \in DOMAIN inbox /\ inbox'[n] = inbox[n + 1]
              /\ inbox'[n] \in Requests
              /\ inbox'[n].from # NoGoal => inbox'[n] # inbox[1]
         /\ \A m, n \in DOMAIN inbox' :
              inbox'[m] = inbox'[n] /\ inbox'[m].from # NoGoal => m = n
<1>1. inbox \in Seq(Requests) BY DEF GripperTyped
<1>2. /\ Head(inbox) = inbox[1] /\ 1 \in DOMAIN inbox /\ inbox[1] \in Requests
      /\ inbox' \in Seq(Requests)
      /\ \A n \in DOMAIN inbox' :
           /\ n \in Nat \ {0} /\ n + 1 \in DOMAIN inbox
           /\ inbox'[n] = inbox[n + 1] /\ inbox'[n] \in Requests
  BY <1>1, TakenFirst
<1>3. \A m, n \in DOMAIN inbox :
        inbox[m] = inbox[n] /\ inbox[m].from # NoGoal => m = n
  BY DEF SentOnce
<1> QED BY <1>2, <1>3

(* The threads, which only append to the inbox.                            *)
LEMMA GripperGoalKeeps ==
  ASSUME GripperInv, NEW g \in Goals,
         Gripper!Accept(g) \/ Gripper!Cancel(g) \/ Gripper!GoalNext(g) \/ Gripper!StopThrows(g)
  PROVE  GripperInv'
<1> USE ConstantsAssumption
    DEF GripperInv, GripperTyped, ThreadAhead, SentOnce, Gripper!Over, Gripper!Results,
        Gripper!gripperVars
<1>1. CASE Gripper!Accept(g) BY <1>1 DEF Gripper!Accept
<1>2. CASE Gripper!Cancel(g) BY <1>2 DEF Gripper!Cancel
<1>3. CASE Gripper!StopThrows(g) BY <1>3 DEF Gripper!StopThrows
<1>4. CASE Gripper!CheckEnds(g) BY <1>4 DEF Gripper!CheckEnds, Gripper!Ends
<1>5. CASE Gripper!CheckPasses(g) BY <1>5 DEF Gripper!CheckPasses
<1>6. CASE Gripper!Launch(g) BY <1>6 DEF Gripper!Launch
<1>7. CASE Gripper!SendCommand(g)
  <2> DEFINE e == [from |-> g, isStop |-> FALSE]
  <2>1. /\ e \in Requests /\ e.from = g /\ ~e.isStop
        /\ inbox' = Append(inbox, e)
    BY <1>7 DEF Gripper!SendCommand, Gripper!Request, Requests
  <2>2. /\ future[g] = "send" /\ future' = [future EXCEPT ![g] = "sent"]
        /\ UNCHANGED <<status, gripperThread, stop, busy>>
    BY <1>7 DEF Gripper!SendCommand
  <2>3. \A n \in DOMAIN inbox : inbox[n] # e BY <2>1, <2>2
  <2> HIDE DEF e
  <2>4. /\ inbox' \in Seq(Requests)
        /\ \A n \in DOMAIN inbox' :
             /\ inbox'[n] \in Requests
             /\ inbox'[n] = e \/ (n \in DOMAIN inbox /\ inbox'[n] = inbox[n])
        /\ \A m, n \in DOMAIN inbox' :
             inbox'[m] = inbox'[n] /\ inbox'[m].from # NoGoal => m = n
    BY <2>1, <2>3, PutLast
  <2>5. GripperTyped' /\ ThreadAhead' BY <2>2, <2>4
  <2>6. busy # g BY <2>2
  <2> QED BY <2>1, <2>2, <2>4, <2>5, <2>6
<1>8. CASE Gripper!NotReady(g) BY <1>8 DEF Gripper!NotReady
<1>9. CASE Gripper!Feedback(g) BY <1>9 DEF Gripper!Feedback
<1>10. CASE Gripper!StopCommand(g)
  <2> DEFINE e == [from |-> g, isStop |-> TRUE]
  <2>1. /\ e \in Requests /\ e.from = g /\ e.isStop
        /\ inbox' = Append(inbox, e)
    BY <1>10 DEF Gripper!StopCommand, Gripper!Request, Requests
  <2>2. /\ stop[g] = "none" /\ stop' = [stop EXCEPT ![g] = "sent"]
        /\ gripperThread[g] = "waited"
        /\ gripperThread' = [gripperThread EXCEPT ![g] = "stop"]
        /\ status[g] = "canceling"
        /\ UNCHANGED <<status, future, busy>>
    BY <1>10 DEF Gripper!StopCommand
  <2>3. \A n \in DOMAIN inbox : inbox[n] # e BY <2>1, <2>2
  <2> HIDE DEF e
  <2>4. /\ inbox' \in Seq(Requests)
        /\ \A n \in DOMAIN inbox' :
             /\ inbox'[n] \in Requests
             /\ inbox'[n] = e \/ (n \in DOMAIN inbox /\ inbox'[n] = inbox[n])
        /\ \A m, n \in DOMAIN inbox' :
             inbox'[m] = inbox'[n] /\ inbox'[m].from # NoGoal => m = n
    BY <2>1, <2>3, PutLast
  <2>5. GripperTyped' /\ ThreadAhead' BY <2>2, <2>4
  <2> QED BY <2>1, <2>2, <2>4, <2>5
<1>11. CASE Gripper!Stopped(g) BY <1>11 DEF Gripper!Stopped
<1>12. CASE Gripper!Canceled(g) BY <1>12 DEF Gripper!Canceled, Gripper!Ends
<1>13. CASE Gripper!Finished(g) BY <1>13 DEF Gripper!Finished, Gripper!Ends
<1>14. CASE Gripper!Dropped(g) BY <1>14 DEF Gripper!Dropped
<1> QED
  BY <1>1, <1>2, <1>3, <1>4, <1>5, <1>6, <1>7, <1>8, <1>9, <1>10, <1>11, <1>12, <1>13,
     <1>14
  DEF Gripper!GoalNext

LEMMA GripperElseKeeps ==
  ASSUME GripperInv, Gripper!Service \/ Gripper!Shutdown \/ Gripper!Gripper
  PROVE  GripperInv'
<1> USE ConstantsAssumption
    DEF GripperInv, GripperTyped, ThreadAhead, SentOnce, Gripper!Over, Gripper!Results,
        Gripper!gripperVars, Gripper!goalVars
<1>1. CASE Gripper!CallStop
  <2> DEFINE e == [from |-> NoGoal, isStop |-> TRUE]
  <2>1. /\ e \in Requests /\ e.from = NoGoal /\ e.isStop
        /\ inbox' = Append(inbox, e)
        /\ UNCHANGED <<status, gripperThread, future, stop, busy>>
    BY <1>1 DEF Gripper!CallStop, Gripper!Request, Requests
  <2> HIDE DEF e
  <2>2. /\ inbox' \in Seq(Requests)
        /\ \A n \in DOMAIN inbox' :
             /\ inbox'[n] \in Requests
             /\ inbox'[n] = e \/ (n \in DOMAIN inbox /\ inbox'[n] = inbox[n])
        /\ \A m, n \in DOMAIN inbox' :
             inbox'[m] = inbox'[n] /\ inbox'[m].from # NoGoal => m = n
    BY <2>1, PutLast
  <2> QED BY <2>1, <2>2
<1>2. CASE Gripper!StopReports BY <1>2 DEF Gripper!StopReports
<1>3. CASE Gripper!Shutdown BY <1>3 DEF Gripper!Shutdown
<1>4. CASE Gripper!ServeCommand
  <2>1. inbox # <<>> /\ inbox' = Tail(inbox) BY <1>4 DEF Gripper!ServeCommand
  <2>2. ~inbox[1].isStop BY <1>4, <2>1, TakeFirst DEF Gripper!ServeCommand
  <2>3. PICK g \in Goals : g = inbox[1].from BY <2>1, <2>2, TakeFirst
  <2>4. CASE busy = NoGoal
    <3>1. busy' = g /\ UNCHANGED <<status, gripperThread, future, stop>>
      BY <1>4, <2>1, <2>3, <2>4, TakeFirst DEF Gripper!ServeCommand
    <3>2. \A n \in DOMAIN inbox' : ~inbox'[n].isStop => inbox'[n].from # g
      BY <2>1, <2>2, <2>3, TakeFirst, SameRequest
    <3> QED BY <2>1, <2>2, <2>3, <3>1, <3>2, TakeFirst
  <2>5. CASE busy # NoGoal
    <3>1. UNCHANGED <<status, gripperThread, stop>>
      BY <1>4 DEF Gripper!ServeCommand
    <3>2. \A n \in DOMAIN inbox' : ~inbox'[n].isStop => inbox'[n].from # g
      BY <2>1, <2>2, <2>3, TakeFirst, SameRequest
    <3>3. \/ future' = [future EXCEPT ![g] = "false"] /\ busy' = busy
          \/ future' = [future EXCEPT ![busy] = "false"] /\ busy' = g
      BY <1>4, <2>1, <2>3, <2>5, TakeFirst DEF Gripper!ServeCommand, Gripper!Answered
    <3>4. GripperTyped' /\ ThreadAhead' BY <2>1, <2>2, <2>3, <2>5, <3>1, <3>3, TakeFirst
    <3>5. SentOnce' BY <2>1, <2>2, <2>3, <2>5, <3>1, <3>2, <3>3, TakeFirst
    <3> QED BY <3>4, <3>5
  <2> QED BY <2>4, <2>5
<1>5. CASE Gripper!ServeStop
  <2>1. inbox # <<>> /\ inbox' = Tail(inbox) BY <1>5 DEF Gripper!ServeStop
  <2>2. inbox[1].isStop /\ busy' = NoGoal /\ UNCHANGED <<status, gripperThread>>
    BY <1>5, <2>1, TakeFirst DEF Gripper!ServeStop
  <2>3. \/ busy = NoGoal /\ UNCHANGED future
        \/ busy \in Goals /\ future' = [future EXCEPT ![busy] = "false"]
    BY <1>5 DEF Gripper!ServeStop, Gripper!Answered
  <2>4. \/ inbox[1].from = NoGoal /\ UNCHANGED stop
        \/ inbox[1].from \in Goals /\ stop' = [stop EXCEPT ![inbox[1].from] = "answered"]
    <3>1. Head(inbox) = inbox[1] /\ inbox[1].from \in Goals \cup {NoGoal}
      BY <2>1, TakeFirst DEF Requests
    <3> QED BY <1>5, <3>1 DEF Gripper!ServeStop
  <2>5. \A n \in DOMAIN inbox' :
          inbox'[n].isStop /\ inbox'[n].from # NoGoal => inbox'[n].from # inbox[1].from
    BY <2>1, <2>2, TakeFirst, SameRequest
  <2>6. GripperTyped' /\ ThreadAhead' BY SMTT(20), <2>1, <2>2, <2>3, <2>4, TakeFirst
  <2>7. ASSUME NEW n \in DOMAIN inbox', ~inbox'[n].isStop
        PROVE  inbox'[n].from \in Goals /\ future'[inbox'[n].from] = "sent"
    <3>1. inbox'[n] = inbox[n + 1] /\ n + 1 \in DOMAIN inbox BY <2>1, TakeFirst
    <3>2. /\ inbox'[n].from \in Goals /\ busy # inbox'[n].from
          /\ future[inbox'[n].from] = "sent"
      BY <2>7, <3>1
    <3> QED BY <2>3, <3>2
  <2>8. ASSUME NEW n \in DOMAIN inbox', inbox'[n].isStop, inbox'[n].from # NoGoal
        PROVE  stop'[inbox'[n].from] = "sent"
    <3>1. inbox'[n] = inbox[n + 1] /\ n + 1 \in DOMAIN inbox /\ inbox'[n] \in Requests
      BY <2>1, TakeFirst
    <3>2. inbox'[n].from \in Goals /\ stop[inbox'[n].from] = "sent"
      BY <2>8, <3>1 DEF Requests
    <3> QED BY <2>4, <2>5, <2>8, <3>2
  <2>9. \A m, n \in DOMAIN inbox' :
          inbox'[m] = inbox'[n] /\ inbox'[m].from # NoGoal => m = n
    BY <2>1, TakeFirst
  <2>10. SentOnce' BY <2>2, <2>7, <2>8, <2>9
  <2> QED BY <2>6, <2>10
<1>6. CASE Gripper!CommandEnds BY <1>6 DEF Gripper!CommandEnds, Gripper!Answered
<1> QED BY <1>1, <1>2, <1>3, <1>4, <1>5, <1>6 DEF Gripper!Service, Gripper!Gripper

(* What a step does to the handles.                                        *)
LEMMA GripperRefines ==
  ASSUME GripperInv, Gripper!Next, node = "gripper", UNCHANGED node
  PROVE  [Contract!Next]_Life
<1>1. \A g \in AllGoals : Life[g] = IF g \in Goals THEN status[g] ELSE "new"
  BY DEF Life, GoalStatus, AllGoals, GripperInv, GripperTyped
<1>2. GripperInv' => \A g \in AllGoals : Life'[g] = IF g \in Goals THEN status'[g] ELSE "new"
  BY DEF Life, GoalStatus, AllGoals, GripperInv, GripperTyped, PTP!GoalIds
<1>3. ASSUME NEW g \in Goals,
             Gripper!Accept(g) \/ Gripper!Cancel(g) \/ Gripper!GoalNext(g)
               \/ Gripper!StopThrows(g)
      PROVE  [Contract!Next]_Life
  <2>1. GripperInv' BY <1>3, GripperGoalKeeps
  <2>2. \/ \E s : status' = [status EXCEPT ![g] = s] /\ Allowed(status[g], s)
        \/ UNCHANGED status
    BY <1>3
    DEF GripperInv, GripperTyped, ThreadAhead, Allowed, Gripper!Accept, Gripper!Cancel,
        Gripper!GoalNext, Gripper!StopThrows, Gripper!CheckEnds, Gripper!CheckPasses,
        Gripper!Launch, Gripper!SendCommand, Gripper!NotReady, Gripper!Feedback,
        Gripper!StopCommand, Gripper!Stopped, Gripper!Canceled, Gripper!Finished,
        Gripper!Dropped, Gripper!Ends, Gripper!goalVars
  <2>3. /\ \A h \in Goals \ {g} : status'[h] = status[h]
        /\ Allowed(status[g], status'[g])
    BY <2>2 DEF GripperInv, GripperTyped, Allowed
  <2> QED BY <1>1, <1>2, <2>1, <2>3, OneGoalSteps DEF AllGoals
<1>4. CASE Gripper!Service \/ Gripper!Shutdown \/ Gripper!Gripper
  BY <1>4
  DEF Gripper!Service, Gripper!Shutdown, Gripper!Gripper, Gripper!CallStop,
      Gripper!StopReports, Gripper!ServeCommand, Gripper!ServeStop, Gripper!CommandEnds,
      Gripper!goalVars, Life, GoalStatus, AllGoals, PTP!GoalIds
<1> QED BY <1>3, <1>4 DEF Gripper!Next

---------------------------------------------------------------------------
(* The servers together.                                                   *)

ServersInv == SpineInv /\ PtpInv /\ GripperInv

LEMMA ServersKeep ==
  ASSUME ServersInv, [Next]_vars
  PROVE  ServersInv' /\ [Contract!Next]_Life
<1> USE DEF ServersInv
<1>1. CASE SpineDoes(Spine!Next)
  <2>1. node = "spine" /\ UNCHANGED <<node, ptpVars, gripperVars>> /\ Spine!Next
    BY <1>1 DEF SpineDoes
  <2>2. PtpInv' /\ GripperInv'
    BY <2>1 DEF ptpVars, gripperVars, PtpInv, PtpTyped, Unanswered, OneFuture, OwnReport,
       EarlierHandler, PTP!SuccessIsOwn, GripperInv, GripperTyped, ThreadAhead, SentOnce
  <2>3. ASSUME NEW g \in Goals, Spine!GoalNext(g) PROVE SpineInv' /\ [Contract!Next]_Life
    BY <2>1, <2>3, SpineKeeps, SpineRefines
  <2>4. CASE Spine!Services \/ Spine!SpineNext \/ Spine!Shutdown
    <3>1. UNCHANGED <<phase, cancel, result, lock>> BY <2>4, SpineElse
    <3>2. SpineInv'
      BY <3>1 DEF SpineInv, SpineTyped, SpineGoals, Spine!OneMotion, Spine!Moving
    <3>3. UNCHANGED Life
      BY <2>1, <3>1 DEF Life, GoalStatus, SpineStatus, AllGoals, PTP!GoalIds
    <3> QED BY <2>2, <3>2, <3>3
  <2> QED BY <2>1, <2>2, <2>3, <2>4 DEF Spine!Next
<1>2. CASE PtpDoes(PTP!Next)
  <2>1. node = "ptp" /\ UNCHANGED <<node, spineVars, gripperVars>> /\ PTP!Next
    BY <1>2 DEF PtpDoes
  <2>2. SpineInv' /\ GripperInv'
    BY <2>1 DEF spineVars, gripperVars, SpineInv, SpineTyped, SpineGoals, Spine!OneMotion,
       Spine!Moving, GripperInv, GripperTyped, ThreadAhead, SentOnce
  <2> QED BY <2>1, <2>2, PtpKeeps, PtpRefines
<1>3. CASE GripperDoes(Gripper!Next)
  <2>1. node = "gripper" /\ UNCHANGED <<node, spineVars, ptpVars>> /\ Gripper!Next
    BY <1>3 DEF GripperDoes
  <2>2. SpineInv'
    BY <2>1 DEF spineVars, SpineInv, SpineTyped, SpineGoals, Spine!OneMotion, Spine!Moving
  <2>3. PtpInv'
    BY <2>1 DEF ptpVars, PtpInv, PtpTyped, Unanswered, OneFuture, OwnReport,
       EarlierHandler, PTP!SuccessIsOwn
  <2>4. GripperInv' BY <2>1, GripperGoalKeeps, GripperElseKeeps DEF Gripper!Next
  <2> QED BY <2>1, <2>2, <2>3, <2>4, GripperRefines
<1>4. CASE UNCHANGED vars
  BY <1>4 DEF vars, spineVars, ptpVars, gripperVars, SpineInv, SpineTyped, SpineGoals,
     Spine!OneMotion, Spine!Moving, PtpInv, PtpTyped, Unanswered, OneFuture, OwnReport,
     EarlierHandler, PTP!SuccessIsOwn, GripperInv, GripperTyped, ThreadAhead, SentOnce,
     Life, GoalStatus, SpineStatus, PtpStatus, AllGoals
<1> QED BY <1>1, <1>2, <1>3, <1>4 DEF Next

LEMMA ServersInvariant == Spec => []ServersInv
<1>1. Init => ServersInv BY SpineInit, PtpInit, GripperInit DEF Init, ServersInv
<1>2. ServersInv /\ [Next]_vars => ServersInv' BY ServersKeep
<1> QED BY <1>1, <1>2, PTL DEF Spec

(* One goal of the spine at a time starts and polls a motion, and it holds *)
(* the lock, for any goals, positions and faults (move_absolute).          *)
THEOREM OneSpineMotion == Spec => []OneMotion
<1>1. ServersInv => OneMotion BY DEF ServersInv, SpineInv, OneMotion
<1> QED BY <1>1, ServersInvariant, PTL

(* A ptp goal succeeds by the feedback of its own motion, and has given the*)
(* control of the robot back (getFeedback).                                *)
THEOREM PtpSuccessIsOwn == Spec => []SuccessIsOwn
<1>1. ServersInv => SuccessIsOwn BY DEF ServersInv, PtpInv, SuccessIsOwn
<1> QED BY <1>1, ServersInvariant, PTL

(* A gripper goal that is over leaves no command or stop behind, for any   *)
(* number of goals (executeCommand).                                       *)
THEOREM GripperOverIsDone == Spec => []OverIsDone
<1>1. ServersInv => OverIsDone BY GripperDone DEF ServersInv, OverIsDone
<1> QED BY <1>1, ServersInvariant, PTL

(* The three servers implement ActionGoal: each goal is answered once, and *)
(* is canceled only if that was asked for.                                 *)
THEOREM ServersImplementActionGoal == Spec => LifeOfGoals
<1>1. Init => Contract!Init
  BY DEF Init, Contract!Init, Life, GoalStatus, SpineStatus, PtpStatus, AllGoals,
     Spine!Init, PTP!Init, Gripper!Init, PTP!GoalIds
<1>2. ServersInv /\ [Next]_vars => [Contract!Next]_Life BY ServersKeep
<1> QED BY <1>1, <1>2, ServersInvariant, PTL DEF Spec, LifeOfGoals, Contract!Spec

=============================================================================
