-------------------------- MODULE HandOversProofs --------------------------
(***************************************************************************)
(* What holds where threads hand data to each other, checked by TLAPS: of  *)
(* the state broadcaster for every number of frames and every pair of      *)
(* rates; and of the TCP responses, however they were cut into pieces and  *)
(* whichever thread read them, that each thread takes the response to its  *)
(* own request.                                                            *)
(***************************************************************************)
EXTENDS HandOvers, Sequences, FiniteSetsExt, TLAPS

---------------------------------------------------------------------------
(* The broadcaster's triple buffer.                                        *)

Writing == update \in {"values", "load", "commit"}
Whole(i) == buffers[i].stamp = buffers[i].values

(* The three indices are a permutation of the slots (State::is_consistent).*)
OwnedApart ==
  /\ state.active # state.mailbox
  /\ state.mailbox # state.free
  /\ state.free # state.active

(* Only the slot that update() owns may be half written; what it commits   *)
(* is whole and the newest.                                                *)
SlotsWhole ==
  /\ \A i \in Slots : i # state.free => Whole(i)
  /\ update \in {"load", "commit"} => Whole(state.free)
  /\ Writing => buffers[state.free].stamp = frame

(* Stamps in the order of the owners: published, active, mailbox, free.    *)
StampsOrdered ==
  /\ frame <= FrameBound
  /\ activatedAt <= frame
  /\ Writing => activatedAt < frame
  /\ \A i \in Slots : buffers[i].stamp <= frame
  /\ Writing => \A i \in Slots : i # state.free => buffers[i].stamp < frame
  /\ state.full => buffers[state.mailbox].stamp > buffers[state.active].stamp
  /\ published.stamp <= buffers[state.active].stamp

(* A publish thread exists only while the controller is active or stopping.*)
RunnerOwned == runner # "none" => lifecycle = "active" \/ update = "join"

(* What the publish thread holds or is about to fetch is news.             *)
RunnerFresh ==
  /\ runner # "none" /\ state.full => buffers[state.mailbox].stamp > activatedAt
  /\ runner \in {"publish", "body"} =>
       /\ buffers[state.active].stamp > activatedAt
       /\ buffers[state.active].stamp > published.stamp
  /\ runner = "body" => stamp = buffers[state.active].stamp

BufferInv ==
  /\ TypeOK /\ OwnedApart /\ SlotsWhole /\ StampsOrdered
  /\ RunnerOwned /\ RunnerFresh /\ WholeFrames

---------------------------------------------------------------------------
LEMMA SkipPositive == Skip \in Nat \ {0}
<1>. DEFINE rate == Smaller(ConveniencePublishRate, UpdateRate)
<1>1. rate \in Nat \ {0} /\ rate <= UpdateRate
  BY RatesAssumption DEF Smaller
<1>2. UpdateRate \div rate \in Nat \ {0}
  BY <1>1, RatesAssumption
<1>. QED  BY <1>2 DEF Skip

LEMMA SwapTypes ==
  ASSUME NEW s \in BufferState
  PROVE  Fetched(s) \in BufferState /\ Committed(s) \in BufferState
BY DEF Fetched, Committed, BufferState

(* One round: every slot moves on to the next owner.                       *)
Rotated(s) ==
  [active |-> s.free, mailbox |-> s.active, free |-> s.mailbox, full |-> FALSE]

Emptied(s) ==
  [active |-> s.active, mailbox |-> s.mailbox, free |-> s.free, full |-> FALSE]

SizedSlot(b, i) == [b EXCEPT ![i].sized = TRUE]

LEMMA OneRound ==
  ASSUME NEW s \in BufferState, NEW b \in [Slots -> Message]
  PROVE  /\ PrepareSlot([state |-> s, buffers |-> b])
              = [state |-> Rotated(s), buffers |-> SizedSlot(b, s.free)]
         /\ Rotated(s) \in BufferState
         /\ SizedSlot(b, s.free) \in [Slots -> Message]
<1>1. Fetched(Committed(s)) = Rotated(s) /\ Rotated(s) \in BufferState
  BY DEF Fetched, Committed, BufferState, Rotated
<1>2. SizedSlot(b, s.free) \in [Slots -> Message]
  BY DEF SizedSlot, Message, BufferState
<1>. QED  BY <1>1, <1>2 DEF PrepareSlot, SizedSlot

(* Three rounds of on_configure() bring the slots back to their owners,    *)
(* each with its sizes.                                                    *)
LEMMA ThreeRounds ==
  ASSUME NEW s \in BufferState, NEW b \in [Slots -> Message],
         s.active # s.mailbox, s.mailbox # s.free, s.free # s.active
  PROVE  PrepareSlot(PrepareSlot(PrepareSlot([state |-> s, buffers |-> b])))
           = [state   |-> Emptied(s),
              buffers |-> [i \in Slots |-> [b[i] EXCEPT !.sized = TRUE]]]
<1>. DEFINE s1 == Rotated(s)
            s2 == Rotated(s1)
            s3 == Rotated(s2)
            b1 == SizedSlot(b, s.free)
            b2 == SizedSlot(b1, s1.free)
            b3 == SizedSlot(b2, s2.free)
<1>1. /\ s1 \in BufferState /\ b1 \in [Slots -> Message]
      /\ PrepareSlot([state |-> s, buffers |-> b]) = [state |-> s1, buffers |-> b1]
  BY OneRound
<1>2. s1.free = s.mailbox /\ s2.free = s.active
  BY DEF Rotated
<1>3. s3 = Emptied(s)
  BY DEF Rotated, Emptied
<1>4. b3 = [i \in Slots |-> [b[i] EXCEPT !.sized = TRUE]]
  <2>1. Slots = {s.active, s.mailbox, s.free}
    BY DEF BufferState, Slots
  <2>. QED  BY <1>2, <2>1 DEF SizedSlot, Message
<1>. HIDE DEF s1, s2, s3, b1, b2, b3
<1>5. /\ s2 \in BufferState /\ b2 \in [Slots -> Message]
      /\ PrepareSlot([state |-> s1, buffers |-> b1]) = [state |-> s2, buffers |-> b2]
  BY <1>1, OneRound DEF s2, b2
<1>6. PrepareSlot([state |-> s2, buffers |-> b2]) = [state |-> s3, buffers |-> b3]
  BY <1>5, OneRound DEF s3, b3
<1>. QED  BY <1>1, <1>3, <1>4, <1>5, <1>6

---------------------------------------------------------------------------
(* The invariant holds at first and is preserved by every action.          *)

LEMMA BufferInit == Init => BufferInv
<1>. SUFFICES ASSUME Init PROVE BufferInv
  OBVIOUS
<1>1. 0 \in 0 .. Skip - 1
  BY SkipPositive
<1>2. EmptyMessage \in Message /\ FirstState \in BufferState
  BY DEF EmptyMessage, Message, FirstState, BufferState, Slots
<1>3. TypeOK
  BY <1>1, <1>2 DEF Init, TypeOK, Lifecycles, UpdatePcs, RunnerPcs
<1>4. \A i \in Slots : buffers[i] = EmptyMessage
  BY DEF Init
<1>. QED
  BY <1>3, <1>4, RatesAssumption
  DEF Init, BufferInv, OwnedApart, SlotsWhole, StampsOrdered, RunnerOwned, RunnerFresh,
      WholeFrames, Whole, Writing, FirstState, EmptyMessage, Slots

LEMMA ConfigureEffect ==
  ASSUME TypeOK, OwnedApart, OnConfigure
  PROVE  /\ state' = Emptied(state)
         /\ buffers' = [i \in Slots |-> [buffers[i] EXCEPT !.sized = TRUE]]
<1>. DEFINE b == PrepareSlot(PrepareSlot(PrepareSlot([state |-> state, buffers |-> buffers])))
<1>1. state \in BufferState /\ buffers \in [Slots -> Message]
  BY DEF TypeOK
<1>2. b = [state   |-> Emptied(state),
           buffers |-> [i \in Slots |-> [buffers[i] EXCEPT !.sized = TRUE]]]
  BY <1>1, ThreeRounds DEF OwnedApart
<1>3. state' = b.state /\ buffers' = b.buffers
  BY DEF OnConfigure
<1>. HIDE DEF b
<1>. QED  BY <1>2, <1>3

LEMMA LifecycleStep ==
  ASSUME BufferInv, Lifecycle \/ Joined
  PROVE  BufferInv'
<1>. USE DEF BufferInv, OwnedApart, SlotsWhole, StampsOrdered, RunnerOwned, RunnerFresh,
         WholeFrames, Whole, Writing, ManagerCalls, managerVars, runnerVars
<1>1. CASE OnConfigure
  <2>1. /\ state' = Emptied(state)
        /\ buffers' = [i \in Slots |-> [buffers[i] EXCEPT !.sized = TRUE]]
    BY <1>1, ConfigureEffect
  <2>2. TypeOK'
    <3>1. state' \in BufferState
      BY <2>1 DEF TypeOK, BufferState, Emptied
    <3>2. buffers' \in [Slots -> Message]
      BY <2>1 DEF TypeOK, Message
    <3>. QED  BY <1>1, <3>1, <3>2 DEF OnConfigure, TypeOK, Lifecycles
  <2>3. \A i \in Slots : /\ buffers'[i].stamp = buffers[i].stamp
                         /\ buffers'[i].values = buffers[i].values
    BY <2>1 DEF TypeOK, Message
  <2>4. /\ state'.active = state.active /\ state'.mailbox = state.mailbox
        /\ state'.free = state.free /\ ~state'.full
        /\ {state.active, state.mailbox, state.free} \subseteq Slots
    BY <2>1 DEF TypeOK, BufferState, Emptied
  <2>5. runner = "none" /\ update = "idle"
    BY <1>1 DEF OnConfigure
  <2>. QED  BY <1>1, <2>2, <2>3, <2>4, <2>5 DEF OnConfigure
<1>2. CASE OnCleanup
  BY <1>2 DEF OnCleanup, TypeOK, Lifecycles
<1>3. CASE OnActivate
  <2>1. runner = "none"
    BY <1>3 DEF OnActivate
  <2>2. CASE running
    BY <1>3, <2>1, <2>2 DEF OnActivate, TypeOK, Lifecycles
  <2>3. CASE ~running
    <3>1. TypeOK'
      <4>1. state' \in BufferState
        BY <1>3, <2>3, SwapTypes DEF OnActivate, TypeOK
      <4>2. counter' \in 0 .. Skip - 1
        BY <1>3, <2>3, SkipPositive DEF OnActivate
      <4>. QED  BY <1>3, <2>3, <4>1, <4>2 DEF OnActivate, TypeOK, Lifecycles, RunnerPcs
    <3>2. ~state'.full /\ state'.free = state.free
      BY <1>3, <2>3 DEF OnActivate, Fetched, TypeOK, BufferState
    <3>3. /\ {state.active, state.mailbox, state.free} \subseteq Slots
          /\ \/ state'.active = state.active /\ state'.mailbox = state.mailbox
             \/ state'.active = state.mailbox /\ state'.mailbox = state.active /\ state.full
      BY <1>3, <2>3 DEF OnActivate, Fetched, TypeOK, BufferState
    <3>4. published.stamp <= buffers[state'.active].stamp
      BY <3>3 DEF TypeOK, Message
    <3>. QED  BY <1>3, <2>1, <2>3, <3>1, <3>2, <3>3, <3>4 DEF OnActivate, TypeOK
  <2>. QED  BY <2>2, <2>3
<1>4. CASE OnDeactivate
  BY <1>4 DEF OnDeactivate, StopPublishThread, TypeOK, Lifecycles, UpdatePcs
<1>5. CASE Destructor
  BY <1>5 DEF Destructor, StopPublishThread, TypeOK, Lifecycles, UpdatePcs
<1>6. CASE Joined
  BY <1>6 DEF Joined, TypeOK, RunnerPcs, UpdatePcs
<1>. QED  BY <1>1, <1>2, <1>3, <1>4, <1>5, <1>6 DEF Lifecycle

LEMMA UpdateStepInv ==
  ASSUME BufferInv, UpdateStamp \/ UpdateSteps \/ CommitSwap
  PROVE  BufferInv'
<1>. USE DEF BufferInv, OwnedApart, SlotsWhole, StampsOrdered, RunnerOwned, RunnerFresh,
         WholeFrames, Whole, Writing, ManagerCalls, managerVars, runnerVars
<1>0. /\ {state.active, state.mailbox, state.free} \subseteq Slots
      /\ \A i \in Slots : buffers[i].stamp \in Nat /\ buffers[i].values \in Nat
  BY DEF TypeOK, BufferState, Message
<1>1. CASE UpdateStamp
  <2>1. TypeOK'
    BY <1>1, <1>0 DEF UpdateStamp, TypeOK, UpdatePcs, Message
  <2>2. /\ buffers'[state.free].stamp = frame + 1
        /\ \A i \in Slots : i # state.free => buffers'[i] = buffers[i]
    BY <1>1, <1>0 DEF UpdateStamp, TypeOK
  <2>3. frame \in Nat /\ frame + 1 <= FrameBound
    BY <1>1, RatesAssumption DEF UpdateStamp, TypeOK
  <2>. QED  BY <1>0, <1>1, <2>1, <2>2, <2>3 DEF UpdateStamp, TypeOK
<1>2. CASE UpdateFails
  BY <1>2 DEF UpdateFails, TypeOK, UpdatePcs
<1>3. CASE UpdateValues
  <2>1. TypeOK'
    BY <1>3, <1>0 DEF UpdateValues, TypeOK, UpdatePcs, Message
  <2>2. /\ buffers'[state.free].stamp = frame /\ buffers'[state.free].values = frame
        /\ \A i \in Slots : i # state.free => buffers'[i] = buffers[i]
    BY <1>3, <1>0 DEF UpdateValues, TypeOK, Message
  <2>. QED  BY <1>0, <1>3, <2>1, <2>2 DEF UpdateValues
<1>4. CASE CommitLoad
  BY <1>4 DEF CommitLoad, TypeOK, UpdatePcs
<1>5. CASE CommitRetry
  BY <1>5 DEF CommitRetry, TypeOK
<1>6. CASE CommitSwap
  <2>1. TypeOK'
    BY <1>6, SwapTypes DEF CommitSwap, TypeOK, UpdatePcs
  <2>2. /\ state'.active = state.active /\ state'.mailbox = state.free
        /\ state'.free = state.mailbox /\ state'.full
    BY <1>6 DEF CommitSwap, Committed, TypeOK, BufferState
  <2>3. /\ buffers[state.free].stamp = frame /\ Whole(state.free)
        /\ buffers[state.active].stamp < frame
    BY <1>6, <1>0 DEF CommitSwap
  <2>4. activatedAt < frame /\ runner' = runner /\ stamp' = stamp /\ buffers' = buffers
    BY <1>6 DEF CommitSwap
  <2>. QED  BY <1>0, <1>6, <2>1, <2>2, <2>3, <2>4 DEF CommitSwap, TypeOK
<1>7. CASE SignalReady
  BY <1>7 DEF SignalReady, TypeOK, UpdatePcs
<1>. QED  BY <1>1, <1>2, <1>3, <1>4, <1>5, <1>6, <1>7 DEF UpdateSteps

LEMMA RunnerStepInv ==
  ASSUME BufferInv, RunnerSteps \/ FetchSwap
  PROVE  BufferInv'
<1>. USE DEF BufferInv, OwnedApart, SlotsWhole, StampsOrdered, RunnerOwned, RunnerFresh,
         WholeFrames, Whole, Writing, managerVars
<1>0. /\ {state.active, state.mailbox, state.free} \subseteq Slots
      /\ \A i \in Slots : buffers[i] \in Message
      /\ \A i \in Slots : buffers[i].stamp \in Nat /\ buffers[i].values \in Nat
  BY DEF TypeOK, BufferState, Message
<1>1. CASE RunnerCheck
  BY <1>1 DEF RunnerCheck, TypeOK, RunnerPcs
<1>2. CASE RunnerPoll
  BY <1>2 DEF RunnerPoll, TypeOK, RunnerPcs
<1>3. CASE RunnerClear
  BY <1>3 DEF RunnerClear, TypeOK, RunnerPcs
<1>4. CASE FetchLoad
  BY <1>4 DEF FetchLoad, TypeOK, RunnerPcs
<1>5. CASE FetchRetry
  BY <1>5 DEF FetchRetry, TypeOK, RunnerPcs
<1>6. CASE FetchSwap
  <2>1. TypeOK'
    BY <1>6, SwapTypes DEF FetchSwap, TypeOK, RunnerPcs
  <2>2. ~state'.full /\ state'.free = state.free
    BY <1>6 DEF FetchSwap, Fetched, TypeOK, BufferState
  <2>3. \/ /\ state'.active = state.active /\ state'.mailbox = state.mailbox
           /\ runner' = "check"
        \/ /\ state'.active = state.mailbox /\ state'.mailbox = state.active
           /\ state.full
    BY <1>6 DEF FetchSwap, Fetched, TypeOK, BufferState
  <2>4. published.stamp <= buffers[state'.active].stamp /\ published.stamp \in Nat
    BY <1>0, <2>3 DEF TypeOK, Message
  <2>5. runner' = "publish" =>
          /\ buffers[state'.active].stamp > activatedAt
          /\ buffers[state'.active].stamp > published.stamp
    BY <1>0, <1>6, <2>3, <2>4 DEF FetchSwap
  <2>6. runner' \in {"publish", "check"} /\ runner = "fetch"
    BY <1>6 DEF FetchSwap
  <2>. QED  BY <1>0, <1>6, <2>1, <2>2, <2>3, <2>4, <2>5, <2>6 DEF FetchSwap
<1>7. CASE PublishHeader
  BY <1>0, <1>7 DEF PublishHeader, TypeOK, RunnerPcs
<1>8. CASE PublishBody
  <2>1. stamp = buffers[state.active].stamp /\ Whole(state.active)
    BY <1>0, <1>8 DEF PublishBody
  <2>2. published' \in Message /\ published'.stamp = stamp /\ published'.values = stamp
    BY <1>0, <1>8, <2>1 DEF PublishBody, Message
  <2>3. counter' \in 0 .. Skip - 1
    BY <1>8, SkipPositive DEF PublishBody, TypeOK
  <2>4. TypeOK'
    BY <1>8, <2>2, <2>3 DEF PublishBody, TypeOK, RunnerPcs
  <2>5. runner' \in {"convenience", "check"} /\ runner = "body"
    BY <1>8 DEF PublishBody
  <2>. QED  BY <1>0, <1>8, <2>1, <2>2, <2>4, <2>5 DEF PublishBody
<1>9. CASE PublishConvenience
  BY <1>0, <1>9 DEF PublishConvenience, TypeOK, RunnerPcs
<1>. QED  BY <1>1, <1>2, <1>3, <1>4, <1>5, <1>6, <1>7, <1>8, <1>9 DEF RunnerSteps

LEMMA BufferStep == BufferInv /\ [Next]_vars => BufferInv'
<1>. SUFFICES ASSUME BufferInv, [Next]_vars PROVE BufferInv'
  OBVIOUS
<1>1. CASE UNCHANGED vars
  BY <1>1 DEF vars, managerVars, runnerVars, BufferInv, TypeOK, OwnedApart, SlotsWhole,
              StampsOrdered, RunnerOwned, RunnerFresh, WholeFrames, Whole, Writing
<1>. QED  BY <1>1, LifecycleStep, UpdateStepInv, RunnerStepInv DEF Next

(* BufferInv holds of every reachable state.                               *)
THEOREM BufferConsistent == Spec => []BufferInv
BY BufferInit, BufferStep, PTL DEF Spec

(* Every variable keeps the type of what it stands for.                    *)
THEOREM TypeCorrect == Spec => []TypeOK
BY BufferConsistent, PTL DEF BufferInv

(* No message publishRunner() hands to a publisher mixes two robot states, *)
(* for any number of frames and any rates.                                 *)
THEOREM FramesAreWhole == Spec => []WholeFrames
BY BufferConsistent, PTL DEF BufferInv

(* Only one thread at a time is on the consumer's side of the AsyncBuffer. *)
THEOREM OneConsumer == Spec => []NoSecondConsumer
<1>1. BufferInv => NoSecondConsumer
  BY DEF BufferInv, RunnerOwned, NoSecondConsumer
<1>. QED  BY <1>1, BufferConsistent, PTL

(* Frames are published in order, once each, and never across an           *)
(* activation.                                                             *)
THEOREM FramesAreFresh == Spec => FreshFrames
<1>1. BufferInv /\ [Next]_vars =>
        [runner = "body" /\ runner' # "body" =>
           published'.stamp > published.stamp /\ published'.stamp > activatedAt]_vars
  <2>. SUFFICES ASSUME BufferInv, Next, runner = "body", runner' # "body"
                PROVE  published'.stamp > published.stamp /\ published'.stamp > activatedAt
    OBVIOUS
  <2>1. CASE PublishBody
    BY <2>1 DEF PublishBody, BufferInv, RunnerFresh, TypeOK, BufferState, Message
  <2>2. CASE Joined
    BY <2>2 DEF Joined
  <2>3. CASE OnActivate
    BY <2>3 DEF OnActivate, BufferInv, RunnerOwned, ManagerCalls
  <2>. QED
    BY <2>1, <2>2, <2>3
    DEF Next, Lifecycle, OnConfigure, OnCleanup, OnDeactivate, Destructor, StopPublishThread,
        UpdateStamp, UpdateSteps, UpdateFails, UpdateValues, CommitLoad, CommitRetry,
        CommitSwap, SignalReady, RunnerSteps, RunnerCheck, RunnerPoll, RunnerClear,
        FetchLoad, FetchRetry, FetchSwap, PublishHeader, PublishConvenience, runnerVars
<1>. QED  BY <1>1, BufferConsistent, PTL DEF Spec, FreshFrames

(* After on_configure() update() never copies into vectors without a size. *)
THEOREM SlotsAlwaysSized == Spec => []SlotsSized
<1>1. Init => SlotsSized
  BY DEF Init, SlotsSized
<1>2. BufferInv /\ SlotsSized /\ [Next]_vars => SlotsSized'
  <2>. SUFFICES ASSUME BufferInv, SlotsSized, [Next]_vars PROVE SlotsSized'
    OBVIOUS
  <2>0. buffers \in [Slots -> Message] /\ \A i \in Slots : buffers[i] \in Message
    BY DEF BufferInv, TypeOK
  <2>1. CASE OnConfigure
    BY <2>0, <2>1, ConfigureEffect DEF BufferInv, SlotsSized, Message
  <2>2. CASE UpdateStamp
    BY <2>0, <2>2 DEF UpdateStamp, SlotsSized, Message
  <2>3. CASE UpdateValues
    BY <2>0, <2>3 DEF UpdateValues, SlotsSized, Message
  <2>4. CASE OnActivate
    BY <2>4 DEF OnActivate, ManagerCalls, SlotsSized
  <2>5. CASE OnDeactivate \/ Destructor
    BY <2>5 DEF OnDeactivate, Destructor, StopPublishThread, ManagerCalls, SlotsSized
  <2>. QED
    BY <2>1, <2>2, <2>3, <2>4, <2>5
    DEF Next, Lifecycle, OnCleanup, Joined, UpdateSteps, UpdateFails, CommitLoad, CommitRetry,
        CommitSwap, SignalReady, RunnerSteps, RunnerCheck, RunnerPoll, RunnerClear,
        FetchLoad, FetchRetry, FetchSwap, PublishHeader, PublishBody, PublishConvenience,
        vars, managerVars, runnerVars, SlotsSized
<1>. QED  BY <1>1, <1>2, BufferConsistent, PTL DEF Spec

---------------------------------------------------------------------------
(* Refinement.                                                             *)

boxed == IF state.full THEN buffers[state.mailbox].stamp ELSE 0
shown == buffers[state.active].stamp

(* An exchange by the consumer takes what is in the box, or does nothing.  *)
LEMMA FetchTakes ==
  ASSUME BufferInv, state' = Fetched(state), buffers' = buffers
  PROVE  Box!Take \/ UNCHANGED <<boxed, shown>>
<1>1. {state.active, state.mailbox} \subseteq Slots /\ \A i \in Slots : buffers[i].stamp \in Nat
  BY DEF BufferInv, TypeOK, BufferState, Message
<1>2. CASE state.full
  <2>1. ~state'.full /\ state'.active = state.mailbox
    BY <1>2 DEF Fetched, BufferInv, TypeOK, BufferState
  <2>2. boxed = buffers[state.mailbox].stamp /\ boxed # 0
    BY <1>1, <1>2 DEF boxed, BufferInv, StampsOrdered
  <2>. QED  BY <2>1, <2>2, <1>2 DEF Box!Take, boxed
<1>3. CASE ~state.full
  BY <1>3 DEF Fetched, boxed, shown
<1>. QED  BY <1>2, <1>3

(* Writing to the free slot does not show.                                 *)
LEMMA FreeHidden ==
  ASSUME BufferInv, UNCHANGED state, NEW m,
         buffers' = [buffers EXCEPT ![state.free] = m]
  PROVE  UNCHANGED <<boxed, shown>>
BY DEF BufferInv, OwnedApart, TypeOK, BufferState, boxed, shown

(* The triple buffer keeps exactly the last frame: every action of the     *)
(* broadcaster puts into the box, takes from it, empties it or leaves it.  *)
THEOREM BufferIsLatestFrame == Spec => KeepsLatestFrame
<1>1. Init => Box!Init
  BY DEF Init, Box!Init, FirstState, Slots, EmptyMessage
<1>2. BufferInv /\ [Next]_vars => [Box!Next]_(Box!frameVars)
  <2>. SUFFICES ASSUME BufferInv, [Next]_vars
                PROVE  Box!Next \/ UNCHANGED <<boxed, shown>>
    BY DEF Box!frameVars, boxed, shown
  <2>1. CASE OnConfigure
    <3>1. state'.active = state.active /\ ~state'.full
      BY <2>1, ConfigureEffect DEF BufferInv, Emptied
    <3>2. buffers'[state.active].stamp = buffers[state.active].stamp
      BY <2>1, ConfigureEffect DEF BufferInv, TypeOK, BufferState, Message
    <3>. QED  BY <3>1, <3>2 DEF Box!Next, Box!Empty
  <2>2. CASE OnActivate
    BY <2>2, FetchTakes DEF OnActivate, Box!Next, boxed, shown
  <2>3. CASE FetchSwap
    BY <2>3, FetchTakes DEF FetchSwap, Box!Next
  <2>4. CASE CommitSwap
    <3>1. /\ state'.active = state.active /\ state'.mailbox = state.free /\ state'.full
          /\ buffers' = buffers
      BY <2>4 DEF CommitSwap, Committed, BufferInv, TypeOK, BufferState
    <3>2. buffers[state.free].stamp = frame
      BY <2>4 DEF CommitSwap, BufferInv, SlotsWhole, Writing
    <3>3. /\ state.active \in Slots /\ state.mailbox \in Slots
          /\ \A i \in Slots : buffers[i].stamp \in Nat
          /\ frame \in Nat
      BY DEF BufferInv, TypeOK, BufferState, Message
    <3>4. buffers[state.active].stamp < frame /\ buffers[state.mailbox].stamp < frame
      BY <2>4, <3>3 DEF CommitSwap, BufferInv, StampsOrdered, OwnedApart, Writing
    <3>5. frame \in 1 .. FrameBound
      BY <3>3, <3>4, RatesAssumption DEF BufferInv, StampsOrdered
    <3>6. Box!Put(frame)
      BY <3>1, <3>2, <3>3, <3>4, <3>5 DEF Box!Put
    <3>. QED  BY <3>5, <3>6 DEF Box!Next
  <2>5. CASE UpdateStamp \/ UpdateValues
    BY <2>5, FreeHidden DEF UpdateStamp, UpdateValues
  <2>. QED
    BY <2>1, <2>2, <2>3, <2>4, <2>5
    DEF Next, Lifecycle, OnCleanup, OnDeactivate, Destructor, StopPublishThread, Joined,
        UpdateSteps, UpdateFails, CommitLoad, CommitRetry, SignalReady, RunnerSteps,
        RunnerCheck, RunnerPoll, RunnerClear, FetchLoad, FetchRetry, PublishHeader,
        PublishBody, PublishConvenience, vars, managerVars, runnerVars, boxed, shown
<1>. QED  BY <1>1, <1>2, BufferConsistent, PTL DEF Spec, KeepsLatestFrame, Box!Spec

---------------------------------------------------------------------------
(* How the responses follow one another on the connection                  *)

AnyPiece == [id : Nat, left : 1 .. Body]

(* A piece of the stream starts a response: it is the first that was not   *)
(* read and none is half read, or it is not of the same response as the    *)
(* piece before it.                                                        *)
StartsAt(s, p, k) ==
  /\ k \in 1 .. Len(s)
  /\ IF k = 1 THEN p = None ELSE s[k - 1] # s[k]

(* The last piece of response i is the one at end, which may still be sent.*)
EndsAt(s, snd, i, end) ==
  /\ snd # None /\ snd.id = i => end = Len(s) + snd.left
  /\ snd = None \/ snd.id # i => end <= Len(s)

(* Each response lies in the stream in one run of 1 + Body pieces, without *)
(* what was read of the first and without what has not been sent of the    *)
(* last one.                                                               *)
Framed(s, p, snd) ==
  /\ s \in Seq(Nat)
  /\ p \in AnyPiece \cup {None}
  /\ snd \in AnyPiece \cup {None}
  /\ \A k \in 1 .. Len(s) : StartsAt(s, p, k) =>
       /\ \A j \in 1 .. Len(s) : s[j] = s[k] <=> k <= j /\ j <= k + Body
       /\ EndsAt(s, snd, s[k], k + Body)
  /\ p # None =>
       /\ \A j \in 1 .. Len(s) : s[j] = p.id <=> j <= p.left
       /\ EndsAt(s, snd, p.id, p.left)
  /\ snd # None => IF s = <<>> THEN p = snd ELSE s[Len(s)] = snd.id

(* The responses that were sent and have not been read to their end.       *)
OnItsWay(s, p) ==
  {s[k] : k \in 1 .. Len(s)} \cup {q \in Nat : p # None /\ p.id = q}

(* What is appended to or taken from a sequence leaves the rest as it was. *)
LEMMA Appended ==
  ASSUME NEW s \in Seq(Nat), NEW i \in Nat
  PROVE  /\ Append(s, i) \in Seq(Nat) /\ Len(Append(s, i)) = Len(s) + 1
         /\ Append(s, i)[Len(s) + 1] = i /\ Append(s, i) # <<>>
         /\ \A k \in 1 .. Len(s) : Append(s, i)[k] = s[k]
OBVIOUS

LEMMA TailOf ==
  ASSUME NEW s \in Seq(Nat), s # <<>>
  PROVE  /\ Tail(s) \in Seq(Nat) /\ Len(Tail(s)) = Len(s) - 1 /\ Head(s) = s[1]
         /\ Len(s) \in Nat \ {0}
         /\ \A k \in 1 .. Len(s) - 1 : Tail(s)[k] = s[k + 1]
OBVIOUS

LEMMA RestOf ==
  ASSUME NEW s \in Seq(Nat), NEW n \in 0 .. Len(s)
  PROVE  LET r == SubSeq(s, n + 1, Len(s))
         IN  /\ r \in Seq(Nat) /\ Len(r) = Len(s) - n
             /\ \A k \in 1 .. Len(s) - n : r[k] = s[k + n]
OBVIOUS

(* The lesser of two numbers.                                              *)
LEMMA MinOfTwo ==
  ASSUME NEW a \in Nat, NEW b \in Nat
  PROVE  Min({a, b}) = IF a <= b THEN a ELSE b
BY DEF Min

(* A header is read: the response that it begins is the one half read.     *)
LEMMA HeaderRead ==
  ASSUME NEW s, NEW snd, Framed(s, None, snd), s # <<>>
  PROVE  LET p == [id |-> Head(s), left |-> Body]
         IN  Framed(Tail(s), p, snd) /\ OnItsWay(Tail(s), p) = OnItsWay(s, None)
<1>0. Body \in Nat \ {0} /\ None \notin [id : Nat, left : Nat]
  BY ResponsesAssumption
<1> DEFINE p == [id |-> Head(s), left |-> Body]
           t == Tail(s)
<1>1. /\ s \in Seq(Nat) /\ t \in Seq(Nat) /\ Len(t) = Len(s) - 1 /\ Head(s) = s[1]
      /\ Len(s) \in Nat \ {0} /\ s[1] \in Nat
      /\ \A k \in 1 .. Len(t) : t[k] = s[k + 1]
  BY TailOf DEF Framed
<1>2. p \in AnyPiece /\ p # None /\ p.id = s[1] /\ p.left = Body
  BY <1>0, <1>1 DEF AnyPiece
<1>3. StartsAt(s, None, 1)
  BY <1>1 DEF StartsAt
<1>4. \A j \in 1 .. Len(s) : s[j] = s[1] <=> j <= 1 + Body
  BY <1>1, <1>3 DEF Framed
<1>5. EndsAt(s, snd, s[1], 1 + Body)
  BY <1>1, <1>3 DEF Framed
<1>6. snd # None => snd \in AnyPiece /\ snd.id \in Nat /\ snd.left \in Nat
  BY DEF Framed, AnyPiece
<1> HIDE DEF p, t
<1>7. ASSUME NEW k \in 1 .. Len(t), StartsAt(t, p, k)
      PROVE  /\ \A j \in 1 .. Len(t) : t[j] = t[k] <=> k <= j /\ j <= k + Body
             /\ EndsAt(t, snd, t[k], k + Body)
  <2>1. k # 1 /\ t[k - 1] # t[k]
    BY <1>2, <1>7 DEF StartsAt
  <2>2. StartsAt(s, None, k + 1) /\ k + 1 \in 1 .. Len(s)
    <3>1. k + 1 \in 1 .. Len(s) /\ k - 1 \in 1 .. Len(t) /\ k + 1 # 1
      <4>1. k \in Nat /\ 2 <= k /\ k <= Len(t) /\ Len(t) \in Nat
        BY <1>1, <2>1
      <4> HIDE <1>1
      <4>2. Len(t) = Len(s) - 1 /\ Len(s) \in Nat
        BY <1>1
      <4> QED BY <4>1, <4>2
    <3>2. t[k - 1] = s[(k - 1) + 1] /\ t[k] = s[k + 1] /\ (k - 1) + 1 = (k + 1) - 1
      BY SMTT(20), <1>1, <3>1
    <3> QED BY <2>1, <3>1, <3>2 DEF StartsAt
  <2>3. /\ \A j \in 1 .. Len(s) : s[j] = s[k + 1] <=> k + 1 <= j /\ j <= k + 1 + Body
        /\ EndsAt(s, snd, s[k + 1], k + 1 + Body)
    BY <2>2 DEF Framed
  <2>4. t[k] = s[k + 1]
    BY <1>1
  <2>5. ASSUME NEW j \in 1 .. Len(t)
        PROVE  t[j] = t[k] <=> k <= j /\ j <= k + Body
    <3>1. t[j] = s[j + 1] /\ j + 1 \in 1 .. Len(s)
      BY <1>1
    <3> QED BY <1>0, <2>3, <2>4, <3>1
  <2>6. EndsAt(t, snd, t[k], k + Body)
    <3>1. Len(t) = Len(s) - 1 /\ Len(s) \in Nat /\ k \in Nat /\ Body \in Nat
      BY <1>0, <1>1
    <3>2. EndsAt(s, snd, t[k], k + 1 + Body)
      BY <2>3, <2>4
    <3> QED BY <1>6, <3>1, <3>2 DEF EndsAt
  <2> QED BY <2>5, <2>6
<1>8. ASSUME NEW j \in 1 .. Len(t)
      PROVE  t[j] = p.id <=> j <= p.left
  <2>1. t[j] = s[j + 1] /\ j + 1 \in 1 .. Len(s)
    BY <1>1
  <2> QED BY <1>0, <1>2, <1>4, <2>1
<1>9. EndsAt(t, snd, p.id, p.left)
  BY <1>0, <1>1, <1>2, <1>5, <1>6 DEF EndsAt
<1>10. snd # None => IF t = <<>> THEN p = snd ELSE t[Len(t)] = snd.id
  <2> SUFFICES ASSUME snd # None
               PROVE  IF t = <<>> THEN p = snd ELSE t[Len(t)] = snd.id
    OBVIOUS
  <2>1. s[Len(s)] = snd.id
    BY DEF Framed
  <2>2. CASE t = <<>>
    <3>1. Len(s) = 1 /\ snd.id = s[1]
      <4>1. Len(t) = 0
        BY <2>2
      <4>2. Len(s) = 1
        BY <1>1, <4>1
      <4> QED BY <2>1, <4>2
    <3>2. snd.left = Body
      BY <1>0, <1>5, <1>6, <3>1 DEF EndsAt
    <3> QED BY <1>1, <1>6, <2>2, <3>1, <3>2 DEF p, AnyPiece
  <2>3. CASE t # <<>>
    <3>1. Len(t) \in 1 .. Len(t)
      BY <1>1, <2>3
    <3> QED BY <1>1, <2>1, <2>3, <3>1
  <2> QED BY <2>2, <2>3
<1>11. Framed(t, p, snd)
  <2>1. snd \in AnyPiece \cup {None}
    BY DEF Framed
  <2> QED BY <1>1, <1>2, <1>7, <1>8, <1>9, <1>10, <2>1 DEF Framed
<1>12. OnItsWay(t, p) = OnItsWay(s, None)
  <2>1. \A q \in Nat : q \in OnItsWay(s, None) <=> \E k \in 1 .. Len(s) : q = s[k]
    BY DEF OnItsWay
  <2>2. \A q \in Nat :
          q \in OnItsWay(t, p) <=> (\E k \in 1 .. Len(t) : q = s[k + 1]) \/ q = s[1]
    <3>1. \A q \in Nat : q \in OnItsWay(t, p) <=> (\E k \in 1 .. Len(t) : q = t[k]) \/ q = p.id
      BY <1>2 DEF OnItsWay
    <3>2. \A k \in 1 .. Len(t) : t[k] = s[k + 1]
      BY <1>1
    <3>3. \A q \in Nat :
            (\E k \in 1 .. Len(t) : q = t[k]) <=> \E k \in 1 .. Len(t) : q = s[k + 1]
      BY <3>2, Zenon
    <3>4. p.id = s[1]
      BY <1>2
    <3> QED BY <3>1, <3>3, <3>4, Zenon
  <2>3. OnItsWay(t, p) \subseteq Nat /\ OnItsWay(s, None) \subseteq Nat
    BY <1>1 DEF OnItsWay
  <2>4. ASSUME NEW q \in Nat
        PROVE  (\E k \in 1 .. Len(s) : q = s[k])
                  <=> (\E k \in 1 .. Len(t) : q = s[k + 1]) \/ q = s[1]
    <3>1. ASSUME NEW k \in 1 .. Len(s), q = s[k], k # 1
          PROVE  k - 1 \in 1 .. Len(t) /\ q = s[(k - 1) + 1]
      BY <1>1, <3>1
    <3>2. \A k \in 1 .. Len(t) : k + 1 \in 1 .. Len(s)
      BY <1>1
    <3>3. 1 \in 1 .. Len(s)
      BY <1>1
    <3> QED BY <3>1, <3>2, <3>3
  <2> QED BY <2>1, <2>2, <2>3, <2>4
<1> QED BY <1>11, <1>12 DEF p, t

(* As much of the body is read as there is: it is all of one response, and *)
(* when it was the end of it that response is no longer on its way.        *)
LEMMA BodyRead ==
  ASSUME NEW s, NEW p, NEW snd, Framed(s, p, snd), p # None
  PROVE  LET n == Min({p.left, Len(s)})
             r == SubSeq(s, n + 1, Len(s))
             q == IF n = p.left THEN None ELSE [id |-> p.id, left |-> p.left - n]
         IN  /\ Framed(r, q, snd)
             /\ n = p.left => n \in 1 .. Len(s) /\ s[n] = p.id
             /\ OnItsWay(r, q) = IF n = p.left THEN OnItsWay(s, p) \ {p.id}
                                 ELSE OnItsWay(s, p)
<1> DEFINE n == Min({p.left, Len(s)})
           r == SubSeq(s, n + 1, Len(s))
           q == IF n = p.left THEN None ELSE [id |-> p.id, left |-> p.left - n]
<1>0. Body \in Nat \ {0} /\ None \notin [id : Nat, left : Nat]
  BY ResponsesAssumption
<1>1. /\ s \in Seq(Nat) /\ Len(s) \in Nat /\ p.id \in Nat /\ p.left \in 1 .. Body
      /\ p = [id |-> p.id, left |-> p.left]
  BY DEF Framed, AnyPiece
<1>2. snd # None => snd \in AnyPiece /\ snd.id \in Nat /\ snd.left \in Nat \ {0}
  BY DEF Framed, AnyPiece
<1>3. \A j \in 1 .. Len(s) : s[j] = p.id <=> j <= p.left
  BY DEF Framed
<1>4. EndsAt(s, snd, p.id, p.left)
  BY DEF Framed
<1>5. n = IF p.left <= Len(s) THEN p.left ELSE Len(s)
  BY <1>1, MinOfTwo
<1> HIDE DEF n
<1> SUFFICES /\ Framed(r, q, snd)
             /\ n = p.left => n \in 1 .. Len(s) /\ s[n] = p.id
             /\ OnItsWay(r, q) = IF n = p.left THEN OnItsWay(s, p) \ {p.id}
                                 ELSE OnItsWay(s, p)
  BY DEF n
<1>6. CASE p.left <= Len(s)
  <2>1. n = p.left /\ n \in 1 .. Len(s) /\ q = None
    BY <1>0, <1>1, <1>5, <1>6
  <2>2. r \in Seq(Nat) /\ Len(r) = Len(s) - n /\ \A k \in 1 .. Len(r) : r[k] = s[k + n]
    <3>1. n \in 0 .. Len(s)
      BY <1>1, <2>1
    <3>2. r \in Seq(Nat) /\ Len(r) = Len(s) - n /\ \A k \in 1 .. Len(s) - n : r[k] = s[k + n]
      BY <1>1, <3>1, RestOf
    <3> QED BY <3>2
  <2> HIDE DEF r, q
  <2>0. Len(r) = Len(s) - n /\ Len(r) \in Nat /\ Len(s) \in Nat /\ n \in Nat /\ 1 <= n
    BY <1>1, <2>1, <2>2
  <2>3. ASSUME NEW k \in 1 .. Len(r), StartsAt(r, q, k)
        PROVE  /\ \A j \in 1 .. Len(r) : r[j] = r[k] <=> k <= j /\ j <= k + Body
               /\ EndsAt(r, snd, r[k], k + Body)
    <3>1. k + n \in 1 .. Len(s) /\ (k + n) - 1 \in 1 .. Len(s) /\ k + n # 1
      BY <2>0
    <3>0. r[k] = s[k + n]
      BY <2>2
    <3>2. s[(k + n) - 1] # s[k + n]
      <4>1. CASE k = 1
        <5>1. s[n] = p.id /\ s[n + 1] # p.id /\ (k + n) - 1 = n /\ k + n = n + 1
          BY <1>1, <1>3, <2>1, <3>1, <4>1
        <5> QED BY <5>1
      <4>2. CASE k # 1
        <5>1. k - 1 \in 1 .. Len(r) /\ (k - 1) + n = (k + n) - 1
          BY <2>0, <4>2
        <5>2. r[k - 1] # r[k]
          BY <2>3, <4>2 DEF StartsAt
        <5> QED BY <2>2, <3>0, <3>1, <5>1, <5>2
      <4> QED BY <4>1, <4>2
    <3>3. StartsAt(s, p, k + n)
      BY <3>1, <3>2 DEF StartsAt
    <3>4. /\ \A j \in 1 .. Len(s) : s[j] = s[k + n] <=> k + n <= j /\ j <= k + n + Body
          /\ EndsAt(s, snd, s[k + n], k + n + Body)
      BY <3>1, <3>3 DEF Framed
    <3>5. ASSUME NEW j \in 1 .. Len(r)
          PROVE  r[j] = r[k] <=> k <= j /\ j <= k + Body
      <4>1. r[j] = s[j + n] /\ j + n \in 1 .. Len(s)
        BY <2>0, <2>2
      <4>2. k + n <= j + n /\ j + n <= k + n + Body <=> k <= j /\ j <= k + Body
        BY <1>0, <1>1, <2>1
      <4> QED BY <3>0, <3>1, <3>4, <4>1, <4>2
    <3>6. EndsAt(r, snd, r[k], k + Body)
      <4>1. /\ Len(r) = Len(s) - n /\ Len(s) \in Nat /\ k \in Nat /\ Body \in Nat
            /\ n \in Nat
        BY SMTT(20), <1>0, <1>1, <2>1, <2>2
      <4>2. EndsAt(s, snd, r[k], k + n + Body)
        BY <3>0, <3>1, <3>4
      <4> QED BY <1>2, <4>1, <4>2 DEF EndsAt
    <3> QED BY <3>5, <3>6
  <2>4. snd # None => IF r = <<>> THEN q = snd ELSE r[Len(r)] = snd.id
    <3> SUFFICES ASSUME snd # None
                 PROVE  r # <<>> /\ r[Len(r)] = snd.id
      OBVIOUS
    <3>1. s # <<>> /\ s[Len(s)] = snd.id
      BY <1>1, <2>1 DEF Framed
    <3>2. Len(r) # 0
      <4> SUFFICES ASSUME Len(s) = n
                   PROVE  FALSE
        BY <1>1, <2>1, <2>2
      <4>1. snd.id = p.id
        BY <1>1, <2>1, <1>3, <3>1
      <4> QED BY <1>1, <1>2, <1>4, <2>1, <4>1 DEF EndsAt
    <3>3. Len(r) \in 1 .. Len(r) /\ Len(r) + n = Len(s)
      BY <1>1, <2>1, <2>2, <3>2
    <3> QED BY <2>2, <3>1, <3>2, <3>3
  <2>5. Framed(r, q, snd)
    <3>1. snd \in AnyPiece \cup {None}
      BY DEF Framed
    <3> QED BY <2>1, <2>2, <2>3, <2>4, <3>1 DEF Framed
  <2>6. s[n] = p.id
    BY <1>1, <1>3, <2>1
  <2>7. OnItsWay(r, q) = OnItsWay(s, p) \ {p.id}
    <3>1. OnItsWay(r, q) = {r[k] : k \in 1 .. Len(r)}
      BY <2>1 DEF OnItsWay
    <3>2. OnItsWay(s, p) \ {p.id} = {s[k] : k \in 1 .. Len(s)} \ {p.id}
      BY <1>1 DEF OnItsWay
    <3>3. ASSUME NEW k \in 1 .. Len(r)
          PROVE  k + n \in 1 .. Len(s) /\ r[k] = s[k + n] /\ s[k + n] # p.id
      <4>1. k + n \in 1 .. Len(s) /\ ~(k + n <= p.left)
        BY SMTT(20), <1>1, <2>1, <2>2
      <4> QED BY <1>3, <2>2, <4>1
    <3>4. ASSUME NEW k \in 1 .. Len(s), s[k] # p.id
          PROVE  k - n \in 1 .. Len(r) /\ r[k - n] = s[k]
      <4>1. ~(k <= p.left)
        BY <1>3, <3>4
      <4>2. k - n \in 1 .. Len(r) /\ (k - n) + n = k
        BY <1>1, <2>1, <2>2, <4>1
      <4> QED BY <2>2, <4>2
    <3> QED BY <3>1, <3>2, <3>3, <3>4
  <2> QED BY <2>1, <2>5, <2>6, <2>7 DEF r, q
<1>7. CASE ~(p.left <= Len(s))
  <2>1. n = Len(s) /\ n # p.left /\ n \in Nat
    BY <1>1, <1>5, <1>7
  <2>2. r \in Seq(Nat) /\ Len(r) = 0 /\ r = <<>>
    <3>1. r \in Seq(Nat) /\ Len(r) = Len(s) - n
      BY <1>1, <2>1, RestOf
    <3> QED BY <1>1, <2>1, <3>1
  <2>3. q = [id |-> p.id, left |-> p.left - n] /\ p.left - n \in 1 .. Body
    BY <1>0, <1>1, <1>7, <2>1
  <2>4. q \in AnyPiece /\ q.id = p.id /\ q.left = p.left - n
    BY <1>1, <2>3 DEF AnyPiece
  <2>5. snd # None /\ snd.id = p.id /\ p.left = Len(s) + snd.left
    BY <1>1, <1>4, <1>7 DEF EndsAt
  <2>6. q = snd
    <3>1. snd = [id |-> snd.id, left |-> snd.left] /\ snd.left = p.left - n
      BY <1>1, <1>2, <2>1, <2>5 DEF AnyPiece
    <3> QED BY <2>3, <2>5, <3>1
  <2> HIDE DEF r, q
  <2>7. Framed(r, q, snd)
    <3>1. EndsAt(r, snd, q.id, q.left)
      BY <1>0, <1>2, <2>2, <2>5, <2>6 DEF EndsAt
    <3>2. \A j \in 1 .. Len(r) : FALSE
      BY <2>2
    <3>3. snd \in AnyPiece
      BY <1>2, <2>5
    <3> QED BY <2>2, <2>4, <2>6, <3>1, <3>2, <3>3 DEF Framed
  <2>8. OnItsWay(r, q) = OnItsWay(s, p)
    <3>1. OnItsWay(r, q) = {p.id}
      BY <1>1, <2>2, <2>4, <2>5, <2>6 DEF OnItsWay
    <3>2. \A k \in 1 .. Len(s) : s[k] = p.id
      BY <1>1, <1>3, <1>7
    <3>3. OnItsWay(s, p) = {s[k] : k \in 1 .. Len(s)} \cup {p.id}
      BY <1>1 DEF OnItsWay
    <3> QED BY <3>1, <3>2, <3>3
  <2> QED BY <2>1, <2>7, <2>8 DEF r, q
<1> QED BY <1>6, <1>7

(* The server begins the response to a request that is not on its way.     *)
LEMMA ResponseBegun ==
  ASSUME NEW s, NEW p, Framed(s, p, None), NEW i \in Nat, i \notin OnItsWay(s, p)
  PROVE  LET snd == [id |-> i, left |-> Body]
         IN  /\ Framed(Append(s, i), p, snd)
             /\ OnItsWay(Append(s, i), p) = OnItsWay(s, p) \cup {i}
<1> DEFINE r == Append(s, i)
           snd == [id |-> i, left |-> Body]
<1>0. Body \in Nat \ {0} /\ None \notin [id : Nat, left : Nat]
  BY ResponsesAssumption
<1>1. s \in Seq(Nat) /\ Len(s) \in Nat /\ p \in AnyPiece \cup {None}
  BY DEF Framed
<1>2. /\ r \in Seq(Nat) /\ Len(r) = Len(s) + 1 /\ r[Len(s) + 1] = i /\ r # <<>>
      /\ \A k \in 1 .. Len(s) : r[k] = s[k]
  BY <1>1, Appended
<1>3. snd \in AnyPiece /\ snd # None /\ snd.id = i /\ snd.left = Body
  BY <1>0 DEF AnyPiece
<1>4. (\A k \in 1 .. Len(s) : s[k] # i) /\ (p # None => p.id # i)
  BY DEF OnItsWay
<1> HIDE DEF r, snd
<1>5. ASSUME NEW k \in 1 .. Len(r), StartsAt(r, p, k)
      PROVE  /\ \A j \in 1 .. Len(r) : r[j] = r[k] <=> k <= j /\ j <= k + Body
             /\ EndsAt(r, snd, r[k], k + Body)
  <2>1. CASE k = Len(s) + 1
    <3>1. ASSUME NEW j \in 1 .. Len(r), j # k
          PROVE  r[j] # r[k] /\ ~(k <= j)
      BY SMTT(20), <1>1, <1>2, <1>4, <2>1, <3>1
    <3>2. EndsAt(r, snd, r[k], k + Body)
      BY <1>0, <1>1, <1>2, <1>3, <2>1 DEF EndsAt
    <3>3. k <= k + Body
      BY <1>0
    <3> QED BY <3>1, <3>2, <3>3
  <2>2. CASE k # Len(s) + 1
    <3>1. k \in 1 .. Len(s) /\ r[k] = s[k]
      BY <1>1, <1>2, <2>2
    <3>2. StartsAt(s, p, k)
      <4>1. CASE k = 1
        BY <1>5, <3>1, <4>1 DEF StartsAt
      <4>2. CASE k # 1
        <5>1. k - 1 \in 1 .. Len(s)
          BY <1>1, <3>1, <4>2
        <5> QED BY <1>2, <1>5, <3>1, <4>2, <5>1 DEF StartsAt
      <4> QED BY <4>1, <4>2
    <3>3. /\ \A j \in 1 .. Len(s) : s[j] = s[k] <=> k <= j /\ j <= k + Body
          /\ k + Body <= Len(s)
      BY <3>1, <3>2 DEF Framed, EndsAt
    <3>4. EndsAt(r, snd, r[k], k + Body)
      BY SMTT(20), <1>0, <1>1, <1>2, <1>3, <1>4, <3>1, <3>3 DEF EndsAt
    <3>5. ASSUME NEW j \in 1 .. Len(r)
          PROVE  r[j] = r[k] <=> k <= j /\ j <= k + Body
      <4>1. CASE j \in 1 .. Len(s)
        BY <1>2, <3>1, <3>3, <4>1
      <4>2. CASE j = Len(s) + 1
        <5>1. r[j] # r[k]
          BY <1>2, <1>4, <3>1, <4>2
        <5>2. ~(j <= k + Body)
          BY <1>0, <1>1, <3>1, <3>3, <4>2
        <5> QED BY <5>1, <5>2
      <4> QED BY <1>1, <1>2, <4>1, <4>2
    <3> QED BY <3>4, <3>5
  <2> QED BY <2>1, <2>2
<1>6. ASSUME p # None
      PROVE  /\ \A j \in 1 .. Len(r) : r[j] = p.id <=> j <= p.left
             /\ EndsAt(r, snd, p.id, p.left)
  <2>1. p.left \in Nat /\ p.left <= Len(s)
    BY <1>1, <1>6 DEF Framed, EndsAt, AnyPiece
  <2>2. EndsAt(r, snd, p.id, p.left)
    BY <1>1, <1>2, <1>3, <1>4, <1>6, <2>1 DEF EndsAt
  <2>3. ASSUME NEW j \in 1 .. Len(r)
        PROVE  r[j] = p.id <=> j <= p.left
    <3>1. CASE j \in 1 .. Len(s)
      BY <1>2, <1>6, <3>1 DEF Framed
    <3>2. CASE j = Len(s) + 1
      BY <1>1, <1>2, <1>4, <1>6, <2>1, <3>2
    <3> QED BY <1>1, <1>2, <3>1, <3>2
  <2> QED BY <2>2, <2>3
<1>7. Framed(r, p, snd)
  BY <1>1, <1>2, <1>3, <1>5, <1>6 DEF Framed
<1>8. OnItsWay(r, p) = OnItsWay(s, p) \cup {i}
  <2>1. {r[k] : k \in 1 .. Len(r)} = {s[k] : k \in 1 .. Len(s)} \cup {i}
    <3>1. \A k \in 1 .. Len(r) : k \in 1 .. Len(s) \/ k = Len(s) + 1
      BY <1>1, <1>2
    <3>2. Len(s) + 1 \in 1 .. Len(r) /\ \A k \in 1 .. Len(s) : k \in 1 .. Len(r)
      BY <1>1, <1>2
    <3> QED BY <1>2, <3>1, <3>2
  <2> QED BY <2>1 DEF OnItsWay
<1> QED BY <1>7, <1>8 DEF r, snd

(* A further piece of the response that the server sends.                  *)
LEMMA ResponseContinued ==
  ASSUME NEW s, NEW p, NEW snd, Framed(s, p, snd), snd # None
  PROVE  LET next == IF snd.left = 1 THEN None
                     ELSE [id |-> snd.id, left |-> snd.left - 1]
         IN  /\ Framed(Append(s, snd.id), p, next)
             /\ OnItsWay(Append(s, snd.id), p) = OnItsWay(s, p)
<1> DEFINE i == snd.id
           r == Append(s, i)
           next == IF snd.left = 1 THEN None ELSE [id |-> i, left |-> snd.left - 1]
<1>0. Body \in Nat \ {0} /\ None \notin [id : Nat, left : Nat]
  BY ResponsesAssumption
<1>1. /\ s \in Seq(Nat) /\ Len(s) \in Nat /\ p \in AnyPiece \cup {None}
      /\ i \in Nat /\ snd.left \in 1 .. Body
  BY DEF Framed, AnyPiece
<1>2. /\ r \in Seq(Nat) /\ Len(r) = Len(s) + 1 /\ r[Len(s) + 1] = i /\ r # <<>>
      /\ \A k \in 1 .. Len(s) : r[k] = s[k]
  BY <1>1, Appended
<1>3. /\ next \in AnyPiece \cup {None}
      /\ IF snd.left = 1 THEN next = None
         ELSE next # None /\ next.id = i /\ next.left = snd.left - 1
  <2>1. CASE snd.left = 1
    BY <2>1
  <2>2. CASE snd.left # 1
    <3>1. snd.left - 1 \in 1 .. Body
      BY <1>0, <1>1, <2>2
    <3> QED BY <1>0, <1>1, <2>2, <3>1 DEF AnyPiece
  <2> QED BY <2>1, <2>2
<1>4. IF s = <<>> THEN p = snd ELSE s[Len(s)] = i
  BY DEF Framed
<1> HIDE DEF i, r, next
(* Where a response ends stays where it was.                               *)
<1>5. ASSUME NEW q, NEW end \in Nat, EndsAt(s, snd, q, end)
      PROVE  /\ EndsAt(r, next, q, end)
             /\ IF q = i THEN Len(s) + 1 <= end ELSE ~(Len(s) + 1 <= end)
  <2>1. CASE q = i
    <3>1. end = Len(s) + snd.left
      BY <1>5, <2>1 DEF EndsAt, i
    <3>2. Len(r) = Len(s) + 1 /\ Len(s) \in Nat /\ snd.left \in Nat \ {0}
      BY <1>1, <1>2
    <3> QED BY <1>3, <2>1, <3>1, <3>2 DEF EndsAt
  <2>2. CASE q # i
    <3>1. end <= Len(s)
      BY <1>5, <2>2 DEF EndsAt, i
    <3>2. Len(r) = Len(s) + 1 /\ Len(s) \in Nat
      BY <1>1, <1>2
    <3>3. next # None => next.id = i
      BY <1>3
    <3> QED BY <2>2, <3>1, <3>2, <3>3 DEF EndsAt
  <2> QED BY <2>1, <2>2
<1>6. ASSUME NEW k \in 1 .. Len(r), StartsAt(r, p, k)
      PROVE  /\ \A j \in 1 .. Len(r) : r[j] = r[k] <=> k <= j /\ j <= k + Body
             /\ EndsAt(r, next, r[k], k + Body)
  <2>1. k # Len(s) + 1
    <3> SUFFICES ASSUME k = Len(s) + 1
                 PROVE  FALSE
      OBVIOUS
    <3>1. CASE s = <<>>
      <4>1. k = 1
        BY <3>1
      <4> QED BY <1>4, <1>6, <3>1, <4>1 DEF StartsAt
    <3>2. CASE s # <<>>
      <4>1. k # 1 /\ k - 1 = Len(s) /\ Len(s) \in 1 .. Len(s)
        BY <1>1, <3>2
      <4>2. r[k - 1] = i /\ r[k] = i
        BY <1>2, <1>4, <3>2, <4>1
      <4> QED BY <1>6, <4>1, <4>2 DEF StartsAt
    <3> QED BY <3>1, <3>2
  <2>2. k \in 1 .. Len(s) /\ r[k] = s[k]
    BY <1>1, <1>2, <2>1
  <2>3. StartsAt(s, p, k)
    <3>1. CASE k = 1
      BY <1>6, <2>2, <3>1 DEF StartsAt
    <3>2. CASE k # 1
      <4>1. k - 1 \in 1 .. Len(s)
        BY <1>1, <2>2, <3>2
      <4> QED BY <1>2, <1>6, <2>2, <3>2, <4>1 DEF StartsAt
    <3> QED BY <3>1, <3>2
  <2>4. /\ \A j \in 1 .. Len(s) : s[j] = s[k] <=> k <= j /\ j <= k + Body
        /\ EndsAt(s, snd, s[k], k + Body)
    BY <2>2, <2>3 DEF Framed
  <2>5. /\ EndsAt(r, next, s[k], k + Body)
        /\ IF s[k] = i THEN Len(s) + 1 <= k + Body ELSE ~(Len(s) + 1 <= k + Body)
    <3>1. k + Body \in Nat
      BY <1>0
    <3> QED BY <1>5, <2>4, <3>1
  <2>6. ASSUME NEW j \in 1 .. Len(r)
        PROVE  r[j] = r[k] <=> k <= j /\ j <= k + Body
    <3>1. CASE j \in 1 .. Len(s)
      BY <1>2, <2>2, <2>4, <3>1
    <3>2. CASE j = Len(s) + 1
      <4>1. k <= j
        BY <1>1, <2>2, <3>2
      <4> QED BY <1>2, <2>2, <2>5, <3>2, <4>1
    <3> QED BY <1>1, <1>2, <3>1, <3>2
  <2> QED BY <2>2, <2>5, <2>6
<1>7. ASSUME p # None
      PROVE  /\ \A j \in 1 .. Len(r) : r[j] = p.id <=> j <= p.left
             /\ EndsAt(r, next, p.id, p.left)
  <2>1. p.left \in Nat /\ EndsAt(s, snd, p.id, p.left)
    BY <1>1, <1>7 DEF Framed, AnyPiece
  <2>2. /\ EndsAt(r, next, p.id, p.left)
        /\ IF p.id = i THEN Len(s) + 1 <= p.left ELSE ~(Len(s) + 1 <= p.left)
    BY <1>5, <2>1
  <2>3. ASSUME NEW j \in 1 .. Len(r)
        PROVE  r[j] = p.id <=> j <= p.left
    <3>1. CASE j \in 1 .. Len(s)
      BY <1>2, <1>7, <3>1 DEF Framed
    <3>2. CASE j = Len(s) + 1
      BY <1>2, <2>2, <3>2
    <3> QED BY <1>1, <1>2, <3>1, <3>2
  <2> QED BY <2>2, <2>3
<1>8. Framed(r, p, next)
  <2>1. next # None => r[Len(r)] = i /\ next.id = i
    BY <1>2, <1>3
  <2> QED BY <1>1, <1>2, <1>3, <1>6, <1>7, <2>1 DEF Framed
<1>9. OnItsWay(r, p) = OnItsWay(s, p)
  <2>1. {r[k] : k \in 1 .. Len(r)} = {s[k] : k \in 1 .. Len(s)} \cup {i}
    <3>1. \A k \in 1 .. Len(r) : k \in 1 .. Len(s) \/ k = Len(s) + 1
      BY <1>1, <1>2
    <3>2. Len(s) + 1 \in 1 .. Len(r) /\ \A k \in 1 .. Len(s) : k \in 1 .. Len(r)
      BY <1>1, <1>2
    <3> QED BY <1>2, <3>1, <3>2
  <2>2. i \in OnItsWay(s, p)
    <3>1. CASE s = <<>>
      BY <1>1, <1>4, <3>1 DEF OnItsWay, i
    <3>2. CASE s # <<>>
      <4>1. Len(s) \in 1 .. Len(s)
        BY <1>1, <3>2
      <4> QED BY <1>4, <3>2, <4>1 DEF OnItsWay
    <3> QED BY <3>1, <3>2
  <2> QED BY <2>1, <2>2 DEF OnItsWay
<1> QED BY <1>8, <1>9 DEF i, r, next

---------------------------------------------------------------------------
(* The inductive invariant                                                 *)

Kept(rcv) == {e.key : e \in rcv}

ResponseTypes ==
  /\ phase \in [Callers -> {"new", "waiting", "reading", "taking", "done", "failed"}]
  /\ id \in [Callers -> Nat \cup {None}] /\ answer \in [Callers -> Nat \cup {None}]
  /\ commandId \in Nat
  /\ open \subseteq Nat

(* What is kept is kept under the ID it has.                               *)
KeptAsSent(rcv) ==
  \A e \in rcv : e = [key |-> e.key, content |-> e.key] /\ e.key \in Nat

(* A response is in one place: not begun, on its way, or kept.  Every one  *)
(* belongs to a request that was sent.                                     *)
OnePlace(rcv, way) ==
  /\ open \cap way = {} /\ open \cap Kept(rcv) = {} /\ way \cap Kept(rcv) = {}
  /\ \A i \in open \cup way \cup Kept(rcv) : i < commandId

(* Each thread has an ID of its own.                                       *)
OwnIds ==
  \A c \in Callers : phase[c] # "new" =>
    /\ id[c] \in Nat /\ id[c] < commandId
    /\ \A d \in Callers \ {c} : phase[d] # "new" => id[d] # id[c]

Awaited(way, rcv) ==
  \A c \in Callers : phase[c] \in {"waiting", "reading", "taking"} =>
    id[c] \in open \cup way \cup Kept(rcv)

Answered == \A c \in Callers : phase[c] = "done" => answer[c] = id[c]

ResponsesInv ==
  /\ ResponseTypes
  /\ Framed(stream, pending, sending)
  /\ KeptAsSent(received)
  /\ OnePlace(received, OnItsWay(stream, pending))
  /\ OwnIds
  /\ Awaited(OnItsWay(stream, pending), received)
  /\ Answered

(* What is still to be received does not change when a thread reads: what  *)
(* leaves the stream is kept (tcpReadFromBuffer).                          *)
LEMMA ReadKeepsAll ==
  ASSUME Framed(stream, pending, sending), KeptAsSent(received),
         OnePlace(received, OnItsWay(stream, pending))
  PROVE  LET a == Tcp!AfterRead
             way == OnItsWay(a.stream, a.pending)
         IN  /\ Framed(a.stream, a.pending, sending)
             /\ KeptAsSent(a.received)
             /\ OnePlace(a.received, way)
             /\ way \cup Kept(a.received) = OnItsWay(stream, pending) \cup Kept(received)
<1> DEFINE a == Tcp!AfterRead
           p == IF pending = None THEN [id |-> Head(stream), left |-> Body] ELSE pending
           pieces == IF pending = None THEN Tail(stream) ELSE stream
           n == Min({p.left, Len(pieces)})
           rest == SubSeq(pieces, n + 1, Len(pieces))
           half == IF n = p.left THEN None ELSE [id |-> p.id, left |-> p.left - n]
           kept == IF n = p.left THEN Tcp!Emplace(p.id, pieces[n]) ELSE received
           way == OnItsWay(stream, pending)
<1>1. CASE stream = <<>>
  <2>1. a = [stream |-> stream, pending |-> pending, received |-> received]
    BY <1>1 DEF Tcp!AfterRead
  <2> QED BY <2>1
<1>2. CASE stream # <<>>
  <2>1. a = [stream |-> rest, pending |-> half, received |-> kept]
    BY <1>2 DEF Tcp!AfterRead, Tcp!Min, Min
  <2>2. a.stream = rest /\ a.pending = half /\ a.received = kept
    BY <2>1
  <2>3. Framed(pieces, p, sending) /\ OnItsWay(pieces, p) = way /\ p # None
    <3>1. CASE pending = None
      <4>1. p = [id |-> Head(stream), left |-> Body] /\ pieces = Tail(stream)
        BY <3>1
      <4>2. p # None
        <5>1. Head(stream) \in Nat
          BY <1>2, TailOf DEF Framed
        <5> QED BY <4>1, <5>1, ResponsesAssumption
      <4>3. Framed(pieces, p, sending) /\ OnItsWay(pieces, p) = OnItsWay(stream, None)
        BY <1>2, <3>1, <4>1, HeaderRead
      <4> QED BY <3>1, <4>2, <4>3
    <3>2. CASE pending # None
      BY <3>2
    <3> QED BY <3>1, <3>2
  <2> HIDE DEF p, pieces, a
  <2>4. /\ Framed(rest, half, sending)
        /\ n = p.left => n \in 1 .. Len(pieces) /\ pieces[n] = p.id
        /\ OnItsWay(rest, half) = IF n = p.left THEN way \ {p.id} ELSE way
    BY <2>3, BodyRead
  <2>5. p.id \in Nat /\ p.id \in way
    <3>1. p.id \in Nat
      BY <2>3 DEF Framed, AnyPiece
    <3> QED BY <2>3, <3>1 DEF OnItsWay
  <2> HIDE DEF n, rest, half, kept, way
  <2>6. CASE n = p.left
    <3>1. ~ \E e \in received : e.key = p.id
      BY <2>5 DEF OnePlace, Kept, way
    <3>2. kept = received \cup {[key |-> p.id, content |-> p.id]}
      BY <2>4, <2>6, <3>1 DEF Tcp!Emplace, kept
    <3>3. KeptAsSent(kept)
      BY <2>5, <3>2 DEF KeptAsSent
    <3>4. Kept(kept) = Kept(received) \cup {p.id}
      <4> DEFINE e == [key |-> p.id, content |-> p.id]
      <4>1. e.key = p.id /\ kept = received \cup {e}
        BY <3>2
      <4> HIDE DEF e
      <4> QED BY <4>1 DEF Kept
    <3>5. OnItsWay(rest, half) = way \ {p.id}
      BY <2>4, <2>6
    <3>6. OnePlace(kept, OnItsWay(rest, half))
      BY <2>5, <3>4, <3>5 DEF OnePlace, way
    <3> QED BY <2>2, <2>4, <2>5, <3>3, <3>4, <3>5, <3>6 DEF a, way
  <2>7. CASE n # p.left
    <3>1. kept = received /\ OnItsWay(rest, half) = way
      BY <2>4, <2>7 DEF kept
    <3> QED BY <2>2, <2>4, <3>1 DEF a, way
  <2> QED BY <2>6, <2>7
<1> QED BY <1>1, <1>2

LEMMA ResponsesInvInit == HandOverInit => ResponsesInv
<1> SUFFICES ASSUME HandOverInit
             PROVE  ResponsesInv
  OBVIOUS
<1> USE ResponsesAssumption
<1>1. /\ phase = [c \in Callers |-> "new"] /\ id = [c \in Callers |-> None]
      /\ answer = [c \in Callers |-> None] /\ commandId = 0 /\ pending = None
      /\ received = {} /\ open = {} /\ sending = None /\ stream = <<>>
  BY DEF HandOverInit, Tcp!Init
<1>2. OnItsWay(stream, pending) = {}
  BY <1>1 DEF OnItsWay
<1>3. Framed(stream, pending, sending)
  BY <1>1 DEF Framed
<1> QED
  BY <1>1, <1>2, <1>3 DEF ResponsesInv, ResponseTypes, KeptAsSent, OnePlace, Kept, OwnIds,
     Awaited, Answered

LEMMA SendStep ==
  ASSUME ResponsesInv, NEW c \in Callers, Tcp!Send(c)
  PROVE  ResponsesInv'
<1> DEFINE way == OnItsWay(stream, pending)
<1>1. /\ phase[c] = "new"
      /\ id' = [id EXCEPT ![c] = commandId] /\ commandId' = commandId + 1
      /\ open' = open \cup {commandId}
      /\ phase' = [phase EXCEPT ![c] = "waiting"]
      /\ UNCHANGED <<answer, pending, received, sending, stream>>
  BY DEF Tcp!Send
<1>2. OnItsWay(stream, pending)' = way
  BY <1>1
<1>3. ResponseTypes'
  BY <1>1 DEF ResponsesInv, ResponseTypes
<1>4. Framed(stream, pending, sending)' /\ KeptAsSent(received)'
  BY <1>1 DEF ResponsesInv
<1>5. OnePlace(received, OnItsWay(stream, pending))'
  <2>1. \A i \in open \cup way \cup Kept(received) : i \in Nat /\ i < commandId
    BY DEF ResponsesInv, OnePlace, ResponseTypes, OnItsWay, Framed, Kept, KeptAsSent
  <2>2. commandId \in Nat
    BY DEF ResponsesInv, ResponseTypes
  <2>3. commandId \notin way /\ commandId \notin Kept(received)
    BY <2>1, <2>2
  <2>4. \A i \in open' \cup way \cup Kept(received) : i < commandId'
    BY <1>1, <2>1, <2>2
  <2> QED BY <1>1, <1>2, <2>3, <2>4 DEF ResponsesInv, OnePlace
<1>6. OwnIds'
  BY <1>1 DEF ResponsesInv, OwnIds, ResponseTypes
<1>7. Awaited(OnItsWay(stream, pending), received)'
  BY <1>1, <1>2 DEF ResponsesInv, Awaited, ResponseTypes
<1>8. Answered'
  BY <1>1 DEF ResponsesInv, Answered, ResponseTypes
<1> QED BY <1>3, <1>4, <1>5, <1>6, <1>7, <1>8 DEF ResponsesInv

(* The thread that holds the mutex reads, for all of them.                 *)
LEMMA ReadAndFindStep ==
  ASSUME ResponsesInv, NEW c \in Callers, Tcp!ReadAndFind(c)
  PROVE  ResponsesInv'
<1> DEFINE a == Tcp!AfterRead
<1>1. /\ phase[c] = "reading"
      /\ stream' = a.stream /\ pending' = a.pending /\ received' = a.received
      /\ phase' \in {[phase EXCEPT ![c] = "taking"], [phase EXCEPT ![c] = "waiting"]}
      /\ UNCHANGED <<id, answer, commandId, open, sending>>
  BY DEF Tcp!ReadAndFind
<1>2. /\ Framed(a.stream, a.pending, sending)
      /\ KeptAsSent(a.received)
      /\ OnePlace(a.received, OnItsWay(a.stream, a.pending))
      /\ OnItsWay(a.stream, a.pending) \cup Kept(a.received)
           = OnItsWay(stream, pending) \cup Kept(received)
  BY ReadKeepsAll DEF ResponsesInv
<1> HIDE DEF a
<1>3. OnItsWay(stream, pending)' = OnItsWay(a.stream, a.pending)
  BY <1>1
<1>4. /\ Framed(stream, pending, sending)' /\ KeptAsSent(received)'
      /\ OnePlace(received, OnItsWay(stream, pending))'
  BY <1>1, <1>2, <1>3 DEF OnePlace
<1>5. ResponseTypes' /\ OwnIds' /\ Answered'
  BY <1>1 DEF ResponsesInv, ResponseTypes, OwnIds, Answered
<1>6. Awaited(OnItsWay(stream, pending), received)'
  BY <1>1, <1>2, <1>3 DEF ResponsesInv, Awaited, ResponseTypes
<1> QED BY <1>4, <1>5, <1>6 DEF ResponsesInv

(* A response is taken out of what is kept: it was this thread's, and no   *)
(* other thread waits for it.                                              *)
LEMMA TakenOut ==
  ASSUME ResponsesInv, NEW c \in Callers, phase[c] \in {"waiting", "taking"},
         NEW rcv, NEW way, NEW e \in rcv, e.key = id[c],
         KeptAsSent(rcv), OnePlace(rcv, way), Awaited(way, rcv),
         answer' = [answer EXCEPT ![c] = e.content],
         phase' = [phase EXCEPT ![c] = "done"],
         received' = rcv \ {e}, OnItsWay(stream, pending)' = way,
         UNCHANGED <<id, commandId, open>>
  PROVE  /\ ResponseTypes' /\ KeptAsSent(received)'
         /\ OnePlace(received, OnItsWay(stream, pending))'
         /\ OwnIds' /\ Awaited(OnItsWay(stream, pending), received)' /\ Answered'
<1>1. e.content = id[c] /\ id[c] \in Nat
  BY DEF KeptAsSent
<1>2. ResponseTypes'
  BY <1>1 DEF ResponsesInv, ResponseTypes
<1>3. KeptAsSent(received)'
  BY DEF KeptAsSent
<1>4. Kept(received)' = Kept(rcv) \ {id[c]}
  <2>1. \A f \in rcv : f.key = e.key => f = e
    BY DEF KeptAsSent
  <2> QED BY <2>1 DEF Kept
<1>5. OnePlace(received, OnItsWay(stream, pending))'
  BY <1>4 DEF OnePlace
<1>6. OwnIds'
  BY DEF ResponsesInv, ResponseTypes, OwnIds
<1>7. Awaited(OnItsWay(stream, pending), received)'
  <2> SUFFICES ASSUME NEW d \in Callers, phase'[d] \in {"waiting", "reading", "taking"}
               PROVE  id[d] \in open \cup way \cup Kept(received)'
    BY DEF Awaited
  <2>1. d # c /\ phase[d] = phase'[d]
    BY DEF ResponsesInv, ResponseTypes
  <2>2. id[d] # id[c]
    BY <2>1 DEF ResponsesInv, OwnIds
  <2>3. id[d] \in open \cup way \cup Kept(rcv)
    BY <2>1 DEF Awaited
  <2> QED BY <1>4, <2>2, <2>3
<1>8. Answered'
  BY <1>1 DEF ResponsesInv, ResponseTypes, Answered
<1> QED BY <1>2, <1>3, <1>5, <1>6, <1>7, <1>8

LEMMA TakeStep ==
  ASSUME ResponsesInv, NEW c \in Callers, Tcp!Take(c)
  PROVE  ResponsesInv'
<1> DEFINE way == OnItsWay(stream, pending)
<1>1. PICK e \in received :
        /\ e.key = id[c]
        /\ answer' = [answer EXCEPT ![c] = e.content]
        /\ received' = received \ {e}
  BY DEF Tcp!Take
<1>2. /\ phase[c] = "taking" /\ phase' = [phase EXCEPT ![c] = "done"]
      /\ UNCHANGED <<id, commandId, pending, open, sending, stream>>
  BY DEF Tcp!Take, Tcp!serverVars
<1>3. OnItsWay(stream, pending)' = way
  BY <1>2
<1>4. /\ ResponseTypes' /\ KeptAsSent(received)'
      /\ OnePlace(received, OnItsWay(stream, pending))'
      /\ OwnIds' /\ Awaited(OnItsWay(stream, pending), received)' /\ Answered'
  BY <1>1, <1>2, <1>3, TakenOut DEF ResponsesInv
<1>5. Framed(stream, pending, sending)'
  BY <1>2 DEF ResponsesInv
<1> QED BY <1>4, <1>5 DEF ResponsesInv

LEMMA PollStep ==
  ASSUME ResponsesInv, NEW c \in Callers, Tcp!Poll(c)
  PROVE  ResponsesInv'
<1> DEFINE a == Tcp!AfterRead
           way == OnItsWay(a.stream, a.pending)
<1>1. /\ phase[c] = "waiting"
      /\ stream' = a.stream /\ pending' = a.pending
      /\ UNCHANGED <<id, commandId, open, sending>>
  BY DEF Tcp!Poll
<1>2. /\ Framed(a.stream, a.pending, sending)
      /\ KeptAsSent(a.received)
      /\ OnePlace(a.received, way)
      /\ way \cup Kept(a.received) = OnItsWay(stream, pending) \cup Kept(received)
  BY ReadKeepsAll DEF ResponsesInv
<1>3. \/ received' = a.received /\ UNCHANGED <<answer, phase>>
      \/ \E e \in a.received :
           /\ e.key = id[c]
           /\ answer' = [answer EXCEPT ![c] = e.content]
           /\ received' = a.received \ {e}
           /\ phase' = [phase EXCEPT ![c] = "done"]
  BY DEF Tcp!Poll
<1> HIDE DEF a, way
<1>4. OnItsWay(stream, pending)' = way
  BY <1>1 DEF way
<1>5. Framed(stream, pending, sending)'
  BY <1>1, <1>2
<1>6. Awaited(way, a.received)
  BY <1>2 DEF ResponsesInv, Awaited
<1>7. CASE received' = a.received /\ UNCHANGED <<answer, phase>>
  <2>1. ResponseTypes' /\ OwnIds' /\ Answered'
    BY <1>1, <1>7 DEF ResponsesInv, ResponseTypes, OwnIds, Answered
  <2>2. /\ KeptAsSent(received)' /\ OnePlace(received, OnItsWay(stream, pending))'
        /\ Awaited(OnItsWay(stream, pending), received)'
    BY <1>1, <1>2, <1>4, <1>6, <1>7 DEF OnePlace, Awaited
  <2> QED BY <1>5, <2>1, <2>2 DEF ResponsesInv
<1>8. CASE \E e \in a.received :
             /\ e.key = id[c]
             /\ answer' = [answer EXCEPT ![c] = e.content]
             /\ received' = a.received \ {e}
             /\ phase' = [phase EXCEPT ![c] = "done"]
  <2>1. PICK e \in a.received :
          /\ e.key = id[c]
          /\ answer' = [answer EXCEPT ![c] = e.content]
          /\ received' = a.received \ {e}
          /\ phase' = [phase EXCEPT ![c] = "done"]
    BY <1>8
  <2>2. /\ ResponseTypes' /\ KeptAsSent(received)'
        /\ OnePlace(received, OnItsWay(stream, pending))'
        /\ OwnIds' /\ Awaited(OnItsWay(stream, pending), received)' /\ Answered'
    BY <1>1, <1>2, <1>4, <1>6, <2>1, TakenOut
  <2> QED BY <1>5, <2>2 DEF ResponsesInv
<1> QED BY <1>3, <1>7, <1>8

(* The threads' other steps leave the connection and the map alone.        *)
LEMMA WaitStep ==
  ASSUME ResponsesInv, NEW c \in Callers,
         Tcp!Lock(c) \/ Tcp!ReadThrows(c) \/ Tcp!PollThrows(c)
  PROVE  ResponsesInv'
<1>1. /\ phase[c] \in {"waiting", "reading"}
      /\ \/ phase' = [phase EXCEPT ![c] = "reading"]
         \/ phase' = [phase EXCEPT ![c] = "failed"]
      /\ UNCHANGED <<id, answer, commandId, pending, received, open, sending, stream>>
  BY DEF Tcp!Lock, Tcp!ReadThrows, Tcp!PollThrows, Tcp!serverVars, Tcp!netVars
<1>2. OnItsWay(stream, pending)' = OnItsWay(stream, pending)
  BY <1>1
<1>3. /\ Framed(stream, pending, sending)' /\ KeptAsSent(received)'
      /\ OnePlace(received, OnItsWay(stream, pending))'
  BY <1>1, <1>2 DEF ResponsesInv, OnePlace
<1> QED
  BY <1>1, <1>2, <1>3 DEF ResponsesInv, ResponseTypes, OwnIds, Awaited, Answered

(* The server's steps.                                                     *)
LEMMA AnswerStep ==
  ASSUME ResponsesInv, NEW i \in open, Tcp!Answer(i)
  PROVE  ResponsesInv'
<1> DEFINE way == OnItsWay(stream, pending)
<1>1. /\ sending = None /\ open' = open \ {i} /\ stream' = Append(stream, i)
      /\ sending' = [id |-> i, left |-> Body]
      /\ UNCHANGED <<phase, id, answer, commandId, pending, received>>
  BY DEF Tcp!Answer, Tcp!netVars
<1>2. i \in Nat /\ i \notin way
  BY DEF ResponsesInv, ResponseTypes, OnePlace
<1>3. Framed(stream, pending, sending)' /\ OnItsWay(stream, pending)' = way \cup {i}
  BY <1>1, <1>2, ResponseBegun DEF ResponsesInv
<1> HIDE DEF way
<1>4. OnePlace(received, OnItsWay(stream, pending))'
  BY <1>1, <1>3 DEF ResponsesInv, OnePlace, way
<1>5. Awaited(OnItsWay(stream, pending), received)'
  BY <1>1, <1>3 DEF ResponsesInv, Awaited, way
<1> QED
  BY <1>1, <1>3, <1>4, <1>5 DEF ResponsesInv, ResponseTypes, KeptAsSent, OwnIds, Answered

LEMMA DeliverStep ==
  ASSUME ResponsesInv, Tcp!Deliver
  PROVE  ResponsesInv'
<1> DEFINE way == OnItsWay(stream, pending)
<1>1. /\ sending # None /\ stream' = Append(stream, sending.id)
      /\ sending' = IF sending.left = 1 THEN None
                    ELSE [id |-> sending.id, left |-> sending.left - 1]
      /\ UNCHANGED <<phase, id, answer, commandId, pending, received, open>>
  BY DEF Tcp!Deliver, Tcp!netVars
<1>2. Framed(stream, pending, sending)' /\ OnItsWay(stream, pending)' = way
  BY <1>1, ResponseContinued DEF ResponsesInv
<1> QED
  BY <1>1, <1>2 DEF ResponsesInv, ResponseTypes, KeptAsSent, OnePlace, OwnIds, Awaited,
     Answered

LEMMA ResponsesInvStep == ResponsesInv /\ [HandOverNext]_allVars => ResponsesInv'
<1> SUFFICES ASSUME ResponsesInv, [HandOverNext]_allVars
             PROVE  ResponsesInv'
  OBVIOUS
<1>1. CASE UNCHANGED tcpVars
  BY <1>1 DEF tcpVars, ResponsesInv, ResponseTypes, KeptAsSent, OnePlace, OwnIds, Awaited,
     Answered, OnItsWay
<1>2. CASE Tcp!Next
  <2>1. ASSUME NEW c \in Callers, Tcp!Waits(c) \/ Tcp!Tries(c)
        PROVE  ResponsesInv'
    BY <2>1, SendStep, ReadAndFindStep, TakeStep, PollStep, WaitStep DEF Tcp!Waits, Tcp!Tries
  <2>2. CASE Tcp!Server
    BY <2>2, AnswerStep, DeliverStep DEF Tcp!Server
  <2>3. CASE Tcp!Break
    BY <2>3 DEF Tcp!Break, Tcp!netVars, ResponsesInv, ResponseTypes, KeptAsSent, OnePlace,
       OwnIds, Awaited, Answered, OnItsWay
  <2> QED BY <1>2, <2>1, <2>2, <2>3 DEF Tcp!Next
<1> QED BY <1>1, <1>2 DEF HandOverNext, BroadcasterDoes, TcpDoes, allVars

---------------------------------------------------------------------------
(* Each thread gets the response to its own request, whichever thread read *)
(* it and in however many pieces it came, and until then nobody throws it  *)
(* away: tcpReadFromBuffer() files what it reads under the command ID of   *)
(* its header, and the threads that share the connection have distinct IDs *)
(* (tcpSendRequest).                                                       *)
THEOREM EveryThreadItsResponse == HandOverSpec => []OwnResponse
<1>1. ResponsesInv => OwnResponse
  <2> SUFFICES ASSUME ResponsesInv
               PROVE  OwnResponse
    OBVIOUS
  <2>1. Tcp!OwnResponse
    BY DEF ResponsesInv, Answered, Tcp!OwnResponse
  <2>2. Tcp!NoneLost
    <3> SUFFICES ASSUME NEW c \in Callers, phase[c] \in {"waiting", "reading", "taking"}
                 PROVE  \/ id[c] \in open
                        \/ sending # None /\ sending.id = id[c]
                        \/ \E n \in 1 .. Len(stream) : stream[n] = id[c]
                        \/ pending # None /\ pending.id = id[c]
                        \/ \E e \in received : e.key = id[c]
      BY DEF Tcp!NoneLost
    <3>1. id[c] \in open \cup OnItsWay(stream, pending) \cup Kept(received)
      BY DEF ResponsesInv, Awaited
    <3> QED BY <3>1 DEF OnItsWay, Kept
  <2> QED BY <2>1, <2>2 DEF OwnResponse
<1> QED BY <1>1, ResponsesInvInit, ResponsesInvStep, PTL DEF HandOverSpec

=============================================================================
