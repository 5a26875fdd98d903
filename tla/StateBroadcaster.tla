-------------------------- MODULE StateBroadcaster --------------------------
(***************************************************************************)
(* franka_robot_state_broadcaster: update(), called by the controller      *)
(* manager at 1 kHz, hands the robot state to a publish thread through a   *)
(* lock-free triple buffer (AsyncBuffer) and a flag.  The lifecycle        *)
(* callbacks run in the controller manager's thread too, between calls of  *)
(* update(), and start and join the publish thread.                        *)
(*                                                                         *)
(* A message is what tells frames apart: the header's stamp, written by    *)
(* update(), the stamp of the values that get_values_as_message() copied,  *)
(* and whether its vectors have been given their sizes.                    *)
(***************************************************************************)
EXTENDS Naturals

CONSTANTS
  UpdateRate,              \* kUpdateRate
  ConveniencePublishRate,  \* the parameter convenience_publish_rate
  FrameBound               \* no update() is started beyond this many

ASSUME RatesAssumption ==
  /\ UpdateRate \in Nat \ {0}
  /\ ConveniencePublishRate \in Nat \ {0}
  /\ FrameBound \in Nat

VARIABLES
  lifecycle,    \* of the controller: unconfigured, inactive, active, destroyed
  update,       \* where the controller manager's thread stands
  runner,       \* where the publish thread stands; "none": there is none
  running,      \* is_publish_thread_running_
  dataReady,    \* data_ready_
  state,        \* AsyncBuffer::state_
  buffers,      \* AsyncBuffer::buffers_
  commitSeen,   \* `current` in commit_free_buffer()
  fetchSeen,    \* `current` in get_active_buffer(), called by publishRunner()
  counter,      \* convenience_counter
  frame,        \* the stamp of the last update()
  committed,    \* the last frame committed
  activatedAt,  \* the frame of the last activation
  stamp,        \* the part of the message that publish() has copied so far
  published,    \* the message published last on ~/robot_state
  convenience   \* the message the convenience topics were published from

managerVars == <<lifecycle, update, frame, committed, activatedAt, commitSeen>>
runnerVars == <<runner, fetchSeen, counter, stamp, published, convenience>>
vars == <<managerVars, runnerVars, running, dataReady, state, buffers>>

Slots == 0 .. 2

Smaller(a, b) == IF a < b THEN a ELSE b
Skip == LET rate == Smaller(ConveniencePublishRate, UpdateRate)
        IN  UpdateRate \div rate

---------------------------------------------------------------------------
(* AsyncBuffer                                                             *)

FirstState == [active |-> 0, mailbox |-> 1, free |-> 2, full |-> FALSE]

(* Mutant: the slot fetched stays in the mailbox.                          *)
FetchedStays(s) ==
  IF s.full THEN [s EXCEPT !.active = s.mailbox, !.full = FALSE] ELSE s

(* Mutant: the slots change places although the mailbox is empty.          *)
FetchedAlways(s) ==
  [s EXCEPT !.active = s.mailbox, !.mailbox = s.active, !.full = FALSE]

(* get_active_buffer(): the active and the mailbox slot change places when *)
(* the mailbox is full.                                                    *)
Fetched(s) ==
  IF s.full
    THEN [s EXCEPT !.active = s.mailbox, !.mailbox = s.active, !.full = FALSE]
    ELSE s

(* commit_free_buffer(): the free and the mailbox slot change places.      *)
Committed(s) ==
  [s EXCEPT !.mailbox = s.free, !.free = s.mailbox, !.full = TRUE]

---------------------------------------------------------------------------
EmptyMessage == [sized |-> FALSE, stamp |-> 0, values |-> 0]

Init ==
  /\ lifecycle = "unconfigured"
  /\ update = "idle"
  /\ runner = "none"
  /\ running = FALSE /\ dataReady = FALSE
  /\ state = FirstState /\ commitSeen = FirstState /\ fetchSeen = FirstState
  /\ buffers = [i \in Slots |-> EmptyMessage]
  /\ counter = 0
  /\ frame = 0 /\ committed = 0 /\ activatedAt = 0
  /\ stamp = 0
  /\ published = EmptyMessage /\ convenience = EmptyMessage

(* The controller manager calls the next callback: the last one is over.   *)
ManagerCalls(from) == update = "idle" /\ lifecycle = from

(* One slot of buffer b passes through initialize_robot_state_msg(): the   *)
(* free one is given its sizes, committed and fetched.                     *)
PrepareSlot(b) ==
  [state   |-> Fetched(Committed(b.state)),
   buffers |-> [b.buffers EXCEPT ![b.state.free].sized = TRUE]]

OnConfigure ==
  /\ ManagerCalls("unconfigured")
  /\ lifecycle' = "inactive"
  /\ LET b == PrepareSlot(PrepareSlot(PrepareSlot(
                [state |-> state, buffers |-> buffers])))
     IN  state' = b.state /\ buffers' = b.buffers
  /\ UNCHANGED <<runnerVars, update, running, dataReady, frame, committed,
                 activatedAt, commitSeen>>

(* The default on_cleanup() leaves the buffer as it is.                    *)
OnCleanup ==
  /\ ManagerCalls("inactive")
  /\ lifecycle' = "unconfigured"
  /\ UNCHANGED <<runnerVars, update, running, dataReady, state, buffers, frame,
                 committed, activatedAt, commitSeen>>

(* on_activate(): startPublishThread() drains the mailbox first.           *)
OnActivate ==
  /\ ManagerCalls("inactive")
  /\ lifecycle' = "active"
  /\ activatedAt' = frame
  /\ IF running
       THEN UNCHANGED <<state, running, dataReady, runner, counter>>
       ELSE /\ state' = Fetched(state)
            /\ running' = TRUE
            /\ dataReady' = FALSE
            /\ runner' = "check"
            /\ counter' = 0
  /\ UNCHANGED <<update, frame, committed, commitSeen, fetchSeen, stamp,
                 published, convenience, buffers>>

(* stopPublishThread() in on_deactivate() and in the destructor: the flag  *)
(* is cleared, then the thread joined if there is one.                     *)
StopPublishThread(from, to) ==
  /\ ManagerCalls(from)
  /\ running' = FALSE
  /\ lifecycle' = to
  /\ update' = "join"
  /\ UNCHANGED <<runnerVars, dataReady, state, buffers, frame, committed,
                 activatedAt, commitSeen>>

OnDeactivate == StopPublishThread("active", "inactive")

Destructor ==
  \E from \in {"unconfigured", "inactive", "active"} :
    StopPublishThread(from, "destroyed")

Joined ==
  /\ update = "join"
  /\ runner \in {"none", "ended"}
  /\ runner' = "none"
  /\ update' = IF lifecycle = "destroyed" THEN "gone" ELSE "idle"
  /\ UNCHANGED <<lifecycle, frame, committed, activatedAt, commitSeen,
                 fetchSeen, counter, stamp, published, convenience, running,
                 dataReady, state, buffers>>

---------------------------------------------------------------------------
(* update()                                                                *)

UpdateStamp ==
  /\ ManagerCalls("active")
  /\ frame < FrameBound
  /\ frame' = frame + 1
  /\ buffers' = [buffers EXCEPT ![state.free].stamp = frame + 1]
  /\ update' = "values"
  /\ UNCHANGED <<runnerVars, lifecycle, committed, activatedAt, commitSeen,
                 running, dataReady, state>>

(* get_values_as_message() fails before it copies anything.                *)
UpdateFails ==
  /\ update = "values"
  /\ update' = "idle"
  /\ UNCHANGED <<runnerVars, lifecycle, frame, committed, activatedAt,
                 commitSeen, running, dataReady, state, buffers>>

UpdateValues ==
  /\ update = "values"
  /\ buffers' = [buffers EXCEPT ![state.free].values = frame]
  /\ update' = "load"
  /\ UNCHANGED <<runnerVars, lifecycle, frame, committed, activatedAt,
                 commitSeen, running, dataReady, state>>

CommitLoad ==
  /\ update = "load"
  /\ commitSeen' = state
  /\ update' = "commit"
  /\ UNCHANGED <<runnerVars, lifecycle, frame, committed, activatedAt, running,
                 dataReady, state, buffers>>

(* The weak exchange may fail although the state is the one expected.      *)
CommitRetry ==
  /\ update = "commit"
  /\ commitSeen' = state
  /\ UNCHANGED <<runnerVars, lifecycle, update, frame, committed, activatedAt,
                 running, dataReady, state, buffers>>

CommitSwap ==
  /\ update = "commit"
  /\ state = commitSeen
  /\ state' = Committed(commitSeen)
  /\ committed' = frame
  /\ update' = "signal"
  /\ UNCHANGED <<runnerVars, lifecycle, frame, activatedAt, commitSeen, running,
                 dataReady, buffers>>

SignalReady ==
  /\ update = "signal"
  /\ dataReady' = TRUE
  /\ update' = "idle"
  /\ UNCHANGED <<runnerVars, lifecycle, frame, committed, activatedAt,
                 commitSeen, running, state, buffers>>

---------------------------------------------------------------------------
(* publishRunner()                                                         *)

RunnerCheck ==
  /\ runner = "check"
  /\ runner' = IF running THEN "poll" ELSE "ended"
  /\ UNCHANGED <<managerVars, fetchSeen, counter, stamp, published, convenience,
                 running, dataReady, state, buffers>>

(* Mutant: the flag to stop is not looked at while there is no data.       *)
RunnerPollOnly ==
  /\ runner = "poll"
  /\ runner' = IF dataReady THEN "clear" ELSE "poll"
  /\ UNCHANGED <<managerVars, fetchSeen, counter, stamp, published, convenience,
                 running, dataReady, state, buffers>>

(* The sleep between two polls takes no step.                              *)
RunnerPoll ==
  /\ runner = "poll"
  /\ runner' = IF dataReady THEN "clear" ELSE "check"
  /\ UNCHANGED <<managerVars, fetchSeen, counter, stamp, published, convenience,
                 running, dataReady, state, buffers>>

RunnerClear ==
  /\ runner = "clear"
  /\ dataReady' = FALSE
  /\ runner' = "load"
  /\ UNCHANGED <<managerVars, fetchSeen, counter, stamp, published, convenience,
                 running, state, buffers>>

FetchLoad ==
  /\ runner = "load"
  /\ fetchSeen' = state
  /\ runner' = "fetch"
  /\ UNCHANGED <<managerVars, counter, stamp, published, convenience, running,
                 dataReady, state, buffers>>

FetchRetry ==
  /\ runner = "fetch"
  /\ fetchSeen' = state
  /\ UNCHANGED <<managerVars, runner, counter, stamp, published, convenience,
                 running, dataReady, state, buffers>>

(* Mutant: has_new_data is not looked at.                                  *)
FetchSwapUnchecked ==
  /\ runner = "fetch"
  /\ state = fetchSeen
  /\ state' = Fetched(fetchSeen)
  /\ runner' = "publish"
  /\ UNCHANGED <<managerVars, fetchSeen, counter, stamp, published, convenience,
                 running, dataReady, buffers>>

(* A frame is published only if the mailbox was full (has_new_data).       *)
FetchSwap ==
  /\ runner = "fetch"
  /\ state = fetchSeen
  /\ state' = Fetched(fetchSeen)
  /\ runner' = IF fetchSeen.full THEN "publish" ELSE "check"
  /\ UNCHANGED <<managerVars, fetchSeen, counter, stamp, published, convenience,
                 running, dataReady, buffers>>

(* Mutant: data_ready_ is cleared once more after the fetch.               *)
PublishHeaderClears ==
  /\ runner = "publish"
  /\ stamp' = buffers[state.active].stamp
  /\ dataReady' = FALSE
  /\ runner' = "body"
  /\ UNCHANGED <<managerVars, fetchSeen, counter, published, convenience,
                 running, state, buffers>>

(* publish() copies the message out of the active slot, header first.      *)
PublishHeader ==
  /\ runner = "publish"
  /\ stamp' = buffers[state.active].stamp
  /\ runner' = "body"
  /\ UNCHANGED <<managerVars, fetchSeen, counter, published, convenience,
                 running, dataReady, state, buffers>>

PublishBody ==
  /\ runner = "body"
  /\ published' = [buffers[state.active] EXCEPT !.stamp = stamp]
  /\ counter' = IF counter + 1 >= Skip THEN 0 ELSE counter + 1
  /\ runner' = IF counter + 1 >= Skip THEN "convenience" ELSE "check"
  /\ UNCHANGED <<managerVars, fetchSeen, stamp, convenience, running, dataReady,
                 state, buffers>>

PublishConvenience ==
  /\ runner = "convenience"
  /\ convenience' = buffers[state.active]
  /\ runner' = "check"
  /\ UNCHANGED <<managerVars, fetchSeen, counter, stamp, published, running,
                 dataReady, state, buffers>>

---------------------------------------------------------------------------
Lifecycle == OnConfigure \/ OnCleanup \/ OnActivate \/ OnDeactivate \/ Destructor

UpdateSteps ==
  UpdateFails \/ UpdateValues \/ CommitLoad \/ CommitRetry \/ SignalReady

RunnerSteps ==
  \/ RunnerCheck \/ RunnerPoll \/ RunnerClear \/ FetchLoad \/ FetchRetry
  \/ PublishHeader \/ PublishBody \/ PublishConvenience

Next ==
  \/ Lifecycle \/ Joined \/ UpdateStamp \/ UpdateSteps \/ CommitSwap
  \/ RunnerSteps \/ FetchSwap

Spec == Init /\ [][Next]_vars

(* Both threads run, a call that was begun goes on, and a weak exchange    *)
(* does not fail for ever.                                                 *)
Fairness ==
  /\ WF_vars(Joined) /\ WF_vars(UpdateSteps) /\ SF_vars(CommitSwap)
  /\ WF_vars(RunnerSteps) /\ SF_vars(FetchSwap)

FairSpec == Spec /\ Fairness

---------------------------------------------------------------------------
Lifecycles == {"unconfigured", "inactive", "active", "destroyed"}
UpdatePcs == {"idle", "values", "load", "commit", "signal", "join", "gone"}
RunnerPcs == {"none", "check", "poll", "clear", "load", "fetch", "publish",
              "body", "convenience", "ended"}
BufferState == [active : Slots, mailbox : Slots, free : Slots, full : BOOLEAN]
Message == [sized : BOOLEAN, stamp : Nat, values : Nat]

(* Every variable has the type of the member or local it stands for, and   *)
(* convenience_counter is reset when it reaches the rate's share.          *)
TypeOK ==
  /\ lifecycle \in Lifecycles
  /\ update \in UpdatePcs
  /\ runner \in RunnerPcs
  /\ running \in BOOLEAN /\ dataReady \in BOOLEAN
  /\ state \in BufferState /\ commitSeen \in BufferState /\ fetchSeen \in BufferState
  /\ buffers \in [Slots -> Message]
  /\ counter \in 0 .. Skip - 1 /\ frame \in Nat /\ committed \in Nat /\ activatedAt \in Nat
  /\ stamp \in Nat
  /\ published \in Message /\ convenience \in Message

(* No message mixes two robot states: what publish() and the convenience   *)
(* topics copy out of the active slot is the whole of one update(),        *)
(* although update() writes the next one at the same time and may give up  *)
(* half way (async_buffer.hpp: reads and writes do not copy, slots change  *)
(* owner by one exchange).                                                 *)
WholeFrames ==
  /\ published.stamp = published.values
  /\ convenience.stamp = convenience.values

(* A frame is published once, in the order of the updates, and never after *)
(* an activation that came later than it: has_new_data guards publish()    *)
(* and startPublishThread() drains the mailbox.                            *)
FreshFrames ==
  [][runner = "body" /\ runner' # "body" =>
       published'.stamp > published.stamp /\ published'.stamp > activatedAt]_vars

(* get_values_as_message() copies into the vectors of the free slot: after *)
(* on_configure() all three slots have been given their sizes, whatever    *)
(* state an earlier configuration left the buffer in.                      *)
SlotsSized ==
  lifecycle \in {"inactive", "active"} => \A i \in Slots : buffers[i].sized

(* AsyncBuffer allows one consumer: when a lifecycle callback touches the  *)
(* consumer's side, or the node is gone, no publish thread is left.        *)
NoSecondConsumer ==
  lifecycle # "active" /\ update \in {"idle", "gone"} => runner = "none"

(* No wake-up is lost: the frame committed last is published, or another   *)
(* committed, or the broadcaster is stopped.                               *)
LastFramePublished ==
  \A n \in 1 .. FrameBound :
    (committed = n /\ committed > activatedAt)
      ~> (published.stamp >= n \/ lifecycle # "active")

(* on_deactivate() and the destructor do not wait for the publish thread   *)
(* for ever.                                                               *)
StopReturns == (update = "join") ~> (update # "join")

(* The broadcaster's buffer implements the box that keeps the last frame.  *)
Box == INSTANCE LatestFrame WITH
  Frames <- 1 .. FrameBound,
  box   <- IF state.full THEN buffers[state.mailbox].stamp ELSE 0,
  taken <- buffers[state.active].stamp

KeepsLatestFrame == Box!Spec
=============================================================================
