--------------------------- MODULE HardwareSwitch ---------------------------
(***************************************************************************)
(* franka_hardware: FrankaHardwareInterface and the franka_hardware::Robot *)
(* it drives.  The controller manager's real-time thread calls read() and  *)
(* write() in turn; controllers claim and release command interfaces       *)
(* through prepare_ and perform_command_mode_switch(), which end one       *)
(* libfranka control (active_control_) and start another; an error         *)
(* deactivates the hardware, and on_activate() brings it back.             *)
(*                                                                         *)
(* The controller manager is external.  It calls one callback at a time,   *)
(* or, as the comments in write() and perform_command_mode_switch() have   *)
(* it, a mode switch while the real-time thread goes on (Overlapped).      *)
(***************************************************************************)
EXTENDS Naturals, Sequences, SequencesExt

CONSTANTS
  Types,        \* the types of command interface that controllers ask for
  Overlapped,   \* a mode switch runs while read() and write() are called
  Miscounted,   \* requests may have the wrong number of interfaces of a type
  Infinite,     \* controllers may command values that are not finite
  SameAgain     \* after an error the same controllers are started first

(* command_interfaces_info_, in its order.                                 *)
ClaimOrder ==
  <<"effort", "velocity", "position", "elbow", "cartvel", "cartpose">>

AllTypes == ToSet(ClaimOrder)

ASSUME ConstantsAssumption ==
  /\ Types \subseteq AllTypes
  /\ Overlapped \in BOOLEAN /\ Miscounted \in BOOLEAN
  /\ Infinite \in BOOLEAN /\ SameAgain \in BOOLEAN

VARIABLES
  lifecycle,  \* of the hardware component; "created" and "refused": on_init()
  exported,   \* the types of the interfaces this robot exports
  mode,       \* active_mode_
  needs,      \* needs_initial_command_
  claimed,    \* the types whose claim_flag is set
  control,    \* active_control_: what it controls; "none": the null pointer
  flags,      \* the ..._interface_active_ members of Robot that are set
  ready,      \* command vectors set up since the last mode switch
  infinite,   \* command vectors with a value that is not finite
  rt,         \* where the real-time thread stands
  writing,    \* the mode write() has read and the interface Robot chose
  switch,     \* where the mode switch stands
  desired,    \* the mode it goes to
  held,       \* the types the controllers hold, as the manager knows them
  lost,       \* the types they lost, with no mode switch, after an error
  switched,   \* how the last mode switch ended
  sent        \* the last command that reached the robot

switchVars == <<switch, desired, held, lost, switched, claimed>>
rtVars == <<rt, writing, sent>>
robotVars == <<control, flags>>
vars == <<lifecycle, exported, mode, needs, ready, infinite, switchVars, rtVars, robotVars>>

---------------------------------------------------------------------------
(* The modes (ControlInterface) and what belongs to them.                  *)

Modes == {"none", "effort", "velocity", "position", "cartvel", "cartvelElbow",
          "cartpose", "cartposeElbow"}

(* The command vectors that write() hands to Robot::writeOnce().           *)
VectorsOf(m) ==
  CASE m = "none" -> {}
    [] m = "cartvelElbow" -> {"cartvel", "elbow"}
    [] m = "cartposeElbow" -> {"cartpose", "elbow"}
    [] OTHER -> {m}

(* Mutant: the case of joint velocities starts a position control.         *)
KindOfCopied(m) ==
  CASE m = "cartvelElbow" -> "cartvel"
    [] m = "cartposeElbow" -> "cartpose"
    [] m = "velocity" -> "position"
    [] OTHER -> m

(* The interface of Robot that perform_command_mode_switch() initializes.  *)
KindOf(m) ==
  CASE m = "cartvelElbow" -> "cartvel"
    [] m = "cartposeElbow" -> "cartpose"
    [] OTHER -> m

Kinds == AllTypes \ {"elbow"}

(* The first interface claimed decides, in the order of the code.          *)
ModeFor(claims) ==
  LET elbow == "elbow" \in claims IN
  CASE "effort" \in claims -> "effort"
    [] "velocity" \in claims /\ "effort" \notin claims -> "velocity"
    [] "position" \in claims /\ claims \cap {"effort", "velocity"} = {} -> "position"
    [] claims \cap {"effort", "velocity", "position"} = {} /\ "cartpose" \in claims ->
         IF elbow THEN "cartposeElbow" ELSE "cartpose"
    [] claims \subseteq {"cartvel", "elbow"} /\ "cartvel" \in claims ->
         IF elbow THEN "cartvelElbow" ELSE "cartvel"
    [] OTHER -> "none"

ElbowAlone(claims) ==
  "elbow" \in claims /\ claims \cap {"cartvel", "cartpose"} = {}

(* The vectors filled with zeros when a mode starts.                       *)
ZeroedBy(m) == VectorsOf(m) \cap {"effort", "velocity", "cartvel"}
(* The vectors copied from the state of the robot by the first read().     *)
MeasuredFor(m) == VectorsOf(m) \cap {"position", "cartpose", "elbow"}

NoCommand == [mode |-> "none", kind |-> "none", ready |-> TRUE]

---------------------------------------------------------------------------
Init ==
  /\ lifecycle = "created" /\ exported = {}
  /\ mode = "none" /\ needs = TRUE
  /\ claimed = {} /\ held = {} /\ lost = {}
  /\ control = "none" /\ flags = {}
  /\ ready = {} /\ infinite = {}
  /\ rt = "idle" /\ writing = [mode |-> "none", kind |-> "none"]
  /\ switch = "idle" /\ desired = "none" /\ switched = "ok"
  /\ sent = NoCommand

(* The real-time thread may begin a call, and the manager a callback.      *)
RtMay == rt = "idle" /\ lifecycle \in {"inactive", "active"} /\ (Overlapped \/ switch = "idle")
ManagerMay == switch = "idle" /\ (Overlapped \/ rt = "idle")

(* Robot::stopRobot()                                                      *)
StopRobot ==
  IF control = "none"
  THEN UNCHANGED robotVars
  ELSE control' = "none" /\ flags' = {}

---------------------------------------------------------------------------
(* on_init()                                                               *)

(* What the URDF may say.  There may be another robot in it, which then    *)
(* has the effort interfaces; this one has the others.                     *)
Descriptions ==
  [version: {"3 numbers", "other major", "malformed", "missing"}, ip: BOOLEAN,
   interfaces: {Types, Types \ {"effort"}}]

(* parseVersion()'s std::invalid_argument is not caught here, only the     *)
(* std::out_of_range of a parameter that is missing.                       *)
VersionSupported(info) == info.version = "3 numbers"

(* robot_type and prefix have defaults.                                    *)
OnInit ==
  /\ lifecycle = "created"
  /\ \E info \in Descriptions, connects \in BOOLEAN :
       /\ exported' = info.interfaces
       /\ lifecycle' = IF VersionSupported(info) /\ info.ip /\ connects
                        THEN "unconfigured" ELSE "refused"
  /\ UNCHANGED <<mode, needs, ready, infinite, switchVars, rtVars, robotVars>>

---------------------------------------------------------------------------
(* The lifecycle callbacks.                                                *)

LifecycleKeeps ==
  UNCHANGED <<exported, ready, infinite, switch, desired, switched, claimed, rtVars>>

(* read() is called without a mode; it may find that the control has ended.*)
OnActivate ==
  /\ switch = "idle" /\ rt = "idle"
  /\ lifecycle \in {"unconfigured", "inactive"} /\ held = {}
  /\ lifecycle' = "active"
  /\ mode' = "none"
  /\ needs' = TRUE
  /\ UNCHANGED robotVars \/ StopRobot
  /\ LifecycleKeeps
  /\ UNCHANGED <<held, lost>>

OnDeactivate ==
  /\ switch = "idle" /\ rt = "idle"
  /\ lifecycle = "active"
  /\ lifecycle' = "inactive"
  /\ StopRobot
  /\ mode' = "none"
  /\ needs' = TRUE
  /\ LifecycleKeeps
  /\ UNCHANGED <<held, lost>>

(* On Jazzy the controllers of hardware that is not active are deactivated *)
(* with it.  On Humble they stay, and are stopped by a mode switch before  *)
(* the hardware is activated again.                                        *)
ControllersLost ==
  /\ switch = "idle" /\ rt = "idle"
  /\ lifecycle # "active" /\ held # {}
  /\ held' = {} /\ lost' = held
  /\ LifecycleKeeps
  /\ UNCHANGED <<lifecycle, mode, needs, robotVars>>

---------------------------------------------------------------------------
(* prepare_command_mode_switch()                                           *)

(* Mutant: the interfaces to start are looked at first.                    *)
ClaimsStopLast(n, start, stop) ==
  LET looked == ToSet(SubSeq(ClaimOrder, 1, n)) \cap exported
  IN  (claimed \cup (start \cap looked)) \ (stop \cap looked)

(* The claim flags after types up to and with number n were looked at;     *)
(* another robot's interfaces of the same type are none of this one's.     *)
ClaimsUpTo(n, start, stop) ==
  LET looked == ToSet(SubSeq(ClaimOrder, 1, n)) \cap exported
  IN  (claimed \ (stop \cap looked)) \cup (start \cap looked)

(* Controllers hold an interface exclusively, and are started only on      *)
(* active hardware.                                                        *)
Requests ==
  {r \in [start : SUBSET Types, stop : SUBSET held] :
     /\ r.start \cup r.stop # {}
     /\ r.start \cap (held \ r.stop) = {}
     /\ lifecycle = "active" \/ r.start = {}
     /\ (SameAgain /\ lost # {}) => r.start = lost}

(* A request for all 45 interfaces is refused.                             *)
PrepareRefuses ==
  /\ ManagerMay
  /\ \E r \in Requests : r.start = AllTypes
  /\ switched' = "refused"
  /\ UNCHANGED <<lifecycle, exported, mode, needs, ready, infinite, switch, desired,
                 claimed, held, lost, rtVars, robotVars>>

Prepare ==
  /\ ManagerMay
  /\ \E r \in Requests :
       /\ r.start # AllTypes
       /\ claimed' = ClaimsUpTo(Len(ClaimOrder), r.start, r.stop)
       /\ held' = (held \ r.stop) \cup r.start
       /\ lost' = {}
  /\ switch' = "perform"
  /\ UNCHANGED <<lifecycle, exported, mode, needs, ready, infinite, desired, switched,
                 rtVars, robotVars>>

(* A type of which not all interfaces are named throws; the flags of the   *)
(* types before it have been set, and its own if it is among the stopped.  *)
PrepareThrows ==
  /\ Miscounted
  /\ ManagerMay
  /\ \E r \in Requests, n \in 1 .. Len(ClaimOrder), own \in BOOLEAN :
       LET t == ClaimOrder[n]
           before == ClaimsUpTo(n - 1, r.start, r.stop)
       IN  /\ t \in (r.start \cup r.stop) \cap exported
           /\ own => t \in r.start
           /\ claimed' = IF own THEN before \ (r.stop \cap {t}) ELSE before
  /\ switched' = "threw"
  /\ UNCHANGED <<lifecycle, exported, mode, needs, ready, infinite, switch, desired,
                 held, lost, rtVars, robotVars>>

---------------------------------------------------------------------------
(* perform_command_mode_switch()                                           *)

SwitchKeeps ==
  UNCHANGED <<lifecycle, exported, infinite, held, lost, claimed, rtVars>>

Refuse ==
  /\ switch = "perform"
  /\ ElbowAlone(claimed)
  /\ switch' = "idle" /\ switched' = "refused"
  /\ SwitchKeeps
  /\ UNCHANGED <<mode, needs, ready, desired, robotVars>>

KeepMode ==
  /\ switch = "perform"
  /\ ~ElbowAlone(claimed)
  /\ ModeFor(claimed) = mode
  /\ switch' = "idle" /\ switched' = "ok"
  /\ SwitchKeeps
  /\ UNCHANGED <<mode, needs, ready, desired, robotVars>>

(* Mutant: the mode is left as it is until the switch is done.             *)
LeaveModeLate ==
  /\ switch = "perform"
  /\ ~ElbowAlone(claimed)
  /\ ModeFor(claimed) # mode
  /\ desired' = ModeFor(claimed)
  /\ switch' = "needs"
  /\ SwitchKeeps
  /\ UNCHANGED <<mode, needs, ready, switched, robotVars>>

LeaveMode ==
  /\ switch = "perform"
  /\ ~ElbowAlone(claimed)
  /\ ModeFor(claimed) # mode
  /\ desired' = ModeFor(claimed)
  /\ mode' = "none"
  /\ switch' = "needs"
  /\ SwitchKeeps
  /\ UNCHANGED <<needs, ready, switched, robotVars>>

AskInitialCommand ==
  /\ switch = "needs"
  /\ needs' = TRUE
  /\ switch' = "stop"
  /\ SwitchKeeps
  /\ UNCHANGED <<mode, ready, desired, switched, robotVars>>

(* Robot::stopRobot(), which takes no lock: first the flags, then the      *)
(* control.                                                                *)
StopNothing ==
  /\ switch = "stop"
  /\ control = "none"
  /\ ready' = {}
  /\ switch' = "start"
  /\ SwitchKeeps
  /\ UNCHANGED <<mode, needs, desired, switched, robotVars>>

StopFlags ==
  /\ switch = "stop"
  /\ control # "none"
  /\ flags' = {}
  /\ switch' = "reset"
  /\ SwitchKeeps
  /\ UNCHANGED <<mode, needs, ready, desired, switched, control>>

StopControl ==
  /\ switch = "reset"
  /\ control' = "none"
  /\ ready' = {}
  /\ switch' = "start"
  /\ SwitchKeeps
  /\ UNCHANGED <<mode, needs, desired, switched, flags>>

(* The vectors are filled with zeros, then Robot::initialize...Interface() *)
(* starts the control, a second time after automaticErrorRecovery() if the *)
(* first attempt fails, and sets its flag.                                 *)
StartNew ==
  /\ switch = "start"
  /\ ready' = ready \cup ZeroedBy(desired)
  /\ infinite' = infinite \ ZeroedBy(desired)
  /\ control' = IF desired = "none" THEN control ELSE KindOf(desired)
  /\ switch' = IF desired = "none" THEN "ready" ELSE "flag"
  /\ UNCHANGED <<lifecycle, exported, mode, needs, held, lost, claimed, desired, switched,
                 rtVars, flags>>

StartFlag ==
  /\ switch = "flag"
  /\ flags' = flags \cup {KindOf(desired)}
  /\ switch' = "ready"
  /\ SwitchKeeps
  /\ UNCHANGED <<mode, needs, ready, desired, switched, control>>

(* The second attempt, or the recovery, throws out of the mode switch.     *)
StartThrows ==
  /\ switch = "start" /\ desired # "none"
  /\ ready' = ready \cup ZeroedBy(desired)
  /\ infinite' = infinite \ ZeroedBy(desired)
  /\ switch' = "idle" /\ switched' = "threw"
  /\ UNCHANGED <<lifecycle, exported, mode, needs, held, lost, claimed, desired, rtVars,
                 robotVars>>

SetNeeds ==
  /\ switch = "ready"
  /\ needs' = (MeasuredFor(desired) # {} \/ desired = "none")
  /\ switch' = "enter"
  /\ SwitchKeeps
  /\ UNCHANGED <<mode, ready, desired, switched, robotVars>>

EnterMode ==
  /\ switch = "enter"
  /\ mode' = desired
  /\ switch' = "idle" /\ switched' = "ok"
  /\ SwitchKeeps
  /\ UNCHANGED <<needs, ready, desired, robotVars>>

---------------------------------------------------------------------------
(* read()                                                                  *)

RtKeeps == UNCHANGED <<switch, desired, held, lost, switched, claimed>>

(* Robot::readOnce(): through the active control if there is one.          *)
Read ==
  /\ RtMay
  /\ rt' = IF control = "none" THEN "initial" ELSE "reading"
  /\ RtKeeps
  /\ UNCHANGED <<lifecycle, exported, mode, needs, ready, infinite, writing, sent,
                 robotVars>>

ReadState ==
  /\ rt = "reading"
  /\ rt' = "initial"
  /\ RtKeeps
  /\ UNCHANGED <<lifecycle, exported, mode, needs, ready, infinite, writing, sent,
                 robotVars>>

(* A ControlException: the motion has ended, for instance with a reflex.   *)
(* The manager takes hardware that returns ERROR to unconfigured.          *)
ReadThrows ==
  /\ rt = "reading"
  /\ StopRobot
  /\ lifecycle' = "unconfigured"
  /\ rt' = "idle"
  /\ RtKeeps
  /\ UNCHANGED <<exported, mode, needs, ready, infinite, writing, sent>>

(* initializePositionCommands()                                            *)
NoInitialCommand ==
  /\ rt = "initial"
  /\ ~needs \/ mode = "none"
  /\ rt' = "write"
  /\ RtKeeps
  /\ UNCHANGED <<lifecycle, exported, mode, needs, ready, infinite, writing, sent,
                 robotVars>>

InitialCommand ==
  /\ rt = "initial"
  /\ needs /\ mode # "none"
  /\ ready' = ready \cup MeasuredFor(mode)
  /\ infinite' = infinite \ MeasuredFor(mode)
  /\ needs' = FALSE
  /\ rt' = "write"
  /\ RtKeeps
  /\ UNCHANGED <<lifecycle, exported, mode, writing, sent, robotVars>>

(* The controllers' own update(), between read() and write().              *)
CommandInfinite ==
  /\ Infinite
  /\ rt = "write"
  /\ \E t \in held \cap exported : infinite' = infinite \cup {t}
  /\ RtKeeps
  /\ UNCHANGED <<lifecycle, exported, mode, needs, ready, rtVars, robotVars>>

---------------------------------------------------------------------------
(* write()                                                                 *)

WriteInfinite ==
  /\ rt = "write"
  /\ infinite # {}
  /\ lifecycle' = "unconfigured"
  /\ rt' = "idle"
  /\ RtKeeps
  /\ UNCHANGED <<exported, mode, needs, ready, infinite, writing, sent, robotVars>>

WriteNothing ==
  /\ rt = "write"
  /\ infinite = {}
  /\ needs \/ mode = "none"
  /\ rt' = "idle"
  /\ RtKeeps
  /\ UNCHANGED <<lifecycle, exported, mode, needs, ready, infinite, writing, sent,
                 robotVars>>

WriteMode ==
  /\ rt = "write"
  /\ infinite = {}
  /\ ~needs /\ mode # "none"
  /\ writing' = [mode |-> mode, kind |-> "none"]
  /\ rt' = "call"
  /\ RtKeeps
  /\ UNCHANGED <<lifecycle, exported, mode, needs, ready, infinite, sent, robotVars>>

(* Robot::writeOnce(): the interface is chosen by the flags that are set   *)
(* and the size of the vector, which is 7 for joints, 6 for a Cartesian    *)
(* velocity and 16 for a pose.  With an elbow the sizes must be exact.     *)
Chosen(m) ==
  LET joints == IF "effort" \in flags THEN "effort"
                ELSE IF "velocity" \in flags THEN "velocity" ELSE "position"
  IN
  IF m \in {"cartvelElbow", "cartposeElbow"}
  THEN IF KindOf(m) \in flags THEN KindOf(m) ELSE "unknown"
  ELSE IF flags \cap {"effort", "velocity", "position"} # {} /\ m # "cartpose" THEN joints
  ELSE IF "cartvel" \in flags /\ m = "cartvel" THEN "cartvel"
  ELSE IF "cartpose" \in flags THEN "cartpose"
  ELSE "unknown"

(* std::runtime_error is caught by write(), which warns and returns OK.    *)
WriteWithoutControl ==
  /\ rt = "call"
  /\ control = "none"
  /\ rt' = "idle"
  /\ RtKeeps
  /\ UNCHANGED <<lifecycle, exported, mode, needs, ready, infinite, writing, sent,
                 robotVars>>

(* std::invalid_argument is not: it leaves write().                        *)
WriteChoose ==
  /\ rt = "call"
  /\ control # "none"
  /\ writing' = [writing EXCEPT !.kind = Chosen(writing.mode)]
  /\ rt' = IF Chosen(writing.mode) = "unknown" THEN "threw" ELSE "sending"
  /\ RtKeeps
  /\ UNCHANGED <<lifecycle, exported, mode, needs, ready, infinite, sent, robotVars>>

(* active_control_->writeOnce() sends the command, or throws a             *)
(* std::runtime_error: always if the control is of another kind.           *)
WriteSend ==
  /\ rt = "sending"
  /\ \/ UNCHANGED sent
     \/ /\ control = writing.kind
        /\ sent' = [mode |-> writing.mode, kind |-> control,
                    ready |-> VectorsOf(writing.mode) \subseteq ready]
  /\ rt' = "idle"
  /\ RtKeeps
  /\ UNCHANGED <<lifecycle, exported, mode, needs, ready, infinite, writing, robotVars>>

---------------------------------------------------------------------------
Lifecycle == OnInit \/ OnActivate \/ OnDeactivate \/ ControllersLost

Switch ==
  \/ PrepareRefuses \/ Prepare \/ PrepareThrows
  \/ Refuse \/ KeepMode \/ LeaveMode \/ AskInitialCommand
  \/ StopNothing \/ StopFlags \/ StopControl
  \/ StartNew \/ StartFlag \/ StartThrows \/ SetNeeds \/ EnterMode

RealTime ==
  \/ Read \/ ReadState \/ ReadThrows \/ NoInitialCommand \/ InitialCommand
  \/ CommandInfinite \/ WriteInfinite \/ WriteNothing \/ WriteMode
  \/ WriteWithoutControl \/ WriteChoose \/ WriteSend

Next == Lifecycle \/ Switch \/ RealTime

Spec == Init /\ [][Next]_vars

---------------------------------------------------------------------------
TypeOK ==
  /\ lifecycle \in {"created", "refused", "unconfigured", "inactive", "active"}
  /\ exported \subseteq Types
  /\ mode \in Modes /\ desired \in Modes
  /\ needs \in BOOLEAN
  /\ claimed \subseteq Types /\ held \subseteq Types /\ lost \subseteq Types
  /\ control \in Kinds \cup {"none"} /\ flags \subseteq Kinds
  /\ ready \subseteq AllTypes /\ infinite \subseteq AllTypes
  /\ rt \in {"idle", "initial", "reading", "write", "call", "sending", "threw"}
  /\ writing \in [mode : Modes, kind : Kinds \cup {"none", "unknown"}]
  /\ switch \in {"idle", "perform", "needs", "stop", "reset", "start", "flag",
                "ready", "enter"}
  /\ switched \in {"ok", "refused", "threw"}
  /\ sent \in [mode : Modes, kind : Kinds \cup {"none"}, ready : BOOLEAN]

(* writeOnce() does not get to "This part should not be reached".          *)
SizeKnown == rt # "threw"

(* A command reaches the robot as what the controllers meant: the vector of*)
(* the mode is sent through the motion generator of that mode.             *)
CommandFitsControl == sent.mode # "none" => sent.kind \in VectorsOf(sent.mode)

(* No vector is sent that was not set up since the mode was entered, with  *)
(* zeros or from the measured state, so a motion starts where the robot is.*)
ReadyBeforeSent == sent.ready

(* Between mode switches the flags name the control there is, and a mode   *)
(* of active hardware has its control.                                     *)
ControlMatchesMode ==
  switch = "idle" =>
    /\ flags = {control} \ {"none"}
    /\ lifecycle = "active" /\ mode # "none" => control = KindOf(mode)

(* After a mode switch the mode is that of this robot's interfaces that are*)
(* held, also after an error, after which the claim flags still stand.     *)
ModeOfHeld ==
  switch = "idle" /\ lifecycle = "active" /\ switched = "ok" =>
    mode = ModeFor(held \cap exported)

=============================================================================
