------------------------ MODULE SwitchSettingsProofs ------------------------
(***************************************************************************)
(* Proofs about SwitchSettings: that commands reach the robot as what the  *)
(* controllers meant, that mode, control, flags and claims agree between   *)
(* mode switches, and that no write begins in the middle of one.           *)
(***************************************************************************)
EXTENDS SwitchSettings, SequenceTheorems, TLAPS

---------------------------------------------------------------------------
(* Modes                                                                   *)

LEMMA TypesAreNamed ==
  /\ AllTypes = {"effort", "velocity", "position", "elbow", "cartvel", "cartpose"}
  /\ ToSet(SubSeq(ClaimOrder, 1, Len(ClaimOrder))) = AllTypes
<1>1. ClaimOrder \in Seq({"effort", "velocity", "position", "elbow", "cartvel", "cartpose"})
  BY DEF ClaimOrder
<1>2. SubSeq(ClaimOrder, 1, Len(ClaimOrder)) = ClaimOrder
  BY <1>1, SubSeqFull
<1>3. Len(ClaimOrder) = 6 /\ DOMAIN ClaimOrder = 1 .. 6
  BY DEF ClaimOrder
<1>4. \A i \in 1 .. 6 : i = 1 \/ i = 2 \/ i = 3 \/ i = 4 \/ i = 5 \/ i = 6
  OBVIOUS
<1>5. /\ ClaimOrder[1] = "effort" /\ ClaimOrder[2] = "velocity" /\ ClaimOrder[3] = "position"
      /\ ClaimOrder[4] = "elbow" /\ ClaimOrder[5] = "cartvel" /\ ClaimOrder[6] = "cartpose"
  BY DEF ClaimOrder
<1>6. AllTypes = {"effort", "velocity", "position", "elbow", "cartvel", "cartpose"}
  BY <1>3, <1>4, <1>5 DEF AllTypes, ToSet
<1> QED BY <1>2, <1>6 DEF AllTypes

LEMMA ModeForIsMode == \A claims : ModeFor(claims) \in Modes
BY DEF ModeFor, Modes

LEMMA NoClaims == ModeFor({}) = "none"
BY DEF ModeFor

LEMMA KindOfMode ==
  ASSUME NEW m \in Modes
  PROVE  /\ KindOf(m) \in Kinds \union {"none"}
         /\ KindOf(m) = "none" <=> m = "none"
         /\ m # "none" => KindOf(m) \in VectorsOf(m)
BY TypesAreNamed DEF Modes, KindOf, Kinds, VectorsOf

LEMMA VectorsOfMode ==
  ASSUME NEW m \in Modes
  PROVE  /\ VectorsOf(m) = ZeroedBy(m) \union MeasuredFor(m)
         /\ VectorsOf(m) \subseteq AllTypes
BY TypesAreNamed DEF Modes, VectorsOf, ZeroedBy, MeasuredFor

(* Robot::writeOnce() chooses the interface of the mode by the only flag.  *)
LEMMA ChosenKind ==
  ASSUME NEW m \in Modes, m # "none", flags = {KindOf(m)}
  PROVE  Chosen(m) = KindOf(m)
BY DEF Modes, KindOf, Chosen
---------------------------------------------------------------------------
(* In turn                                                                 *)

Switching == {"needs", "stop", "reset", "start", "flag", "ready", "enter"}

(* A mode switch and a call of the real-time thread take turns.            *)
TurnsInv ==
  /\ switch # "idle" => rt = "idle"
  /\ rt # "idle" => lifecycle \in {"inactive", "active"}
  /\ rt # "threw"

(* What the robot is told to do while the mode is switched: the flags are  *)
(* cleared before the control ends and set after the new one has started.  *)
ControlInv ==
  /\ switch \in {"idle", "perform", "needs", "stop", "start", "ready", "enter"} =>
       flags = {control} \ {"none"}
  /\ switch \in {"reset", "flag"} => flags = {}
  /\ switch = "start" => control = "none"
  /\ switch = "flag" => desired # "none"
  /\ switch \in {"flag", "ready", "enter"} => control = KindOf(desired)
  /\ switch \in Switching => mode = "none"
  /\ switch \in {"idle", "perform"} /\ lifecycle \in {"inactive", "active"} /\ mode # "none" =>
       control = KindOf(mode)

(* Which vectors of a mode have been set up.                               *)
ReadyInv ==
  /\ switch \in {"flag", "ready", "enter"} => ZeroedBy(desired) \subseteq ready
  /\ switch = "enter" /\ ~needs => VectorsOf(desired) \subseteq ready
  /\ switch \in {"idle", "perform"} => ZeroedBy(mode) \subseteq ready
  /\ switch \in {"idle", "perform"} /\ ~needs => VectorsOf(mode) \subseteq ready

(* What write() has decided stays true until it sends.                     *)
WriteInv ==
  /\ rt \in {"call", "sending"} =>
       writing.mode = mode /\ mode # "none" /\ VectorsOf(mode) \subseteq ready
  /\ rt = "sending" => writing.kind = KindOf(mode)
  /\ CommandFitsControl /\ ReadyBeforeSent

TurnInv == TypeOK /\ TurnsInv /\ ControlInv /\ ReadyInv /\ WriteInv

(* With the claim flags, after which the mode is chosen: they are those of *)
(* the interfaces held, or of those lost, until the same are held again.   *)
ClaimsInv ==
  /\ lost = {} => claimed = held \cap exported
  /\ lost # {} => held = {} /\ claimed = lost \cap exported
  /\ lifecycle \in {"created", "refused"} =>
       held = {} /\ claimed = {} /\ lost = {} /\ switch = "idle" /\ rt = "idle"
  /\ switch \in Switching \union {"perform"} => lost = {}
  /\ switch \in Switching => desired = ModeFor(claimed)
  /\ ModeOfHeld

LEMMA TurnStep ==
  ASSUME ~Overlapped, TurnInv, [Next]_vars
  PROVE  TurnInv'
<1> USE DEF TurnInv, TypeOK, TurnsInv, ControlInv, ReadyInv, WriteInv, Switching,
        CommandFitsControl, ReadyBeforeSent, switchVars, rtVars, robotVars, SwitchKeeps,
        RtKeeps, LifecycleKeeps, StopRobot, RtMay, ManagerMay
<1> ZeroedBy("none") = {} /\ VectorsOf("none") = {}
  BY DEF ZeroedBy, VectorsOf
<1> "none" \in Modes /\ "none" \notin Kinds
  BY TypesAreNamed DEF Modes, Kinds
<1> Types \subseteq AllTypes
  BY ConstantsAssumption
<1>1. CASE OnInit
  <2>1. exported' \subseteq Types /\ lifecycle' \in {"unconfigured", "refused"}
    BY <1>1 DEF OnInit, Descriptions
  <2> QED BY <1>1, <2>1 DEF OnInit
<1>2. CASE OnActivate
  BY <1>2 DEF OnActivate
<1>3. CASE OnDeactivate
  BY <1>3 DEF OnDeactivate
<1>4. CASE ControllersLost
  BY <1>4 DEF ControllersLost
<1>5. CASE PrepareRefuses
  BY <1>5 DEF PrepareRefuses
<1>6. CASE Prepare
  <2>1. claimed' \subseteq Types /\ held' \subseteq Types /\ lost' \subseteq Types
    BY <1>6 DEF Prepare, Requests, ClaimsUpTo
  <2> QED BY <1>6, <2>1 DEF Prepare
<1>7. CASE PrepareThrows
  <2>1. claimed' \subseteq Types
    BY <1>7 DEF PrepareThrows, Requests, ClaimsUpTo
  <2> QED BY <1>7, <2>1 DEF PrepareThrows
<1>8. CASE Refuse
  BY <1>8 DEF Refuse
<1>9. CASE KeepMode
  BY <1>9 DEF KeepMode
<1>10. CASE LeaveMode
  BY <1>10, ModeForIsMode DEF LeaveMode
<1>11. CASE AskInitialCommand
  BY <1>11 DEF AskInitialCommand
<1>12. CASE StopNothing
  BY <1>12 DEF StopNothing
<1>13. CASE StopFlags
  BY <1>13 DEF StopFlags
<1>14. CASE StopControl
  BY <1>14 DEF StopControl
<1>15. CASE StartNew
  <2>1. ZeroedBy(desired) \subseteq AllTypes
    BY VectorsOfMode
  <2> QED BY <1>15, <2>1, KindOfMode DEF StartNew
<1>16. CASE StartFlag
  BY <1>16, KindOfMode DEF StartFlag
<1>17. CASE StartThrows
  <2>1. ZeroedBy(desired) \subseteq AllTypes
    BY VectorsOfMode
  <2> QED BY <1>17, <2>1 DEF StartThrows
<1>18. CASE SetNeeds
  BY <1>18, VectorsOfMode DEF SetNeeds
<1>19. CASE EnterMode
  BY <1>19 DEF EnterMode
<1>20. CASE Read
  BY <1>20 DEF Read
<1>21. CASE ReadState
  BY <1>21 DEF ReadState
<1>22. CASE ReadThrows
  BY <1>22 DEF ReadThrows
<1>23. CASE NoInitialCommand
  BY <1>23 DEF NoInitialCommand
<1>24. CASE InitialCommand
  <2>1. /\ rt = "initial" /\ rt' = "write" /\ switch = "idle" /\ mode \in Modes
        /\ ready' = ready \union MeasuredFor(mode) /\ infinite' \subseteq infinite /\ ~needs'
        /\ UNCHANGED <<lifecycle, exported, mode, writing, sent, flags, control, switch,
                       desired, lost, claimed, held>>
    BY <1>24 DEF InitialCommand
  <2>2. /\ VectorsOf(mode) = ZeroedBy(mode) \union MeasuredFor(mode)
        /\ VectorsOf(mode) \subseteq AllTypes
    BY <2>1, VectorsOfMode
  <2>3. ready' \subseteq AllTypes /\ ready \subseteq ready' /\ VectorsOf(mode) \subseteq ready'
    BY <2>1, <2>2
  <2> QED BY <1>24, <2>1, <2>2, <2>3 DEF InitialCommand
<1>25. CASE CommandInfinite
  <2>1. infinite' \subseteq AllTypes
    BY <1>25 DEF CommandInfinite
  <2> QED BY <1>25, <2>1 DEF CommandInfinite
<1>26. CASE WriteInfinite
  BY <1>26 DEF WriteInfinite
<1>27. CASE WriteNothing
  BY <1>27 DEF WriteNothing
<1>28. CASE WriteMode
  BY <1>28 DEF WriteMode
<1>29. CASE WriteWithoutControl
  BY <1>29 DEF WriteWithoutControl
<1>30. CASE WriteChoose
  <2>1. writing.mode = mode /\ mode # "none" /\ control = KindOf(mode) /\ flags = {KindOf(mode)}
    BY <1>30, KindOfMode DEF WriteChoose
  <2>2. Chosen(mode) = KindOf(mode) /\ KindOf(mode) \in Kinds /\ "unknown" \notin Kinds
    BY <2>1, ChosenKind, KindOfMode, TypesAreNamed DEF Kinds
  <2>3. writing'.mode = mode /\ writing'.kind = KindOf(mode) /\ rt' = "sending"
    BY <1>30, <2>1, <2>2 DEF WriteChoose
  <2> QED BY <1>30, <2>1, <2>3 DEF WriteChoose
<1>31. CASE WriteSend
  <2>1. CASE UNCHANGED sent
    BY <1>31, <2>1 DEF WriteSend
  <2>2. CASE /\ control = writing.kind
             /\ sent' = [mode |-> writing.mode, kind |-> control,
                         ready |-> VectorsOf(writing.mode) \subseteq ready]
    <3>1. /\ writing.mode = mode /\ mode # "none" /\ VectorsOf(mode) \subseteq ready
          /\ writing.kind = KindOf(mode)
      BY <1>31 DEF WriteSend
    <3>2. sent' = [mode |-> mode, kind |-> KindOf(mode), ready |-> TRUE]
      BY <2>2, <3>1
    <3>3. KindOf(mode) \in Kinds /\ KindOf(mode) \in VectorsOf(mode)
      BY <3>1, KindOfMode
    <3> QED BY <1>31, <3>2, <3>3 DEF WriteSend
  <2> QED BY <1>31, <2>1, <2>2 DEF WriteSend
<1>32. CASE UNCHANGED vars
  BY <1>32 DEF vars
<1> QED BY <1>1, <1>2, <1>3, <1>4, <1>5, <1>6, <1>7, <1>8, <1>9, <1>10, <1>11, <1>12, <1>13,
        <1>14, <1>15, <1>16, <1>17, <1>18, <1>19, <1>20, <1>21, <1>22, <1>23, <1>24, <1>25,
        <1>26, <1>27, <1>28, <1>29, <1>30, <1>31, <1>32 DEF Next, Lifecycle, Switch, RealTime
LEMMA AllLookedAt ==
  ASSUME NEW start, NEW stop, exported \subseteq AllTypes
  PROVE  ClaimsUpTo(Len(ClaimOrder), start, stop)
           = (claimed \ (stop \cap exported)) \union (start \cap exported)
<1>1. AllTypes \cap exported = exported
  OBVIOUS
<1> QED BY <1>1, TypesAreNamed DEF ClaimsUpTo

(* prepare_command_mode_switch() keeps the flags in step with the claims:  *)
(* what is claimed anew after an error is what was lost.                   *)
LEMMA ClaimsStep ==
  ASSUME ~Overlapped, ~Miscounted, SameAgain, TurnInv, ClaimsInv, [Next]_vars
  PROVE  ClaimsInv'
<1> USE DEF ClaimsInv, ModeOfHeld, Switching
<1> DEFINE Same == /\ UNCHANGED <<exported, mode, claimed, held>>
                   /\ UNCHANGED <<lost, switch, desired, switched>>
                   /\ lifecycle' = lifecycle \/ lifecycle' \in {"unconfigured", "inactive"}
<1>1. ASSUME Same, rt = "idle" /\ rt' # "idle" => lifecycle \notin {"created", "refused"}
      PROVE  ClaimsInv'
  BY <1>1 DEF TurnInv, TurnsInv
<1> HIDE DEF Same
<1>2. CASE RealTime
  <2>1. Same /\ (rt = "idle" /\ rt' # "idle" => lifecycle \notin {"created", "refused"})
    BY <1>2 DEF Same, RealTime, Read, ReadState, ReadThrows, NoInitialCommand, InitialCommand,
       CommandInfinite, WriteInfinite, WriteNothing, WriteMode, WriteWithoutControl,
       WriteChoose, WriteSend, RtKeeps, RtMay
  <2> QED BY <1>1, <2>1
<1>3. CASE OnInit
  BY <1>3 DEF OnInit, switchVars, rtVars
<1>4. CASE OnActivate
  <2>1. held = {} /\ mode' = "none" /\ held' \cap exported' = {}
    BY <1>4 DEF OnActivate, LifecycleKeeps
  <2> QED BY <1>4, <2>1, NoClaims DEF OnActivate, LifecycleKeeps, rtVars
<1>5. CASE OnDeactivate
  BY <1>5 DEF OnDeactivate, LifecycleKeeps, rtVars
<1>6. CASE ControllersLost
  BY <1>6 DEF ControllersLost, LifecycleKeeps, rtVars
<1>7. CASE PrepareRefuses
  BY <1>7 DEF PrepareRefuses, rtVars, Requests
<1>8. CASE Prepare
  <2>1. PICK r \in Requests :
          /\ claimed' = ClaimsUpTo(Len(ClaimOrder), r.start, r.stop)
          /\ held' = (held \ r.stop) \union r.start
          /\ lost' = {}
    BY <1>8 DEF Prepare
  <2>2. /\ r.stop \subseteq held /\ r.start \union r.stop # {}
        /\ lifecycle = "active" \/ r.start = {}
        /\ lost # {} => r.start = lost
    BY DEF Requests
  <2>3. claimed' = (claimed \ (r.stop \cap exported)) \union (r.start \cap exported)
    BY <2>1, AllLookedAt, ConstantsAssumption DEF TurnInv, TypeOK
  <2>4. claimed' = held' \cap exported
    BY <2>1, <2>2, <2>3
  <2>5. lifecycle \notin {"created", "refused"}
    BY <2>2
  <2> QED BY <1>8, <2>1, <2>4, <2>5 DEF Prepare
<1>9. CASE PrepareThrows
  BY <1>9 DEF PrepareThrows
<1>10. CASE Refuse
  BY <1>10 DEF Refuse, SwitchKeeps, rtVars
<1>11. CASE KeepMode
  <2>1. mode = ModeFor(held \cap exported)
    BY <1>11 DEF KeepMode
  <2> QED BY <1>11, <2>1 DEF KeepMode, SwitchKeeps, rtVars
<1>12. CASE LeaveMode
  BY <1>12 DEF LeaveMode, SwitchKeeps, rtVars
<1>13. CASE AskInitialCommand \/ StopNothing \/ StopFlags \/ StopControl \/ StartFlag
            \/ SetNeeds
  BY <1>13 DEF AskInitialCommand, StopNothing, StopFlags, StopControl, StartFlag, SetNeeds,
     SwitchKeeps, rtVars
<1>14. CASE StartNew \/ StartThrows
  BY <1>14 DEF StartNew, StartThrows, rtVars
<1>15. CASE EnterMode
  <2>1. desired = ModeFor(held \cap exported)
    BY <1>15 DEF EnterMode
  <2> QED BY <1>15, <2>1 DEF EnterMode, SwitchKeeps, rtVars
<1>16. CASE UNCHANGED vars
  BY <1>16 DEF vars, switchVars, rtVars
<1> QED BY <1>2, <1>3, <1>4, <1>5, <1>6, <1>7, <1>8, <1>9, <1>10, <1>11, <1>12, <1>13, <1>14,
        <1>15, <1>16 DEF Next, Lifecycle, Switch

LEMMA TurnInit == Init => TurnInv /\ ClaimsInv
<1> SUFFICES ASSUME Init
             PROVE  TurnInv /\ ClaimsInv
  OBVIOUS
<1>1. "none" \in Modes /\ ZeroedBy("none") = {} /\ VectorsOf("none") = {}
  BY DEF Modes, ZeroedBy, VectorsOf
<1>2. TypeOK
  BY <1>1 DEF Init, TypeOK, NoCommand
<1>3. TurnsInv /\ ControlInv /\ ReadyInv /\ WriteInv
  BY <1>1 DEF Init, TurnsInv, ControlInv, ReadyInv, WriteInv, CommandFitsControl,
     ReadyBeforeSent, NoCommand, Switching
<1>4. ClaimsInv
  BY DEF Init, ClaimsInv, ModeOfHeld, Switching
<1> QED BY <1>2, <1>3, <1>4 DEF TurnInv

---------------------------------------------------------------------------
(* Overlapped                                                              *)

(* perform_command_mode_switch() sets the mode to None before anything     *)
(* else and leaves it so until it is done.                                 *)
NoModeInv ==
  /\ switch \in Switching \union {"idle", "perform"}
  /\ switch \in Switching => mode = "none"

LEMMA NoModeStep ==
  ASSUME NoModeInv, [Over!Next]_vars
  PROVE  /\ NoModeInv'
         /\ rt = "write" /\ rt' = "call" => switch \in {"idle", "perform"}
<1> USE DEF NoModeInv, Switching
<1>1. CASE Over!Lifecycle
  BY <1>1 DEF Over!Lifecycle, Over!OnInit, Over!OnActivate, Over!OnDeactivate,
     Over!ControllersLost, Over!LifecycleKeeps, Over!switchVars, Over!rtVars
<1>2. CASE Over!PrepareRefuses \/ Over!Prepare \/ Over!PrepareThrows
  BY <1>2 DEF Over!PrepareRefuses, Over!Prepare, Over!PrepareThrows, Over!ManagerMay, Over!rtVars
<1>3. CASE Over!Refuse \/ Over!KeepMode \/ Over!LeaveMode \/ Over!AskInitialCommand
  BY <1>3 DEF Over!Refuse, Over!KeepMode, Over!LeaveMode, Over!AskInitialCommand,
     Over!SwitchKeeps, Over!rtVars
<1>4. CASE Over!StopNothing \/ Over!StopFlags \/ Over!StopControl
  BY <1>4 DEF Over!StopNothing, Over!StopFlags, Over!StopControl, Over!SwitchKeeps, Over!rtVars
<1>5. CASE Over!StartNew \/ Over!StartFlag \/ Over!StartThrows
  BY <1>5 DEF Over!StartNew, Over!StartFlag, Over!StartThrows, Over!SwitchKeeps, Over!rtVars
<1>6. CASE Over!SetNeeds \/ Over!EnterMode
  BY <1>6 DEF Over!SetNeeds, Over!EnterMode, Over!SwitchKeeps, Over!rtVars
<1>7. CASE Over!RealTime
  BY <1>7 DEF Over!RealTime, Over!Read, Over!ReadState, Over!ReadThrows,
     Over!NoInitialCommand, Over!InitialCommand, Over!CommandInfinite, Over!WriteInfinite,
     Over!WriteNothing, Over!WriteMode, Over!WriteWithoutControl, Over!WriteChoose,
     Over!WriteSend, Over!RtKeeps, Over!rtVars
<1>8. CASE UNCHANGED vars
  BY <1>8 DEF vars, switchVars, rtVars
<1> QED BY <1>1, <1>2, <1>3, <1>4, <1>5, <1>6, <1>7, <1>8 DEF Over!Next, Over!Switch

---------------------------------------------------------------------------
(* Both settings                                                           *)

LEMMA SettingsStep ==
  ASSUME [SettingsNext]_allVars
  PROVE  /\ overlapped' = overlapped
         /\ overlapped => [Over!Next]_vars
         /\ ~overlapped => [Next]_vars
<1>1. CASE SettingsNext
  BY <1>1 DEF SettingsNext, Ended
<1>2. CASE UNCHANGED allVars
  BY <1>2 DEF allVars
<1> QED BY <1>1, <1>2

(* read(), write() and perform_command_mode_switch(), called one at a time *)
(* for any types of interface: every command is sent through the motion    *)
(* generator of its mode, from a vector set up since the mode was entered, *)
(* and writeOnce() does not get to "This part should not be reached".      *)
THEOREM CommandsAreAsMeant ==
  ASSUME ~Overlapped
  PROVE  SettingsSpec => []RightCommandSent
<1> DEFINE Inv == ~overlapped => TurnInv
<1>1. SettingsInit => Inv
  BY TurnInit DEF SettingsInit
<1>2. Inv /\ [SettingsNext]_allVars => Inv'
  BY SettingsStep, TurnStep
<1>3. Inv => RightCommandSent
  BY DEF TurnInv, TurnsInv, WriteInv, RightCommandSent, SizeKnown
<1> QED BY <1>1, <1>2, <1>3, PTL DEF SettingsSpec

(* perform_command_mode_switch(), read(), on_activate(), on_deactivate():  *)
(* when requests are well formed and the controllers an error has stopped  *)
(* are started again first, the control, its flag and the mode are those   *)
(* of the interfaces held whenever no mode switch is under way.            *)
THEOREM ControlIsOfClaims ==
  ASSUME ~Overlapped, ~Miscounted, SameAgain
  PROVE  SettingsSpec => []ControlFollowsClaims
<1> DEFINE Inv == ~overlapped => TurnInv /\ ClaimsInv
<1>1. SettingsInit => Inv
  BY TurnInit DEF SettingsInit
<1>2. Inv /\ [SettingsNext]_allVars => Inv'
  BY SettingsStep, TurnStep, ClaimsStep
<1>3. Inv => ControlFollowsClaims
  BY DEF TurnInv, ControlInv, ClaimsInv, ControlFollowsClaims, ControlMatchesMode
<1> QED BY <1>1, <1>2, <1>3, PTL DEF SettingsSpec

(* write() in the real-time thread while perform_command_mode_switch()     *)
(* runs in another: it begins to send only before the mode is left or      *)
(* after the next one is entered.                                          *)
THEOREM NoWriteBeginsInSwitch == SettingsSpec => NothingSentDuringSwitch
<1> DEFINE Inv == overlapped => NoModeInv
<1>1. SettingsInit => Inv
  BY DEF SettingsInit, Init, NoModeInv, Switching
<1>2. Inv /\ [SettingsNext]_allVars =>
        /\ Inv'
        /\ overlapped /\ rt = "write" /\ rt' = "call" => switch \in {"idle", "perform"}
  BY SettingsStep, NoModeStep
<1> QED BY <1>1, <1>2, PTL DEF SettingsSpec, NothingSentDuringSwitch

=============================================================================
