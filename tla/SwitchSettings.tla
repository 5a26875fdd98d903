--------------------------- MODULE SwitchSettings ---------------------------
(***************************************************************************)
(* HardwareSwitch in two settings, of which each behaviour takes one.  In  *)
(* turn: the controller manager calls one callback at a time, for all the  *)
(* types of interface, and the requests are well formed.  Overlapped: two  *)
(* types, and everything that may go wrong while a mode switch runs in     *)
(* another thread than read() and write().                                 *)
(***************************************************************************)
EXTENDS HardwareSwitch

VARIABLE overlapped

Over == INSTANCE HardwareSwitch WITH
  Types <- {"effort", "cartvel"},
  Overlapped <- TRUE, Miscounted <- TRUE, Infinite <- TRUE, SameAgain <- FALSE

allVars == <<overlapped, vars>>

SettingsInit == overlapped \in BOOLEAN /\ Init

(* An exception has left write() and ended the real-time thread, or        *)
(* on_init() has refused the description.                                  *)
Ended ==
  /\ \/ overlapped /\ rt = "threw"
     \/ lifecycle = "refused"
  /\ UNCHANGED vars

SettingsNext ==
  /\ (IF overlapped THEN Over!Next ELSE Next) \/ Ended
  /\ UNCHANGED overlapped

SettingsSpec == SettingsInit /\ [][SettingsNext]_allVars

---------------------------------------------------------------------------
(* In turn, a command reaches the robot as what the controllers meant: the *)
(* vector of the mode is sent through the motion generator of that mode,   *)
(* no vector before it was set up since the mode was entered (a motion     *)
(* starts where the robot is), and Robot::writeOnce() never gets to "This  *)
(* part should not be reached".                                            *)
RightCommandSent == ~overlapped => SizeKnown /\ CommandFitsControl /\ ReadyBeforeSent

(* In turn, between mode switches the flags name the control there is, and *)
(* the mode of active hardware has its control and is that of the          *)
(* interfaces held, also after an error (perform_command_mode_switch,      *)
(* on_deactivate).                                                         *)
ControlFollowsClaims == ~overlapped => ControlMatchesMode /\ ModeOfHeld

(* Overlapped, setting the mode to None first keeps write() from starting  *)
(* to send while the old control is stopped and the new one started.       *)
NothingSentDuringSwitch == [][overlapped /\ rt = "write" /\ rt' = "call"
                                => switch \in {"idle", "perform"}]_allVars

=============================================================================
