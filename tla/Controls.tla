------------------------------ MODULE Controls ------------------------------
(***************************************************************************)
(* The pads (AFakeNative/utils/controls.cpp).  detectControllers notes     *)
(* which are there; a thread of its own samples them and enqueues what     *)
(* changed.  Detection runs a second time, from the main program, while    *)
(* that thread is at work, and neither takes a lock: each write of a       *)
(* shared variable is a step.                                              *)
(*                                                                         *)
(* A sample is the set of buttons held.  Sticks and touch are left out:    *)
(* a stick is compared with what was sent last just as the triggers are.   *)
(***************************************************************************)
EXTENDS Naturals, FiniteSets

CONSTANTS
  NumPads,      \* ports 1 .. NumPads; port 0 stands for the only controller
  Mapped,       \* buttons that are sent as keys
  Triggers,     \* buttons that are sent as axes of the joystick
  RearButtons,  \* buttons emulated by the rear touch panel
  MaxChanges    \* bound: how often the player does something

ASSUME ControlsAssumption == NumPads \in Nat \ {0}

Devices == 0 .. NumPads - 1
Ports == 0 .. NumPads
Buttons == Mapped \cup Triggers \cup RearButtons
PadButtons == Buttons \ RearButtons

VARIABLES
  supported,    \* sceCtrlIsMultiControllerSupported
  paired,       \* ports with a controller
  pad,          \* port -> buttons held
  rear,         \* buttons held on the rear panel
  changes,      \* how often these three have changed
  available,    \* controllers[i].is_available
  numControllers,
  current,      \* controllers[i].current_buttons
  joy,          \* controllers[i].previous_joy_state, its triggers
  keysDown,     \* history: keys whose last event was a press
  detecting,    \* where detectControllers is, or "no"
  portInfo,     \* detectControllers: the ports as it was told
  detectPort,   \* detectControllers: i
  pollPc,       \* where the polling thread is; "off" before it exists
  device,       \* pollPad: i
  port,         \* pollPad: port
  sample        \* pollPad: pad

padVars == <<supported, paired, pad, rear, changes>>
detectVars == <<detecting, portInfo, detectPort>>
sampleVars == <<pollPc, device, port, sample>>
toldVars == <<current, joy, keysDown>>
controlVars == <<padVars, available, numControllers, toldVars, detectVars, sampleVars>>

ControlsTypeOK ==
  /\ supported \in BOOLEAN /\ paired \subseteq Ports \ {0}
  /\ pad \in [Ports -> SUBSET PadButtons] /\ rear \subseteq RearButtons
  /\ changes \in 0 .. MaxChanges
  /\ available \in [Devices -> BOOLEAN]
  /\ numControllers \in 0 .. NumPads
  /\ current \in [Devices -> SUBSET Buttons]
  /\ joy \in [Devices -> SUBSET Triggers]
  /\ keysDown \in [Devices -> SUBSET Mapped]
  /\ detecting \in {"no", "reset", "port", "count", "default", "one"}
  /\ portInfo \subseteq Ports \ {0} /\ detectPort \in 1 .. NumPads + 1
  /\ pollPc \in {"off", "device", "peek", "report"}
  /\ device \in Devices /\ port \in Ports /\ sample \subseteq Buttons

ControlsInit ==
  /\ supported \in BOOLEAN
  /\ paired \in IF supported THEN SUBSET (Ports \ {0}) ELSE {{}}
  /\ pad = [p \in Ports |-> {}] /\ rear = {}
  /\ changes = 0
  /\ available = [i \in Devices |-> FALSE]
  /\ numControllers = 0
  /\ current = [i \in Devices |-> {}]
  /\ joy = [i \in Devices |-> {}]
  /\ keysDown = [i \in Devices |-> {}]
  /\ detecting = "no" /\ portInfo = {} /\ detectPort = 1
  /\ pollPc = "off" /\ device = 0 /\ port = 0 /\ sample = {}

-----------------------------------------------------------------------------
(* detectControllers *)

CountReset == 0

ResetCount ==
  /\ detecting = "reset"
  /\ numControllers' = CountReset
  /\ portInfo' = IF supported THEN paired ELSE {}
  /\ detectPort' = 1
  /\ detecting' = IF supported THEN "port" ELSE "default"
  /\ UNCHANGED <<padVars, available, toldVars, sampleVars>>

DetectPort ==
  /\ detecting = "port"
  /\ detectPort <= NumPads
  /\ available' = [available EXCEPT ![detectPort - 1] = detectPort \in portInfo]
  /\ IF detectPort \in portInfo
     THEN detecting' = "count" /\ UNCHANGED detectPort
     ELSE detectPort' = detectPort + 1 /\ UNCHANGED detecting
  /\ UNCHANGED <<padVars, numControllers, portInfo, toldVars, sampleVars>>

CountPort ==
  /\ detecting = "count"
  /\ numControllers' = numControllers + 1
  /\ detectPort' = detectPort + 1
  /\ detecting' = "port"
  /\ UNCHANGED <<padVars, available, portInfo, toldVars, sampleVars>>

\* The locals of detectControllers are gone.
ForgetPorts == portInfo' = {} /\ detectPort' = 1

AllPortsSeen ==
  /\ detecting = "port"
  /\ detectPort > NumPads
  /\ detecting' = IF numControllers = 0 THEN "default" ELSE "no"
  /\ ForgetPorts
  /\ UNCHANGED <<padVars, available, numControllers, toldVars, sampleVars>>

\* Nothing was found, or there is one built-in controller only.
DefaultPad ==
  /\ detecting = "default"
  /\ available' = [available EXCEPT ![0] = TRUE]
  /\ detecting' = "one"
  /\ UNCHANGED <<padVars, numControllers, portInfo, detectPort, toldVars, sampleVars>>

CountDefault ==
  /\ detecting = "one"
  /\ numControllers' = 1
  /\ detecting' = "no"
  /\ UNCHANGED <<padVars, available, portInfo, detectPort, toldVars, sampleVars>>

Detection ==
  ResetCount \/ DetectPort \/ CountPort \/ AllPortsSeen \/ DefaultPad \/ CountDefault

-----------------------------------------------------------------------------
(* pollPad, over and over *)

PortOf(i) == IF numControllers = 1 THEN 0 ELSE i + 1

\* Mutant: the last pad is left out of the loop.
Next1Short(i) == (i + 1) % (NumPads - 1)

Next1(i) == (i + 1) % NumPads

SkipDevice ==
  /\ pollPc = "device"
  /\ ~available[device]
  /\ device' = Next1(device)
  /\ UNCHANGED <<padVars, available, numControllers, toldVars, detectVars, pollPc,
                 port, sample>>

ChoosePort ==
  /\ pollPc = "device"
  /\ available[device]
  /\ port' = PortOf(device)
  /\ pollPc' = "peek"
  /\ UNCHANGED <<padVars, available, numControllers, toldVars, detectVars, device,
                 sample>>

\* sceCtrlPeekBufferPositiveExt2 answers for port 0 and for ports with a
\* controller; otherwise the buffer keeps what was on the stack.
Answers(p) == p = 0 \/ p \in paired
PeekResult(p) == IF Answers(p) THEN {pad[p]} ELSE SUBSET PadButtons

\* The number of controllers is read once more for the rear panel.
Peek ==
  /\ pollPc = "peek"
  /\ \E buttons \in PeekResult(port) :
       sample' = buttons \cup IF numControllers = 1 THEN rear ELSE {}
  /\ port' = 0
  /\ pollPc' = "report"
  /\ UNCHANGED <<padVars, available, numControllers, toldVars, detectVars, device>>

\* What sendJoyEvent puts into an event: L1 and R1 make one, but are not in it.
sendJoyEvent(triggers) == [lt |-> "L2" \in triggers, rt |-> "R2" \in triggers]

\* What the game reads of it: AMotionEvent_getAxisValue.
AxisValue(event, axis) ==
  CASE axis = "LTRIGGER" -> event.lt
    [] axis = "RTRIGGER" -> event.rt
    [] OTHER -> FALSE

Pressed(old, new) == new \ old

Released(old, new) == old \ new

\* The keys that went down or up, then the joystick if it changed.
ReportSample ==
  /\ pollPc = "report"
  /\ current' = [current EXCEPT ![device] = sample]
  /\ keysDown' = [keysDown EXCEPT ![device] =
                    (@ \cup (Pressed(current[device], sample) \cap Mapped))
                       \ Released(current[device], sample)]
  /\ joy' = [joy EXCEPT ![device] = sample \cap Triggers]
  /\ device' = Next1(device)
  /\ sample' = {}
  /\ pollPc' = "device"
  /\ UNCHANGED <<padVars, available, numControllers, detectVars, port>>

Polling == SkipDevice \/ ChoosePort \/ Peek \/ ReportSample

\* Whether the sample makes an event.
Tells ==
  \/ (current[device] \cap Mapped) # (sample \cap Mapped)
  \/ joy[device] # (sample \cap Triggers)

-----------------------------------------------------------------------------
(* The player *)

PressOrRelease ==
  /\ changes < MaxChanges
  /\ \E p \in Ports, buttons \in SUBSET PadButtons :
       Answers(p) /\ buttons # pad[p] /\ pad' = [pad EXCEPT ![p] = buttons]
  /\ changes' = changes + 1
  /\ UNCHANGED <<supported, paired, rear, available, numControllers, toldVars,
                 detectVars, sampleVars>>

TouchRear ==
  /\ changes < MaxChanges
  /\ rear' \in (SUBSET RearButtons) \ {rear}
  /\ changes' = changes + 1
  /\ UNCHANGED <<supported, paired, pad, available, numControllers, toldVars,
                 detectVars, sampleVars>>

PlugOrUnplug ==
  /\ changes < MaxChanges
  /\ supported
  /\ \E p \in Ports \ {0} : paired' = IF p \in paired THEN paired \ {p} ELSE paired \cup {p}
  /\ changes' = changes + 1
  /\ UNCHANGED <<supported, pad, rear, available, numControllers, toldVars,
                 detectVars, sampleVars>>

Player == PressOrRelease \/ TouchRear \/ PlugOrUnplug
=============================================================================
