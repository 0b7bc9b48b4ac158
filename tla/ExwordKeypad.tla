---------------------------- MODULE ExwordKeypad ----------------------------
(***************************************************************************)
(* The EX-word keypad, pointer and sub-pad driver                          *)
(* (kernel/overlay/drivers/input/keyboard/exword-keypad.c).                *)
(*                                                                         *)
(* One kernel thread does everything: it samples the key matrix, reports   *)
(* key and pointer-button edges, polls the resistive sub-pad, services the *)
(* mode parameter and paints the secondary LCD one row per turn.  The only *)
(* other actor is a process that writes the sysfs parameter subpad_mode at *)
(* any moment.  The hardware (key samples, pen, ADC) is nondeterministic.  *)
(*                                                                         *)
(* The key loop is one step per table entry; the step labels are           *)
(*   scan -> keys (i = 1 .. Len(KeyTable)) -> motion -> touch              *)
(*        -> scan, or -> turn -> draw -> scan when the thread yields.      *)
(* Scan codes and key codes are identified with the key's name: the table  *)
(* maps them one to one.                                                   *)
(***************************************************************************)
EXTENDS Integers, Sequences, FiniteSets

CONSTANTS
  KeyTable,          \* exword_keys[] in table order, as a sequence of names
  Requests,          \* values userspace may write to subpad_mode
  Zones,             \* touch zones a sample can fall into
  PollBurst,         \* EXWORD_POLL_BURST
  MouseRepeatScans,  \* EXWORD_MOUSE_REPEAT_SCANS
  TouchPollScans,    \* EXWORD_TOUCH_POLL_SCANS
  TouchDebounce,     \* EXWORD_TOUCH_DEBOUNCE
  TouchReleaseDebounce, \* EXWORD_TOUCH_RELEASE_DEBOUNCE
  TouchRepeatPolls,  \* EXWORD_TOUCH_REPEAT_POLLS
  SublcdHeight       \* EXWORD_SUBLCD_HEIGHT

Keys == {KeyTable[n] : n \in 1 .. Len(KeyTable)}
Buttons == {"BTN_LEFT", "BTN_MIDDLE", "BTN_RIGHT"}
Sources == {"KEYPAD", "TOUCH"}
AllZones == {"LEFT", "UP", "RIGHT", "BUTTON_LEFT", "DOWN", "BUTTON_RIGHT"}
ButtonZones == {"BUTTON_LEFT", "BUTTON_RIGHT"}

ASSUME KeyTableAssumption == KeyTable \in Seq(STRING) /\ Len(KeyTable) > 0
ASSUME RequestsAssumption == Requests \subseteq Int
ASSUME ZonesAssumption == Zones \subseteq AllZones
ASSUME BoundsAssumption ==
  /\ PollBurst \in Nat \ {0}
  /\ MouseRepeatScans \in Nat \ {0}
  /\ TouchPollScans \in Nat \ {0}
  /\ TouchDebounce \in Nat \ {0, 1}
  /\ TouchReleaseDebounce \in Nat \ {0}
  /\ TouchRepeatPolls \in Nat \ {0}
  /\ SublcdHeight \in Nat \ {0}

VARIABLES
  pc, i, sample, activity, mouse_direction_edge, \* locals of the scan thread
  burst,
  down,                     \* exword_keys[].down, as the set of keys held
  enter_press_seen, mouse_mode, mouse_repeat_scans,
  kbd,                      \* key codes the input core holds down (keyboard)
  button_sources,           \* exword_pointer_button_sources[]
  btn,                      \* buttons the input core holds down (pointer)
  touch_available, touch_enabled, touch_prepared, touch_gpio_prepared,
  touch_poll_scans, touch_candidate, touch_candidate_samples, touch_active,
  touch_release_samples, touch_repeat_polls,
  sublcd_supported, sublcd_enabled, sublcd_next_row, sublcd_finished,
  subpad_mode, applied_mode,
  taps, boot_enter,         \* history: what caused the Return taps, and the
  clicks                    \* keys pressed as pointer buttons, see KeyEdge

threadVars == <<pc, i, sample, activity, mouse_direction_edge, burst>>
keyVars    == <<down, enter_press_seen, mouse_mode, mouse_repeat_scans, kbd>>
pointerVars == <<button_sources, btn>>
touchGates == <<touch_available, touch_enabled, touch_prepared,
                touch_gpio_prepared>>
touchPad   == <<touch_candidate, touch_candidate_samples, touch_active,
                touch_release_samples, touch_repeat_polls>>
touchVars  == <<touchGates, touchPad, touch_poll_scans>>
lcdVars    == <<sublcd_enabled, sublcd_next_row, sublcd_finished>>
modeVars   == <<subpad_mode, applied_mode>>
history    == <<taps, boot_enter, clicks>>
vars == <<threadVars, keyVars, pointerVars, touchVars, sublcd_supported,
          lcdVars, modeVars, history>>

-----------------------------------------------------------------------------
(* The key classes of exword_mouse_action_scan and exword_mouse_button.    *)

Arrows == {"UP", "DOWN", "LEFT", "RIGHT"}

exword_mouse_button(k) == CASE k = "ENTER" -> "BTN_LEFT"
                            [] k = "ZOOM"  -> "BTN_MIDDLE"
                            [] k = "BACK"  -> "BTN_RIGHT"
                            [] OTHER       -> "none"

exword_mouse_action_scan(k) == k \in Arrows \cup {"ENTER", "ZOOM", "BACK"}

(* Zone <-> button of exword_touch_activate_zone / _release_active. *)
TouchButton(z) == IF z = "BUTTON_LEFT" THEN "BTN_LEFT"
                  ELSE IF z = "BUTTON_RIGHT" THEN "BTN_RIGHT" ELSE "none"

-----------------------------------------------------------------------------
(* Boot: exword_touch_load_firmware_setup and exword_prime_scanner.  The   *)
(* matrix may already show keys held, Enter (used to launch) among them.   *)

exword_prime_scanner == down \in SUBSET Keys

exword_touch_load_firmware_setup ==
  /\ sublcd_supported \in BOOLEAN                    \* variant == 1
  /\ touch_available \in {FALSE, sublcd_supported}   \* && calibration sane

Init ==
  /\ exword_prime_scanner
  /\ exword_touch_load_firmware_setup
  /\ pc = "scan" /\ i = 1 /\ sample = {} /\ burst = 0
  /\ activity = FALSE /\ mouse_direction_edge = FALSE
  /\ enter_press_seen = FALSE /\ mouse_mode = FALSE
  /\ mouse_repeat_scans = 0 /\ kbd = {}
  /\ button_sources = [b \in Buttons |-> {}] /\ btn = {}
  /\ touch_enabled = FALSE /\ touch_prepared = FALSE
  /\ touch_gpio_prepared = FALSE /\ touch_poll_scans = 0
  /\ touch_candidate = "NONE" /\ touch_candidate_samples = 0
  /\ touch_active = "NONE" /\ touch_release_samples = 0
  /\ touch_repeat_polls = 0
  /\ sublcd_enabled = FALSE /\ sublcd_next_row = 0 /\ sublcd_finished = FALSE
  /\ subpad_mode = 0 /\ applied_mode = -1
  /\ taps = {} /\ boot_enter = ("ENTER" \in down) /\ clicks = {}

-----------------------------------------------------------------------------
(* Pointer buttons are shared by the keypad and the touch pad; an event is *)
(* sent only when the first source presses or the last one releases.       *)

\* Seeded fault: assigns the source instead of masking it, so that one source
\* releases the other's press.
SetPointerButtonOverwrites(b, source, isdown) ==
  LET now == IF isdown THEN {source} ELSE {}
  IN /\ button_sources' = [button_sources EXCEPT ![b] = now]
     /\ btn' = IF now = {} THEN btn \ {b} ELSE btn \cup {b}

exword_set_pointer_button(b, source, isdown) ==
  LET now == IF isdown THEN button_sources[b] \cup {source}
             ELSE button_sources[b] \ {source}
  IN /\ button_sources' = [button_sources EXCEPT ![b] = now]
     /\ btn' = IF (button_sources[b] = {}) = (now = {}) THEN btn
               ELSE IF now = {} THEN btn \ {b} ELSE btn \cup {b}

\* Would the call above report an event (its return value)?
ButtonEvent(b, source, isdown) ==
  IF isdown THEN button_sources[b] = {} ELSE button_sources[b] = {source}

exword_release_keypad_mouse_buttons ==
  /\ button_sources' = [b \in Buttons |-> button_sources[b] \ {"KEYPAD"}]
  /\ btn' = btn \ {b \in Buttons : button_sources[b] = {"KEYPAD"}}

\* Seeded fault: entering mouse mode releases only the arrow keys.
ReleaseArrowsOnly == kbd' = kbd \ Arrows

exword_release_mouse_keys_from_keyboard ==
  kbd' = {k \in kbd : ~exword_mouse_action_scan(k)}

exword_toggle_mouse_mode ==
  /\ mouse_mode' = ~mouse_mode
  /\ mouse_repeat_scans' = 0
  /\ \/ /\ ~mouse_mode
        /\ exword_release_mouse_keys_from_keyboard
        /\ UNCHANGED pointerVars
     \/ /\ mouse_mode
        /\ exword_release_keypad_mouse_buttons
        /\ UNCHANGED kbd

-----------------------------------------------------------------------------
(* exword_scan_once, first half: the sample and the loop over the keys.    *)

ReadState ==
  /\ pc = "scan"
  /\ sample' \in SUBSET Keys
  /\ pc' = "keys" /\ i' = 1
  /\ activity' = FALSE /\ mouse_direction_edge' = FALSE
  /\ UNCHANGED <<burst, keyVars, pointerVars, touchVars, sublcd_supported,
                 lcdVars, modeVars, history>>

Key == KeyTable[i]
IsDown == Key \in sample
Edge == IsDown <=> Key \notin down

\* Move on to the next table entry.
NextKey == /\ i' = i + 1
           /\ pc' = IF i = Len(KeyTable) THEN "motion" ELSE "keys"
           /\ UNCHANGED <<sample, burst, touchVars, sublcd_supported,
                          lcdVars, modeVars>>

SameKey ==
  /\ pc = "keys" /\ ~Edge
  /\ NextKey
  /\ UNCHANGED <<activity, mouse_direction_edge, keyVars, pointerVars, history>>

\* What the hands do, whatever the driver makes of it: the keys pressed as a
\* pointer button and not released since, nor mouse mode switched.
Clicks ==
  IF ~IsDown THEN clicks \ {Key}
  ELSE IF Key = "TOGGLE" THEN {}
  ELSE IF mouse_mode /\ exword_mouse_button(Key) # "none" THEN clicks \cup {Key}
  ELSE clicks

\* Bookkeeping common to every edge; the history variables follow the
\* physical keys: boot_enter ends with the first release of Enter.
KeyEdge ==
  /\ pc = "keys" /\ Edge
  /\ down' = IF IsDown THEN down \cup {Key} ELSE down \ {Key}
  /\ activity' = TRUE
  /\ boot_enter' = (boot_enter /\ ~(Key = "ENTER" /\ ~IsDown))
  /\ clicks' = Clicks
  /\ NextKey

NoTap == taps' = IF Key = "ENTER" /\ IsDown THEN {} ELSE taps

ToggleKey ==
  /\ KeyEdge
  /\ Key = "TOGGLE"
  /\ IF IsDown THEN exword_toggle_mouse_mode
     ELSE UNCHANGED <<mouse_mode, mouse_repeat_scans, kbd, pointerVars>>
  /\ UNCHANGED <<enter_press_seen, mouse_direction_edge, taps>>

MouseKey ==
  /\ KeyEdge
  /\ mouse_mode /\ exword_mouse_action_scan(Key)
  /\ IF exword_mouse_button(Key) # "none"
     THEN /\ exword_set_pointer_button(exword_mouse_button(Key), "KEYPAD",
                                       IsDown)
          /\ UNCHANGED mouse_direction_edge
     ELSE /\ mouse_direction_edge' = (mouse_direction_edge \/ IsDown)
          /\ UNCHANGED pointerVars
  /\ NoTap
  /\ UNCHANGED <<enter_press_seen, mouse_mode, mouse_repeat_scans, kbd>>

\* exword_report_enter_tap: press and release, so the key ends up released.
exword_report_enter_tap == kbd' = kbd \ {"ENTER"}

TapCause == IF IsDown THEN "press" ELSE IF boot_enter THEN "boot"
            ELSE "unmatched"

\* Seeded fault: the press is never remembered.
EnterSeenDropped == enter_press_seen' = FALSE

EnterSeen == enter_press_seen' = IsDown

EnterKey ==
  /\ KeyEdge
  /\ Key = "ENTER" /\ ~mouse_mode
  /\ IF IsDown \/ ~enter_press_seen
     THEN /\ exword_report_enter_tap
          /\ taps' = IF IsDown THEN {"press"} ELSE taps \cup {TapCause}
     ELSE UNCHANGED <<kbd, taps>>
  /\ EnterSeen
  /\ UNCHANGED <<mouse_direction_edge, mouse_mode, mouse_repeat_scans,
                 pointerVars>>

ReportKey ==
  /\ KeyEdge
  /\ Key \notin {"TOGGLE", "ENTER"}
  /\ ~(mouse_mode /\ exword_mouse_action_scan(Key))
  /\ kbd' = IF IsDown THEN kbd \cup {Key} ELSE kbd \ {Key}
  /\ UNCHANGED <<enter_press_seen, mouse_mode, mouse_repeat_scans,
                 mouse_direction_edge, pointerVars, taps>>

ScanKeys == SameKey \/ ToggleKey \/ MouseKey \/ EnterKey \/ ReportKey

-----------------------------------------------------------------------------
(* exword_scan_once, second half: auto-repeating motion, then the pad.     *)

\* exword_report_pointer_motion: opposite arrows cancel and report nothing.
PointerMoves == \/ ("LEFT" \in sample) # ("RIGHT" \in sample)
                \/ ("UP" \in sample) # ("DOWN" \in sample)

MotionDue == \/ mouse_direction_edge
             \/ mouse_repeat_scans + 1 >= MouseRepeatScans

Motion ==
  /\ pc = "motion" /\ pc' = "touch"
  /\ LET held == mouse_mode /\ sample \cap Arrows # {}
     IN /\ mouse_repeat_scans' = IF held /\ ~MotionDue
                                 THEN mouse_repeat_scans + 1 ELSE 0
        /\ activity' = (activity \/ (held /\ MotionDue /\ PointerMoves))
  /\ i' = 1 /\ sample' = {} /\ mouse_direction_edge' = FALSE  \* dead locals
  /\ UNCHANGED <<burst, down, enter_press_seen, mouse_mode, kbd, pointerVars,
                 touchVars, sublcd_supported, lcdVars, modeVars, history>>

\* Seeded fault: burst is not reset when activity ends the burst early.
EndScanKeepsBurst(act) ==
  /\ IF act \/ burst + 1 = PollBurst
     THEN pc' = "turn" /\ burst' = burst + 1
     ELSE pc' = "scan" /\ burst' = burst + 1
  /\ activity' = FALSE
  /\ UNCHANGED <<i, sample, mouse_direction_edge>>

\* Seeded fault: the thread takes a turn only when a key or the pad moved.
EndScanOnActivity(act) ==
  /\ pc' = IF act THEN "turn" ELSE "scan"
  /\ burst' = 0
  /\ activity' = FALSE
  /\ UNCHANGED <<i, sample, mouse_direction_edge>>

\* exword_scan_thread after a scan: yield on activity or every burst.
EndScan(act) ==
  /\ IF act \/ burst + 1 = PollBurst
     THEN pc' = "turn" /\ burst' = 0
     ELSE pc' = "scan" /\ burst' = burst + 1
  /\ activity' = FALSE
  /\ UNCHANGED <<i, sample, mouse_direction_edge>>

AfterTouch(act) ==
  /\ EndScan(activity \/ act)
  /\ UNCHANGED <<keyVars, touch_enabled, touch_prepared, touch_gpio_prepared,
                 sublcd_supported, lcdVars, modeVars, history>>

TouchIdle ==
  /\ pc = "touch"
  /\ \/ ~touch_enabled /\ touch_poll_scans' = 0
     \/ /\ touch_enabled /\ touch_poll_scans + 1 < TouchPollScans
        /\ touch_poll_scans' = touch_poll_scans + 1
  /\ AfterTouch(FALSE)
  /\ UNCHANGED <<pointerVars, touch_available, touchPad>>

PollDue == /\ pc = "touch" /\ touch_enabled
           /\ touch_poll_scans + 1 >= TouchPollScans
           /\ touch_poll_scans' = 0

exword_touch_release_active ==
  /\ IF touch_active \in ButtonZones
     THEN exword_set_pointer_button(TouchButton(touch_active), "TOUCH", FALSE)
     ELSE UNCHANGED pointerVars
  /\ touch_active' = "NONE"
  /\ touch_repeat_polls' = 0

\* A bounded wait gave up: the path is unavailable from now on.
exword_touch_disable == touch_available' = FALSE

\* The clock gate and the two ADC waits, each of which may give up.
AdcWaits == UNCHANGED touch_available \/ exword_touch_disable

(* exword_touch_read_sample returned false: the touch path is unavailable, *)
(* the pen is up, the ADC pair is inconsistent, or the ADC timed out - the *)
(* last also marks the path unavailable.                                   *)
NoSample == AdcWaits

TouchNoSample ==
  /\ PollDue /\ NoSample
  /\ touch_candidate' = "NONE" /\ touch_candidate_samples' = 0
  /\ \/ /\ touch_active = "NONE"
        /\ AfterTouch(FALSE)
        /\ UNCHANGED <<touch_active, touch_release_samples,
                       touch_repeat_polls, pointerVars>>
     \/ /\ touch_active # "NONE"
        /\ touch_release_samples + 1 < TouchReleaseDebounce
        /\ touch_release_samples' = touch_release_samples + 1
        /\ AfterTouch(FALSE)
        /\ UNCHANGED <<touch_active, touch_repeat_polls, pointerVars>>
     \/ /\ touch_active # "NONE"
        /\ touch_release_samples + 1 >= TouchReleaseDebounce
        /\ touch_release_samples' = 0
        /\ exword_touch_release_active
        /\ AfterTouch(/\ touch_active \in ButtonZones
                      /\ ButtonEvent(TouchButton(touch_active), "TOUCH", FALSE))

\* exword_touch_read_sample returned true; the sample is in zone z.
GotSample == /\ PollDue /\ touch_available
             /\ touch_release_samples' = 0
             /\ UNCHANGED touch_available

TouchLatched ==
  /\ GotSample
  /\ touch_active # "NONE"
  /\ IF touch_active \in ButtonZones
     THEN /\ AfterTouch(FALSE)
          /\ UNCHANGED touch_repeat_polls
     ELSE LET due == touch_repeat_polls + 1 >= TouchRepeatPolls
          IN /\ touch_repeat_polls' = IF due THEN 0 ELSE touch_repeat_polls + 1
             /\ AfterTouch(due)
  /\ UNCHANGED <<touch_candidate, touch_candidate_samples, touch_active,
                 pointerVars>>

\* Seeded fault: counts samples without comparing their zones.
CandidateAnyZone(z, near) == IF near THEN touch_candidate_samples + 1 ELSE 1

\* near: both coordinates are within 96 counts of the previous sample.
CandidateSamples(z, near) ==
  IF z = touch_candidate /\ near THEN touch_candidate_samples + 1 ELSE 1

TouchCandidate(z, near) ==
  /\ GotSample
  /\ touch_active = "NONE"
  /\ CandidateSamples(z, near) < TouchDebounce
  /\ touch_candidate' = z
  /\ touch_candidate_samples' = CandidateSamples(z, near)
  /\ AfterTouch(FALSE)
  /\ UNCHANGED <<touch_active, touch_repeat_polls, pointerVars>>

TouchActivate(z, near) ==
  /\ GotSample
  /\ touch_active = "NONE"
  /\ CandidateSamples(z, near) >= TouchDebounce
  /\ touch_active' = z
  /\ touch_candidate' = "NONE" /\ touch_candidate_samples' = 0
  /\ touch_repeat_polls' = 0
  /\ IF z \in ButtonZones
     THEN /\ exword_set_pointer_button(TouchButton(z), "TOUCH", TRUE)
          /\ AfterTouch(ButtonEvent(TouchButton(z), "TOUCH", TRUE))
     ELSE UNCHANGED pointerVars /\ AfterTouch(TRUE)

exword_touch_poll ==
  \/ TouchNoSample
  \/ TouchLatched
  \/ \E z \in Zones, near \in BOOLEAN :
       TouchCandidate(z, near) \/ TouchActivate(z, near)

-----------------------------------------------------------------------------
(* The thread's turn: apply a new mode, then paint one LCD row, then yield.*)

Mode == IF subpad_mode < 0 THEN 0 ELSE subpad_mode % 8
WantLcd == Mode % 2 = 1
WantTouch == (Mode \div 2) % 2 = 1
WantPenProbe == Mode \div 4 = 1

\* The pen GPIO is set up at most once, whether or not that succeeds.
GpioProbed == touch_gpio_prepared \/ WantPenProbe

TouchOff ==
  /\ ~WantTouch /\ touch_enabled
  /\ touch_enabled' = FALSE
  /\ exword_touch_release_active
  /\ touch_poll_scans' = 0
  /\ touch_candidate' = "NONE" /\ touch_candidate_samples' = 0
  /\ touch_release_samples' = 0
  /\ touch_gpio_prepared' = GpioProbed
  /\ UNCHANGED <<touch_available, touch_prepared>>

TouchStaysOff ==
  /\ ~WantTouch /\ ~touch_enabled
  /\ touch_gpio_prepared' = GpioProbed
  /\ UNCHANGED <<touch_available, touch_enabled, touch_prepared, touchPad,
                 touch_poll_scans, pointerVars>>

\* Refused when unavailable; a clock gate or ADC timeout fails it and marks
\* the path unavailable.
exword_touch_prepare_hardware == AdcWaits /\ touch_enabled' = touch_available'

TouchPrepare ==
  /\ WantTouch /\ ~touch_prepared
  /\ touch_prepared' = TRUE
  /\ exword_touch_prepare_hardware
  /\ touch_gpio_prepared' = (GpioProbed \/ touch_enabled')
  /\ UNCHANGED <<touchPad, touch_poll_scans, pointerVars>>

TouchOn ==
  /\ WantTouch /\ touch_prepared
  /\ touch_enabled' = touch_available
  /\ touch_gpio_prepared' = GpioProbed
  /\ UNCHANGED <<touch_available, touch_prepared, touchPad, touch_poll_scans,
                 pointerVars>>

\* Seeded fault: switching the LCD on again rewinds the row only.
LcdModeKeepsFinished ==
  /\ sublcd_enabled' = (WantLcd /\ sublcd_supported)
  /\ sublcd_next_row' = IF WantLcd /\ ~sublcd_enabled THEN 0
                        ELSE sublcd_next_row
  /\ UNCHANGED sublcd_finished

LcdMode ==
  /\ sublcd_enabled' = (WantLcd /\ sublcd_supported)
  /\ IF WantLcd /\ ~sublcd_enabled
     THEN sublcd_next_row' = 0 /\ sublcd_finished' = FALSE
     ELSE UNCHANGED <<sublcd_next_row, sublcd_finished>>

exword_service_subpad_mode ==
  /\ pc = "turn" /\ pc' = "draw"
  /\ \/ /\ Mode = applied_mode
        /\ UNCHANGED <<touchVars, pointerVars, lcdVars, applied_mode>>
     \/ /\ Mode # applied_mode
        /\ TouchOff \/ TouchStaysOff \/ TouchPrepare \/ TouchOn
        /\ LcdMode
        /\ applied_mode' = Mode
  /\ UNCHANGED <<i, sample, activity, mouse_direction_edge, burst, keyVars,
                 sublcd_supported, subpad_mode, history>>

exword_sublcd_draw_next_row ==
  /\ pc = "draw" /\ pc' = "scan"
  /\ IF sublcd_finished \/ ~sublcd_enabled \/ ~sublcd_supported
     THEN UNCHANGED lcdVars
     ELSE /\ sublcd_next_row' = sublcd_next_row + 1
          /\ sublcd_finished' = (sublcd_next_row + 1 = SublcdHeight)
          /\ UNCHANGED sublcd_enabled
  /\ UNCHANGED <<i, sample, activity, mouse_direction_edge, burst, keyVars,
                 pointerVars, touchVars, sublcd_supported, modeVars, history>>

\* A process writes /sys/module/exword_keypad/parameters/subpad_mode.
WriteSubpadMode ==
  /\ subpad_mode' \in Requests
  /\ UNCHANGED <<threadVars, keyVars, pointerVars, touchVars,
                 sublcd_supported, lcdVars, applied_mode, history>>

-----------------------------------------------------------------------------
ScanThread ==
  \/ ReadState \/ ScanKeys \/ Motion \/ TouchIdle \/ exword_touch_poll
  \/ exword_service_subpad_mode \/ exword_sublcd_draw_next_row

Next == ScanThread \/ WriteSubpadMode

Spec == Init /\ [][Next]_vars

(* The thread never sleeps: it stays runnable and only yields, so the      *)
(* scheduler keeps giving it turns.  Nothing obliges userspace to write.   *)
FairSpec == Spec /\ WF_vars(ScanThread)
-----------------------------------------------------------------------------
(* Properties.                                                             *)

ThreadTypes ==
  /\ pc \in {"scan", "keys", "motion", "touch", "turn", "draw"}
  /\ i \in Nat \ {0}
  /\ pc = "keys" => i <= Len(KeyTable)
  /\ sample \subseteq Keys
  /\ burst \in 0 .. PollBurst - 1

KeyTypes ==
  /\ down \subseteq Keys
  /\ kbd \subseteq Keys
  /\ mouse_repeat_scans \in 0 .. MouseRepeatScans - 1
  /\ taps \subseteq {"press", "boot", "unmatched"}
  /\ clicks \subseteq Keys

PointerTypes == /\ button_sources \in [Buttons -> SUBSET Sources]
                /\ btn \subseteq Buttons

TouchTypes ==
  /\ touch_poll_scans \in 0 .. TouchPollScans - 1
  /\ touch_candidate \in Zones \cup {"NONE"}
  /\ touch_active \in Zones \cup {"NONE"}
  /\ touch_candidate_samples \in 0 .. TouchDebounce - 1
  /\ touch_release_samples \in 0 .. TouchReleaseDebounce - 1
  /\ touch_repeat_polls \in 0 .. TouchRepeatPolls - 1

LcdTypes ==
  /\ sublcd_next_row \in 0 .. SublcdHeight
  /\ subpad_mode \in Requests \cup {0}
  /\ applied_mode \in -1 .. 7

FlagTypes ==
  /\ activity \in BOOLEAN /\ mouse_direction_edge \in BOOLEAN
  /\ enter_press_seen \in BOOLEAN /\ mouse_mode \in BOOLEAN
  /\ boot_enter \in BOOLEAN /\ touch_available \in BOOLEAN
  /\ touch_enabled \in BOOLEAN /\ touch_prepared \in BOOLEAN
  /\ touch_gpio_prepared \in BOOLEAN /\ sublcd_supported \in BOOLEAN
  /\ sublcd_enabled \in BOOLEAN /\ sublcd_finished \in BOOLEAN

\* Type invariant: the scan thread's locals, the key and pointer state, the
\* touch counters and the LCD row stay in range - every counter below its
\* limit - whatever the interleaving with writes to subpad_mode.
TypeOK == /\ ThreadTypes /\ KeyTypes /\ PointerTypes /\ TouchTypes
          /\ LcdTypes /\ FlagTypes

\* No key sticks on the keyboard device: a key code the input core holds is
\* still physically held, is not Enter (always a complete tap), and is not
\* one of the keys the pointer took over when mouse mode was switched on
\* (exword_release_mouse_keys_from_keyboard, exword_report_enter_tap).
NoStuckKey ==
  \A k \in kbd : /\ k \in down
                  /\ k \notin {"ENTER", "TOGGLE"}
                  /\ ~(mouse_mode /\ exword_mouse_action_scan(k))

\* The pointer buttons reported down are exactly those held: by a key that
\* was pressed in mouse mode and is held since, or by the latched touch zone.
\* Neither source releases the other's press or leaves its own behind, and no
\* press is lost, however mouse mode is switched (exword_set_pointer_button
\* and its callers).  A zone that stays latched after touch was disabled
\* holds its button: that is what DisabledTouchHoldsNothing is about.
NoStuckButton ==
  btn = ({exword_mouse_button(k) : k \in clicks} \cup {TouchButton(touch_active)})
          \ {"none"}

\* One physical press of Enter, however mouse mode is toggled while it is
\* held, types at most one Return (exword_enter_press_seen).
OneTapPerPress == \A x, y \in taps : x = y

\* The row handed to the LCD controller is inside the panel, and painting
\* ends exactly at the last row: the == test in exword_sublcd_draw_next_row
\* is never stepped over, whenever the LCD is switched off and on again.
LcdRowInPanel == sublcd_finished <=> (sublcd_next_row = SublcdHeight)

\* A zone is latched only after the same zone was the candidate, keeps the
\* latch until it is released, and a poll cannot jump from zone to zone.
TouchLatch ==
  [][touch_active' # touch_active =>
       \/ touch_active' = "NONE"
       \/ touch_active = "NONE" /\ touch_candidate = touch_active']_vars

\* A mode that stays requested is applied: the burst counter bounds the scans
\* between two turns even when no key moves (exword_scan_thread).
ModeApplied ==
  \A m \in Requests :
    <>[](subpad_mode = m)
      => <>[](applied_mode = IF m < 0 THEN 0 ELSE m % 8)

\* An enabled sub-LCD is painted to its last row, or switched off.
PadPainted ==
  sublcd_enabled /\ ~sublcd_finished ~> sublcd_finished \/ ~sublcd_enabled

\* exword_scan_thread serves the sub-pad also while no key moves: a mode that
\* stays requested is applied, and a pad that is on is painted to the end.
PadServed == ModeApplied /\ PadPainted

\* The message of exword_touch_disable, "touch disabled, keypad unaffected":
\* a disabled touch path holds no pointer button, so that the keypad's own
\* clicks still produce events.
DisabledTouchHoldsNothing ==
  ~touch_enabled => \A b \in Buttons : "TOUCH" \notin button_sources[b]

-----------------------------------------------------------------------------
(* The inductive invariant behind NoStuckButton and OneTapPerPress.        *)

\* What each source of a pointer button stands for; the input core's view
\* follows the sources.
ButtonInv ==
  /\ btn = {b \in Buttons : button_sources[b] # {}}
  /\ clicks \subseteq down /\ (clicks # {} => mouse_mode)
  /\ \A k \in clicks : exword_mouse_button(k) # "none"
  /\ \A b \in Buttons :
       /\ "KEYPAD" \in button_sources[b] <=>
            \E k \in clicks : exword_mouse_button(k) = b
       /\ "TOUCH" \in button_sources[b] <=> TouchButton(touch_active) = b

\* While Enter is held, the only tap so far is that of its own press, and
\* that press has been seen.
TapInv ==
  /\ OneTapPerPress
  /\ "ENTER" \in down => taps \subseteq {"press"}
  /\ "ENTER" \in down /\ "press" \in taps => enter_press_seen

IInv == TypeOK /\ NoStuckKey /\ ButtonInv /\ TapInv /\ LcdRowInPanel
=============================================================================
