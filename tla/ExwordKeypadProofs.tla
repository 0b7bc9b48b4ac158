------------------------- MODULE ExwordKeypadProofs -------------------------
(* Proofs about ExwordKeypad, for every key table, mode set and bound.     *)
EXTENDS ExwordKeypad, TLAPS

(* Every key of the table is a key: the index the loop uses is in range.   *)
LEMMA KeyInTable ==
  ASSUME ThreadTypes, pc = "keys"
  PROVE  Key \in Keys
BY KeyTableAssumption DEF ThreadTypes, Key, Keys

LEMMA TypeInit == Init => TypeOK
<1> SUFFICES ASSUME Init PROVE TypeOK
  OBVIOUS
<1> USE BoundsAssumption, KeyTableAssumption DEF Init
<1>1. ThreadTypes
  BY DEF ThreadTypes
<1>2. KeyTypes
  BY DEF KeyTypes, exword_prime_scanner
<1>3. PointerTypes
  BY DEF PointerTypes, Buttons, Sources
<1>4. TouchTypes
  BY DEF TouchTypes
<1>5. LcdTypes
  BY DEF LcdTypes
<1>6. FlagTypes
  <2>1. touch_available \in BOOLEAN /\ sublcd_supported \in BOOLEAN
    BY Zenon DEF exword_touch_load_firmware_setup
  <2>2. boot_enter \in BOOLEAN
    OBVIOUS
  <2> QED BY <2>1, <2>2, Zenon DEF FlagTypes
<1> QED BY <1>1, <1>2, <1>3, <1>4, <1>5, <1>6 DEF TypeOK

LEMMA ThreadTypesNext == TypeOK /\ [Next]_vars => ThreadTypes'
<1> SUFFICES ASSUME TypeOK, [Next]_vars PROVE ThreadTypes'
  OBVIOUS
<1> USE BoundsAssumption, KeyTableAssumption DEF TypeOK, ThreadTypes
<1>1. CASE ReadState
  BY <1>1 DEF ReadState
<1>2. CASE ScanKeys
  BY <1>2 DEF ScanKeys, SameKey, ToggleKey, MouseKey, EnterKey, ReportKey,
              KeyEdge, NextKey
<1>3. CASE Motion
  BY <1>3 DEF Motion
<1>4. CASE TouchIdle \/ exword_touch_poll
  <2>1. ASSUME NEW act, EndScan(act) PROVE ThreadTypes'
    BY <2>1 DEF EndScan
  <2>2. \E act : EndScan(act)
    BY <1>4 DEF TouchIdle, exword_touch_poll, TouchNoSample, TouchLatched,
       TouchCandidate, TouchActivate, AfterTouch
  <2> QED BY <2>1, <2>2
<1>5. CASE exword_service_subpad_mode \/ exword_sublcd_draw_next_row
  BY <1>5 DEF exword_service_subpad_mode, exword_sublcd_draw_next_row
<1>6. CASE WriteSubpadMode \/ UNCHANGED vars
  BY <1>6 DEF WriteSubpadMode, vars, threadVars
<1> QED BY <1>1, <1>2, <1>3, <1>4, <1>5, <1>6 DEF Next, ScanThread

LEMMA KeyTypesNext == TypeOK /\ [Next]_vars => KeyTypes'
<1> SUFFICES ASSUME TypeOK, [Next]_vars PROVE KeyTypes'
  OBVIOUS
<1> USE BoundsAssumption DEF TypeOK, KeyTypes
<1>1. CASE SameKey
  BY <1>1 DEF SameKey, keyVars, history
<1>2. CASE ToggleKey
  BY <1>2, KeyInTable DEF ToggleKey, KeyEdge, Clicks, exword_toggle_mouse_mode,
     exword_release_mouse_keys_from_keyboard
<1>3. CASE MouseKey
  BY <1>3, KeyInTable DEF MouseKey, KeyEdge, Clicks, NoTap
<1>4. CASE EnterKey
  BY <1>4, KeyInTable DEF EnterKey, KeyEdge, Clicks, exword_report_enter_tap,
     TapCause
<1>5. CASE ReportKey
  BY <1>5, KeyInTable DEF ReportKey, KeyEdge, Clicks
<1>6. CASE Motion
  BY <1>6 DEF Motion, MotionDue, history
<1>7. CASE \/ ReadState \/ WriteSubpadMode \/ UNCHANGED vars
           \/ exword_service_subpad_mode \/ exword_sublcd_draw_next_row
  BY <1>7 DEF ReadState, WriteSubpadMode, exword_service_subpad_mode,
     exword_sublcd_draw_next_row, vars, keyVars, history
<1>8. CASE TouchIdle \/ exword_touch_poll
  BY <1>8 DEF TouchIdle, exword_touch_poll, TouchNoSample, TouchLatched,
     TouchCandidate, TouchActivate, AfterTouch, keyVars, history
<1> QED BY <1>1, <1>2, <1>3, <1>4, <1>5, <1>6, <1>7, <1>8
        DEF Next, ScanThread, ScanKeys

(* The shared primitive keeps the pointer state well typed.                *)
LEMMA SetPointerButtonTypes ==
  ASSUME PointerTypes, NEW b \in Buttons, NEW s \in Sources, NEW d,
         exword_set_pointer_button(b, s, d)
  PROVE  PointerTypes'
BY DEF PointerTypes, exword_set_pointer_button

LEMMA ReleaseActiveTypes ==
  ASSUME PointerTypes, TouchTypes, exword_touch_release_active
  PROVE  PointerTypes'
<1>1. CASE touch_active \in ButtonZones
  <2>1. TouchButton(touch_active) \in Buttons /\ "TOUCH" \in Sources
    BY <1>1 DEF TouchButton, ButtonZones, Buttons, Sources
  <2> QED BY <1>1, <2>1, SetPointerButtonTypes DEF exword_touch_release_active
<1>2. CASE touch_active \notin ButtonZones
  BY <1>2 DEF exword_touch_release_active, PointerTypes, pointerVars
<1> QED BY <1>1, <1>2

LEMMA PointerTypesNext == TypeOK /\ [Next]_vars => PointerTypes'
<1> SUFFICES ASSUME TypeOK, [Next]_vars PROVE PointerTypes'
  OBVIOUS
<1>1. CASE ToggleKey
  BY <1>1 DEF ToggleKey, exword_toggle_mouse_mode, TypeOK, PointerTypes,
     exword_release_keypad_mouse_buttons, pointerVars
<1>2. CASE MouseKey
  <2>1. CASE exword_mouse_button(Key) # "none"
    <3>1. exword_mouse_button(Key) \in Buttons /\ "KEYPAD" \in Sources
      BY <2>1 DEF exword_mouse_button, Buttons, Sources
    <3> QED BY <1>2, <2>1, <3>1, SetPointerButtonTypes DEF MouseKey, TypeOK
  <2>2. CASE exword_mouse_button(Key) = "none"
    BY <1>2, <2>2 DEF MouseKey, TypeOK, PointerTypes, pointerVars
  <2> QED BY <2>1, <2>2
<1>3. CASE TouchNoSample
  BY <1>3, ReleaseActiveTypes
     DEF TouchNoSample, TypeOK, PointerTypes, pointerVars
<1>4. ASSUME NEW z \in Zones, NEW near \in BOOLEAN, TouchActivate(z, near)
      PROVE  PointerTypes'
  <2>1. CASE z \in ButtonZones
    <3>1. TouchButton(z) \in Buttons /\ "TOUCH" \in Sources
      BY <2>1 DEF TouchButton, ButtonZones, Buttons, Sources
    <3> QED BY <1>4, <2>1, <3>1, SetPointerButtonTypes
            DEF TouchActivate, TypeOK
  <2>2. CASE z \notin ButtonZones
    BY <1>4, <2>2 DEF TouchActivate, TypeOK, PointerTypes, pointerVars
  <2> QED BY <2>1, <2>2
<1>5. CASE exword_service_subpad_mode
  BY <1>5, ReleaseActiveTypes DEF exword_service_subpad_mode, TouchOff,
     TouchStaysOff, TouchPrepare, TouchOn, TypeOK, PointerTypes, pointerVars
<1>6. CASE \/ ReadState \/ SameKey \/ EnterKey \/ ReportKey \/ Motion
           \/ TouchIdle \/ TouchLatched \/ exword_sublcd_draw_next_row
           \/ WriteSubpadMode \/ UNCHANGED vars
  BY <1>6 DEF ReadState, SameKey, EnterKey, ReportKey, Motion, TouchIdle,
     TouchLatched, exword_sublcd_draw_next_row, WriteSubpadMode, vars,
     TypeOK, PointerTypes, pointerVars
<1>7. ASSUME NEW z \in Zones, NEW near \in BOOLEAN, TouchCandidate(z, near)
      PROVE  PointerTypes'
  BY <1>7 DEF TouchCandidate, TypeOK, PointerTypes, pointerVars
<1> QED BY <1>1, <1>2, <1>3, <1>4, <1>5, <1>6, <1>7
        DEF Next, ScanThread, ScanKeys, exword_touch_poll

LEMMA TouchTypesNext == TypeOK /\ [Next]_vars => TouchTypes'
<1> SUFFICES ASSUME TypeOK, [Next]_vars PROVE TouchTypes'
  OBVIOUS
<1> USE BoundsAssumption DEF TypeOK, TouchTypes
<1>1. CASE TouchIdle
  BY <1>1 DEF TouchIdle, touchPad
<1>2. CASE TouchNoSample
  <2>1. /\ touch_poll_scans' = 0
        /\ touch_candidate' = "NONE" /\ touch_candidate_samples' = 0
    BY <1>2, Zenon DEF TouchNoSample, PollDue
  <2>2. /\ touch_active' \in {touch_active, "NONE"}
        /\ touch_repeat_polls' \in {touch_repeat_polls, 0}
    BY <1>2, Zenon DEF TouchNoSample, exword_touch_release_active
  <2>3. touch_release_samples' \in 0 .. TouchReleaseDebounce - 1
    <3>1. \/ touch_release_samples' \in {touch_release_samples, 0}
          \/ /\ touch_release_samples + 1 < TouchReleaseDebounce
             /\ touch_release_samples' = touch_release_samples + 1
      BY <1>2, Zenon DEF TouchNoSample
    <3> QED BY <3>1
  <2> QED BY <2>1, <2>2, <2>3
<1>3. CASE TouchLatched
  <2>1. /\ touch_poll_scans' = 0 /\ touch_release_samples' = 0
        /\ UNCHANGED <<touch_candidate, touch_candidate_samples, touch_active>>
    BY <1>3, Zenon DEF TouchLatched, GotSample, PollDue
  <2>2. touch_repeat_polls' \in 0 .. TouchRepeatPolls - 1
    <3>1. \/ touch_repeat_polls' \in {touch_repeat_polls, 0}
          \/ /\ ~(touch_repeat_polls + 1 >= TouchRepeatPolls)
             /\ touch_repeat_polls' = touch_repeat_polls + 1
      BY <1>3, Zenon DEF TouchLatched
    <3> QED BY <3>1
  <2> QED BY <2>1, <2>2
<1>4. ASSUME NEW z \in Zones, NEW near \in BOOLEAN, TouchCandidate(z, near)
      PROVE  TouchTypes'
  BY <1>4 DEF TouchCandidate, GotSample, PollDue, CandidateSamples
<1>5. ASSUME NEW z \in Zones, NEW near \in BOOLEAN, TouchActivate(z, near)
      PROVE  TouchTypes'
  BY <1>5 DEF TouchActivate, GotSample, PollDue
<1>6. CASE exword_service_subpad_mode
  <2>1. CASE TouchOff
    BY <2>1 DEF TouchOff, exword_touch_release_active
  <2>2. CASE UNCHANGED <<touchPad, touch_poll_scans>>
    BY <2>2 DEF touchPad
  <2>3. TouchOff \/ UNCHANGED <<touchPad, touch_poll_scans>>
    BY <1>6, Zenon DEF exword_service_subpad_mode, TouchStaysOff, TouchPrepare,
       TouchOn, touchVars
  <2> QED BY <2>1, <2>2, <2>3
<1>7. CASE ScanKeys
  BY <1>7 DEF ScanKeys, SameKey, ToggleKey, MouseKey, EnterKey, ReportKey,
     KeyEdge, NextKey, touchVars, touchPad
<1>8. CASE \/ ReadState \/ Motion \/ exword_sublcd_draw_next_row
           \/ WriteSubpadMode \/ UNCHANGED vars
  BY <1>8 DEF ReadState, Motion, exword_sublcd_draw_next_row,
     WriteSubpadMode, vars, touchVars, touchPad
<1> QED BY <1>1, <1>2, <1>3, <1>4, <1>5, <1>6, <1>7, <1>8
        DEF Next, ScanThread, exword_touch_poll

(* A service turn leaves the LCD alone or applies LcdMode.                 *)
LEMMA LcdTypesNext ==
  TypeOK /\ LcdRowInPanel /\ [Next]_vars => (LcdTypes /\ LcdRowInPanel)'
<1> SUFFICES ASSUME TypeOK, LcdRowInPanel, [Next]_vars
             PROVE  (LcdTypes /\ LcdRowInPanel)'
  OBVIOUS
<1> USE BoundsAssumption DEF TypeOK, LcdTypes, LcdRowInPanel
<1>1. CASE exword_sublcd_draw_next_row
  <2>1. CASE sublcd_finished \/ ~sublcd_enabled \/ ~sublcd_supported
    BY <1>1, <2>1 DEF exword_sublcd_draw_next_row, lcdVars, modeVars
  <2>2. CASE ~(sublcd_finished \/ ~sublcd_enabled \/ ~sublcd_supported)
    <3>1. sublcd_finished' <=> (sublcd_next_row + 1 = SublcdHeight)
      BY <1>1, <2>2, Zenon DEF exword_sublcd_draw_next_row
    <3> QED BY <1>1, <2>2, <3>1 DEF exword_sublcd_draw_next_row, modeVars
  <2> QED BY <2>1, <2>2
<1>2. CASE exword_service_subpad_mode
  <2>1. applied_mode' \in -1 .. 7 /\ subpad_mode' = subpad_mode
    BY <1>2, RequestsAssumption DEF exword_service_subpad_mode, Mode
  <2> QED BY <1>2, <2>1 DEF exword_service_subpad_mode, LcdMode, lcdVars
<1>3. CASE WriteSubpadMode
  BY <1>3 DEF WriteSubpadMode, lcdVars
<1>4. CASE ScanKeys
  BY <1>4 DEF ScanKeys, SameKey, ToggleKey, MouseKey, EnterKey, ReportKey,
     KeyEdge, NextKey, lcdVars, modeVars
<1>5. CASE ReadState \/ Motion \/ UNCHANGED vars
  BY <1>5 DEF ReadState, Motion, vars, lcdVars, modeVars
<1>6. CASE TouchIdle \/ exword_touch_poll
  BY <1>6 DEF TouchIdle, exword_touch_poll, TouchNoSample, TouchLatched,
     TouchCandidate, TouchActivate, AfterTouch, lcdVars, modeVars
<1> QED BY <1>1, <1>2, <1>3, <1>4, <1>5, <1>6 DEF Next, ScanThread

LEMMA FlagTypesNext == TypeOK /\ [Next]_vars => FlagTypes'
<1> SUFFICES ASSUME TypeOK, [Next]_vars PROVE FlagTypes'
  OBVIOUS
<1> USE DEF TypeOK, FlagTypes
<1>1. CASE ReadState
  BY <1>1, Zenon DEF ReadState, keyVars, touchVars, touchGates, lcdVars,
     history
<1>2. CASE ScanKeys
  <2>1. UNCHANGED <<touchGates, lcdVars, sublcd_supported>>
    BY <1>2, Zenon DEF ScanKeys, SameKey, ToggleKey, MouseKey, EnterKey,
       ReportKey,
       KeyEdge, NextKey, touchVars
  <2>2. activity' \in BOOLEAN /\ boot_enter' \in BOOLEAN
    BY <1>2, Zenon DEF ScanKeys, SameKey, ToggleKey, MouseKey, EnterKey,
       ReportKey,
       KeyEdge, history
  <2>3. /\ mouse_direction_edge' \in BOOLEAN
        /\ enter_press_seen' \in BOOLEAN
        /\ mouse_mode' \in BOOLEAN
    <3>1. CASE SameKey \/ ReportKey
      BY <3>1 DEF SameKey, ReportKey, keyVars
    <3>2. CASE ToggleKey
      BY <3>2 DEF ToggleKey, exword_toggle_mouse_mode
    <3>3. CASE MouseKey
      BY <3>3, Zenon DEF MouseKey
    <3>4. CASE EnterKey
      BY <3>4 DEF EnterKey, EnterSeen, IsDown
    <3> QED BY <1>2, <3>1, <3>2, <3>3, <3>4 DEF ScanKeys
  <2> QED BY <2>1, <2>2, <2>3, Zenon DEF touchGates, lcdVars
<1>3. CASE Motion
  BY <1>3, Zenon DEF Motion, touchVars, touchGates, lcdVars, history
<1>4. CASE TouchIdle \/ exword_touch_poll
  <2>1. \E act : AfterTouch(act)
    BY <1>4, Zenon DEF TouchIdle, exword_touch_poll, TouchNoSample,
       TouchLatched,
       TouchCandidate, TouchActivate
  <2>2. touch_available' \in BOOLEAN
    BY <1>4, Zenon DEF TouchIdle, exword_touch_poll, TouchNoSample,
       TouchLatched,
       TouchCandidate, TouchActivate, NoSample, GotSample, AdcWaits,
       exword_touch_disable
  <2> QED BY <2>1, <2>2, Zenon DEF AfterTouch, EndScan, keyVars, lcdVars, history
<1>5. CASE exword_service_subpad_mode
  <2>1. /\ sublcd_enabled' \in BOOLEAN
        /\ sublcd_finished' \in BOOLEAN
    BY <1>5, Zenon DEF exword_service_subpad_mode, LcdMode, lcdVars
  <2>2. /\ touch_available' \in BOOLEAN /\ touch_enabled' \in BOOLEAN
        /\ touch_prepared' \in BOOLEAN /\ touch_gpio_prepared' \in BOOLEAN
    BY <1>5, Zenon DEF exword_service_subpad_mode, TouchOff, TouchStaysOff,
       TouchPrepare, TouchOn, touchVars, touchGates, GpioProbed, AdcWaits,
       WantPenProbe, exword_touch_prepare_hardware, exword_touch_disable
  <2> QED BY <1>5, <2>1, <2>2, Zenon
          DEF exword_service_subpad_mode, keyVars, history
<1>6. CASE exword_sublcd_draw_next_row
  BY <1>6, ZenonT(60) DEF exword_sublcd_draw_next_row, keyVars, touchVars,
     touchGates,
     lcdVars, history
<1>7. CASE WriteSubpadMode \/ UNCHANGED vars
  BY <1>7 DEF WriteSubpadMode, vars, threadVars, keyVars, touchVars,
     touchGates, lcdVars, history
<1> QED BY <1>1, <1>2, <1>3, <1>4, <1>5, <1>6, <1>7 DEF Next, ScanThread

-----------------------------------------------------------------------------
(* No key sticks: each action that makes a key reported down sees it held, *)
(* and each that lets go of a key reports it released.                     *)
LEMMA NoStuckKeyNext == TypeOK /\ NoStuckKey /\ [Next]_vars => NoStuckKey'
<1> SUFFICES ASSUME TypeOK, NoStuckKey, [Next]_vars PROVE NoStuckKey'
  OBVIOUS
<1> USE DEF NoStuckKey, exword_mouse_action_scan, Arrows
<1>1. CASE SameKey
  BY <1>1 DEF SameKey, keyVars
<1>2. CASE ToggleKey
  BY <1>2 DEF ToggleKey, KeyEdge, exword_toggle_mouse_mode,
     exword_release_mouse_keys_from_keyboard
<1>3. CASE MouseKey
  BY <1>3 DEF MouseKey, KeyEdge
<1>4. CASE EnterKey
  BY <1>4 DEF EnterKey, KeyEdge, exword_report_enter_tap
<1>5. CASE ReportKey
  BY <1>5 DEF ReportKey, KeyEdge
<1>6. CASE \/ ReadState \/ WriteSubpadMode \/ UNCHANGED vars \/ Motion
           \/ exword_service_subpad_mode \/ exword_sublcd_draw_next_row
  BY <1>6 DEF ReadState, WriteSubpadMode, exword_service_subpad_mode, Motion,
     exword_sublcd_draw_next_row, vars, keyVars
<1>7. CASE TouchIdle \/ exword_touch_poll
  <2>1. UNCHANGED keyVars
    BY <1>7, Zenon DEF TouchIdle, exword_touch_poll, TouchNoSample,
       TouchLatched, TouchCandidate, TouchActivate, AfterTouch
  <2> QED BY <2>1 DEF keyVars
<1> QED BY <1>1, <1>2, <1>3, <1>4, <1>5, <1>6, <1>7
        DEF Next, ScanThread, ScanKeys

(* The history of Return taps changes only on Enter edges.                 *)
LEMMA TapInvNext == TypeOK /\ TapInv /\ [Next]_vars => TapInv'
<1> SUFFICES ASSUME TypeOK, TapInv, [Next]_vars PROVE TapInv'
  OBVIOUS
<1> USE DEF TapInv, OneTapPerPress
<1>1. CASE SameKey
  BY <1>1 DEF SameKey, keyVars, history
<1>2. CASE ToggleKey
  BY <1>2 DEF ToggleKey, KeyEdge
<1>3. CASE MouseKey
  BY <1>3 DEF MouseKey, KeyEdge, NoTap
<1>4. CASE EnterKey
  <2>1. CASE IsDown
    <3>1. enter_press_seen'
      BY <1>4, <2>1, Zenon DEF EnterKey, EnterSeen
    <3> QED BY <1>4, <2>1, <3>1 DEF EnterKey
  <2>2. CASE ~IsDown
    <3>1. "ENTER" \in down /\ "ENTER" \notin down'
      BY <1>4, <2>2 DEF EnterKey, KeyEdge, Edge
    <3>2. taps' = taps \/ (taps = {} /\ taps' = {TapCause})
      BY <1>4, <2>2, <3>1 DEF EnterKey
    <3> QED BY <3>1, <3>2
  <2> QED BY <2>1, <2>2
<1>5. CASE ReportKey
  BY <1>5 DEF ReportKey, KeyEdge
<1>6. CASE \/ ReadState \/ WriteSubpadMode \/ UNCHANGED vars \/ Motion
           \/ exword_service_subpad_mode \/ exword_sublcd_draw_next_row
  BY <1>6 DEF ReadState, WriteSubpadMode, exword_service_subpad_mode, Motion,
     exword_sublcd_draw_next_row, vars, keyVars, history
<1>7. CASE TouchIdle \/ exword_touch_poll
  <2>1. UNCHANGED <<keyVars, history>>
    BY <1>7, Zenon DEF TouchIdle, exword_touch_poll, TouchNoSample,
       TouchLatched, TouchCandidate, TouchActivate, AfterTouch
  <2> QED BY <2>1 DEF keyVars, history
<1> QED BY <1>1, <1>2, <1>3, <1>4, <1>5, <1>6, <1>7
        DEF Next, ScanThread, ScanKeys

-----------------------------------------------------------------------------
(* The sources of the pointer buttons.                                     *)

(* Adding or removing one source of one button keeps the input core's view *)
(* of the buttons equal to "some source holds it".                         *)
LEMMA SetPointerButton ==
  ASSUME PointerTypes, NEW b \in Buttons, NEW s \in Sources,
         NEW d \in BOOLEAN, exword_set_pointer_button(b, s, d),
         btn = {x \in Buttons : button_sources[x] # {}}
  PROVE  /\ btn' = {x \in Buttons : button_sources'[x] # {}}
         /\ \A x \in Buttons :
              /\ \A t \in Sources : x # b \/ t # s =>
                   (t \in button_sources'[x] <=> t \in button_sources[x])
              /\ x = b => (s \in button_sources'[x] <=> d)
<1> DEFINE now == IF d THEN button_sources[b] \cup {s}
                  ELSE button_sources[b] \ {s}
<1>1. button_sources' = [button_sources EXCEPT ![b] = now]
  BY DEF exword_set_pointer_button
<1>2. btn' = IF (button_sources[b] = {}) = (now = {}) THEN btn
             ELSE IF now = {} THEN btn \ {b} ELSE btn \cup {b}
  BY DEF exword_set_pointer_button
<1>3. /\ button_sources'[b] = now
      /\ \A x \in Buttons : x # b => button_sources'[x] = button_sources[x]
  BY <1>1 DEF PointerTypes
<1>4. btn' = {x \in Buttons : button_sources'[x] # {}}
  <2>1. CASE button_sources[b] = {} /\ now = {}
    BY <1>2, <1>3, <2>1
  <2>2. CASE button_sources[b] # {} /\ now # {}
    BY <1>2, <1>3, <2>2
  <2>3. CASE button_sources[b] = {} /\ now # {}
    BY <1>2, <1>3, <2>3
  <2>4. CASE button_sources[b] # {} /\ now = {}
    BY <1>2, <1>3, <2>4
  <2> QED BY <2>1, <2>2, <2>3, <2>4
<1> QED BY <1>3, <1>4

(* Releasing the latched zone removes exactly the touch source.            *)
LEMMA ReleaseActive ==
  ASSUME PointerTypes, ButtonInv, exword_touch_release_active,
         UNCHANGED <<mouse_mode, down, clicks>>
  PROVE  ButtonInv'
<1> USE DEF ButtonInv
<1>1. touch_active' = "NONE"
  BY DEF exword_touch_release_active
<1>2. CASE touch_active \in ButtonZones
  <2>1. TouchButton(touch_active) \in Buttons /\ "TOUCH" \in Sources
    BY <1>2 DEF TouchButton, ButtonZones, Buttons, Sources
  <2>2. exword_set_pointer_button(TouchButton(touch_active), "TOUCH", FALSE)
    BY <1>2 DEF exword_touch_release_active
  <2> QED BY <1>1, <2>1, <2>2, SetPointerButton DEF TouchButton, Buttons, Sources
<1>3. CASE touch_active \notin ButtonZones
  BY <1>1, <1>3 DEF exword_touch_release_active, pointerVars, TouchButton,
     ButtonZones, Buttons
<1> QED BY <1>2, <1>3

LEMMA ButtonInvNext == TypeOK /\ ButtonInv /\ [Next]_vars => ButtonInv'
<1> SUFFICES ASSUME TypeOK, ButtonInv, [Next]_vars PROVE ButtonInv'
  OBVIOUS
<1>1. CASE ToggleKey
  <2>1. UNCHANGED touch_active
    BY <1>1, Zenon DEF ToggleKey, KeyEdge, NextKey, touchVars, touchPad
  <2>2. Key \notin clicks
    BY <1>1 DEF ToggleKey, ButtonInv, exword_mouse_button
  <2>3. CASE ~IsDown
    <3>1. clicks' = clicks /\ down' = down \ {Key}
      BY <1>1, <2>2, <2>3 DEF ToggleKey, KeyEdge, Clicks
    <3> QED BY <1>1, <2>1, <2>2, <2>3, <3>1 DEF ToggleKey, ButtonInv, pointerVars
  <2>4. CASE IsDown
    <3>1. clicks' = {}
      BY <1>1, <2>4 DEF ToggleKey, KeyEdge, Clicks
    <3>2. CASE ~mouse_mode
      BY <1>1, <2>1, <2>4, <3>1, <3>2 DEF ToggleKey, ButtonInv, pointerVars,
         exword_toggle_mouse_mode
    <3>3. CASE mouse_mode
      <4>1. exword_release_keypad_mouse_buttons
        BY <1>1, <2>4, <3>3 DEF ToggleKey, exword_toggle_mouse_mode
      <4>2. \A b \in Buttons : button_sources'[b] = button_sources[b] \ {"KEYPAD"}
        BY <4>1 DEF exword_release_keypad_mouse_buttons
      <4>3. btn' = {b \in Buttons : button_sources'[b] # {}}
        BY <4>1, <4>2
           DEF exword_release_keypad_mouse_buttons, ButtonInv
      <4> QED BY <2>1, <3>1, <4>2, <4>3 DEF ButtonInv
    <3> QED BY <3>2, <3>3
  <2> QED BY <2>3, <2>4
<1>2. CASE MouseKey
  <2>1. UNCHANGED <<touch_active, mouse_mode>> /\ mouse_mode /\ Key # "TOGGLE"
    BY <1>2, Zenon DEF MouseKey, KeyEdge, NextKey, touchVars, touchPad,
       exword_mouse_action_scan, Arrows
  <2>2. /\ down' = IF IsDown THEN down \cup {Key} ELSE down \ {Key}
        /\ clicks' = IF ~IsDown THEN clicks \ {Key}
                     ELSE IF exword_mouse_button(Key) # "none"
                          THEN clicks \cup {Key} ELSE clicks
    BY <1>2, <2>1, Zenon DEF MouseKey, KeyEdge, Clicks
  <2>3. CASE exword_mouse_button(Key) # "none"
    <3>1. exword_mouse_button(Key) \in Buttons /\ "KEYPAD" \in Sources
          /\ IsDown \in BOOLEAN
      BY <2>3 DEF exword_mouse_button, Buttons, Sources, IsDown
    <3>2. exword_set_pointer_button(exword_mouse_button(Key), "KEYPAD", IsDown)
      BY <1>2, <2>3, Zenon DEF MouseKey
    <3>3. /\ btn' = {x \in Buttons : button_sources'[x] # {}}
          /\ \A x \in Buttons :
               /\ \A t \in Sources : x # exword_mouse_button(Key) \/ t # "KEYPAD" =>
                   (t \in button_sources'[x] <=> t \in button_sources[x])
               /\ x = exword_mouse_button(Key) =>
                    ("KEYPAD" \in button_sources'[x] <=> IsDown)
      BY <3>1, <3>2, SetPointerButton DEF TypeOK, ButtonInv
    \* no other key presses this button
    <3>4. \A k : exword_mouse_button(k) = exword_mouse_button(Key) => k = Key
      BY <2>3 DEF exword_mouse_button
    <3>5. \A b \in Buttons : "KEYPAD" \in button_sources'[b] <=>
            \E k \in clicks' : exword_mouse_button(k) = b
      <4> SUFFICES ASSUME NEW b \in Buttons
                   PROVE  "KEYPAD" \in button_sources'[b] <=>
                            \E k \in clicks' : exword_mouse_button(k) = b
        OBVIOUS
      <4>1. CASE b = exword_mouse_button(Key)
        BY <2>2, <2>3, <3>3, <3>4, <4>1
      <4>2. CASE b # exword_mouse_button(Key)
        <5>1. "KEYPAD" \in button_sources'[b] <=> "KEYPAD" \in button_sources[b]
          BY <3>3, <4>2 DEF Sources
        <5> QED BY <2>2, <4>2, <5>1 DEF ButtonInv
      <4> QED BY <4>1, <4>2
    <3>6. \A b \in Buttons :
            "TOUCH" \in button_sources'[b] <=> "TOUCH" \in button_sources[b]
      BY <3>3 DEF Sources
    <3>7. /\ clicks' \subseteq down'
          /\ \A k \in clicks' : exword_mouse_button(k) # "none"
      BY <2>2, <2>3 DEF ButtonInv
    <3> QED BY <2>1, <3>3, <3>5, <3>6, <3>7 DEF ButtonInv
  <2>4. CASE exword_mouse_button(Key) = "none"
    <3>1. clicks' = clicks /\ clicks' \subseteq down'
      BY <2>2, <2>4 DEF ButtonInv
    <3> QED BY <1>2, <2>1, <2>4, <3>1 DEF MouseKey, ButtonInv, pointerVars
  <2> QED BY <2>3, <2>4
<1>3. CASE EnterKey \/ ReportKey
  <2>1. UNCHANGED <<touch_active, mouse_mode, button_sources, btn>>
    BY <1>3, Zenon DEF EnterKey, ReportKey, KeyEdge, NextKey, touchVars,
       touchPad, pointerVars
  <2>2. ~mouse_mode \/ exword_mouse_button(Key) = "none"
    BY <1>3 DEF EnterKey, ReportKey, exword_mouse_button,
       exword_mouse_action_scan
  <2>3. Key \notin clicks /\ Key # "TOGGLE"
    BY <1>3, <2>2 DEF EnterKey, ReportKey, ButtonInv
  <2>4. /\ clicks' = clicks
        /\ down' = IF IsDown THEN down \cup {Key} ELSE down \ {Key}
    BY <1>3, <2>2, <2>3 DEF EnterKey, ReportKey, KeyEdge, Clicks
  <2>5. clicks' \subseteq down'
    BY <2>3, <2>4 DEF ButtonInv
  <2> QED BY <2>1, <2>4, <2>5 DEF ButtonInv
<1>4. CASE TouchNoSample
  <2>1. UNCHANGED <<mouse_mode, down, clicks>>
    BY <1>4, Zenon DEF TouchNoSample, AfterTouch, keyVars, history
  <2>2. \/ exword_touch_release_active
        \/ UNCHANGED <<touch_active, button_sources, btn>>
    BY <1>4, Zenon DEF TouchNoSample, pointerVars
  <2> QED BY <2>1, <2>2, ReleaseActive DEF TypeOK, ButtonInv
<1>5. ASSUME NEW z \in Zones, NEW near \in BOOLEAN, TouchActivate(z, near)
      PROVE  ButtonInv'
  <2>1. /\ UNCHANGED <<mouse_mode, down, clicks>>
        /\ touch_active = "NONE" /\ touch_active' = z
    BY <1>5, Zenon DEF TouchActivate, AfterTouch, keyVars, history
  <2>2. CASE z \in ButtonZones
    <3>1. TouchButton(z) \in Buttons /\ "TOUCH" \in Sources
      BY <2>2 DEF TouchButton, ButtonZones, Buttons, Sources
    <3>2. exword_set_pointer_button(TouchButton(z), "TOUCH", TRUE)
      BY <1>5, <2>2, Zenon DEF TouchActivate
    <3> QED BY <2>1, <3>1, <3>2, SetPointerButton
            DEF TypeOK, ButtonInv, TouchButton, Buttons, Sources
  <2>3. CASE z \notin ButtonZones
    <3>1. UNCHANGED <<button_sources, btn>>
      BY <1>5, <2>3, Zenon DEF TouchActivate, pointerVars
    <3> QED BY <2>1, <2>3, <3>1 DEF ButtonInv, TouchButton, ButtonZones, Buttons
  <2> QED BY <2>2, <2>3
<1>6. CASE exword_service_subpad_mode
  <2>1. UNCHANGED <<mouse_mode, down, clicks>>
    BY <1>6, Zenon DEF exword_service_subpad_mode, keyVars, history
  <2>2. \/ exword_touch_release_active
        \/ UNCHANGED <<touch_active, button_sources, btn>>
    BY <1>6, Zenon DEF exword_service_subpad_mode, TouchOff, TouchStaysOff,
       TouchPrepare, TouchOn, touchVars, touchPad, pointerVars
  <2> QED BY <2>1, <2>2, ReleaseActive DEF TypeOK, ButtonInv
<1>7. CASE \/ ReadState \/ SameKey \/ Motion \/ WriteSubpadMode
           \/ exword_sublcd_draw_next_row \/ UNCHANGED vars
  BY <1>7 DEF ReadState, SameKey, NextKey, Motion, WriteSubpadMode, vars,
     exword_sublcd_draw_next_row, keyVars, touchVars, touchPad, pointerVars,
     history, ButtonInv
<1>8. CASE TouchIdle \/ TouchLatched
           \/ \E z \in Zones, near \in BOOLEAN : TouchCandidate(z, near)
  <2>1. UNCHANGED <<touch_active, button_sources, btn, mouse_mode, down,
                   clicks>>
    BY <1>8, Zenon DEF TouchIdle, TouchLatched, TouchCandidate, AfterTouch,
       keyVars, touchPad, pointerVars, history
  <2> QED BY <2>1 DEF ButtonInv
<1> QED BY <1>1, <1>2, <1>3, <1>4, <1>5, <1>6, <1>7, <1>8
        DEF Next, ScanThread, ScanKeys, exword_touch_poll

-----------------------------------------------------------------------------
LEMMA IInvInit == Init => IInv
<1> SUFFICES ASSUME Init PROVE IInv
  OBVIOUS
<1>1. NoStuckKey /\ TapInv
  BY DEF Init, NoStuckKey, TapInv, OneTapPerPress
<1>2. ButtonInv
  BY DEF Init, ButtonInv, TouchButton, Buttons
<1>3. LcdRowInPanel
  BY BoundsAssumption DEF Init, LcdRowInPanel
<1> QED BY <1>1, <1>2, <1>3, TypeInit DEF IInv

LEMMA IInvNext == IInv /\ [Next]_vars => IInv'
BY ThreadTypesNext, KeyTypesNext, PointerTypesNext, TouchTypesNext,
   LcdTypesNext, FlagTypesNext, NoStuckKeyNext, TapInvNext, ButtonInvNext
   DEF IInv, TypeOK

(* The inductive invariant holds of every behaviour of the driver.         *)
THEOREM Inductive == Spec => []IInv
BY IInvInit, IInvNext, PTL DEF Spec

(* Every variable of the scan thread stays in its range, for every key     *)
(* table and every value of the debounce, burst and repeat constants.      *)
THEOREM TypeCorrect == Spec => []TypeOK
BY Inductive, PTL DEF IInv

(* exword-keypad.c never leaves a keyboard key stuck down.                 *)
THEOREM KeysNeverStick == Spec => []NoStuckKey
BY Inductive, PTL DEF IInv

(* exword-keypad.c never leaves a pointer button stuck and never loses a   *)
(* press: the input core holds exactly the buttons of the keys pressed in  *)
(* mouse mode and held since, and of the latched touch zone.               *)
THEOREM ButtonsNeverStick == Spec => []NoStuckButton
<1>1. IInv => NoStuckButton
  <2> SUFFICES ASSUME IInv PROVE NoStuckButton
    OBVIOUS
  <2>1. \A b \in Buttons : button_sources[b] # {} <=>
          "KEYPAD" \in button_sources[b] \/ "TOUCH" \in button_sources[b]
    BY DEF IInv, TypeOK, PointerTypes, Sources
  <2>2. /\ TouchButton(touch_active) \in Buttons \cup {"none"}
        /\ \A k : exword_mouse_button(k) \in Buttons \cup {"none"}
        /\ "none" \notin Buttons
    BY DEF TouchButton, exword_mouse_button, Buttons
  <2> QED BY <2>1, <2>2 DEF IInv, ButtonInv, NoStuckButton
<1> QED BY <1>1, Inductive, PTL

(* One physical Enter press types at most one Return.                      *)
THEOREM AtMostOneTap == Spec => []OneTapPerPress
<1>1. IInv => OneTapPerPress
  BY DEF IInv, TapInv
<1> QED BY <1>1, Inductive, PTL

(* The LCD painter never runs past the last row.                           *)
THEOREM LcdRowsInPanel == Spec => []LcdRowInPanel
BY Inductive, PTL DEF IInv

(* The touch latch: a zone is latched only after it was the candidate and  *)
(* only pen-up (or the mode) lets go of it.                                *)
THEOREM TouchLatches == Spec => TouchLatch
<1> DEFINE A == touch_active' # touch_active =>
       \/ touch_active' = "NONE"
       \/ touch_active = "NONE" /\ touch_candidate = touch_active'
<1>1. TypeOK /\ [Next]_vars => [A]_vars
  <2> SUFFICES ASSUME TypeOK, Next PROVE A
    OBVIOUS
  <2>1. CASE exword_touch_poll
    <3>1. CASE TouchNoSample \/ TouchLatched
      BY <3>1, Zenon DEF TouchNoSample, TouchLatched,
         exword_touch_release_active
    <3>2. ASSUME NEW z \in Zones, NEW near \in BOOLEAN, TouchCandidate(z, near)
          PROVE  A
      BY <3>2, Zenon DEF TouchCandidate
    <3>3. ASSUME NEW z \in Zones, NEW near \in BOOLEAN, TouchActivate(z, near)
          PROVE  A
      <4>1. /\ CandidateSamples(z, near) >= TouchDebounce
            /\ touch_active = "NONE" /\ touch_active' = z
        BY <3>3, Zenon DEF TouchActivate
      <4>2. z = touch_candidate
        BY <4>1, BoundsAssumption DEF CandidateSamples
      <4> QED BY <4>1, <4>2
    <3> QED BY <2>1, <3>1, <3>2, <3>3 DEF exword_touch_poll
  <2>2. CASE exword_service_subpad_mode
    BY <2>2, Zenon DEF exword_service_subpad_mode, TouchOff, TouchStaysOff,
       TouchPrepare, TouchOn, exword_touch_release_active, touchVars, touchPad
  <2>3. CASE ScanKeys
    BY <2>3, Zenon DEF ScanKeys, SameKey, ToggleKey, MouseKey, EnterKey,
       ReportKey, KeyEdge, NextKey, touchVars, touchPad
  <2>4. CASE ReadState \/ Motion \/ TouchIdle \/ exword_sublcd_draw_next_row
             \/ WriteSubpadMode
    BY <2>4, Zenon DEF ReadState, Motion, TouchIdle,
       exword_sublcd_draw_next_row, WriteSubpadMode, touchVars, touchPad
  <2> QED BY <2>1, <2>2, <2>3, <2>4 DEF Next, ScanThread
<1> QED BY <1>1, TypeCorrect, PTL DEF Spec, TouchLatch
=============================================================================
