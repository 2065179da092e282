--------------------------------- MODULE Lights ---------------------------------
(***************************************************************************)
(* The lights HAL: battery and notification light share one RGB LED, the   *)
(* backlight has a mode of low persistence.  Several lights may be set at  *)
(* a time; g_lock keeps them apart.                                        *)
(*                                                                         *)
(* A file of sysfs that does not exist cannot be written: that is how a    *)
(* LED does not support a way to blink.  The driver may refuse the write   *)
(* of a file that exists, too.                                             *)
(***************************************************************************)
EXTENDS Naturals

CONSTANTS
  Names,      (* the lights that are ever opened                            *)
  States,     (* light_state_t of the LED: color, flashMode and blink       *)
  FileSets    (* sets of files a device may have                            *)

Leds == {"red", "green", "blue"}
LedLights == {"battery", "notifications", "attention"}
LightIds == LedLights \cup {"backlight", "buttons"}
FlashModes == {"none", "timed", "hardware"}
BrightnessModes == {"user", "sensor", "low_persistence"}

(* "blink" stands for breath or blink, "timer" for delay_off and delay_on; *)
(* an LED that took the first of these two alone is told "half".           *)
LedFiles == {"brightness", "blink", "timer"} \X Leds
Words == [way : {"untold", "brightness", "blink", "timer", "half"}, value : 0..1]
Persistence == <<"persist", "lcd">>
Lcd == <<"brightness", "lcd">>
Button == <<"brightness", "button">>
Nodes == {Persistence, Lcd, Button}
Files == LedFiles \cup Nodes

(* DEFAULT_LOW_PERSISTENCE_MODE_BRIGHTNESS, beside the levels 0 and 1.     *)
DIM == 2

ASSUME NameAssumption == Names \subseteq LightIds
ASSUME StateAssumption == States \subseteq [color : SUBSET Leds, flashMode : FlashModes, blink : 0..1]
ASSUME FileAssumption == FileSets \subseteq SUBSET Files

VARIABLES
  files,       \* the files of this device
  node,        \* the number last written to each file that is not an LED's
  told,        \* the last word each LED's driver took, and by which file
  opened,      \* lights opened
  g_lock,      \* the light whose set_light holds the mutex, or "nobody"
  g_battery, g_notification, g_attention,
  g_last_backlight_mode, g_has_persistence_node,
  call,        \* set_light in progress, by light: its place, and rc # 0
  refused,     \* LEDs that refused the brightness of the last set_light
  reply,       \* what the last set_light_backlight was asked and returned
  missed       \* the driver refused the last write of the persistence mode

ledVars == <<told, refused, g_battery, g_notification, g_attention, call>>
backlightVars == <<g_last_backlight_mode, g_has_persistence_node, reply, missed>>
vars == <<files, node, opened, g_lock, ledVars, backlightVars>>

Dark == [color |-> {}, flashMode |-> "none", blink |-> 0]
Idle == [pc |-> "idle", rc |-> FALSE]
-----------------------------------------------------------------------------
Init ==
  /\ files \in FileSets
  /\ node = [f \in Nodes |-> 0]
  /\ told = [c \in Leds |-> [way |-> "untold", value |-> 0]] /\ refused = Leds
  /\ opened = {} /\ g_lock = "nobody"
  /\ g_battery = Dark /\ g_notification = Dark /\ g_attention = 0
  /\ g_last_backlight_mode = "user" /\ g_has_persistence_node = FALSE
  /\ call = [l \in LedLights |-> Idle]
  /\ reply = [mode |-> "user", ret |-> "ok"] /\ missed = FALSE

(* open_lights.                                                            *)
Open(l) ==
  /\ l = "buttons" => Button \in files
  /\ opened' = opened \cup {l}
  /\ g_has_persistence_node' =
       IF l = "backlight" THEN Persistence \in files ELSE g_has_persistence_node
  /\ UNCHANGED <<files, node, g_lock, ledVars, g_last_backlight_mode, reply, missed>>

(* write_int: the LEDs in took are told, the others are as they were.      *)
Tell(way, took, value) ==
  [c \in Leds |-> IF c \in took THEN [way |-> way, value |-> value[c]] ELSE told[c]]

(* The LEDs among them that have the file.                                 *)
Have(attr, leds) == {c \in leds : <<attr, c>> \in files}
-----------------------------------------------------------------------------
(* Variant: only the light itself keeps out of its own way.                *)
LockOwn(l) == l \in opened /\ call[l] = Idle /\ g_lock' = l

Lock(l) == l \in opened /\ call[l] = Idle /\ g_lock = "nobody" /\ g_lock' = l

(* The switch over the flash mode begins.                                  *)
Begin(l, s) ==
  /\ call' = [call EXCEPT ![l] = [pc |-> s.flashMode, rc |-> FALSE]]
  /\ refused' = {}

is_lit(s) == s.color # {}

(* handle_speaker_battery_locked: the battery goes first.                  *)
Shown == IF is_lit(g_battery) THEN g_battery ELSE g_notification

SetBattery(s) ==
  /\ Lock("battery")
  /\ g_battery' = s
  /\ Begin("battery", IF is_lit(s) THEN s ELSE g_notification)
  /\ UNCHANGED <<files, node, told, opened, g_notification, g_attention, backlightVars>>

SetNotifications(s) ==
  /\ Lock("notifications")
  /\ g_notification' = s
  /\ Begin("notifications", IF is_lit(g_battery) THEN g_battery ELSE s)
  /\ UNCHANGED <<files, node, told, opened, g_battery, g_attention, backlightVars>>

(* The attention light is not shown; the LED is set once more.             *)
SetAttention(s) ==
  /\ Lock("attention")
  /\ g_attention' = IF s.flashMode = "hardware" THEN s.blink
                    ELSE IF s.flashMode = "none" THEN 0 ELSE g_attention
  /\ Begin("attention", Shown)
  /\ UNCHANGED <<files, node, told, opened, g_battery, g_notification, backlightVars>>

Goto(l, pc, rc) == call' = [call EXCEPT ![l] = [pc |-> pc, rc |-> rc]]

(* set_speaker_light_locked: each colour in it blinks by itself; one that  *)
(* cannot sends all of them to the next way.                               *)
Hardware(l) ==
  /\ call[l].pc = "hardware"
  /\ \E took \in SUBSET Have("blink", Shown.color) :
       /\ told' = Tell("blink", took, [c \in Leds |-> Shown.blink])
       /\ IF took = Shown.color THEN Goto(l, "return", FALSE) ELSE Goto(l, "timed", TRUE)
  /\ UNCHANGED <<files, node, opened, g_lock, refused, g_battery, g_notification, g_attention,
                 backlightVars>>

(* Variant: rc of the last colour decides.                                 *)
TimedLast(l) ==
  /\ call[l].pc = "timed"
  /\ \E took \in SUBSET Have("timer", Shown.color) :
       /\ told' = Tell("timer", took, [c \in Leds |-> Shown.blink])
       /\ IF took # {} THEN Goto(l, "return", FALSE) ELSE Goto(l, "none", TRUE)
  /\ UNCHANGED <<files, node, opened, g_lock, refused, g_battery, g_notification, g_attention,
                 backlightVars>>

(* set_rgb_led_timer_trigger for each colour: an LED that takes delay_off  *)
(* may refuse delay_on.  rc starts anew only when there is red in the      *)
(* colour.                                                                 *)
Timed(l) ==
  /\ call[l].pc = "timed"
  /\ \E took, half \in SUBSET Have("timer", Shown.color) :
       /\ took \cap half = {}
       /\ told' = [c \in Leds |-> IF c \in took \cup half
                                  THEN [way |-> IF c \in took THEN "timer" ELSE "half",
                                        value |-> Shown.blink]
                                  ELSE told[c]]
       /\ IF took = Shown.color /\ (call[l].rc => "red" \in Shown.color)
          THEN Goto(l, "return", FALSE)
          ELSE Goto(l, "none", TRUE)
  /\ UNCHANGED <<files, node, opened, g_lock, refused, g_battery, g_notification, g_attention,
                 backlightVars>>

Constant(l) ==
  /\ call[l].pc = "none"
  /\ \E took \in SUBSET Have("brightness", Leds) :
       /\ told' = Tell("brightness", took, [c \in Leds |-> IF c \in Shown.color THEN 1 ELSE 0])
       /\ refused' = Leds \ took
  /\ Goto(l, "return", FALSE)
  /\ UNCHANGED <<files, node, opened, g_lock, g_battery, g_notification, g_attention, backlightVars>>

Return(l) ==
  /\ call[l].pc = "return"
  /\ g_lock' = "nobody"
  /\ call' = [call EXCEPT ![l] = Idle]
  /\ UNCHANGED <<files, node, told, opened, refused, g_battery, g_notification, g_attention,
                 backlightVars>>

(* set_light_buttons: the driver takes the number or refuses it.           *)
SetButtons(value) ==
  /\ "buttons" \in opened /\ g_lock = "nobody"
  /\ node' \in {node, [node EXCEPT ![Button] = value]}
  /\ UNCHANGED <<files, opened, g_lock, ledVars, backlightVars>>
-----------------------------------------------------------------------------
(* Variant: nothing is written when low persistence is left.               *)
TogglesOn(mode) == mode = "low_persistence" /\ g_last_backlight_mode # "low_persistence"

(* Whether the mode of the display has to be written.                      *)
Toggles(mode) == (mode = "low_persistence") # (g_last_backlight_mode = "low_persistence")

(* Variant: the mode is kept without a node too.                           *)
RememberAlways(mode) == g_last_backlight_mode' = mode

Remember(mode) ==
  g_last_backlight_mode' = IF g_has_persistence_node THEN mode ELSE g_last_backlight_mode

(* set_light_backlight, under the lock: where the persistence mode is      *)
(* refused, the brightness stays; the mode is kept in any case.            *)
SetBacklight(mode, level) ==
  LET low == mode = "low_persistence"
      Brightness(taken, value) == IF taken THEN value ELSE node[Lcd] IN
  /\ "backlight" \in opened /\ g_lock = "nobody"
  /\ Remember(mode)
  /\ \E taken \in BOOLEAN :
       IF g_has_persistence_node /\ Toggles(mode)
       THEN \/ /\ node' = [node EXCEPT ![Persistence] = IF low THEN 1 ELSE 0,
                                      ![Lcd] = Brightness(taken, IF low THEN DIM ELSE level)]
               /\ reply' = [mode |-> mode, ret |-> IF taken THEN "ok" ELSE "error"]
               /\ missed' = FALSE
            \/ missed' = TRUE /\ reply' = [mode |-> mode, ret |-> "error"] /\ UNCHANGED node
       ELSE /\ node' = [node EXCEPT ![Lcd] = Brightness(taken, level)]
            /\ reply' = [mode |-> mode, ret |-> IF Toggles(mode) THEN "ENOSYS"
                                              ELSE IF taken THEN "ok" ELSE "error"]
            /\ UNCHANGED missed
  /\ UNCHANGED <<files, opened, g_lock, ledVars, g_has_persistence_node>>
-----------------------------------------------------------------------------
Next ==
  \/ \E l \in Names : Open(l)
  \/ \E s \in States : SetBattery(s) \/ SetNotifications(s) \/ SetAttention(s)
  \/ \E l \in LedLights : Hardware(l) \/ Timed(l) \/ Constant(l) \/ Return(l)
  \/ \E value \in 0..1 : SetButtons(value)
  \/ \E mode \in BrightnessModes, level \in 0..1 : SetBacklight(mode, level)

Spec == Init /\ [][Next]_vars
-----------------------------------------------------------------------------
(* No file is written that the device does not have.                       *)
WrittenOnly ==
  /\ \A f \in {Persistence, Button} : node[f] # 0 => f \in files
  /\ \A c \in Leds : told[c].way # "untold" =>
       <<IF told[c].way = "half" THEN "timer" ELSE told[c].way, c>> \in files

TypeOK ==
  /\ files \in FileSets /\ node \in [Nodes -> {0, 1, DIM}] /\ told \in [Leds -> Words]
  /\ refused \subseteq Leds /\ opened \subseteq Names
  /\ g_lock \in LedLights \cup {"nobody"}
  /\ {g_battery, g_notification} \subseteq States \cup {Dark} /\ g_attention \in 0..1
  /\ g_last_backlight_mode \in BrightnessModes /\ g_has_persistence_node \in BOOLEAN
  /\ call \in [LedLights -> [pc : FlashModes \cup {"idle", "return"}, rc : BOOLEAN]]
  /\ WrittenOnly

(* Whoever set it, when the lock is free the LED shows the battery's state *)
(* or, when that is dark, the notification's: the last each of its colours *)
(* was told is one and the same way of blinking, or the last every LED was *)
(* told is its brightness, 0 if it is not a colour of the state.  What     *)
(* set_speaker_light_locked does not do is not claimed: a driver that      *)
(* refuses its brightness keeps what it was told before, an LED that is    *)
(* not a colour of a blinking state goes on as it was, and a dark state    *)
(* with a flash mode writes nothing.                                       *)
Shows(s, way) == \A c \in s.color : told[c] = [way |-> way, value |-> s.blink]
InEffect(s) ==
  \/ s.flashMode = "hardware" /\ Shows(s, "blink")
  \/ s.flashMode # "none" /\ Shows(s, "timer")
  \/ \A c \in Leds \ refused : told[c] = [way |-> "brightness", value |-> IF c \in s.color THEN 1 ELSE 0]
ShownInEffect ==
  g_lock = "nobody" /\ (is_lit(Shown) \/ Shown.flashMode = "none") => InEffect(Shown)

(* The display is in low persistence mode as long as the backlight is,     *)
(* unless the driver refused the change.                                   *)
PersistenceTold ==
  g_has_persistence_node =>
    \/ (node[Persistence] = 1) = (g_last_backlight_mode = "low_persistence")
    \/ missed

(* A device without the mode refuses every request for it, however many it *)
(* had before, and no other.                                               *)
RefusedIfUnable ==
  ~g_has_persistence_node => (reply.ret = "ENOSYS") = (reply.mode = "low_persistence")

(* The backlight's mode is kept, told and refused as the device is able.   *)
LightsInv == TypeOK /\ PersistenceTold /\ RefusedIfUnable
=============================================================================
