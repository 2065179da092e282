----------------------------- MODULE Lights_proofs -----------------------------
(***************************************************************************)
(* Proofs about the lights HAL (Lights): what the LED is told by the time  *)
(* the lock is free, and the mode of the backlight, for any states and any device.  *)
(***************************************************************************)
EXTENDS Lights, TLAPS

LightStates == [color : SUBSET Leds, flashMode : FlashModes, blink : 0..1]

(* TypeOK without the files, and what open_lights has found out.           *)
Types ==
  /\ files \in FileSets /\ node \in [Nodes -> {0, 1, DIM}] /\ opened \subseteq Names
  /\ told \in [Leds -> Words] /\ refused \in SUBSET Leds
  /\ g_lock \in LedLights \cup {"nobody"}
  /\ g_battery \in States \cup {Dark} /\ g_notification \in States \cup {Dark}
  /\ g_attention \in 0..1
  /\ g_last_backlight_mode \in BrightnessModes /\ g_has_persistence_node \in BOOLEAN
  /\ call \in [LedLights -> [pc : FlashModes \cup {"idle", "return"}, rc : BOOLEAN]]

Known ==
  /\ "buttons" \in opened => Button \in files
  /\ "backlight" \in opened => g_has_persistence_node = (Persistence \in files)
  /\ "backlight" \notin opened =>
       /\ g_has_persistence_node = FALSE /\ g_last_backlight_mode = "user"
       /\ reply = [mode |-> "user", ret |-> "ok"] /\ node[Persistence] = 0

(* Without a node the mode stays what it was at the start.                 *)
BacklightInv ==
  /\ ~g_has_persistence_node => g_last_backlight_mode = "user"
  /\ PersistenceTold /\ RefusedIfUnable

(* A state that writes something is in effect.                             *)
Done(s) == is_lit(s) \/ s.flashMode = "none" => InEffect(s)

(* Only the holder of the lock is in set_light, and it is on a way of      *)
(* showing that the state asks for or falls back to.                       *)
LedInv ==
  /\ \A l \in LedLights : l # g_lock => call[l] = Idle
  /\ g_lock = "nobody" => Done(Shown)
  /\ \A l \in LedLights : l = g_lock =>
       /\ call[l].pc # "idle"
       /\ call[l].pc = "hardware" => Shown.flashMode = "hardware"
       /\ call[l].pc = "timed" => Shown.flashMode # "none"
       /\ call[l].pc = "return" => Done(Shown)

IInv == Types /\ Known /\ WrittenOnly /\ BacklightInv /\ LedInv
-----------------------------------------------------------------------------
(* What is shown is a state of the light.                                  *)
LEMMA ShownType ==
  ASSUME Types
  PROVE  Shown \in LightStates
<1>1. Dark \in LightStates
  BY DEF Dark, LightStates, FlashModes
<1> QED
  BY <1>1, StateAssumption DEF Types, Shown, LightStates

(* What is told does not depend on the backlight and the buttons.          *)
LEMMA LedKept ==
  ASSUME LedInv, UNCHANGED <<g_lock, ledVars>>
  PROVE  LedInv'
<1>1. Shown' = Shown
  BY DEF Shown, is_lit, ledVars
<1>2. Done(Shown) => Done(Shown)'
  BY <1>1 DEF Done, InEffect, Shows, is_lit, ledVars
<1> QED
  BY <1>1, <1>2 DEF LedInv, ledVars

(* Nor the backlight on the LED.                                           *)
LEMMA BacklightKept ==
  ASSUME Known, BacklightInv, UNCHANGED <<files, opened, backlightVars>>,
         node'[Persistence] = node[Persistence]
  PROVE  Known' /\ BacklightInv'
  BY DEF Known, BacklightInv, PersistenceTold, RefusedIfUnable, backlightVars

(* The nodes are three.                                                    *)
LEMMA NodesApart ==
  /\ Persistence \in Nodes /\ Lcd \in Nodes /\ Button \in Nodes
  /\ Persistence # Lcd /\ Button # Lcd /\ Persistence # Button
  BY DEF Nodes, Persistence, Lcd, Button

(* write_int for some LEDs that have the file: they are told the value.    *)
LEMMA Told ==
  ASSUME Types, WrittenOnly, NEW way \in {"brightness", "blink", "timer"},
         NEW leds \in SUBSET Leds, NEW took \in SUBSET Have(way, leds),
         NEW value \in [Leds -> 0..1], told' = Tell(way, took, value), UNCHANGED <<files, node>>
  PROVE  /\ told' \in [Leds -> Words] /\ WrittenOnly'
         /\ \A c \in took : told'[c] = [way |-> way, value |-> value[c]]
<1>1. \A c \in Leds : told'[c] = IF c \in took THEN [way |-> way, value |-> value[c]] ELSE told[c]
  BY DEF Tell
<1>2. \A c \in took : c \in Leds /\ <<way, c>> \in files
  BY DEF Have
<1>3. told' \in [Leds -> Words]
  <2>1. \A c \in took : told'[c] \in Words
    <3>1. way \in {"untold", "brightness", "blink", "timer", "half"}
      OBVIOUS
    <3>2. \A c \in took : value[c] \in 0..1
      BY <1>2
    <3>3. \A v \in 0..1 : [way |-> way, value |-> v] \in Words
      BY <3>1 DEF Words
    <3>4. \A c \in took : told'[c] = [way |-> way, value |-> value[c]]
      BY <1>1, <1>2
    <3> QED
      BY <3>2, <3>3, <3>4
  <2>2. \A c \in Leds \ took : told'[c] \in Words
    BY <1>1 DEF Types
  <2> QED
    BY <2>1, <2>2 DEF Tell
<1>4. WrittenOnly'
  <2>1. ASSUME NEW c \in took
        PROVE  told'[c].way = way
    <3>1. told'[c] = [way |-> way, value |-> value[c]]
      BY <1>1, <1>2
    <3> QED
      BY <3>1
  <2>2. \A c \in Leds \ took : told'[c] = told[c]
    BY <1>1
  <2>3. ASSUME NEW c \in Leds, told'[c].way # "untold"
        PROVE  <<IF told'[c].way = "half" THEN "timer" ELSE told'[c].way, c>> \in files
    <3>1. CASE c \in took
      BY <1>2, <2>1, <3>1
    <3>2. CASE c \notin took
      BY <2>2, <2>3, <3>2 DEF WrittenOnly
    <3> QED
      BY <3>1, <3>2
  <2> QED
    BY <2>3 DEF WrittenOnly
<1> QED
  BY <1>1, <1>2, <1>3, <1>4
-----------------------------------------------------------------------------
(* The invariant holds at the start.                                       *)
LEMMA InitInv ==
  ASSUME Init
  PROVE  IInv
<1>1. Types
  <2>1. node \in [Nodes -> {0, 1, DIM}] /\ told \in [Leds -> Words] /\ refused \in SUBSET Leds
    BY DEF Init, Words
  <2>2. call \in [LedLights -> [pc : FlashModes \cup {"idle", "return"}, rc : BOOLEAN]]
    BY DEF Init, Idle
  <2>3. /\ files \in FileSets /\ opened \subseteq Names /\ g_lock \in LedLights \cup {"nobody"}
        /\ g_battery \in States \cup {Dark} /\ g_notification \in States \cup {Dark}
        /\ g_attention \in 0..1
    BY DEF Init
  <2>4. g_last_backlight_mode \in BrightnessModes /\ g_has_persistence_node \in BOOLEAN
    BY DEF Init, BrightnessModes
  <2> QED
    BY <2>1, <2>2, <2>3, <2>4 DEF Types
<1>2. Known /\ WrittenOnly
  BY NodesApart DEF Init, Known, WrittenOnly
<1>3. BacklightInv
  BY DEF Init, BacklightInv, PersistenceTold, RefusedIfUnable
<1>4. LedInv
  <2>1. Shown = Dark
    BY DEF Init, Shown
  <2>2. Done(Dark)
    BY DEF Init, Done, InEffect
  <2> QED
    BY <2>1, <2>2 DEF Init, LedInv, LedLights
<1> QED
  BY <1>1, <1>2, <1>3, <1>4 DEF IInv

(* A light is opened.                                                      *)
LEMMA OpenStep ==
  ASSUME IInv, NEW l \in Names, Open(l)
  PROVE  IInv'
<1>1. Types'
  <2>1. g_has_persistence_node' \in BOOLEAN
    <3>1. CASE l = "backlight"
      BY <3>1 DEF Open
    <3>2. CASE l # "backlight"
      BY <3>2 DEF IInv, Types, Open
    <3> QED
      BY <3>1, <3>2
  <2>2. opened' \subseteq Names
    BY DEF IInv, Types, Open
  <2> QED
    BY <2>1, <2>2 DEF IInv, Types, Open, ledVars
<1>2. Known' /\ WrittenOnly'
  BY DEF IInv, Types, Known, WrittenOnly, Open, ledVars
<1>3. BacklightInv'
  <2>1. CASE l = "backlight"
    BY <2>1 DEF IInv, Known, BacklightInv, PersistenceTold, RefusedIfUnable, Open
  <2>2. CASE l # "backlight"
    BY <2>2 DEF IInv, BacklightInv, PersistenceTold, RefusedIfUnable, Open
  <2> QED
    BY <2>1, <2>2
<1>4. LedInv'
  BY LedKept DEF IInv, Open
<1> QED
  BY <1>1, <1>2, <1>3, <1>4 DEF IInv

(* A light of the LED gets the lock and a new state.                       *)
LEMMA SetStep ==
  ASSUME IInv, NEW s \in States, SetBattery(s) \/ SetNotifications(s) \/ SetAttention(s)
  PROVE  IInv'
<1>1. PICK l \in LedLights : /\ g_lock = "nobody" /\ g_lock' = l /\ Begin(l, Shown')
                             /\ UNCHANGED <<files, node, told, opened, backlightVars>>
  BY DEF SetBattery, SetNotifications, SetAttention, Lock, Shown, is_lit, LedLights
<1>2. /\ g_battery' \in States \cup {Dark} /\ g_notification' \in States \cup {Dark}
      /\ g_attention' \in 0..1
  BY StateAssumption DEF IInv, Types, SetBattery, SetNotifications, SetAttention
<1>3. Shown' \in LightStates
  <2>1. Dark \in LightStates
    BY DEF Dark, LightStates, FlashModes
  <2> QED
    BY <1>2, <2>1, StateAssumption DEF Shown, LightStates
<1>4. PICK mode \in FlashModes : mode = Shown'.flashMode
  BY <1>3 DEF LightStates
<1>5. /\ call' = [call EXCEPT ![l] = [pc |-> mode, rc |-> FALSE]]
      /\ call'[l] = [pc |-> mode, rc |-> FALSE]
      /\ \A k \in LedLights : k # l => call'[k] = call[k]
      /\ refused' \in SUBSET Leds
  BY <1>1, <1>4 DEF Begin, IInv, Types
<1>6. Types'
  BY <1>1, <1>2, <1>5 DEF IInv, Types, backlightVars
<1>7. Known' /\ BacklightInv' /\ WrittenOnly'
  BY <1>1, BacklightKept DEF IInv, WrittenOnly
<1>8. LedInv'
  <2>1. \A k \in LedLights : k # "nobody"
    BY DEF LedLights
  <2>2. mode # "idle" /\ mode # "return"
    BY DEF FlashModes
  <2> QED
    BY <1>1, <1>4, <1>5, <2>1, <2>2 DEF IInv, LedInv
<1> QED
  BY <1>6, <1>7, <1>8 DEF IInv

(* The holder of the lock tries one way, and goes on to the next one if it *)
(* does not work for every colour.                                         *)
LEMMA ShowStep ==
  ASSUME IInv, NEW l \in LedLights, Hardware(l) \/ Timed(l) \/ Constant(l)
  PROVE  IInv'
<1>1. PICK s \in LightStates : s = Shown /\ Shown' = s
  <2>1. Shown' = Shown
    BY DEF Hardware, Timed, Constant, Shown, is_lit
  <2> QED
    BY <2>1, ShownType DEF IInv
<1>2. /\ s.color \in SUBSET Leds /\ s.blink \in 0..1 /\ s.flashMode \in FlashModes
  BY DEF LightStates
<1>3. /\ UNCHANGED <<files, node, opened, g_lock, g_battery, g_notification, g_attention, backlightVars>>
      /\ call[l].pc # "idle"
  BY DEF Hardware, Timed, Constant
<1>4. l = g_lock
  BY <1>3 DEF IInv, LedInv, Idle
<1>5. ASSUME NEW pc \in FlashModes \cup {"return"}, NEW rc \in BOOLEAN, Goto(l, pc, rc),
             pc = "hardware" => s.flashMode = "hardware",
             pc = "timed" => s.flashMode # "none",
             pc = "return" => InEffect(s)',
             told' \in [Leds -> Words], refused' \in SUBSET Leds, WrittenOnly'
      PROVE  IInv'
  <2>1. /\ call'[l] = [pc |-> pc, rc |-> rc]
        /\ \A k \in LedLights : k # l => call'[k] = call[k]
        /\ call' \in [LedLights -> [pc : FlashModes \cup {"idle", "return"}, rc : BOOLEAN]]
    BY <1>5 DEF Goto, IInv, Types
  <2>2. Types'
    BY <1>3, <1>5, <2>1 DEF IInv, Types, backlightVars
  <2>3. Known' /\ BacklightInv'
    BY <1>3, BacklightKept DEF IInv
  <2>4. LedInv'
    <3>1. pc # "idle" /\ l # "nobody"
      BY DEF FlashModes, LedLights
    <3>2. pc = "return" => Done(s)'
      BY <1>5 DEF Done
    <3> QED
      BY <1>1, <1>3, <1>4, <1>5, <2>1, <3>1, <3>2 DEF IInv, LedInv
  <2> QED
    BY <1>5, <2>2, <2>3, <2>4 DEF IInv
<1>6. CASE Hardware(l)
  <2>1. PICK value \in [Leds -> 0..1] : value = [c \in Leds |-> s.blink]
    BY <1>2
  <2>2. PICK took \in SUBSET Have("blink", s.color) :
          /\ told' = Tell("blink", took, value)
          /\ IF took = s.color THEN Goto(l, "return", FALSE) ELSE Goto(l, "timed", TRUE)
    BY <1>1, <1>6, <2>1 DEF Hardware
  <2>3. s.flashMode = "hardware" /\ refused' \in SUBSET Leds
    BY <1>1, <1>4, <1>6 DEF Hardware, IInv, LedInv, Types
  <2>4. /\ told' \in [Leds -> Words] /\ WrittenOnly'
        /\ \A c \in took : told'[c] = [way |-> "blink", value |-> value[c]]
    BY <1>2, <1>3, <2>2, Told DEF IInv
  <2>5. CASE took = s.color
    <3>1. Shows(s, "blink")'
      BY <1>2, <2>1, <2>4, <2>5 DEF Shows
    <3>2. InEffect(s)'
      BY <2>3, <3>1 DEF InEffect
    <3> QED
      BY <1>5, <2>2, <2>3, <2>4, <2>5, <3>2
  <2>6. CASE took # s.color
    BY <1>5, <2>2, <2>3, <2>4, <2>6 DEF FlashModes
  <2> QED
    BY <2>5, <2>6
<1>7. CASE Timed(l)
  <2>0. PICK took \in SUBSET Have("timer", s.color), half \in SUBSET Have("timer", s.color) :
          /\ told' = [c \in Leds |-> IF c \in took \cup half
                                     THEN [way |-> IF c \in took THEN "timer" ELSE "half",
                                           value |-> s.blink]
                                     ELSE told[c]]
          /\ IF took = s.color /\ (call[l].rc => "red" \in s.color)
             THEN Goto(l, "return", FALSE) ELSE Goto(l, "none", TRUE)
    <3>1. PICK took \in SUBSET Have("timer", Shown.color), half \in SUBSET Have("timer", Shown.color) :
            /\ told' = [c \in Leds |-> IF c \in took \cup half
                                       THEN [way |-> IF c \in took THEN "timer" ELSE "half",
                                             value |-> Shown.blink]
                                       ELSE told[c]]
            /\ IF took = Shown.color /\ (call[l].rc => "red" \in Shown.color)
               THEN Goto(l, "return", FALSE) ELSE Goto(l, "none", TRUE)
      BY <1>7 DEF Timed
    <3> QED
      BY <1>1, <3>1
  <2>1. \/ took = s.color /\ Goto(l, "return", FALSE)
        \/ Goto(l, "none", TRUE)
    BY <2>0
  <2>2. s.flashMode # "none" /\ refused' \in SUBSET Leds
    BY <1>1, <1>4, <1>7 DEF Timed, IInv, LedInv, Types
  <2>3. /\ \A c \in took : told'[c] = [way |-> "timer", value |-> s.blink]
        /\ \A c \in half \ took : told'[c] = [way |-> "half", value |-> s.blink]
        /\ \A c \in Leds \ (took \cup half) : told'[c] = told[c]
        /\ \A c \in took \cup half : c \in Leds /\ <<"timer", c>> \in files
    BY <1>2, <2>0 DEF Have
  <2>4. told' \in [Leds -> Words]
    <3>1. \A c \in Leds : told'[c] \in Words
      BY <1>2, <2>3 DEF IInv, Types, Words
    <3> QED
      BY <2>0, <3>1
  <2>5. WrittenOnly'
    <3>1. ASSUME NEW c \in Leds, told'[c].way # "untold"
          PROVE  <<IF told'[c].way = "half" THEN "timer" ELSE told'[c].way, c>> \in files
      <4>1. CASE c \in took
        BY <2>3, <4>1
      <4>2. CASE c \in half \ took
        BY <2>3, <4>2
      <4>3. CASE c \notin took \cup half
        BY <2>3, <3>1, <4>3 DEF IInv, WrittenOnly
      <4> QED
        BY <4>1, <4>2, <4>3
    <3> QED
      BY <1>3, <3>1 DEF IInv, WrittenOnly
  <2>6. CASE took = s.color /\ Goto(l, "return", FALSE)
    <3>1. Shows(s, "timer")'
      BY <2>3, <2>6 DEF Shows
    <3>2. InEffect(s)'
      BY <2>2, <3>1 DEF InEffect
    <3> QED
      BY <1>5, <2>2, <2>4, <2>5, <2>6, <3>2
  <2>7. CASE Goto(l, "none", TRUE)
    BY <1>5, <2>2, <2>4, <2>5, <2>7 DEF FlashModes
  <2> QED
    BY <2>1, <2>6, <2>7
<1>8. CASE Constant(l)
  <2>1. PICK value \in [Leds -> 0..1] : value = [c \in Leds |-> IF c \in s.color THEN 1 ELSE 0]
    <3>1. \A c \in Leds : (IF c \in s.color THEN 1 ELSE 0) \in 0..1
      OBVIOUS
    <3> QED
      BY <3>1
  <2>2. PICK took \in SUBSET Have("brightness", Leds) :
          told' = Tell("brightness", took, value) /\ refused' = Leds \ took
    BY <1>1, <1>8, <2>1 DEF Constant
  <2>3. /\ told' \in [Leds -> Words] /\ WrittenOnly'
        /\ \A c \in took : told'[c] = [way |-> "brightness", value |-> value[c]]
    BY <1>3, <2>2, Told DEF IInv
  <2>4. \A c \in Leds \ refused' : c \in took
    BY <2>2
  <2>5. InEffect(s)'
    BY <2>1, <2>3, <2>4 DEF InEffect
  <2>6. refused' \in SUBSET Leds
    BY <2>2
  <2> QED
    BY <1>5, <1>8, <2>3, <2>5, <2>6 DEF Constant
<1> QED
  BY <1>6, <1>7, <1>8

(* The lock is free again: what the holder has shown is what counts.       *)
LEMMA ReturnStep ==
  ASSUME IInv, NEW l \in LedLights, Return(l)
  PROVE  IInv'
<1>1. /\ call[l].pc = "return" /\ g_lock' = "nobody" /\ call' = [call EXCEPT ![l] = Idle]
      /\ UNCHANGED <<files, node, told, opened, refused, g_battery, g_notification, g_attention,
                     backlightVars>>
  BY DEF Return
<1>2. l = g_lock /\ Done(Shown)
  BY <1>1 DEF IInv, LedInv, Idle
<1>3. \A k \in LedLights : call'[k] = Idle
  BY <1>1, <1>2 DEF IInv, Types, LedInv
<1>4. Types'
  BY <1>1 DEF IInv, Types, Idle, backlightVars
<1>5. Known' /\ BacklightInv' /\ WrittenOnly'
  BY <1>1, BacklightKept DEF IInv, WrittenOnly
<1>6. LedInv'
  <2>1. Done(Shown)'
    BY <1>1, <1>2 DEF Done, InEffect, Shows, Shown, is_lit
  <2>2. \A k \in LedLights : k # "nobody"
    BY DEF LedLights
  <2> QED
    BY <1>1, <1>3, <2>1, <2>2 DEF LedInv
<1> QED
  BY <1>4, <1>5, <1>6 DEF IInv

(* The light of the buttons, which nobody else writes.                     *)
LEMMA ButtonsStep ==
  ASSUME IInv, NEW value \in 0..1, SetButtons(value)
  PROVE  IInv'
<1>1. /\ node' \in {node, [node EXCEPT ![Button] = value]} /\ Button \in files
      /\ UNCHANGED <<files, opened, g_lock, ledVars, backlightVars>>
  BY DEF SetButtons, IInv, Known
<1>2. node' \in [Nodes -> {0, 1, DIM}] /\ node'[Persistence] = node[Persistence]
  BY <1>1, NodesApart DEF IInv, Types
<1>3. WrittenOnly'
  BY <1>1, <1>2 DEF IInv, WrittenOnly, ledVars
<1>4. Types'
  BY <1>1, <1>2 DEF IInv, Types, ledVars, backlightVars
<1>5. Known' /\ BacklightInv'
  BY <1>1, <1>2, BacklightKept DEF IInv
<1>6. LedInv'
  BY <1>1, LedKept DEF IInv
<1> QED
  BY <1>3, <1>4, <1>5, <1>6 DEF IInv

(* The backlight: its mode is written, refused or kept.                    *)
LEMMA BacklightStep ==
  ASSUME IInv, NEW mode \in BrightnessModes, NEW level \in 0..1, SetBacklight(mode, level)
  PROVE  IInv'
<1>1. /\ "backlight" \in opened /\ g_has_persistence_node = (Persistence \in files)
      /\ UNCHANGED <<files, opened, g_lock, ledVars, g_has_persistence_node>>
      /\ g_last_backlight_mode' = IF g_has_persistence_node THEN mode ELSE g_last_backlight_mode
  BY DEF SetBacklight, IInv, Known, Remember
<1>2. PICK shown \in {0, 1, DIM} :
        \/ /\ g_has_persistence_node /\ Toggles(mode) /\ missed' = FALSE
           /\ node' = [node EXCEPT ![Persistence] = IF mode = "low_persistence" THEN 1 ELSE 0,
                                  ![Lcd] = shown]
        \/ g_has_persistence_node /\ Toggles(mode) /\ missed' = TRUE /\ node' = node
        \/ /\ ~(g_has_persistence_node /\ Toggles(mode)) /\ missed' = missed
           /\ node' = [node EXCEPT ![Lcd] = shown]
  <2>1. node[Lcd] \in {0, 1, DIM} /\ level \in {0, 1, DIM}
    BY NodesApart DEF IInv, Types
  <2> QED
    BY <2>1 DEF SetBacklight
<1>7. node' \in [Nodes -> {0, 1, DIM}]
  BY <1>2, NodesApart DEF IInv, Types
<1>8. /\ ~g_has_persistence_node => node'[Persistence] = node[Persistence]
      /\ node'[Button] = node[Button]
  BY <1>2, NodesApart DEF IInv, Types
<1>9. WrittenOnly'
  BY <1>1, <1>8 DEF IInv, WrittenOnly, ledVars
<1>3. Types'
  BY <1>1, <1>2, <1>7 DEF IInv, Types, ledVars
<1>4. Known'
  BY <1>1 DEF IInv, Known
<1>5. LedInv'
  BY <1>1, LedKept DEF IInv
<1>6. BacklightInv'
  <2>1. CASE g_has_persistence_node /\ Toggles(mode)
    <3>1. CASE missed'
      BY <1>1, <2>1, <3>1 DEF BacklightInv, PersistenceTold, RefusedIfUnable
    <3>2. CASE ~missed'
      <4>1. node' = [node EXCEPT ![Persistence] = IF mode = "low_persistence" THEN 1 ELSE 0, ![Lcd] = shown]
        BY <1>2, <2>1, <3>2
      <4>2. (node'[Persistence] = 1) = (mode = "low_persistence")
        BY <4>1, NodesApart DEF IInv, Types
      <4> QED
        BY <1>1, <2>1, <4>2 DEF BacklightInv, PersistenceTold, RefusedIfUnable
    <3> QED
      BY <3>1, <3>2
  <2>2. CASE g_has_persistence_node /\ ~Toggles(mode)
    <3>1. node'[Persistence] = node[Persistence] /\ UNCHANGED missed
      BY <1>2, <2>2, NodesApart DEF IInv, Types
    <3>2. (mode = "low_persistence") = (g_last_backlight_mode = "low_persistence")
      BY <2>2 DEF Toggles
    <3> QED
      BY <1>1, <2>2, <3>1, <3>2 DEF IInv, BacklightInv, PersistenceTold, RefusedIfUnable
  <2>3. CASE ~g_has_persistence_node
    <3>1. g_last_backlight_mode = "user" /\ g_last_backlight_mode' = "user"
      BY <1>1, <2>3 DEF IInv, BacklightInv
    <3>2. Toggles(mode) = (mode = "low_persistence")
      BY <3>1 DEF Toggles
    <3>3. PICK ret \in {"ok", "error"} :
            reply' = [mode |-> mode, ret |-> IF Toggles(mode) THEN "ENOSYS" ELSE ret]
      BY <2>3 DEF SetBacklight
    <3>4. (reply'.ret = "ENOSYS") = (reply'.mode = "low_persistence")
      BY <3>2, <3>3
    <3> QED
      BY <1>1, <2>3, <3>1, <3>4 DEF BacklightInv, PersistenceTold, RefusedIfUnable
  <2> QED
    BY <2>1, <2>2, <2>3
<1> QED
  BY <1>9, <1>3, <1>4, <1>5, <1>6 DEF IInv
-----------------------------------------------------------------------------
(* Who holds the lock, what is told and what is kept fit in every state.   *)
THEOREM Inductive == Spec => []IInv
<1>1. Init => IInv
  BY InitInv
<1>2. IInv /\ [Next]_vars => IInv'
  <2> SUFFICES ASSUME IInv, [Next]_vars
               PROVE  IInv'
    OBVIOUS
  <2>1. CASE UNCHANGED vars
    <3>1. Types' /\ Known' /\ WrittenOnly' /\ BacklightInv'
      BY <2>1, BacklightKept DEF vars, ledVars, backlightVars, IInv, Types, WrittenOnly
    <3>2. LedInv'
      BY <2>1, LedKept DEF vars, IInv
    <3> QED
      BY <3>1, <3>2 DEF IInv
  <2>2. CASE Next
    BY <2>2, OpenStep, SetStep, ShowStep, ReturnStep, ButtonsStep, BacklightStep DEF Next
  <2> QED
    BY <2>1, <2>2
<1> QED
  BY <1>1, <1>2, PTL DEF Spec

(* When the lock is free the state that is lit, or dark and constant, was  *)
(* the last that each LED was told of, in one way, as far as the drivers   *)
(* took it (set_speaker_light_locked).                                     *)
THEOREM ShownTheorem == Spec => []ShownInEffect
<1>1. IInv => ShownInEffect
  BY DEF IInv, LedInv, Done, ShownInEffect
<1> QED
  BY <1>1, Inductive, PTL

(* The backlight's mode is kept, told to the display and refused as the    *)
(* device is able (set_light_backlight).                                   *)
THEOREM Invariance == Spec => []LightsInv
<1>1. IInv => LightsInv
  BY DEF IInv, Types, WrittenOnly, BacklightInv, LightsInv, TypeOK
<1> QED
  BY <1>1, Inductive, PTL
=============================================================================
