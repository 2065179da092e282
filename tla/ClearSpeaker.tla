------------------------------ MODULE ClearSpeaker ------------------------------
(***************************************************************************)
(* XiaomiParts: the fragment that plays a sound for 30 seconds to blow the *)
(* dust out of the speaker.  Its player is stopped by a timer and when the *)
(* fragment is left; a player that was released, or never got ready,       *)
(* throws when it is stopped, and the process ends.                        *)
(***************************************************************************)
VARIABLES
  proc,         \* the process of XiaomiParts: "up" or "down"
  fragment,     \* "none", "shown", or "stopped": in the background
  mMediaPlayer, \* "null", "unprepared", "playing", "released"
  enabled,      \* of mClearSpeakerPref: it may be switched
  timers,       \* posted stopPlaying: of this fragment ("mine"), of one
                \* that is gone ("orphan")
  earpiece,     \* the audio HAL's status_earpiece_clean
  cut           \* history: a start failed, or the process ended, with it on

screen == <<fragment, mMediaPlayer, enabled, timers>>
vars == <<proc, screen, earpiece, cut>>

Init ==
  /\ proc = "up" /\ fragment = "none" /\ mMediaPlayer = "null" /\ enabled = TRUE
  /\ timers = {} /\ earpiece = "off" /\ cut = FALSE
-----------------------------------------------------------------------------
(* A new fragment, or the one in the background.                           *)
Show ==
  /\ fragment # "shown" /\ fragment' = "shown"
  /\ IF fragment = "none" THEN mMediaPlayer' = "null" /\ enabled' = TRUE
                          ELSE UNCHANGED <<mMediaPlayer, enabled>>
  /\ UNCHANGED <<proc, timers, earpiece, cut>>

MaySwitch == fragment = "shown" /\ enabled

(* onPreferenceChange and startPlaying: the timer of an earlier start goes.*)
Start ==
  /\ MaySwitch
  /\ earpiece' = "on" /\ mMediaPlayer' = "playing" /\ enabled' = FALSE
  /\ timers' = timers \cup {"mine"}
  /\ UNCHANGED <<proc, fragment, cut>>

(* The sound cannot be opened, or the player not be prepared.              *)
StartFails ==
  /\ MaySwitch
  /\ earpiece' = "on" /\ mMediaPlayer' = "unprepared" /\ enabled' \in BOOLEAN
  /\ cut' = TRUE
  /\ UNCHANGED <<proc, fragment, timers>>

MayStop == mMediaPlayer \in {"null", "playing"}

(* Variant: the player is stopped, the parameter is not put back.          *)
StopPlayer ==
  /\ MayStop
  /\ mMediaPlayer' = IF mMediaPlayer = "null" THEN "null" ELSE "released"
  /\ enabled' = TRUE
  /\ UNCHANGED <<earpiece, cut>>

StopPlaying ==
  /\ MayStop
  /\ mMediaPlayer' = IF mMediaPlayer = "null" THEN "null" ELSE "released"
  /\ earpiece' = "off" /\ cut' = FALSE /\ enabled' = TRUE

(* 30 seconds later.                                                       *)
Timer ==
  /\ "mine" \in timers /\ timers' = timers \ {"mine"}
  /\ StopPlaying
  /\ UNCHANGED <<proc, fragment>>

(* onStop.                                                                 *)
Leave ==
  /\ fragment = "shown" /\ fragment' = "stopped"
  /\ StopPlaying
  /\ UNCHANGED <<proc, timers>>

(* The fragment is destroyed; nothing takes its timer away.                *)
Finish ==
  /\ fragment = "stopped" /\ fragment' = "none"
  /\ timers' = IF timers = {} THEN {} ELSE {"orphan"}
  /\ mMediaPlayer' = "null"
  /\ UNCHANGED <<proc, enabled, earpiece, cut>>

(* stopPlaying by a timer, or in onStop, with a player that throws.  An    *)
(* orphan's player was released when its fragment was left.                *)
Throws ==
  \/ ~MayStop /\ (fragment = "shown" \/ "mine" \in timers)
  \/ "orphan" \in timers

(* The process ends.                                                       *)
Die ==
  /\ proc' = "down" /\ fragment' = "none" /\ mMediaPlayer' = "null" /\ enabled' = TRUE
  /\ timers' = {}
  /\ cut' = (earpiece = "on") /\ UNCHANGED earpiece
-----------------------------------------------------------------------------
Step == proc = "up" /\ (Show \/ Start \/ StartFails \/ Timer \/ Leave \/ Finish)
Crash == proc = "up" /\ Throws /\ Die
Next == Step \/ Crash
Spec == Init /\ [][Next]_vars
-----------------------------------------------------------------------------
(* Types; while the sound is played, it cannot be started again.           *)
TypeOK ==
  /\ proc \in {"up", "down"} /\ fragment \in {"none", "shown", "stopped"}
  /\ mMediaPlayer \in {"null", "unprepared", "playing", "released"} /\ enabled \in BOOLEAN
  /\ timers \subseteq {"mine", "orphan"} /\ earpiece \in {"on", "off"} /\ cut \in BOOLEAN
  /\ mMediaPlayer = "playing" => fragment = "shown" /\ ~enabled

(* Once the fragment is left, the audio HAL no longer takes the earpiece   *)
(* to be cleaned, unless the start had failed or the process has ended.    *)
EarpieceRestored == fragment # "shown" /\ earpiece = "on" => cut

-----------------------------------------------------------------------------
(* res/values/strings.xml:44: "Run this feature once or twice".  Having    *)
(* done so leaves the app running.                                         *)
MayBeRun == proc = "up"
=============================================================================
