------------------------------- MODULE XiaomiParts -------------------------------
(***************************************************************************)
(* The process of XiaomiParts: DozeService and the fragment that clears    *)
(* the speaker share it, so what one throws ends the other.                *)
(***************************************************************************)
EXTENDS DozeSensors

VARIABLES fragment, mMediaPlayer, enabled, timers, earpiece, cut

Speaker == INSTANCE ClearSpeaker
speakerVars == <<fragment, mMediaPlayer, enabled, timers, earpiece, cut>>
allVars == <<vars, speakerVars>>

PartsInit == Init /\ Speaker!Init

(* A timer, or onStop, throws on the main thread.                          *)
SpeakerThrows == proc = "up" /\ Speaker!Throws /\ Speaker!Die /\ Die

(* The process is killed for another reason.                               *)
Killed == proc = "up" /\ Speaker!Die /\ Die

PartsNext ==
  \/ Step /\ UNCHANGED speakerVars
  \/ Restart /\ UNCHANGED speakerVars
  \/ Speaker!Step /\ UNCHANGED vars
  \/ SpeakerThrows
  \/ Killed

(* The main thread and the executors run on; Android starts the process    *)
(* again.                                                                  *)
PartsSpec ==
  /\ PartsInit /\ [][PartsNext]_allVars
  /\ WF_allVars(proc = "up" /\ Dispatch /\ UNCHANGED speakerVars)
  /\ \A i \in Instances, s \in Sensors :
       WF_allVars(proc = "up" /\ Executor(i, s) /\ UNCHANGED speakerVars)
  /\ WF_allVars(Restart /\ UNCHANGED speakerVars)

(* What ClearSpeaker's properties say, in this process.                    *)
EarpieceRestored == Speaker!EarpieceRestored

(* Nothing of the service listens that should not, and the sound cannot be *)
(* started while it is played.                                             *)
PartsInv == TypeOK /\ AtRest /\ Speaker!TypeOK
=============================================================================
