------------------------------- MODULE FdWatcher -------------------------------
(***************************************************************************)
(* The watcher of the Bluetooth HAL (AsyncFdWatcher) together with the     *)
(* low power timer that lives in it: one thread that selects on the UART's *)
(* descriptors and on a notification pipe, with a timeout that Send, the   *)
(* report of the firmware init and OnTimeout itself set and clear.         *)
(*                                                                         *)
(* The descriptors and the timeout are read once per round, one after the  *)
(* other and without a lock, before select(): what changes later only      *)
(* counts after a notification.                                            *)
(***************************************************************************)
EXTENDS Integers, Sequences, FiniteSets

CONSTANTS
  Fds,      (* the descriptors in the order Open watches them: one (H4) or  *)
            (* two (MCT)                                                    *)
  Senders   (* binder threads that may be inside Send                       *)

ASSUME FdsAssumption == Fds \in Seq(STRING) /\ Fds # <<>>
ASSUME SendersAssumption == IsFiniteSet(Senders) /\ "init" \notin Senders

FdSet == { Fds[i] : i \in DOMAIN Fds }
Actors == Senders \cup {"init"}

VARIABLES
  cpc,        \* Open and Close: "closed", "watch", "open", "join", "wait"
  opened,     \* descriptors Open has handed to the watcher
  watched,    \* watched_fds_
  running,    \* running_
  note,       \* bytes in the notification pipe
  timer,      \* timeout_ms_ and timeout_cb_: "off" (0), "idle" (OnTimeout)
  w,          \* where ThreadRoutine is
  watching,   \* read_fds of this round
  timed,      \* this round's select has a timeout
  data,       \* descriptors with data to read
  pc,         \* where each actor is in Send or OnFirmwareConfigured
  fw,         \* the configuration of the firmware: "failed" before its
              \* thread exists, "started", "sent" a command, "ok" or "bad"
              \* as the client was told
  lpm_wake_deasserted, recent_activity_flag,
  known,      \* lpm_timeout_ms is set
  raced       \* history: in this session a Send has overlapped an OnTimeout

threadVars == <<w, watching, timed>>
lpmVars == <<lpm_wake_deasserted, recent_activity_flag, known>>
watcherVars == <<cpc, opened, watched, running, note, timer, threadVars, data, pc, fw, lpmVars,
                raced>>

SendPc == {"flag", "test", "arm", "assert"}
TimeoutPc == {"expired", "deassert", "disarm", "clear"}
Overlap == w \in TimeoutPc /\ \E a \in Actors : pc[a] \in SendPc
-----------------------------------------------------------------------------
WatcherInit ==
  /\ cpc = "closed" /\ opened = 0 /\ watched = {} /\ running = FALSE
  /\ note = 0 /\ timer = "off"
  /\ w = "none" /\ watching = {} /\ timed = FALSE /\ data = {}
  /\ pc = [a \in Actors |-> "idle"] /\ fw = "none"
  /\ lpm_wake_deasserted = FALSE /\ recent_activity_flag = FALSE /\ known = FALSE
  /\ raced = FALSE

(* A byte in the pipe.  Nobody reads the pipe of a watcher that has ended. *)
Notify == note' = IF running THEN note + 1 ELSE note

(* Variant: the new timeout only counts from the next wake-up on.          *)
ConfigureTimeoutQuietly(on) ==
  /\ timer' = IF on THEN "idle" ELSE "off"
  /\ UNCHANGED note

(* ConfigureTimeout: a timeout of 0 ms is none.                            *)
ConfigureTimeout(on) ==
  /\ timer' = IF on THEN "idle" ELSE "off"
  /\ Notify
-----------------------------------------------------------------------------
(* The thread in Open and Close.                                           *)

(* The first call makes the pipe and the thread; any other has no effect,  *)
(* it does not even notify the thread that runs.                           *)
TryStartThread ==
  IF running
  THEN UNCHANGED <<running, note, w>>
  ELSE running' = TRUE /\ note' = 0 /\ w' = "loop"

(* WatchFdForNonBlockingReads.                                             *)
WatchFd ==
  /\ cpc \in {"closed", "watch"} /\ opened < Len(Fds)
  /\ opened' = opened + 1 /\ cpc' = "watch"
  /\ watched' = watched \cup {Fds[opened + 1]}
  /\ TryStartThread
  /\ UNCHANGED <<timer, watching, timed, data, pc, fw, lpmVars>>

(* The end of Open: wake counts as deasserted, the configuration of the    *)
(* firmware is asked for.  Either its thread starts, or it fails before    *)
(* that: then nobody is told, and nobody notifies the watcher.             *)
StartFirmware ==
  /\ cpc = "watch" /\ opened = Len(Fds)
  /\ cpc' = "open"
  /\ lpm_wake_deasserted' = TRUE
  /\ \/ fw' = "failed" /\ UNCHANGED pc
     \/ fw' = "started" /\ pc' = [pc EXCEPT !["init"] = "busy"]
  /\ UNCHANGED <<opened, watched, running, note, timer, threadVars, data,
                 recent_activity_flag, known>>

(* Close, stopThread up to the join; no client is inside Send.             *)
Stop ==
  /\ cpc = "open" /\ \A s \in Senders : pc[s] = "idle"
  /\ cpc' = "join" /\ running' = FALSE /\ note' = note + 1
  /\ UNCHANGED <<opened, watched, timer, threadVars, data, pc, fw, lpmVars>>

(* The rest of stopThread; the UART is closed with what it held.           *)
Stopped ==
  /\ cpc = "join" /\ w = "ended"
  /\ cpc' = "wait" /\ w' = "none"
  /\ watched' = {} /\ timer' = "off" /\ note' = 0 /\ data' = {}
  /\ UNCHANGED <<opened, running, watching, timed, pc, fw, lpmVars>>

(* The library's cleanup joins the init thread; the object, and with it    *)
(* whatever timeout that thread still set, goes.                           *)
Closed ==
  /\ cpc = "wait" /\ pc["init"] = "idle"
  /\ cpc' = "closed" /\ opened' = 0 /\ timer' = "off" /\ fw' = "none"
  /\ UNCHANGED <<watched, running, note, threadVars, data, pc, lpmVars>>
-----------------------------------------------------------------------------
(* VendorInterface::Send, by the client once it was told SUCCESS, be the   *)
(* report done or not, or by the init thread for each of its commands.     *)
SendStart(a) ==
  /\ \/ a \in Senders /\ cpc = "open" /\ fw = "ok" /\ pc[a] = "idle" /\ UNCHANGED fw
     \/ a = "init" /\ pc[a] = "busy" /\ fw' = "sent"
  /\ pc' = [pc EXCEPT ![a] = "flag"]
  /\ UNCHANGED <<cpc, opened, watched, running, note, timer, threadVars, data, lpmVars>>

SendFlag(a) ==
  /\ pc[a] = "flag"
  /\ recent_activity_flag' = TRUE
  /\ pc' = [pc EXCEPT ![a] = "test"]
  /\ UNCHANGED <<cpc, opened, watched, running, note, timer, threadVars, data, fw,
                 lpm_wake_deasserted, known>>

AfterSend(a) == IF a = "init" THEN "busy" ELSE "idle"

SendTest(a) ==
  /\ pc[a] = "test"
  /\ pc' = [pc EXCEPT ![a] = IF lpm_wake_deasserted THEN "arm" ELSE AfterSend(a)]
  /\ UNCHANGED <<cpc, opened, watched, running, note, timer, threadVars, data, fw, lpmVars>>

(* Variant: wake is asserted, the timer is not restarted.                  *)
SendNoRestart(a) ==
  /\ pc[a] = "arm"
  /\ pc' = [pc EXCEPT ![a] = "assert"]
  /\ UNCHANGED <<cpc, opened, watched, running, note, timer, threadVars, data, fw, lpmVars>>

(* "Restart the timer": of no effect until lpm_timeout_ms is known.  That  *)
(* it is read before the timeout's lock is taken does not matter: only the *)
(* init thread, which sets it, is here before it is set (ArmedKnown).      *)
SendArm(a) ==
  /\ pc[a] = "arm"
  /\ ConfigureTimeout(known)
  /\ pc' = [pc EXCEPT ![a] = "assert"]
  /\ UNCHANGED <<cpc, opened, watched, running, threadVars, data, fw, lpmVars>>

SendAssert(a) ==
  /\ pc[a] = "assert"
  /\ lpm_wake_deasserted' = FALSE
  /\ pc' = [pc EXCEPT ![a] = AfterSend(a)]
  /\ UNCHANGED <<cpc, opened, watched, running, note, timer, threadVars, data, fw,
                 recent_activity_flag, known>>

(* BT_VND_OP_GET_LPM_IDLE_TIMEOUT of the library: 5000 ms, from now on and *)
(* for every later session.  Its other low power operations only log.      *)
IdleTimeout == known' = TRUE

(* OnFirmwareConfigured tells the client first: success only after every   *)
(* command was sent and answered (FwInit).                                 *)
Tell ==
  /\ pc["init"] = "busy"
  /\ fw' = "bad" \/ (fw = "sent" /\ fw' = "ok")
  /\ pc' = [pc EXCEPT !["init"] = "told"]
  /\ UNCHANGED <<cpc, opened, watched, running, note, timer, threadVars, data, lpmVars>>

(* Then it learns the timeout and starts the timer, whatever was told,     *)
(* while the client may already be in Send.                                *)
Configured ==
  /\ pc["init"] = "told"
  /\ IdleTimeout
  /\ pc' = [pc EXCEPT !["init"] = "watchdog"]
  /\ UNCHANGED <<cpc, opened, watched, running, note, timer, threadVars, data, fw,
                 lpm_wake_deasserted, recent_activity_flag>>

StartLowPowerWatchdog ==
  /\ pc["init"] = "watchdog"
  /\ ConfigureTimeout(known)
  /\ pc' = [pc EXCEPT !["init"] = "idle"]
  /\ UNCHANGED <<cpc, opened, watched, running, threadVars, data, fw, lpmVars>>
-----------------------------------------------------------------------------
(* ThreadRoutine.                                                          *)

Round ==
  /\ w = "loop"
  /\ w' = IF running THEN "fds" ELSE "ended"
  /\ UNCHANGED <<cpc, opened, watched, running, note, timer, watching, timed, data, pc, fw,
                 lpmVars>>

(* The descriptors are read without the lock WatchFd takes: the only one   *)
(* that can be added meanwhile is seen or is not.                          *)
ReadFds ==
  /\ w = "fds"
  /\ watching' = watched /\ w' = "timeout"
  /\ UNCHANGED <<cpc, opened, watched, running, note, timer, timed, data, pc, fw, lpmVars>>

(* So is the timeout, without its lock: the last thing before select().    *)
ReadTimeout ==
  /\ w = "timeout"
  /\ timed' = (timer = "idle") /\ w' = "select"
  /\ UNCHANGED <<cpc, opened, watched, running, note, timer, watching, data, pc, fw, lpmVars>>

(* The pipe first: a round that was notified reads no data.                *)
ReadNote ==
  /\ w = "select" /\ note > 0
  /\ note' = note - 1 /\ w' = "loop"
  /\ UNCHANGED <<cpc, opened, watched, running, timer, watching, timed, data, pc, fw, lpmVars>>

(* The callbacks of all descriptors that are ready.                        *)
ReadData ==
  /\ w = "select" /\ note = 0 /\ data \cap watching # {}
  /\ data' = data \ watching /\ w' = "loop"
  /\ UNCHANGED <<cpc, opened, watched, running, note, timer, watching, timed, pc, fw, lpmVars>>

(* select() times out; the timeout may have been taken back meanwhile.     *)
Expire ==
  /\ w = "select" /\ timed /\ note = 0 /\ data \cap watching = {}
  /\ w' = IF timer = "idle" THEN "expired" ELSE "loop"
  /\ UNCHANGED <<cpc, opened, watched, running, note, timer, watching, timed, data, pc, fw,
                 lpmVars>>

(* OnTimeout.                                                              *)
TimeoutTest ==
  /\ w = "expired"
  /\ w' = IF recent_activity_flag THEN "clear" ELSE "deassert"
  /\ UNCHANGED <<cpc, opened, watched, running, note, timer, watching, timed, data, pc, fw,
                 lpmVars>>

TimeoutDeassert ==
  /\ w = "deassert"
  /\ lpm_wake_deasserted' = TRUE /\ w' = "disarm"
  /\ UNCHANGED <<cpc, opened, watched, running, note, timer, watching, timed, data, pc, fw,
                 recent_activity_flag, known>>

TimeoutDisarm ==
  /\ w = "disarm"
  /\ ConfigureTimeout(FALSE)
  /\ w' = "clear"
  /\ UNCHANGED <<cpc, opened, watched, running, watching, timed, data, pc, fw, lpmVars>>

(* Variant: the activity of the last period counts for ever.               *)
TimeoutKeep ==
  /\ w = "clear"
  /\ w' = "loop"
  /\ UNCHANGED <<cpc, opened, watched, running, note, timer, watching, timed, data, pc, fw,
                 lpmVars>>

TimeoutClear ==
  /\ w = "clear"
  /\ recent_activity_flag' = FALSE /\ w' = "loop"
  /\ UNCHANGED <<cpc, opened, watched, running, note, timer, watching, timed, data, pc, fw,
                 lpm_wake_deasserted, known>>
-----------------------------------------------------------------------------
(* The controller has something to say.                                    *)
DataArrives(fd) ==
  /\ cpc \in {"watch", "open"} /\ fd \notin data
  /\ data' = data \cup {fd}
  /\ UNCHANGED <<cpc, opened, watched, running, note, timer, threadVars, pc, fw, lpmVars>>

ApiNext == WatchFd \/ StartFirmware \/ Stopped \/ Closed
SendNext(a) == SendFlag(a) \/ SendTest(a) \/ SendArm(a) \/ SendAssert(a)
ReportNext == Tell \/ Configured \/ StartLowPowerWatchdog
ThreadRoutine ==
  \/ Round
  \/ ReadFds
  \/ ReadTimeout
  \/ ReadNote
  \/ ReadData
  \/ Expire
  \/ TimeoutTest
  \/ TimeoutDeassert
  \/ TimeoutDisarm
  \/ TimeoutClear

Step ==
  \/ ApiNext
  \/ Stop
  \/ \E a \in Actors : SendStart(a) \/ SendNext(a)
  \/ ReportNext
  \/ ThreadRoutine
  \/ \E fd \in FdSet : DataArrives(fd)

(* raced starts anew with each session.                                    *)
History == raced' = (cpc' # "closed" /\ (raced \/ Overlap'))

WatcherNext == Step /\ History

WatcherSpec == WatcherInit /\ [][WatcherNext]_watcherVars

(* Calls that have begun go on, the init thread ends (FwInit: the answers  *)
(* come or Close terminates it), the real-time watcher thread runs, and a  *)
(* select() that nothing else ends times out.                              *)
WatcherFairSpec ==
  /\ WatcherSpec
  /\ WF_watcherVars(ApiNext /\ History)
  /\ \A a \in Actors : WF_watcherVars(SendNext(a) /\ History)
  /\ SF_watcherVars(ReportNext /\ History)
  /\ WF_watcherVars(ThreadRoutine /\ History)
-----------------------------------------------------------------------------
(* Types, with the bytes the pipe may hold: two of each actor (the rest of *)
(* a Send that was about to restart the timer when it expired, and the     *)
(* next Send, which OnTimeout lets restart it again, all before the thread *)
(* reads the pipe), one of the report, of OnTimeout and of stopThread.     *)
WatcherTypeOK ==
  /\ cpc \in {"closed", "watch", "open", "join", "wait"}
  /\ opened \in 0..Len(Fds) /\ watched \subseteq FdSet /\ data \subseteq FdSet
  /\ running \in BOOLEAN /\ timer \in {"off", "idle"}
  /\ note \in 0..(2 * Cardinality(Actors) + 3)
  /\ w \in {"none", "loop", "fds", "timeout", "select", "ended"} \cup TimeoutPc
  /\ watching \subseteq FdSet /\ timed \in BOOLEAN
  /\ pc \in [Actors -> SendPc \cup {"idle", "busy", "told", "watchdog"}]
  /\ fw \in {"none", "failed", "started", "sent", "ok", "bad"}
  /\ lpm_wake_deasserted \in BOOLEAN /\ recent_activity_flag \in BOOLEAN
  /\ known \in BOOLEAN /\ raced \in BOOLEAN

(* At rest, wake is asserted only with the idle timer running, so that     *)
(* somebody will deassert it - unless a Send of this session ran into an   *)
(* OnTimeout, between whose statements it may arm the timer that OnTimeout *)
(* then stops.                                                             *)
AtRest ==
  /\ cpc = "open" /\ w \in {"loop", "fds", "timeout", "select"}
  /\ \A a \in Actors : pc[a] = "idle"
IdleTimerRuns == AtRest => lpm_wake_deasserted \/ timer = "idle" \/ raced

(* A client that restarts the timer does so with the library's timeout, in *)
(* the first session of the process too, where it may be in Send before    *)
(* the report has set it: the init thread's commands left wake asserted.   *)
ArmedKnown == \A s \in Senders : pc[s] = "arm" => known

(* A thread that goes into select() with something stale - it is to end, a *)
(* timeout was set, a descriptor added since it looked - has a byte in its *)
(* pipe to wake it.  For a new descriptor only, Open and the init thread,  *)
(* whose report notifies it at the latest, may still be on their way; and  *)
(* a configuration that failed without a thread leaves nobody to do so.    *)
NoLostWakeUp ==
  note = 0 =>
    /\ w \in {"fds", "timeout", "select"} => running
    /\ w \in {"timeout", "select"} =>
         watched \subseteq watching \/ cpc = "watch" \/ pc["init"] # "idle" \/ fw = "failed"
    /\ w = "select" /\ timer = "idle" => timed

(* The pipe stays within its bound, a timer is there to release wake, and  *)
(* the thread learns of whatever changes.                                  *)
WatcherInv == WatcherTypeOK /\ IdleTimerRuns /\ ArmedKnown /\ NoLostWakeUp

(* Data on any descriptor is read, the second one's too, which Open adds   *)
(* while the thread may already wait for the first one alone: the first    *)
(* Send or the report of the firmware init notifies the thread in time.    *)
(* Only where that init failed before its thread existed may the second    *)
(* descriptor stay unwatched, until the session ends.                      *)
DataIsRead ==
  \A fd \in FdSet : fd \in data ~> fd \notin data \/ (fw = "failed" /\ fd # Fds[1])

(* When client and controller have nothing more to say, wake is            *)
(* deasserted and stays so (or the session ends, or a race spoilt it).     *)
Quiet == data = {} /\ \A a \in Actors : pc[a] = "idle"
WakeIsReleased == <>[]Quiet => <>[](cpc = "open" => lpm_wake_deasserted \/ raced)
=============================================================================
