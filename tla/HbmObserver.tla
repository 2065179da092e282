------------------------------ MODULE HbmObserver ------------------------------
(***************************************************************************)
(* XiaomiParts: who switches the panel's high brightness mode (HBM) for    *)
(* the under-display fingerprint sensor.                                   *)
(*                                                                         *)
(* SystemUI's UdfpsView publishes two settings: udfps_view_state (it is    *)
(* attached) and udfps_need_hbm (it is visible).  In DozeService, on the   *)
(* main thread, HBMObserver turns HBM off at once when it is not needed    *)
(* and starts a thread that turns it on 230 ms later; enableHBMDelayed     *)
(* starts such threads of its own when the screen goes on or a doze pulse  *)
(* is launched.  The fingerprint HAL writes the same node when the overlay *)
(* is hidden, and so do the user's switch and the receiver of the boot's   *)
(* end.  No lock orders the writers.  The service is created and destroyed *)
(* as the user's doze switch asks, with an observer of its own each time;  *)
(* what was posted to an earlier one still reaches it.                     *)
(***************************************************************************)
EXTENDS Integers

CONSTANTS
  Threads,     \* names for threads, reused once dead (bound: how many live at once)
  Observers,   \* names for the observers of successive services, reused when
               \* nothing waits for one (bound: how many live at once)
  MaxPending   \* change notifications of one observer waiting for the main thread

NoThread == "null"
NoObserver == "null"
ASSUME ObserversAssumption == NoObserver \notin Observers
ASSUME ThreadsAssumption == NoThread \notin Threads /\ MaxPending \in Nat \ {0}

VARIABLES
  view, need,  \* the settings udfps_view_state and udfps_need_hbm
  node,        \* what the display node was last told: HBM "on" or "off"
  booted,      \* the end of the boot was announced
  app,         \* the app process: "up" or "down"
  hbmObserver, \* the registered observer, while there is a service
  pending,     \* of each: notifications of udfps_need_hbm posted to its handler
  onChange,    \* HBMObserver.onChange is at "idle", "off", "interrupt", "on", ...
  running,     \* ... of this observer
  mThread,     \* HBMObserver.mThread of each
  kind,        \* "observer": started by onChange, "delayed": by enableHBMDelayed
  st,          \* of a thread: "dead", "sleep", "read", "on"/"off" (about to write)
  excused      \* HBM was turned on after the need for it had ended, or the
               \* service was not there to hear of the end

settings == <<view, need>>
threads  == <<kind, st>>
process  == <<booted, app, hbmObserver>>
observer == <<pending, onChange, running, mThread>>
hbmVars == <<settings, node, process, observer, threads, excused>>

Alive(t) == t # NoThread /\ st[t] # "dead"
-----------------------------------------------------------------------------
HbmInit ==
  /\ view = 0 /\ need = 0 /\ node = "off"
  /\ booted = FALSE /\ app = "down" /\ hbmObserver = NoObserver
  /\ pending = [o \in Observers |-> 0] /\ mThread = [o \in Observers |-> NoThread]
  /\ onChange = "idle" /\ running = NoObserver
  /\ kind = [t \in Threads |-> "observer"] /\ st = [t \in Threads |-> "dead"]
  /\ excused = FALSE

(* SystemUI: the view is attached, shown and hidden, and detached; being   *)
(* detached hides it first.                                                *)
SetView(v) ==
  /\ view # v /\ need = 0
  /\ view' = v
  /\ UNCHANGED <<need, node, process, observer, threads, excused>>

(* A change is notified to a service that is there to hear it.             *)
SetNeed(v) ==
  /\ need # v /\ (v = 1 => view = 1)
  /\ need' = v
  /\ IF hbmObserver = NoObserver
     THEN UNCHANGED pending
     ELSE /\ pending[hbmObserver] < MaxPending
          /\ pending' = [pending EXCEPT ![hbmObserver] = @ + 1]
  /\ excused' = (v = 0 /\ hbmObserver = NoObserver)
  /\ UNCHANGED <<view, node, process, onChange, running, mThread, threads>>

(* The fingerprint HAL, onHideUdfpsOverlay.                                *)
HideOverlay ==
  /\ node = "on"
  /\ node' = "off" /\ excused' = FALSE
  /\ UNCHANGED <<settings, process, observer, threads>>

(* The end of the boot: the node is set as the user's switch was last.     *)
BootCompleted(v) ==
  /\ ~booted /\ booted' = TRUE /\ app' = "up"
  /\ node' = v /\ excused' = (v = "on" /\ need = 0)
  /\ UNCHANGED <<settings, hbmObserver, observer, threads>>

(* The user's switch in DisplaySettingsFragment; the tile, which flips the *)
(* same preference with other commands, may have been used in between.     *)
UserSwitch(v) ==
  /\ app = "up" /\ onChange = "idle"
  /\ node' = v /\ excused' = (v = "on" /\ need = 0)
  /\ UNCHANGED <<settings, process, observer, threads>>
-----------------------------------------------------------------------------
(* The service process dies with its threads and what was posted to it.    *)
Crash ==
  /\ app' = "down" /\ hbmObserver' = NoObserver
  /\ pending' = [o \in Observers |-> 0] /\ mThread' = [o \in Observers |-> NoThread]
  /\ onChange' = "idle" /\ running' = NoObserver
  /\ st' = [t \in Threads |-> "dead"]
  /\ kind' = [t \in Threads |-> "observer"]
  /\ excused' = (need = 0)
  /\ UNCHANGED <<settings, node, booted>>

(* Another part of the app throws, or Android ends it.                     *)
AppDies == app = "up" /\ Crash

(* START_STICKY: Android starts the process again for the service.         *)
Revive ==
  /\ booted /\ app = "down"
  /\ app' = "up"
  /\ UNCHANGED <<settings, node, booted, hbmObserver, observer, threads, excused>>

(* Nothing can reach this observer any more.                               *)
Unreachable(o) == o # hbmObserver /\ o # running /\ pending[o] = 0

(* DozeService.onCreate registers a new observer; it does not look at the  *)
(* settings.                                                               *)
RegisterObserver(o) ==
  /\ app = "up" /\ onChange = "idle" /\ hbmObserver = NoObserver
  /\ Unreachable(o)
  /\ hbmObserver' = o /\ mThread' = [mThread EXCEPT ![o] = NoThread]
  /\ UNCHANGED <<settings, node, booted, app, pending, onChange, running, threads, excused>>

(* onDestroy unregisters it; its threads and what was posted to it go on.  *)
UnregisterObserver ==
  /\ onChange = "idle" /\ hbmObserver # NoObserver
  /\ hbmObserver' = NoObserver
  /\ UNCHANGED <<settings, node, booted, app, observer, threads, excused>>

(* A new thread, which begins with its sleep.  Its name is not one that an *)
(* observer remembers, but for the one that is about to forget it.         *)
StartThread(t, k) ==
  /\ st[t] = "dead" /\ \A o \in Observers \ {running} : t = mThread[o] => Unreachable(o)
  /\ st' = [st EXCEPT ![t] = "sleep"]
  /\ kind' = [kind EXCEPT ![t] = k]

(* ACTION_SCREEN_ON, or a doze pulse: enableHBMDelayed.                    *)
EnableHBMDelayed(t) ==
  /\ app = "up" /\ onChange = "idle" /\ view = 1
  /\ StartThread(t, "delayed")
  /\ UNCHANGED <<settings, node, process, observer, excused>>

(* HBMObserver.onChange reads the setting as it is now.                    *)
OnChange(o) ==
  /\ onChange = "idle" /\ pending[o] > 0
  /\ pending' = [pending EXCEPT ![o] = @ - 1]
  /\ onChange' = (IF need = 0 THEN "off" ELSE "on") /\ running' = o
  /\ UNCHANGED <<settings, node, process, mThread, threads, excused>>

Return == onChange' = "idle" /\ running' = NoObserver

(* Variant: onChange leaves it to the thread to turn HBM off.              *)
SkipTurnOff ==
  /\ onChange = "off"
  /\ onChange' = "interrupt"
  /\ UNCHANGED <<settings, node, process, pending, running, mThread, threads, excused>>

TurnOff ==
  /\ onChange = "off"
  /\ node' = "off" /\ onChange' = "interrupt" /\ excused' = FALSE
  /\ UNCHANGED <<settings, process, pending, running, mThread, threads>>

(* interrupt() ends a thread that sleeps, or has yet to; past its sleep    *)
(* nothing looks at the flag any more.  A dead mThread is kept.            *)
Interrupt ==
  LET t == mThread[running] IN
  /\ onChange = "interrupt" /\ Return
  /\ mThread' = IF Alive(t) THEN [mThread EXCEPT ![running] = NoThread] ELSE mThread
  /\ st' = IF Alive(t) /\ st[t] = "sleep" THEN [st EXCEPT ![t] = "dead"] ELSE st
  /\ UNCHANGED <<settings, node, process, pending, kind, excused>>

(* Variant: only a null mThread is replaced and started.                   *)
TurnOnIfNull(t) ==
  /\ onChange = "on" /\ Return
  /\ IF mThread[running] = NoThread
     THEN StartThread(t, "observer") /\ mThread' = [mThread EXCEPT ![running] = t]
     ELSE UNCHANGED <<threads, mThread>>
  /\ UNCHANGED <<settings, node, process, pending, excused>>

(* No live thread: a new one is created and started.                       *)
TurnOnLater(t) ==
  /\ onChange = "on" /\ Return
  /\ ~Alive(mThread[running])
  /\ StartThread(t, "observer")
  /\ mThread' = [mThread EXCEPT ![running] = t]
  /\ UNCHANGED <<settings, node, process, pending, excused>>

(* A live one is started again: IllegalThreadStateException, uncaught on   *)
(* the main thread.                                                        *)
StartTwice == onChange = "on" /\ Alive(mThread[running]) /\ Crash
-----------------------------------------------------------------------------
(* A thread's run().                                                       *)
WakeUp(t) ==
  /\ st[t] = "sleep"
  /\ st' = [st EXCEPT ![t] = "read"]
  /\ UNCHANGED <<settings, node, process, observer, kind, excused>>

(* It reads the setting again; a delayed thread only ever turns HBM on.    *)
ReadNeed(t) ==
  /\ st[t] = "read"
  /\ st' = [st EXCEPT ![t] = IF need = 1 THEN "on"
                             ELSE IF kind[t] = "observer" THEN "off" ELSE "dead"]
  /\ UNCHANGED <<settings, node, process, observer, kind, excused>>

WriteNode(t) ==
  /\ st[t] \in {"on", "off"}
  /\ node' = st[t]
  /\ excused' = (st[t] = "on" /\ need = 0)
  /\ st' = [st EXCEPT ![t] = "dead"]
  /\ UNCHANGED <<settings, process, observer, kind>>
-----------------------------------------------------------------------------
MainNext ==
  \/ \E o \in Observers : OnChange(o)
  \/ TurnOff
  \/ Interrupt
  \/ \E t \in Threads : TurnOnLater(t)
  \/ StartTwice
RunNext(t) == WakeUp(t) \/ ReadNeed(t) \/ WriteNode(t)

HbmNext ==
  \/ \E v \in {0, 1} : SetView(v) \/ SetNeed(v)
  \/ HideOverlay
  \/ \E v \in {"on", "off"} : BootCompleted(v) \/ UserSwitch(v)
  \/ AppDies
  \/ Revive
  \/ \E o \in Observers : RegisterObserver(o)
  \/ UnregisterObserver
  \/ \E t \in Threads : EnableHBMDelayed(t)
  \/ MainNext
  \/ \E t \in Threads : RunNext(t)

HbmSpec == HbmInit /\ [][HbmNext]_hbmVars

(* The looper and every thread run on, and Android restarts the service.   *)
HbmFairSpec ==
  /\ HbmSpec /\ WF_hbmVars(MainNext) /\ WF_hbmVars(Revive)
  /\ \A t \in Threads : WF_hbmVars(RunNext(t))
-----------------------------------------------------------------------------
(* Every variable has its type, and the thread an observer remembers is    *)
(* one of those that turn HBM off again when it is no longer needed.       *)
HbmTypeOK ==
  /\ view \in {0, 1} /\ need \in {0, 1}
  /\ node \in {"on", "off"}
  /\ booted \in BOOLEAN /\ app \in {"up", "down"}
  /\ hbmObserver \in Observers \cup {NoObserver} /\ running \in Observers \cup {NoObserver}
  /\ pending \in [Observers -> 0..MaxPending]
  /\ onChange \in {"idle", "off", "interrupt", "on"}
  /\ onChange = "idle" <=> running = NoObserver
  /\ mThread \in [Observers -> Threads \cup {NoThread}]
  /\ \A o \in Observers : mThread[o] # NoThread /\ ~Unreachable(o) => kind[mThread[o]] = "observer"
  /\ kind \in [Threads -> {"observer", "delayed"}]
  /\ st \in [Threads -> {"dead", "sleep", "read", "on", "off"}]
  /\ excused \in BOOLEAN

(* Nothing of onChange is left to do.                                      *)
Handled == (\A o \in Observers : pending[o] = 0) /\ onChange \in {"idle", "interrupt"}

(* When every change has been handled and HBM is not needed, it is off,    *)
(* except in the ways the unordered writers allow: a thread that read the  *)
(* setting before the need ended wrote after it, the user or the end of    *)
(* the boot switched it on since, or there was no service when the need    *)
(* ended.  A service that is replaced meanwhile leaves nothing unhandled.  *)
OnlyExcusedLeftOn == Handled /\ need = 0 /\ node = "on" => excused

(* HBM is left on for the named reasons only, whatever mThread refers to.  *)
HbmInv == HbmTypeOK /\ OnlyExcusedLeftOn

(* A notification that finds HBM needed leads to HBM on, by whichever      *)
(* observer it was posted to, unless the need ends first or the service    *)
(* crashes.                                                                *)
NeedIsServed ==
  (\E o \in Observers : pending[o] > 0) /\ need = 1 ~> node = "on" \/ need = 0 \/ app = "down"
=============================================================================
