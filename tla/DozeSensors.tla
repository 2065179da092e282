------------------------------- MODULE DozeSensors -------------------------------
(***************************************************************************)
(* XiaomiParts: DozeService and the two sensors that launch doze pulses.   *)
(*                                                                         *)
(* Everything of the app runs on its main thread, one message after the    *)
(* other, but for the sensors' executors: each sensor object of each       *)
(* service instance registers and unregisters itself on a thread of its    *)
(* own.  Preferences are read when the screen goes on or off, not when     *)
(* they change; the service is started and stopped by the setting that     *)
(* enables doze.                                                           *)
(***************************************************************************)
EXTENDS Naturals, Sequences

CONSTANTS
  Instances,    \* names for service instances, reused when nothing of them is left
  Gestures,     \* some of the three gestures with a preference
  MaxMain,      \* messages waiting for the main thread, a bound of the model
  MaxTasks      \* tasks of an executor when the screen goes on or off, likewise

None == "null"
GestureSensor == [pick_up |-> "pickup", hand_wave |-> "proximity", pocket |-> "proximity"]
Sensors == { GestureSensor[g] : g \in Gestures }

ASSUME InstanceAssumption == None \notin Instances
ASSUME GestureAssumption == Gestures \subseteq DOMAIN GestureSensor
ASSUME BoundAssumption == MaxMain \in Nat /\ MaxTasks \in Nat

VARIABLES
  proc,        \* the process of XiaomiParts: "up" or "down"
  screen,      \* "on" or "off"
  doze,        \* the setting doze_enabled
  gesture,     \* the preferences of the gestures
  started,     \* Android has started the service and not stopped it
  main,        \* messages for the main thread
  cur,         \* the service instance that was created, or None
  executor,    \* tasks of a sensor object's thread
  listening,   \* its listener is registered
  reported,    \* what a proximity listener was last told since it registered
  mSawNear,    \* the last value, of an earlier registration too, was near
  raced,       \* history: sensors no longer wanted since a preference changed
               \* while the notice that the screen is on was on its way
  stale        \* history: listeners that were unregistered near

sensorVars == <<executor, listening, reported, stale, mSawNear>>
vars == <<proc, screen, doze, gesture, started, main, cur, sensorVars, raced>>

Each(v) == [i \in Instances |-> v]
EachSensor(v) == [i \in Instances |-> [s \in Sensors |-> v]]

(* Some gesture of the sensor is enabled.                                  *)
Wanted(s, prefs) == \E g \in Gestures : GestureSensor[g] = s /\ prefs[g]
-----------------------------------------------------------------------------
Init ==
  /\ proc = "up" /\ screen = "on"
  /\ doze \in BOOLEAN /\ gesture = [g \in Gestures |-> FALSE]
  /\ started = TRUE /\ main = <<"create">> /\ cur = None
  /\ executor = EachSensor(<<>>) /\ listening = EachSensor(FALSE)
  /\ reported = Each("none") /\ stale = Each(FALSE)
  /\ mSawNear = Each(FALSE)
  /\ raced = [s \in Sensors |-> FALSE]

Room == Len(main) < MaxMain
KeepsUp == \A i \in Instances, s \in Sensors : Len(executor[i][s]) < MaxTasks

(* Android's side of startService and stopService: one instance at a time. *)
StartService(queue) ==
  started' = TRUE /\ main' = IF started THEN queue ELSE Append(queue, "create")
StopService(queue) ==
  started' = FALSE /\ main' = IF started THEN Append(queue, "destroy") ELSE queue

CheckDozeService(enabled, queue) == IF enabled THEN StartService(queue) ELSE StopService(queue)
-----------------------------------------------------------------------------
(* The power button, a timeout, ...; broadcast to the receiver of the      *)
(* instance there is.                                                      *)
Toggle(to) ==
  /\ Room /\ KeepsUp /\ screen # to
  /\ screen' = to
  /\ main' = IF cur = None THEN main ELSE Append(main, to)
  /\ UNCHANGED <<proc, doze, gesture, started, cur, sensorVars, raced>>

(* DozeSettingsFragment: the preference of a gesture is changed, and the   *)
(* service looked after by a message of its own.                           *)
OnPreferenceChange(g) ==
  LET changed == [gesture EXCEPT ![g] = ~@] IN
  /\ Room /\ screen = "on" /\ doze
  /\ gesture' = changed
  /\ main' = Append(main, "check")
  /\ raced' = [s \in Sensors |->
       \/ raced[s]
       \/ Wanted(s, gesture) /\ ~Wanted(s, changed) /\ (\E k \in DOMAIN main : main[k] = "on")]
  /\ UNCHANGED <<proc, screen, doze, started, cur, sensorVars>>

(* The switch above them.                                                  *)
OnCheckedChanged ==
  /\ Room /\ screen = "on"
  /\ doze' = ~doze
  /\ CheckDozeService(~doze, main)
  /\ UNCHANGED <<proc, screen, gesture, cur, sensorVars, raced>>
-----------------------------------------------------------------------------
Submit(i, task, which) ==
  executor' = [executor EXCEPT ![i] = [s \in Sensors |->
    IF s \in which THEN Append(@[s], task) ELSE @[s]]]

NothingLeft(i) == i # cur /\ \A s \in Sensors : executor[i][s] = <<>> /\ ~listening[i][s]

(* DozeService.onCreate: new sensor objects.                               *)
OnCreate(i) ==
  /\ NothingLeft(i)
  /\ cur' = i
  /\ mSawNear' = [mSawNear EXCEPT ![i] = FALSE]
  /\ reported' = [reported EXCEPT ![i] = "none"] /\ stale' = [stale EXCEPT ![i] = FALSE]
  /\ UNCHANGED <<started, executor, listening, raced>>

(* Variant: onDestroy unregisters at once, not on the executor.            *)
OnDestroyAtOnce ==
  /\ listening' = [listening EXCEPT ![cur] = [s \in Sensors |-> FALSE]]
  /\ cur' = None /\ raced' = [s \in Sensors |-> FALSE]
  /\ UNCHANGED <<started, executor, reported, stale, mSawNear>>

(* onDestroy; the receiver goes with the instance.                         *)
OnDestroy ==
  /\ Submit(cur, "disable", Sensors)
  /\ cur' = None /\ raced' = [s \in Sensors |-> FALSE]
  /\ UNCHANGED <<started, listening, reported, stale, mSawNear>>

(* Variant: a sensor is enabled when all of its gestures are.              *)
OnDisplayOffAll ==
  /\ Submit(cur, "enable", { s \in Sensors : \A g \in Gestures : GestureSensor[g] = s => gesture[g] })
  /\ UNCHANGED <<started, cur, listening, reported, stale, mSawNear, raced>>

OnDisplayOff ==
  /\ Submit(cur, "enable", { s \in Sensors : Wanted(s, gesture) })
  /\ UNCHANGED <<started, cur, listening, reported, stale, mSawNear, raced>>

(* A sensor no gesture asks for any more is left as it is.                 *)
OnDisplayOn ==
  LET which == { s \in Sensors : Wanted(s, gesture) } IN
  /\ Submit(cur, "disable", which)
  /\ raced' = [s \in Sensors |-> raced[s] /\ s \notin which]
  /\ UNCHANGED <<started, cur, listening, reported, stale, mSawNear>>

(* A broadcast to a receiver that was unregistered is dropped when its     *)
(* message's turn comes.                                                   *)
IsBroadcast(m) == m \in {"on", "off"}
Forgotten(queue) == [k \in DOMAIN queue |-> IF IsBroadcast(queue[k]) THEN "gone" ELSE queue[k]]

(* The main thread takes the next message.                                 *)
Dispatch ==
  /\ main # <<>>
  /\ \/ Head(main) = "create" /\ (\E i \in Instances : OnCreate(i)) /\ main' = Tail(main)
     \/ Head(main) = "destroy" /\ OnDestroy /\ main' = Forgotten(Tail(main))
     \/ Head(main) = "gone" /\ main' = Tail(main) /\ UNCHANGED <<started, cur, sensorVars, raced>>
     \/ Head(main) = "off" /\ OnDisplayOff /\ main' = Tail(main)
     \/ Head(main) = "on" /\ OnDisplayOn /\ main' = Tail(main)
     \/ /\ Head(main) = "check" /\ CheckDozeService(doze, Tail(main))
        /\ UNCHANGED <<cur, sensorVars, raced>>
  /\ UNCHANGED <<proc, screen, doze, gesture>>
-----------------------------------------------------------------------------
Task(i, s, task) == executor[i][s] # <<>> /\ Head(executor[i][s]) = task

(* A sensor's thread registers the listener; a proximity sensor then       *)
(* reports its value first.                                                *)
Register(i, s) ==
  /\ Task(i, s, "enable")
  /\ listening' = [listening EXCEPT ![i][s] = TRUE]
  /\ reported' = IF s = "proximity" /\ ~listening[i][s] THEN [reported EXCEPT ![i] = "none"] ELSE reported
  /\ executor' = [executor EXCEPT ![i][s] = Tail(@)]
  /\ UNCHANGED <<proc, screen, doze, gesture, started, main, cur, mSawNear, raced, stale>>

Unregister(i, s) ==
  /\ Task(i, s, "disable")
  /\ listening' = [listening EXCEPT ![i][s] = FALSE]
  /\ executor' = [executor EXCEPT ![i][s] = Tail(@)]
  /\ stale' = IF s = "proximity" /\ listening[i][s]
              THEN [stale EXCEPT ![i] = (reported[i] = "near") \/ (reported[i] = "none" /\ @)]
              ELSE stale
  /\ UNCHANGED <<proc, screen, doze, gesture, started, main, cur, reported, mSawNear, raced>>
-----------------------------------------------------------------------------
(* ProximitySensor: a change, or the first value after registering.        *)
OnSensorChanged(i, value) ==
  /\ "proximity" \in Sensors /\ listening[i]["proximity"] /\ reported[i] # value
  /\ reported' = [reported EXCEPT ![i] = value]

(* Variant: what was seen once is not forgotten.                           *)
SawEver(i, value) == mSawNear' = [mSawNear EXCEPT ![i] = @ \/ value = "near"]

Saw(i, value) == mSawNear' = [mSawNear EXCEPT ![i] = (value = "near")]

Proximity(i, value) ==
  /\ OnSensorChanged(i, value)
  /\ Saw(i, value)
  /\ UNCHANGED <<proc, screen, doze, gesture, started, main, cur, executor, listening, stale, raced>>

(* shouldPulse: with the gesture for it, and at the right distance in time *)
(* from near, which is left out, launchDozePulse is called.                *)
MayPulse(i) ==
  mSawNear[i] /\ reported[i] # "far" /\ reported'[i] = "far" /\ Wanted("proximity", gesture)
-----------------------------------------------------------------------------
(* The process ends, and with it everything but the settings and Android's *)
(* wish for the service.                                                   *)
Die ==
  /\ proc' = "down" /\ main' = <<>> /\ cur' = None
  /\ executor' = EachSensor(<<>>) /\ listening' = EachSensor(FALSE)
  /\ reported' = Each("none") /\ stale' = Each(FALSE)
  /\ mSawNear' = Each(FALSE)
  /\ raced' = [s \in Sensors |-> FALSE]
  /\ UNCHANGED <<screen, doze, gesture, started>>

(* START_STICKY: the service is created again; it does not ask whether the *)
(* screen is off.                                                          *)
Restart ==
  /\ proc = "down" /\ proc' = "up"
  /\ main' = IF started THEN <<"create">> ELSE <<>>
  /\ UNCHANGED <<screen, doze, gesture, started, cur, sensorVars, raced>>
-----------------------------------------------------------------------------
Executor(i, s) == Register(i, s) \/ Unregister(i, s)

Step ==
  /\ proc = "up"
  /\ \/ \E to \in {"on", "off"} : Toggle(to)
     \/ \E g \in Gestures : OnPreferenceChange(g)
     \/ OnCheckedChanged
     \/ Dispatch
     \/ \E i \in Instances :
          \/ \E s \in Sensors : Executor(i, s)
          \/ \E value \in {"near", "far"} : Proximity(i, value)

Next == Step \/ (proc = "up" /\ Die) \/ Restart

Spec == Init /\ [][Next]_vars
-----------------------------------------------------------------------------
(* There is a service when the first n messages of a queue are handled,    *)
(* which starts with instance c, or with none.                             *)
ThereAfter(n, queue, c) ==
  \/ c # None /\ \A k \in 1..n : queue[k] # "destroy"
  \/ \E k \in 1..n : queue[k] = "create" /\ \A j \in (k + 1)..n : queue[j] # "destroy"

(* Types; and the service will be there as Android has it when the main    *)
(* thread has caught up.                                                   *)
TypeOK ==
  /\ proc \in {"up", "down"} /\ screen \in {"on", "off"} /\ {doze, started} \subseteq BOOLEAN
  /\ gesture \in [Gestures -> BOOLEAN] /\ cur \in Instances \cup {None}
  /\ main \in Seq({"create", "destroy", "check", "on", "off", "gone"})
  /\ listening \in [Instances -> [Sensors -> BOOLEAN]]
  /\ \A i \in Instances, s \in Sensors : executor[i][s] \in Seq({"enable", "disable"})
  /\ reported \in [Instances -> {"none", "near", "far"}]
  /\ mSawNear \in [Instances -> BOOLEAN]
  /\ proc = "up" => ThereAfter(Len(main), main, cur) = started

(* When all that was asked for is done, a service that was stopped has no  *)
(* listener left, and with the screen on none listens but a sensor whose   *)
(* last gesture was switched off before the service heard of the screen.   *)
Quiet(i) == main = <<>> /\ \A s \in Sensors : executor[i][s] = <<>>
AtRest ==
  \A i \in Instances, s \in Sensors :
    Quiet(i) /\ listening[i][s] => i = cur /\ (screen = "on" => raced[s])

(* A pulse of the proximity sensor follows a hand or a pocket it was told  *)
(* of since the screen went off, unless it was near when last disabled.    *)
PulseHasCause ==
  [][\A i \in Instances : MayPulse(i) => reported[i] = "near" \/ stale[i]]_vars

(* When the screen goes off, every sensor that is wanted listens in the    *)
(* end, unless the screen goes on, the preference changes, or the service  *)
(* ends.                                                                   *)
OffIsWatched ==
  \A s \in Sensors :
    (main # <<>> /\ Head(main) = "off" /\ Wanted(s, gesture)) ~>
      \/ cur # None /\ listening[cur][s]
      \/ screen = "on" \/ ~Wanted(s, gesture) \/ cur = None
=============================================================================
