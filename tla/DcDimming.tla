------------------------------- MODULE DcDimming -------------------------------
(***************************************************************************)
(* XiaomiParts: DC dimming (feature 20 of the display service), which must *)
(* give way to the under-display fingerprint sensor.                       *)
(*                                                                         *)
(* DisplaySettingsFragment writes the feature when the user switches it,   *)
(* and binds DozeService to tell it, which takes until onServiceConnected. *)
(* The service watches udfps_view_state while the preference is on: each   *)
(* change of the view starts a thread that sleeps 200 ms and then switches *)
(* the feature off (view attached) or on again.  Screen and service live   *)
(* and die by themselves; nothing orders the threads.                      *)
(***************************************************************************)
EXTENDS Integers, Sequences

CONSTANTS
  Instances,    \* DozeService objects of the process
  MaxPending,   \* changes of the view posted to one observer
  MaxAsleep,    \* threads between onChange and setFeature
  MaxSwitches,  \* connections that wait for onServiceConnected
  MaxReg        \* registrations of one observer that are told apart

None == "null"

ASSUME DimmingAssumption ==
  /\ None \notin Instances
  /\ {MaxPending, MaxAsleep, MaxSwitches, MaxReg} \subseteq Nat \ {0}

VARIABLES
  pref,      \* the preference dc_dimming_mode
  view,      \* the setting udfps_view_state
  feature,   \* what the display service was last told
  screen,    \* DisplaySettingsActivity: "gone", "shown", "disabled" (the switch), "closing"
  bound,     \* it holds a connection to the service
  switches,  \* values whose onServiceConnected is still to come
  svc,       \* the DozeService that lives
  reg,       \* how often each service's udfpsViewObserver is registered
  pending,   \* calls of its onChange that wait for the main thread
  asleep,    \* the flags of the threads that sleep, oldest first
  late,      \* history: so many of the oldest threads were overtaken
  lost,      \* history: services the last switch did not reach
  excused    \* history: pref on: the last to act was not a thread in its turn,
             \* pref off: a change of the view was under way

screenVars  == <<pref, screen, bound, switches>>
serviceVars == <<svc, reg, lost>>
threadVars  == <<asleep, late>>
vars == <<view, feature, screenVars, serviceVars, pending, threadVars, excused>>

Watched == \E i \in Instances : reg[i] > 0
Quiet   == asleep = <<>> /\ \A i \in Instances : pending[i] = 0
-----------------------------------------------------------------------------
(* After boot the display service knows nothing of the preference.         *)
Init ==
  /\ pref \in BOOLEAN /\ view = 0 /\ feature = 0
  /\ screen = "gone" /\ bound = FALSE /\ switches = <<>>
  /\ svc = None /\ lost = {}
  /\ reg = [i \in Instances |-> 0] /\ pending = [i \in Instances |-> 0]
  /\ asleep = <<>> /\ late = 0
  /\ excused = pref

(* The process dies; preferences, settings and the display service stay.   *)
Die ==
  /\ screen' = "gone" /\ bound' = FALSE /\ switches' = <<>>
  /\ svc' = None /\ lost' = {}
  /\ reg' = [i \in Instances |-> 0] /\ pending' = [i \in Instances |-> 0]
  /\ asleep' = <<>> /\ late' = 0
  /\ excused' = TRUE
  /\ UNCHANGED <<pref, view, feature>>

(* UdfpsView is attached or detached: every registration gets its call.    *)
SetView ==
  /\ \A i \in Instances : pending[i] + reg[i] <= MaxPending
  /\ view' = 1 - view
  /\ pending' = [i \in Instances |-> pending[i] + reg[i]]
  /\ IF Watched
     THEN /\ excused' = (excused \/ (~pref /\ (switches # <<>> \/ lost # {})))
          /\ UNCHANGED late
     ELSE excused' = (pref \/ excused) /\ late' = Len(asleep)
  /\ UNCHANGED <<feature, screenVars, serviceVars, asleep>>
-----------------------------------------------------------------------------
(* The screen.                                                             *)

(* onCreatePreferences; without a display service the switch is disabled.  *)
Show ==
  /\ screen = "gone" /\ screen' \in {"shown", "disabled"}
  /\ UNCHANGED <<view, feature, pref, bound, switches, serviceVars, pending, threadVars, excused>>

(* DisplaySettingsActivity binds the service anew for every switch.        *)
CallOnDCSwitch(value) == switches' = Append(switches, value) /\ bound' = TRUE

(* Variant: the service is only told of the switch being turned on.        *)
SwitchTellsOn ==
  /\ screen = "shown" /\ Len(switches) < MaxSwitches
  /\ pref' = ~pref
  /\ feature' = IF pref' THEN 1 ELSE 0
  /\ IF pref' THEN CallOnDCSwitch(pref') ELSE UNCHANGED <<switches, bound>>
  /\ excused' = IF pref' THEN view = 1 ELSE ~Quiet
  /\ UNCHANGED <<view, screen, serviceVars, pending, threadVars>>

(* onPreferenceChange: the feature is written and the service bound; the   *)
(* preference is stored when it returns.                                   *)
Switch ==
  /\ screen = "shown" /\ Len(switches) < MaxSwitches
  /\ pref' = ~pref
  /\ feature' = IF pref' THEN 1 ELSE 0
  /\ CallOnDCSwitch(pref')
  /\ excused' = IF pref' THEN view = 1 ELSE ~Quiet
  /\ UNCHANGED <<view, screen, serviceVars, pending, threadVars>>

(* setFeature throws: the switch is disabled, the preference stored all    *)
(* the same, and the service is not told.                                  *)
SwitchFails ==
  /\ screen = "shown" /\ screen' = "disabled"
  /\ pref' = ~pref
  /\ lost' = lost \cup (IF svc = None THEN {} ELSE {svc})
  /\ excused' = TRUE
  /\ UNCHANGED <<view, feature, bound, switches, svc, reg, pending, threadVars>>

(* The last connection is unbound and hears nothing more.                  *)
Close ==
  /\ screen \in {"shown", "disabled"} /\ screen' = "closing"
  /\ switches' = IF switches = <<>> THEN <<>> ELSE SubSeq(switches, 1, Len(switches) - 1)
  /\ lost' = lost \cup (IF switches = <<>> \/ svc = None THEN {} ELSE {svc})
  /\ UNCHANGED <<view, feature, pref, bound, svc, reg, pending, threadVars, excused>>

(* Variant: the connections outlive the screen.                            *)
CleanUpNothing ==
  /\ screen = "closing" /\ screen' = "gone"
  /\ UNCHANGED <<view, feature, pref, bound, switches, serviceVars, pending, threadVars, excused>>

(* The system drops those of the earlier switches.                         *)
CleanUp ==
  /\ screen = "closing" /\ screen' = "gone"
  /\ bound' = FALSE /\ switches' = <<>>
  /\ UNCHANGED <<view, feature, pref, serviceVars, pending, threadVars, excused>>
-----------------------------------------------------------------------------
(* The service.                                                            *)

(* onCreate: bound with BIND_AUTO_CREATE, or started for doze, by the boot *)
(* receiver or the doze settings, at any time.                             *)
OnCreate(i) ==
  /\ svc = None
  /\ reg[i] = 0 /\ pending[i] = 0
  /\ svc' = i
  /\ reg' = [reg EXCEPT ![i] = IF pref THEN 1 ELSE 0]
  /\ lost' = lost \ {i}
  /\ UNCHANGED <<view, feature, screenVars, pending, threadVars, excused>>

(* registerContentObserver adds one, unregisterContentObserver removes all. *)
Registered(n, on) == IF ~on THEN 0 ELSE IF n < MaxReg THEN n + 1 ELSE MaxReg

(* onServiceConnected, onDCSwitch.                                         *)
OnDCSwitch ==
  /\ switches # <<>> /\ svc # None
  /\ switches' = Tail(switches)
  /\ reg' = [reg EXCEPT ![svc] = Registered(@, Head(switches))]
  /\ lost' = IF Head(switches) = pref THEN lost \ {svc} ELSE lost \cup {svc}
  /\ UNCHANGED <<view, feature, pref, screen, bound, svc, pending, threadVars, excused>>

(* Variant: onDestroy leaves the observer registered.                      *)
OnDestroyRegistered ==
  /\ svc # None /\ ~bound
  /\ svc' = None
  /\ UNCHANGED <<view, feature, screenVars, reg, lost, pending, threadVars, excused>>

(* onDestroy, stopped and not bound: the observer is removed if the        *)
(* preference is on now.                                                   *)
OnDestroy ==
  /\ svc # None /\ ~bound
  /\ svc' = None
  /\ reg' = [reg EXCEPT ![svc] = IF pref THEN 0 ELSE @]
  /\ UNCHANGED <<view, feature, screenVars, lost, pending, threadVars, excused>>

(* Variant: no second thread while one sleeps.                             *)
OnChangeOnce(i) ==
  /\ pending[i] > 0 /\ Len(asleep) < MaxAsleep
  /\ pending' = [pending EXCEPT ![i] = @ - 1]
  /\ asleep' = IF asleep = <<>> THEN Append(asleep, 1 - view) ELSE asleep
  /\ UNCHANGED <<view, feature, screenVars, serviceVars, late, excused>>

(* Variant: only a view that is attached is acted upon.                    *)
OnChangeAttached(i) ==
  /\ pending[i] > 0 /\ Len(asleep) < MaxAsleep
  /\ pending' = [pending EXCEPT ![i] = @ - 1]
  /\ asleep' = IF view = 1 THEN Append(asleep, 1 - view) ELSE asleep
  /\ UNCHANGED <<view, feature, screenVars, serviceVars, late, excused>>

(* UdfpsViewObserver.onChange, also of a service that is gone: the flag is *)
(* what the view is now.                                                   *)
OnChange(i) ==
  /\ pending[i] > 0 /\ Len(asleep) < MaxAsleep
  /\ pending' = [pending EXCEPT ![i] = @ - 1]
  /\ asleep' = Append(asleep, 1 - view)
  /\ UNCHANGED <<view, feature, screenVars, serviceVars, late, excused>>
-----------------------------------------------------------------------------
(* The k-th oldest thread leaves; those before it are overtaken.           *)
Leave(k) ==
  /\ k \in DOMAIN asleep
  /\ asleep' = SubSeq(asleep, 1, k - 1) \o SubSeq(asleep, k + 1, Len(asleep))
  /\ late' = IF k > late THEN k - 1 ELSE late - 1

(* run() after its sleep.                                                  *)
SetFeature(k) ==
  /\ Leave(k)
  /\ feature' = asleep[k]
  /\ excused' = IF pref THEN k <= late ELSE excused
  /\ UNCHANGED <<view, screenVars, serviceVars, pending>>

(* getService or setFeature throws: caught and forgotten.                  *)
SetFeatureFails(k) ==
  /\ Leave(k)
  /\ excused' = TRUE
  /\ UNCHANGED <<view, feature, screenVars, serviceVars, pending>>
-----------------------------------------------------------------------------
ThreadNext == \E k \in 1..MaxAsleep : SetFeature(k) \/ SetFeatureFails(k)

Next ==
  \/ SetView
  \/ Show
  \/ Switch
  \/ SwitchFails
  \/ Close
  \/ CleanUp
  \/ \E i \in Instances : OnCreate(i) \/ OnChange(i)
  \/ OnDCSwitch
  \/ OnDestroy
  \/ ThreadNext
  \/ Die

Spec == Init /\ [][Next]_vars

(* The main looper comes to the changes posted, and the threads run on.    *)
FairSpec == Spec /\ WF_vars(\E i \in Instances : OnChange(i)) /\ WF_vars(ThreadNext)
-----------------------------------------------------------------------------
(* Every variable has its type; connections and their switches do not      *)
(* outlive the screen that made them.                                      *)
TypeOK ==
  /\ pref \in BOOLEAN /\ view \in {0, 1} /\ feature \in {0, 1}
  /\ screen \in {"gone", "shown", "disabled", "closing"}
  /\ bound \in BOOLEAN /\ (bound => screen # "gone")
  /\ switches \in Seq(BOOLEAN) /\ Len(switches) <= MaxSwitches
  /\ switches # <<>> => bound
  /\ svc \in Instances \cup {None}
  /\ reg \in [Instances -> 0..MaxReg] /\ pending \in [Instances -> 0..MaxPending]
  /\ asleep \in Seq({0, 1}) /\ Len(asleep) <= MaxAsleep /\ late \in 0..Len(asleep)
  /\ lost \subseteq Instances /\ excused \in BOOLEAN

(* With no switch on its way, the view is watched by the living service    *)
(* exactly while the preference is on, and by no other: except by services *)
(* a switch never reached, because the screen was left before              *)
(* onServiceConnected or setFeature threw.                                 *)
WatchFollowsPref ==
  switches = <<>> /\ screen # "closing" =>
    \A i \in Instances \ lost : reg[i] > 0 <=> (i = svc /\ pref)

(* With the preference on and everything done, dimming is off exactly      *)
(* while the view is attached, unless the last thread to write had been    *)
(* overtaken, a write failed, the user switched dimming on over the view,  *)
(* or nobody watched.                                                      *)
OnlyExcusedWrong == Quiet /\ pref => feature = 1 - view \/ excused

(* Switched off, dimming stays off, except for changes of the view that    *)
(* were under way or that a service saw which the switch had not reached.  *)
OffStaysOff == ~pref /\ feature = 1 => excused

(* A view whose attaching was noticed gets dimming out of its way, unless  *)
(* it is detached, a write fails or the process dies.                      *)
GivesWay ==
  view = 1 /\ (\E i \in Instances : pending[i] > 0) ~> feature = 0 \/ view = 0 \/ excused
=============================================================================
