--------------------------- MODULE DcDimming_proofs ----------------------------
(***************************************************************************)
(* Proofs about DC dimming (DcDimming): who watches the view follows the   *)
(* preference, switched off it stays off, and switched on it is wrong only *)
(* for the named reasons, for any number of services, threads, switches    *)
(* and changes of the view on their way.                                   *)
(***************************************************************************)
EXTENDS DcDimming, SequenceTheorems, TLAPS

(* What the invariant needs to know of types.                              *)
Types ==
  /\ view \in {0, 1}
  /\ svc \in Instances \cup {None}
  /\ reg \in [Instances -> Nat] /\ pending \in [Instances -> Nat]
  /\ asleep \in Seq({0, 1}) /\ late \in 0..Len(asleep)

(* A service that no switch missed is registered as the preference says,   *)
(* once no switch is on its way to it; those of a screen that closes may   *)
(* still be dropped, so it must not depend on them any more.               *)
WatchInv ==
  /\ switches # <<>> => bound
  /\ screen = "gone" => ~bound
  /\ \A i \in Instances \ lost :
       /\ i # svc => reg[i] = 0
       /\ i = svc /\ (switches = <<>> \/ screen = "closing") => (reg[i] > 0 <=> pref)

(* Switched off with nothing under way, nothing gets under way.            *)
OffInv == ~pref /\ ~excused => feature = 0 /\ Quiet

(* Once every change is noticed, the youngest thread that was not          *)
(* overtaken carries what the view is; when there is none, it has written. *)
OrderInv ==
  (\A i \in Instances : pending[i] = 0) =>
    /\ late < Len(asleep) => asleep[Len(asleep)] = 1 - view
    /\ late = Len(asleep) /\ pref /\ ~excused => feature = 1 - view

IInv == Types /\ WatchInv /\ OffInv /\ OrderInv

(* The end of a concatenation.                                             *)
LEMMA ConcatLast ==
  ASSUME NEW a \in Seq({0, 1}), NEW b \in Seq({0, 1})
  PROVE  /\ a \o b \in Seq({0, 1}) /\ Len(a \o b) = Len(a) + Len(b)
         /\ Len(b) > 0 => (a \o b)[Len(a \o b)] = b[Len(b)]
  OBVIOUS

(* A part before the k-th element of s and the part behind it.             *)
LEMMA Parts ==
  ASSUME NEW s \in Seq({0, 1}), NEW k \in 1..Len(s),
         NEW a \in Seq({0, 1}), NEW b \in Seq({0, 1}), NEW r,
         Len(a) = k - 1, Len(b) = Len(s) - k,
         \A i \in 1..Len(b) : b[i] = s[k + i],
         Len(r) = Len(a) + Len(b), Len(b) > 0 => r[Len(r)] = b[Len(b)]
  PROVE  /\ Len(r) = Len(s) - 1
         /\ k < Len(s) => r[Len(r)] = s[Len(s)]
<1>1. Len(s) \in Nat /\ Len(b) \in Nat /\ Len(a) \in Nat /\ k \in Nat
  OBVIOUS
<1>2. Len(r) = Len(s) - 1
  BY <1>1
<1>3. ASSUME k < Len(s) PROVE r[Len(r)] = s[Len(s)]
  <2>1. Len(b) \in 1..Len(b) /\ k + Len(b) = Len(s) /\ Len(b) > 0
    BY <1>1, <1>3
  <2> QED
    BY <2>1
<1> QED
  BY <1>2, <1>3

(* What is left of a sequence without its k-th element.                    *)
LEMMA Without ==
  ASSUME NEW s \in Seq({0, 1}), NEW k \in 1..Len(s)
  PROVE  LET r == SubSeq(s, 1, k - 1) \o SubSeq(s, k + 1, Len(s)) IN
         /\ r \in Seq({0, 1})
         /\ Len(r) = Len(s) - 1
         /\ k < Len(s) => r[Len(r)] = s[Len(s)]
<1> DEFINE a == SubSeq(s, 1, k - 1)
           b == SubSeq(s, k + 1, Len(s))
           r == a \o b
<1>1. \A i \in 1..Len(s) : s[i] \in {0, 1}
  OBVIOUS
<1>2. a \in Seq({0, 1}) /\ Len(a) = k - 1
  BY <1>1, SubSeqProperties
<1>3. /\ b \in Seq({0, 1}) /\ Len(b) = Len(s) - k
      /\ \A i \in 1..Len(b) : b[i] = s[k + i]
  BY <1>1, SubSeqProperties
<1> HIDE DEF a, b
<1>4. /\ r \in Seq({0, 1}) /\ Len(r) = Len(a) + Len(b)
      /\ Len(b) > 0 => r[Len(r)] = b[Len(b)]
  BY <1>2, <1>3, ConcatLast
<1> HIDE DEF r
<1>5. /\ Len(r) = Len(s) - 1
      /\ k < Len(s) => r[Len(r)] = s[Len(s)]
  BY <1>2, <1>3, <1>4, Parts
<1> QED
  BY <1>4, <1>5 DEF r, a, b

(* A thread leaves: one less, and fewer overtaken than are left.           *)
LEMMA LeaveStep ==
  ASSUME Types, NEW k \in 1..MaxAsleep, Leave(k)
  PROVE  /\ k \in 1..Len(asleep)
         /\ asleep' \in Seq({0, 1}) /\ Len(asleep') = Len(asleep) - 1
         /\ late' \in 0..Len(asleep')
         /\ k < Len(asleep) => asleep'[Len(asleep')] = asleep[Len(asleep)]
         /\ asleep[k] \in {0, 1}
<1>1. k \in 1..Len(asleep)
  BY DEF Leave, Types
<1>2. /\ asleep' \in Seq({0, 1}) /\ Len(asleep') = Len(asleep) - 1
      /\ k < Len(asleep) => asleep'[Len(asleep')] = asleep[Len(asleep)]
  BY <1>1, Without DEF Leave, Types
<1>3. late' \in 0..Len(asleep')
  <2>1. late' = IF k > late THEN k - 1 ELSE late - 1
    BY DEF Leave
  <2>2. late \in 0..Len(asleep) /\ Len(asleep) \in Nat
    BY DEF Types
  <2> QED
    BY <1>1, <1>2, <2>1, <2>2
<1>4. asleep[k] \in {0, 1}
  BY <1>1 DEF Types
<1> QED
  BY <1>1, <1>2, <1>3, <1>4

LEMMA InitInv == Init => IInv
<1> SUFFICES ASSUME Init PROVE IInv
  OBVIOUS
<1> QED
  BY DimmingAssumption DEF Init, IInv, Types, WatchInv, OffInv, OrderInv, Quiet

(* An observer is registered after an "on" and only then.                  *)
LEMMA RegisteredType ==
  ASSUME NEW n \in Nat, NEW on
  PROVE  /\ Registered(n, on) \in Nat /\ (Registered(n, on) > 0 <=> on)
         /\ Registered(n, on) <= MaxReg
  BY DimmingAssumption DEF Registered

(* The types survive every step.                                           *)
LEMMA TypesStep == IInv /\ [Next]_vars => Types'
<1> SUFFICES ASSUME Types, [Next]_vars PROVE Types'
  BY DEF IInv
<1> USE DEF Types, screenVars, serviceVars, threadVars
<1>1. CASE Die
  BY <1>1 DEF Die
<1>2. CASE SetView
  BY <1>2 DEF SetView
<1>3. CASE Show
  BY <1>3 DEF Show
<1>4. CASE Switch
  BY <1>4 DEF Switch
<1>5. CASE SwitchFails
  BY <1>5 DEF SwitchFails
<1>6. CASE Close
  BY <1>6 DEF Close
<1>7. CASE CleanUp
  BY <1>7 DEF CleanUp
<1>8. ASSUME NEW i \in Instances, OnCreate(i) PROVE Types'
  BY <1>8 DEF OnCreate
<1>9. ASSUME NEW i \in Instances, OnChange(i) PROVE Types'
  BY <1>9 DEF OnChange
<1>10. CASE OnDCSwitch
  BY <1>10, RegisteredType DEF OnDCSwitch
<1>11. CASE OnDestroy
  BY <1>11 DEF OnDestroy
<1>12. ASSUME NEW k \in 1..MaxAsleep, SetFeature(k) PROVE Types'
  BY <1>12, LeaveStep DEF SetFeature
<1>13. ASSUME NEW k \in 1..MaxAsleep, SetFeatureFails(k) PROVE Types'
  BY <1>13, LeaveStep DEF SetFeatureFails
<1>14. CASE UNCHANGED vars
  BY <1>14 DEF vars
<1> QED
  BY <1>1, <1>2, <1>3, <1>4, <1>5, <1>6, <1>7, <1>8, <1>9, <1>10, <1>11, <1>12,
     <1>13, <1>14 DEF Next, ThreadNext

(* So does the bond between preference and watching.                       *)
LEMMA WatchStep == IInv /\ [Next]_vars => WatchInv'
<1> SUFFICES ASSUME Types, WatchInv, [Next]_vars PROVE WatchInv'
  BY DEF IInv
<1> USE DEF WatchInv, Types, screenVars, serviceVars, threadVars
<1>1. CASE Die
  BY <1>1, DimmingAssumption DEF Die
<1>2. CASE SetView
  BY <1>2 DEF SetView
<1>3. CASE Show
  BY <1>3 DEF Show
<1>4. CASE Switch
  BY <1>4 DEF Switch, CallOnDCSwitch
<1>5. CASE SwitchFails
  <2>1. CASE svc = None
    BY <1>5, <2>1, DimmingAssumption DEF SwitchFails
  <2>2. CASE svc # None
    BY <1>5, <2>2 DEF SwitchFails
  <2> QED
    BY <2>1, <2>2
<1>6. CASE Close
  <2>1. CASE switches = <<>> \/ svc = None
    BY <1>6, <2>1, DimmingAssumption DEF Close
  <2>2. CASE switches # <<>> /\ svc # None
    BY <1>6, <2>2 DEF Close
  <2> QED
    BY <2>1, <2>2
<1>7. CASE CleanUp
  BY <1>7 DEF CleanUp
<1>8. ASSUME NEW j \in Instances, OnCreate(j) PROVE WatchInv'
  <2>1. /\ svc = None /\ svc' = j /\ reg[j] = 0 /\ lost' = lost \ {j}
        /\ UNCHANGED <<pref, screen, bound, switches>>
        /\ \A i \in Instances : i # j => reg'[i] = reg[i]
        /\ reg'[j] = IF pref THEN 1 ELSE 0
    BY <1>8 DEF OnCreate
  <2> QED
    BY <2>1, DimmingAssumption
<1>9. ASSUME NEW i \in Instances, OnChange(i) PROVE WatchInv'
  BY <1>9 DEF OnChange
<1>10. CASE OnDCSwitch
  <2>1. /\ svc \in Instances /\ switches # <<>> /\ UNCHANGED <<pref, screen, bound, svc>>
        /\ \A i \in Instances : i # svc => reg'[i] = reg[i]
        /\ reg'[svc] = Registered(reg[svc], Head(switches))
    BY <1>10 DEF OnDCSwitch
  <2>2. reg'[svc] > 0 <=> Head(switches)
    BY <2>1, RegisteredType
  <2>3. lost' = IF Head(switches) = pref THEN lost \ {svc} ELSE lost \cup {svc}
    BY <1>10 DEF OnDCSwitch
  <2>4. CASE Head(switches) = pref
    BY <2>1, <2>2, <2>3, <2>4
  <2>5. CASE Head(switches) # pref
    BY <2>1, <2>3, <2>5
  <2> QED
    BY <2>4, <2>5
<1>11. CASE OnDestroy
  BY <1>11, DimmingAssumption DEF OnDestroy
<1>12. ASSUME NEW k \in 1..MaxAsleep, SetFeature(k) PROVE WatchInv'
  BY <1>12 DEF SetFeature, Leave
<1>13. ASSUME NEW k \in 1..MaxAsleep, SetFeatureFails(k) PROVE WatchInv'
  BY <1>13 DEF SetFeatureFails, Leave
<1>14. CASE UNCHANGED vars
  BY <1>14 DEF vars
<1> QED
  BY <1>1, <1>2, <1>3, <1>4, <1>5, <1>6, <1>7, <1>8, <1>9, <1>10, <1>11, <1>12,
     <1>13, <1>14 DEF Next, ThreadNext

(* Switched off with nothing under way, nothing gets under way: a view     *)
(* that changes then is watched by nobody.                                 *)
LEMMA OffStep == IInv /\ [Next]_vars => OffInv'
<1> SUFFICES ASSUME Types, WatchInv, OffInv, [Next]_vars PROVE OffInv'
  BY DEF IInv
<1> USE DEF OffInv, Types, screenVars, serviceVars, threadVars
<1>1. CASE Die
  BY <1>1 DEF Die
<1>2. CASE SetView
  <2>1. CASE Watched
    <3> SUFFICES ASSUME ~pref', ~excused' PROVE FALSE
      OBVIOUS
    <3>1. ~pref /\ switches = <<>> /\ lost = {}
      BY <1>2, <2>1 DEF SetView
    <3>2. \A i \in Instances : ~(reg[i] > 0)
      BY <3>1 DEF WatchInv
    <3> QED
      BY <2>1, <3>2 DEF Watched
  <2>2. CASE ~Watched
    <3>1. excused' = (pref \/ excused) /\ UNCHANGED <<pref, feature, asleep>>
      BY <1>2, <2>2 DEF SetView
    <3>2. \A i \in Instances : pending'[i] = pending[i]
      BY <1>2, <2>2 DEF SetView, Watched
    <3> QED
      BY <3>1, <3>2 DEF Quiet
  <2> QED
    BY <2>1, <2>2
<1>3. CASE Show
  BY <1>3 DEF Show, Quiet
<1>4. CASE Switch
  BY <1>4 DEF Switch, Quiet
<1>5. CASE SwitchFails
  BY <1>5 DEF SwitchFails
<1>6. CASE Close
  BY <1>6 DEF Close, Quiet
<1>7. CASE CleanUp
  BY <1>7 DEF CleanUp, Quiet
<1>8. ASSUME NEW i \in Instances, OnCreate(i) PROVE OffInv'
  BY <1>8 DEF OnCreate, Quiet
<1>9. ASSUME NEW i \in Instances, OnChange(i) PROVE OffInv'
  <2>1. ~Quiet /\ UNCHANGED <<pref, excused>>
    BY <1>9 DEF OnChange, Quiet
  <2> QED
    BY <2>1
<1>10. CASE OnDCSwitch
  BY <1>10 DEF OnDCSwitch, Quiet
<1>11. CASE OnDestroy
  BY <1>11 DEF OnDestroy, Quiet
<1>12. ASSUME NEW k \in 1..MaxAsleep, SetFeature(k) PROVE OffInv'
  <2>1. ~Quiet
    BY <1>12, LeaveStep DEF SetFeature, Quiet
  <2>2. pref' = pref /\ (~pref => excused' = excused)
    BY <1>12 DEF SetFeature
  <2> QED
    BY <2>1, <2>2
<1>13. ASSUME NEW k \in 1..MaxAsleep, SetFeatureFails(k) PROVE OffInv'
  BY <1>13 DEF SetFeatureFails
<1>14. CASE UNCHANGED vars
  BY <1>14 DEF vars, Quiet
<1> QED
  BY <1>1, <1>2, <1>3, <1>4, <1>5, <1>6, <1>7, <1>8, <1>9, <1>10, <1>11, <1>12,
     <1>13, <1>14 DEF Next, ThreadNext

(* The thread to write last is the last that was started, however the      *)
(* others overtake each other.                                             *)
LEMMA OrderStep == IInv /\ [Next]_vars => OrderInv'
<1> SUFFICES ASSUME Types, OrderInv, [Next]_vars PROVE OrderInv'
  BY DEF IInv
<1> USE DEF OrderInv, Types, screenVars, serviceVars, threadVars
<1>1. CASE Die
  BY <1>1 DEF Die
<1>2. CASE SetView
  <2>1. CASE Watched
    <3>1. PICK i \in Instances : reg[i] > 0
      BY <2>1 DEF Watched
    <3>2. pending'[i] = pending[i] + reg[i]
      BY <1>2 DEF SetView
    <3>3. pending'[i] # 0
      BY <3>1, <3>2
    <3> QED
      BY <3>3
  <2>2. CASE ~Watched
    <3>1. late' = Len(asleep) /\ asleep' = asleep
      BY <1>2, <2>2 DEF SetView
    <3>2. pref' = pref /\ (pref => excused')
      BY <1>2, <2>2 DEF SetView
    <3> QED
      BY <3>1, <3>2
  <2> QED
    BY <2>1, <2>2
<1>3. CASE Show
  BY <1>3 DEF Show
<1>4. CASE Switch
  <2>1. UNCHANGED <<view, pending, asleep, late>>
    BY <1>4 DEF Switch
  <2>2. pref' => feature' = 1 /\ (view # 1 \/ excused')
    BY <1>4 DEF Switch
  <2> QED
    BY <2>1, <2>2
<1>5. CASE SwitchFails
  BY <1>5 DEF SwitchFails
<1>6. CASE Close
  BY <1>6 DEF Close
<1>7. CASE CleanUp
  BY <1>7 DEF CleanUp
<1>8. ASSUME NEW i \in Instances, OnCreate(i) PROVE OrderInv'
  BY <1>8 DEF OnCreate
<1>9. ASSUME NEW i \in Instances, OnChange(i) PROVE OrderInv'
  <2>1. Len(asleep') = Len(asleep) + 1 /\ asleep'[Len(asleep')] = 1 - view
    BY <1>9 DEF OnChange
  <2>2. late' = late /\ view' = view
    BY <1>9 DEF OnChange
  <2> QED
    BY <2>1, <2>2
<1>10. CASE OnDCSwitch
  BY <1>10 DEF OnDCSwitch
<1>11. CASE OnDestroy
  BY <1>11 DEF OnDestroy
<1>12. ASSUME NEW k \in 1..MaxAsleep, SetFeature(k) PROVE OrderInv'
  <2> SUFFICES ASSUME \A i \in Instances : pending'[i] = 0
               PROVE  /\ late' < Len(asleep') => asleep'[Len(asleep')] = 1 - view'
                      /\ late' = Len(asleep') /\ pref' /\ ~excused' => feature' = 1 - view'
    OBVIOUS
  <2>1. /\ k \in 1..Len(asleep) /\ Len(asleep') = Len(asleep) - 1
        /\ k < Len(asleep) => asleep'[Len(asleep')] = asleep[Len(asleep)]
    BY <1>12, LeaveStep DEF SetFeature
  <2>2. late' = (IF k > late THEN k - 1 ELSE late - 1) /\ feature' = asleep[k]
    BY <1>12 DEF SetFeature, Leave
  <2>3. /\ view' = view /\ pref' = pref
        /\ pref /\ k <= late => excused'
        /\ late < Len(asleep) => asleep[Len(asleep)] = 1 - view
    BY <1>12 DEF SetFeature
  <2>4. late \in Nat /\ Len(asleep) \in Nat
    OBVIOUS
  <2>5. CASE k > late
    BY <2>1, <2>2, <2>3, <2>4, <2>5
  <2>6. CASE k <= late
    <3>1. late' = late - 1
      BY <2>1, <2>2, <2>4, <2>6
    <3>2. pref' => excused'
      BY <2>3, <2>6
    <3> QED
      BY <2>1, <2>3, <2>4, <2>6, <3>1, <3>2
  <2> QED
    BY <2>1, <2>4, <2>5, <2>6
<1>13. ASSUME NEW k \in 1..MaxAsleep, SetFeatureFails(k) PROVE OrderInv'
  <2>1. /\ k \in 1..Len(asleep) /\ Len(asleep') = Len(asleep) - 1
        /\ k < Len(asleep) => asleep'[Len(asleep')] = asleep[Len(asleep)]
    BY <1>13, LeaveStep DEF SetFeatureFails
  <2>2. late' = (IF k > late THEN k - 1 ELSE late - 1)
    BY <1>13 DEF SetFeatureFails, Leave
  <2>3. UNCHANGED <<view, pending>> /\ excused'
    BY <1>13 DEF SetFeatureFails
  <2> QED
    BY <2>1, <2>2, <2>3
<1>14. CASE UNCHANGED vars
  BY <1>14 DEF vars
<1> QED
  BY <1>1, <1>2, <1>3, <1>4, <1>5, <1>6, <1>7, <1>8, <1>9, <1>10, <1>11, <1>12,
     <1>13, <1>14 DEF Next, ThreadNext

(* IInv is an inductive invariant of DC dimming.                           *)
THEOREM Invariance == Spec => []IInv
<1>1. IInv /\ [Next]_vars => IInv'
  BY TypesStep, WatchStep, OffStep, OrderStep DEF IInv
<1> QED
  BY InitInv, <1>1, PTL DEF Spec

(* DozeService.onCreate, onDCSwitch, onDestroy and the screen's            *)
(* connections: the fingerprint view is watched by the living service      *)
(* exactly while the preference is on, and by no service that is gone.     *)
THEOREM WatchTheorem == Spec => []WatchFollowsPref
<1>1. ASSUME WatchInv PROVE WatchFollowsPref
  <2> SUFFICES ASSUME switches = <<>>, NEW i \in Instances \ lost
               PROVE  reg[i] > 0 <=> (i = svc /\ pref)
    BY DEF WatchFollowsPref
  <2>1. CASE i = svc
    BY <1>1, <2>1 DEF WatchInv
  <2>2. CASE i # svc
    BY <1>1, <2>2 DEF WatchInv
  <2> QED
    BY <2>1, <2>2
<1>2. IInv => WatchInv
  BY DEF IInv
<1> QED
  BY Invariance, <1>1, <1>2, PTL

(* UdfpsViewObserver.onChange and its threads never switch dimming on      *)
(* again after the user switched it off, outside the named cases.          *)
THEOREM OffTheorem == Spec => []OffStaysOff
<1>1. IInv => OffStaysOff
  BY DEF IInv, OffInv, OffStaysOff
<1> QED
  BY Invariance, <1>1, PTL

(* UdfpsViewObserver.onChange: with everything done, dimming is the        *)
(* opposite of what the view is, however the threads overtake each other,  *)
(* outside the named cases.                                                *)
THEOREM OrderTheorem == Spec => []OnlyExcusedWrong
<1>1. IInv => OnlyExcusedWrong
  BY DEF IInv, Types, OrderInv, OnlyExcusedWrong, Quiet
<1> QED
  BY Invariance, <1>1, PTL

(* The flags stay flags, and a screen that is bound is there.              *)
LEMMA FlagsStep ==
  ASSUME TypeOK, WatchInv, [Next]_vars
  PROVE  /\ pref' \in BOOLEAN /\ bound' \in BOOLEAN /\ excused' \in BOOLEAN
         /\ bound' => screen' # "gone"
         /\ screen' \in {"gone", "shown", "disabled", "closing"}
<1> USE DEF TypeOK, screenVars, serviceVars, threadVars
<1>1. CASE Die
  BY <1>1 DEF Die
<1>2. CASE SetView
  <2>1. UNCHANGED <<pref, bound, screen>>
    BY <1>2 DEF SetView
  <2>2. CASE Watched
    <3>1. excused' = (excused \/ (~pref /\ (switches # <<>> \/ lost # {})))
      BY <1>2, <2>2 DEF SetView
    <3> QED
      BY <2>1, <3>1
  <2>3. CASE ~Watched
    <3>1. excused' = (pref \/ excused)
      BY <1>2, <2>3 DEF SetView
    <3> QED
      BY <2>1, <3>1
  <2> QED
    BY <2>2, <2>3
<1>3. CASE Show
  BY <1>3 DEF Show, WatchInv
<1>4. CASE Switch
  <2>1. pref' = ~pref /\ bound' = TRUE /\ screen' = "shown"
    BY <1>4 DEF Switch, CallOnDCSwitch
  <2>2. CASE pref'
    <3>1. excused' = (view = 1)
      BY <1>4, <2>2 DEF Switch
    <3> QED
      BY <2>1, <3>1
  <2>3. CASE ~pref'
    <3>1. excused' = ~Quiet
      BY <1>4, <2>3 DEF Switch
    <3> QED
      BY <2>1, <3>1
  <2> QED
    BY <2>2, <2>3
<1>5. CASE SwitchFails
  BY <1>5 DEF SwitchFails
<1>6. CASE Close
  BY <1>6 DEF Close
<1>7. CASE CleanUp
  BY <1>7 DEF CleanUp
<1>8. ASSUME NEW i \in Instances, OnCreate(i) \/ OnChange(i)
      PROVE  UNCHANGED <<pref, bound, excused, screen>>
  BY <1>8 DEF OnCreate, OnChange
<1>9. CASE OnDCSwitch
  BY <1>9 DEF OnDCSwitch
<1>10. CASE OnDestroy
  BY <1>10 DEF OnDestroy
<1>11. ASSUME NEW k \in 1..MaxAsleep, SetFeature(k)
       PROVE  excused' \in BOOLEAN /\ UNCHANGED <<pref, bound, screen>>
  <2>1. UNCHANGED <<pref, bound, screen>>
    BY <1>11 DEF SetFeature
  <2>2. CASE pref
    <3>1. excused' = (k <= late)
      BY <1>11, <2>2 DEF SetFeature
    <3> QED
      BY <2>1, <3>1
  <2>3. CASE ~pref
    BY <1>11, <2>1, <2>3 DEF SetFeature
  <2> QED
    BY <2>2, <2>3
<1>12. ASSUME NEW k \in 1..MaxAsleep, SetFeatureFails(k)
       PROVE  excused' = TRUE /\ UNCHANGED <<pref, bound, screen>>
  BY <1>12 DEF SetFeatureFails
<1>13. CASE UNCHANGED vars
  BY <1>13 DEF vars
<1> QED
  BY <1>1, <1>2, <1>3, <1>4, <1>5, <1>6, <1>7, <1>8, <1>9, <1>10, <1>11, <1>12, <1>13
     DEF Next, ThreadNext

(* What is left of the switches when one is taken or dropped.              *)
LEMMA FewerSwitches ==
  ASSUME NEW s \in Seq(BOOLEAN), s # <<>>
  PROVE  /\ Tail(s) \in Seq(BOOLEAN) /\ Len(Tail(s)) = Len(s) - 1
         /\ Head(s) \in BOOLEAN
         /\ SubSeq(s, 1, Len(s) - 1) \in Seq(BOOLEAN)
         /\ Len(SubSeq(s, 1, Len(s) - 1)) = Len(s) - 1
         /\ Len(s) \in Nat
<1>1. Tail(s) \in Seq(BOOLEAN) /\ Len(Tail(s)) = Len(s) - 1 /\ Head(s) \in BOOLEAN
  BY HeadTailProperties
<1>2. Len(s) \in Nat /\ Len(s) # 0
  OBVIOUS
<1>3. SubSeq(s, 1, Len(s) - 1) \in Seq(BOOLEAN) /\ Len(SubSeq(s, 1, Len(s) - 1)) = Len(s) - 1
  <2>1. PICK n \in Nat : n = Len(s) - 1
    BY <1>2
  <2>2. \A i \in 1..n : i \in 1..Len(s)
    BY <1>2, <2>1
  <2>3. SubSeq(s, 1, n) \in Seq(BOOLEAN) /\ Len(SubSeq(s, 1, n)) = n
    BY <1>2, <2>1, <2>2, SubSeqProperties
  <2> QED
    BY <2>1, <2>3
<1> QED
  BY <1>1, <1>2, <1>3

(* The connections wait in a bound sequence.                               *)
LEMMA SwitchesStep ==
  ASSUME TypeOK, WatchInv, [Next]_vars
  PROVE  switches' \in Seq(BOOLEAN) /\ Len(switches') <= MaxSwitches
<1> USE DEF TypeOK, screenVars, serviceVars, threadVars
<1>0. Len(switches) \in Nat /\ MaxSwitches \in Nat
  BY DimmingAssumption
<1>1. CASE Die \/ CleanUp
  <2>1. switches' = <<>>
    BY <1>1 DEF Die, CleanUp
  <2>2. <<>> \in Seq(BOOLEAN) /\ Len(<<>>) = 0
    OBVIOUS
  <2> QED
    BY <1>0, <2>1, <2>2
<1>2. CASE Switch
  <2>1. switches' = Append(switches, pref') /\ pref' = ~pref /\ Len(switches) < MaxSwitches
    BY <1>2 DEF Switch, CallOnDCSwitch
  <2>2. pref' \in BOOLEAN
    BY <2>1
  <2>3. Append(switches, pref') \in Seq(BOOLEAN)
        /\ Len(Append(switches, pref')) = Len(switches) + 1
    BY <2>2, AppendProperties
  <2> QED
    BY <1>0, <2>1, <2>3
<1>3. CASE Close
  <2>1. CASE switches = <<>>
    BY <1>3, <2>1 DEF Close
  <2>2. CASE switches # <<>>
    <3>1. switches' = SubSeq(switches, 1, Len(switches) - 1)
      BY <1>3, <2>2 DEF Close
    <3> QED
      BY <1>0, <2>2, <3>1, FewerSwitches
  <2> QED
    BY <2>1, <2>2
<1>4. CASE OnDCSwitch
  <2>1. switches # <<>> /\ switches' = Tail(switches)
    BY <1>4 DEF OnDCSwitch
  <2> QED
    BY <1>0, <2>1, FewerSwitches
<1>5. CASE SetView \/ Show \/ SwitchFails \/ OnDestroy \/ ThreadNext \/ UNCHANGED vars
  BY <1>5 DEF SetView, Show, SwitchFails, OnDestroy, ThreadNext, SetFeature, SetFeatureFails,
     vars
<1>6. ASSUME NEW i \in Instances, OnCreate(i) \/ OnChange(i)
      PROVE  UNCHANGED switches
  BY <1>6 DEF OnCreate, OnChange
<1> QED
  BY <1>1, <1>2, <1>3, <1>4, <1>5, <1>6 DEF Next

(* Registrations, changes posted and threads stay within their bounds.     *)
LEMMA BoundsStep ==
  ASSUME TypeOK, Types, [Next]_vars
  PROVE  /\ reg' \in [Instances -> 0..MaxReg] /\ pending' \in [Instances -> 0..MaxPending]
         /\ Len(asleep') <= MaxAsleep /\ lost' \subseteq Instances /\ feature' \in {0, 1}
<1> USE DimmingAssumption DEF TypeOK, screenVars, serviceVars, threadVars
<1>0. Len(asleep) \in Nat
  OBVIOUS
<1>1. CASE Die
  BY <1>1 DEF Die
<1>2. CASE SetView
  BY <1>2 DEF SetView
<1>3. CASE Switch \/ SwitchFails
  BY <1>3 DEF Switch, SwitchFails
<1>4. CASE Close \/ CleanUp \/ Show
  BY <1>4 DEF Close, CleanUp, Show
<1>5. ASSUME NEW i \in Instances, OnCreate(i)
      PROVE  reg' \in [Instances -> 0..MaxReg] /\ UNCHANGED <<pending, asleep, feature>>
             /\ lost' \subseteq Instances
  BY <1>5 DEF OnCreate
<1>6. ASSUME NEW i \in Instances, OnChange(i)
      PROVE  pending' \in [Instances -> 0..MaxPending] /\ UNCHANGED <<reg, lost, feature>>
             /\ Len(asleep') <= MaxAsleep
  <2>1. pending' \in [Instances -> 0..MaxPending]
    BY <1>6 DEF OnChange
  <2>2. asleep' = Append(asleep, 1 - view) /\ Len(asleep) < MaxAsleep
        /\ UNCHANGED <<reg, lost, feature>>
    BY <1>6 DEF OnChange
  <2>3. Len(asleep') = Len(asleep) + 1
    BY <2>2
  <2> QED
    BY <1>0, <2>1, <2>2, <2>3
<1>7. CASE OnDCSwitch
  <2>1. svc \in Instances /\ reg[svc] \in 0..MaxReg /\ MaxReg \in Nat
    BY <1>7 DEF OnDCSwitch
  <2>2. Registered(reg[svc], Head(switches)) \in 0..MaxReg
    <3>1. PICK n \in Nat : n = reg[svc]
      BY <2>1
    <3>2. Registered(n, Head(switches)) \in Nat /\ Registered(n, Head(switches)) <= MaxReg
      BY <3>1, RegisteredType
    <3> QED
      BY <2>1, <3>1, <3>2
  <2>3. lost' \in {lost \ {svc}, lost \cup {svc}} /\ UNCHANGED <<pending, asleep, feature>>
    BY <1>7 DEF OnDCSwitch
  <2>4. reg' = [reg EXCEPT ![svc] = Registered(reg[svc], Head(switches))]
    BY <1>7 DEF OnDCSwitch
  <2>5. reg' \in [Instances -> 0..MaxReg]
    BY <2>2, <2>4
  <2>6. lost' \subseteq Instances
    BY <2>1, <2>3
  <2> QED
    BY <2>3, <2>5, <2>6
<1>8. CASE OnDestroy
  BY <1>8 DEF OnDestroy
<1>9. ASSUME NEW k \in 1..MaxAsleep, SetFeature(k) \/ SetFeatureFails(k)
      PROVE  UNCHANGED <<reg, pending, lost>> /\ feature' \in {0, 1} /\ Len(asleep') <= MaxAsleep
  <2>1. Leave(k) /\ UNCHANGED <<reg, pending, lost>> /\ feature' \in {feature, asleep[k]}
    BY <1>9 DEF SetFeature, SetFeatureFails
  <2>2. Len(asleep') = Len(asleep) - 1 /\ asleep[k] \in {0, 1}
    BY <2>1, LeaveStep
  <2> QED
    BY <1>0, <2>1, <2>2
<1>10. CASE UNCHANGED vars
  BY <1>10 DEF vars
<1> QED
  BY <1>1, <1>2, <1>3, <1>4, <1>5, <1>6, <1>7, <1>8, <1>9, <1>10 DEF Next, ThreadNext

(* DisplaySettingsActivity and DozeService keep everything in its type: a  *)
(* connection and its switches do not outlive the screen that made them.   *)
THEOREM TypeTheorem == Spec => []TypeOK
<1>1. Init => TypeOK
  <2> SUFFICES ASSUME Init PROVE TypeOK
    OBVIOUS
  <2>1. excused \in BOOLEAN /\ bound \in BOOLEAN /\ pref \in BOOLEAN /\ ~bound
    BY DEF Init
  <2>2. /\ switches \in Seq(BOOLEAN) /\ Len(switches) = 0 /\ switches = <<>>
        /\ asleep \in Seq({0, 1}) /\ Len(asleep) = 0
    BY DEF Init
  <2> QED
    BY <2>1, <2>2, DimmingAssumption DEF Init, TypeOK
<1>2. TypeOK /\ IInv /\ IInv' /\ [Next]_vars => TypeOK'
  <2> SUFFICES ASSUME TypeOK, IInv, IInv', [Next]_vars PROVE TypeOK'
    OBVIOUS
  <2>1. Types /\ WatchInv /\ Types' /\ WatchInv'
    BY DEF IInv
  <2>2. /\ pref' \in BOOLEAN /\ bound' \in BOOLEAN /\ excused' \in BOOLEAN
        /\ bound' => screen' # "gone"
        /\ screen' \in {"gone", "shown", "disabled", "closing"}
    BY <2>1, FlagsStep
  <2>3. switches' \in Seq(BOOLEAN) /\ Len(switches') <= MaxSwitches
    BY <2>1, SwitchesStep
  <2>4. /\ reg' \in [Instances -> 0..MaxReg] /\ pending' \in [Instances -> 0..MaxPending]
        /\ Len(asleep') <= MaxAsleep /\ lost' \subseteq Instances /\ feature' \in {0, 1}
    BY <2>1, BoundsStep
  <2>5. /\ view' \in {0, 1} /\ svc' \in Instances \cup {None}
        /\ asleep' \in Seq({0, 1}) /\ late' \in 0..Len(asleep')
        /\ switches' # <<>> => bound'
    BY <2>1 DEF Types, WatchInv
  <2> QED
    BY <2>2, <2>3, <2>4, <2>5 DEF TypeOK
<1> QED
  BY Invariance, <1>1, <1>2, PTL DEF Spec
=============================================================================
