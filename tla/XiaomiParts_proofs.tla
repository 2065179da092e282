--------------------------- MODULE XiaomiParts_proofs ---------------------------
(***************************************************************************)
(* Proofs about the process of XiaomiParts (DozeSensors, ClearSpeaker), for *)
(* any instances and gestures and for any bounds; after them, the proof    *)
(* about its observer of HBM (HbmObserver).                                *)
(***************************************************************************)
EXTENDS XiaomiParts, HbmObserver, SequenceTheorems, TLAPS

Messages == {"create", "destroy", "check", "on", "off", "gone"}
Tasks == {"enable", "disable"}

(* Types, and what a dead process has left.                                *)
Types ==
  /\ proc \in {"up", "down"} /\ screen \in {"on", "off"}
  /\ doze \in BOOLEAN /\ started \in BOOLEAN
  /\ gesture \in [Gestures -> BOOLEAN] /\ cur \in Instances \cup {None}
  /\ main \in Seq(Messages)
  /\ executor \in [Instances -> [Sensors -> Seq(Tasks)]]
  /\ listening \in [Instances -> [Sensors -> BOOLEAN]]
  /\ reported \in [Instances -> {"none", "near", "far"}]
  /\ mSawNear \in [Instances -> BOOLEAN] /\ stale \in [Instances -> BOOLEAN]
  /\ raced \in [Sensors -> BOOLEAN]
  /\ proc = "down" => main = <<>> /\ cur = None

(* The messages are in the order Android sends them: the service is        *)
(* created when there is none, and ends as it was last asked for.          *)
Ordered(queue, c) ==
  \A k \in DOMAIN queue : queue[k] = "create" => ~ThereAfter(k - 1, queue, c)
ServiceInv ==
  /\ Ordered(main, cur)
  /\ proc = "up" => (ThereAfter(Len(main), main, cur) <=> started)

(* A broadcast waits for an instance, and the last one tells the screen.   *)
Announced(queue, c, now) ==
  \A k \in DOMAIN queue :
    /\ IsBroadcast(queue[k]) => c # None
    /\ queue[k] = "off" => now = "off" \/ \E j \in DOMAIN queue : j > k /\ queue[j] = "on"
BroadcastInv == Announced(main, cur, screen)

(* The listener is registered, or will be by the sensor's executor.        *)
WillListen(i, s) ==
  IF executor[i][s] = <<>> THEN listening[i][s]
  ELSE executor[i][s][Len(executor[i][s])] = "enable"

(* Who listens in the end is wanted, or a message that waits will stop it. *)
Has(queue, m) == \E k \in DOMAIN queue : queue[k] = m
Told(m) == Has(main, m)
ListenInv ==
  \A i \in Instances, s \in Sensors : WillListen(i, s) =>
    /\ i = cur
    /\ \/ raced[s]
       \/ Told("destroy")
       \/ Wanted(s, gesture) /\ (screen = "off" \/ Told("on"))

(* The value last seen is the one reported, or from an earlier listener.   *)
NearInv ==
  \A i \in Instances :
    /\ reported[i] # "none" => mSawNear[i] = (reported[i] = "near")
    /\ mSawNear[i] /\ reported[i] = "none" => stale[i]
    /\ "proximity" \in Sensors /\ ~listening[i]["proximity"] /\ mSawNear[i] => stale[i]

IInv == Types /\ ServiceInv /\ BroadcastInv /\ ListenInv /\ NearInv
-----------------------------------------------------------------------------
(* Queues.                                                                 *)

(* The rest of a queue.                                                    *)
LEMMA TailIs ==
  ASSUME NEW q \in Seq(Messages), q # <<>>
  PROVE  /\ Tail(q) \in Seq(Messages) /\ Len(q) \in Nat \ {0} /\ Head(q) = q[1]
         /\ DOMAIN q = 1..Len(q) /\ DOMAIN Tail(q) = 1..(Len(q) - 1) /\ Len(Tail(q)) = Len(q) - 1
         /\ \A k \in 1..(Len(q) - 1) : Tail(q)[k] = q[k + 1]
OBVIOUS

(* A queue with one more message.                                          *)
LEMMA AppendIs ==
  ASSUME NEW q \in Seq(Messages), NEW m \in Messages
  PROVE  /\ Append(q, m) \in Seq(Messages) /\ Len(q) \in Nat
         /\ DOMAIN q = 1..Len(q) /\ DOMAIN Append(q, m) = 1..(Len(q) + 1)
         /\ Len(Append(q, m)) = Len(q) + 1
         /\ \A k \in 1..Len(q) : Append(q, m)[k] = q[k]
         /\ Append(q, m)[Len(q) + 1] = m
OBVIOUS

(* Forgetting broadcasts leaves the other messages as they are.            *)
LEMMA ForgottenIs ==
  ASSUME NEW q \in Seq(Messages)
  PROVE  /\ Forgotten(q) \in Seq(Messages) /\ Len(q) \in Nat
         /\ DOMAIN q = 1..Len(q) /\ DOMAIN Forgotten(q) = 1..Len(q) /\ Len(Forgotten(q)) = Len(q)
         /\ \A k \in 1..Len(q) : /\ ~IsBroadcast(Forgotten(q)[k])
                                 /\ Forgotten(q)[k] = "create" <=> q[k] = "create"
                                 /\ Forgotten(q)[k] = "destroy" <=> q[k] = "destroy"
<1>1. Len(q) \in Nat /\ DOMAIN q = 1..Len(q) /\ \A k \in 1..Len(q) : q[k] \in Messages
  OBVIOUS
<1>2. Forgotten(q) = [k \in 1..Len(q) |-> IF IsBroadcast(q[k]) THEN "gone" ELSE q[k]]
  BY <1>1 DEF Forgotten
<1>3. Forgotten(q) \in [1..Len(q) -> Messages]
  BY <1>1, <1>2 DEF Messages
<1>4. Forgotten(q) \in Seq(Messages) /\ Len(Forgotten(q)) = Len(q)
  BY <1>1, <1>3
<1>5. ASSUME NEW k \in 1..Len(q)
      PROVE  /\ ~IsBroadcast(Forgotten(q)[k])
             /\ Forgotten(q)[k] = "create" <=> q[k] = "create"
             /\ Forgotten(q)[k] = "destroy" <=> q[k] = "destroy"
  BY <1>2 DEF IsBroadcast
<1> QED
  BY <1>1, <1>3, <1>4, <1>5

(* What an appended message does to the service.                           *)
LEMMA AppendAfter ==
  ASSUME NEW q \in Seq(Messages), NEW m \in Messages, NEW c
  PROVE  /\ \A n \in 0..Len(q) : ThereAfter(n, Append(q, m), c) <=> ThereAfter(n, q, c)
         /\ ThereAfter(Len(q) + 1, Append(q, m), c) <=>
              m = "create" \/ (m # "destroy" /\ ThereAfter(Len(q), q, c))
<1>1. /\ Len(q) \in Nat /\ \A k \in 1..Len(q) : Append(q, m)[k] = q[k]
      /\ Append(q, m)[Len(q) + 1] = m
  BY AppendIs
<1> QED
  BY <1>1 DEF ThereAfter

(* What the first message has done.                                        *)
LEMMA TailAfter ==
  ASSUME NEW q \in Seq(Messages), q # <<>>, NEW c, NEW d,
         Head(q) = "create" => d # None,
         Head(q) = "destroy" => d = None,
         Head(q) \notin {"create", "destroy"} => d = c
  PROVE  \A n \in 0..(Len(q) - 1) : ThereAfter(n, Tail(q), d) <=> ThereAfter(n + 1, q, c)
<1>1. /\ Len(q) \in Nat \ {0} /\ Head(q) = q[1]
      /\ \A k \in 1..(Len(q) - 1) : Tail(q)[k] = q[k + 1]
  BY TailIs
<1> SUFFICES ASSUME NEW n \in 0..(Len(q) - 1)
             PROVE  ThereAfter(n, Tail(q), d) <=> ThereAfter(n + 1, q, c)
  OBVIOUS
<1>2. ASSUME ThereAfter(n, Tail(q), d)
      PROVE  ThereAfter(n + 1, q, c)
  <2>1. \A j \in 2..(n + 1) : j - 1 \in 1..n /\ q[j] = Tail(q)[j - 1]
    BY <1>1
  <2>2. CASE d # None /\ \A k \in 1..n : Tail(q)[k] # "destroy"
    <3>1. \A j \in 2..(n + 1) : q[j] # "destroy"
      BY <2>1, <2>2
    <3>2. CASE q[1] = "create"
      BY <1>1, <3>1, <3>2 DEF ThereAfter
    <3>3. CASE q[1] # "create"
      <4>1. c # None /\ q[1] # "destroy"
        BY <1>1, <2>2, <3>3
      <4> QED
        BY <1>1, <3>1, <4>1 DEF ThereAfter
    <3> QED
      BY <3>2, <3>3
  <2>3. ASSUME NEW k \in 1..n, Tail(q)[k] = "create", \A j \in (k + 1)..n : Tail(q)[j] # "destroy"
        PROVE  ThereAfter(n + 1, q, c)
    <3>1. k + 1 \in 1..(n + 1) /\ q[k + 1] = "create"
      BY <1>1, <2>3
    <3>2. \A j \in (k + 1 + 1)..(n + 1) : q[j] # "destroy"
      BY <2>1, <2>3
    <3> QED
      BY <3>1, <3>2 DEF ThereAfter
  <2> QED
    BY <1>2, <2>2, <2>3 DEF ThereAfter
<1>3. ASSUME ThereAfter(n + 1, q, c)
      PROVE  ThereAfter(n, Tail(q), d)
  BY <1>1, <1>3 DEF ThereAfter
<1> QED
  BY <1>2, <1>3

(* In the end it is the same.                                              *)
LEMMA TailEnd ==
  ASSUME NEW q \in Seq(Messages), q # <<>>, NEW c, NEW d,
         Head(q) = "create" => d # None,
         Head(q) = "destroy" => d = None,
         Head(q) \notin {"create", "destroy"} => d = c
  PROVE  ThereAfter(Len(Tail(q)), Tail(q), d) <=> ThereAfter(Len(q), q, c)
<1>1. /\ Len(Tail(q)) \in 0..(Len(q) - 1) /\ Len(Tail(q)) + 1 = Len(q)
  BY TailIs
<1> QED
  BY <1>1, TailAfter

(* Forgotten broadcasts say nothing of the service.                        *)
LEMMA ForgottenAfter ==
  ASSUME NEW q \in Seq(Messages), NEW c
  PROVE  \A n \in 0..Len(q) : ThereAfter(n, Forgotten(q), c) <=> ThereAfter(n, q, c)
BY ForgottenIs DEF ThereAfter

(* A queue stays ordered when a service is asked for that is not there,    *)
(* or anything else.                                                       *)
LEMMA AppendOrdered ==
  ASSUME NEW q \in Seq(Messages), NEW m \in Messages, NEW c, Ordered(q, c),
         m = "create" => ~ThereAfter(Len(q), q, c)
  PROVE  Ordered(Append(q, m), c)
<1>1. SUFFICES ASSUME NEW k \in 1..(Len(q) + 1), Append(q, m)[k] = "create"
               PROVE  ~ThereAfter(k - 1, Append(q, m), c)
  BY AppendIs DEF Ordered
<1>2. k - 1 \in 0..Len(q)
  BY AppendIs
<1>3. ~ThereAfter(k - 1, q, c)
  <2>1. CASE k \in 1..Len(q)
    BY <1>1, <2>1, AppendIs DEF Ordered
  <2>2. CASE k = Len(q) + 1
    <3>1. k - 1 = Len(q) /\ m = "create"
      BY <1>1, <2>2, AppendIs
    <3> QED
      BY <3>1
  <2> QED
    BY <2>1, <2>2, AppendIs
<1> QED
  BY <1>2, <1>3, AppendAfter

(* The rest of an ordered queue is ordered, from what the first message    *)
(* has done.                                                               *)
LEMMA TailOrdered ==
  ASSUME NEW q \in Seq(Messages), q # <<>>, NEW c, NEW d, Ordered(q, c),
         Head(q) = "create" => d # None,
         Head(q) = "destroy" => d = None,
         Head(q) \notin {"create", "destroy"} => d = c
  PROVE  Ordered(Tail(q), d)
<1>1. SUFFICES ASSUME NEW k \in 1..(Len(q) - 1), Tail(q)[k] = "create"
               PROVE  ~ThereAfter(k - 1, Tail(q), d)
  BY TailIs DEF Ordered
<1>2. k + 1 \in DOMAIN q /\ q[k + 1] = "create" /\ k - 1 \in 0..(Len(q) - 1) /\ (k + 1) - 1 = k
  BY <1>1, TailIs
<1>3. ~ThereAfter(k, q, c)
  BY <1>2 DEF Ordered
<1>4. (k - 1) + 1 = k
  BY <1>2, TailIs
<1> QED
  BY <1>2, <1>3, <1>4, TailAfter

(* So is one whose broadcasts are forgotten.                               *)
LEMMA ForgottenOrdered ==
  ASSUME NEW q \in Seq(Messages), NEW c, Ordered(q, c)
  PROVE  Ordered(Forgotten(q), c)
<1>1. SUFFICES ASSUME NEW k \in 1..Len(q), Forgotten(q)[k] = "create"
               PROVE  ~ThereAfter(k - 1, Forgotten(q), c)
  BY ForgottenIs DEF Ordered
<1>2. k \in DOMAIN q /\ q[k] = "create" /\ k - 1 \in 0..Len(q)
  BY <1>1, ForgottenIs
<1> QED
  BY <1>2, ForgottenAfter DEF Ordered

(* A first message that creates finds no instance.                         *)
LEMMA FirstCreates ==
  ASSUME NEW q \in Seq(Messages), q # <<>>, NEW c, Ordered(q, c), Head(q) = "create"
  PROVE  c = None
<1>1. 1 \in DOMAIN q /\ q[1] = "create"
  BY TailIs
<1>2. ~ThereAfter(0, q, c)
  BY <1>1 DEF Ordered
<1> QED
  BY <1>2 DEF ThereAfter

(* Broadcasts and a message that is none.                                  *)
LEMMA AppendAnnounced ==
  ASSUME NEW q \in Seq(Messages), NEW m \in Messages, NEW c, NEW now, Announced(q, c, now),
         ~IsBroadcast(m)
  PROVE  Announced(Append(q, m), c, now)
BY AppendIs DEF Announced, IsBroadcast

(* Broadcasts without the first message.                                   *)
LEMMA TailAnnounced ==
  ASSUME NEW q \in Seq(Messages), q # <<>>, NEW c, NEW d, NEW now, Announced(q, c, now),
         c # None => d # None
  PROVE  Announced(Tail(q), d, now)
<1>1. SUFFICES ASSUME NEW k \in 1..(Len(q) - 1)
               PROVE  /\ IsBroadcast(Tail(q)[k]) => d # None
                      /\ Tail(q)[k] = "off" =>
                           now = "off" \/ \E j \in 1..(Len(q) - 1) : j > k /\ Tail(q)[j] = "on"
  BY TailIs DEF Announced
<1>2. k + 1 \in DOMAIN q /\ Tail(q)[k] = q[k + 1]
  BY TailIs
<1>3. ASSUME NEW j \in DOMAIN q, j > k + 1, q[j] = "on"
      PROVE  \E i \in 1..(Len(q) - 1) : i > k /\ Tail(q)[i] = "on"
  <2>1. j - 1 \in 1..(Len(q) - 1) /\ j - 1 > k /\ (j - 1) + 1 = j
    BY <1>3, TailIs
  <2>2. Tail(q)[j - 1] = "on"
    BY <1>3, <2>1, TailIs
  <2> QED
    BY <2>1, <2>2
<1> QED
  BY <1>2, <1>3 DEF Announced

(* What a longer queue has.                                                *)
LEMMA AppendHas ==
  ASSUME NEW q \in Seq(Messages), NEW m \in Messages, NEW x
  PROVE  Has(Append(q, m), x) <=> Has(q, x) \/ m = x
BY AppendIs DEF Has

(* What the rest of a queue has.                                           *)
LEMMA TailHas ==
  ASSUME NEW q \in Seq(Messages), q # <<>>, NEW x, Has(q, x), Head(q) # x
  PROVE  Has(Tail(q), x)
<1>1. PICK k \in 1..Len(q) : q[k] = x
  BY TailIs DEF Has
<1>2. k # 1
  BY <1>1, TailIs
<1>3. k - 1 \in 1..(Len(q) - 1) /\ (k - 1) + 1 = k
  BY <1>2, TailIs
<1>4. Tail(q)[k - 1] = x /\ k - 1 \in DOMAIN Tail(q)
  BY <1>1, <1>3, TailIs
<1> QED
  BY <1>4, Zenon DEF Has
-----------------------------------------------------------------------------
(* Sensors.                                                                *)

(* A task for some sensors of an instance.                                 *)
LEMMA SubmitIs ==
  ASSUME executor \in [Instances -> [Sensors -> Seq(Tasks)]],
         NEW i, NEW task \in Tasks, NEW which, Submit(i, task, which)
  PROVE  /\ executor' \in [Instances -> [Sensors -> Seq(Tasks)]]
         /\ \A j \in Instances, s \in Sensors :
              executor'[j][s] = IF j = i /\ s \in which THEN Append(executor[j][s], task)
                                ELSE executor[j][s]
<1>1. ASSUME NEW j \in Instances
      PROVE  executor'[j] = IF j = i
                            THEN [s \in Sensors |-> IF s \in which THEN Append(executor[j][s], task)
                                                    ELSE executor[j][s]]
                            ELSE executor[j]
  BY DEF Submit
<1>2. ASSUME NEW j \in Instances, NEW s \in Sensors
      PROVE  Append(executor[j][s], task) \in Seq(Tasks)
  BY <1>2
<1>3. ASSUME NEW j \in Instances
      PROVE  executor'[j] \in [Sensors -> Seq(Tasks)]
  BY <1>1, <1>2, <1>3
<1>4. executor' = [j \in Instances |-> executor'[j]]
  BY DEF Submit
<1> QED
  BY <1>1, <1>3, <1>4

(* Who listens once the task is done.                                      *)
LEMMA SubmitListens ==
  ASSUME executor \in [Instances -> [Sensors -> Seq(Tasks)]], listening' = listening,
         NEW i, NEW task \in Tasks, NEW which, Submit(i, task, which),
         NEW j \in Instances, NEW s \in Sensors
  PROVE  WillListen(j, s)' <=> IF j = i /\ s \in which THEN task = "enable" ELSE WillListen(j, s)
<1>1. executor'[j][s] = IF j = i /\ s \in which THEN Append(executor[j][s], task)
                        ELSE executor[j][s]
  BY SubmitIs
<1>2. CASE j = i /\ s \in which
  <2> DEFINE e == executor[j][s]
  <2>1. e \in Seq(Tasks)
    OBVIOUS
  <2>2. Append(e, task) # <<>> /\ Append(e, task)[Len(Append(e, task))] = task
    BY <2>1
  <2>3. executor'[j][s] = Append(e, task)
    BY <1>1, <1>2
  <2> QED
    BY <1>2, <2>2, <2>3 DEF WillListen
<1>3. CASE ~(j = i /\ s \in which)
  BY <1>1, <1>3 DEF WillListen
<1> QED
  BY <1>2, <1>3

(* The last element outlives the first, unless it is the only one.         *)
LEMMA TailLast ==
  ASSUME NEW S, NEW e \in Seq(S), e # <<>>
  PROVE  /\ Tail(e) = <<>> <=> Len(e) = 1
         /\ Len(e) # 1 => Tail(e)[Len(Tail(e))] = e[Len(e)]
<1>1. /\ Tail(e) \in Seq(S) /\ Len(e) \in Nat \ {0} /\ Len(Tail(e)) = Len(e) - 1
      /\ \A k \in 1..(Len(e) - 1) : Tail(e)[k] = e[k + 1]
  OBVIOUS
<1>2. CASE Len(e) = 1
  <2>1. Len(Tail(e)) = 0
    BY <1>1, <1>2
  <2> QED
    BY <1>1, <1>2, <2>1, EmptySeq
<1>3. CASE Len(e) # 1
  <2>1. Len(e) - 1 \in 1..(Len(e) - 1) /\ (Len(e) - 1) + 1 = Len(e)
    BY <1>1, <1>3
  <2>2. Tail(e)[Len(Tail(e))] = e[Len(e)]
    BY <1>1, <2>1
  <2>3. Tail(e) # <<>>
    <3>1. Len(Tail(e)) # 0
      BY <1>1, <1>3
    <3>2. Len(<<>>) = 0
      BY EmptySeq
    <3> QED
      BY <3>1, <3>2, Zenon
  <2> QED
    BY <1>3, <2>2, <2>3
<1> QED
  BY <1>2, <1>3

(* A task done changes nothing of who listens in the end.                  *)
LEMMA TaskListens ==
  ASSUME Types, NEW i \in Instances, NEW s \in Sensors, NEW task \in Tasks, Task(i, s, task),
         executor' = [executor EXCEPT ![i][s] = Tail(@)],
         listening' = [listening EXCEPT ![i][s] = (task = "enable")]
  PROVE  /\ executor' \in [Instances -> [Sensors -> Seq(Tasks)]]
         /\ listening' \in [Instances -> [Sensors -> BOOLEAN]]
         /\ \A j \in Instances, r \in Sensors : WillListen(j, r)' <=> WillListen(j, r)
<1> DEFINE e == executor[i][s]
<1>1. e \in Seq(Tasks) /\ e # <<>> /\ e[1] = task
  BY DEF Task, Types
<1>2. /\ Tail(e) \in Seq(Tasks) /\ Len(e) \in Nat \ {0} /\ Len(Tail(e)) = Len(e) - 1
      /\ \A k \in 1..(Len(e) - 1) : Tail(e)[k] = e[k + 1]
  BY <1>1
<1>9. /\ Tail(e) = <<>> <=> Len(e) = 1
      /\ Len(e) # 1 => Tail(e)[Len(Tail(e))] = e[Len(e)]
  BY <1>1, TailLast
<1>3. executor'[i][s] = Tail(e) /\ listening'[i][s] = (task = "enable")
  BY DEF Types
<1>4. ASSUME NEW j \in Instances, NEW r \in Sensors, ~(j = i /\ r = s)
      PROVE  executor'[j][r] = executor[j][r] /\ listening'[j][r] = listening[j][r]
  BY <1>4 DEF Types
<1>5. executor' \in [Instances -> [Sensors -> Seq(Tasks)]]
  BY <1>2 DEF Types
<1>6. listening' \in [Instances -> [Sensors -> BOOLEAN]]
  BY DEF Types
<1>7. WillListen(i, s)' <=> WillListen(i, s)
  <2>1. CASE Len(e) = 1
    BY <1>1, <1>3, <1>9, <2>1 DEF WillListen
  <2>2. CASE Len(e) # 1
    BY <1>1, <1>3, <1>9, <2>2 DEF WillListen
  <2> QED
    BY <2>1, <2>2
<1>8. ASSUME NEW j \in Instances, NEW r \in Sensors
      PROVE  WillListen(j, r)' <=> WillListen(j, r)
  BY <1>4, <1>7 DEF WillListen
<1> QED
  BY <1>5, <1>6, <1>8
-----------------------------------------------------------------------------
(* Asking for the service, or for its end.                                 *)
LEMMA AskStep ==
  ASSUME NEW q \in Seq(Messages), NEW c, NEW now, NEW e, started \in BOOLEAN,
         Ordered(q, c), Announced(q, c, now), ThereAfter(Len(q), q, c) <=> started,
         CheckDozeService(e, q)
  PROVE  /\ started' \in BOOLEAN /\ main' \in Seq(Messages)
         /\ Ordered(main', c) /\ Announced(main', c, now)
         /\ ThereAfter(Len(main'), main', c) <=> started'
         /\ \A x : Has(q, x) => Has(main', x)
<1>1. CASE main' = q /\ started' = started
  BY <1>1
<1>2. CASE main' = Append(q, "create") /\ started' = TRUE /\ ~started
  <2>1. "create" \in Messages /\ ~IsBroadcast("create")
    BY DEF Messages, IsBroadcast
  <2>2. Len(main') = Len(q) + 1 /\ main' \in Seq(Messages)
    BY <1>2, <2>1, AppendIs
  <2>3. Ordered(main', c) /\ Announced(main', c, now)
    BY <1>2, <2>1, AppendOrdered, AppendAnnounced
  <2>4. ThereAfter(Len(main'), main', c)
    BY <1>2, <2>1, <2>2, AppendAfter
  <2> QED
    BY <1>2, <2>1, <2>2, <2>3, <2>4, AppendHas
<1>3. CASE main' = Append(q, "destroy") /\ started' = FALSE
  <2>1. "destroy" \in Messages /\ ~IsBroadcast("destroy")
    BY DEF Messages, IsBroadcast
  <2>2. Len(main') = Len(q) + 1 /\ main' \in Seq(Messages)
    BY <1>3, <2>1, AppendIs
  <2>3. Ordered(main', c) /\ Announced(main', c, now)
    BY <1>3, <2>1, AppendOrdered, AppendAnnounced
  <2>4. ~ThereAfter(Len(main'), main', c)
    BY <1>3, <2>1, <2>2, AppendAfter
  <2> QED
    BY <1>3, <2>1, <2>2, <2>3, <2>4, AppendHas
<1> QED
  BY <1>1, <1>2, <1>3 DEF CheckDozeService, StartService, StopService
-----------------------------------------------------------------------------
(* The actions, one by one.                                                *)

(* A step that leaves the sensors alone and takes nobody's excuse away.    *)
LEMMA ListenFrame ==
  ASSUME ListenInv, UNCHANGED <<cur, executor, listening>>,
         \A s \in Sensors : raced[s] => raced'[s],
         Told("destroy") => Told("destroy")',
         \A s \in Sensors : Wanted(s, gesture) /\ (screen = "off" \/ Told("on")) =>
           raced'[s] \/ (Wanted(s, gesture') /\ (screen' = "off" \/ Told("on")'))
  PROVE  ListenInv'
<1>1. ASSUME NEW i \in Instances, NEW s \in Sensors
      PROVE  WillListen(i, s)' <=> WillListen(i, s)
  BY DEF WillListen
<1> QED
  BY <1>1 DEF ListenInv

(* The screen goes on or off.                                              *)
LEMMA ToggleStep ==
  ASSUME IInv, NEW to \in {"on", "off"}, Toggle(to)
  PROVE  IInv'
<1> USE DEF IInv
<1>1. to \in Messages /\ screen' = to /\ main \in Seq(Messages)
  BY DEF Messages, Types, Toggle
<1>2. CASE cur = None
  <2>1. main' = main
    BY <1>2 DEF Toggle
  <2>2. Types'
    BY <1>1, <2>1 DEF Types, Toggle, sensorVars
  <2>3. ServiceInv'
    BY <2>1 DEF ServiceInv, Toggle, Ordered, ThereAfter
  <2>4. BroadcastInv'
    BY <1>2, <2>1 DEF BroadcastInv, Announced, IsBroadcast, Toggle
  <2>5. ASSUME NEW i \in Instances, NEW s \in Sensors
        PROVE  ~WillListen(i, s)'
    <3>1. ~WillListen(i, s)
      BY <1>2, InstanceAssumption DEF ListenInv
    <3> QED
      BY <3>1 DEF WillListen, Toggle, sensorVars
  <2>6. ListenInv'
    BY <2>5 DEF ListenInv
  <2>7. NearInv'
    BY DEF NearInv, Toggle, sensorVars
  <2> QED
    BY <2>2, <2>3, <2>4, <2>6, <2>7
<1>3. CASE cur # None
  <2>1. main' = Append(main, to)
    BY <1>3 DEF Toggle
  <2>2. Types'
    <3>1. main' \in Seq(Messages)
      BY <1>1, <2>1, AppendIs
    <3>2. proc = "down" => FALSE
      BY <1>3 DEF Types
    <3> QED
      BY <1>1, <3>1, <3>2 DEF Types, Toggle, sensorVars
  <2>3. ServiceInv'
    <3>1. Ordered(main', cur')
      BY <1>1, <2>1, AppendOrdered DEF ServiceInv, Toggle
    <3>2. ThereAfter(Len(main'), main', cur') <=> ThereAfter(Len(main), main, cur)
      BY <1>1, <2>1, AppendIs, AppendAfter DEF Toggle
    <3> QED
      BY <3>1, <3>2 DEF ServiceInv, Toggle
  <2>4. BroadcastInv'
    <3>1. Announced(main', cur, to)
      BY <1>1, <1>3, <2>1, AppendIs DEF BroadcastInv, Announced
    <3> QED
      BY <1>1, <3>1 DEF BroadcastInv, Toggle
  <2>5. ListenInv'
    <3>1. (Told("destroy") => Told("destroy")') /\ (Told("on") => Told("on")')
      BY <1>1, <2>1, AppendHas DEF Told
    <3>2. to = "on" => Told("on")'
      BY <1>1, <2>1, AppendHas DEF Told
    <3> QED
      BY <1>1, <3>1, <3>2, ListenFrame DEF Toggle, sensorVars
  <2>6. NearInv'
    BY DEF NearInv, Toggle, sensorVars
  <2> QED
    BY <2>2, <2>3, <2>4, <2>5, <2>6
<1> QED
  BY <1>2, <1>3

(* The preference of a gesture changes.                                    *)
LEMMA PreferenceStep ==
  ASSUME IInv, proc = "up", NEW g \in Gestures, OnPreferenceChange(g)
  PROVE  IInv'
<1> USE DEF IInv
<1> DEFINE changed == [gesture EXCEPT ![g] = ~@]
<1>1. /\ "check" \in Messages /\ ~IsBroadcast("check") /\ main \in Seq(Messages)
      /\ main' = Append(main, "check") /\ gesture' = changed
  BY DEF Messages, IsBroadcast, Types, OnPreferenceChange
<1>2. \A s \in Sensors : raced'[s] <=>
        \/ raced[s]
        \/ Wanted(s, gesture) /\ ~Wanted(s, changed) /\ Told("on")
  BY DEF OnPreferenceChange, Told, Has
<1>3. Types'
  <2>1. main' \in Seq(Messages)
    BY <1>1, AppendIs
  <2>2. gesture' \in [Gestures -> BOOLEAN]
    BY <1>1 DEF Types
  <2>3. raced' \in [Sensors -> BOOLEAN]
    BY DEF OnPreferenceChange, Types, Wanted
  <2> QED
    BY <2>1, <2>2, <2>3 DEF Types, OnPreferenceChange, sensorVars
<1>4. ServiceInv'
  <2>1. Ordered(main', cur')
    BY <1>1, AppendOrdered DEF ServiceInv, OnPreferenceChange
  <2>2. ThereAfter(Len(main'), main', cur') <=> ThereAfter(Len(main), main, cur)
    BY <1>1, AppendIs, AppendAfter DEF OnPreferenceChange
  <2> QED
    BY <2>1, <2>2 DEF ServiceInv, OnPreferenceChange
<1>5. BroadcastInv'
  BY <1>1, AppendAnnounced DEF BroadcastInv, OnPreferenceChange
<1>6. ListenInv'
  <2>1. (Told("destroy") => Told("destroy")') /\ (Told("on") => Told("on")')
    BY <1>1, AppendHas DEF Told
  <2>2. screen = "on" /\ screen' = "on"
    BY DEF OnPreferenceChange
  <2>3. ASSUME NEW s \in Sensors, Wanted(s, gesture) /\ (screen = "off" \/ Told("on"))
        PROVE  raced'[s] \/ (Wanted(s, gesture') /\ (screen' = "off" \/ Told("on")'))
    BY <1>1, <1>2, <2>1, <2>2, <2>3
  <2> QED
    BY <1>2, <2>1, <2>3, ListenFrame DEF OnPreferenceChange, sensorVars
<1>7. NearInv'
  BY DEF NearInv, OnPreferenceChange, sensorVars
<1> QED
  BY <1>3, <1>4, <1>5, <1>6, <1>7

(* The switch above them.                                                  *)
LEMMA SwitchStep ==
  ASSUME IInv, proc = "up", OnCheckedChanged
  PROVE  IInv'
<1> USE DEF IInv
<1>1. /\ main \in Seq(Messages) /\ started \in BOOLEAN
      /\ CheckDozeService(~doze, main)
  BY DEF Types, OnCheckedChanged
<1>2. Ordered(main, cur) /\ Announced(main, cur, screen) /\ (ThereAfter(Len(main), main, cur) <=> started)
  BY DEF ServiceInv, BroadcastInv
<1>3. /\ started' \in BOOLEAN /\ main' \in Seq(Messages)
      /\ Ordered(main', cur) /\ Announced(main', cur, screen)
      /\ ThereAfter(Len(main'), main', cur) <=> started'
      /\ \A x : Has(main, x) => Has(main', x)
  BY <1>1, <1>2, AskStep
<1>4. Types'
  BY <1>1, <1>3 DEF Types, OnCheckedChanged, sensorVars
<1>5. ServiceInv' /\ BroadcastInv'
  BY <1>3 DEF ServiceInv, BroadcastInv, OnCheckedChanged
<1>6. ListenInv'
  BY <1>3, ListenFrame DEF Told, OnCheckedChanged, sensorVars
<1>7. NearInv'
  BY DEF NearInv, OnCheckedChanged, sensorVars
<1> QED
  BY <1>4, <1>5, <1>6, <1>7

(* The service is created.                                                 *)
LEMMA CreateStep ==
  ASSUME IInv, proc = "up", UNCHANGED <<proc, screen, doze, gesture>>,
         main # <<>>, Head(main) = "create", NEW i \in Instances, OnCreate(i), main' = Tail(main)
  PROVE  IInv'
<1> USE DEF IInv
<1>1. main \in Seq(Messages) /\ cur' = i /\ i # None
  BY InstanceAssumption DEF Types, OnCreate
<1>2. cur = None
  BY <1>1, FirstCreates DEF ServiceInv
<1>3. Types'
  BY <1>1, TailIs DEF Types, OnCreate
<1>4. ServiceInv'
  <2>1. Ordered(main', i)
    BY <1>1, TailOrdered DEF ServiceInv
  <2>2. ThereAfter(Len(main'), main', i) <=> ThereAfter(Len(main), main, cur)
    BY <1>1, TailEnd
  <2> QED
    BY <1>1, <2>1, <2>2 DEF ServiceInv, OnCreate
<1>5. BroadcastInv'
  BY <1>1, <1>2, TailAnnounced DEF BroadcastInv
<1>6. ASSUME NEW j \in Instances, NEW s \in Sensors
      PROVE  ~WillListen(j, s)'
  <2>1. CASE j = i
    <3>1. executor[j][s] = <<>> /\ ~listening[j][s]
      BY <2>1 DEF OnCreate, NothingLeft
    <3> QED
      BY <3>1 DEF WillListen, OnCreate
  <2>2. CASE j # i
    <3>1. ~WillListen(j, s)
      BY <1>2, InstanceAssumption DEF ListenInv
    <3> QED
      BY <3>1 DEF WillListen, OnCreate
  <2> QED
    BY <2>1, <2>2
<1>7. ListenInv'
  BY <1>6 DEF ListenInv
<1>8. NearInv'
  <2>1. ASSUME NEW j \in Instances
        PROVE  /\ listening'[j] = listening[j]
               /\ j # i => reported'[j] = reported[j] /\ mSawNear'[j] = mSawNear[j] /\ stale'[j] = stale[j]
               /\ j = i => reported'[j] = "none" /\ ~mSawNear'[j]
    BY DEF OnCreate, Types
  <2> QED
    BY <2>1 DEF NearInv
<1> QED
  BY <1>3, <1>4, <1>5, <1>7, <1>8

(* The service ends.                                                       *)
LEMMA DestroyStep ==
  ASSUME IInv, proc = "up", UNCHANGED <<proc, screen, doze, gesture>>,
         main # <<>>, Head(main) = "destroy", OnDestroy, main' = Forgotten(Tail(main))
  PROVE  IInv'
<1> USE DEF IInv
<1> DEFINE rest == Tail(main)
<1>1. /\ main \in Seq(Messages) /\ rest \in Seq(Messages) /\ cur' = None
      /\ Len(rest) \in Nat
  BY TailIs DEF Types, OnDestroy
<1>2. /\ main' \in Seq(Messages) /\ Len(main') = Len(rest) /\ DOMAIN main' = 1..Len(rest)
      /\ \A k \in 1..Len(rest) : ~IsBroadcast(main'[k])
  BY <1>1, ForgottenIs
<1>3. executor \in [Instances -> [Sensors -> Seq(Tasks)]] /\ "disable" \in Tasks
  BY DEF Types, Tasks
<1>4. Submit(cur, "disable", Sensors)
  BY DEF OnDestroy
<1>5. Types'
  <2>1. executor' \in [Instances -> [Sensors -> Seq(Tasks)]]
    BY <1>3, <1>4, SubmitIs
  <2> QED
    BY <1>2, <2>1 DEF Types, OnDestroy
<1>6. ServiceInv'
  <2>1. Ordered(rest, None)
    BY <1>1, TailOrdered DEF ServiceInv
  <2>2. Ordered(main', None)
    BY <1>1, <2>1, ForgottenOrdered
  <2>3. ThereAfter(Len(rest), rest, None) <=> ThereAfter(Len(main), main, cur)
    BY <1>1, TailEnd
  <2>4. ThereAfter(Len(rest), main', None) <=> ThereAfter(Len(rest), rest, None)
    <3>1. Len(rest) \in 0..Len(rest)
      BY <1>1
    <3> QED
      BY <1>1, <3>1, ForgottenAfter
  <2> QED
    BY <1>1, <1>2, <2>2, <2>3, <2>4 DEF ServiceInv, OnDestroy
<1>7. BroadcastInv'
  BY <1>2 DEF BroadcastInv, Announced, IsBroadcast
<1>8. ASSUME NEW j \in Instances, NEW s \in Sensors
      PROVE  ~WillListen(j, s)'
  <2>1. WillListen(j, s)' <=> IF j = cur /\ s \in Sensors THEN "disable" = "enable" ELSE WillListen(j, s)
    BY <1>3, <1>4, SubmitListens DEF OnDestroy
  <2> QED
    BY <2>1 DEF ListenInv
<1>9. ListenInv'
  BY <1>8 DEF ListenInv
<1>10. NearInv'
  BY DEF NearInv, OnDestroy
<1> QED
  BY <1>5, <1>6, <1>7, <1>9, <1>10

(* What every other message has in common: it leaves the queue.            *)
LEMMA NextMessage ==
  ASSUME IInv, main # <<>>, Head(main) \notin {"create", "destroy"}
  PROVE  /\ main \in Seq(Messages) /\ Tail(main) \in Seq(Messages)
         /\ Ordered(Tail(main), cur) /\ Announced(Tail(main), cur, screen)
         /\ ThereAfter(Len(Tail(main)), Tail(main), cur) <=> ThereAfter(Len(main), main, cur)
         /\ Has(main, "destroy") => Has(Tail(main), "destroy")
         /\ Has(main, "on") /\ Head(main) # "on" => Has(Tail(main), "on")
<1>1. main \in Seq(Messages) /\ Tail(main) \in Seq(Messages)
  BY TailIs DEF IInv, Types
<1>2. Ordered(Tail(main), cur) /\ Announced(Tail(main), cur, screen)
  BY <1>1, TailOrdered, TailAnnounced DEF IInv, ServiceInv, BroadcastInv
<1>3. ThereAfter(Len(Tail(main)), Tail(main), cur) <=> ThereAfter(Len(main), main, cur)
  BY <1>1, TailEnd
<1> QED
  BY <1>1, <1>2, <1>3, TailHas

(* A forgotten broadcast is dropped.                                       *)
LEMMA GoneStep ==
  ASSUME IInv, proc = "up", main # <<>>, Head(main) = "gone", main' = Tail(main),
         UNCHANGED <<proc, screen, doze, gesture, started, cur, sensorVars, raced>>
  PROVE  IInv'
<1> USE DEF IInv
<1>1. Types' /\ NearInv'
  BY NextMessage DEF Types, NearInv, sensorVars
<1>2. ServiceInv' /\ BroadcastInv'
  BY NextMessage DEF ServiceInv, BroadcastInv
<1>3. ListenInv'
  BY NextMessage, ListenFrame DEF Told, sensorVars
<1> QED
  BY <1>1, <1>2, <1>3

(* The settings screen's message: the service is looked after.             *)
LEMMA CheckStep ==
  ASSUME IInv, proc = "up", main # <<>>, Head(main) = "check", CheckDozeService(doze, Tail(main)),
         UNCHANGED <<proc, screen, doze, gesture, cur, sensorVars, raced>>
  PROVE  IInv'
<1> USE DEF IInv
<1> DEFINE rest == Tail(main)
<1>1. /\ started \in BOOLEAN /\ rest \in Seq(Messages)
      /\ Ordered(rest, cur) /\ Announced(rest, cur, screen)
      /\ ThereAfter(Len(rest), rest, cur) <=> started
      /\ CheckDozeService(doze, rest)
      /\ Told("destroy") => Has(rest, "destroy")
      /\ Told("on") => Has(rest, "on")
  BY NextMessage DEF Types, ServiceInv, Told
<1> HIDE DEF rest
<1>2. /\ started' \in BOOLEAN /\ main' \in Seq(Messages)
      /\ Ordered(main', cur) /\ Announced(main', cur, screen)
      /\ ThereAfter(Len(main'), main', cur) <=> started'
      /\ \A x : Has(rest, x) => Has(main', x)
  BY <1>1, AskStep
<1>3. Types' /\ NearInv'
  BY <1>2 DEF Types, NearInv, sensorVars
<1>4. ServiceInv' /\ BroadcastInv'
  BY <1>2 DEF ServiceInv, BroadcastInv
<1>5. ListenInv'
  BY <1>1, <1>2, ListenFrame DEF Told, sensorVars
<1> QED
  BY <1>3, <1>4, <1>5

(* The service hears that the screen is off.                               *)
LEMMA OffStep ==
  ASSUME IInv, proc = "up", UNCHANGED <<proc, screen, doze, gesture>>,
         main # <<>>, Head(main) = "off", OnDisplayOff, main' = Tail(main)
  PROVE  IInv'
<1> USE DEF IInv
<1> DEFINE which == { s \in Sensors : Wanted(s, gesture) }
<1>1. executor \in [Instances -> [Sensors -> Seq(Tasks)]] /\ "enable" \in Tasks
  BY DEF Types, Tasks
<1>2. Submit(cur, "enable", which)
  BY DEF OnDisplayOff
<1>3. Types'
  <2>1. executor' \in [Instances -> [Sensors -> Seq(Tasks)]]
    BY <1>1, <1>2, SubmitIs
  <2> QED
    BY <2>1, NextMessage DEF Types, OnDisplayOff
<1>4. ServiceInv' /\ BroadcastInv' /\ NearInv'
  BY NextMessage DEF ServiceInv, BroadcastInv, NearInv, OnDisplayOff
<1>5. screen = "off" \/ Told("on")'
  <2>1. 1 \in DOMAIN main /\ main[1] = "off"
    BY NextMessage, TailIs
  <2>2. screen = "off" \/ Has(main, "on")
    BY <2>1 DEF BroadcastInv, Announced, Has
  <2> QED
    BY <2>2, NextMessage DEF Told
<1>6. ASSUME NEW i \in Instances, NEW s \in Sensors, WillListen(i, s)'
      PROVE  /\ i = cur
             /\ raced[s] \/ Told("destroy")' \/ (Wanted(s, gesture) /\ (screen = "off" \/ Told("on")'))
  <2>1. WillListen(i, s)' <=> IF i = cur /\ s \in which THEN "enable" = "enable" ELSE WillListen(i, s)
    BY <1>1, <1>2, SubmitListens DEF OnDisplayOff
  <2>2. CASE i = cur /\ s \in which
    BY <1>5, <2>2
  <2>3. CASE WillListen(i, s)
    <3>1. i = cur /\ (raced[s] \/ Told("destroy") \/ Wanted(s, gesture))
      BY <2>3 DEF ListenInv
    <3>2. Told("destroy") => Told("destroy")'
      BY NextMessage DEF Told
    <3> QED
      BY <1>5, <3>1, <3>2
  <2> QED
    BY <1>6, <2>1, <2>2, <2>3
<1>7. ListenInv'
  BY <1>6 DEF ListenInv, OnDisplayOff
<1> QED
  BY <1>3, <1>4, <1>7

(* The service hears that the screen is on.                                *)
LEMMA OnStep ==
  ASSUME IInv, proc = "up", UNCHANGED <<proc, screen, doze, gesture>>,
         main # <<>>, Head(main) = "on", OnDisplayOn, main' = Tail(main)
  PROVE  IInv'
<1> USE DEF IInv
<1> DEFINE which == { s \in Sensors : Wanted(s, gesture) }
<1>1. executor \in [Instances -> [Sensors -> Seq(Tasks)]] /\ "disable" \in Tasks
  BY DEF Types, Tasks
<1>2. /\ Submit(cur, "disable", which) /\ UNCHANGED <<started, cur, listening, reported, stale, mSawNear>>
      /\ raced' = [s \in Sensors |-> raced[s] /\ s \notin which]
  BY DEF OnDisplayOn
<1>3. Types'
  <2>1. executor' \in [Instances -> [Sensors -> Seq(Tasks)]]
    BY <1>1, <1>2, SubmitIs
  <2>2. raced' \in [Sensors -> BOOLEAN]
    BY <1>2 DEF Types
  <2> QED
    BY <1>2, <2>1, <2>2, NextMessage DEF Types
<1>4. ServiceInv' /\ BroadcastInv' /\ NearInv'
  BY <1>2, NextMessage DEF ServiceInv, BroadcastInv, NearInv
<1>5. ASSUME NEW i \in Instances, NEW s \in Sensors, WillListen(i, s)'
      PROVE  i = cur /\ (raced'[s] \/ Told("destroy")')
  <2>1. WillListen(i, s)' <=> IF i = cur /\ s \in which THEN "disable" = "enable" ELSE WillListen(i, s)
    BY <1>1, <1>2, SubmitListens
  <2>2. WillListen(i, s) /\ ~(i = cur /\ s \in which)
    BY <1>5, <2>1
  <2>3. i = cur /\ s \notin which /\ (raced[s] \/ Told("destroy"))
    BY <2>2 DEF ListenInv
  <2>4. Told("destroy") => Told("destroy")'
    BY NextMessage DEF Told
  <2>5. raced'[s] <=> raced[s] /\ s \notin which
    BY <1>2
  <2> QED
    BY <2>3, <2>4, <2>5
<1>6. ListenInv'
  BY <1>2, <1>5 DEF ListenInv
<1> QED
  BY <1>3, <1>4, <1>6

(* The main thread takes the next message.                                 *)
LEMMA DispatchStep ==
  ASSUME IInv, proc = "up", Dispatch
  PROVE  IInv'
<1>1. main # <<>> /\ UNCHANGED <<proc, screen, doze, gesture>>
  BY DEF Dispatch
<1>2. ASSUME NEW i \in Instances, Head(main) = "create", OnCreate(i), main' = Tail(main)
      PROVE  IInv'
  BY <1>1, <1>2, CreateStep
<1>3. CASE Head(main) = "destroy" /\ OnDestroy /\ main' = Forgotten(Tail(main))
  BY <1>1, <1>3, DestroyStep
<1>4. CASE Head(main) = "gone" /\ main' = Tail(main) /\ UNCHANGED <<started, cur, sensorVars, raced>>
  BY <1>1, <1>4, GoneStep
<1>5. CASE Head(main) = "off" /\ OnDisplayOff /\ main' = Tail(main)
  BY <1>1, <1>5, OffStep
<1>6. CASE Head(main) = "on" /\ OnDisplayOn /\ main' = Tail(main)
  BY <1>1, <1>6, OnStep
<1>7. CASE Head(main) = "check" /\ CheckDozeService(doze, Tail(main)) /\ UNCHANGED <<cur, sensorVars, raced>>
  BY <1>1, <1>7, CheckStep
<1> QED
  BY <1>2, <1>3, <1>4, <1>5, <1>6, <1>7, Zenon DEF Dispatch

(* A sensor's thread registers the listener.                               *)
LEMMA RegisterStep ==
  ASSUME IInv, proc = "up", NEW i \in Instances, NEW s \in Sensors, Register(i, s)
  PROVE  IInv'
<1> USE DEF IInv
<1>1. "enable" \in Tasks /\ listening' = [listening EXCEPT ![i][s] = ("enable" = "enable")]
  BY DEF Tasks, Register
<1>2. /\ executor' \in [Instances -> [Sensors -> Seq(Tasks)]]
      /\ listening' \in [Instances -> [Sensors -> BOOLEAN]]
      /\ \A j \in Instances, r \in Sensors : WillListen(j, r)' <=> WillListen(j, r)
  BY <1>1, TaskListens DEF Register
<1>3. reported' \in [Instances -> {"none", "near", "far"}]
  BY DEF Register, Types
<1>4. Types'
  BY <1>2, <1>3 DEF Types, Register
<1>5. ServiceInv' /\ BroadcastInv'
  BY DEF ServiceInv, BroadcastInv, Register
<1>6. ListenInv'
  BY <1>2 DEF ListenInv, Told, Register
<1>7. ASSUME NEW j \in Instances
      PROVE  /\ reported'[j] # "none" => mSawNear[j] = (reported'[j] = "near")
             /\ mSawNear[j] /\ reported'[j] = "none" => stale[j]
             /\ "proximity" \in Sensors /\ ~listening'[j]["proximity"] /\ mSawNear[j] => stale[j]
  <2>1. \/ reported'[j] = reported[j]
        \/ reported'[j] = "none" /\ "proximity" \in Sensors /\ ~listening[j]["proximity"]
    BY DEF Register, Types
  <2>2. "proximity" \in Sensors /\ ~listening'[j]["proximity"] => ~listening[j]["proximity"]
    BY DEF Register, Types
  <2> QED
    BY <2>1, <2>2 DEF NearInv
<1>8. NearInv'
  BY <1>7 DEF NearInv, Register
<1> QED
  BY <1>4, <1>5, <1>6, <1>8

(* It unregisters the listener.                                            *)
LEMMA UnregisterStep ==
  ASSUME IInv, proc = "up", NEW i \in Instances, NEW s \in Sensors, Unregister(i, s)
  PROVE  IInv'
<1> USE DEF IInv
<1>1. "disable" \in Tasks /\ listening' = [listening EXCEPT ![i][s] = ("disable" = "enable")]
  BY DEF Tasks, Unregister
<1>2. /\ executor' \in [Instances -> [Sensors -> Seq(Tasks)]]
      /\ listening' \in [Instances -> [Sensors -> BOOLEAN]]
      /\ \A j \in Instances, r \in Sensors : WillListen(j, r)' <=> WillListen(j, r)
  BY <1>1, TaskListens DEF Unregister
<1>3. stale' \in [Instances -> BOOLEAN]
  BY DEF Unregister, Types
<1>4. Types'
  BY <1>2, <1>3 DEF Types, Unregister
<1>5. ServiceInv' /\ BroadcastInv'
  BY DEF ServiceInv, BroadcastInv, Unregister
<1>6. ListenInv'
  BY <1>2 DEF ListenInv, Told, Unregister
<1>7. ASSUME NEW j \in Instances
      PROVE  /\ mSawNear[j] /\ reported[j] = "none" => stale'[j]
             /\ "proximity" \in Sensors /\ ~listening'[j]["proximity"] /\ mSawNear[j] => stale'[j]
  <2>1. CASE j = i /\ s = "proximity" /\ listening[i][s]
    <3>1. stale'[j] <=> reported[j] = "near" \/ (reported[j] = "none" /\ stale[j])
      BY <2>1 DEF Unregister, Types
    <3>2. reported[j] \in {"none", "near", "far"}
      BY DEF Types
    <3> QED
      BY <3>1, <3>2 DEF NearInv
  <2>2. CASE ~(j = i /\ s = "proximity" /\ listening[i][s])
    <3>1. stale'[j] = stale[j]
      BY <2>2 DEF Unregister, Types
    <3>2. "proximity" \in Sensors /\ ~listening'[j]["proximity"] => ~listening[j]["proximity"]
      BY <2>2 DEF Unregister, Types
    <3> QED
      BY <3>1, <3>2 DEF NearInv
  <2> QED
    BY <2>1, <2>2
<1>8. NearInv'
  BY <1>7 DEF NearInv, Unregister
<1> QED
  BY <1>4, <1>5, <1>6, <1>8

(* The proximity sensor reports.                                           *)
LEMMA ProximityStep ==
  ASSUME IInv, proc = "up", NEW i \in Instances, NEW value \in {"near", "far"}, Proximity(i, value)
  PROVE  IInv'
<1> USE DEF IInv
<1>1. /\ reported' = [reported EXCEPT ![i] = value] /\ mSawNear' = [mSawNear EXCEPT ![i] = (value = "near")]
      /\ "proximity" \in Sensors /\ listening[i]["proximity"]
      /\ UNCHANGED <<proc, screen, doze, gesture, started, main, cur, executor, listening, stale, raced>>
  BY DEF Proximity, OnSensorChanged, Saw
<1>2. reported' \in [Instances -> {"none", "near", "far"}] /\ mSawNear' \in [Instances -> BOOLEAN]
  BY <1>1 DEF Types
<1>3. Types'
  BY <1>1, <1>2 DEF Types
<1>4. ServiceInv' /\ BroadcastInv'
  BY <1>1 DEF ServiceInv, BroadcastInv
<1>5. ListenInv'
  BY <1>1 DEF ListenInv, WillListen, Told
<1>6. ASSUME NEW j \in Instances
      PROVE  /\ reported'[j] # "none" => mSawNear'[j] = (reported'[j] = "near")
             /\ mSawNear'[j] /\ reported'[j] = "none" => stale[j]
             /\ "proximity" \in Sensors /\ ~listening[j]["proximity"] /\ mSawNear'[j] => stale[j]
  <2>1. CASE j = i
    BY <1>1, <2>1 DEF Types
  <2>2. CASE j # i
    BY <1>1, <2>2 DEF Types, NearInv
  <2> QED
    BY <2>1, <2>2
<1>7. NearInv'
  BY <1>1, <1>6 DEF NearInv
<1> QED
  BY <1>3, <1>4, <1>5, <1>7

(* A process that has just begun knows nothing.                            *)
LEMMA Blank ==
  ASSUME executor = EachSensor(<<>>), listening = EachSensor(FALSE),
         reported = Each("none"), stale = Each(FALSE), mSawNear = Each(FALSE),
         raced = [s \in Sensors |-> FALSE]
  PROVE  /\ executor \in [Instances -> [Sensors -> Seq(Tasks)]]
         /\ listening \in [Instances -> [Sensors -> BOOLEAN]]
         /\ reported \in [Instances -> {"none", "near", "far"}]
         /\ mSawNear \in [Instances -> BOOLEAN] /\ stale \in [Instances -> BOOLEAN]
         /\ raced \in [Sensors -> BOOLEAN]
         /\ ListenInv /\ NearInv
<1>1. \A i \in Instances, s \in Sensors : ~WillListen(i, s)
  BY DEF WillListen, EachSensor
<1>2. ListenInv /\ NearInv
  BY <1>1 DEF ListenInv, NearInv, Each
<1>3. <<>> \in Seq(Tasks)
  OBVIOUS
<1> QED
  BY <1>2, <1>3 DEF EachSensor, Each

(* The process ends.                                                       *)
LEMMA DieStep ==
  ASSUME IInv, proc = "up", Die
  PROVE  IInv'
<1> USE DEF IInv
<1>1. ListenInv' /\ NearInv'
  <2>1. ASSUME NEW i \in Instances, NEW s \in Sensors
        PROVE  ~WillListen(i, s)'
    BY DEF WillListen, EachSensor, Die
  <2>2. ListenInv'
    BY <2>1 DEF ListenInv
  <2>3. NearInv'
    BY DEF NearInv, Each, Die
  <2> QED
    BY <2>2, <2>3
<1>2. Types'
  <2>1. <<>> \in Seq(Tasks) /\ <<>> \in Seq(Messages)
    OBVIOUS
  <2>2. /\ executor' \in [Instances -> [Sensors -> Seq(Tasks)]]
        /\ listening' \in [Instances -> [Sensors -> BOOLEAN]]
    BY <2>1 DEF Die, EachSensor
  <2>3. /\ reported' \in [Instances -> {"none", "near", "far"}]
        /\ mSawNear' \in [Instances -> BOOLEAN] /\ stale' \in [Instances -> BOOLEAN]
        /\ raced' \in [Sensors -> BOOLEAN]
    BY DEF Die, Each
  <2> QED
    BY <2>1, <2>2, <2>3 DEF Types, Die
<1>3. ServiceInv' /\ BroadcastInv'
  BY DEF ServiceInv, BroadcastInv, Ordered, Announced, Die
<1> QED
  BY <1>1, <1>2, <1>3

(* Android starts it again.                                                *)
LEMMA RestartStep ==
  ASSUME IInv, Restart
  PROVE  IInv'
<1> USE DEF IInv
<1>1. cur = None /\ cur' = None /\ main = <<>>
  BY DEF Types, Restart
<1>2. main' = IF started THEN <<"create">> ELSE <<>>
  BY DEF Restart
<1>3. main' \in Seq(Messages)
  <2>1. <<>> \in Seq(Messages) /\ <<"create">> \in Seq(Messages)
    BY DEF Messages
  <2> QED
    BY <1>2, <2>1
<1>4. Types'
  BY <1>1, <1>3 DEF Types, Restart, sensorVars
<1>5. ServiceInv' /\ BroadcastInv'
  <2>1. CASE started
    BY <1>1, <1>2, <2>1 DEF ServiceInv, BroadcastInv, Ordered, Announced, ThereAfter, IsBroadcast, Restart
  <2>2. CASE ~started
    BY <1>1, <1>2, <2>2 DEF ServiceInv, BroadcastInv, Ordered, Announced, ThereAfter, Restart
  <2> QED
    BY <2>1, <2>2
<1>6. ASSUME NEW i \in Instances, NEW s \in Sensors
      PROVE  ~WillListen(i, s)'
  <2>1. ~WillListen(i, s)
    BY <1>1, InstanceAssumption DEF ListenInv
  <2> QED
    BY <2>1 DEF WillListen, Restart, sensorVars
<1>7. ListenInv'
  BY <1>6 DEF ListenInv
<1>8. NearInv'
  BY DEF NearInv, Restart, sensorVars
<1> QED
  BY <1>4, <1>5, <1>7, <1>8
-----------------------------------------------------------------------------
(* Boot: the service is about to be created.                               *)
LEMMA InitInv == Init => IInv
<1> SUFFICES ASSUME Init
             PROVE  IInv
  OBVIOUS
<1>1. main = <<"create">> /\ <<"create">> \in Seq(Messages) /\ cur = None
  BY DEF Init, Messages
<1>2. Types
  BY <1>1, Blank DEF Init, Types
<1>3. ServiceInv /\ BroadcastInv
  BY <1>1 DEF Init, ServiceInv, BroadcastInv, Ordered, Announced, ThereAfter, IsBroadcast
<1>4. ListenInv /\ NearInv
  BY Blank DEF Init
<1> QED
  BY <1>2, <1>3, <1>4 DEF IInv

(* Every step of the process keeps the service's invariant.                *)
LEMMA NextInv ==
  ASSUME IInv, [PartsNext]_allVars
  PROVE  IInv'
<1>1. ASSUME Step
      PROVE  IInv'
  <2>1. proc = "up"
    BY <1>1 DEF Step
  <2>2. CASE \E to \in {"on", "off"} : Toggle(to)
    BY <2>2, ToggleStep
  <2>3. CASE \E g \in Gestures : OnPreferenceChange(g)
    BY <2>1, <2>3, PreferenceStep
  <2>4. CASE OnCheckedChanged
    BY <2>1, <2>4, SwitchStep
  <2>5. CASE Dispatch
    BY <2>1, <2>5, DispatchStep
  <2>6. ASSUME NEW i \in Instances, NEW s \in Sensors, Executor(i, s)
        PROVE  IInv'
    BY <2>1, <2>6, RegisterStep, UnregisterStep DEF Executor
  <2>7. ASSUME NEW i \in Instances, NEW value \in {"near", "far"}, Proximity(i, value)
        PROVE  IInv'
    BY <2>1, <2>7, ProximityStep
  <2> QED
    BY <1>1, <2>2, <2>3, <2>4, <2>5, <2>6, <2>7 DEF Step
<1>2. CASE Restart
  BY <1>2, RestartStep
<1>3. CASE proc = "up" /\ Die
  BY <1>3, DieStep
<1>4. CASE UNCHANGED vars
  BY <1>4 DEF vars, sensorVars, IInv, Types, ServiceInv, BroadcastInv, ListenInv, WillListen, Told, NearInv
<1> QED
  BY <1>1, <1>2, <1>3, <1>4 DEF PartsNext, SpeakerThrows, Killed, allVars

(* What the fragment keeps, and the earpiece's state with it.              *)
SpeakerInv == Speaker!TypeOK /\ EarpieceRestored
LEMMA SpeakerStep ==
  ASSUME SpeakerInv, IInv, [PartsNext]_allVars
  PROVE  SpeakerInv'
<1> USE DEF SpeakerInv, EarpieceRestored, Speaker!TypeOK, Speaker!EarpieceRestored
<1>1. CASE Step /\ UNCHANGED speakerVars
  <2>1. proc' \in {"up", "down"}
    BY <1>1, NextInv DEF IInv, Types, PartsNext
  <2> QED
    BY <1>1, <2>1 DEF speakerVars
<1>2. CASE Restart /\ UNCHANGED speakerVars
  BY <1>2 DEF Restart, speakerVars
<1>3. CASE Speaker!Step
  <2>1. CASE Speaker!Show
    BY <2>1 DEF Speaker!Show
  <2>2. CASE Speaker!Start
    BY <2>2 DEF Speaker!Start, Speaker!MaySwitch
  <2>3. CASE Speaker!StartFails
    BY <2>3 DEF Speaker!StartFails, Speaker!MaySwitch
  <2>4. CASE Speaker!Timer
    BY <2>4 DEF Speaker!Timer, Speaker!StopPlaying, Speaker!MayStop
  <2>5. CASE Speaker!Leave
    BY <2>5 DEF Speaker!Leave, Speaker!StopPlaying, Speaker!MayStop
  <2>6. CASE Speaker!Finish
    BY <2>6 DEF Speaker!Finish
  <2> QED
    BY <1>3, <2>1, <2>2, <2>3, <2>4, <2>5, <2>6 DEF Speaker!Step
<1>4. CASE Speaker!Die
  BY <1>4 DEF Speaker!Die
<1>5. CASE UNCHANGED allVars
  BY <1>5 DEF allVars, vars, speakerVars
<1> QED
  BY <1>1, <1>2, <1>3, <1>4, <1>5 DEF PartsNext, SpeakerThrows, Killed

(* What the invariant says of a service at rest.                           *)
LEMMA Consequences == IInv => TypeOK /\ AtRest
<1> SUFFICES ASSUME IInv
             PROVE  TypeOK /\ AtRest
  OBVIOUS
<1>1. TypeOK
  BY DEF IInv, Types, ServiceInv, TypeOK, Messages, Tasks, ThereAfter
<1>2. ASSUME NEW i \in Instances, NEW s \in Sensors, Quiet(i), listening[i][s]
      PROVE  i = cur /\ (screen = "on" => raced[s])
  <2>1. main = <<>> /\ WillListen(i, s)
    BY <1>2 DEF Quiet, WillListen
  <2>2. \A m : ~Told(m)
    BY <2>1 DEF Told, Has
  <2> QED
    BY <2>1, <2>2 DEF IInv, Types, ListenInv
<1> QED
  BY <1>1, <1>2 DEF AtRest

(* Nothing listens that should not: when the main thread and the executors *)
(* have done what was asked for, a stopped service has no listener left    *)
(* and, with the screen on, no sensor listens but for the one race; the    *)
(* service is there as Android was last told; and the sound cannot be      *)
(* started while it is played.                                             *)
THEOREM PartsTheorem == PartsSpec => []PartsInv
<1>1. PartsInit => IInv /\ SpeakerInv
  BY InitInv DEF PartsInit, SpeakerInv, EarpieceRestored, Speaker!TypeOK,
                 Speaker!EarpieceRestored, Speaker!Init
<1>2. IInv /\ SpeakerInv /\ [PartsNext]_allVars => IInv' /\ SpeakerInv'
  BY NextInv, SpeakerStep
<1>3. IInv /\ SpeakerInv => PartsInv
  BY Consequences DEF PartsInv, SpeakerInv
<1> QED
  BY <1>1, <1>2, <1>3, PTL DEF PartsSpec

(* Once the fragment is left, the audio HAL no longer takes the earpiece   *)
(* to be cleaned, unless the start had failed or the process has ended     *)
(* (ClearSpeakerFragment.stopPlaying, with DozeService in its process).    *)
THEOREM EarpieceTheorem == PartsSpec => []EarpieceRestored
<1>1. PartsInit => IInv /\ SpeakerInv
  BY InitInv DEF PartsInit, SpeakerInv, EarpieceRestored, Speaker!TypeOK,
                 Speaker!EarpieceRestored, Speaker!Init
<1>2. IInv /\ SpeakerInv /\ [PartsNext]_allVars => IInv' /\ SpeakerInv'
  BY NextInv, SpeakerStep
<1>3. SpeakerInv => EarpieceRestored
  BY DEF SpeakerInv
<1> QED
  BY <1>1, <1>2, <1>3, PTL DEF PartsSpec

(* A pulse of the proximity sensor has a cause of its own screen-off, or   *)
(* the sensor was near when it was last disabled (shouldPulse).            *)
THEOREM PulseTheorem == PartsSpec => PulseHasCause
<1>1. PartsInit => IInv
  BY InitInv DEF PartsInit
<1>2. IInv /\ [PartsNext]_allVars => IInv'
  BY NextInv
<1>3. IInv => \A i \in Instances : MayPulse(i) => reported[i] = "near" \/ stale[i]
  BY DEF IInv, Types, NearInv, MayPulse
<1> QED
  BY <1>1, <1>2, <1>3, PTL DEF PartsSpec, PulseHasCause
-----------------------------------------------------------------------------
(***************************************************************************)
(* DozeService's observer of udfps_need_hbm and the threads it starts      *)
(* (HbmObserver), for any number of threads and of notifications.          *)
(***************************************************************************)

(* HBM that is on for no need and without an excuse is about to be turned  *)
(* off: a notification waits, or onChange has read that it is not needed.  *)
OffToCome ==
  need = 0 /\ node = "on" /\ ~excused =>
    (\E o \in Observers : pending[o] > 0) \/ onChange = "off"

(* A dead process has no observer and runs no callback.                    *)
DownInv ==
  app = "down" =>
    hbmObserver = NoObserver /\ onChange = "idle" /\ \A o \in Observers : pending[o] = 0

HbmIInv == HbmTypeOK /\ OffToCome /\ DownInv
-----------------------------------------------------------------------------
(* A thread that starts is not one an observer remembers, or becomes it as *)
(* one of the observer's.                                                  *)
LEMMA StartKinds ==
  ASSUME HbmTypeOK, NEW t \in Threads, NEW k \in {"observer", "delayed"}, StartThread(t, k)
  PROVE  /\ kind' \in [Threads -> {"observer", "delayed"}]
         /\ st' \in [Threads -> {"dead", "sleep", "read", "on", "off"}]
         /\ kind'[t] = k
         /\ \A o \in Observers : o # running /\ mThread[o] # NoThread /\ ~Unreachable(o)
              => kind'[mThread[o]] = "observer"
  BY DEF StartThread, HbmTypeOK

(* The service's process ends, by itself or by starting a thread twice.    *)
LEMMA CrashStep ==
  ASSUME HbmIInv, Crash
  PROVE  HbmIInv'
<1>0. MaxPending \in Nat \ {0}
  BY ThreadsAssumption
<1>1. /\ app' = "down" /\ hbmObserver' = NoObserver /\ pending' = [o \in Observers |-> 0]
      /\ onChange' = "idle" /\ running' = NoObserver
      /\ mThread' = [o \in Observers |-> NoThread]
      /\ st' = [t \in Threads |-> "dead"] /\ kind' = [t \in Threads |-> "observer"]
      /\ excused' = (need = 0) /\ UNCHANGED <<view, need, node, booted>>
  BY DEF Crash, settings
<1>2. excused' \in BOOLEAN
  BY <1>1
<1>3. OffToCome' /\ DownInv'
  BY <1>1 DEF OffToCome, DownInv
<1>4. pending' \in [Observers -> 0..MaxPending]
  BY <1>0, <1>1
<1> QED
  BY <1>1, <1>2, <1>3, <1>4 DEF HbmIInv, HbmTypeOK

(* What keeps the invariant, one disjunct of Next at a time.               *)
LEMMA HbmStep ==
  ASSUME HbmIInv, [HbmNext]_hbmVars
  PROVE  HbmIInv'
<1>0. MaxPending \in Nat \ {0} /\ NoObserver \notin Observers
  BY ThreadsAssumption, ObserversAssumption
<1> USE <1>0 DEF HbmIInv, HbmTypeOK, OffToCome, DownInv, settings, process, threads, observer,
                 Unreachable
<1>1. ASSUME NEW v \in {0, 1}, SetView(v)
      PROVE  HbmIInv'
  BY <1>1 DEF SetView
<1>2. ASSUME NEW v \in {0, 1}, SetNeed(v)
      PROVE  HbmIInv'
  <2>1. excused' \in BOOLEAN /\ excused' = (v = 0 /\ hbmObserver = NoObserver)
    BY <1>2 DEF SetNeed
  <2>2. /\ need' = v
        /\ UNCHANGED <<view, node, booted, app, hbmObserver, onChange, running, mThread, kind, st>>
    BY <1>2 DEF SetNeed
  <2>3. CASE hbmObserver = NoObserver
    <3>1. UNCHANGED pending
      BY <1>2, <2>3 DEF SetNeed
    <3> QED
      BY <2>1, <2>2, <2>3, <3>1
  <2>4. CASE hbmObserver # NoObserver
    <3>1. /\ hbmObserver \in Observers /\ pending[hbmObserver] < MaxPending
          /\ pending' = [pending EXCEPT ![hbmObserver] = @ + 1]
      BY <1>2, <2>4 DEF SetNeed
    <3>2. pending[hbmObserver] \in 0..MaxPending
      BY <3>1
    <3>3. pending' \in [Observers -> 0..MaxPending] /\ pending'[hbmObserver] > 0
      BY <3>1, <3>2
    <3>4. \A o \in Observers : ~Unreachable(o)' => ~Unreachable(o)
      BY <2>2, <3>1
    <3> QED
      BY <2>1, <2>2, <3>1, <3>3, <3>4
  <2> QED
    BY <2>3, <2>4
<1>3. CASE HideOverlay
  BY <1>3 DEF HideOverlay
<1>4. ASSUME NEW v \in {"on", "off"}, UserSwitch(v)
      PROVE  HbmIInv'
  BY <1>4 DEF UserSwitch
<1>14. ASSUME NEW v \in {"on", "off"}, BootCompleted(v)
       PROVE  HbmIInv'
  BY <1>14 DEF BootCompleted
<1>5. CASE Revive \/ AppDies
  BY <1>5, CrashStep DEF Revive, AppDies
<1>15. ASSUME NEW o \in Observers, RegisterObserver(o)
       PROVE  HbmIInv'
  BY <1>15 DEF RegisterObserver
<1>16. CASE UnregisterObserver
  BY <1>16 DEF UnregisterObserver
<1>6. ASSUME NEW t \in Threads, EnableHBMDelayed(t)
      PROVE  HbmIInv'
  BY <1>6, StartKinds DEF EnableHBMDelayed
<1>7. ASSUME NEW o \in Observers, OnChange(o)
      PROVE  HbmIInv'
  <2>1. /\ pending[o] \in 0..MaxPending /\ pending[o] > 0
        /\ pending' = [pending EXCEPT ![o] = @ - 1]
        /\ onChange' = (IF need = 0 THEN "off" ELSE "on") /\ running' = o
        /\ UNCHANGED <<view, need, node, booted, app, hbmObserver, mThread, kind, st, excused>>
    BY <1>7 DEF OnChange
  <2>2. pending' \in [Observers -> 0..MaxPending]
    BY <2>1
  <2>3. \A p \in Observers : ~Unreachable(p)' => ~Unreachable(p)
    BY <1>7, <2>1 DEF OnChange
  <2>4. app # "down"
    BY <1>7 DEF OnChange
  <2> QED
    BY <2>1, <2>2, <2>3, <2>4
<1>8. CASE TurnOff
  BY <1>8 DEF TurnOff
<1>9. CASE Interrupt
  BY <1>9 DEF Interrupt, Return
<1>10. ASSUME NEW t \in Threads, TurnOnLater(t)
       PROVE  HbmIInv'
  BY <1>10, StartKinds DEF TurnOnLater, Return
<1>11. CASE StartTwice
  BY <1>11, CrashStep DEF StartTwice
<1>12. ASSUME NEW t \in Threads, RunNext(t)
       PROVE  HbmIInv'
  <2>1. CASE WakeUp(t)
    BY <2>1 DEF WakeUp
  <2>2. CASE ReadNeed(t)
    BY <2>2 DEF ReadNeed
  <2>3. CASE WriteNode(t)
    BY <2>3 DEF WriteNode
  <2> QED
    BY <1>12, <2>1, <2>2, <2>3 DEF RunNext
<1>13. CASE UNCHANGED hbmVars
  BY <1>13 DEF hbmVars
<1> QED
  BY <1>1, <1>2, <1>3, <1>4, <1>5, <1>6, <1>7, <1>8, <1>9, <1>10, <1>11, <1>12, <1>13,
     <1>14, <1>15, <1>16
  DEF HbmNext, MainNext

(* Once every change has been handled, HBM is left on without need only by *)
(* a writer out of its turn (HBMObserver.onChange and its thread).         *)
THEOREM HbmTheorem == HbmSpec => []HbmInv
<1>0. MaxPending \in Nat \ {0}
  BY ThreadsAssumption
<1>1. HbmInit => HbmIInv
  <2> SUFFICES ASSUME HbmInit PROVE HbmIInv
    OBVIOUS
  <2>1. pending \in [Observers -> 0..MaxPending]
    BY <1>0 DEF HbmInit
  <2> QED
    BY <2>1 DEF HbmInit, HbmIInv, HbmTypeOK, OffToCome, DownInv
<1>2. HbmIInv /\ [HbmNext]_hbmVars => HbmIInv'
  BY HbmStep
<1>3. HbmIInv => HbmInv
  <2> SUFFICES ASSUME HbmIInv, Handled, need = 0, node = "on"
               PROVE  excused
    BY DEF HbmIInv, HbmInv, OnlyExcusedLeftOn
  <2>1. ~ \E o \in Observers : pending[o] > 0
    BY DEF Handled
  <2> QED
    BY <2>1 DEF HbmIInv, OffToCome, Handled
<1> QED
  BY <1>1, <1>2, <1>3, PTL DEF HbmSpec
=============================================================================
