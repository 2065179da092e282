-------------------------- MODULE BluetoothHci_proofs --------------------------
(***************************************************************************)
(* Proofs about the HIDL face of the HAL (BluetoothHci): as long as calls  *)
(* keep out of a close's way, no session meets an object that is gone, for *)
(* any number of clients and of binder threads.                            *)
(***************************************************************************)
EXTENDS BluetoothHci, TLAPS

Before  == {"link", "test", "create"}           \* no object yet
Opening == {"open"}
Opened  == {"open", "tell", "store"}
Closing == {"fatal", "stop", "delete", "join", "free"}
Holding == Opened \cup {"stop", "delete", "join", "free", "write"}

(* Types alone.                                                            *)
Types ==
  /\ proc \in {"up", "fatal", "abort", "transmit", "undefined"}
  /\ client \in [Clients -> {"new", "wait", "ok", "err", "closing", "dead"}]
  /\ linked \subseteq Clients /\ unlink_cb \in Clients \cup {NoClient}
  /\ has_died \in BOOLEAN
  /\ g \in {"null", "live"} /\ hci \in {"null", "live"}
  /\ owner \in Clients \cup {NoClient}
  /\ fw \in {"none", "busy", "report", "done"}
  /\ pc \in [Binders -> {"idle"} \cup ClosePc \cup InitPc \cup SendPc]
  /\ who \in [Binders -> Clients \cup {NoClient}]
  /\ ptr \in [Binders -> {"none", "live", "stale"}]
  /\ past \subseteq {"refused", "overlap"}

(* A process that ended has left nothing behind.                           *)
DownInv ==
  proc # "up" =>
    /\ client = [c \in Clients |-> "new"] /\ linked = {}
    /\ unlink_cb = NoClient /\ has_died = FALSE
    /\ g = "null" /\ owner = NoClient /\ hci = "null" /\ fw = "none"
    /\ pc = [b \in Binders |-> "idle"] /\ who = [b \in Binders |-> NoClient]
    /\ ptr = [b \in Binders |-> "none"]

(* History sees what happens.                                              *)
PastInv ==
  /\ Overlap => "overlap" \in past
  /\ Refusal => "refused" \in past

(* An initialize() opens its own object, and its client waits, whatever    *)
(* else happens: the reasons why nobody is answered twice.                 *)
CallInv ==
  /\ g = "live" <=> owner # NoClient
  /\ \A c \in Clients : client[c] = "new" => owner # c
  /\ fw = "busy" => owner = NoClient \/ client[owner] \in {"wait", "closing", "dead"}
  /\ \A b \in Binders :
       /\ pc[b] # "idle" => who[b] \in Clients
       /\ ptr[b] = "live" => g = "live"
       /\ pc[b] \in Opening => ptr[b] # "none"
       /\ pc[b] \in Opening => (ptr[b] = "live" <=> owner = who[b])
       /\ pc[b] \in Before => owner # who[b]
       /\ pc[b] \in Opening \cup {"tell"} /\ owner = who[b] => fw \notin {"busy", "report"}
       /\ pc[b] \in InitPc \ {"store"} => client[who[b]] \in {"wait", "dead"}
  /\ \A b, d \in Binders :
       pc[b] \in InitPc /\ pc[d] \in InitPc /\ who[b] = who[d] => b = d

(* Calls keep out of a close's and of each other's initialize's way.       *)
Alone ==
  \A b, d \in Binders :
    pc[b] \in ClosePc \cup InitPc /\ b # d => pc[d] = "idle"

(* An orderly past: what a thread relies on, by where it is, ...           *)
ThreadFacts ==
  \A b \in Binders :
    /\ ptr[b] = IF pc[b] \in Holding THEN "live" ELSE "none"
    /\ pc[b] \in Holding \cup {"died", "unlink", "fatal", "get"} => g = "live"
    /\ pc[b] \in {"test", "create"} => g = "null"
    /\ pc[b] \in Opened => owner = who[b]
    /\ pc[b] \in ClosePc => owner = who[b] /\ client[who[b]] \in {"closing", "dead"}
    /\ pc[b] \in Closing \cup {"died"} => linked = {}
    /\ pc[b] \in {"join", "free"} => hci = "null"
    /\ pc[b] = "free" => fw = "none"
    /\ pc[b] \in SendPc => hci = "live"

(* ... and what belongs to the one session there is.                       *)
SessionFacts ==
  /\ fw \in {"busy", "report"} => g = "live"
  /\ hci = "live" => g = "live"
  /\ \A c \in Clients :
       /\ client[c] \in {"wait", "ok", "err"} =>
            owner = c \/ \E b \in Binders : who[b] = c /\ pc[b] \in Before
       /\ client[c] = "ok" => hci = "live"
       /\ c \in linked =>
            owner = c \/ \E b \in Binders : who[b] = c /\ pc[b] \in {"test", "create"}
  /\ fw \in {"busy", "report"} => hci = "live" \/ \E b \in Binders : pc[b] = "join"
  /\ g = "live" => unlink_cb = owner \/ \E b \in Binders : pc[b] \in Opened
  /\ has_died => linked = {}

OrderInv == orderly /\ proc = "up" => Alone /\ ThreadFacts /\ SessionFacts

(* Even with a refusal in the past: whoever is about to make an object is  *)
(* linked, and stays so until a close is at work.                          *)
NoticeFacts ==
  /\ owner \in linked \cup {NoClient} \/ \E b \in Binders : pc[b] \in ClosePc
  /\ \A b \in Binders : pc[b] \in {"test", "create"} => who[b] \in linked

NoticeInv == "overlap" \notin past => NoticeFacts

IInv == Types /\ DownInv /\ PastInv /\ CallInv /\ OrderInv /\ NoticeInv
-----------------------------------------------------------------------------
LEMMA InitInv == Init => IInv
<1> SUFFICES ASSUME Init PROVE IInv
  OBVIOUS
<1> USE ClientsAssumption DEF Init, InitPc, ClosePc, SendPc
<1>1. Types
  BY DEF Types
<1>2. DownInv /\ PastInv
  BY DEF DownInv, PastInv, Overlap, Refusal
<1>3. CallInv
  BY DEF CallInv, Before, Opening
<1>4. OrderInv
  BY DEF OrderInv, Alone, ThreadFacts, SessionFacts, Holding, Opened, Closing,
     Before
<1>5. NoticeInv
  BY DEF NoticeInv, NoticeFacts
<1> QED
  BY <1>1, <1>2, <1>3, <1>4, <1>5 DEF IInv

(* Whatever ends the process leaves the initial state but for the history. *)
LEMMA EndStep ==
  ASSUME IInv, proc = "up", History,
         NEW how \in {"fatal", "abort", "transmit", "undefined"}, End(how)
  PROVE  IInv'
<1> USE ClientsAssumption DEF End, InitPc, ClosePc, SendPc
<1>1. Types'
  BY DEF IInv, Types, History
<1>2. DownInv' /\ PastInv'
  BY DEF DownInv, PastInv, Overlap, Refusal, History
<1>3. CallInv'
  BY DEF CallInv, Before, Opening
<1>4. OrderInv'
  BY DEF OrderInv
<1>5. NoticeInv'
  BY DEF NoticeInv, NoticeFacts
<1> QED
  BY <1>1, <1>2, <1>3, <1>4, <1>5 DEF IInv

(* The history of the next state knows what overlaps in it.                *)
LEMMA PastStep == IInv /\ [Next]_vars => PastInv'
<1> SUFFICES ASSUME DownInv, PastInv, [Next]_vars PROVE PastInv'
  BY DEF IInv
<1>1. CASE UNCHANGED vars
  BY <1>1 DEF PastInv, vars, threadVars, objVars, Overlap, Refusal
<1>2. CASE Step /\ History /\ proc = "up"
  BY <1>2 DEF History, PastInv
<1>3. CASE Step /\ History /\ proc # "up"
  BY <1>3 DEF Step, Restart, DownInv, PastInv, Overlap, Refusal, threadVars,
     objVars,
              ClosePc, InitPc
<1> QED
  BY <1>1, <1>2, <1>3 DEF Next

(* Every part of the past of an orderly state was orderly.                 *)
LEMMA OrderlyStep ==
  ASSUME IInv, Step, proc = "up", History, proc' = "up", orderly'
  PROVE  /\ Alone /\ ThreadFacts /\ SessionFacts
         /\ Alone' /\ \A b \in Binders : pc'[b] = "test" => g' # "live"
<1>1. orderly
  BY DEF orderly, History
<1>2. ~Overlap' /\ ~Refusal'
  BY DEF orderly, History
<1> QED
  BY <1>1, <1>2 DEF IInv, OrderInv, Alone, Overlap, Refusal

(* What Free leaves of the threads' pointers.                              *)
LEMMA StaleTypes ==
  ASSUME NEW S, NEW f \in [S -> {"none", "live", "stale"}], NEW b \in S
  PROVE  [d \in S |-> IF d = b THEN "none" ELSE IF f[d] = "live" THEN "stale" ELSE f[d]]
           \in [S -> {"none", "live", "stale"}]
OBVIOUS

(* A step of the process that goes on: types, ...                          *)
LEMMA TypesStep ==
  ASSUME IInv, Step, proc = "up", History, proc' = "up"
  PROVE  Types'
<1> USE ClientsAssumption DEF clientVars, objVars, threadVars, Goto, Begin,
        Return, End, UseStale,
             InitPc, ClosePc, SendPc, Types, Tell, History
<1>0. Types /\ \A b \in Binders : pc[b] # "idle" => who[b] \in Clients
  BY DEF IInv, CallInv
<1> USE <1>0
<1>1. ASSUME NEW b \in Binders, Link(b) PROVE Types'
  BY <1>1 DEF Link
<1>2. ASSUME NEW b \in Binders, Test(b) PROVE Types'
  BY <1>2 DEF Test
<1>3. ASSUME NEW b \in Binders, Create(b) PROVE Types'
  BY <1>3 DEF Create
<1>4. ASSUME NEW b \in Binders, Open(b) PROVE Types'
  BY <1>4 DEF Open
<1>6. ASSUME NEW b \in Binders, TellError(b) PROVE Types'
  BY <1>6 DEF TellError
<1>7. ASSUME NEW b \in Binders, Store(b) PROVE Types'
  BY <1>7 DEF Store
<1>8. ASSUME NEW b \in Binders, ServiceDied(b) PROVE Types'
  BY <1>8 DEF ServiceDied
<1>9. ASSUME NEW b \in Binders, Unlink(b) PROVE Types'
  BY <1>9 DEF Unlink
<1>10. ASSUME NEW b \in Binders, Shutdown(b) PROVE Types'
  BY <1>10 DEF Shutdown
<1>11. ASSUME NEW b \in Binders, StopWatcher(b) PROVE Types'
  BY <1>11 DEF StopWatcher
<1>12. ASSUME NEW b \in Binders, DeleteHci(b) PROVE Types'
  BY <1>12 DEF DeleteHci
<1>13. ASSUME NEW b \in Binders, JoinInit(b) PROVE Types'
  BY <1>13 DEF JoinInit
<1>14. ASSUME NEW b \in Binders, Free(b) PROVE Types'
  <2>1. /\ pc[b] = "free" /\ who[b] \in Clients /\ proc' = proc
        /\ pc' = [pc EXCEPT ![b] = "idle"] /\ who' = [who EXCEPT ![b] = NoClient]
        /\ g' = "null" /\ owner' = NoClient
        /\ UNCHANGED <<linked, unlink_cb, has_died, hci, fw>>
    BY <1>14 DEF Free
  <2>2. ptr' = [d \in Binders |-> IF d = b THEN "none"
                               ELSE IF ptr[d] = "live" THEN "stale" ELSE ptr[d]]
    BY <1>14 DEF Free
  <2>3. client' = [client EXCEPT ![who[b]] =
                     IF client[who[b]] = "closing" THEN "new" ELSE client[who[b]]]
    BY <1>14 DEF Free
  <2>4. client' \in [Clients -> {"new", "wait", "ok", "err", "closing", "dead"}]
    BY <2>1, <2>3
  <2>5. ptr' \in [Binders -> {"none", "live", "stale"}]
    BY <2>2, StaleTypes
  <2> QED
    BY <2>1, <2>4, <2>5
<1>15. ASSUME NEW b \in Binders, Get(b) PROVE Types'
  BY <1>15 DEF Get
<1>16. ASSUME NEW b \in Binders, SendHci(b) PROVE Types'
  BY <1>16 DEF SendHci
<1>17. ASSUME NEW b \in Binders, NEW c \in Clients, CallInitialize(b, c) PROVE Types'
  BY <1>17 DEF CallInitialize
<1>18. ASSUME NEW b \in Binders, NEW c \in Clients, CallClose(b, c) PROVE Types'
  BY <1>18 DEF CallClose
<1>19. ASSUME NEW b \in Binders, NEW c \in Clients, CallSend(b, c) PROVE Types'
  BY <1>19 DEF CallSend
<1>20. ASSUME NEW b \in Binders, NEW c \in Clients, NoticeDeath(b, c) PROVE Types'
  BY <1>20 DEF NoticeDeath
<1>21. CASE OnFirmwareConfigured
  BY <1>21 DEF OnFirmwareConfigured
<1>22. CASE StartLowPowerWatchdog
  BY <1>22 DEF StartLowPowerWatchdog
<1>23. ASSUME NEW c \in Clients, Die(c) PROVE Types'
  BY <1>23 DEF Die
<1>24. ASSUME NEW c \in Clients, Respawn(c) PROVE Types'
  BY <1>24 DEF Respawn
<1> QED
  BY <1>1, <1>2, <1>3, <1>4, <1>6, <1>7, <1>8, <1>9, <1>10, <1>11, <1>12,
     <1>13, <1>14, <1>15, <1>16, <1>17, <1>18, <1>19, <1>20, <1>21, <1>22, <1>23,
        <1>24
     DEF Step, BinderNext, FwNext, Notices, Transmit, Restart, End

(* ... the calls of initialize() and their answers, ...                    *)
LEMMA CallStep ==
  ASSUME IInv, Step, proc = "up", History, proc' = "up"
  PROVE  CallInv'
<1> USE ClientsAssumption DEF clientVars, objVars, threadVars, Goto, Begin,
        Return, End, UseStale,
             InitPc, ClosePc, SendPc, Types, CallInv, Tell, Before, Opening
<1>0. Types /\ CallInv
  BY DEF IInv
<1> USE <1>0
<1>1. ASSUME NEW b \in Binders, Link(b) PROVE CallInv'
  BY <1>1 DEF Link
<1>2. ASSUME NEW b \in Binders, Test(b) PROVE CallInv'
  BY <1>2 DEF Test
<1>3. ASSUME NEW b \in Binders, Create(b) PROVE CallInv'
  <2>1. /\ pc[b] = "create" /\ pc' = [pc EXCEPT ![b] = "open"]
        /\ g = "null" /\ fw \notin {"busy", "report"}
        /\ g' = "live" /\ owner' = who[b] /\ ptr' = [ptr EXCEPT ![b] = "live"]
        /\ UNCHANGED <<client, fw, who>>
    BY <1>3 DEF Create, Crowded
  <2>2. \A d \in Binders \ {b} : pc'[d] = pc[d] /\ who'[d] = who[d] /\ ptr'[d] = ptr[d]
    BY <2>1
  <2>3. pc'[b] = "open" /\ who'[b] = who[b] /\ ptr'[b] = "live"
    BY <2>1
  <2> QED
    BY <2>1, <2>2, <2>3
<1>4. ASSUME NEW b \in Binders, Open(b) PROVE CallInv'
  BY <1>4 DEF Open
<1>6. ASSUME NEW b \in Binders, TellError(b) PROVE CallInv'
  BY <1>6 DEF TellError
<1>7. ASSUME NEW b \in Binders, Store(b) PROVE CallInv'
  BY <1>7 DEF Store
<1>8. ASSUME NEW b \in Binders, ServiceDied(b) PROVE CallInv'
  BY <1>8 DEF ServiceDied
<1>9. ASSUME NEW b \in Binders, Unlink(b) PROVE CallInv'
  BY <1>9 DEF Unlink
<1>10. ASSUME NEW b \in Binders, Shutdown(b) PROVE CallInv'
  BY <1>10 DEF Shutdown
<1>11. ASSUME NEW b \in Binders, StopWatcher(b) PROVE CallInv'
  BY <1>11 DEF StopWatcher
<1>12. ASSUME NEW b \in Binders, DeleteHci(b) PROVE CallInv'
  BY <1>12 DEF DeleteHci
<1>13. ASSUME NEW b \in Binders, JoinInit(b) PROVE CallInv'
  BY <1>13 DEF JoinInit
<1>14. ASSUME NEW b \in Binders, Free(b) PROVE CallInv'
  <2>1. /\ pc[b] = "free" /\ who[b] \in Clients
        /\ pc' = [pc EXCEPT ![b] = "idle"] /\ who' = [who EXCEPT ![b] = NoClient]
        /\ g' = "null" /\ owner' = NoClient
        /\ UNCHANGED <<linked, unlink_cb, has_died, hci, fw>>
    BY <1>14 DEF Free
  <2>2. ptr' = [d \in Binders |-> IF d = b THEN "none"
                               ELSE IF ptr[d] = "live" THEN "stale" ELSE ptr[d]]
    BY <1>14 DEF Free
  <2>3. \A c \in Clients :
          client'[c] = IF c = who[b] /\ client[c] = "closing" THEN "new" ELSE client[c]
    BY <1>14, <2>1 DEF Free
  <2> QED
    BY <2>1, <2>2, <2>3
<1>15. ASSUME NEW b \in Binders, Get(b) PROVE CallInv'
  BY <1>15 DEF Get
<1>16. ASSUME NEW b \in Binders, SendHci(b) PROVE CallInv'
  BY <1>16 DEF SendHci
<1>17. ASSUME NEW b \in Binders, NEW c \in Clients, CallInitialize(b, c) PROVE CallInv'
  <2>1. /\ pc[b] = "idle" /\ client[c] = "new" /\ UNCHANGED <<objVars, ptr>>
        /\ pc' = [pc EXCEPT ![b] = "link"] /\ who' = [who EXCEPT ![b] = c]
        /\ client' = [client EXCEPT ![c] = "wait"]
        /\ \A d \in Binders : pc[d] # "idle" => who[d] # c
    BY <1>17 DEF CallInitialize, InCall
  <2>2. \A d \in Binders \ {b} : pc'[d] = pc[d] /\ who'[d] = who[d] /\ ptr'[d] = ptr[d]
    BY <2>1
  <2>3. pc'[b] = "link" /\ who'[b] = c /\ ptr'[b] = ptr[b]
    BY <2>1
  <2>4. \A e \in Clients : client'[e] = IF e = c THEN "wait" ELSE client[e]
    BY <2>1
  <2> QED
    BY <2>1, <2>2, <2>3, <2>4
<1>18. ASSUME NEW b \in Binders, NEW c \in Clients, CallClose(b, c) PROVE CallInv'
  <2>1. /\ pc[b] = "idle" /\ client[c] \in {"wait", "ok", "err"} /\ UNCHANGED <<objVars, ptr>>
        /\ pc' = [pc EXCEPT ![b] = "unlink"] /\ who' = [who EXCEPT ![b] = c]
        /\ client' = [client EXCEPT ![c] = "closing"]
        /\ \A d \in Binders : pc[d] # "idle" => who[d] # c
    BY <1>18 DEF CallClose, InCall
  <2>2. \A d \in Binders \ {b} : pc'[d] = pc[d] /\ who'[d] = who[d] /\ ptr'[d] = ptr[d]
    BY <2>1
  <2>3. pc'[b] = "unlink" /\ who'[b] = c /\ ptr'[b] = ptr[b]
    BY <2>1
  <2>4. \A e \in Clients : client'[e] = IF e = c THEN "closing" ELSE client[e]
    BY <2>1
  <2> QED
    BY <2>1, <2>2, <2>3, <2>4
<1>19. ASSUME NEW b \in Binders, NEW c \in Clients, CallSend(b, c) PROVE CallInv'
  BY <1>19 DEF CallSend
<1>20. ASSUME NEW b \in Binders, NEW c \in Clients, NoticeDeath(b, c) PROVE CallInv'
  BY <1>20 DEF NoticeDeath
<1>21. CASE OnFirmwareConfigured
  <2>1. /\ fw = "busy" /\ g = "live" /\ fw' = "report"
        /\ UNCHANGED <<g, owner, hci, threadVars>>
        /\ \A c \in Clients : c # owner => client'[c] = client[c]
        /\ \A c \in Clients : client'[c] = "new" => client[c] = "new"
    BY <1>21 DEF OnFirmwareConfigured
  <2>2. owner \in Clients
    BY <2>1
  <2>3. \A b \in Binders : pc[b] \in InitPc \ {"store"} =>
          who[b] # owner
    BY <2>1
  <2> QED
    BY <2>1, <2>2, <2>3
<1>22. CASE StartLowPowerWatchdog
  BY <1>22 DEF StartLowPowerWatchdog
<1>23. ASSUME NEW c \in Clients, Die(c) PROVE CallInv'
  BY <1>23 DEF Die
<1>24. ASSUME NEW c \in Clients, Respawn(c) PROVE CallInv'
  <2>1. /\ client[c] = "dead" /\ owner # c /\ UNCHANGED <<objVars, threadVars>>
        /\ \A d \in Binders : pc[d] # "idle" => who[d] # c
    BY <1>24 DEF Respawn, InCall
  <2>2. \A e \in Clients : client'[e] = IF e = c THEN "new" ELSE client[e]
    BY <1>24 DEF Respawn
  <2> QED
    BY <2>1, <2>2
<1> QED
  BY <1>1, <1>2, <1>3, <1>4, <1>6, <1>7, <1>8, <1>9, <1>10, <1>11, <1>12,
     <1>13, <1>14, <1>15, <1>16, <1>17, <1>18, <1>19, <1>20, <1>21, <1>22, <1>23,
        <1>24
     DEF Step, BinderNext, FwNext, Notices, Transmit, Restart, End

(* ... what each thread relies on, ...                                     *)
LEMMA ThreadStep ==
  ASSUME IInv, Step, proc = "up", History, proc' = "up", orderly'
  PROVE  ThreadFacts'
<1> USE ClientsAssumption DEF clientVars, objVars, threadVars, Goto, Begin,
        Return, End, UseStale,
             InitPc, ClosePc, SendPc, Types, CallInv, Alone, ThreadFacts, Tell,
             Holding, Opened, Closing, Before
<1>0. /\ Types /\ CallInv /\ Alone /\ ThreadFacts /\ SessionFacts
      /\ Alone' /\ \A b \in Binders : pc'[b] = "test" => g' # "live"
  BY OrderlyStep DEF IInv
<1> USE <1>0
<1>1. ASSUME NEW b \in Binders, Link(b) PROVE ThreadFacts'
  BY <1>1 DEF Link
<1>2. ASSUME NEW b \in Binders, Test(b) PROVE ThreadFacts'
  BY <1>2 DEF Test
<1>3. ASSUME NEW b \in Binders, Create(b) PROVE ThreadFacts'
  BY <1>3 DEF Create
<1>4. ASSUME NEW b \in Binders, Open(b) PROVE ThreadFacts'
  BY <1>4 DEF Open
<1>6. ASSUME NEW b \in Binders, TellError(b) PROVE ThreadFacts'
  BY <1>6 DEF TellError
<1>7. ASSUME NEW b \in Binders, Store(b) PROVE ThreadFacts'
  BY <1>7 DEF Store
<1>8. ASSUME NEW b \in Binders, ServiceDied(b) PROVE ThreadFacts'
  BY <1>8 DEF ServiceDied
<1>9. ASSUME NEW b \in Binders, Unlink(b) PROVE ThreadFacts'
  BY <1>9 DEF Unlink, SessionFacts, InCall
<1>10. ASSUME NEW b \in Binders, Shutdown(b) PROVE ThreadFacts'
  BY <1>10 DEF Shutdown
<1>11. ASSUME NEW b \in Binders, StopWatcher(b) PROVE ThreadFacts'
  BY <1>11 DEF StopWatcher
<1>12. ASSUME NEW b \in Binders, DeleteHci(b) PROVE ThreadFacts'
  BY <1>12 DEF DeleteHci
<1>13. ASSUME NEW b \in Binders, JoinInit(b) PROVE ThreadFacts'
  BY <1>13 DEF JoinInit
<1>14. ASSUME NEW b \in Binders, Free(b) PROVE ThreadFacts'
  <2>1. /\ pc[b] = "free" /\ who[b] \in Clients
        /\ pc' = [pc EXCEPT ![b] = "idle"] /\ who' = [who EXCEPT ![b] = NoClient]
        /\ g' = "null" /\ owner' = NoClient
        /\ UNCHANGED <<linked, unlink_cb, has_died, hci, fw>>
    BY <1>14 DEF Free
  <2>2. ptr' = [d \in Binders |-> IF d = b THEN "none"
                               ELSE IF ptr[d] = "live" THEN "stale" ELSE ptr[d]]
    BY <1>14 DEF Free
  <2>3. \A c \in Clients :
          client'[c] = IF c = who[b] /\ client[c] = "closing" THEN "new" ELSE client[c]
    BY <1>14, <2>1 DEF Free
  <2> QED
    BY <2>1, <2>2, <2>3
<1>15. ASSUME NEW b \in Binders, Get(b) PROVE ThreadFacts'
  BY <1>15 DEF Get
<1>16. ASSUME NEW b \in Binders, SendHci(b) PROVE ThreadFacts'
  BY <1>16 DEF SendHci
<1>17. ASSUME NEW b \in Binders, NEW c \in Clients, CallInitialize(b, c) PROVE ThreadFacts'
  BY <1>17 DEF CallInitialize
<1>18. ASSUME NEW b \in Binders, NEW c \in Clients, CallClose(b, c) PROVE ThreadFacts'
  BY <1>18 DEF CallClose, SessionFacts, InCall
<1>19. ASSUME NEW b \in Binders, NEW c \in Clients, CallSend(b, c) PROVE ThreadFacts'
  BY <1>19 DEF CallSend, SessionFacts, InCall
<1>20. ASSUME NEW b \in Binders, NEW c \in Clients, NoticeDeath(b, c) PROVE ThreadFacts'
  BY <1>20 DEF NoticeDeath, SessionFacts, InCall
<1>21. CASE OnFirmwareConfigured
  BY <1>21 DEF OnFirmwareConfigured
<1>22. CASE StartLowPowerWatchdog
  BY <1>22 DEF StartLowPowerWatchdog
<1>23. ASSUME NEW c \in Clients, Die(c) PROVE ThreadFacts'
  BY <1>23 DEF Die
<1>24. ASSUME NEW c \in Clients, Respawn(c) PROVE ThreadFacts'
  BY <1>24 DEF Respawn
<1> QED
  BY <1>1, <1>2, <1>3, <1>4, <1>6, <1>7, <1>8, <1>9, <1>10, <1>11, <1>12,
     <1>13, <1>14, <1>15, <1>16, <1>17, <1>18, <1>19, <1>20, <1>21, <1>22, <1>23,
        <1>24
     DEF Step, BinderNext, FwNext, Notices, Transmit, Restart, End

(* ... and the session.                                                    *)
LEMMA SessionStep ==
  ASSUME IInv, Step, proc = "up", History, proc' = "up", orderly'
  PROVE  SessionFacts'
<1> USE ClientsAssumption DEF clientVars, objVars, threadVars, Goto, Begin,
        Return, End, UseStale,
             InitPc, ClosePc, SendPc, Types, CallInv, Alone, ThreadFacts,
             SessionFacts, Tell, Holding, Opened, Closing, Before
<1>0. /\ Types /\ CallInv /\ Alone /\ ThreadFacts /\ SessionFacts
      /\ Alone' /\ \A b \in Binders : pc'[b] = "test" => g' # "live"
  BY OrderlyStep DEF IInv
<1> USE <1>0
<1>1. ASSUME NEW b \in Binders, Link(b) PROVE SessionFacts'
  BY <1>1 DEF Link
<1>2. ASSUME NEW b \in Binders, Test(b) PROVE SessionFacts'
  BY <1>2 DEF Test
<1>3. ASSUME NEW b \in Binders, Create(b) PROVE SessionFacts'
  BY <1>3 DEF Create
<1>4. ASSUME NEW b \in Binders, Open(b) PROVE SessionFacts'
  BY <1>4 DEF Open
<1>6. ASSUME NEW b \in Binders, TellError(b) PROVE SessionFacts'
  BY <1>6 DEF TellError
<1>7. ASSUME NEW b \in Binders, Store(b) PROVE SessionFacts'
  BY <1>7 DEF Store
<1>8. ASSUME NEW b \in Binders, ServiceDied(b) PROVE SessionFacts'
  BY <1>8 DEF ServiceDied
<1>9. ASSUME NEW b \in Binders, Unlink(b) PROVE SessionFacts'
  BY <1>9 DEF Unlink
<1>10. ASSUME NEW b \in Binders, Shutdown(b) PROVE SessionFacts'
  BY <1>10 DEF Shutdown
<1>11. ASSUME NEW b \in Binders, StopWatcher(b) PROVE SessionFacts'
  BY <1>11 DEF StopWatcher
<1>12. ASSUME NEW b \in Binders, DeleteHci(b) PROVE SessionFacts'
  BY <1>12 DEF DeleteHci
<1>13. ASSUME NEW b \in Binders, JoinInit(b) PROVE SessionFacts'
  BY <1>13 DEF JoinInit
<1>14. ASSUME NEW b \in Binders, Free(b) PROVE SessionFacts'
  BY <1>14 DEF Free
<1>15. ASSUME NEW b \in Binders, Get(b) PROVE SessionFacts'
  BY <1>15 DEF Get
<1>16. ASSUME NEW b \in Binders, SendHci(b) PROVE SessionFacts'
  BY <1>16 DEF SendHci
<1>17. ASSUME NEW b \in Binders, NEW c \in Clients, CallInitialize(b, c) PROVE SessionFacts'
  BY <1>17 DEF CallInitialize
<1>18. ASSUME NEW b \in Binders, NEW c \in Clients, CallClose(b, c) PROVE SessionFacts'
  BY <1>18 DEF CallClose
<1>19. ASSUME NEW b \in Binders, NEW c \in Clients, CallSend(b, c) PROVE SessionFacts'
  BY <1>19 DEF CallSend
<1>20. ASSUME NEW b \in Binders, NEW c \in Clients, NoticeDeath(b, c) PROVE SessionFacts'
  BY <1>20 DEF NoticeDeath
<1>21. CASE OnFirmwareConfigured
  BY <1>21 DEF OnFirmwareConfigured
<1>22. CASE StartLowPowerWatchdog
  BY <1>22 DEF StartLowPowerWatchdog
<1>23. ASSUME NEW c \in Clients, Die(c) PROVE SessionFacts'
  BY <1>23 DEF Die
<1>24. ASSUME NEW c \in Clients, Respawn(c) PROVE SessionFacts'
  BY <1>24 DEF Respawn
<1> QED
  BY <1>1, <1>2, <1>3, <1>4, <1>6, <1>7, <1>8, <1>9, <1>10, <1>11, <1>12,
     <1>13, <1>14, <1>15, <1>16, <1>17, <1>18, <1>19, <1>20, <1>21, <1>22, <1>23,
        <1>24
     DEF Step, BinderNext, FwNext, Notices, Transmit, Restart, End

(* ... and a client whose death will be noticed.                           *)
LEMMA NoticeStep ==
  ASSUME IInv, Step, proc = "up", History, proc' = "up", "overlap" \notin past'
  PROVE  NoticeFacts'
<1> USE ClientsAssumption DEF clientVars, objVars, threadVars, Goto, Begin, Return,
        End, UseStale, InitPc, ClosePc, SendPc, NoticeFacts
<1>0. /\ pc \in [Binders -> {"idle"} \cup ClosePc \cup InitPc \cup SendPc]
      /\ who \in [Binders -> Clients \cup {NoClient}]
      /\ NoticeFacts
      /\ \A b, d \in Binders : pc[b] \in ClosePc \cup InitPc /\ b # d => pc[d] = "idle"
      /\ \A b, d \in Binders : pc'[b] \in ClosePc \cup InitPc /\ b # d => pc'[d] = "idle"
  <2>1. "overlap" \notin past /\ ~Overlap'
    BY DEF History
  <2>2. ~Overlap
    BY <2>1 DEF IInv, PastInv
  <2> QED
    BY <2>1, <2>2 DEF IInv, Types, NoticeInv, Overlap
<1> USE <1>0
<1>1. ASSUME NEW b \in Binders, Link(b) PROVE NoticeFacts'
  BY <1>1 DEF Link
<1>2. ASSUME NEW b \in Binders, Test(b) PROVE NoticeFacts'
  BY <1>2 DEF Test
<1>3. ASSUME NEW b \in Binders, Create(b) PROVE NoticeFacts'
  BY <1>3 DEF Create, Crowded
<1>4. ASSUME NEW b \in Binders, Open(b) PROVE NoticeFacts'
  BY <1>4 DEF Open
<1>6. ASSUME NEW b \in Binders, TellError(b) PROVE NoticeFacts'
  BY <1>6 DEF TellError
<1>7. ASSUME NEW b \in Binders, Store(b) PROVE NoticeFacts'
  BY <1>7 DEF Store
<1>8. ASSUME NEW b \in Binders, ServiceDied(b) PROVE NoticeFacts'
  BY <1>8 DEF ServiceDied
<1>9. ASSUME NEW b \in Binders, Unlink(b) PROVE NoticeFacts'
  BY <1>9 DEF Unlink
<1>10. ASSUME NEW b \in Binders, Shutdown(b) PROVE NoticeFacts'
  BY <1>10 DEF Shutdown
<1>11. ASSUME NEW b \in Binders, StopWatcher(b) PROVE NoticeFacts'
  BY <1>11 DEF StopWatcher
<1>12. ASSUME NEW b \in Binders, DeleteHci(b) PROVE NoticeFacts'
  BY <1>12 DEF DeleteHci
<1>13. ASSUME NEW b \in Binders, JoinInit(b) PROVE NoticeFacts'
  BY <1>13 DEF JoinInit
<1>14. ASSUME NEW b \in Binders, Free(b) PROVE NoticeFacts'
  BY <1>14 DEF Free
<1>15. ASSUME NEW b \in Binders, Get(b) PROVE NoticeFacts'
  BY <1>15 DEF Get
<1>16. ASSUME NEW b \in Binders, SendHci(b) PROVE NoticeFacts'
  BY <1>16 DEF SendHci
<1>17. ASSUME NEW b \in Binders, NEW c \in Clients, CallInitialize(b, c) PROVE NoticeFacts'
  BY <1>17 DEF CallInitialize
<1>18. ASSUME NEW b \in Binders, NEW c \in Clients, CallClose(b, c) PROVE NoticeFacts'
  BY <1>18 DEF CallClose
<1>19. ASSUME NEW b \in Binders, NEW c \in Clients, CallSend(b, c) PROVE NoticeFacts'
  BY <1>19 DEF CallSend
<1>20. ASSUME NEW b \in Binders, NEW c \in Clients, NoticeDeath(b, c) PROVE NoticeFacts'
  BY <1>20 DEF NoticeDeath
<1>21. CASE OnFirmwareConfigured
  BY <1>21 DEF OnFirmwareConfigured
<1>22. CASE StartLowPowerWatchdog
  BY <1>22 DEF StartLowPowerWatchdog
<1>23. ASSUME NEW c \in Clients, Die(c) PROVE NoticeFacts'
  BY <1>23 DEF Die
<1>24. ASSUME NEW c \in Clients, Respawn(c) PROVE NoticeFacts'
  BY <1>24 DEF Respawn
<1> QED
  BY <1>1, <1>2, <1>3, <1>4, <1>6, <1>7, <1>8, <1>9, <1>10, <1>11, <1>12,
     <1>13, <1>14, <1>15, <1>16, <1>17, <1>18, <1>19, <1>20, <1>21, <1>22, <1>23,
     <1>24
     DEF Step, BinderNext, FwNext, Notices, Transmit, Restart, End

(* The process goes on with a step, or it ends.                            *)
LEMMA UpOrEnd ==
  ASSUME Step, proc = "up"
  PROVE  proc' = "up" \/ \E how \in {"fatal", "abort", "transmit", "undefined"} : End(how)
<1> USE DEF UseStale
<1>1. ASSUME NEW b \in Binders, BinderNext(b)
      PROVE  proc' = proc \/ \E how \in {"abort", "fatal", "undefined"} : End(how)
  BY <1>1 DEF BinderNext, Link, Test, Create, Open, TellError,
     Store, ServiceDied,
              Unlink, Shutdown, StopWatcher, DeleteHci, JoinInit, Free, Get, SendHci
<1>2. ASSUME NEW b \in Binders, NEW c \in Clients,
             CallInitialize(b, c) \/ CallClose(b, c) \/ CallSend(b, c) \/ NoticeDeath(b, c)
      PROVE  proc' = proc
  BY <1>2 DEF CallInitialize, CallClose, CallSend, NoticeDeath
<1>3. CASE FwNext \/ Transmit
  BY <1>3 DEF FwNext, OnFirmwareConfigured, StartLowPowerWatchdog, Transmit
<1>4. ASSUME NEW c \in Clients, Die(c) \/ Respawn(c) PROVE proc' = proc
  BY <1>4 DEF Die, Respawn
<1> QED
  BY <1>1, <1>2, <1>3, <1>4 DEF Step, Notices, Restart

LEMMA InvStep == IInv /\ [Next]_vars => IInv'
<1> SUFFICES ASSUME IInv, [Next]_vars PROVE IInv'
  OBVIOUS
<1>1. PastInv'
  BY PastStep
<1>2. CASE UNCHANGED vars
  <2>1. Types' /\ DownInv' /\ CallInv'
    BY <1>2 DEF IInv, Types, DownInv, CallInv, vars, clientVars, objVars, threadVars
  <2>2. OrderInv'
    BY <1>2 DEF IInv, OrderInv, orderly, Alone, ThreadFacts, SessionFacts,
                vars, clientVars, objVars, threadVars
  <2>3. NoticeInv'
    BY <1>2 DEF IInv, NoticeInv, NoticeFacts, vars, clientVars, objVars, threadVars
  <2> QED
    BY <1>1, <2>1, <2>2, <2>3 DEF IInv
<1>3. CASE Next /\ proc # "up"
  <2>1. /\ proc' = "up" /\ past' = {}
        /\ UNCHANGED <<clientVars, objVars, threadVars>>
    BY <1>3 DEF Next, Step, Restart, History
  <2>2. DownInv /\ Types
    BY DEF IInv
  <2> USE ClientsAssumption DEF clientVars, objVars, threadVars, InitPc, ClosePc,
        SendPc
  <2>3. Types' /\ DownInv'
    BY <2>1, <2>2 DEF Types, DownInv
  <2>4. CallInv'
    BY <1>3, <2>1, <2>2 DEF DownInv, CallInv, Before, Opening
  <2>5. OrderInv'
    BY <1>3, <2>1, <2>2 DEF DownInv, OrderInv, Alone, ThreadFacts, SessionFacts,
                            Holding, Opened, Closing, Before
  <2>6. NoticeInv'
    BY <1>3, <2>1, <2>2 DEF DownInv, NoticeInv, NoticeFacts
  <2> QED
    BY <1>1, <2>3, <2>4, <2>5, <2>6 DEF IInv
<1>4. CASE Next /\ proc = "up"
  <2>1. Step /\ History
    BY <1>4 DEF Next
  <2>2. CASE proc' = "up"
    <3>1. Types' /\ DownInv' /\ CallInv'
      BY <1>4, <2>1, <2>2, TypesStep, CallStep DEF DownInv
    <3>2. OrderInv'
      BY <1>4, <2>1, <2>2, OrderlyStep, ThreadStep, SessionStep DEF OrderInv
    <3>3. NoticeInv'
      BY <1>4, <2>1, <2>2, NoticeStep DEF NoticeInv
    <3> QED
      BY <1>1, <3>1, <3>2, <3>3 DEF IInv
  <2>3. CASE \E how \in {"fatal", "abort", "transmit", "undefined"} : End(how)
    BY <1>4, <2>1, <2>3, EndStep
  <2> QED
    BY <1>4, <2>1, <2>2, <2>3, UpOrEnd
<1> QED
  BY <1>2, <1>3, <1>4

(* Types, the init thread's object, the pending answers and the notice of   *)
(* the client's death, in every state.                                     *)
THEOREM Invariance == Spec => []HciInv
<1>1. IInv => HciInv
  <2> SUFFICES ASSUME IInv PROVE HciInv
    OBVIOUS
  <2>1. orderly /\ hci = "live" => g = "live"
    BY DEF IInv, Types, DownInv, OrderInv, SessionFacts
  <2>2. TypeOK
    BY <2>1 DEF IInv, Types, TypeOK
  <2>3. InitThreadHasObject
    BY DEF IInv, Types, DownInv, OrderInv, SessionFacts, InitThreadHasObject
  <2>4. AnswerPending
    BY DEF IInv, CallInv, AnswerPending, InitPc, Opening
  <2>5. DeathIsNoticed
    BY DEF IInv, NoticeInv, NoticeFacts, DeathIsNoticed
  <2> QED
    BY <2>2, <2>3, <2>4, <2>5 DEF HciInv
<1> QED
  BY <1>1, InitInv, InvStep, PTL DEF Spec

(* In an orderly past nothing ends the process but the init thread's       *)
(* command: each way to end needs a thread that lost what it relied on.    *)
LEMMA SafeStep == IInv /\ OrderlyIsSafe /\ [Next]_vars => OrderlyIsSafe'
<1> SUFFICES ASSUME IInv, OrderlyIsSafe, [Next]_vars, orderly' PROVE proc' \in {"up", "transmit"}
  BY DEF OrderlyIsSafe
<1>1. CASE UNCHANGED vars
  BY <1>1 DEF vars, OrderlyIsSafe, orderly
<1>2. CASE Next /\ proc # "up"
  BY <1>2 DEF Next, Step, Restart
<1>3. CASE Next /\ proc = "up"
  <2>1. orderly
    BY <1>3 DEF orderly, Next, History
  <2>2. Alone /\ ThreadFacts /\ SessionFacts /\ CallInv
    BY <1>3, <2>1 DEF IInv, OrderInv
  <2> USE <1>3, <2>2 DEF UseStale, Goto, ThreadFacts, Holding, Opened, Closing,
        ClosePc, SendPc
  <2>3. ASSUME NEW b \in Binders, BinderNext(b) PROVE proc' = "up"
    <3>1. ptr[b] # "stale"
      OBVIOUS
    <3>2. CASE Create(b)
      BY <3>2 DEF Create, Crowded, SessionFacts
    <3>3. CASE Unlink(b)
      <4>1. pc[b] = "unlink"
        BY <3>3 DEF Unlink
      <4>2. unlink_cb = owner /\ owner # NoClient
        BY <4>1 DEF SessionFacts, CallInv, Alone, InitPc
      <4> QED
        BY <3>3, <4>2 DEF Unlink
    <3>4. CASE Shutdown(b) \/ Get(b)
      BY <3>4 DEF Shutdown, Get
    <3>5. CASE SendHci(b)
      BY <3>1, <3>5 DEF SendHci
    <3> QED
      BY <2>3, <3>1, <3>2, <3>3, <3>4, <3>5
         DEF BinderNext, Link, Test, Open, TellError, Store, ServiceDied,
             StopWatcher, DeleteHci, JoinInit, Free
  <2>4. ASSUME NEW b \in Binders, NEW c \in Clients,
               CallInitialize(b, c) \/ CallClose(b, c) \/ CallSend(b, c) \/ NoticeDeath(b, c)
        PROVE  proc' = "up"
    BY <2>4 DEF CallInitialize, CallClose, CallSend, NoticeDeath
  <2>5. CASE FwNext \/ Transmit
    BY <2>5 DEF FwNext, OnFirmwareConfigured, StartLowPowerWatchdog, Transmit,
       End, SessionFacts
  <2>6. ASSUME NEW c \in Clients, Die(c) \/ Respawn(c) PROVE proc' = "up"
    BY <2>6 DEF Die, Respawn
  <2> QED
    BY <2>3, <2>4, <2>5, <2>6 DEF Next, Step, Notices, Restart
<1> QED
  BY <1>1, <1>2, <1>3

(* As long as no call overlaps a close and nobody initializes over a       *)
(* session, neither a null pointer nor a deleted object is used and the    *)
(* assertion of Shutdown holds.                                            *)
THEOREM SafeTheorem == Spec => []OrderlyIsSafe
<1>1. Init => OrderlyIsSafe
  BY DEF Init, OrderlyIsSafe
<1> QED
  BY <1>1, InitInv, InvStep, SafeStep, PTL DEF Spec
=============================================================================
