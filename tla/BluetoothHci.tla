------------------------------ MODULE BluetoothHci ------------------------------
(***************************************************************************)
(* The HIDL face of the Bluetooth HAL: the calls of its clients and the    *)
(* notices of their deaths, each on a binder thread of its own, around the *)
(* one VendorInterface object, which nothing locks or counts references    *)
(* to.                                                                     *)
(*                                                                         *)
(* A client is a process that calls initialize(), sends once it was told   *)
(* SUCCESS, may close(), one call at a time, and may die at any point; its *)
(* call then goes on in the HAL, and the HAL learns of the death if it is  *)
(* linked.  A client's name is used again when nothing of it is left.      *)
(***************************************************************************)
EXTENDS Integers, FiniteSets

CONSTANTS
  Clients,  (* names of client processes                                    *)
  Binders,  (* binder threads (kMaxThreads in service.cpp)                  *)
  NoClient

ASSUME ClientsAssumption == NoClient \notin Clients
ASSUME BindersAssumption == Binders # {}

VARIABLES
  proc,     \* the process: "up", "fatal" (the assertion of Shutdown),
            \* "abort" (nullptr or an empty function called),
            \* "transmit" (the same, by the firmware init thread),
            \* "undefined" (a deleted object was used)
  client,   \* what each client knows: "new", "wait", "ok", "err",
            \* "closing", "dead"
  linked,   \* clients death_recipient_ is linked to
  unlink_cb,   \* the client unlink_cb_ would unlink
  has_died, \* has_died_ of the one death recipient
  g,        \* g_vendor_interface: "null" or "live"
  owner,    \* the client whose initialize made the object
  hci,      \* hci_ of the object: "null" or "live"
  fw,       \* the firmware init thread: "none", "busy", "report", "done"
  pc,       \* where each binder thread is
  who,      \* the client it works for
  ptr,      \* the object it works on: "none", "live", "stale"
  past      \* history of this process: "refused" (an initialize was),
            \* "overlap" (a call and a close, or two initializes)

clientVars == <<client, linked, unlink_cb, has_died>>
objVars == <<g, owner, hci, fw>>
threadVars == <<pc, who, ptr>>
vars == <<proc, clientVars, objVars, threadVars, past>>

ClosePc == {"died", "unlink", "fatal", "stop", "delete", "join", "free"}
InitPc == {"link", "test", "create", "open", "tell", "store"}
SendPc == {"get", "write"}

(* Calls that get into each other's way.                                   *)
Overlap == \E b \in Binders : pc[b] \in ClosePc \cup InitPc
                              /\ \E d \in Binders \ {b} : pc[d] # "idle"
Refusal == \E b \in Binders : pc[b] = "test" /\ g = "live"
orderly == past = {}

InCall(c) == \E b \in Binders : pc[b] # "idle" /\ who[b] = c
-----------------------------------------------------------------------------
Init ==
  /\ proc = "up"
  /\ client = [c \in Clients |-> "new"] /\ linked = {}
  /\ unlink_cb = NoClient /\ has_died = FALSE
  /\ g = "null" /\ owner = NoClient /\ hci = "null" /\ fw = "none"
  /\ pc = [b \in Binders |-> "idle"] /\ who = [b \in Binders |-> NoClient]
  /\ ptr = [b \in Binders |-> "none"]
  /\ past = {}

(* The process comes to an end, one way or the other, and its clients with *)
(* it.                                                                     *)
End(how) ==
  /\ proc' = how
  /\ client' = [c \in Clients |-> "new"] /\ linked' = {}
  /\ unlink_cb' = NoClient /\ has_died' = FALSE
  /\ g' = "null" /\ owner' = NoClient /\ hci' = "null" /\ fw' = "none"
  /\ pc' = [b \in Binders |-> "idle"] /\ who' = [b \in Binders |-> NoClient]
  /\ ptr' = [b \in Binders |-> "none"]

(* The service is started again.                                           *)
Restart ==
  /\ proc # "up"
  /\ proc' = "up"
  /\ UNCHANGED <<clientVars, objVars, threadVars>>

Goto(b, from, to) == pc[b] = from /\ pc' = [pc EXCEPT ![b] = to]

Begin(b, c, start) ==
  /\ Goto(b, "idle", start)
  /\ who' = [who EXCEPT ![b] = c]
  /\ UNCHANGED ptr

Return(b, from) ==
  /\ Goto(b, from, "idle")
  /\ who' = [who EXCEPT ![b] = NoClient]
  /\ ptr' = [ptr EXCEPT ![b] = "none"]

(* initializationComplete, if there is still somebody to be told.          *)
Tell(c, result) ==
  client' = IF client[c] = "wait" THEN [client EXCEPT ![c] = result] ELSE client
-----------------------------------------------------------------------------
(* initialize().                                                           *)

CallInitialize(b, c) ==
  /\ client[c] = "new" /\ ~InCall(c)
  /\ Begin(b, c, "link")
  /\ client' = [client EXCEPT ![c] = "wait"]
  /\ UNCHANGED <<proc, linked, unlink_cb, has_died, objVars>>

(* setHasDied(false), linkToDeath.                                         *)
Link(b) ==
  /\ Goto(b, "link", "test")
  /\ has_died' = FALSE
  /\ linked' = linked \cup {who[b]}
  /\ UNCHANGED <<proc, client, unlink_cb, objVars, who, ptr>>

(* "No previous Shutdown()?"                                               *)
Test(b) ==
  /\ Goto(b, "test", IF g = "live" THEN "tell" ELSE "create")
  /\ UNCHANGED <<proc, clientVars, objVars, who, ptr>>

(* Two sessions at once, or a new one beside the init thread of the last,  *)
(* share one UART and one library: of that nothing is claimed.             *)
Crowded == g = "live" \/ fw \in {"busy", "report"}

Create(b) ==
  \/ /\ ~Crowded
     /\ Goto(b, "create", "open")
     /\ g' = "live" /\ owner' = who[b] /\ ptr' = [ptr EXCEPT ![b] = "live"]
     /\ UNCHANGED <<proc, clientVars, hci, fw, who>>
  \/ pc[b] = "create" /\ Crowded /\ End("undefined")

UseStale(b) == ptr[b] = "stale" /\ End("undefined")

(* Variant: Open returns false although the init thread runs.              *)
OpenReturnsFalse(b) ==
  \/ /\ ptr[b] = "live"
     /\ Goto(b, "open", "tell")
     /\ \/ UNCHANGED <<hci, fw>>
        \/ hci' = "live" /\ fw' = "busy"
     /\ UNCHANGED <<proc, clientVars, g, owner, who, ptr>>
  \/ pc[b] = "open" /\ UseStale(b)

(* Open fails early, which initialize() reports itself; or it asks for the *)
(* firmware init.  Its thread is started, or the configuration fails       *)
(* before there is a thread (FwCfgFails in FwInit): Open returns true all  *)
(* the same, and the client is never answered.                             *)
Open(b) ==
  \/ /\ ptr[b] = "live"
     /\ \/ Goto(b, "open", "tell") /\ UNCHANGED <<hci, fw>>
        \/ Goto(b, "open", "store") /\ hci' = "live" /\ fw' \in {fw, "busy"}
     /\ UNCHANGED <<proc, clientVars, g, owner, who, ptr>>
  \/ pc[b] = "open" /\ UseStale(b)

(* Variant: a client that is turned away is unlinked, by the function that *)
(* is still that of the client before.                                     *)
TellErrorUnlink(b) ==
  /\ Goto(b, "tell", "store") /\ Tell(who[b], "err")
  /\ linked' = linked \ {unlink_cb}
  /\ UNCHANGED <<proc, unlink_cb, has_died, objVars, who, ptr>>

(* Initialize returned false: refused or failed.                           *)
TellError(b) ==
  /\ Goto(b, "tell", "store") /\ Tell(who[b], "err")
  /\ UNCHANGED <<proc, linked, unlink_cb, has_died, objVars, who, ptr>>

(* unlink_cb_ is replaced, whatever became of the call.                    *)
Store(b) ==
  /\ Return(b, "store")
  /\ unlink_cb' = who[b]
  /\ UNCHANGED <<proc, client, linked, has_died, objVars>>
-----------------------------------------------------------------------------
(* close() and serviceDied().                                              *)

CallClose(b, c) ==
  /\ client[c] \in {"wait", "ok", "err"} /\ ~InCall(c)
  /\ Begin(b, c, "unlink")
  /\ client' = [client EXCEPT ![c] = "closing"]
  /\ UNCHANGED <<proc, linked, unlink_cb, has_died, objVars>>

(* Binder tells the HAL of a death.                                        *)
NoticeDeath(b, c) ==
  /\ client[c] = "dead" /\ c \in linked
  /\ Begin(b, c, "died")
  /\ linked' = linked \ {c}
  /\ UNCHANGED <<proc, client, unlink_cb, has_died, objVars>>

ServiceDied(b) ==
  /\ Goto(b, "died", "unlink")
  /\ has_died' = TRUE
  /\ UNCHANGED <<proc, client, linked, unlink_cb, objVars, who, ptr>>

(* Variant: close() does not unlink.                                       *)
KeepLink(b) ==
  \/ /\ unlink_cb # NoClient
     /\ Goto(b, "unlink", "fatal")
     /\ UNCHANGED <<proc, clientVars, objVars, who, ptr>>
  \/ pc[b] = "unlink" /\ unlink_cb = NoClient /\ End("abort")

(* unlink_cb_(death_recipient_): of whoever called initialize last.        *)
Unlink(b) ==
  \/ /\ unlink_cb # NoClient
     /\ Goto(b, "unlink", "fatal")
     /\ linked' = IF has_died THEN linked ELSE linked \ {unlink_cb}
     /\ UNCHANGED <<proc, client, unlink_cb, has_died, objVars, who, ptr>>
  \/ pc[b] = "unlink" /\ unlink_cb = NoClient /\ End("abort")

(* LOG_ALWAYS_FATAL_IF(!g_vendor_interface).                               *)
Shutdown(b) ==
  \/ /\ g = "live"
     /\ Goto(b, "fatal", "stop")
     /\ ptr' = [ptr EXCEPT ![b] = "live"]
     /\ UNCHANGED <<proc, clientVars, objVars, who>>
  \/ pc[b] = "fatal" /\ g = "null" /\ End("fatal")

(* Close: the watcher is stopped (FdWatcher), ...                          *)
StopWatcher(b) ==
  \/ /\ ptr[b] = "live"
     /\ Goto(b, "stop", "delete")
     /\ UNCHANGED <<proc, clientVars, objVars, who, ptr>>
  \/ pc[b] = "stop" /\ UseStale(b)

(* ... hci_ deleted, ...                                                   *)
DeleteHci(b) ==
  \/ /\ ptr[b] = "live"
     /\ Goto(b, "delete", "join")
     /\ hci' = "null"
     /\ UNCHANGED <<proc, clientVars, g, owner, fw, who, ptr>>
  \/ pc[b] = "delete" /\ UseStale(b)

(* Variant: the library's cleanup does not wait for its thread.            *)
DetachInit(b) ==
  \/ /\ ptr[b] = "live"
     /\ Goto(b, "join", "free")
     /\ UNCHANGED <<proc, clientVars, objVars, who, ptr>>
  \/ pc[b] = "join" /\ UseStale(b)

(* ... and the library's cleanup joins the init thread.                    *)
JoinInit(b) ==
  \/ /\ ptr[b] = "live" /\ fw \in {"none", "done"}
     /\ Goto(b, "join", "free")
     /\ fw' = "none"
     /\ UNCHANGED <<proc, clientVars, g, owner, hci, who, ptr>>
  \/ pc[b] = "join" /\ UseStale(b)

(* delete g_vendor_interface; whoever still holds the pointer does not     *)
(* learn of it.  A client that closed may initialize again.                *)
Free(b) ==
  \/ /\ ptr[b] = "live"
     /\ Goto(b, "free", "idle") /\ who' = [who EXCEPT ![b] = NoClient]
     /\ g' = "null" /\ owner' = NoClient
     /\ ptr' = [d \in Binders |-> IF d = b THEN "none"
                                 ELSE IF ptr[d] = "live" THEN "stale" ELSE ptr[d]]
     /\ client' = [client EXCEPT ![who[b]] = IF @ = "closing" THEN "new" ELSE @]
     /\ UNCHANGED <<proc, linked, unlink_cb, has_died, hci, fw>>
  \/ pc[b] = "free" /\ UseStale(b)
-----------------------------------------------------------------------------
(* sendHciCommand(), sendAclData(), sendScoData().                         *)

CallSend(b, c) ==
  /\ client[c] = "ok" /\ ~InCall(c)
  /\ Begin(b, c, "get")
  /\ UNCHANGED <<proc, clientVars, objVars>>

Get(b) ==
  \/ /\ g = "live"
     /\ Goto(b, "get", "write")
     /\ ptr' = [ptr EXCEPT ![b] = "live"]
     /\ UNCHANGED <<proc, clientVars, objVars, who>>
  \/ pc[b] = "get" /\ g = "null" /\ End("abort")

SendHci(b) ==
  \/ /\ ptr[b] = "live" /\ hci = "live"
     /\ Return(b, "write")
     /\ UNCHANGED <<proc, clientVars, objVars>>
  \/ pc[b] = "write" /\ ptr[b] = "live" /\ hci = "null" /\ End("abort")
  \/ pc[b] = "write" /\ UseStale(b)
-----------------------------------------------------------------------------
(* The firmware init thread: its commands go through Send, which Close may *)
(* have left without hci_ (VendorInterface has the details), ...           *)
Transmit ==
  /\ fw = "busy" /\ "null" \in {g, hci}
  /\ End("transmit")

(* ... its end is reported to the owner ...                                *)
OnFirmwareConfigured ==
  \/ /\ fw = "busy" /\ g = "live"
     /\ fw' = "report"
     /\ \E result \in {"ok", "err"} : Tell(owner, result)
     /\ UNCHANGED <<proc, linked, unlink_cb, has_died, g, owner, hci, threadVars>>
  \/ fw = "busy" /\ g = "null" /\ End("transmit")

(* ... before it uses the object once more, for the idle timer.            *)
StartLowPowerWatchdog ==
  \/ /\ fw = "report" /\ g = "live"
     /\ fw' = "done"
     /\ UNCHANGED <<proc, clientVars, g, owner, hci, threadVars>>
  \/ fw = "report" /\ g = "null" /\ End("undefined")
-----------------------------------------------------------------------------
(* A client's process dies; another one may take its name when it is gone. *)
Die(c) ==
  /\ client[c] # "dead" /\ (client[c] # "new" \/ c \in linked)
  /\ client' = [client EXCEPT ![c] = "dead"]
  /\ UNCHANGED <<proc, linked, unlink_cb, has_died, objVars, threadVars>>

Respawn(c) ==
  /\ client[c] = "dead" /\ c \notin linked /\ owner # c /\ ~InCall(c)
  /\ client' = [client EXCEPT ![c] = "new"]
  /\ UNCHANGED <<proc, linked, unlink_cb, has_died, objVars, threadVars>>

BinderNext(b) ==
  \/ Link(b) \/ Test(b) \/ Create(b) \/ Open(b) \/ TellError(b) \/ Store(b)
  \/ ServiceDied(b) \/ Unlink(b) \/ Shutdown(b) \/ StopWatcher(b) \/ DeleteHci(b)
  \/ JoinInit(b) \/ Free(b)
  \/ Get(b) \/ SendHci(b)
FwNext == OnFirmwareConfigured \/ StartLowPowerWatchdog
Notices == \E b \in Binders, c \in Clients : NoticeDeath(b, c)

Step ==
  \/ /\ proc = "up"
     /\ \/ \E b \in Binders : BinderNext(b)
        \/ \E b \in Binders, c \in Clients :
             CallInitialize(b, c) \/ CallClose(b, c) \/ CallSend(b, c)
        \/ Notices
        \/ FwNext
        \/ Transmit
        \/ \E c \in Clients : Die(c) \/ Respawn(c)
  \/ Restart

History ==
  past' = IF proc' = "up" /\ proc # "up" THEN {}
          ELSE past \cup (IF Overlap' THEN {"overlap"} ELSE {})
                    \cup (IF Refusal' THEN {"refused"} ELSE {})

Next == Step /\ History

Spec == Init /\ [][Next]_vars

(* A call that has begun goes on, the init thread comes to its end         *)
(* (FwInit), and the notice of a death gets a thread.                      *)
FairSpec ==
  /\ Spec
  /\ \A b \in Binders : WF_vars(proc = "up" /\ BinderNext(b) /\ History)
  /\ WF_vars(proc = "up" /\ FwNext /\ History)
  /\ SF_vars(proc = "up" /\ Notices /\ History)
-----------------------------------------------------------------------------
(* Types; the packetizer does not outlive the object it belongs to.        *)
TypeOK ==
  /\ proc \in {"up", "fatal", "abort", "transmit", "undefined"}
  /\ client \in [Clients -> {"new", "wait", "ok", "err", "closing", "dead"}]
  /\ linked \subseteq Clients /\ unlink_cb \in Clients \cup {NoClient}
  /\ has_died \in BOOLEAN
  /\ g \in {"null", "live"} /\ hci \in {"null", "live"}
  /\ owner \in Clients \cup {NoClient}
  /\ fw \in {"none", "busy", "report", "done"}
  /\ pc \in [Binders -> {"idle"} \cup ClosePc \cup InitPc \cup SendPc]
  /\ who \in [Binders -> Clients \cup {NoClient}]
  /\ ptr \in [Binders -> {"none", "live", "stale"}]
  /\ past \subseteq {"refused", "overlap"}
  /\ orderly /\ hci = "live" => g = "live"

(* The HAL has no lock and no reference count, and needs none as long as   *)
(* calls do not overlap a close and nobody initializes over a session:     *)
(* through any sequence of such sessions, with clients that close at any   *)
(* time or die in the middle, the assertion of Shutdown holds, no call     *)
(* meets a null pointer and no deleted object is used.  What is left is    *)
(* the init thread's command after hci_ is gone.                           *)
OrderlyIsSafe == orderly => proc \in {"up", "transmit"}

(* The init thread never runs without its object: Close joins it before    *)
(* the object is deleted, whether it waits for the controller or is just   *)
(* reporting (only a close that overlaps the initialize can miss it).  It  *)
(* has a packetizer to send through, too, unless a close waits for it.     *)
InitThreadHasObject ==
  orderly /\ fw \in {"busy", "report"} =>
    g = "live" /\ (hci = "live" \/ \E b \in Binders : pc[b] = "join")

(* Every initialize() is answered at most once, by the call itself or by   *)
(* the init thread, which may run at the same time: who is about to be     *)
(* answered has not been, and not both are about to answer.                *)
AnswerPending ==
  proc = "up" =>
    /\ \A b \in Binders : pc[b] \in {"open", "tell"} =>
         client[who[b]] \in {"wait", "dead"}
    /\ fw = "busy" =>
         /\ owner = NoClient \/ client[owner] \in {"wait", "closing", "dead"}
         /\ \A b \in Binders : pc[b] = "tell" => who[b] # owner

(* A session can always be ended from outside: the death of its client     *)
(* will be noticed, or a close is at work on it already - whatever refused *)
(* initializes linked, and closes and deaths unlinked, in between.         *)
DeathIsNoticed ==
  "overlap" \notin past =>
    owner \in linked \cup {NoClient} \/ \E b \in Binders : pc[b] \in ClosePc

(* The init thread has its object, its client is answered once, and the    *)
(* HAL learns of that client's death.                                      *)
HciInv == TypeOK /\ InitThreadHasObject /\ AnswerPending /\ DeathIsNoticed

(* The session of a client that has died ends, whatever refused clients,   *)
(* their closes and deaths did to unlink_cb_ and has_died_ (or the process *)
(* does); only a close that overlaps an initialize may unlink the death of *)
(* a session that is yet to come.                                          *)
DeathEndsSession ==
  \A c \in Clients :
    owner = c /\ client[c] = "dead" ~> owner # c \/ proc # "up" \/ "overlap" \in past
=============================================================================
