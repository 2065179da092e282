---------------------------- MODULE VendorInterface ----------------------------
(***************************************************************************)
(* The Bluetooth HAL around the vendor library: VendorInterface, the       *)
(* watcher thread that reads the controller's events, and the hand-over    *)
(* of a vendor command's answer through the global internal_command.       *)
(*                                                                         *)
(* The library's own steps are those of FwInit.  Where FwInit speaks of    *)
(* "the HAL listens" and "a command is out", this module has the watcher   *)
(* thread, the callback registration, the UART in both directions and the  *)
(* steps of Close; Lib!Spec says that FwInit's picture of them is right.   *)
(* Packets are read in one piece here; low power mode is left out (the     *)
(* library's LPM operations do nothing).                                   *)
(***************************************************************************)
EXTENDS Integers, Sequences, FwScripts

CONSTANTS
  Chips, Script,  (* as in FwInit                                           *)
  ClientOps,      (* opcodes the Bluetooth stack sends                      *)
  Unsolicited,    (* opcodes of the events the controller sends unasked     *)
  MaxDown         (* events on their way to the host                        *)

NotComplete == "none"   \* "opcode" of an event that is no Command Complete
Nop         == "0000"   \* Command Complete that only returns command credits

(* Nothing the controller sends unasked looks like the answer to one of    *)
(* the library's commands.  A Nop may come: until the first command of a   *)
(* process is registered, internal_command's opcode is 0 and matches it.   *)
ASSUME InterfaceAssumption ==
  /\ MaxDown \in Nat \ {0}
  /\ Unsolicited \cap { OpCode(c) : c \in MtkCommands } = {}

VARIABLES
  \* the library, as in FwInit
  device, api, told, cmd_status, mutex, worker_thread_running, thr, idx, ret,
  acked, addr, fgGetEFUSE, nvram, nvOk, ctrl,
  \* the HAL
  icb,      \* internal_command.cb: "none" (nullptr), "get", "common"
  iop,      \* internal_command.opcode
  xpc,      \* next statement of transmit_cb: "cb", "opcode", "write"
  hci,      \* hci_: "null" or "live"
  cl,       \* where Close is: "none", "join" (the watcher), "delete" (hci_)
  running,  \* fd_watcher_.running_
  w,        \* where the watcher thread is ("none": no such thread)
  wev,      \* the packet it works on
  saved,    \* saved_cb of HandleIncomingEvent
  up, down, \* UART: commands to the controller, events to the host
  cwait,    \* the client waits for the answer to its command
  mixed     \* history: in this session the library's handler was chosen for
            \* a packet that is no answer to the library

libVars == <<device, api, told, cmd_status, mutex, worker_thread_running, thr,
             idx, ret, acked, addr, fgGetEFUSE, nvram, nvOk, ctrl>>
uartVars == <<up, down>>
watchVars == <<running, w, wev, saved>>
halVars == <<icb, iop, xpc, hci, cl, watchVars, uartVars, cwait>>
vars == <<libVars, halVars, mixed>>

Packet(by, cmd, op, ok) == [by |-> by, cmd |-> cmd, op |-> op, ok |-> ok]
NoPacket == Packet("nobody", "none", NotComplete, FALSE)

(* The library's command that the UART or the watcher still holds.         *)
VendorPackets ==
  { p \in { up[i] : i \in DOMAIN up } \cup { down[i] : i \in DOMAIN down } \cup {wev} :
      p.by = "vendor" }
InFlight == IF w = "none" \/ VendorPackets = {}
            THEN "none" ELSE (CHOOSE p \in VendorPackets : TRUE).cmd

Lib == INSTANCE FwInit WITH
         Commands <- MtkCommands, listening <- (w # "none"), xmit <- InFlight

ASSUME ScriptsAssumption == Lib!ScriptsOK

script == Lib!script
Cmd == script[idx]
-----------------------------------------------------------------------------
InitHal ==
  /\ icb = "none" /\ iop = Nop /\ xpc = "cb" /\ hci = "null" /\ cl = "none"
  /\ running = FALSE /\ w = "none" /\ wev = NoPacket /\ saved = "none"
  /\ up = <<>> /\ down = <<>> /\ cwait = FALSE /\ mixed = FALSE

Init ==
  /\ InitHal
  /\ api = "off" /\ told = "none"
  /\ cmd_status = "SUCCESS" /\ mutex = "raw" /\ worker_thread_running = FALSE
  /\ thr = "none" /\ idx = 1 /\ ret = "none" /\ acked = {}
  /\ addr = "zero" /\ fgGetEFUSE = FALSE /\ nvOk = TRUE /\ ctrl = "zero"
  /\ device \in Lib!Devices
  /\ nvram \in {"blank", "nvram"} \cup Lib!Unset

(* The process dies, and with it everything but the disk and the chip.     *)
Die ==
  /\ icb' = "none" /\ iop' = Nop /\ xpc' = "cb" /\ hci' = "null" /\ cl' = "none"
  /\ running' = FALSE /\ w' = "none" /\ wev' = NoPacket /\ saved' = "none"
  /\ up' = <<>> /\ down' = <<>> /\ cwait' = FALSE /\ mixed' = FALSE
  /\ api' = "off" /\ told' = "none"
  /\ cmd_status' = "SUCCESS" /\ mutex' = "raw" /\ worker_thread_running' = FALSE
  /\ thr' = "none" /\ idx' = 1 /\ ret' = "none" /\ acked' = {}
  /\ addr' = "zero" /\ fgGetEFUSE' = FALSE /\ nvOk' = TRUE /\ ctrl' = "zero"
  /\ UNCHANGED <<device, nvram>>

ServiceDies == api # "off" /\ Die
-----------------------------------------------------------------------------
(* The API thread.                                                         *)

(* Open: the library, the UART, the watcher thread, hci_.  ok: everything  *)
(* up to BT_VND_OP_FW_CFG worked; the caller reports the failure else.     *)
Open(ok) ==
  /\ api = "off"
  /\ IF ok
     THEN /\ running' = TRUE /\ w' = "loop" /\ hci' = "live"
          /\ api' = "fwcfg" /\ told' = "none"
     ELSE /\ UNCHANGED <<running, w, hci>>
          /\ api' = "up" /\ told' = "fail"
  /\ UNCHANGED <<icb, iop, xpc, cl, wev, saved, uartVars, cwait, mixed, device, cmd_status,
                 mutex, worker_thread_running, thr, idx, ret, acked, addr, fgGetEFUSE,
                 nvram, nvOk, ctrl>>

(* mtk_fw_cfg and BT_InitDevice.                                           *)
Configure ==
  /\ UNCHANGED <<halVars, mixed>>
  /\ \/ Lib!FwCfgFails
     \/ \E readOk, created \in BOOLEAN : Lib!FwCfg(readOk, created)
     \/ Lib!SetRunning

(* Variant: hci_ is deleted before the watcher is stopped.                 *)
CloseDeleteFirst ==
  /\ api = "up" /\ cl = "none"
  /\ running' = FALSE /\ hci' = "null"
  /\ IF running
     THEN cl' = "join" /\ UNCHANGED api
     ELSE cl' = "delete" /\ api' = "stopped"
  /\ UNCHANGED <<icb, iop, xpc, w, wev, saved, uartVars, cwait, mixed, device, told, cmd_status,
                 mutex, worker_thread_running, thr, idx, ret, acked, addr, fgGetEFUSE,
                 nvram, nvOk, ctrl>>

(* Close, stopThread: running_ goes, and the watcher is notified.          *)
CloseStop ==
  /\ api = "up" /\ cl = "none"
  /\ running' = FALSE
  /\ IF running
     THEN cl' = "join" /\ UNCHANGED api
     ELSE cl' = "delete" /\ api' = "stopped"
  /\ UNCHANGED <<icb, iop, xpc, hci, w, wev, saved, uartVars, cwait, mixed, device, told,
                 cmd_status, mutex, worker_thread_running, thr, idx, ret, acked, addr,
                 fgGetEFUSE, nvram, nvOk, ctrl>>

(* Variant: stopThread does not wait for the watcher.                      *)
CloseDetach ==
  /\ cl = "join"
  /\ api' = "stopped" /\ cl' = "delete"
  /\ UNCHANGED <<icb, iop, xpc, hci, running, w, wev, saved, uartVars, cwait, mixed, device, told,
                 cmd_status, mutex, worker_thread_running, thr, idx, ret, acked, addr,
                 fgGetEFUSE, nvram, nvOk, ctrl>>

(* thread_.join() in stopThread.                                           *)
CloseJoin ==
  /\ cl = "join" /\ w = "ended"
  /\ w' = "none"
  /\ api' = "stopped" /\ cl' = "delete"
  /\ UNCHANGED <<icb, iop, xpc, hci, running, wev, saved, uartVars, cwait, mixed, device, told,
                 cmd_status, mutex, worker_thread_running, thr, idx, ret, acked, addr,
                 fgGetEFUSE, nvram, nvOk, ctrl>>

(* hci_ is deleted and the UART closed: what it held is gone.  The client  *)
(* that closes gives up its answer.                                        *)
CloseDelete ==
  /\ cl = "delete"
  /\ hci' = "null" /\ cl' = "none"
  /\ up' = <<>> /\ down' = <<>> /\ cwait' = FALSE
  /\ UNCHANGED <<libVars, icb, iop, xpc, watchVars, mixed>>

(* cleanup() of the library, and dlclose().  internal_command stays.       *)
LibCleanup ==
  /\ cl = "none"
  /\ UNCHANGED halVars
  /\ \/ (Lib!Cleanup \/ Lib!NotifyThreadExit) /\ UNCHANGED mixed
     \/ Lib!Join /\ mixed' = FALSE
-----------------------------------------------------------------------------
(* The firmware init thread.                                               *)

Advance ==
  /\ UNCHANGED <<halVars, mixed>>
  /\ \/ Lib!ThreadInit
     \/ \E enabled \in BOOLEAN : Lib!LoopTest(enabled)
     \/ Lib!Arm
     \/ Lib!WaitDone
     \/ Lib!ThreadExit
     \/ Lib!Report
     \/ Lib!ClearRunning

(* transmit_cb is three statements, none of them under a lock.             *)
RegisterCb ==
  /\ thr = "send" /\ xpc = "cb"
  /\ icb' = IF Cmd = Lib!GetAddr THEN "get" ELSE "common"
  /\ xpc' = "opcode"
  /\ UNCHANGED <<libVars, iop, hci, cl, watchVars, uartVars, cwait, mixed>>

(* Variant: the opcode of the command before stays registered.             *)
RegisterNoOpcode ==
  /\ thr = "send" /\ xpc = "opcode"
  /\ xpc' = "write"
  /\ UNCHANGED <<libVars, icb, iop, hci, cl, watchVars, uartVars, cwait, mixed>>

RegisterOpcode ==
  /\ thr = "send" /\ xpc = "opcode"
  /\ iop' = OpCode(Cmd)
  /\ xpc' = "write"
  /\ UNCHANGED <<libVars, icb, hci, cl, watchVars, uartVars, cwait, mixed>>

(* VendorInterface::Send.  The address is settled before transmit_cb is    *)
(* called; nobody looks at it before this step.                            *)
Transmit(writeOk) ==
  /\ thr = "send" /\ xpc = "write" /\ hci = "live"
  /\ up' = Append(up, Packet("vendor", Cmd, OpCode(Cmd), TRUE))
  /\ thr' = "wait" /\ xpc' = "cb"
  /\ IF Cmd = Lib!SetAddr
     THEN Lib!SaveAddr(writeOk)
     ELSE UNCHANGED <<addr, nvram, nvOk, fgGetEFUSE>>
  /\ UNCHANGED <<icb, iop, hci, cl, watchVars, down, cwait, mixed, device, api, told, cmd_status,
                 mutex, worker_thread_running, idx, ret, acked, ctrl>>

(* hci_->Send with hci_ gone (Close does not wait for the init thread      *)
(* before it deletes hci_): the process dies.                              *)
TransmitToNull ==
  /\ thr = "send" /\ xpc = "write" /\ hci = "null"
  /\ Die
-----------------------------------------------------------------------------
(* The watcher thread.                                                     *)

TestRunning ==
  /\ w = "loop"
  /\ w' = IF running THEN "select" ELSE "ended"
  /\ UNCHANGED <<libVars, icb, iop, xpc, hci, cl, running, wev, saved, uartVars, cwait, mixed>>

(* Variant: stopThread does not write to the notification pipe.            *)
SelectDataOnly ==
  /\ w = "select" /\ down # <<>>
  /\ wev' = Head(down) /\ down' = Tail(down) /\ w' = "handle"
  /\ UNCHANGED <<libVars, icb, iop, xpc, hci, cl, running, saved, up, cwait, mixed>>

(* select() returns for stopThread's notification or for data.             *)
Select ==
  /\ w = "select"
  /\ \/ ~running /\ w' = "loop" /\ UNCHANGED <<wev, down>>
     \/ down # <<>> /\ wev' = Head(down) /\ down' = Tail(down) /\ w' = "handle"
  /\ UNCHANGED <<libVars, icb, iop, xpc, hci, cl, running, saved, up, cwait, mixed>>

(* HandleIncomingEvent: is a callback registered ...                       *)
TestCb ==
  /\ w = "handle"
  /\ w' = IF icb # "none" THEN "match" ELSE "client"
  /\ UNCHANGED <<libVars, icb, iop, xpc, hci, cl, running, wev, saved, uartVars, cwait, mixed>>

(* ... and is this the Command Complete of its opcode?                     *)
Match ==
  /\ w = "match"
  /\ w' = IF wev.op # NotComplete /\ wev.op = iop THEN "take" ELSE "client"
  /\ mixed' = (mixed \/ (w' = "take" /\ wev.by # "vendor"))
  /\ UNCHANGED <<libVars, icb, iop, xpc, hci, cl, running, wev, saved, uartVars, cwait>>

TakeCb ==
  /\ w = "take"
  /\ saved' = icb /\ w' = "clear"
  /\ UNCHANGED <<libVars, icb, iop, xpc, hci, cl, running, wev, uartVars, cwait, mixed>>

(* Variant: the callback stays registered.                                 *)
KeepCb ==
  /\ w = "clear"
  /\ w' = "call"
  /\ UNCHANGED <<libVars, icb, iop, xpc, hci, cl, running, wev, saved, uartVars, cwait, mixed>>

ClearCb ==
  /\ w = "clear"
  /\ icb' = "none" /\ w' = "call"
  /\ UNCHANGED <<libVars, iop, xpc, hci, cl, running, wev, saved, uartVars, cwait, mixed>>

(* The library's completion handler: it compares the event with the opcode *)
(* of the command that was built last.  Out of a Nop, which is too short   *)
(* to hold an address, the address query's handler copies anything.        *)
RunHandler ==
  LET ok == wev.ok /\ thr \in {"send", "wait"} /\ wev.op = OpCode(Cmd) IN
  /\ w = "call"
  /\ cmd_status' = IF ok THEN "SUCCESS" ELSE "FAIL"
  /\ acked' = IF ok THEN acked \cup {idx} ELSE acked
  /\ addr' \in IF saved # "get" THEN {addr}
               ELSE IF wev.by = "vendor" THEN {device.efuse} ELSE Lib!Addr
  /\ ctrl' = IF wev.cmd = Lib!SetAddr /\ ok THEN addr ELSE ctrl
  /\ w' = "loop" /\ wev' = NoPacket /\ saved' = "none"
  /\ UNCHANGED <<icb, iop, xpc, hci, cl, running, uartVars, cwait, mixed, device, api, told, mutex,
                 worker_thread_running, thr, idx, ret, fgGetEFUSE, nvram, nvOk>>

(* event_cb_: hciEventReceived of the client.                              *)
ToClient ==
  /\ w = "client"
  /\ cwait' = (cwait /\ wev.by # "client")
  /\ w' = "loop" /\ wev' = NoPacket
  /\ UNCHANGED <<libVars, icb, iop, xpc, hci, cl, running, saved, uartVars, mixed>>
-----------------------------------------------------------------------------
(* The client sends one command at a time, once it was told SUCCESS.       *)
ClientSend(op) ==
  /\ api = "up" /\ cl = "none" /\ told = "success" /\ ~cwait
  /\ up' = Append(up, Packet("client", "none", op, TRUE))
  /\ cwait' = TRUE
  /\ UNCHANGED <<libVars, icb, iop, xpc, hci, cl, watchVars, down, mixed>>

(* The controller answers in order, with success or an error ...           *)
Answer(ok) ==
  /\ up # <<>>
  /\ down' = Append(down, [Head(up) EXCEPT !.ok = ok])
  /\ up' = Tail(up)
  /\ UNCHANGED <<libVars, icb, iop, xpc, hci, cl, watchVars, cwait, mixed>>

(* ... and has events of its own (bound: MaxDown).                         *)
SendEvent(op) ==
  /\ hci = "live" /\ Len(up) + Len(down) < MaxDown
  /\ down' = Append(down, Packet("nobody", "none", op, TRUE))
  /\ UNCHANGED <<libVars, icb, iop, xpc, hci, cl, watchVars, up, cwait, mixed>>
-----------------------------------------------------------------------------
CloseNext == CloseJoin \/ CloseDelete \/ LibCleanup
ThreadNext ==
  \/ Advance
  \/ RegisterCb
  \/ RegisterOpcode
  \/ \E writeOk \in BOOLEAN : Transmit(writeOk)
  \/ TransmitToNull
WatcherNext ==
  \/ TestRunning
  \/ Select
  \/ TestCb
  \/ Match
  \/ TakeCb
  \/ ClearCb
  \/ RunHandler
  \/ ToClient
ControllerAnswers == \E ok \in BOOLEAN : Answer(ok)

Next ==
  \/ \E ok \in BOOLEAN : Open(ok)
  \/ Configure
  \/ CloseStop
  \/ CloseNext
  \/ ThreadNext
  \/ WatcherNext
  \/ \E op \in ClientOps : ClientSend(op)
  \/ ControllerAnswers
  \/ \E op \in Unsolicited : SendEvent(op)
  \/ ServiceDies

Spec == Init /\ [][Next]_vars

(* Every thread that can run does: the API thread inside a call, the init  *)
(* thread and the (real-time) watcher thread.                              *)
Fairness == WF_vars(Configure) /\ WF_vars(CloseNext)
              /\ WF_vars(ThreadNext) /\ WF_vars(WatcherNext)

FairSpec == Spec /\ Fairness

(* What the controller may or may not do: answer what it was sent.         *)
ControllerLives == WF_vars(ControllerAnswers)
-----------------------------------------------------------------------------
WatcherPc == {"none", "loop", "select", "handle", "match", "take", "clear", "call",
              "client", "ended"}
Packets == [by : {"vendor", "client", "nobody"}, cmd : MtkCommands \cup {"none"},
            op : { OpCode(c) : c \in MtkCommands } \cup ClientOps \cup Unsolicited
                   \cup {NotComplete},
            ok : BOOLEAN]

(* Types of the HAL's variables, with the depth of the two UART queues:    *)
(* one command at a time is out, whoever sent it.                          *)
HalTypeOK ==
  /\ icb \in {"none", "get", "common"}
  /\ iop \in { OpCode(c) : c \in MtkCommands } \cup {Nop}
  /\ xpc \in {"cb", "opcode", "write"}
  /\ hci \in {"null", "live"}
  /\ cl \in {"none", "join", "delete"}
  /\ running \in BOOLEAN
  /\ w \in WatcherPc
  /\ wev \in Packets
  /\ saved \in {"none", "get", "common"}
  /\ up \in Seq(Packets) /\ Len(up) <= 1
  /\ down \in Seq(Packets) /\ Len(down) <= MaxDown + 1
  /\ cwait \in BOOLEAN

(* An answer to the library's command goes to the handler registered for   *)
(* that command, while the init thread waits for it; no such answer leaks  *)
(* to the stack, and nothing else reaches a handler - except a Nop in the  *)
(* window between the first callback of a process and its opcode.  A       *)
(* session in which that happened is never reported as a success.          *)
RoutingOK ==
  IF mixed
  THEN told # "success"
  ELSE /\ w = "call" => /\ wev.by = "vendor" /\ thr = "wait" /\ wev.cmd = Cmd
                        /\ saved = IF Cmd = Lib!GetAddr THEN "get" ELSE "common"
       /\ w = "client" => wev.by # "vendor"

(* The packetizer the watcher thread runs in is never deleted under it; a  *)
(* completion handler, a Nop's too, finds the mutex it locks alive and the *)
(* init thread at the command; and a report is given inside the session    *)
(* whose callback it calls.                                                *)
LifeTimes ==
  /\ w # "none" => hci = "live"
  /\ w = "call" => mutex = "live" /\ thr \in {"send", "wait"}
  /\ thr = "report" => api \notin {"off", "fwcfg"}

(* Types and life times hold in every state.                               *)
HalInv == HalTypeOK /\ LifeTimes

(* The HAL is the environment FwInit assumes: every command handed to      *)
(* transmit_cb while the watcher lives stays out until its handler runs    *)
(* or Close has stopped the watcher, and handlers run for nothing else -   *)
(* until a Nop was taken for an answer; with the next session the HAL is   *)
(* that environment again.                                                 *)
Implements == Lib!Init /\ [][Lib!Next \/ mixed']_(Lib!vars)
-----------------------------------------------------------------------------
(* Close gets past the watcher's join, and out of the library's cleanup,   *)
(* even if the controller is silent.                                       *)
ShutdownReturns == cl = "join" ~> api = "off"

(* With the HAL's own scheduling and a controller that answers, a started  *)
(* firmware init is reported unless the session is closed first.           *)
InitAnswered ==
  ControllerLives =>
    (thr = "init" ~> told # "none" \/ api \notin {"created", "up"})

(* With a controller that answers, the stack gets the answer to its        *)
(* command (or closes, or the process dies): the vendor library's          *)
(* leftovers do not swallow it.                                            *)
ClientAnswered == ControllerLives => (cwait ~> ~cwait)
=============================================================================
