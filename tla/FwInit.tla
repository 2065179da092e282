------------------------------- MODULE FwInit -------------------------------
(***************************************************************************)
(* libbt-vendor: one Bluetooth session of the MediaTek vendor library.     *)
(*                                                                         *)
(*   - the API thread: the binder thread of the HAL that opens the         *)
(*     library, runs BT_VND_OP_FW_CFG (mtk_fw_cfg, BT_InitDevice) and, on  *)
(*     close, cleanup() (BT_Cleanup);                                      *)
(*   - the firmware init thread (GORM_FW_Init_Thread), which sends the     *)
(*     chip's script one HCI command at a time and waits for each answer;  *)
(*   - the HAL's watcher thread, which runs the completion handlers        *)
(*     (GORMevt_HCE_...) while the HAL listens to the controller.            *)
(*                                                                         *)
(* The HAL and the controller are the environment here; VendorInterface    *)
(* puts the real HAL in their place.  A critical section of                *)
(* btinit_ctrl.mutex is one step; every access outside it is a step.       *)
(***************************************************************************)
EXTENDS Integers, Sequences

CONSTANTS
  Commands, (* the HCI commands of the scripts                              *)
  Chips,   (* chips with an init script in GORM_FW_Init_Thread             *)
  Script   (* Script[c]: the commands sent to chip c, in order             *)

GetAddr  == "Get_Local_BD_Addr"
SetAddr  == "Set_Local_BD_Addr"
DebugCmds == {"Set_FW_SysLog", "Set_SSP_Debug_Mode"}   \* sent on request only

NoScript == "unknown"     \* a chip id GORM_FW_Init_Thread has no script for
NoCmd    == "none"

(* A script starts with the address, which it never touches again: Get     *)
(* then Set on a combo chip, Set alone on an A-D die ("consys").           *)
ScriptsOK ==
  /\ NoScript \notin Chips
  /\ NoCmd \notin Commands
  /\ \A c \in Chips :
       /\ Script[c] \in Seq(Commands)
       /\ IF c = "consys"
          THEN Len(Script[c]) >= 1 /\ Script[c][1] = SetAddr
          ELSE Len(Script[c]) >= 2 /\ Script[c][1] = GetAddr /\ Script[c][2] = SetAddr
       /\ \A j \in 3..Len(Script[c]) : Script[c][j] \notin {GetAddr, SetAddr}
       /\ c = "consys" /\ Len(Script[c]) >= 2 => Script[c][2] \notin {GetAddr, SetAddr}

ASSUME ScriptAssumption == ScriptsOK

(* BD addresses by origin.  Default: the chip's factory default            *)
(* (stBtDefault_...); "blank": an all-zero record.                         *)
Unset == {"zero", "default"}
Addr  == Unset \cup {"random", "efuse", "nvram"}

Results == {"none", "success", "fail"}
ApiPc   == {"off", "fwcfg", "created", "up", "stopped", "notify", "join"}
ThrPc   == {"none", "init", "loop", "arm", "send", "wait", "exit", "report",
            "clear", "done"}

VARIABLES
  device,     \* the hardware: its chip and the address in its eFUSE, and the
              \* library's build: eng defines BD_ADDR_AUTOGEN (never changes)
  api,        \* where the API thread is
  listening,  \* the HAL's watcher delivers controller events
  told,       \* what initializationComplete told the client of this session
  cmd_status, \* static: CMD_SUCCESS (initially), CMD_FAIL, CMD_PENDING, CMD_TERMINATE
  mutex,      \* btinit_ctrl.mutex: "raw" before the first init, "live", "destroyed"
  worker_thread_running,
  thr,        \* where the firmware init thread is ("none": joined or never created)
  idx,        \* its script index i, counted from 1
  ret,        \* its result
  xmit,       \* command sent to the controller whose completion has not come yet
  acked,      \* script indices answered with status 0 in this session
  addr,       \* btinit->bt_nvram.fields.addr
  fgGetEFUSE, \* static: the eFUSE address is wanted
  nvram,      \* BD address record on disk
  nvOk,       \* every NVRAM access of this session worked
  ctrl        \* address the controller was given in this session

apiVars  == <<api, listening, told>>
syncVars == <<cmd_status, mutex, worker_thread_running>>
thrVars  == <<thr, idx, ret>>
cmdVars  == <<xmit, acked>>
addrVars == <<addr, fgGetEFUSE, nvram, nvOk, ctrl>>
vars == <<device, apiVars, syncVars, thrVars, cmdVars, addrVars>>

script == IF device.chip \in Chips THEN Script[device.chip] ELSE <<>>
End    == Len(script) + 1               \* index of the script's NULL entry
Consys == device.chip = "consys"
-----------------------------------------------------------------------------
Devices == [chip : Chips \cup {NoScript}, efuse : {"efuse"} \cup Unset, eng : BOOLEAN]

(* A fresh process.                                                        *)
Init ==
  /\ api = "off" /\ listening = FALSE /\ told = "none"
  /\ cmd_status = "SUCCESS" /\ mutex = "raw" /\ worker_thread_running = FALSE
  /\ thr = "none" /\ idx = 1 /\ ret = "none"
  /\ xmit = NoCmd /\ acked = {}
  /\ addr = "zero" /\ fgGetEFUSE = FALSE /\ nvOk = TRUE /\ ctrl = "zero"
  /\ device \in Devices
  /\ nvram \in {"blank", "nvram"} \cup Unset

(* The statics of radiomod.c and the BSS of btinit and btinit_ctrl, as     *)
(* the next dlopen() finds them, since Close unloads the library.          *)
Unload ==
  /\ cmd_status' = "SUCCESS" /\ mutex' = "raw" /\ worker_thread_running' = FALSE
  /\ thr' = "none" /\ idx' = 1 /\ ret' = "none"
  /\ addr' = "zero" /\ fgGetEFUSE' = FALSE

(* With its session the library is gone: only the disk survives.           *)
SessionOver ==
  /\ api' = "off" /\ listening' = FALSE /\ told' = "none"
  /\ Unload
  /\ xmit' = NoCmd /\ acked' = {} /\ nvOk' = TRUE /\ ctrl' = "zero"
  /\ UNCHANGED <<device, nvram>>

(* The service is killed or aborts.                                        *)
ServiceDies == api # "off" /\ SessionOver
-----------------------------------------------------------------------------
(* The API thread.                                                         *)

(* VendorInterface::Open up to BT_VND_OP_FW_CFG.  If it fails before that, *)
(* initialize() itself reports the error and the session stays open.       *)
Open(ok) ==
  /\ api = "off"
  /\ api' = IF ok THEN "fwcfg" ELSE "up"
  /\ listening' = ok
  /\ told' = IF ok THEN "none" ELSE "fail"
  /\ UNCHANGED <<device, syncVars, thrVars, cmdVars, addrVars>>

(* mtk_fw_cfg returns -1 before BT_InitDevice: no chip id in ten tries, or *)
(* an unknown chip without NVRAM data.  VendorInterface ignores the code.  *)
FwCfgFails ==
  /\ api = "fwcfg"
  /\ api' = "up"
  /\ UNCHANGED <<device, listening, told, syncVars, thrVars, cmdVars, addrVars>>

(* Variant: an all-zero NVRAM record is used as it is.                     *)
FwCfgNoZeroCheck(readOk, created) ==
  /\ api = "fwcfg"
  /\ ~readOk => device.chip \in Chips
  /\ addr' = IF readOk THEN nvram ELSE "default"
  /\ nvOk' = readOk
  /\ worker_thread_running' = FALSE
  /\ api' = IF created THEN "created" ELSE "up"
  /\ IF created THEN thr' = "init" /\ idx' = 1 /\ ret' = "fail" ELSE UNCHANGED thrVars
  /\ UNCHANGED <<device, listening, told, cmd_status, mutex, cmdVars,
                 fgGetEFUSE, nvram, ctrl>>

(* mtk_fw_cfg with a chip id; BT_InitDevice, where pthread_create may      *)
(* fail.  readOk: NVRAM was ready and could be read.                       *)
FwCfg(readOk, created) ==
  LET useDefault == ~readOk \/ nvram = "blank" IN
  /\ api = "fwcfg"
  /\ useDefault => device.chip \in Chips
  /\ addr' = IF useDefault THEN "default" ELSE nvram
  /\ nvOk' = readOk
  /\ worker_thread_running' = FALSE
  /\ IF created
     THEN api' = "created" /\ thr' = "init" /\ idx' = 1 /\ ret' = "fail"
     ELSE api' = "up" /\ UNCHANGED thrVars
  /\ UNCHANGED <<device, listening, told, cmd_status, mutex, cmdVars,
                 fgGetEFUSE, nvram, ctrl>>

(* BT_InitDevice after pthread_create returned.                            *)
SetRunning ==
  /\ api = "created"
  /\ worker_thread_running' = TRUE
  /\ api' = "up"
  /\ UNCHANGED <<device, listening, told, cmd_status, mutex, thrVars, cmdVars, addrVars>>

(* Variant: the library is cleaned up while the watcher still runs.        *)
CleanupBeforeStop ==
  /\ api = "up"
  /\ api' = "stopped"
  /\ UNCHANGED <<device, listening, told, syncVars, thrVars, cmdVars, addrVars>>

(* VendorInterface::Close stops the watcher and closes the UART: an answer *)
(* still on its way is lost.                                               *)
StopListening ==
  /\ api = "up"
  /\ api' = "stopped"
  /\ listening' = FALSE
  /\ xmit' = NoCmd
  /\ UNCHANGED <<device, told, syncVars, thrVars, acked, addrVars>>

(* BT_Cleanup reads the flag without a lock.                               *)
Cleanup ==
  /\ api = "stopped"
  /\ api' = IF worker_thread_running THEN "notify" ELSE "join"
  /\ UNCHANGED <<device, listening, told, syncVars, thrVars, cmdVars, addrVars>>

(* notify_thread_exit.  On a mutex that is not live the lock is undefined: *)
(* the assignment goes through, or the process aborts (ServiceDies).       *)
NotifyThreadExit ==
  /\ api = "notify"
  /\ cmd_status' = "TERMINATE"
  /\ api' = "join"
  /\ UNCHANGED <<device, listening, told, mutex, worker_thread_running,
                 thrVars, cmdVars, addrVars>>

(* Variant: the thread is detached instead of joined.                      *)
JoinDetached ==
  /\ api = "join"
  /\ thr' = IF thr = "done" THEN "none" ELSE thr
  /\ api' = "off"
  /\ UNCHANGED <<device, listening, told, syncVars, idx, ret, cmdVars, addrVars>>

(* pthread_join, then clean_callbacks, dlclose() and the end of Shutdown.  *)
(* With no thread left to join it returns an error or aborts (ServiceDies). *)
Join ==
  /\ api = "join"
  /\ thr \in {"none", "done"}
  /\ SessionOver
-----------------------------------------------------------------------------
(* The firmware init thread.                                               *)

(* Initialises the mutex, picks the script, decides where to start.        *)
ThreadInit ==
  /\ thr = "init"
  /\ mutex' = "live"
  /\ IF device.chip \notin Chips
     THEN thr' = "exit" /\ UNCHANGED <<idx, fgGetEFUSE>>
     ELSE /\ thr' = "loop"
          /\ IF Consys
             THEN UNCHANGED <<idx, fgGetEFUSE>>
             ELSE /\ fgGetEFUSE' = (fgGetEFUSE \/ addr \in Unset)
                  /\ idx' = IF fgGetEFUSE' THEN 1 ELSE 2
  /\ UNCHANGED <<device, apiVars, cmd_status, worker_thread_running, ret, cmdVars,
                 addr, nvram, nvOk, ctrl>>

(* The loop's condition, then the debug commands' properties.  enabled:    *)
(* the property of a debug command is "1".                                 *)
LoopTest(enabled) ==
  /\ thr = "loop"
  /\ IF idx = End \/ cmd_status = "TERMINATE"
     THEN thr' = "exit" /\ UNCHANGED idx
     ELSE IF script[idx] \in DebugCmds /\ ~enabled
          THEN idx' = idx + 1 /\ UNCHANGED thr
          ELSE thr' = "arm" /\ UNCHANGED idx
  /\ UNCHANGED <<device, apiVars, syncVars, ret, cmdVars, addrVars>>

(* Variant: CMD_PENDING is set without looking for CMD_TERMINATE.          *)
ArmUnchecked ==
  /\ thr = "arm"
  /\ cmd_status' = "PENDING" /\ thr' = "send"
  /\ UNCHANGED <<device, apiVars, mutex, worker_thread_running, idx, ret,
                 cmdVars, addrVars>>

(* CMD_PENDING is set under the mutex unless termination was asked for.    *)
Arm ==
  /\ thr = "arm"
  /\ IF cmd_status # "TERMINATE"
     THEN cmd_status' = "PENDING" /\ thr' = "send"
     ELSE thr' = "exit" /\ UNCHANGED cmd_status
  /\ UNCHANGED <<device, apiVars, mutex, worker_thread_running, idx, ret,
                 cmdVars, addrVars>>

(* The private address bit is set: never the default nor zero.             *)
GetRandomValue == "random"

(* Any of its five ways to fail leaves the record as it was; six zero      *)
(* bytes leave a blank one blank.                                          *)
WriteBDAddrToNvram(a, ok) ==
  /\ nvram' = IF ok /\ ~(a = "zero" /\ nvram = "blank") THEN a ELSE nvram
  /\ nvOk' = (nvOk /\ ok)

(* An address that is nobody's is replaced in an eng build only.           *)
ChosenAddr == IF addr \in Unset /\ device.eng THEN GetRandomValue ELSE addr

(* Variant: an address fetched from the eFUSE is not saved.                *)
SaveAddrIfUnset(writeOk) ==
  /\ addr' = ChosenAddr
  /\ IF addr \in Unset THEN WriteBDAddrToNvram(ChosenAddr, writeOk)
                       ELSE UNCHANGED <<nvram, nvOk>>
  /\ fgGetEFUSE' = FALSE

(* What GORMcmd_HCC_Set_Local_BD_Addr does to the address before it sends  *)
(* it.  writeOk: WriteBDAddrToNvram worked.                                *)
SaveAddr(writeOk) ==
  /\ addr' = ChosenAddr
  /\ IF addr \in Unset \/ fgGetEFUSE
     THEN WriteBDAddrToNvram(ChosenAddr, writeOk)
     ELSE UNCHANGED <<nvram, nvOk>>
  /\ fgGetEFUSE' = FALSE

(* command_func and xmit_cb: the command goes out if the HAL still has its *)
(* channel.                                                                *)
Send(writeOk) ==
  /\ thr = "send"
  /\ thr' = "wait"
  /\ xmit' = IF listening THEN script[idx] ELSE NoCmd
  /\ IF script[idx] = SetAddr
     THEN SaveAddr(writeOk)
     ELSE UNCHANGED <<addr, nvram, nvOk, fgGetEFUSE>>
  /\ UNCHANGED <<device, apiVars, syncVars, idx, ret, acked, ctrl>>

(* Variant: the wait is not repeated after a spurious wakeup.              *)
WaitOnce ==
  /\ thr = "wait"
  /\ \/ cmd_status = "SUCCESS" /\ thr' = "loop" /\ idx' = idx + 1
     \/ cmd_status # "SUCCESS" /\ thr' = "exit" /\ UNCHANGED idx
  /\ cmd_status' = IF cmd_status = "FAIL" THEN "FAIL" ELSE "SUCCESS"
  /\ UNCHANGED <<device, apiVars, mutex, worker_thread_running, ret, cmdVars, addrVars>>

(* Variant: a failed command does not end the script.                      *)
WaitIgnoringFailure ==
  /\ thr = "wait"
  /\ \/ cmd_status \in {"SUCCESS", "FAIL"} /\ thr' = "loop" /\ idx' = idx + 1
     \/ cmd_status = "TERMINATE" /\ thr' = "exit" /\ UNCHANGED idx
  /\ cmd_status' = "SUCCESS"
  /\ UNCHANGED <<device, apiVars, mutex, worker_thread_running, ret, cmdVars, addrVars>>

(* The end of the wait for the answer.  Being told to terminate restores   *)
(* cmd_status "for next time".                                             *)
WaitDone ==
  /\ thr = "wait"
  /\ \/ /\ cmd_status = "SUCCESS"
        /\ thr' = "loop" /\ idx' = idx + 1
        /\ UNCHANGED cmd_status
     \/ /\ cmd_status = "FAIL"
        /\ thr' = "exit"
        /\ UNCHANGED <<idx, cmd_status>>
     \/ /\ cmd_status = "TERMINATE"
        /\ thr' = "exit" /\ cmd_status' = "SUCCESS"
        /\ UNCHANGED idx
  /\ UNCHANGED <<device, apiVars, mutex, worker_thread_running, ret, cmdVars, addrVars>>

(* Variant: the thread leaves without calling fwcfg_cb.                    *)
ThreadExitSilently ==
  /\ thr = "exit"
  /\ ret' = IF device.chip \in Chips /\ idx = End THEN "success" ELSE "fail"
  /\ mutex' = "destroyed"
  /\ thr' = "clear"
  /\ UNCHANGED <<device, apiVars, cmd_status, worker_thread_running, idx, cmdVars, addrVars>>

(* Success is "the script's NULL entry was reached"; the mutex goes.       *)
ThreadExit ==
  /\ thr = "exit"
  /\ ret' = IF device.chip \in Chips /\ idx = End THEN "success" ELSE "fail"
  /\ mutex' = "destroyed"
  /\ thr' = "report"
  /\ UNCHANGED <<device, apiVars, cmd_status, worker_thread_running, idx, cmdVars, addrVars>>

(* fwcfg_cb: OnFirmwareConfigured tells the client.                        *)
Report ==
  /\ thr = "report"
  /\ told' = ret
  /\ thr' = "clear"
  /\ UNCHANGED <<device, api, listening, syncVars, idx, ret, cmdVars, addrVars>>

ClearRunning ==
  /\ thr = "clear"
  /\ worker_thread_running' = FALSE
  /\ thr' = "done"
  /\ UNCHANGED <<device, apiVars, cmd_status, mutex, idx, ret, cmdVars, addrVars>>
-----------------------------------------------------------------------------
(* GORMevt_HCE_Get_Local_BD_Addr copies what the event holds, even if its  *)
(* status is an error.                                                     *)
RetrievedAddr == IF xmit = GetAddr THEN device.efuse ELSE addr

(* The watcher thread runs the completion handler of the command that is   *)
(* out (GORMevt_HCE_Get_Local_BD_Addr, GORMevt_HCE_Common_Complete).       *)
Complete(ok) ==
  /\ listening /\ xmit # NoCmd
  /\ cmd_status' = IF ok THEN "SUCCESS" ELSE "FAIL"
  /\ acked' = IF ok THEN acked \cup {idx} ELSE acked
  /\ addr' = RetrievedAddr
  /\ ctrl' = IF xmit = SetAddr /\ ok THEN addr ELSE ctrl
  /\ xmit' = NoCmd
  /\ UNCHANGED <<device, apiVars, mutex, worker_thread_running, thrVars,
                 fgGetEFUSE, nvram, nvOk>>
-----------------------------------------------------------------------------
ApiNext ==
  \/ \E ok \in BOOLEAN : Open(ok)
  \/ FwCfgFails
  \/ \E readOk, created \in BOOLEAN : FwCfg(readOk, created)
  \/ SetRunning
  \/ StopListening
  \/ Cleanup
  \/ NotifyThreadExit
  \/ Join

ThreadNext ==
  \/ ThreadInit
  \/ \E enabled \in BOOLEAN : LoopTest(enabled)
  \/ Arm
  \/ \E writeOk \in BOOLEAN : Send(writeOk)
  \/ WaitDone
  \/ ThreadExit
  \/ Report
  \/ ClearRunning

Next ==
  \/ ApiNext
  \/ ThreadNext
  \/ \E ok \in BOOLEAN : Complete(ok)
  \/ ServiceDies

Spec == Init /\ [][Next]_vars

(* The init thread and the API thread inside a call are never descheduled  *)
(* for ever.  When the client opens or closes is its own business.         *)
ApiInCall == ApiNext /\ api \in {"fwcfg", "created", "stopped", "notify", "join"}
FairSpec == Spec /\ WF_vars(ThreadNext) /\ WF_vars(ApiInCall)

(* What the controller may or may not do: answer every command.            *)
ControllerLives == WF_vars(\E ok \in BOOLEAN : Complete(ok))
-----------------------------------------------------------------------------
TypeOK ==
  /\ device \in Devices
  /\ api \in ApiPc
  /\ listening \in BOOLEAN
  /\ told \in Results
  /\ cmd_status \in {"SUCCESS", "FAIL", "PENDING", "TERMINATE"}
  /\ mutex \in {"raw", "live", "destroyed"}
  /\ worker_thread_running \in BOOLEAN
  /\ thr \in ThrPc
  /\ idx \in 1..End
  /\ ret \in Results
  /\ xmit \in Commands \cup {NoCmd}
  /\ acked \subseteq 1..End
  /\ addr \in Addr
  /\ fgGetEFUSE \in BOOLEAN
  /\ nvram \in Addr \cup {"blank"}
  /\ nvOk \in BOOLEAN
  /\ ctrl \in Addr
-----------------------------------------------------------------------------
(* Safety.                                                                 *)

(* The init thread's unbounded pthread_cond_wait always has somebody to    *)
(* end it: the answer is still out, or close(), which stopped the watcher  *)
(* and lost it, has the termination yet to ask for.  So close() never      *)
(* joins a thread that nobody will wake, whatever that thread was doing    *)
(* when the watcher was stopped.                                           *)
NoJoinDeadlock ==
  thr = "wait" /\ cmd_status = "PENDING" =>
    api # "join" /\ (xmit # NoCmd \/ api \in {"stopped", "notify"})

(* A completion handler locks btinit_ctrl.mutex, which the init thread     *)
(* creates and destroys: whenever a handler can run, the mutex is live and *)
(* the thread is waiting for exactly this answer.                          *)
CompletionAwaited ==
  listening /\ xmit # NoCmd =>
    mutex = "live" /\ thr = "wait" /\ cmd_status = "PENDING" /\ xmit = script[idx]

(* The address query of the combo scripts and the debug commands may be    *)
(* skipped; every other command must have been answered with status 0.     *)
Covered(j) == \/ j \in acked
              \/ script[j] \in DebugCmds
              \/ j = 1 /\ ~Consys

(* The client is told SUCCESS only if the controller acknowledged, in this *)
(* session, every command of the script that may not be skipped.           *)
SuccessMeansConfigured ==
  told = "success" => device.chip \in Chips /\ \A j \in 1..Len(script) : Covered(j)

(* The init thread never outlives the session that created it: it calls    *)
(* back into VendorInterface and reads btinit, which close() and the next  *)
(* BT_InitDevice tear down.                                                *)
ThreadWithinSession == thr # "none" => api \notin {"off", "fwcfg"}

(* An address of its own can be had where there is a random one (eng) or   *)
(* a combo chip's eFUSE holds one.                                         *)
SetIdx == IF Consys THEN 1 ELSE 2
Obtainable == device.eng \/ (~Consys /\ device.efuse \notin Unset)
OnDisk(a) == nvram = a \/ (a = "zero" /\ nvram = "blank")
Settled(a) == (Obtainable => a \notin Unset) /\ (nvOk => OnDisk(a))

(* After a successful init the controller has an address of its own        *)
(* wherever one can be had, and unless NVRAM access failed its address is  *)
(* on disk for the next session, wherever it came from (NVRAM, eFUSE, a    *)
(* random one, or the default of a user build).                            *)
AddressSettled == told = "success" => Settled(ctrl)

(* A request to terminate is not lost: until the library is unloaded, only *)
(* the init thread takes CMD_TERMINATE back, as it ends its wait and its   *)
(* script; no completion and no new command overwrites it.                 *)
TerminateSticks ==
  [][cmd_status = "TERMINATE" /\ cmd_status' # "TERMINATE" =>
       (thr = "wait" /\ thr' = "exit") \/ api' = "off"]_vars
-----------------------------------------------------------------------------
(* The inductive invariant behind the safety properties.                   *)

(* Between SetRunning and the join a live thread is never hidden from      *)
(* BT_Cleanup: the unlocked flag can be stale only the harmless way.       *)
FlagCoversThread ==
  api \in {"up", "stopped"} /\ thr \notin {"none", "done"} => worker_thread_running

(* While the join is pending, a thread that can still look at cmd_status   *)
(* finds CMD_TERMINATE there.                                              *)
TerminateAsked ==
  api = "join" /\ thr \in {"init", "loop", "arm", "send", "wait"} => cmd_status = "TERMINATE"

(* Nothing is out unless the HAL listens, and it listens only in a session *)
(* that is not being closed.                                               *)
HandshakeInv ==
  /\ listening => api \in {"fwcfg", "created", "up"}
  /\ xmit # NoCmd => listening
  /\ CompletionAwaited
  /\ thr = "send" => cmd_status \in {"PENDING", "TERMINATE"}
  /\ thr = "send" /\ listening => cmd_status = "PENDING"
  /\ api \in {"fwcfg", "created"} \/ (api = "up" /\ thr \notin {"none", "done"}) => listening
  /\ thr = "wait" /\ cmd_status = "PENDING" => xmit # NoCmd \/ api \in {"stopped", "notify"}

(* Where the thread is in its script, and what it has behind it.           *)
ScriptInv ==
  /\ thr \in {"loop", "arm", "send", "wait", "exit"} => mutex = "live"
  /\ thr \in {"loop", "arm", "send", "wait"} => device.chip \in Chips
  /\ thr \in {"arm", "send", "wait"} => idx \in 1..Len(script)
  /\ thr \in {"loop", "arm", "send", "wait", "exit"} => \A j \in 1..(idx - 1) : Covered(j)
  /\ thr = "init" => idx = 1
  /\ thr = "wait" /\ cmd_status = "SUCCESS" => idx \in acked
  /\ thr = "report" /\ ret = "success" =>
       device.chip \in Chips /\ \A j \in 1..Len(script) : Covered(j)

(* Where the address in use comes from, up to the moment the controller    *)
(* has it: before Set_Local_BD_Addr goes out, a combo chip's address is    *)
(* that of its eFUSE if it was asked for, and a usable one else, which is  *)
(* the one on disk; afterwards it is usable if it can be, and on disk if   *)
(* NVRAM worked.                                                           *)

AddrInv ==
  /\ api \in {"off", "fwcfg"} => acked = {}
  /\ thr \in {"init", "loop", "arm", "send"} => acked \subseteq 1..(idx - 1)
  /\ thr = "wait" => acked \subseteq 1..idx
  /\ thr \in {"loop", "arm", "send", "wait"} /\ idx = 1 /\ ~Consys => fgGetEFUSE
  /\ thr \in {"init", "loop", "arm", "send"} /\ idx <= SetIdx =>
       (~fgGetEFUSE /\ addr \notin Unset /\ nvOk => nvram = addr)
  /\ thr = "wait" /\ idx = 1 /\ ~Consys /\ 1 \in acked => addr = device.efuse
  /\ thr \in {"loop", "arm", "send"} /\ idx = 2 /\ ~Consys =>
       IF fgGetEFUSE THEN addr = device.efuse ELSE addr \notin Unset
  /\ thr = "wait" /\ idx = SetIdx => Settled(addr)
  /\ thr \in {"loop", "arm", "send", "wait"} /\ idx > SetIdx => Settled(addr)
  /\ SetIdx \in acked => Settled(ctrl)

IInv ==
  /\ TypeOK
  /\ ThreadWithinSession
  /\ FlagCoversThread
  /\ TerminateAsked
  /\ HandshakeInv
  /\ ScriptInv
  /\ SuccessMeansConfigured
  /\ AddrInv
-----------------------------------------------------------------------------
(* Liveness.                                                               *)

(* A started init thread tells the client, or the client closes (or the    *)
(* service dies), provided the controller answers.                         *)
StartIsAnswered ==
  ControllerLives => (thr = "init" ~> told # "none" \/ api \notin {"created", "up"})
=============================================================================
