------------------------ MODULE VendorInterface_proofs ------------------------
(***************************************************************************)
(* Proofs about the HAL around the vendor library (VendorInterface), for   *)
(* every table of scripts, every set of client opcodes and every number of *)
(* unasked events: the routing of answers, the life time of the            *)
(* packetizer, and that the HAL is the environment FwInit assumes - so all *)
(* that FwInit_proofs shows of the library holds inside the real HAL.      *)
(***************************************************************************)
EXTENDS VendorInterface, TLAPS

(* The library's proofs, read in the HAL.                                  *)
Fw == INSTANCE FwInit_proofs WITH
        Commands <- MtkCommands, listening <- (w # "none"), xmit <- InFlight
-----------------------------------------------------------------------------
(* The inductive invariant.                                                *)

IsCommand(p) == p.by \in {"vendor", "client"}

(* Packets on the wire or in the watcher's hands.                          *)
Held == { up[i] : i \in DOMAIN up } \cup { down[i] : i \in DOMAIN down } \cup {wev}

(* Where Open and Close are, and what they leave alive.                    *)
SessionInv ==
  /\ running => /\ w \notin {"none", "ended"} /\ hci = "live" /\ cl = "none"
                /\ api \in {"fwcfg", "created", "up"}
  /\ api \in {"fwcfg", "created"} => running
  /\ api = "up" /\ cl = "none" /\ ~running =>
       hci = "null" /\ w = "none" /\ told = "fail" /\ thr = "none"
  /\ cl = "join" => api = "up" /\ w # "none" /\ hci = "live"
  /\ cl = "delete" => api = "stopped" /\ w = "none"
  /\ api \notin {"fwcfg", "created", "up"} /\ cl = "none" => hci = "null"
  /\ hci = "null" => w = "none" /\ up = <<>> /\ down = <<>> /\ ~cwait
  /\ w \in {"none", "loop", "select", "ended"} => wev = NoPacket
  /\ w # "none" => api \in {"fwcfg", "created", "up"}

(* What initializationComplete has said, and what the init thread does.    *)
ReportInv ==
  /\ api = "fwcfg" => told = "none"
  /\ thr \notin {"none", "clear", "done"} => told = "none"
  /\ thr = "send" /\ api # "join" => cmd_status = "PENDING"
  /\ xpc # "cb" => thr = "send"

(* One command is out at a time: on its way up, on its way back as an      *)
(* answer, or in the watcher's hands.                                      *)
OneCommandOut ==
  /\ Len(up) <= 1
  /\ \A i \in DOMAIN up : IsCommand(up[i])
  /\ \A i, j \in DOMAIN down : IsCommand(down[i]) /\ IsCommand(down[j]) => i = j
  /\ up # <<>> \/ IsCommand(wev) => \A i \in DOMAIN down : ~IsCommand(down[i])
  /\ up # <<>> => ~IsCommand(wev)

(* The controller's own events leave room for that command's answer.       *)
QueueBound ==
  /\ Len(up) + Len(down) <= MaxDown + 1
  /\ up = <<>> /\ (\A i \in DOMAIN down : ~IsCommand(down[i])) => Len(down) <= MaxDown

(* The handler registered for the command that is sent or out.             *)
Handler == IF Cmd = Lib!GetAddr THEN "get" ELSE "common"

(* Who a packet belongs to.                                                *)
OwnerInv ==
  \A p \in Held :
    /\ p.by = "vendor" => /\ thr = "wait" /\ cmd_status = "PENDING"
                          /\ p.cmd = Cmd /\ p.op = OpCode(Cmd)
                          /\ iop = OpCode(Cmd)
                          /\ w \notin {"call"} => icb = Handler
    /\ p.by = "client" => told = "success" /\ cwait
    /\ p.by = "nobody" => p.op \in Unsolicited \cup {NotComplete}

(* internal_command through its registration, its use and its reset.       *)
RegistrationInv ==
  /\ xpc \in {"opcode", "write"} => icb = Handler
  /\ xpc = "write" => iop = OpCode(Cmd)
  /\ w = "match" => wev.by # "client"
  /\ w \in {"take", "clear", "call"} => wev.by = "vendor"
  /\ w \in {"clear", "call"} => saved = Handler
  /\ w = "call" => icb = "none"
  /\ w = "client" => wev.by # "vendor"
  /\ w = "match" => icb # "none"
  /\ iop = Nop /\ icb # "none" => xpc = "opcode"

(* No handler stays registered behind a script that has been answered.     *)
ResetInv ==
  /\ thr = "wait" /\ cmd_status = "SUCCESS" => icb = "none"
  /\ thr \in {"loop", "arm"} /\ acked # {} => icb = "none"
  /\ thr = "exit" /\ idx = Lib!End /\ acked # {} => icb = "none"
  /\ thr = "report" /\ ret = "success" => icb = "none"
  /\ told = "success" => icb = "none"

HalIInv ==
  /\ HalTypeOK
  /\ SessionInv
  /\ ReportInv
  /\ OneCommandOut
  /\ QueueBound
  /\ OwnerInv
  /\ RegistrationInv
  /\ ResetInv

(* No command is out.                                                      *)
NothingOut == /\ up = <<>> /\ ~IsCommand(wev)
              /\ \A i \in DOMAIN down : ~IsCommand(down[i])

(* A session in which a Nop was taken for the answer to its first command: *)
(* the init thread, which has not sent it yet or waits for it, has failed  *)
(* or will, and no handler is registered any more.                         *)
MixedCore ==
  /\ device \in Lib!Devices /\ addr \in Lib!Addr /\ nvram \in Lib!Addr \cup {"blank"}
  /\ api \notin {"off", "fwcfg"} /\ told # "success"
  /\ thr \in {"send", "wait", "exit", "report", "clear", "done"}
  /\ thr \in {"send", "wait"} =>
       /\ idx \in 1..Len(script) /\ mutex = "live"
       /\ w \in {"take", "clear", "call"} \/ cmd_status \in {"FAIL", "TERMINATE"}
  /\ thr = "send" => xpc # "cb" /\ NothingOut
  /\ xpc # "cb" => thr = "send"
  /\ thr = "exit" => idx \in 1..Len(script)
  /\ thr = "report" => ret = "fail"
  /\ w \in {"take", "clear", "call"} =>
       thr \in {"send", "wait"} /\ cmd_status = "PENDING" /\ wev.op = Nop
  /\ w \notin {"take", "clear"} => icb = "none"
  /\ w # "match"

MixedInv == HalTypeOK /\ SessionInv /\ OneCommandOut /\ QueueBound /\ MixedCore

CleanInv == ~mixed /\ Lib!IInv /\ HalIInv

IInv == CleanInv \/ (mixed /\ MixedInv)
-----------------------------------------------------------------------------
(* What the library's own proofs give.                                     *)

(* The library's invariant and steps are the same through both instances.  *)
LEMMA SameLibrary ==
  /\ Fw!IInv <=> Lib!IInv
  /\ Fw!IInv' <=> Lib!IInv'
  /\ Fw!Next <=> Lib!Next
  /\ Fw!vars = Lib!vars /\ Fw!vars' = Lib!vars'
  /\ Fw!Init <=> Lib!Init
<1>1. Fw!IInv <=> Lib!IInv
  BY Zenon
     DEF Fw!NoScript, Lib!NoScript, Fw!NoCmd, Lib!NoCmd, Fw!GetAddr, Lib!GetAddr,
         Fw!SetAddr, Lib!SetAddr, Fw!DebugCmds, Lib!DebugCmds, Fw!Unset, Lib!Unset,
         Fw!Addr, Lib!Addr, Fw!Results, Lib!Results, Fw!ApiPc, Lib!ApiPc,
         Fw!ThrPc, Lib!ThrPc, Fw!script, Lib!script, Fw!End, Lib!End,
         Fw!Consys, Lib!Consys, Fw!apiVars, Lib!apiVars, Fw!syncVars, Lib!syncVars,
         Fw!thrVars, Lib!thrVars, Fw!cmdVars, Lib!cmdVars, Fw!addrVars, Lib!addrVars,
         Fw!IInv, Lib!IInv, Fw!TypeOK, Lib!TypeOK, Fw!ThreadWithinSession, Lib!ThreadWithinSession,
         Fw!FlagCoversThread, Lib!FlagCoversThread, Fw!TerminateAsked, Lib!TerminateAsked, Fw!HandshakeInv, Lib!HandshakeInv,
         Fw!CompletionAwaited, Lib!CompletionAwaited, Fw!ScriptInv, Lib!ScriptInv, Fw!SuccessMeansConfigured, Lib!SuccessMeansConfigured,
         Fw!Covered, Lib!Covered, Fw!AddrInv, Lib!AddrInv, Fw!SetIdx, Lib!SetIdx,
         Fw!Obtainable, Lib!Obtainable, Fw!OnDisk, Lib!OnDisk,
         Fw!Settled, Lib!Settled, Fw!Devices, Lib!Devices
<1>2. Fw!IInv' <=> Lib!IInv'
  BY Zenon
     DEF Fw!NoScript, Lib!NoScript, Fw!NoCmd, Lib!NoCmd, Fw!GetAddr, Lib!GetAddr,
         Fw!SetAddr, Lib!SetAddr, Fw!DebugCmds, Lib!DebugCmds, Fw!Unset, Lib!Unset,
         Fw!Addr, Lib!Addr, Fw!Results, Lib!Results, Fw!ApiPc, Lib!ApiPc,
         Fw!ThrPc, Lib!ThrPc, Fw!script, Lib!script, Fw!End, Lib!End,
         Fw!Consys, Lib!Consys, Fw!apiVars, Lib!apiVars, Fw!syncVars, Lib!syncVars,
         Fw!thrVars, Lib!thrVars, Fw!cmdVars, Lib!cmdVars, Fw!addrVars, Lib!addrVars,
         Fw!IInv, Lib!IInv, Fw!TypeOK, Lib!TypeOK, Fw!ThreadWithinSession, Lib!ThreadWithinSession,
         Fw!FlagCoversThread, Lib!FlagCoversThread, Fw!TerminateAsked, Lib!TerminateAsked, Fw!HandshakeInv, Lib!HandshakeInv,
         Fw!CompletionAwaited, Lib!CompletionAwaited, Fw!ScriptInv, Lib!ScriptInv, Fw!SuccessMeansConfigured, Lib!SuccessMeansConfigured,
         Fw!Covered, Lib!Covered, Fw!AddrInv, Lib!AddrInv, Fw!SetIdx, Lib!SetIdx,
         Fw!Obtainable, Lib!Obtainable, Fw!OnDisk, Lib!OnDisk,
         Fw!Settled, Lib!Settled, Fw!Devices, Lib!Devices
<1>3. Fw!Next <=> Lib!Next
  BY Zenon
     DEF Fw!NoScript, Lib!NoScript, Fw!NoCmd, Lib!NoCmd, Fw!GetAddr, Lib!GetAddr,
         Fw!SetAddr, Lib!SetAddr, Fw!DebugCmds, Lib!DebugCmds, Fw!Unset, Lib!Unset,
         Fw!Addr, Lib!Addr, Fw!Results, Lib!Results, Fw!ApiPc, Lib!ApiPc,
         Fw!ThrPc, Lib!ThrPc, Fw!script, Lib!script, Fw!End, Lib!End,
         Fw!Consys, Lib!Consys, Fw!apiVars, Lib!apiVars, Fw!syncVars, Lib!syncVars,
         Fw!thrVars, Lib!thrVars, Fw!cmdVars, Lib!cmdVars, Fw!addrVars, Lib!addrVars,
         Fw!Next, Lib!Next, Fw!ApiNext, Lib!ApiNext, Fw!ThreadNext, Lib!ThreadNext,
         Fw!ServiceDies, Lib!ServiceDies, Fw!Open, Lib!Open, Fw!FwCfgFails, Lib!FwCfgFails,
         Fw!FwCfg, Lib!FwCfg, Fw!SetRunning, Lib!SetRunning, Fw!StopListening, Lib!StopListening,
         Fw!Cleanup, Lib!Cleanup, Fw!NotifyThreadExit, Lib!NotifyThreadExit, Fw!Join, Lib!Join,
         Fw!ThreadInit, Lib!ThreadInit, Fw!LoopTest, Lib!LoopTest, Fw!Arm, Lib!Arm,
         Fw!GetRandomValue, Lib!GetRandomValue, Fw!WriteBDAddrToNvram, Lib!WriteBDAddrToNvram, Fw!SaveAddr, Lib!SaveAddr,
         Fw!Send, Lib!Send, Fw!WaitDone, Lib!WaitDone, Fw!ThreadExit, Lib!ThreadExit,
         Fw!Report, Lib!Report, Fw!ClearRunning, Lib!ClearRunning, Fw!RetrievedAddr, Lib!RetrievedAddr,
         Fw!Complete, Lib!Complete, Fw!vars, Lib!vars, Fw!Unload, Lib!Unload,
         Fw!SessionOver, Lib!SessionOver, Fw!ChosenAddr, Lib!ChosenAddr
<1>4. Fw!vars = Lib!vars /\ Fw!vars' = Lib!vars'
  BY Zenon
     DEF Fw!apiVars, Lib!apiVars, Fw!syncVars, Lib!syncVars, Fw!thrVars, Lib!thrVars,
         Fw!cmdVars, Lib!cmdVars, Fw!addrVars, Lib!addrVars, Fw!vars, Lib!vars
<1>5. Fw!Init <=> Lib!Init
  BY Zenon DEF Fw!NoScript, Lib!NoScript, Fw!NoCmd, Lib!NoCmd, Fw!Unset, Lib!Unset,
         Fw!Devices, Lib!Devices, Fw!Init, Lib!Init
<1> QED
  BY <1>1, <1>2, <1>3, <1>4, <1>5

(* The scripts are as the library's proofs assume them.                    *)
LEMMA ScriptsFit == Fw!ScriptsOK
BY ScriptsAssumption
   DEF Fw!ScriptsOK, Lib!ScriptsOK, Fw!NoScript, Lib!NoScript, Fw!NoCmd, Lib!NoCmd,
         Fw!GetAddr, Lib!GetAddr, Fw!SetAddr, Lib!SetAddr

(* The library keeps its invariant as long as it takes its own steps.      *)
LEMMA LibraryKeeps ==
  /\ Lib!Init => Lib!IInv
  /\ Lib!IInv /\ [Lib!Next]_(Lib!vars) => Lib!IInv'
<1>1. Fw!Init => Fw!IInv
  BY ScriptsFit, Fw!InitInv
<1>2. Fw!IInv /\ [Fw!Next]_(Fw!vars) => Fw!IInv'
  BY ScriptsFit, Fw!InvStep
<1> QED
  BY <1>1, <1>2, SameLibrary

(* What the HAL needs to know of the library.                              *)
LEMMA LibraryFacts ==
  ASSUME Lib!IInv
  PROVE  /\ script \in Seq(MtkCommands) /\ Len(script) \in Nat /\ Lib!End = Len(script) + 1
         /\ idx \in 1..Lib!End /\ cmd_status \in {"SUCCESS", "FAIL", "PENDING", "TERMINATE"}
         /\ thr # "none" => api \notin {"off", "fwcfg"}
         /\ w # "none" => api \in {"fwcfg", "created", "up"}
         /\ thr = "send" => cmd_status \in {"PENDING", "TERMINATE"}
         /\ thr \in {"arm", "send", "wait"} =>
              idx \in 1..Len(script) /\ Cmd \in MtkCommands /\ Cmd # "none"
         /\ thr = "init" => acked = {}
         /\ thr = "exit" /\ idx = Lib!End /\ device.chip \in Chips => acked # {}
<1>1. script \in Seq(MtkCommands) /\ \A c \in MtkCommands : c # "none"
  BY ScriptsAssumption DEF Lib!ScriptsOK, Lib!NoCmd, script, Lib!script
<1>2. /\ Len(script) \in Nat /\ Lib!End = Len(script) + 1
      /\ \A j \in 1..Len(script) : script[j] \in MtkCommands
  BY <1>1 DEF Lib!End, script
<1>3. /\ idx \in 1..Lib!End /\ cmd_status \in {"SUCCESS", "FAIL", "PENDING", "TERMINATE"}
      /\ thr # "none" => api \notin {"off", "fwcfg"}
      /\ w # "none" => api \in {"fwcfg", "created", "up"}
      /\ thr = "send" => cmd_status \in {"PENDING", "TERMINATE"}
      /\ thr \in {"arm", "send", "wait"} => idx \in 1..Len(script)
  BY DEF Lib!IInv, Lib!TypeOK, Lib!ThreadWithinSession, Lib!HandshakeInv, Lib!ScriptInv, script
<1>4. thr = "init" => acked = {}
  BY DEF Lib!IInv, Lib!AddrInv, Lib!ScriptInv
<1>5. ASSUME thr = "exit", idx = Lib!End, device.chip \in Chips
      PROVE  acked # {}
  <2>1. \A j \in 1..Len(script) : Lib!Covered(j)
    BY <1>2, <1>5 DEF Lib!IInv, Lib!ScriptInv
  <2>2. Lib!SetIdx \in 1..Len(script) /\ script[Lib!SetIdx] = Lib!SetAddr
    BY <1>2, <1>5, ScriptsAssumption
       DEF Lib!ScriptsOK, script, Lib!script, Lib!SetIdx, Lib!Consys
  <2> QED
    BY <2>1, <2>2 DEF Lib!Covered, Lib!SetIdx, Lib!DebugCmds, Lib!SetAddr, script
<1> QED
  BY <1>1, <1>2, <1>3, <1>4, <1>5 DEF Cmd

(* No command has the opcode of an event that is no Command Complete, or   *)
(* of a Nop.                                                               *)
LEMMA OpCodesReal == \A c \in MtkCommands : OpCode(c) # NotComplete /\ OpCode(c) # Nop
BY DEF MtkCommands, OpCode, FrameOf, Frame, NotComplete, Nop,
       Get_Local_BD_Addr, Set_Local_BD_Addr, Set_LinkKeyType, Set_UnitKey, Set_Encryption,
       Set_PinCodeType, Set_Voice, Set_PCM, Set_Radio, Set_TX_Power_Offset,
       Set_Sleep_Timeout, Coex_Performance_Adjust, Set_BT_FTR, Set_OSC_Info,
       Set_LPO_Info, Set_PTA, Set_BLEPTA, Set_Internal_PTA_1, Set_Internal_PTA_2,
       Set_RF_Reg_100, RESET, Set_FW_SysLog, Set_SSP_Debug_Mode

(* The device and the script in use never change.                          *)
LEMMA ScriptFixed ==
  ASSUME [Next]_vars
  PROVE  device' = device /\ script' = script /\ Lib!End' = Lib!End
<1>1. device' = device
  BY DEF Next, Configure, LibCleanup, CloseNext, Advance, ThreadNext, WatcherNext,
         ControllerAnswers, vars, libVars, halVars, Die, Lib!FwCfgFails, Lib!FwCfg,
         Lib!SetRunning, Lib!Cleanup, Lib!NotifyThreadExit, Lib!Join, Lib!SessionOver,
         Lib!ThreadInit, Lib!LoopTest, Lib!Arm, Lib!WaitDone, Lib!ThreadExit, Lib!Report,
         Lib!ClearRunning, Open, CloseStop, CloseJoin, CloseDelete, RegisterCb,
         RegisterOpcode, Transmit, TransmitToNull, TestRunning, Select, TestCb, Match,
         TakeCb, ClearCb, RunHandler, ToClient, ClientSend, Answer, SendEvent,
         ServiceDies
<1> QED
  BY <1>1 DEF script, Lib!End, Lib!script

(* The members of a queue after an append, and after its head was taken.   *)
LEMMA QueueSets ==
  ASSUME NEW S, NEW s \in Seq(S)
  PROVE  /\ \A e \in S : { Append(s, e)[i] : i \in DOMAIN Append(s, e) }
                           = { s[i] : i \in DOMAIN s } \cup {e}
         /\ s # <<>> => { s[i] : i \in DOMAIN s }
                           = {Head(s)} \cup { Tail(s)[i] : i \in DOMAIN Tail(s) }
<1>1. ASSUME NEW e \in S
      PROVE  { Append(s, e)[i] : i \in DOMAIN Append(s, e) } = { s[i] : i \in DOMAIN s } \cup {e}
  <2>1. DOMAIN Append(s, e) = DOMAIN s \cup {Len(s) + 1} /\ DOMAIN s = 1..Len(s)
    OBVIOUS
  <2>2. Append(s, e)[Len(s) + 1] = e /\ \A i \in DOMAIN s : Append(s, e)[i] = s[i]
    OBVIOUS
  <2> QED
    BY <2>1, <2>2
<1>2. ASSUME s # <<>>
      PROVE  { s[i] : i \in DOMAIN s } = {Head(s)} \cup { Tail(s)[i] : i \in DOMAIN Tail(s) }
  <2>1. Len(s) \in Nat /\ Len(s) >= 1 /\ DOMAIN s = 1..Len(s) /\ DOMAIN Tail(s) = 1..(Len(s) - 1)
    BY <1>2
  <2>2. Head(s) = s[1] /\ \A i \in DOMAIN Tail(s) : Tail(s)[i] = s[i + 1]
    BY <1>2
  <2>3. \A i \in DOMAIN s : i # 1 => i - 1 \in DOMAIN Tail(s) /\ s[i] = Tail(s)[i - 1]
    BY <2>1, <2>2
  <2>4. \A i \in DOMAIN Tail(s) : i + 1 \in DOMAIN s
    BY <2>1
  <2> QED
    BY <2>1, <2>2, <2>3, <2>4
<1> QED
  BY <1>1, <1>2

(* The length, the places and the entries of a queue after an append.      *)
LEMMA AppendFacts ==
  ASSUME NEW S, NEW s \in Seq(S), NEW e \in S
  PROVE  /\ Append(s, e) \in Seq(S) /\ Len(Append(s, e)) = Len(s) + 1 /\ Len(s) \in Nat
         /\ DOMAIN s = 1..Len(s) /\ DOMAIN Append(s, e) = 1..(Len(s) + 1)
         /\ Append(s, e)[Len(s) + 1] = e
         /\ \A i \in DOMAIN s : Append(s, e)[i] = s[i]
OBVIOUS

(* A queue's entries are its head and those of its tail.                   *)
LEMMA TailFacts ==
  ASSUME NEW S, NEW s \in Seq(S), s # <<>>
  PROVE  /\ Head(s) \in S /\ Tail(s) \in Seq(S)
         /\ \A i \in DOMAIN s :
              s[i] = Head(s) \/ \E j \in DOMAIN Tail(s) : s[i] = Tail(s)[j]
<1>1. /\ Head(s) = s[1] /\ Head(s) \in S /\ Tail(s) \in Seq(S)
      /\ DOMAIN s = 1..Len(s) /\ DOMAIN Tail(s) = 1..(Len(s) - 1) /\ Len(s) \in Nat
  OBVIOUS
<1>2. \A i \in DOMAIN s : i # 1 => i - 1 \in DOMAIN Tail(s) /\ s[i] = Tail(s)[i - 1]
  BY <1>1
<1> QED
  BY <1>1, <1>2

(* While the init thread does not wait and the stack has no command out,   *)
(* no command is out at all.                                               *)
LEMMA NoCommandOut ==
  ASSUME HalIInv, thr # "wait", told # "success" \/ ~cwait
  PROVE  NothingOut
<1>1. \A p \in Held : ~IsCommand(p)
  BY DEF HalIInv, OwnerInv, IsCommand
<1>2. wev \in Held /\ (\A i \in DOMAIN up : up[i] \in Held) /\ (\A i \in DOMAIN down : down[i] \in Held)
  BY DEF Held
<1>3. up \in Seq(Packets) /\ \A i \in DOMAIN up : IsCommand(up[i])
  BY DEF HalIInv, HalTypeOK, OneCommandOut
<1>4. DOMAIN up = {}
  BY <1>1, <1>2, <1>3
<1>5. up = <<>>
  BY <1>3, <1>4
<1> QED
  BY <1>1, <1>2, <1>5 DEF NothingOut

WireInv == /\ up \in Seq(Packets) /\ down \in Seq(Packets) /\ wev \in Packets
           /\ OneCommandOut
           /\ QueueBound

(* What holds whether a Nop was taken for an answer or not.                *)
LEMMA BaseFacts ==
  ASSUME IInv
  PROVE  /\ HalTypeOK /\ SessionInv /\ WireInv
         /\ thr # "none" => api \notin {"off", "fwcfg"}
         /\ thr = "send" => Cmd \in MtkCommands /\ Cmd # "none"
         /\ xpc # "cb" => thr = "send"
         /\ thr = "send" \/ (told = "success" /\ ~cwait) => NothingOut
         /\ mixed \/ ReportInv
<1>1. CASE CleanInv
  <2>1. told = "success" => thr # "wait"
    BY <1>1 DEF CleanInv, HalIInv, ReportInv
  <2>2. thr = "send" \/ (told = "success" /\ ~cwait) => NothingOut
    BY <1>1, <2>1, NoCommandOut DEF CleanInv, HalIInv, ReportInv
  <2> QED
    BY <1>1, <2>2, LibraryFacts DEF CleanInv, HalIInv, HalTypeOK, ReportInv, WireInv
<1>2. CASE mixed /\ MixedInv
  <2>1. script \in Seq(MtkCommands) /\ \A c \in MtkCommands : c # "none"
    BY ScriptsAssumption DEF Lib!ScriptsOK, Lib!NoCmd, script, Lib!script
  <2>2. thr = "send" => Cmd \in MtkCommands
    BY <1>2, <2>1 DEF MixedInv, MixedCore, Cmd
  <2> QED
    BY <1>2, <2>1, <2>2 DEF MixedInv, MixedCore, HalTypeOK, WireInv
<1> QED
  BY <1>1, <1>2 DEF IInv

(* Every step keeps one command out at a time, and the queues bounded.     *)
LEMMA WireStep == IInv /\ [Next]_vars => WireInv'
<1> SUFFICES ASSUME IInv, [Next]_vars PROVE WireInv'
  OBVIOUS
<1>0. WireInv /\ NoPacket \in Packets /\ ~IsCommand(NoPacket) /\ MaxDown \in Nat
  BY InterfaceAssumption, BaseFacts
     DEF WireInv, NoPacket, Packet, Packets, IsCommand
<1>a. Len(down) \in Nat /\ DOMAIN down = 1..Len(down) /\ Len(up) \in Nat /\ DOMAIN up = 1..Len(up)
  BY <1>0 DEF WireInv
<1>b. <<>> \in Seq(Packets) /\ Len(<<>>) = 0 /\ DOMAIN <<>> = {}
  OBVIOUS
<1> USE <1>0, <1>a, <1>b DEF WireInv, OneCommandOut, QueueBound,
        libVars, halVars, watchVars, uartVars
<1>1. CASE UNCHANGED halVars
  BY <1>1
<1>2. ASSUME NEW ok \in BOOLEAN, Open(ok)
      PROVE  WireInv'
  BY <1>2 DEF Open
<1>3. CASE CloseStop
  BY <1>3 DEF CloseStop
<1>4. CASE CloseJoin
  BY <1>4 DEF CloseJoin
<1>5. CASE CloseDelete
  BY <1>5 DEF CloseDelete
<1>6. CASE RegisterCb
  BY <1>6 DEF RegisterCb
<1>7. CASE RegisterOpcode
  BY <1>7 DEF RegisterOpcode
<1>8. ASSUME NEW writeOk \in BOOLEAN, Transmit(writeOk)
      PROVE  WireInv'
  <2>1. NothingOut
    BY <1>8, BaseFacts DEF Transmit
  <2>2. up' = <<Packet("vendor", Cmd, OpCode(Cmd), TRUE)>> /\ UNCHANGED <<down, wev>>
    BY <1>8, <2>1 DEF Transmit, NothingOut
  <2>3. Packet("vendor", Cmd, OpCode(Cmd), TRUE) \in Packets
    BY <1>8, BaseFacts DEF Transmit, Packet, Packets
  <2>4. up' \in Seq(Packets) /\ Len(up') = 1 /\ DOMAIN up' = {1} /\ IsCommand(up'[1])
    BY <2>2, <2>3 DEF IsCommand, Packet
  <2>5. \A i \in DOMAIN down' : ~IsCommand(down'[i])
    BY <2>1, <2>2 DEF NothingOut
  <2>6. ~IsCommand(wev') /\ wev' \in Packets /\ down' \in Seq(Packets)
    BY <2>1, <2>2 DEF NothingOut
  <2>7. Len(down') <= MaxDown /\ Len(down') \in Nat
    BY <2>1, <2>2 DEF NothingOut
  <2>8. OneCommandOut'
    BY <2>4, <2>5, <2>6
  <2>9. QueueBound'
    BY <2>4, <2>7
  <2> QED
    BY <2>4, <2>6, <2>8, <2>9
<1>9. CASE TransmitToNull
  BY <1>9 DEF TransmitToNull, Die
<1>10. CASE TestRunning
  BY <1>10 DEF TestRunning
<1>11. CASE Select
  <2>1. CASE UNCHANGED <<up, down, wev>>
    BY <2>1
  <2>2. CASE down # <<>> /\ wev' = Head(down) /\ down' = Tail(down) /\ up' = up
    <3>1. ~IsCommand(wev)
      BY <1>11, BaseFacts DEF SessionInv, Select
    <3>2. /\ down' \in Seq(Packets) /\ Len(down') = Len(down) - 1 /\ DOMAIN down' = 1..(Len(down) - 1)
          /\ wev' = down[1] /\ wev' \in Packets /\ 1 \in DOMAIN down
          /\ \A i \in DOMAIN down' : i + 1 \in DOMAIN down /\ i + 1 # 1 /\ down'[i] = down[i + 1]
      BY <2>2
    <3>3. OneCommandOut'
      BY <2>2, <3>1, <3>2
    <3>4. QueueBound'
      BY <2>2, <3>1, <3>2
    <3> QED
      BY <2>2, <3>2, <3>3, <3>4
  <2> QED
    BY <1>11, <2>1, <2>2 DEF Select
<1>12. CASE TestCb
  BY <1>12 DEF TestCb
<1>13. CASE Match
  BY <1>13 DEF Match
<1>14. CASE TakeCb
  BY <1>14 DEF TakeCb
<1>15. CASE ClearCb
  BY <1>15 DEF ClearCb
<1>16. CASE RunHandler
  BY <1>16 DEF RunHandler
<1>17. CASE ToClient
  BY <1>17 DEF ToClient
<1>18. ASSUME NEW op \in ClientOps, ClientSend(op)
      PROVE  WireInv'
  <2>1. NothingOut
    BY <1>18, BaseFacts DEF ClientSend
  <2>2. up' = <<Packet("client", "none", op, TRUE)>> /\ UNCHANGED <<down, wev>>
    BY <1>18, <2>1 DEF ClientSend, NothingOut, watchVars
  <2>3. Packet("client", "none", op, TRUE) \in Packets
    BY <1>18 DEF Packet, Packets
  <2>4. up' \in Seq(Packets) /\ Len(up') = 1 /\ DOMAIN up' = {1} /\ IsCommand(up'[1])
    BY <2>2, <2>3 DEF IsCommand, Packet
  <2>5. \A i \in DOMAIN down' : ~IsCommand(down'[i])
    BY <2>1, <2>2 DEF NothingOut
  <2>6. ~IsCommand(wev') /\ wev' \in Packets /\ down' \in Seq(Packets)
    BY <2>1, <2>2 DEF NothingOut
  <2>7. Len(down') <= MaxDown /\ Len(down') \in Nat
    BY <2>1, <2>2 DEF NothingOut
  <2>8. OneCommandOut'
    BY <2>4, <2>5, <2>6
  <2>9. QueueBound'
    BY <2>4, <2>7
  <2> QED
    BY <2>4, <2>6, <2>8, <2>9
<1>19. ASSUME NEW ok \in BOOLEAN, Answer(ok)
      PROVE  WireInv'
  <2> DEFINE p == [Head(up) EXCEPT !.ok = ok]
  <2>1. /\ Len(up) = 1 /\ up[1] = Head(up) /\ 1 \in DOMAIN up /\ Head(up) \in Packets
        /\ IsCommand(Head(up))
    BY <1>19 DEF Answer
  <2>2. p \in Packets /\ IsCommand(p)
    BY <2>1 DEF Packets, IsCommand
  <2>3. up' = <<>> /\ down' = Append(down, p) /\ wev' = wev
    BY <1>19, <2>1 DEF Answer
  <2>4. /\ down' \in Seq(Packets) /\ Len(down') = Len(down) + 1 /\ DOMAIN down' = 1..(Len(down) + 1)
        /\ down'[Len(down) + 1] = p /\ \A i \in DOMAIN down : down'[i] = down[i]
    BY <2>2, <2>3, AppendFacts
  <2>5. \A i \in DOMAIN down' : IsCommand(down'[i]) => i = Len(down) + 1
    <3>1. \A i \in DOMAIN down' : i # Len(down) + 1 => i \in DOMAIN down
      BY <2>4
    <3>2. \A i \in DOMAIN down : ~IsCommand(down[i])
      BY <2>1
    <3> QED
      BY <2>4, <3>1, <3>2
  <2>6. OneCommandOut'
    <3>1. up' = <<>> /\ DOMAIN up' = {} /\ Len(up') = 0
      BY <2>3
    <3>2. \A i, j \in DOMAIN down' : IsCommand(down'[i]) /\ IsCommand(down'[j]) => i = j
      BY <2>5
    <3>3. up # <<>> /\ ~IsCommand(wev) /\ wev' = wev
      BY <2>1, <2>3
    <3> QED
      BY <3>1, <3>2, <3>3 DEF IsCommand
  <2>7. QueueBound'
    <3>1. Len(down) + 1 \in DOMAIN down' /\ IsCommand(down'[Len(down) + 1])
      BY <2>2, <2>4
    <3> QED
      BY <2>1, <2>3, <2>4, <3>1
  <2> QED
    BY <2>3, <2>4, <2>6, <2>7
<1>20. ASSUME NEW op \in Unsolicited, SendEvent(op)
      PROVE  WireInv'
  <2> DEFINE p == Packet("nobody", "none", op, TRUE)
  <2>1. p \in Packets /\ ~IsCommand(p)
    BY <1>20 DEF Packet, Packets, IsCommand
  <2>2. UNCHANGED <<up, wev>> /\ down' = Append(down, p) /\ Len(up) + Len(down) < MaxDown
    BY <1>20 DEF SendEvent
  <2> HIDE DEF p
  <2>3. /\ down' \in Seq(Packets) /\ Len(down') = Len(down) + 1 /\ DOMAIN down' = 1..(Len(down) + 1)
        /\ down'[Len(down) + 1] = p /\ \A i \in DOMAIN down : down'[i] = down[i]
    BY <2>1, <2>2, AppendFacts
  <2>4. \A i \in DOMAIN down' : IsCommand(down'[i]) => i \in DOMAIN down /\ IsCommand(down[i])
    <3>1. \A i \in DOMAIN down' : i # Len(down) + 1 => i \in DOMAIN down
      BY <2>3
    <3> QED
      BY <2>1, <2>3, <3>1
  <2>5. OneCommandOut'
    BY <2>2, <2>4
  <2>6. QueueBound'
    BY <2>2, <2>3
  <2> QED
    BY <2>2, <2>3, <2>5, <2>6
<1>21. CASE ServiceDies
  BY <1>21 DEF ServiceDies, Die
<1>22. CASE UNCHANGED vars
  BY <1>22 DEF vars
<1> QED
  BY <1>1, <1>2, <1>3, <1>4, <1>5, <1>6, <1>7, <1>8, <1>9, <1>10, <1>11, <1>12, <1>13,
     <1>14, <1>15, <1>16, <1>17, <1>18, <1>19, <1>20, <1>21, <1>22
     DEF Next, Configure, LibCleanup, CloseNext, Advance, ThreadNext, WatcherNext,
         ControllerAnswers

(* The HAL's variables that are no packets.                                *)
SimpleTypes ==
  /\ icb \in {"none", "get", "common"}
  /\ iop \in { OpCode(c) : c \in MtkCommands } \cup {Nop}
  /\ xpc \in {"cb", "opcode", "write"}
  /\ hci \in {"null", "live"}
  /\ cl \in {"none", "join", "delete"}
  /\ running \in BOOLEAN
  /\ w \in WatcherPc
  /\ saved \in {"none", "get", "common"}
  /\ cwait \in BOOLEAN

(* Every step keeps the HAL's variables in their types.                    *)
LEMMA HalTypeStep == IInv /\ [Next]_vars => HalTypeOK'
<1> SUFFICES ASSUME IInv, [Next]_vars PROVE HalTypeOK'
  OBVIOUS
<1>0. HalTypeOK /\ NoPacket \in Packets /\ MaxDown \in Nat
  BY InterfaceAssumption, BaseFacts DEF NoPacket, Packet, Packets
<1>a. /\ up' \in Seq(Packets) /\ down' \in Seq(Packets) /\ wev' \in Packets
      /\ Len(up') <= 1 /\ Len(down') <= MaxDown + 1
  <2>1. WireInv'
    BY WireStep
  <2>2. Len(up') \in Nat /\ Len(down') \in Nat
    BY <2>1 DEF WireInv
  <2> QED
    BY <2>1, <2>2, <1>0 DEF WireInv, OneCommandOut, QueueBound
<1>b. thr = "send" => OpCode(Cmd) \in { OpCode(c) : c \in MtkCommands }
  BY BaseFacts
<1>c. SimpleTypes'
  <2> USE <1>0, <1>b DEF HalTypeOK, SimpleTypes, WatcherPc, libVars, halVars, watchVars, uartVars
  <2>1. CASE UNCHANGED halVars
    BY <2>1
  <2>2. ASSUME NEW ok \in BOOLEAN, Open(ok)
        PROVE  SimpleTypes'
    <3>1. CASE ok
      BY <2>2, <3>1 DEF Open
    <3>2. CASE ~ok
      BY <2>2, <3>2 DEF Open
    <3> QED
      BY <3>1, <3>2
  <2>3. CASE CloseStop
    <3>1. /\ running' = FALSE /\ cl' \in {"join", "delete"} /\ api' \in {api, "stopped"}
          /\ UNCHANGED <<xpc, hci, w, saved, cwait, told, icb, iop>>
      BY <2>3 DEF CloseStop
    <3>2. /\ icb \in {"none", "get", "common"} /\ xpc \in {"cb", "opcode", "write"}
          /\ iop \in { OpCode(c) : c \in MtkCommands } \cup {Nop}
          /\ hci \in {"null", "live"} /\ w \in WatcherPc
          /\ saved \in {"none", "get", "common"} /\ cwait \in BOOLEAN
      BY <1>0 DEF HalTypeOK
    <3>3. /\ cl' \in {"none", "join", "delete"} /\ running' \in BOOLEAN
          /\ UNCHANGED <<xpc, hci, w, saved, cwait, icb, iop>>
      BY <3>1
    <3> HIDE <1>0, <1>b
    <3> QED
      BY <3>2, <3>3
  <2>4. CASE CloseJoin
    BY <2>4 DEF CloseJoin
  <2>5. CASE CloseDelete
    BY <2>5 DEF CloseDelete
  <2>6. CASE RegisterCb
    BY <2>6 DEF RegisterCb
  <2>7. CASE RegisterOpcode
    BY <2>7 DEF RegisterOpcode
  <2>8. ASSUME NEW writeOk \in BOOLEAN, Transmit(writeOk)
        PROVE  SimpleTypes'
    BY <2>8 DEF Transmit
  <2>9. CASE TransmitToNull
    BY <2>9 DEF TransmitToNull, Die
  <2>10. CASE TestRunning
    BY <2>10 DEF TestRunning
  <2>11. CASE Select
    BY <2>11 DEF Select
  <2>12. CASE TestCb
    BY <2>12 DEF TestCb
  <2>13. CASE Match
    BY <2>13 DEF Match
  <2>14. CASE TakeCb
    BY <2>14 DEF TakeCb
  <2>15. CASE ClearCb
    BY <2>15 DEF ClearCb
  <2>16. CASE RunHandler
    BY <2>16 DEF RunHandler
  <2>17. CASE ToClient
    BY <2>17 DEF ToClient
  <2>18. ASSUME NEW op \in ClientOps, ClientSend(op)
        PROVE  SimpleTypes'
    BY <2>18 DEF ClientSend
  <2>19. ASSUME NEW ok \in BOOLEAN, Answer(ok)
        PROVE  SimpleTypes'
    BY <2>19 DEF Answer
  <2>20. ASSUME NEW op \in Unsolicited, SendEvent(op)
        PROVE  SimpleTypes'
    BY <2>20 DEF SendEvent
  <2>21. CASE ServiceDies
    BY <2>21 DEF ServiceDies, Die
  <2>22. CASE UNCHANGED vars
    BY <2>22 DEF vars
  <2> QED
    BY <2>1, <2>2, <2>3, <2>4, <2>5, <2>6, <2>7, <2>8, <2>9, <2>10, <2>11, <2>12, <2>13,
       <2>14, <2>15, <2>16, <2>17, <2>18, <2>19, <2>20, <2>21, <2>22
       DEF Next, Configure, LibCleanup, CloseNext, Advance, ThreadNext, WatcherNext,
           ControllerAnswers
<1> QED
  BY <1>a, <1>c DEF SimpleTypes, HalTypeOK

(* Every step keeps what Open and Close leave alive, and what the client   *)
(* has been told.                                                          *)
LEMMA SessionStep ==
  IInv /\ [Next]_vars => SessionInv' /\ (CleanInv /\ ~mixed' => ReportInv')
<1> SUFFICES ASSUME IInv, [Next]_vars
             PROVE  SessionInv' /\ (CleanInv /\ ~mixed' => ReportInv')
  OBVIOUS
<1> DEFINE Goal == SessionInv' /\ (CleanInv /\ ~mixed' => ReportInv')
<1>0. SessionInv /\ HalTypeOK /\ (CleanInv => ReportInv)
  BY BaseFacts DEF CleanInv, HalIInv
<1>a. /\ thr # "none" => api \notin {"off", "fwcfg"}
      /\ CleanInv /\ thr = "send" => cmd_status \in {"PENDING", "TERMINATE"}
  BY BaseFacts, LibraryFacts DEF CleanInv
<1> USE <1>0, <1>a DEF SessionInv, ReportInv,
        libVars, halVars, watchVars, uartVars,
        Lib!apiVars, Lib!syncVars, Lib!thrVars, Lib!cmdVars, Lib!addrVars
<1>1. CASE Lib!FwCfgFails /\ UNCHANGED halVars
  BY <1>1 DEF Lib!FwCfgFails
<1>2. ASSUME NEW readOk \in BOOLEAN, NEW created \in BOOLEAN,
             Lib!FwCfg(readOk, created) /\ UNCHANGED halVars
      PROVE  Goal
  BY <1>2 DEF Lib!FwCfg
<1>3. CASE Lib!SetRunning /\ UNCHANGED halVars
  BY <1>3 DEF Lib!SetRunning
<1>4. CASE Lib!Cleanup /\ UNCHANGED halVars /\ cl = "none"
  BY <1>4 DEF Lib!Cleanup
<1>5. CASE Lib!NotifyThreadExit /\ UNCHANGED halVars /\ cl = "none"
  BY <1>5 DEF Lib!NotifyThreadExit
<1>6. CASE Lib!Join /\ UNCHANGED halVars /\ cl = "none"
  BY <1>6 DEF Lib!Join, Lib!SessionOver, Lib!Unload
<1>7. CASE Lib!ThreadInit /\ UNCHANGED halVars
  BY <1>7 DEF Lib!ThreadInit
<1>8. ASSUME NEW enabled \in BOOLEAN,
             Lib!LoopTest(enabled) /\ UNCHANGED halVars
      PROVE  Goal
  BY <1>8 DEF Lib!LoopTest
<1>9. CASE Lib!Arm /\ UNCHANGED halVars
  BY <1>9 DEF Lib!Arm
<1>10. CASE Lib!WaitDone /\ UNCHANGED halVars
  BY <1>10 DEF Lib!WaitDone
<1>11. CASE Lib!ThreadExit /\ UNCHANGED halVars
  BY <1>11 DEF Lib!ThreadExit
<1>12. CASE Lib!Report /\ UNCHANGED halVars
  BY <1>12 DEF Lib!Report
<1>13. CASE Lib!ClearRunning /\ UNCHANGED halVars
  BY <1>13 DEF Lib!ClearRunning
<1>14. ASSUME NEW ok \in BOOLEAN, Open(ok)
      PROVE  Goal
  <2>1. CASE ok
    BY <1>14, <2>1 DEF Open, HalTypeOK
  <2>2. CASE ~ok
    BY <1>14, <2>2 DEF Open, HalTypeOK
  <2> QED
    BY <2>1, <2>2
<1>15. CASE CloseStop
  BY <1>15 DEF CloseStop
<1>16. CASE CloseJoin
  BY <1>16 DEF CloseJoin
<1>17. CASE CloseDelete
  BY <1>17 DEF CloseDelete
<1>18. CASE RegisterCb
  BY <1>18 DEF RegisterCb
<1>19. CASE RegisterOpcode
  BY <1>19 DEF RegisterOpcode
<1>20. ASSUME NEW writeOk \in BOOLEAN, Transmit(writeOk)
      PROVE  Goal
  BY <1>20 DEF Transmit
<1>21. CASE TransmitToNull
  BY <1>21 DEF TransmitToNull, Die
<1>22. CASE TestRunning
  BY <1>22 DEF TestRunning
<1>23. CASE Select
  BY <1>23 DEF Select
<1>24. CASE TestCb
  BY <1>24 DEF TestCb
<1>25. CASE Match
  BY <1>25 DEF Match
<1>26. CASE TakeCb
  BY <1>26 DEF TakeCb
<1>27. CASE ClearCb
  BY <1>27 DEF ClearCb
<1>28. CASE RunHandler
  <2>1. CleanInv => thr = "wait"
    <3>1. CleanInv => wev \in Held /\ wev.by = "vendor"
      BY <1>28 DEF Held, CleanInv, HalIInv, RegistrationInv, RunHandler
    <3> QED
      BY <3>1 DEF CleanInv, HalIInv, OwnerInv
  <2> QED
    BY <1>28, <2>1 DEF RunHandler
<1>29. CASE ToClient
  BY <1>29 DEF ToClient
<1>30. ASSUME NEW op \in ClientOps, ClientSend(op)
      PROVE  Goal
  BY <1>30 DEF ClientSend, HalTypeOK
<1>31. ASSUME NEW ok \in BOOLEAN, Answer(ok)
      PROVE  Goal
  BY <1>31 DEF Answer
<1>32. ASSUME NEW op \in Unsolicited, SendEvent(op)
      PROVE  Goal
  BY <1>32 DEF SendEvent
<1>33. CASE ServiceDies
  BY <1>33 DEF ServiceDies, Die
<1>34. CASE UNCHANGED vars
  BY <1>34 DEF vars
<1> QED
  BY <1>1, <1>2, <1>3, <1>4, <1>5, <1>6, <1>7, <1>8, <1>9, <1>10, <1>11, <1>12, <1>13,
     <1>14, <1>15, <1>16, <1>17, <1>18, <1>19, <1>20, <1>21, <1>22, <1>23, <1>24,
     <1>25, <1>26, <1>27, <1>28, <1>29, <1>30, <1>31, <1>32, <1>33, <1>34
     DEF Next, Configure, LibCleanup, CloseNext, Advance, ThreadNext, WatcherNext,
         ControllerAnswers

(* Every step leaves the packets that are held with their owners.          *)
LEMMA OwnerStep == CleanInv /\ ~mixed' /\ [Next]_vars => OwnerInv'
<1> SUFFICES ASSUME CleanInv, ~mixed', [Next]_vars PROVE OwnerInv'
  OBVIOUS
<1>0. OwnerInv /\ SessionInv /\ ReportInv
  BY DEF CleanInv, HalIInv
<1>a. /\ thr # "none" => api \notin {"off", "fwcfg"}
      /\ w # "none" => api \in {"fwcfg", "created", "up"}
      /\ thr = "send" => cmd_status \in {"PENDING", "TERMINATE"}
  BY LibraryFacts DEF CleanInv
<1>b. script' = script
  BY ScriptFixed
<1>c. /\ UNCHANGED <<up, down, wev>> => Held' = Held
      /\ up = <<>> /\ down = <<>> => Held = {wev}
      /\ up' = <<>> /\ down' = <<>> => Held' = {wev'}
  BY DEF Held
<1>d. NoPacket.by = "nobody" /\ NoPacket.op = NotComplete /\ wev \in Held
  BY DEF NoPacket, Packet, Held
<1>e. hci = "null" => Held = {NoPacket}
  BY <1>c, <1>0 DEF SessionInv
<1>f. up \in Seq(Packets) /\ down \in Seq(Packets) /\ wev \in Packets
  BY DEF CleanInv, HalIInv, HalTypeOK
<1> USE <1>0, <1>a, <1>b DEF OwnerInv, Handler, Cmd,
        libVars, halVars, watchVars, uartVars,
        Lib!apiVars, Lib!syncVars, Lib!thrVars, Lib!cmdVars, Lib!addrVars
<1>1. CASE Lib!FwCfgFails /\ UNCHANGED halVars
  BY <1>1, <1>c DEF Lib!FwCfgFails
<1>2. ASSUME NEW readOk \in BOOLEAN, NEW created \in BOOLEAN,
             Lib!FwCfg(readOk, created) /\ UNCHANGED halVars
      PROVE  OwnerInv'
  BY <1>2, <1>c DEF Lib!FwCfg
<1>3. CASE Lib!SetRunning /\ UNCHANGED halVars
  BY <1>3, <1>c DEF Lib!SetRunning
<1>4. CASE Lib!Cleanup /\ UNCHANGED halVars /\ cl = "none"
  BY <1>4, <1>c DEF Lib!Cleanup
<1>5. CASE Lib!NotifyThreadExit /\ UNCHANGED halVars /\ cl = "none"
  BY <1>5, <1>c, <1>d, <1>e DEF Lib!NotifyThreadExit, SessionInv
<1>6. CASE Lib!Join /\ UNCHANGED halVars /\ cl = "none"
  BY <1>6, <1>c, <1>d, <1>e DEF Lib!Join, SessionInv
<1>7. CASE Lib!ThreadInit /\ UNCHANGED halVars
  BY <1>7, <1>c DEF Lib!ThreadInit
<1>8. ASSUME NEW enabled \in BOOLEAN,
             Lib!LoopTest(enabled) /\ UNCHANGED halVars
      PROVE  OwnerInv'
  BY <1>8, <1>c DEF Lib!LoopTest
<1>9. CASE Lib!Arm /\ UNCHANGED halVars
  BY <1>9, <1>c DEF Lib!Arm
<1>10. CASE Lib!WaitDone /\ UNCHANGED halVars
  BY <1>10, <1>c DEF Lib!WaitDone
<1>11. CASE Lib!ThreadExit /\ UNCHANGED halVars
  BY <1>11, <1>c DEF Lib!ThreadExit
<1>12. CASE Lib!Report /\ UNCHANGED halVars
  BY <1>12, <1>c DEF Lib!Report, ReportInv
<1>13. CASE Lib!ClearRunning /\ UNCHANGED halVars
  BY <1>13, <1>c DEF Lib!ClearRunning
<1>14. ASSUME NEW ok \in BOOLEAN, Open(ok)
      PROVE  OwnerInv'
  <2>1. Held' = {NoPacket}
    BY <1>14, <1>c, <1>e DEF Open, SessionInv, CleanInv, HalIInv, HalTypeOK
  <2> QED
    BY <2>1, <1>d
<1>15. CASE CloseStop
  BY <1>15, <1>c DEF CloseStop
<1>16. CASE CloseJoin
  BY <1>16, <1>c DEF CloseJoin
<1>17. CASE CloseDelete
  BY <1>17, <1>c, <1>d DEF CloseDelete, SessionInv
<1>18. CASE RegisterCb
  BY <1>18, <1>c DEF RegisterCb
<1>19. CASE RegisterOpcode
  BY <1>19, <1>c DEF RegisterOpcode
<1>20. ASSUME NEW writeOk \in BOOLEAN, Transmit(writeOk)
      PROVE  OwnerInv'
  <2> DEFINE p == Packet("vendor", Cmd, OpCode(Cmd), TRUE)
  <2>1. p \in Packets
    BY <1>20, LibraryFacts DEF CleanInv, Transmit, Packet, Packets
  <2>2. up' = Append(up, p) /\ UNCHANGED <<down, wev>>
    BY <1>20 DEF Transmit
  <2>3. p.by = "vendor" /\ p.cmd = Cmd /\ p.op = OpCode(Cmd)
    BY DEF Packet
  <2> HIDE DEF p
  <2>4a. { up'[i] : i \in DOMAIN up' } = { up[i] : i \in DOMAIN up } \cup {p}
    BY <2>1, <2>2, <1>f, QueueSets
  <2>4. Held' = Held \cup {p}
    BY <2>4a, <2>2 DEF Held
  <2>5. \A q \in Held : q.by # "vendor" /\ q.by # "client"
    BY <1>20 DEF Transmit, ReportInv
  <2>6. thr' = "wait" /\ cmd_status' = "PENDING" /\ iop' = OpCode(Cmd) /\ icb' = Handler
    BY <1>20 DEF Transmit, SessionInv, ReportInv, CleanInv, HalIInv, HalTypeOK, RegistrationInv
  <2>7. Cmd' = Cmd
    BY <1>20 DEF Transmit
  <2>8. icb' = Handler' /\ iop' = OpCode(Cmd')
    BY <2>6, <2>7
  <2> QED
    BY <2>3, <2>4, <2>5, <2>6, <2>7, <2>8
<1>21. CASE TransmitToNull
  <2>1. Held' = {NoPacket}
    BY <1>21, <1>c DEF TransmitToNull, Die
  <2> QED
    BY <2>1, <1>d
<1>22. CASE TestRunning
  BY <1>22, <1>c DEF TestRunning
<1>23. CASE Select
  <2>1. Held' \subseteq Held
    <3>1. CASE UNCHANGED <<up, down, wev>>
      BY <3>1, <1>c
    <3>2. CASE down # <<>> /\ wev' = Head(down) /\ down' = Tail(down) /\ up' = up
      BY <3>2, <1>f, QueueSets DEF Held
    <3> QED
      BY <1>23, <3>1, <3>2 DEF Select
  <2> QED
    BY <1>23, <2>1 DEF Select
<1>24. CASE TestCb
  BY <1>24, <1>c DEF TestCb
<1>25. CASE Match
  BY <1>25, <1>c DEF Match
<1>26. CASE TakeCb
  BY <1>26, <1>c DEF TakeCb
<1>27. CASE ClearCb
  BY <1>27, <1>c DEF ClearCb
<1>28. CASE RunHandler
  <2>1. \A p \in Held' : p = NoPacket \/ (p \in Held /\ ~IsCommand(p))
    BY <1>28 DEF RunHandler, CleanInv, HalIInv, RegistrationInv, OneCommandOut, IsCommand, Held
  <2> QED
    BY <1>28, <2>1, <1>d DEF RunHandler, IsCommand
<1>29. CASE ToClient
  <2>1. \A p \in Held' : p = NoPacket \/ p \in Held
    BY <1>29 DEF ToClient, Held
  <2>2. wev.by = "client" => \A p \in Held' : p = NoPacket \/ ~IsCommand(p)
    BY <1>29 DEF ToClient, Held, CleanInv, HalIInv, OneCommandOut, IsCommand
  <2> QED
    BY <1>29, <2>1, <2>2, <1>d DEF ToClient, IsCommand
<1>30. ASSUME NEW op \in ClientOps, ClientSend(op)
      PROVE  OwnerInv'
  <2> DEFINE p == Packet("client", "none", op, TRUE)
  <2>1. p \in Packets /\ p.by = "client"
    BY <1>30 DEF Packet, Packets
  <2>2. up' = Append(up, p) /\ UNCHANGED <<down, wev>>
    BY <1>30 DEF ClientSend
  <2> HIDE DEF p
  <2>3. Held' = Held \cup {p}
    BY <2>1, <2>2, <1>f, QueueSets DEF Held
  <2> QED
    BY <1>30, <2>1, <2>3 DEF ClientSend
<1>31. ASSUME NEW ok \in BOOLEAN, Answer(ok)
      PROVE  OwnerInv'
  <2> DEFINE p == [Head(up) EXCEPT !.ok = ok]
  <2>1. Head(up) \in Packets /\ Head(up) \in Held
    BY <1>31, <1>f, QueueSets DEF Answer, Held
  <2>2. p \in Packets /\ p.by = Head(up).by /\ p.cmd = Head(up).cmd /\ p.op = Head(up).op
    BY <2>1 DEF Packets
  <2>3. down' = Append(down, p) /\ up' = Tail(up) /\ wev' = wev
    BY <1>31 DEF Answer
  <2> HIDE DEF p
  <2>4. Held' \subseteq Held \cup {p}
    BY <1>31, <2>1, <2>2, <2>3, <1>f, QueueSets DEF Answer, Held
  <2> QED
    BY <1>31, <2>1, <2>2, <2>4 DEF Answer
<1>32. ASSUME NEW op \in Unsolicited, SendEvent(op)
      PROVE  OwnerInv'
  <2> DEFINE p == Packet("nobody", "none", op, TRUE)
  <2>1. p \in Packets /\ p.by = "nobody" /\ p.op \in Unsolicited
    BY <1>32 DEF Packet, Packets
  <2>2. down' = Append(down, p) /\ UNCHANGED <<up, wev>>
    BY <1>32 DEF SendEvent
  <2> HIDE DEF p
  <2>3. Held' = Held \cup {p}
    BY <2>1, <2>2, <1>f, QueueSets DEF Held
  <2> QED
    BY <1>32, <2>1, <2>3 DEF SendEvent
<1>33. CASE ServiceDies
  <2>1. Held' = {NoPacket}
    BY <1>33, <1>c DEF ServiceDies, Die
  <2> QED
    BY <2>1, <1>d
<1>34. CASE UNCHANGED vars
  BY <1>34, <1>c DEF vars
<1> QED
  BY <1>1, <1>2, <1>3, <1>4, <1>5, <1>6, <1>7, <1>8, <1>9, <1>10, <1>11, <1>12, <1>13,
     <1>14, <1>15, <1>16, <1>17, <1>18, <1>19, <1>20, <1>21, <1>22, <1>23, <1>24,
     <1>25, <1>26, <1>27, <1>28, <1>29, <1>30, <1>31, <1>32, <1>33, <1>34
     DEF Next, Configure, LibCleanup, CloseNext, Advance, ThreadNext, WatcherNext,
         ControllerAnswers

(* Every step keeps internal_command between its registration and its      *)
(* reset, and foreign events away from it.                                 *)
LEMMA RegistrationStep == CleanInv /\ ~mixed' /\ [Next]_vars => RegistrationInv'
<1> SUFFICES ASSUME CleanInv, ~mixed', [Next]_vars PROVE RegistrationInv'
  OBVIOUS
<1>0. RegistrationInv /\ ReportInv
  BY DEF CleanInv, HalIInv
<1>a. /\ wev \in Held /\ wev.by \in {"vendor", "client", "nobody"}
      /\ xpc \in {"cb", "opcode", "write"}
  BY DEF CleanInv, HalIInv, HalTypeOK, Packets, Held
<1>b. script' = script
  BY ScriptFixed
<1>c. /\ wev.by = "vendor" => /\ thr = "wait" /\ cmd_status = "PENDING"
                              /\ w # "call" => icb = Handler
      /\ Handler # "none"
  BY <1>a DEF CleanInv, HalIInv, OwnerInv, Handler
<1>d. wev.by = "client" => icb = "none"
  BY <1>a DEF CleanInv, HalIInv, OwnerInv, ResetInv
<1>e. wev.by = "vendor" => wev.op = iop /\ wev.op # NotComplete
  BY <1>a, <1>c, LibraryFacts, OpCodesReal DEF CleanInv, HalIInv, OwnerInv
<1> USE <1>0, <1>a, <1>b, <1>c DEF RegistrationInv, Handler, Cmd,
        libVars, halVars, watchVars, uartVars,
        Lib!apiVars, Lib!syncVars, Lib!thrVars, Lib!cmdVars, Lib!addrVars
<1>1. CASE Lib!FwCfgFails /\ UNCHANGED halVars
  BY <1>1 DEF Lib!FwCfgFails, ReportInv
<1>2. ASSUME NEW readOk \in BOOLEAN, NEW created \in BOOLEAN,
             Lib!FwCfg(readOk, created) /\ UNCHANGED halVars
      PROVE  RegistrationInv'
  BY <1>2, LibraryFacts DEF Lib!FwCfg, ReportInv, CleanInv
<1>3. CASE Lib!SetRunning /\ UNCHANGED halVars
  BY <1>3 DEF Lib!SetRunning, ReportInv
<1>4. CASE Lib!Cleanup /\ UNCHANGED halVars /\ cl = "none"
  BY <1>4 DEF Lib!Cleanup, ReportInv
<1>5. CASE Lib!NotifyThreadExit /\ UNCHANGED halVars /\ cl = "none"
  BY <1>5 DEF Lib!NotifyThreadExit, ReportInv
<1>6. CASE Lib!Join /\ UNCHANGED halVars /\ cl = "none"
  BY <1>6 DEF Lib!Join, Lib!SessionOver, Lib!Unload, ReportInv
<1>7. CASE Lib!ThreadInit /\ UNCHANGED halVars
  BY <1>7 DEF Lib!ThreadInit, ReportInv
<1>8. ASSUME NEW enabled \in BOOLEAN,
             Lib!LoopTest(enabled) /\ UNCHANGED halVars
      PROVE  RegistrationInv'
  BY <1>8 DEF Lib!LoopTest, ReportInv
<1>9. CASE Lib!Arm /\ UNCHANGED halVars
  BY <1>9 DEF Lib!Arm, ReportInv
<1>10. CASE Lib!WaitDone /\ UNCHANGED halVars
  BY <1>10 DEF Lib!WaitDone, ReportInv
<1>11. CASE Lib!ThreadExit /\ UNCHANGED halVars
  BY <1>11 DEF Lib!ThreadExit, ReportInv
<1>12. CASE Lib!Report /\ UNCHANGED halVars
  BY <1>12 DEF Lib!Report, ReportInv
<1>13. CASE Lib!ClearRunning /\ UNCHANGED halVars
  BY <1>13 DEF Lib!ClearRunning, ReportInv
<1>14. ASSUME NEW ok \in BOOLEAN, Open(ok)
      PROVE  RegistrationInv'
  BY <1>14, LibraryFacts DEF Open, ReportInv, CleanInv
<1>15. CASE CloseStop
  BY <1>15 DEF CloseStop
<1>16. CASE CloseJoin
  BY <1>16 DEF CloseJoin
<1>17. CASE CloseDelete
  BY <1>17 DEF CloseDelete
<1>18. CASE RegisterCb
  BY <1>18 DEF RegisterCb
<1>19. CASE RegisterOpcode
  <2>1. OpCode(Cmd) # Nop
    BY <1>19, LibraryFacts, OpCodesReal DEF RegisterOpcode, CleanInv
  <2> QED
    BY <1>19, <2>1 DEF RegisterOpcode
<1>20. ASSUME NEW writeOk \in BOOLEAN, Transmit(writeOk)
      PROVE  RegistrationInv'
  BY <1>20 DEF Transmit, ReportInv
<1>21. CASE TransmitToNull
  BY <1>21 DEF TransmitToNull, Die
<1>22. CASE TestRunning
  BY <1>22 DEF TestRunning
<1>23. CASE Select
  BY <1>23 DEF Select
<1>24. CASE TestCb
  BY <1>24, <1>d DEF TestCb
<1>25. CASE Match
  BY <1>25, <1>e DEF Match
<1>26. CASE TakeCb
  BY <1>26 DEF TakeCb
<1>27. CASE ClearCb
  BY <1>27 DEF ClearCb, ReportInv
<1>28. CASE RunHandler
  BY <1>28 DEF RunHandler
<1>29. CASE ToClient
  BY <1>29 DEF ToClient
<1>30. ASSUME NEW op \in ClientOps, ClientSend(op)
      PROVE  RegistrationInv'
  BY <1>30 DEF ClientSend
<1>31. ASSUME NEW ok \in BOOLEAN, Answer(ok)
      PROVE  RegistrationInv'
  BY <1>31 DEF Answer
<1>32. ASSUME NEW op \in Unsolicited, SendEvent(op)
      PROVE  RegistrationInv'
  BY <1>32 DEF SendEvent
<1>33. CASE ServiceDies
  BY <1>33 DEF ServiceDies, Die
<1>34. CASE UNCHANGED vars
  BY <1>34 DEF vars
<1> QED
  BY <1>1, <1>2, <1>3, <1>4, <1>5, <1>6, <1>7, <1>8, <1>9, <1>10, <1>11, <1>12, <1>13,
     <1>14, <1>15, <1>16, <1>17, <1>18, <1>19, <1>20, <1>21, <1>22, <1>23, <1>24,
     <1>25, <1>26, <1>27, <1>28, <1>29, <1>30, <1>31, <1>32, <1>33, <1>34
     DEF Next, Configure, LibCleanup, CloseNext, Advance, ThreadNext, WatcherNext,
         ControllerAnswers

(* Every step leaves no handler registered behind an answered script.      *)
LEMMA ResetStep == CleanInv /\ ~mixed' /\ [Next]_vars => ResetInv'
<1> SUFFICES ASSUME CleanInv, ~mixed', [Next]_vars PROVE ResetInv'
  OBVIOUS
<1>0. ResetInv /\ ReportInv
  BY DEF CleanInv, HalIInv
<1>a. /\ thr # "none" => api \notin {"off", "fwcfg"}
      /\ thr = "init" => acked = {}
      /\ thr = "exit" /\ idx = Lib!End /\ device.chip \in Chips => acked # {}
      /\ thr \in {"arm", "send", "wait"} => idx # Lib!End
      /\ cmd_status \in {"SUCCESS", "FAIL", "PENDING", "TERMINATE"}
  BY LibraryFacts DEF CleanInv
<1>b. Lib!End' = Lib!End
  BY ScriptFixed
<1>c. w \in {"take", "clear", "call"} => thr = "wait" /\ cmd_status = "PENDING"
  <2>1. w \in {"take", "clear", "call"} => wev \in Held /\ wev.by = "vendor"
    BY DEF CleanInv, HalIInv, RegistrationInv, Held
  <2> QED
    BY <2>1 DEF CleanInv, HalIInv, OwnerInv
<1> USE <1>0, <1>a, <1>b, <1>c DEF ResetInv,
        libVars, halVars, watchVars, uartVars,
        Lib!apiVars, Lib!syncVars, Lib!thrVars, Lib!cmdVars, Lib!addrVars
<1>1. CASE Lib!FwCfgFails /\ UNCHANGED halVars
  BY <1>1 DEF Lib!FwCfgFails, ReportInv
<1>2. ASSUME NEW readOk \in BOOLEAN, NEW created \in BOOLEAN,
             Lib!FwCfg(readOk, created) /\ UNCHANGED halVars
      PROVE  ResetInv'
  BY <1>2 DEF Lib!FwCfg, ReportInv
<1>3. CASE Lib!SetRunning /\ UNCHANGED halVars
  BY <1>3 DEF Lib!SetRunning, ReportInv
<1>4. CASE Lib!Cleanup /\ UNCHANGED halVars /\ cl = "none"
  BY <1>4 DEF Lib!Cleanup, ReportInv
<1>5. CASE Lib!NotifyThreadExit /\ UNCHANGED halVars /\ cl = "none"
  BY <1>5 DEF Lib!NotifyThreadExit, ReportInv
<1>6. CASE Lib!Join /\ UNCHANGED halVars /\ cl = "none"
  BY <1>6 DEF Lib!Join, Lib!SessionOver, Lib!Unload, ReportInv
<1>7. CASE Lib!ThreadInit /\ UNCHANGED halVars
  BY <1>7 DEF Lib!ThreadInit, ReportInv
<1>8. ASSUME NEW enabled \in BOOLEAN,
             Lib!LoopTest(enabled) /\ UNCHANGED halVars
      PROVE  ResetInv'
  BY <1>8 DEF Lib!LoopTest, ReportInv
<1>9. CASE Lib!Arm /\ UNCHANGED halVars
  BY <1>9 DEF Lib!Arm, ReportInv
<1>10. CASE Lib!WaitDone /\ UNCHANGED halVars
  BY <1>10 DEF Lib!WaitDone, ReportInv
<1>11. CASE Lib!ThreadExit /\ UNCHANGED halVars
  BY <1>11 DEF Lib!ThreadExit, ReportInv
<1>12. CASE Lib!Report /\ UNCHANGED halVars
  BY <1>12 DEF Lib!Report, ReportInv
<1>13. CASE Lib!ClearRunning /\ UNCHANGED halVars
  BY <1>13 DEF Lib!ClearRunning, ReportInv
<1>14. ASSUME NEW ok \in BOOLEAN, Open(ok)
      PROVE  ResetInv'
  BY <1>14 DEF Open
<1>15. CASE CloseStop
  BY <1>15 DEF CloseStop
<1>16. CASE CloseJoin
  BY <1>16 DEF CloseJoin
<1>17. CASE CloseDelete
  BY <1>17 DEF CloseDelete
<1>18. CASE RegisterCb
  BY <1>18 DEF RegisterCb, ReportInv
<1>19. CASE RegisterOpcode
  BY <1>19 DEF RegisterOpcode
<1>20. ASSUME NEW writeOk \in BOOLEAN, Transmit(writeOk)
      PROVE  ResetInv'
  <2>1. api # "join"
    BY <1>20 DEF CleanInv, HalIInv, HalTypeOK, SessionInv, Transmit
  <2> QED
    BY <1>20, <2>1 DEF Transmit, ReportInv
<1>21. CASE TransmitToNull
  BY <1>21 DEF TransmitToNull, Die
<1>22. CASE TestRunning
  BY <1>22 DEF TestRunning
<1>23. CASE Select
  BY <1>23 DEF Select
<1>24. CASE TestCb
  BY <1>24 DEF TestCb
<1>25. CASE Match
  BY <1>25 DEF Match
<1>26. CASE TakeCb
  BY <1>26 DEF TakeCb
<1>27. CASE ClearCb
  BY <1>27 DEF ClearCb
<1>28. CASE RunHandler
  BY <1>28 DEF RunHandler, ReportInv, CleanInv, HalIInv, RegistrationInv
<1>29. CASE ToClient
  BY <1>29 DEF ToClient
<1>30. ASSUME NEW op \in ClientOps, ClientSend(op)
      PROVE  ResetInv'
  BY <1>30 DEF ClientSend
<1>31. ASSUME NEW ok \in BOOLEAN, Answer(ok)
      PROVE  ResetInv'
  BY <1>31 DEF Answer
<1>32. ASSUME NEW op \in Unsolicited, SendEvent(op)
      PROVE  ResetInv'
  BY <1>32 DEF SendEvent
<1>33. CASE ServiceDies
  BY <1>33 DEF ServiceDies, Die
<1>34. CASE UNCHANGED vars
  BY <1>34 DEF vars
<1> QED
  BY <1>1, <1>2, <1>3, <1>4, <1>5, <1>6, <1>7, <1>8, <1>9, <1>10, <1>11, <1>12, <1>13,
     <1>14, <1>15, <1>16, <1>17, <1>18, <1>19, <1>20, <1>21, <1>22, <1>23, <1>24,
     <1>25, <1>26, <1>27, <1>28, <1>29, <1>30, <1>31, <1>32, <1>33, <1>34
     DEF Next, Configure, LibCleanup, CloseNext, Advance, ThreadNext, WatcherNext,
         ControllerAnswers

(* The HAL's part of the invariant holds initially and in every step.      *)
LEMMA HalKeeps ==
  /\ Init => HalIInv
  /\ CleanInv /\ ~mixed' /\ [Next]_vars => HalIInv'
<1>1. ASSUME Init
      PROVE  HalIInv
  <2>1. Held = {NoPacket} /\ ~IsCommand(NoPacket) /\ NoPacket.op = NotComplete
    BY <1>1 DEF Init, InitHal, Held, IsCommand, NoPacket, Packet
  <2>2. <<>> \in Seq(Packets) /\ Len(<<>>) = 0 /\ DOMAIN <<>> = {} /\ MaxDown \in Nat
    BY InterfaceAssumption
  <2>3. HalTypeOK
    <3>1. NoPacket \in Packets
      BY DEF NoPacket, Packet, Packets
    <3>2. up \in Seq(Packets) /\ down \in Seq(Packets)
      BY <1>1, <2>2 DEF Init, InitHal
    <3>3. Len(up) <= 1 /\ Len(down) <= MaxDown + 1
      BY <1>1, <2>2 DEF Init, InitHal
    <3>4. running \in BOOLEAN /\ cwait \in BOOLEAN
      BY <1>1 DEF Init, InitHal
    <3>5. iop \in { OpCode(c) : c \in MtkCommands } \cup {Nop}
      BY <1>1 DEF Init, InitHal
    <3>6. wev \in Packets
      BY <1>1, <3>1 DEF Init, InitHal
    <3> QED
      BY <1>1, <3>2, <3>3, <3>4, <3>5, <3>6 DEF Init, InitHal, HalTypeOK, WatcherPc
  <2>4. OneCommandOut /\ QueueBound
    BY <1>1, <2>1, <2>2 DEF Init, InitHal, OneCommandOut, QueueBound
  <2>5. OwnerInv
    BY <2>1, Zenon DEF OwnerInv, IsCommand, NoPacket, Packet
  <2> QED
    BY <1>1, <2>3, <2>4, <2>5
       DEF Init, InitHal, HalIInv, SessionInv, ReportInv, RegistrationInv, ResetInv
<1>2. CleanInv /\ ~mixed' /\ [Next]_vars => HalIInv'
  BY HalTypeStep, WireStep, SessionStep, OwnerStep, RegistrationStep, ResetStep
     DEF HalIInv, WireInv, IInv
<1> QED
  BY <1>1, <1>2
-----------------------------------------------------------------------------
(* The HAL implements the environment of FwInit.                           *)

(* What FwInit sees of the wire: the command that is out while the watcher *)
(* lives.                                                                  *)
LEMMA InFlightIs ==
  /\ OwnerInv => InFlight = IF w = "none" \/ VendorPackets = {} THEN "none" ELSE Cmd
  /\ OwnerInv' => InFlight' = IF w' = "none" \/ VendorPackets' = {} THEN "none" ELSE Cmd'
<1>1. ASSUME NEW S, NEW c, S # {}, \A p \in S : p.cmd = c
      PROVE  (CHOOSE p \in S : TRUE).cmd = c
  BY <1>1
<1>2. OwnerInv => \A p \in VendorPackets : p.cmd = Cmd
  BY DEF OwnerInv, VendorPackets, Held
<1>3. OwnerInv' => \A p \in VendorPackets' : p.cmd = Cmd'
  BY DEF OwnerInv, VendorPackets, Held
<1> QED
  BY <1>1, <1>2, <1>3, Zenon DEF InFlight

(* As long as only answers are taken for answers, every step of the HAL is *)
(* a step of the library's session or none.                                *)
LEMMA RefinementStep == CleanInv /\ ~mixed' /\ [Next]_vars => [Lib!Next]_(Lib!vars)
<1> SUFFICES ASSUME CleanInv, ~mixed', [Next]_vars PROVE Lib!Next \/ UNCHANGED Lib!vars
  BY Zenon
<1>0. HalIInv /\ HalIInv'
  BY HalKeeps DEF CleanInv
<1>a. /\ InFlight = IF w = "none" \/ VendorPackets = {} THEN "none" ELSE Cmd
      /\ InFlight' = IF w' = "none" \/ VendorPackets' = {} THEN "none" ELSE Cmd'
  BY <1>0, InFlightIs DEF HalIInv
<1>b. VendorPackets = { p \in Held : p.by = "vendor" } /\ VendorPackets' = { p \in Held' : p.by = "vendor" }
  BY DEF VendorPackets, Held
<1>c. UNCHANGED <<up, down, wev>> => VendorPackets' = VendorPackets /\ Held' = Held
  BY DEF VendorPackets, Held
<1>d. ASSUME UNCHANGED libVars, (w' # "none") = (w # "none"), InFlight' = InFlight
      PROVE  UNCHANGED Lib!vars
  BY <1>d, Zenon
     DEF libVars, Lib!vars, Lib!apiVars, Lib!syncVars, Lib!thrVars, Lib!cmdVars, Lib!addrVars
<1>e. script' = script /\ (UNCHANGED libVars => Cmd' = Cmd)
  BY ScriptFixed DEF Cmd, libVars
<1>f. ASSUME UNCHANGED <<libVars, up, down, wev, w>>
      PROVE  UNCHANGED Lib!vars
  <2>1. InFlight' = InFlight
    BY <1>a, <1>c, <1>e, <1>f
  <2> QED
    BY <2>1, <1>d, <1>f
<1>g. up \in Seq(Packets) /\ down \in Seq(Packets)
  BY <1>0 DEF HalIInv, HalTypeOK
<1> USE DEF libVars, halVars, watchVars, uartVars,
        Lib!apiVars, Lib!syncVars, Lib!thrVars, Lib!cmdVars, Lib!addrVars
<1>1. CASE Lib!FwCfgFails /\ UNCHANGED halVars
  BY <1>1, Zenon DEF Lib!Next, Lib!ApiNext
<1>2. ASSUME NEW readOk \in BOOLEAN, NEW created \in BOOLEAN,
             Lib!FwCfg(readOk, created) /\ UNCHANGED halVars
      PROVE  Lib!Next \/ UNCHANGED Lib!vars
  BY <1>2, Zenon DEF Lib!Next, Lib!ApiNext
<1>3. CASE Lib!SetRunning /\ UNCHANGED halVars
  BY <1>3, Zenon DEF Lib!Next, Lib!ApiNext
<1>4. CASE Lib!Cleanup /\ UNCHANGED halVars /\ cl = "none"
  BY <1>4, Zenon DEF Lib!Next, Lib!ApiNext
<1>5. CASE Lib!NotifyThreadExit /\ UNCHANGED halVars /\ cl = "none"
  BY <1>5, Zenon DEF Lib!Next, Lib!ApiNext
<1>6. CASE Lib!Join /\ UNCHANGED halVars /\ cl = "none"
  BY <1>6, Zenon DEF Lib!Next, Lib!ApiNext
<1>7. CASE Lib!ThreadInit /\ UNCHANGED halVars
  BY <1>7, Zenon DEF Lib!Next, Lib!ThreadNext
<1>8. ASSUME NEW enabled \in BOOLEAN,
             Lib!LoopTest(enabled) /\ UNCHANGED halVars
      PROVE  Lib!Next \/ UNCHANGED Lib!vars
  BY <1>8, Zenon DEF Lib!Next, Lib!ThreadNext
<1>9. CASE Lib!Arm /\ UNCHANGED halVars
  BY <1>9, Zenon DEF Lib!Next, Lib!ThreadNext
<1>10. CASE Lib!WaitDone /\ UNCHANGED halVars
  BY <1>10, Zenon DEF Lib!Next, Lib!ThreadNext
<1>11. CASE Lib!ThreadExit /\ UNCHANGED halVars
  BY <1>11, Zenon DEF Lib!Next, Lib!ThreadNext
<1>12. CASE Lib!Report /\ UNCHANGED halVars
  BY <1>12, Zenon DEF Lib!Next, Lib!ThreadNext
<1>13. CASE Lib!ClearRunning /\ UNCHANGED halVars
  BY <1>13, Zenon DEF Lib!Next, Lib!ThreadNext
<1>14. ASSUME NEW ok \in BOOLEAN, Open(ok)
      PROVE  Lib!Next \/ UNCHANGED Lib!vars
  <2>1. w = "none" /\ Held = {NoPacket} /\ UNCHANGED <<up, down, wev>>
    BY <1>14, <1>0 DEF Open, HalIInv, HalTypeOK, SessionInv, Held
  <2>2. VendorPackets' = {}
    BY <2>1, <1>b, <1>c DEF NoPacket, Packet
  <2>3. InFlight = "none" /\ InFlight' = "none" /\ (w' # "none") = ok
    BY <1>14, <2>1, <2>2, <1>a DEF Open
  <2>4. Lib!Open(ok)
    <3>1. CASE ok
      BY <1>14, <2>1, <2>3, <3>1 DEF Open, Lib!Open
    <3>2. CASE ~ok
      BY <1>14, <2>1, <2>3, <3>2 DEF Open, Lib!Open
    <3> QED
      BY <3>1, <3>2
  <2> QED
    BY <2>4 DEF Lib!Next, Lib!ApiNext
<1>15. CASE CloseStop
  <2>1. CASE running
    BY <1>15, <2>1, <1>f DEF CloseStop
  <2>2. CASE ~running
    <3>1. w = "none" /\ w' = "none"
      BY <1>15, <2>2, <1>0 DEF CloseStop, HalIInv, SessionInv
    <3>2. InFlight = "none" /\ InFlight' = "none"
      BY <3>1, <1>a
    <3>3. Lib!StopListening
      BY <1>15, <2>2, <3>1, <3>2 DEF CloseStop, Lib!StopListening, Lib!NoCmd
    <3> QED
      BY <3>3 DEF Lib!Next, Lib!ApiNext
  <2> QED
    BY <2>1, <2>2
<1>16. CASE CloseJoin
  <2>1. api = "up" /\ w' = "none"
    BY <1>16, <1>0 DEF CloseJoin, HalIInv, SessionInv
  <2>2. InFlight' = "none"
    BY <2>1, <1>a
  <2>3. Lib!StopListening
    BY <1>16, <2>1, <2>2 DEF CloseJoin, Lib!StopListening, Lib!NoCmd
  <2> QED
    BY <2>3 DEF Lib!Next, Lib!ApiNext
<1>17. CASE CloseDelete
  <2>1. w = "none" /\ w' = "none" /\ UNCHANGED libVars
    BY <1>17, <1>0 DEF CloseDelete, HalIInv, SessionInv
  <2> QED
    BY <2>1, <1>a, <1>d
<1>18. CASE RegisterCb
  BY <1>18, <1>f DEF RegisterCb
<1>19. CASE RegisterOpcode
  BY <1>19, <1>f DEF RegisterOpcode
<1>20. ASSUME NEW writeOk \in BOOLEAN, Transmit(writeOk)
      PROVE  Lib!Next \/ UNCHANGED Lib!vars
  <2>1. thr' = "wait" /\ Cmd' = Cmd /\ w' = w
    BY <1>20, <1>e DEF Transmit, Cmd
  <2>2. VendorPackets' # {}
    <3> DEFINE p == Packet("vendor", Cmd, OpCode(Cmd), TRUE)
    <3>1. p \in Packets /\ p.by = "vendor" /\ up' = Append(up, p)
      BY <1>20, LibraryFacts DEF CleanInv, Transmit, Packet, Packets
    <3> HIDE DEF p
    <3>2. p \in Held'
      BY <3>1, <1>g, QueueSets DEF Held
    <3> QED
      BY <3>1, <3>2, <1>b
  <2>3. InFlight' = IF w # "none" THEN Cmd ELSE "none"
    BY <2>1, <2>2, <1>a
  <2>4. Lib!Send(writeOk)
    BY <1>20, <2>1, <2>3 DEF Transmit, Lib!Send, Lib!NoCmd, Cmd, script
  <2> QED
    BY <2>4 DEF Lib!Next, Lib!ThreadNext
<1>21. CASE TransmitToNull
  <2>1. api # "off"
    BY <1>21, LibraryFacts DEF TransmitToNull, CleanInv
  <2>2. InFlight' = "none" /\ w' = "none"
    BY <1>21, <1>a DEF TransmitToNull, Die
  <2>3. Lib!ServiceDies
    BY <1>21, <2>1, <2>2 DEF TransmitToNull, Die, Lib!ServiceDies, Lib!SessionOver, Lib!Unload, Lib!NoCmd
  <2> QED
    BY <2>3 DEF Lib!Next
<1>22. CASE TestRunning
  <2>1. w # "none" /\ w' # "none" /\ UNCHANGED <<libVars, up, down, wev>>
    BY <1>22 DEF TestRunning
  <2>2. InFlight' = InFlight
    BY <2>1, <1>a, <1>c, <1>e
  <2> QED
    BY <2>1, <2>2, <1>d
<1>23. CASE Select
  <2>1. w # "none" /\ w' # "none" /\ UNCHANGED libVars /\ wev.by # "vendor"
    BY <1>23, <1>0 DEF Select, HalIInv, SessionInv, NoPacket, Packet
  <2>2. VendorPackets' = VendorPackets
    <3>1. CASE UNCHANGED <<up, down, wev>>
      BY <3>1, <1>c
    <3>2. CASE down # <<>> /\ wev' = Head(down) /\ down' = Tail(down) /\ up' = up
      <4>1. Held' \subseteq Held
        BY <3>2, <1>g, QueueSets DEF Held
      <4>2. \A i \in DOMAIN down :
              down[i] = wev' \/ \E j \in DOMAIN down' : down[i] = down'[j]
        BY <3>2, <1>g, TailFacts, Zenon
      <4>3. Held \subseteq Held' \cup {wev}
        BY <3>2, <4>2 DEF Held
      <4> QED
        BY <2>1, <4>1, <4>3, <1>b
    <3> QED
      BY <1>23, <3>1, <3>2 DEF Select
  <2>3. InFlight' = InFlight
    BY <2>1, <2>2, <1>a, <1>e
  <2> QED
    BY <2>1, <2>3, <1>d
<1>24. CASE TestCb
  <2>1. w # "none" /\ w' # "none" /\ UNCHANGED <<libVars, up, down, wev>>
    BY <1>24 DEF TestCb
  <2>2. InFlight' = InFlight
    BY <2>1, <1>a, <1>c, <1>e
  <2> QED
    BY <2>1, <2>2, <1>d
<1>25. CASE Match
  <2>1. w # "none" /\ w' # "none" /\ UNCHANGED <<libVars, up, down, wev>>
    BY <1>25 DEF Match
  <2>2. InFlight' = InFlight
    BY <2>1, <1>a, <1>c, <1>e
  <2> QED
    BY <2>1, <2>2, <1>d
<1>26. CASE TakeCb
  <2>1. w # "none" /\ w' # "none" /\ UNCHANGED <<libVars, up, down, wev>>
    BY <1>26 DEF TakeCb
  <2>2. InFlight' = InFlight
    BY <2>1, <1>a, <1>c, <1>e
  <2> QED
    BY <2>1, <2>2, <1>d
<1>27. CASE ClearCb
  <2>1. w # "none" /\ w' # "none" /\ UNCHANGED <<libVars, up, down, wev>>
    BY <1>27 DEF ClearCb
  <2>2. InFlight' = InFlight
    BY <2>1, <1>a, <1>c, <1>e
  <2> QED
    BY <2>1, <2>2, <1>d
<1>28. CASE RunHandler
  <2>1. wev \in Held /\ wev.by = "vendor" /\ saved = Handler
    BY <1>28, <1>0 DEF RunHandler, Held, HalIInv, RegistrationInv
  <2>2. thr = "wait" /\ wev.cmd = Cmd /\ wev.op = OpCode(Cmd) /\ wev.ok \in BOOLEAN
    BY <2>1, <1>0 DEF HalIInv, OwnerInv, HalTypeOK, Packets
  <2>3. \A p \in Held' : p.by # "vendor"
    BY <1>28, <2>1, <1>0
       DEF RunHandler, HalIInv, OneCommandOut, IsCommand, Held, NoPacket, Packet
  <2>4. VendorPackets # {} /\ VendorPackets' = {} /\ w # "none" /\ w' # "none"
    BY <1>28, <2>1, <2>3, <1>b DEF RunHandler
  <2>5. InFlight = Cmd /\ InFlight' = "none" /\ Cmd # "none"
    BY <2>2, <2>4, <1>a, LibraryFacts DEF CleanInv
  <2>6. addr' = Lib!RetrievedAddr
    BY <1>28, <2>1, <2>5, Zenon DEF RunHandler, Handler, Lib!RetrievedAddr
  <2>7. Lib!Complete(wev.ok)
    BY <1>28, <2>2, <2>4, <2>5, <2>6 DEF RunHandler, Lib!Complete, Lib!NoCmd
  <2> QED
    BY <2>2, <2>7 DEF Lib!Next
<1>29. CASE ToClient
  <2>1. w # "none" /\ w' # "none" /\ UNCHANGED libVars /\ wev.by # "vendor"
    BY <1>29, <1>0 DEF ToClient, HalIInv, RegistrationInv
  <2>2. VendorPackets' = VendorPackets
    BY <1>29, <2>1, <1>b DEF ToClient, Held, NoPacket, Packet
  <2>3. InFlight' = InFlight
    BY <2>1, <2>2, <1>a, <1>e
  <2> QED
    BY <2>1, <2>3, <1>d
<1>30. ASSUME NEW op \in ClientOps, ClientSend(op)
      PROVE  Lib!Next \/ UNCHANGED Lib!vars
  <2>1. UNCHANGED <<libVars, w, down, wev>>
    BY <1>30 DEF ClientSend
  <2>2. VendorPackets' = VendorPackets
    <3> DEFINE p == Packet("client", "none", op, TRUE)
    <3>1. p \in Packets /\ p.by # "vendor" /\ up' = Append(up, p)
      BY <1>30 DEF ClientSend, Packet, Packets
    <3> HIDE DEF p
    <3>2. Held' = Held \cup {p}
      BY <2>1, <3>1, <1>g, QueueSets DEF Held
    <3> QED
      BY <3>1, <3>2, <1>b
  <2>3. InFlight' = InFlight
    BY <2>1, <2>2, <1>a, <1>e
  <2> QED
    BY <2>1, <2>3, <1>d
<1>31. ASSUME NEW ok \in BOOLEAN, Answer(ok)
      PROVE  Lib!Next \/ UNCHANGED Lib!vars
  <2>1. UNCHANGED <<libVars, w, wev>>
    BY <1>31 DEF Answer
  <2>2. VendorPackets' = {} <=> VendorPackets = {}
    <3> DEFINE p == [Head(up) EXCEPT !.ok = ok]
    <3>1. Head(up) \in Packets /\ up # <<>> /\ up' = Tail(up) /\ down' = Append(down, p)
      BY <1>31, <1>0 DEF Answer, HalIInv, HalTypeOK
    <3>2. p \in Packets /\ p.by = Head(up).by
      BY <3>1 DEF Packets
    <3> HIDE DEF p
    <3>3. Held' \subseteq Held \cup {p} /\ p \in Held'
      <4>1. wev' = wev
        BY <2>1
      <4>2. { up'[i] : i \in DOMAIN up' } \subseteq { up[i] : i \in DOMAIN up }
        BY <3>1, <1>g, QueueSets
      <4>3. { down'[i] : i \in DOMAIN down' } = { down[i] : i \in DOMAIN down } \cup {p}
        <5>1. down' = Append(down, p)
          BY <3>1
        <5> QED
          BY <3>2, <5>1, <1>g, QueueSets
      <4> QED
        BY <4>1, <4>2, <4>3, Zenon DEF Held
    <3>4. Held \subseteq Held' \cup {Head(up)} /\ Head(up) \in Held
      <4>1. \A i \in DOMAIN up :
              up[i] = Head(up) \/ \E j \in DOMAIN up' : up[i] = up'[j]
        BY <3>1, <1>g, TailFacts, Zenon
      <4>2. DOMAIN down \subseteq DOMAIN down' /\ \A i \in DOMAIN down : down'[i] = down[i]
        BY <3>1, <3>2, <1>g, AppendFacts
      <4>3. Held \subseteq Held' \cup {Head(up)}
        BY <2>1, <4>1, <4>2 DEF Held
      <4>4. 1 \in DOMAIN up /\ Head(up) = up[1]
        BY <3>1, <1>g
      <4> QED
        BY <4>3, <4>4 DEF Held
    <3> QED
      BY <3>2, <3>3, <3>4, <1>b
  <2>3. InFlight' = InFlight
    BY <2>1, <2>2, <1>a, <1>e
  <2> QED
    BY <2>1, <2>3, <1>d
<1>32. ASSUME NEW op \in Unsolicited, SendEvent(op)
      PROVE  Lib!Next \/ UNCHANGED Lib!vars
  <2>1. UNCHANGED <<libVars, w, up, wev>>
    BY <1>32 DEF SendEvent
  <2>2. VendorPackets' = VendorPackets
    <3> DEFINE p == Packet("nobody", "none", op, TRUE)
    <3>1. p \in Packets /\ p.by # "vendor" /\ down' = Append(down, p)
      BY <1>32 DEF SendEvent, Packet, Packets
    <3> HIDE DEF p
    <3>2. Held' = Held \cup {p}
      BY <2>1, <3>1, <1>g, QueueSets DEF Held
    <3> QED
      BY <3>1, <3>2, <1>b
  <2>3. InFlight' = InFlight
    BY <2>1, <2>2, <1>a, <1>e
  <2> QED
    BY <2>1, <2>3, <1>d
<1>33. CASE ServiceDies
  <2>1. api # "off"
    BY <1>33, LibraryFacts DEF ServiceDies, CleanInv
  <2>2. InFlight' = "none" /\ w' = "none"
    BY <1>33, <1>a DEF ServiceDies, Die
  <2>3. Lib!ServiceDies
    BY <1>33, <2>1, <2>2 DEF ServiceDies, Die, Lib!ServiceDies, Lib!SessionOver, Lib!Unload, Lib!NoCmd
  <2> QED
    BY <2>3 DEF Lib!Next
<1>34. CASE UNCHANGED vars
  BY <1>34, <1>f DEF vars
<1> QED
  BY <1>1, <1>2, <1>3, <1>4, <1>5, <1>6, <1>7, <1>8, <1>9, <1>10, <1>11, <1>12, <1>13,
     <1>14, <1>15, <1>16, <1>17, <1>18, <1>19, <1>20, <1>21, <1>22, <1>23, <1>24,
     <1>25, <1>26, <1>27, <1>28, <1>29, <1>30, <1>31, <1>32, <1>33, <1>34
     DEF Next, Configure, LibCleanup, CloseNext, Advance, ThreadNext, WatcherNext,
         ControllerAnswers

-----------------------------------------------------------------------------
(* A Nop taken for the answer to the first command of a process.           *)

(* It happens in one step of the watcher: the callback of the first        *)
(* command is registered, its opcode is not.                               *)
LEMMA MixStart == CleanInv /\ [Next]_vars /\ mixed' => MixedInv'
<1> SUFFICES ASSUME CleanInv, Next, mixed' PROVE MixedInv'
  BY DEF vars, CleanInv
<1>0. HalIInv /\ ~mixed /\ SessionInv /\ ReportInv /\ RegistrationInv
  BY DEF CleanInv, HalIInv
<1>1. Match /\ w' = "take" /\ wev.by # "vendor"
  BY <1>0
     DEF Next, Configure, LibCleanup, CloseNext, Advance, ThreadNext, WatcherNext,
         ControllerAnswers, vars, Die, Open, CloseStop, CloseJoin, CloseDelete, RegisterCb,
         RegisterOpcode, Transmit, TransmitToNull, TestRunning, Select, TestCb, Match,
         TakeCb, ClearCb, RunHandler, ToClient, ClientSend, Answer, SendEvent, ServiceDies
<1>2. wev \in Held /\ wev \in Packets /\ wev.by \in {"vendor", "client", "nobody"}
  BY <1>0 DEF HalIInv, HalTypeOK, Packets, Held
<1>3. w = "match" /\ wev.op # NotComplete /\ wev.op = iop
  BY <1>1 DEF Match
<1>4. wev.op = Nop /\ iop = Nop
  <2>1. wev.by = "nobody"
    BY <1>0, <1>1, <1>2, <1>3 DEF RegistrationInv
  <2>2. wev.op \in Unsolicited
    BY <1>0, <1>2, <1>3, <2>1 DEF HalIInv, OwnerInv
  <2>3. iop \in { OpCode(c) : c \in MtkCommands } \cup {Nop}
    BY <1>0 DEF HalIInv, HalTypeOK
  <2> QED
    BY <1>3, <2>2, <2>3, InterfaceAssumption
<1>5. thr = "send" /\ xpc = "opcode" /\ cmd_status = "PENDING" /\ told = "none"
  BY <1>0, <1>3, <1>4 DEF RegistrationInv, ReportInv, SessionInv
<1>6. NothingOut /\ api \notin {"off", "fwcfg"}
  BY <1>5, BaseFacts DEF IInv
<1>7. /\ idx \in 1..Len(script) /\ mutex = "live"
      /\ device \in Lib!Devices /\ addr \in Lib!Addr /\ nvram \in Lib!Addr \cup {"blank"}
  BY <1>5 DEF CleanInv, Lib!IInv, Lib!TypeOK, Lib!ScriptInv, script
<1>8. UNCHANGED <<libVars, xpc, wev, up, down, script>> /\ UNCHANGED NothingOut
  BY <1>1, ScriptFixed DEF Match, uartVars, NothingOut
<1>9. MixedCore'
  BY <1>1, <1>4, <1>5, <1>6, <1>7, <1>8 DEF MixedCore, libVars
<1> QED
  BY <1>9, HalTypeStep, SessionStep, WireStep DEF IInv, MixedInv, WireInv

(* Until the session is over the init thread goes on to its failure.       *)
LEMMA MixedStep == mixed /\ MixedInv /\ [Next]_vars /\ mixed' => MixedInv'
<1> SUFFICES ASSUME mixed, MixedInv, [Next]_vars, mixed' PROVE MixedCore'
  BY HalTypeStep, SessionStep, WireStep DEF IInv, MixedInv, WireInv
<1>0. MixedCore /\ HalTypeOK /\ SessionInv
  BY DEF MixedInv
<1>a. script' = script /\ device' = device
  BY ScriptFixed
<1>b. UNCHANGED <<up, down, wev>> => NothingOut' = NothingOut
  BY DEF NothingOut
<1>c. Len(script) \in Nat /\ Lib!End = Len(script) + 1 /\ NoPacket.by = "nobody"
  BY ScriptsAssumption DEF Lib!ScriptsOK, Lib!End, script, Lib!script, NoPacket, Packet
<1>d. thr \in {"send", "wait"} => OpCode(Cmd) # Nop
  <2>1. script \in Seq(MtkCommands)
    BY ScriptsAssumption DEF Lib!ScriptsOK, script, Lib!script
  <2> QED
    BY <1>0, <2>1, OpCodesReal DEF MixedCore, Cmd
<1>e. device.efuse \in Lib!Addr
  BY <1>0 DEF MixedCore, Lib!Devices, Lib!Addr
<1> USE <1>0, <1>a DEF MixedCore, SessionInv,
        libVars, halVars, watchVars, uartVars,
        Lib!apiVars, Lib!syncVars, Lib!thrVars, Lib!cmdVars, Lib!addrVars
<1>1. CASE Lib!SetRunning /\ UNCHANGED halVars
  BY <1>1, <1>b DEF Lib!SetRunning
<1>2. CASE Lib!Cleanup /\ UNCHANGED halVars
  BY <1>2, <1>b DEF Lib!Cleanup
<1>3. CASE Lib!NotifyThreadExit /\ UNCHANGED halVars
  BY <1>3, <1>b DEF Lib!NotifyThreadExit
<1>4. CASE Lib!WaitDone /\ UNCHANGED halVars
  BY <1>4, <1>b DEF Lib!WaitDone
<1>5. CASE Lib!ThreadExit /\ UNCHANGED halVars
  BY <1>5, <1>b, <1>c DEF Lib!ThreadExit
<1>6. CASE Lib!Report /\ UNCHANGED halVars
  BY <1>6, <1>b DEF Lib!Report
<1>7. CASE Lib!ClearRunning /\ UNCHANGED halVars
  BY <1>7, <1>b DEF Lib!ClearRunning
<1>8. CASE CloseStop
  BY <1>8, <1>b DEF CloseStop
<1>9. CASE CloseJoin
  BY <1>9, <1>b DEF CloseJoin
<1>10. CASE CloseDelete
  <2>1. w = "none" /\ wev' = wev /\ up' = <<>> /\ down' = <<>>
    BY <1>10 DEF CloseDelete
  <2>2. NothingOut => NothingOut'
    BY <2>1 DEF NothingOut
  <2> QED
    BY <1>10, <2>2 DEF CloseDelete
<1>11. CASE RegisterOpcode
  BY <1>11, <1>b DEF RegisterOpcode
<1>12. ASSUME NEW writeOk \in BOOLEAN, Transmit(writeOk)
       PROVE  MixedCore'
  <2>1. addr' \in Lib!Addr /\ nvram' \in Lib!Addr \cup {"blank"}
    BY <1>12
       DEF Transmit, Lib!SaveAddr, Lib!ChosenAddr, Lib!GetRandomValue,
           Lib!WriteBDAddrToNvram, Lib!Addr
  <2> QED
    BY <1>12, <2>1 DEF Transmit
<1>13. CASE TestRunning
  BY <1>13, <1>b DEF TestRunning
<1>14. CASE Select
  <2>1. up \in Seq(Packets) /\ down \in Seq(Packets)
    BY DEF HalTypeOK
  <2>2. NothingOut => NothingOut'
    <3>1. CASE UNCHANGED <<up, down, wev>>
      BY <3>1, <1>b
    <3>2. CASE down # <<>> /\ wev' = Head(down) /\ down' = Tail(down) /\ up' = up
      <4>1. /\ 1 \in DOMAIN down /\ wev' = down[1]
            /\ \A i \in DOMAIN down' : i + 1 \in DOMAIN down /\ down'[i] = down[i + 1]
        BY <2>1, <3>2
      <4> QED
        BY <3>2, <4>1 DEF NothingOut, IsCommand
    <3> QED
      BY <1>14, <3>1, <3>2 DEF Select
  <2> QED
    BY <1>14, <2>2 DEF Select
<1>15. CASE TestCb
  BY <1>15, <1>b DEF TestCb
<1>16. CASE TakeCb
  BY <1>16, <1>b DEF TakeCb
<1>17. CASE ClearCb
  BY <1>17, <1>b DEF ClearCb
<1>18. CASE RunHandler
  <2>1. cmd_status' = "FAIL"
    BY <1>18, <1>d DEF RunHandler
  <2>2. NothingOut => NothingOut'
    BY <1>18, <1>c DEF RunHandler, NothingOut, IsCommand
  <2>3. addr' \in Lib!Addr
    BY <1>18, <1>e DEF RunHandler
  <2> QED
    BY <1>18, <2>1, <2>2, <2>3 DEF RunHandler
<1>19. CASE ToClient
  <2>1. NothingOut => NothingOut'
    BY <1>19, <1>c DEF ToClient, NothingOut, IsCommand
  <2> QED
    BY <1>19, <2>1 DEF ToClient
<1>20. ASSUME NEW ok \in BOOLEAN, Answer(ok)
       PROVE  MixedCore'
  <2>1. ~NothingOut
    BY <1>20 DEF Answer, NothingOut
  <2> QED
    BY <1>20, <2>1 DEF Answer
<1>21. ASSUME NEW op \in Unsolicited, SendEvent(op)
       PROVE  MixedCore'
  <2> DEFINE p == Packet("nobody", "none", op, TRUE)
  <2>1. p \in Packets /\ ~IsCommand(p)
    BY <1>21 DEF Packet, Packets, IsCommand
  <2>2. UNCHANGED <<up, wev>> /\ down' = Append(down, p) /\ down \in Seq(Packets)
    BY <1>21 DEF SendEvent, HalTypeOK
  <2> HIDE DEF p
  <2>3. NothingOut => NothingOut'
    <3>1. /\ DOMAIN down' = 1..(Len(down) + 1) /\ DOMAIN down = 1..Len(down) /\ Len(down) \in Nat
          /\ down'[Len(down) + 1] = p /\ \A i \in DOMAIN down : down'[i] = down[i]
      BY <2>1, <2>2, AppendFacts
    <3>2. \A i \in DOMAIN down' : i # Len(down) + 1 => i \in DOMAIN down
      BY <3>1
    <3> QED
      BY <2>1, <2>2, <3>1, <3>2 DEF NothingOut
  <2> QED
    BY <1>21, <2>3 DEF SendEvent
<1>22. CASE UNCHANGED vars
  BY <1>22, <1>b DEF vars
<1> QED
  <2>1. \A ok \in BOOLEAN : ~Open(ok)
    BY DEF Open
  <2>2. ~Configure \/ (Lib!SetRunning /\ UNCHANGED halVars)
    BY DEF Configure, Lib!FwCfgFails, Lib!FwCfg
  <2>3. ~LibCleanup \/ (UNCHANGED halVars /\ (Lib!Cleanup \/ Lib!NotifyThreadExit))
    BY DEF LibCleanup
  <2>4. Advance => UNCHANGED halVars /\ (Lib!WaitDone \/ Lib!ThreadExit \/ Lib!Report \/ Lib!ClearRunning)
    BY DEF Advance, Lib!ThreadInit, Lib!LoopTest, Lib!Arm
  <2>5. ~RegisterCb /\ ~TransmitToNull /\ ~ServiceDies /\ ~Match
    BY DEF RegisterCb, TransmitToNull, ServiceDies, Die, Match
  <2>6. \A op \in ClientOps : ~ClientSend(op)
    BY DEF ClientSend
  <2> QED
    BY <1>1, <1>2, <1>3, <1>4, <1>5, <1>6, <1>7, <1>8, <1>9, <1>10, <1>11, <1>12, <1>13,
       <1>14, <1>15, <1>16, <1>17, <1>18, <1>19, <1>20, <1>21, <1>22,
       <2>1, <2>2, <2>3, <2>4, <2>5, <2>6
       DEF Next, CloseNext, ThreadNext, WatcherNext, ControllerAnswers

(* Such a session ends with the library unloaded.                          *)
LEMMA MixedEnds ==
  mixed /\ MixedInv /\ [Next]_vars /\ ~mixed' =>
    Lib!Next /\ Lib!SessionOver /\ w' = "none" /\ xpc' = "cb" /\ icb' = "none"
<1> SUFFICES ASSUME mixed, MixedInv, [Next]_vars, ~mixed'
             PROVE  /\ Lib!Next /\ Lib!SessionOver
                    /\ w' = "none" /\ xpc' = "cb" /\ icb' = "none"
  OBVIOUS
<1>0. MixedCore /\ SessionInv
  BY DEF MixedInv
<1>1. (LibCleanup /\ Lib!Join) \/ Die
  BY DEF Next, Configure, LibCleanup, CloseNext, Advance, ThreadNext, WatcherNext,
         ControllerAnswers, vars, Open, CloseStop, CloseJoin, CloseDelete, RegisterCb,
         RegisterOpcode, Transmit, TransmitToNull, TestRunning, Select, TestCb, Match,
         TakeCb, ClearCb, RunHandler, ToClient, ClientSend, Answer, SendEvent, ServiceDies
<1>2. CASE LibCleanup /\ Lib!Join
  <2>1. Lib!Next /\ Lib!SessionOver
    BY <1>2 DEF Lib!Next, Lib!ApiNext, Lib!Join
  <2>2. api = "join" /\ thr \in {"none", "done"} /\ UNCHANGED halVars
    BY <1>2 DEF LibCleanup, Lib!Join
  <2> QED
    BY <1>0, <2>1, <2>2 DEF MixedCore, SessionInv, halVars, watchVars, HalTypeOK
<1>3. CASE Die
  <2>1. InFlight' = "none" /\ w' = "none" /\ api # "off"
    BY <1>0, <1>3 DEF Die, InFlight, MixedCore
  <2>2. Lib!SessionOver
    BY <1>3, <2>1 DEF Die, Lib!SessionOver, Lib!Unload, Lib!NoCmd
  <2> QED
    BY <1>3, <2>1, <2>2 DEF Die, Lib!Next, Lib!ServiceDies
<1> QED
  BY <1>1, <1>2, <1>3

(* An unloaded library starts afresh.                                      *)
LEMMA Afresh ==
  ASSUME mixed, MixedInv, [Next]_vars, ~mixed'
  PROVE  CleanInv'
<1>0. MixedCore /\ Lib!SessionOver /\ w' = "none" /\ xpc' = "cb" /\ icb' = "none"
  BY MixedEnds DEF MixedInv
<1>1. /\ api' = "off" /\ told' = "none" /\ cmd_status' = "SUCCESS" /\ mutex' = "raw"
      /\ worker_thread_running' = FALSE /\ thr' = "none" /\ idx' = 1 /\ ret' = "none"
      /\ addr' = "zero" /\ fgGetEFUSE' = FALSE /\ InFlight' = "none" /\ acked' = {}
      /\ nvOk' = TRUE /\ ctrl' = "zero" /\ device' = device /\ nvram' = nvram
  BY <1>0 DEF Lib!SessionOver, Lib!Unload, Lib!NoCmd
<1>2. SessionInv' /\ HalTypeOK' /\ WireInv'
  BY SessionStep, HalTypeStep, WireStep DEF IInv
<1>3. Lib!IInv'
  <2>1. Len(Lib!script') \in Nat /\ Lib!End' \in Nat /\ Lib!End' >= 1
    BY ScriptsAssumption DEF Lib!ScriptsOK, Lib!End, Lib!script
  <2>2. Lib!TypeOK'
    <3>1. device' \in Lib!Devices /\ nvram' \in Lib!Addr \cup {"blank"}
      BY <1>0, <1>1 DEF MixedCore
    <3>2. idx' \in 1..Lib!End' /\ acked' \subseteq 1..Lib!End'
      BY <1>1, <2>1
    <3>3. addr' \in Lib!Addr /\ ctrl' \in Lib!Addr
      BY <1>1 DEF Lib!Addr, Lib!Unset
    <3> QED
      BY <1>0, <1>1, <3>1, <3>2, <3>3
         DEF Lib!TypeOK, Lib!ApiPc, Lib!ThrPc, Lib!Results, Lib!NoCmd
  <2> QED
    BY <1>0, <1>1, <2>2
       DEF Lib!IInv, Lib!ThreadWithinSession, Lib!FlagCoversThread, Lib!TerminateAsked,
           Lib!HandshakeInv, Lib!CompletionAwaited, Lib!ScriptInv,
           Lib!SuccessMeansConfigured, Lib!AddrInv, Lib!NoCmd
<1>4. HalIInv'
  <2>1. hci' = "null"
    <3>1. CASE cl' = "none"
      BY <1>1, <1>2, <3>1 DEF SessionInv
    <3>2. CASE cl' # "none"
      BY <1>1, <1>2, <3>2 DEF SessionInv, HalTypeOK
    <3> QED
      BY <3>1, <3>2
  <2>2. up' = <<>> /\ down' = <<>> /\ wev' = NoPacket
    BY <1>0, <1>2, <2>1 DEF SessionInv
  <2>3. \A p \in Held' : p = NoPacket
    BY <2>2 DEF Held
  <2>4. NoPacket.by = "nobody" /\ NoPacket.op = NotComplete
    BY DEF NoPacket, Packet
  <2>5. OwnerInv'
    BY <2>3, <2>4 DEF OwnerInv
  <2> QED
    BY <1>0, <1>1, <1>2, <2>5
       DEF HalIInv, WireInv, ReportInv, RegistrationInv, ResetInv
<1> QED
  BY <1>3, <1>4 DEF CleanInv
-----------------------------------------------------------------------------
(* The inductive invariant holds in every reachable state.                 *)
THEOREM Invariance == Spec => []IInv
<1>1. Init => IInv
  <2>1. Init => Lib!Init
    BY DEF Init, InitHal, Lib!Init, Lib!NoCmd, Lib!Unset, InFlight
  <2> QED
    BY <2>1, HalKeeps, LibraryKeeps DEF IInv, CleanInv, Init, InitHal
<1>2. IInv /\ [Next]_vars => IInv'
  <2>1. CleanInv /\ ~mixed' /\ [Next]_vars => CleanInv'
    BY HalKeeps, RefinementStep, LibraryKeeps DEF CleanInv
  <2>2. mixed /\ MixedInv /\ ~mixed' /\ [Next]_vars => CleanInv'
    BY Afresh
  <2> QED
    BY <2>1, <2>2, MixStart, MixedStep DEF IInv
<1> QED
  BY <1>1, <1>2, PTL DEF Spec

(* The HAL with its watcher thread, its unsynchronised internal_command    *)
(* and the steps of Close is the environment FwInit assumes, up to a Nop   *)
(* that is taken for an answer and again from the end of that session on.  *)
THEOREM Refinement == Spec => Implements
<1>1. Init => Lib!Init
  BY DEF Init, InitHal, Lib!Init, Lib!NoCmd, Lib!Unset, InFlight
<1>2. IInv /\ [Next]_vars => [Lib!Next \/ mixed']_(Lib!vars)
  <2>1. CleanInv /\ ~mixed' /\ [Next]_vars => [Lib!Next]_(Lib!vars)
    BY RefinementStep
  <2>2. mixed /\ MixedInv /\ ~mixed' /\ [Next]_vars => Lib!Next
    BY MixedEnds
  <2> QED
    BY <2>1, <2>2, Zenon DEF IInv
<1> QED
  BY <1>1, <1>2, Invariance, PTL DEF Spec, Implements

(* Types and life times: the packetizer is never deleted under the watcher *)
(* thread, a completion handler finds its mutex alive and the init thread  *)
(* at its command, a report is given inside the session it is for, and the *)
(* two UART queues keep within their depths - Nop or not.                  *)
THEOREM HalTheorem == Spec => []HalInv
<1>1. ASSUME IInv
      PROVE  HalInv
  <2>1. HalTypeOK /\ (w # "none" => hci = "live") /\ (thr = "report" => api \notin {"off", "fwcfg"})
    BY <1>1, BaseFacts DEF SessionInv, HalTypeOK
  <2>2. w = "call" => mutex = "live" /\ thr \in {"send", "wait"}
    <3>1. CASE CleanInv
      <4>1. w = "call" => wev \in Held /\ wev.by = "vendor"
        BY <3>1 DEF CleanInv, HalIInv, RegistrationInv, Held
      <4>2. w = "call" => thr = "wait"
        BY <3>1, <4>1 DEF CleanInv, HalIInv, OwnerInv
      <4> QED
        BY <3>1, <4>2 DEF CleanInv, Lib!IInv, Lib!ScriptInv
    <3>2. CASE mixed /\ MixedInv
      BY <3>2 DEF MixedInv, MixedCore
    <3> QED
      BY <1>1, <3>1, <3>2 DEF IInv
  <2> QED
    BY <2>1, <2>2 DEF HalInv, LifeTimes
<1> QED
  BY <1>1, Invariance, PTL

(* An answer to the library's command goes to the handler registered for   *)
(* that command while the init thread waits for it; no such answer leaks   *)
(* to the stack, and nothing else reaches a handler.  A session in which a *)
(* Nop did is never reported as a success.                                 *)
THEOREM RoutingTheorem == Spec => []RoutingOK
<1>1. CleanInv => RoutingOK
  <2>1. wev \in Held
    BY DEF Held
  <2> QED
    BY <2>1 DEF CleanInv, HalIInv, OwnerInv, RegistrationInv, Handler, RoutingOK
<1>2. mixed /\ MixedInv => RoutingOK
  BY DEF MixedInv, MixedCore, RoutingOK
<1> QED
  BY <1>1, <1>2, Invariance, PTL DEF IInv

(* What FwInit promises holds inside this HAL: close() never joins an init *)
(* thread that waits for an answer and SUCCESS is earned, even if a Nop    *)
(* was taken for an answer; and without one, handlers run only for the     *)
(* awaited command.                                                        *)
THEOREM LibrarySafeInHal ==
  Spec => [](/\ Lib!SuccessMeansConfigured
             /\ thr = "wait" /\ cmd_status = "PENDING" => api # "join"
             /\ mixed \/ (Lib!NoJoinDeadlock /\ Lib!CompletionAwaited))
<1>1. CleanInv => Lib!NoJoinDeadlock /\ Lib!CompletionAwaited /\ Lib!SuccessMeansConfigured
  BY DEF CleanInv, Lib!IInv, Lib!TerminateAsked, Lib!HandshakeInv, Lib!NoJoinDeadlock
<1>2. mixed /\ MixedInv =>
        Lib!SuccessMeansConfigured /\ (thr = "wait" /\ cmd_status = "PENDING" => api # "join")
  BY DEF MixedInv, MixedCore, SessionInv, Lib!SuccessMeansConfigured
<1>3. CleanInv => (thr = "wait" /\ cmd_status = "PENDING" => api # "join")
  BY <1>1 DEF Lib!NoJoinDeadlock
<1> QED
  BY <1>1, <1>2, <1>3, Invariance, PTL DEF IInv
=============================================================================
