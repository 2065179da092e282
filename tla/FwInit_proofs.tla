--------------------------- MODULE FwInit_proofs ---------------------------
(***************************************************************************)
(* Proofs about the vendor library's session (FwInit), for every table of  *)
(* scripts that satisfies ScriptAssumption.                                *)
(***************************************************************************)
EXTENDS FwInit, TLAPS

(* The running script is a sequence of commands, empty for a chip without  *)
(* one.                                                                    *)
LEMMA ScriptType ==
  /\ script \in Seq(Commands)
  /\ Len(script) \in Nat
  /\ End \in Nat \ {0}
  /\ \A j \in 1..Len(script) : script[j] \in Commands /\ script[j] # NoCmd
<1>1. script \in Seq(Commands)
  BY ScriptAssumption DEF ScriptsOK, script
<1>2. Len(script) \in Nat /\ \A j \in 1..Len(script) : script[j] \in Commands
  BY <1>1
<1>3. NoCmd \notin Commands
  BY ScriptAssumption DEF ScriptsOK
<1> QED
  BY <1>1, <1>2, <1>3 DEF End

(* A fresh process satisfies the invariant.                                *)
LEMMA InitInv == Init => IInv
<1> SUFFICES ASSUME Init PROVE IInv
  OBVIOUS
<1>1. idx \in 1..End /\ acked \subseteq 1..End
  BY ScriptType DEF Init
<1>2. TypeOK
  BY <1>1 DEF Init, TypeOK, Devices, ApiPc, ThrPc, Results, Addr, Unset, NoCmd
<1> QED
  BY <1>2 DEF Init, IInv, ThreadWithinSession, FlagCoversThread, TerminateAsked,
     HandshakeInv, CompletionAwaited, ScriptInv, SuccessMeansConfigured,
     AddrInv, SetIdx

(* The device never changes, hence neither does the running script.        *)
LEMMA ScriptFixed ==
  ASSUME [Next]_vars
  PROVE  device' = device /\ script' = script /\ End' = End /\ Consys' = Consys
<1>1. device' = device
  BY DEF Next, vars, ApiNext, ThreadNext, ServiceDies, Open, FwCfgFails, FwCfg,
     SetRunning, StopListening, Cleanup, NotifyThreadExit, Join, SessionOver, Unload, ThreadInit,
     LoopTest, Arm, Send, WaitDone, ThreadExit, Report, ClearRunning, Complete
<1> QED
  BY <1>1 DEF script, End, Consys

(* The Boolean variables stay Boolean.                                     *)
Flags == /\ listening \in BOOLEAN
         /\ worker_thread_running \in BOOLEAN
         /\ fgGetEFUSE \in BOOLEAN
         /\ nvOk \in BOOLEAN

LEMMA FlagsStep == Flags /\ [Next]_vars => Flags'
<1> SUFFICES ASSUME Flags, [Next]_vars PROVE Flags'
  OBVIOUS
<1> USE DEF Flags, apiVars, syncVars, thrVars, cmdVars, addrVars
<1>1. ASSUME NEW ok \in BOOLEAN, Open(ok)
      PROVE  Flags'
  BY <1>1, Zenon DEF Open
<1>2. CASE FwCfgFails
  BY <1>2, Zenon DEF FwCfgFails
<1>3. ASSUME NEW readOk \in BOOLEAN, NEW created \in BOOLEAN, FwCfg(readOk, created)
      PROVE  Flags'
  BY <1>3, Zenon DEF FwCfg
<1>4. CASE SetRunning
  BY <1>4, Zenon DEF SetRunning
<1>5. CASE StopListening
  BY <1>5, Zenon DEF StopListening
<1>6. CASE Cleanup
  BY <1>6, Zenon DEF Cleanup
<1>7. CASE NotifyThreadExit
  BY <1>7, Zenon DEF NotifyThreadExit
<1>8. CASE Join
  BY <1>8, Zenon DEF Join, SessionOver, Unload
<1>9. CASE ThreadInit
  BY <1>9, Zenon DEF ThreadInit
<1>10. ASSUME NEW enabled \in BOOLEAN, LoopTest(enabled)
      PROVE  Flags'
  BY <1>10, Zenon DEF LoopTest
<1>11. CASE Arm
  BY <1>11, Zenon DEF Arm
<1>12. ASSUME NEW writeOk \in BOOLEAN, Send(writeOk)
      PROVE  Flags'
  BY <1>12, Zenon DEF SaveAddr, ChosenAddr, GetRandomValue, WriteBDAddrToNvram, Send
<1>13. CASE WaitDone
  BY <1>13, Zenon DEF WaitDone
<1>14. CASE ThreadExit
  BY <1>14, Zenon DEF ThreadExit
<1>15. CASE Report
  BY <1>15, Zenon DEF Report
<1>16. CASE ClearRunning
  BY <1>16, Zenon DEF ClearRunning
<1>17. ASSUME NEW ok \in BOOLEAN, Complete(ok)
      PROVE  Flags'
  BY <1>17, Zenon DEF Complete, RetrievedAddr
<1>18. CASE ServiceDies
  BY <1>18, Zenon DEF ServiceDies, SessionOver, Unload
<1>19. CASE UNCHANGED vars
  BY <1>19, Zenon DEF vars
<1> QED
  BY <1>1, <1>2, <1>3, <1>4, <1>5, <1>6, <1>7, <1>8, <1>9, <1>10, 
     <1>11, <1>12, <1>13, <1>14, <1>15, <1>16, <1>17, <1>18, <1>19
     DEF Next, ApiNext, ThreadNext

(* Every step keeps the variables in their types.                          *)
LEMMA TypeStep == IInv /\ [Next]_vars => TypeOK'
<1> SUFFICES ASSUME IInv, [Next]_vars PROVE TypeOK'
  OBVIOUS
<1>0. TypeOK /\ Flags'
  BY FlagsStep DEF IInv, TypeOK, Flags
<1>a. thr = "wait" => idx + 1 \in 1..End
  BY <1>0, ScriptType DEF TypeOK, IInv, ScriptInv, End
<1>b. device.chip \in Chips /\ ~Consys => 2 \in 1..End
  BY ScriptAssumption, ScriptType DEF ScriptsOK, script, Consys, End
<1> USE <1>0, ScriptType, ScriptFixed
    DEF Flags, TypeOK, ApiPc, ThrPc, Results, Addr, Unset,
        apiVars, syncVars, thrVars, cmdVars, addrVars
<1>1. ASSUME NEW ok \in BOOLEAN, Open(ok)
      PROVE  TypeOK'
  BY <1>1 DEF Open
<1>2. CASE FwCfgFails
  BY <1>2 DEF FwCfgFails
<1>3. ASSUME NEW readOk \in BOOLEAN, NEW created \in BOOLEAN, FwCfg(readOk, created)
      PROVE  TypeOK'
  BY <1>3 DEF FwCfg
<1>4. CASE SetRunning
  BY <1>4 DEF SetRunning
<1>5. CASE StopListening
  BY <1>5 DEF StopListening
<1>6. CASE Cleanup
  BY <1>6 DEF Cleanup
<1>7. CASE NotifyThreadExit
  BY <1>7 DEF NotifyThreadExit
<1>8. CASE Join
  BY <1>8 DEF Join, SessionOver, Unload
<1>9. CASE ThreadInit
  BY <1>b, <1>9 DEF Consys, ThreadInit
<1>10. ASSUME NEW enabled \in BOOLEAN, LoopTest(enabled)
      PROVE  TypeOK'
  BY <1>10 DEF LoopTest
<1>11. CASE Arm
  BY <1>11 DEF Arm
<1>12. ASSUME NEW writeOk \in BOOLEAN, Send(writeOk)
      PROVE  TypeOK'
  <2>1. ChosenAddr \in Addr
    BY DEF ChosenAddr, GetRandomValue
  <2>2. addr' \in Addr /\ nvram' \in Addr \cup {"blank"}
    BY <1>12, <2>1, Zenon DEF SaveAddr, WriteBDAddrToNvram, Send
  <2> QED
    BY <1>12, <2>2 DEF IInv, ScriptInv, Send
<1>13. CASE WaitDone
  BY <1>a, <1>13 DEF WaitDone
<1>14. CASE ThreadExit
  BY <1>14 DEF ThreadExit
<1>15. CASE Report
  BY <1>15 DEF Report
<1>16. CASE ClearRunning
  BY <1>16 DEF ClearRunning
<1>17. ASSUME NEW ok \in BOOLEAN, Complete(ok)
      PROVE  TypeOK'
  BY <1>17 DEF Complete, RetrievedAddr, Devices
<1>18. CASE ServiceDies
  BY <1>18 DEF ServiceDies, SessionOver, Unload
<1>19. CASE UNCHANGED vars
  BY <1>19 DEF vars
<1> QED
  BY <1>1, <1>2, <1>3, <1>4, <1>5, <1>6, <1>7, <1>8, <1>9, <1>10, 
     <1>11, <1>12, <1>13, <1>14, <1>15, <1>16, <1>17, <1>18, <1>19
     DEF Next, ApiNext, ThreadNext

(* Every step keeps the parts of the invariant that relate the threads,    *)
(* the flag, the status and the mutex.                                     *)
ControlInv == /\ ThreadWithinSession
              /\ FlagCoversThread
              /\ TerminateAsked
              /\ HandshakeInv

LEMMA ControlStep == IInv /\ [Next]_vars => ControlInv'
<1> SUFFICES ASSUME IInv, [Next]_vars PROVE ControlInv'
  OBVIOUS
<1>0. ControlInv /\ ScriptInv /\ TypeOK
  BY DEF IInv, ControlInv
<1> USE <1>0, ScriptType, ScriptFixed
    DEF ControlInv, ThreadWithinSession, FlagCoversThread, TerminateAsked,
        HandshakeInv, CompletionAwaited, ScriptInv, TypeOK, ApiPc, ThrPc,
        apiVars, syncVars, thrVars, cmdVars, addrVars
<1>1. ASSUME NEW ok \in BOOLEAN, Open(ok)
      PROVE  ControlInv'
  BY <1>1 DEF Open
<1>2. CASE FwCfgFails
  BY <1>2 DEF FwCfgFails
<1>3. ASSUME NEW readOk \in BOOLEAN, NEW created \in BOOLEAN, FwCfg(readOk, created)
      PROVE  ControlInv'
  BY <1>3 DEF FwCfg
<1>4. CASE SetRunning
  BY <1>4 DEF SetRunning
<1>5. CASE StopListening
  BY <1>5 DEF StopListening
<1>6. CASE Cleanup
  BY <1>6 DEF Cleanup
<1>7. CASE NotifyThreadExit
  BY <1>7 DEF NotifyThreadExit
<1>8. CASE Join
  BY <1>8 DEF Join, SessionOver, Unload
<1>9. CASE ThreadInit
  BY <1>9 DEF ThreadInit
<1>10. ASSUME NEW enabled \in BOOLEAN, LoopTest(enabled)
      PROVE  ControlInv'
  BY <1>10 DEF LoopTest
<1>11. CASE Arm
  BY <1>11 DEF Arm
<1>12. ASSUME NEW writeOk \in BOOLEAN, Send(writeOk)
      PROVE  ControlInv'
  BY <1>12 DEF Send
<1>13. CASE WaitDone
  BY <1>13 DEF WaitDone
<1>14. CASE ThreadExit
  BY <1>14 DEF ThreadExit
<1>15. CASE Report
  BY <1>15 DEF Report
<1>16. CASE ClearRunning
  BY <1>16 DEF ClearRunning
<1>17. ASSUME NEW ok \in BOOLEAN, Complete(ok)
      PROVE  ControlInv'
  BY <1>17 DEF Complete, RetrievedAddr
<1>18. CASE ServiceDies
  BY <1>18 DEF ServiceDies, SessionOver, Unload
<1>19. CASE UNCHANGED vars
  BY <1>19 DEF vars
<1> QED
  BY <1>1, <1>2, <1>3, <1>4, <1>5, <1>6, <1>7, <1>8, <1>9, <1>10, 
     <1>11, <1>12, <1>13, <1>14, <1>15, <1>16, <1>17, <1>18, <1>19
     DEF Next, ApiNext, ThreadNext

(* Every step keeps what the script's progress and its report stand for.   *)
LEMMA ProgressStep == IInv /\ [Next]_vars => ScriptInv' /\ SuccessMeansConfigured'
<1> SUFFICES ASSUME IInv, [Next]_vars PROVE ScriptInv' /\ SuccessMeansConfigured'
  OBVIOUS
<1>0. ScriptInv /\ SuccessMeansConfigured /\ HandshakeInv /\ ThreadWithinSession /\ TypeOK
  BY DEF IInv
<1> USE <1>0, ScriptType, ScriptFixed
    DEF ScriptInv, SuccessMeansConfigured, HandshakeInv, CompletionAwaited,
        ThreadWithinSession, Covered, TypeOK, ApiPc, ThrPc,
        apiVars, syncVars, thrVars, cmdVars, addrVars
<1>1. ASSUME NEW ok \in BOOLEAN, Open(ok)
      PROVE  ScriptInv' /\ SuccessMeansConfigured'
  BY <1>1 DEF Open
<1>2. CASE FwCfgFails
  BY <1>2 DEF FwCfgFails
<1>3. ASSUME NEW readOk \in BOOLEAN, NEW created \in BOOLEAN, FwCfg(readOk, created)
      PROVE  ScriptInv' /\ SuccessMeansConfigured'
  BY <1>3 DEF FwCfg
<1>4. CASE SetRunning
  BY <1>4 DEF SetRunning
<1>5. CASE StopListening
  BY <1>5 DEF StopListening
<1>6. CASE Cleanup
  BY <1>6 DEF Cleanup
<1>7. CASE NotifyThreadExit
  BY <1>7 DEF NotifyThreadExit
<1>8. CASE Join
  BY <1>8 DEF Join, SessionOver, Unload
<1>9. CASE ThreadInit
  BY <1>9 DEF ThreadInit
<1>10. ASSUME NEW enabled \in BOOLEAN, LoopTest(enabled)
      PROVE  ScriptInv' /\ SuccessMeansConfigured'
  BY <1>10 DEF End, LoopTest
<1>11. CASE Arm
  BY <1>11 DEF Arm
<1>12. ASSUME NEW writeOk \in BOOLEAN, Send(writeOk)
      PROVE  ScriptInv' /\ SuccessMeansConfigured'
  BY <1>12 DEF Send
<1>13. CASE WaitDone
  BY <1>13 DEF WaitDone
<1>14. CASE ThreadExit
  BY <1>14 DEF End, ThreadExit
<1>15. CASE Report
  BY <1>15 DEF Report
<1>16. CASE ClearRunning
  BY <1>16 DEF ClearRunning
<1>17. ASSUME NEW ok \in BOOLEAN, Complete(ok)
      PROVE  ScriptInv' /\ SuccessMeansConfigured'
  BY <1>17 DEF Complete, RetrievedAddr
<1>18. CASE ServiceDies
  BY <1>18 DEF ServiceDies, SessionOver, Unload
<1>19. CASE UNCHANGED vars
  BY <1>19 DEF vars
<1> QED
  BY <1>1, <1>2, <1>3, <1>4, <1>5, <1>6, <1>7, <1>8, <1>9, <1>10, 
     <1>11, <1>12, <1>13, <1>14, <1>15, <1>16, <1>17, <1>18, <1>19
     DEF Next, ApiNext, ThreadNext

(* Every step keeps the trail of the address.                              *)
LEMMA AddrStep == IInv /\ [Next]_vars => AddrInv'
<1> SUFFICES ASSUME IInv, [Next]_vars PROVE AddrInv'
  OBVIOUS
<1>0. AddrInv /\ ScriptInv /\ HandshakeInv /\ ThreadWithinSession /\ TypeOK
  BY DEF IInv
<1>a. SetIdx' = SetIdx /\ SetIdx \in {1, 2}
  BY ScriptFixed DEF SetIdx
<1>b. \A j \in 1..Len(script) : /\ script[j] = SetAddr <=> j = SetIdx
                                /\ script[j] = GetAddr <=> j = 1 /\ ~Consys
  BY ScriptAssumption DEF ScriptsOK, script, SetIdx, Consys, GetAddr, SetAddr
<1> USE <1>0, <1>a, <1>b, ScriptType, ScriptFixed
    DEF AddrInv, Settled, Obtainable, OnDisk, ScriptInv, HandshakeInv, CompletionAwaited,
        ThreadWithinSession, TypeOK, ApiPc, ThrPc,
        apiVars, syncVars, thrVars, cmdVars, addrVars
<1>1. ASSUME NEW ok \in BOOLEAN, Open(ok)
      PROVE  AddrInv'
  BY <1>1 DEF Open
<1>2. CASE FwCfgFails
  BY <1>2 DEF FwCfgFails
<1>3. ASSUME NEW readOk \in BOOLEAN, NEW created \in BOOLEAN, FwCfg(readOk, created)
      PROVE  AddrInv'
  <2>1. acked' = {} /\ fgGetEFUSE' = fgGetEFUSE /\ nvram' = nvram
    BY <1>3 DEF FwCfg
  <2>2. nvOk' => addr' \in Unset \/ nvram' = addr'
    BY <1>3 DEF FwCfg, Unset
  <2>3. api' # "fwcfg" /\ thr' \in {"none", "init"}
    BY <1>3 DEF FwCfg
  <2> QED
    BY <2>1, <2>2, <2>3
<1>4. CASE SetRunning
  BY <1>4 DEF SetRunning
<1>5. CASE StopListening
  BY <1>5 DEF StopListening
<1>6. CASE Cleanup
  BY <1>6 DEF Cleanup
<1>7. CASE NotifyThreadExit
  BY <1>7 DEF NotifyThreadExit
<1>8. CASE Join
  BY <1>8 DEF Join, SessionOver, Unload
<1>9. CASE ThreadInit
  <2>1. /\ thr = "init" /\ thr' \in {"exit", "loop"}
        /\ UNCHANGED <<api, acked, addr, nvram, nvOk, ctrl>>
    BY <1>9 DEF ThreadInit
  <2>2. CASE Consys
    BY <1>9, <2>1, <2>2 DEF SetIdx, ThreadInit
  <2>3. CASE ~Consys
    <3>1. thr' = "loop" => /\ idx' = IF fgGetEFUSE' THEN 1 ELSE 2
                           /\ ~fgGetEFUSE' => ~fgGetEFUSE /\ addr \notin Unset
      BY <1>9, <2>3 DEF ThreadInit
    <3>2. acked = {} /\ SetIdx = 2
      BY <2>1, <2>3 DEF SetIdx
    <3> QED
      BY <2>1, <2>3, <3>1, <3>2
  <2> QED
    BY <2>2, <2>3
<1>10. ASSUME NEW enabled \in BOOLEAN, LoopTest(enabled)
      PROVE  AddrInv'
  <2>1. thr = "loop" /\ acked' = acked /\ UNCHANGED <<api, addrVars>>
    BY <1>10 DEF LoopTest
  <2>2. CASE idx' = idx
    BY <1>10, <2>1, <2>2 DEF LoopTest
  <2>3. CASE idx' = idx + 1 /\ thr' = "loop" /\ idx \in 1..Len(script) /\ script[idx] \in DebugCmds
    <3>1. idx # SetIdx /\ (idx = 1 => Consys)
      BY <2>3 DEF DebugCmds, SetAddr, GetAddr
    <3>2. idx > SetIdx
      BY <3>1, <2>3 DEF SetIdx
    <3> QED
      BY <2>1, <2>3, <3>2
  <2> QED
    BY <1>10, <2>2, <2>3 DEF LoopTest, End
<1>11. CASE Arm
  BY <1>11 DEF Arm
<1>12. ASSUME NEW writeOk \in BOOLEAN, Send(writeOk)
      PROVE  AddrInv'
  <2>1. /\ thr = "send" /\ thr' = "wait" /\ idx \in 1..Len(script)
        /\ UNCHANGED <<api, idx, acked, ctrl>>
    BY <1>12 DEF Send
  <2>2. CASE idx = SetIdx
    <3>1. SaveAddr(writeOk)
      BY <1>12, <2>1, <2>2 DEF Send
    <3>2. addr' = ChosenAddr /\ (Obtainable => addr' \notin Unset)
      <4>1. addr' = ChosenAddr
        BY <3>1 DEF SaveAddr
      <4>2. ChosenAddr \in Unset => addr \in Unset /\ ~device.eng
        BY DEF ChosenAddr, GetRandomValue, Unset
      <4>3. ~Consys /\ addr \in Unset => addr = device.efuse
        BY <2>1, <2>2 DEF SetIdx
      <4>4. ChosenAddr = addr \/ device.eng
        BY DEF ChosenAddr
      <4> QED
        BY <4>1, <4>2, <4>3, <4>4 DEF Obtainable
    <3>3. ASSUME nvOk' PROVE OnDisk(addr)'
      <4>1. nvOk /\ (addr \in Unset \/ fgGetEFUSE => writeOk)
        BY <3>1, <3>3, Zenon DEF SaveAddr, WriteBDAddrToNvram
      <4>2. CASE addr \in Unset \/ fgGetEFUSE
        <5>1. nvram' = IF ~(addr' = "zero" /\ nvram = "blank") THEN addr' ELSE nvram
          BY <3>1, <3>2, <4>1, <4>2, Zenon DEF SaveAddr, WriteBDAddrToNvram
        <5> QED
          BY <5>1 DEF OnDisk
      <4>3. CASE ~(addr \in Unset \/ fgGetEFUSE)
        <5>1. addr' = addr /\ nvram' = nvram
          BY <3>1, <3>2, <4>3, Zenon DEF SaveAddr, ChosenAddr
        <5> QED
          BY <2>1, <2>2, <4>1, <4>3, <5>1 DEF OnDisk
      <4> QED
        BY <4>2, <4>3
    <3>4. Settled(addr)'
      BY <3>2, <3>3 DEF Settled
    <3> QED
      BY <2>1, <2>2, <3>4 DEF SetIdx
  <2>3. CASE idx # SetIdx
    <3>1. UNCHANGED <<addr, nvram, nvOk, fgGetEFUSE>>
      BY <1>12, <2>1, <2>3 DEF Send
    <3> QED
      BY <2>1, <2>3, <3>1 DEF SetIdx
  <2> QED
    BY <2>2, <2>3
<1>13. CASE WaitDone
  <2>1. thr = "wait" /\ idx \in 1..Len(script) /\ UNCHANGED <<api, acked, addrVars>>
    BY <1>13 DEF WaitDone
  <2>2. CASE thr' = "exit" /\ idx' = idx
    BY <2>1, <2>2
  <2>3. CASE thr' = "loop" /\ idx' = idx + 1
    <3>1. idx' <= SetIdx => fgGetEFUSE
      BY <2>1, <2>3 DEF SetIdx
    <3>2. idx' > SetIdx => Settled(addr)
      BY <2>1, <2>3
    <3>3. idx' = 2 /\ ~Consys => fgGetEFUSE /\ addr = device.efuse
      BY <1>13, <2>1, <2>3 DEF WaitDone
    <3> QED
      BY <2>1, <2>3, <3>1, <3>2, <3>3
  <2> QED
    BY <1>13, <2>2, <2>3 DEF WaitDone
<1>14. CASE ThreadExit
  BY <1>14 DEF ThreadExit
<1>15. CASE Report
  BY <1>15 DEF Report
<1>16. CASE ClearRunning
  BY <1>16 DEF ClearRunning
<1>17. ASSUME NEW ok \in BOOLEAN, Complete(ok)
      PROVE  AddrInv'
  <2>1. /\ thr = "wait" /\ idx \in 1..Len(script) /\ xmit = script[idx]
        /\ UNCHANGED <<api, thr, idx, fgGetEFUSE, nvram, nvOk>>
    BY <1>17 DEF Complete, RetrievedAddr
  <2>2. CASE idx = SetIdx
    <3>1. addr' = addr /\ xmit = SetAddr
      BY <1>17, <2>1, <2>2 DEF Complete, RetrievedAddr, SetAddr, GetAddr
    <3>2. SetIdx \in acked' => Settled(ctrl)'
      <4>1. CASE ok
        BY <1>17, <2>1, <2>2, <3>1, <4>1 DEF Complete
      <4>2. CASE ~ok
        BY <1>17, <2>1, <2>2, <3>1, <4>2 DEF Complete
      <4> QED
        BY <4>1, <4>2
    <3> QED
      BY <1>17, <2>1, <2>2, <3>1, <3>2 DEF Complete, RetrievedAddr
  <2>3. CASE idx > SetIdx
    <3>1. UNCHANGED <<addr, ctrl>> /\ (SetIdx \in acked' => SetIdx \in acked)
      BY <1>17, <2>1, <2>3 DEF Complete, RetrievedAddr
    <3> QED
      BY <1>17, <2>1, <2>3, <3>1 DEF Complete, RetrievedAddr
  <2>4. CASE idx < SetIdx
    BY <1>17, <2>1, <2>4 DEF Complete, RetrievedAddr
  <2> QED
    BY <2>1, <2>2, <2>3, <2>4
<1>18. CASE ServiceDies
  BY <1>18 DEF ServiceDies, SessionOver, Unload
<1>19. CASE UNCHANGED vars
  BY <1>19 DEF vars
<1> QED
  BY <1>1, <1>2, <1>3, <1>4, <1>5, <1>6, <1>7, <1>8, <1>9, <1>10, 
     <1>11, <1>12, <1>13, <1>14, <1>15, <1>16, <1>17, <1>18, <1>19
     DEF Next, ApiNext, ThreadNext

(* The invariant is inductive.                                             *)
LEMMA InvStep == IInv /\ [Next]_vars => IInv'
BY TypeStep, ControlStep, ProgressStep, AddrStep DEF IInv, ControlInv

(* The inductive invariant holds in every reachable state.                 *)
THEOREM InvariantHolds == Spec => []IInv
<1>1. Init => IInv
  BY InitInv
<1>2. IInv /\ [Next]_vars => IInv'
  BY InvStep
<1> QED
  BY <1>1, <1>2, PTL DEF Spec

(* The variables keep their types.                                         *)
THEOREM TypeCorrect == Spec => []TypeOK
<1>1. IInv => TypeOK
  BY DEF IInv
<1> QED
  BY <1>1, InvariantHolds, PTL

(* close() never blocks in pthread_join behind a thread that waits for an  *)
(* answer: the thread would see CMD_TERMINATE.                             *)
THEOREM NeverJoinDeadlocks == Spec => []NoJoinDeadlock
<1>1. IInv => NoJoinDeadlock
  BY DEF IInv, TerminateAsked, HandshakeInv, NoJoinDeadlock
<1> QED
  BY <1>1, InvariantHolds, PTL

(* A completion handler only runs for the command the init thread waits    *)
(* for, and on a live mutex.                                               *)
THEOREM CompletionsAwaited == Spec => []CompletionAwaited
<1>1. IInv => CompletionAwaited
  BY DEF IInv, HandshakeInv
<1> QED
  BY <1>1, InvariantHolds, PTL

(* SUCCESS is reported only when every command that may not be skipped was *)
(* acknowledged in the session.                                            *)
THEOREM SuccessIsEarned == Spec => []SuccessMeansConfigured
<1>1. IInv => SuccessMeansConfigured
  BY DEF IInv
<1> QED
  BY <1>1, InvariantHolds, PTL

(* The init thread is joined before its session ends.                      *)
THEOREM ThreadJoinedInSession == Spec => []ThreadWithinSession
<1>1. IInv => ThreadWithinSession
  BY DEF IInv
<1> QED
  BY <1>1, InvariantHolds, PTL

(* After a reported success the controller has an address of its own,      *)
(* unless a user build found none, and it is the one on disk.              *)
THEOREM AddressIsSettled == Spec => []AddressSettled
<1>1. IInv => AddressSettled
  <2> SUFFICES ASSUME IInv, told = "success" PROVE Settled(ctrl)
    BY DEF AddressSettled
  <2>1. device.chip \in Chips /\ \A j \in 1..Len(script) : Covered(j)
    BY DEF IInv, SuccessMeansConfigured
  <2>2. SetIdx \in 1..Len(script) /\ script[SetIdx] = SetAddr
    BY <2>1, ScriptAssumption, ScriptType DEF ScriptsOK, script, SetIdx, Consys
  <2>3. SetIdx \in acked
    BY <2>1, <2>2 DEF Covered, SetIdx, DebugCmds, SetAddr
  <2> QED
    BY <2>3 DEF IInv, AddrInv
<1> QED
  BY <1>1, InvariantHolds, PTL

(* Nothing but the end of the init thread's wait and script takes          *)
(* CMD_TERMINATE back, until the library is unloaded.                      *)
THEOREM TerminateIsNotLost == Spec => TerminateSticks
<1>1. IInv /\ [Next]_vars =>
        [cmd_status = "TERMINATE" /\ cmd_status' # "TERMINATE" =>
           (thr = "wait" /\ thr' = "exit") \/ api' = "off"]_vars
  <2> SUFFICES ASSUME IInv, Next, cmd_status = "TERMINATE", cmd_status' # "TERMINATE"
               PROVE  (thr = "wait" /\ thr' = "exit") \/ api' = "off"
    OBVIOUS
  <2>1. \A ok \in BOOLEAN : ~Complete(ok)
    BY DEF IInv, HandshakeInv, CompletionAwaited, Complete, RetrievedAddr
  <2> QED
    BY <2>1 DEF Next, ApiNext, ThreadNext, Open, FwCfgFails, FwCfg, SetRunning,
       StopListening, Cleanup, NotifyThreadExit, Join, ThreadInit, LoopTest, Arm,
       Send, WaitDone, ThreadExit, Report, ClearRunning, ServiceDies, SessionOver, syncVars
<1> QED
  BY <1>1, InvariantHolds, PTL DEF Spec, TerminateSticks
=============================================================================
