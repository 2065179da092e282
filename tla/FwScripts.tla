------------------------------ MODULE FwScripts ------------------------------
(***************************************************************************)
(* The HCI command scripts the MediaTek vendor library sends to a chip     *)
(* when Bluetooth is switched on, and the command each GORMcmd_HCC_...     *)
(* function builds (libbt-vendor/radiomod.c).  Parameter bytes come from   *)
(* NVRAM or are literals; what matters here is how many are written.       *)
(***************************************************************************)
EXTENDS Integers, Sequences

(* A table ends where the sequence ends.                                   *)
Script6628 ==
  << "Get_Local_BD_Addr", "Set_Local_BD_Addr", "Set_LinkKeyType", "Set_UnitKey",
     "Set_Encryption", "Set_PinCodeType", "Set_Voice", "Set_PCM", "Set_Radio",
     "Set_TX_Power_Offset", "Set_Sleep_Timeout", "Set_BT_FTR", "Set_OSC_Info",
     "Set_LPO_Info", "Set_PTA", "Set_BLEPTA", "RESET", "Set_Internal_PTA_1",
     "Set_Internal_PTA_2", "Set_RF_Reg_100", "Set_FW_SysLog" >>

Script6630 ==
  << "Get_Local_BD_Addr", "Set_Local_BD_Addr", "Set_PCM", "Set_Radio",
     "Set_TX_Power_Offset", "Set_Sleep_Timeout", "Coex_Performance_Adjust",
     "Set_FW_SysLog", "Set_SSP_Debug_Mode" >>

Script6632 ==
  << "Get_Local_BD_Addr", "Set_Local_BD_Addr", "Set_PCM", "Set_Radio",
     "Set_TX_Power_Offset", "Set_Sleep_Timeout", "RESET", "Set_FW_SysLog",
     "Set_SSP_Debug_Mode" >>

ScriptConsys ==
  << "Set_Local_BD_Addr", "Set_Radio", "Set_TX_Power_Offset",
     "Set_Sleep_Timeout", "RESET", "Set_FW_SysLog", "Set_SSP_Debug_Mode" >>

MtkScript == [ mt6628 |-> Script6628, mt6630 |-> Script6630,
               mt6632 |-> Script6632, consys |-> ScriptConsys ]
-----------------------------------------------------------------------------
(* A command as it is handed to xmit_cb: the opcode, p_cmd->len, the       *)
(* parameter length byte, and the number of parameter bytes written.       *)
Frame(opcode, len, plen, params) ==
  [opcode |-> opcode, len |-> len, plen |-> plen, params |-> params]

Get_Local_BD_Addr       == Frame("1009", 3, 0, 0)
Set_Local_BD_Addr       == Frame("FC1A", 9, 6, 6)
Set_LinkKeyType         == Frame("FC1B", 4, 1, 1)
Set_UnitKey             == Frame("FC75", 19, 16, 16)
Set_Encryption          == Frame("FC76", 6, 3, 3)
Set_PinCodeType         == Frame("0C0A", 4, 1, 1)
Set_Voice               == Frame("0C26", 5, 2, 2)
Set_PCM                 == Frame("FC72", 7, 4, 4)

(* The MT6632 has an extended radio and TX power record.                   *)
Set_Radio(chip) ==
  IF chip # "mt6632" THEN Frame("FC79", 9, 6, 6) ELSE Frame("FC79", 11, 8, 8)

Set_TX_Power_Offset(chip) ==
  IF chip # "mt6632" THEN Frame("FC93", 6, 3, 3) ELSE Frame("FC93", 9, 6, 6)

Set_Sleep_Timeout       == Frame("FC7A", 10, 7, 7)
Coex_Performance_Adjust == Frame("FC22", 9, 6, 6)
Set_BT_FTR              == Frame("FC7D", 5, 2, 2)
Set_OSC_Info            == Frame("FC7B", 8, 5, 5)
Set_LPO_Info            == Frame("FC7C", 13, 10, 10)
Set_PTA                 == Frame("FC74", 13, 10, 10)
Set_BLEPTA              == Frame("FCFC", 8, 5, 5)
Set_Internal_PTA_1      == Frame("FCFB", 18, 15, 15)   \* one opcode for two commands
Set_Internal_PTA_2      == Frame("FCFB", 10, 7, 7)
Set_RF_Reg_100          == Frame("FCB0", 9, 6, 6)
RESET                   == Frame("0C03", 3, 0, 0)
Set_FW_SysLog           == Frame("FCBE", 4, 1, 1)
Set_SSP_Debug_Mode      == Frame("1804", 4, 1, 1)

(* What the command functions build for a chip.                            *)
FrameOf(chip) ==
  [ Get_Local_BD_Addr |-> Get_Local_BD_Addr, Set_Local_BD_Addr |-> Set_Local_BD_Addr,
    Set_LinkKeyType |-> Set_LinkKeyType, Set_UnitKey |-> Set_UnitKey,
    Set_Encryption |-> Set_Encryption, Set_PinCodeType |-> Set_PinCodeType,
    Set_Voice |-> Set_Voice, Set_PCM |-> Set_PCM, Set_Radio |-> Set_Radio(chip),
    Set_TX_Power_Offset |-> Set_TX_Power_Offset(chip),
    Set_Sleep_Timeout |-> Set_Sleep_Timeout,
    Coex_Performance_Adjust |-> Coex_Performance_Adjust, Set_BT_FTR |-> Set_BT_FTR,
    Set_OSC_Info |-> Set_OSC_Info, Set_LPO_Info |-> Set_LPO_Info,
    Set_PTA |-> Set_PTA, Set_BLEPTA |-> Set_BLEPTA, RESET |-> RESET,
    Set_Internal_PTA_1 |-> Set_Internal_PTA_1,
    Set_Internal_PTA_2 |-> Set_Internal_PTA_2, Set_RF_Reg_100 |-> Set_RF_Reg_100,
    Set_FW_SysLog |-> Set_FW_SysLog, Set_SSP_Debug_Mode |-> Set_SSP_Debug_Mode ]

MtkCommands == DOMAIN FrameOf("consys")

(* wOpCode of a command.                                                   *)
OpCode(cmd) == FrameOf("consys")[cmd].opcode
=============================================================================
