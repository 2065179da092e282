--------------------------- MODULE MCVendorInterface ---------------------------
(* VendorInterface with two short scripts: one that starts with the address *)
(* query and one of an A-D die.  Both keep the HCI Reset the stack sends    *)
(* too, and the A-D die its debug command.                                  *)
EXTENDS VendorInterface

ShortScript ==
  [ mt6632 |-> << "Get_Local_BD_Addr", "Set_Local_BD_Addr", "RESET" >>,
    consys |-> << "Set_Local_BD_Addr", "RESET", "Set_FW_SysLog" >> ]

ShortChips == DOMAIN ShortScript

Reset == {"0C03"}

Async == {NotComplete, Nop}

(* The HAL never looks at the addresses: fewer of them at the start, and    *)
(* one build of the library (FwInit's run has them all).                    *)
FewInit == Init /\ device.eng /\ device.efuse # "default" /\ nvram # "default"

FewSpec == FewInit /\ [][Next]_vars /\ Fairness
=============================================================================
