-------------------------------- MODULE AppMain --------------------------------
(***************************************************************************)
(* main/app_main.c up to its command loop: app_main brings the module up,    *)
(* erasing the NVS partition when it has no free page.                      *)
(*                                                                         *)
(* The SDK is external: nvs_flash_init finds the partition full or not, any  *)
(* initialisation may fail, and a failed ESP_ERROR_CHECK restarts the chip.  *)
(***************************************************************************)
EXTENDS Integers

VARIABLES
  boot,     (* app_main: "nvs", "erase", "again", "init" or "ready"        *)
  full      (* the NVS partition has no free page                          *)

appVars == <<boot, full>>

BootStages == {"nvs", "erase", "again", "init", "ready"}

AppTypeOK == boot \in BootStages /\ full \in BOOLEAN

AppInit == boot = "nvs" /\ full \in BOOLEAN

BootGoto(from, to) == boot = from /\ boot' = to

-------------------------------------------------------------------------------
(* Mutant: any error of nvs_flash_init erases. *)
NvsInitAnyError ==
  /\ \/ BootGoto("nvs", "init") /\ ~full
     \/ BootGoto("nvs", "erase")
  /\ UNCHANGED full

NvsInit ==
  /\ \/ BootGoto("nvs", "init") /\ ~full
     \/ BootGoto("nvs", "erase") /\ full
  /\ UNCHANGED full

(* nvs_flash_erase takes everything that was stored. *)
NvsErase ==
  /\ BootGoto("erase", "again")
  /\ full' = FALSE

(* nvs_flash_init again; then the UART, the Wi-Fi manager and READY. *)
BootStep ==
  /\ BootGoto("again", "init") \/ BootGoto("init", "ready")
  /\ UNCHANGED full

(* The chip starts again: power lost, or a failed ESP_ERROR_CHECK. *)
Restart ==
  /\ boot' = "nvs"
  /\ full' \in {full, TRUE}
===============================================================================
