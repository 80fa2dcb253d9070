-------------------------- MODULE MCCcObjectStorage --------------------------
(***************************************************************************)
(* The panels that share or create proxies asynchronously: wifi and        *)
(* display create theirs in a thread; bluetooth and wwan create the key of *)
(* wifi synchronously.                                                     *)
(***************************************************************************)
EXTENDS CcObjectStorage

MCPanels == {"wifi", "bluetooth", "display"}
MCKeys == {"Rfkill", "Shell"}
MCSyncKeys == [p \in MCPanels |-> IF p = "bluetooth" THEN {"Rfkill"} ELSE {}]
MCAsyncKeys == [p \in MCPanels |-> CASE p = "wifi" -> {"Rfkill"}
                                     [] p = "display" -> {"Shell"}
                                     [] OTHER -> {}]
==============================================================================
