----------------------------- MODULE SerialLine -----------------------------
(***************************************************************************)
(* The device's side of the serial line: the bytes the bootloader has sent *)
(* and the host has not read.  BootDevice writes them, Programmer reads    *)
(* and purges them, Session lets both do so.                               *)
(***************************************************************************)
EXTENDS BootProtocol

VARIABLE tx    (* bytes sent by the device, oldest first *)

Transmit(bytes) == tx' = tx \o bytes

Take(n) == tx' = SubSeq(tx, n + 1, Len(tx))

(* A mutant: the oldest byte survives a purge. *)
PurgeKeepsOldest == tx' = IF tx = <<>> THEN tx ELSE <<Head(tx)>>

Purge == tx' = <<>>
=============================================================================
