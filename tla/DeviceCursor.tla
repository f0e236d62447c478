----------------------------- MODULE DeviceCursor -----------------------------
(***************************************************************************)
(* What a device's row of device_cursors promises.                         *)
(*                                                                         *)
(* "delivered" is the highest event sequence a pull has handed out and     *)
(* "acked" the sequence through which the device says it has settled every *)
(* event.  Compaction may drop whatever every device has acknowledged, so  *)
(* neither may move back, and acked may only pass delivered together with  *)
(* it: a completed manifest run moves both to its checkpoint.              *)
(***************************************************************************)
EXTENDS Naturals

VARIABLES acked, delivered

cursor == <<acked, delivered>>

Init == acked = 0 /\ delivered = 0

Deliver ==
    /\ delivered' > delivered
    /\ UNCHANGED acked

Acknowledge ==
    /\ acked' > acked /\ acked' <= delivered
    /\ UNCHANGED delivered

Authorize ==
    /\ acked' > acked
    /\ delivered' = IF delivered < acked' THEN acked' ELSE delivered

Next == Deliver \/ Acknowledge \/ Authorize

Spec == Init /\ [][Next]_cursor
===============================================================================
