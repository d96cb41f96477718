------------------------- MODULE MCDeviceInventory -------------------------
(* Small instances of DeviceInventory for TLC.                             *)
EXTENDS DeviceInventory

CONSTANTS a, b

Dev(d, k) == [localId |-> d, kind |-> k]

(* One device replaced by another, both orders of two (deadlocks), a kind  *)
(* this build does not know, a duplicate, nothing.                         *)
AllDiscoveries ==
    {<<>>, <<Dev(a, "cpu")>>, <<Dev(b, "cuda")>>, <<Dev(a, "cpu"), Dev(b, "cuda")>>,
     <<Dev(b, "cuda"), Dev(a, "cpu")>>, <<Dev(a, "cpu"), Dev(b, "npu")>>,
     <<Dev(a, "cpu"), Dev(a, "cuda")>>}

(* One device replaced by another, and both.                               *)
FewDiscoveries ==
    {<<Dev(a, "cpu")>>, <<Dev(b, "cuda")>>, <<Dev(a, "cpu"), Dev(b, "cuda")>>}

Kinds == {"cpu", "cuda", "metal"}
=============================================================================
