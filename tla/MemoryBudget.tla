---------------------------- MODULE MemoryBudget ----------------------------
(***************************************************************************)
(* How much of a device may be scheduled onto: computeBudget               *)
(* (packages/core/src/memory.ts) as deviceView (domain/wire.ts) calls it,  *)
(* on a row that reports and samples of an agent filled                    *)
(* (transport/proto.go, then recordInventory and recordSamples of          *)
(* domain/nodes.ts).  One device; how transactions of several streams      *)
(* interleave on its row is in DeviceInventory.                            *)
(*                                                                         *)
(* Memory is in units of the instance: the two minimums are constants, the *)
(* fractions are the code's.  floor(x * 0.08) is taken exactly; a JS       *)
(* product can be off by one byte, on which no property depends.           *)
(***************************************************************************)
EXTENDS Integers

CONSTANTS
    HEADROOM_MIN,    \* HEADROOM_MIN_BYTES
    OS_RESERVE_MIN,  \* OS_RESERVE_MIN_BYTES
    Totals,          \* Device.total_bytes
    Limits,          \* Device.wired_limit_bytes; 0 if none is set
    Amounts,         \* DeviceSample.used_bytes and managed_bytes
    AgentKinds,      \* kinds a probe may report
    AgentPressures,  \* pressures a probe may report
    NoRow

Kinds     == {"cpu", "cuda", "metal"}
Pressures == {"normal", "warn", "critical"}

VARIABLES
    row,   \* the device row, or NoRow
    told   \* the pressure the probe gave with the row's last sample

vars == <<row, told>>

Rows == [kind : Kinds, total : Totals, wiredLimit : Limits, interactive : BOOLEAN,
         used : Amounts \cup {0}, managed : Amounts \cup {0}, pressure : Pressures]

ASSUME BudgetAssumption ==
    /\ HEADROOM_MIN \in Nat /\ OS_RESERVE_MIN \in Nat
    /\ Totals \subseteq Nat /\ Limits \subseteq Nat /\ Amounts \subseteq Nat
    /\ NoRow \notin Rows

(***************************************************************************)
(* From a probe to the row                                                 *)
(***************************************************************************)

(* Values missing from kindProto and pressureProto go as UNSPECIFIED, the  *)
(* zero value; a newer agent may send values this server does not know.    *)
kindProto(k)     == IF k \in Kinds \cup {"npu"} THEN k ELSE "UNSPECIFIED"
pressureProto(p) == IF p \in Pressures \cup {"urgent"} THEN p ELSE "UNSPECIFIED"

(* Mutant: a kind without a name is stored all the same.                   *)
NamedAnyway(wire) == TRUE

(* kindName(wire) is defined.                                              *)
Named(wire) == wire \in Kinds

(* recordInventory: a device of a kind it knows is upserted, and keeps its *)
(* sample; of another kind it is dropped, and deleted if it was there.     *)
Report(k, total, limit) ==
    LET wire == kindProto(k) IN
    /\ row' = IF ~Named(wire) THEN NoRow
              ELSE IF row = NoRow
              THEN [kind |-> wire, total |-> total, wiredLimit |-> limit, interactive |-> FALSE,
                    used |-> 0, managed |-> 0, pressure |-> "normal"]
              ELSE [row EXCEPT !.kind = wire, !.total = total, !.wiredLimit = limit]
    /\ told' = IF row = NoRow \/ ~Named(wire) THEN "normal" ELSE told

(* pressureName(wire) ?? "normal"                                          *)
RecordedPressure(wire) == IF wire \in Pressures THEN wire ELSE "normal"

(* recordSamples: a sample of a device without a row changes nothing.      *)
Sample(used, managed, p) ==
    /\ row # NoRow
    /\ row' = [row EXCEPT !.used = used, !.managed = managed,
                          !.pressure = RecordedPressure(pressureProto(p))]
    /\ told' = p

(* No code writes `interactive`; an administrator may.                     *)
Flag ==
    /\ row # NoRow
    /\ row' = [row EXCEPT !.interactive = ~@]
    /\ UNCHANGED told

(***************************************************************************)
(* computeBudget                                                           *)
(***************************************************************************)
MaxOf(x, y)      == IF x >= y THEN x ELSE y
MinOf(x, y)      == IF x <= y THEN x ELSE y
Percent(x, p)    == (x * p) \div 100
clamp(v, lo, hi) == MinOf(MaxOf(v, lo), hi)

(* Mutant: used - managed as it is.                                        *)
ForeignUnclamped(r) == r.used - r.managed

Foreign(r) == clamp(r.used - r.managed, 0, r.total)

(* Mutant: at warn the device is still offered.                            *)
SchedulableAtWarn(r) == r.total > 0 /\ r.pressure # "critical"

Schedulable(r) == r.total > 0 /\ r.pressure = "normal"

(* Mutant: the minimum is only for machines nobody uses.                   *)
OsReserveNoMinimum(r) ==
    IF r.interactive THEN Percent(r.total, 30)
    ELSE MaxOf(OS_RESERVE_MIN, Percent(r.total, 15))

OsReserve(r) == MaxOf(OS_RESERVE_MIN, Percent(r.total, IF r.interactive THEN 30 ELSE 15))

WiredLimit(r) == IF r.wiredLimit > 0 THEN r.wiredLimit ELSE Percent(r.total, 75)

(* A device without memory has an empty budget.                            *)
Headroom(r) ==
    CASE r.total = 0                     -> 0
      [] r.total > 0 /\ r.kind = "cuda"  -> MaxOf(HEADROOM_MIN, Percent(r.total, 8))
      [] r.total > 0 /\ r.kind = "metal" -> 0
      [] r.total > 0 /\ r.kind = "cpu"   -> OsReserve(r)

(* Mutant: an explicit wired limit is taken at its word.                   *)
CeilingWired(r) ==
    IF r.kind = "metal"
    THEN IF r.wiredLimit > 0 THEN r.wiredLimit
         ELSE MinOf(WiredLimit(r), r.total - OsReserve(r))
    ELSE r.total

Ceiling(r) ==
    IF r.kind = "metal" THEN MinOf(WiredLimit(r), r.total - OsReserve(r)) ELSE r.total

Available(r) ==
    IF Schedulable(r)
    THEN clamp(Ceiling(r) - Foreign(r) - r.managed - Headroom(r), 0, r.total)
    ELSE 0

computeBudget(r) ==
    [totalBytes     |-> r.total,
     managedBytes   |-> IF r.total = 0 THEN 0 ELSE r.managed,
     foreignBytes   |-> Foreign(r),
     headroomBytes  |-> Headroom(r),
     availableBytes |-> Available(r),
     schedulable    |-> Schedulable(r)]

(***************************************************************************)
(* What the browser gets, and says                                         *)
(***************************************************************************)
MemoryPressure == [UNSPECIFIED |-> 0, NORMAL |-> 1, WARN |-> 2, CRITICAL |-> 3]

PRESSURES == [normal   |-> MemoryPressure.NORMAL,
              warn     |-> MemoryPressure.WARN,
              critical |-> MemoryPressure.CRITICAL]

(* deviceView: the budget, and the row's pressure as it travels.           *)
deviceView(r) == [budget |-> computeBudget(r), pressure |-> PRESSURES[r.pressure]]

(* DeviceMemoryBar's last line.                                            *)
Notice(v) ==
    IF v.budget.schedulable THEN "none"
    ELSE IF v.pressure >= MemoryPressure.WARN THEN "under memory pressure"
    ELSE "not accepting work"

(***************************************************************************)
(* The specification                                                       *)
(***************************************************************************)
Init == row = NoRow /\ told = "normal"

Next ==
    \/ \E k \in AgentKinds, total \in Totals, limit \in Limits : Report(k, total, limit)
    \/ \E used \in Amounts, managed \in Amounts, p \in AgentPressures : Sample(used, managed, p)
    \/ Flag

Spec == Init /\ [][Next]_vars

(***************************************************************************)
(* Properties                                                              *)
(***************************************************************************)

(* A row is a device of a known kind with a known pressure, whatever kinds *)
(* and pressures agents send: so computeBudget never throws for it and one *)
(* device cannot take ListNodes down.                                      *)
TypeOK ==
    /\ row \in Rows \cup {NoRow}
    /\ told \in AgentPressures \cup {"normal"}

(* What is offered is there: together with what is in use (by the driver's *)
(* count and by ours, which may be ahead of it) and with the headroom it   *)
(* fits in the device.                                                     *)
OfferFits ==
    row # NoRow =>
        /\ Available(row) \in 0..row.total
        /\ Available(row) > 0 =>
              MaxOf(row.used, row.managed) + Headroom(row) + Available(row) <= row.total

(* On memory shared with the operating system, the reserve stays free of   *)
(* everything offered: on metal it is part of the ceiling, also under a    *)
(* wired limit larger than the machine.                                    *)
ReserveStaysFree ==
    (row # NoRow /\ row.kind # "cuda" /\ Available(row) > 0) =>
        MaxOf(row.used, row.managed) + OsReserve(row) + Available(row) <= row.total

(* A device whose last sample said warn or critical is offered to nobody,  *)
(* and the page says why; the page blames pressure for no other device.    *)
(* Through all the translations (probe, wire, row, wire, page) and however *)
(* the device's facts change.                                              *)
PressureStopsOffers ==
    row # NoRow =>
        LET v == deviceView(row) IN
        /\ told \in {"warn", "critical"} =>
              ~v.budget.schedulable /\ v.budget.availableBytes = 0 /\ Notice(v) = "under memory pressure"
        /\ Notice(v) = "under memory pressure" => told \in {"warn", "critical"}

(* More memory in use, or the flag that somebody works on the machine,     *)
(* never makes more of it available.                                       *)
LoadNeverAddsRoom ==
    [][(/\ row # NoRow /\ row' # NoRow
        /\ row'.used >= row.used /\ row'.managed = row.managed
        /\ row'.interactive \/ ~row.interactive
        /\ row' = [row EXCEPT !.used = row'.used, !.interactive = row'.interactive])
       => Available(row') <= Available(row)]_vars
=============================================================================
