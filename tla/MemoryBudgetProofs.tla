------------------------- MODULE MemoryBudgetProofs -------------------------
(***************************************************************************)
(* What computeBudget guarantees for every size of device, every limit,    *)
(* every use and every pair of minimums.                                   *)
(***************************************************************************)
EXTENDS MemoryBudget, TLAPS

(* A share of a size is part of it, and a larger share is no smaller.      *)
LEMMA PercentRange ==
    ASSUME NEW x \in Nat
    PROVE  /\ Percent(x, 8) \in 0..x /\ Percent(x, 15) \in 0..x
           /\ Percent(x, 30) \in 0..x /\ Percent(x, 75) \in 0..x
           /\ Percent(x, 15) <= Percent(x, 30)
BY DEF Percent

(* A value clamped to a range is in it, and is the value if that was.      *)
LEMMA ClampRange ==
    ASSUME NEW v \in Int, NEW hi \in Nat
    PROVE  /\ clamp(v, 0, hi) \in 0..hi
           /\ clamp(v, 0, hi) > 0 => clamp(v, 0, hi) <= v
           /\ v \in 0..hi => clamp(v, 0, hi) = v
           /\ v > hi => clamp(v, 0, hi) = hi
           /\ v < 0 => clamp(v, 0, hi) = 0
BY DEF clamp, MinOf, MaxOf

(* The numbers of a row are natural, and so are the terms of its budget.   *)
LEMMA RowNumbers ==
    ASSUME NEW r \in Rows
    PROVE  /\ r.total \in Nat /\ r.wiredLimit \in Nat /\ r.used \in Nat /\ r.managed \in Nat
           /\ r.kind \in Kinds /\ r.interactive \in BOOLEAN /\ r.pressure \in Pressures
<1>1. /\ r.total \in Totals /\ r.wiredLimit \in Limits
      /\ r.used \in Amounts \cup {0} /\ r.managed \in Amounts \cup {0}
      /\ r.kind \in Kinds /\ r.interactive \in BOOLEAN /\ r.pressure \in Pressures
  BY DEF Rows
<1>2. r.total \in Nat /\ r.wiredLimit \in Nat
  BY <1>1, BudgetAssumption
<1>3. Amounts \cup {0} \subseteq Nat
  BY BudgetAssumption
<1>4. r.used \in Nat /\ r.managed \in Nat
  BY <1>1, <1>3
<1> QED
  BY <1>1, <1>2, <1>4

LEMMA Terms ==
    ASSUME NEW r \in Rows
    PROVE  /\ OsReserve(r) \in Nat
           /\ WiredLimit(r) \in Nat
           /\ Headroom(r) \in Nat
           /\ Ceiling(r) \in Int /\ Ceiling(r) <= r.total
           /\ r.kind = "metal" => Ceiling(r) <= r.total - OsReserve(r)
           /\ (r.total > 0 /\ r.kind = "cpu") => Headroom(r) = OsReserve(r)
           /\ Foreign(r) \in 0..r.total
           /\ Available(r) \in 0..r.total
<1>1. /\ r.total \in Nat /\ r.wiredLimit \in Nat /\ r.used \in Nat /\ r.managed \in Nat
      /\ r.kind \in {"cpu", "cuda", "metal"}
  BY RowNumbers DEF Kinds
<1>2. /\ Percent(r.total, 8) \in Nat /\ Percent(r.total, 15) \in Nat
      /\ Percent(r.total, 30) \in Nat /\ Percent(r.total, 75) \in Nat
  BY <1>1, PercentRange
<1>3. OsReserve(r) \in Nat
  BY <1>2, BudgetAssumption DEF OsReserve, MaxOf
<1>4. WiredLimit(r) \in Nat
  BY <1>1, <1>2 DEF WiredLimit
<1>5. Headroom(r) \in Nat /\ ((r.total > 0 /\ r.kind = "cpu") => Headroom(r) = OsReserve(r))
  BY <1>1, <1>2, <1>3, BudgetAssumption DEF Headroom, MaxOf
<1>6. /\ Ceiling(r) \in Int /\ Ceiling(r) <= r.total
      /\ r.kind = "metal" => Ceiling(r) <= r.total - OsReserve(r)
  BY <1>1, <1>3, <1>4 DEF Ceiling, MinOf
<1>7. Foreign(r) \in 0..r.total
  <2>1. r.used - r.managed \in Int
    BY <1>1
  <2> QED
    BY <1>1, <2>1, ClampRange DEF Foreign
<1>8. Available(r) \in 0..r.total
  <2>1. Ceiling(r) - Foreign(r) - r.managed - Headroom(r) \in Int
    BY <1>1, <1>5, <1>6, <1>7
  <2>2. CASE Schedulable(r)
    BY <1>1, <2>1, <2>2, ClampRange DEF Available
  <2>3. CASE ~Schedulable(r)
    BY <1>1, <2>3 DEF Available
  <2> QED
    BY <2>2, <2>3
<1> QED
  BY <1>3, <1>4, <1>5, <1>6, <1>7, <1>8

(* A positive offer is what the ceiling leaves above both counts of use:   *)
(* foreign memory stands for the difference between them.                  *)
LEMMA OfferUnderCeiling ==
    ASSUME NEW r \in Rows, Available(r) > 0
    PROVE  MaxOf(r.used, r.managed) + Headroom(r) + Available(r) <= Ceiling(r)
<1>1. /\ r.total \in Nat /\ r.used \in Nat /\ r.managed \in Nat
      /\ Headroom(r) \in Nat /\ Ceiling(r) \in Int /\ Foreign(r) \in Nat
      /\ Ceiling(r) <= r.total
  BY RowNumbers, Terms
<1> DEFINE raw == Ceiling(r) - Foreign(r) - r.managed - Headroom(r)
<1>2. Available(r) = clamp(raw, 0, r.total)
  BY DEF Available
<1>3. raw \in Int
  BY <1>1
<1>4. Available(r) \in Nat
  BY <1>1, Terms
<1> HIDE DEF raw
<1>5. Available(r) <= raw
  BY <1>1, <1>2, <1>3, <1>4 DEF clamp, MinOf, MaxOf
<1>6. Foreign(r) + r.managed >= MaxOf(r.used, r.managed)
  <2>1. CASE r.used - r.managed > r.total
    <3>1. Foreign(r) = r.total
      BY <1>1, <2>1 DEF Foreign, clamp, MinOf, MaxOf
    <3>2. raw <= 0
      BY <1>1, <3>1 DEF raw
    <3> QED
      BY <1>3, <1>4, <1>5, <3>2
  <2>2. CASE r.used - r.managed \in 0..r.total
    BY <1>1, <2>2 DEF Foreign, clamp, MinOf, MaxOf
  <2>3. CASE r.used < r.managed
    BY <1>1, <2>3 DEF MaxOf
  <2> QED
    BY <1>1, <2>1, <2>2, <2>3
<1>7. MaxOf(r.used, r.managed) \in Nat
  BY <1>1 DEF MaxOf
<1> QED
  BY <1>1, <1>3, <1>4, <1>5, <1>6, <1>7 DEF raw

(* The row keeps its type: kinds and pressures without a name never get    *)
(* into it (recordInventory, recordSamples).                               *)
THEOREM TypeCorrect == Spec => []TypeOK
<1>1. Init => TypeOK
  BY DEF Init, TypeOK
<1>2. TypeOK /\ [Next]_vars => TypeOK'
  <2> SUFFICES ASSUME TypeOK, [Next]_vars PROVE TypeOK'
    OBVIOUS
  <2>1. ASSUME NEW k \in AgentKinds, NEW total \in Totals, NEW limit \in Limits,
               Report(k, total, limit)
        PROVE  TypeOK'
    BY <2>1 DEF TypeOK, Report, Named, Rows, Pressures
  <2>2. ASSUME NEW used \in Amounts, NEW managed \in Amounts, NEW p \in AgentPressures,
               Sample(used, managed, p)
        PROVE  TypeOK'
    <3>1. RecordedPressure(pressureProto(p)) \in Pressures
      BY DEF RecordedPressure, Pressures
    <3> QED
      BY <2>2, <3>1 DEF TypeOK, Sample, Rows
  <2>3. CASE Flag
    BY <2>3 DEF TypeOK, Flag, Rows
  <2>4. CASE UNCHANGED vars
    BY <2>4 DEF TypeOK, vars
  <2> QED
    BY <2>1, <2>2, <2>3, <2>4 DEF Next
<1> QED
  BY <1>1, <1>2, PTL DEF Spec

(* What a device offers fits in it next to what is in use and the headroom *)
(* (computeBudget).                                                        *)
THEOREM OfferAlwaysFits == Spec => []OfferFits
<1>1. TypeOK => OfferFits
  <2> SUFFICES ASSUME row \in Rows PROVE OfferFits
    BY DEF TypeOK, OfferFits
  <2>1. Available(row) \in 0..row.total /\ Ceiling(row) \in Int /\ Ceiling(row) <= row.total
        /\ Headroom(row) \in Nat /\ row.total \in Nat /\ row.used \in Nat /\ row.managed \in Nat
    BY Terms, RowNumbers
  <2>2. MaxOf(row.used, row.managed) \in Nat
    BY <2>1 DEF MaxOf
  <2> QED
    BY <2>1, <2>2, OfferUnderCeiling DEF OfferFits
<1> QED
  BY <1>1, TypeCorrect, PTL

(* On cpu and metal devices the reserve of the operating system is never   *)
(* offered (computeBudget's osReserve).                                    *)
THEOREM ReserveAlwaysFree == Spec => []ReserveStaysFree
<1>1. TypeOK => ReserveStaysFree
  <2> SUFFICES ASSUME row \in Rows, row.kind # "cuda", Available(row) > 0
               PROVE  MaxOf(row.used, row.managed) + OsReserve(row) + Available(row) <= row.total
    BY DEF TypeOK, ReserveStaysFree
  <2>1. /\ row.total \in Nat /\ row.used \in Nat /\ row.managed \in Nat
        /\ row.kind \in {"cpu", "cuda", "metal"}
    BY RowNumbers DEF Kinds
  <2>2. /\ OsReserve(row) \in Nat /\ Headroom(row) \in Nat /\ Ceiling(row) \in Int
        /\ Ceiling(row) <= row.total /\ Available(row) \in Nat
        /\ row.kind = "metal" => Ceiling(row) <= row.total - OsReserve(row)
        /\ (row.total > 0 /\ row.kind = "cpu") => Headroom(row) = OsReserve(row)
    BY <2>1, Terms
  <2>3. MaxOf(row.used, row.managed) \in Nat
    BY <2>1 DEF MaxOf
  <2>4. MaxOf(row.used, row.managed) + Headroom(row) + Available(row) <= Ceiling(row)
    BY OfferUnderCeiling
  <2>5. row.total > 0
    BY <2>1 DEF Available, Schedulable
  <2> QED
    BY <2>1, <2>2, <2>3, <2>4, <2>5
<1> QED
  BY <1>1, TypeCorrect, PTL

(* A step that only adds use, or only flags the machine as interactive,    *)
(* offers no more than before (computeBudget is monotone).                 *)
THEOREM LoadAddsNoRoom == Spec => LoadNeverAddsRoom
<1>1. ASSUME NEW r \in Rows, NEW q \in Rows,
             q.used >= r.used, q.managed = r.managed,
             q.interactive \/ ~r.interactive,
             q = [r EXCEPT !.used = q.used, !.interactive = q.interactive]
      PROVE  Available(q) <= Available(r)
  <2>1. /\ q.total = r.total /\ q.wiredLimit = r.wiredLimit /\ q.kind = r.kind
        /\ q.pressure = r.pressure
    BY <1>1 DEF Rows
  <2>2. /\ r.total \in Nat /\ r.used \in Nat /\ r.managed \in Nat /\ q.used \in Nat
        /\ r.kind \in {"cpu", "cuda", "metal"}
        /\ r.interactive \in BOOLEAN /\ q.interactive \in BOOLEAN
    BY RowNumbers DEF Kinds
  <2>3. /\ Headroom(r) \in Nat /\ Headroom(q) \in Nat /\ Ceiling(r) \in Int /\ Ceiling(q) \in Int
        /\ OsReserve(r) \in Nat /\ OsReserve(q) \in Nat
        /\ Foreign(r) \in Nat /\ Foreign(q) \in Nat /\ WiredLimit(r) \in Nat
    BY <2>1, <2>2, Terms
  <2>4. OsReserve(q) >= OsReserve(r)
    BY <1>1, <2>1, <2>2, PercentRange, BudgetAssumption DEF OsReserve, MaxOf
  <2>5. Headroom(q) >= Headroom(r)
    BY <2>1, <2>2, <2>3, <2>4, PercentRange, BudgetAssumption DEF Headroom, MaxOf
  <2>6. Ceiling(q) <= Ceiling(r)
    <3>1. WiredLimit(q) = WiredLimit(r)
      BY <2>1 DEF WiredLimit
    <3> QED
      BY <2>1, <2>2, <2>3, <2>4, <3>1 DEF Ceiling, MinOf
  <2>7. Foreign(q) >= Foreign(r)
    BY <1>1, <2>1, <2>2 DEF Foreign, clamp, MinOf, MaxOf
  <2>8. Schedulable(q) = Schedulable(r)
    BY <2>1 DEF Schedulable
  <2>9. ASSUME NEW v \in Int, NEW w \in Int, v <= w
        PROVE  clamp(v, 0, r.total) <= clamp(w, 0, r.total)
    BY <2>2, <2>9 DEF clamp, MinOf, MaxOf
  <2> QED
    BY <1>1, <2>1, <2>2, <2>3, <2>5, <2>6, <2>7, <2>8, <2>9 DEF Available
<1>2. TypeOK /\ TypeOK' =>
        [(/\ row # NoRow /\ row' # NoRow
          /\ row'.used >= row.used /\ row'.managed = row.managed
          /\ row'.interactive \/ ~row.interactive
          /\ row' = [row EXCEPT !.used = row'.used, !.interactive = row'.interactive])
         => Available(row') <= Available(row)]_vars
  BY <1>1 DEF TypeOK
<1> QED
  BY <1>2, TypeCorrect, PTL DEF LoadNeverAddsRoom

(* The strengthening of PressureStopsOffers: the row's pressure is what    *)
(* both translations make of the probe's last word.                        *)
PressureKept == row # NoRow => row.pressure = RecordedPressure(pressureProto(told))

(* What the page says of a row is decided by the row's pressure alone.     *)
LEMMA NoticeOfPressure ==
    ASSUME NEW r \in Rows
    PROVE  /\ Notice(deviceView(r)) = "under memory pressure" <=> r.pressure \in {"warn", "critical"}
           /\ r.pressure \in {"warn", "critical"} =>
                 ~deviceView(r).budget.schedulable /\ deviceView(r).budget.availableBytes = 0
<1> DEFINE v == deviceView(r)
<1>1. r.pressure \in {"normal", "warn", "critical"} /\ r.total \in Nat
  BY RowNumbers DEF Pressures
<1>2. /\ v.budget.schedulable = Schedulable(r) /\ v.budget.availableBytes = Available(r)
      /\ v.pressure = PRESSURES[r.pressure]
  BY DEF deviceView, computeBudget
<1>3. MemoryPressure.WARN = 2 /\ PRESSURES["normal"] = 1
      /\ PRESSURES["warn"] = 2 /\ PRESSURES["critical"] = 3
  BY DEF MemoryPressure, PRESSURES
<1>4. CASE r.pressure = "normal"
  <2>1. v.pressure = 1
    BY <1>2, <1>3, <1>4
  <2> HIDE DEF v
  <2>2. Notice(v) # "under memory pressure"
    BY <2>1, <1>2, <1>3 DEF Notice, Schedulable
  <2> QED
    BY <2>2, <1>4 DEF v
<1>5. CASE r.pressure \in {"warn", "critical"}
  <2>1. ~Schedulable(r) /\ Available(r) = 0
    BY <1>5 DEF Schedulable, Available
  <2>2. v.pressure \in {2, 3}
    BY <1>2, <1>3, <1>5
  <2>3. ~v.budget.schedulable /\ v.budget.availableBytes = 0
    BY <1>2, <2>1
  <2> HIDE DEF v
  <2>4. Notice(v) = "under memory pressure"
    BY <2>2, <2>3, <1>3 DEF Notice
  <2> QED
    BY <2>3, <2>4, <1>5 DEF v
<1> QED
  BY <1>1, <1>4, <1>5

(* A device that said it is short of memory is offered to nobody, and the  *)
(* page blames pressure exactly then (Sample, computeBudget, deviceView,   *)
(* DeviceMemoryBar).                                                       *)
THEOREM PressureAlwaysStops == Spec => []PressureStopsOffers
<1>1. Init => PressureKept
  BY DEF Init, PressureKept
<1>2. TypeOK /\ PressureKept /\ [Next]_vars => PressureKept'
  <2> SUFFICES ASSUME TypeOK, PressureKept, [Next]_vars PROVE PressureKept'
    OBVIOUS
  <2>1. ASSUME NEW k \in AgentKinds, NEW total \in Totals, NEW limit \in Limits,
               Report(k, total, limit)
        PROVE  PressureKept'
    <3>1. RecordedPressure(pressureProto("normal")) = "normal"
      BY DEF RecordedPressure, pressureProto, Pressures
    <3> QED
      BY <2>1, <3>1 DEF TypeOK, PressureKept, Report, Rows
  <2>2. ASSUME NEW used \in Amounts, NEW managed \in Amounts, NEW p \in AgentPressures,
               Sample(used, managed, p)
        PROVE  PressureKept'
    BY <2>2 DEF TypeOK, PressureKept, Sample, Rows
  <2>3. CASE Flag
    BY <2>3 DEF TypeOK, PressureKept, Flag, Rows
  <2>4. CASE UNCHANGED vars
    BY <2>4 DEF PressureKept, vars
  <2> QED
    BY <2>1, <2>2, <2>3, <2>4 DEF Next
<1>3. TypeOK /\ PressureKept => PressureStopsOffers
  <2> SUFFICES ASSUME TypeOK, PressureKept, row # NoRow
               PROVE  PressureStopsOffers
    BY DEF PressureStopsOffers
  <2>1. row \in Rows
    BY DEF TypeOK
  <2>2. row.pressure \in {"warn", "critical"} <=> told \in {"warn", "critical"}
    BY DEF PressureKept, RecordedPressure, pressureProto, Pressures
  <2> QED
    BY <2>1, <2>2, NoticeOfPressure DEF PressureStopsOffers
<1> QED
  BY <1>1, <1>2, <1>3, TypeCorrect, PTL DEF Spec
=============================================================================
