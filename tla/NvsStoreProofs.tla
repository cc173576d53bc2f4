--------------------------- MODULE NvsStoreProofs ----------------------------
(***************************************************************************)
(* What callers of the storage engine rely on, proved for any number and   *)
(* size of sectors, any keys and values, and any number of sets and power  *)
(* failures, for callers that delete a key before they set it again        *)
(* (Overwrite = FALSE).  Of the others the engine keeps less: see the runs *)
(* nvs_overwrite and nvs_power.                                            *)
(***************************************************************************)
EXTENDS NvsProofs

\* What holds of the lists, marks, serial numbers, reserve and room.
BaseInv == ListInv /\ MarkInv /\ SerialInv /\ ReserveInv /\ PackInv

LEMMA InitBase == Init => BaseInv
BY InitListInv, InitMarks, InitSerials, InitReserve, InitPacks DEF BaseInv

LEMMA BaseInvStep == BaseInv /\ [Next]_vars => BaseInv'
<1> SUFFICES ASSUME BaseInv, [Next]_vars PROVE BaseInv'
  OBVIOUS
<1>1. ListInv'
  BY ListInvStep DEF BaseInv
<1>2. MarkInv'
  BY MarkInvStep DEF BaseInv
<1>3. SerialInv'
  BY SerialInvStep DEF BaseInv
<1>4. ReserveInv'
  BY <1>2, <1>3, ReserveInvStep DEF BaseInv
<1>5. PackInv'
  BY <1>1, <1>2, <1>3, <1>4, PackInvStep DEF BaseInv
<1> QED BY <1>1, <1>2, <1>3, <1>4, <1>5 DEF BaseInv
-------------------------------------------------------------------------------
(* Every item in flash is one a caller stored, whole or cut short, and     *)
(* takes a slice at least, so that item j starts at slice j - 1 or later:  *)
(* a sector holds EntryCount items at most, and a lookup sees them all.    *)

Genuine(j, i) ==
  /\ i.key \in Keys /\ i.val \in Values
  /\ i.span >= 1 /\ (i.crcItem => i.span = Span[i.val])
  /\ j <= i.at + 1 /\ i.at < EntryCount
AllGenuine(q) == \A j \in DOMAIN q : Genuine(j, q[j])

LEMMA ShapeGenuine ==
  ASSUME NEW q \in Seq(AnyItem), NEW r \in Seq(AnyItem), SameShape(q, r), AllGenuine(r)
  PROVE  AllGenuine(q)
<1>1. DOMAIN q = DOMAIN r
  BY DEF SameShape
<1> SUFFICES ASSUME NEW j \in DOMAIN r PROVE Genuine(j, q[j])
  BY <1>1 DEF AllGenuine
<1>2. Genuine(j, r[j])
  BY DEF AllGenuine
<1>3. /\ q[j].at = r[j].at /\ q[j].span = r[j].span /\ q[j].key = r[j].key
      /\ q[j].val = r[j].val /\ q[j].crcItem = r[j].crcItem
  BY DEF SameShape
<1> QED BY <1>2, <1>3 DEF Genuine

LEMMA NoItemsGenuine == AllGenuine(<<>>)
BY EmptySeq, LenProperties DEF AllGenuine

\* The items of a longer list.
LEMMA AppendItems ==
  ASSUME NEW q \in Seq(AnyItem), NEW l \in AnyItem
  PROVE  \E n \in Nat : /\ n = Len(q) /\ DOMAIN q = 1..n
                        /\ Append(q, l) \in Seq(AnyItem)
                        /\ DOMAIN Append(q, l) = 1..(n + 1) /\ Append(q, l)[n + 1] = l
                        /\ \A j \in 1..n : Append(q, l)[j] = q[j]
                        /\ \A j \in 1..(n + 1) : j \in 1..n \/ j = n + 1
<1>1. PICK n \in Nat : n = Len(q) /\ DOMAIN q = 1..n
  BY LenProperties
<1>2. /\ Append(q, l) \in Seq(AnyItem) /\ DOMAIN Append(q, l) = 1..(n + 1)
      /\ Append(q, l)[n + 1] = l /\ \A j \in 1..n : Append(q, l)[j] = q[j]
  BY <1>1, AppendProperties, LenProperties
<1>3. \A j \in 1..(n + 1) : j \in 1..n \/ j = n + 1
  OBVIOUS
<1> QED BY <1>1, <1>2, <1>3

LEMMA AppendGenuine ==
  ASSUME NEW q \in Seq(AnyItem), AllGenuine(q), NEW l \in AnyItem,
         End(q) <= l.at, l.at < EntryCount, l.span >= 1, l.key \in Keys, l.val \in Values,
         l.crcItem => l.span = Span[l.val]
  PROVE  AllGenuine(Append(q, l))
<1>1. PICK n \in Nat : /\ n = Len(q) /\ DOMAIN q = 1..n
                       /\ DOMAIN Append(q, l) = 1..(n + 1) /\ Append(q, l)[n + 1] = l
                       /\ \A j \in 1..n : Append(q, l)[j] = q[j]
                       /\ \A j \in 1..(n + 1) : j \in 1..n \/ j = n + 1
  BY AppendItems
<1>2. n <= End(q)
  <2>1. CASE n = 0
    BY <2>1, EndType
  <2>2. CASE n # 0
    <3>1. n \in 1..n /\ q # <<>>
      BY <1>1, <2>2, EmptySeq
    <3>2. End(q) = q[n].at + q[n].span /\ q[n] \in AnyItem
      BY <1>1, <3>1, ElementOfSeq DEF End
    <3>3. n <= q[n].at + 1 /\ q[n].span >= 1
      BY <1>1, <3>1 DEF AllGenuine, Genuine
    <3> QED BY <3>2, <3>3 DEF AnyItem
  <2> QED BY <2>1, <2>2
<1>3. n + 1 <= l.at + 1
  <2>1. PICK e \in Nat, a \in Nat : e = End(q) /\ a = l.at
    BY EndType DEF AnyItem
  <2> QED BY <1>2, <2>1
<1>4. Genuine(n + 1, l)
  BY <1>3 DEF Genuine
<1>5. \A j \in 1..n : Genuine(j, q[j])
  BY <1>1 DEF AllGenuine
<1> QED BY <1>1, <1>4, <1>5 DEF AllGenuine

-------------------------------------------------------------------------------
(* One item in use per key.  Reclaiming copies an item before it erases    *)
(* the original, so that for a while, and after a power failure until the  *)
(* mount has erased the copy, a key has two; the originals are all in the  *)
(* marked sector and the copies in the one with the highest number.        *)

\* Item j of sector s is in use, with a head that a mount would accept.
Holding(s, j) ==
  /\ s \in Healthy /\ j \in DOMAIN flash[s].items
  /\ flash[s].items[j].state = "using" /\ flash[s].items[j].crcItem
KeyOf(s, j) == flash[s].items[j].key

Twins(s, i, t, j) == Holding(s, i) /\ Holding(t, j) /\ KeyOf(s, i) = KeyOf(t, j)
Unused(k) == \A s \in Sectors, j \in Nat : Holding(s, j) => KeyOf(s, j) # k
Highest(s) == \A t \in Healthy : flash[t].serial <= flash[s].serial

Once == \A s \in Sectors, i, j \in Nat : Twins(s, i, s, j) => i = j
NoCopies == \A s, t \in Sectors, i, j \in Nat : Twins(s, i, t, j) => s = t
\* s has the originals, t the copies.
CopyPair(s, t) == s \in Marked /\ Highest(t)
Copies == \A s, t \in Sectors, i, j \in Nat :
            Twins(s, i, t, j) => s = t \/ CopyPair(s, t) \/ CopyPair(t, s)
\* Only the items before the next one have been copied.
Copied(n) == \A s, t \in Sectors, i, j \in Nat :
               Twins(s, i, t, j) => \/ s = t
                                    \/ s = gc.src /\ t = gc.dst /\ i < n
                                    \/ t = gc.src /\ s = gc.dst /\ j < n

UniquePhases ==
  /\ pc \in {"ready", "put", "drop", "request", "gc_init", "gc_mark", "fix_take", "settle"} =>
       NoCopies
  /\ pc = "gc_copy" => gc.dst = Last(active) /\ Copied(gc.next)
  /\ pc # "drop" /\ op.key # None => Unused(op.key)

UniqueInv ==
  /\ \A s \in Sectors : AllGenuine(flash[s].items)
  /\ Once /\ Copies /\ UniquePhases

\* A step that may drop items and erase sectors, and stores none.
Tame ==
  /\ \A s \in Sectors : SameShape(flash'[s].items, flash[s].items) \/ flash'[s].items = <<>>
  /\ \A s \in Healthy' : s \in Healthy \/ flash'[s].items = <<>>

\* Whatever is in use after a step was in use before, under the same key, or is
\* item n of s, under the key k.
Gained(s, n, k) ==
  \A t \in Sectors, j \in Nat :
    Holding(t, j)' => \/ Holding(t, j) /\ KeyOf(t, j)' = KeyOf(t, j)
                      \/ t = s /\ j = n /\ KeyOf(t, j)' = k
NothingGained ==
  \A t \in Sectors, j \in Nat : Holding(t, j)' => Holding(t, j) /\ KeyOf(t, j)' = KeyOf(t, j)

LEMMA TameGains ==
  ASSUME Tame PROVE NothingGained
<1> SUFFICES ASSUME NEW t \in Sectors, NEW j \in Nat, Holding(t, j)'
             PROVE  Holding(t, j) /\ KeyOf(t, j)' = KeyOf(t, j)
  BY DEF NothingGained
<1>1. /\ t \in Healthy' /\ j \in DOMAIN flash'[t].items
      /\ flash'[t].items[j].state = "using" /\ flash'[t].items[j].crcItem
  BY DEF Holding
<1>2. DOMAIN <<>> = {}
  BY EmptySeq, LenProperties
<1>3. flash'[t].items # <<>>
  BY <1>1, <1>2
<1>4. SameShape(flash'[t].items, flash[t].items) /\ t \in Healthy
  BY <1>1, <1>3 DEF Tame
<1> QED BY <1>1, <1>4 DEF SameShape, Holding, KeyOf

LEMMA TameUnique ==
  ASSUME WeakTypes, WeakTypes', Tame, \A s \in Sectors : AllGenuine(flash[s].items), Once
  PROVE  /\ \A s \in Sectors : AllGenuine(flash'[s].items)
         /\ Once'
         /\ NoCopies => NoCopies'
         /\ \A k : Unused(k) => Unused(k)'
<1>1. NothingGained
  BY TameGains
<1>2. \A s \in Sectors : AllGenuine(flash'[s].items)
  <2> TAKE s \in Sectors
  <2>1. flash[s].items \in Seq(AnyItem) /\ flash'[s].items \in Seq(AnyItem)
    BY DEF WeakTypes, FlashSector
  <2>2. SameShape(flash'[s].items, flash[s].items) \/ flash'[s].items = <<>>
    BY DEF Tame
  <2> QED BY <2>1, <2>2, ShapeGenuine, NoItemsGenuine
<1>3. Once'
  BY <1>1 DEF Once, Twins, NothingGained
<1>4. NoCopies => NoCopies'
  BY <1>1 DEF NoCopies, Twins, NothingGained
<1>5. \A k : Unused(k) => Unused(k)'
  BY <1>1 DEF Unused, NothingGained
<1> QED BY <1>2, <1>3, <1>4, <1>5

\* Originals and copies stay where they are as long as headers do.
HeadersStay ==
  /\ \A s \in Healthy' : s \in Healthy /\ flash'[s].serial = flash[s].serial
  /\ \A s \in Marked : s \in Healthy' => s \in Marked'

LEMMA CopiesStay ==
  ASSUME NothingGained, HeadersStay, Copies
  PROVE  Copies'
<1> SUFFICES ASSUME NEW s \in Sectors, NEW t \in Sectors, NEW i \in Nat, NEW j \in Nat,
                    Twins(s, i, t, j)'
             PROVE  s = t \/ CopyPair(s, t)' \/ CopyPair(t, s)'
  BY DEF Copies
<1>1. Twins(s, i, t, j) /\ s \in Healthy' /\ t \in Healthy'
  BY DEF Twins, NothingGained, Holding
<1>2. s = t \/ CopyPair(s, t) \/ CopyPair(t, s)
  BY <1>1 DEF Copies
<1>3. \A u \in Healthy' : Highest(u) => Highest(u)'
  BY DEF Highest, HeadersStay
<1> QED BY <1>1, <1>2, <1>3 DEF CopyPair, HeadersStay

LEMMA DropTame ==
  ASSUME SameStates, OnlyDropped PROVE Tame /\ HeadersStay
<1>1. Healthy' = Healthy /\ Marked' = Marked /\ \A s \in Healthy : s \in Sectors
  BY DEF SameStates, SameHeads, Healthy, Marked, Good
<1>2. \A s \in Sectors : flash'[s].serial = flash[s].serial
  BY DEF SameStates, SameHeads
<1> QED BY <1>1, <1>2 DEF OnlyDropped, Tame, HeadersStay

LEMMA NothingTame ==
  ASSUME UNCHANGED flash PROVE Tame /\ HeadersStay
<1>1. Healthy' = Healthy /\ Marked' = Marked
  BY DEF Healthy, Marked
<1> QED BY <1>1 DEF Tame, HeadersStay, SameShape

\* A step that erases a sector, and changes no other.
LEMMA EraseTame ==
  ASSUME WeakTypes, NEW s \in Sectors, flash' = EraseSector(flash, s)
  PROVE  /\ Tame /\ HeadersStay
         /\ \A j : ~Holding(s, j)'
<1>1. flash'[s] = Blank /\ \A t \in Sectors \ {s} : flash'[t] = flash[t]
  BY DEF WeakTypes, EraseSector
<1>2. s \notin Healthy' /\ flash'[s].items = <<>>
  BY <1>1 DEF Healthy, Good, Blank
<1>3. \A t \in Healthy' : t \in Healthy /\ flash'[t] = flash[t]
  BY <1>1, <1>2 DEF Healthy
<1>4. Tame
  BY <1>1, <1>2, <1>3 DEF Tame, SameShape
<1>5. HeadersStay
  BY <1>3 DEF HeadersStay, Marked, Healthy
<1> QED BY <1>2, <1>4, <1>5 DEF Holding

\* sm_active_sector erases none but a crashed sector.
LEMMA ActivateTame ==
  ASSUME ListInv, WeakTypes, pc # "off", Activate
  PROVE  Tame /\ HeadersStay
<1> DEFINE h == Head(idle)
<1>1. h \in Sectors
  <2>1. idle \in Seq(Sectors) /\ idle # <<>> /\ IsInjective(idle)
    BY DEF ListInv, Lists, ListsPartition, Activate
  <2> QED BY <2>1, TailOnly
<1>2. flash' = EraseSector(flash, h) \/ flash' = flash
  BY DEF Activate
<1> QED BY <1>1, <1>2, EraseTame, NothingTame

\* wm_nvs_sector_init writes the header of an empty sector.
LEMMA HeaderTame ==
  ASSUME WeakTypes, NEW s \in Sectors, flash[s].items = <<>>, InitSector(s) PROVE Tame
<1>1. flash' = [flash EXCEPT ![s].state = "using", ![s].serial = ram[s].serial]
  BY DEF InitSector, WriteHeader
<1>2. /\ flash'[s].items = <<>> /\ \A t \in Sectors \ {s} : flash'[t] = flash[t]
  BY <1>1 DEF WeakTypes, FlashSector
<1> QED BY <1>2 DEF Tame, SameShape, Healthy

\* The last sector is the one with the highest serial number, and the only one.
LEMMA CurrentHighest ==
  ASSUME ListInv, WeakTypes, SerialsDistinct, SerialFacts, pc # "off", ToSet(active) # {},
         Unwritten = {}, Spare = {}
  PROVE  /\ Current \in Healthy /\ Highest(Current)
         /\ \A t \in Healthy : Highest(t) => t = Current
<1>1. active \in Seq(Sectors) /\ active # <<>> /\ IsInjective(active)
  BY EmptyIsDistinct DEF ListInv, Lists, ListsPartition
<1>2. Current \in Sectors /\ Current \in ToSet(active)
  BY <1>1, FrontOnly DEF Current
<1>3. Current \in Healthy
  BY <1>2 DEF Unwritten
<1>4. \A t \in Healthy : t \in Sectors /\ t \in ToSet(active)
  BY DEF Spare, Healthy, ListInv, ListsPartition
<1>5. \A t \in Healthy : t # Current => flash[t].serial < flash[Current].serial
  BY <1>1, <1>3, <1>4, LastBefore DEF SerialFacts, SerialOrder, Current
<1>6. \A t \in Healthy : flash[t].serial \in Nat
  BY <1>4 DEF WeakTypes, FlashSector
<1>7. Highest(Current)
  BY <1>3, <1>5, <1>6 DEF Highest
<1>8. ASSUME NEW t \in Healthy, Highest(t) PROVE t = Current
  <2>1. flash[Current].serial <= flash[t].serial
    BY <1>3, <1>8 DEF Highest
  <2> QED BY <1>3, <1>5, <1>6, <2>1
<1> QED BY <1>3, <1>7, <1>8

\* What is left to show after a step that stores no item.
LEMMA TameInv ==
  ASSUME BaseInv, BaseInv', UniqueInv, Tame, NoCopies' \/ (HeadersStay /\ pc' # "gc_copy"),
         pc' \in {"ready", "put", "drop", "request", "gc_init", "gc_mark", "fix_take", "settle"} =>
           NoCopies',
         pc' = "gc_copy" => gc'.dst = Last(active'),
         pc' # "drop" /\ op'.key # None => Unused(op.key)'
  PROVE  UniqueInv'
<1>1. WeakTypes /\ WeakTypes'
  BY DEF BaseInv, MarkInv
<1>2. (\A s \in Sectors : AllGenuine(flash'[s].items)) /\ Once'
  BY <1>1, TameUnique DEF UniqueInv
<1>3. NoCopies' => Copies' /\ (\A n : Copied(n)')
  BY DEF NoCopies, Copies, Copied
<1>4. Copies'
  BY <1>3, TameGains, CopiesStay DEF UniqueInv
<1>5. pc' = "gc_copy" => Copied(gc.next)'
  BY <1>3 DEF NoCopies, Copied
<1> QED BY <1>2, <1>4, <1>5 DEF UniqueInv, UniquePhases

LEMMA MountUnique ==
  ASSUME BaseInv, BaseInv', UniqueInv, Mount PROVE UniqueInv'
<1> USE DEF BaseInv, MarkInv, SerialInv
<1>1. op' = op /\ (pc \notin {"gc_init", "gc_mark", "gc_copy"} => op = NoOp) /\ NoOp.key = None
  BY DEF Mount, Load, LoadFirst, FixWrite, FixGcErase, FixGcTake, Settle, WeakTypes, NoOp
<1>2. pc \in {"off", "fix_write", "fix_gc", "fix_take", "settle"} /\ op = NoOp
  BY DEF Mount, Load, LoadFirst, FixWrite, FixGcErase, FixGcTake, Settle, WeakTypes
<1>3. op'.key = None
  BY <1>1, <1>2
<1>4. CASE Load
  <2>1. /\ pc' = "fix_write"
        /\ flash' = [s \in Sectors |-> IF Good(flash[s]) THEN Cleaned(flash[s]) ELSE flash[s]]
    BY <1>4 DEF Load
  <2>2. \A s \in Sectors : flash[s] \in FlashSector
    BY DEF WeakTypes
  <2>3. \A s \in Sectors : SameShape(flash'[s].items, flash[s].items)
    <3>1. \A s \in Sectors : SameShape(flash[s].items, flash[s].items)
      BY DEF SameShape
    <3> QED BY <2>1, <2>2, <3>1, CleanedShape
  <2>4. \A s \in Sectors : flash'[s].state = flash[s].state /\ flash'[s].serial = flash[s].serial
    BY <2>1, <2>2, CleanedType
  <2>5. Healthy' = Healthy /\ Marked' = Marked /\ \A s \in Healthy : s \in Sectors
    BY <2>4 DEF Healthy, Marked, Good
  <2>6. Tame /\ HeadersStay
    BY <2>3, <2>4, <2>5 DEF Tame, HeadersStay
  <2> QED BY <1>3, <2>1, <2>6, TameInv
<1>5. CASE LoadFirst
  <2>1. pc = "fix_write" /\ pc' = pc /\ Activate
    BY <1>5 DEF LoadFirst
  <2>2. Tame /\ HeadersStay
    BY <2>1, ActivateTame
  <2> QED BY <1>3, <2>1, <2>2, TameInv
<1>6. CASE FixWrite
  <2>1. pc' = "fix_gc" /\ SameStates /\ OnlyDropped
    BY <1>6, ItemSteps, DropSteps, EraseItemDrops, NothingDropped DEF FixWrite
  <2>2. Tame /\ HeadersStay
    BY <2>1, DropTame
  <2> QED BY <1>3, <2>1, <2>2, TameInv
<1>7. CASE FixGcErase
  <2>1. CASE Deleting = {}
    <3>1. pc' = "settle" /\ UNCHANGED flash
      BY <1>7, <2>1 DEF FixGcErase
    <3>2. Tame /\ HeadersStay
      BY <3>1, NothingTame
    <3>3. Copies' /\ Marked' = {}
      BY <3>1, <3>2, TameGains, CopiesStay DEF UniqueInv, MarksInPlace
    <3>4. NoCopies'
      BY <3>3 DEF Copies, CopyPair, NoCopies
    <3> QED BY <1>3, <3>1, <3>2, <3>4, TameInv
  <2>2. CASE Deleting # {}
    <3>1. /\ pc = "fix_gc" /\ pc' = "fix_take"
          /\ IF ram[Current].state = "using" THEN flash' = EraseSector(flash, Current)
                                             ELSE flash' = flash
      BY <1>7, <2>2 DEF FixGcErase
    <3>2. PICK i \in DOMAIN active : ram[active[i]].state = "deleting"
      BY <2>2 DEF Deleting
    <3>3. active[i] \in Sectors /\ active[i] \in ToSet(active) /\ active[i] \in Healthy
      <4>1. active[i] \in Sectors /\ active[i] \in ToSet(active)
        BY LenProperties, ElementOfSeq DEF ListInv, Lists, ToSet
      <4> QED BY <3>1, <3>2, <4>1 DEF SerialFacts, HealthKnown, Healthy, Good
    <3>4. Unwritten = {} /\ Spare = {}
      BY <3>1, <3>3 DEF SerialPhases, Unwritten
    <3>5. /\ Current \in Healthy /\ Highest(Current) /\ Current \in Sectors
          /\ \A t \in Healthy : Highest(t) => t = Current
      BY <3>1, <3>3, <3>4, CurrentHighest DEF Healthy
    <3>6. Tame
      BY <3>1, <3>5, EraseTame, NothingTame
    <3>7. NoCopies'
      <4> SUFFICES ASSUME NEW s \in Sectors, NEW t \in Sectors, NEW n \in Nat, NEW m \in Nat,
                          Twins(s, n, t, m)', s # t
                   PROVE  FALSE
        BY DEF NoCopies
      <4>1. Twins(s, n, t, m)
        BY <3>6, TameGains DEF Twins, NothingGained
      <4>2. s \in Healthy /\ t \in Healthy /\ (CopyPair(s, t) \/ CopyPair(t, s))
        BY <4>1 DEF UniqueInv, Copies, Twins, Holding
      <4>3. (s = Current \/ t = Current) /\ (s \in Marked \/ t \in Marked)
        BY <3>5, <4>2 DEF CopyPair
      <4>4. CASE ram[Current].state = "using"
        <5>1. PICK c \in Sectors : c = Current
          BY <3>5
        <5>2. \A j : ~Holding(c, j)'
          BY <3>1, <4>4, <5>1, EraseTame
        <5>3. s # c /\ t # c
          BY <5>2 DEF Twins
        <5> QED BY <4>3, <5>1, <5>3
      <4>5. CASE ram[Current].state # "using"
        <5>1. Current \in Marked
          BY <3>1, <3>5, <4>5 DEF SerialFacts, HealthKnown, Healthy, Good, MarksKnown, Marked
        <5>2. s = Current => t = Current
          BY <3>5, <4>2, <5>1 DEF CopyPair, MarksInPlace
        <5>3. t = Current => s = Current
          BY <3>5, <4>2, <5>1 DEF CopyPair, MarksInPlace
        <5> QED BY <4>3, <5>2, <5>3
      <4> QED BY <4>4, <4>5
    <3> QED BY <1>3, <3>1, <3>6, <3>7, TameInv
  <2> QED BY <2>1, <2>2
<1>8. CASE FixGcTake
  <2>1. pc = "fix_take" /\ pc' = "gc_init" /\ Activate
    BY <1>8 DEF FixGcTake
  <2>2. Tame
    BY <2>1, ActivateTame
  <2>3. NoCopies'
    BY <2>1, <2>2, TameUnique DEF UniqueInv, UniquePhases
  <2> QED BY <1>3, <2>1, <2>2, <2>3, TameInv
<1>9. CASE Settle
  <2>1. pc = "settle" /\ pc' = "ready" /\ UNCHANGED flash
    BY <1>9 DEF Settle
  <2>2. Tame
    BY <2>1, NothingTame
  <2>3. NoCopies'
    BY <2>1, <2>2, TameUnique DEF UniqueInv, UniquePhases
  <2> QED BY <1>3, <2>1, <2>2, <2>3, TameInv
<1> QED BY <1>4, <1>5, <1>6, <1>7, <1>8, <1>9 DEF Mount

\* A lookup between calls sees every item in use: idle sectors hold none, and
\* the active ones are all searched to the end.
LEMMA SearchedItem ==
  ASSUME BaseInv, \A s \in Sectors : AllGenuine(flash[s].items), pc = "ready",
         NEW s \in Sectors, NEW j \in Nat, Holding(s, j),
         NEW T, TypeOf[flash[s].items[j].val] \in T
  PROVE  Hits(KeyOf(s, j), T) # {}
<1> USE DEF BaseInv, MarkInv, SerialInv
<1>1. /\ s \in Healthy /\ j \in DOMAIN flash[s].items
      /\ flash[s].items[j].state = "using" /\ flash[s].items[j].key = KeyOf(s, j)
  BY DEF Holding, KeyOf
<1>2. Good(ram[s])
  BY <1>1 DEF SerialFacts, HealthKnown, Healthy
<1>3. s \in ToSet(active)
  <2>1. ASSUME s \in ToSet(idle) PROVE FALSE
    <3>1. ram[s].state = "crash" \/ flash[s].items = <<>>
      BY <2>1 DEF ReserveInv, BareFacts, Bare
    <3>2. DOMAIN <<>> = {}
      BY EmptySeq, LenProperties
    <3> QED BY <1>1, <1>2, <3>1, <3>2 DEF Good
  <2> QED BY <2>1 DEF ListInv, ListsPartition
<1>4. PICK i \in 1..Len(active) : active[i] = s
  BY <1>3, LenProperties DEF ListInv, Lists, ToSet
<1>5. Genuine(j, flash[s].items[j])
  BY <1>1 DEF AllGenuine
<1>6. flash[s].items \in Seq(AnyItem)
  BY DEF WeakTypes, FlashSector
<1>7. j \in 1..EntryCount
  <2>1. PICK n \in Nat : n = Len(flash[s].items) /\ DOMAIN flash[s].items = 1..n
    BY <1>6, LenProperties
  <2>2. j \in 1..Len(flash[s].items)
    BY <1>1, <2>1
  <2>3. flash[s].items[j] \in AnyItem
    BY <1>6, <2>2, ElementOfSeq
  <2>4. flash[s].items[j].at \in Nat
    BY <2>3 DEF AnyItem
  <2>5. j >= 1
    BY <2>1, <2>2
  <2> QED BY <1>5, <2>4, <2>5, ByteType DEF Genuine
<1>8. Searched(s)
  BY <1>2 DEF Searched, Good
<1>9. <<i, j>> \in Hits(KeyOf(s, j), T)
  BY <1>1, <1>4, <1>7, <1>8 DEF Hits
<1> QED BY <1>9

LEMMA SearchedAll ==
  ASSUME BaseInv, \A s \in Sectors : AllGenuine(flash[s].items), pc = "ready",
         NEW k \in Keys, Hits(k, Types) = {}
  PROVE  Unused(k)
<1> SUFFICES ASSUME NEW s \in Sectors, NEW j \in Nat, Holding(s, j), KeyOf(s, j) = k
             PROVE  FALSE
  BY DEF Unused
<1>1. Genuine(j, flash[s].items[j])
  BY DEF AllGenuine, Holding
<1>2. TypeOf[flash[s].items[j].val] \in Types
  BY <1>1 DEF Genuine, Types
<1> QED BY <1>2, SearchedItem

\* What a program of one item adds to the items in use.
LEMMA AppendGains ==
  ASSUME WeakTypes, NEW s \in Sectors, NEW i, NEW l, Appended(s, i, l), Healthy' \subseteq Healthy
  PROVE  \E n \in Nat : /\ \A j \in DOMAIN flash[s].items : j < n
                        /\ Gained(s, n, i.key)
                        /\ Holding(s, n)' => i.state = "using" /\ i.crcItem
<1>1. /\ flash'[s].items = Append(flash[s].items, l) /\ l \in AnyItem
      /\ l.key = i.key
      /\ l.crcItem => i.crcItem
      /\ l.state = "using" => i.state = "using"
      /\ \A t \in Sectors \ {s} : flash'[t] = flash[t]
  BY DEF Appended
<1>2. flash[s].items \in Seq(AnyItem)
  BY DEF WeakTypes, FlashSector
<1> DEFINE q == flash[s].items
           r == flash'[s].items
<1> HIDE DEF q, r
<1>3. q \in Seq(AnyItem) /\ r = Append(q, l)
  BY <1>1, <1>2 DEF q, r
<1>4. PICK m \in Nat : /\ DOMAIN q = 1..m
                       /\ DOMAIN r = 1..(m + 1) /\ r[m + 1] = l
                       /\ \A j \in 1..m : r[j] = q[j]
                       /\ \A j \in 1..(m + 1) : j \in 1..m \/ j = m + 1
  BY <1>1, <1>3, AppendItems
<1> USE DEF q, r
<1>5. Gained(s, m + 1, i.key)
  <2> SUFFICES ASSUME NEW t \in Sectors, NEW j \in Nat, Holding(t, j)'
               PROVE  \/ Holding(t, j) /\ KeyOf(t, j)' = KeyOf(t, j)
                      \/ t = s /\ j = m + 1 /\ KeyOf(t, j)' = i.key
    BY DEF Gained
  <2>1. /\ t \in Healthy /\ j \in DOMAIN flash'[t].items
        /\ flash'[t].items[j].state = "using" /\ flash'[t].items[j].crcItem
    BY DEF Holding
  <2>2. CASE t # s
    BY <1>1, <2>1, <2>2 DEF Holding, KeyOf
  <2>3. CASE t = s /\ j \in 1..m
    BY <1>4, <2>1, <2>3 DEF Holding, KeyOf
  <2>4. CASE t = s /\ j = m + 1
    BY <1>1, <1>4, <2>4 DEF KeyOf
  <2> QED BY <1>4, <2>1, <2>2, <2>3, <2>4
<1>6. Holding(s, m + 1)' => i.state = "using" /\ i.crcItem
  BY <1>1, <1>4 DEF Holding
<1>7. \A j \in DOMAIN q : j < m + 1
  BY <1>4
<1> QED BY <1>5, <1>6, <1>7

\* A new item whose key its sector, or no sector, has in use.
LEMMA GainedUnique ==
  ASSUME NEW s \in Sectors, NEW n \in Nat, NEW k, Gained(s, n, k)
  PROVE  /\ Once /\ (\A j \in Nat : Holding(s, j) => KeyOf(s, j) # k) => Once'
         /\ NoCopies /\ Unused(k) => NoCopies'
BY DEF Gained, Once, NoCopies, Unused, Twins

LEMMA ProgramGenuine ==
  ASSUME WeakTypes, \A t \in Sectors : AllGenuine(flash[t].items),
         NEW s \in Sectors, NEW i \in AnyItem, NEW l, Appended(s, i, l),
         End(flash[s].items) <= i.at, i.at < EntryCount, i.span >= 1, l.span >= 1,
         i.key \in Keys, i.val \in Values, i.span = Span[i.val]
  PROVE  \A t \in Sectors : AllGenuine(flash'[t].items)
<1>1. /\ flash'[s].items = Append(flash[s].items, l) /\ l \in AnyItem
      /\ l.at = i.at /\ l.key = i.key /\ l.val = i.val
      /\ l.crcItem => l.span = i.span
      /\ \A t \in Sectors \ {s} : flash'[t] = flash[t]
  BY DEF Appended
<1>2. flash[s].items \in Seq(AnyItem)
  BY DEF WeakTypes, FlashSector
<1>3. AllGenuine(Append(flash[s].items, l))
  BY <1>1, <1>2, AppendGenuine
<1> QED BY <1>1, <1>3

LEMMA CallUnique ==
  ASSUME BaseInv, BaseInv', UniqueInv, ~Overwrite,
         \/ Write
         \/ \E k \in Keys, v \in Values : Set(k, v)
         \/ \E k \in Keys, t \in Types : Get(k, t) \/ Del(k, t)
  PROVE  UniqueInv'
<1> USE DEF BaseInv, MarkInv, SerialInv
<1>1. /\ pc \in {"ready", "put", "drop", "request"}
      /\ pc' \in {"ready", "put", "drop", "request"} \cup {pc}
  BY DEF Write, PutInit, PutItem, PutFull, DropOld, TakeIdle, NoSpace, Return, Set, Get, Del
<1>2. NoCopies
  BY <1>1 DEF UniqueInv, UniquePhases
<1>3. ASSUME Tame, pc' # "drop" /\ op'.key # None => op'.key = op.key /\ pc # "drop"
      PROVE  UniqueInv'
  <2>1. NoCopies' /\ \A k : Unused(k) => Unused(k)'
    BY <1>2, <1>3, TameUnique DEF UniqueInv
  <2>2. pc' # "drop" /\ op'.key # None => Unused(op.key)'
    BY <1>3, <2>1 DEF UniqueInv, UniquePhases, Unused
  <2> QED BY <1>1, <1>3, <2>1, <2>2, TameInv
<1>4. NoOp.key = None /\ (pc = "ready" => op = NoOp)
  BY DEF NoOp, WeakTypes
<1>5. ASSUME NEW k \in Keys, NEW t \in Types, Get(k, t) PROVE UniqueInv'
  BY <1>3, <1>4, <1>5, NothingTame DEF Get
<1>6. ASSUME NEW k \in Keys, NEW v \in Values, Set(k, v) PROVE UniqueInv'
  <2>1. pc = "ready" /\ UNCHANGED flash /\ Hits(k, Types) = {}
    BY <1>6 DEF Set
  <2>2. Unused(k)
    BY <2>1, SearchedAll DEF UniqueInv
  <2>3. Tame /\ NoCopies' /\ Unused(k)'
    BY <1>2, <2>1, <2>2, NothingTame, TameUnique DEF UniqueInv
  <2>4. op'.key = k \/ op' = op
    BY <1>6 DEF Set
  <2>5. op'.key # None => Unused(op.key)'
    BY <1>4, <2>1, <2>3, <2>4 DEF Unused
  <2> QED BY <1>1, <2>3, <2>5, TameInv
<1>7. CASE DropOld \/ \E k \in Keys, t \in Types : Del(k, t)
  <2>1. pc \in {"drop", "ready"} /\ pc' = "ready" /\ (op' = NoOp \/ (op' = op /\ pc = "ready"))
    BY <1>7 DEF DropOld, Del, Return
  <2>2. SameStates /\ OnlyDropped
    BY <1>7, ItemSteps, DropSteps, EraseItemDrops, NothingDropped
  <2> QED BY <1>3, <1>4, <2>1, <2>2, DropTame
<1>8. CASE PutItem
  <2>1. /\ pc = "put" /\ pc' = "drop" /\ ram[Current].state # "uninit"
        /\ Fits(Current, Span[op.val])
        /\ flash' = Program(flash, Current, NewItem(op.key, op.val, ram[Current].free))
    BY <1>8 DEF PutItem
  <2>2. PICK c \in Sectors, i \in AnyItem :
          c = Current /\ i = NewItem(op.key, op.val, ram[Current].free)
    BY <2>1, PutPlace
  <2>3. End(flash[c].items) <= ram[Current].free
    BY <2>1, <2>2, PutPlace
  <2>4. PICK n \in Nat, m \in Nat : n = ram[Current].free /\ m = Span[op.val] /\ n + m <= EntryCount
    BY <2>1, PutPlace
  <2>5. op.key \in Keys /\ op.val \in Values /\ m >= 1 /\ EntryCount \in Nat
    BY <2>1, <2>4, SizesAssumption DEF WeakTypes, SetOp
  <2>6. /\ i.at = n /\ i.span = m /\ i.key = op.key /\ i.val = op.val
    BY <2>2, <2>4 DEF NewItem
  <2>7. PICK l \in AnyItem : Appended(c, i, l) /\ l.span = i.span
    BY <2>1, <2>2, ProgramAppends
  <2>8. SameStates
    BY <1>8, ItemSteps
  <2>9. Healthy' = Healthy
    BY <2>8 DEF SameStates, SameHeads, Healthy, Good
  <2>10. n < EntryCount
    BY <2>4, <2>5
  <2>11. \A t \in Sectors : AllGenuine(flash'[t].items)
    BY <2>2, <2>3, <2>4, <2>5, <2>6, <2>7, <2>10, ProgramGenuine DEF UniqueInv
  <2>12. PICK x \in Nat : Gained(c, x, i.key)
    BY <2>7, <2>9, AppendGains
  <2>13. Unused(i.key)
    BY <2>1, <2>5, <2>6, NoneAssumption DEF UniqueInv, UniquePhases
  <2>14. Once' /\ NoCopies'
    BY <1>2, <2>12, <2>13, GainedUnique DEF UniqueInv, Unused
  <2>15. Copies'
    BY <2>14 DEF NoCopies, Copies
  <2> QED BY <2>1, <2>11, <2>14, <2>15 DEF UniqueInv, UniquePhases
<1>9. CASE PutInit
  <2>1. /\ pc = "put" /\ pc' = pc /\ op' = op
        /\ ram[Current].state = "uninit" /\ InitSector(Current)
    BY <1>9 DEF PutInit
  <2>2. Current \in Unwritten /\ Current \in Sectors
    BY <2>1, CurrentType DEF SerialFacts, HealthKnown, Unwritten, Healthy, Good
  <2>3. flash[Current].items = <<>>
    BY <2>1, <2>2 DEF ReserveInv, BareFacts, Bare
  <2>4. Tame
    BY <2>1, <2>2, <2>3, HeaderTame
  <2> QED BY <1>3, <2>1, <2>4
<1>10. CASE PutFull \/ NoSpace
  <2>1. UNCHANGED flash /\ (op' = NoOp \/ op' = op) /\ pc \in {"put", "request"}
    BY <1>10 DEF PutFull, NoSpace, Return
  <2> QED BY <1>3, <1>4, <2>1, NothingTame
<1>11. CASE TakeIdle
  <2>1. pc = "request" /\ Activate /\ op' = [op EXCEPT !.again = TRUE] /\ op \in SetOp
    BY <1>11 DEF TakeIdle, WeakTypes
  <2>2. op'.key = op.key
    BY <2>1 DEF SetOp
  <2> QED BY <1>3, <2>1, <2>2, ActivateTame
<1> QED BY <1>5, <1>6, <1>7, <1>8, <1>9, <1>10, <1>11 DEF Write

\* Where the copy of a running reclaiming is.
LEMMA CopyKnown ==
  ASSUME BaseInv, UniqueInv, pc = "gc_copy"
  PROVE  \E s, d \in Sectors, n \in Nat :
           /\ s = gc.src /\ d = gc.dst /\ n = gc.next /\ s # d
           /\ Marked = {s} /\ s \in Healthy /\ d \in Healthy /\ Highest(d)
<1> USE DEF BaseInv, MarkInv, SerialInv
<1>1. /\ gc.src \in Sectors /\ gc.dst \in Sectors /\ gc.next \in Nat /\ gc.src # gc.dst
      /\ gc.src \in ToSet(active) /\ gc.dst \in ToSet(active)
  BY DEF ListInv, GcRunning, WeakTypes
<1>2. Unwritten = {} /\ Spare = {} /\ gc.dst = Current /\ Marked = {gc.src}
  BY DEF SerialPhases, UniqueInv, UniquePhases, Current, MarksInPlace
<1>3. Highest(Current)
  BY <1>1, <1>2, CurrentHighest
<1>4. gc.src \in Healthy /\ gc.dst \in Healthy
  BY <1>1, <1>2 DEF Unwritten
<1> QED BY <1>1, <1>2, <1>3, <1>4

\* The copy of an item, whole or cut short, is the only one of it, and the
\* original is the next item of the source.
LEMMA CopyGains ==
  ASSUME BaseInv, UniqueInv, pc = "gc_copy", GcMore, GcItem.state = "using",
         NEW l \in AnyItem, Appended(gc.dst, [GcItem EXCEPT !.at = gc.to], l), l.span >= 1,
         SameHeads(flash', flash)
  PROVE  /\ \A t \in Sectors : AllGenuine(flash'[t].items)
         /\ Once' /\ Copies'
         /\ \A k : Unused(k) => Unused(k)'
         /\ gc'.src = gc.src /\ gc'.dst = gc.dst =>
              \A u : u = gc.next + 1 => Copied(u)'
<1> USE DEF BaseInv, MarkInv, SerialInv
<1>1. PICK src \in Sectors, dst \in Sectors, nx \in Nat :
        /\ src = gc.src /\ dst = gc.dst /\ nx = gc.next /\ src # dst
        /\ Marked = {src} /\ src \in Healthy /\ dst \in Healthy /\ Highest(dst)
  BY CopyKnown
<1>2. PICK a \in Nat, n \in Nat, m \in Nat :
        n = gc.to /\ m = GcItem.span /\ a = GcItem.at /\ n <= a /\ n + m <= EntryCount
  BY CopyPlace
<1>3. GcItem \in AnyItem /\ GcItem.crcItem /\ End(flash[dst].items) <= n
  BY <1>1, <1>2, CopyPlace
<1>4. PICK i \in AnyItem : i = [GcItem EXCEPT !.at = gc.to]
  BY GcItemType
<1>5. /\ i.at = n /\ i.span = m /\ i.key = GcItem.key /\ i.val = GcItem.val
  BY <1>2, <1>3, <1>4 DEF AnyItem
<1>6. Holding(src, nx) /\ KeyOf(src, nx) = i.key /\ Genuine(nx, GcItem)
  <2>1. flash[src].items \in Seq(AnyItem)
    BY DEF WeakTypes, FlashSector
  <2>2. nx \in DOMAIN flash[src].items
    <3>1. PICK len \in Nat : len = Len(flash[src].items) /\ DOMAIN flash[src].items = 1..len
      BY <2>1, LenProperties
    <3>2. nx # 0 /\ nx <= len
      BY <1>1, <3>1 DEF GcMore, WeakTypes
    <3> QED BY <3>1, <3>2
  <2>3. GcItem = flash[src].items[nx]
    BY <1>1 DEF GcItem
  <2> QED BY <1>1, <1>3, <1>5, <2>2, <2>3 DEF Holding, KeyOf, UniqueInv, AllGenuine
<1>7. Healthy' = Healthy /\ Marked' = Marked /\ \A s \in Healthy : s \in Sectors
  BY DEF SameHeads, Healthy, Marked, Good
<1>8. Appended(dst, i, l)
  BY <1>1, <1>4
<1>9. PICK x \in Nat : Gained(dst, x, i.key)
  BY <1>7, <1>8, AppendGains
<1>10. \A t \in Sectors : AllGenuine(flash'[t].items)
  <2>1. i.key \in Keys /\ i.val \in Values /\ m >= 1 /\ m = Span[i.val]
    BY <1>2, <1>3, <1>5, <1>6 DEF Genuine
  <2>2. n < EntryCount /\ EntryCount \in Nat
    BY <1>2, <2>1, ByteType
  <2> QED BY <1>3, <1>5, <1>8, <2>1, <2>2, ProgramGenuine DEF UniqueInv
<1>11. Copied(nx)
  BY <1>1 DEF UniqueInv, UniquePhases
<1>12. \A t \in Sectors, j \in Nat : Twins(src, nx, t, j) => t = src /\ j = nx
  <2> SUFFICES ASSUME NEW t \in Sectors, NEW j \in Nat, Twins(src, nx, t, j)
               PROVE  t = src /\ j = nx
    OBVIOUS
  <2>1. src = t \/ (t = dst /\ nx < nx) \/ (src = dst /\ j < nx)
    BY <1>1, <1>11 DEF Copied
  <2>2. t = src
    BY <1>1, <2>1
  <2> QED BY <2>2 DEF UniqueInv, Once
<1>13. \A t \in Sectors, j \in Nat : Holding(t, j) /\ KeyOf(t, j) = i.key => t = src /\ j = nx
  BY <1>6, <1>12 DEF Twins
<1>14. Once'
  BY <1>1, <1>9, <1>13, GainedUnique DEF UniqueInv
<1>15. ASSUME NEW s \in Sectors, NEW t \in Sectors, NEW j \in Nat, NEW k \in Nat, Twins(s, j, t, k)'
       PROVE  \/ s = t
              \/ s = src /\ t = dst /\ j < nx + 1
              \/ t = src /\ s = dst /\ k < nx + 1
  <2>1. Holding(s, j)' /\ Holding(t, k)' /\ KeyOf(s, j)' = KeyOf(t, k)'
    BY <1>15 DEF Twins
  <2>2. (Holding(s, j) /\ KeyOf(s, j)' = KeyOf(s, j)) \/ (s = dst /\ KeyOf(s, j)' = i.key)
    BY <1>9, <2>1 DEF Gained
  <2>3. (Holding(t, k) /\ KeyOf(t, k)' = KeyOf(t, k)) \/ (t = dst /\ KeyOf(t, k)' = i.key)
    BY <1>9, <2>1 DEF Gained
  <2>4. CASE Twins(s, j, t, k)
    <3>1. s = t \/ (s = src /\ t = dst /\ j < nx) \/ (t = src /\ s = dst /\ k < nx)
      BY <1>1, <1>11, <2>4 DEF Copied
    <3> QED BY <3>1
  <2>5. CASE s = dst /\ Holding(t, k) /\ KeyOf(t, k) = i.key
    BY <1>13, <2>5
  <2>6. CASE t = dst /\ Holding(s, j) /\ KeyOf(s, j) = i.key
    BY <1>13, <2>6
  <2> QED BY <2>1, <2>2, <2>3, <2>4, <2>5, <2>6 DEF Twins
<1>16. Copies'
  <2>1. Highest(dst)' /\ src \in Marked'
    BY <1>1, <1>7 DEF Highest, SameHeads
  <2> QED BY <1>15, <2>1 DEF Copies, CopyPair
<1>17. \A k : Unused(k) => Unused(k)'
  <2> SUFFICES ASSUME NEW k, Unused(k) PROVE Unused(k)'
    OBVIOUS
  <2>1. k # i.key
    BY <1>6 DEF Unused
  <2> QED BY <1>9, <2>1 DEF Unused, Gained
<1>18. gc'.src = gc.src /\ gc'.dst = gc.dst => \A u : u = gc.next + 1 => Copied(u)'
  BY <1>1, <1>15 DEF Copied
<1> QED BY <1>10, <1>14, <1>16, <1>17, <1>18

LEMMA GcUnique ==
  ASSUME BaseInv, BaseInv', UniqueInv, Gc PROVE UniqueInv'
<1> USE DEF BaseInv, MarkInv, SerialInv
<1>1. CASE GcStart
  <2>1. pc = "request" /\ pc' = "gc_init" /\ Activate /\ op' = op
    BY <1>1 DEF GcStart
  <2>2. Tame
    BY <2>1, ActivateTame
  <2>3. NoCopies' /\ \A k : Unused(k) => Unused(k)'
    BY <2>1, <2>2, TameUnique DEF UniqueInv, UniquePhases
  <2>4. op'.key # None => Unused(op.key)'
    BY <2>1, <2>3 DEF UniqueInv, UniquePhases, Unused
  <2> QED BY <2>1, <2>2, <2>3, <2>4, TameInv
<1>2. CASE GcInit \/ GcMark
  <2>1. /\ pc \in {"gc_init", "gc_mark"} /\ pc' \in {"gc_mark", "gc_copy"}
        /\ gc' = gc /\ op' = op /\ active' = active
        /\ gc.dst = Last(active) /\ flash[gc.dst].items = <<>>
        /\ gc.src \in Sectors /\ gc.dst \in Sectors
    BY <1>2 DEF GcInit, GcMark, ReserveInv, ReservePhases, Bare, WeakTypes, lists
  <2>2. Tame
    <3>1. CASE GcInit
      <4>1. InitSector(gc.dst) \/ UNCHANGED flash
        BY <3>1 DEF GcInit
      <4> QED BY <2>1, <4>1, HeaderTame, NothingTame
    <3>2. CASE GcMark
      <4>1. flash' = [flash EXCEPT ![gc.src].state = "deleting"] /\ pc = "gc_mark"
        BY <3>2 DEF GcMark, SetState
      <4>2. gc.src \in Healthy
        BY <4>1 DEF ListInv, GcRunning, SerialPhases, Unwritten
      <4>3. /\ \A t \in Sectors : flash'[t].items = flash[t].items
            /\ \A t \in Sectors \ {gc.src} : flash'[t] = flash[t]
        BY <2>1, <4>1 DEF WeakTypes, FlashSector
      <4>4. \A t \in Sectors : SameShape(flash[t].items, flash[t].items)
        BY DEF SameShape
      <4> QED BY <4>2, <4>3, <4>4 DEF Tame, Healthy
    <3> QED BY <1>2, <3>1, <3>2
  <2>3. NoCopies' /\ \A k : Unused(k) => Unused(k)'
    BY <2>1, <2>2, TameUnique DEF UniqueInv, UniquePhases
  <2>4. op'.key # None => Unused(op.key)'
    BY <2>1, <2>3 DEF UniqueInv, UniquePhases, Unused
  <2>5. gc'.dst = Last(active')
    BY <2>1
  <2> QED BY <2>1, <2>2, <2>3, <2>4, <2>5, TameInv
<1>3. CASE GcCopy
  <2>1. /\ pc = "gc_copy" /\ pc' = pc /\ UNCHANGED <<active, op>> /\ GcMore
        /\ gc \in [src : Sectors, dst : Sectors, next : Nat \ {0}, to : Nat]
    BY <1>3 DEF GcCopy, lists, WeakTypes
  <2>2. PICK nx \in Nat : nx = gc.next
    BY <2>1
  <2>3. SUFFICES /\ gc'.src = gc.src /\ gc'.dst = gc.dst /\ gc'.next = nx + 1
                 /\ \A s \in Sectors : AllGenuine(flash'[s].items)
                 /\ Once' /\ Copies' /\ Copied(nx + 1)'
                 /\ \A k : Unused(k) => Unused(k)'
    <3> SUFFICES ASSUME gc'.dst = gc.dst, gc'.next = nx + 1, Copied(nx + 1)',
                        \A k : Unused(k) => Unused(k)'
                 PROVE  UniquePhases'
      BY DEF UniqueInv
    <3>1. op'.key # None => Unused(op.key)'
      BY <2>1 DEF UniqueInv, UniquePhases, Unused
    <3>2. gc'.dst = Last(active')
      BY <2>1 DEF UniqueInv, UniquePhases
    <3>3. Copied(gc.next)'
      BY DEF Copied
    <3> QED BY <2>1, <3>1, <3>2, <3>3 DEF UniquePhases
  <2>4. CASE GcItem.state # "using"
    <3>1. gc' = [gc EXCEPT !.next = nx + 1] /\ UNCHANGED flash
      BY <1>3, <2>2, <2>4 DEF GcCopy
    <3>2. gc'.src = gc.src /\ gc'.dst = gc.dst /\ gc'.next = nx + 1
      BY <2>1, <3>1
    <3>3. Copied(nx)
      BY <2>1, <2>2 DEF UniqueInv, UniquePhases
    <3>4. \A i \in Nat : i < nx => i < nx + 1
      OBVIOUS
    <3>5. Tame /\ HeadersStay
      BY <3>1, NothingTame
    <3>6. Copied(nx + 1)'
      BY <3>2, <3>3, <3>4, <3>5, TameGains DEF NothingGained, Copied, Twins
    <3>7. Copies'
      BY <3>5, TameGains, CopiesStay DEF UniqueInv
    <3> QED BY <3>2, <3>5, <3>6, <3>7, TameUnique DEF UniqueInv
  <2>5. CASE GcItem.state = "using"
    <3>1. /\ flash' = Program(flash, gc.dst, [GcItem EXCEPT !.at = gc.to])
          /\ gc' = [gc EXCEPT !.next = nx + 1, !.to = gc.to + GcItem.span]
      BY <1>3, <2>2, <2>5 DEF GcCopy
    <3>2. gc'.src = gc.src /\ gc'.dst = gc.dst /\ gc'.next = nx + 1
      BY <2>1, <3>1
    <3>3. [GcItem EXCEPT !.at = gc.to] \in AnyItem /\ gc.dst \in Sectors
      BY <2>1, GcItemType
    <3>4. PICK l \in AnyItem : /\ Appended(gc.dst, [GcItem EXCEPT !.at = gc.to], l)
                               /\ l.span = [GcItem EXCEPT !.at = gc.to].span
      BY <3>1, <3>3, ProgramAppends
    <3>5. l.span >= 1
      <4>1. GcItem \in AnyItem
        BY <2>1, GcItemType
      <4>2. l.span = GcItem.span
        BY <3>4, <4>1 DEF AnyItem
      <4>3. flash[gc.src].items \in Seq(AnyItem)
        BY <2>1 DEF WeakTypes, FlashSector
      <4>4. gc.next \in DOMAIN flash[gc.src].items
        BY <2>1, <4>3, LenProperties DEF GcMore
      <4> QED BY <2>1, <4>2, <4>4 DEF UniqueInv, AllGenuine, Genuine, GcItem
    <3>6. SameHeads(flash', flash)
      BY <1>3, ItemSteps DEF SameStates
    <3> QED BY <2>1, <2>2, <2>5, <3>2, <3>4, <3>5, <3>6, CopyGains
  <2> QED BY <2>4, <2>5
<1>4. CASE GcErase
  <2>1. /\ pc = "gc_copy" /\ pc' \in {"settle", "put"} /\ flash' = EraseSector(flash, gc.src)
        /\ op' = op \/ op' = [op EXCEPT !.again = TRUE]
    BY <1>4 DEF GcErase
  <2>2. PICK src \in Sectors : src = gc.src
    BY DEF WeakTypes
  <2>3. Tame /\ \A j : ~Holding(src, j)'
    BY <2>1, <2>2, EraseTame
  <2>4. NoCopies'
    BY <2>1, <2>2, <2>3, TameGains DEF NothingGained, NoCopies, Twins, UniqueInv, UniquePhases, Copied
  <2>5. op'.key = op.key
    BY <2>1 DEF WeakTypes, SetOp, NoOp
  <2>6. op'.key # None => Unused(op.key)'
    BY <2>1, <2>3, <2>5, TameUnique DEF UniqueInv, UniquePhases, Unused
  <2> QED BY <2>1, <2>3, <2>4, <2>6, TameInv
<1> QED BY <1>1, <1>2, <1>3, <1>4 DEF Gc

LEMMA PowerLossUnique ==
  ASSUME BaseInv, BaseInv', UniqueInv, PowerLoss PROVE UniqueInv'
<1> USE DEF BaseInv, MarkInv, SerialInv
<1>1. HeadsKept /\ pc' = "off" /\ op' = NoOp /\ NoOp.key = None
  BY TornHeads DEF PowerLoss, NoOp
<1>2. UniquePhases'
  BY <1>1 DEF UniquePhases
<1>3. HeadersStay
  BY <1>1 DEF HeadsKept, HeadersStay, Healthy, Marked, Good
<1>4. ASSUME Tame PROVE UniqueInv'
  <2>1. (\A s \in Sectors : AllGenuine(flash'[s].items)) /\ Once'
    BY <1>4, TameUnique DEF UniqueInv
  <2>2. Copies'
    BY <1>3, <1>4, TameGains, CopiesStay DEF UniqueInv
  <2> QED BY <1>2, <2>1, <2>2 DEF UniqueInv
<1>5. CASE flash' = flash
  BY <1>4, <1>5, NothingTame
<1>6. CASE \E s \in Sectors : flash' \in TornSector(s)
  <2>1. PICK s \in Sectors : flash' = [flash EXCEPT ![s].state = "crash"]
    BY <1>6 DEF TornSector, SetState
  <2>2. \A t \in Sectors : flash'[t].items = flash[t].items
    BY <2>1 DEF WeakTypes, FlashSector
  <2>3. \A t \in Sectors : SameShape(flash[t].items, flash[t].items)
    BY DEF SameShape
  <2>4. Tame
    BY <1>3, <2>2, <2>3 DEF Tame, HeadersStay
  <2> QED BY <1>4, <2>4
<1>7. CASE PutTorn
  <2>1. /\ pc = "put" /\ ram[Current].state # "uninit" /\ Fits(Current, Span[op.val])
        /\ flash' \in TornItem(Current, NewItem(op.key, op.val, ram[Current].free))
    BY <1>7 DEF PutTorn
  <2>2. PICK c \in Sectors, i \in AnyItem :
          c = Current /\ i = NewItem(op.key, op.val, ram[Current].free)
    BY <2>1, PutPlace
  <2>3. End(flash[c].items) <= ram[Current].free
    BY <2>1, <2>2, PutPlace
  <2>4. PICK n \in Nat, m \in Nat : n = ram[Current].free /\ m = Span[op.val] /\ n + m <= EntryCount
    BY <2>1, PutPlace
  <2>5. op.key \in Keys /\ op.val \in Values /\ m >= 1 /\ EntryCount \in Nat
    BY <2>1, <2>4, SizesAssumption DEF WeakTypes, SetOp
  <2>6. i.at = n /\ i.span = m /\ i.key = op.key /\ i.val = op.val
    BY <2>2, <2>4 DEF NewItem
  <2>7. PICK l \in AnyItem : Appended(c, i, l) /\ l.span \in {i.span, Overlong}
    BY <2>1, <2>2, TornAppends
  <2>8. l.span >= 1 /\ n < EntryCount
    BY <2>4, <2>5, <2>6, <2>7 DEF Overlong
  <2>9. \A t \in Sectors : AllGenuine(flash'[t].items)
    BY <2>2, <2>3, <2>4, <2>5, <2>6, <2>7, <2>8, ProgramGenuine DEF UniqueInv
  <2>10. Healthy' \subseteq Healthy
    BY <1>3 DEF HeadersStay
  <2>11. PICK x \in Nat : Gained(c, x, i.key)
    BY <2>7, <2>10, AppendGains
  <2>12. Unused(i.key) /\ NoCopies
    BY <2>1, <2>5, <2>6, NoneAssumption DEF UniqueInv, UniquePhases
  <2>13. Once' /\ NoCopies'
    BY <2>11, <2>12, GainedUnique DEF UniqueInv, Unused
  <2>14. Copies'
    BY <2>13 DEF NoCopies, Copies
  <2> QED BY <1>2, <2>9, <2>13, <2>14 DEF UniqueInv
<1>8. CASE CopyTorn
  <2>1. /\ pc = "gc_copy" /\ GcMore /\ GcItem.state = "using"
        /\ flash' \in TornItem(gc.dst, [GcItem EXCEPT !.at = gc.to])
    BY <1>8 DEF CopyTorn
  <2>2. [GcItem EXCEPT !.at = gc.to] \in AnyItem /\ GcItem \in AnyItem /\ gc.dst \in Sectors
    BY <2>1, GcItemType DEF WeakTypes
  <2>3. PICK l \in AnyItem : /\ Appended(gc.dst, [GcItem EXCEPT !.at = gc.to], l)
                             /\ l.span \in {[GcItem EXCEPT !.at = gc.to].span, Overlong}
    BY <2>1, <2>2, TornAppends
  <2>4. l.span >= 1
    <3>1. l.span \in {GcItem.span, Overlong}
      BY <2>2, <2>3 DEF AnyItem
    <3>2. flash[gc.src].items \in Seq(AnyItem) /\ gc.next \in Nat \ {0}
      BY DEF WeakTypes, FlashSector
    <3>3. gc.src \in Sectors /\ gc.next \in DOMAIN flash[gc.src].items
      BY <2>1, <3>2, LenProperties DEF GcMore, WeakTypes
    <3>4. GcItem.span >= 1
      BY <3>3 DEF UniqueInv, AllGenuine, Genuine, GcItem
    <3> QED BY <3>1, <3>4, SizesAssumption DEF Overlong
  <2>5. SameHeads(flash', flash)
    <3>1. PICK how \in Tears :
            flash' = Program(flash, gc.dst, CutShort([GcItem EXCEPT !.at = gc.to], how))
      BY <2>1 DEF TornItem
    <3>2. CutShort([GcItem EXCEPT !.at = gc.to], how) \in AnyItem
      BY <2>2, CutType
    <3> QED BY <2>2, <3>1, <3>2, ProgramType DEF WeakTypes
  <2> QED BY <1>2, <2>1, <2>3, <2>4, <2>5, CopyGains DEF UniqueInv
<1> QED BY <1>5, <1>6, <1>7, <1>8, TornCases

LEMMA InitUnique == Init => UniqueInv
<1> SUFFICES ASSUME Init PROVE UniqueInv
  OBVIOUS
<1>1. pc = "off" /\ op = NoOp /\ \A s \in Sectors : flash[s] = Blank
  BY DEF Init
<1>2. Healthy = {} /\ Blank.items = <<>>
  BY <1>1 DEF Healthy, Good, Blank
<1> QED BY <1>1, <1>2, NoItemsGenuine
        DEF UniqueInv, Once, Copies, Twins, Holding, UniquePhases, NoOp

LEMMA UniqueInvStep ==
  ASSUME ~Overwrite, BaseInv, BaseInv', UniqueInv, [Next]_vars PROVE UniqueInv'
<1>1. CASE UNCHANGED vars
  <2>1. UNCHANGED <<flash, pc, op, gc, active>>
    BY <1>1 DEF vars, lists
  <2>2. Healthy' = Healthy /\ Marked' = Marked
    BY <2>1 DEF Healthy, Marked
  <2> QED BY <2>1, <2>2 DEF UniqueInv, Once, Copies, CopyPair, Highest, NoCopies, Copied, Unused,
             Twins, Holding, KeyOf, UniquePhases
<1> QED BY <1>1, MountUnique, CallUnique, GcUnique, PowerLossUnique DEF Next

\* Between calls no key has two items, whatever power failures there were and
\* whatever they left behind, for callers that do not overwrite: a lookup, which
\* takes the first item it finds, takes the only one.
THEOREM KeysStayUnique ==
  ASSUME ~Overwrite PROVE Spec => []KeysUnique
<1>1. BaseInv /\ [Next]_vars => BaseInv'
  BY BaseInvStep
<1>2. BaseInv /\ BaseInv' /\ UniqueInv /\ [Next]_vars => UniqueInv'
  BY UniqueInvStep
<1>3. BaseInv /\ UniqueInv => KeysUnique
  <2> SUFFICES ASSUME BaseInv, UniqueInv, pc = "ready", NEW k \in Keys
               PROVE  Cardinality(Hits(k, Types)) <= 1
    BY DEF KeysUnique
  <2>1. ASSUME NEW x \in Hits(k, Types), NEW y \in Hits(k, Types) PROVE x = y
    <3>1. PICK i \in 1..Len(active), m \in 1..EntryCount : x = <<i, m>>
      BY DEF Hits
    <3>2. PICK j \in 1..Len(active), n \in 1..EntryCount : y = <<j, n>>
      BY DEF Hits
    <3>3. /\ Holding(active[i], m) /\ KeyOf(active[i], m) = k
          /\ Holding(active[j], n) /\ KeyOf(active[j], n) = k
      <4>1. /\ Searched(active[i]) /\ m \in DOMAIN flash[active[i]].items
            /\ flash[active[i]].items[m].state = "using" /\ flash[active[i]].items[m].key = k
        BY <3>1 DEF Hits
      <4>2. /\ Searched(active[j]) /\ n \in DOMAIN flash[active[j]].items
            /\ flash[active[j]].items[n].state = "using" /\ flash[active[j]].items[n].key = k
        BY <3>2 DEF Hits
      <4>3. active[i] \in Sectors /\ active[j] \in Sectors
        BY ElementOfSeq DEF BaseInv, ListInv, Lists
      <4>4. active[i] \in Healthy /\ active[j] \in Healthy
        BY <4>1, <4>2, <4>3 DEF BaseInv, SerialInv, SerialFacts, HealthKnown, Searched, Good, Healthy
      <4>5. Sound(flash[active[i]].items) /\ Sound(flash[active[j]].items)
        BY <4>4 DEF BaseInv, PackInv, PackMounted
      <4> QED BY <4>1, <4>2, <4>4, <4>5 DEF Holding, KeyOf, Sound
    <3>4. active[i] \in Sectors /\ active[j] \in Sectors
      BY ElementOfSeq DEF BaseInv, ListInv, Lists
    <3>5. active[i] = active[j]
      BY <3>3, <3>4, ByteType DEF UniqueInv, UniquePhases, NoCopies, Twins
    <3>6. m = n
      BY <3>3, <3>4, <3>5, ByteType DEF UniqueInv, Once, Twins
    <3>7. i = j
      BY <3>5, LenProperties DEF BaseInv, ListInv, ListsPartition, Lists, IsInjective
    <3> QED BY <3>1, <3>2, <3>6, <3>7
  <2>2. CASE Hits(k, Types) = {}
    BY <2>2, FS_EmptySet
  <2>3. CASE Hits(k, Types) # {}
    <3>1. PICK x : Hits(k, Types) = {x}
      BY <2>1, <2>3
    <3>2. Cardinality({x}) = 1
      BY FS_Singleton
    <3> QED BY <3>1, <3>2
  <2> QED BY <2>2, <2>3
<1> QED BY <1>1, <1>2, <1>3, InitBase, InitUnique, PTL DEF Spec
-------------------------------------------------------------------------------
(* What a step writes.  A caller that does not overwrite never makes the   *)
(* engine drop an item where there is none any more, so that no byte of    *)
(* the unwritten area is programmed and every item lands as it was meant.  *)

WritesHeader(s) ==
  \E st \in State, n \in Nat : flash' = [flash EXCEPT ![s].state = st, ![s].serial = n]
Drops(s, j) == j \in InUse(s) /\ flash' = DropAt(flash, s, flash[s].items[j].at)
Programs(s, i) ==
  /\ s \in Healthy /\ flash' = Program(flash, s, i)
  /\ i \in AnyItem /\ End(flash[s].items) <= i.at

FlashStep ==
  \/ UNCHANGED flash
  \/ Load
  \/ DropOld /\ op.old # None
  \/ \E s \in Sectors : \/ flash' = EraseSector(flash, s)
                        \/ WritesHeader(s)
                        \/ \E j \in Nat : Drops(s, j)
                        \/ \E i \in AnyItem : Programs(s, i)

\* The item a lookup finds is in use where it is found.
LEMMA FoundDrops ==
  ASSUME ListInv, WeakTypes, NEW k, NEW T, NEW x \in Found(k, T), x # None
  PROVE  /\ x \in Hits(k, T)
         /\ \E i \in DOMAIN active, s \in Sectors, j \in Nat :
              /\ x = <<i, j>> /\ s = active[i] /\ j \in InUse(s)
              /\ flash[s].items[j].key = k /\ TypeOf[flash[s].items[j].val] \in T
              /\ ItemAt(x) = flash[s].items[j] /\ Place(x).sec = s
              /\ Place(x).at = flash[s].items[j].at /\ Place(x).span = flash[s].items[j].span
<1>1. x \in Hits(k, T)
  BY DEF Found
<1>2. PICK i \in 1..Len(active), j \in 1..EntryCount : x = <<i, j>>
  BY <1>1 DEF Hits
<1>3. i \in DOMAIN active /\ active[i] \in Sectors
  BY LenProperties, ElementOfSeq DEF ListInv, Lists
<1>4. /\ j \in DOMAIN flash[active[i]].items
      /\ flash[active[i]].items[j].state = "using"
      /\ flash[active[i]].items[j].key = k /\ TypeOf[flash[active[i]].items[j].val] \in T
  BY <1>1, <1>2 DEF Hits
<1>5. ItemAt(x) = flash[active[i]].items[j] /\ Place(x).sec = active[i]
      /\ Place(x).at = flash[active[i]].items[j].at /\ Place(x).span = flash[active[i]].items[j].span
  BY <1>2 DEF ItemAt, Place
<1>6. j \in Nat
  OBVIOUS
<1> QED BY <1>1, <1>2, <1>3, <1>4, <1>5, <1>6 DEF InUse

\* The last item in use of the last sector.
LEMMA LastPlace ==
  ASSUME ListInv, WeakTypes, pc # "off", active # <<>>, NEW j \in InUse(Current)
  PROVE  /\ Current \in Sectors /\ j \in Nat
         /\ ItemAt(<<Len(active), j>>) = flash[Current].items[j]
         /\ Place(<<Len(active), j>>).sec = Current
         /\ Place(<<Len(active), j>>).at = flash[Current].items[j].at
         /\ Place(<<Len(active), j>>).span = flash[Current].items[j].span
<1>1. active \in Seq(Sectors) /\ IsInjective(active)
  BY DEF ListInv, Lists, ListsPartition
<1>2. Current \in Sectors /\ Current = active[Len(active)]
  <2>1. Current \in Sectors
    BY <1>1, FrontOnly DEF Current
  <2> QED BY <2>1 DEF Current, Last
<1>3. flash[Current].items \in Seq(AnyItem)
  BY <1>2 DEF WeakTypes, FlashSector
<1>4. PICK n \in Nat : DOMAIN flash[Current].items = 1..n
  BY <1>3, LenProperties
<1>5. j \in Nat
  BY <1>4 DEF InUse
<1> QED BY <1>2, <1>5 DEF ItemAt, Place

LEMMA MountFlash == ASSUME BaseInv, Mount PROVE FlashStep
<1> USE DEF BaseInv, MarkInv, SerialInv
<1>1. ASSUME Activate, pc # "off" PROVE FlashStep
  <2>1. idle \in Seq(Sectors) /\ idle # <<>> /\ IsInjective(idle)
    BY <1>1 DEF ListInv, Lists, ListsPartition, Activate
  <2>2. Head(idle) \in Sectors
    BY <2>1, TailOnly
  <2>3. flash' = EraseSector(flash, Head(idle)) \/ flash' = flash
    BY <1>1 DEF Activate
  <2> QED BY <2>2, <2>3 DEF FlashStep
<1>2. CASE Load
  BY <1>2 DEF FlashStep
<1>3. CASE LoadFirst \/ FixGcTake
  <2>1. Activate /\ pc # "off"
    BY <1>3 DEF LoadFirst, FixGcTake
  <2> QED BY <1>1, <2>1
<1>4. CASE Settle
  BY <1>4 DEF Settle, FlashStep
<1>5. CASE FixGcErase
  <2>1. pc = "fix_gc"
    BY <1>5 DEF FixGcErase
  <2>2. Current \in Sectors
    BY <2>1, CurrentType
  <2>3. flash' = EraseSector(flash, Current) \/ flash' = flash
    BY <1>5 DEF FixGcErase
  <2> QED BY <2>2, <2>3 DEF FlashStep
<1>6. CASE FixWrite
  <2>1. ASSUME NEW s \in Sectors, NEW j \in Nat, NEW p, j \in InUse(s), p.sec = s,
               p.at = flash[s].items[j].at, EraseItem(p)
        PROVE  FlashStep
    BY <2>1 DEF EraseItem, FlashStep, Drops
  <2>2. /\ active # <<>> /\ pc # "off"
        /\ \/ UNCHANGED flash
           \/ \E j \in InUse(Current) : EraseItem(Place(<<Len(active), j>>))
           \/ \E k, T : \E x \in Found(k, T) : x # None /\ EraseItem(Place(x))
    BY <1>6 DEF FixWrite
  <2>3. ASSUME NEW j \in InUse(Current), EraseItem(Place(<<Len(active), j>>)) PROVE FlashStep
    BY <2>1, <2>2, <2>3, LastPlace
  <2>4. ASSUME NEW k, NEW T, NEW x \in Found(k, T), x # None, EraseItem(Place(x)) PROVE FlashStep
    BY <2>1, <2>4, FoundDrops
  <2> QED BY <2>2, <2>3, <2>4 DEF FlashStep
<1> QED BY <1>2, <1>3, <1>4, <1>5, <1>6 DEF Mount

LEMMA CallFlash ==
  ASSUME BaseInv,
         \/ Write
         \/ \E k \in Keys, v \in Values : Set(k, v)
         \/ \E k \in Keys, t \in Types : Get(k, t) \/ Del(k, t)
  PROVE  FlashStep
<1> USE DEF BaseInv, MarkInv, SerialInv
<1>1. CASE TakeIdle
  <2>1. idle \in Seq(Sectors) /\ idle # <<>> /\ IsInjective(idle)
    BY <1>1 DEF ListInv, Lists, ListsPartition, Activate, TakeIdle
  <2>2. Head(idle) \in Sectors
    BY <2>1, TailOnly
  <2>3. flash' = EraseSector(flash, Head(idle)) \/ flash' = flash
    BY <1>1 DEF Activate, TakeIdle
  <2> QED BY <2>2, <2>3 DEF FlashStep
<1>2. CASE PutInit
  <2>1. Current \in Sectors
    BY <1>2, CurrentType DEF PutInit
  <2>2. flash' = [flash EXCEPT ![Current].state = "using", ![Current].serial = ram[Current].serial]
    BY <1>2 DEF PutInit, InitSector, WriteHeader
  <2>3. "using" \in State /\ ram[Current].serial \in Nat
    BY <2>1 DEF State, WeakTypes, RamSector
  <2> QED BY <2>1, <2>2, <2>3 DEF FlashStep, WritesHeader
<1>3. CASE PutItem
  <2>1. /\ pc = "put" /\ ram[Current].state # "uninit" /\ Fits(Current, Span[op.val])
        /\ flash' = Program(flash, Current, NewItem(op.key, op.val, ram[Current].free))
    BY <1>3 DEF PutItem
  <2>2. PICK c \in Sectors, i \in AnyItem :
          c = Current /\ i = NewItem(op.key, op.val, ram[Current].free)
    BY <2>1, PutPlace
  <2>3. End(flash[c].items) <= i.at /\ c \in Healthy
    BY <2>1, <2>2, PutPlace, NewItemFacts
  <2> QED BY <2>1, <2>2, <2>3 DEF FlashStep, Programs
<1>4. CASE DropOld
  BY <1>4 DEF DropOld, FlashStep
<1>5. ASSUME NEW k \in Keys, NEW t \in Types, Del(k, t) PROVE FlashStep
  <2>1. \/ UNCHANGED flash
        \/ \E x \in Found(k, {t}) : x # None /\ EraseItem(Place(x))
    BY <1>5 DEF Del
  <2>2. ASSUME NEW x \in Found(k, {t}), x # None, EraseItem(Place(x)) PROVE FlashStep
    BY <2>2, FoundDrops DEF EraseItem, FlashStep, Drops
  <2> QED BY <2>1, <2>2 DEF FlashStep
<1>6. CASE PutFull \/ NoSpace \/ \E k \in Keys, v \in Values : Set(k, v)
  BY <1>6 DEF PutFull, NoSpace, Set, FlashStep
<1>7. CASE \E k \in Keys, t \in Types : Get(k, t)
  BY <1>7 DEF Get, FlashStep
<1> QED BY <1>1, <1>2, <1>3, <1>4, <1>5, <1>6, <1>7 DEF Write

LEMMA GcFlash == ASSUME BaseInv, Gc PROVE FlashStep
<1> USE DEF BaseInv, MarkInv, SerialInv
<1>1. CASE GcStart
  <2>1. idle \in Seq(Sectors) /\ idle # <<>> /\ IsInjective(idle)
    BY <1>1 DEF ListInv, Lists, ListsPartition, Activate, GcStart
  <2>2. Head(idle) \in Sectors
    BY <2>1, TailOnly
  <2>3. flash' = EraseSector(flash, Head(idle)) \/ flash' = flash
    BY <1>1 DEF Activate, GcStart
  <2> QED BY <2>2, <2>3 DEF FlashStep
<1>2. gc.src \in Sectors /\ gc.dst \in Sectors /\ flash \in [Sectors -> FlashSector]
  BY DEF WeakTypes
<1>3. CASE GcInit
  <2>1. \/ UNCHANGED flash
        \/ flash' = [flash EXCEPT ![gc.dst].state = "using", ![gc.dst].serial = ram[gc.dst].serial]
    BY <1>3 DEF GcInit, InitSector, WriteHeader
  <2>2. "using" \in State /\ ram[gc.dst].serial \in Nat
    BY <1>2 DEF State, WeakTypes, RamSector
  <2> QED BY <1>2, <2>1, <2>2 DEF FlashStep, WritesHeader
<1>4. CASE GcMark
  <2>1. PICK n \in Nat : n = flash[gc.src].serial
    BY <1>2 DEF FlashSector
  <2>2. flash' = [flash EXCEPT ![gc.src].state = "deleting"]
    BY <1>4 DEF GcMark, SetState
  <2>3. flash' = [flash EXCEPT ![gc.src].state = "deleting", ![gc.src].serial = n]
    BY <1>2, <2>1, <2>2 DEF FlashSector
  <2> QED BY <1>2, <2>3 DEF FlashStep, WritesHeader, State
<1>5. CASE GcCopy
  <2>1. pc = "gc_copy" /\ GcMore
    BY <1>5 DEF GcCopy
  <2>2. CASE GcItem.state # "using"
    BY <1>5, <2>2 DEF GcCopy, FlashStep
  <2>3. CASE GcItem.state = "using"
    <3>1. flash' = Program(flash, gc.dst, [GcItem EXCEPT !.at = gc.to])
      BY <1>5, <2>3 DEF GcCopy
    <3>2. PICK i \in AnyItem : i = [GcItem EXCEPT !.at = gc.to]
      BY <2>1, GcItemType
    <3>3. GcItem \in AnyItem /\ End(flash[gc.dst].items) <= gc.to
      BY <2>1, <2>3, CopyPlace
    <3>4. i.at = gc.to
      BY <3>2, <3>3 DEF AnyItem
    <3>5. gc.dst \in Healthy
      BY <1>2, <2>1 DEF ListInv, GcRunning, SerialPhases, Unwritten
    <3> QED BY <1>2, <3>1, <3>2, <3>3, <3>4, <3>5 DEF FlashStep, Programs
  <2> QED BY <2>2, <2>3
<1>6. CASE GcErase
  BY <1>2, <1>6 DEF GcErase, FlashStep
<1> QED BY <1>1, <1>3, <1>4, <1>5, <1>6 DEF Gc

LEMMA PowerLossFlash == ASSUME BaseInv, PowerLoss PROVE FlashStep
<1> USE DEF BaseInv, MarkInv, SerialInv
<1>1. CASE flash' = flash
  BY <1>1 DEF FlashStep
<1>2. CASE \E s \in Sectors : flash' \in TornSector(s)
  <2>1. PICK s \in Sectors : flash' = [flash EXCEPT ![s].state = "crash"]
    BY <1>2 DEF TornSector, SetState
  <2>2. PICK n \in Nat : n = flash[s].serial /\ flash \in [Sectors -> FlashSector]
    BY DEF WeakTypes, FlashSector
  <2>3. flash' = [flash EXCEPT ![s].state = "crash", ![s].serial = n]
    BY <2>1, <2>2 DEF FlashSector
  <2> QED BY <2>3 DEF FlashStep, WritesHeader, State
<1>3. CASE PutTorn
  <2>1. /\ pc = "put" /\ ram[Current].state # "uninit" /\ Fits(Current, Span[op.val])
        /\ flash' \in TornItem(Current, NewItem(op.key, op.val, ram[Current].free))
    BY <1>3 DEF PutTorn
  <2>2. PICK c \in Sectors, i \in AnyItem :
          c = Current /\ i = NewItem(op.key, op.val, ram[Current].free)
    BY <2>1, PutPlace
  <2>3. End(flash[c].items) <= i.at /\ c \in Healthy
    BY <2>1, <2>2, PutPlace, NewItemFacts
  <2>4. PICK how \in Tears : flash' = Program(flash, c, CutShort(i, how))
    BY <2>1, <2>2 DEF TornItem
  <2>5. CutShort(i, how) \in AnyItem /\ CutShort(i, how).at = i.at
    BY CutType
  <2> QED BY <2>3, <2>4, <2>5 DEF FlashStep, Programs
<1>4. CASE CopyTorn
  <2>1. /\ pc = "gc_copy" /\ GcMore /\ GcItem.state = "using"
        /\ flash' \in TornItem(gc.dst, [GcItem EXCEPT !.at = gc.to])
    BY <1>4 DEF CopyTorn
  <2>2. PICK i \in AnyItem : i = [GcItem EXCEPT !.at = gc.to]
    BY <2>1, GcItemType
  <2>3. GcItem \in AnyItem /\ End(flash[gc.dst].items) <= gc.to
    BY <2>1, CopyPlace
  <2>4. i.at = gc.to /\ gc.dst \in Sectors
    BY <2>2, <2>3 DEF AnyItem, WeakTypes
  <2>5. gc.dst \in Healthy
    BY <2>1, <2>4 DEF ListInv, GcRunning, SerialPhases, Unwritten
  <2>6. PICK how \in Tears : flash' = Program(flash, gc.dst, CutShort(i, how))
    BY <2>1, <2>2 DEF TornItem
  <2>7. CutShort(i, how) \in AnyItem /\ CutShort(i, how).at = i.at
    BY CutType
  <2> QED BY <2>3, <2>4, <2>5, <2>6, <2>7 DEF FlashStep, Programs
<1> QED BY <1>1, <1>2, <1>3, <1>4, TornCases

LEMMA NextFlash == BaseInv /\ [Next]_vars => FlashStep
<1>1. CASE UNCHANGED vars
  BY <1>1 DEF vars, FlashStep
<1> QED BY <1>1, MountFlash, CallFlash, GcFlash, PowerLossFlash DEF Next
\* Items lie one behind the other; no two start at the same slice.
Apart(q) == \A i, j \in DOMAIN q : i < j => q[i].at + q[i].span <= q[j].at

PlainInv ==
  /\ op.old = None
  /\ \A s \in Sectors : flash[s].stray = {} /\ Apart(flash[s].items)

LEMMA ShapeApart ==
  ASSUME NEW q, NEW r, SameShape(q, r), Apart(r) PROVE Apart(q)
BY DEF SameShape, Apart

LEMMA AppendApart ==
  ASSUME NEW q \in Seq(AnyItem), NEW l \in AnyItem, Apart(q), End(q) <= l.at
  PROVE  Apart(Append(q, l))
<1>1. PICK n \in Nat : /\ n = Len(q) /\ DOMAIN q = 1..n
                       /\ DOMAIN Append(q, l) = 1..(n + 1) /\ Append(q, l)[n + 1] = l
                       /\ \A j \in 1..n : Append(q, l)[j] = q[j]
                       /\ \A j \in 1..(n + 1) : j \in 1..n \/ j = n + 1
  BY AppendItems
<1>2. \A j \in 1..n : q[j].at \in Nat /\ q[j].span \in Nat
  <2>1. \A j \in 1..n : q[j] \in AnyItem
    BY <1>1, ElementOfSeq
  <2> QED BY <2>1 DEF AnyItem
<1>3. l.at \in Nat
  BY DEF AnyItem
<1>4. ASSUME NEW i \in 1..n PROVE q[i].at + q[i].span <= l.at
  <2>1. n \in 1..n /\ q # <<>>
    BY <1>1, EmptySeq
  <2>2. q[n].at + q[n].span <= l.at
    BY <1>1, <2>1 DEF End
  <2>3. i = n \/ (i < n /\ q[i].at + q[i].span <= q[n].at)
    BY <1>1, <2>1 DEF Apart
  <2>4. PICK a, b, c, d, e \in Nat : /\ a = q[i].at /\ b = q[i].span /\ c = q[n].at
                                     /\ d = q[n].span /\ e = l.at
    BY <1>2, <1>3, <2>1
  <2>5. c + d <= e /\ (i = n \/ a + b <= c)
    BY <2>2, <2>3, <2>4
  <2>6. CASE i = n
    BY <2>2, <2>6
  <2>7. CASE a + b <= c
    <3>1. a + b <= e
      BY <2>5, <2>7
    <3> QED BY <2>4, <3>1
  <2> QED BY <2>5, <2>6, <2>7
<1>5. \A i, j \in 1..n : i < j => q[i].at + q[i].span <= q[j].at
  BY <1>1 DEF Apart
<1>6. \A i \in 1..n : i < n + 1 /\ ~(n + 1 < i)
  OBVIOUS
<1> QED BY <1>1, <1>4, <1>5, <1>6 DEF Apart

LongEnough(q) == \A j \in DOMAIN q : q[j].span >= 1

\* Two items that take slices do not start at the same one.
LEMMA ApartPlaces ==
  ASSUME NEW q \in Seq(AnyItem), Apart(q), LongEnough(q), NEW i \in DOMAIN q, NEW j \in DOMAIN q, q[i].at = q[j].at
  PROVE  i = j
<1>1. PICK n \in Nat : n = Len(q) /\ DOMAIN q = 1..n
  BY LenProperties
<1>2. i \in 1..n /\ j \in 1..n
  BY <1>1
<1>3. q[i] \in AnyItem /\ q[j] \in AnyItem
  BY <1>1, <1>2, ElementOfSeq
<1>4. PICK a, b, c, d \in Nat : a = q[i].at /\ b = q[i].span /\ c = q[j].at /\ d = q[j].span
  BY <1>3 DEF AnyItem
<1>5. a = c /\ b >= 1 /\ d >= 1
  BY <1>1, <1>2, <1>4 DEF LongEnough
<1>6. (i < j => a + b <= c) /\ (j < i => c + d <= a)
  BY <1>1, <1>2, <1>4 DEF Apart
<1> QED BY <1>2, <1>5, <1>6

\* What a program writes when no byte under it has been programmed.
LEMMA PlainProgram ==
  ASSUME NEW f \in [Sectors -> FlashSector], NEW s \in Sectors, f[s].stray = {},
         NEW i \in AnyItem, NEW g, g = Program(f, s, i)
  PROVE  /\ g[s].items = Append(f[s].items, i) /\ g[s].stray = {}
         /\ \A t \in Sectors \ {s} : g[t] = f[t]
<1> DEFINE burnt == f[s].stray \cap Slices(i)
           landed == [i EXCEPT !.state = IF i.at \in burnt THEN "dropped" ELSE @,
                               !.crcData = @ /\ burnt \subseteq {i.at}]
<1>1. burnt = {}
  OBVIOUS
<1>2. i.crcData \in BOOLEAN /\ i = [at |-> i.at, span |-> i.span, key |-> i.key, val |-> i.val,
        state |-> i.state, crcItem |-> i.crcItem, crcData |-> i.crcData]
  BY DEF AnyItem
<1>3. (i.crcData /\ burnt \subseteq {i.at}) = i.crcData /\ i.at \notin burnt
  BY <1>1, <1>2
<1>4. landed = [i EXCEPT !.state = i.state, !.crcData = i.crcData]
  BY <1>3
<1>5. landed = i
  BY <1>2, <1>4 DEF AnyItem
<1>6. Program(f, s, i) = [f EXCEPT ![s].items = Append(f[s].items, landed)]
  BY DEF Program
<1> HIDE DEF landed, burnt
<1> QED BY <1>5, <1>6 DEF FlashSector

\* g is f with item j of sector s dropped.
DroppedOnly(f, g, s, j) ==
  /\ g[s].stray = f[s].stray
  /\ DOMAIN g[s].items = DOMAIN f[s].items
  /\ g[s].items[j] = [f[s].items[j] EXCEPT !.state = "dropped"]
  /\ \A i \in DOMAIN f[s].items \ {j} : g[s].items[i] = f[s].items[i]
  /\ \A t \in Sectors \ {s} : g[t] = f[t]

\* Clearing the state byte of an item changes that item only.
LEMMA PlainDrop ==
  ASSUME NEW f \in [Sectors -> FlashSector], NEW s \in Sectors, Apart(f[s].items),
         LongEnough(f[s].items),
         NEW j \in DOMAIN f[s].items, NEW g, g = DropAt(f, s, f[s].items[j].at)
  PROVE  DroppedOnly(f, g, s, j)
<1> DEFINE q == f[s].items
           n == q[j].at
           r == [i \in DOMAIN q |-> IF q[i].at = n THEN [q[i] EXCEPT !.state = "dropped"]
                                                  ELSE q[i]]
<1>1. q \in Seq(AnyItem)
  BY DEF FlashSector
<1>2. \A i \in DOMAIN q : q[i].at = n => i = j
  BY <1>1, ApartPlaces
<1>3. /\ DOMAIN r = DOMAIN q /\ r[j] = [q[j] EXCEPT !.state = "dropped"]
      /\ \A i \in DOMAIN q \ {j} : r[i] = q[i]
  BY <1>2
<1>4. DropAt(f, s, n) = [f EXCEPT ![s].items = r]
  BY DEF DropAt
<1> HIDE DEF r
<1>5. /\ DropAt(f, s, n)[s].items = r /\ DropAt(f, s, n)[s].stray = f[s].stray
      /\ \A t \in Sectors \ {s} : DropAt(f, s, n)[t] = f[t]
  BY <1>4 DEF FlashSector
<1> QED BY <1>3, <1>5 DEF DroppedOnly

\* wm_nvs_storage_write_item remembers no old item.
LEMMA NoOldItem ==
  ASSUME ~Overwrite, op.old = None, [Next]_vars PROVE op'.old = None
<1>1. ASSUME NEW k \in Keys, NEW v \in Values, Set(k, v) PROVE op'.old = None
  <2>1. Found(k, Types) = {None}
    BY <1>1 DEF Set, Found
  <2>2. PICK x \in Found(k, Types) :
          IF x # None /\ ItemAt(x).val = v
            THEN UNCHANGED op
            ELSE op' = [key |-> k, val |-> v, again |-> FALSE,
                        old |-> IF x = None THEN None ELSE Place(x)]
    BY <1>1 DEF Set
  <2> QED BY <2>1, <2>2
<1>2. CASE op' = NoOp
  BY <1>2 DEF NoOp
<1>3. CASE op' = op
  BY <1>3
<1>4. CASE op' = [op EXCEPT !.again = TRUE]
  BY <1>4
<1>5. CASE Mount
  BY <1>3, <1>5 DEF Mount, Load, LoadFirst, FixWrite, FixGcErase, FixGcTake, Settle
<1>6. CASE Write
  BY <1>2, <1>3, <1>4, <1>6 DEF Write, PutInit, PutItem, PutFull, DropOld, TakeIdle, NoSpace, Return
<1>7. CASE Gc
  BY <1>3, <1>4, <1>7 DEF Gc, GcStart, GcInit, GcMark, GcCopy, GcErase
<1>8. CASE \E k \in Keys, t \in Types : Get(k, t) \/ Del(k, t)
  BY <1>3, <1>8 DEF Get, Del
<1>9. CASE PowerLoss
  BY <1>2, <1>9 DEF PowerLoss
<1> QED BY <1>1, <1>3, <1>5, <1>6, <1>7, <1>8, <1>9 DEF Next, vars

LEMMA PlainInvStep ==
  ASSUME ~Overwrite, BaseInv, UniqueInv, PlainInv, [Next]_vars PROVE PlainInv'
<1>1. op'.old = None
  BY NoOldItem DEF PlainInv
<1>2. flash \in [Sectors -> FlashSector] /\ \A s \in Sectors : flash[s].items \in Seq(AnyItem)
  BY DEF BaseInv, MarkInv, WeakTypes, FlashSector
<1> SUFFICES ASSUME NEW t \in Sectors PROVE flash'[t].stray = {} /\ Apart(flash'[t].items)
  BY <1>1 DEF PlainInv
<1>3. flash[t].stray = {} /\ Apart(flash[t].items)
  BY DEF PlainInv
<1>4. CASE UNCHANGED flash
  BY <1>3, <1>4
<1>5. CASE Load
  <2>1. flash'[t] = flash[t] \/ flash'[t] = Cleaned(flash[t])
    BY <1>5 DEF Load
  <2>2. Cleaned(flash[t]).stray = flash[t].stray
    BY <1>2 DEF Cleaned, FlashSector
  <2>3. SameShape(Cleaned(flash[t]).items, flash[t].items)
    BY <1>2, CleanedShape
  <2> QED BY <1>3, <2>1, <2>2, <2>3, ShapeApart
<1>6. CASE DropOld /\ op.old # None
  BY <1>6 DEF PlainInv
<1>7. ASSUME NEW s \in Sectors, flash' = EraseSector(flash, s)
      PROVE  flash'[t].stray = {} /\ Apart(flash'[t].items)
  <2>1. flash'[t] = flash[t] \/ flash'[t] = Blank
    BY <1>2, <1>7 DEF EraseSector
  <2>2. Blank.stray = {} /\ Blank.items = <<>> /\ DOMAIN <<>> = {}
    BY EmptySeq, LenProperties DEF Blank
  <2> QED BY <1>3, <2>1, <2>2 DEF Apart
<1>8. ASSUME NEW s \in Sectors, WritesHeader(s)
      PROVE  flash'[t].stray = {} /\ Apart(flash'[t].items)
  <2>1. flash'[t].stray = flash[t].stray /\ flash'[t].items = flash[t].items
    BY <1>2, <1>8 DEF WritesHeader, FlashSector
  <2> QED BY <1>3, <2>1
<1>9. ASSUME NEW s \in Sectors, NEW j \in Nat, Drops(s, j)
      PROVE  flash'[t].stray = {} /\ Apart(flash'[t].items)
  <2>1. j \in DOMAIN flash[s].items /\ flash' = DropAt(flash, s, flash[s].items[j].at)
    BY <1>9 DEF Drops, InUse
  <2>2. LongEnough(flash[s].items)
    BY DEF UniqueInv, AllGenuine, Genuine, LongEnough
  <2>3. flash'[s].stray = flash[s].stray /\ \A u \in Sectors \ {s} : flash'[u] = flash[u]
    <3>1. Apart(flash[s].items)
      BY DEF PlainInv
    <3>2. DroppedOnly(flash, flash', s, j)
      BY <1>2, <2>1, <2>2, <3>1, PlainDrop
    <3> QED BY <3>2 DEF DroppedOnly
  <2>4. flash[s].items[j].at \in Nat
    <3>1. PICK n \in Nat : n = Len(flash[s].items) /\ j \in 1..n
      BY <1>2, <2>1, LenProperties
    <3>2. flash[s].items[j] \in AnyItem
      BY <1>2, <3>1, ElementOfSeq
    <3> QED BY <3>2 DEF AnyItem
  <2>5. SameShape(flash'[t].items, flash[t].items)
    BY <1>2, <2>1, <2>4, DropShape
  <2> QED BY <1>3, <2>3, <2>5, ShapeApart
<1>10. ASSUME NEW s \in Sectors, NEW i \in AnyItem, Programs(s, i)
       PROVE  flash'[t].stray = {} /\ Apart(flash'[t].items)
  <2>1. flash' = Program(flash, s, i) /\ End(flash[s].items) <= i.at
    BY <1>10 DEF Programs
  <2>2. /\ flash'[s].items = Append(flash[s].items, i) /\ flash'[s].stray = {}
        /\ \A u \in Sectors \ {s} : flash'[u] = flash[u]
    BY <1>2, <2>1, PlainProgram DEF PlainInv
  <2>3. Apart(flash'[s].items)
    BY <1>2, <2>1, <2>2, AppendApart DEF PlainInv
  <2> QED BY <1>3, <2>2, <2>3
<1>11. FlashStep
  BY NextFlash
<1> QED BY <1>4, <1>5, <1>6, <1>7, <1>8, <1>9, <1>10, <1>11 DEF FlashStep

LEMMA InitPlain == Init => PlainInv
<1> SUFFICES ASSUME Init PROVE PlainInv
  OBVIOUS
<1>1. op.old = None /\ \A s \in Sectors : flash[s] = Blank
  BY DEF Init, NoOp
<1>2. Blank.stray = {} /\ Blank.items = <<>> /\ DOMAIN <<>> = {}
  BY EmptySeq, LenProperties DEF Blank
<1> QED BY <1>1, <1>2 DEF PlainInv, Apart
-------------------------------------------------------------------------------
(* Counting slices.  The counters of the manager add and never look; what  *)
(* a mount computes from flash is the size of a set.  They agree because   *)
(* the items of a sector fill it from its first slice without a gap, and   *)
(* no two overlap, so that the sizes of their slices add up.               *)

Cover(q, J) == UNION {Slices(q[j]) : j \in J}
Dropped(q) == {j \in DOMAIN q : q[j].state = "dropped"}
Using(q) == {j \in DOMAIN q : q[j].state = "using"}
Filled(q) == Cover(q, DOMAIN q) = 0..(End(q) - 1)

LEMMA TakenCover ==
  ASSUME NEW q \in Seq(AnyItem), NEW J, J \subseteq DOMAIN q
  PROVE  /\ IsFiniteSet(Cover(q, J)) /\ Taken(q, J) = Cardinality(Cover(q, J))
         /\ Taken(q, J) \in Nat
BY TakenType DEF Taken, Cover

\* Different items have no slice in common.
LEMMA ApartSlices ==
  ASSUME NEW q \in Seq(AnyItem), Apart(q), NEW i \in DOMAIN q, NEW j \in DOMAIN q, i # j
  PROVE  Slices(q[i]) \cap Slices(q[j]) = {}
<1>1. PICK n \in Nat : n = Len(q) /\ DOMAIN q = 1..n
  BY LenProperties
<1>2. i \in 1..n /\ j \in 1..n
  BY <1>1
<1>3. q[i] \in AnyItem /\ q[j] \in AnyItem
  BY <1>1, <1>2, ElementOfSeq
<1>4. PICK a, b, c, d \in Nat : a = q[i].at /\ b = q[i].span /\ c = q[j].at /\ d = q[j].span
  BY <1>3 DEF AnyItem
<1>5. (i < j => a + b <= c) /\ (j < i => c + d <= a)
  BY <1>1, <1>2, <1>4 DEF Apart
<1>6. a + b <= c \/ c + d <= a
  BY <1>2, <1>5
<1>7. Slices(q[i]) = a..(a + b - 1) /\ Slices(q[j]) = c..(c + d - 1)
  BY <1>4 DEF Slices
<1> QED BY <1>6, <1>7

\* The slices of two sets of items add up.
LEMMA TakenSplit ==
  ASSUME NEW q \in Seq(AnyItem), Apart(q), NEW J, NEW K, J \subseteq DOMAIN q,
         K \subseteq DOMAIN q, J \cap K = {}
  PROVE  Taken(q, J \cup K) = Taken(q, J) + Taken(q, K)
<1>1. Cover(q, J \cup K) = Cover(q, J) \cup Cover(q, K)
  BY DEF Cover
<1>2. Cover(q, J) \cap Cover(q, K) = {}
  <2> SUFFICES ASSUME NEW x \in Cover(q, J), x \in Cover(q, K) PROVE FALSE
    OBVIOUS
  <2>1. PICK j \in J : x \in Slices(q[j])
    BY DEF Cover
  <2>2. PICK k \in K : x \in Slices(q[k])
    BY DEF Cover
  <2>3. j \in DOMAIN q /\ k \in DOMAIN q /\ j # k
    OBVIOUS
  <2>4. Slices(q[j]) \cap Slices(q[k]) = {}
    BY <2>3, ApartSlices
  <2> QED BY <2>1, <2>2, <2>4
<1>3. /\ IsFiniteSet(Cover(q, J)) /\ Taken(q, J) = Cardinality(Cover(q, J))
      /\ IsFiniteSet(Cover(q, K)) /\ Taken(q, K) = Cardinality(Cover(q, K))
      /\ Taken(q, J) \in Nat /\ Taken(q, K) \in Nat
  BY TakenCover
<1>4. Taken(q, J \cup K) = Cardinality(Cover(q, J \cup K))
  BY DEF Taken, Cover
<1>5. Cardinality(Cover(q, J) \cup Cover(q, K)) =
        Cardinality(Cover(q, J)) + Cardinality(Cover(q, K))
          - Cardinality(Cover(q, J) \cap Cover(q, K))
  BY <1>3, FS_Union
<1>6. Cardinality(Cover(q, J) \cap Cover(q, K)) = 0
  BY <1>2, FS_EmptySet
<1>7. PICK a, b \in Nat : a = Taken(q, J) /\ b = Taken(q, K)
  BY <1>3
<1>8. Cardinality(Cover(q, J) \cup Cover(q, K)) = a + b
  BY <1>3, <1>5, <1>6, <1>7
<1> QED BY <1>1, <1>4, <1>7, <1>8

LEMMA TakenOne ==
  ASSUME NEW q \in Seq(AnyItem), NEW j \in DOMAIN q
  PROVE  Taken(q, {j}) = q[j].span
<1>1. PICK n \in Nat : n = Len(q) /\ DOMAIN q = 1..n
  BY LenProperties
<1>2. q[j] \in AnyItem
  BY <1>1, ElementOfSeq
<1>3. PICK a, b \in Nat : a = q[j].at /\ b = q[j].span
  BY <1>2 DEF AnyItem
<1>4. Cover(q, {j}) = a..(a + b - 1)
  BY <1>3 DEF Cover, Slices
<1>5. Cardinality(a..(a + b - 1)) = b
  <2>1. PICK c \in Int : c = a + b - 1
    OBVIOUS
  <2>2. Cardinality(a..c) = IF a > c THEN 0 ELSE c - a + 1
    BY FS_Interval
  <2> QED BY <2>1, <2>2
<1>6. Taken(q, {j}) = Cardinality(Cover(q, {j}))
  BY DEF Taken, Cover
<1> QED BY <1>3, <1>4, <1>5, <1>6

\* One item more.
LEMMA TakenMore ==
  ASSUME NEW q \in Seq(AnyItem), Apart(q), NEW J, J \subseteq DOMAIN q, NEW j \in DOMAIN q,
         j \notin J
  PROVE  Taken(q, J \cup {j}) = Taken(q, J) + q[j].span
<1>1. {j} \subseteq DOMAIN q /\ J \cap {j} = {}
  OBVIOUS
<1>2. Taken(q, J \cup {j}) = Taken(q, J) + Taken(q, {j})
  BY <1>1, TakenSplit
<1> QED BY <1>2, TakenOne

LEMMA TakenSame ==
  ASSUME NEW q, NEW r, NEW J, \A j \in J : q[j].at = r[j].at /\ q[j].span = r[j].span
  PROVE  Taken(q, J) = Taken(r, J) /\ Cover(q, J) = Cover(r, J)
<1>1. \A j \in J : Slices(q[j]) = Slices(r[j])
  BY DEF Slices
<1> QED BY <1>1 DEF Taken, Cover

LEMMA TakenNone == \A q : Taken(q, {}) = 0
BY FS_EmptySet DEF Taken

LEMMA TakenLess ==
  ASSUME NEW q \in Seq(AnyItem), NEW J, NEW K, K \subseteq DOMAIN q, J \subseteq K
  PROVE  Taken(q, J) <= Taken(q, K)
<1>1. Cover(q, J) \in SUBSET Cover(q, K)
  BY DEF Cover
<1>2. IsFiniteSet(Cover(q, K)) /\ Taken(q, K) = Cardinality(Cover(q, K))
  BY TakenCover
<1>3. Taken(q, J) = Cardinality(Cover(q, J))
  BY DEF Taken, Cover
<1> QED BY <1>1, <1>2, <1>3, FS_Subset

\* The items of a sector that is filled take what lies before its end.
LEMMA TakenAll ==
  ASSUME NEW q \in Seq(AnyItem), Filled(q)
  PROVE  Taken(q, DOMAIN q) = End(q)
<1>1. PICK e \in Nat : e = End(q)
  BY EndType
<1>2. Cardinality(0..(e - 1)) = e
  <2>1. PICK c \in Int : c = e - 1
    OBVIOUS
  <2>2. Cardinality(0..c) = IF 0 > c THEN 0 ELSE c - 0 + 1
    BY FS_Interval
  <2> QED BY <2>1, <2>2
<1>3. Taken(q, DOMAIN q) = Cardinality(0..(e - 1))
  BY <1>1 DEF Filled, Taken, Cover
<1> QED BY <1>1, <1>2, <1>3

\* An item is in use or dropped, and the slices of both add up to the end.
LEMMA TakenParts ==
  ASSUME NEW q \in Seq(AnyItem), Apart(q), Filled(q)
  PROVE  \E u, d, e \in Nat : /\ u = Taken(q, Using(q)) /\ d = Taken(q, Dropped(q)) /\ e = End(q)
                              /\ u + d = e
<1>1. \A j \in DOMAIN q : q[j].state \in {"using", "dropped"}
  <2>1. DOMAIN q = 1..Len(q) /\ \A j \in 1..Len(q) : q[j] \in AnyItem
    BY LenProperties, ElementOfSeq
  <2> QED BY <2>1 DEF AnyItem
<1>2. Using(q) \cup Dropped(q) = DOMAIN q /\ Using(q) \cap Dropped(q) = {}
      /\ Using(q) \subseteq DOMAIN q /\ Dropped(q) \subseteq DOMAIN q
  BY <1>1 DEF Using, Dropped
<1>3. Taken(q, DOMAIN q) = Taken(q, Using(q)) + Taken(q, Dropped(q))
  BY <1>2, TakenSplit
<1>4. Taken(q, Using(q)) \in Nat /\ Taken(q, Dropped(q)) \in Nat /\ End(q) \in Nat
  BY <1>2, TakenCover, EndType
<1> QED BY <1>3, <1>4, TakenAll

\* What flash holds when a failure cuts short the data of an item at worst.
CountFlash ==
  \A s \in Sectors : /\ Filled(flash[s].items)
                     /\ \A j \in DOMAIN flash[s].items : flash[s].items[j].crcItem

\* The counters of a sector with a header are what its items say.
Counted(s) ==
  /\ ram[s].free = End(flash[s].items) /\ ram[s].used = End(flash[s].items)
  /\ ram[s].droped = Taken(flash[s].items, Dropped(flash[s].items))
Counting == \A s \in Healthy : Counted(s)

SourceUsing == Using(flash[gc.src].items)
\* The items in use of a sector worth reclaiming leave room for the new one,
\* and the write that comes back from reclaiming, or with a fresh sector, fits.
CountPhases ==
  /\ pc = "gc_copy" =>
       /\ gc.to = End(flash[gc.dst].items)
       /\ gc.to = Taken(flash[gc.src].items, {j \in SourceUsing : j < gc.next})
  /\ GcRunning /\ op.key # None =>
       Taken(flash[gc.src].items, SourceUsing) + Span[op.val] <= EntryCount
  /\ pc = "put" /\ op.again =>
       ram[Current].state = "uninit" \/ ram[Current].free + Span[op.val] <= EntryCount
  /\ reply.err # "SECTOR_FULL"

CountInv == CountFlash /\ (pc # "off" => Counting) /\ CountPhases

LEMMA EndRoom ==
  ASSUME WeakTypes, PackFlash, CountFlash, NEW s \in Sectors
  PROVE  \E e, c, b \in Nat : /\ e = End(flash[s].items) /\ c = EntryCount /\ b = Byte
                              /\ e <= c /\ c < b
<1>1. PICK c \in Nat, b \in Nat : c = EntryCount /\ b = Byte /\ c < b
  BY SizesAssumption DEF Byte
<1> DEFINE q == flash[s].items
<1>2. q \in Seq(AnyItem) /\ End(q) \in Nat
  BY ItemsType
<1>3. End(q) <= c
  <2>1. CASE q = <<>>
    BY <1>1, <2>1, EndFacts
  <2>2. CASE q # <<>>
    <3>1. PICK n \in Nat : n = Len(q) /\ DOMAIN q = 1..n /\ n \in 1..n
      BY <1>2, <2>2, LenProperties, EmptySeq
    <3>2. End(q) = q[n].at + q[n].span
      BY <2>2, <3>1 DEF End
    <3>3. q[n].crcItem
      BY <3>1 DEF CountFlash
    <3>4. Within(q)
      BY DEF PackFlash
    <3> QED BY <1>1, <3>1, <3>2, <3>3, <3>4 DEF Within
  <2> QED BY <2>1, <2>2
<1> QED BY <1>1, <1>2, <1>3

LEMMA NoItemsCount ==
  /\ Filled(<<>>) /\ DOMAIN <<>> = {} /\ End(<<>>) = 0
  /\ Dropped(<<>>) = {} /\ Taken(<<>>, Dropped(<<>>)) = 0
<1>1. DOMAIN <<>> = {} /\ End(<<>>) = 0
  BY EmptySeq, LenProperties, EndFacts
<1>2. Cover(<<>>, DOMAIN <<>>) = {} /\ 0..(0 - 1) = {}
  BY <1>1 DEF Cover
<1>3. Dropped(<<>>) = {}
  BY <1>1 DEF Dropped
<1> QED BY <1>1, <1>2, <1>3, TakenNone DEF Filled

LEMMA ShapeFilled ==
  ASSUME NEW q \in Seq(AnyItem), NEW r \in Seq(AnyItem), SameShape(q, r), Filled(r)
  PROVE  Filled(q)
<1>1. DOMAIN q = DOMAIN r /\ \A j \in DOMAIN r : q[j].at = r[j].at /\ q[j].span = r[j].span
  BY DEF SameShape
<1>2. Cover(q, DOMAIN r) = Cover(r, DOMAIN r)
  BY <1>1, TakenSame
<1>3. End(q) = End(r)
  BY ShapePacked
<1> QED BY <1>1, <1>2, <1>3 DEF Filled

\* A step that writes no item and counts none.
HeaderStep ==
  /\ \A s \in Sectors : flash'[s].items \in {flash[s].items, <<>>}
  /\ \A s \in Healthy' :
       \/ /\ s \in Healthy /\ flash'[s].items = flash[s].items
          /\ ram'[s].free = ram[s].free /\ ram'[s].used = ram[s].used
          /\ ram'[s].droped = ram[s].droped
       \/ /\ flash'[s].items = <<>>
          /\ ram'[s].free = 0 /\ ram'[s].used = 0 /\ ram'[s].droped = 0

LEMMA HeaderCounts ==
  ASSUME CountFlash, HeaderStep PROVE CountFlash' /\ (Counting => Counting')
<1>1. CountFlash'
  <2> SUFFICES ASSUME NEW s \in Sectors
               PROVE  /\ Filled(flash'[s].items)
                      /\ \A j \in DOMAIN flash'[s].items : flash'[s].items[j].crcItem
    BY DEF CountFlash
  <2>1. flash'[s].items = flash[s].items \/ flash'[s].items = <<>>
    BY DEF HeaderStep
  <2> QED BY <2>1, NoItemsCount DEF CountFlash
<1>2. ASSUME Counting PROVE Counting'
  BY <1>2, NoItemsCount DEF HeaderStep, Counting, Counted
<1> QED BY <1>1, <1>2

\* Clearing the state byte of an item in use.
LEMMA DropCounts ==
  ASSUME BaseInv, WeakTypes', UniqueInv, PlainInv, CountFlash, Counting,
         NEW s \in Healthy, NEW j \in InUse(s), NEW p, p.sec = s,
         p.at = flash[s].items[j].at, p.span = flash[s].items[j].span, EraseItem(p)
  PROVE  CountFlash' /\ Counting'
<1> DEFINE q == flash[s].items
           r == flash'[s].items
<1> USE DEF BaseInv, MarkInv
<1>1. /\ s \in Sectors /\ j \in DOMAIN q /\ q[j].state = "using"
      /\ flash \in [Sectors -> FlashSector]
      /\ q \in Seq(AnyItem) /\ r \in Seq(AnyItem)
  BY DEF Healthy, InUse, WeakTypes, FlashSector
<1>2. PICK n \in Nat : n = Len(q) /\ DOMAIN q = 1..n
  BY <1>1, LenProperties
<1>3. q[j] \in AnyItem
  BY <1>1, <1>2, ElementOfSeq
<1>4. flash' = DropAt(flash, s, q[j].at) /\ ram' = AddDroped(ram, s, q[j].span)
  BY DEF EraseItem
<1>5. Apart(q) /\ LongEnough(q)
  BY <1>1 DEF PlainInv, UniqueInv, AllGenuine, Genuine, LongEnough
<1>6. DroppedOnly(flash, flash', s, j)
  BY <1>1, <1>4, <1>5, PlainDrop
<1>7. \A t \in Sectors \ {s} : flash'[t] = flash[t]
  BY <1>6 DEF DroppedOnly
<1>8. SameShape(r, q)
  <2>1. q[j].at \in Nat
    BY <1>3 DEF AnyItem
  <2>2. SameShape(DropAt(flash, s, q[j].at)[s].items, flash[s].items)
    BY <1>1, <2>1, DropShape
  <2> QED BY <1>4, <2>2
<1>9. CountFlash'
  <2>1. Filled(r)
    BY <1>1, <1>8, ShapeFilled DEF CountFlash
  <2>2. \A i \in DOMAIN r : r[i].crcItem
    BY <1>1, <1>8 DEF CountFlash, SameShape
  <2> QED BY <1>7, <2>1, <2>2 DEF CountFlash
<1>10. Dropped(r) = Dropped(q) \cup {j} /\ j \notin Dropped(q) /\ Dropped(q) \subseteq DOMAIN q
  <2>1. DOMAIN r = DOMAIN q /\ r[j].state = "dropped" /\ \A i \in DOMAIN q \ {j} : r[i] = q[i]
    BY <1>3, <1>6 DEF DroppedOnly, AnyItem
  <2> QED BY <1>1, <2>1 DEF Dropped
<1>11. Taken(r, Dropped(r)) = Taken(q, Dropped(q)) + q[j].span
  <2>1. Taken(r, Dropped(r)) = Taken(q, Dropped(r))
    <3>1. \A i \in Dropped(r) : r[i].at = q[i].at /\ r[i].span = q[i].span
      BY <1>1, <1>8, <1>10 DEF SameShape
    <3> QED BY <3>1, TakenSame
  <2>2. Taken(q, Dropped(q) \cup {j}) = Taken(q, Dropped(q)) + q[j].span
    BY <1>1, <1>5, <1>10, TakenMore
  <2> QED BY <1>10, <2>1, <2>2
<1>12. Taken(r, Dropped(r)) <= End(q)
  <2>1. Dropped(q) \cup {j} \subseteq DOMAIN q
    BY <1>1, <1>10
  <2>2. Taken(q, Dropped(q) \cup {j}) <= Taken(q, DOMAIN q)
    BY <1>1, <2>1, TakenLess
  <2>3. Taken(q, DOMAIN q) = End(q)
    BY <1>1, TakenAll DEF CountFlash
  <2>4. Taken(q, Dropped(q) \cup {j}) = Taken(q, Dropped(q)) + q[j].span
    BY <1>1, <1>5, <1>10, TakenMore
  <2> QED BY <1>11, <2>2, <2>3, <2>4
<1>13. PICK e, c, b \in Nat : e = End(q) /\ c = EntryCount /\ b = Byte /\ e <= c /\ c < b
  BY <1>1, EndRoom DEF PackInv
<1>14. PICK d, m \in Nat : d = Taken(q, Dropped(q)) /\ m = q[j].span
  BY <1>1, <1>3, <1>10, TakenCover DEF AnyItem
<1>15. ram[s].droped = d /\ ram[s].free = e /\ ram[s].used = e
  BY <1>13, <1>14 DEF Counting, Counted
<1>16. d + m < b
  BY <1>11, <1>12, <1>13, <1>14
<1>17. (d + m) % b = d + m
  BY <1>13, <1>14, <1>16
<1>18. ram' = [ram EXCEPT ![s].droped = d + m] /\ ram \in [Sectors -> RamSector]
  BY <1>4, <1>13, <1>14, <1>15, <1>17 DEF AddDroped, WeakTypes
<1>19. /\ ram'[s].droped = d + m /\ ram'[s].free = e /\ ram'[s].used = e
       /\ \A t \in Sectors \ {s} : ram'[t] = ram[t]
  BY <1>1, <1>15, <1>18 DEF RamSector
<1>20. End(r) = End(q)
  BY <1>1, <1>8, ShapePacked
<1>21. Counted(s)'
  BY <1>11, <1>13, <1>14, <1>19, <1>20 DEF Counted
<1>22. \A t \in Healthy' : t = s \/ (t \in Healthy /\ t \in Sectors \ {s})
  BY <1>7 DEF Healthy
<1> QED BY <1>7, <1>9, <1>19, <1>21, <1>22 DEF Counting, Counted

\* An item that is appended right behind the last one.
LEMMA AppendFilled ==
  ASSUME NEW q \in Seq(AnyItem), Filled(q), NEW i \in AnyItem, i.at = End(q)
  PROVE  /\ Filled(Append(q, i))
         /\ \E e, m \in Nat : e = End(q) /\ m = i.span /\ End(Append(q, i)) = e + m
         /\ i.state = "using" =>
              /\ Dropped(Append(q, i)) = Dropped(q)
              /\ Taken(Append(q, i), Dropped(q)) = Taken(q, Dropped(q))
<1>1. PICK n \in Nat : /\ n = Len(q) /\ DOMAIN q = 1..n
                       /\ DOMAIN Append(q, i) = 1..(n + 1) /\ Append(q, i)[n + 1] = i
                       /\ \A j \in 1..n : Append(q, i)[j] = q[j]
                       /\ \A j \in 1..(n + 1) : j \in 1..n \/ j = n + 1
  BY AppendItems
<1> DEFINE r == Append(q, i)
<1> HIDE DEF r
<1>2. PICK e, m \in Nat : e = End(q) /\ m = i.span
  BY EndType DEF AnyItem
<1>3. End(r) = e + m
  BY <1>2, EndFacts DEF r
<1>4. /\ DOMAIN r = 1..(n + 1) /\ r[n + 1] = i /\ \A j \in 1..n : r[j] = q[j]
      /\ 1..(n + 1) = (1..n) \cup {n + 1} /\ n + 1 \notin 1..n
  BY <1>1 DEF r
<1>5. Filled(r)
  <2>1. Cover(r, DOMAIN r) = Cover(r, 1..n) \cup Slices(i)
    BY <1>4 DEF Cover
  <2>2. Cover(r, 1..n) = Cover(q, 1..n)
    <3>1. \A j \in 1..n : r[j].at = q[j].at /\ r[j].span = q[j].span
      BY <1>4
    <3> QED BY <3>1, TakenSame
  <2>3. Cover(q, 1..n) = 0..(e - 1)
    BY <1>1, <1>2 DEF Filled
  <2>4. Slices(i) = e..(e + m - 1)
    BY <1>2 DEF Slices
  <2>5. (0..(e - 1)) \cup (e..(e + m - 1)) = 0..(e + m - 1)
    BY <1>2
  <2>6. Cover(r, DOMAIN r) = 0..(e + m - 1)
    BY <2>1, <2>2, <2>3, <2>4, <2>5
  <2> QED BY <1>3, <2>6 DEF Filled
<1>6. ASSUME i.state = "using" PROVE Dropped(r) = Dropped(q)
  <2>1. Dropped(r) = {j \in 1..(n + 1) : r[j].state = "dropped"}
    BY <1>4 DEF Dropped
  <2>2. Dropped(q) = {j \in 1..n : q[j].state = "dropped"}
    BY <1>1 DEF Dropped
  <2> QED BY <1>4, <1>6, <2>1, <2>2
<1>7. Taken(r, Dropped(q)) = Taken(q, Dropped(q))
  <2>1. \A j \in Dropped(q) : r[j] = q[j]
    BY <1>1, <1>4 DEF Dropped
  <2> QED BY <2>1, TakenSame
<1> QED BY <1>2, <1>3, <1>5, <1>6, <1>7 DEF r

LEMMA ProgramFilled ==
  ASSUME WeakTypes, PlainInv, CountFlash, NEW s \in Sectors, NEW i \in AnyItem,
         i.at = End(flash[s].items), i.crcItem, flash' = Program(flash, s, i)
  PROVE  /\ flash'[s].items = Append(flash[s].items, i)
         /\ \A t \in Sectors \ {s} : flash'[t] = flash[t]
         /\ CountFlash'
<1>1. flash \in [Sectors -> FlashSector] /\ flash[s].stray = {} /\ flash[s].items \in Seq(AnyItem)
  BY DEF WeakTypes, PlainInv, FlashSector
<1>2. /\ flash'[s].items = Append(flash[s].items, i)
      /\ \A t \in Sectors \ {s} : flash'[t] = flash[t]
  BY <1>1, PlainProgram
<1>3. Filled(flash'[s].items)
  BY <1>1, <1>2, AppendFilled DEF CountFlash
<1>4. \A j \in DOMAIN flash'[s].items : flash'[s].items[j].crcItem
  <2>1. PICK n \in Nat : /\ DOMAIN flash[s].items = 1..n
                         /\ DOMAIN Append(flash[s].items, i) = 1..(n + 1)
                         /\ Append(flash[s].items, i)[n + 1] = i
                         /\ \A j \in 1..n : Append(flash[s].items, i)[j] = flash[s].items[j]
                         /\ \A j \in 1..(n + 1) : j \in 1..n \/ j = n + 1
    BY <1>1, AppendItems
  <2>2. \A j \in 1..n : flash[s].items[j].crcItem
    BY <2>1 DEF CountFlash
  <2> QED BY <1>2, <2>1, <2>2
<1> QED BY <1>2, <1>3, <1>4 DEF CountFlash

\* wm_nvs_sector_write_item, and the copy of an item
LEMMA ProgramCounts ==
  ASSUME WeakTypes, PackFlash, PlainInv, CountFlash, Counting, NEW s \in Healthy,
         NEW i \in AnyItem, i.at = End(flash[s].items), i.crcItem, i.state = "using",
         NEW m \in Nat, m = i.span, i.at + m <= EntryCount,
         flash' = Program(flash, s, i), ram' = AddItem(s, m)
  PROVE  /\ flash'[s].items = Append(flash[s].items, i)
         /\ \A t \in Sectors \ {s} : flash'[t] = flash[t]
         /\ CountFlash' /\ Counting' /\ Counted(s)' /\ End(flash'[s].items) = i.at + m
<1>1. s \in Sectors /\ flash[s].items \in Seq(AnyItem)
  BY DEF Healthy, WeakTypes, FlashSector
<1>2. /\ flash'[s].items = Append(flash[s].items, i)
      /\ \A t \in Sectors \ {s} : flash'[t] = flash[t]
      /\ CountFlash'
  BY <1>1, ProgramFilled
<1>3. PICK e, c, b \in Nat : /\ e = End(flash[s].items) /\ c = EntryCount /\ b = Byte
                             /\ e <= c /\ c < b
  BY <1>1, EndRoom
<1>4. /\ End(flash'[s].items) = e + m
      /\ Dropped(flash'[s].items) = Dropped(flash[s].items)
      /\ Taken(flash'[s].items, Dropped(flash[s].items))
           = Taken(flash[s].items, Dropped(flash[s].items))
  BY <1>1, <1>2, <1>3, AppendFilled DEF CountFlash
<1>5. ram[s].free = e /\ ram[s].used = e
  BY <1>3 DEF Counting, Counted
<1>6. e + m < b
  BY <1>3
<1>7. ram'[s].free = e + m /\ ram'[s].used = e + m /\ \A t \in Sectors \ {s} : ram'[t] = ram[t]
  BY <1>1, <1>3, <1>5, <1>6, ItemCounted
<1>8. ram'[s].droped = ram[s].droped
  BY <1>1 DEF AddItem, WeakTypes, RamSector
<1>9. Counted(s)'
  BY <1>4, <1>7, <1>8 DEF Counted, Counting
<1>10. \A t \in Healthy' : t = s \/ (t \in Healthy /\ t \in Sectors \ {s})
  BY <1>2 DEF Healthy
<1> QED BY <1>2, <1>3, <1>4, <1>7, <1>9, <1>10 DEF Counting, Counted

\* What the load computes when every head is whole.
LEMMA LoadedPlain ==
  ASSUME WeakTypes, PackFlash, PlainInv, CountFlash, NEW s \in Healthy
  PROVE  /\ LoadedInfo(flash[s]).free = End(flash[s].items)
         /\ LoadedInfo(flash[s]).used = End(flash[s].items)
         /\ LoadedInfo(flash[s]).droped = Taken(flash[s].items, Dropped(flash[s].items))
         /\ LoadedInfo(flash[s]).state = flash[s].state
         /\ DOMAIN LoadedInfo(flash[s]) = {"state", "serial", "free", "used", "droped"}
         /\ Cleaned(flash[s]).items = flash[s].items
<1> DEFINE f == flash[s]
           q == flash[s].items
<1>1. s \in Sectors /\ f \in FlashSector /\ q \in Seq(AnyItem) /\ Good(f)
  BY DEF Healthy, WeakTypes, FlashSector
<1>2. PICK n \in Nat : DOMAIN q = 1..n /\ q \in [1..n -> AnyItem]
  BY <1>1, LenProperties
<1>3. f.stray = {} /\ Apart(q) /\ Filled(q) /\ \A j \in DOMAIN q : q[j].crcItem
  BY <1>1 DEF PlainInv, CountFlash
<1>4. Walked(f) = q
  BY <1>3 DEF Walked
<1>5. {j \in DOMAIN q : Torn(q[j])} = {}
  BY <1>3 DEF Torn
<1>6. PICK e, c, b \in Nat : e = End(q) /\ c = EntryCount /\ b = Byte /\ e <= c /\ c < b
  BY <1>1, EndRoom
<1>7. Taken(q, DOMAIN q) = e /\ Taken(q, {}) = 0
  BY <1>1, <1>3, <1>6, TakenAll, TakenNone
<1>8. PICK u, d \in Nat : d = Taken(q, Dropped(q)) /\ u + d = e
  BY <1>1, <1>3, <1>6, TakenParts
<1>9. LoadedInfo(f) = Info(f.state, f.serial, Smaller(e, c), e % b, (d + 2 * 0) % b)
  BY <1>1, <1>4, <1>5, <1>6, <1>7, <1>8 DEF LoadedInfo, Dropped
<1>10. Smaller(e, c) = e /\ e % b = e /\ (d + 2 * 0) % b = d
  <2>1. d < b /\ e < b /\ d + 2 * 0 = d
    BY <1>6, <1>8
  <2>2. e % b = e /\ d % b = d
    <3>1. b \in Nat \ {0}
      BY <1>6, <2>1
    <3>2. \A x \in Nat : x < b => x % b = x
      BY <3>1
    <3> QED BY <1>6, <1>8, <2>1, <3>2
  <2>3. Smaller(e, c) = e
    BY <1>6 DEF Smaller
  <2> QED BY <2>1, <2>2, <2>3
<1>11. LoadedInfo(f) = Info(f.state, f.serial, e, e, d)
  BY <1>9, <1>10
<1>12. Cleaned(f).items = q
  <2>1. Cleaned(f).items = [j \in DOMAIN q |-> IF Torn(q[j])
                              THEN [q[j] EXCEPT !.state = "dropped"] ELSE q[j]]
    BY <1>1 DEF Cleaned, FlashSector
  <2>2. \A j \in DOMAIN q : ~Torn(q[j])
    BY <1>3 DEF Torn
  <2>3. Cleaned(f).items = [j \in DOMAIN q |-> q[j]]
    BY <2>1, <2>2
  <2> QED BY <1>2, <2>3
<1> QED BY <1>6, <1>8, <1>11, <1>12 DEF Info

LEMMA ActivateCounts ==
  ASSUME BaseInv, pc # "off", Activate
  PROVE  /\ HeaderStep
         /\ \A t \in ToSet(active) : t \in Sectors /\ flash'[t] = flash[t]
<1> USE DEF BaseInv, MarkInv
<1> DEFINE h == Head(idle)
<1>1. h \in Sectors /\ h \notin ToSet(active) /\ ToSet(active) \subseteq Sectors
  BY ActivateKeepsLists, ListedSectors DEF ListInv
<1>2. CASE ram[h].state = "crash"
  <2>1. flash' = EraseSector(flash, h) /\ ram' = [ram EXCEPT ![h] = FreshInfo(sn)]
    BY <1>2 DEF Activate
  <2>2. /\ flash'[h] = Blank /\ \A t \in Sectors \ {h} : flash'[t] = flash[t] /\ ram'[t] = ram[t]
    BY <1>1, <2>1 DEF WeakTypes, EraseSector
  <2>3. Blank.items = <<>> /\ h \notin Healthy'
    BY <2>2 DEF Blank, Healthy, Good
  <2>4. \A s \in Healthy' : s \in Healthy /\ s \in Sectors \ {h}
    BY <2>2, <2>3 DEF Healthy
  <2> QED BY <1>1, <2>2, <2>3, <2>4 DEF HeaderStep
<1>3. CASE ram[h].state # "crash"
  <2>1. flash' = flash /\ ram' = [ram EXCEPT ![h].serial = sn]
    BY <1>3 DEF Activate
  <2>2. \A t \in Sectors : /\ ram'[t].free = ram[t].free /\ ram'[t].used = ram[t].used
                           /\ ram'[t].droped = ram[t].droped
    BY <2>1 DEF WeakTypes, RamSector
  <2>3. Healthy' = Healthy /\ \A s \in Healthy : s \in Sectors
    BY <2>1 DEF Healthy
  <2> QED BY <1>1, <2>1, <2>2, <2>3 DEF HeaderStep
<1> QED BY <1>2, <1>3

\* Erasing a sector.
LEMMA EraseCounts ==
  ASSUME BaseInv, NEW s \in Sectors, flash' = EraseSector(flash, s),
         \A t \in Healthy \ {s} : /\ ram'[t].free = ram[t].free /\ ram'[t].used = ram[t].used
                                  /\ ram'[t].droped = ram[t].droped
  PROVE  HeaderStep
<1>1. flash'[s] = Blank /\ \A t \in Sectors \ {s} : flash'[t] = flash[t]
  BY DEF BaseInv, MarkInv, WeakTypes, EraseSector
<1>2. Blank.items = <<>> /\ s \notin Healthy'
  BY <1>1 DEF Blank, Healthy, Good
<1>3. \A t \in Healthy' : t \in Healthy \ {s} /\ t \in Sectors
  BY <1>1, <1>2 DEF Healthy
<1> QED BY <1>1, <1>2, <1>3 DEF HeaderStep

\* Writing the header of a sector that holds nothing.
LEMMA InitCounts ==
  ASSUME BaseInv, NEW s \in Sectors, Bare(s), InitSector(s)
  PROVE  /\ HeaderStep /\ ram'[s].free = 0
         /\ \A t \in Sectors : flash'[t].items = flash[t].items
<1>1. flash' = [flash EXCEPT ![s].state = "using", ![s].serial = ram[s].serial]
  BY DEF InitSector, WriteHeader
<1>2. /\ \A t \in Sectors : flash'[t].items = flash[t].items
      /\ \A t \in Sectors \ {s} : flash'[t] = flash[t]
  BY <1>1 DEF BaseInv, MarkInv, WeakTypes, FlashSector
<1>3. ram' = [ram EXCEPT ![s] = Info("using", ram[s].serial, 0, 0, 0)]
  BY DEF InitSector
<1>4. /\ ram'[s].free = 0 /\ ram'[s].used = 0 /\ ram'[s].droped = 0
      /\ \A t \in Sectors \ {s} : ram'[t] = ram[t]
  BY <1>3 DEF BaseInv, MarkInv, WeakTypes, RamSector, Info
<1>5. \A t \in Healthy' : t = s \/ (t \in Sectors \ {s} /\ t \in Healthy)
  BY <1>2 DEF Healthy
<1>6. flash'[s].items = <<>>
  BY <1>2 DEF Bare
<1> QED BY <1>2, <1>4, <1>5, <1>6 DEF HeaderStep

\* A step that changes no item and no counter.
LEMMA NothingCounts ==
  ASSUME \A s \in Sectors : /\ flash'[s].items = flash[s].items
                            /\ Good(flash'[s]) => Good(flash[s])
                            /\ ram'[s].free = ram[s].free /\ ram'[s].used = ram[s].used
                            /\ ram'[s].droped = ram[s].droped
  PROVE  HeaderStep
BY DEF HeaderStep, Healthy

LEMMA FoundCounts ==
  ASSUME BaseInv, WeakTypes', UniqueInv, PlainInv, CountFlash, Counting, pc # "off",
         NEW k, NEW T, NEW x \in Found(k, T), x # None, EraseItem(Place(x))
  PROVE  CountFlash' /\ Counting'
<1>1. PICK i \in DOMAIN active, s \in Sectors, j \in Nat :
        /\ x = <<i, j>> /\ s = active[i] /\ j \in InUse(s)
        /\ Place(x).sec = s /\ Place(x).at = flash[s].items[j].at
        /\ Place(x).span = flash[s].items[j].span
  BY FoundDrops DEF BaseInv, MarkInv
<1>2. x \in Hits(k, T)
  BY DEF Found
<1>3. Searched(s)
  <2>1. PICK a \in 1..Len(active), b \in 1..EntryCount : x = <<a, b>> /\ Searched(active[a])
    BY <1>2 DEF Hits
  <2> QED BY <1>1, <2>1
<1>4. s \in Healthy
  BY <1>3 DEF BaseInv, SerialInv, SerialFacts, HealthKnown, Healthy, Searched, Good
<1> QED BY <1>1, <1>4, DropCounts

LEMMA MountCounts ==
  ASSUME BaseInv, WeakTypes', UniqueInv, PlainInv, CountInv, Mount PROVE CountInv'
<1> USE DEF BaseInv, MarkInv, SerialInv
<1>1. /\ op = NoOp /\ op' = op /\ reply' = reply /\ pc' \notin {"off", "gc_copy", "put"}
      /\ NoOp.key = None
  BY DEF Mount, Load, LoadFirst, FixWrite, FixGcErase, FixGcTake, Settle, WeakTypes, NoOp
<1>2. CountPhases'
  BY <1>1 DEF CountInv, CountPhases
<1>3. CASE Load
  <2>1. \A s \in Sectors : /\ flash'[s] = IF Good(flash[s]) THEN Cleaned(flash[s]) ELSE flash[s]
                           /\ ram'[s] = LoadedInfo(flash[s])
    BY <1>3 DEF Load
  <2>2. \A s \in Healthy : /\ LoadedInfo(flash[s]).free = End(flash[s].items)
                           /\ LoadedInfo(flash[s]).used = End(flash[s].items)
                           /\ LoadedInfo(flash[s]).droped
                                = Taken(flash[s].items, Dropped(flash[s].items))
                           /\ Cleaned(flash[s]).items = flash[s].items
    BY LoadedPlain DEF PackInv, CountInv
  <2>3. \A s \in Sectors : flash'[s].items = flash[s].items
    BY <2>1, <2>2 DEF Healthy
  <2>4. CountFlash'
    BY <2>3 DEF CountInv, CountFlash
  <2>5. Healthy' \subseteq Healthy
    <3>1. \A s \in Sectors : Cleaned(flash[s]).state = flash[s].state
      BY CleanedType DEF WeakTypes
    <3> QED BY <2>1, <3>1 DEF Healthy, Good
  <2>6. Counting'
    <3> SUFFICES ASSUME NEW s \in Healthy' PROVE Counted(s)'
      BY DEF Counting
    <3>1. s \in Healthy /\ s \in Sectors
      BY <2>5 DEF Healthy
    <3> QED BY <2>1, <2>2, <2>3, <3>1 DEF Counted
  <2> QED BY <1>2, <2>4, <2>6 DEF CountInv
<1>4. ASSUME CountFlash' /\ (Counting => Counting'), pc # "off" PROVE CountInv'
  BY <1>2, <1>4 DEF CountInv
<1>5. ASSUME HeaderStep, pc # "off" PROVE CountInv'
  BY <1>4, <1>5, HeaderCounts DEF CountInv
<1>6. CASE LoadFirst \/ FixGcTake
  <2>1. Activate /\ pc # "off"
    BY <1>6 DEF LoadFirst, FixGcTake
  <2> QED BY <1>5, <2>1, ActivateCounts
<1>7. CASE FixWrite
  <2>1. /\ active # <<>> /\ pc = "fix_write"
        /\ \/ UNCHANGED <<flash, ram>>
           \/ \E j \in InUse(Current) : EraseItem(Place(<<Len(active), j>>))
           \/ \E k, T : \E x \in Found(k, T) : x # None /\ EraseItem(Place(x))
    BY <1>7 DEF FixWrite
  <2>2. CASE UNCHANGED <<flash, ram>>
    BY <1>5, <2>1, <2>2, NothingCounts
  <2>3. ASSUME NEW j \in InUse(Current), EraseItem(Place(<<Len(active), j>>)) PROVE CountInv'
    <3>1. PICK s \in Sectors : s = Current
      <4>1. pc # "off"
        BY <2>1
      <4> QED BY <2>1, <4>1, LastPlace
    <3>2. /\ Place(<<Len(active), j>>).sec = s
          /\ Place(<<Len(active), j>>).at = flash[s].items[j].at
          /\ Place(<<Len(active), j>>).span = flash[s].items[j].span
      <4>1. pc # "off"
        BY <2>1
      <4>2. /\ Place(<<Len(active), j>>).sec = Current
            /\ Place(<<Len(active), j>>).at = flash[Current].items[j].at
            /\ Place(<<Len(active), j>>).span = flash[Current].items[j].span
        BY <2>1, <4>1, LastPlace
      <4> QED BY <3>1, <4>2
    <3>3. j \in InUse(s) /\ flash[s].items # <<>>
      <4>1. j \in InUse(s) /\ j \in DOMAIN flash[s].items
        BY <3>1 DEF InUse
      <4> QED BY <4>1, NoItemsCount
    <3>4. s \in Healthy
      <4>1. s \in ToSet(active)
        <5>1. active \in Seq(Sectors) /\ IsInjective(active)
          BY <2>1 DEF ListInv, Lists, ListsPartition
        <5> QED BY <2>1, <3>1, <5>1, FrontOnly DEF Current
      <4>2. s \in Unwritten => Bare(s)
        BY <2>1 DEF ReserveInv, BareFacts
      <4> QED BY <3>3, <4>1, <4>2 DEF Unwritten, Bare
    <3>5. CountFlash /\ Counting
      BY <2>1 DEF CountInv
    <3>6. CountFlash' /\ Counting'
      BY <2>3, <3>2, <3>3, <3>4, <3>5, DropCounts
    <3> QED BY <1>4, <2>1, <3>6
  <2>4. ASSUME NEW k, NEW T, NEW x \in Found(k, T), x # None, EraseItem(Place(x))
        PROVE  CountInv'
    <3>1. CountFlash /\ Counting /\ pc # "off"
      BY <2>1 DEF CountInv
    <3>2. CountFlash' /\ Counting'
      BY <2>4, <3>1, FoundCounts
    <3> QED BY <1>4, <3>1, <3>2
  <2> QED BY <2>1, <2>2, <2>3, <2>4
<1>8. CASE FixGcErase
  <2>1. pc = "fix_gc"
    BY <1>8 DEF FixGcErase
  <2>2. PICK s \in Sectors : s = Current
    BY <2>1, CurrentType
  <2>3. \/ UNCHANGED <<flash, ram>>
        \/ flash' = EraseSector(flash, s) /\ ram' = [ram EXCEPT ![s] = FreshInfo(@.serial)]
    BY <1>8, <2>2 DEF FixGcErase
  <2>4. CASE UNCHANGED <<flash, ram>>
    BY <1>5, <2>1, <2>4, NothingCounts
  <2>5. CASE flash' = EraseSector(flash, s) /\ ram' = [ram EXCEPT ![s] = FreshInfo(@.serial)]
    <3>1. \A t \in Healthy \ {s} : ram'[t] = ram[t]
      BY <2>5 DEF WeakTypes, Healthy
    <3> QED BY <1>5, <2>1, <2>5, <3>1, EraseCounts
  <2> QED BY <2>3, <2>4, <2>5
<1>9. CASE Settle
  <2>1. UNCHANGED <<flash, ram>> /\ pc # "off"
    BY <1>9 DEF Settle
  <2> QED BY <1>5, <2>1, NothingCounts
<1> QED BY <1>3, <1>6, <1>7, <1>8, <1>9 DEF Mount

LEMMA CallCounts ==
  ASSUME BaseInv, BaseInv', UniqueInv, PlainInv, CountInv, ~Overwrite,
         \/ Write
         \/ \E k \in Keys, v \in Values : Set(k, v)
         \/ \E k \in Keys, t \in Types : Get(k, t) \/ Del(k, t)
  PROVE  CountInv'
<1> USE DEF BaseInv, MarkInv, SerialInv
<1>1. pc \in {"ready", "put", "drop", "request"} /\ CountFlash /\ Counting
  BY DEF CountInv, Write, PutInit, PutItem, PutFull, DropOld, TakeIdle, NoSpace, Set, Get, Del
<1>2. ASSUME HeaderStep, CountPhases' PROVE CountInv'
  BY <1>1, <1>2, HeaderCounts DEF CountInv
<1>3. ASSUME UNCHANGED <<flash, ram>>, CountPhases' PROVE CountInv'
  BY <1>2, <1>3, NothingCounts
<1>4. pc \in {"put", "drop", "request"} => op.val \in Values /\ Span[op.val] \in 1..EntryCount
  BY <1>1, SizesAssumption DEF WeakTypes, SetOp
<1>5. CASE PutInit
  <2>1. /\ pc = "put" /\ ram[Current].state = "uninit" /\ InitSector(Current)
        /\ UNCHANGED <<active, pc, op, gc, reply>>
    BY <1>5 DEF PutInit, lists
  <2>2. PICK s \in Sectors : s = Current /\ s = Current'
    BY <2>1, CurrentType DEF Current
  <2>3. s \in ToSet(active)
    <3>1. active \in Seq(Sectors) /\ IsInjective(active) /\ active # <<>>
      BY <2>1, EmptyIsDistinct DEF ListInv, Lists, ListsPartition
    <3> QED BY <2>2, <3>1, FrontOnly DEF Current
  <2>4. ~Good(ram[s])
    BY <2>1, <2>2 DEF Good
  <2>5. Bare(s)
    BY <2>1, <2>3, <2>4 DEF ReserveInv, BareFacts, Unwritten, Healthy, SerialFacts, HealthKnown
  <2>6. HeaderStep /\ ram'[s].free = 0
    BY <2>1, <2>2, <2>5, InitCounts
  <2>7. ram'[Current'].free + Span[op'.val] <= EntryCount
    <3>1. PICK m \in Nat, c \in Nat : m = Span[op.val] /\ c = EntryCount /\ m <= c
      BY <1>4, <2>1, SizesAssumption
    <3> QED BY <2>1, <2>2, <2>6, <3>1
  <2>8. CountPhases'
    BY <2>1, <2>7 DEF CountInv, CountPhases, GcRunning
  <2> QED BY <1>2, <2>6, <2>8
<1>6. CASE PutItem
  <2>1. /\ pc = "put" /\ ram[Current].state # "uninit" /\ Fits(Current, Span[op.val])
        /\ flash' = Program(flash, Current, NewItem(op.key, op.val, ram[Current].free))
        /\ ram' = AddItem(Current, Span[op.val]) /\ pc' = "drop" /\ reply' = reply
    BY <1>6 DEF PutItem
  <2>2. PICK s \in Sectors : s = Current /\ s \in Healthy
    BY <2>1, PutPlace
  <2>3. PICK i \in AnyItem, n, m \in Nat :
          /\ i = NewItem(op.key, op.val, ram[s].free) /\ n = ram[s].free /\ m = Span[op.val]
          /\ n + m <= EntryCount
    BY <2>1, <2>2, PutPlace
  <2>4. i.at = n /\ i.span = m /\ i.crcItem /\ i.state = "using"
    BY <2>3 DEF NewItem
  <2>5. i.at = End(flash[s].items)
    BY <1>1, <2>2, <2>3, <2>4 DEF Counting, Counted
  <2>6. i.at + m <= EntryCount
    BY <2>3, <2>4
  <2>7. flash' = Program(flash, s, i) /\ ram' = AddItem(s, m)
    BY <2>1, <2>2, <2>3
  <2>8. CountFlash' /\ Counting'
    BY <1>1, <2>2, <2>4, <2>5, <2>6, <2>7, ProgramCounts DEF PackInv
  <2>9. CountPhases'
    BY <2>1 DEF CountInv, CountPhases, GcRunning
  <2> QED BY <2>8, <2>9 DEF CountInv
<1>7. CASE PutFull
  <2>1. /\ pc = "put" /\ ram[Current].state # "uninit" /\ ~Fits(Current, Span[op.val])
        /\ UNCHANGED <<flash, ram>>
    BY <1>7 DEF PutFull
  <2>2. ~op.again
    BY <2>1 DEF CountInv, CountPhases, Fits
  <2>3. pc' = "request" /\ reply' = reply
    BY <1>7, <2>2 DEF PutFull
  <2>4. CountPhases'
    BY <2>3 DEF CountInv, CountPhases, GcRunning
  <2> QED BY <1>3, <2>1, <2>4
<1>8. CASE DropOld
  <2>1. UNCHANGED <<flash, ram>> /\ pc' = "ready" /\ reply'.err = None
    BY <1>8 DEF DropOld, PlainInv, Return, Reply
  <2>2. CountPhases'
    BY <2>1, NoneAssumption DEF CountPhases, GcRunning
  <2> QED BY <1>3, <2>1, <2>2
<1>9. CASE TakeIdle
  <2>1. /\ pc = "request" /\ Activate /\ pc' = "put" /\ op' = [op EXCEPT !.again = TRUE]
        /\ reply' = reply
    BY <1>9 DEF TakeIdle
  <2>2. HeaderStep
    BY <2>1, ActivateCounts
  <2>3. PICK h \in Sectors : h = Head(idle) /\ h \in ToSet(idle)
    <3>1. idle \in Seq(Sectors) /\ idle # <<>> /\ IsInjective(idle)
      BY <2>1 DEF ListInv, Lists, ListsPartition, Activate
    <3> QED BY <3>1, TailOnly
  <2>4. Current' = h
    <3>1. active' = Append(active, h) /\ active \in Seq(Sectors)
      BY <2>1, <2>3 DEF Activate, ListInv, Lists
    <3> QED BY <3>1, AppendLast DEF Current
  <2>5. op'.val = op.val
    BY <1>4, <2>1 DEF WeakTypes, SetOp
  <2>6. ram'[h].state = "uninit" \/ ram'[h].free = 0
    <3>1. CASE ram[h].state = "crash"
      <4>1. ram' = [ram EXCEPT ![h] = FreshInfo(sn)]
        BY <2>1, <2>3, <3>1 DEF Activate
      <4>2. ram'[h] = FreshInfo(sn)
        BY <4>1 DEF WeakTypes
      <4> QED BY <4>2 DEF FreshInfo, Info
    <3>2. CASE ram[h].state # "crash"
      <4>1. ram' = [ram EXCEPT ![h].serial = sn]
        BY <2>1, <2>3, <3>2 DEF Activate
      <4>2. ram'[h].state = ram[h].state /\ ram'[h].free = ram[h].free
        BY <4>1 DEF WeakTypes, RamSector
      <4>3. ram[h].state \in State
        BY DEF WeakTypes, RamSector
      <4>4. CASE ram[h].state = "uninit"
        BY <4>2, <4>4
      <4>5. CASE ram[h].state # "uninit"
        <5>1. Good(ram[h])
          BY <3>2, <4>3, <4>5 DEF State, Good
        <5>2. h \in Healthy
          BY <2>1, <5>1 DEF SerialFacts, HealthKnown, Healthy
        <5>3. Bare(h)
          BY <2>1, <2>3, <3>2 DEF ReserveInv, BareFacts
        <5>4. ram[h].free = 0
          BY <1>1, <5>2, <5>3, NoItemsCount DEF Counting, Counted, Bare
        <5> QED BY <4>2, <5>4
      <4> QED BY <4>4, <4>5
    <3> QED BY <3>1, <3>2
  <2>7. ram'[Current'].state = "uninit" \/ ram'[Current'].free + Span[op'.val] <= EntryCount
    <3>1. PICK m \in Nat, c \in Nat : m = Span[op.val] /\ c = EntryCount /\ m <= c
      BY <1>4, <2>1, SizesAssumption
    <3> QED BY <2>4, <2>5, <2>6, <3>1
  <2>8. CountPhases'
    BY <2>1, <2>7 DEF CountInv, CountPhases, GcRunning
  <2> QED BY <1>2, <2>2, <2>8
<1>10. CASE NoSpace
  <2>1. UNCHANGED <<flash, ram>> /\ pc' = "ready" /\ reply'.err = "NO_SPACE"
    BY <1>10 DEF NoSpace, Return, Reply
  <2>2. CountPhases'
    BY <2>1 DEF CountPhases, GcRunning
  <2> QED BY <1>3, <2>1, <2>2
<1>11. ASSUME NEW k \in Keys, NEW v \in Values, Set(k, v) PROVE CountInv'
  <2>1. UNCHANGED <<flash, ram>>
    BY <1>11 DEF Set
  <2>2. \/ pc' = "ready" /\ reply'.err = None
        \/ pc' = "put" /\ ~op'.again /\ reply' = reply
    BY <1>11 DEF Set, Reply
  <2>3. CountPhases'
    BY <2>2, NoneAssumption DEF CountInv, CountPhases, GcRunning
  <2> QED BY <1>3, <2>1, <2>3
<1>12. ASSUME NEW k \in Keys, NEW t \in Types, Get(k, t) PROVE CountInv'
  <2>1. UNCHANGED <<flash, ram>> /\ pc' = "ready" /\ reply'.err \in {None, "NOT_FOUND"}
    BY <1>12 DEF Get, Reply
  <2>2. CountPhases'
    BY <2>1, NoneAssumption DEF CountPhases, GcRunning
  <2> QED BY <1>3, <2>1, <2>2
<1>13. ASSUME NEW k \in Keys, NEW t \in Types, Del(k, t) PROVE CountInv'
  <2>1. /\ pc' = "ready" /\ reply'.err \in {None, "NOT_FOUND"}
        /\ \/ UNCHANGED <<flash, ram>>
           \/ \E x \in Found(k, {t}) : x # None /\ EraseItem(Place(x))
    BY <1>13 DEF Del, Reply
  <2>2. CountPhases'
    BY <2>1, NoneAssumption DEF CountPhases, GcRunning
  <2>3. ASSUME NEW x \in Found(k, {t}), x # None, EraseItem(Place(x)) PROVE CountInv'
    <3>1. CountFlash' /\ Counting'
      BY <1>1, <2>3, FoundCounts
    <3> QED BY <2>2, <3>1 DEF CountInv
  <2> QED BY <1>3, <2>1, <2>2, <2>3
<1> QED BY <1>5, <1>6, <1>7, <1>8, <1>9, <1>10, <1>11, <1>12, <1>13 DEF Write

LEMMA GcCounts ==
  ASSUME BaseInv, BaseInv', UniqueInv, UniqueInv', PlainInv, CountInv, Gc
  PROVE  CountInv'
<1> USE DEF BaseInv, MarkInv, SerialInv
<1>1. pc \in {"request", "gc_init", "gc_mark", "gc_copy"} /\ CountFlash /\ Counting
  BY DEF CountInv, Gc, GcStart, GcInit, GcMark, GcCopy, GcErase
<1>2. ASSUME HeaderStep, CountPhases' PROVE CountInv'
  BY <1>1, <1>2, HeaderCounts DEF CountInv
<1>3. gc.src \in Sectors /\ gc.dst \in Sectors /\ gc.next \in Nat \ {0} /\ gc.to \in Nat
  BY DEF WeakTypes
<1>4. CASE GcStart
  <2>1. /\ pc = "request" /\ Activate /\ pc' = "gc_init" /\ op' = op /\ reply' = reply
        /\ op.key # None
    <3>1. op \in SetOp
      BY <1>4 DEF GcStart, WeakTypes
    <3> QED BY <1>4, <3>1, NoneAssumption DEF GcStart, SetOp
  <2>2. HeaderStep /\ \A t \in ToSet(active) : t \in Sectors /\ flash'[t] = flash[t]
    BY <2>1, ActivateCounts
  <2>3. PICK s \in Dirtiest : Worth(s) /\ gc' = [NoGc EXCEPT !.src = s, !.dst = Head(idle)]
    BY <1>4 DEF GcStart
  <2>4. s \in ToSet(active) /\ gc'.src = s
    BY <2>3 DEF Dirtiest, ToSet, NoGc
  <2>5. s \in Healthy /\ s \in Sectors
    BY <2>1, <2>2, <2>4 DEF SerialPhases, Unwritten
  <2>6. flash[s].items \in Seq(AnyItem) /\ Apart(flash[s].items) /\ Filled(flash[s].items)
    BY <1>1, <2>5 DEF WeakTypes, FlashSector, PlainInv, CountFlash
  <2>7. PICK u, d, e \in Nat :
          /\ u = Taken(flash[s].items, Using(flash[s].items))
          /\ d = Taken(flash[s].items, Dropped(flash[s].items)) /\ e = End(flash[s].items)
          /\ u + d = e
    BY <2>6, TakenParts
  <2>8. PICK c, m \in Nat : c = EntryCount /\ m = Span[op.val]
    BY <2>1, SizesAssumption DEF WeakTypes, SetOp
  <2>9. ram[s].used = e /\ ram[s].droped = d
    BY <1>1, <2>5, <2>7 DEF Counting, Counted
  <2>10. c - e + d >= m
    BY <2>3, <2>8, <2>9 DEF Worth, GcSize
  <2>11. u + m <= c
    <3>1. u + d = e /\ c - e + d >= m
      BY <2>7, <2>10
    <3> QED BY <3>1
  <2>12. Taken(flash'[gc'.src].items, Using(flash'[gc'.src].items)) + Span[op'.val] <= EntryCount
    BY <2>1, <2>2, <2>4, <2>7, <2>8, <2>11
  <2>13. CountPhases'
    BY <2>1, <2>12 DEF CountInv, CountPhases, GcRunning, SourceUsing
  <2> QED BY <1>2, <2>2, <2>13
<1>5. ASSUME pc \in {"gc_init", "gc_mark"}, HeaderStep,
             \A t \in Sectors : flash'[t].items = flash[t].items,
             UNCHANGED <<op, gc, reply>>, pc' \in {"gc_mark", "gc_copy"}
      PROVE  CountInv'
  <2>1. gc.next = 1 /\ gc.to = 0 /\ Bare(gc.dst)
    BY <1>5 DEF PackInv, PackPhases, ReserveInv, ReservePhases
  <2>2. End(flash'[gc.dst].items) = 0
    BY <1>3, <1>5, <2>1, NoItemsCount DEF Bare
  <2>3. Taken(flash'[gc.src].items, {j \in Using(flash'[gc.src].items) : j < gc.next}) = 0
    <3>1. flash'[gc.src].items = flash[gc.src].items /\ flash[gc.src].items \in Seq(AnyItem)
      BY <1>3, <1>5 DEF WeakTypes, FlashSector
    <3>2. PICK n \in Nat : DOMAIN flash[gc.src].items = 1..n
      BY <3>1, LenProperties
    <3>3. {j \in Using(flash'[gc.src].items) : j < gc.next} = {}
      BY <2>1, <3>1, <3>2 DEF Using
    <3> QED BY <3>3, TakenNone
  <2>4. flash'[gc.src].items = flash[gc.src].items
    BY <1>3, <1>5
  <2>5. op.key # None => Taken(flash[gc.src].items, SourceUsing) + Span[op.val] <= EntryCount
    BY <1>5 DEF CountInv, CountPhases, GcRunning
  <2>6. CountPhases'
    BY <1>5, <2>1, <2>2, <2>3, <2>4, <2>5 DEF CountInv, CountPhases, GcRunning, SourceUsing
  <2> QED BY <1>2, <1>5, <2>6
<1>6. CASE GcInit
  <2>1. /\ pc = "gc_init" /\ UNCHANGED <<op, gc, reply>> /\ pc' \in {"gc_mark", "gc_copy"}
        /\ InitSector(gc.dst) \/ UNCHANGED <<flash, ram>>
    BY <1>6 DEF GcInit
  <2>2. CASE InitSector(gc.dst)
    <3>1. Bare(gc.dst)
      BY <2>1 DEF ReserveInv, ReservePhases
    <3> QED BY <1>3, <1>5, <2>1, <2>2, <3>1, InitCounts
  <2>3. CASE UNCHANGED <<flash, ram>>
    BY <1>5, <2>1, <2>3, NothingCounts
  <2> QED BY <2>1, <2>2, <2>3
<1>7. CASE GcMark
  <2>1. /\ pc = "gc_mark" /\ UNCHANGED <<op, gc, reply>> /\ pc' = "gc_copy"
        /\ flash' = [flash EXCEPT ![gc.src].state = "deleting"]
        /\ ram' = [ram EXCEPT ![gc.src].state = "deleting"]
    BY <1>7 DEF GcMark, SetState
  <2>2. gc.src \in Healthy
    BY <2>1 DEF ListInv, GcRunning, SerialPhases, Unwritten
  <2>3. \A t \in Sectors : /\ flash'[t].items = flash[t].items
                           /\ Good(flash'[t]) => Good(flash[t])
    BY <1>3, <2>1, <2>2 DEF WeakTypes, FlashSector, Healthy, Good
  <2>4. \A t \in Sectors : /\ ram'[t].free = ram[t].free /\ ram'[t].used = ram[t].used
                           /\ ram'[t].droped = ram[t].droped
    BY <1>3, <2>1 DEF WeakTypes, RamSector
  <2> QED BY <1>5, <2>1, <2>3, <2>4, NothingCounts
<1>8. CASE GcCopy
  <2>1. pc = "gc_copy" /\ GcMore /\ pc' = pc /\ op' = op /\ reply' = reply
    BY <1>8 DEF GcCopy
  <2>2. PICK s, d \in Sectors, n \in Nat \ {0} :
          /\ s = gc.src /\ d = gc.dst /\ n = gc.next /\ s # d /\ s \in Healthy /\ d \in Healthy
    BY <1>3, <2>1 DEF ListInv, GcRunning, SerialPhases, Unwritten
  <2> DEFINE q == flash[s].items
  <2>3. q \in Seq(AnyItem) /\ Apart(q) /\ GcItem = q[n]
    BY <2>2 DEF WeakTypes, FlashSector, PlainInv, GcItem
  <2>4. PICK z \in Nat : DOMAIN q = 1..z /\ n \in 1..z
    <3>1. PICK z \in Nat : z = Len(q) /\ DOMAIN q = 1..z
      BY <2>3, LenProperties
    <3> QED BY <2>1, <2>2, <3>1 DEF GcMore
  <2>5. PICK x \in Nat : /\ x = Taken(q, {j \in Using(q) : j < n})
                         /\ gc.to = x /\ x = End(flash[d].items)
    BY <1>3, <2>1, <2>2 DEF CountInv, CountPhases, SourceUsing
  <2>6. op.key # None => Taken(q, Using(q)) + Span[op.val] <= EntryCount
    BY <2>1, <2>2 DEF CountInv, CountPhases, GcRunning, SourceUsing
  <2>7. reply.err # "SECTOR_FULL"
    BY DEF CountInv, CountPhases
  <2>8. CASE GcItem.state = "using"
    <3>1. /\ flash' = Program(flash, gc.dst, [GcItem EXCEPT !.at = gc.to])
          /\ ram' = AddItem(gc.dst, GcItem.span)
          /\ gc' = [gc EXCEPT !.next = @ + 1, !.to = @ + GcItem.span]
      BY <1>8, <2>8 DEF GcCopy
    <3>2. PICK i \in AnyItem, m \in Nat :
            /\ i = [GcItem EXCEPT !.at = gc.to] /\ m = GcItem.span /\ x + m <= EntryCount
      <4>1. [GcItem EXCEPT !.at = gc.to] \in AnyItem
        BY <2>1, GcItemType
      <4>2. PICK a, b, m \in Nat : b = gc.to /\ m = GcItem.span /\ b + m <= EntryCount
        BY <2>1, <2>8, CopyPlace
      <4> QED BY <2>5, <4>1, <4>2
    <3>3. i.at = x /\ i.span = m /\ i.crcItem /\ i.state = "using"
      <4>1. GcItem \in AnyItem /\ GcItem.crcItem
        BY <2>1, <2>8, CopyPlace
      <4> QED BY <2>5, <2>8, <3>2, <4>1 DEF AnyItem
    <3>4. i.at = End(flash[d].items) /\ i.at + m <= EntryCount
      BY <2>5, <3>2, <3>3
    <3>5. flash' = Program(flash, d, i) /\ ram' = AddItem(d, m)
      BY <2>2, <3>1, <3>2
    <3>6. /\ \A t \in Sectors \ {d} : flash'[t] = flash[t]
          /\ CountFlash' /\ Counting' /\ End(flash'[d].items) = i.at + m
      BY <1>1, <2>2, <3>3, <3>4, <3>5, ProgramCounts DEF PackInv
    <3>7. gc'.src = s /\ gc'.dst = d /\ gc'.next = n + 1 /\ gc'.to = x + m
      BY <2>2, <2>5, <3>1, <3>2 DEF WeakTypes
    <3>8. flash'[s].items = q
      BY <2>2, <3>6
    <3>9. Taken(q, {j \in Using(q) : j < n + 1}) = x + m
      <4>1. n \in Using(q) /\ \A j \in Using(q) : j \in 1..z
        BY <2>3, <2>4, <2>8 DEF Using
      <4>2. {j \in Using(q) : j < n + 1} = {j \in Using(q) : j < n} \cup {n}
        <5>1. \A j \in 1..z : j < n + 1 <=> j < n \/ j = n
          BY <2>2
        <5> QED BY <4>1, <5>1
      <4>3. {j \in Using(q) : j < n} \subseteq DOMAIN q /\ n \in DOMAIN q
            /\ n \notin {j \in Using(q) : j < n}
        BY <2>4 DEF Using
      <4>4. Taken(q, {j \in Using(q) : j < n} \cup {n})
              = Taken(q, {j \in Using(q) : j < n}) + q[n].span
        BY <2>3, <4>3, TakenMore
      <4> QED BY <2>3, <2>5, <3>2, <4>2, <4>4
    <3>10. CountPhases'
      BY <2>1, <2>6, <2>7, <3>3, <3>6, <3>7, <3>8, <3>9 DEF CountPhases, GcRunning, SourceUsing
    <3> QED BY <3>6, <3>10 DEF CountInv
  <2>9. CASE GcItem.state # "using"
    <3>1. UNCHANGED <<flash, ram>> /\ gc' = [gc EXCEPT !.next = @ + 1]
      BY <1>8, <2>9 DEF GcCopy
    <3>2. gc'.src = s /\ gc'.dst = d /\ gc'.next = n + 1 /\ gc'.to = x
      BY <2>2, <2>5, <3>1 DEF WeakTypes
    <3>3. {j \in Using(q) : j < n + 1} = {j \in Using(q) : j < n}
      <4>1. n \notin Using(q) /\ \A j \in Using(q) : j \in 1..z
        BY <2>3, <2>4, <2>9 DEF Using
      <4> QED BY <4>1, <2>2
    <3>4. CountPhases'
      BY <2>1, <2>5, <2>6, <2>7, <3>1, <3>2, <3>3 DEF CountPhases, GcRunning, SourceUsing
    <3> QED BY <1>2, <3>1, <3>4, NothingCounts
  <2> QED BY <2>8, <2>9
<1>9. CASE GcErase
  <2>1. /\ pc = "gc_copy" /\ ~GcMore /\ reply' = reply
        /\ flash' = EraseSector(flash, gc.src)
        /\ ram' = [ram EXCEPT ![gc.dst].free = IF GcStopsEarly THEN ram[gc.dst].used ELSE @,
                              ![gc.src] = FreshInfo(@.serial)]
        /\ \/ op.key = None /\ pc' = "settle" /\ op' = op
           \/ op.key # None /\ pc' = "put" /\ op' = [op EXCEPT !.again = TRUE]
    BY <1>9 DEF GcErase
  <2>2. PICK s, d \in Sectors :
          /\ s = gc.src /\ d = gc.dst /\ s # d /\ s \in Healthy /\ d \in Healthy
    BY <1>3, <2>1 DEF ListInv, GcRunning, SerialPhases, Unwritten
  <2>3. ram[d].used = End(flash[d].items) /\ ram[d].free = End(flash[d].items)
    BY <1>1, <2>2 DEF Counting, Counted
  <2>4. ram' = [ram EXCEPT ![d].free = ram[d].free, ![s] = FreshInfo(ram[s].serial)]
    <3>1. (IF GcStopsEarly THEN ram[d].used ELSE ram[d].free) = ram[d].free
      BY <2>3
    <3>2. ram' = [ram EXCEPT ![d].free = IF GcStopsEarly THEN ram[d].used ELSE ram[d].free,
                             ![s] = FreshInfo(ram[s].serial)]
      BY <2>1, <2>2 DEF WeakTypes
    <3> QED BY <3>1, <3>2
  <2>5. \A t \in Sectors \ {s} : /\ ram'[t].free = ram[t].free /\ ram'[t].used = ram[t].used
                                 /\ ram'[t].droped = ram[t].droped
    BY <2>2, <2>4 DEF WeakTypes, RamSector
  <2>6. HeaderStep
    <3>1. flash' = EraseSector(flash, s) /\ \A t \in Healthy \ {s} : t \in Sectors \ {s}
      BY <2>1, <2>2 DEF Healthy
    <3> QED BY <2>5, <3>1, EraseCounts
  <2>7. CASE op.key = None
    <3>1. pc' = "settle" /\ op' = op
      BY <2>1, <2>7
    <3>2. CountPhases'
      BY <2>1, <3>1 DEF CountInv, CountPhases, GcRunning
    <3> QED BY <1>2, <2>6, <3>2
  <2>8. CASE op.key # None
    <3>1. pc' = "put" /\ op' = [op EXCEPT !.again = TRUE] /\ op \in SetOp
      BY <2>1, <2>8, SetOpKey DEF WeakTypes
    <3>2. op'.val = op.val
      BY <3>1 DEF SetOp
    <3>3. Current' = d
      <4>1. gc.dst = Last(active) /\ active' = RemoveFirst(active, s)
        BY <1>9, <2>1, <2>2 DEF UniqueInv, UniquePhases, GcErase
      <4>2. active \in Seq(Sectors) /\ IsInjective(active)
        BY <2>1 DEF ListInv, Lists, ListsPartition
      <4>3. d \in ToSet(active) /\ s \in ToSet(active)
        BY <2>1, <2>2 DEF ListInv, GcRunning
      <4>4. active # <<>>
        BY <4>3, EmptyIsDistinct
      <4>5. active' \in Seq(Sectors) /\ IsInjective(active') /\ ToSet(active') = ToSet(active) \ {s}
        BY <4>1, <4>2, RemoveOnly
      <4>6. active' # <<>> /\ d \in ToSet(active')
        BY <2>2, <4>3, <4>5, EmptyIsDistinct
      <4>7. d = Last(active')
        <5>1. ASSUME d # Last(active') PROVE FALSE
          <6>1. Before(active', d, Last(active'))
            BY <4>5, <4>6, <5>1, LastBefore
          <6>2. Before(active, d, Last(active'))
            BY <4>1, <4>2, <4>3, <6>1, RemoveBefore
          <6>3. ~Before(active, Last(active), Last(active'))
            BY <4>2, <4>4, LastBefore
          <6> QED BY <2>2, <4>1, <6>2, <6>3
        <5> QED BY <5>1
      <4> QED BY <4>7 DEF Current
    <3>4. Taken(flash[s].items, Using(flash[s].items)) + Span[op.val] <= EntryCount
      BY <2>1, <2>2, <2>8 DEF CountInv, CountPhases, GcRunning, SourceUsing
    <3>5. gc.to = Taken(flash[s].items, {j \in Using(flash[s].items) : j < gc.next})
          /\ gc.to = End(flash[d].items)
      BY <2>1, <2>2 DEF CountInv, CountPhases, SourceUsing
    <3>6. {j \in Using(flash[s].items) : j < gc.next} = Using(flash[s].items)
      <4>1. PICK z \in Nat : z = Len(flash[s].items) /\ DOMAIN flash[s].items = 1..z
        BY LenProperties DEF WeakTypes, FlashSector
      <4>2. z < gc.next
        BY <1>3, <2>1, <2>2, <4>1 DEF GcMore
      <4> QED BY <1>3, <4>1, <4>2 DEF Using
    <3>7. ram'[d].free = Taken(flash[s].items, Using(flash[s].items))
      BY <2>2, <2>3, <2>5, <3>5, <3>6
    <3>8. CountPhases'
      BY <2>1, <3>1, <3>2, <3>3, <3>4, <3>7 DEF CountInv, CountPhases, GcRunning
    <3> QED BY <1>2, <2>6, <3>8
  <2> QED BY <2>7, <2>8
<1> QED BY <1>4, <1>6, <1>7, <1>8, <1>9 DEF Gc

LEMMA PowerLossCounts ==
  ASSUME BaseInv, PlainInv, CountInv, Tears \subseteq {"data"}, PowerLoss PROVE CountInv'
<1> USE DEF BaseInv, MarkInv, SerialInv
<1>1. pc' = "off" /\ op' = NoOp /\ NoOp.key = None /\ reply' = NoReply
  BY DEF PowerLoss, NoOp
<1>2. NoReply.err # "SECTOR_FULL"
  BY NoneAssumption DEF NoReply, Reply
<1>3. CountPhases'
  BY <1>1, <1>2 DEF CountPhases, GcRunning
<1>4. ASSUME CountFlash' PROVE CountInv'
  BY <1>1, <1>3, <1>4 DEF CountInv
<1>5. ASSUME NEW s \in Sectors, NEW i \in AnyItem, i.at = End(flash[s].items), i.crcItem,
             flash' \in TornItem(s, i)
      PROVE  CountInv'
  <2>1. PICK how \in Tears : flash' = Program(flash, s, CutShort(i, how))
    BY <1>5 DEF TornItem
  <2>2. PICK c \in AnyItem : c = CutShort(i, how) /\ c.at = i.at
    BY <2>1, CutType
  <2>3. c = [i EXCEPT !.crcData = FALSE]
    BY <2>1, <2>2 DEF CutShort
  <2>4. c.crcItem
    BY <1>5, <2>3 DEF AnyItem
  <2>5. CountFlash'
    BY <1>5, <2>1, <2>2, <2>4, ProgramFilled DEF CountInv
  <2> QED BY <1>4, <2>5
<1>6. CASE flash' = flash
  BY <1>4, <1>6 DEF CountInv, CountFlash
<1>7. CASE \E s \in Sectors : flash' \in TornSector(s)
  <2>1. PICK s \in Sectors : flash' = [flash EXCEPT ![s].state = "crash"]
    BY <1>7 DEF TornSector, SetState
  <2>2. \A t \in Sectors : flash'[t].items = flash[t].items
    BY <2>1 DEF WeakTypes, FlashSector
  <2> QED BY <1>4, <2>2 DEF CountInv, CountFlash
<1>8. CASE PutTorn
  <2>1. /\ pc = "put" /\ ram[Current].state # "uninit" /\ Fits(Current, Span[op.val])
        /\ flash' \in TornItem(Current, NewItem(op.key, op.val, ram[Current].free))
    BY <1>8 DEF PutTorn
  <2>2. PICK c \in Sectors, i \in AnyItem :
          c = Current /\ i = NewItem(op.key, op.val, ram[Current].free) /\ c \in Healthy
    BY <2>1, PutPlace
  <2>3. ram[c].free = End(flash[c].items)
    BY <2>1, <2>2 DEF CountInv, Counting, Counted
  <2>4. i.at = End(flash[c].items) /\ i.crcItem
    BY <2>2, <2>3, NewItemFacts
  <2> QED BY <1>5, <2>1, <2>2, <2>4
<1>9. CASE CopyTorn
  <2>1. /\ pc = "gc_copy" /\ GcMore /\ GcItem.state = "using"
        /\ flash' \in TornItem(gc.dst, [GcItem EXCEPT !.at = gc.to])
    BY <1>9 DEF CopyTorn
  <2>2. PICK i \in AnyItem : i = [GcItem EXCEPT !.at = gc.to]
    BY <2>1, GcItemType
  <2>3. GcItem \in AnyItem /\ GcItem.crcItem
    BY <2>1, CopyPlace
  <2>4. i.at = gc.to /\ i.crcItem
    BY <2>2, <2>3 DEF AnyItem
  <2>5. gc.to = End(flash[gc.dst].items) /\ gc.dst \in Sectors
    BY <2>1 DEF CountInv, CountPhases, WeakTypes
  <2> QED BY <1>5, <2>1, <2>2, <2>4, <2>5
<1> QED BY <1>6, <1>7, <1>8, <1>9, TornCases

LEMMA InitCount == Init => CountInv
<1> SUFFICES ASSUME Init PROVE CountInv
  OBVIOUS
<1>1. /\ pc = "off" /\ op = NoOp /\ NoOp.key = None /\ reply = NoReply
      /\ \A s \in Sectors : flash[s] = Blank
  BY DEF Init, NoOp
<1>2. NoReply.err # "SECTOR_FULL" /\ Blank.items = <<>>
  BY NoneAssumption DEF NoReply, Reply, Blank
<1>3. CountFlash
  BY <1>1, <1>2, NoItemsCount DEF CountFlash
<1> QED BY <1>1, <1>2, <1>3 DEF CountInv, CountPhases, GcRunning

LEMMA CountInvStep ==
  ASSUME ~Overwrite, Tears \subseteq {"data"}, BaseInv, BaseInv', UniqueInv, UniqueInv',
         PlainInv, CountInv, [Next]_vars
  PROVE  CountInv'
<1>1. CASE UNCHANGED vars
  <2>1. UNCHANGED <<flash, ram, pc, op, gc, active, reply>>
    BY <1>1 DEF vars, lists
  <2>2. Healthy' = Healthy
    BY <2>1 DEF Healthy
  <2> QED BY <2>1, <2>2 DEF CountInv, CountFlash, Counting, Counted, CountPhases, GcRunning,
                            SourceUsing, Current
<1>2. WeakTypes'
  BY DEF BaseInv, MarkInv
<1> QED BY <1>1, <1>2, MountCounts, CallCounts, GcCounts, PowerLossCounts DEF Next

\* Between calls the counters of every active sector that has a header are those
\* a mount would compute from flash, so that no counter drifts over a long run;
\* for callers that do not overwrite, on a flash that cuts short the data of an
\* item but not its head.
THEOREM CountersMatchFlash ==
  ASSUME ~Overwrite, Tears \subseteq {"data"} PROVE Spec => []RamMatchesFlash
<1>1. BaseInv /\ [Next]_vars => BaseInv'
  BY BaseInvStep
<1>2. BaseInv /\ BaseInv' /\ UniqueInv /\ [Next]_vars => UniqueInv'
  BY UniqueInvStep
<1>3. BaseInv /\ UniqueInv /\ PlainInv /\ [Next]_vars => PlainInv'
  BY PlainInvStep
<1>4. BaseInv /\ BaseInv' /\ UniqueInv /\ UniqueInv' /\ PlainInv /\ CountInv /\ [Next]_vars
        => CountInv'
  BY CountInvStep
<1>5. BaseInv /\ PlainInv /\ CountInv => RamMatchesFlash
  <2> SUFFICES ASSUME BaseInv, PlainInv, CountInv, pc = "ready",
                      NEW i \in DOMAIN active, ram[active[i]].state # "uninit"
               PROVE  [ram[active[i]] EXCEPT !.serial = 0]
                        = [LoadedInfo(flash[active[i]]) EXCEPT !.serial = 0]
    BY DEF RamMatchesFlash
  <2> USE DEF BaseInv, MarkInv, SerialInv
  <2>1. PICK s \in Sectors : s = active[i] /\ s \in ToSet(active)
    <3>1. active \in Seq(Sectors)
      BY DEF ListInv, Lists
    <3>2. active[i] \in Sectors
      BY <3>1, LenProperties, ElementOfSeq
    <3> QED BY <3>2 DEF ToSet
  <2>2. ram[s] \in RamSector /\ ram[s].state # "uninit" /\ ram[s].state # "crash"
    BY <2>1 DEF WeakTypes, SerialFacts, HealthKnown
  <2>3. s \in Healthy /\ Good(ram[s])
    BY <2>1, <2>2 DEF SerialFacts, HealthKnown, Healthy, Good, RamSector, State
  <2>4. ram[s].state = flash[s].state
    BY <2>3 DEF MarksKnown, Good, Healthy
  <2>5. Counted(s)
    BY <2>3 DEF CountInv, Counting
  <2>6. PICK l \in RamSector : l = LoadedInfo(flash[s])
    BY LoadedType DEF WeakTypes
  <2>7. l.free = ram[s].free /\ l.used = ram[s].used /\ l.droped = ram[s].droped
        /\ l.state = ram[s].state
    BY <2>3, <2>4, <2>5, <2>6, LoadedPlain DEF CountInv, PackInv, Counted
  <2>8. [ram[s] EXCEPT !.serial = 0] = [l EXCEPT !.serial = 0]
    BY <2>2, <2>7 DEF RamSector
  <2> QED BY <2>1, <2>6, <2>8
<1> QED BY <1>1, <1>2, <1>3, <1>4, <1>5, InitBase, InitUnique, InitPlain, InitCount, PTL DEF Spec

\* A sector gained by reclaiming, or taken fresh, has room for the item it was
\* gained for: the only retry of a write never finds the sector full again.
THEOREM ReclaimMakesRoom ==
  ASSUME ~Overwrite, Tears \subseteq {"data"} PROVE Spec => []ReclaimYieldsRoom
<1>1. BaseInv /\ [Next]_vars => BaseInv'
  BY BaseInvStep
<1>2. BaseInv /\ BaseInv' /\ UniqueInv /\ [Next]_vars => UniqueInv'
  BY UniqueInvStep
<1>3. BaseInv /\ UniqueInv /\ PlainInv /\ [Next]_vars => PlainInv'
  BY PlainInvStep
<1>4. BaseInv /\ BaseInv' /\ UniqueInv /\ UniqueInv' /\ PlainInv /\ CountInv /\ [Next]_vars
        => CountInv'
  BY CountInvStep
<1>5. CountInv => ReclaimYieldsRoom
  BY DEF CountInv, CountPhases, ReclaimYieldsRoom
<1> QED BY <1>1, <1>2, <1>3, <1>4, <1>5, InitBase, InitUnique, InitPlain, InitCount, PTL DEF Spec
-------------------------------------------------------------------------------
(* The value of a key.  Has says it without choosing a newest item, and so *)
(* in terms of what a step adds to the items in use and takes from them.   *)

Whole(s, j) == Holding(s, j) /\ flash[s].items[j].crcData
ValueOf(s, j) == flash[s].items[j].val
Has(k, v) == \E s \in Sectors, j \in Nat : Whole(s, j) /\ KeyOf(s, j) = k /\ ValueOf(s, j) = v
SameValues == \A k, v : Has(k, v)' <=> Has(k, v)

Doubles(s, i, t, j) == Whole(s, i) /\ Whole(t, j) /\ KeyOf(s, i) = KeyOf(t, j)
Agree == \A s, t \in Sectors, i, j \in Nat : Doubles(s, i, t, j) => ValueOf(s, i) = ValueOf(t, j)

\* What a read returns is what some whole item holds.
StoredFacts ==
  \A k \in Keys : /\ \A v : Has(k, v) => Stored(k) = v
                  /\ (\A v : ~Has(k, v)) => Stored(k) = None

\* A sector has no more than EntryCount items.
LEMMA PlaceInRange ==
  ASSUME WeakTypes, NEW s \in Sectors, AllGenuine(flash[s].items), NEW j, Holding(s, j)
  PROVE  j \in 1..EntryCount /\ Genuine(j, flash[s].items[j])
<1>1. flash[s].items \in Seq(AnyItem) /\ j \in DOMAIN flash[s].items
  BY DEF WeakTypes, FlashSector, Holding
<1>2. Genuine(j, flash[s].items[j])
  BY <1>1 DEF AllGenuine
<1>3. PICK n \in Nat : n = Len(flash[s].items) /\ DOMAIN flash[s].items = 1..n
  BY <1>1, LenProperties
<1>4. j \in 1..Len(flash[s].items)
  BY <1>1, <1>3
<1>5. flash[s].items[j] \in AnyItem
  BY <1>1, <1>4, ElementOfSeq
<1>6. flash[s].items[j].at \in Nat
  BY <1>5 DEF AnyItem
<1>7. j >= 1 /\ j \in Nat
  BY <1>3, <1>4
<1> QED BY <1>2, <1>6, <1>7, ByteType DEF Genuine

LEMMA IntactWhole ==
  ASSUME WeakTypes, \A s \in Sectors : AllGenuine(flash[s].items), NEW k
  PROVE  /\ \A x \in Intact(k) : \E s \in Sectors, j \in Nat :
              x = <<s, j>> /\ Whole(s, j) /\ KeyOf(s, j) = k
         /\ \A s \in Sectors, j \in Nat : Whole(s, j) /\ KeyOf(s, j) = k => <<s, j>> \in Intact(k)
<1>1. ASSUME NEW x \in Intact(k)
      PROVE  \E s \in Sectors, j \in Nat : x = <<s, j>> /\ Whole(s, j) /\ KeyOf(s, j) = k
  <2>1. PICK s \in Sectors, j \in 1..EntryCount : x = <<s, j>>
    BY <1>1 DEF Intact
  <2>2. /\ Good(flash[s]) /\ j \in DOMAIN flash[s].items
        /\ flash[s].items[j].state = "using" /\ flash[s].items[j].crcItem
        /\ flash[s].items[j].crcData /\ flash[s].items[j].key = k
    BY <1>1, <2>1 DEF Intact
  <2>3. Whole(s, j) /\ KeyOf(s, j) = k
    BY <2>2 DEF Whole, Holding, Healthy, KeyOf
  <2> QED BY <2>1, <2>3
<1>2. ASSUME NEW s \in Sectors, NEW j \in Nat, Whole(s, j), KeyOf(s, j) = k
      PROVE  <<s, j>> \in Intact(k)
  <2>1. j \in 1..EntryCount
    BY <1>2, PlaceInRange DEF Whole
  <2>2. /\ Good(flash[s]) /\ j \in DOMAIN flash[s].items
        /\ flash[s].items[j].state = "using" /\ flash[s].items[j].crcItem
        /\ flash[s].items[j].crcData /\ flash[s].items[j].key = k
    BY <1>2 DEF Whole, Holding, Healthy, KeyOf
  <2>3. <<s, j>> \in Sectors \X (1..EntryCount) /\ <<s, j>>[1] = s /\ <<s, j>>[2] = j
    BY <2>1
  <2> QED BY <2>2, <2>3 DEF Intact
<1> QED BY <1>1, <1>2

\* Stored picks the newest item, which there is: of two items of a key one is
\* in the sector with the highest number.
LEMMA StoredKnown ==
  ASSUME WeakTypes, SerialsDistinct, \A s \in Sectors : AllGenuine(flash[s].items),
         Once, Copies, Agree
  PROVE  StoredFacts
<1> SUFFICES ASSUME NEW k \in Keys
             PROVE  /\ \A v : Has(k, v) => Stored(k) = v
                    /\ (\A v : ~Has(k, v)) => Stored(k) = None
  BY DEF StoredFacts
<1>1. ASSUME \A v : ~Has(k, v) PROVE Stored(k) = None
  <2>1. ASSUME NEW x \in Intact(k) PROVE FALSE
    <3>1. PICK s \in Sectors, j \in Nat : Whole(s, j) /\ KeyOf(s, j) = k
      BY <2>1, IntactWhole
    <3>2. Has(k, ValueOf(s, j))
      BY <3>1 DEF Has
    <3> QED BY <1>1, <3>2
  <2> QED BY <2>1 DEF Stored
<1>2. ASSUME NEW v, Has(k, v) PROVE Stored(k) = v
  <2>1. PICK s \in Sectors, j \in Nat : Whole(s, j) /\ KeyOf(s, j) = k /\ ValueOf(s, j) = v
    BY <1>2 DEF Has
  <2>2. \A x \in Intact(k) : flash[x[1]].items[x[2]].val = v
    <3> SUFFICES ASSUME NEW x \in Intact(k) PROVE flash[x[1]].items[x[2]].val = v
      OBVIOUS
    <3>1. PICK t \in Sectors, i \in Nat : x = <<t, i>> /\ Whole(t, i) /\ KeyOf(t, i) = k
      BY IntactWhole
    <3>2. ValueOf(t, i) = v
      BY <2>1, <3>1 DEF Agree, Doubles
    <3> QED BY <3>1, <3>2 DEF ValueOf
  <2>3. \A t \in Healthy : flash[t].serial \in Nat /\ t \in Sectors
    BY DEF Healthy, WeakTypes, FlashSector
  <2>4. \E x \in Intact(k) : \A y \in Intact(k) : Newer(x, y)
    <3>1. CASE \E t \in Sectors, i \in Nat : Whole(t, i) /\ KeyOf(t, i) = k /\ Highest(t)
      <4>1. PICK t \in Sectors, i \in Nat : Whole(t, i) /\ KeyOf(t, i) = k /\ Highest(t)
        BY <3>1
      <4>2. <<t, i>> \in Intact(k)
        BY <4>1, IntactWhole
      <4>3. ASSUME NEW y \in Intact(k) PROVE Newer(<<t, i>>, y)
        <5>1. PICK u \in Sectors, m \in Nat : y = <<u, m>> /\ Whole(u, m) /\ KeyOf(u, m) = k
          BY <4>3, IntactWhole
        <5>2. t \in Healthy /\ u \in Healthy
          BY <4>1, <5>1 DEF Whole, Holding
        <5>3. PICK a, b \in Nat : a = flash[t].serial /\ b = flash[u].serial /\ b <= a
          BY <2>3, <4>1, <5>2 DEF Highest
        <5>4. CASE a = b
          <6>1. u = t
            BY <5>2, <5>3, <5>4 DEF SerialsDistinct
          <6>2. m = i
            BY <4>1, <5>1, <6>1 DEF Once, Twins, Whole
          <6>3. y = <<t, i>>
            BY <5>1, <6>1, <6>2
          <6>4. Newer(<<t, i>>, <<t, i>>)
            BY DEF Newer
          <6> QED BY <6>3, <6>4
        <5>5. CASE a > b
          BY <5>1, <5>3, <5>5 DEF Newer
        <5> QED BY <5>3, <5>4, <5>5
      <4> QED BY <4>2, <4>3
    <3>2. CASE ~\E t \in Sectors, i \in Nat : Whole(t, i) /\ KeyOf(t, i) = k /\ Highest(t)
      <4>1. <<s, j>> \in Intact(k)
        BY <2>1, IntactWhole
      <4>2. ASSUME NEW y \in Intact(k) PROVE Newer(<<s, j>>, y)
        <5>1. PICK u \in Sectors, m \in Nat : y = <<u, m>> /\ Whole(u, m) /\ KeyOf(u, m) = k
          BY <4>2, IntactWhole
        <5>2. Twins(s, j, u, m)
          BY <2>1, <5>1 DEF Twins, Whole
        <5>3. s = u
          BY <2>1, <3>2, <5>1, <5>2 DEF Copies, CopyPair
        <5>4. j = m
          BY <5>2, <5>3 DEF Once
        <5> QED BY <5>1, <5>3, <5>4 DEF Newer
      <4> QED BY <4>1, <4>2
    <3> QED BY <3>1, <3>2
  <2>5. Intact(k) # {}
    BY <2>4
  <2> DEFINE z == CHOOSE x \in Intact(k) : \A y \in Intact(k) : Newer(x, y)
  <2>6. z \in Intact(k)
    BY <2>4
  <2>7. Stored(k) = flash[z[1]].items[z[2]].val
    BY <2>5 DEF Stored
  <2> HIDE DEF z
  <2> QED BY <2>2, <2>6, <2>7
<1> QED BY <1>1, <1>2
-------------------------------------------------------------------------------
(* What a step does to the items in use.                                   *)

\* It leaves the items in use as they are, but for those at J in s.
LosesOnly(s, J) ==
  \A t \in Sectors, j \in Nat :
    /\ Holding(t, j)' <=> Holding(t, j) /\ ~(t = s /\ j \in J)
    /\ Holding(t, j)' => flash'[t].items[j] = flash[t].items[j]
SameHeld ==
  \A t \in Sectors, j \in Nat :
    /\ Holding(t, j)' <=> Holding(t, j)
    /\ Holding(t, j)' => flash'[t].items[j] = flash[t].items[j]
\* It adds l, if that is an item in use, behind those of s.
GainsItem(s, n, l) ==
  /\ flash'[s].items[n] = l
  /\ \A j \in Nat : Holding(s, j) => j < n
  /\ \A t \in Sectors, j \in Nat :
       /\ Holding(t, j)' <=> \/ Holding(t, j)
                             \/ t = s /\ j = n /\ l.state = "using" /\ l.crcItem
       /\ Holding(t, j) => flash'[t].items[j] = flash[t].items[j]

SameHeaders ==
  /\ Healthy' = Healthy /\ Marked' = Marked
  /\ \A s \in Healthy : flash'[s].serial = flash[s].serial

LEMMA NothingHeld == ASSUME UNCHANGED flash PROVE SameHeld /\ SameHeaders
<1>1. Healthy' = Healthy /\ Marked' = Marked
  BY DEF Healthy, Marked
<1> QED BY <1>1 DEF SameHeld, SameHeaders, Holding

\* A step that empties a sector, or takes its header.
LEMMA SectorLost ==
  ASSUME NEW s \in Sectors, \A t \in Sectors \ {s} : flash'[t] = flash[t],
         s \notin Healthy' \/ flash'[s].items = <<>>
  PROVE  LosesOnly(s, Nat)
<1>1. \A j \in Nat : ~Holding(s, j)'
  <2>1. DOMAIN <<>> = {}
    BY EmptySeq, LenProperties
  <2> QED BY <2>1 DEF Holding
<1>2. \A t \in Sectors \ {s}, j \in Nat : Holding(t, j)' <=> Holding(t, j)
  BY DEF Holding, Healthy
<1> QED BY <1>1, <1>2 DEF LosesOnly

LEMMA NoneLost ==
  ASSUME NEW s, NEW J, LosesOnly(s, J), \A j \in J : ~Holding(s, j)
  PROVE  SameHeld
BY DEF LosesOnly, SameHeld

LEMMA EraseHeld ==
  ASSUME WeakTypes, NEW s \in Sectors, flash' = EraseSector(flash, s)
  PROVE  LosesOnly(s, Nat)
<1>1. flash'[s] = Blank /\ \A t \in Sectors \ {s} : flash'[t] = flash[t]
  BY DEF WeakTypes, EraseSector
<1>2. s \notin Healthy'
  BY <1>1 DEF Healthy, Good, Blank
<1> QED BY <1>1, <1>2, SectorLost

LEMMA ActivateHeld ==
  ASSUME BaseInv, pc # "off", Activate PROVE SameHeld /\ SameHeaders
<1> USE DEF BaseInv, MarkInv, SerialInv
<1>1. PICK h \in Sectors : h = Head(idle)
  <2>1. idle \in Seq(Sectors) /\ idle # <<>> /\ IsInjective(idle)
    BY DEF ListInv, Lists, ListsPartition, Activate
  <2> QED BY <2>1, TailOnly
<1>2. CASE ram[h].state = "crash"
  <2>1. flash' = EraseSector(flash, h)
    BY <1>1, <1>2 DEF Activate
  <2>2. h \notin Healthy
    BY <1>2 DEF SerialFacts, HealthKnown, Healthy, Good
  <2>3. flash'[h] = Blank /\ \A t \in Sectors \ {h} : flash'[t] = flash[t]
    BY <2>1 DEF WeakTypes, EraseSector
  <2>4. LosesOnly(h, Nat) /\ \A j \in Nat : ~Holding(h, j)
    BY <2>1, <2>2, EraseHeld DEF Holding
  <2>5. SameHeld
    BY <2>4, NoneLost
  <2>6. h \notin Healthy' /\ h \notin Marked /\ h \notin Marked'
    BY <2>2, <2>3 DEF Healthy, Good, Blank, Marked
  <2>7. SameHeaders
    BY <2>2, <2>3, <2>6 DEF SameHeaders, Healthy, Marked
  <2> QED BY <2>5, <2>7
<1>3. CASE ram[h].state # "crash"
  <2>1. flash' = flash
    BY <1>1, <1>3 DEF Activate
  <2> QED BY <2>1, NothingHeld
<1> QED BY <1>2, <1>3

LEMMA HeaderHeld ==
  ASSUME WeakTypes, NEW s \in Sectors, Bare(s), InitSector(s) PROVE SameHeld
<1>1. flash' = [flash EXCEPT ![s].state = "using", ![s].serial = ram[s].serial]
  BY DEF InitSector, WriteHeader
<1>2. /\ flash'[s].items = <<>> /\ \A t \in Sectors \ {s} : flash'[t] = flash[t]
  BY <1>1 DEF WeakTypes, FlashSector, Bare
<1>3. LosesOnly(s, Nat)
  BY <1>2, SectorLost
<1>4. \A j \in Nat : ~Holding(s, j)
  <2>1. DOMAIN <<>> = {}
    BY EmptySeq, LenProperties
  <2> QED BY <2>1 DEF Holding, Bare
<1> QED BY <1>3, <1>4, NoneLost

\* Steps that rewrite headers or change states of items not in use.
LEMMA LoadHeld ==
  ASSUME WeakTypes, Load PROVE SameHeld /\ SameHeaders
<1>1. \A s \in Sectors : flash[s] \in FlashSector
                         /\ flash'[s] = IF Good(flash[s]) THEN Cleaned(flash[s]) ELSE flash[s]
  BY DEF Load, WeakTypes
<1>2. \A s \in Sectors : flash'[s].state = flash[s].state /\ flash'[s].serial = flash[s].serial
  BY <1>1, CleanedType
<1>3. SameHeaders
  BY <1>2 DEF SameHeaders, Healthy, Marked, Good
<1>4. ASSUME NEW t \in Sectors, NEW j \in Nat
      PROVE  /\ Holding(t, j)' <=> Holding(t, j)
             /\ Holding(t, j)' => flash'[t].items[j] = flash[t].items[j]
  <2>1. CASE t \notin Healthy
    BY <1>3, <2>1 DEF Holding, SameHeaders
  <2>2. CASE t \in Healthy
    <3> DEFINE q == flash[t].items
    <3>1. flash'[t].items = [i \in DOMAIN q |-> IF Torn(q[i])
                               THEN [q[i] EXCEPT !.state = "dropped"] ELSE q[i]]
      BY <1>1, <2>2 DEF Healthy, Cleaned, FlashSector
    <3>2. DOMAIN flash'[t].items = DOMAIN q
      BY <3>1
    <3>3. j \in DOMAIN q /\ ~Torn(q[j]) => flash'[t].items[j] = q[j]
      BY <3>1
    <3>4. j \in DOMAIN q /\ Torn(q[j]) => flash'[t].items[j].state # "using"
      <4>1. q \in Seq(AnyItem)
        BY <1>1 DEF FlashSector
      <4>2. PICK n \in Nat : n = Len(q) /\ DOMAIN q = 1..n
        BY <4>1, LenProperties
      <4>3. j \in DOMAIN q => q[j] \in AnyItem
        BY <4>1, <4>2, ElementOfSeq
      <4>4. j \in DOMAIN q => [q[j] EXCEPT !.state = "dropped"].state = "dropped"
        BY <4>3 DEF AnyItem
      <4> QED BY <3>1, <4>4
    <3>5. t \in Healthy'
      BY <1>3, <2>2 DEF SameHeaders
    <3>6. CASE j \notin DOMAIN q
      BY <3>2, <3>6 DEF Holding
    <3>7. CASE j \in DOMAIN q /\ Torn(q[j])
      BY <3>4, <3>7 DEF Holding, Torn
    <3>8. CASE j \in DOMAIN q /\ ~Torn(q[j])
      BY <2>2, <3>2, <3>3, <3>5, <3>8 DEF Holding
    <3> QED BY <3>6, <3>7, <3>8
  <2> QED BY <2>1, <2>2
<1> QED BY <1>3, <1>4 DEF SameHeld

LEMMA MarkHeld ==
  ASSUME WeakTypes, NEW s \in Healthy, flash' = SetState(flash, s, "deleting")
  PROVE  SameHeld
<1>1. s \in Sectors /\ flash' = [flash EXCEPT ![s].state = "deleting"]
  BY DEF Healthy, SetState
<1>2. /\ flash'[s].state = "deleting" /\ flash'[s].items = flash[s].items
      /\ \A t \in Sectors \ {s} : flash'[t] = flash[t]
  BY <1>1 DEF WeakTypes, FlashSector
<1>3. \A t \in Sectors : flash'[t].items = flash[t].items
  BY <1>2
<1>4. s \in Healthy'
  BY <1>1, <1>2 DEF Healthy, Good
<1>5. \A t \in Sectors \ {s} : t \in Healthy' <=> t \in Healthy
  BY <1>2 DEF Healthy
<1>6. Healthy' = Healthy
  BY <1>4, <1>5 DEF Healthy
<1> QED BY <1>3, <1>6 DEF SameHeld, Holding

\* A header that is made unusable.
LEMMA CrashLost ==
  ASSUME WeakTypes, NEW s \in Sectors, flash' = [flash EXCEPT ![s].state = "crash"]
  PROVE  LosesOnly(s, Nat) /\ Healthy' = Healthy \ {s} /\ Marked' = Marked \ {s}
         /\ \A t \in Sectors : flash'[t].serial = flash[t].serial
<1>1. /\ \A t \in Sectors \ {s} : flash'[t] = flash[t]
      /\ flash'[s].state = "crash" /\ flash'[s].serial = flash[s].serial
  BY DEF WeakTypes, FlashSector
<1>2. Healthy' = Healthy \ {s} /\ Marked' = Marked \ {s}
  BY <1>1 DEF Healthy, Marked, Good
<1>3. LosesOnly(s, Nat)
  BY <1>1, <1>2, SectorLost
<1> QED BY <1>1, <1>2, <1>3

LEMMA DropHeld ==
  ASSUME WeakTypes, UniqueInv, PlainInv, NEW s \in Sectors, NEW j \in InUse(s),
         flash' = DropAt(flash, s, flash[s].items[j].at)
  PROVE  LosesOnly(s, {j}) /\ SameHeaders
<1>1. /\ j \in DOMAIN flash[s].items /\ flash \in [Sectors -> FlashSector]
      /\ flash[s].items \in Seq(AnyItem) /\ Apart(flash[s].items) /\ LongEnough(flash[s].items)
  BY DEF InUse, WeakTypes, FlashSector, PlainInv, UniqueInv, AllGenuine, Genuine, LongEnough
<1>2. PICK n \in Nat : n = Len(flash[s].items) /\ DOMAIN flash[s].items = 1..n
  BY <1>1, LenProperties
<1>3. flash[s].items[j] \in AnyItem
  BY <1>1, <1>2, ElementOfSeq
<1>4. flash[s].items[j].at \in Nat
  BY <1>3 DEF AnyItem
<1>5. DroppedOnly(flash, flash', s, j)
  BY <1>1, PlainDrop
<1>6. SameHeads(flash', flash)
  BY <1>1, <1>4, DropAtType
<1>7. SameHeaders
  BY <1>6 DEF SameHeads, SameHeaders, Healthy, Marked, Good
<1>8. /\ DOMAIN flash'[s].items = DOMAIN flash[s].items
      /\ flash'[s].items[j].state = "dropped"
      /\ \A i \in DOMAIN flash[s].items \ {j} : flash'[s].items[i] = flash[s].items[i]
      /\ \A t \in Sectors \ {s} : flash'[t] = flash[t]
  BY <1>3, <1>5 DEF DroppedOnly, AnyItem
<1>9. ASSUME NEW t \in Sectors, NEW i \in Nat
      PROVE  /\ Holding(t, i)' <=> Holding(t, i) /\ ~(t = s /\ i \in {j})
             /\ Holding(t, i)' => flash'[t].items[i] = flash[t].items[i]
  <2>1. CASE t # s
    BY <1>7, <1>8, <2>1 DEF Holding, SameHeaders
  <2>2. CASE t = s /\ i = j
    BY <1>8, <2>2 DEF Holding
  <2>3. CASE t = s /\ i # j
    BY <1>7, <1>8, <2>3 DEF Holding, SameHeaders
  <2> QED BY <2>1, <2>2, <2>3
<1> QED BY <1>7, <1>9 DEF LosesOnly

LEMMA AppendHeld ==
  ASSUME WeakTypes, NEW s \in Healthy, NEW i, NEW l, Appended(s, i, l), Healthy' = Healthy
  PROVE  \E n \in Nat : GainsItem(s, n, l)
<1>1. /\ s \in Sectors /\ flash[s].items \in Seq(AnyItem) /\ l \in AnyItem
      /\ flash'[s].items = Append(flash[s].items, l)
      /\ \A t \in Sectors \ {s} : flash'[t] = flash[t]
  BY DEF Appended, Healthy, WeakTypes, FlashSector
<1> DEFINE q == flash[s].items
           r == flash'[s].items
<1>2. PICK m \in Nat : /\ DOMAIN q = 1..m
                       /\ DOMAIN r = 1..(m + 1) /\ r[m + 1] = l
                       /\ \A j \in 1..m : r[j] = q[j]
                       /\ \A j \in 1..(m + 1) : j \in 1..m \/ j = m + 1
  BY <1>1, AppendItems
<1>3. m + 1 \notin 1..m /\ 1..m \subseteq 1..(m + 1) /\ m + 1 \in 1..(m + 1)
  OBVIOUS
<1>4. \A j \in Nat : Holding(s, j) => j < m + 1
  BY <1>2 DEF Holding
<1>5. ASSUME NEW t \in Sectors, NEW j \in Nat
      PROVE  /\ Holding(t, j)' <=> \/ Holding(t, j)
                                   \/ t = s /\ j = m + 1 /\ l.state = "using" /\ l.crcItem
             /\ Holding(t, j) => flash'[t].items[j] = flash[t].items[j]
  <2>1. CASE t # s
    BY <1>1, <2>1 DEF Holding
  <2>2. CASE t = s /\ j \in 1..m
    <3>1. j # m + 1 /\ j \in 1..(m + 1)
      BY <1>3, <2>2
    <3> QED BY <1>1, <1>2, <2>2, <3>1 DEF Holding
  <2>3. CASE t = s /\ j = m + 1
    BY <1>1, <1>2, <1>3, <2>3 DEF Holding
  <2>4. CASE t = s /\ j \notin 1..(m + 1)
    <3>1. j # m + 1 /\ j \notin 1..m
      BY <1>3, <2>4
    <3> QED BY <1>1, <1>2, <2>4, <3>1 DEF Holding
  <2> QED BY <1>2, <2>1, <2>2, <2>3, <2>4
<1> HIDE DEF q, r
<1>6. flash'[s].items[m + 1] = l
  BY <1>2 DEF r
<1>7. GainsItem(s, m + 1, l)
  BY <1>4, <1>5, <1>6 DEF GainsItem
<1> QED BY <1>7
-------------------------------------------------------------------------------
(* What that means for the values.                                         *)

AllWhole == \A s \in Sectors, j \in Nat : Holding(s, j) => Whole(s, j)
NoDoubles == \A s, t \in Sectors, i, j \in Nat : Doubles(s, i, t, j) => s = t
\* Only the program of the very last item can have been cut short in its data.
LastBroken == \A s \in Sectors, j \in Nat :
                Holding(s, j) /\ ~Whole(s, j) =>
                  Highest(s) /\ \A i \in Nat : Holding(s, i) => i <= j
\* The copy of a reclaiming that was cut off holds no item yet.
CopyUnstarted ==
  Marked # {} => \A s \in Healthy, j \in Nat : s \notin Marked /\ Highest(s) => ~Whole(s, j)

\* Whatever is in use after a step was in use before, and is the same.
Shrinks ==
  \A t \in Sectors, j \in Nat :
    Holding(t, j)' => Holding(t, j) /\ flash'[t].items[j] = flash[t].items[j]

LEMMA SameShrinks == ASSUME SameHeld PROVE Shrinks
BY DEF SameHeld, Shrinks

LEMMA LostShrinks == ASSUME NEW s, NEW J, LosesOnly(s, J) PROVE Shrinks
BY DEF LosesOnly, Shrinks

LEMMA ShrinksKeeps ==
  ASSUME Shrinks
  PROVE  /\ AllWhole => AllWhole'
         /\ Agree => Agree'
         /\ NoDoubles => NoDoubles'
<1>1. \A t \in Sectors, j \in Nat :
        /\ Whole(t, j)' => Whole(t, j) /\ KeyOf(t, j)' = KeyOf(t, j) /\ ValueOf(t, j)' = ValueOf(t, j)
        /\ Holding(t, j)' /\ Whole(t, j) => Whole(t, j)'
  BY DEF Shrinks, Whole, KeyOf, ValueOf
<1>2. \A s, t \in Sectors, i, j \in Nat : Doubles(s, i, t, j)' => Doubles(s, i, t, j)
  BY <1>1 DEF Doubles
<1>3. AllWhole => AllWhole'
  BY <1>1 DEF AllWhole, Shrinks
<1>4. Agree => Agree'
  BY <1>1, <1>2 DEF Agree, Doubles
<1>5. NoDoubles => NoDoubles'
  BY <1>2 DEF NoDoubles
<1> QED BY <1>3, <1>4, <1>5

LEMMA SameHeldWhole ==
  ASSUME SameHeld
  PROVE  \A t \in Sectors, j \in Nat :
           /\ Whole(t, j)' <=> Whole(t, j)
           /\ Whole(t, j) => KeyOf(t, j)' = KeyOf(t, j) /\ ValueOf(t, j)' = ValueOf(t, j)
BY DEF SameHeld, Whole, KeyOf, ValueOf

LEMMA SameHeldValues == ASSUME SameHeld PROVE SameValues
<1> SUFFICES ASSUME NEW k, NEW v PROVE Has(k, v)' <=> Has(k, v)
  BY DEF SameValues
<1> QED BY SameHeldWhole DEF Has

\* With the headers as they are, broken items and copies are where they were.
LEMMA SameHeldKeeps ==
  ASSUME SameHeld, SameHeaders
  PROVE  /\ LastBroken => LastBroken'
         /\ CopyUnstarted => CopyUnstarted'
<1>1. \A s \in Healthy : Highest(s) => Highest(s)'
  BY DEF SameHeaders, Highest
<1>2. \A s \in Healthy : Highest(s)' => Highest(s)
  BY DEF SameHeaders, Highest
<1>3. ASSUME LastBroken PROVE LastBroken'
  <2> SUFFICES ASSUME NEW s \in Sectors, NEW j \in Nat, Holding(s, j)', ~Whole(s, j)'
               PROVE  Highest(s)' /\ \A i \in Nat : Holding(s, i)' => i <= j
    BY DEF LastBroken
  <2>1. Holding(s, j) /\ ~Whole(s, j) /\ s \in Healthy
    BY SameHeldWhole DEF SameHeld, Holding
  <2>2. Highest(s) /\ \A i \in Nat : Holding(s, i) => i <= j
    BY <1>3, <2>1 DEF LastBroken
  <2>3. \A i \in Nat : Holding(s, i)' => i <= j
    BY <2>2 DEF SameHeld
  <2> QED BY <1>1, <2>1, <2>2, <2>3
<1>4. ASSUME CopyUnstarted PROVE CopyUnstarted'
  <2> SUFFICES ASSUME Marked' # {}, NEW s \in Healthy', NEW j \in Nat, s \notin Marked', Highest(s)'
               PROVE  ~Whole(s, j)'
    BY DEF CopyUnstarted
  <2>1. s \in Sectors /\ s \in Healthy /\ Highest(s) /\ s \notin Marked /\ Marked # {}
    BY <1>2 DEF SameHeaders, Healthy
  <2> QED BY <1>4, <2>1, SameHeldWhole DEF CopyUnstarted
<1> QED BY <1>3, <1>4

\* Items are lost without a value being lost if each has a double elsewhere.
LEMMA LostValues ==
  ASSUME NEW s \in Sectors, NEW J, LosesOnly(s, J), Agree,
         \A j \in Nat : j \in J /\ Whole(s, j) =>
                          \E t \in Sectors \ {s}, i \in Nat : Doubles(s, j, t, i)
  PROVE  SameValues
<1>1. \A t \in Sectors, j \in Nat :
        /\ Whole(t, j)' <=> Whole(t, j) /\ ~(t = s /\ j \in J)
        /\ Whole(t, j)' => KeyOf(t, j)' = KeyOf(t, j) /\ ValueOf(t, j)' = ValueOf(t, j)
  BY DEF LosesOnly, Whole, KeyOf, ValueOf
<1> SUFFICES ASSUME NEW k, NEW v PROVE Has(k, v)' <=> Has(k, v)
  BY DEF SameValues
<1>2. Has(k, v)' => Has(k, v)
  BY <1>1 DEF Has
<1>3. ASSUME Has(k, v) PROVE Has(k, v)'
  <2>1. PICK t \in Sectors, j \in Nat : Whole(t, j) /\ KeyOf(t, j) = k /\ ValueOf(t, j) = v
    BY <1>3 DEF Has
  <2>2. CASE ~(t = s /\ j \in J)
    BY <1>1, <2>1, <2>2 DEF Has
  <2>3. CASE t = s /\ j \in J
    <3>1. PICK u \in Sectors \ {s}, i \in Nat : Doubles(s, j, u, i)
      BY <2>1, <2>3
    <3>2. Whole(u, i) /\ KeyOf(u, i) = k /\ ValueOf(u, i) = v
      BY <2>1, <2>3, <3>1 DEF Doubles, Agree
    <3> QED BY <1>1, <3>2 DEF Has
  <2> QED BY <2>2, <2>3
<1> QED BY <1>2, <1>3

\* An item whose program is cut short adds no value.
LEMMA BrokenGain ==
  ASSUME NEW s \in Sectors, NEW n \in Nat, NEW l, GainsItem(s, n, l), ~l.crcItem \/ ~l.crcData
  PROVE  /\ \A t \in Sectors, j \in Nat : Whole(t, j)' <=> Whole(t, j)
         /\ SameValues
         /\ NoDoubles => NoDoubles'
         /\ Agree => Agree'
         /\ AllWhole /\ Highest(s)' => LastBroken'
<1>1. /\ flash'[s].items[n] = l /\ \A j \in Nat : Holding(s, j) => j < n
      /\ \A t \in Sectors, j \in Nat :
           /\ Holding(t, j)' <=> \/ Holding(t, j)
                                 \/ t = s /\ j = n /\ l.state = "using" /\ l.crcItem
           /\ Holding(t, j) => flash'[t].items[j] = flash[t].items[j]
  BY DEF GainsItem
<1>2. ~Holding(s, n)
  <2>1. ~(n < n)
    OBVIOUS
  <2> QED BY <1>1, <2>1
<1>3. ASSUME NEW t \in Sectors, NEW j \in Nat
      PROVE  /\ Whole(t, j)' <=> Whole(t, j)
             /\ Whole(t, j) => KeyOf(t, j)' = KeyOf(t, j) /\ ValueOf(t, j)' = ValueOf(t, j)
  <2>1. CASE t = s /\ j = n
    BY <1>1, <1>2, <2>1 DEF Whole
  <2>2. CASE ~(t = s /\ j = n)
    BY <1>1, <2>2 DEF Whole, KeyOf, ValueOf
  <2> QED BY <2>1, <2>2
<1>4. SameValues
  BY <1>3 DEF SameValues, Has
<1>5. NoDoubles => NoDoubles'
  BY <1>3 DEF NoDoubles, Doubles
<1>6. Agree => Agree'
  BY <1>3 DEF Agree, Doubles
<1>7. ASSUME AllWhole, Highest(s)' PROVE LastBroken'
  <2> SUFFICES ASSUME NEW t \in Sectors, NEW j \in Nat, Holding(t, j)', ~Whole(t, j)'
               PROVE  Highest(t)' /\ \A i \in Nat : Holding(t, i)' => i <= j
    BY DEF LastBroken
  <2>1. t = s /\ j = n
    BY <1>1, <1>3, <1>7 DEF AllWhole
  <2>2. \A i \in Nat : Holding(s, i)' => i < n \/ i = n
    BY <1>1
  <2>3. \A i \in Nat : i < n \/ i = n => i <= n
    OBVIOUS
  <2> QED BY <1>7, <2>1, <2>2, <2>3
<1> QED BY <1>3, <1>4, <1>5, <1>6, <1>7

\* An item that lands whole adds its value.
LEMMA WholeGain ==
  ASSUME NEW s \in Sectors, NEW n \in Nat, NEW l, GainsItem(s, n, l),
         l.state = "using", l.crcItem, l.crcData, AllWhole, Agree,
         \A t \in Sectors, j \in Nat :
           Whole(t, j) /\ KeyOf(t, j) = l.key => ValueOf(t, j) = l.val
  PROVE  /\ AllWhole' /\ Agree'
         /\ \A k, v : Has(k, v)' <=> Has(k, v) \/ (k = l.key /\ v = l.val)
<1>1. /\ flash'[s].items[n] = l
      /\ \A t \in Sectors, j \in Nat :
           /\ Holding(t, j)' <=> Holding(t, j) \/ (t = s /\ j = n)
           /\ Holding(t, j) => flash'[t].items[j] = flash[t].items[j]
  BY DEF GainsItem
<1>2. Whole(s, n)' /\ KeyOf(s, n)' = l.key /\ ValueOf(s, n)' = l.val
  BY <1>1 DEF Whole, KeyOf, ValueOf
<1>3. \A t \in Sectors, j \in Nat :
        Whole(t, j) => Whole(t, j)' /\ KeyOf(t, j)' = KeyOf(t, j) /\ ValueOf(t, j)' = ValueOf(t, j)
  BY <1>1 DEF Whole, KeyOf, ValueOf
<1>4. \A t \in Sectors, j \in Nat : Whole(t, j)' => Whole(t, j) \/ (t = s /\ j = n)
  BY <1>1 DEF Whole
<1>5. AllWhole'
  BY <1>1, <1>2, <1>3 DEF AllWhole
<1>6. Agree'
  <2> SUFFICES ASSUME NEW t \in Sectors, NEW u \in Sectors, NEW i \in Nat, NEW j \in Nat,
                      Doubles(t, i, u, j)'
               PROVE  ValueOf(t, i)' = ValueOf(u, j)'
    BY DEF Agree
  <2>1. Whole(t, i)' /\ Whole(u, j)' /\ KeyOf(t, i)' = KeyOf(u, j)'
    BY DEF Doubles
  <2>2. KeyOf(t, i)' = l.key /\ Whole(t, i) => ValueOf(t, i)' = l.val
    BY <1>3
  <2>3. KeyOf(u, j)' = l.key /\ Whole(u, j) => ValueOf(u, j)' = l.val
    BY <1>3
  <2>4. CASE Whole(t, i) /\ Whole(u, j)
    BY <1>3, <2>1, <2>4 DEF Agree, Doubles
  <2>5. CASE ~Whole(t, i)
    <3>1. KeyOf(t, i)' = l.key /\ ValueOf(t, i)' = l.val
      BY <1>2, <1>4, <2>1, <2>5
    <3> QED BY <1>2, <1>4, <2>1, <2>3, <3>1
  <2>6. CASE ~Whole(u, j)
    <3>1. KeyOf(u, j)' = l.key /\ ValueOf(u, j)' = l.val
      BY <1>2, <1>4, <2>1, <2>6
    <3> QED BY <1>2, <1>4, <2>1, <2>2, <3>1
  <2> QED BY <2>4, <2>5, <2>6
<1>7. ASSUME NEW k, NEW v PROVE Has(k, v)' <=> Has(k, v) \/ (k = l.key /\ v = l.val)
  <2>1. Has(k, v) => Has(k, v)'
    BY <1>3 DEF Has
  <2>2. k = l.key /\ v = l.val => Has(k, v)'
    BY <1>2 DEF Has
  <2>3. ASSUME Has(k, v)' PROVE Has(k, v) \/ (k = l.key /\ v = l.val)
    <3>1. PICK t \in Sectors, j \in Nat : Whole(t, j)' /\ KeyOf(t, j)' = k /\ ValueOf(t, j)' = v
      BY <2>3 DEF Has
    <3>2. CASE Whole(t, j)
      BY <1>3, <3>1, <3>2 DEF Has
    <3>3. CASE t = s /\ j = n
      BY <1>2, <3>1, <3>3
    <3> QED BY <1>4, <3>1, <3>2, <3>3
  <2> QED BY <2>1, <2>2, <2>3
<1> QED BY <1>5, <1>6, <1>7

-------------------------------------------------------------------------------
(* Reclaiming and recovery keep the values.  Whatever is cut off, the next *)
(* mount finds no key in two sectors and no broken item but the last; and  *)
(* a source is not erased before everything in it has a copy.              *)

\* The items of src before the n-th have been copied to dst.
CopiedTo(src, dst, n) ==
  /\ \A i \in Nat \ {0} : i < n /\ Holding(src, i) => \E j \in Nat : Twins(src, i, dst, j)
  /\ n = 1 => Bare(dst)

ValuePhases ==
  /\ pc \notin {"off", "fix_write"} => AllWhole
  /\ pc \in {"off", "fix_write"} => LastBroken
  /\ pc \in {"off", "fix_write", "fix_gc"} => NoDoubles /\ CopyUnstarted
  /\ pc = "gc_copy" => CopiedTo(gc.src, gc.dst, gc.next)

ValueInv == Agree /\ ValuePhases

\* What is left to show after a step that keeps the items in use.
LEMMA SameHeldInv ==
  ASSUME ValueInv, SameHeld,
         pc' \notin {"off", "fix_write"} => AllWhole,
         pc' \in {"off", "fix_write"} => LastBroken',
         pc' \in {"off", "fix_write", "fix_gc"} => NoDoubles /\ CopyUnstarted',
         pc' = "gc_copy" => CopiedTo(gc.src, gc.dst, gc.next)'
  PROVE  ValueInv' /\ SameValues
<1>1. Shrinks
  BY SameShrinks
<1> QED BY <1>1, ShrinksKeeps, SameHeldValues DEF ValueInv, ValuePhases

\* A sector with a header is on the active list of a mount.
LEMMA MountCurrent ==
  ASSUME BaseInv, pc \in {"fix_write", "fix_gc"}, NEW s \in Healthy, Highest(s)
  PROVE  s = Current /\ Current \in Sectors /\ active # <<>>
<1> USE DEF BaseInv, MarkInv, SerialInv
<1>1. s \in Sectors /\ Spare = {}
  BY DEF Healthy, SerialPhases
<1>2. s \in ToSet(active)
  BY <1>1 DEF Spare, ListInv, ListsPartition
<1>3. Unwritten = {}
  BY <1>2 DEF SerialPhases, Unwritten
<1>4. s = Current
  BY <1>1, <1>2, <1>3, CurrentHighest
<1>5. active # <<>>
  BY <1>2, EmptyIsDistinct
<1> QED BY <1>1, <1>4, <1>5

\* An item in use is one whose head is intact, once the mount has read it.
LEMMA InUseHeld ==
  ASSUME BaseInv, pc # "off", NEW s \in Healthy, NEW j \in InUse(s)
  PROVE  j \in Nat /\ s \in Sectors /\ Holding(s, j)
<1> USE DEF BaseInv, MarkInv
<1>1. s \in Sectors
  BY DEF Healthy
<1>2. flash[s].items \in Seq(AnyItem)
  BY <1>1 DEF WeakTypes, FlashSector
<1>3. PICK n \in Nat : DOMAIN flash[s].items = 1..n
  BY <1>2, LenProperties
<1>4. j \in Nat
  BY <1>3 DEF InUse
<1>5. Sound(flash[s].items)
  BY DEF PackInv, PackMounted
<1> QED BY <1>1, <1>4, <1>5 DEF Holding, InUse, Sound

\* Where the mount looks for a broken item, it is.
LEMMA BrokenIsLast ==
  ASSUME BaseInv, LastBroken, pc = "fix_write", NEW s \in Sectors, NEW j \in Nat,
         Holding(s, j), ~Whole(s, j)
  PROVE  /\ active # <<>> /\ s = Current /\ j \in InUse(Current)
         /\ \A i \in InUse(Current) : i <= j
<1>1. s \in Healthy /\ Highest(s) /\ \A i \in Nat : Holding(s, i) => i <= j
  BY DEF LastBroken, Holding
<1>2. s = Current /\ active # <<>>
  BY <1>1, MountCurrent
<1>3. j \in InUse(s)
  BY DEF Holding, InUse
<1>4. \A i \in InUse(s) : i <= j
  BY <1>1, InUseHeld
<1> QED BY <1>2, <1>3, <1>4

LEMMA FixWriteValues ==
  ASSUME BaseInv, BaseInv', UniqueInv, PlainInv, ValueInv, FixWrite
  PROVE  ValueInv' /\ SameValues
<1> USE DEF BaseInv, MarkInv, SerialInv
<1>1. pc = "fix_write" /\ pc' = "fix_gc" /\ active # <<>> /\ gc' = gc
  BY DEF FixWrite
<1>2. LastBroken /\ NoDoubles /\ CopyUnstarted /\ Agree
  BY <1>1 DEF ValueInv, ValuePhases
<1>3. ASSUME AllWhole, UNCHANGED flash PROVE ValueInv' /\ SameValues
  <2>1. SameHeld /\ SameHeaders
    BY <1>3, NothingHeld
  <2>2. CopyUnstarted'
    BY <1>2, <2>1, SameHeldKeeps
  <2> QED BY <1>1, <1>2, <1>3, <2>1, <2>2, SameHeldInv
<1>4. CASE InUse(Current) = {} /\ UNCHANGED flash
  <2>1. AllWhole
    BY <1>1, <1>2, <1>4, BrokenIsLast DEF AllWhole
  <2> QED BY <1>3, <1>4, <2>1
<1>5. ASSUME NEW j \in InUse(Current), \A i \in InUse(Current) : i <= j,
             IF ~ItemAt(<<Len(active), j>>).crcData
               THEN EraseItem(Place(<<Len(active), j>>))
               ELSE \E x \in Found(ItemAt(<<Len(active), j>>).key,
                                   {TypeOf[ItemAt(<<Len(active), j>>).val]}) :
                      IF x \notin {None, <<Len(active), j>>} THEN EraseItem(Place(x))
                                                             ELSE UNCHANGED <<flash, ram>>
      PROVE  ValueInv' /\ SameValues
  <2>1. PICK c \in Sectors : c = Current
    BY <1>1, <1>5, LastPlace
  <2>2. /\ j \in Nat /\ ItemAt(<<Len(active), j>>) = flash[c].items[j]
        /\ Place(<<Len(active), j>>).sec = c
        /\ Place(<<Len(active), j>>).at = flash[c].items[j].at
    BY <1>1, <1>5, <2>1, LastPlace
  <2>3. ASSUME NEW s \in Sectors, NEW i \in Nat, Holding(s, i), ~Whole(s, i)
        PROVE  s = c /\ i = j
    <3>1. s = Current /\ i \in InUse(Current) /\ \A m \in InUse(Current) : m <= i
      BY <1>1, <1>2, <2>3, BrokenIsLast
    <3>2. i <= j /\ j <= i
      BY <1>5, <3>1
    <3> QED BY <2>1, <2>2, <3>1, <3>2
  <2>4. CASE ~flash[c].items[j].crcData
    <3>1. flash' = DropAt(flash, c, flash[c].items[j].at)
      BY <1>5, <2>2, <2>4 DEF EraseItem
    <3>2. LosesOnly(c, {j}) /\ SameHeaders
      BY <1>5, <2>1, <3>1, DropHeld
    <3>3. Shrinks
      BY <3>2, LostShrinks
    <3>4. SameValues
      BY <1>2, <2>4, <3>2, LostValues DEF Whole
    <3>5. AllWhole'
      <4> SUFFICES ASSUME NEW s \in Sectors, NEW i \in Nat, Holding(s, i)' PROVE Whole(s, i)'
        BY DEF AllWhole
      <4>1. Holding(s, i) /\ ~(s = c /\ i = j) /\ flash'[s].items[i] = flash[s].items[i]
        BY <3>2 DEF LosesOnly
      <4>2. Whole(s, i)
        BY <2>3, <4>1
      <4> QED BY <4>1, <4>2 DEF Whole
    <3>6. \A s \in Sectors, i \in Nat : Whole(s, i)' => Whole(s, i)
      BY <3>3 DEF Shrinks, Whole
    <3>7. CopyUnstarted'
      <4>1. \A s \in Healthy' : Highest(s)' => Highest(s)
        BY <3>2 DEF SameHeaders, Highest
      <4>2. \A s \in Healthy : s \in Sectors
        BY DEF Healthy
      <4> QED BY <1>2, <3>2, <3>6, <4>1, <4>2 DEF CopyUnstarted, SameHeaders
    <3>8. Agree' /\ NoDoubles'
      BY <1>2, <3>3, ShrinksKeeps
    <3> QED BY <1>1, <3>4, <3>5, <3>7, <3>8 DEF ValueInv, ValuePhases
  <2>5. CASE flash[c].items[j].crcData
    <3> DEFINE last == <<Len(active), j>>
               it == flash[c].items[j]
    <3>1. AllWhole
      <4> SUFFICES ASSUME NEW s \in Sectors, NEW i \in Nat, Holding(s, i) PROVE Whole(s, i)
        BY DEF AllWhole
      <4>1. CASE s = c /\ i = j
        BY <2>5, <4>1 DEF Whole
      <4> QED BY <2>3, <4>1
    <3>2. PICK x \in Found(it.key, {TypeOf[it.val]}) :
            IF x \notin {None, last} THEN EraseItem(Place(x)) ELSE UNCHANGED <<flash, ram>>
      BY <1>5, <2>2, <2>5
    <3>3. ASSUME x # None PROVE x = last
      <4>1. PICK i \in DOMAIN active, s \in Sectors, m \in Nat :
              /\ x = <<i, m>> /\ s = active[i] /\ m \in InUse(s)
              /\ flash[s].items[m].key = it.key /\ Place(x).sec = s
        BY <3>2, <3>3, FoundDrops
      <4>2. x \in Hits(it.key, {TypeOf[it.val]})
        BY <3>2, <3>3, FoundDrops
      <4>3. Searched(s)
        BY <4>1, <4>2 DEF Hits
      <4>4. s \in Healthy
        BY <1>1, <4>1, <4>3 DEF Searched, SerialFacts, HealthKnown, Good, Healthy
      <4>5. Holding(s, m) /\ m \in Nat
        BY <1>1, <4>1, <4>4, InUseHeld
      <4>6. c \in Healthy
        <5>1. active \in Seq(Sectors)
          BY DEF ListInv, Lists
        <5>2. s \in ToSet(active) /\ c \in ToSet(active)
          BY <1>1, <2>1, <4>1, <5>1, FrontOnly DEF ToSet, Current, ListInv, ListsPartition
        <5>3. Unwritten = {}
          BY <1>1, <4>4, <5>2 DEF SerialPhases, Unwritten
        <5> QED BY <5>2, <5>3 DEF Unwritten
      <4>7. Holding(c, j)
        BY <1>1, <1>5, <2>1, <4>6, InUseHeld
      <4>8. Doubles(c, j, s, m)
        BY <2>2, <3>1, <4>1, <4>5, <4>7 DEF AllWhole, Doubles, KeyOf
      <4>9. s = c
        BY <1>2, <2>2, <4>5, <4>8 DEF NoDoubles
      <4>10. m = j
        BY <2>2, <4>5, <4>8, <4>9 DEF Doubles, Whole, UniqueInv, Once, Twins
      <4>11. i = Len(active)
        <5>1. active \in Seq(Sectors) /\ IsInjective(active)
          BY DEF ListInv, Lists, ListsPartition
        <5>2. PICK n \in Nat : n = Len(active) /\ DOMAIN active = 1..n
          BY <5>1, LenProperties
        <5>3. n \in DOMAIN active /\ active[n] = c
          BY <1>1, <2>1, <4>1, <5>2 DEF Current, Last
        <5> QED BY <4>1, <4>9, <5>1, <5>2, <5>3 DEF IsInjective
      <4> QED BY <4>1, <4>10, <4>11
    <3>4. UNCHANGED flash
      BY <3>2, <3>3
    <3> QED BY <1>3, <3>1, <3>4
  <2> QED BY <2>4, <2>5
<1> QED BY <1>4, <1>5 DEF FixWrite

\* The unfinished copy the mount erases holds no item, and so no value.
LEMMA FixGcValues ==
  ASSUME BaseInv, UniqueInv, ValueInv, FixGcErase
  PROVE  ValueInv' /\ SameValues
<1> USE DEF BaseInv, MarkInv, SerialInv
<1>1. pc = "fix_gc" /\ pc' \in {"settle", "fix_take"}
  BY DEF FixGcErase
<1>2. AllWhole /\ CopyUnstarted
  BY <1>1 DEF ValueInv, ValuePhases
<1>3. CASE UNCHANGED flash
  BY <1>1, <1>2, <1>3, NothingHeld, SameHeldInv
<1>4. CASE ~UNCHANGED flash
  <2>1. Deleting # {} /\ ram[Current].state = "using" /\ flash' = EraseSector(flash, Current)
    BY <1>4 DEF FixGcErase
  <2>2. PICK i \in DOMAIN active : ram[active[i]].state = "deleting"
    BY <2>1 DEF Deleting
  <2>3. active[i] \in Sectors /\ active[i] \in ToSet(active)
    BY LenProperties, ElementOfSeq DEF ListInv, Lists, ToSet
  <2>4. active[i] \in Marked /\ active[i] \in Healthy
    BY <1>1, <2>2, <2>3 DEF MarksKnown, Marked, Healthy, Good
  <2>5. Unwritten = {} /\ Spare = {} /\ ToSet(active) # {}
    BY <1>1, <2>3, <2>4 DEF SerialPhases, Unwritten
  <2>6. PICK c \in Sectors : c = Current /\ c \in Healthy
    BY <1>1, <2>5, CurrentHighest DEF Healthy
  <2>7. Highest(c)
    BY <1>1, <2>5, <2>6, CurrentHighest
  <2>8. c \notin Marked
    BY <1>1, <2>1, <2>6 DEF MarksKnown, Marked
  <2>9. \A j \in Nat : ~Holding(c, j)
    BY <1>2, <2>4, <2>6, <2>7, <2>8 DEF CopyUnstarted, AllWhole
  <2>10. LosesOnly(c, Nat)
    BY <2>1, <2>6, EraseHeld
  <2>11. SameHeld
    BY <2>9, <2>10, NoneLost
  <2> QED BY <1>1, <1>2, <2>11, SameHeldInv
<1> QED BY <1>3, <1>4

LEMMA MountValues ==
  ASSUME BaseInv, BaseInv', UniqueInv, PlainInv, ValueInv, Mount
  PROVE  ValueInv' /\ SameValues
<1> USE DEF BaseInv, MarkInv, SerialInv
<1>1. CASE Load \/ LoadFirst
  <2>1. pc \in {"off", "fix_write"} /\ pc' = "fix_write"
    BY <1>1 DEF Load, LoadFirst
  <2>2. SameHeld /\ SameHeaders
    BY <1>1, LoadHeld, ActivateHeld DEF LoadFirst
  <2>3. LastBroken /\ NoDoubles /\ CopyUnstarted
    BY <2>1 DEF ValueInv, ValuePhases
  <2>4. LastBroken' /\ CopyUnstarted'
    BY <2>2, <2>3, SameHeldKeeps
  <2> QED BY <2>1, <2>2, <2>3, <2>4, SameHeldInv
<1>2. CASE FixGcTake \/ Settle
  <2>1. pc \in {"fix_take", "settle"} /\ pc' \in {"gc_init", "ready"}
    BY <1>2 DEF FixGcTake, Settle
  <2>2. SameHeld
    BY <1>2, <2>1, NothingHeld, ActivateHeld DEF FixGcTake, Settle
  <2>3. AllWhole
    BY <2>1 DEF ValueInv, ValuePhases
  <2> QED BY <2>1, <2>2, <2>3, SameHeldInv
<1> QED BY <1>1, <1>2, FixWriteValues, FixGcValues DEF Mount

\* What each call does to the values.
LEMMA PutValues ==
  ASSUME BaseInv, BaseInv', UniqueInv, PlainInv, ValueInv, PutItem
  PROVE  /\ ValueInv'
         /\ \A k, v : Has(k, v)' <=> Has(k, v) \/ (k = op.key /\ v = op.val)
         /\ \A v : ~Has(op.key, v)
<1> USE DEF BaseInv, MarkInv, SerialInv
<1>1. /\ pc = "put" /\ pc' = "drop" /\ ram[Current].state # "uninit"
      /\ Fits(Current, Span[op.val])
      /\ flash' = Program(flash, Current, NewItem(op.key, op.val, ram[Current].free))
  BY DEF PutItem
<1>2. PICK c \in Sectors, l \in AnyItem :
        c = Current /\ l = NewItem(op.key, op.val, ram[Current].free) /\ c \in Healthy
  BY <1>1, PutPlace
<1>3. /\ l.key = op.key /\ l.val = op.val /\ l.state = "using" /\ l.crcItem /\ l.crcData
  BY <1>2 DEF NewItem
<1>4. Appended(c, l, l)
  <2>1. /\ flash \in [Sectors -> FlashSector] /\ flash[c].stray = {}
        /\ flash' = Program(flash, c, l)
    BY <1>1, <1>2 DEF WeakTypes, PlainInv
  <2>2. /\ flash'[c].items = Append(flash[c].items, l)
        /\ \A t \in Sectors \ {c} : flash'[t] = flash[t]
    BY <2>1, PlainProgram
  <2> QED BY <2>2 DEF Appended
<1>5. Healthy' = Healthy
  <2>1. SameStates
    BY ItemSteps
  <2> QED BY <2>1 DEF SameStates, SameHeads, Healthy, Good
<1>6. PICK n \in Nat : GainsItem(c, n, l)
  BY <1>2, <1>4, <1>5, AppendHeld
<1>7. op.key \in Keys
  BY <1>1 DEF WeakTypes, SetOp
<1>8. Unused(op.key)
  BY <1>1, <1>7, NoneAssumption DEF UniqueInv, UniquePhases
<1>9. \A t \in Sectors, j \in Nat : Whole(t, j) => KeyOf(t, j) # l.key
  BY <1>3, <1>8 DEF Unused, Whole
<1>10. AllWhole /\ Agree
  BY <1>1 DEF ValueInv, ValuePhases
<1>11. AllWhole' /\ Agree' /\ \A k, v : Has(k, v)' <=> Has(k, v) \/ (k = l.key /\ v = l.val)
  BY <1>3, <1>6, <1>9, <1>10, WholeGain
<1>12. \A v : ~Has(op.key, v)
  BY <1>3, <1>9 DEF Has
<1>13. ValueInv'
  BY <1>1, <1>11 DEF ValueInv, ValuePhases
<1> QED BY <1>3, <1>11, <1>12, <1>13

\* A lookup finds the value of the key, if that has one of the types looked for.
LEMMA LookupKnown ==
  ASSUME BaseInv, UniqueInv, AllWhole, pc = "ready", NEW k \in Keys, NEW T, NEW x \in Found(k, T)
  PROVE  /\ x = None => \A v : Has(k, v) => TypeOf[v] \notin T
         /\ x # None => Has(k, ItemAt(x).val) /\ TypeOf[ItemAt(x).val] \in T
         /\ x # None => \E s \in Sectors, j \in Nat :
              /\ Place(x).sec = s /\ Place(x).at = flash[s].items[j].at
              /\ j \in InUse(s) /\ Whole(s, j) /\ KeyOf(s, j) = k
<1> USE DEF BaseInv, MarkInv, SerialInv
<1>1. ASSUME x = None, NEW v, Has(k, v), TypeOf[v] \in T PROVE FALSE
  <2>1. PICK s \in Sectors, j \in Nat : Whole(s, j) /\ KeyOf(s, j) = k /\ ValueOf(s, j) = v
    BY <1>1 DEF Has
  <2>2. Hits(k, T) # {}
    BY <1>1, <2>1, SearchedItem DEF UniqueInv, Whole, ValueOf
  <2>3. x \in Hits(k, T)
    BY <2>2 DEF Found
  <2>4. x \in Nat \X Nat
    BY <2>3 DEF Hits
  <2> QED BY <1>1, <2>4, NoneAssumption
<1>2. ASSUME x # None
      PROVE  /\ Has(k, ItemAt(x).val) /\ TypeOf[ItemAt(x).val] \in T
             /\ \E s \in Sectors, j \in Nat :
                  /\ Place(x).sec = s /\ Place(x).at = flash[s].items[j].at
                  /\ j \in InUse(s) /\ Whole(s, j) /\ KeyOf(s, j) = k
  <2>1. PICK i \in DOMAIN active, s \in Sectors, j \in Nat :
          /\ x = <<i, j>> /\ s = active[i] /\ j \in InUse(s)
          /\ flash[s].items[j].key = k /\ TypeOf[flash[s].items[j].val] \in T
          /\ ItemAt(x) = flash[s].items[j]
          /\ Place(x).sec = s /\ Place(x).at = flash[s].items[j].at
    BY <1>2, FoundDrops
  <2>2. x \in Hits(k, T)
    BY <1>2, FoundDrops
  <2>3. s \in Healthy
    BY <2>1, <2>2 DEF Hits, Searched, SerialFacts, HealthKnown, Good, Healthy
  <2>4. Whole(s, j)
    BY <2>1, <2>3, InUseHeld DEF AllWhole
  <2>5. Has(k, ItemAt(x).val)
    BY <2>1, <2>4 DEF Has, KeyOf, ValueOf
  <2> QED BY <2>1, <2>4, <2>5 DEF KeyOf
<1> QED BY <1>1, <1>2

\* A delete takes the one item there is.
LEMMA DelValues ==
  ASSUME BaseInv, BaseInv', UniqueInv, PlainInv, ValueInv,
         NEW k \in Keys, NEW t \in Types, Del(k, t)
  PROVE  /\ ValueInv'
         /\ \E x \in Found(k, {t}) :
              /\ x = None => SameValues /\ reply' = Reply("del", k, None, "NOT_FOUND")
              /\ x # None => /\ \A q, v : Has(q, v)' <=> Has(q, v) /\ q # k
                            /\ reply' = Reply("del", k, None, None)
<1> USE DEF BaseInv, MarkInv, SerialInv
<1>1. pc = "ready" /\ pc' = "ready"
  BY DEF Del
<1>2. AllWhole /\ Agree /\ NoCopies /\ Once
  BY <1>1 DEF ValueInv, ValuePhases, UniqueInv, UniquePhases
<1>3. PICK x \in Found(k, {t}) :
        IF x = None
          THEN reply' = Reply("del", k, None, "NOT_FOUND") /\ UNCHANGED <<flash, ram>>
          ELSE EraseItem(Place(x)) /\ reply' = Reply("del", k, None, None)
  BY DEF Del
<1>4. CASE x = None
  <2>1. ValueInv' /\ SameValues
    BY <1>1, <1>2, <1>3, <1>4, NothingHeld, SameHeldInv
  <2> QED BY <1>3, <1>4, <2>1
<1>5. CASE x # None
  <2>1. EraseItem(Place(x)) /\ reply' = Reply("del", k, None, None)
    BY <1>3, <1>5
  <2>2. PICK s \in Sectors, j \in Nat :
          /\ Place(x).sec = s /\ Place(x).at = flash[s].items[j].at
          /\ j \in InUse(s) /\ Whole(s, j) /\ KeyOf(s, j) = k
    BY <1>1, <1>2, <1>5, LookupKnown
  <2>3. flash' = DropAt(flash, s, flash[s].items[j].at)
    BY <2>1, <2>2 DEF EraseItem
  <2>4. LosesOnly(s, {j})
    BY <2>2, <2>3, DropHeld
  <2>5. AllWhole' /\ Agree'
    BY <1>2, <2>4, LostShrinks, ShrinksKeeps
  <2>6. \A u \in Sectors, i \in Nat :
          /\ Whole(u, i)' <=> Whole(u, i) /\ ~(u = s /\ i = j)
          /\ Whole(u, i)' => KeyOf(u, i)' = KeyOf(u, i) /\ ValueOf(u, i)' = ValueOf(u, i)
    BY <2>4 DEF LosesOnly, Whole, KeyOf, ValueOf
  <2>7. \A u \in Sectors, i \in Nat : Whole(u, i) /\ KeyOf(u, i) = k => u = s /\ i = j
    BY <1>2, <2>2 DEF NoCopies, Once, Twins, Whole
  <2>8. \A u \in Sectors, i \in Nat : Whole(u, i)' <=> Whole(u, i) /\ KeyOf(u, i) # k
    BY <2>2, <2>6, <2>7
  <2>9. ASSUME NEW q, NEW v PROVE Has(q, v)' <=> Has(q, v) /\ q # k
    BY <2>6, <2>8 DEF Has
  <2>10. ValueInv'
    BY <1>1, <2>5 DEF ValueInv, ValuePhases
  <2> QED BY <1>5, <2>1, <2>9, <2>10
<1> QED BY <1>4, <1>5

\* The other steps of a call keep the values.
LEMMA CallValues ==
  ASSUME ~Overwrite, BaseInv, BaseInv', UniqueInv, PlainInv, PlainInv', ValueInv,
         \/ PutInit \/ PutFull \/ DropOld \/ TakeIdle \/ NoSpace
         \/ \E k \in Keys, v \in Values : Set(k, v)
         \/ \E k \in Keys, t \in Types : Get(k, t)
  PROVE  ValueInv' /\ SameValues
<1> USE DEF BaseInv, MarkInv, SerialInv
<1>1. /\ pc \in {"ready", "put", "drop", "request"}
      /\ pc' \in {"ready", "put", "drop", "request"}
  BY DEF PutInit, PutFull, DropOld, TakeIdle, NoSpace, Return, Set, Get
<1>2. AllWhole
  BY <1>1 DEF ValueInv, ValuePhases
<1>3. SameHeld
  <2>1. CASE PutInit
    <3>1. pc = "put" /\ ram[Current].state = "uninit" /\ InitSector(Current)
      BY <2>1 DEF PutInit
    <3>2. Current \in Unwritten /\ Current \in Sectors
      BY <3>1, CurrentType DEF SerialFacts, HealthKnown, Unwritten, Healthy, Good
    <3>3. Bare(Current)
      BY <3>1, <3>2 DEF ReserveInv, BareFacts
    <3> QED BY <3>1, <3>2, <3>3, HeaderHeld
  <2>2. CASE TakeIdle
    BY <1>1, <2>2, ActivateHeld DEF TakeIdle
  <2>3. CASE DropOld
    BY <2>3, NothingHeld DEF DropOld, PlainInv
  <2>4. CASE PutFull \/ NoSpace
    BY <2>4, NothingHeld DEF PutFull, NoSpace
  <2>5. CASE \/ \E k \in Keys, v \in Values : Set(k, v)
             \/ \E k \in Keys, t \in Types : Get(k, t)
    BY <2>5, NothingHeld DEF Set, Get
  <2> QED BY <2>1, <2>2, <2>3, <2>4, <2>5
<1> QED BY <1>1, <1>2, <1>3, SameHeldInv

\* A copy starts in a sector without items, which is then the only one it fills.
LEMMA CopyBegins ==
  ASSUME BaseInv, ValueInv, GcInit \/ GcMark
  PROVE  ValueInv' /\ SameValues
<1> USE DEF BaseInv, MarkInv, SerialInv
<1>1. /\ pc \in {"gc_init", "gc_mark"} /\ pc' \in {"gc_mark", "gc_copy"} /\ gc' = gc
      /\ gc.src \in Sectors /\ gc.dst \in Sectors /\ gc.next = 1 /\ Bare(gc.dst)
  BY DEF GcInit, GcMark, ReserveInv, ReservePhases, PackInv, PackPhases, WeakTypes
<1>2. PICK d \in Sectors, s \in Sectors : d = gc.dst /\ s = gc.src /\ Bare(d)
  BY <1>1
<1>3. SameHeld /\ flash'[d].items = <<>>
  <2>1. CASE GcInit
    <3>1. InitSector(d) \/ UNCHANGED flash
      BY <1>2, <2>1 DEF GcInit
    <3>2. CASE InitSector(d)
      <4>1. flash' = [flash EXCEPT ![d].state = "using", ![d].serial = ram[d].serial]
        BY <3>2 DEF InitSector, WriteHeader
      <4>2. flash'[d].items = flash[d].items
        BY <4>1 DEF WeakTypes, FlashSector
      <4> QED BY <1>2, <3>2, <4>2, HeaderHeld DEF Bare
    <3>3. CASE UNCHANGED flash
      BY <1>2, <3>3, NothingHeld DEF Bare
    <3> QED BY <3>1, <3>2, <3>3
  <2>2. CASE GcMark
    <3>1. flash' = SetState(flash, s, "deleting") /\ pc = "gc_mark"
      BY <1>2, <2>2 DEF GcMark
    <3>2. s \in Healthy
      BY <1>2, <3>1 DEF ListInv, GcRunning, SerialPhases, Unwritten
    <3>3. flash'[d].items = flash[d].items
      <4>1. flash' = [flash EXCEPT ![s].state = "deleting"]
        BY <3>1 DEF SetState
      <4> QED BY <4>1 DEF WeakTypes, FlashSector
    <3> QED BY <1>2, <3>1, <3>2, <3>3, MarkHeld DEF Bare
  <2> QED BY <2>1, <2>2
<1>4. CopiedTo(gc.src, gc.dst, gc.next)'
  <2>1. \A i \in Nat \ {0} : ~(i < 1)
    OBVIOUS
  <2> QED BY <1>1, <1>2, <1>3, <2>1 DEF CopiedTo, Bare
<1>5. AllWhole
  BY <1>1 DEF ValueInv, ValuePhases
<1> QED BY <1>1, <1>3, <1>4, <1>5, SameHeldInv

LEMMA CopyValues ==
  ASSUME BaseInv, BaseInv', UniqueInv, PlainInv, ValueInv, GcCopy
  PROVE  ValueInv' /\ SameValues
<1> USE DEF BaseInv, MarkInv, SerialInv
<1>1. pc = "gc_copy" /\ pc' = pc /\ GcMore
  BY DEF GcCopy
<1>2. PICK s \in Sectors, d \in Sectors, n \in Nat :
        /\ s = gc.src /\ d = gc.dst /\ n = gc.next /\ s # d
        /\ s \in Healthy /\ d \in Healthy
  BY <1>1, CopyKnown
<1>3. /\ gc'.src = s /\ gc'.dst = d /\ gc'.next = n + 1 /\ n # 0
      /\ GcItem = flash[s].items[n]
  <2>1. gc \in [src : Sectors, dst : Sectors, next : Nat \ {0}, to : Nat]
    BY DEF WeakTypes
  <2>2. \/ gc' = [gc EXCEPT !.next = gc.next + 1, !.to = gc.to + GcItem.span]
        \/ gc' = [gc EXCEPT !.next = gc.next + 1]
    BY DEF GcCopy
  <2> QED BY <1>2, <2>1, <2>2 DEF GcItem
<1>4. AllWhole /\ Agree /\ CopiedTo(s, d, n)
  BY <1>1, <1>2 DEF ValueInv, ValuePhases
<1>5. n + 1 # 1 /\ \A i \in Nat : i < n + 1 => i < n \/ i = n
  BY <1>3
<1>6. CASE GcItem.state # "using"
  <2>1. UNCHANGED flash
    BY <1>6 DEF GcCopy
  <2>2. SameHeld
    BY <2>1, NothingHeld
  <2>3. ~Holding(s, n)
    BY <1>3, <1>6 DEF Holding
  <2>4. \A i, j \in Nat : Twins(s, i, d, j) => Twins(s, i, d, j)'
    BY <2>1, <2>2 DEF SameHeld, Twins, KeyOf
  <2>5. CopiedTo(s, d, n + 1)'
    BY <1>4, <1>5, <2>2, <2>3, <2>4 DEF CopiedTo, SameHeld
  <2>6. CopiedTo(gc.src, gc.dst, gc.next)'
    BY <1>3, <2>5 DEF CopiedTo, Twins, Holding, KeyOf, Bare
  <2> QED BY <1>1, <1>4, <2>2, <2>6, SameHeldInv
<1>7. CASE GcItem.state = "using"
  <2>1. flash' = Program(flash, d, [GcItem EXCEPT !.at = gc.to])
    BY <1>2, <1>7 DEF GcCopy
  <2>2. PICK i \in AnyItem : i = [GcItem EXCEPT !.at = gc.to]
    BY <1>1, GcItemType
  <2>3. GcItem \in AnyItem /\ GcItem.crcItem
    BY <1>1, <1>7, CopyPlace
  <2>4. Holding(s, n)
    <3>1. flash[s].items \in Seq(AnyItem)
      BY DEF WeakTypes, FlashSector
    <3>2. n \in DOMAIN flash[s].items
      <4>1. PICK z \in Nat : z = Len(flash[s].items) /\ DOMAIN flash[s].items = 1..z
        BY <3>1, LenProperties
      <4>2. n <= z
        BY <1>1, <1>2, <4>1 DEF GcMore
      <4> QED BY <1>3, <4>1, <4>2
    <3> QED BY <1>2, <1>3, <1>7, <2>3, <3>2 DEF Holding
  <2>5. Whole(s, n)
    BY <1>4, <2>4 DEF AllWhole
  <2>6. /\ i.state = "using" /\ i.crcItem /\ i.crcData
        /\ i.key = KeyOf(s, n) /\ i.val = ValueOf(s, n)
    BY <1>3, <1>7, <2>2, <2>3, <2>5 DEF AnyItem, Whole, KeyOf, ValueOf
  <2>7. Appended(d, i, i)
    <3>1. /\ flash \in [Sectors -> FlashSector] /\ flash[d].stray = {}
          /\ flash' = Program(flash, d, i)
      BY <2>1, <2>2 DEF WeakTypes, PlainInv
    <3>2. /\ flash'[d].items = Append(flash[d].items, i)
          /\ \A t \in Sectors \ {d} : flash'[t] = flash[t]
      BY <3>1, PlainProgram
    <3> QED BY <3>2 DEF Appended
  <2>8. Healthy' = Healthy
    <3>1. SameStates
      BY ItemSteps
    <3> QED BY <3>1 DEF SameStates, SameHeads, Healthy, Good
  <2>9. PICK x \in Nat : GainsItem(d, x, i)
    BY <1>2, <2>7, <2>8, AppendHeld
  <2>10. ASSUME NEW t \in Sectors, NEW j \in Nat, Whole(t, j), KeyOf(t, j) = i.key
         PROVE  ValueOf(t, j) = i.val
    BY <1>4, <2>5, <2>6, <2>10 DEF Agree, Doubles
  <2>11. AllWhole' /\ Agree' /\ \A k, v : Has(k, v)' <=> Has(k, v) \/ (k = i.key /\ v = i.val)
    BY <1>4, <2>6, <2>9, <2>10, WholeGain
  <2>12. Has(i.key, i.val)
    BY <2>5, <2>6 DEF Has
  <2>13. SameValues
    BY <2>11, <2>12 DEF SameValues
  <2>14. /\ flash'[d].items[x] = i /\ Holding(d, x)'
         /\ \A t \in Sectors, j \in Nat :
              /\ Holding(t, j) => Holding(t, j)' /\ flash'[t].items[j] = flash[t].items[j]
              /\ t # d /\ Holding(t, j)' => Holding(t, j)
    BY <2>6, <2>9 DEF GainsItem
  <2>15. Twins(s, n, d, x)'
    BY <2>4, <2>6, <2>14 DEF Twins, KeyOf
  <2>16. \A m, j \in Nat : Twins(s, m, d, j) => Twins(s, m, d, j)'
    BY <2>14 DEF Twins, KeyOf
  <2>17. CopiedTo(s, d, n + 1)'
    BY <1>2, <1>4, <1>5, <2>14, <2>15, <2>16 DEF CopiedTo
  <2>18. CopiedTo(gc.src, gc.dst, gc.next)'
    BY <1>3, <2>17 DEF CopiedTo, Twins, Holding, KeyOf, Bare
  <2> QED BY <1>1, <2>11, <2>13, <2>18 DEF ValueInv, ValuePhases
<1> QED BY <1>6, <1>7

\* The source is erased when each of its items has its copy.
LEMMA SourceErased ==
  ASSUME BaseInv, UniqueInv, ValueInv, GcErase
  PROVE  ValueInv' /\ SameValues
<1> USE DEF BaseInv, MarkInv, SerialInv
<1>1. pc = "gc_copy" /\ pc' \in {"settle", "put"} /\ ~GcMore /\ flash' = EraseSector(flash, gc.src)
  BY DEF GcErase
<1>2. PICK s \in Sectors, d \in Sectors, n \in Nat :
        s = gc.src /\ d = gc.dst /\ n = gc.next /\ s # d
  BY <1>1, CopyKnown
<1>3. AllWhole /\ Agree /\ CopiedTo(s, d, n)
  BY <1>1, <1>2 DEF ValueInv, ValuePhases
<1>4. LosesOnly(s, Nat)
  BY <1>1, <1>2, EraseHeld
<1>5. ASSUME NEW j \in Nat, Whole(s, j)
      PROVE  \E t \in Sectors \ {s}, i \in Nat : Doubles(s, j, t, i)
  <2>1. Holding(s, j)
    BY <1>5 DEF Whole
  <2>2. j # 0 /\ j < n
    <3>1. flash[s].items \in Seq(AnyItem)
      BY DEF WeakTypes, FlashSector
    <3>2. PICK z \in Nat : z = Len(flash[s].items) /\ DOMAIN flash[s].items = 1..z
      BY <3>1, LenProperties
    <3>3. ~(n <= z)
      BY <1>1, <1>2, <3>2 DEF GcMore
    <3>4. j \in 1..z
      BY <2>1, <3>2 DEF Holding
    <3> QED BY <3>3, <3>4
  <2>3. PICK i \in Nat : Twins(s, j, d, i)
    BY <1>3, <2>1, <2>2 DEF CopiedTo
  <2>4. Doubles(s, j, d, i)
    BY <1>3, <1>5, <2>3 DEF Doubles, Twins, AllWhole
  <2> QED BY <1>2, <2>4
<1>6. SameValues
  BY <1>3, <1>4, <1>5, LostValues
<1>7. AllWhole' /\ Agree'
  BY <1>3, <1>4, LostShrinks, ShrinksKeeps
<1> QED BY <1>1, <1>6, <1>7 DEF ValueInv, ValuePhases

LEMMA GcValues ==
  ASSUME BaseInv, BaseInv', UniqueInv, PlainInv, ValueInv, Gc
  PROVE  ValueInv' /\ SameValues
<1>1. CASE GcStart
  <2>1. pc = "request" /\ pc' = "gc_init" /\ Activate
    BY <1>1 DEF GcStart
  <2>2. SameHeld
    BY <2>1, ActivateHeld
  <2>3. AllWhole
    BY <2>1 DEF ValueInv, ValuePhases
  <2> QED BY <2>1, <2>2, <2>3, SameHeldInv
<1> QED BY <1>1, CopyBegins, CopyValues, SourceErased DEF Gc

-------------------------------------------------------------------------------
(* Power failures.  A mount that rolls back a sector with its header leaves *)
(* a spare sector with the highest serial number, and then the last item    *)
(* written is not in the last sector.  Without a power failure between the  *)
(* header of a copy and the mark on its source there is no such sector.     *)

SpareFree ==
  /\ pc # "off" => Spare = {}
  /\ pc # "gc_mark" => (Healthy = Sectors => Marked # {})
  /\ pc = "gc_init" => gc.dst \notin Healthy

LEMMA IdleUnwritten ==
  ASSUME ListInv, pc # "off", Spare = {}, idle # <<>>
  PROVE  Head(idle) \in Sectors /\ Head(idle) \notin Healthy /\ Healthy # Sectors
<1>1. idle \in Seq(Sectors) /\ IsInjective(idle)
  BY DEF ListInv, Lists, ListsPartition
<1>2. Head(idle) \in Sectors /\ Head(idle) \in ToSet(idle)
  BY <1>1, TailOnly
<1> QED BY <1>2 DEF Spare

\* Activating, or keeping the lists, adds no sector to the idle list.
LEMMA KeptSpareFree ==
  ASSUME ListInv, pc # "off", Spare = {}, Healthy' = Healthy, ToSet(idle') \subseteq ToSet(idle)
  PROVE  Spare' = {}
BY DEF Spare

LEMMA SettleSpareFree ==
  ASSUME BaseInv, SpareFree, Settle PROVE Spare' = {}
<1> USE DEF BaseInv, MarkInv, SerialInv
<1>1. pc = "settle" /\ flash' = flash /\ Spare = {} /\ Marked = {} /\ Healthy # Sectors
  BY DEF Settle, SpareFree, MarksInPlace
<1>2. Healthy' = Healthy
  BY <1>1 DEF Healthy
<1>3. ASSUME idle = <<>> PROVE FALSE
  <2>1. /\ active \in Seq(Sectors) /\ active # <<>> /\ IsInjective(active)
    BY <1>1, CurrentType DEF ListInv, ListsPartition, Lists
  <2>2. ToSet(active) = Sectors
    BY <1>1, <1>3, EmptyIsDistinct DEF ListInv, ListsPartition
  <2>3. 0 \in Sectors /\ 1 \in Sectors
    BY SizesAssumption DEF Sectors
  <2>4. \A s \in Unwritten : s = Last(active)
    BY <1>1 DEF SerialFacts, UnwrittenLast
  <2>5. Unwritten # ToSet(active)
    BY <2>2, <2>3, <2>4
  <2>6. Unwritten = {}
    BY <1>1, <2>5 DEF SerialPhases
  <2> QED BY <1>1, <2>2, <2>6 DEF Unwritten, Healthy
<1> QED BY <1>1, <1>2, <1>3 DEF Settle, Spare

\* A header is written to an active sector only, and while one is idle.
LEMMA SpareFreeStep ==
  ASSUME BaseInv, BaseInv', SpareFree, "gc_mark" \notin LossAt \/ ~PowerLoss, [Next]_vars
  PROVE  SpareFree'
<1> USE DEF BaseInv, MarkInv, SerialInv
<1>1. ASSUME SameHeaders PROVE Healthy' = Sectors => Healthy = Sectors /\ Marked' = Marked
  BY <1>1 DEF SameHeaders
<1>2. CASE UNCHANGED vars
  <2>1. UNCHANGED <<flash, idle, pc, gc>>
    BY <1>2 DEF vars, lists
  <2> QED BY <2>1 DEF SpareFree, Spare, Healthy, Marked
<1>3. CASE PowerLoss
  <2>1. HeadsKept /\ pc' = "off"
    BY <1>3, TornHeads DEF PowerLoss
  <2>2. pc # "gc_mark"
    <3>1. ASSUME pc = "gc_mark" PROVE FALSE
      <4>1. op.key # None
        BY <3>1, SetOpKey DEF WeakTypes
      <4>2. Point = "gc_mark" /\ InCall
        BY <3>1, <4>1 DEF Point, InCall
      <4> QED BY <1>3, <4>2 DEF PowerLoss
    <3> QED BY <3>1
  <2>3. ASSUME Healthy' = Sectors PROVE Healthy = Sectors /\ Marked' = Marked
    <3>1. \A s \in Sectors : flash'[s].state \in {flash[s].state, "crash"}
      BY <2>1 DEF HeadsKept
    <3>2. \A s \in Sectors : flash'[s].state \in {"using", "deleting"}
      BY <2>3 DEF Healthy, Good
    <3>3. \A s \in Sectors : flash'[s].state = flash[s].state
      BY <3>1, <3>2
    <3> QED BY <3>2, <3>3 DEF Healthy, Marked, Good
  <2> QED BY <2>1, <2>2, <2>3 DEF SpareFree
<1>4. CASE pc' # "off" /\ Spare' = {} /\ idle' # <<>> /\ pc' # "gc_init"
  <2>1. idle' \in Seq(Sectors) /\ IsInjective(idle')
    BY <1>4 DEF ListInv, Lists, ListsPartition
  <2>2. Head(idle') \in Sectors /\ Head(idle') \in ToSet(idle')
    BY <1>4, <2>1, TailOnly
  <2>3. Healthy' # Sectors
    BY <1>4, <2>2 DEF Spare
  <2> QED BY <1>4, <2>3 DEF SpareFree
<1>5. CASE Load \/ LoadFirst \/ FixWrite
  <2>1. pc' \in {"fix_write", "fix_gc"} /\ pc # "gc_mark"
    BY <1>5 DEF Load, LoadFirst, FixWrite
  <2>2. Healthy' = Sectors => Healthy = Sectors /\ Marked' = Marked
    <3>1. CASE Load \/ LoadFirst
      BY <1>1, <3>1, LoadHeld, ActivateHeld DEF LoadFirst
    <3>2. CASE FixWrite
      <4>1. SameStates
        BY <3>2, ItemSteps
      <4> QED BY <4>1 DEF SameStates, SameHeads, Healthy, Marked, Good
    <3> QED BY <1>5, <3>1, <3>2
  <2>3. Spare' = {}
    BY <2>1 DEF SerialPhases
  <2> QED BY <2>1, <2>2, <2>3 DEF SpareFree
<1>6. CASE FixGcErase
  <2>1. pc' \in {"settle", "fix_take"} /\ pc = "fix_gc"
    BY <1>6 DEF FixGcErase
  <2>2. Healthy' = Sectors => Healthy = Sectors /\ Marked' = Marked
    <3>1. CASE UNCHANGED flash
      BY <3>1 DEF Healthy, Marked
    <3>2. CASE flash' = EraseSector(flash, Current)
      <4>1. flash'[Current] = Blank /\ Current \in Sectors
        BY <2>1, <3>2, CurrentType DEF WeakTypes, EraseSector
      <4>2. Current \notin Healthy'
        BY <4>1 DEF Healthy, Good, Blank
      <4> QED BY <4>1, <4>2
    <3> QED BY <1>6, <3>1, <3>2 DEF FixGcErase
  <2>3. Spare' = {}
    BY <2>1 DEF SerialPhases
  <2> QED BY <2>1, <2>2, <2>3 DEF SpareFree
<1>7. CASE FixGcTake \/ GcStart
  <2>1. /\ pc \in {"fix_take", "request"} /\ pc' = "gc_init" /\ Activate
        /\ gc'.dst = Head(idle) /\ Spare = {} /\ idle # <<>>
    BY <1>7 DEF FixGcTake, GcStart, SpareFree, NoGc, Activate
  <2>2. SameHeaders
    BY <2>1, ActivateHeld
  <2>3. Head(idle) \notin Healthy'
    BY <2>1, <2>2, IdleUnwritten DEF SameHeaders
  <2>4. Spare' = {}
    BY <2>1 DEF SerialPhases
  <2> QED BY <1>1, <2>1, <2>2, <2>3, <2>4 DEF SpareFree
<1>8. CASE GcInit \/ GcMark \/ GcCopy
  <2>1. pc' \in {"gc_mark", "gc_copy"}
    BY <1>8 DEF GcInit, GcMark, GcCopy
  <2>2. pc' # "gc_mark" => Marked' # {}
    BY <2>1 DEF MarksInPlace
  <2>3. Spare' = {}
    BY <2>1 DEF SerialPhases
  <2> QED BY <2>1, <2>2, <2>3 DEF SpareFree
<1>9. CASE GcErase
  <2>1. /\ pc = "gc_copy" /\ pc' \in {"settle", "put"} /\ flash' = EraseSector(flash, gc.src)
        /\ idle' = Append(idle, gc.src) /\ Spare = {}
    BY <1>9 DEF GcErase, SpareFree
  <2>2. PICK s \in Sectors : s = gc.src
    BY DEF WeakTypes
  <2>3. flash'[s] = Blank /\ \A t \in Sectors \ {s} : flash'[t] = flash[t]
    BY <2>1, <2>2 DEF WeakTypes, EraseSector
  <2>4. s \notin Healthy' /\ Healthy' \subseteq Healthy
    BY <2>3 DEF Healthy, Good, Blank
  <2>5. ToSet(idle') = ToSet(idle) \cup {s}
    <3>1. idle \in Seq(Sectors) /\ IsInjective(idle)
      BY <2>1 DEF ListInv, Lists, ListsPartition
    <3>2. s \notin ToSet(idle)
      BY <2>1, <2>2 DEF ListInv, ListsPartition, GcRunning
    <3> QED BY <2>1, <2>2, <3>1, <3>2, AppendNew
  <2>6. Spare' = {}
    BY <2>1, <2>4, <2>5 DEF Spare
  <2> QED BY <2>1, <2>2, <2>4, <2>6 DEF SpareFree
<1>10. CASE Settle
  <2>1. pc' = "ready"
    BY <1>10 DEF Settle
  <2>2. idle' # <<>>
    BY <2>1 DEF ReserveInv, ReservePhases
  <2> QED BY <1>4, <1>10, <2>1, <2>2, SettleSpareFree
<1>11. CASE Write \/ (\E k \in Keys, v \in Values : Set(k, v))
            \/ \E k \in Keys, t \in Types : Get(k, t) \/ Del(k, t)
  <2>1. /\ pc \in {"ready", "put", "drop", "request"} /\ pc' \in {"ready", "put", "drop", "request"}
    BY <1>11 DEF Write, PutInit, PutItem, PutFull, DropOld, TakeIdle, NoSpace, Return, Set, Get, Del
  <2>2. idle' # <<>> /\ Spare = {}
    BY <2>1 DEF ReserveInv, ReservePhases, SpareFree
  <2>3. CASE PutInit
    <3>1. PICK c \in Sectors : c = Current /\ c \in ToSet(active) /\ InitSector(c)
      BY <2>3, CurrentType DEF PutInit
    <3>2. flash' = [flash EXCEPT ![c].state = "using", ![c].serial = ram[c].serial]
      BY <3>1 DEF InitSector, WriteHeader
    <3>3. \A t \in Sectors \ {c} : flash'[t] = flash[t]
      BY <3>2 DEF WeakTypes
    <3>4. \A t \in Sectors \ {c} : t \in Healthy' <=> t \in Healthy
      BY <3>3 DEF Healthy
    <3>5. idle' = idle /\ c \notin ToSet(idle)
      BY <2>1, <2>3, <3>1 DEF PutInit, lists, ListInv, ListsPartition
    <3>6. Spare' = {}
      BY <2>2, <3>4, <3>5 DEF Spare, Healthy
    <3> QED BY <1>4, <2>1, <2>2, <3>6
  <2>4. CASE TakeIdle
    <3>1. SameHeaders /\ idle' = Tail(idle) /\ idle # <<>>
      BY <2>1, <2>4, ActivateHeld DEF TakeIdle, Activate
    <3>2. ToSet(Tail(idle)) \subseteq ToSet(idle)
      BY <2>1, <3>1, TailOnly DEF ListInv, Lists, ListsPartition
    <3>3. Spare' = {}
      BY <2>1, <2>2, <3>1, <3>2, KeptSpareFree DEF SameHeaders
    <3> QED BY <1>4, <2>1, <2>2, <3>3
  <2>5. CASE PutItem \/ DropOld \/ (\E k \in Keys, t \in Types : Del(k, t))
    <3>1. SameStates /\ idle' = idle
      BY <2>5, ItemSteps DEF PutItem, DropOld, Del, lists
    <3>2. Healthy' = Healthy
      BY <3>1 DEF SameStates, SameHeads, Healthy, Good
    <3>3. Spare' = {}
      BY <2>2, <3>1, <3>2 DEF Spare
    <3> QED BY <1>4, <2>1, <2>2, <3>3
  <2>6. CASE PutFull \/ NoSpace \/ (\E k \in Keys, v \in Values : Set(k, v))
             \/ \E k \in Keys, t \in Types : Get(k, t)
    <3>1. UNCHANGED <<flash, idle>>
      BY <2>6 DEF PutFull, NoSpace, Set, Get, lists
    <3>2. Spare' = {}
      BY <2>2, <3>1 DEF Spare, Healthy
    <3> QED BY <1>4, <2>1, <2>2, <3>2
  <2> QED BY <1>11, <2>3, <2>4, <2>5, <2>6 DEF Write
<1> QED BY <1>2, <1>3, <1>5, <1>6, <1>7, <1>8, <1>9, <1>10, <1>11 DEF Next, Mount, Gc

LEMMA InitSpareFree == Init => SpareFree
<1> SUFFICES ASSUME Init PROVE SpareFree
  OBVIOUS
<1>1. Healthy = {} /\ 0 \in Sectors
  BY SectorsFinite DEF Init, Healthy, Good, Blank
<1> QED BY <1>1 DEF Init, SpareFree

\* The power failures the recovery puts right.  It does not those in a copy, in
\* the erase of its source and at the other points of a mount, and of two, the
\* first before the mark of a source, it does not the second if that cuts short
\* the data of an item.
Recoverable ==
  /\ LossAt \cap {"gc_copy", "gc_erase"} = {}
  /\ MountLossAt \subseteq {"fix_write", "gc_marked", "settle"}
  /\ "gc_mark" \notin LossAt \/ "data" \notin Tears \/ MaxLosses <= 1

Places == {"off", "fix_write", "fix_gc", "fix_take", "settle", "ready", "put", "drop",
           "request", "gc_init", "gc_mark", "gc_copy"}

LEMMA PlaceStep ==
  ASSUME pc \in Places, [Next]_vars PROVE pc' \in Places
<1>1. CASE Mount \/ Write \/ Gc
  BY <1>1 DEF Mount, Load, LoadFirst, FixWrite, FixGcErase, FixGcTake, Settle, Write, PutInit,
              PutItem, PutFull, DropOld, TakeIdle, NoSpace, Return, Gc, GcStart, GcInit, GcMark,
              GcCopy, GcErase, Places
<1>2. CASE \/ \E k \in Keys, v \in Values : Set(k, v)
           \/ \E k \in Keys, t \in Types : Get(k, t) \/ Del(k, t)
  BY <1>2 DEF Set, Get, Del, Places
<1>3. CASE PowerLoss \/ UNCHANGED vars
  BY <1>3 DEF PowerLoss, vars, Places
<1> QED BY <1>1, <1>2, <1>3 DEF Next

LEMMA LossPoints ==
  ASSUME BaseInv, pc \in Places, Recoverable, PowerLoss
  PROVE  /\ pc \in {"ready", "put", "drop", "request", "gc_init", "gc_mark", "gc_copy",
                    "fix_write", "settle"}
         /\ pc = "gc_copy" => gc.next = 1
         /\ pc = "gc_init" => Marked = {}
<1> USE DEF BaseInv, MarkInv
<1>1. ASSUME pc = "gc_copy", gc.next # 1 PROVE FALSE
  <2>1. Point \in {"gc_copy", "gc_erase"}
    BY <1>1 DEF Point
  <2> QED BY <2>1 DEF PowerLoss, Recoverable
<1>2. CASE pc = "gc_copy"
  BY <1>1, <1>2
<1>3. CASE pc # "gc_copy" /\ ~InCall
  <2>1. Point = pc
    BY <1>3 DEF Point
  <2>2. Point \in MountLossAt
    BY <1>3 DEF PowerLoss
  <2>3. pc \in {"fix_write", "gc_marked", "settle"}
    BY <2>1, <2>2 DEF Recoverable
  <2> QED BY <1>3, <2>3 DEF Places
<1>4. CASE pc # "gc_copy" /\ InCall
  <2>1. pc = "ready" \/ op.key # None
    BY <1>4 DEF InCall
  <2>2. pc \notin {"off", "fix_write", "fix_gc", "fix_take", "settle"}
    BY <2>1 DEF WeakTypes, NoOp
  <2>3. pc = "gc_init" => Marked = {}
    BY <2>1 DEF MarksInPlace
  <2> QED BY <1>4, <2>2, <2>3 DEF Places
<1> QED BY <1>2, <1>3, <1>4

\* When the power may fail, no value is in two sectors and no copy has started.
LEMMA LossBefore ==
  ASSUME BaseInv, pc \in Places, UniqueInv, ValueInv, Recoverable, PowerLoss
  PROVE  /\ NoDoubles /\ CopyUnstarted /\ LastBroken
         /\ pc # "fix_write" => AllWhole
<1> USE DEF BaseInv, MarkInv, SerialInv
<1>1. pc # "off" /\ (pc # "fix_write" => AllWhole)
  BY LossPoints DEF ValueInv, ValuePhases
<1>2. LastBroken
  BY <1>1 DEF ValueInv, ValuePhases, AllWhole, LastBroken
<1>3. CASE pc = "fix_write"
  BY <1>1, <1>2, <1>3 DEF ValueInv, ValuePhases
<1>4. CASE pc \notin {"fix_write", "gc_copy"}
  <2>1. NoCopies /\ Marked = {}
    BY <1>4, LossPoints DEF UniqueInv, UniquePhases, MarksInPlace
  <2> QED BY <1>1, <1>2, <2>1 DEF NoCopies, NoDoubles, Doubles, Twins, Whole, CopyUnstarted
<1>5. CASE pc = "gc_copy"
  <2>1. PICK s \in Sectors, d \in Sectors :
          s = gc.src /\ d = gc.dst /\ Marked = {s} /\ d \in Healthy /\ Highest(d)
    BY <1>5, CopyKnown
  <2>2. gc.next = 1
    BY <1>5, LossPoints
  <2>3. Bare(d)
    BY <1>5, <2>1, <2>2 DEF ValueInv, ValuePhases, CopiedTo
  <2>4. \A j \in Nat : ~Holding(d, j)
    <3>1. DOMAIN <<>> = {}
      BY EmptySeq, LenProperties
    <3> QED BY <2>3, <3>1 DEF Holding, Bare
  <2>5. NoDoubles
    <3> SUFFICES ASSUME NEW t \in Sectors, NEW u \in Sectors, NEW i \in Nat, NEW j \in Nat,
                        Doubles(t, i, u, j)
                 PROVE  t = u
      BY DEF NoDoubles
    <3>1. Twins(t, i, u, j)
      BY DEF Doubles, Twins, Whole
    <3>2. t = u \/ u = gc.dst \/ t = gc.dst
      BY <1>5, <3>1 DEF UniqueInv, UniquePhases, Copied
    <3> QED BY <2>1, <2>4, <3>1, <3>2 DEF Twins
  <2>6. CopyUnstarted
    <3> SUFFICES ASSUME NEW t \in Healthy, NEW j \in Nat, Highest(t) PROVE ~Whole(t, j)
      BY DEF CopyUnstarted
    <3>1. PICK a \in Nat, b \in Nat : a = flash[t].serial /\ b = flash[d].serial
      BY <2>1 DEF Healthy, WeakTypes, FlashSector
    <3>2. a <= b /\ b <= a
      BY <2>1, <3>1 DEF Highest
    <3>3. t = d
      BY <1>5, <2>1, <3>1, <3>2 DEF SerialsDistinct
    <3> QED BY <2>4, <3>3 DEF Whole
  <2> QED BY <1>1, <1>2, <2>5, <2>6
<1> QED BY <1>1, <1>2, <1>3, <1>4, <1>5

\* A sector whose header or erase is cut short holds nothing, and was the only
\* one marked.
LEMMA LossCases ==
  ASSUME BaseInv, pc \in Places, Recoverable, PowerLoss
  PROVE  \/ flash' = flash
         \/ \E s \in Sectors : /\ flash' = [flash EXCEPT ![s].state = "crash"]
                               /\ Marked \subseteq {s} /\ \A j \in Nat : ~Holding(s, j)
                               /\ pc # "fix_write"
         \/ PutTorn \/ CopyTorn
<1> USE DEF BaseInv, MarkInv, SerialInv
<1>1. SUFFICES ASSUME flash' \in TornFlash, ~PutTorn, ~CopyTorn
               PROVE  \E s \in Sectors : /\ flash' = [flash EXCEPT ![s].state = "crash"]
                                         /\ Marked \subseteq {s} /\ \A j \in Nat : ~Holding(s, j)
                                         /\ pc # "fix_write"
  BY DEF PowerLoss
<1>2. pc # "fix_gc" /\ pc # "off"
  BY LossPoints
<1>3. \/ pc = "put" /\ ram[Current].state = "uninit" /\ flash' \in TornSector(Current)
      \/ pc = "gc_init" /\ ram[gc.dst].state = "uninit" /\ flash' \in TornSector(gc.dst)
      \/ pc = "gc_copy" /\ ~GcMore /\ flash' \in TornSector(gc.src)
  BY <1>1, <1>2, Zenon DEF TornFlash, PutTorn, CopyTorn
<1>4. \A s \in Sectors : ram[s].state = "uninit" => \A j \in Nat : ~Holding(s, j)
  BY <1>2 DEF SerialFacts, HealthKnown, Good, Healthy, Holding
<1>5. CASE pc = "put" /\ ram[Current].state = "uninit" /\ flash' \in TornSector(Current)
  <2>1. PICK c \in Sectors : c = Current
    BY <1>5, CurrentType
  <2>2. Marked = {}
    BY <1>5 DEF MarksInPlace
  <2> QED BY <1>4, <1>5, <2>1, <2>2 DEF TornSector, SetState
<1>6. CASE pc = "gc_init" /\ ram[gc.dst].state = "uninit" /\ flash' \in TornSector(gc.dst)
  <2>1. PICK d \in Sectors : d = gc.dst
    BY DEF WeakTypes
  <2>2. Marked = {}
    BY <1>6, LossPoints
  <2> QED BY <1>4, <1>6, <2>1, <2>2 DEF TornSector, SetState
<1>7. CASE pc = "gc_copy" /\ ~GcMore /\ flash' \in TornSector(gc.src)
  <2>1. PICK s \in Sectors : s = gc.src /\ Marked = {s}
    BY <1>7 DEF WeakTypes, MarksInPlace
  <2>2. flash[s].items \in Seq(AnyItem)
    BY DEF WeakTypes, FlashSector
  <2>3. PICK n \in Nat : n = Len(flash[s].items) /\ DOMAIN flash[s].items = 1..n
    BY <2>2, LenProperties
  <2>4. ~(1 <= n)
    BY <1>7, <2>1, <2>3, LossPoints DEF GcMore
  <2>5. \A j \in 1..n : FALSE
    BY <2>4
  <2>6. \A j \in Nat : ~Holding(s, j)
    BY <2>3, <2>5 DEF Holding
  <2> QED BY <1>7, <2>1, <2>6 DEF TornSector, SetState
<1> QED BY <1>3, <1>5, <1>6, <1>7

\* An item cut short adds no value, and is where the next mount looks for it,
\* or it is no item in use.
LEMMA TornValues ==
  ASSUME BaseInv, ValueInv, NoDoubles, CopyUnstarted, AllWhole, pc' = "off",
         NEW s \in Healthy, Highest(s) \/ "data" \notin Tears,
         NEW i \in AnyItem, flash' \in TornItem(s, i)
  PROVE  ValueInv' /\ SameValues
<1> USE DEF BaseInv, MarkInv
<1>1. s \in Sectors
  BY DEF Healthy
<1>2. SameHeads(flash', flash)
  <2>1. PICK how \in Tears : flash' = Program(flash, s, CutShort(i, how))
    BY DEF TornItem
  <2>2. CutShort(i, how) \in AnyItem
    BY CutType
  <2> QED BY <1>1, <2>1, <2>2, ProgramType DEF WeakTypes
<1>3. SameHeaders
  BY <1>2 DEF SameHeads, SameHeaders, Healthy, Marked, Good
<1>4. PICK l \in AnyItem : /\ Appended(s, i, l) /\ (~l.crcItem \/ ~l.crcData)
                           /\ "data" \notin Tears => ~l.crcItem
  BY <1>1, TornAppends
<1>5. PICK n \in Nat : GainsItem(s, n, l)
  BY <1>3, <1>4, AppendHeld DEF SameHeaders
<1>6. CASE "data" \notin Tears
  <2>1. SameHeld
    BY <1>4, <1>5, <1>6 DEF GainsItem, SameHeld
  <2>2. LastBroken
    BY DEF AllWhole, LastBroken
  <2>3. LastBroken' /\ CopyUnstarted'
    BY <1>3, <2>1, <2>2, SameHeldKeeps
  <2> QED BY <2>1, <2>3, SameHeldInv
<1>7. CASE Highest(s)
  <2>1. Highest(s)'
    BY <1>3, <1>7 DEF Highest, SameHeaders
  <2>2. /\ \A t \in Sectors, j \in Nat : Whole(t, j)' <=> Whole(t, j)
        /\ SameValues /\ NoDoubles' /\ Agree' /\ LastBroken'
    BY <1>1, <1>4, <1>5, <2>1, BrokenGain DEF ValueInv
  <2>3. CopyUnstarted'
    <3> SUFFICES ASSUME Marked' # {}, NEW t \in Healthy', NEW j \in Nat, t \notin Marked', Highest(t)'
                 PROVE  ~Whole(t, j)'
      BY DEF CopyUnstarted
    <3>1. t \in Sectors /\ t \in Healthy /\ t \notin Marked /\ Marked # {}
      BY <1>3 DEF SameHeaders, Healthy
    <3>2. Highest(t)
      BY <1>3, <3>1 DEF SameHeaders, Highest
    <3> QED BY <2>2, <3>1, <3>2 DEF CopyUnstarted
  <2> QED BY <2>2, <2>3 DEF ValueInv, ValuePhases
<1> QED BY <1>6, <1>7

\* Where data can be cut short, no sector has been rolled back with its header.
RollBackSafe ==
  losses \in Nat /\ ("data" \notin Tears \/ SpareFree \/ MaxLosses <= losses)

LEMMA RollBackStep ==
  ASSUME Recoverable, BaseInv, BaseInv', RollBackSafe, [Next]_vars PROVE RollBackSafe'
<1>1. CASE PowerLoss
  <2>1. losses' = losses + 1 /\ losses \in Nat /\ MaxLosses \in Nat /\ ~(MaxLosses <= losses)
    BY <1>1, BoundsAssumption DEF PowerLoss, RollBackSafe
  <2>2. losses' \in Nat /\ (MaxLosses <= 1 => MaxLosses <= losses')
    BY <2>1
  <2>3. "gc_mark" \notin LossAt /\ SpareFree => SpareFree'
    BY SpareFreeStep
  <2> QED BY <2>1, <2>2, <2>3 DEF RollBackSafe, Recoverable
<1>2. CASE ~PowerLoss
  <2>1. losses' = losses
    BY <1>2 DEF Next, Mount, Load, LoadFirst, FixWrite, FixGcErase, FixGcTake, Settle, Write,
                PutInit, PutItem, PutFull, DropOld, TakeIdle, NoSpace, Return, Gc, GcStart,
                GcInit, GcMark, GcCopy, GcErase, Set, Get, Del, bounds, vars
  <2>2. SpareFree => SpareFree'
    BY <1>2, SpareFreeStep
  <2> QED BY <2>1, <2>2 DEF RollBackSafe
<1> QED BY <1>1, <1>2

\* A power failure changes no value, whatever it cuts short.
LEMMA PowerLossValues ==
  ASSUME BaseInv, pc \in Places, UniqueInv, ValueInv, Recoverable,
         RollBackSafe, PowerLoss
  PROVE  ValueInv' /\ SameValues
<1> USE DEF BaseInv, MarkInv, SerialInv
<1>1. pc' = "off" /\ "off" \notin {"gc_copy", "fix_gc", "fix_write"}
  BY DEF PowerLoss
<1>2. NoDoubles /\ CopyUnstarted /\ LastBroken /\ (pc # "fix_write" => AllWhole)
  BY LossBefore
<1>3. CASE flash' = flash
  <2>1. SameHeld /\ SameHeaders
    BY <1>3, NothingHeld
  <2>2. LastBroken' /\ CopyUnstarted'
    BY <1>2, <2>1, SameHeldKeeps
  <2> QED BY <1>1, <1>2, <2>1, <2>2, SameHeldInv
<1>4. CASE \E s \in Sectors : /\ flash' = [flash EXCEPT ![s].state = "crash"]
                              /\ Marked \subseteq {s} /\ \A j \in Nat : ~Holding(s, j)
                              /\ pc # "fix_write"
  <2>1. PICK s \in Sectors : /\ flash' = [flash EXCEPT ![s].state = "crash"]
                             /\ Marked \subseteq {s} /\ \A j \in Nat : ~Holding(s, j)
                             /\ pc # "fix_write"
    BY <1>4
  <2>2. LosesOnly(s, Nat) /\ Marked' = Marked \ {s}
    BY <2>1, CrashLost
  <2>3. SameHeld
    BY <2>1, <2>2, NoneLost
  <2>4. AllWhole'
    BY <1>2, <2>1, <2>3, SameShrinks, ShrinksKeeps
  <2>5. LastBroken'
    BY <2>4 DEF AllWhole, LastBroken
  <2>6. CopyUnstarted'
    BY <2>1, <2>2 DEF CopyUnstarted
  <2> QED BY <1>1, <1>2, <2>3, <2>5, <2>6, SameHeldInv
<1>5. CASE PutTorn
  <2>1. /\ pc = "put" /\ ram[Current].state # "uninit" /\ Fits(Current, Span[op.val])
        /\ flash' \in TornItem(Current, NewItem(op.key, op.val, ram[Current].free))
    BY <1>5 DEF PutTorn
  <2>2. PICK c \in Sectors, i \in AnyItem :
          c = Current /\ i = NewItem(op.key, op.val, ram[Current].free) /\ c \in Healthy
    BY <2>1, PutPlace
  <2>3. Highest(c) \/ "data" \notin Tears
    <3>1. CASE SpareFree
      <4>1. Spare = {} /\ ToSet(active) # {}
        BY <2>1, <3>1 DEF SpareFree, ListInv
      <4>2. Unwritten = {}
        BY <2>1, <2>2 DEF SerialFacts, UnwrittenLast, Unwritten, Current
      <4> QED BY <2>1, <2>2, <4>1, <4>2, CurrentHighest
    <3>2. ~(MaxLosses <= losses)
      BY BoundsAssumption DEF PowerLoss, RollBackSafe
    <3> QED BY <3>1, <3>2 DEF RollBackSafe
  <2> QED BY <1>1, <1>2, <2>1, <2>2, <2>3, TornValues
<1>6. CASE CopyTorn
  <2>1. /\ pc = "gc_copy" /\ GcMore
        /\ flash' \in TornItem(gc.dst, [GcItem EXCEPT !.at = gc.to])
    BY <1>6 DEF CopyTorn
  <2>2. PICK d \in Sectors : d = gc.dst /\ d \in Healthy /\ Highest(d)
    BY <2>1, CopyKnown
  <2>3. PICK i \in AnyItem : i = [GcItem EXCEPT !.at = gc.to]
    BY <2>1, GcItemType
  <2> QED BY <1>1, <1>2, <2>1, <2>2, <2>3, TornValues
<1> QED BY <1>3, <1>4, <1>5, <1>6, LossCases

LEMMA InitValue == Init => ValueInv
<1> SUFFICES ASSUME Init PROVE ValueInv
  OBVIOUS
<1>1. pc = "off" /\ Healthy = {}
  BY DEF Init, Healthy, Good, Blank
<1>2. \A s, j : ~Holding(s, j) /\ ~Whole(s, j)
  BY <1>1 DEF Holding, Whole
<1>3. Marked = {}
  BY DEF Init, Marked, Blank
<1> QED BY <1>1, <1>2, <1>3
        DEF ValueInv, ValuePhases, Agree, Doubles, LastBroken, NoDoubles, CopyUnstarted

LEMMA ValueInvStep ==
  ASSUME ~Overwrite, Recoverable, BaseInv, BaseInv', pc \in Places, UniqueInv,
         PlainInv, PlainInv', ValueInv, RollBackSafe, [Next]_vars
  PROVE  ValueInv'
<1>1. CASE UNCHANGED vars
  <2>1. UNCHANGED <<flash, pc, gc>>
    BY <1>1 DEF vars
  <2>2. SameHeld /\ SameHeaders
    BY <2>1, NothingHeld
  <2>3. LastBroken => LastBroken'
    BY <2>2, SameHeldKeeps
  <2>4. CopyUnstarted => CopyUnstarted'
    BY <2>2, SameHeldKeeps
  <2>5. CopiedTo(gc.src, gc.dst, gc.next) => CopiedTo(gc.src, gc.dst, gc.next)'
    BY <2>1 DEF CopiedTo, Twins, Holding, Healthy, KeyOf, Bare
  <2> QED BY <2>1, <2>2, <2>3, <2>4, <2>5, SameHeldInv DEF ValueInv, ValuePhases
<1>2. CASE Mount \/ Gc \/ PowerLoss
  BY <1>2, MountValues, GcValues, PowerLossValues
<1>3. CASE Write \/ (\E k \in Keys, v \in Values : Set(k, v))
           \/ \E k \in Keys, t \in Types : Get(k, t)
  BY <1>3, PutValues, CallValues DEF Write
<1>4. CASE \E k \in Keys, t \in Types : Del(k, t)
  BY <1>4, DelValues
<1> QED BY <1>1, <1>2, <1>3, <1>4 DEF Next

-------------------------------------------------------------------------------
(* The engine implements the key-value map.  A step of the map is the one  *)
(* step of a call that changes what a key holds; all other steps stutter.  *)

StoreMap == [k \in Keys |-> Stored(k)]
StoreCall == IF op.key = None THEN None
             ELSE [key |-> op.key, val |-> op.val, done |-> pc = "drop"]

LEMMA StoreCallKnown ==
  ASSUME op \in SetOp \cup {NoOp}
  PROVE  /\ op = NoOp => StoreCall = None
         /\ op \in SetOp =>
              /\ StoreCall = [key |-> op.key, val |-> op.val, done |-> pc = "drop"]
              /\ StoreCall # None
<1>1. op = NoOp => StoreCall = None
  BY DEF StoreCall, NoOp
<1>2. ASSUME op \in SetOp
      PROVE  /\ StoreCall = [key |-> op.key, val |-> op.val, done |-> pc = "drop"]
             /\ StoreCall # None
  <2>1. op.key \in Keys /\ op.val \in Values /\ op.key # None
    BY <1>2, NoneAssumption DEF SetOp
  <2>2. StoreCall = [key |-> op.key, val |-> op.val, done |-> pc = "drop"]
    BY <2>1 DEF StoreCall
  <2>3. (pc = "drop") \in BOOLEAN
    OBVIOUS
  <2>4. [key |-> op.key, val |-> op.val, done |-> pc = "drop"]
          \in [key : Keys, val : Values, done : BOOLEAN]
    BY <2>1, <2>3
  <2> QED BY <2>2, <2>4, NoneAssumption
<1> QED BY <1>1, <1>2

\* A key that keeps its values keeps what is stored for it.
LEMMA StoredSame ==
  ASSUME StoredFacts, StoredFacts', NEW k \in Keys, \A v : Has(k, v)' <=> Has(k, v)
  PROVE  Stored(k)' = Stored(k)
<1>1. CASE \E v : Has(k, v)
  <2>1. PICK v : Has(k, v)
    BY <1>1
  <2>2. Has(k, v)'
    BY <2>1
  <2> QED BY <2>1, <2>2 DEF StoredFacts
<1>2. CASE ~\E v : Has(k, v)
  <2>1. \A v : ~Has(k, v)'
    BY <1>2
  <2> QED BY <1>2, <2>1 DEF StoredFacts
<1> QED BY <1>1, <1>2

LEMMA StoreSame ==
  ASSUME StoredFacts, StoredFacts', SameValues PROVE StoreMap' = StoreMap
BY StoredSame DEF SameValues, StoreMap

LEMMA CallDone ==
  ASSUME NEW k, NEW v, NEW c \in BOOLEAN, NEW d \in BOOLEAN, NEW r,
         r = [key |-> k, val |-> v, done |-> c]
  PROVE  [r EXCEPT !.done = d] = [key |-> k, val |-> v, done |-> d]
<1>1. r \in [key : {k}, val : {v}, done : BOOLEAN]
  OBVIOUS
<1> QED BY <1>1, SMT

\* PutItem is where a set takes effect.
LEMMA PutStores ==
  ASSUME BaseInv, BaseInv', UniqueInv, PlainInv, ValueInv, StoredFacts, StoredFacts', PutItem
  PROVE  Store!SetTakesEffect
<1> USE DEF BaseInv, MarkInv
<1>1. pc = "put" /\ pc' = "drop" /\ op' = op /\ reply' = reply /\ op \in SetOp
  BY DEF PutItem, WeakTypes
<1>2. /\ \A k, v : Has(k, v)' <=> Has(k, v) \/ (k = op.key /\ v = op.val)
  BY PutValues
<1>3. op.key \in Keys
  BY <1>1 DEF SetOp
<1>6. ASSUME NEW k \in Keys, k # op.key PROVE Stored(k)' = Stored(k)
  <2>1. \A v : Has(k, v)' <=> Has(k, v)
    BY <1>2, <1>6
  <2> QED BY <2>1, StoredSame
<1>7. ASSUME NEW k \in Keys
      PROVE  Stored(k)' = IF k = op.key THEN op.val ELSE Stored(k)
  <2>1. CASE k = op.key
    <3>1. Has(k, op.val)'
      BY <1>1, <1>2, <2>1
    <3>2. Stored(k)' = op'.val
      BY <1>1, <3>1 DEF StoredFacts
    <3> QED BY <1>1, <2>1, <3>2
  <2> QED BY <1>6, <2>1
<1>8. StoreMap' = [StoreMap EXCEPT ![op.key] = op.val]
  BY <1>3, <1>7 DEF StoreMap
<1>9. StoreCall = [key |-> op.key, val |-> op.val, done |-> FALSE] /\ StoreCall # None
  <2>1. pc # "drop"
    BY <1>1
  <2> QED BY <1>1, <2>1, StoreCallKnown
<1>10. StoreCall' = [key |-> op.key, val |-> op.val, done |-> TRUE]
  BY <1>1, <1>3, NoneAssumption DEF StoreCall
<1>11. /\ StoreCall.key = op.key /\ StoreCall.val = op.val /\ ~StoreCall.done
       /\ [StoreCall EXCEPT !.done = TRUE] = [key |-> op.key, val |-> op.val, done |-> TRUE]
  <2>1. StoreCall = [key |-> op.key, val |-> op.val, done |-> FALSE]
    BY <1>9
  <2>2. StoreCall.key = op.key /\ StoreCall.val = op.val
    BY <2>1
  <2>3. ~StoreCall.done
    BY <2>1
  <2>4. [StoreCall EXCEPT !.done = TRUE] = [key |-> op.key, val |-> op.val, done |-> TRUE]
    BY <2>1, CallDone
  <2> QED BY <2>2, <2>3, <2>4
<1>12. /\ StoreCall # None /\ ~StoreCall.done /\ StoreCall' = [StoreCall EXCEPT !.done = TRUE]
       /\ reply' = reply /\ StoreMap' = [StoreMap EXCEPT ![StoreCall.key] = StoreCall.val]
  BY <1>1, <1>8, <1>9, <1>10, <1>11
<1> QED BY <1>12, Zenon DEF Store!SetTakesEffect, StoreMap, StoreCall

LEMMA StoreStutters ==
  ASSUME StoreMap' = StoreMap, StoreCall' = StoreCall, reply' = reply
  PROVE  UNCHANGED Store!vars
BY Zenon DEF Store!vars, StoreMap, StoreCall

\* What the map holds for a key, by what a lookup finds.
Reads(x, k, t) ==
  /\ x = None => ~(Stored(k) # None /\ TypeOf[Stored(k)] = t)
  /\ x # None => Stored(k) = ItemAt(x).val /\ Stored(k) # None /\ TypeOf[Stored(k)] = t

LEMMA LookupStored ==
  ASSUME BaseInv, UniqueInv, AllWhole, StoredFacts, pc = "ready", NEW k \in Keys, NEW t,
         NEW x \in Found(k, {t})
  PROVE  Reads(x, k, t)
<1> USE DEF BaseInv, MarkInv
<1>1. ASSUME x = None, Stored(k) # None, TypeOf[Stored(k)] = t PROVE FALSE
  <2>1. PICK v : Has(k, v)
    BY <1>1 DEF StoredFacts
  <2>2. Stored(k) = v
    BY <2>1 DEF StoredFacts
  <2>3. TypeOf[v] \notin {t}
    BY <1>1, <2>1, LookupKnown
  <2> QED BY <1>1, <2>2, <2>3
<1>2. ASSUME x # None
      PROVE  /\ Stored(k) = ItemAt(x).val /\ Stored(k) # None /\ TypeOf[Stored(k)] = t
  <2>1. Has(k, ItemAt(x).val) /\ TypeOf[ItemAt(x).val] \in {t}
    BY <1>2, LookupKnown
  <2>2. Stored(k) = ItemAt(x).val
    BY <2>1 DEF StoredFacts
  <2>3. ItemAt(x).val \in Values
    <3>1. PICK s \in Sectors, j \in Nat : Whole(s, j) /\ ValueOf(s, j) = ItemAt(x).val
      BY <2>1 DEF Has
    <3>2. Genuine(j, flash[s].items[j])
      BY <3>1, PlaceInRange DEF UniqueInv, Whole
    <3> QED BY <3>1, <3>2 DEF Genuine, ValueOf
  <2> QED BY <2>1, <2>2, <2>3, NoneAssumption
<1> QED BY <1>1, <1>2 DEF Reads

LEMMA GetReads ==
  ASSUME BaseInv, UniqueInv, ValueInv, StoredFacts, StoredFacts',
         NEW k \in Keys, NEW t \in Types, Get(k, t)
  PROVE  Store!Get(k, t)
<1>1. /\ pc = "ready" /\ pc' = pc /\ op' = op /\ op = NoOp
      /\ UNCHANGED flash
  BY DEF Get, WeakTypes, BaseInv, MarkInv
<1>2. AllWhole
  BY <1>1 DEF ValueInv, ValuePhases
<1>3. StoreMap' = StoreMap
  BY <1>1, NothingHeld, SameHeldValues, StoreSame
<1>4. StoreCall = None /\ StoreCall' = StoreCall
  <2>1. op.key = None /\ op'.key = None
    BY <1>1 DEF NoOp
  <2> QED BY <2>1 DEF StoreCall
<1>5. PICK x \in Found(k, {t}) :
        reply' = IF x = None THEN Reply("get", k, None, "NOT_FOUND")
                             ELSE Reply("get", k, ItemAt(x).val, None)
  BY DEF Get
<1>6. Reads(x, k, t)
  BY <1>1, <1>2, LookupStored
<1>7. StoreMap[k] = Stored(k)
  BY DEF StoreMap
<1>8. reply' = IF StoreMap[k] # None /\ TypeOf[StoreMap[k]] = t
                 THEN Reply("get", k, StoreMap[k], None)
                 ELSE Reply("get", k, None, "NOT_FOUND")
  BY <1>5, <1>6, <1>7 DEF Reads
<1> QED BY <1>3, <1>4, <1>8, Zenon
        DEF Store!Get, Store!Holds, Store!Reply, Reply, StoreMap, StoreCall

LEMMA DelDeletes ==
  ASSUME BaseInv, BaseInv', UniqueInv, PlainInv, ValueInv, StoredFacts, StoredFacts',
         NEW k \in Keys, NEW t \in Types, Del(k, t)
  PROVE  Store!Del(k, t)
<1>1. /\ pc = "ready" /\ pc' = pc /\ op' = op /\ op = NoOp
  BY DEF Del, WeakTypes, BaseInv, MarkInv
<1>2. AllWhole
  BY <1>1 DEF ValueInv, ValuePhases
<1>3. StoreCall = None /\ StoreCall' = StoreCall
  <2>1. op.key = None /\ op'.key = None
    BY <1>1 DEF NoOp
  <2> QED BY <2>1 DEF StoreCall
<1>4. PICK x \in Found(k, {t}) :
        /\ x = None => SameValues /\ reply' = Reply("del", k, None, "NOT_FOUND")
        /\ x # None => /\ \A q, v : Has(q, v)' <=> Has(q, v) /\ q # k
                       /\ reply' = Reply("del", k, None, None)
  BY DelValues
<1>5. Reads(x, k, t)
  BY <1>1, <1>2, LookupStored
<1>6. StoreMap[k] = Stored(k)
  BY DEF StoreMap
<1>7. CASE x = None
  <2>1. /\ ~(StoreMap[k] # None /\ TypeOf[StoreMap[k]] = t) /\ StoreMap' = StoreMap
        /\ reply' = Reply("del", k, None, "NOT_FOUND")
    BY <1>4, <1>5, <1>6, <1>7, StoreSame DEF Reads
  <2> QED BY <1>3, <2>1, Zenon DEF Store!Del, Store!Holds, Store!Reply, Reply, StoreMap, StoreCall
<1>8. CASE x # None
  <2>1. ASSUME NEW q \in Keys PROVE Stored(q)' = IF q = k THEN None ELSE Stored(q)
    <3>1. CASE q = k
      <4>1. \A v : ~Has(q, v)'
        BY <1>4, <1>8, <3>1
      <4> QED BY <3>1, <4>1 DEF StoredFacts
    <3>2. CASE q # k
      <4>1. \A v : Has(q, v)' <=> Has(q, v)
        BY <1>4, <1>8, <3>2
      <4> QED BY <3>2, <4>1, StoredSame
    <3> QED BY <3>1, <3>2
  <2>2. /\ StoreMap[k] # None /\ TypeOf[StoreMap[k]] = t
        /\ StoreMap' = [StoreMap EXCEPT ![k] = None]
        /\ reply' = Reply("del", k, None, None)
    BY <1>4, <1>5, <1>6, <1>8, <2>1 DEF StoreMap, Reads
  <2> QED BY <1>3, <2>2, Zenon DEF Store!Del, Store!Holds, Store!Reply, Reply, StoreMap, StoreCall
<1> QED BY <1>7, <1>8

LEMMA SetStarts ==
  ASSUME ~Overwrite, BaseInv, StoredFacts, StoredFacts',
         NEW k \in Keys, NEW v \in Values, Set(k, v)
  PROVE  Store!SetCall(k, v)
<1>1. /\ pc = "ready" /\ op = NoOp /\ UNCHANGED flash
  BY DEF Set, WeakTypes, BaseInv, MarkInv
<1>2. Found(k, Types) = {None}
  BY DEF Set, Found
<1>3. PICK x \in Found(k, Types) :
        IF x # None /\ ItemAt(x).val = v
          THEN UNCHANGED op
          ELSE /\ op' = [key |-> k, val |-> v, again |-> FALSE,
                         old |-> IF x = None THEN None ELSE Place(x)]
               /\ pc' = "put" /\ UNCHANGED reply
  BY DEF Set
<1>4. op'.key = k /\ op'.val = v /\ pc' # "drop" /\ k # None /\ reply' = reply
  BY <1>2, <1>3, NoneAssumption
<1>5. StoreCall' = [key |-> k, val |-> v, done |-> FALSE]
  BY <1>4 DEF StoreCall
<1>6. StoreCall = None
  BY <1>1, StoreCallKnown
<1>7. StoreMap' = StoreMap
  BY <1>1, NothingHeld, SameHeldValues, StoreSame
<1> QED BY <1>4, <1>5, <1>6, <1>7, Zenon DEF Store!SetCall, StoreMap, StoreCall

LEMMA ReturnReturns ==
  ASSUME op \in SetOp, NEW e, Return(e), StoreMap' = StoreMap, pc = "drop" <=> e = None
  PROVE  Store!SetReturns(e)
<1>1. /\ StoreCall = [key |-> op.key, val |-> op.val, done |-> pc = "drop"]
      /\ StoreCall # None
  BY StoreCallKnown
<1>2. StoreCall.key = op.key /\ StoreCall.val = op.val
  BY <1>1
<1>3. StoreCall.done <=> e = None
  BY <1>1
<1>4. StoreCall' = None /\ reply' = Reply("set", StoreCall.key, StoreCall.val, e)
  BY <1>2 DEF Return, StoreCall, NoOp
<1> QED BY <1>1, <1>3, <1>4, Zenon DEF Store!SetReturns, Store!Reply, Reply, StoreMap, StoreCall

LEMMA CallStutters ==
  ASSUME StoreMap' = StoreMap, reply' = reply, op'.key = op.key,
         op.key # None => op'.val = op.val /\ pc # "drop" /\ pc' # "drop"
  PROVE  UNCHANGED Store!vars
<1>1. StoreCall' = StoreCall
  <2>1. CASE op.key = None
    <3>1. op'.key = None
      BY <2>1
    <3> QED BY <2>1, <3>1 DEF StoreCall
  <2>2. CASE op.key # None
    <3>1. op'.key # None /\ op'.val = op.val /\ pc # "drop" /\ pc' # "drop"
      BY <2>2
    <3> QED BY <2>2, <3>1 DEF StoreCall
  <2> QED BY <2>1, <2>2
<1> QED BY <1>1, StoreStutters

LEMMA LossLoses ==
  ASSUME StoreMap' = StoreMap, PowerLoss PROVE Store!PowerLoss
<1>1. StoreCall' = None /\ reply' = NoReply
  BY DEF PowerLoss, StoreCall, NoOp
<1> QED BY <1>1, Zenon DEF Store!PowerLoss, Store!NoReply, Store!Reply, NoReply, Reply,
                         StoreMap, StoreCall

\* Each step is a step of the map or stutters.
LEMMA StoreStep ==
  ASSUME ~Overwrite, Recoverable, BaseInv, BaseInv', pc \in Places, UniqueInv,
         PlainInv, PlainInv', ValueInv, RollBackSafe,
         StoredFacts, StoredFacts', [Next]_vars
  PROVE  Store!Next \/ UNCHANGED Store!vars
<1>1. WeakTypes
  BY DEF BaseInv, MarkInv
<1>2. /\ NoOp.key = None /\ \A b : [op EXCEPT !.again = b].key = op.key
      /\ \A b : [op EXCEPT !.again = b].val = op.val
  BY <1>1 DEF WeakTypes, SetOp, NoOp
<1>3. CASE UNCHANGED vars
  <2>1. UNCHANGED <<flash, op, pc, reply>>
    BY <1>3 DEF vars
  <2>2. StoreMap' = StoreMap
    BY <2>1, NothingHeld, SameHeldValues, StoreSame
  <2>3. StoreCall' = StoreCall
    BY <2>1 DEF StoreCall
  <2> QED BY <2>1, <2>2, <2>3, StoreStutters
<1>4. CASE Mount
  <2>1. /\ op' = op /\ reply' = reply
        /\ pc \in {"off", "fix_write", "fix_gc", "fix_take", "settle"}
    BY <1>4 DEF Mount, Load, LoadFirst, FixWrite, FixGcErase, FixGcTake, Settle
  <2>2. op = NoOp
    BY <1>1, <2>1 DEF WeakTypes
  <2>3. StoreMap' = StoreMap
    BY <1>4, MountValues, StoreSame
  <2> QED BY <1>2, <2>1, <2>2, <2>3, CallStutters
<1>5. CASE Gc
  <2>1. /\ reply' = reply /\ op' \in {op, [op EXCEPT !.again = TRUE]}
        /\ pc # "drop" /\ pc' # "drop"
    BY <1>5 DEF Gc, GcStart, GcInit, GcMark, GcCopy, GcErase
  <2>2. StoreMap' = StoreMap
    BY <1>5, GcValues, StoreSame
  <2>3. op'.key = op.key /\ op'.val = op.val
    BY <1>2, <2>1
  <2> QED BY <2>1, <2>2, <2>3, CallStutters
<1>6. CASE PutItem
  BY <1>6, PutStores DEF Store!Next
<1>7. CASE PutInit \/ TakeIdle \/ (PutFull /\ ~op.again)
  <2>1. /\ reply' = reply /\ op' \in {op, [op EXCEPT !.again = TRUE]}
        /\ pc # "drop" /\ pc' # "drop"
    BY <1>7 DEF PutInit, TakeIdle, PutFull
  <2>2. StoreMap' = StoreMap
    BY <1>7, CallValues, StoreSame
  <2>3. op'.key = op.key /\ op'.val = op.val
    BY <1>2, <2>1
  <2> QED BY <2>1, <2>2, <2>3, CallStutters
<1>8. CASE DropOld \/ NoSpace \/ (PutFull /\ op.again)
  <2>1. StoreMap' = StoreMap
    BY <1>8, CallValues, StoreSame
  <2>2. PICK e \in {None, "NO_SPACE", "SECTOR_FULL"} :
          Return(e) /\ op \in SetOp /\ (pc = "drop" <=> e = None)
    BY <1>1, <1>8, NoneAssumption DEF DropOld, NoSpace, PutFull, WeakTypes
  <2>3. Store!SetReturns(e)
    BY <2>1, <2>2, ReturnReturns
  <2>4. e \in Store!Errors \cup {None}
    BY <2>2 DEF Store!Errors
  <2> QED BY <2>3, <2>4 DEF Store!Next
<1>9. CASE \E k \in Keys, v \in Values : Set(k, v)
  BY <1>9, SetStarts DEF Store!Next
<1>10. CASE \E k \in Keys, t \in Types : Get(k, t)
  <2>1. PICK k \in Keys, t \in Types : Store!Get(k, t)
    BY <1>10, GetReads
  <2>2. t \in Store!Types
    BY DEF Types, Store!Types
  <2> QED BY <2>1, <2>2 DEF Store!Next
<1>11. CASE \E k \in Keys, t \in Types : Del(k, t)
  <2>1. PICK k \in Keys, t \in Types : Store!Del(k, t)
    BY <1>11, DelDeletes
  <2>2. t \in Store!Types
    BY DEF Types, Store!Types
  <2> QED BY <2>1, <2>2 DEF Store!Next
<1>12. CASE PowerLoss
  <2>1. StoreMap' = StoreMap
    BY <1>12, PowerLossValues, StoreSame
  <2> QED BY <1>12, <2>1, LossLoses DEF Store!Next
<1> QED BY <1>3, <1>4, <1>5, <1>6, <1>7, <1>8, <1>9, <1>10, <1>11, <1>12 DEF Next, Write

\* What makes the engine a store: the inductive invariant behind the map.
StoreInv ==
  BaseInv /\ pc \in Places /\ UniqueInv /\ PlainInv /\ ValueInv /\ RollBackSafe

LEMMA StoreInvFacts == StoreInv => StoredFacts
BY StoredKnown DEF StoreInv, BaseInv, MarkInv, SerialInv, UniqueInv, ValueInv

LEMMA InitStoreInv == Init => StoreInv
BY InitBase, InitUnique, InitPlain, InitValue, InitSpareFree
   DEF StoreInv, RollBackSafe, Init, Places

LEMMA StoreInvStep ==
  ASSUME ~Overwrite, Recoverable, StoreInv, [Next]_vars PROVE StoreInv'
<1>1. BaseInv' /\ pc' \in Places
  BY BaseInvStep, PlaceStep DEF StoreInv
<1>2. UniqueInv' /\ PlainInv'
  BY <1>1, UniqueInvStep, PlainInvStep DEF StoreInv
<1>3. ValueInv'
  BY <1>1, <1>2, ValueInvStep DEF StoreInv
<1>4. RollBackSafe'
  BY <1>1, RollBackStep DEF StoreInv
<1> QED BY <1>1, <1>2, <1>3, <1>4 DEF StoreInv

\* The engine implements the key-value map of NvsStore, power failures included:
\* a set takes effect at one point or not at all, and no reclaiming, no mount
\* and no power failure of the kinds Recoverable names changes what a key holds.
THEOREM EngineImplementsStore ==
  ASSUME ~Overwrite, Recoverable PROVE Spec => ImplementsStore
<1> USE DEF ImplementsStore
<1>1. StoreInv => StoredFacts
  BY StoreInvFacts
<1>2. Init => StoreInv
  BY InitStoreInv
<1>3. Init /\ StoredFacts => Store!Init
  <2> SUFFICES ASSUME Init, StoredFacts PROVE Store!Init
    OBVIOUS
  <2>1. \A k, v : ~Has(k, v)
    BY DEF Init, Has, Whole, Holding, Healthy, Good, Blank
  <2>2. StoreMap = [k \in Keys |-> None]
    BY <2>1 DEF StoredFacts, StoreMap
  <2>3. StoreCall = None /\ reply = NoReply
    BY DEF Init, NoOp, StoreCall
  <2> QED BY <2>2, <2>3, Zenon DEF Store!Init, Store!NoReply, Store!Reply, NoReply, Reply,
                                  StoreMap, StoreCall
<1>4. StoreInv /\ [Next]_vars => StoreInv'
  BY StoreInvStep
<1>5. StoreInv /\ StoreInv' /\ StoredFacts /\ StoredFacts' /\ [Next]_vars
        => [Store!Next]_(Store!vars)
  BY StoreStep DEF StoreInv
<1> QED BY <1>1, <1>2, <1>3, <1>4, <1>5, PTL DEF Spec, Store!Spec

\* No step of a reclaiming or of a mount, and no power failure in one, changes
\* what a key holds, as nvs.rst:244 promises: of the power failures at the
\* points Recoverable allows, where nvs_reclaim_loss shows one it does not.
THEOREM ReclaimingKeepsValues ==
  ASSUME ~Overwrite, Recoverable PROVE Spec => ReclaimKeepsValues
<1>1. StoreInv => StoredFacts
  BY StoreInvFacts
<1>2. Init => StoreInv
  BY InitStoreInv
<1>3. StoreInv /\ [Next]_vars => StoreInv'
  BY StoreInvStep
<1>4. StoreInv /\ StoreInv' /\ StoredFacts /\ StoredFacts' /\ [Next]_vars
        => [Upkeep => \A k \in Keys : Stored(k)' = Stored(k)]_vars
  <2> SUFFICES ASSUME StoreInv, StoreInv', StoredFacts, StoredFacts', Next, Upkeep
               PROVE  \A k \in Keys : Stored(k)' = Stored(k)
    OBVIOUS
  <2>1. Mount \/ Gc \/ PowerLoss
    BY DEF Next, Upkeep, Write, PutInit, PutItem, PutFull, DropOld, TakeIdle, NoSpace,
           Set, Get, Del
  <2>2. SameValues
    BY <2>1, MountValues, GcValues, PowerLossValues DEF StoreInv
  <2> QED BY <2>2, StoredSame DEF SameValues
<1> QED BY <1>1, <1>2, <1>3, <1>4, PTL DEF Spec, ReclaimKeepsValues
===============================================================================
