------------------------------ MODULE NvsProofs -------------------------------
(***************************************************************************)
(* Proofs about the storage engine, for any number and size of sectors,    *)
(* any keys and values, and any number of sets and power failures at any   *)
(* point of a call or a mount.                                             *)
(***************************************************************************)
EXTENDS Nvs, ListLemmas, SequenceTheorems, FiniteSetTheorems, TLAPS

-------------------------------------------------------------------------------
(* The two lists of the sector manager.  Reclaiming takes the sector it    *)
(* erases off the active list, so the invariant has to say it is there.    *)

GcRunning == pc \in {"gc_init", "gc_mark", "gc_copy"}

Lists ==
  /\ active \in Seq(Sectors) /\ idle \in Seq(Sectors)
  /\ \E s, d \in Sectors : \E n, t : gc = [src |-> s, dst |-> d, next |-> n, to |-> t]

ListInv ==
  /\ Lists
  /\ ListsPartition
  /\ GcRunning => gc.src \in ToSet(active) /\ gc.dst \in ToSet(active) \ {gc.src}
  /\ pc \notin {"off", "fix_write", "fix_take"} => ToSet(active) # {}

LEMMA SectorsFinite == IsFiniteSet(Sectors) /\ 0 \in Sectors
BY SizesAssumption, FS_Interval DEF Sectors

\* A list that is empty has no elements.
LEMMA EmptyIsDistinct ==
  ASSUME NEW S PROVE <<>> \in Seq(S) /\ IsInjective(<<>>) /\ ToSet(<<>>) = {}
<1>1. <<>> \in Seq(S) /\ DOMAIN <<>> = {}
  BY EmptySeq, LenProperties
<1> QED BY <1>1 DEF IsInjective, ToSet

LEMMA InitListInv == Init => ListInv
<1> SUFFICES ASSUME Init PROVE ListInv
  OBVIOUS
<1>1. Lists
  BY EmptyIsDistinct, SectorsFinite DEF Init, Lists, NoGc
<1> QED BY <1>1 DEF Init, ListInv, ListsPartition, GcRunning

\* sm_active_sector moves a sector from one list to the other.
LEMMA ActivateKeepsLists ==
  ASSUME Lists, ListsPartition, pc # "off", Activate
  PROVE  /\ Head(idle) \in Sectors
         /\ active' \in Seq(Sectors) /\ idle' \in Seq(Sectors)
         /\ ListsPartition'
         /\ ToSet(active') = ToSet(active) \cup {Head(idle)}
         /\ Head(idle) \notin ToSet(active)
<1> DEFINE h == Head(idle)
<1>1. /\ active \in Seq(Sectors) /\ idle \in Seq(Sectors) /\ idle # <<>>
      /\ IsInjective(active) /\ IsInjective(idle)
      /\ active' = Append(active, h) /\ idle' = Tail(idle)
  BY DEF Lists, ListsPartition, Activate
<1>2. /\ h \in Sectors /\ h \in ToSet(idle)
      /\ idle' \in Seq(Sectors) /\ IsInjective(idle')
      /\ ToSet(idle') = ToSet(idle) \ {h}
  BY <1>1, TailOnly
<1>3. h \notin ToSet(active)
  BY <1>2 DEF ListsPartition
<1>4. /\ active' \in Seq(Sectors) /\ IsInjective(active')
      /\ ToSet(active') = ToSet(active) \cup {h}
  BY <1>1, <1>2, <1>3, AppendNew
<1>5. ListsPartition'
  BY <1>2, <1>3, <1>4 DEF ListsPartition
<1> QED BY <1>2, <1>3, <1>4, <1>5

\* sm_load_sectors puts every sector on one list.
LEMMA LoadLists == Load => active' \in Seq(Sectors) /\ idle' \in Seq(Sectors) /\ ListsPartition'
<1> SUFFICES ASSUME Load
             PROVE  active' \in Seq(Sectors) /\ idle' \in Seq(Sectors) /\ ListsPartition'
  OBVIOUS
<1> DEFINE good == {s \in Sectors : Good(flash[s])}
<1>1. active' \in SetToSeqs(good) /\ idle' \in SetToSeqs(Sectors \ good)
  BY DEF Load, SortedBy
<1>2. IsFiniteSet(good) /\ IsFiniteSet(Sectors \ good)
  BY SectorsFinite, FS_Subset
<1>3. active' \in Seq(good) /\ IsInjective(active') /\ ToSet(active') = good
  BY <1>1, <1>2, ListOfSet
<1>4. idle' \in Seq(Sectors \ good) /\ IsInjective(idle') /\ ToSet(idle') = Sectors \ good
  BY <1>1, <1>2, ListOfSet
<1>5. active' \in Seq(Sectors) /\ idle' \in Seq(Sectors)
  BY <1>3, <1>4, SeqMonotonic
<1> QED BY <1>3, <1>4, <1>5 DEF ListsPartition

\* Moving the last active sector to the idle list, as the recovery does.
LEMMA RollBackLists ==
  ASSUME Lists, ListsPartition, pc # "off", active # <<>>,
         active' = Front(active), idle' = Append(idle, Last(active))
  PROVE  /\ active' \in Seq(Sectors) /\ idle' \in Seq(Sectors) /\ ListsPartition'
         /\ ToSet(active') = ToSet(active) \ {Last(active)}
<1>1. /\ active \in Seq(Sectors) /\ idle \in Seq(Sectors)
      /\ IsInjective(active) /\ IsInjective(idle)
  BY DEF Lists, ListsPartition
<1>2. /\ Last(active) \in Sectors /\ Last(active) \in ToSet(active)
      /\ active' \in Seq(Sectors) /\ IsInjective(active')
      /\ ToSet(active') = ToSet(active) \ {Last(active)}
  BY <1>1, FrontOnly
<1>3. Last(active) \notin ToSet(idle)
  BY <1>2 DEF ListsPartition
<1>4. /\ idle' \in Seq(Sectors) /\ IsInjective(idle')
      /\ ToSet(idle') = ToSet(idle) \cup {Last(active)}
  BY <1>1, <1>2, <1>3, AppendNew
<1> QED BY <1>2, <1>4 DEF ListsPartition

\* A mount keeps the lists a partition.
LEMMA MountLists == ListInv /\ Mount => ListInv'
<1> SUFFICES ASSUME ListInv, Mount PROVE ListInv'
  OBVIOUS
<1> USE DEF GcRunning
<1>1. CASE Load
  BY <1>1, LoadLists DEF ListInv, Lists, Load
<1>2. CASE LoadFirst
  <2>1. pc = "fix_write" /\ pc' = pc /\ gc' = gc /\ Activate
    BY <1>2 DEF LoadFirst
  <2> QED BY <2>1, ActivateKeepsLists DEF ListInv, Lists
<1>3. CASE FixWrite
  <2>1. /\ pc = "fix_write" /\ pc' = "fix_gc" /\ gc' = gc
        /\ active # <<>> /\ active' = active /\ idle' = idle
    BY <1>3 DEF FixWrite, lists
  <2>2. ToSet(active) # {}
    BY <2>1, FrontOnly DEF ListInv, Lists, ListsPartition
  <2> QED BY <2>1, <2>2 DEF ListInv, Lists, ListsPartition
<1>4. CASE FixGcErase
  <2>1. /\ pc = "fix_gc" /\ pc' \in {"settle", "fix_take"} /\ gc' = gc
        /\ \/ active' = active /\ idle' = idle
           \/ /\ Deleting # {} /\ pc' = "fix_take"
              /\ active' = Front(active) /\ idle' = Append(idle, Current)
    BY <1>4 DEF FixGcErase
  <2>2. CASE active' = active /\ idle' = idle
    BY <2>1, <2>2 DEF ListInv, Lists, ListsPartition
  <2>3. CASE /\ Deleting # {} /\ pc' = "fix_take"
             /\ active' = Front(active) /\ idle' = Append(idle, Current)
    <3>1. active # <<>>
      BY <2>3 DEF Deleting
    <3> QED BY <3>1, <2>1, <2>3, RollBackLists DEF ListInv, Lists, Current
  <2> QED BY <2>1, <2>2, <2>3
<1>5. CASE FixGcTake
  <2>1. pc = "fix_take" /\ pc' = "gc_init" /\ Activate
    BY <1>5 DEF FixGcTake
  <2>2. PICK i \in Deleting : gc' = [NoGc EXCEPT !.src = active[i], !.dst = Head(idle)]
    BY <1>5 DEF FixGcTake
  <2>3. active[i] \in ToSet(active)
    BY DEF Deleting, ToSet
  <2>4. active[i] \in Sectors
    BY <2>3, <2>1 DEF ListInv, ListsPartition
  <2>5. /\ active' \in Seq(Sectors) /\ idle' \in Seq(Sectors) /\ ListsPartition'
        /\ active[i] \in ToSet(active') /\ Head(idle) \in Sectors
        /\ Head(idle) \in ToSet(active') /\ Head(idle) # active[i]
    BY <2>1, <2>3, ActivateKeepsLists DEF ListInv
  <2>6. gc' = [src |-> active[i], dst |-> Head(idle), next |-> 1, to |-> 0]
    BY <2>2 DEF NoGc
  <2> QED BY <2>4, <2>5, <2>6 DEF ListInv, Lists
<1>6. CASE Settle
  <2>1. /\ pc = "settle" /\ pc' = "ready" /\ gc' = gc
        /\ \/ active' = active /\ idle' = idle
           \/ /\ idle = <<>>
              /\ active' = Front(active) /\ idle' = <<Current>>
    BY <1>6 DEF Settle
  <2>2. CASE active' = active /\ idle' = idle
    BY <2>1, <2>2 DEF ListInv, Lists, ListsPartition
  <2>3. CASE idle = <<>> /\ active' = Front(active) /\ idle' = <<Current>>
    <3>1. active # <<>>
      BY <2>1, <2>3, EmptyIsDistinct, SectorsFinite DEF ListInv, ListsPartition
    <3>2. idle' = Append(idle, Last(active))
      BY <2>3 DEF Current
    <3>3. /\ active' \in Seq(Sectors) /\ idle' \in Seq(Sectors) /\ ListsPartition'
          /\ ToSet(active') = ToSet(active) \ {Last(active)}
      BY <3>1, <3>2, <2>1, <2>3, RollBackLists DEF ListInv
    <3>4. ToSet(active) = Sectors
      BY <2>1, <2>3, EmptyIsDistinct DEF ListInv, ListsPartition
    <3>5. 0 \in Sectors /\ 1 \in Sectors
      BY SizesAssumption DEF Sectors
    <3>6. ToSet(active') # {}
      BY <3>3, <3>4, <3>5
    <3> QED BY <3>3, <3>6, <2>1 DEF ListInv, Lists
  <2> QED BY <2>1, <2>2, <2>3
<1> QED BY <1>1, <1>2, <1>3, <1>4, <1>5, <1>6 DEF Mount

\* So does a call, reclaiming included.
LEMMA CallLists ==
  ListInv /\ (\/ Write \/ Gc
              \/ \E k \in Keys, v \in Values : Set(k, v)
              \/ \E k \in Keys, t \in Types : Get(k, t) \/ Del(k, t)) => ListInv'
<1> USE DEF GcRunning
<1>1. ASSUME ListInv, PutInit \/ PutItem \/ PutFull \/ DropOld \/ NoSpace PROVE ListInv'
  BY <1>1 DEF PutInit, PutItem, PutFull, DropOld, NoSpace, Return, lists,
              ListInv, Lists, ListsPartition
<1>2. ASSUME ListInv, TakeIdle PROVE ListInv'
  <2>1. pc = "request" /\ pc' = "put" /\ gc' = gc /\ Activate
    BY <1>2 DEF TakeIdle
  <2> QED BY <1>2, <2>1, ActivateKeepsLists DEF ListInv, Lists
<1>3. ASSUME ListInv, GcStart PROVE ListInv'
  <2>1. pc = "request" /\ pc' = "gc_init" /\ Activate
    BY <1>3 DEF GcStart
  <2>2. PICK s \in Dirtiest : gc' = [NoGc EXCEPT !.src = s, !.dst = Head(idle)]
    BY <1>3 DEF GcStart
  <2>3. s \in ToSet(active)
    BY DEF Dirtiest, ToSet
  <2>4. s \in Sectors
    BY <1>3, <2>1, <2>3 DEF ListInv, ListsPartition
  <2>5. /\ active' \in Seq(Sectors) /\ idle' \in Seq(Sectors) /\ ListsPartition'
        /\ s \in ToSet(active') /\ Head(idle) \in Sectors
        /\ Head(idle) \in ToSet(active') /\ Head(idle) # s
    BY <1>3, <2>1, <2>3, ActivateKeepsLists DEF ListInv
  <2>6. gc' = [src |-> s, dst |-> Head(idle), next |-> 1, to |-> 0]
    BY <2>2 DEF NoGc
  <2> QED BY <2>4, <2>5, <2>6 DEF ListInv, Lists
<1>4. ASSUME ListInv, GcInit \/ GcMark \/ GcCopy PROVE ListInv'
  <2>1. /\ GcRunning /\ pc' # "off" /\ active' = active /\ idle' = idle
        /\ \/ gc' = gc
           \/ gc' = [gc EXCEPT !.next = @ + 1, !.to = @ + GcItem.span]
           \/ gc' = [gc EXCEPT !.next = @ + 1]
    BY <1>4 DEF GcInit, GcMark, GcCopy, lists
  <2>2. gc'.src = gc.src /\ gc'.dst = gc.dst /\ Lists'
    <3>1. PICK s, d, n, t : /\ s \in Sectors /\ d \in Sectors
                            /\ gc = [src |-> s, dst |-> d, next |-> n, to |-> t]
      BY <1>4 DEF ListInv, Lists
    <3>2. PICK m, u : gc' = [src |-> s, dst |-> d, next |-> m, to |-> u]
      BY <2>1, <3>1
    <3>3. active' \in Seq(Sectors) /\ idle' \in Seq(Sectors)
      BY <1>4, <2>1 DEF ListInv, Lists
    <3> QED BY <3>1, <3>2, <3>3 DEF Lists
  <2>3. pc # "off" /\ gc.src \in ToSet(active) /\ gc.dst \in ToSet(active) \ {gc.src}
    BY <1>4, <2>1 DEF ListInv
  <2>4. active' = active /\ idle' = idle
    BY <2>1
  <2>5. ListsPartition'
    BY <1>4, <2>3, <2>4 DEF ListInv, ListsPartition
  <2>6. gc'.src \in ToSet(active') /\ gc'.dst \in ToSet(active') \ {gc'.src}
    BY <2>2, <2>3, <2>4
  <2> QED BY <2>2, <2>5, <2>6 DEF ListInv
<1>5. ASSUME ListInv, GcErase PROVE ListInv'
  <2>1. /\ pc = "gc_copy" /\ pc' \in {"settle", "put"} /\ gc' = NoGc
        /\ active' = RemoveFirst(active, gc.src) /\ idle' = Append(idle, gc.src)
    BY <1>5 DEF GcErase
  <2>2. /\ active \in Seq(Sectors) /\ idle \in Seq(Sectors)
        /\ IsInjective(active) /\ IsInjective(idle)
        /\ gc.src \in Sectors /\ gc.src \in ToSet(active) /\ gc.src \notin ToSet(idle)
        /\ gc.dst \in ToSet(active) \ {gc.src}
    BY <1>5, <2>1 DEF ListInv, Lists, ListsPartition
  <2>3. /\ active' \in Seq(Sectors) /\ IsInjective(active')
        /\ ToSet(active') = ToSet(active) \ {gc.src}
    BY <2>1, <2>2, RemoveOnly
  <2>4. /\ idle' \in Seq(Sectors) /\ IsInjective(idle')
        /\ ToSet(idle') = ToSet(idle) \cup {gc.src}
    BY <2>1, <2>2, AppendNew
  <2>5. ListsPartition'
    BY <1>5, <2>1, <2>2, <2>3, <2>4 DEF ListInv, ListsPartition
  <2>6. ToSet(active') # {}
    BY <2>2, <2>3
  <2> QED BY <2>1, <2>3, <2>4, <2>5, <2>6, SectorsFinite DEF ListInv, Lists, NoGc
<1>6. ASSUME ListInv, NEW k \in Keys, NEW v \in Values, Set(k, v) PROVE ListInv'
  BY <1>6 DEF Set, lists, ListInv, Lists, ListsPartition
<1>7. ASSUME ListInv, NEW k \in Keys, NEW t \in Types, Get(k, t) \/ Del(k, t) PROVE ListInv'
  BY <1>7 DEF Get, Del, lists, ListInv, Lists, ListsPartition
<1> QED BY <1>1, <1>2, <1>3, <1>4, <1>5, <1>6, <1>7 DEF Write, Gc

\* A power failure forgets the lists.
LEMMA PowerLossLists == PowerLoss => ListInv'
<1> SUFFICES ASSUME PowerLoss PROVE ListInv'
  OBVIOUS
<1>1. active' = <<>> /\ idle' = <<>> /\ pc' = "off" /\ gc' = NoGc
  BY DEF PowerLoss
<1> QED BY <1>1, EmptyIsDistinct, SectorsFinite
        DEF ListInv, Lists, ListsPartition, GcRunning, NoGc

LEMMA ListInvStep == ListInv /\ [Next]_vars => ListInv'
<1>1. CASE UNCHANGED vars
  BY <1>1 DEF vars, ListInv, Lists, ListsPartition, GcRunning
<1> QED BY <1>1, MountLists, CallLists, PowerLossLists DEF Next

\* Every sector is on one of the two lists, once, from the end of the load on:
\* activating, reclaiming, rolling back and power failures lose none.
THEOREM SectorsStayListed == Spec => []ListsPartition
<1>1. ListInv /\ [Next]_vars => ListInv'
  BY ListInvStep
<1>2. ListInv => ListsPartition
  BY DEF ListInv
<1> QED BY <1>1, <1>2, InitListInv, PTL DEF Spec
-------------------------------------------------------------------------------
(* Weak types.  How far an item can lie into its sector is a matter of     *)
(* invariants of its own; for the marks below it is enough that places,    *)
(* spans and counters are numbers.                                         *)

State == {"uninit", "using", "deleting", "crash"}
AnyItem == [at : Nat, span : Nat, key : Keys \cup {None}, val : Values \cup {None},
            state : {"using", "dropped"}, crcItem : BOOLEAN, crcData : BOOLEAN]
FlashSector == [state : State, serial : Nat, items : Seq(AnyItem), stray : SUBSET Nat]
RamSector == [state : State, serial : Nat, free : Nat, used : Nat, droped : Nat]
OldPlace == [sec : Sectors, at : Nat, span : Nat]
SetOp == [key : Keys, val : Values, again : BOOLEAN, old : OldPlace \cup {None}]

WeakTypes ==
  /\ flash \in [Sectors -> FlashSector]
  /\ ram \in [Sectors -> RamSector]
  /\ sn \in Nat
  /\ op \in SetOp \cup {NoOp}
  /\ gc \in [src : Sectors, dst : Sectors, next : Nat \ {0}, to : Nat]
  /\ pc \in {"put", "drop", "request", "gc_mark"} => op \in SetOp
  /\ pc \in {"off", "fix_write", "fix_gc", "fix_take", "settle", "ready"} => op = NoOp

LEMMA SetOpKey == \A o \in SetOp \cup {NoOp} : o \in SetOp <=> o.key # None
BY NoneAssumption DEF SetOp, NoOp

LEMMA ByteType == Byte \in Nat \ {0} /\ EntryCount \in Nat /\ Overlong \in Nat
BY SizesAssumption DEF Byte, Overlong

LEMMA BlankType == Blank \in FlashSector /\ Blank.state = "uninit"
BY EmptySeq DEF Blank, FlashSector, State

LEMMA FreshType ==
  ASSUME NEW n \in Nat PROVE FreshInfo(n) \in RamSector /\ FreshInfo(n).state = "uninit"
BY DEF FreshInfo, Info, RamSector, State

\* An item over stray state bytes is still an item.
LEMMA LandedType ==
  ASSUME NEW i \in AnyItem, NEW b, NEW c \in BOOLEAN
  PROVE  [i EXCEPT !.state = IF b THEN "dropped" ELSE @, !.crcData = @ /\ c] \in AnyItem
<1>1. (i.crcData /\ c) \in BOOLEAN
  OBVIOUS
<1>2. \A d \in BOOLEAN :
        [i EXCEPT !.state = IF b THEN "dropped" ELSE @, !.crcData = d] \in AnyItem
  BY DEF AnyItem
<1> QED BY <1>1, <1>2

\* What the header of a sector says, in flash or in the manager's table.
SameHeads(f, g) ==
  \A t \in Sectors : f[t].state = g[t].state /\ f[t].serial = g[t].serial

\* Writing fields of a sector in flash.
LEMMA FlashUpdate ==
  ASSUME NEW f \in [Sectors -> FlashSector], NEW s \in Sectors
  PROVE  /\ \A q \in Seq(AnyItem) :
              /\ [f EXCEPT ![s].items = q] \in [Sectors -> FlashSector]
              /\ SameHeads([f EXCEPT ![s].items = q], f)
         /\ \A st \in State, n \in Nat :
              /\ [f EXCEPT ![s].state = st] \in [Sectors -> FlashSector]
              /\ [f EXCEPT ![s].state = st, ![s].serial = n] \in [Sectors -> FlashSector]
BY DEF FlashSector, SameHeads

\* wm_nvs_sector_write_item_data
LEMMA ProgramType ==
  ASSUME NEW f \in [Sectors -> FlashSector], NEW s \in Sectors, NEW i \in AnyItem
  PROVE  /\ Program(f, s, i) \in [Sectors -> FlashSector]
         /\ SameHeads(Program(f, s, i), f)
<1> DEFINE burnt == f[s].stray \cap Slices(i)
           landed == [i EXCEPT !.state = IF i.at \in burnt THEN "dropped" ELSE @,
                               !.crcData = @ /\ burnt \subseteq {i.at}]
<1>1. (burnt \subseteq {i.at}) \in BOOLEAN
  OBVIOUS
<1>2. landed \in AnyItem
  BY <1>1, LandedType
<1>3. f[s].items \in Seq(AnyItem)
  BY DEF FlashSector
<1>4. Append(f[s].items, landed) \in Seq(AnyItem)
  BY <1>2, <1>3, AppendProperties
<1>5. PICK q \in Seq(AnyItem) : Program(f, s, i) = [f EXCEPT ![s].items = q]
  BY <1>4 DEF Program
<1> HIDE DEF burnt, landed
<1>6. /\ [f EXCEPT ![s].items = q] \in [Sectors -> FlashSector]
      /\ SameHeads([f EXCEPT ![s].items = q], f)
  BY FlashUpdate
<1> QED BY <1>5, <1>6, Zenon

\* wm_nvs_sector_erase_item
LEMMA DropAtType ==
  ASSUME NEW f \in [Sectors -> FlashSector], NEW s \in Sectors, NEW n \in Nat
  PROVE  /\ DropAt(f, s, n) \in [Sectors -> FlashSector]
         /\ SameHeads(DropAt(f, s, n), f)
<1> DEFINE q == f[s].items
           r == [j \in DOMAIN q |-> IF q[j].at = n THEN [q[j] EXCEPT !.state = "dropped"]
                                                  ELSE q[j]]
<1>1. q \in Seq(AnyItem) /\ f[s].stray \in SUBSET Nat
  BY DEF FlashSector
<1>2. Len(q) \in Nat /\ DOMAIN q = 1..Len(q) /\ \A j \in 1..Len(q) : q[j] \in AnyItem
  BY <1>1, LenProperties, ElementOfSeq
<1>3. r \in [1..Len(q) -> AnyItem]
  BY <1>2 DEF AnyItem
<1>4. r \in Seq(AnyItem)
  BY <1>2, <1>3, SeqDef
<1>5. PICK x \in Seq(AnyItem), y \in SUBSET Nat :
        \/ DropAt(f, s, n) = [f EXCEPT ![s].items = x]
        \/ DropAt(f, s, n) = [f EXCEPT ![s].stray = y]
  <2>1. f[s].stray \cup {n} \in SUBSET Nat
    BY <1>1
  <2>2. \/ DropAt(f, s, n) = [f EXCEPT ![s].items = r]
        \/ DropAt(f, s, n) = [f EXCEPT ![s].stray = f[s].stray \cup {n}]
    BY DEF DropAt
  <2> QED BY <1>4, <2>1, <2>2
<1> HIDE DEF q, r
<1>6. /\ [f EXCEPT ![s].items = x] \in [Sectors -> FlashSector]
      /\ SameHeads([f EXCEPT ![s].items = x], f)
  BY FlashUpdate
<1>7. /\ [f EXCEPT ![s].stray = y] \in [Sectors -> FlashSector]
      /\ SameHeads([f EXCEPT ![s].stray = y], f)
  BY DEF FlashSector, SameHeads
<1>8. CASE DropAt(f, s, n) = [f EXCEPT ![s].items = x]
  BY <1>6, <1>8, Zenon
<1>9. CASE DropAt(f, s, n) = [f EXCEPT ![s].stray = y]
  BY <1>7, <1>9, Zenon
<1> QED BY <1>5, <1>8, <1>9

LEMMA CountersType ==
  ASSUME WeakTypes, NEW s \in Sectors, NEW n \in Nat
  PROVE  /\ AddItem(s, n) \in [Sectors -> RamSector]
         /\ AddDroped(ram, s, n) \in [Sectors -> RamSector]
         /\ SameHeads(AddItem(s, n), ram) /\ SameHeads(AddDroped(ram, s, n), ram)
<1>1. ram \in [Sectors -> RamSector] /\ ram[s] \in RamSector
  BY DEF WeakTypes
<1>2. ram[s].free \in Nat /\ ram[s].used \in Nat /\ ram[s].droped \in Nat
  BY <1>1 DEF RamSector
<1> DEFINE a == (ram[s].free + n) % Byte
           b == (ram[s].used + n) % Byte
           c == (ram[s].droped + n) % Byte
<1>3. a \in Nat /\ b \in Nat /\ c \in Nat
  BY <1>2, ByteType
<1>4. /\ AddItem(s, n) = [ram EXCEPT ![s].free = a, ![s].used = b]
      /\ AddDroped(ram, s, n) = [ram EXCEPT ![s].droped = c]
  BY DEF AddItem, AddDroped
<1> HIDE DEF a, b, c
<1>5. /\ [ram EXCEPT ![s].free = a, ![s].used = b] \in [Sectors -> RamSector]
      /\ SameHeads([ram EXCEPT ![s].free = a, ![s].used = b], ram)
  BY <1>1, <1>3 DEF RamSector, SameHeads
<1>6. /\ [ram EXCEPT ![s].droped = c] \in [Sectors -> RamSector]
      /\ SameHeads([ram EXCEPT ![s].droped = c], ram)
  BY <1>1, <1>3 DEF RamSector, SameHeads
<1> QED BY <1>4, <1>5, <1>6, Zenon

\* Counters of the manager read from flash are numbers.
LEMMA TakenType ==
  ASSUME NEW q \in Seq(AnyItem), NEW J \in SUBSET DOMAIN q
  PROVE  Taken(q, J) \in Nat /\ IsFiniteSet(UNION {Slices(q[j]) : j \in J})
<1> DEFINE S == {Slices(q[j]) : j \in J}
           g == [j \in J |-> Slices(q[j])]
<1>1. Len(q) \in Nat /\ DOMAIN q = 1..Len(q) /\ \A j \in 1..Len(q) : q[j] \in AnyItem
  BY LenProperties, ElementOfSeq
<1>2. IsFiniteSet(J)
  <2>1. IsFiniteSet(1..Len(q))
    BY <1>1, FS_Interval
  <2> QED BY <1>1, <2>1, FS_Subset
<1>3. IsFiniteSet(S)
  <2>1. g \in Surjection(J, S)
    BY DEF Surjection
  <2> QED BY <1>2, <2>1, FS_Surjection
<1>4. \A j \in J : IsFiniteSet(Slices(q[j]))
  <2> TAKE j \in J
  <2>1. q[j].at \in Int /\ q[j].at + q[j].span - 1 \in Int
    BY <1>1 DEF AnyItem
  <2> QED BY <2>1, FS_Interval DEF Slices
<1>5. IsFiniteSet(UNION S)
  <2>1. \A T \in S : IsFiniteSet(T)
    BY <1>4
  <2> HIDE DEF S
  <2> QED BY <1>3, <2>1, FS_UNION
<1> QED BY <1>5, FS_CardinalityType DEF Taken

LEMMA EndType == \A q \in Seq(AnyItem) : End(q) \in Nat
<1> TAKE q \in Seq(AnyItem)
<1>1. CASE q = <<>>
  BY <1>1 DEF End
<1>2. CASE q # <<>>
  <2>1. q[Len(q)] \in AnyItem
    BY <1>2, LenProperties, ElementOfSeq, EmptySeq
  <2>2. q[Len(q)].at + q[Len(q)].span \in Nat
    BY <2>1 DEF AnyItem
  <2> QED BY <1>2, <2>2 DEF End
<1> QED BY <1>1, <1>2

LEMMA LoadedType ==
  ASSUME NEW f \in FlashSector
  PROVE  /\ LoadedInfo(f) \in RamSector
         /\ LoadedInfo(f).state = "deleting" <=> f.state = "deleting"
         /\ Good(LoadedInfo(f)) <=> Good(f)
         /\ Good(f) => LoadedInfo(f).serial = f.serial
<1>1. /\ f.state \in State /\ f.serial \in Nat /\ f.items \in Seq(AnyItem)
      /\ EntryCount \in Nat /\ Byte \in Nat \ {0} /\ Overlong \in Nat
  BY ByteType DEF FlashSector
<1>2. CASE Good(f)
  <2> DEFINE items == Walked(f)
             dropped == {j \in DOMAIN items : items[j].state = "dropped"}
             torn == {j \in DOMAIN items : Torn(items[j])}
             stray == [at |-> End(f.items), span |-> Overlong, key |-> None, val |-> None,
                       state |-> "dropped", crcItem |-> FALSE, crcData |-> FALSE]
  <2>1. End(f.items) \in Nat
    BY <1>1, EndType
  <2>2. stray \in AnyItem
    BY <1>1, <2>1 DEF AnyItem
  <2>3. items \in Seq(AnyItem)
    BY <1>1, <2>2, AppendProperties DEF Walked
  <2>4. End(items) \in Nat
    BY <2>3, EndType
  <2>5. Taken(items, DOMAIN items) \in Nat
    BY <2>3, TakenType
  <2>6. Taken(items, dropped) \in Nat
    BY <2>3, TakenType
  <2>7. Taken(items, torn) \in Nat
    BY <2>3, TakenType
  <2> DEFINE n == Smaller(End(items), EntryCount)
             u == Taken(items, DOMAIN items) % Byte
             d == (Taken(items, dropped) + 2 * Taken(items, torn)) % Byte
  <2>8. n \in Nat /\ u \in Nat /\ d \in Nat
    BY <1>1, <2>4, <2>5, <2>6, <2>7 DEF Smaller
  <2>9. LoadedInfo(f) = Info(f.state, f.serial, n, u, d)
    BY <1>2 DEF LoadedInfo
  <2> HIDE DEF n, u, d
  <2> QED BY <1>1, <1>2, <2>8, <2>9 DEF Info, RamSector, Good
<1>3. CASE ~Good(f)
  <2>1. PICK st \in {"uninit", "crash"} : LoadedInfo(f) = Info(st, 0, 0, 0, 0)
    BY <1>1, <1>3 DEF LoadedInfo, Good, State
  <2>2. f.state # "deleting"
    BY <1>3 DEF Good
  <2> QED BY <1>3, <2>1, <2>2 DEF Info, RamSector, State, Good
<1> QED BY <1>2, <1>3

\* sector_update_slice_and_hash drops items in flash and changes no mark.
LEMMA CleanedType ==
  ASSUME NEW f \in FlashSector
  PROVE  /\ Cleaned(f) \in FlashSector
         /\ Cleaned(f).state = f.state /\ Cleaned(f).serial = f.serial
<1> DEFINE q == f.items
           r == [j \in DOMAIN q |-> IF Torn(q[j]) THEN [q[j] EXCEPT !.state = "dropped"]
                                                  ELSE q[j]]
<1>1. q \in Seq(AnyItem)
  BY DEF FlashSector
<1>2. Len(q) \in Nat /\ DOMAIN q = 1..Len(q) /\ \A j \in 1..Len(q) : q[j] \in AnyItem
  BY <1>1, LenProperties, ElementOfSeq
<1>3. r \in [1..Len(q) -> AnyItem]
  BY <1>2 DEF AnyItem
<1>4. PICK x \in Seq(AnyItem) : Cleaned(f) = [f EXCEPT !.items = x]
  <2>1. r \in Seq(AnyItem)
    BY <1>3, <1>2, SeqDef
  <2>2. Cleaned(f) = [f EXCEPT !.items = r]
    BY DEF Cleaned
  <2> QED BY <2>1, <2>2
<1> HIDE DEF q, r
<1>5. /\ [f EXCEPT !.items = x] \in FlashSector
      /\ [f EXCEPT !.items = x].state = f.state /\ [f EXCEPT !.items = x].serial = f.serial
  BY DEF FlashSector
<1> QED BY <1>4, <1>5, Zenon

\* The items found by a lookup have a place.
LEMMA PlaceType ==
  ASSUME WeakTypes, Lists, NEW x, x[1] \in DOMAIN active,
         x[2] \in DOMAIN flash[active[x[1]]].items
  PROVE  Place(x) \in OldPlace
<1>1. active[x[1]] \in Sectors
  BY LenProperties, ElementOfSeq DEF Lists
<1>2. flash[active[x[1]]].items \in Seq(AnyItem)
  BY <1>1 DEF WeakTypes, FlashSector
<1>3. ItemAt(x) \in AnyItem
  BY <1>2, LenProperties, ElementOfSeq DEF ItemAt
<1> QED BY <1>1, <1>3 DEF Place, OldPlace, AnyItem

LEMMA FoundType ==
  ASSUME WeakTypes, Lists, NEW k, NEW T, NEW x \in Found(k, T), x # None
  PROVE  Place(x) \in OldPlace
<1>1. x \in Hits(k, T)
  BY DEF Found
<1>2. x[1] \in 1..Len(active) /\ x[2] \in DOMAIN flash[active[x[1]]].items
  BY <1>1 DEF Hits
<1>3. DOMAIN active = 1..Len(active)
  BY LenProperties DEF Lists
<1> QED BY <1>2, <1>3, PlaceType
-------------------------------------------------------------------------------
(* The marks of reclaiming.  A recovery can finish one reclaiming only, so *)
(* at most one sector may ever carry the mark DELETTING.  The invariant    *)
(* ties the mark to the place of the running call or mount: none outside a *)
(* reclaiming and its recovery, that of gc.src while items are copied.     *)

Marked == {s \in Sectors : flash[s].state = "deleting"}

\* The manager knows of the marks, and they are on active sectors.
MarksKnown ==
  \A s \in Sectors : /\ ram[s].state = "deleting" <=> flash[s].state = "deleting"
                     /\ flash[s].state = "deleting" => s \in ToSet(active)

MarksInPlace ==
  /\ \A s, t \in Marked : s = t
  /\ pc \in {"settle", "ready", "put", "drop", "request", "gc_mark"} => Marked = {}
  /\ pc = "gc_init" => Marked = IF op.key = None THEN {gc.src} ELSE {}
  /\ pc = "gc_copy" => Marked = {gc.src}

MarkInv == WeakTypes /\ (pc # "off" => MarksKnown) /\ MarksInPlace

Typed == flash \in [Sectors -> FlashSector] /\ ram \in [Sectors -> RamSector]

\* A step that programs items and counts slices leaves the marks alone.
SameStates ==
  /\ Typed'
  /\ SameHeads(flash', flash) /\ SameHeads(ram', ram)

\* A step that changes the states of one unmarked sector does as well.
SameBut(s) ==
  /\ Typed'
  /\ flash[s].state # "deleting" /\ flash'[s].state # "deleting"
  /\ ram'[s].state # "deleting"
  /\ \A t \in Sectors \ {s} :
       /\ flash'[t].state = flash[t].state /\ flash'[t].serial = flash[t].serial
       /\ ram'[t].state = ram[t].state /\ ram'[t].serial = ram[t].serial

LEMMA SameMarks ==
  /\ SameStates => Marked' = Marked
  /\ SameStates /\ MarksKnown /\ (\A s \in Marked : s \in ToSet(active')) => MarksKnown'
BY DEF SameStates, SameHeads, Marked, MarksKnown

LEMMA OtherMarks ==
  ASSUME NEW s \in Sectors, SameBut(s)
  PROVE  /\ Marked' = Marked
         /\ MarksKnown /\ (\A t \in Marked : t \in ToSet(active')) => MarksKnown'
BY DEF SameBut, Marked, MarksKnown

LEMMA EraseItemStates ==
  ASSUME WeakTypes, NEW p \in OldPlace, EraseItem(p) PROVE SameStates
<1>1. p.sec \in Sectors /\ p.at \in Nat /\ p.span \in Nat
  BY DEF OldPlace
<1>2. flash' = DropAt(flash, p.sec, p.at) /\ ram' = AddDroped(ram, p.sec, p.span)
  BY DEF EraseItem
<1>3. flash' \in [Sectors -> FlashSector] /\ SameHeads(flash', flash)
  BY <1>1, <1>2, DropAtType DEF WeakTypes
<1>4. ram' \in [Sectors -> RamSector] /\ SameHeads(ram', ram)
  BY <1>1, <1>2, CountersType
<1> QED BY <1>3, <1>4 DEF SameStates, Typed

\* wm_nvs_sector_write_item, and the copy of an item
LEMMA ProgramStates ==
  ASSUME WeakTypes, NEW s \in Sectors, NEW i \in AnyItem, NEW n \in Nat,
         flash' = Program(flash, s, i), ram' = AddItem(s, n)
  PROVE  SameStates
<1>1. flash' \in [Sectors -> FlashSector] /\ SameHeads(flash', flash)
  BY ProgramType DEF WeakTypes
<1>2. ram' \in [Sectors -> RamSector] /\ SameHeads(ram', ram)
  BY CountersType
<1> QED BY <1>1, <1>2 DEF SameStates, Typed

LEMMA InitSectorStates ==
  ASSUME WeakTypes, NEW s \in Sectors, flash[s].state # "deleting", InitSector(s)
  PROVE  SameBut(s)
<1>1. ram[s].serial \in Nat /\ "using" \in State
  BY DEF WeakTypes, RamSector, State
<1>2. flash' = [flash EXCEPT ![s].state = "using", ![s].serial = ram[s].serial]
  BY DEF InitSector, WriteHeader
<1>3. /\ flash' \in [Sectors -> FlashSector] /\ flash'[s].state = "using"
      /\ \A t \in Sectors \ {s} :
           flash'[t].state = flash[t].state /\ flash'[t].serial = flash[t].serial
  BY <1>1, <1>2 DEF WeakTypes, FlashSector
<1>4. ram' = [ram EXCEPT ![s] = Info("using", ram[s].serial, 0, 0, 0)]
  BY DEF InitSector
<1>5. /\ ram' \in [Sectors -> RamSector] /\ ram'[s].state = "using"
      /\ \A t \in Sectors \ {s} :
           ram'[t].state = ram[t].state /\ ram'[t].serial = ram[t].serial
  BY <1>1, <1>4 DEF WeakTypes, RamSector, Info
<1> QED BY <1>3, <1>5 DEF SameBut, Typed

LEMMA EraseStates ==
  ASSUME WeakTypes, NEW s \in Sectors, NEW n \in Nat
  PROVE  /\ EraseSector(flash, s) \in [Sectors -> FlashSector]
         /\ EraseSector(flash, s)[s].state = "uninit"
         /\ \A t \in Sectors \ {s} : EraseSector(flash, s)[t] = flash[t]
         /\ [ram EXCEPT ![s] = FreshInfo(n)] \in [Sectors -> RamSector]
         /\ [ram EXCEPT ![s] = FreshInfo(n)][s].state = "uninit"
         /\ \A t \in Sectors \ {s} : [ram EXCEPT ![s] = FreshInfo(n)][t] = ram[t]
BY BlankType, FreshType DEF WeakTypes, EraseSector

\* sm_active_sector takes a sector without a mark.
LEMMA ActivateMarks ==
  ASSUME WeakTypes, MarksKnown, Lists, ListsPartition, pc # "off", Activate
  PROVE  Typed' /\ sn' \in Nat /\ MarksKnown' /\ Marked' = Marked
<1> DEFINE h == Head(idle)
<1>1. h \in Sectors /\ h \notin ToSet(active) /\ ToSet(active') = ToSet(active) \cup {h}
  BY ActivateKeepsLists
<1>2. /\ flash' = IF ram[h].state = "crash" THEN EraseSector(flash, h) ELSE flash
      /\ ram' = IF ram[h].state = "crash" THEN [ram EXCEPT ![h] = FreshInfo(sn)]
                                           ELSE [ram EXCEPT ![h].serial = sn]
      /\ sn' = sn + 1 /\ sn \in Nat
  BY DEF Activate, WeakTypes
<1>3. flash[h].state # "deleting" /\ ram[h].state # "deleting"
  BY <1>1 DEF MarksKnown
<1>4. SameBut(h)
  <2>1. CASE ram[h].state = "crash"
    <3>1. flash' = EraseSector(flash, h) /\ ram' = [ram EXCEPT ![h] = FreshInfo(sn)]
      BY <1>2, <2>1
    <3> QED BY <1>1, <1>2, <1>3, <3>1, EraseStates DEF SameBut, Typed
  <2>2. CASE ram[h].state # "crash"
    <3>1. flash' = flash /\ ram' = [ram EXCEPT ![h].serial = sn]
      BY <1>2, <2>2
    <3>2. /\ ram' \in [Sectors -> RamSector]
          /\ ram'[h].state = ram[h].state /\ \A t \in Sectors \ {h} : ram'[t] = ram[t]
      BY <1>1, <1>2, <3>1 DEF WeakTypes, RamSector
    <3> QED BY <1>1, <1>3, <3>1, <3>2 DEF SameBut, Typed, WeakTypes
  <2> QED BY <2>1, <2>2
<1>5. \A t \in Marked : t \in ToSet(active')
  BY <1>1 DEF Marked, MarksKnown
<1> HIDE DEF h
<1>6. Typed' /\ MarksKnown' /\ Marked' = Marked
  BY <1>1, <1>4, <1>5, OtherMarks DEF SameBut
<1> QED BY <1>2, <1>6

LEMMA NothingWritten ==
  ASSUME WeakTypes, UNCHANGED <<flash, ram>> PROVE SameStates
BY DEF WeakTypes, SameStates, SameHeads, Typed

LEMMA NewItemType ==
  ASSUME NEW k \in Keys, NEW v \in Values, NEW n \in Nat
  PROVE  NewItem(k, v, n) \in AnyItem /\ NewItem(k, v, n).at = n
<1>1. Span[v] \in Nat
  BY SizesAssumption
<1> QED BY <1>1 DEF NewItem, AnyItem

LEMMA CurrentType ==
  ASSUME ListInv, pc \notin {"off", "fix_write", "fix_take"}
  PROVE  active # <<>> /\ Current \in Sectors /\ Current \in ToSet(active)
<1>1. active # <<>>
  BY EmptyIsDistinct DEF ListInv
<1> QED BY <1>1, FrontOnly DEF ListInv, Lists, ListsPartition, Current

LEMMA GcItemType ==
  ASSUME WeakTypes, GcMore
  PROVE  GcItem \in AnyItem /\ [GcItem EXCEPT !.at = gc.to] \in AnyItem
<1>1. gc.src \in Sectors /\ gc.to \in Nat /\ gc.next \in Nat \ {0}
  BY DEF WeakTypes
<1>2. flash[gc.src].items \in Seq(AnyItem)
  BY <1>1 DEF WeakTypes, FlashSector
<1>3. gc.next \in 1..Len(flash[gc.src].items)
  BY <1>1, <1>2, LenProperties DEF GcMore
<1>4. GcItem \in AnyItem
  BY <1>2, <1>3, ElementOfSeq DEF GcItem
<1> QED BY <1>1, <1>4 DEF AnyItem

\* The steps that only clear the state byte of an item, if they write at all.
LEMMA DropSteps ==
  ASSUME ListInv, WeakTypes,
         FixWrite \/ DropOld \/ \E k \in Keys, t \in Types : Del(k, t)
  PROVE  UNCHANGED <<flash, ram>> \/ \E p \in OldPlace : EraseItem(p)
<1> USE DEF ListInv
<1>1. ASSUME NEW k, NEW T, NEW x \in Found(k, T), x # None, EraseItem(Place(x))
      PROVE  \E p \in OldPlace : EraseItem(p)
  BY <1>1, FoundType
<1>2. CASE FixWrite
  <2>1. /\ active # <<>>
        /\ \/ UNCHANGED <<flash, ram>>
           \/ \E j \in InUse(Current) : EraseItem(Place(<<Len(active), j>>))
           \/ \E k, T : \E x \in Found(k, T) : x # None /\ EraseItem(Place(x))
    BY <1>2 DEF FixWrite
  <2>2. ASSUME NEW j \in InUse(Current), EraseItem(Place(<<Len(active), j>>))
        PROVE  \E p \in OldPlace : EraseItem(p)
    <3>1. Len(active) \in DOMAIN active /\ Current = active[Len(active)]
      BY <2>1, LenProperties, EmptySeq DEF Lists, Current, Last
    <3>2. Place(<<Len(active), j>>) \in OldPlace
      BY <3>1, PlaceType DEF InUse
    <3> QED BY <2>2, <3>2
  <2> QED BY <1>1, <2>1, <2>2
<1>3. CASE DropOld
  <2>1. /\ pc = "drop" /\ op \in SetOp
        /\ UNCHANGED <<flash, ram>> \/ (op.old # None /\ EraseItem(op.old))
    BY <1>3 DEF DropOld, WeakTypes
  <2>2. op.old \in OldPlace \cup {None}
    BY <2>1 DEF SetOp
  <2> QED BY <2>1, <2>2
<1>4. CASE \E k \in Keys, t \in Types : Del(k, t)
  <2>1. \/ UNCHANGED <<flash, ram>>
        \/ \E k, T : \E x \in Found(k, T) : x # None /\ EraseItem(Place(x))
    BY <1>4 DEF Del
  <2> QED BY <1>1, <2>1
<1> QED BY <1>2, <1>3, <1>4

LEMMA PutItemType ==
  ASSUME ListInv, WeakTypes, pc = "put"
  PROVE  /\ Current \in Sectors /\ Current \in ToSet(active)
         /\ ram[Current].free \in Nat /\ Span[op.val] \in 1..EntryCount
         /\ NewItem(op.key, op.val, ram[Current].free) \in AnyItem
<1>1. Current \in Sectors /\ Current \in ToSet(active) /\ op.key \in Keys /\ op.val \in Values
  BY CurrentType DEF WeakTypes, SetOp
<1>2. ram[Current].free \in Nat /\ Span[op.val] \in 1..EntryCount
  BY <1>1, SizesAssumption DEF WeakTypes, RamSector
<1> QED BY <1>1, <1>2, NewItemType

\* Writing, dropping and copying an item touch no sector header.
LEMMA ItemSteps ==
  ASSUME ListInv, WeakTypes,
         \/ FixWrite \/ PutItem \/ DropOld \/ GcCopy
         \/ \E k \in Keys, t \in Types : Del(k, t)
  PROVE  SameStates
<1>1. CASE FixWrite \/ DropOld \/ \E k \in Keys, t \in Types : Del(k, t)
  BY <1>1, DropSteps, EraseItemStates, NothingWritten
<1>2. CASE PutItem
  <2>1. /\ pc = "put"
        /\ flash' = Program(flash, Current, NewItem(op.key, op.val, ram[Current].free))
        /\ ram' = AddItem(Current, Span[op.val])
    BY <1>2 DEF PutItem
  <2>2. Span[op.val] \in Nat
    BY <2>1, PutItemType
  <2> QED BY <2>1, <2>2, PutItemType, ProgramStates
<1>3. CASE GcCopy
  <2>1. /\ GcMore
        /\ \/ /\ flash' = Program(flash, gc.dst, [GcItem EXCEPT !.at = gc.to])
              /\ ram' = AddItem(gc.dst, GcItem.span)
           \/ UNCHANGED <<flash, ram>>
    BY <1>3 DEF GcCopy
  <2>2. GcItem.span \in Nat /\ [GcItem EXCEPT !.at = gc.to] \in AnyItem /\ gc.dst \in Sectors
    BY <2>1, GcItemType DEF AnyItem, WeakTypes
  <2> QED BY <2>1, <2>2, ProgramStates, NothingWritten
<1> QED BY <1>1, <1>2, <1>3

\* A mount finishes the one reclaiming a power failure may have left.
LEMMA MountMarks ==
  ASSUME ListInv, MarkInv, Mount PROVE MarkInv'
<1> USE DEF MarkInv, ListInv
<1>1. CASE Load
  <2>1. /\ pc = "off" /\ pc' = "fix_write" /\ op' = op /\ gc' = gc /\ op = NoOp
        /\ flash' = [s \in Sectors |-> IF Good(flash[s]) THEN Cleaned(flash[s]) ELSE flash[s]]
        /\ ram' = [s \in Sectors |-> LoadedInfo(flash[s])]
    BY <1>1 DEF Load, WeakTypes
  <2>2. \A s \in Sectors : flash[s] \in FlashSector
    BY DEF WeakTypes
  <2>3. /\ flash' \in [Sectors -> FlashSector]
        /\ \A s \in Sectors : flash'[s].state = flash[s].state
    BY <2>1, <2>2, CleanedType
  <2>4. /\ ram' \in [Sectors -> RamSector]
        /\ \A s \in Sectors : ram'[s].state = "deleting" <=> flash[s].state = "deleting"
    BY <2>1, <2>2, LoadedType
  <2>5. Marked' = Marked
    BY <2>3 DEF Marked
  <2> DEFINE good == {s \in Sectors : Good(flash[s])}
  <2>6. active' \in SetToSeqs(good) /\ IsFiniteSet(good)
    <3>1. active' \in SetToSeqs(good)
      BY <1>1 DEF Load, SortedBy
    <3> QED BY <3>1, SectorsFinite, FS_Subset
  <2>7. ToSet(active') = good /\ active' \in Seq(Sectors) /\ IsInjective(active')
    BY <2>6, ListOfSet, LoadLists, <1>1
  <2>8. MarksKnown'
    BY <2>3, <2>4, <2>7 DEF MarksKnown, Good
  <2>9. sn' \in Nat
    <3>1. CASE good = {}
      BY <1>1, <3>1 DEF Load
    <3>2. CASE good # {}
      <4>1. sn' = ram'[Last(active')].serial + 1
        BY <1>1, <3>2 DEF Load
      <4>2. active' # <<>>
        BY <2>7, <3>2, EmptyIsDistinct
      <4>3. Last(active') \in Sectors
        BY <2>7, <4>2, FrontOnly
      <4>4. ram'[Last(active')].serial \in Nat
        BY <2>4, <4>3 DEF RamSector
      <4> QED BY <4>1, <4>4
    <3> QED BY <3>1, <3>2
  <2> QED BY <2>1, <2>3, <2>4, <2>5, <2>8, <2>9 DEF WeakTypes, MarksInPlace
<1>2. CASE LoadFirst
  <2>1. pc = "fix_write" /\ pc' = pc /\ op' = op /\ gc' = gc /\ Activate
    BY <1>2 DEF LoadFirst
  <2>2. Typed' /\ sn' \in Nat /\ MarksKnown' /\ Marked' = Marked
    BY <2>1, ActivateMarks
  <2> QED BY <2>1, <2>2 DEF WeakTypes, Typed, MarksInPlace
<1>3. CASE FixWrite
  <2>1. /\ pc = "fix_write" /\ pc' = "fix_gc" /\ op' = op /\ gc' = gc /\ sn' = sn
        /\ active # <<>> /\ active' = active
        /\ \/ UNCHANGED <<flash, ram>>
           \/ \E j \in InUse(Current) : EraseItem(Place(<<Len(active), j>>))
           \/ \E k, T : \E x \in Found(k, T) : x # None /\ EraseItem(Place(x))
    BY <1>3 DEF FixWrite, lists
  <2>2. SameStates
    BY <1>3, ItemSteps
  <2>3. Marked' = Marked /\ MarksKnown'
    BY <2>1, <2>2, SameMarks DEF Marked, MarksKnown
  <2> QED BY <2>1, <2>2, <2>3 DEF SameStates, Typed, WeakTypes, MarksInPlace
<1>4. CASE FixGcErase
  <2>1. /\ pc = "fix_gc" /\ op' = op /\ gc' = gc /\ sn' = sn /\ op = NoOp
        /\ \/ /\ Deleting = {} /\ pc' = "settle"
              /\ UNCHANGED <<flash, ram, active>>
           \/ /\ pc' = "fix_take"
              /\ UNCHANGED <<flash, ram, active>>
           \/ /\ pc' = "fix_take" /\ active # <<>>
              /\ ram[Current].state = "using"
              /\ flash' = EraseSector(flash, Current)
              /\ ram' = [ram EXCEPT ![Current] = FreshInfo(ram[Current].serial)]
              /\ active' = Front(active)
    BY <1>4 DEF FixGcErase, WeakTypes, Deleting
  <2>2. CASE Deleting = {} /\ pc' = "settle" /\ UNCHANGED <<flash, ram, active>>
    <3>1. Marked = {}
      <4>1. ASSUME NEW s \in Marked PROVE FALSE
        <5>1. s \in ToSet(active) /\ ram[s].state = "deleting"
          BY <2>1 DEF Marked, MarksKnown
        <5>2. PICK i \in DOMAIN active : active[i] = s
          BY <5>1 DEF ToSet
        <5> QED BY <2>2, <5>1, <5>2 DEF Deleting
      <4> QED BY <4>1
    <3> QED BY <2>1, <2>2, <3>1 DEF WeakTypes, MarksKnown, MarksInPlace, Marked
  <2>3. CASE pc' = "fix_take" /\ UNCHANGED <<flash, ram, active>>
    BY <2>1, <2>3 DEF WeakTypes, MarksKnown, MarksInPlace, Marked
  <2>4. CASE /\ pc' = "fix_take" /\ active # <<>>
             /\ ram[Current].state = "using"
             /\ flash' = EraseSector(flash, Current)
             /\ ram' = [ram EXCEPT ![Current] = FreshInfo(ram[Current].serial)]
             /\ active' = Front(active)
    <3>1. Current \in Sectors /\ ToSet(active') = ToSet(active) \ {Current}
      BY <2>1, <2>4, FrontOnly DEF Lists, ListsPartition, Current
    <3>2. ram[Current].serial \in Nat
      BY <3>1 DEF WeakTypes, RamSector
    <3>3. flash[Current].state # "deleting"
      BY <2>1, <2>4, <3>1 DEF MarksKnown
    <3>4. SameBut(Current)
      BY <2>4, <3>1, <3>2, <3>3, EraseStates DEF SameBut, Typed
    <3>5. \A t \in Marked : t \in ToSet(active')
      BY <2>1, <3>1, <3>3 DEF Marked, MarksKnown
    <3>6. Marked' = Marked /\ MarksKnown'
      BY <2>1, <3>1, <3>4, <3>5, OtherMarks
    <3> QED BY <2>1, <2>4, <3>4, <3>6 DEF SameBut, Typed, WeakTypes, MarksInPlace
  <2> QED BY <2>1, <2>2, <2>3, <2>4
<1>5. CASE FixGcTake
  <2>1. pc = "fix_take" /\ pc' = "gc_init" /\ op' = op /\ op = NoOp /\ Activate
    BY <1>5 DEF FixGcTake, WeakTypes
  <2>2. PICK i \in Deleting : gc' = [NoGc EXCEPT !.src = active[i], !.dst = Head(idle)]
    BY <1>5 DEF FixGcTake
  <2>3. active[i] \in Sectors /\ ram[active[i]].state = "deleting" /\ Head(idle) \in Sectors
    BY <2>1, LenProperties, ElementOfSeq, ActivateKeepsLists DEF Deleting, Lists
  <2>4. gc' = [src |-> active[i], dst |-> Head(idle), next |-> 1, to |-> 0]
    BY <2>2 DEF NoGc
  <2>5. Typed' /\ sn' \in Nat /\ MarksKnown' /\ Marked' = Marked
    BY <2>1, ActivateMarks
  <2>6. Marked = {active[i]}
    BY <2>1, <2>3 DEF MarksKnown, MarksInPlace, Marked
  <2>7. op'.key = None
    BY <2>1 DEF NoOp
  <2> QED BY <2>1, <2>3, <2>4, <2>5, <2>6, <2>7 DEF WeakTypes, Typed, MarksInPlace
<1>6. CASE Settle
  <2>1. /\ pc = "settle" /\ pc' = "ready" /\ gc' = gc /\ op' = op /\ sn' = sn
        /\ UNCHANGED <<flash, ram>> /\ op = NoOp /\ Marked = {}
    BY <1>6 DEF Settle, WeakTypes, MarksInPlace
  <2> QED BY <2>1 DEF WeakTypes, MarksKnown, MarksInPlace, Marked
<1> QED BY <1>1, <1>2, <1>3, <1>4, <1>5, <1>6 DEF Mount

\* Reads, deletions and writes run between reclaimings and leave no mark.
LEMMA CallMarks ==
  ASSUME ListInv, MarkInv,
         \/ Write
         \/ \E k \in Keys, v \in Values : Set(k, v)
         \/ \E k \in Keys, t \in Types : Get(k, t) \/ Del(k, t)
  PROVE  MarkInv'
<1> USE DEF MarkInv, ListInv
<1>1. ASSUME NEW k \in Keys, NEW t \in Types, Get(k, t) PROVE MarkInv'
  <2>1. pc = "ready" /\ UNCHANGED <<flash, ram, active, sn, pc, op, gc>>
    BY <1>1 DEF Get, lists
  <2> QED BY <2>1 DEF WeakTypes, MarksKnown, MarksInPlace, Marked
<1>2. ASSUME NEW k \in Keys, NEW t \in Types, Del(k, t) PROVE MarkInv'
  <2>1. pc = "ready" /\ UNCHANGED <<active, sn, pc, op, gc>>
    BY <1>2 DEF Del, lists
  <2>2. SameStates
    BY <1>2, ItemSteps
  <2>3. Marked' = Marked /\ MarksKnown'
    BY <2>1, <2>2, SameMarks DEF Marked, MarksKnown
  <2> QED BY <2>1, <2>2, <2>3 DEF SameStates, Typed, WeakTypes, MarksInPlace
<1>3. ASSUME NEW k \in Keys, NEW v \in Values, Set(k, v) PROVE MarkInv'
  <2>1. /\ pc = "ready" /\ UNCHANGED <<flash, ram, active, sn, gc>>
        /\ \/ UNCHANGED <<pc, op>>
           \/ /\ pc' = "put"
              /\ \E x \in Found(k, Types) :
                   op' = [key |-> k, val |-> v, again |-> FALSE,
                          old |-> IF x = None THEN None ELSE Place(x)]
    BY <1>3 DEF Set, lists
  <2>2. CASE UNCHANGED <<pc, op>>
    BY <2>1, <2>2 DEF WeakTypes, MarksKnown, MarksInPlace, Marked
  <2>3. ASSUME pc' = "put", NEW x \in Found(k, Types),
               op' = [key |-> k, val |-> v, again |-> FALSE,
                      old |-> IF x = None THEN None ELSE Place(x)]
        PROVE  MarkInv'
    <3>1. (IF x = None THEN None ELSE Place(x)) \in OldPlace \cup {None}
      BY FoundType
    <3>2. op' \in SetOp
      BY <2>3, <3>1 DEF SetOp
    <3>3. Marked = {}
      BY <2>1 DEF MarksInPlace
    <3> QED BY <2>1, <2>3, <3>2, <3>3 DEF WeakTypes, MarksKnown, MarksInPlace, Marked
  <2> QED BY <2>1, <2>2, <2>3
<1>4. ASSUME Write PROVE MarkInv'
  <2>1. pc \in {"put", "drop", "request"} /\ Marked = {} /\ op \in SetOp
    BY <1>4 DEF Write, PutInit, PutItem, PutFull, DropOld, TakeIdle, NoSpace,
                MarksInPlace, WeakTypes
  <2>2. /\ op.key \in Keys /\ op.val \in Values /\ op.old \in OldPlace \cup {None}
        /\ [op EXCEPT !.again = TRUE] \in SetOp
    BY <2>1 DEF SetOp
  <2>3. Current \in Sectors
    <3>1. active # <<>>
      BY <2>1, EmptyIsDistinct
    <3> QED BY <3>1, <2>1, FrontOnly DEF Lists, ListsPartition, Current
  <2>4. CASE PutInit
    <3>1. /\ pc = "put" /\ ram[Current].state = "uninit" /\ InitSector(Current)
          /\ UNCHANGED <<active, sn, pc, op, gc>>
      BY <2>4 DEF PutInit, lists
    <3>2. flash[Current].state # "deleting"
      BY <2>1, <2>3 DEF Marked
    <3>3. SameBut(Current)
      BY <2>3, <3>1, <3>2, InitSectorStates
    <3>4. Marked' = Marked /\ MarksKnown'
      BY <2>1, <2>3, <3>3, OtherMarks
    <3> QED BY <2>1, <3>1, <3>3, <3>4 DEF SameBut, Typed, WeakTypes, MarksInPlace
  <2>5. CASE PutItem
    <3>1. /\ pc = "put" /\ pc' = "drop" /\ UNCHANGED <<active, sn, op, gc>>
      BY <2>5 DEF PutItem, lists
    <3>2. SameStates
      BY <2>5, ItemSteps
    <3>3. Marked' = Marked /\ MarksKnown'
      BY <2>1, <3>1, <3>2, SameMarks
    <3> QED BY <2>1, <3>1, <3>2, <3>3 DEF SameStates, Typed, WeakTypes, MarksInPlace
  <2>6. CASE PutFull \/ NoSpace
    <3>1. /\ UNCHANGED <<flash, ram, active, sn, gc>>
          /\ \/ pc' = "ready" /\ op' = NoOp
             \/ pc' = "request" /\ op' = op
      BY <2>6 DEF PutFull, NoSpace, Return, lists
    <3> QED BY <2>1, <3>1 DEF WeakTypes, MarksKnown, MarksInPlace, Marked
  <2>7. CASE DropOld
    <3>1. /\ pc' = "ready" /\ op' = NoOp /\ UNCHANGED <<active, sn, gc>>
      BY <2>7 DEF DropOld, Return, lists
    <3>2. SameStates
      BY <2>7, ItemSteps
    <3>3. Marked' = Marked /\ MarksKnown'
      BY <2>1, <3>1, <3>2, SameMarks
    <3> QED BY <2>1, <3>1, <3>2, <3>3 DEF SameStates, Typed, WeakTypes, MarksInPlace
  <2>8. CASE TakeIdle
    <3>1. pc' = "put" /\ gc' = gc /\ op' = [op EXCEPT !.again = TRUE] /\ Activate
      BY <2>8 DEF TakeIdle
    <3>2. Typed' /\ sn' \in Nat /\ MarksKnown' /\ Marked' = Marked
      BY <2>1, <3>1, ActivateMarks
    <3> QED BY <2>1, <2>2, <3>1, <3>2 DEF Typed, WeakTypes, MarksInPlace
  <2> QED BY <1>4, <2>4, <2>5, <2>6, <2>7, <2>8 DEF Write
<1> QED BY <1>1, <1>2, <1>3, <1>4

\* Reclaiming marks its sector when the copy has a header, and erases it last.
LEMMA GcMarks ==
  ASSUME ListInv, MarkInv, Gc PROVE MarkInv'
<1> USE DEF MarkInv, ListInv
<1>1. CASE GcStart
  <2>1. pc = "request" /\ pc' = "gc_init" /\ op' = op /\ op \in SetOp /\ Marked = {} /\ Activate
    BY <1>1 DEF GcStart, WeakTypes, MarksInPlace
  <2>2. PICK s \in Dirtiest : gc' = [NoGc EXCEPT !.src = s, !.dst = Head(idle)]
    BY <1>1 DEF GcStart
  <2>3. s \in Sectors /\ Head(idle) \in Sectors
    <3>1. PICK i \in DOMAIN active : s = active[i]
      BY <2>2 DEF Dirtiest
    <3>2. active[i] \in Sectors
      BY LenProperties, ElementOfSeq DEF Lists
    <3>3. Head(idle) \in Sectors
      BY <2>1, ActivateKeepsLists
    <3> QED BY <3>1, <3>2, <3>3
  <2>4. gc' = [src |-> s, dst |-> Head(idle), next |-> 1, to |-> 0]
    BY <2>2 DEF NoGc
  <2>5. Typed' /\ sn' \in Nat /\ MarksKnown' /\ Marked' = Marked
    BY <2>1, ActivateMarks
  <2>6. op'.key # None
    BY <2>1, SetOpKey
  <2> QED BY <2>1, <2>3, <2>4, <2>5, <2>6 DEF WeakTypes, Typed, MarksInPlace
<1>2. ASSUME ~GcStart PROVE MarkInv'
  <2> DEFINE src == gc.src
             dst == gc.dst
  <2>1. /\ pc \in {"gc_init", "gc_mark", "gc_copy"}
        /\ src \in Sectors /\ dst \in Sectors /\ src # dst /\ src \in ToSet(active)
        /\ gc.to \in Nat /\ gc.next \in Nat \ {0} /\ op \in SetOp \cup {NoOp}
        /\ MarksKnown
    BY <1>2 DEF Gc, GcInit, GcMark, GcCopy, GcErase, GcRunning, WeakTypes
  <2>2. CASE GcInit
    <3>1. /\ pc = "gc_init" /\ UNCHANGED <<active, sn, op, gc>>
          /\ pc' = IF op.key = None THEN "gc_copy" ELSE "gc_mark"
          /\ \/ UNCHANGED <<flash, ram>>
             \/ ram[dst].state = "uninit" /\ InitSector(dst)
      BY <2>2 DEF GcInit, lists
    <3>2. Typed' /\ Marked' = Marked /\ MarksKnown'
      <4>1. CASE UNCHANGED <<flash, ram>>
        BY <2>1, <3>1, <4>1 DEF WeakTypes, Typed, Marked, MarksKnown
      <4>2. CASE ram[dst].state = "uninit" /\ InitSector(dst)
        <5>1. flash[dst].state # "deleting"
          BY <2>1, <4>2 DEF MarksKnown
        <5>2. SameBut(dst)
          BY <2>1, <4>2, <5>1, InitSectorStates
        <5>3. \A t \in Marked : t \in ToSet(active')
          BY <2>1, <3>1 DEF Marked, MarksKnown
        <5> QED BY <2>1, <5>2, <5>3, OtherMarks DEF SameBut
      <4> QED BY <3>1, <4>1, <4>2
    <3>3. pc' = "gc_mark" => op' \in SetOp
      BY <2>1, <3>1, SetOpKey
    <3> QED BY <3>1, <3>2, <3>3 DEF WeakTypes, Typed, MarksInPlace
  <2>3. CASE GcMark
    <3>1. /\ pc = "gc_mark" /\ pc' = "gc_copy" /\ UNCHANGED <<active, sn, op, gc>>
          /\ flash' = [flash EXCEPT ![src].state = "deleting"]
          /\ ram' = [ram EXCEPT ![src].state = "deleting"]
      BY <2>3 DEF GcMark, SetState, lists
    <3>2. /\ Typed'
          /\ \A t \in Sectors :
               /\ flash'[t].state = IF t = src THEN "deleting" ELSE flash[t].state
               /\ ram'[t].state = IF t = src THEN "deleting" ELSE ram[t].state
      <4>1. "deleting" \in State
        BY DEF State
      <4>2. /\ flash' \in [Sectors -> FlashSector]
            /\ \A t \in Sectors :
                 flash'[t].state = IF t = src THEN "deleting" ELSE flash[t].state
        BY <2>1, <3>1, <4>1 DEF WeakTypes, FlashSector
      <4>3. /\ ram' \in [Sectors -> RamSector]
            /\ \A t \in Sectors : ram'[t].state = IF t = src THEN "deleting" ELSE ram[t].state
        BY <2>1, <3>1, <4>1 DEF WeakTypes, RamSector
      <4> QED BY <4>2, <4>3 DEF Typed
    <3>3. Marked = {}
      BY <3>1 DEF MarksInPlace
    <3>4. Marked' = {src} /\ MarksKnown'
      BY <2>1, <3>1, <3>2, <3>3 DEF Marked, MarksKnown
    <3> QED BY <3>1, <3>2, <3>4 DEF WeakTypes, Typed, MarksInPlace
  <2>4. CASE GcCopy
    <3>1. /\ pc = "gc_copy" /\ UNCHANGED <<active, sn, pc, op>> /\ GcMore
          /\ \/ gc' = [gc EXCEPT !.next = @ + 1, !.to = @ + GcItem.span]
             \/ gc' = [gc EXCEPT !.next = @ + 1]
      BY <2>4 DEF GcCopy, lists
    <3>3. GcItem.span \in Nat
      BY <3>1, GcItemType DEF AnyItem
    <3>4. SameStates
      BY <2>4, ItemSteps
    <3>5. Marked' = Marked /\ MarksKnown'
      BY <2>1, <3>1, <3>4, SameMarks DEF Marked, MarksKnown
    <3>6. gc' \in [src : Sectors, dst : Sectors, next : Nat \ {0}, to : Nat] /\ gc'.src = src
      <4>1. gc \in [src : Sectors, dst : Sectors, next : Nat \ {0}, to : Nat]
        BY DEF WeakTypes
      <4>2. gc.next + 1 \in Nat \ {0} /\ gc.to + GcItem.span \in Nat
        BY <2>1, <3>3
      <4> QED BY <3>1, <4>1, <4>2
    <3> QED BY <3>1, <3>4, <3>5, <3>6 DEF SameStates, Typed, WeakTypes, MarksInPlace
  <2>5. CASE GcErase
    <3>1. /\ pc = "gc_copy" /\ gc' = NoGc /\ sn' = sn
          /\ active' = RemoveFirst(active, src)
          /\ flash' = EraseSector(flash, src)
          /\ \E n \in {ram[dst].used, ram[dst].free} :
               ram' = [ram EXCEPT ![dst].free = n, ![src] = FreshInfo(ram[src].serial)]
          /\ \/ op.key = None /\ pc' = "settle" /\ op' = op
             \/ op.key # None /\ pc' = "put" /\ op' = [op EXCEPT !.again = TRUE]
      BY <2>1, <2>5 DEF GcErase, WeakTypes, RamSector
    <3>2. PICK n \in Nat, m \in Nat :
            ram' = [ram EXCEPT ![dst].free = n, ![src] = FreshInfo(m)]
      BY <2>1, <3>1 DEF WeakTypes, RamSector
    <3>3. FreshInfo(m) \in RamSector /\ FreshInfo(m).state = "uninit"
      BY FreshType
    <3>4. /\ ram' \in [Sectors -> RamSector] /\ ram'[src].state = "uninit"
          /\ \A t \in Sectors \ {src} : ram'[t].state = ram[t].state
      BY <2>1, <3>2, <3>3 DEF WeakTypes, RamSector
    <3>5. /\ flash' \in [Sectors -> FlashSector] /\ flash'[src].state = "uninit"
          /\ \A t \in Sectors \ {src} : flash'[t].state = flash[t].state
      BY <2>1, <3>1, EraseStates
    <3>6. Marked = {src}
      BY <3>1 DEF MarksInPlace
    <3>7. Marked' = {}
      BY <3>5, <3>6 DEF Marked
    <3>8. MarksKnown'
      BY <2>1, <3>4, <3>5, <3>6 DEF Marked, MarksKnown
    <3>9. NoGc \in [src : Sectors, dst : Sectors, next : Nat \ {0}, to : Nat]
      BY SectorsFinite DEF NoGc
    <3>10. /\ pc' = "put" => op' \in SetOp
           /\ pc' = "settle" => op' = NoOp
      <4>1. CASE op \in SetOp
        BY <3>1, <4>1, SetOpKey DEF SetOp
      <4>2. CASE op = NoOp
        BY <3>1, <4>2 DEF NoOp
      <4> QED BY <2>1, <4>1, <4>2
    <3>11. op' \in SetOp \cup {NoOp}
      BY <3>1, <3>10
    <3> QED BY <3>1, <3>4, <3>5, <3>7, <3>8, <3>9, <3>10, <3>11
            DEF WeakTypes, MarksInPlace
  <2> QED BY <1>2, <2>2, <2>3, <2>4, <2>5 DEF Gc
<1> QED BY <1>1, <1>2

\* A power failure leaves every header as it is, or crashes its sector.
HeadsKept ==
  /\ flash' \in [Sectors -> FlashSector]
  /\ \A s \in Sectors : /\ flash'[s].serial = flash[s].serial
                        /\ flash'[s].state \in {flash[s].state, "crash"}

\* The programs a power failure can cut short: of a header or an erase, of an
\* item that is written, and of one that is copied.
PutTorn ==
  /\ pc = "put" /\ ram[Current].state # "uninit" /\ Fits(Current, Span[op.val])
  /\ flash' \in TornItem(Current, NewItem(op.key, op.val, ram[Current].free))
CopyTorn ==
  /\ pc = "gc_copy" /\ GcMore /\ GcItem.state = "using"
  /\ flash' \in TornItem(gc.dst, [GcItem EXCEPT !.at = gc.to])

LEMMA TornCases ==
  ASSUME ListInv, WeakTypes, PowerLoss
  PROVE  flash' = flash \/ (\E s \in Sectors : flash' \in TornSector(s)) \/ PutTorn \/ CopyTorn
<1>1. CASE flash' = flash
  BY <1>1
<1>2. CASE flash' \in TornFlash
  <2>1. \/ PutTorn
        \/ CopyTorn
        \/ pc \in {"put", "fix_gc"} /\ flash' \in TornSector(Current)
        \/ pc \in {"gc_init", "gc_copy"} /\ flash' \in TornSector(gc.dst)
        \/ pc \in {"gc_init", "gc_copy"} /\ flash' \in TornSector(gc.src)
    BY <1>2, Zenon DEF TornFlash, PutTorn, CopyTorn
  <2>2. pc \in {"put", "fix_gc"} => Current \in Sectors
    BY CurrentType
  <2>3. gc.src \in Sectors /\ gc.dst \in Sectors
    BY DEF WeakTypes
  <2> QED BY <2>1, <2>2, <2>3
<1> QED BY <1>1, <1>2 DEF PowerLoss

LEMMA CutType ==
  ASSUME NEW i \in AnyItem, NEW how \in Tears
  PROVE  /\ CutShort(i, how) \in AnyItem
         /\ CutShort(i, how).at = i.at
         /\ CutShort(i, how).key = i.key /\ CutShort(i, how).val = i.val
         /\ CutShort(i, how).crcItem => i.crcItem /\ CutShort(i, how).span = i.span
         /\ CutShort(i, how).crcData => i.crcData
         /\ CutShort(i, how).span \in {i.span, Overlong}
         /\ ~CutShort(i, how).crcItem \/ ~CutShort(i, how).crcData
         /\ "data" \notin Tears => ~CutShort(i, how).crcItem
<1>1. /\ [i EXCEPT !.crcItem = FALSE] \in AnyItem
      /\ [i EXCEPT !.crcItem = FALSE, !.span = Overlong] \in AnyItem
      /\ [i EXCEPT !.crcData = FALSE] \in AnyItem
  BY ByteType DEF AnyItem
<1>2. CutShort(i, how) \in {[i EXCEPT !.crcItem = FALSE],
                            [i EXCEPT !.crcItem = FALSE, !.span = Overlong],
                            [i EXCEPT !.crcData = FALSE]}
  BY SwitchesAssumption DEF CutShort
<1>3. "data" \notin Tears => CutShort(i, how) \in {[i EXCEPT !.crcItem = FALSE],
                                                  [i EXCEPT !.crcItem = FALSE, !.span = Overlong]}
  BY SwitchesAssumption DEF CutShort
<1> QED BY <1>1, <1>2, <1>3 DEF AnyItem

LEMMA TornHeads ==
  ASSUME ListInv, MarkInv, PowerLoss PROVE HeadsKept
<1> USE DEF MarkInv
<1>1. ASSUME NEW s \in Sectors, flash' \in TornSector(s)
      PROVE  HeadsKept
  <2>1. flash' = [flash EXCEPT ![s].state = "crash"] /\ "crash" \in State
    BY <1>1 DEF TornSector, SetState, State
  <2>2. /\ flash' \in [Sectors -> FlashSector]
        /\ \A t \in Sectors : /\ flash'[t].state = IF t = s THEN "crash" ELSE flash[t].state
                              /\ flash'[t].serial = flash[t].serial
    BY <2>1 DEF WeakTypes, FlashSector
  <2> QED BY <2>2 DEF HeadsKept
<1>2. ASSUME NEW s \in Sectors, NEW i \in AnyItem, flash' \in TornItem(s, i)
      PROVE  HeadsKept
  <2>1. PICK how \in Tears : flash' = Program(flash, s, CutShort(i, how))
    BY <1>2 DEF TornItem
  <2>2. CutShort(i, how) \in AnyItem
    BY CutType
  <2>3. flash \in [Sectors -> FlashSector]
    BY DEF WeakTypes
  <2>4. /\ Program(flash, s, CutShort(i, how)) \in [Sectors -> FlashSector]
        /\ SameHeads(Program(flash, s, CutShort(i, how)), flash)
    BY <2>2, <2>3, ProgramType
  <2>5. flash' \in [Sectors -> FlashSector] /\ SameHeads(flash', flash)
    BY <2>1, <2>4, Zenon
  <2> QED BY <2>5 DEF HeadsKept, SameHeads
<1>3. CASE flash' = flash
  BY <1>3 DEF WeakTypes, HeadsKept
<1>4. CASE PutTorn
  BY <1>2, <1>4, PutItemType DEF PutTorn
<1>5. CASE CopyTorn
  <2>1. [GcItem EXCEPT !.at = gc.to] \in AnyItem /\ gc.dst \in Sectors
    BY <1>5, GcItemType DEF CopyTorn, WeakTypes
  <2> QED BY <1>2, <1>5, <2>1 DEF CopyTorn
<1> QED BY <1>1, <1>3, <1>4, <1>5, TornCases

LEMMA PowerLossMarks ==
  ASSUME ListInv, MarkInv, PowerLoss PROVE MarkInv'
<1>1. ram' = NoRam /\ sn' = 0 /\ pc' = "off" /\ op' = NoOp /\ gc' = NoGc
  BY DEF PowerLoss
<1>2. HeadsKept
  BY TornHeads
<1>3. flash' \in [Sectors -> FlashSector] /\ Marked' \subseteq Marked
  BY <1>2 DEF HeadsKept, Marked
<1>4. ram' \in [Sectors -> RamSector]
  BY <1>1, FreshType DEF NoRam
<1>5. NoGc \in [src : Sectors, dst : Sectors, next : Nat \ {0}, to : Nat]
  BY SectorsFinite DEF NoGc
<1> QED BY <1>1, <1>3, <1>4, <1>5 DEF MarkInv, WeakTypes, MarksInPlace

LEMMA InitMarks == Init => MarkInv
<1> SUFFICES ASSUME Init PROVE MarkInv
  OBVIOUS
<1>1. NoGc \in [src : Sectors, dst : Sectors, next : Nat \ {0}, to : Nat]
  BY SectorsFinite DEF NoGc
<1>2. flash \in [Sectors -> FlashSector] /\ Marked = {}
  BY BlankType DEF Init, Marked
<1>3. ram \in [Sectors -> RamSector]
  BY FreshType DEF Init, NoRam
<1> QED BY <1>1, <1>2, <1>3 DEF Init, MarkInv, WeakTypes, MarksInPlace

LEMMA MarkInvStep == ListInv /\ MarkInv /\ [Next]_vars => MarkInv'
<1>1. CASE UNCHANGED vars
  BY <1>1 DEF vars, lists, MarkInv, WeakTypes, MarksKnown, MarksInPlace, Marked
<1> QED BY <1>1, MountMarks, CallMarks, GcMarks, PowerLossMarks DEF Next

\* At most one sector is marked for reclaiming, so the one reclaiming a mount
\* finishes is the only one there is to finish.
THEOREM OneReclaiming == Spec => []OneDeleting
<1>1. ListInv /\ MarkInv /\ [Next]_vars => MarkInv'
  BY MarkInvStep
<1>2. ListInv /\ [Next]_vars => ListInv'
  BY ListInvStep
<1>3. MarkInv => OneDeleting
  <2> SUFFICES ASSUME MarkInv PROVE Cardinality(Marked) <= 1
    BY DEF OneDeleting, Marked
  <2>1. CASE Marked = {}
    BY <2>1, FS_EmptySet
  <2>2. CASE Marked # {}
    <3>1. PICK s : Marked = {s}
      BY <2>2 DEF MarkInv, MarksInPlace
    <3> QED BY <3>1, FS_Singleton
  <2> QED BY <2>1, <2>2
<1> QED BY <1>1, <1>2, <1>3, InitListInv, InitMarks, PTL DEF Spec
-------------------------------------------------------------------------------
(* The order of the sectors.  The manager appends to its active list, and  *)
(* a mount rebuilds the list from the serial numbers in the headers.  The  *)
(* two agree because a serial number enters flash only when its sector is  *)
(* the last of the list, whichever of the three ways it got there: taken   *)
(* fresh, taken with the old number a mount left in its header, or left    *)
(* without a header by the sector being the first one.                     *)

Healthy == {s \in Sectors : Good(flash[s])}
\* Active sectors without a header, and idle ones with one.
Unwritten == {s \in ToSet(active) : s \notin Healthy}
Spare == {s \in ToSet(idle) : s \in Healthy}

SerialsDistinct == \A s, t \in Healthy : flash[s].serial = flash[t].serial => s = t
SerialsBelow == \A s \in Healthy : flash[s].serial < sn
SerialOrder ==
  \A s, t \in Healthy : Before(active, s, t) => flash[s].serial < flash[t].serial

\* The manager knows which sectors have a header, and uses no crashed one.
HealthKnown ==
  /\ \A s \in Sectors : Good(ram[s]) <=> Good(flash[s])
  /\ \A s \in ToSet(active) : ram[s].state # "crash"

UnwrittenLast ==
  \A s \in Unwritten : /\ s = Last(active)
                       /\ ram[s].serial < sn
                       /\ \A t \in Healthy : flash[t].serial < ram[s].serial

\* A sector rolled back with its header is the next one to be taken, and its
\* old serial number is still above those of the active sectors.
SpareFirst ==
  /\ Spare # {} => Unwritten = {}
  /\ \A s \in Spare : /\ s = Head(idle)
                      /\ \A t \in ToSet(active) \cap Healthy : flash[t].serial < flash[s].serial

SerialFacts == SerialsBelow /\ SerialOrder /\ HealthKnown /\ UnwrittenLast /\ SpareFirst

SerialPhases ==
  /\ pc \in {"request", "fix_take", "gc_mark", "gc_copy"} => Unwritten = {}
  /\ pc \in {"fix_write", "fix_gc", "settle"} => Unwritten = {} \/ Unwritten = ToSet(active)
  /\ pc \in {"fix_write", "fix_gc", "fix_take", "settle", "gc_init", "gc_mark", "gc_copy"} =>
       Spare = {}
  /\ pc = "gc_init" => gc.dst = Last(active)

SerialInv ==
  /\ SerialsDistinct
  /\ pc = "off" => active = <<>> /\ idle = <<>>
  /\ pc # "off" => SerialFacts /\ SerialPhases

\* Steps after which every sector has the header it had.
SameHealth ==
  \A s \in Sectors : /\ Good(flash'[s]) <=> Good(flash[s])
                     /\ Good(ram'[s]) <=> Good(ram[s])
                     /\ ram'[s].state = "crash" <=> ram[s].state = "crash"
                     /\ flash'[s].serial = flash[s].serial
                     /\ ram'[s].serial = ram[s].serial

LEMMA ListedSectors == ASSUME Lists PROVE ToSet(active) \subseteq Sectors /\ ToSet(idle) \subseteq Sectors
BY LenProperties, ElementOfSeq DEF Lists, ToSet

LEMMA ItemsKeepSerials ==
  ASSUME Lists, SerialsDistinct, SerialFacts, SameHealth, UNCHANGED <<active, idle, sn>>
  PROVE  /\ SerialsDistinct' /\ SerialFacts'
         /\ Unwritten' = Unwritten /\ Spare' = Spare
<1>1. ToSet(active) \subseteq Sectors /\ ToSet(idle) \subseteq Sectors
  BY ListedSectors
<1>2. Healthy' = Healthy
  BY DEF Healthy, SameHealth
<1>3. Unwritten' = Unwritten /\ Spare' = Spare
  BY <1>2 DEF Unwritten, Spare
<1>4. SerialsDistinct' /\ SerialsBelow' /\ SerialOrder'
  BY <1>2 DEF SerialFacts, SerialsDistinct, SerialsBelow, SerialOrder, SameHealth, Healthy
<1>5. HealthKnown'
  BY <1>1 DEF SerialFacts, HealthKnown, SameHealth
<1>6. UnwrittenLast'
  BY <1>1, <1>2, <1>3 DEF SerialFacts, UnwrittenLast, SameHealth, Healthy, Unwritten
<1>7. SpareFirst'
  BY <1>1, <1>2, <1>3 DEF SerialFacts, SpareFirst, SameHealth, Healthy, Spare
<1> QED BY <1>3, <1>4, <1>5, <1>6, <1>7 DEF SerialFacts

LEMMA StatesKeepHealth == ASSUME SameStates PROVE SameHealth
BY DEF SameStates, SameHeads, SameHealth, Good

\* A header goes to the last sector, with a number above all others.
LEMMA HeaderKeepsSerials ==
  ASSUME ListInv, WeakTypes, pc # "off", SerialsDistinct, SerialFacts,
         NEW s \in Unwritten, InitSector(s), UNCHANGED <<active, idle, sn>>
  PROVE  SerialsDistinct' /\ SerialFacts' /\ Unwritten' = {} /\ Spare' = {}
<1>1. /\ ToSet(active) \subseteq Sectors /\ ToSet(idle) \subseteq Sectors
      /\ ToSet(active) \cap ToSet(idle) = {} /\ IsInjective(active)
      /\ active \in Seq(Sectors)
  BY ListedSectors DEF ListInv, ListsPartition, Lists
<1>2. /\ s \in ToSet(active) /\ s \in Sectors /\ s \notin Healthy /\ s = Last(active)
      /\ ram[s].serial < sn
      /\ \A t \in Healthy : flash[t].serial < ram[s].serial
  BY <1>1 DEF Unwritten, SerialFacts, UnwrittenLast
<1>3. Unwritten = {s} /\ Spare = {}
  BY DEF SerialFacts, UnwrittenLast, SpareFirst
<1>4. /\ flash' = [flash EXCEPT ![s].state = "using", ![s].serial = ram[s].serial]
      /\ ram' = [ram EXCEPT ![s] = Info("using", ram[s].serial, 0, 0, 0)]
      /\ flash \in [Sectors -> FlashSector] /\ ram \in [Sectors -> RamSector]
      /\ \A t \in Sectors : flash[t].serial \in Nat /\ ram[t].serial \in Nat
  BY DEF InitSector, WriteHeader, WeakTypes, FlashSector, RamSector
<1>5. /\ flash'[s].state = "using" /\ flash'[s].serial = ram[s].serial
      /\ ram'[s].state = "using"
      /\ \A t \in Sectors \ {s} : flash'[t] = flash[t] /\ ram'[t] = ram[t]
  BY <1>2, <1>4 DEF FlashSector, Info
<1>6. Healthy' = Healthy \cup {s}
  BY <1>2, <1>5 DEF Healthy, Good
<1>7. Unwritten' = {} /\ Spare' = {}
  BY <1>1, <1>2, <1>3, <1>6 DEF Unwritten, Spare
<1>8. SerialsDistinct'
  <2> SUFFICES ASSUME NEW x \in Healthy', NEW y \in Healthy', flash'[x].serial = flash'[y].serial
               PROVE  x = y
    BY DEF SerialsDistinct
  <2>1. \A t \in Healthy : t \in Sectors \ {s} /\ flash'[t].serial = flash[t].serial
    BY <1>2, <1>5 DEF Healthy
  <2>2. CASE x = s \/ y = s
    BY <1>2, <1>4, <1>5, <1>6, <2>1, <2>2
  <2>3. CASE x \in Healthy /\ y \in Healthy
    BY <2>1, <2>3 DEF SerialsDistinct
  <2> QED BY <1>6, <2>2, <2>3
<1>9. SerialsBelow'
  BY <1>2, <1>5, <1>6 DEF SerialFacts, SerialsBelow, Healthy
<1>10. SerialOrder'
  <2> SUFFICES ASSUME NEW x \in Healthy', NEW y \in Healthy', Before(active, x, y)
               PROVE  flash'[x].serial < flash'[y].serial
    BY DEF SerialOrder
  <2>1. \A t \in Healthy : t \in Sectors \ {s} /\ flash'[t].serial = flash[t].serial
    BY <1>2, <1>5 DEF Healthy
  <2>2. active # <<>>
    BY <1>2, EmptyIsDistinct
  <2>3. x # s
    BY <1>1, <1>2, <2>2, LastBefore
  <2>4. x \in Healthy
    BY <1>6, <2>3
  <2>5. CASE y = s
    BY <1>2, <1>5, <2>1, <2>4, <2>5
  <2>6. CASE y \in Healthy
    BY <2>1, <2>4, <2>6 DEF SerialFacts, SerialOrder
  <2> QED BY <1>6, <2>5, <2>6
<1>11. HealthKnown'
  BY <1>1, <1>5 DEF SerialFacts, HealthKnown, Good
<1> QED BY <1>7, <1>8, <1>9, <1>10, <1>11 DEF SerialFacts, UnwrittenLast, SpareFirst

\* sm_active_sector appends a sector whose number, in its header or to come,
\* is above those of the sectors that are active.
LEMMA ActivateKeepsSerials ==
  ASSUME ListInv, WeakTypes, pc # "off", SerialsDistinct, SerialFacts, Unwritten = {}, Activate
  PROVE  /\ SerialsDistinct' /\ SerialFacts' /\ Spare' = {}
         /\ Last(active') = Head(idle) /\ (active = <<>> => Unwritten' = {} \/ Unwritten' = ToSet(active'))
<1> DEFINE h == Head(idle)
<1>1. /\ h \in Sectors /\ h \notin ToSet(active)
      /\ active' \in Seq(Sectors) /\ idle' \in Seq(Sectors) /\ ListsPartition'
      /\ ToSet(active') = ToSet(active) \cup {h}
  BY ActivateKeepsLists DEF ListInv
<1>2. /\ active \in Seq(Sectors) /\ active' = Append(active, h)
      /\ ToSet(active) \subseteq Sectors /\ ToSet(active') \subseteq Sectors
      /\ ToSet(idle') \subseteq ToSet(idle) \ {h} /\ h \in ToSet(idle)
      /\ sn' = sn + 1 /\ sn \in Nat
  <2>1. ToSet(active) \subseteq Sectors
    BY ListedSectors DEF ListInv
  <2>2. idle \in Seq(Sectors) /\ idle # <<>> /\ IsInjective(idle) /\ idle' = Tail(idle)
    BY DEF ListInv, Lists, ListsPartition, Activate
  <2>3. ToSet(idle') = ToSet(idle) \ {h} /\ h \in ToSet(idle)
    BY <2>2, TailOnly
  <2> QED BY <1>1, <2>1, <2>3 DEF ListInv, Lists, Activate, WeakTypes
<1>3. Last(active') = h
  BY <1>1, <1>2, AppendLast
<1>4. /\ flash' = IF ram[h].state = "crash" THEN EraseSector(flash, h) ELSE flash
      /\ ram' = IF ram[h].state = "crash" THEN [ram EXCEPT ![h] = FreshInfo(sn)]
                                           ELSE [ram EXCEPT ![h].serial = sn]
      /\ flash \in [Sectors -> FlashSector] /\ ram \in [Sectors -> RamSector]
      /\ \A t \in Sectors : flash[t].serial \in Nat /\ ram[t].serial \in Nat
  BY DEF Activate, WeakTypes, FlashSector, RamSector
<1>5. /\ \A t \in Sectors \ {h} : flash'[t] = flash[t] /\ ram'[t] = ram[t]
      /\ ram'[h].serial = sn /\ ram'[h].state # "crash"
      /\ Good(ram'[h]) <=> Good(flash'[h])
      /\ Good(flash'[h]) => flash'[h] = flash[h]
  <2>1. CASE ram[h].state = "crash"
    BY <1>1, <1>4, <2>1 DEF EraseSector, FreshInfo, Info, Blank, Good
  <2>2. CASE ram[h].state # "crash"
    <3>1. /\ flash' = flash /\ ram'[h].serial = sn /\ ram'[h].state = ram[h].state
          /\ \A t \in Sectors \ {h} : ram'[t] = ram[t]
      BY <1>1, <1>4, <2>2 DEF RamSector
    <3> QED BY <1>1, <2>2, <3>1 DEF SerialFacts, HealthKnown, Good
  <2> QED BY <2>1, <2>2
<1> HIDE DEF h
<1>6. /\ Healthy' \subseteq Healthy
      /\ \A t \in Healthy' : flash'[t].serial = flash[t].serial
      /\ Healthy \ {h} \subseteq Healthy'
  BY <1>5 DEF Healthy, Good
<1>7. \A t \in ToSet(active) : t \in Healthy /\ t \in Healthy'
  BY <1>1, <1>6 DEF Unwritten
<1>8. \A t \in Unwritten' : t = h /\ h \notin Healthy'
  BY <1>1, <1>7 DEF Unwritten
<1>9. Spare' = {}
  <2>1. ASSUME NEW t \in Spare' PROVE FALSE
    <3>1. t \in Spare /\ t # h
      BY <1>2, <1>6 DEF Spare
    <3> QED BY <3>1 DEF SerialFacts, SpareFirst, h
  <2> QED BY <2>1
<1>10. SerialsDistinct'
  BY <1>6 DEF SerialsDistinct
<1>11. \A t \in Healthy : flash[t].serial < sn /\ flash[t].serial \in Nat
  BY <1>4 DEF SerialFacts, SerialsBelow, Healthy
<1>12. SerialsBelow'
  BY <1>2, <1>6, <1>11 DEF SerialsBelow
<1>13. SerialOrder'
  <2> SUFFICES ASSUME NEW x \in Healthy', NEW y \in Healthy', Before(active', x, y)
               PROVE  flash[x].serial < flash[y].serial
    BY <1>6 DEF SerialOrder
  <2>1. Before(active, x, y) \/ (x \in ToSet(active) /\ y = h)
    BY <1>1, <1>2, AppendBefore
  <2>2. CASE Before(active, x, y)
    BY <1>6, <2>2 DEF SerialFacts, SerialOrder
  <2>3. CASE x \in ToSet(active) /\ y = h
    <3>1. h \in Spare
      BY <1>2, <1>6, <2>3 DEF Spare
    <3> QED BY <1>6, <2>3, <3>1 DEF SerialFacts, SpareFirst
  <2> QED BY <2>1, <2>2, <2>3
<1>14. HealthKnown'
  BY <1>1, <1>2, <1>5 DEF SerialFacts, HealthKnown
<1>15. UnwrittenLast'
  BY <1>2, <1>3, <1>5, <1>6, <1>8, <1>11 DEF UnwrittenLast
<1>16. active = <<>> => Unwritten' = {} \/ Unwritten' = ToSet(active')
  <2>1. active = <<>> => ToSet(active') = {h}
    BY <1>1, EmptyIsDistinct
  <2> QED BY <1>8, <2>1 DEF Unwritten
<1> QED BY <1>3, <1>9, <1>10, <1>12, <1>13, <1>14, <1>15, <1>16 DEF SerialFacts, SpareFirst, h

\* Erasing an active sector and queueing it for reuse.
LEMMA EraseKeepsSerials ==
  ASSUME ListInv, WeakTypes, pc # "off", SerialsDistinct, SerialFacts, Unwritten = {}, Spare = {},
         NEW s \in ToSet(active), sn' = sn,
         ToSet(active') = ToSet(active) \ {s}, ToSet(idle') = ToSet(idle) \cup {s},
         \A x, y : Before(active', x, y) => Before(active, x, y),
         ~Good(flash'[s]), ~Good(ram'[s]),
         \A t \in Sectors \ {s} : /\ flash'[t] = flash[t]
                                  /\ ram'[t].state = ram[t].state
  PROVE  SerialsDistinct' /\ SerialFacts' /\ Unwritten' = {} /\ Spare' = {}
<1>1. ToSet(active) \subseteq Sectors /\ ToSet(idle) \subseteq Sectors
  BY ListedSectors DEF ListInv
<1>2. Healthy' = Healthy \ {s} /\ \A t \in Healthy' : flash'[t].serial = flash[t].serial
  BY <1>1 DEF Healthy
<1>3. Unwritten' = {} /\ Spare' = {}
  BY <1>2 DEF Unwritten, Spare
<1>4. SerialsDistinct' /\ SerialsBelow' /\ SerialOrder'
  BY <1>2 DEF SerialFacts, SerialsDistinct, SerialsBelow, SerialOrder
<1>5. HealthKnown'
  BY <1>1 DEF SerialFacts, HealthKnown, Good
<1> QED BY <1>3, <1>4, <1>5 DEF SerialFacts, UnwrittenLast, SpareFirst

\* The sort key of the load orders by serial number first.
LEMMA KeyOrder ==
  ASSUME NEW a \in Nat, NEW b \in Nat, NEW n \in Nat, NEW x \in 0..(n - 1), NEW y \in 0..(n - 1),
         a * n + x < b * n + y
  PROVE  a <= b
<1> SUFFICES ASSUME b < a PROVE FALSE
  OBVIOUS
<1>1. PICK d \in Nat : a = b + 1 + d
  <2>1. a - b - 1 \in Nat /\ a = b + 1 + (a - b - 1)
    OBVIOUS
  <2> QED BY <2>1
<1>2. d * n \in Nat /\ b * n \in Nat
  OBVIOUS
<1>3. a * n = b * n + n + d * n
  BY <1>1
<1> QED BY <1>2, <1>3

\* sm_load_sectors rebuilds the order of the serial numbers.
LEMMA LoadKeepsSerials ==
  ASSUME ListInv, WeakTypes, SerialsDistinct, Load
  PROVE  SerialsDistinct' /\ SerialFacts' /\ Unwritten' = {} /\ Spare' = {}
<1> DEFINE num == [s \in Sectors |-> flash[s].serial * SecNum + s]
<1>1. /\ flash' = [s \in Sectors |-> IF Good(flash[s]) THEN Cleaned(flash[s]) ELSE flash[s]]
      /\ ram' = [s \in Sectors |-> LoadedInfo(flash[s])]
      /\ active' \in SortedBy(Healthy, num) /\ idle' \in SetToSeqs(Sectors \ Healthy)
      /\ sn' = IF Healthy = {} THEN 1 ELSE ram'[Last(active')].serial + 1
  BY DEF Load, SortedBy, Healthy
<1>2. /\ \A s \in Sectors : flash[s] \in FlashSector
      /\ \A s \in Sectors : flash[s].serial \in Nat
  BY DEF WeakTypes, FlashSector
<1>3. \A s \in Sectors : /\ flash'[s].state = flash[s].state /\ flash'[s].serial = flash[s].serial
                         /\ Good(ram'[s]) <=> Good(flash[s])
                         /\ Good(flash[s]) => ram'[s].serial = flash[s].serial
  BY <1>1, <1>2, CleanedType, LoadedType
<1>4. Healthy' = Healthy
  BY <1>3 DEF Healthy, Good
<1>5. IsFiniteSet(Healthy) /\ IsFiniteSet(Sectors \ Healthy) /\ Healthy \subseteq Sectors
  BY SectorsFinite, FS_Subset DEF Healthy
<1>6. /\ active' \in Seq(Healthy) /\ IsInjective(active') /\ ToSet(active') = Healthy
      /\ ToSet(idle') = Sectors \ Healthy
  <2>1. active' \in SetToSeqs(Healthy)
    BY <1>1 DEF SortedBy
  <2> QED BY <1>1, <1>5, <2>1, ListOfSet
<1>7. Unwritten' = {} /\ Spare' = {}
  BY <1>4, <1>6 DEF Unwritten, Spare
<1>8. ASSUME NEW x \in Healthy, NEW y \in Healthy, Before(active', x, y)
      PROVE  flash[x].serial < flash[y].serial
  <2>1. PICK i, j \in DOMAIN active' : i < j /\ active'[i] = x /\ active'[j] = y
    BY <1>8 DEF Before
  <2>2. num[x] < num[y]
    BY <1>1, <2>1 DEF SortedBy
  <2>3. i \in Int /\ j \in Int
    BY <1>6, <2>1, LenProperties
  <2>4. x # y
    BY <1>6, <2>1, <2>3 DEF IsInjective
  <2>5. PICK a \in Nat, b \in Nat, n \in Nat :
          a = flash[x].serial /\ b = flash[y].serial /\ n = SecNum
    BY <1>2, <1>5, SizesAssumption
  <2>6. x \in 0..(n - 1) /\ y \in 0..(n - 1) /\ a * n + x < b * n + y
    BY <1>5, <2>2, <2>5 DEF Sectors
  <2>7. a <= b
    BY <2>6, KeyOrder
  <2>8. a # b
    BY <2>4, <2>5 DEF SerialsDistinct
  <2> QED BY <2>5, <2>7, <2>8
<1>9. SerialsDistinct' /\ SerialOrder'
  BY <1>3, <1>4, <1>5, <1>8 DEF SerialsDistinct, SerialOrder
<1>10. SerialsBelow'
  <2> SUFFICES ASSUME NEW s \in Healthy PROVE flash[s].serial < sn'
    BY <1>3, <1>4, <1>5 DEF SerialsBelow
  <2>1. active' # <<>>
    BY <1>6, EmptyIsDistinct
  <2>2. Last(active') \in Healthy
    BY <1>6, <2>1, FrontOnly
  <2>3. sn' = flash[Last(active')].serial + 1 /\ flash[Last(active')].serial \in Nat
    BY <1>1, <1>2, <1>3, <1>5, <2>2 DEF Healthy
  <2>4. s = Last(active') \/ Before(active', s, Last(active'))
    BY <1>6, <2>1, LastBefore
  <2> QED BY <1>2, <1>5, <1>8, <2>2, <2>3, <2>4
<1>11. HealthKnown'
  BY <1>3, <1>6 DEF HealthKnown, Good, Healthy
<1> QED BY <1>7, <1>9, <1>10, <1>11 DEF SerialFacts, UnwrittenLast, SpareFirst

\* A mount that ends without a free sector rolls the last one back, header
\* and all: it will be taken again before any other.
LEMMA SettleKeepsSerials ==
  ASSUME ListInv, WeakTypes, pc = "settle", SerialsDistinct, SerialFacts, SerialPhases, Settle
  PROVE  SerialsDistinct' /\ SerialFacts'
<1>1. /\ UNCHANGED <<flash, ram, sn>>
      /\ \/ UNCHANGED <<active, idle>>
         \/ idle = <<>> /\ active' = Front(active) /\ idle' = <<Current>>
  BY DEF Settle
<1>2. Healthy' = Healthy /\ SerialsDistinct' /\ SerialsBelow'
  BY <1>1 DEF Healthy, SerialsDistinct, SerialsBelow, SerialFacts
<1>3. CASE UNCHANGED <<active, idle>>
  BY <1>1, <1>2, <1>3 DEF SerialFacts, SerialOrder, HealthKnown, UnwrittenLast, Unwritten,
                          SpareFirst, Spare
<1>4. CASE idle = <<>> /\ active' = Front(active) /\ idle' = <<Current>>
  <2>1. /\ active \in Seq(Sectors) /\ active # <<>> /\ IsInjective(active)
        /\ Current = Last(active) /\ Current \in Sectors /\ Current \in ToSet(active)
    BY CurrentType DEF ListInv, ListsPartition, Lists, Current
  <2>2. ToSet(active') = ToSet(active) \ {Current}
    BY <1>4, <2>1, FrontOnly
  <2>3. ToSet(idle') = {Current} /\ Head(idle') = Current
    BY <1>4 DEF ToSet
  <2>4. ToSet(active) = Sectors
    BY <1>4, EmptyIsDistinct DEF ListInv, ListsPartition
  <2>5. Unwritten = {}
    <3>1. 0 \in Sectors /\ 1 \in Sectors
      BY SizesAssumption DEF Sectors
    <3>2. \A s \in Unwritten : s = Current
      BY <2>1 DEF SerialFacts, UnwrittenLast
    <3>3. Unwritten # ToSet(active)
      BY <2>4, <3>1, <3>2
    <3> QED BY <3>3 DEF SerialPhases
  <2>6. Unwritten' = {}
    BY <1>2, <2>2, <2>5 DEF Unwritten
  <2>7. \A x, y : Before(active', x, y) => Before(active, x, y)
    BY <1>4, <2>1, FrontBefore
  <2>8. SerialOrder' /\ HealthKnown'
    BY <1>1, <1>2, <2>2, <2>7 DEF SerialFacts, SerialOrder, HealthKnown
  <2>9. SpareFirst'
    <3>1. ASSUME NEW t \in ToSet(active') \cap Healthy, Current \in Healthy
          PROVE  flash[t].serial < flash[Current].serial
      <4>1. Before(active, t, Current)
        BY <2>1, <2>2, LastBefore
      <4> QED BY <3>1, <4>1 DEF SerialFacts, SerialOrder
    <3> QED BY <1>1, <1>2, <2>3, <2>6, <3>1 DEF SpareFirst, Spare
  <2> QED BY <1>2, <2>6, <2>8, <2>9 DEF SerialFacts, UnwrittenLast
<1> QED BY <1>1, <1>3, <1>4

LEMMA MountSerials ==
  ASSUME ListInv, MarkInv, SerialInv, Mount PROVE SerialInv'
<1> USE DEF SerialInv, MarkInv
<1>1. CASE Load
  <2>1. pc' = "fix_write"
    BY <1>1 DEF Load
  <2> QED BY <1>1, <2>1, LoadKeepsSerials DEF SerialPhases
<1>2. CASE LoadFirst
  <2>1. pc = "fix_write" /\ pc' = pc /\ active = <<>> /\ Activate
    BY <1>2 DEF LoadFirst
  <2>2. Unwritten = {}
    BY <2>1, EmptyIsDistinct DEF Unwritten
  <2> QED BY <2>1, <2>2, ActivateKeepsSerials DEF SerialPhases
<1>3. CASE FixWrite
  <2>1. pc = "fix_write" /\ pc' = "fix_gc" /\ UNCHANGED <<active, idle, sn>>
    BY <1>3 DEF FixWrite, lists
  <2>2. SameHealth
    BY <1>3, ItemSteps, StatesKeepHealth
  <2> QED BY <2>1, <2>2, ItemsKeepSerials DEF SerialPhases, ListInv
<1>4. CASE FixGcErase
  <2>1. pc = "fix_gc" /\ sn' = sn
    BY <1>4 DEF FixGcErase
  <2>2. CASE Deleting = {}
    <3>1. pc' = "settle" /\ UNCHANGED <<flash, ram, active, idle>>
      BY <1>4, <2>2 DEF FixGcErase
    <3>2. SameHealth
      BY <3>1 DEF SameHealth
    <3> QED BY <2>1, <3>1, <3>2, ItemsKeepSerials DEF SerialPhases, ListInv
  <2>3. CASE Deleting # {}
    <3>1. pc' = "fix_take"
      BY <1>4, <2>3 DEF FixGcErase
    <3>2. Unwritten = {} /\ Spare = {}
      <4>1. PICK i \in DOMAIN active : ram[active[i]].state = "deleting"
        BY <2>3 DEF Deleting
      <4>2. active[i] \in ToSet(active)
        BY <4>1 DEF ToSet
      <4>3. active[i] \in Sectors
        BY <4>2, ListedSectors DEF ListInv
      <4>4. active[i] \in Healthy
        BY <2>1, <4>1, <4>3 DEF SerialFacts, HealthKnown, Healthy, Good
      <4>5. Unwritten # ToSet(active)
        BY <4>2, <4>4 DEF Unwritten
      <4> QED BY <2>1, <4>5 DEF SerialPhases
    <3>3. CASE ram[Current].state = "using"
      <4>1. /\ flash' = EraseSector(flash, Current)
            /\ ram' = [ram EXCEPT ![Current] = FreshInfo(ram[Current].serial)]
            /\ active' = Front(active) /\ idle' = Append(idle, Current)
        BY <1>4, <2>3, <3>3 DEF FixGcErase
      <4>2. /\ active \in Seq(Sectors) /\ active # <<>> /\ IsInjective(active)
            /\ idle \in Seq(Sectors) /\ IsInjective(idle)
            /\ Current = Last(active) /\ Current \in Sectors /\ Current \in ToSet(active)
            /\ Current \notin ToSet(idle)
        BY <2>1, CurrentType DEF ListInv, ListsPartition, Lists, Current
      <4>3. ToSet(active') = ToSet(active) \ {Current} /\ ToSet(idle') = ToSet(idle) \cup {Current}
        BY <4>1, <4>2, FrontOnly, AppendNew
      <4>4. \A x, y : Before(active', x, y) => Before(active, x, y)
        BY <4>1, <4>2, FrontBefore
      <4>5. /\ ~Good(flash'[Current]) /\ ~Good(ram'[Current])
            /\ \A t \in Sectors \ {Current} : flash'[t] = flash[t] /\ ram'[t].state = ram[t].state
        BY <4>1, <4>2 DEF WeakTypes, EraseSector, Blank, FreshInfo, Info, Good
      <4>6. SerialsDistinct' /\ SerialFacts' /\ Unwritten' = {} /\ Spare' = {}
        BY <2>1, <3>2, <4>2, <4>3, <4>4, <4>5, EraseKeepsSerials
      <4> QED BY <3>1, <4>6 DEF SerialPhases
    <3>4. CASE ram[Current].state # "using"
      <4>1. UNCHANGED <<flash, ram, active, idle>>
        BY <1>4, <2>3, <3>4 DEF FixGcErase
      <4>2. SameHealth
        BY <4>1 DEF SameHealth
      <4> QED BY <2>1, <3>1, <3>2, <4>1, <4>2, ItemsKeepSerials DEF SerialPhases, ListInv
    <3> QED BY <3>3, <3>4
  <2> QED BY <2>2, <2>3
<1>5. CASE FixGcTake
  <2>1. pc = "fix_take" /\ pc' = "gc_init" /\ Activate
    BY <1>5 DEF FixGcTake
  <2>2. PICK i \in Deleting : gc' = [NoGc EXCEPT !.src = active[i], !.dst = Head(idle)]
    BY <1>5 DEF FixGcTake
  <2>3. gc'.dst = Head(idle)
    BY <2>2 DEF NoGc
  <2> QED BY <2>1, <2>3, ActivateKeepsSerials DEF SerialPhases
<1>6. CASE Settle
  <2>1. pc = "settle" /\ pc' = "ready"
    BY <1>6 DEF Settle
  <2> QED BY <1>6, <2>1, SettleKeepsSerials DEF SerialPhases
<1> QED BY <1>1, <1>2, <1>3, <1>4, <1>5, <1>6 DEF Mount

LEMMA CallSerials ==
  ASSUME ListInv, MarkInv, SerialInv,
         \/ Write
         \/ \E k \in Keys, v \in Values : Set(k, v)
         \/ \E k \in Keys, t \in Types : Get(k, t) \/ Del(k, t)
  PROVE  SerialInv'
<1> USE DEF SerialInv, MarkInv
<1>1. ASSUME SameHealth, UNCHANGED <<active, idle, sn>>, pc \in {"ready", "put", "drop", "request"},
             \/ pc' \in {"ready", "put", "drop"}
             \/ pc' = "request" /\ Unwritten = {}
      PROVE  SerialInv'
  BY <1>1, ItemsKeepSerials DEF SerialPhases, ListInv
<1>2. ASSUME UNCHANGED <<flash, ram>> PROVE SameHealth
  BY <1>2 DEF SameHealth
<1>3. ASSUME NEW k \in Keys, NEW t \in Types, Get(k, t) PROVE SerialInv'
  <2>1. pc = "ready" /\ pc' = pc /\ UNCHANGED <<flash, ram, active, idle, sn>>
    BY <1>3 DEF Get, lists
  <2> QED BY <1>1, <1>2, <2>1
<1>4. ASSUME NEW k \in Keys, NEW t \in Types, Del(k, t) PROVE SerialInv'
  <2>1. pc = "ready" /\ pc' = pc /\ UNCHANGED <<active, idle, sn>>
    BY <1>4 DEF Del, lists
  <2> QED BY <1>1, <1>4, <2>1, ItemSteps, StatesKeepHealth
<1>5. ASSUME NEW k \in Keys, NEW v \in Values, Set(k, v) PROVE SerialInv'
  <2>1. pc = "ready" /\ pc' \in {"ready", "put"} /\ UNCHANGED <<flash, ram, active, idle, sn>>
    BY <1>5 DEF Set, lists
  <2> QED BY <1>1, <1>2, <2>1
<1>6. CASE PutItem \/ DropOld
  <2>1. /\ pc \in {"put", "drop"} /\ pc' \in {"drop", "ready"} /\ UNCHANGED <<active, idle, sn>>
    BY <1>6 DEF PutItem, DropOld, Return, lists
  <2> QED BY <1>1, <1>6, <2>1, ItemSteps, StatesKeepHealth
<1>7. CASE PutInit
  <2>1. /\ pc = "put" /\ pc' = pc /\ UNCHANGED <<active, idle, sn>>
        /\ ram[Current].state = "uninit" /\ InitSector(Current)
    BY <1>7 DEF PutInit, lists
  <2>2. Current \in Unwritten
    BY <2>1, CurrentType DEF SerialFacts, HealthKnown, Unwritten, Healthy, Good
  <2> QED BY <2>1, <2>2, HeaderKeepsSerials DEF SerialPhases
<1>8. CASE PutFull
  <2>1. /\ pc = "put" /\ pc' \in {"ready", "request"}
        /\ UNCHANGED <<flash, ram, active, idle, sn>> /\ ram[Current].state # "uninit"
    BY <1>8 DEF PutFull, Return, lists
  <2>2. Current \in Sectors /\ Current \in ToSet(active) /\ ram[Current].state \in State
    BY <2>1, CurrentType DEF WeakTypes, RamSector
  <2>3. Current \in Healthy
    BY <2>1, <2>2 DEF SerialFacts, HealthKnown, Healthy, Good, State
  <2>4. Unwritten = {}
    BY <2>1, <2>3 DEF SerialFacts, UnwrittenLast, Unwritten, Current
  <2> QED BY <1>1, <1>2, <2>1, <2>4
<1>9. CASE TakeIdle
  <2>1. pc = "request" /\ pc' = "put" /\ Activate
    BY <1>9 DEF TakeIdle
  <2> QED BY <2>1, ActivateKeepsSerials DEF SerialPhases
<1>10. CASE NoSpace
  <2>1. pc = "request" /\ pc' = "ready" /\ UNCHANGED <<flash, ram, active, idle, sn>>
    BY <1>10 DEF NoSpace, Return, lists
  <2> QED BY <1>1, <1>2, <2>1
<1> QED BY <1>3, <1>4, <1>5, <1>6, <1>7, <1>8, <1>9, <1>10 DEF Write

LEMMA GcSerials ==
  ASSUME ListInv, MarkInv, SerialInv, Gc PROVE SerialInv'
<1> USE DEF SerialInv, MarkInv
<1>1. CASE GcStart
  <2>1. pc = "request" /\ pc' = "gc_init" /\ Activate
    BY <1>1 DEF GcStart
  <2>2. PICK s \in Dirtiest : gc' = [NoGc EXCEPT !.src = s, !.dst = Head(idle)]
    BY <1>1 DEF GcStart
  <2>3. gc'.dst = Head(idle)
    BY <2>2 DEF NoGc
  <2> QED BY <2>1, <2>3, ActivateKeepsSerials DEF SerialPhases
<1>2. ASSUME ~GcStart PROVE SerialInv'
  <2>1. /\ pc \in {"gc_init", "gc_mark", "gc_copy"} /\ Spare = {}
        /\ gc.src \in Sectors /\ gc.dst \in Sectors
        /\ gc.src \in ToSet(active) /\ gc.dst \in ToSet(active)
    <3>1. pc \in {"gc_init", "gc_mark", "gc_copy"}
      BY <1>2 DEF Gc, GcInit, GcMark, GcCopy, GcErase
    <3> QED BY <3>1 DEF ListInv, GcRunning, WeakTypes, SerialPhases
  <2>2. CASE GcInit
    <3>1. /\ pc = "gc_init" /\ pc' \in {"gc_copy", "gc_mark"} /\ UNCHANGED <<active, idle, sn>>
          /\ IF ram[gc.dst].state = "uninit" THEN InitSector(gc.dst) ELSE UNCHANGED <<flash, ram>>
          /\ gc.dst = Last(active)
      BY <2>2 DEF GcInit, lists, SerialPhases
    <3>2. CASE ram[gc.dst].state = "uninit"
      <4>1. gc.dst \in Unwritten
        BY <2>1, <3>2 DEF SerialFacts, HealthKnown, Unwritten, Healthy, Good
      <4> QED BY <3>1, <3>2, <4>1, HeaderKeepsSerials DEF SerialPhases
    <3>3. CASE ram[gc.dst].state # "uninit"
      <4>1. ram[gc.dst].state \in State
        BY <2>1 DEF WeakTypes, RamSector
      <4>2. gc.dst \in Healthy
        BY <2>1, <3>1, <3>3, <4>1 DEF SerialFacts, HealthKnown, Healthy, Good, State
      <4>3. Unwritten = {}
        BY <3>1, <4>2 DEF SerialFacts, UnwrittenLast, Unwritten
      <4>4. SameHealth
        BY <3>1, <3>3 DEF SameHealth
      <4> QED BY <2>1, <3>1, <4>3, <4>4, ItemsKeepSerials DEF SerialPhases, ListInv
    <3> QED BY <3>2, <3>3
  <2>3. CASE GcMark
    <3>1. /\ pc = "gc_mark" /\ pc' = "gc_copy" /\ UNCHANGED <<active, idle, sn>> /\ Unwritten = {}
          /\ flash' = [flash EXCEPT ![gc.src].state = "deleting"]
          /\ ram' = [ram EXCEPT ![gc.src].state = "deleting"]
          /\ flash \in [Sectors -> FlashSector] /\ ram \in [Sectors -> RamSector]
      BY <2>3 DEF GcMark, SetState, lists, SerialPhases, WeakTypes
    <3>2. Good(flash[gc.src]) /\ Good(ram[gc.src])
      BY <2>1, <3>1 DEF SerialFacts, HealthKnown, Unwritten, Healthy
    <3>3. /\ flash'[gc.src].state = "deleting" /\ flash'[gc.src].serial = flash[gc.src].serial
          /\ ram'[gc.src].state = "deleting" /\ ram'[gc.src].serial = ram[gc.src].serial
          /\ \A t \in Sectors \ {gc.src} : flash'[t] = flash[t] /\ ram'[t] = ram[t]
      BY <2>1, <3>1 DEF FlashSector, RamSector
    <3>4. SameHealth
      BY <3>2, <3>3 DEF SameHealth, Good
    <3> QED BY <2>1, <3>1, <3>4, ItemsKeepSerials DEF SerialPhases, ListInv
  <2>4. CASE GcCopy
    <3>1. pc = "gc_copy" /\ pc' = pc /\ UNCHANGED <<active, idle, sn>>
      BY <2>4 DEF GcCopy, lists
    <3>2. SameHealth
      BY <2>4, ItemSteps, StatesKeepHealth
    <3> QED BY <3>1, <3>2, ItemsKeepSerials DEF SerialPhases, ListInv
  <2>5. CASE GcErase
    <3>1. /\ pc = "gc_copy" /\ pc' \in {"settle", "put"} /\ sn' = sn /\ Unwritten = {}
          /\ active' = RemoveFirst(active, gc.src) /\ idle' = Append(idle, gc.src)
          /\ flash' = EraseSector(flash, gc.src)
          /\ \E n : ram' = [ram EXCEPT ![gc.dst].free = n,
                                       ![gc.src] = FreshInfo(ram[gc.src].serial)]
      BY <2>1, <2>5 DEF GcErase, WeakTypes, SerialPhases
    <3>2. /\ active \in Seq(Sectors) /\ IsInjective(active)
          /\ idle \in Seq(Sectors) /\ IsInjective(idle) /\ gc.src \notin ToSet(idle)
      BY <2>1, <3>1 DEF ListInv, ListsPartition, Lists
    <3>3. ToSet(active') = ToSet(active) \ {gc.src} /\ ToSet(idle') = ToSet(idle) \cup {gc.src}
      BY <2>1, <3>1, <3>2, RemoveOnly, AppendNew
    <3>4. \A x, y : Before(active', x, y) => Before(active, x, y)
      BY <2>1, <3>1, <3>2, RemoveBefore
    <3>5. /\ ~Good(flash'[gc.src])
          /\ \A t \in Sectors \ {gc.src} : flash'[t] = flash[t]
      BY <2>1, <3>1 DEF WeakTypes, EraseSector, Blank, Good
    <3>6. /\ ~Good(ram'[gc.src])
          /\ \A t \in Sectors \ {gc.src} : ram'[t].state = ram[t].state
      <4>1. PICK n : ram' = [ram EXCEPT ![gc.dst].free = n,
                                        ![gc.src] = FreshInfo(ram[gc.src].serial)]
        BY <3>1
      <4>2. FreshInfo(ram[gc.src].serial).state = "uninit"
        BY DEF FreshInfo, Info
      <4>3. ram'[gc.src] = FreshInfo(ram[gc.src].serial)
        BY <2>1, <4>1 DEF WeakTypes
      <4>4. \A t \in Sectors \ {gc.src} : ram'[t].state = ram[t].state
        BY <2>1, <4>1 DEF WeakTypes, RamSector
      <4> QED BY <4>2, <4>3, <4>4 DEF Good
    <3>7. SerialsDistinct' /\ SerialFacts' /\ Unwritten' = {} /\ Spare' = {}
      BY <2>1, <3>1, <3>3, <3>4, <3>5, <3>6, EraseKeepsSerials
    <3> QED BY <3>1, <3>7 DEF SerialPhases
  <2> QED BY <1>2, <2>2, <2>3, <2>4, <2>5 DEF Gc
<1> QED BY <1>1, <1>2

LEMMA PowerLossSerials ==
  ASSUME ListInv, MarkInv, SerialInv, PowerLoss PROVE SerialInv'
<1>1. HeadsKept /\ pc' = "off" /\ active' = <<>> /\ idle' = <<>>
  BY TornHeads DEF PowerLoss
<1> QED BY <1>1 DEF SerialInv, SerialsDistinct, HeadsKept, Healthy, Good

LEMMA InitSerials == Init => SerialInv
BY DEF Init, SerialInv, SerialsDistinct, Healthy, Good, Blank

LEMMA SerialInvStep == ListInv /\ MarkInv /\ SerialInv /\ [Next]_vars => SerialInv'
<1>1. CASE UNCHANGED vars
  BY <1>1 DEF vars, SerialInv, SerialFacts, SerialPhases, SerialsDistinct, SerialsBelow,
              SerialOrder, HealthKnown, UnwrittenLast, SpareFirst, Healthy, Unwritten, Spare
<1> QED BY <1>1, MountSerials, CallSerials, GcSerials, PowerLossSerials DEF Next

\* The active list is in the order of the serial numbers in flash, so that a
\* power failure at any moment loses nothing of what the order decides: which
\* of two items is the newer one, and which sector an unfinished copy is in.
THEOREM OrderIsStored == Spec => []OrderSurvives
<1>1. ListInv /\ MarkInv /\ SerialInv /\ [Next]_vars => SerialInv'
  BY SerialInvStep
<1>2. ListInv /\ MarkInv /\ [Next]_vars => MarkInv'
  BY MarkInvStep
<1>3. ListInv /\ [Next]_vars => ListInv'
  BY ListInvStep
<1>4. ListInv /\ SerialInv => OrderSurvives
  <2> SUFFICES ASSUME ListInv, SerialInv, NEW i \in DOMAIN active, NEW j \in DOMAIN active,
                      i < j, Good(flash[active[i]]), Good(flash[active[j]])
               PROVE  flash[active[i]].serial < flash[active[j]].serial
    BY DEF OrderSurvives
  <2>1. active[i] \in Sectors /\ active[j] \in Sectors
    BY LenProperties, ElementOfSeq DEF ListInv, Lists
  <2>2. Before(active, active[i], active[j])
    BY DEF Before
  <2>3. pc # "off"
    <3>1. active = <<>> => DOMAIN active = {}
      BY EmptySeq, LenProperties
    <3> QED BY <3>1 DEF SerialInv
  <2> QED BY <2>1, <2>2, <2>3 DEF SerialInv, SerialFacts, SerialOrder, Healthy
<1> QED BY <1>1, <1>2, <1>3, <1>4, InitListInv, InitMarks, InitSerials, PTL DEF Spec
-------------------------------------------------------------------------------
(* Where the items of a sector lie.  Clearing a state byte moves none, and *)
(* programming one appends it.                                             *)

\* The items of q are those of r, some of them dropped.
SameShape(q, r) ==
  /\ DOMAIN q = DOMAIN r
  /\ \A j \in DOMAIN r : /\ q[j].at = r[j].at /\ q[j].span = r[j].span
                         /\ q[j].key = r[j].key /\ q[j].val = r[j].val
                         /\ q[j].crcItem = r[j].crcItem /\ q[j].crcData = r[j].crcData
                         /\ q[j].state = "using" => r[j].state = "using"

\* A step that drops items at most, and changes no counter of used slices.
OnlyDropped ==
  \A s \in Sectors : /\ SameShape(flash'[s].items, flash[s].items)
                     /\ ram'[s].free = ram[s].free /\ ram'[s].used = ram[s].used

\* A step that appends the item i to those of s; l is the item that lands.
Appended(s, i, l) ==
  /\ flash'[s].items = Append(flash[s].items, l) /\ l \in AnyItem
  /\ l.at = i.at /\ l.key = i.key /\ l.val = i.val
  /\ l.crcItem => i.crcItem /\ l.span = i.span
  /\ l.crcData => i.crcData
  /\ l.state = "using" => i.state = "using"
  /\ \A t \in Sectors \ {s} : flash'[t] = flash[t]

LEMMA DropShape ==
  ASSUME NEW f \in [Sectors -> FlashSector], NEW s \in Sectors, NEW n \in Nat
  PROVE  \A t \in Sectors : SameShape(DropAt(f, s, n)[t].items, f[t].items)
<1> DEFINE q == f[s].items
           r == [j \in DOMAIN q |-> IF q[j].at = n THEN [q[j] EXCEPT !.state = "dropped"]
                                                  ELSE q[j]]
<1>1. q \in Seq(AnyItem)
  BY DEF FlashSector
<1>2. Len(q) \in Nat /\ DOMAIN q = 1..Len(q) /\ \A j \in 1..Len(q) : q[j] \in AnyItem
  BY <1>1, LenProperties, ElementOfSeq
<1>3. SameShape(r, q)
  BY <1>2 DEF SameShape, AnyItem
<1>4. SameShape(q, q)
  BY DEF SameShape
<1>5. \/ DropAt(f, s, n) = [f EXCEPT ![s].items = r]
      \/ DropAt(f, s, n) = [f EXCEPT ![s].stray = @ \cup {n}]
  BY DEF DropAt
<1>6. DropAt(f, s, n)[s].items \in {q, r} /\ \A t \in Sectors \ {s} : DropAt(f, s, n)[t] = f[t]
  <2> HIDE DEF r
  <2> QED BY <1>5 DEF FlashSector
<1>7. \A t \in Sectors : SameShape(f[t].items, f[t].items)
  BY DEF SameShape
<1> HIDE DEF r
<1> QED BY <1>3, <1>4, <1>6, <1>7

LEMMA EraseItemDrops ==
  ASSUME WeakTypes, NEW p \in OldPlace, EraseItem(p) PROVE OnlyDropped
<1>1. /\ p.sec \in Sectors /\ p.at \in Nat
      /\ flash' = DropAt(flash, p.sec, p.at) /\ ram' = AddDroped(ram, p.sec, p.span)
      /\ flash \in [Sectors -> FlashSector] /\ ram \in [Sectors -> RamSector]
  BY DEF OldPlace, EraseItem, WeakTypes
<1>2. \A t \in Sectors : SameShape(flash'[t].items, flash[t].items)
  BY <1>1, DropShape
<1>3. \A t \in Sectors : ram'[t].free = ram[t].free /\ ram'[t].used = ram[t].used
  BY <1>1 DEF AddDroped, RamSector
<1> QED BY <1>2, <1>3 DEF OnlyDropped

LEMMA NothingDropped ==
  ASSUME \A s \in Sectors : flash'[s].items = flash[s].items
                            /\ ram'[s].free = ram[s].free /\ ram'[s].used = ram[s].used
  PROVE  OnlyDropped
BY DEF OnlyDropped, SameShape

LEMMA ProgramAppends ==
  ASSUME WeakTypes, NEW s \in Sectors, NEW i \in AnyItem, flash' = Program(flash, s, i)
  PROVE  \E l \in AnyItem : Appended(s, i, l) /\ l.crcItem = i.crcItem /\ l.span = i.span
<1> DEFINE burnt == flash[s].stray \cap Slices(i)
           l == [i EXCEPT !.state = IF i.at \in burnt THEN "dropped" ELSE @,
                          !.crcData = @ /\ burnt \subseteq {i.at}]
<1>1. (burnt \subseteq {i.at}) \in BOOLEAN
  OBVIOUS
<1>2. l \in AnyItem
  BY <1>1, LandedType
<1>3. /\ l.at = i.at /\ l.crcItem = i.crcItem /\ l.span = i.span
      /\ l.key = i.key /\ l.val = i.val
      /\ l.crcData => i.crcData
      /\ l.state = "using" => i.state = "using"
  BY DEF AnyItem
<1>4. flash' = [flash EXCEPT ![s].items = Append(flash[s].items, l)]
  BY DEF Program
<1>5. flash \in [Sectors -> FlashSector]
  BY DEF WeakTypes
<1> HIDE DEF l
<1>6. /\ flash'[s].items = Append(flash[s].items, l)
      /\ \A t \in Sectors \ {s} : flash'[t] = flash[t]
  BY <1>4, <1>5 DEF FlashSector
<1>7. Appended(s, i, l)
  BY <1>2, <1>3, <1>6 DEF Appended
<1> QED BY <1>2, <1>3, <1>7

LEMMA TornAppends ==
  ASSUME WeakTypes, NEW s \in Sectors, NEW i \in AnyItem, flash' \in TornItem(s, i)
  PROVE  \E l \in AnyItem : /\ Appended(s, i, l) /\ l.span \in {i.span, Overlong}
                            /\ ~l.crcItem \/ ~l.crcData
                            /\ "data" \notin Tears => ~l.crcItem
<1>1. PICK how \in Tears : flash' = Program(flash, s, CutShort(i, how))
  BY DEF TornItem
<1> DEFINE c == CutShort(i, how)
<1>2. /\ c \in AnyItem /\ c.at = i.at /\ c.key = i.key /\ c.val = i.val
      /\ c.crcItem => i.crcItem /\ c.span = i.span
      /\ c.crcData => i.crcData
      /\ c.span \in {i.span, Overlong} /\ (~c.crcItem \/ ~c.crcData)
      /\ "data" \notin Tears => ~c.crcItem
  BY CutType
<1>3. c.state = i.state
  BY SwitchesAssumption DEF CutShort, AnyItem
<1> HIDE DEF c
<1>4. PICK l \in AnyItem : Appended(s, c, l) /\ l.crcItem = c.crcItem /\ l.span = c.span
  BY <1>1, <1>2, ProgramAppends DEF c
<1>5. Appended(s, i, l)
  BY <1>2, <1>3, <1>4 DEF Appended
<1>6. /\ l.span \in {i.span, Overlong} /\ (~l.crcItem \/ ~l.crcData)
      /\ "data" \notin Tears => ~l.crcItem
  BY <1>2, <1>4 DEF Appended
<1> QED BY <1>5, <1>6

-------------------------------------------------------------------------------
(* The reserve.  Reclaiming copies into an idle sector, so one must be     *)
(* left and hold nothing.  What makes that hard is the recovery: after a   *)
(* power failure between the header of the copy and the mark on its        *)
(* source, no sector is idle and none is marked, and the mount rolls back  *)
(* whichever sector has the highest serial number.                         *)

Bare(s) == flash[s].items = <<>>

BareFacts ==
  /\ \A s \in ToSet(idle) : ram[s].state = "crash" \/ Bare(s)
  /\ \A s \in Unwritten : Bare(s)

ErasedBare == \A s \in Sectors : flash[s].state = "uninit" => Bare(s)

\* The sector that will be rolled back holds nothing.
LastBare ==
  Healthy = Sectors /\ Marked = {} =>
    \A s \in Sectors : (\A t \in Sectors : flash[t].serial <= flash[s].serial) => Bare(s)

ReservePhases ==
  /\ pc \in {"ready", "put", "drop", "request"} => idle # <<>>
  /\ pc \in {"gc_init", "gc_mark"} => gc.dst = Last(active) /\ Bare(gc.dst)
  /\ pc = "fix_take" => Marked # {}
  /\ \/ pc \in {"ready", "put", "drop", "request", "fix_take", "gc_init", "gc_mark", "gc_copy"}
     \/ LastBare

ReserveInv == ErasedBare /\ (pc # "off" => BareFacts) /\ ReservePhases

LEMMA ShapeBare ==
  ASSUME NEW q \in Seq(AnyItem), NEW r \in Seq(AnyItem), SameShape(q, r)
  PROVE  q = <<>> <=> r = <<>>
<1>1. \A x \in Seq(AnyItem) : x = <<>> <=> DOMAIN x = {}
  <2> TAKE x \in Seq(AnyItem)
  <2>1. PICK n \in Nat : n = Len(x) /\ DOMAIN x = 1..n
    BY LenProperties
  <2>2. n = 0 <=> x = <<>>
    BY <2>1, EmptySeq
  <2>3. n = 0 <=> 1..n = {}
    OBVIOUS
  <2> QED BY <2>1, <2>2, <2>3
<1>2. q = <<>> <=> DOMAIN q = {}
  BY <1>1
<1>3. r = <<>> <=> DOMAIN r = {}
  BY <1>1
<1>4. DOMAIN q = DOMAIN r
  BY DEF SameShape
<1> QED BY <1>2, <1>3, <1>4

LEMMA DropsKeepBare ==
  ASSUME ListInv, WeakTypes, WeakTypes', OnlyDropped, SameHealth, UNCHANGED <<active, idle>>,
         \A s \in Sectors : flash'[s].state = "uninit" => flash[s].state = "uninit"
  PROVE  /\ \A s \in Sectors : Bare(s)' <=> Bare(s)
         /\ ErasedBare => ErasedBare'
         /\ BareFacts => BareFacts'
<1>1. \A s \in Sectors : Bare(s)' <=> Bare(s)
  <2>1. \A s \in Sectors : flash[s].items \in Seq(AnyItem)
    BY DEF WeakTypes, FlashSector
  <2>2. \A s \in Sectors : flash'[s].items \in Seq(AnyItem)
    BY DEF WeakTypes, FlashSector
  <2> QED BY <2>1, <2>2, ShapeBare DEF OnlyDropped, Bare
<1>2. ToSet(active) \subseteq Sectors /\ ToSet(idle) \subseteq Sectors
  BY ListedSectors DEF ListInv
<1>3. Unwritten' = Unwritten
  BY DEF Unwritten, Healthy, SameHealth
<1> QED BY <1>1, <1>2, <1>3 DEF ErasedBare, BareFacts, SameHealth, Unwritten

LEMMA HeaderKeepsBare ==
  ASSUME ListInv, WeakTypes, NEW s \in Unwritten, InitSector(s), UNCHANGED <<active, idle>>,
         Unwritten' = {}
  PROVE  /\ \A t \in Sectors : Bare(t)' <=> Bare(t)
         /\ ErasedBare => ErasedBare'
         /\ BareFacts => BareFacts'
<1>1. /\ ToSet(active) \subseteq Sectors /\ ToSet(idle) \subseteq Sectors
      /\ s \in ToSet(active) /\ s \in Sectors
  BY ListedSectors DEF ListInv, Unwritten
<1>2. /\ flash' = [flash EXCEPT ![s].state = "using", ![s].serial = ram[s].serial]
      /\ ram' = [ram EXCEPT ![s] = Info("using", ram[s].serial, 0, 0, 0)]
      /\ flash \in [Sectors -> FlashSector] /\ ram \in [Sectors -> RamSector]
  BY DEF InitSector, WriteHeader, WeakTypes
<1>3. /\ flash'[s].state = "using" /\ flash'[s].items = flash[s].items
      /\ \A t \in Sectors \ {s} : flash'[t] = flash[t] /\ ram'[t] = ram[t]
  BY <1>1, <1>2 DEF FlashSector
<1>4. \A t \in Sectors : Bare(t)' <=> Bare(t)
  BY <1>3 DEF Bare
<1>5. ErasedBare => ErasedBare'
  BY <1>3, <1>4 DEF ErasedBare
<1>6. BareFacts => BareFacts'
  BY <1>1, <1>3, <1>4 DEF BareFacts
<1> QED BY <1>4, <1>5, <1>6

LEMMA ActivateKeepsBare ==
  ASSUME ListInv, WeakTypes, pc # "off", Unwritten = {}, Activate, ErasedBare, BareFacts
  PROVE  /\ ErasedBare' /\ BareFacts' /\ Healthy' \subseteq Healthy
         /\ flash'[Head(idle)].items = <<>>
<1> DEFINE h == Head(idle)
<1>1. h \in Sectors /\ h \notin ToSet(active) /\ ToSet(active') = ToSet(active) \cup {h}
  BY ActivateKeepsLists DEF ListInv
<1>2. /\ ToSet(active) \subseteq Sectors /\ ToSet(idle) \subseteq Sectors
      /\ ToSet(idle') = ToSet(idle) \ {h} /\ h \in ToSet(idle)
  <2>1. idle \in Seq(Sectors) /\ idle # <<>> /\ IsInjective(idle) /\ idle' = Tail(idle)
    BY DEF ListInv, Lists, ListsPartition, Activate
  <2> QED BY <2>1, TailOnly, ListedSectors DEF ListInv
<1>3. /\ flash' = IF ram[h].state = "crash" THEN EraseSector(flash, h) ELSE flash
      /\ ram' = IF ram[h].state = "crash" THEN [ram EXCEPT ![h] = FreshInfo(sn)]
                                           ELSE [ram EXCEPT ![h].serial = sn]
      /\ flash \in [Sectors -> FlashSector] /\ ram \in [Sectors -> RamSector]
  BY DEF Activate, WeakTypes
<1>4. /\ \A t \in Sectors \ {h} : flash'[t] = flash[t]
      /\ \A t \in Sectors \ {h} : ram'[t] = ram[t]
      /\ flash'[h].items = <<>>
      /\ Good(flash'[h]) => Good(flash[h])
  <2>1. CASE ram[h].state = "crash"
    <3>1. flash' = [flash EXCEPT ![h] = Blank] /\ ram' = [ram EXCEPT ![h] = FreshInfo(sn)]
      BY <1>3, <2>1 DEF EraseSector
    <3>2. flash'[h] = Blank
      BY <1>1, <1>3, <3>1
    <3>3. Blank.items = <<>> /\ ~Good(Blank)
      BY DEF Blank, Good
    <3> QED BY <1>1, <1>3, <3>1, <3>2, <3>3
  <2>2. CASE ram[h].state # "crash"
    <3>1. flash' = flash /\ ram' = [ram EXCEPT ![h].serial = sn]
      BY <1>3, <2>2
    <3>2. flash[h].items = <<>>
      BY <1>2, <2>2 DEF BareFacts, Bare
    <3> QED BY <1>1, <1>3, <3>1, <3>2
  <2> QED BY <2>1, <2>2
<1> HIDE DEF h
<1>5. Healthy' \subseteq Healthy
  BY <1>4 DEF Healthy
<1>6. \A t \in Unwritten' : t = h
  <2>1. \A t \in ToSet(active) : t \in Healthy /\ t # h
    BY <1>1 DEF Unwritten
  <2>2. \A t \in ToSet(active) : t \in Healthy'
    BY <1>4, <2>1 DEF Healthy
  <2> QED BY <1>1, <2>2 DEF Unwritten
<1>7. \A t \in Sectors : flash'[t].items = <<>> \/ flash'[t] = flash[t]
  BY <1>4
<1>8. ErasedBare'
  BY <1>7 DEF ErasedBare, Bare
<1>9. BareFacts'
  <2>1. ASSUME NEW t \in ToSet(idle') PROVE ram'[t].state = "crash" \/ flash'[t].items = <<>>
    <3>1. t \in ToSet(idle) /\ t \in Sectors \ {h}
      BY <1>2
    <3> QED BY <1>4, <3>1 DEF BareFacts, Bare
  <2>2. \A t \in Unwritten' : flash'[t].items = <<>>
    BY <1>4, <1>6
  <2> QED BY <2>1, <2>2 DEF BareFacts, Bare
<1> QED BY <1>4, <1>5, <1>8, <1>9 DEF h

LEMMA EraseKeepsBare ==
  ASSUME ListInv, pc # "off", ErasedBare, BareFacts,
         NEW s \in ToSet(active), ToSet(idle') = ToSet(idle) \cup {s},
         Unwritten' = {}, flash'[s] = Blank,
         \A t \in Sectors \ {s} : flash'[t] = flash[t] /\ ram'[t].state = ram[t].state
  PROVE  ErasedBare' /\ BareFacts' /\ Healthy' # Sectors
<1>1. ToSet(active) \subseteq Sectors /\ ToSet(idle) \subseteq Sectors
  BY ListedSectors DEF ListInv
<1>2. Bare(s)' /\ s \notin Healthy'
  BY DEF Bare, Healthy, Blank, Good
<1>3. \A t \in Sectors \ {s} : Bare(t)' <=> Bare(t)
  BY DEF Bare
<1> QED BY <1>1, <1>2, <1>3 DEF ErasedBare, BareFacts

LEMMA AppendKeepsBare ==
  ASSUME ListInv, pc # "off", ErasedBare, BareFacts, SameStates, UNCHANGED <<active, idle>>,
         NEW s \in ToSet(active), s \in Healthy, NEW i, NEW l, Appended(s, i, l)
  PROVE  ErasedBare' /\ BareFacts' /\ \A t \in Sectors \ {s} : Bare(t)' <=> Bare(t)
<1>1. /\ ToSet(active) \subseteq Sectors /\ ToSet(idle) \subseteq Sectors
      /\ s \notin ToSet(idle)
  BY ListedSectors DEF ListInv, ListsPartition
<1>2. \A t \in Sectors \ {s} : Bare(t)' <=> Bare(t)
  BY DEF Appended, Bare
<1>3. /\ \A t \in Sectors : flash'[t].state = flash[t].state /\ ram'[t].state = ram[t].state
      /\ Good(flash[s])
  BY DEF SameStates, SameHeads, Healthy
<1>4. Unwritten' = Unwritten /\ s \notin Unwritten
  BY <1>3 DEF Unwritten, Healthy, Good
<1>5. ErasedBare'
  BY <1>2, <1>3 DEF ErasedBare, Good
<1>6. BareFacts'
  BY <1>1, <1>2, <1>3, <1>4 DEF BareFacts, Unwritten
<1> QED BY <1>2, <1>5, <1>6

\* The load drops items with a bad head, and takes no header away.
LEMMA CleanedShape ==
  ASSUME NEW f \in FlashSector PROVE SameShape(Cleaned(f).items, f.items)
<1> DEFINE q == f.items
           r == [j \in DOMAIN q |-> IF Torn(q[j]) THEN [q[j] EXCEPT !.state = "dropped"]
                                                  ELSE q[j]]
<1>1. q \in Seq(AnyItem)
  BY DEF FlashSector
<1>2. Len(q) \in Nat /\ DOMAIN q = 1..Len(q) /\ \A j \in 1..Len(q) : q[j] \in AnyItem
  BY <1>1, LenProperties, ElementOfSeq
<1>3. SameShape(r, q)
  BY <1>2 DEF SameShape, AnyItem
<1>4. Cleaned(f).items = r
  BY DEF Cleaned, FlashSector
<1> QED BY <1>3, <1>4

LEMMA LoadedBare ==
  ASSUME NEW f \in FlashSector, ~Good(f)
  PROVE  LoadedInfo(f).state = "crash" \/ f.state = "uninit"
BY DEF LoadedInfo, Info, FlashSector, State, Good

\* Steps that fill no empty sector and write no header keep the last one bare.
LEMMA LastStaysBare ==
  ASSUME LastBare, Healthy' \subseteq Healthy, Marked \subseteq Marked',
         \A s \in Sectors : flash'[s].serial = flash[s].serial,
         \A s \in Sectors : Bare(s) => flash'[s].items = <<>>
  PROVE  LastBare'
<1> SUFFICES ASSUME Healthy' = Sectors, Marked' = {}, NEW s \in Sectors,
                    \A t \in Sectors : flash'[t].serial <= flash'[s].serial
             PROVE  flash'[s].items = <<>>
  BY DEF LastBare, Bare
<1>1. Healthy = Sectors /\ Marked = {}
  BY DEF Healthy
<1>2. \A t \in Sectors : flash[t].serial <= flash[s].serial
  OBVIOUS
<1> QED BY <1>1, <1>2 DEF LastBare

\* The last of the active list has the highest serial number of the list.
LEMMA LastIsHighest ==
  ASSUME ListInv, WeakTypes, pc # "off", SerialFacts, ToSet(active) = Sectors, Healthy = Sectors,
         NEW s \in Sectors, \A t \in Sectors : flash[t].serial <= flash[s].serial
  PROVE  s = Last(active)
<1>1. active \in Seq(Sectors) /\ active # <<>> /\ IsInjective(active)
  BY EmptyIsDistinct DEF ListInv, Lists, ListsPartition
<1>2. Last(active) \in Sectors
  BY <1>1, FrontOnly
<1>3. s # Last(active) => flash[s].serial < flash[Last(active)].serial
  BY <1>1, <1>2, LastBefore DEF SerialFacts, SerialOrder
<1>4. flash[s].serial \in Nat /\ flash[Last(active)].serial \in Nat
  BY <1>2 DEF WeakTypes, FlashSector
<1> QED BY <1>2, <1>3, <1>4

\* The mount rolls back a sector that holds nothing.
LEMMA SettleReserve ==
  ASSUME ListInv, MarkInv, SerialInv, ReserveInv, Settle PROVE ReserveInv'
<1> USE DEF SerialInv, MarkInv
<1>1. /\ pc = "settle" /\ pc' = "ready" /\ UNCHANGED <<flash, ram>>
      /\ \/ idle # <<>> /\ UNCHANGED <<active, idle>>
         \/ idle = <<>> /\ active' = Front(active) /\ idle' = <<Current>>
  BY DEF Settle
<1>2. ErasedBare' /\ Healthy' = Healthy
  BY <1>1 DEF ReserveInv, ErasedBare, Bare, Healthy
<1>3. CASE idle # <<>> /\ UNCHANGED <<active, idle>>
  BY <1>1, <1>2, <1>3 DEF ReserveInv, ReservePhases, BareFacts, Bare, Unwritten
<1>4. CASE idle = <<>> /\ active' = Front(active) /\ idle' = <<Current>>
  <2>1. /\ active \in Seq(Sectors) /\ active # <<>> /\ IsInjective(active)
        /\ Current = Last(active) /\ Current \in Sectors
    BY <1>1, CurrentType DEF ListInv, ListsPartition, Lists, Current
  <2>2. ToSet(active) = Sectors /\ ToSet(active') \subseteq ToSet(active)
    <3>1. ToSet(active') \subseteq ToSet(active)
      BY <1>4, <2>1, FrontOnly
    <3>2. ToSet(idle) = {} /\ ToSet(active) \cup ToSet(idle) = Sectors
      BY <1>1, <1>4, EmptyIsDistinct DEF ListInv, ListsPartition
    <3> QED BY <3>1, <3>2
  <2>3. ToSet(idle') = {Current} /\ idle' # <<>>
    BY <1>4 DEF ToSet
  <2>4. Unwritten = {}
    <3>1. 0 \in Sectors /\ 1 \in Sectors
      BY SizesAssumption DEF Sectors
    <3>2. \A s \in Unwritten : s = Last(active)
      BY <1>1 DEF SerialFacts, UnwrittenLast
    <3>3. Unwritten # ToSet(active)
      BY <2>2, <3>1, <3>2
    <3> QED BY <1>1, <3>3 DEF SerialPhases
  <2>5. Healthy = Sectors /\ Unwritten' = {}
    BY <1>2, <2>2, <2>4 DEF Unwritten, Healthy
  <2>6. \A t \in Sectors : flash[t].serial <= flash[Current].serial
    <3> TAKE t \in Sectors
    <3>1. t = Current \/ flash[t].serial < flash[Current].serial
      BY <1>1, <2>1, <2>2, <2>5, LastBefore DEF SerialFacts, SerialOrder
    <3>2. flash[t].serial \in Nat /\ flash[Current].serial \in Nat
      BY <2>1 DEF WeakTypes, FlashSector
    <3> QED BY <3>1, <3>2
  <2>7. Bare(Current)
    BY <1>1, <2>1, <2>5, <2>6 DEF ReserveInv, ReservePhases, LastBare, MarksInPlace
  <2>8. BareFacts'
    BY <1>1, <2>3, <2>5, <2>7 DEF BareFacts, Bare
  <2> QED BY <1>1, <1>2, <2>3, <2>8 DEF ReserveInv, ReservePhases
<1> QED BY <1>1, <1>3, <1>4

LEMMA MountReserve ==
  ASSUME ListInv, MarkInv, SerialInv, ReserveInv, Mount, MarkInv', SerialInv'
  PROVE  ReserveInv'
<1> USE DEF SerialInv, MarkInv
<1>1. CASE Load
  <2>1. /\ pc = "off" /\ pc' = "fix_write"
        /\ flash' = [s \in Sectors |-> IF Good(flash[s]) THEN Cleaned(flash[s]) ELSE flash[s]]
        /\ ram' = [s \in Sectors |-> LoadedInfo(flash[s])]
    BY <1>1 DEF Load
  <2>2. \A s \in Sectors : flash[s] \in FlashSector /\ flash'[s] \in FlashSector
    BY DEF WeakTypes
  <2>3. \A s \in Sectors : /\ flash'[s].state = flash[s].state /\ flash'[s].serial = flash[s].serial
                           /\ SameShape(flash'[s].items, flash[s].items)
    <3>1. \A s \in Sectors : SameShape(flash[s].items, flash[s].items)
      BY DEF SameShape
    <3> QED BY <2>1, <2>2, <3>1, CleanedType, CleanedShape
  <2>4. \A s \in Sectors : Bare(s) <=> flash'[s].items = <<>>
    <3>1. \A s \in Sectors : flash[s].items \in Seq(AnyItem) /\ flash'[s].items \in Seq(AnyItem)
      BY <2>2 DEF FlashSector
    <3> QED BY <2>3, <3>1, ShapeBare DEF Bare
  <2>5. ErasedBare'
    BY <2>3, <2>4 DEF ReserveInv, ErasedBare, Bare
  <2>6. Unwritten' = {} /\ Spare' = {}
    BY <1>1, LoadKeepsSerials
  <2>7. ToSet(idle') \subseteq Sectors \ Healthy'
    <3>1. ToSet(idle') \subseteq Sectors
      BY <1>1, <2>1, LoadLists DEF ListsPartition
    <3>2. \A t \in ToSet(idle') : t \notin Healthy'
      BY <2>6 DEF Spare
    <3> QED BY <3>1, <3>2
  <2>8. BareFacts'
    <3>1. ASSUME NEW s \in ToSet(idle') PROVE ram'[s].state = "crash" \/ flash'[s].items = <<>>
      <4>1. s \in Sectors /\ ~Good(flash[s])
        BY <2>3, <2>7 DEF Healthy, Good
      <4>2. ram'[s].state = "crash" \/ flash[s].state = "uninit"
        BY <2>1, <2>2, <4>1, LoadedBare
      <4> QED BY <2>4, <4>1, <4>2 DEF ReserveInv, ErasedBare
    <3> QED BY <2>6, <3>1 DEF BareFacts, Bare
  <2>9. LastBare'
    <3>1. Healthy' = Healthy /\ Marked' = Marked
      BY <2>3 DEF Healthy, Marked, Good
    <3> QED BY <2>1, <2>3, <2>4, <3>1, LastStaysBare DEF ReserveInv, ReservePhases
  <2> QED BY <2>1, <2>5, <2>8, <2>9 DEF ReserveInv, ReservePhases
<1>2. CASE LoadFirst
  <2>1. pc = "fix_write" /\ pc' = pc /\ active = <<>> /\ Activate
    BY <1>2 DEF LoadFirst
  <2>2. Unwritten = {}
    BY <2>1, EmptyIsDistinct DEF Unwritten
  <2>3. ErasedBare' /\ BareFacts' /\ Healthy' \subseteq Healthy
    BY <2>1, <2>2, ActivateKeepsBare DEF ReserveInv
  <2>4. 0 \notin Healthy /\ 0 \in Sectors
    <3>1. ToSet(idle) = Sectors
      BY <2>1, EmptyIsDistinct DEF ListInv, ListsPartition
    <3> QED BY <2>1, <3>1, SectorsFinite DEF SerialPhases, Spare
  <2>5. LastBare'
    BY <2>3, <2>4 DEF LastBare
  <2> QED BY <2>1, <2>3, <2>5 DEF ReserveInv, ReservePhases
<1>3. CASE FixWrite
  <2>1. pc = "fix_write" /\ pc' = "fix_gc" /\ UNCHANGED <<active, idle>>
    BY <1>3 DEF FixWrite, lists
  <2>2. SameStates /\ OnlyDropped
    BY <1>3, ItemSteps, DropSteps, EraseItemDrops, NothingDropped
  <2>3. SameHealth /\ \A s \in Sectors : flash'[s].state = flash[s].state
    BY <2>2, StatesKeepHealth DEF SameStates, SameHeads
  <2>4. (\A s \in Sectors : Bare(s)' <=> Bare(s)) /\ ErasedBare' /\ BareFacts'
    BY <2>1, <2>2, <2>3, DropsKeepBare DEF ReserveInv
  <2>5. LastBare'
    <3>1. Healthy' = Healthy /\ Marked' = Marked
      BY <2>3 DEF Healthy, Marked, SameHealth
    <3>2. \A s \in Sectors : Bare(s) => flash'[s].items = <<>>
      BY <2>4 DEF Bare
    <3> QED BY <2>1, <2>3, <3>1, <3>2, LastStaysBare DEF ReserveInv, ReservePhases, SameHealth
  <2> QED BY <2>1, <2>4, <2>5 DEF ReserveInv, ReservePhases
<1>4. CASE FixGcErase
  <2>1. pc = "fix_gc"
    BY <1>4 DEF FixGcErase
  <2>2. CASE Deleting = {}
    <3>1. pc' = "settle" /\ UNCHANGED <<flash, ram, active, idle>>
      BY <1>4, <2>2 DEF FixGcErase
    <3> QED BY <2>1, <3>1 DEF ReserveInv, ReservePhases, ErasedBare, BareFacts, LastBare, Bare,
                              Unwritten, Healthy, Marked
  <2>3. CASE Deleting # {}
    <3>1. pc' = "fix_take"
      BY <1>4, <2>3 DEF FixGcErase
    <3>2. PICK i \in DOMAIN active : ram[active[i]].state = "deleting"
      BY <2>3 DEF Deleting
    <3>3. active[i] \in Sectors /\ flash[active[i]].state = "deleting"
      BY <2>1, <3>2, LenProperties, ElementOfSeq DEF MarksKnown, ListInv, Lists
    <3>4. CASE ram[Current].state = "using"
      <4>1. /\ flash' = EraseSector(flash, Current)
            /\ ram' = [ram EXCEPT ![Current] = FreshInfo(ram[Current].serial)]
            /\ active' = Front(active) /\ idle' = Append(idle, Current)
        BY <1>4, <2>3, <3>4 DEF FixGcErase
      <4>2. /\ idle \in Seq(Sectors) /\ IsInjective(idle)
            /\ Current \in Sectors /\ Current \in ToSet(active) /\ Current \notin ToSet(idle)
        BY <2>1, CurrentType DEF ListInv, ListsPartition, Lists
      <4>3. ToSet(idle') = ToSet(idle) \cup {Current}
        BY <4>1, <4>2, AppendNew
      <4>4. /\ flash'[Current] = Blank
            /\ \A t \in Sectors \ {Current} : flash'[t] = flash[t] /\ ram'[t].state = ram[t].state
        BY <4>1, <4>2 DEF WeakTypes, EraseSector
      <4>5. Unwritten' = {}
        BY <3>1 DEF SerialPhases
      <4>6. ErasedBare' /\ BareFacts'
        BY <2>1, <4>2, <4>3, <4>4, <4>5, EraseKeepsBare DEF ReserveInv
      <4>7. flash'[active[i]].state = "deleting"
        BY <3>2, <3>3, <3>4, <4>4
      <4>8. Marked' # {}
        BY <3>3, <4>7 DEF Marked
      <4> QED BY <3>1, <4>6, <4>8 DEF ReserveInv, ReservePhases
    <3>5. CASE ram[Current].state # "using"
      <4>1. UNCHANGED <<flash, ram, active, idle>>
        BY <1>4, <2>3, <3>5 DEF FixGcErase
      <4>2. Marked' # {}
        BY <3>3, <4>1 DEF Marked
      <4> QED BY <2>1, <3>1, <4>1, <4>2 DEF ReserveInv, ReservePhases, ErasedBare, BareFacts, Bare,
                                            Unwritten, Healthy
    <3> QED BY <3>4, <3>5
  <2> QED BY <2>2, <2>3
<1>5. CASE FixGcTake
  <2>1. pc = "fix_take" /\ pc' = "gc_init" /\ Activate /\ Unwritten = {}
    BY <1>5 DEF FixGcTake, SerialPhases
  <2>2. PICK i \in Deleting : gc' = [NoGc EXCEPT !.src = active[i], !.dst = Head(idle)]
    BY <1>5 DEF FixGcTake
  <2>3. gc'.dst = Head(idle)
    BY <2>2 DEF NoGc
  <2>4. ErasedBare' /\ BareFacts' /\ flash'[Head(idle)].items = <<>>
    BY <2>1, ActivateKeepsBare DEF ReserveInv
  <2>5. gc'.dst = Last(active')
    BY <2>1 DEF SerialPhases
  <2> QED BY <2>1, <2>3, <2>4, <2>5 DEF ReserveInv, ReservePhases, Bare
<1>6. CASE Settle
  BY <1>6, SettleReserve
<1> QED BY <1>1, <1>2, <1>3, <1>4, <1>5, <1>6 DEF Mount

LEMMA CallReserve ==
  ASSUME ListInv, MarkInv, SerialInv, ReserveInv, MarkInv', SerialInv',
         \/ Write
         \/ \E k \in Keys, v \in Values : Set(k, v)
         \/ \E k \in Keys, t \in Types : Get(k, t) \/ Del(k, t)
  PROVE  ReserveInv'
<1> USE DEF SerialInv, MarkInv
<1>1. ASSUME pc \in {"ready", "put", "drop", "request"}, pc' \in {"ready", "put", "drop", "request"},
             UNCHANGED idle, ErasedBare', BareFacts'
      PROVE  ReserveInv'
  BY <1>1 DEF ReserveInv, ReservePhases
<1>2. ASSUME UNCHANGED <<flash, ram, active, idle>>, pc # "off" PROVE ErasedBare' /\ BareFacts'
  BY <1>2 DEF ReserveInv, ErasedBare, BareFacts, Bare, Unwritten, Healthy
<1>3. ASSUME SameStates, OnlyDropped, UNCHANGED <<active, idle>>, pc # "off"
      PROVE  ErasedBare' /\ BareFacts'
  <2>1. SameHealth /\ \A s \in Sectors : flash'[s].state = flash[s].state
    BY <1>3, StatesKeepHealth DEF SameStates, SameHeads
  <2> QED BY <1>3, <2>1, DropsKeepBare DEF ReserveInv
<1>4. ASSUME NEW k \in Keys, NEW t \in Types, Get(k, t) PROVE ReserveInv'
  <2>1. pc = "ready" /\ pc' = pc /\ UNCHANGED <<flash, ram, active, idle>>
    BY <1>4 DEF Get, lists
  <2> QED BY <1>1, <1>2, <2>1
<1>5. ASSUME NEW k \in Keys, NEW v \in Values, Set(k, v) PROVE ReserveInv'
  <2>1. pc = "ready" /\ pc' \in {"ready", "put"} /\ UNCHANGED <<flash, ram, active, idle>>
    BY <1>5 DEF Set, lists
  <2> QED BY <1>1, <1>2, <2>1
<1>6. CASE DropOld \/ \E k \in Keys, t \in Types : Del(k, t)
  <2>1. pc \in {"drop", "ready"} /\ pc' = "ready" /\ UNCHANGED <<active, idle>>
    BY <1>6 DEF DropOld, Del, Return, lists
  <2>2. SameStates /\ OnlyDropped
    BY <1>6, ItemSteps, DropSteps, EraseItemDrops, NothingDropped
  <2> QED BY <1>1, <1>3, <2>1, <2>2
<1>7. CASE PutItem
  <2>1. /\ pc = "put" /\ pc' = "drop" /\ UNCHANGED <<active, idle>> /\ ram[Current].state # "uninit"
        /\ flash' = Program(flash, Current, NewItem(op.key, op.val, ram[Current].free))
    BY <1>7 DEF PutItem, lists
  <2>2. /\ Current \in Sectors /\ Current \in ToSet(active)
        /\ NewItem(op.key, op.val, ram[Current].free) \in AnyItem
    BY <2>1, PutItemType
  <2>3. Current \in Healthy
    <3>1. ram[Current].state \in State
      BY <2>2 DEF WeakTypes, RamSector
    <3> QED BY <2>1, <2>2, <3>1 DEF SerialFacts, HealthKnown, Healthy, Good, State
  <2>4. PICK l \in AnyItem : Appended(Current, NewItem(op.key, op.val, ram[Current].free), l)
    BY <2>1, <2>2, ProgramAppends
  <2>5. ErasedBare' /\ BareFacts'
    BY <1>7, <2>1, <2>2, <2>3, <2>4, ItemSteps, AppendKeepsBare DEF ReserveInv
  <2> QED BY <1>1, <2>1, <2>5
<1>8. CASE PutInit
  <2>1. /\ pc = "put" /\ pc' = pc /\ UNCHANGED <<active, idle, sn>>
        /\ ram[Current].state = "uninit" /\ InitSector(Current)
    BY <1>8 DEF PutInit, lists
  <2>2. Current \in Unwritten
    BY <2>1, CurrentType DEF SerialFacts, HealthKnown, Unwritten, Healthy, Good
  <2>3. Unwritten' = {}
    BY <2>1, <2>2, HeaderKeepsSerials
  <2>4. ErasedBare' /\ BareFacts'
    BY <2>1, <2>2, <2>3, HeaderKeepsBare DEF ReserveInv
  <2> QED BY <1>1, <2>1, <2>4
<1>9. CASE PutFull \/ NoSpace
  <2>1. /\ pc \in {"put", "request"} /\ pc' \in {"ready", "request"}
        /\ UNCHANGED <<flash, ram, active, idle>>
    BY <1>9 DEF PutFull, NoSpace, Return, lists
  <2> QED BY <1>1, <1>2, <2>1
<1>10. CASE TakeIdle
  <2>1. pc = "request" /\ pc' = "put" /\ Activate /\ Unwritten = {} /\ Len(idle) > 1
    BY <1>10 DEF TakeIdle, SerialPhases
  <2>2. idle \in Seq(Sectors) /\ idle' = Tail(idle) /\ idle # <<>>
    BY <2>1 DEF ListInv, Lists, Activate
  <2>3. Len(idle') = Len(idle) - 1 /\ Len(idle) \in Nat /\ idle' \in Seq(Sectors)
    BY <2>2, HeadTailProperties, LenProperties
  <2>4. idle' # <<>>
    BY <2>1, <2>3, EmptySeq
  <2>5. ErasedBare' /\ BareFacts'
    BY <2>1, ActivateKeepsBare DEF ReserveInv
  <2> QED BY <2>1, <2>4, <2>5 DEF ReserveInv, ReservePhases
<1> QED BY <1>4, <1>5, <1>6, <1>7, <1>8, <1>9, <1>10 DEF Write

LEMMA GcReserve ==
  ASSUME ListInv, MarkInv, SerialInv, ReserveInv, Gc, MarkInv', SerialInv'
  PROVE  ReserveInv'
<1> USE DEF SerialInv, MarkInv
<1>1. CASE GcStart
  <2>1. pc = "request" /\ pc' = "gc_init" /\ Activate /\ Unwritten = {}
    BY <1>1 DEF GcStart, SerialPhases
  <2>2. PICK s \in Dirtiest : gc' = [NoGc EXCEPT !.src = s, !.dst = Head(idle)]
    BY <1>1 DEF GcStart
  <2>3. gc'.dst = Head(idle)
    BY <2>2 DEF NoGc
  <2>4. ErasedBare' /\ BareFacts' /\ flash'[Head(idle)].items = <<>>
    BY <2>1, ActivateKeepsBare DEF ReserveInv
  <2>5. gc'.dst = Last(active')
    BY <2>1 DEF SerialPhases
  <2> QED BY <2>1, <2>3, <2>4, <2>5 DEF ReserveInv, ReservePhases, Bare
<1>2. ASSUME ~GcStart PROVE ReserveInv'
  <2>1. /\ pc \in {"gc_init", "gc_mark", "gc_copy"}
        /\ gc.src \in Sectors /\ gc.dst \in Sectors
        /\ gc.src \in ToSet(active) /\ gc.dst \in ToSet(active)
    <3>1. pc \in {"gc_init", "gc_mark", "gc_copy"}
      BY <1>2 DEF Gc, GcInit, GcMark, GcCopy, GcErase
    <3> QED BY <3>1 DEF ListInv, GcRunning, WeakTypes
  <2>2. CASE GcInit
    <3>1. /\ pc = "gc_init" /\ pc' \in {"gc_copy", "gc_mark"} /\ UNCHANGED <<active, idle, sn, gc>>
          /\ IF ram[gc.dst].state = "uninit" THEN InitSector(gc.dst) ELSE UNCHANGED <<flash, ram>>
          /\ gc.dst = Last(active) /\ flash[gc.dst].items = <<>>
      BY <2>2 DEF GcInit, lists, ReserveInv, ReservePhases, Bare
    <3>2. CASE ram[gc.dst].state = "uninit"
      <4>1. gc.dst \in Unwritten
        BY <2>1, <3>2 DEF SerialFacts, HealthKnown, Unwritten, Healthy, Good
      <4>2. Unwritten' = {}
        BY <3>1, <3>2, <4>1, HeaderKeepsSerials
      <4>3. (\A t \in Sectors : Bare(t)' <=> Bare(t)) /\ ErasedBare' /\ BareFacts'
        BY <3>1, <3>2, <4>1, <4>2, HeaderKeepsBare DEF ReserveInv
      <4>4. flash'[gc.dst].items = <<>>
        BY <2>1, <3>1, <4>3 DEF Bare
      <4> QED BY <3>1, <4>3, <4>4 DEF ReserveInv, ReservePhases, Bare
    <3>3. CASE ram[gc.dst].state # "uninit"
      BY <3>1, <3>3 DEF ReserveInv, ReservePhases, ErasedBare, BareFacts, Bare, Unwritten, Healthy
    <3> QED BY <3>2, <3>3
  <2>3. CASE GcMark
    <3>1. /\ pc = "gc_mark" /\ pc' = "gc_copy" /\ UNCHANGED <<active, idle>>
          /\ flash' = [flash EXCEPT ![gc.src].state = "deleting"]
          /\ ram' = [ram EXCEPT ![gc.src].state = "deleting"]
          /\ flash \in [Sectors -> FlashSector] /\ ram \in [Sectors -> RamSector]
      BY <2>3 DEF GcMark, SetState, lists, WeakTypes
    <3>2. gc.src \in Healthy /\ Unwritten = {}
      BY <2>1, <3>1 DEF SerialPhases, Unwritten
    <3>3. /\ flash'[gc.src].state = "deleting" /\ flash'[gc.src].items = flash[gc.src].items
          /\ \A t \in Sectors \ {gc.src} : flash'[t] = flash[t] /\ ram'[t] = ram[t]
      BY <2>1, <3>1 DEF FlashSector
    <3>4. \A t \in Sectors : flash'[t].items = flash[t].items
      BY <3>3
    <3>5. Unwritten' = {}
      BY <2>1, <3>1 DEF SerialPhases
    <3>6. ErasedBare'
      BY <3>3, <3>4 DEF ReserveInv, ErasedBare, Bare
    <3>7. BareFacts'
      <4>1. \A t \in ToSet(idle) : t \in Sectors \ {gc.src}
        BY <2>1, <3>1, ListedSectors DEF ListInv, ListsPartition
      <4> QED BY <3>1, <3>3, <3>5, <4>1 DEF ReserveInv, BareFacts, Bare
    <3> QED BY <3>1, <3>6, <3>7 DEF ReserveInv, ReservePhases
  <2>4. CASE GcCopy
    <3>1. /\ pc = "gc_copy" /\ pc' = pc /\ UNCHANGED <<active, idle>> /\ GcMore
          /\ \/ UNCHANGED <<flash, ram>>
             \/ flash' = Program(flash, gc.dst, [GcItem EXCEPT !.at = gc.to])
      BY <2>4 DEF GcCopy, lists
    <3>2. CASE UNCHANGED <<flash, ram>>
      BY <3>1, <3>2 DEF ReserveInv, ReservePhases, ErasedBare, BareFacts, Bare, Unwritten, Healthy
    <3>3. CASE flash' = Program(flash, gc.dst, [GcItem EXCEPT !.at = gc.to])
      <4>1. gc.dst \in Healthy /\ [GcItem EXCEPT !.at = gc.to] \in AnyItem
        BY <2>1, <3>1, GcItemType DEF SerialPhases, Unwritten
      <4>2. PICK l \in AnyItem : Appended(gc.dst, [GcItem EXCEPT !.at = gc.to], l)
        BY <2>1, <3>3, <4>1, ProgramAppends
      <4>3. ErasedBare' /\ BareFacts'
        BY <2>1, <2>4, <3>1, <4>1, <4>2, ItemSteps, AppendKeepsBare DEF ReserveInv
      <4> QED BY <3>1, <4>3 DEF ReserveInv, ReservePhases
    <3> QED BY <3>1, <3>2, <3>3
  <2>5. CASE GcErase
    <3>1. /\ pc = "gc_copy" /\ pc' \in {"settle", "put"}
          /\ active' = RemoveFirst(active, gc.src) /\ idle' = Append(idle, gc.src)
          /\ flash' = EraseSector(flash, gc.src)
          /\ \E n : ram' = [ram EXCEPT ![gc.dst].free = n,
                                       ![gc.src] = FreshInfo(ram[gc.src].serial)]
      BY <2>1, <2>5 DEF GcErase, WeakTypes
    <3>2. /\ active \in Seq(Sectors) /\ IsInjective(active)
          /\ idle \in Seq(Sectors) /\ IsInjective(idle) /\ gc.src \notin ToSet(idle)
      BY <2>1, <3>1 DEF ListInv, ListsPartition, Lists
    <3>3. /\ ToSet(active') = ToSet(active) \ {gc.src} /\ ToSet(idle') = ToSet(idle) \cup {gc.src}
      BY <2>1, <3>1, <3>2, RemoveOnly, AppendNew
    <3>4. idle' # <<>>
      BY <3>3, EmptyIsDistinct
    <3>5. flash'[gc.src] = Blank /\ \A t \in Sectors \ {gc.src} : flash'[t] = flash[t]
      BY <2>1, <3>1 DEF WeakTypes, EraseSector
    <3>6. \A t \in Sectors \ {gc.src} : ram'[t].state = ram[t].state
      <4>1. PICK n : ram' = [ram EXCEPT ![gc.dst].free = n,
                                        ![gc.src] = FreshInfo(ram[gc.src].serial)]
        BY <3>1
      <4> QED BY <2>1, <4>1 DEF WeakTypes, RamSector
    <3>7. Unwritten' = {}
      <4>1. \A t \in ToSet(active') : t \in Healthy /\ t # gc.src
        BY <3>1, <3>3 DEF SerialPhases, Unwritten
      <4> QED BY <3>5, <4>1 DEF Unwritten, Healthy
    <3>8. ErasedBare' /\ BareFacts' /\ Healthy' # Sectors
      BY <2>1, <3>3, <3>5, <3>6, <3>7, EraseKeepsBare DEF ReserveInv
    <3> QED BY <3>1, <3>4, <3>8 DEF ReserveInv, ReservePhases, LastBare
  <2> QED BY <1>2, <2>2, <2>3, <2>4, <2>5 DEF Gc
<1> QED BY <1>1, <1>2

\* A power failure fills at most the sector being written, which is not empty
\* of a header and, if a mount could roll it back, not the last one.
LEMMA TornBare ==
  ASSUME ListInv, MarkInv, SerialInv, ReserveInv, PowerLoss
  PROVE  \/ \A s \in Sectors : flash'[s].items = flash[s].items
         \/ /\ pc \in {"put", "gc_copy"}
            /\ \E s \in ToSet(active) \cap Healthy :
                 \A t \in Sectors \ {s} : flash'[t].items = flash[t].items
<1> USE DEF SerialInv, MarkInv
<1>1. CASE flash' = flash
  BY <1>1
<1>2. CASE \E s \in Sectors : flash' \in TornSector(s)
  <2>1. PICK s \in Sectors : flash' = [flash EXCEPT ![s].state = "crash"]
    BY <1>2 DEF TornSector, SetState
  <2> QED BY <2>1 DEF WeakTypes, FlashSector
<1>3. CASE PutTorn
  <2>1. /\ pc = "put" /\ ram[Current].state # "uninit"
        /\ flash' \in TornItem(Current, NewItem(op.key, op.val, ram[Current].free))
    BY <1>3 DEF PutTorn
  <2>2. /\ Current \in Sectors /\ Current \in ToSet(active)
        /\ NewItem(op.key, op.val, ram[Current].free) \in AnyItem
    BY <2>1, PutItemType
  <2>3. Current \in Healthy
    <3>1. ram[Current].state \in State
      BY <2>2 DEF WeakTypes, RamSector
    <3> QED BY <2>1, <2>2, <3>1 DEF SerialFacts, HealthKnown, Healthy, Good, State
  <2>4. \E l \in AnyItem : Appended(Current, NewItem(op.key, op.val, ram[Current].free), l)
    BY <2>1, <2>2, TornAppends
  <2> QED BY <2>1, <2>2, <2>3, <2>4 DEF Appended
<1>4. CASE CopyTorn
  <2>1. /\ pc = "gc_copy" /\ GcMore
        /\ flash' \in TornItem(gc.dst, [GcItem EXCEPT !.at = gc.to])
    BY <1>4 DEF CopyTorn
  <2>2. gc.dst \in Sectors /\ gc.dst \in ToSet(active) /\ gc.dst \in Healthy
    BY <2>1 DEF ListInv, GcRunning, WeakTypes, SerialPhases, Unwritten
  <2>3. [GcItem EXCEPT !.at = gc.to] \in AnyItem
    BY <2>1, GcItemType
  <2>4. \E l \in AnyItem : Appended(gc.dst, [GcItem EXCEPT !.at = gc.to], l)
    BY <2>1, <2>2, <2>3, TornAppends
  <2> QED BY <2>1, <2>2, <2>4 DEF Appended
<1> QED BY <1>1, <1>2, <1>3, <1>4, TornCases

LEMMA PowerLossReserve ==
  ASSUME ListInv, MarkInv, SerialInv, ReserveInv, PowerLoss
  PROVE  ReserveInv'
<1> USE DEF SerialInv, MarkInv
<1>1. HeadsKept /\ pc' = "off"
  BY TornHeads DEF PowerLoss
<1>2. ErasedBare'
  <2> SUFFICES ASSUME NEW s \in Sectors, flash'[s].state = "uninit" PROVE flash'[s].items = <<>>
    BY DEF ErasedBare, Bare
  <2>1. flash[s].state = "uninit" /\ s \notin Healthy
    BY <1>1 DEF HeadsKept, Healthy, Good
  <2>2. flash'[s].items = flash[s].items
    BY <2>1, TornBare
  <2> QED BY <2>1, <2>2 DEF ReserveInv, ErasedBare, Bare
<1>3. ASSUME Healthy' = Sectors, Marked' = {}
      PROVE  /\ Healthy = Sectors /\ Marked = {}
             /\ \A s \in Sectors : flash'[s].state = flash[s].state
  BY <1>1, <1>3 DEF HeadsKept, Healthy, Marked, Good
<1>4. LastBare'
  <2> SUFFICES ASSUME Healthy' = Sectors, Marked' = {}, NEW s \in Sectors,
                      \A t \in Sectors : flash'[t].serial <= flash'[s].serial
               PROVE  flash'[s].items = <<>>
    BY DEF LastBare, Bare
  <2>1. Healthy = Sectors /\ Marked = {}
    BY <1>3
  <2>2. \A t \in Sectors : flash[t].serial <= flash[s].serial
    BY <1>1 DEF HeadsKept
  <2>3. pc \notin {"gc_copy", "fix_take"}
    BY <2>1 DEF MarksInPlace, ReserveInv, ReservePhases
  <2>4. CASE pc \notin {"ready", "put", "drop", "request", "fix_take", "gc_init", "gc_mark", "gc_copy"}
    <3>1. flash[s].items = <<>>
      BY <2>1, <2>2, <2>4 DEF ReserveInv, ReservePhases, LastBare, Bare
    <3> QED BY <2>4, <3>1, TornBare
  <2>5. CASE pc \in {"ready", "put", "drop", "request"}
    <3>1. idle \in Seq(Sectors) /\ idle # <<>> /\ ToSet(idle) \subseteq Sectors
      BY <2>5, ListedSectors DEF ReserveInv, ReservePhases, ListInv, Lists
    <3> DEFINE h == Head(idle)
    <3>2. h \in ToSet(idle) /\ h \in Spare /\ h \notin ToSet(active)
      <4>1. h \in ToSet(idle)
        BY <2>5, <3>1, TailOnly DEF ListInv, ListsPartition
      <4> QED BY <2>1, <2>5, <3>1, <4>1 DEF Spare, ListInv, ListsPartition
    <3>3. ASSUME s # h PROVE flash[s].serial < flash[h].serial
      <4>1. s \notin ToSet(idle)
        BY <2>1, <2>5, <3>3 DEF SerialFacts, SpareFirst, Spare
      <4>2. s \in ToSet(active)
        BY <2>5, <4>1 DEF ListInv, ListsPartition
      <4> QED BY <2>1, <2>5, <3>2, <4>2 DEF SerialFacts, SpareFirst
    <3>4. s = h
      <4>1. flash[s].serial \in Nat /\ flash[h].serial \in Nat
        BY <3>1, <3>2 DEF WeakTypes, FlashSector
      <4> QED BY <2>2, <3>1, <3>2, <3>3, <4>1
    <3>5. Good(ram[s]) /\ flash[s].items = <<>>
      <4>1. Good(ram[s])
        BY <2>1, <2>5 DEF SerialFacts, HealthKnown, Healthy
      <4> QED BY <2>5, <3>2, <3>4, <4>1 DEF ReserveInv, BareFacts, Bare, Good
    <3>6. flash'[s].items = flash[s].items
      BY <3>2, <3>4, TornBare
    <3> QED BY <3>5, <3>6
  <2>6. CASE pc \in {"gc_init", "gc_mark"}
    <3>1. Spare = {} /\ ToSet(idle) \subseteq Sectors
      BY <2>6, ListedSectors DEF SerialPhases, ListInv
    <3>2. ToSet(active) = Sectors
      BY <2>1, <2>6, <3>1 DEF Spare, ListInv, ListsPartition
    <3>3. s = gc.dst
      BY <2>1, <2>2, <2>6, <3>2, LastIsHighest DEF ReserveInv, ReservePhases
    <3>4. flash[s].items = <<>>
      BY <2>6, <3>3 DEF ReserveInv, ReservePhases, Bare
    <3> QED BY <2>6, <3>4, TornBare
  <2> QED BY <2>3, <2>4, <2>5, <2>6
<1> QED BY <1>1, <1>2, <1>4 DEF ReserveInv, ReservePhases

LEMMA InitReserve == Init => ReserveInv
BY DEF Init, ReserveInv, ErasedBare, Bare, ReservePhases, LastBare, Blank

LEMMA ReserveInvStep ==
  ASSUME ListInv, MarkInv, SerialInv, ReserveInv, [Next]_vars, MarkInv', SerialInv'
  PROVE  ReserveInv'
<1>1. CASE UNCHANGED vars
  BY <1>1 DEF vars, lists, ReserveInv, ErasedBare, BareFacts, ReservePhases, LastBare, Bare,
              Healthy, Unwritten, Marked
<1> QED BY <1>1, MountReserve, CallReserve, GcReserve, PowerLossReserve DEF Next

\* Whatever the power failures, a mounted partition has an idle sector between
\* calls, and taking or erasing an idle sector loses no item in use.
THEOREM ReserveStays == Spec => []ReserveKept
<1>1. ListInv /\ [Next]_vars => ListInv'
  BY ListInvStep
<1>2. ListInv /\ MarkInv /\ [Next]_vars => MarkInv'
  BY MarkInvStep
<1>3. ListInv /\ MarkInv /\ SerialInv /\ [Next]_vars => SerialInv'
  BY SerialInvStep
<1>4. ListInv /\ MarkInv /\ SerialInv /\ ReserveInv /\ [Next]_vars => ReserveInv'
  BY <1>2, <1>3, ReserveInvStep
<1>5. ListInv /\ SerialInv /\ ReserveInv => ReserveKept
  <2> SUFFICES ASSUME ListInv, SerialInv, ReserveInv PROVE ReserveKept
    OBVIOUS
  <2>1. pc = "ready" => idle # <<>>
    BY DEF ReserveInv, ReservePhases
  <2>2. ASSUME NEW i \in DOMAIN idle
        PROVE  ram[idle[i]].state = "crash" \/ InUse(idle[i]) = {}
    <3>1. idle[i] \in ToSet(idle)
      BY DEF ToSet
    <3>2. pc # "off"
      BY <3>1, EmptyIsDistinct DEF SerialInv
    <3>3. ram[idle[i]].state = "crash" \/ flash[idle[i]].items = <<>>
      BY <3>1, <3>2 DEF ReserveInv, BareFacts, Bare
    <3>4. flash[idle[i]].items = <<>> => DOMAIN flash[idle[i]].items = {}
      BY EmptySeq, LenProperties
    <3> QED BY <3>3, <3>4 DEF InUse
  <2> QED BY <2>1, <2>2 DEF ReserveKept
<1> QED BY <1>1, <1>2, <1>3, <1>4, <1>5, InitListInv, InitMarks, InitSerials, InitReserve, PTL
        DEF Spec
-------------------------------------------------------------------------------
(* The room of a sector.  That no item runs past the end of its sector     *)
(* rests on a counter, free, that a mount reads from flash, that counts    *)
(* modulo a byte, and that reclaiming replaces by another one.  The items  *)
(* of a sector lie one behind the other, so a copy never overtakes the     *)
(* item it copies, and free stays behind the last item or beyond the end.  *)

Within(q) == \A j \in DOMAIN q : q[j].crcItem => q[j].at + q[j].span <= EntryCount
Packed(q) == \A j \in 1..(Len(q) - 1) : q[j].at + q[j].span <= q[j + 1].at
\* A mount has dropped the items whose length may be anything.
Sound(q) == \A j \in DOMAIN q : q[j].state = "using" => q[j].crcItem

RoomLeft(s) == End(flash[s].items) <= ram[s].free \/ EntryCount <= ram[s].free
\* What the load makes of a sector with a header and no item.
Bounded(s) == ram[s].free <= EntryCount /\ ram[s].used <= Overlong

\* The next slice of the copy, gc.to, is behind what was copied, not behind
\* the item to copy, and the counters of the copy have not wrapped before it.
Copying ==
  /\ End(flash[gc.dst].items) <= gc.to
  /\ gc.to <= EntryCount
  /\ gc.to <= ram[gc.dst].free /\ ram[gc.dst].free <= EntryCount + gc.to
  /\ gc.to < EntryCount => gc.to <= ram[gc.dst].used /\ ram[gc.dst].used <= Overlong + gc.to
  /\ GcMore => gc.to <= GcItem.at
  /\ ~GcMore => gc.to <= End(flash[gc.src].items)

PackFlash ==
  /\ \A s \in Sectors : Within(flash[s].items)
  /\ \A s \in Healthy : Packed(flash[s].items)

PackMounted ==
  /\ \A s \in Healthy : Sound(flash[s].items)
  /\ \A s \in ToSet(active) \cap Healthy : RoomLeft(s)
  /\ \A s \in Spare : Bounded(s)

PackPhases ==
  /\ pc \in {"fix_write", "fix_gc"} \/ (pc = "settle" /\ idle = <<>>) =>
       \A s \in Healthy : Bare(s) => Bounded(s)
  /\ pc \in {"gc_init", "gc_mark"} =>
       gc.next = 1 /\ gc.to = 0 /\ (gc.dst \in Healthy => Bounded(gc.dst))
  /\ pc = "gc_copy" => Copying

PackInv == PackFlash /\ (pc # "off" => PackMounted) /\ PackPhases

LEMMA ItemsType ==
  ASSUME WeakTypes
  PROVE  \A s \in Sectors : /\ flash[s].items \in Seq(AnyItem) /\ End(flash[s].items) \in Nat
                            /\ ram[s].free \in Nat /\ ram[s].used \in Nat
BY EndType DEF WeakTypes, FlashSector, RamSector

\* The end of an empty sector, and of one an item is appended to.
LEMMA EndFacts ==
  /\ End(<<>>) = 0
  /\ \A q \in Seq(AnyItem), l \in AnyItem :
       /\ End(Append(q, l)) = l.at + l.span
       /\ Packed(q) /\ End(q) <= l.at => Packed(Append(q, l))
<1>1. End(<<>>) = 0
  BY DEF End
<1>2. ASSUME NEW q \in Seq(AnyItem), NEW l \in AnyItem
      PROVE  /\ End(Append(q, l)) = l.at + l.span
             /\ Packed(q) /\ End(q) <= l.at => Packed(Append(q, l))
  <2> DEFINE t == Append(q, l)
  <2>1. PICK n \in Nat : n = Len(q)
    BY LenProperties
  <2>2. /\ t \in Seq(AnyItem) /\ Len(t) = n + 1 /\ t[n + 1] = l
        /\ \A i \in 1..n : t[i] = q[i]
    BY <2>1, AppendProperties
  <2>3. t # <<>>
    BY <2>1, <2>2, EmptySeq
  <2> HIDE DEF t
  <2>4. End(t) = l.at + l.span
    BY <2>2, <2>3 DEF End
  <2>5. ASSUME Packed(q), End(q) <= l.at, NEW j \in 1..n
        PROVE  t[j].at + t[j].span <= t[j + 1].at
    <3>1. CASE j < n
      <4>1. j \in 1..(n - 1) /\ j + 1 \in 1..n
        BY <3>1, <2>1
      <4> QED BY <2>1, <2>2, <2>5, <4>1 DEF Packed
    <3>2. CASE j = n
      <4>1. q # <<>>
        BY <2>1, <2>5, EmptySeq
      <4>2. q[n].at + q[n].span <= l.at
        BY <2>1, <2>5, <4>1 DEF End
      <4> QED BY <2>2, <3>2, <4>2
    <3> QED BY <2>1, <3>1, <3>2
  <2>6. Packed(q) /\ End(q) <= l.at => Packed(t)
    <3>1. (n + 1) - 1 = n
      BY <2>1
    <3> QED BY <2>2, <2>5, <3>1 DEF Packed
  <2> QED BY <2>4, <2>6 DEF t
<1> QED BY <1>1, <1>2

\* Dropping items moves none.
LEMMA ShapePacked ==
  ASSUME NEW q \in Seq(AnyItem), NEW r \in Seq(AnyItem), SameShape(q, r)
  PROVE  /\ Len(q) = Len(r) /\ End(q) = End(r)
         /\ Within(r) => Within(q)
         /\ Packed(r) => Packed(q)
         /\ Sound(r) => Sound(q)
<1>1. PICK n \in Nat : n = Len(r) /\ DOMAIN r = 1..n
  BY LenProperties
<1>2. PICK m \in Nat : m = Len(q) /\ DOMAIN q = 1..m
  BY LenProperties
<1>3. DOMAIN q = DOMAIN r
  BY DEF SameShape
<1>4. m = n
  <2>1. \A k \in Nat \ {0} : k \in 1..k /\ k + 1 \notin 1..k
    OBVIOUS
  <2>2. m \in Nat /\ n \in Nat /\ 1..m = 1..n
    BY <1>1, <1>2, <1>3
  <2>3. m # 0 => m \in 1..n
    BY <2>1, <2>2
  <2>4. n # 0 => n \in 1..m
    BY <2>1, <2>2
  <2> QED BY <2>2, <2>3, <2>4
<1>5. \A j \in 1..n : /\ q[j].at = r[j].at /\ q[j].span = r[j].span
                      /\ q[j].crcItem = r[j].crcItem
                      /\ q[j].state = "using" => r[j].state = "using"
  BY <1>1 DEF SameShape
<1>6. End(q) = End(r)
  <2>1. q = <<>> <=> r = <<>>
    BY ShapeBare
  <2>2. CASE r = <<>>
    BY <2>1, <2>2
  <2>3. CASE r # <<>>
    <3>1. n \in 1..n
      BY <1>1, <2>3, EmptySeq
    <3> QED BY <1>1, <1>2, <1>4, <1>5, <2>1, <2>3, <3>1 DEF End
  <2> QED BY <2>2, <2>3
<1>7. Within(r) => Within(q)
  BY <1>1, <1>2, <1>4, <1>5 DEF Within
<1>8. Packed(r) => Packed(q)
  <2>1. \A j \in 1..(n - 1) : j \in 1..n /\ j + 1 \in 1..n
    BY <1>1
  <2> QED BY <1>1, <1>2, <1>4, <1>5, <2>1 DEF Packed
<1>9. Sound(r) => Sound(q)
  BY <1>1, <1>2, <1>4, <1>5 DEF Sound
<1> QED BY <1>1, <1>2, <1>4, <1>6, <1>7, <1>8, <1>9

LEMMA DropsKeepPacked ==
  ASSUME ListInv, WeakTypes, WeakTypes', OnlyDropped, SameHealth, UNCHANGED <<active, idle>>
  PROVE  /\ PackFlash => PackFlash'
         /\ PackMounted => PackMounted'
         /\ \A s \in Sectors : End(flash'[s].items) = End(flash[s].items)
                               /\ Len(flash'[s].items) = Len(flash[s].items)
<1>1. ToSet(active) \subseteq Sectors /\ ToSet(idle) \subseteq Sectors
  BY ListedSectors DEF ListInv
<1>2. Healthy' = Healthy /\ Spare' = Spare
  BY DEF Healthy, Spare, SameHealth
<1>3. \A s \in Sectors : flash[s].items \in Seq(AnyItem) /\ flash'[s].items \in Seq(AnyItem)
  BY DEF WeakTypes, FlashSector
<1>4. \A s \in Sectors : /\ Len(flash'[s].items) = Len(flash[s].items)
                         /\ End(flash'[s].items) = End(flash[s].items)
                         /\ Within(flash[s].items) => Within(flash'[s].items)
                         /\ Packed(flash[s].items) => Packed(flash'[s].items)
                         /\ Sound(flash[s].items) => Sound(flash'[s].items)
  BY <1>3, ShapePacked DEF OnlyDropped
<1>5. \A s \in Sectors : ram'[s].free = ram[s].free /\ ram'[s].used = ram[s].used
  BY DEF OnlyDropped
<1>6. PackFlash => PackFlash'
  <2>1. \A s \in Healthy : s \in Sectors
    BY DEF Healthy
  <2>2. ASSUME PackFlash PROVE \A s \in Sectors : Within(flash'[s].items)
    BY <1>4, <2>2 DEF PackFlash
  <2>3. ASSUME PackFlash PROVE \A s \in Healthy' : Packed(flash'[s].items)
    BY <1>2, <1>4, <2>1, <2>3 DEF PackFlash
  <2> QED BY <2>2, <2>3 DEF PackFlash
<1>7. PackMounted => PackMounted'
  <2> SUFFICES ASSUME PackMounted PROVE PackMounted'
    OBVIOUS
  <2>1. \A s \in Healthy' : Sound(flash'[s].items)
    <3>1. \A s \in Healthy : s \in Sectors /\ Sound(flash[s].items)
      BY DEF Healthy, PackMounted
    <3> QED BY <1>2, <1>4, <3>1
  <2>2. \A s \in ToSet(active) \cap Healthy : RoomLeft(s)'
    <3>1. \A s \in ToSet(active) \cap Healthy : s \in Sectors /\ RoomLeft(s)
      BY <1>1 DEF PackMounted
    <3> QED BY <1>4, <1>5, <3>1 DEF RoomLeft
  <2>3. \A s \in Spare : Bounded(s)'
    <3>1. \A s \in Spare : s \in Sectors /\ Bounded(s)
      BY <1>1 DEF PackMounted, Spare
    <3> QED BY <1>5, <3>1 DEF Bounded
  <2> QED BY <1>2, <2>1, <2>2, <2>3 DEF PackMounted
<1> QED BY <1>4, <1>6, <1>7

\* A step that erases sectors, or writes a header on empty ones, with counters
\* that start at nothing, and writes no item.
LEMMA HeadersKeepPacked ==
  ASSUME ListInv, WeakTypes, WeakTypes', PackFlash, PackMounted,
         \A s \in Sectors : flash'[s].items \in {flash[s].items, <<>>},
         \A s \in Healthy' : s \in Healthy \/ flash'[s].items = <<>>,
         \A s \in ToSet(active') \cap Healthy' :
            \/ flash'[s].items = <<>>
            \/ s \in ToSet(active) /\ (ram'[s].free = ram[s].free \/ RoomLeft(s)'),
         \A s \in Spare' : Bounded(s)'
  PROVE  PackFlash' /\ PackMounted'
<1>1. \A s \in Sectors : /\ End(flash'[s].items) \in Nat /\ ram'[s].free \in Nat
  <2>1. \A s \in Sectors : flash'[s].items \in Seq(AnyItem) /\ ram'[s].free \in Nat
    BY DEF WeakTypes, FlashSector, RamSector
  <2> QED BY <2>1, EndType
<1>2. Within(<<>>) /\ Packed(<<>>) /\ Sound(<<>>) /\ End(<<>>) = 0
  <2>1. DOMAIN <<>> = {} /\ Len(<<>>) = 0
    BY EmptySeq, LenProperties
  <2> QED BY <2>1, EndFacts DEF Within, Packed, Sound
<1>3. PackFlash'
  <2>1. \A s \in Sectors : Within(flash'[s].items)
    BY <1>2 DEF PackFlash
  <2>2. \A s \in Healthy' : Packed(flash'[s].items)
    BY <1>2 DEF PackFlash, Healthy
  <2> QED BY <2>1, <2>2 DEF PackFlash
<1>4. \A s \in Healthy' : Sound(flash'[s].items)
  BY <1>2 DEF PackMounted, Healthy
<1>5. ASSUME NEW s \in ToSet(active') \cap Healthy' PROVE RoomLeft(s)'
  <2>1. s \in Sectors
    BY DEF Healthy
  <2>2. CASE flash'[s].items = <<>>
    BY <1>1, <1>2, <2>1, <2>2 DEF RoomLeft
  <2>3. CASE flash'[s].items # <<>> /\ s \in ToSet(active) /\ ram'[s].free = ram[s].free
    <3>1. s \in Healthy /\ flash'[s].items = flash[s].items
      BY <2>1, <2>3
    <3> QED BY <2>3, <3>1 DEF PackMounted, RoomLeft
  <2> QED BY <2>2, <2>3
<1> QED BY <1>3, <1>4, <1>5 DEF PackMounted

\* An item that is appended behind the last one, within the sector.
LEMMA AppendPacks ==
  ASSUME WeakTypes, PackFlash, NEW s \in Sectors, NEW i \in AnyItem, NEW l \in AnyItem,
         Appended(s, i, l), End(flash[s].items) <= i.at, i.at + i.span <= EntryCount,
         Healthy' \subseteq Healthy
  PROVE  PackFlash'
<1>1. /\ flash'[s].items = Append(flash[s].items, l) /\ l.at = i.at
      /\ l.crcItem => l.span = i.span
      /\ \A t \in Sectors \ {s} : flash'[t] = flash[t]
  BY DEF Appended
<1> DEFINE q == flash[s].items
<1>2. q \in Seq(AnyItem)
  BY DEF WeakTypes, FlashSector
<1>3. Within(Append(q, l))
  <2>1. PICK n \in Nat : n = Len(q) /\ DOMAIN q = 1..n
    BY <1>2, LenProperties
  <2>2. /\ DOMAIN Append(q, l) = 1..(n + 1) /\ Append(q, l)[n + 1] = l
        /\ \A j \in 1..n : Append(q, l)[j] = q[j]
    BY <1>2, <2>1, AppendProperties, LenProperties
  <2>3. Within(q)
    BY DEF PackFlash
  <2>4. l.crcItem => l.at + l.span <= EntryCount
    BY <1>1
  <2> HIDE DEF q
  <2>5. \A j \in 1..(n + 1) : j \in 1..n \/ j = n + 1
    OBVIOUS
  <2> QED BY <2>1, <2>2, <2>3, <2>4, <2>5 DEF Within
<1>4. s \in Healthy => Packed(Append(q, l))
  BY <1>1, <1>2, EndFacts DEF PackFlash
<1>5. \A t \in Sectors : Within(flash'[t].items)
  <2>1. \A t \in Sectors \ {s} : Within(flash'[t].items)
    BY <1>1 DEF PackFlash
  <2> QED BY <1>1, <1>3, <2>1
<1>6. \A t \in Healthy' : Packed(flash'[t].items)
  <2>1. \A t \in Healthy' : t \in Healthy /\ t \in Sectors
    BY DEF Healthy
  <2>2. \A t \in Healthy' : t # s => Packed(flash'[t].items)
    BY <1>1, <2>1 DEF PackFlash
  <2> QED BY <1>1, <1>4, <2>1, <2>2
<1> QED BY <1>5, <1>6 DEF PackFlash

\* What the load reads: the counters of a sector fit its items.
LEMMA LoadedRoom ==
  ASSUME NEW f \in FlashSector, Good(f)
  PROVE  /\ End(f.items) <= LoadedInfo(f).free \/ LoadedInfo(f).free = EntryCount
         /\ LoadedInfo(f).free <= EntryCount
         /\ f.items = <<>> => LoadedInfo(f).used <= Overlong
<1>1. /\ f.items \in Seq(AnyItem) /\ f.stray \subseteq Nat
      /\ EntryCount \in Nat /\ Byte \in Nat \ {0} /\ Overlong \in Nat
  BY ByteType DEF FlashSector
<1> DEFINE items == Walked(f)
           stray == [at |-> End(f.items), span |-> Overlong, key |-> None, val |-> None,
                     state |-> "dropped", crcItem |-> FALSE, crcData |-> FALSE]
<1>2. End(f.items) \in Nat /\ stray \in AnyItem
  BY <1>1, EndType DEF AnyItem
<1>3. items = Append(f.items, stray) \/ items = f.items
  BY DEF Walked
<1>4. items \in Seq(AnyItem) /\ End(items) \in Nat /\ End(f.items) <= End(items)
  <2>1. CASE items = f.items
    BY <1>1, <1>2, <2>1
  <2>2. CASE items = Append(f.items, stray)
    <3>1. items \in Seq(AnyItem)
      BY <1>1, <1>2, <2>2, AppendProperties
    <3>2. End(items) = stray.at + stray.span
      BY <1>1, <1>2, <2>2, EndFacts
    <3> QED BY <1>1, <1>2, <3>1, <3>2
  <2> QED BY <1>3, <2>1, <2>2
<1>5. /\ LoadedInfo(f).free = Smaller(End(items), EntryCount)
      /\ LoadedInfo(f).used = Taken(items, DOMAIN items) % Byte
  BY DEF LoadedInfo, Info
<1>6. ASSUME f.items = <<>> PROVE Taken(items, DOMAIN items) <= Overlong
  <2>1. CASE items = <<>>
    <3>1. DOMAIN items = {}
      BY <2>1, EmptySeq, LenProperties
    <3> HIDE DEF items
    <3>2. {Slices(items[j]) : j \in DOMAIN items} = {}
      BY <3>1
    <3>3. UNION {Slices(items[j]) : j \in DOMAIN items} = {}
      BY <3>2
    <3>4. Taken(items, DOMAIN items) = 0
      BY <3>3, FS_EmptySet DEF Taken
    <3> QED BY <1>1, <3>4
  <2>2. CASE items = Append(<<>>, stray)
    <3>1. DOMAIN items = {1} /\ items[1] = stray
      <4>1. <<>> \in Seq(AnyItem) /\ Len(<<>>) = 0
        BY EmptySeq
      <4>2. Len(items) = 1 /\ items[1] = stray /\ DOMAIN items = 1..1
        BY <1>2, <1>4, <2>2, <4>1, AppendProperties, LenProperties
      <4> QED BY <4>2
    <3>2. Slices(stray) = 0..(Overlong - 1)
      BY <1>1, <1>6, EndFacts DEF Slices
    <3> HIDE DEF items, stray
    <3>3. UNION {Slices(items[j]) : j \in DOMAIN items} = 0..(Overlong - 1)
      BY <3>1, <3>2
    <3>4. Cardinality(0..(Overlong - 1)) <= Overlong
      <4>1. PICK n \in Int : n = Overlong - 1 /\ n + 1 = Overlong
        BY <1>1
      <4>2. Cardinality(0..n) = IF 0 > n THEN 0 ELSE n - 0 + 1
        BY FS_Interval
      <4> QED BY <1>1, <4>1, <4>2
    <3> QED BY <3>3, <3>4 DEF Taken
  <2> QED BY <1>3, <1>6, <2>1, <2>2
<1>7. Taken(items, DOMAIN items) \in Nat
  BY <1>4, TakenType
<1>8. \A n \in Nat, b \in Nat \ {0} : n % b <= n
  OBVIOUS
<1> HIDE DEF items
<1>9. f.items = <<>> => LoadedInfo(f).used <= Overlong
  <2>1. Taken(items, DOMAIN items) % Byte \in Nat
    BY <1>1, <1>7
  <2> QED BY <1>1, <1>5, <1>6, <1>7, <1>8, <2>1
<1>10. /\ LoadedInfo(f).free <= EntryCount
       /\ End(f.items) <= LoadedInfo(f).free \/ LoadedInfo(f).free = EntryCount
  BY <1>1, <1>2, <1>4, <1>5 DEF Smaller
<1> QED BY <1>9, <1>10

LEMMA ActivatePacks ==
  ASSUME ListInv, WeakTypes, WeakTypes', pc # "off", Unwritten = {}, SerialFacts, Activate,
         ErasedBare, BareFacts, PackFlash, PackMounted, Spare' = {}
  PROVE  /\ PackFlash' /\ PackMounted'
         /\ Head(idle) \in Healthy' =>
              ram'[Head(idle)].free <= EntryCount /\ ram'[Head(idle)].used <= Overlong
<1> DEFINE h == Head(idle)
<1>1. /\ h \in Sectors /\ h \notin ToSet(active) /\ ToSet(active') = ToSet(active) \cup {h}
      /\ flash'[h].items = <<>> /\ Healthy' \subseteq Healthy
  BY ActivateKeepsLists, ActivateKeepsBare DEF ListInv
<1>2. h \in ToSet(idle)
  <2>1. idle \in Seq(Sectors) /\ idle # <<>> /\ IsInjective(idle)
    BY DEF ListInv, Lists, ListsPartition, Activate
  <2> QED BY <2>1, TailOnly
<1>3. /\ flash' = IF ram[h].state = "crash" THEN EraseSector(flash, h) ELSE flash
      /\ ram' = IF ram[h].state = "crash" THEN [ram EXCEPT ![h] = FreshInfo(sn)]
                                           ELSE [ram EXCEPT ![h].serial = sn]
      /\ flash \in [Sectors -> FlashSector] /\ ram \in [Sectors -> RamSector]
  BY DEF Activate, WeakTypes
<1>4. \A t \in Sectors \ {h} : flash'[t] = flash[t] /\ ram'[t] = ram[t]
  BY <1>1, <1>3 DEF EraseSector
<1>5. h \in Healthy => ram'[h].free = ram[h].free /\ ram'[h].used = ram[h].used
  <2> SUFFICES ASSUME h \in Healthy PROVE ram'[h].free = ram[h].free /\ ram'[h].used = ram[h].used
    OBVIOUS
  <2>1. Good(ram[h])
    BY <1>1 DEF SerialFacts, HealthKnown, Healthy
  <2>2. ram' = [ram EXCEPT ![h].serial = sn]
    BY <1>3, <2>1 DEF Good
  <2> QED BY <1>1, <1>3, <2>2 DEF RamSector
<1> HIDE DEF h
<1>6. h \in Healthy' => ram'[h].free <= EntryCount /\ ram'[h].used <= Overlong
  <2>1. h \in Healthy => Bounded(h)
    BY <1>2 DEF PackMounted, Spare
  <2> QED BY <1>1, <1>5, <2>1 DEF Bounded
<1>7. \A s \in Sectors : flash'[s].items \in {flash[s].items, <<>>}
  BY <1>1, <1>4
<1>8. \A s \in ToSet(active') \cap Healthy' :
        flash'[s].items = <<>> \/ (s \in ToSet(active) /\ ram'[s].free = ram[s].free)
  <2> TAKE s \in ToSet(active') \cap Healthy'
  <2>1. s \in Sectors
    BY DEF Healthy
  <2> QED BY <1>1, <1>4, <2>1
<1>9. \A s \in Healthy' : s \in Healthy \/ flash'[s].items = <<>>
  BY <1>1
<1>10. PackFlash' /\ PackMounted'
  BY <1>7, <1>8, <1>9, HeadersKeepPacked
<1> QED BY <1>6, <1>10 DEF h

LEMMA HeaderPacks ==
  ASSUME ListInv, WeakTypes, WeakTypes', NEW s \in Unwritten, InitSector(s),
         UNCHANGED <<active, idle>>, BareFacts, PackFlash, PackMounted, Spare' = {}
  PROVE  /\ PackFlash' /\ PackMounted'
         /\ flash'[s].items = <<>> /\ ram'[s].free = 0 /\ ram'[s].used = 0
<1>1. /\ ToSet(active) \subseteq Sectors /\ s \in ToSet(active) /\ s \in Sectors
      /\ flash[s].items = <<>>
  BY ListedSectors DEF ListInv, Unwritten, BareFacts, Bare
<1>2. /\ flash' = [flash EXCEPT ![s].state = "using", ![s].serial = ram[s].serial]
      /\ ram' = [ram EXCEPT ![s] = Info("using", ram[s].serial, 0, 0, 0)]
      /\ flash \in [Sectors -> FlashSector] /\ ram \in [Sectors -> RamSector]
  BY DEF InitSector, WriteHeader, WeakTypes
<1>3. /\ flash'[s].items = flash[s].items
      /\ \A t \in Sectors \ {s} : flash'[t] = flash[t] /\ ram'[t] = ram[t]
      /\ ram'[s].free = 0 /\ ram'[s].used = 0
  BY <1>1, <1>2 DEF FlashSector, Info
<1>4. \A t \in Sectors : flash'[t].items \in {flash[t].items, <<>>}
  BY <1>3
<1>5. \A t \in Healthy' : t \in Healthy \/ flash'[t].items = <<>>
  BY <1>1, <1>3 DEF Healthy
<1>6. \A t \in ToSet(active') \cap Healthy' :
        flash'[t].items = <<>> \/ (t \in ToSet(active) /\ ram'[t].free = ram[t].free)
  BY <1>1, <1>3
<1>7. PackFlash' /\ PackMounted'
  BY <1>4, <1>5, <1>6, HeadersKeepPacked
<1> QED BY <1>1, <1>3, <1>7

\* Erasing an active sector, while the counter free of another one may change.
LEMMA ErasePacks ==
  ASSUME ListInv, WeakTypes, WeakTypes', pc # "off", PackFlash, PackMounted, Spare' = {},
         NEW s \in ToSet(active), ToSet(active') = ToSet(active) \ {s}, flash'[s] = Blank,
         \A t \in Sectors \ {s} : flash'[t] = flash[t],
         \A t \in ToSet(active') \cap Healthy' : ram'[t].free = ram[t].free \/ RoomLeft(t)'
  PROVE  PackFlash' /\ PackMounted'
<1>1. Blank.items = <<>> /\ ~Good(Blank)
  BY DEF Blank, Good
<1>2. \A t \in Sectors : flash'[t].items \in {flash[t].items, <<>>}
  BY <1>1
<1>3. \A t \in Healthy' : t \in Healthy
  BY <1>1 DEF Healthy
<1>4. \A t \in ToSet(active') \cap Healthy' :
        t \in ToSet(active) /\ (ram'[t].free = ram[t].free \/ RoomLeft(t)')
  OBVIOUS
<1> QED BY <1>2, <1>3, <1>4, HeadersKeepPacked

\* A copy starts in an empty sector.
LEMMA CopyStarts ==
  ASSUME WeakTypes', flash'[gc'.dst].items = <<>>, gc'.next = 1, gc'.to = 0,
         ram'[gc'.dst].free <= EntryCount, ram'[gc'.dst].used <= Overlong
  PROVE  Copying'
<1> DEFINE q == flash'[gc'.src].items
<1>1. gc'.dst \in Sectors /\ gc'.src \in Sectors
  BY DEF WeakTypes
<1>2. /\ q \in Seq(AnyItem) /\ ram'[gc'.dst].free \in Nat /\ ram'[gc'.dst].used \in Nat
      /\ EntryCount \in Nat /\ Overlong \in Nat
  BY <1>1, ByteType DEF WeakTypes, FlashSector, RamSector
<1>3. End(flash'[gc'.dst].items) = 0
  BY EndFacts
<1>4. GcMore' => GcItem'.at \in Nat
  <2> SUFFICES ASSUME 1 <= Len(q) PROVE q[1].at \in Nat
    BY DEF GcMore, GcItem
  <2>1. 1 \in 1..Len(q)
    BY <1>2, LenProperties
  <2>2. q[1] \in AnyItem
    BY <1>2, <2>1, ElementOfSeq
  <2> QED BY <2>2 DEF AnyItem
<1>5. End(q) \in Nat
  BY <1>2, EndType
<1> QED BY <1>2, <1>3, <1>4, <1>5 DEF Copying

LEMMA MountPacks ==
  ASSUME ListInv, MarkInv, SerialInv, ReserveInv, PackInv, Mount,
         ListInv', MarkInv', SerialInv', ReserveInv'
  PROVE  PackInv'
<1> USE DEF SerialInv, MarkInv
<1>1. CASE Load
  <2>1. /\ pc' = "fix_write"
        /\ flash' = [s \in Sectors |-> IF Good(flash[s]) THEN Cleaned(flash[s]) ELSE flash[s]]
        /\ ram' = [s \in Sectors |-> LoadedInfo(flash[s])]
    BY <1>1 DEF Load
  <2>2. \A s \in Sectors : /\ flash[s] \in FlashSector /\ flash'[s] \in FlashSector
                           /\ flash[s].items \in Seq(AnyItem) /\ flash'[s].items \in Seq(AnyItem)
    BY DEF WeakTypes, FlashSector
  <2>3. \A s \in Sectors : flash'[s].state = flash[s].state
    BY <2>1, <2>2, CleanedType
  <2>4. \A s \in Sectors : SameShape(flash'[s].items, flash[s].items)
    <3>1. \A s \in Sectors : SameShape(flash[s].items, flash[s].items)
      BY DEF SameShape
    <3> QED BY <2>1, <2>2, <3>1, CleanedShape
  <2>5. Healthy' = Healthy /\ \A s \in Healthy : s \in Sectors /\ Good(flash[s])
    BY <2>3 DEF Healthy, Good
  <2>6. \A s \in Sectors : /\ End(flash'[s].items) = End(flash[s].items)
                           /\ Within(flash[s].items) => Within(flash'[s].items)
                           /\ Packed(flash[s].items) => Packed(flash'[s].items)
    BY <2>2, <2>4, ShapePacked
  <2>7. PackFlash'
    <3>1. \A s \in Sectors : Within(flash'[s].items)
      BY <2>6 DEF PackInv, PackFlash
    <3>2. \A s \in Healthy' : Packed(flash'[s].items)
      BY <2>5, <2>6 DEF PackInv, PackFlash
    <3> QED BY <3>1, <3>2 DEF PackFlash
  <2>8. \A s \in Healthy : Sound(flash'[s].items)
    <3> TAKE s \in Healthy
    <3>1. flash'[s] = Cleaned(flash[s]) /\ flash[s] \in FlashSector
      BY <2>1, <2>2, <2>5
    <3>2. flash'[s].items = [j \in DOMAIN flash[s].items |->
            IF Torn(flash[s].items[j]) THEN [flash[s].items[j] EXCEPT !.state = "dropped"]
                                       ELSE flash[s].items[j]]
      BY <3>1 DEF Cleaned, FlashSector
    <3>3. \A j \in DOMAIN flash[s].items : flash[s].items[j] \in AnyItem
      BY <2>2, <2>5, ElementOfSeq, LenProperties
    <3> QED BY <3>2, <3>3 DEF Sound, Torn, AnyItem
  <2>9. \A s \in Healthy : /\ End(flash[s].items) <= ram'[s].free \/ ram'[s].free = EntryCount
                           /\ ram'[s].free <= EntryCount
                           /\ flash[s].items = <<>> => ram'[s].used <= Overlong
    BY <2>1, <2>2, <2>5, LoadedRoom
  <2>10. \A s \in ToSet(active') \cap Healthy' : RoomLeft(s)'
    BY <2>5, <2>6, <2>9, ByteType DEF RoomLeft
  <2>11. Spare' = {}
    BY <1>1, LoadKeepsSerials
  <2>12. \A s \in Healthy' : Bare(s)' => Bounded(s)'
    <3>1. \A s \in Healthy : flash'[s].items = <<>> => flash[s].items = <<>>
      BY <2>2, <2>4, <2>5, ShapeBare
    <3> QED BY <2>5, <2>9, <3>1 DEF Bare, Bounded
  <2>13. PackMounted'
    BY <2>5, <2>8, <2>10, <2>11 DEF PackMounted
  <2> QED BY <2>1, <2>7, <2>12, <2>13 DEF PackInv, PackPhases
<1>2. CASE LoadFirst
  <2>1. pc = "fix_write" /\ pc' = pc /\ active = <<>> /\ Activate
    BY <1>2 DEF LoadFirst
  <2>2. Unwritten = {} /\ Spare' = {}
    BY <2>1, EmptyIsDistinct DEF Unwritten, SerialPhases
  <2>3. PackFlash' /\ PackMounted'
    BY <2>1, <2>2, ActivatePacks DEF PackInv, ReserveInv
  <2>4. Healthy' = {}
    <3>1. Healthy' \subseteq Healthy
      BY <2>1, <2>2, ActivateKeepsBare DEF ReserveInv
    <3>2. ToSet(idle) = Sectors
      BY <2>1, EmptyIsDistinct DEF ListInv, ListsPartition
    <3>3. Healthy = {}
      BY <2>1, <3>2 DEF SerialPhases, Spare, Healthy
    <3> QED BY <3>1, <3>3
  <2> QED BY <2>1, <2>3, <2>4 DEF PackInv, PackPhases
<1>3. CASE FixWrite
  <2>1. pc = "fix_write" /\ pc' = "fix_gc" /\ UNCHANGED <<active, idle>>
    BY <1>3 DEF FixWrite, lists
  <2>2. SameStates /\ OnlyDropped
    BY <1>3, ItemSteps, DropSteps, EraseItemDrops, NothingDropped
  <2>3. SameHealth /\ \A s \in Sectors : flash'[s].state = flash[s].state
    BY <2>2, StatesKeepHealth DEF SameStates, SameHeads
  <2>4. PackFlash' /\ PackMounted'
    BY <2>1, <2>2, <2>3, DropsKeepPacked DEF PackInv
  <2>5. \A s \in Sectors : Bare(s)' <=> Bare(s)
    BY <2>1, <2>2, <2>3, DropsKeepBare
  <2>6. \A s \in Healthy' : Bare(s)' => Bounded(s)'
    <3>1. Healthy' = Healthy /\ \A s \in Healthy : s \in Sectors
      BY <2>3 DEF Healthy, SameHealth
    <3>2. \A s \in Healthy : Bare(s) => Bounded(s)
      BY <2>1 DEF PackInv, PackPhases
    <3>3. \A s \in Sectors : Bounded(s)' <=> Bounded(s)
      BY <2>2 DEF OnlyDropped, Bounded
    <3> QED BY <2>5, <3>1, <3>2, <3>3
  <2> QED BY <2>1, <2>4, <2>6 DEF PackInv, PackPhases
<1>4. CASE FixGcErase
  <2>1. pc = "fix_gc" /\ pc' \in {"settle", "fix_take"}
    BY <1>4 DEF FixGcErase
  <2>2. CASE UNCHANGED <<flash, ram, active, idle>>
    BY <2>1, <2>2 DEF PackInv, PackFlash, PackMounted, PackPhases, Healthy, Spare, RoomLeft,
                      Bounded, Bare
  <2>3. CASE ~UNCHANGED <<flash, ram, active, idle>>
    <3>1. /\ pc' = "fix_take" /\ Deleting # {}
          /\ flash' = EraseSector(flash, Current)
          /\ ram' = [ram EXCEPT ![Current] = FreshInfo(ram[Current].serial)]
          /\ active' = Front(active) /\ idle' = Append(idle, Current)
      BY <1>4, <2>3 DEF FixGcErase
    <3>2. /\ active \in Seq(Sectors) /\ active # <<>> /\ IsInjective(active)
          /\ Current = Last(active) /\ Current \in Sectors /\ Current \in ToSet(active)
      BY <2>1, CurrentType DEF ListInv, ListsPartition, Lists, Current
    <3>3. ToSet(active') = ToSet(active) \ {Current} /\ ToSet(active) \subseteq Sectors
      BY <3>1, <3>2, FrontOnly, ListedSectors DEF ListInv
    <3>4. /\ flash'[Current] = Blank
          /\ \A t \in Sectors \ {Current} : flash'[t] = flash[t] /\ ram'[t] = ram[t]
      BY <3>1, <3>2 DEF WeakTypes, EraseSector
    <3>5. Spare' = {}
      BY <3>1 DEF SerialPhases
    <3>6. \A t \in ToSet(active') \cap Healthy' : ram'[t].free = ram[t].free
      BY <3>3, <3>4
    <3>7. PackFlash' /\ PackMounted'
      BY <2>1, <3>2, <3>3, <3>4, <3>5, <3>6, ErasePacks DEF PackInv
    <3> QED BY <3>1, <3>7 DEF PackInv, PackPhases
  <2> QED BY <2>2, <2>3
<1>5. CASE FixGcTake
  <2>1. pc = "fix_take" /\ pc' = "gc_init" /\ Activate /\ Unwritten = {} /\ Spare' = {}
    BY <1>5 DEF FixGcTake, SerialPhases
  <2>2. PICK i \in Deleting : gc' = [NoGc EXCEPT !.src = active[i], !.dst = Head(idle)]
    BY <1>5 DEF FixGcTake
  <2>3. gc'.dst = Head(idle) /\ gc'.next = 1 /\ gc'.to = 0
    BY <2>2 DEF NoGc
  <2>4. /\ PackFlash' /\ PackMounted'
        /\ Head(idle) \in Healthy' =>
             ram'[Head(idle)].free <= EntryCount /\ ram'[Head(idle)].used <= Overlong
    BY <2>1, ActivatePacks DEF PackInv, ReserveInv
  <2> QED BY <2>1, <2>3, <2>4 DEF PackInv, PackPhases, Bounded
<1>6. CASE Settle
  <2>1. /\ pc = "settle" /\ pc' = "ready" /\ UNCHANGED <<flash, ram>>
        /\ \/ UNCHANGED <<active, idle>>
           \/ idle = <<>> /\ active' = Front(active) /\ idle' = <<Current>>
    BY <1>6 DEF Settle
  <2>2. Healthy' = Healthy /\ PackFlash' /\ \A s \in Healthy : Sound(flash'[s].items)
    BY <2>1 DEF PackInv, PackFlash, PackMounted, Healthy
  <2>3. CASE UNCHANGED <<active, idle>>
    BY <2>1, <2>2, <2>3 DEF PackInv, PackMounted, PackPhases, Spare, RoomLeft, Bounded
  <2>4. CASE idle = <<>> /\ active' = Front(active) /\ idle' = <<Current>>
    <3>1. active \in Seq(Sectors) /\ active # <<>> /\ IsInjective(active)
      BY <2>1, CurrentType DEF ListInv, ListsPartition, Lists
    <3>2. ToSet(active') \subseteq ToSet(active)
      BY <2>4, <3>1, FrontOnly
    <3>3. ToSet(idle') = {Current}
      BY <2>4 DEF ToSet
    <3>4. \A s \in ToSet(active') \cap Healthy' : RoomLeft(s)'
      BY <2>1, <2>2, <3>2 DEF PackInv, PackMounted, RoomLeft
    <3>5. ASSUME NEW s \in Spare' PROVE Bounded(s)'
      <4>1. s \in ToSet(idle') /\ s \in Healthy
        BY <2>2 DEF Spare
      <4>2. Good(ram'[s]) /\ s \in Sectors
        BY <2>1, <4>1 DEF SerialFacts, HealthKnown, Healthy
      <4>3. flash'[s].items = <<>>
        BY <2>1, <4>1, <4>2 DEF ReserveInv, BareFacts, Bare, Good
      <4>4. Bounded(s)
        BY <2>1, <2>4, <4>1, <4>3 DEF PackInv, PackPhases, Bare
      <4> QED BY <2>1, <4>4 DEF Bounded
    <3>6. PackMounted'
      BY <2>2, <3>4, <3>5 DEF PackMounted
    <3> QED BY <2>1, <2>2, <3>6 DEF PackInv, PackPhases
  <2> QED BY <2>1, <2>3, <2>4
<1> QED BY <1>1, <1>2, <1>3, <1>4, <1>5, <1>6 DEF Mount

\* wm_nvs_sector_write_item appends at free, which has passed the last item
\* or left no room.
LEMMA PutPlace ==
  ASSUME ListInv, MarkInv, SerialInv, PackInv, pc = "put", ram[Current].state # "uninit",
         Fits(Current, Span[op.val])
  PROVE  /\ Current \in Healthy /\ Current \in Sectors /\ Current \in ToSet(active)
         /\ End(flash[Current].items) <= ram[Current].free
         /\ \E n, m \in Nat : n = ram[Current].free /\ m = Span[op.val] /\ n + m <= EntryCount
         /\ NewItem(op.key, op.val, ram[Current].free) \in AnyItem
<1> USE DEF SerialInv, MarkInv
<1>1. /\ Current \in Sectors /\ Current \in ToSet(active)
      /\ ram[Current].free \in Nat /\ Span[op.val] \in 1..EntryCount
      /\ NewItem(op.key, op.val, ram[Current].free) \in AnyItem
  BY PutItemType
<1>2. ram[Current].state \in State
  BY <1>1 DEF WeakTypes, RamSector
<1>3. Current \in Healthy
  BY <1>1, <1>2 DEF SerialFacts, HealthKnown, Healthy, Good, State
<1>4. PICK n \in Nat, m \in Nat : /\ n = ram[Current].free /\ m = Span[op.val] /\ m >= 1
                                  /\ EntryCount \in Nat
  BY <1>1, SizesAssumption
<1>5. n + m <= EntryCount
  BY <1>4 DEF Fits
<1>6. RoomLeft(Current)
  BY <1>1, <1>3 DEF PackInv, PackMounted
<1>7. End(flash[Current].items) <= ram[Current].free
  BY <1>4, <1>5, <1>6 DEF RoomLeft
<1> QED BY <1>1, <1>3, <1>4, <1>5, <1>7

LEMMA NewItemFacts ==
  ASSUME NEW k, NEW v, NEW n
  PROVE  NewItem(k, v, n).at = n /\ NewItem(k, v, n).span = Span[v] /\ NewItem(k, v, n).crcItem
BY DEF NewItem

\* Counting the slices of an item, when the byte does not wrap.
LEMMA ItemCounted ==
  ASSUME WeakTypes, NEW s \in Sectors, NEW n \in Nat, ram' = AddItem(s, n)
  PROVE  /\ ram[s].free + n < Byte => ram'[s].free = ram[s].free + n
         /\ ram[s].used + n < Byte => ram'[s].used = ram[s].used + n
         /\ \A t \in Sectors \ {s} : ram'[t] = ram[t]
<1>1. PICK f \in Nat, u \in Nat : f = ram[s].free /\ u = ram[s].used
  BY DEF WeakTypes, RamSector
<1>2. PICK b \in Nat \ {0} : b = Byte
  BY ByteType
<1>3. \A x \in Nat : x < b => x % b = x
  OBVIOUS
<1> DEFINE p == (f + n) % b
           q == (u + n) % b
<1>4. ram' = [ram EXCEPT ![s].free = p, ![s].used = q] /\ ram \in [Sectors -> RamSector]
  BY <1>1, <1>2 DEF AddItem, WeakTypes
<1>5. (f + n < b => p = f + n) /\ (u + n < b => q = u + n)
  BY <1>3
<1> HIDE DEF p, q
<1>6. ram'[s].free = p /\ ram'[s].used = q /\ \A t \in Sectors \ {s} : ram'[t] = ram[t]
  BY <1>4 DEF RamSector
<1> QED BY <1>1, <1>2, <1>5, <1>6

\* Appending an item to an active sector keeps what is known of the mounted
\* sectors, if the counter is moved behind it.
LEMMA AppendMounted ==
  ASSUME ListInv, WeakTypes, pc # "off", PackMounted, SameStates, UNCHANGED <<active, idle>>,
         NEW s \in ToSet(active), NEW i \in AnyItem, NEW l \in AnyItem, Appended(s, i, l),
         l.crcItem = i.crcItem, l.span = i.span, i.crcItem,
         \A t \in Sectors \ {s} : ram'[t] = ram[t],
         ram'[s].free >= i.at + i.span
  PROVE  PackMounted'
<1>1. /\ ToSet(active) \subseteq Sectors /\ ToSet(idle) \subseteq Sectors
      /\ s \in Sectors /\ s \notin ToSet(idle)
  BY ListedSectors DEF ListInv, ListsPartition
<1>2. Healthy' = Healthy /\ Spare' = Spare /\ \A t \in Healthy : t \in Sectors
  BY DEF SameStates, SameHeads, Healthy, Spare, Good
<1>3. /\ flash'[s].items = Append(flash[s].items, l) /\ l.at = i.at
      /\ \A t \in Sectors \ {s} : flash'[t] = flash[t]
  BY DEF Appended
<1>4. flash[s].items \in Seq(AnyItem)
  BY <1>1 DEF WeakTypes, FlashSector
<1>5. Sound(flash[s].items) => Sound(flash'[s].items)
  <2> DEFINE q == flash[s].items
  <2>1. PICK n \in Nat : n = Len(q) /\ DOMAIN q = 1..n
    BY <1>4, LenProperties
  <2>2. /\ DOMAIN Append(q, l) = 1..(n + 1) /\ Append(q, l)[n + 1] = l
        /\ \A j \in 1..n : Append(q, l)[j] = q[j]
    BY <1>4, <2>1, AppendProperties, LenProperties
  <2>3. \A j \in 1..(n + 1) : j \in 1..n \/ j = n + 1
    OBVIOUS
  <2> HIDE DEF q
  <2>4. Sound(q) => Sound(Append(q, l))
    BY <2>1, <2>2, <2>3 DEF Sound
  <2> QED BY <1>3, <2>4 DEF q
<1>6. \A t \in Healthy' : Sound(flash'[t].items)
  BY <1>2, <1>3, <1>5 DEF PackMounted
<1>7. End(flash'[s].items) <= ram'[s].free
  BY <1>3, <1>4, EndFacts
<1>8. \A t \in ToSet(active') \cap Healthy' : RoomLeft(t)'
  <2>1. \A t \in ToSet(active) \cap Healthy : t # s => RoomLeft(t)'
    BY <1>1, <1>3 DEF PackMounted, RoomLeft
  <2> QED BY <1>2, <1>7, <2>1 DEF RoomLeft
<1>9. \A t \in Spare' : Bounded(t)'
  <2>1. \A t \in Spare : t \in Sectors \ {s} /\ Bounded(t)
    BY <1>1 DEF PackMounted, Spare
  <2> QED BY <1>2, <2>1 DEF Bounded
<1> QED BY <1>6, <1>8, <1>9 DEF PackMounted

LEMMA CallPacks ==
  ASSUME ListInv, MarkInv, SerialInv, ReserveInv, PackInv, ListInv', MarkInv', SerialInv',
         \/ Write
         \/ \E k \in Keys, v \in Values : Set(k, v)
         \/ \E k \in Keys, t \in Types : Get(k, t) \/ Del(k, t)
  PROVE  PackInv'
<1> USE DEF SerialInv, MarkInv
<1>1. ASSUME pc' \in {"ready", "put", "drop", "request"}, PackFlash', PackMounted'
      PROVE  PackInv'
  BY <1>1 DEF PackInv, PackPhases
<1>2. ASSUME UNCHANGED <<flash, ram, active, idle>>, pc # "off" PROVE PackFlash' /\ PackMounted'
  BY <1>2 DEF PackInv, PackFlash, PackMounted, Healthy, Spare, RoomLeft, Bounded
<1>3. ASSUME NEW k \in Keys, NEW t \in Types, Get(k, t) PROVE PackInv'
  <2>1. pc = "ready" /\ pc' = pc /\ UNCHANGED <<flash, ram, active, idle>>
    BY <1>3 DEF Get, lists
  <2> QED BY <1>1, <1>2, <2>1
<1>4. ASSUME NEW k \in Keys, NEW v \in Values, Set(k, v) PROVE PackInv'
  <2>1. pc = "ready" /\ pc' \in {"ready", "put"} /\ UNCHANGED <<flash, ram, active, idle>>
    BY <1>4 DEF Set, lists
  <2> QED BY <1>1, <1>2, <2>1
<1>5. CASE DropOld \/ \E k \in Keys, t \in Types : Del(k, t)
  <2>1. pc \in {"drop", "ready"} /\ pc' = "ready" /\ UNCHANGED <<active, idle>>
    BY <1>5 DEF DropOld, Del, Return, lists
  <2>2. SameStates /\ OnlyDropped
    BY <1>5, ItemSteps, DropSteps, EraseItemDrops, NothingDropped
  <2>3. PackFlash' /\ PackMounted'
    BY <2>1, <2>2, StatesKeepHealth, DropsKeepPacked DEF PackInv
  <2> QED BY <1>1, <2>1, <2>3
<1>6. CASE PutItem
  <2> DEFINE i == NewItem(op.key, op.val, ram[Current].free)
  <2>1. /\ pc = "put" /\ pc' = "drop" /\ UNCHANGED <<active, idle>> /\ ram[Current].state # "uninit"
        /\ Fits(Current, Span[op.val])
        /\ flash' = Program(flash, Current, i) /\ ram' = AddItem(Current, Span[op.val])
    BY <1>6 DEF PutItem, lists
  <2>2. /\ Current \in Healthy /\ Current \in Sectors /\ Current \in ToSet(active)
        /\ End(flash[Current].items) <= ram[Current].free /\ i \in AnyItem
    BY <2>1, PutPlace
  <2>3. PICK n \in Nat, m \in Nat : n = ram[Current].free /\ m = Span[op.val] /\ n + m <= EntryCount
    BY <2>1, PutPlace
  <2>4. i.at = n /\ i.span = m /\ i.crcItem
    BY <2>3, NewItemFacts
  <2> HIDE DEF i
  <2>5. PICK l \in AnyItem : Appended(Current, i, l) /\ l.crcItem = i.crcItem /\ l.span = i.span
    BY <2>1, <2>2, ProgramAppends
  <2>6. SameStates
    BY <1>6, ItemSteps
  <2>7. Healthy' = Healthy
    BY <2>6 DEF SameStates, SameHeads, Healthy, Good
  <2>8. ram'[Current].free = n + m /\ \A t \in Sectors \ {Current} : ram'[t] = ram[t]
    <3>1. n + m < Byte
      BY <2>3, ByteType DEF Byte
    <3> QED BY <2>1, <2>2, <2>3, <3>1, ItemCounted
  <2>9. PackFlash'
    BY <2>2, <2>3, <2>4, <2>5, <2>7, AppendPacks DEF PackInv
  <2>10. PackMounted'
    <3>1. ram'[Current].free >= i.at + i.span
      BY <2>3, <2>4, <2>8
    <3> QED BY <2>1, <2>2, <2>4, <2>5, <2>6, <2>8, <3>1, AppendMounted DEF PackInv
  <2> QED BY <1>1, <2>1, <2>9, <2>10
<1>7. CASE PutInit
  <2>1. /\ pc = "put" /\ pc' = pc /\ UNCHANGED <<active, idle, sn>>
        /\ ram[Current].state = "uninit" /\ InitSector(Current)
    BY <1>7 DEF PutInit, lists
  <2>2. Current \in Unwritten
    BY <2>1, CurrentType DEF SerialFacts, HealthKnown, Unwritten, Healthy, Good
  <2>3. Spare' = {}
    BY <2>1, <2>2, HeaderKeepsSerials
  <2>4. PackFlash' /\ PackMounted'
    BY <2>1, <2>2, <2>3, HeaderPacks DEF ReserveInv, PackInv
  <2> QED BY <1>1, <2>1, <2>4
<1>8. CASE PutFull \/ NoSpace
  <2>1. /\ pc \in {"put", "request"} /\ pc' \in {"ready", "request"}
        /\ UNCHANGED <<flash, ram, active, idle>>
    BY <1>8 DEF PutFull, NoSpace, Return, lists
  <2> QED BY <1>1, <1>2, <2>1
<1>9. CASE TakeIdle
  <2>1. pc = "request" /\ pc' = "put" /\ Activate /\ Unwritten = {}
    BY <1>9 DEF TakeIdle, SerialPhases
  <2>2. Spare' = {}
    BY <2>1, ActivateKeepsSerials
  <2>3. PackFlash' /\ PackMounted'
    BY <2>1, <2>2, ActivatePacks DEF PackInv, ReserveInv
  <2> QED BY <1>1, <2>1, <2>3
<1> QED BY <1>3, <1>4, <1>5, <1>6, <1>7, <1>8, <1>9 DEF Write

\* What comes behind an item: the next one, or the end.
LEMMA NextItem ==
  ASSUME NEW q \in Seq(AnyItem), Packed(q), NEW n \in Nat \ {0}, n <= Len(q)
  PROVE  /\ q[n] \in AnyItem
         /\ n + 1 <= Len(q) => q[n + 1] \in AnyItem /\ q[n].at + q[n].span <= q[n + 1].at
         /\ ~(n + 1 <= Len(q)) => End(q) = q[n].at + q[n].span
<1>1. PICK m \in Nat : m = Len(q)
  BY LenProperties
<1>2. \A j \in 1..m : q[j] \in AnyItem
  BY <1>1, ElementOfSeq
<1>3. n \in 1..m
  BY <1>1
<1>4. ASSUME n + 1 <= m PROVE q[n + 1] \in AnyItem /\ q[n].at + q[n].span <= q[n + 1].at
  <2>1. n + 1 \in 1..m /\ n \in 1..(m - 1)
    BY <1>4
  <2> QED BY <1>1, <1>2, <2>1 DEF Packed
<1>5. ASSUME ~(n + 1 <= m) PROVE End(q) = q[n].at + q[n].span
  <2>1. n = m /\ m # 0
    BY <1>3, <1>5
  <2>2. q # <<>>
    BY <1>1, <2>1, EmptySeq
  <2> QED BY <1>1, <2>1, <2>2 DEF End
<1> QED BY <1>1, <1>2, <1>3, <1>4, <1>5

\* The place of the next copy.
LEMMA CopyPlace ==
  ASSUME ListInv, MarkInv, SerialInv, PackInv, pc = "gc_copy", GcMore, GcItem.state = "using"
  PROVE  /\ GcItem \in AnyItem /\ GcItem.crcItem
         /\ End(flash[gc.dst].items) <= gc.to
         /\ \E a, n, m \in Nat : /\ n = gc.to /\ m = GcItem.span /\ a = GcItem.at
                                 /\ n <= a /\ n + m <= EntryCount
<1> USE DEF SerialInv, MarkInv
<1>1. gc.src \in Healthy /\ gc.src \in Sectors /\ gc.next \in Nat \ {0} /\ gc.to \in Nat
  BY DEF ListInv, GcRunning, SerialPhases, Unwritten, WeakTypes
<1>2. flash[gc.src].items \in Seq(AnyItem)
  BY <1>1 DEF WeakTypes, FlashSector
<1>3. gc.next \in DOMAIN flash[gc.src].items
  BY <1>1, <1>2, LenProperties DEF GcMore
<1>4. GcItem \in AnyItem
  BY GcItemType
<1>5. GcItem.crcItem
  BY <1>1, <1>3 DEF PackInv, PackMounted, Sound, GcItem
<1>6. GcItem.at + GcItem.span <= EntryCount
  BY <1>1, <1>3, <1>5 DEF PackInv, PackFlash, Within, GcItem
<1>7. Copying
  BY DEF PackInv, PackPhases
<1>8. PICK a \in Nat, n \in Nat, m \in Nat : n = gc.to /\ m = GcItem.span /\ a = GcItem.at
  BY <1>1, <1>4 DEF AnyItem
<1>9. n <= a /\ n + m <= EntryCount
  <2>1. n <= a
    BY <1>7, <1>8 DEF Copying
  <2>2. a + m <= EntryCount /\ EntryCount \in Nat
    BY <1>6, <1>8, ByteType
  <2> QED BY <2>1, <2>2
<1> QED BY <1>4, <1>5, <1>7, <1>8, <1>9 DEF Copying

LEMMA CopyPacks ==
  ASSUME ListInv, MarkInv, SerialInv, PackInv, GcCopy, WeakTypes'
  PROVE  PackInv'
<1> USE DEF SerialInv, MarkInv
<1>1. /\ pc = "gc_copy" /\ pc' = pc /\ UNCHANGED <<active, idle>> /\ GcMore
  BY DEF GcCopy, lists
<1>2. /\ gc.src \in Sectors /\ gc.dst \in Sectors /\ gc.src # gc.dst
      /\ gc.src \in Healthy /\ gc.dst \in ToSet(active)
      /\ gc.next \in Nat \ {0} /\ gc.to \in Nat
      /\ gc \in [src : Sectors, dst : Sectors, next : Nat \ {0}, to : Nat]
  BY <1>1 DEF ListInv, GcRunning, SerialPhases, Unwritten, WeakTypes
<1> DEFINE q == flash[gc.src].items
<1>3. q \in Seq(AnyItem) /\ Packed(q) /\ gc.next <= Len(q) /\ GcItem = q[gc.next]
  BY <1>1, <1>2 DEF WeakTypes, FlashSector, PackInv, PackFlash, GcMore, GcItem
<1>4. /\ GcItem \in AnyItem
      /\ gc.next + 1 <= Len(q) =>
           q[gc.next + 1] \in AnyItem /\ GcItem.at + GcItem.span <= q[gc.next + 1].at
      /\ ~(gc.next + 1 <= Len(q)) => End(q) = GcItem.at + GcItem.span
  BY <1>2, <1>3, NextItem
<1>5. Copying
  BY <1>1 DEF PackInv, PackPhases
<1>6. CASE GcItem.state # "using"
  <2>1. gc' = [gc EXCEPT !.next = gc.next + 1] /\ UNCHANGED <<flash, ram>>
    BY <1>6 DEF GcCopy
  <2>2. gc'.src = gc.src /\ gc'.dst = gc.dst /\ gc'.to = gc.to /\ gc'.next = gc.next + 1
    BY <1>2, <2>1
  <2>3. GcItem.at \in Nat /\ GcItem.span \in Nat /\ gc.to <= GcItem.at
    BY <1>1, <1>4, <1>5 DEF AnyItem, Copying
  <2>4. GcMore' => gc'.to <= GcItem'.at
    <3>1. GcMore' <=> gc.next + 1 <= Len(q)
      BY <2>1, <2>2 DEF GcMore
    <3>2. GcItem' = q[gc.next + 1]
      BY <2>1, <2>2 DEF GcItem
    <3>3. ASSUME gc.next + 1 <= Len(q) PROVE gc.to <= q[gc.next + 1].at
      <4>1. PICK t \in Nat, a \in Nat, m \in Nat, b \in Nat :
              t = gc.to /\ a = GcItem.at /\ m = GcItem.span /\ b = q[gc.next + 1].at
        BY <1>2, <1>4, <2>3, <3>3 DEF AnyItem
      <4>2. t <= a
        BY <2>3, <4>1
      <4>3. a + m <= b
        BY <1>4, <3>3, <4>1
      <4>4. t <= b
        BY <4>2, <4>3
      <4> QED BY <4>1, <4>4
    <3> QED BY <2>2, <3>1, <3>2, <3>3
  <2>5. ~GcMore' => gc'.to <= End(flash'[gc'.src].items)
    <3>1. GcMore' <=> gc.next + 1 <= Len(q)
      BY <2>1, <2>2 DEF GcMore
    <3> QED BY <1>2, <1>4, <2>1, <2>2, <2>3, <3>1
  <2>6. Copying'
    BY <1>5, <2>1, <2>2, <2>4, <2>5 DEF Copying
  <2>7. PackFlash' /\ PackMounted'
    BY <1>1, <2>1 DEF PackInv, PackFlash, PackMounted, Healthy, Spare, RoomLeft, Bounded
  <2> QED BY <1>1, <2>6, <2>7 DEF PackInv, PackPhases
<1>7. CASE GcItem.state = "using"
  <2> DEFINE c == [GcItem EXCEPT !.at = gc.to]
  <2>1. /\ flash' = Program(flash, gc.dst, c) /\ ram' = AddItem(gc.dst, GcItem.span)
        /\ gc' = [gc EXCEPT !.next = gc.next + 1, !.to = gc.to + GcItem.span]
    BY <1>7 DEF GcCopy
  <2>2. GcItem.crcItem /\ End(flash[gc.dst].items) <= gc.to
    BY <1>1, <1>7, CopyPlace
  <2>3. PICK a \in Nat, n \in Nat, m \in Nat :
          n = gc.to /\ m = GcItem.span /\ a = GcItem.at /\ n <= a /\ n + m <= EntryCount
    BY <1>1, <1>7, CopyPlace
  <2>4. c \in AnyItem /\ c.at = n /\ c.span = m /\ c.crcItem
    BY <1>4, <2>2, <2>3 DEF AnyItem
  <2> HIDE DEF c
  <2>5. PICK l \in AnyItem : Appended(gc.dst, c, l) /\ l.crcItem = c.crcItem /\ l.span = c.span
    BY <1>2, <2>1, <2>4, ProgramAppends
  <2>6. SameStates
    BY ItemSteps
  <2>7. Healthy' = Healthy
    BY <2>6 DEF SameStates, SameHeads, Healthy, Good
  <2>8. /\ gc'.src = gc.src /\ gc'.dst = gc.dst /\ gc'.to = n + m /\ gc'.next = gc.next + 1
    BY <1>2, <2>1, <2>3
  <2>9. PICK f \in Nat, u \in Nat, e \in Nat : /\ f = ram[gc.dst].free /\ u = ram[gc.dst].used
                                               /\ e = EntryCount
    BY <1>2, ByteType DEF WeakTypes, RamSector
  <2>10. /\ n <= f /\ f <= e + n
         /\ n < e => n <= u /\ u <= e + 2 + n
    BY <1>5, <2>3, <2>9 DEF Copying, Overlong
  <2>11. /\ ram'[gc.dst].free = f + m
         /\ n + m < e => ram'[gc.dst].used = u + m
         /\ \A t \in Sectors \ {gc.dst} : ram'[t] = ram[t]
    <3>1. /\ ram[gc.dst].free + m < Byte => ram'[gc.dst].free = ram[gc.dst].free + m
          /\ ram[gc.dst].used + m < Byte => ram'[gc.dst].used = ram[gc.dst].used + m
          /\ \A t \in Sectors \ {gc.dst} : ram'[t] = ram[t]
      BY <1>2, <2>1, <2>3, ItemCounted
    <3>2. Byte = 2 * (e + 1)
      BY <2>9 DEF Byte
    <3>0. n + m <= e
      BY <2>3, <2>9
    <3>3. f + m < 2 * (e + 1)
      BY <2>10, <3>0
    <3>4. n + m < e => u + m < 2 * (e + 1)
      BY <2>10
    <3> QED BY <2>9, <3>1, <3>2, <3>3, <3>4
  <2>12. PackFlash'
    BY <1>2, <2>2, <2>3, <2>4, <2>5, <2>7, AppendPacks DEF PackInv
  <2>13. PackMounted'
    <3>1. ram'[gc.dst].free >= c.at + c.span
      BY <2>4, <2>10, <2>11
    <3> QED BY <1>1, <1>2, <2>4, <2>5, <2>6, <2>11, <3>1, AppendMounted DEF PackInv
  <2>14. End(flash'[gc.dst].items) = n + m
    <3>1. flash[gc.dst].items \in Seq(AnyItem)
      BY <1>2 DEF WeakTypes, FlashSector
    <3>2. flash'[gc.dst].items = Append(flash[gc.dst].items, l) /\ l.at = c.at
      BY <2>5 DEF Appended
    <3> QED BY <2>4, <2>5, <3>1, <3>2, EndFacts
  <2>15. flash'[gc.src].items = q
    BY <1>2, <2>5 DEF Appended
  <2>16. GcMore' => gc'.to <= GcItem'.at
    <3>1. GcMore' <=> gc.next + 1 <= Len(q)
      BY <2>8, <2>15 DEF GcMore
    <3>2. GcItem' = q[gc.next + 1]
      BY <2>8, <2>15 DEF GcItem
    <3>3. ASSUME gc.next + 1 <= Len(q) PROVE n + m <= q[gc.next + 1].at
      <4>1. PICK b \in Nat : b = q[gc.next + 1].at
        BY <1>4, <3>3 DEF AnyItem
      <4>2. a + m <= b
        BY <1>4, <2>3, <3>3, <4>1
      <4>3. n <= a
        BY <2>3
      <4>4. n + m <= b
        BY <4>2, <4>3
      <4> QED BY <4>1, <4>4
    <3> QED BY <2>8, <3>1, <3>2, <3>3
  <2>17. ~GcMore' => gc'.to <= End(flash'[gc'.src].items)
    <3>1. GcMore' <=> gc.next + 1 <= Len(q)
      BY <2>8, <2>15 DEF GcMore
    <3> QED BY <1>4, <2>3, <2>8, <2>15, <3>1
  <2>18. /\ n + m <= f + m /\ f + m <= e + (n + m)
         /\ n + m < e => n + m <= u + m /\ u + m <= e + 2 + (n + m)
    BY <2>10
  <2>19. Copying'
    <3>1. End(flash'[gc'.dst].items) <= gc'.to /\ gc'.to <= EntryCount
      BY <2>3, <2>8, <2>14
    <3>2. /\ gc'.to <= ram'[gc'.dst].free /\ ram'[gc'.dst].free <= EntryCount + gc'.to
          /\ gc'.to < EntryCount =>
               gc'.to <= ram'[gc'.dst].used /\ ram'[gc'.dst].used <= Overlong + gc'.to
      BY <2>8, <2>9, <2>11, <2>18 DEF Overlong
    <3> QED BY <2>16, <2>17, <3>1, <3>2 DEF Copying
  <2> QED BY <1>1, <2>12, <2>13, <2>19 DEF PackInv, PackPhases
<1> QED BY <1>6, <1>7

LEMMA GcPacks ==
  ASSUME ListInv, MarkInv, SerialInv, ReserveInv, PackInv, Gc,
         ListInv', MarkInv', SerialInv', ReserveInv'
  PROVE  PackInv'
<1> USE DEF SerialInv, MarkInv
<1>1. CASE GcStart
  <2>1. pc = "request" /\ pc' = "gc_init" /\ Activate /\ Unwritten = {} /\ Spare' = {}
    BY <1>1 DEF GcStart, SerialPhases
  <2>2. PICK s \in Dirtiest : gc' = [NoGc EXCEPT !.src = s, !.dst = Head(idle)]
    BY <1>1 DEF GcStart
  <2>3. gc'.dst = Head(idle) /\ gc'.next = 1 /\ gc'.to = 0
    BY <2>2 DEF NoGc
  <2>4. /\ PackFlash' /\ PackMounted'
        /\ Head(idle) \in Healthy' =>
             ram'[Head(idle)].free <= EntryCount /\ ram'[Head(idle)].used <= Overlong
    BY <2>1, ActivatePacks DEF PackInv, ReserveInv
  <2> QED BY <2>1, <2>3, <2>4 DEF PackInv, PackPhases, Bounded
<1>2. ASSUME ~GcStart PROVE PackInv'
  <2>1. /\ pc \in {"gc_init", "gc_mark", "gc_copy"}
        /\ gc.src \in Sectors /\ gc.dst \in Sectors /\ gc.src # gc.dst
        /\ gc.src \in ToSet(active) /\ gc.dst \in ToSet(active)
    <3>1. pc \in {"gc_init", "gc_mark", "gc_copy"}
      BY <1>2 DEF Gc, GcInit, GcMark, GcCopy, GcErase
    <3> QED BY <3>1 DEF ListInv, GcRunning, WeakTypes
  <2>2. CASE GcInit
    <3>1. /\ pc = "gc_init" /\ pc' \in {"gc_copy", "gc_mark"} /\ UNCHANGED <<active, idle, sn, gc>>
          /\ IF ram[gc.dst].state = "uninit" THEN InitSector(gc.dst) ELSE UNCHANGED <<flash, ram>>
          /\ flash[gc.dst].items = <<>> /\ gc.next = 1 /\ gc.to = 0
          /\ gc.dst \in Healthy => Bounded(gc.dst)
      BY <2>2 DEF GcInit, lists, ReserveInv, ReservePhases, Bare, PackInv, PackPhases
    <3>2. /\ PackFlash' /\ PackMounted' /\ flash'[gc.dst].items = <<>>
          /\ ram'[gc.dst].free <= EntryCount /\ ram'[gc.dst].used <= Overlong
      <4>1. CASE ram[gc.dst].state = "uninit"
        <5>1. gc.dst \in Unwritten
          BY <2>1, <4>1 DEF SerialFacts, HealthKnown, Unwritten, Healthy, Good
        <5>2. Spare' = {}
          BY <3>1, <4>1, <5>1, HeaderKeepsSerials
        <5>3. /\ PackFlash' /\ PackMounted' /\ flash'[gc.dst].items = <<>>
              /\ ram'[gc.dst].free = 0 /\ ram'[gc.dst].used = 0
          BY <3>1, <4>1, <5>1, <5>2, HeaderPacks DEF ReserveInv, PackInv
        <5> QED BY <5>3, ByteType
      <4>2. CASE ram[gc.dst].state # "uninit"
        <5>1. ram[gc.dst].state \in State
          BY <2>1 DEF WeakTypes, RamSector
        <5>2. gc.dst \in Healthy
          BY <2>1, <3>1, <4>2, <5>1 DEF SerialFacts, HealthKnown, Healthy, Good, State
        <5>3. UNCHANGED <<flash, ram, active, idle>> /\ Bounded(gc.dst)
          BY <3>1, <4>2, <5>2
        <5>4. PackFlash' /\ PackMounted'
          BY <3>1, <5>3 DEF PackInv, PackFlash, PackMounted, Healthy, Spare, RoomLeft, Bounded
        <5> QED BY <3>1, <5>3, <5>4 DEF Bounded
      <4> QED BY <4>1, <4>2
    <3>3. gc'.dst = gc.dst /\ gc'.next = 1 /\ gc'.to = 0
      BY <3>1
    <3>4. Copying'
      BY <3>2, <3>3, CopyStarts
    <3> QED BY <3>1, <3>2, <3>3, <3>4 DEF PackInv, PackPhases, Bounded
  <2>3. CASE GcMark
    <3>1. /\ pc = "gc_mark" /\ pc' = "gc_copy" /\ UNCHANGED <<active, idle, gc>> /\ Unwritten = {}
          /\ flash' = [flash EXCEPT ![gc.src].state = "deleting"]
          /\ ram' = [ram EXCEPT ![gc.src].state = "deleting"]
          /\ flash \in [Sectors -> FlashSector] /\ ram \in [Sectors -> RamSector]
      BY <2>3 DEF GcMark, SetState, lists, SerialPhases, WeakTypes
    <3>2. Good(flash[gc.src]) /\ Good(ram[gc.src])
      BY <2>1, <3>1 DEF SerialFacts, HealthKnown, Unwritten, Healthy
    <3>3. /\ flash'[gc.src].state = "deleting" /\ flash'[gc.src].serial = flash[gc.src].serial
          /\ flash'[gc.src].items = flash[gc.src].items
          /\ ram'[gc.src].state = "deleting" /\ ram'[gc.src].serial = ram[gc.src].serial
          /\ ram'[gc.src].free = ram[gc.src].free /\ ram'[gc.src].used = ram[gc.src].used
          /\ \A t \in Sectors \ {gc.src} : flash'[t] = flash[t] /\ ram'[t] = ram[t]
      BY <2>1, <3>1 DEF FlashSector, RamSector
    <3>4. SameHealth
      BY <3>2, <3>3 DEF SameHealth, Good
    <3>5. OnlyDropped
      <4>1. \A t \in Sectors : SameShape(flash'[t].items, flash[t].items)
        BY <3>3 DEF SameShape
      <4> QED BY <3>3, <4>1 DEF OnlyDropped
    <3>6. PackFlash' /\ PackMounted'
      BY <3>1, <3>4, <3>5, DropsKeepPacked DEF PackInv
    <3>7. gc.dst \in Healthy /\ flash[gc.dst].items = <<>> /\ gc.next = 1 /\ gc.to = 0
      BY <2>1, <3>1 DEF Unwritten, ReserveInv, ReservePhases, Bare, PackInv, PackPhases
    <3>8. Bounded(gc.dst)
      BY <3>1, <3>7 DEF PackInv, PackPhases
    <3>9. Copying'
      <4>1. flash'[gc'.dst].items = <<>> /\ gc'.next = 1 /\ gc'.to = 0
        BY <2>1, <3>1, <3>3, <3>7
      <4>2. ram'[gc'.dst].free <= EntryCount /\ ram'[gc'.dst].used <= Overlong
        BY <2>1, <3>1, <3>3, <3>8 DEF Bounded
      <4> QED BY <4>1, <4>2, CopyStarts
    <3> QED BY <3>1, <3>6, <3>9 DEF PackInv, PackPhases
  <2>4. CASE GcCopy
    BY <2>4, CopyPacks
  <2>5. CASE GcErase
    <3>1. /\ pc = "gc_copy" /\ pc' \in {"settle", "put"} /\ ~GcMore
          /\ active' = RemoveFirst(active, gc.src) /\ idle' = Append(idle, gc.src)
          /\ flash' = EraseSector(flash, gc.src) /\ Copying
      BY <2>1, <2>5 DEF GcErase, PackInv, PackPhases
    <3>2. /\ active \in Seq(Sectors) /\ IsInjective(active)
          /\ idle \in Seq(Sectors) /\ IsInjective(idle) /\ gc.src \notin ToSet(idle)
      BY <2>1, <3>1 DEF ListInv, ListsPartition, Lists
    <3>3. /\ ToSet(active') = ToSet(active) \ {gc.src} /\ ToSet(idle') = ToSet(idle) \cup {gc.src}
      BY <2>1, <3>1, <3>2, RemoveOnly, AppendNew
    <3>4. idle' # <<>>
      BY <3>3, EmptyIsDistinct
    <3>5. flash'[gc.src] = Blank /\ \A t \in Sectors \ {gc.src} : flash'[t] = flash[t]
      BY <2>1, <3>1 DEF WeakTypes, EraseSector
    <3>6. /\ \A t \in Sectors \ {gc.src, gc.dst} : ram'[t] = ram[t]
          /\ ram'[gc.dst].free = IF GcStopsEarly THEN ram[gc.dst].used ELSE ram[gc.dst].free
      <4>1. PICK n : /\ n = IF GcStopsEarly THEN ram[gc.dst].used ELSE ram[gc.dst].free
                     /\ ram' = [ram EXCEPT ![gc.dst].free = n,
                                           ![gc.src] = FreshInfo(ram[gc.src].serial)]
        BY <2>1, <2>5 DEF GcErase, WeakTypes
      <4>2. \A t \in Sectors \ {gc.src, gc.dst} : ram'[t] = ram[t]
        BY <2>1, <4>1 DEF WeakTypes
      <4>3. ram'[gc.dst] = [ram[gc.dst] EXCEPT !.free = n]
        BY <2>1, <4>1 DEF WeakTypes
      <4>4. ram[gc.dst] \in RamSector
        BY <2>1 DEF WeakTypes
      <4>5. ram'[gc.dst].free = n
        BY <4>3, <4>4 DEF RamSector
      <4> QED BY <4>1, <4>2, <4>5
    <3>7. \/ ram'[gc.dst].free = ram[gc.dst].free
          \/ End(flash'[gc.dst].items) <= ram'[gc.dst].free
      <4> SUFFICES ASSUME GcStopsEarly PROVE End(flash'[gc.dst].items) <= ram'[gc.dst].free
        BY <3>6
      <4>1. PICK n \in Nat, b \in Nat, d \in Nat, u \in Nat, e \in Nat :
              /\ n = gc.to /\ b = End(flash[gc.src].items) /\ d = End(flash[gc.dst].items)
              /\ u = ram[gc.dst].used /\ e = EntryCount
        BY <2>1, ItemsType, ByteType DEF WeakTypes
      <4>2. b < e
        BY <4>1 DEF GcStopsEarly
      <4>3. d <= n /\ n <= b /\ (n < e => n <= u)
        BY <3>1, <4>1 DEF Copying
      <4>4. d <= u
        BY <4>2, <4>3
      <4>5. ram'[gc.dst].free = u /\ flash'[gc.dst].items = flash[gc.dst].items
        BY <2>1, <3>5, <3>6, <4>1
      <4> QED BY <4>1, <4>4, <4>5
    <3>8. \A t \in ToSet(active') \cap Healthy' : ram'[t].free = ram[t].free \/ RoomLeft(t)'
      <4> TAKE t \in ToSet(active') \cap Healthy'
      <4>1. t \in Sectors /\ t # gc.src
        BY <3>3 DEF Healthy
      <4>2. CASE t = gc.dst
        BY <3>7, <4>2 DEF RoomLeft
      <4>3. CASE t # gc.dst
        BY <3>6, <4>1, <4>3
      <4> QED BY <4>2, <4>3
    <3>9. Spare' = {}
      <4>1. Unwritten = {} /\ Spare = {} /\ sn' = sn
        BY <2>5, <3>1 DEF SerialPhases, GcErase
      <4>2. Healthy' = Healthy \ {gc.src}
        <5>1. ~Good(flash'[gc.src])
          BY <3>5 DEF Blank, Good
        <5> QED BY <3>5, <5>1 DEF Healthy
      <4> QED BY <3>3, <4>1, <4>2 DEF Spare
    <3>10. PackFlash' /\ PackMounted'
      BY <2>1, <3>1, <3>3, <3>5, <3>8, <3>9, ErasePacks DEF PackInv
    <3> QED BY <3>1, <3>4, <3>10 DEF PackInv, PackPhases
  <2> QED BY <1>2, <2>2, <2>3, <2>4, <2>5 DEF Gc
<1> QED BY <1>1, <1>2

LEMMA PowerLossPacks ==
  ASSUME ListInv, MarkInv, SerialInv, PackInv, PowerLoss
  PROVE  PackInv'
<1> USE DEF SerialInv, MarkInv
<1>1. HeadsKept /\ pc' = "off"
  BY TornHeads DEF PowerLoss
<1>2. Healthy' \subseteq Healthy /\ PackFlash
  BY <1>1 DEF HeadsKept, Healthy, Good, PackInv
<1>3. (\A s \in Sectors : flash'[s].items = flash[s].items) => PackFlash'
  <2> SUFFICES ASSUME \A s \in Sectors : flash'[s].items = flash[s].items PROVE PackFlash'
    OBVIOUS
  <2>1. \A s \in Healthy : s \in Sectors
    BY DEF Healthy
  <2>2. \A s \in Sectors : Within(flash'[s].items)
    BY <1>2 DEF PackFlash
  <2>3. \A s \in Healthy' : Packed(flash'[s].items)
    BY <1>2, <2>1 DEF PackFlash
  <2> QED BY <2>2, <2>3 DEF PackFlash
<1> SUFFICES PackFlash'
  BY <1>1 DEF PackInv, PackPhases
<1>4. CASE flash' = flash
  <2>1. \A s \in Sectors : flash'[s].items = flash[s].items
    BY <1>4
  <2> QED BY <1>3, <2>1
<1>5. CASE \E s \in Sectors : flash' \in TornSector(s)
  <2>1. PICK s \in Sectors : flash' = [flash EXCEPT ![s].state = "crash"]
    BY <1>5 DEF TornSector, SetState
  <2>2. \A t \in Sectors : flash'[t].items = flash[t].items
    BY <2>1 DEF WeakTypes, FlashSector
  <2> QED BY <1>3, <2>2
<1>6. CASE PutTorn
  <2> DEFINE i == NewItem(op.key, op.val, ram[Current].free)
  <2>1. /\ pc = "put" /\ ram[Current].state # "uninit" /\ Fits(Current, Span[op.val])
        /\ flash' \in TornItem(Current, i)
    BY <1>6 DEF PutTorn
  <2>2. Current \in Sectors /\ End(flash[Current].items) <= ram[Current].free /\ i \in AnyItem
    BY <2>1, PutPlace
  <2>3. PICK n \in Nat, m \in Nat : n = ram[Current].free /\ m = Span[op.val] /\ n + m <= EntryCount
    BY <2>1, PutPlace
  <2>4. i.at = n /\ i.span = m
    BY <2>3, NewItemFacts
  <2> HIDE DEF i
  <2>5. PICK l \in AnyItem : Appended(Current, i, l)
    BY <2>1, <2>2, TornAppends
  <2>6. End(flash[Current].items) <= i.at /\ i.at + i.span <= EntryCount
    BY <2>2, <2>3, <2>4
  <2> QED BY <1>2, <2>2, <2>5, <2>6, AppendPacks
<1>7. CASE CopyTorn
  <2> DEFINE c == [GcItem EXCEPT !.at = gc.to]
  <2>1. pc = "gc_copy" /\ GcMore /\ GcItem.state = "using" /\ flash' \in TornItem(gc.dst, c)
    BY <1>7 DEF CopyTorn
  <2>2. GcItem \in AnyItem /\ End(flash[gc.dst].items) <= gc.to /\ gc.dst \in Sectors
    BY <2>1, CopyPlace DEF WeakTypes
  <2>3. PICK n \in Nat, m \in Nat : n = gc.to /\ m = GcItem.span /\ n + m <= EntryCount
    BY <2>1, CopyPlace
  <2>4. c \in AnyItem /\ c.at = n /\ c.span = m
    BY <2>2, <2>3 DEF AnyItem
  <2> HIDE DEF c
  <2>5. PICK l \in AnyItem : Appended(gc.dst, c, l)
    BY <2>1, <2>2, <2>4, TornAppends
  <2> QED BY <1>2, <2>2, <2>3, <2>4, <2>5, AppendPacks
<1> QED BY <1>4, <1>5, <1>6, <1>7, TornCases

LEMMA InitPacks == Init => PackInv
<1> SUFFICES ASSUME Init PROVE PackInv
  OBVIOUS
<1>1. pc = "off" /\ \A s \in Sectors : flash[s] = Blank
  BY DEF Init
<1>2. Healthy = {} /\ Blank.items = <<>>
  BY <1>1 DEF Healthy, Good, Blank
<1>3. Within(<<>>)
  BY EmptySeq, LenProperties DEF Within
<1> QED BY <1>1, <1>2, <1>3 DEF PackInv, PackFlash, PackPhases

LEMMA PackInvStep ==
  ASSUME ListInv, MarkInv, SerialInv, ReserveInv, PackInv, [Next]_vars,
         ListInv', MarkInv', SerialInv', ReserveInv'
  PROVE  PackInv'
<1>1. CASE UNCHANGED vars
  <2>1. UNCHANGED <<flash, ram, active, idle, pc, gc>>
    BY <1>1 DEF vars, lists
  <2>2. Healthy' = Healthy /\ Spare' = Spare
    BY <2>1 DEF Healthy, Spare
  <2>3. PackFlash' <=> PackFlash
    BY <2>1, <2>2 DEF PackFlash
  <2>4. PackMounted => PackMounted'
    BY <2>1, <2>2 DEF PackMounted, RoomLeft, Bounded
  <2>5. Copying => Copying'
    BY <2>1 DEF Copying, GcMore, GcItem
  <2>6. PackPhases'
    BY <2>1, <2>2, <2>5 DEF PackInv, PackPhases, Bare, Bounded
  <2> QED BY <2>1, <2>3, <2>4, <2>6 DEF PackInv
<1> QED BY <1>1, MountPacks, CallPacks, GcPacks, PowerLossPacks DEF Next

\* No item runs past the end of its sector, so none is written over the next
\* sector: not when one is stored behind the last, not when one is copied to
\* reclaim a sector, and not when a power failure cuts either short.
THEOREM ItemsStayInside == Spec => []ItemsInSector
<1>1. ListInv /\ [Next]_vars => ListInv'
  BY ListInvStep
<1>2. ListInv /\ MarkInv /\ [Next]_vars => MarkInv'
  BY MarkInvStep
<1>3. ListInv /\ MarkInv /\ SerialInv /\ [Next]_vars => SerialInv'
  BY SerialInvStep
<1>4. ListInv /\ MarkInv /\ SerialInv /\ ReserveInv /\ [Next]_vars => ReserveInv'
  BY <1>2, <1>3, ReserveInvStep
<1>5. ListInv /\ MarkInv /\ SerialInv /\ ReserveInv /\ PackInv /\ [Next]_vars => PackInv'
  BY <1>1, <1>2, <1>3, <1>4, PackInvStep
<1>6. PackInv => ItemsInSector
  BY DEF PackInv, PackFlash, Within, ItemsInSector
<1> QED BY <1>1, <1>2, <1>3, <1>4, <1>5, <1>6, InitListInv, InitMarks, InitSerials, InitReserve,
           InitPacks, PTL DEF Spec
===============================================================================
