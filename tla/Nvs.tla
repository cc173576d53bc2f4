-------------------------------- MODULE Nvs --------------------------------
(***************************************************************************)
(* The storage engine of the NVS library (src/components/wm_nvs): the      *)
(* sectors of one partition, the sector manager with its active and idle   *)
(* lists, writing, reading and deleting items, the reclaiming of dirty     *)
(* sectors, and the recovery a mount runs after a power failure.           *)
(*                                                                         *)
(* flash survives a power failure, everything else does not.  A step is    *)
(* one program or erase of the flash, with the RAM updates around it; the  *)
(* power may fail between two steps or leave a program half done.  Calls   *)
(* hold the library's mutex from start to end, so one call runs at a time. *)
(***************************************************************************)
EXTENDS Integers, Sequences, FiniteSets, SequencesExt

CONSTANTS
    SecNum,       \* sectors of the partition
    EntryCount,   \* slices of a sector after its header: WM_NVS_ENTRY_COUNT
    Keys, Values, \* what callers store; a value has a type and a size
    TypeOf,       \* value -> its type
    Span,         \* value -> the slices its item takes
    None,
    Overwrite,    \* may a caller set a key that already holds a value?
    Tears,        \* what a program cut short can leave behind
    LossAt,       \* where in a call, and where in a mount, the power may
    MountLossAt,  \*   fail: sets of values of Point
    MaxSets, MaxLosses  \* bounds of a behaviour: sets called, power failures

ASSUME SizesAssumption ==
    /\ SecNum \in Nat /\ SecNum >= 2
    /\ EntryCount \in Nat \ {0}
    /\ Span \in [Values -> 1..EntryCount]
ASSUME NoneAssumption ==
    /\ None \notin Keys \cup Values \cup {"NOT_FOUND", "NO_SPACE", "SECTOR_FULL"}
    /\ None \notin (Nat \X Nat) \cup [key : Keys, val : Values, done : BOOLEAN]
ASSUME BoundsAssumption == MaxSets \in Nat /\ MaxLosses \in Nat
ASSUME SwitchesAssumption ==
    /\ Overwrite \in BOOLEAN
    /\ Tears \subseteq {"header", "overlong", "data"}

VARIABLES
    flash,    \* the sectors: header, serial number, items in slice order
    ram,      \* sm.sec_arr: what the manager knows of each sector
    active, idle,  \* sm.active, sm.idle
    sn,       \* sm.serial_number: the next one
    pc,       \* where the call or the mount is
    op,       \* the set in progress
    gc,       \* the sector being reclaimed, its copy, the item to copy next,
              \*   the slice to copy it to
    reply,    \* what the last call returned
    sets, losses   \* how much of the bounds is used

lists == <<active, idle, sn>>
bounds == <<sets, losses>>
vars == <<flash, ram, active, idle, sn, pc, op, gc, reply, sets, losses>>

Sectors == 0..(SecNum - 1)
Types == {TypeOf[v] : v \in Values}

\* The slice counters are uint8_t.  256 is 2 * (WM_NVS_ENTRY_COUNT + 1), and
\* the length 0xfff of an unprogrammed field makes a span of
\* WM_NVS_ENTRY_COUNT + 2; both keep their proportion here.
Byte == 2 * (EntryCount + 1)
Overlong == EntryCount + 2

Smaller(a, b) == IF a < b THEN a ELSE b
----------------------------------------------------------------------------
(* The flash.                                                              *)

\* at: first slice; crcItem, crcData: do the checksums of head and data match
Item == [at : 0..(EntryCount - 1), span : 1..Overlong,
         key : Keys \cup {None}, val : Values \cup {None},
         state : {"using", "dropped"}, crcItem : BOOLEAN, crcData : BOOLEAN]

\* stray: slices of the unwritten area whose state byte has been programmed
Blank == [state |-> "uninit", serial |-> 0, items |-> <<>>, stray |-> {}]

NewItem(k, v, slice) ==
    [at |-> slice, span |-> Span[v], key |-> k, val |-> v,
     state |-> "using", crcItem |-> TRUE, crcData |-> TRUE]

Slices(i) == i.at .. (i.at + i.span - 1)

\* Programming only clears bits: over a stray state byte an item is born
\* dropped, and data over one is corrupt.
Program(f, s, i) ==
    LET burnt == f[s].stray \cap Slices(i)
        landed == [i EXCEPT !.state = IF i.at \in burnt THEN "dropped" ELSE @,
                            !.crcData = @ /\ burnt \subseteq {i.at}]
    IN [f EXCEPT ![s].items = Append(@, landed)]

\* Clearing the state byte of the item at a slice, whatever is there now.
DropAt(f, s, slice) ==
    IF \E j \in DOMAIN f[s].items : f[s].items[j].at = slice
      THEN [f EXCEPT ![s].items =
              [j \in DOMAIN @ |-> IF @[j].at = slice
                                    THEN [@[j] EXCEPT !.state = "dropped"]
                                    ELSE @[j]]]
      ELSE [f EXCEPT ![s].stray = @ \cup {slice}]

WriteHeader(f, s, n) == [f EXCEPT ![s].state = "using", ![s].serial = n]
SetState(f, s, st) == [f EXCEPT ![s].state = st]
EraseSector(f, s) == [f EXCEPT ![s] = Blank]
----------------------------------------------------------------------------
(* What the manager keeps of a sector.                                     *)

Info(st, n, f, u, d) ==
    [state |-> st, serial |-> n, free |-> f, used |-> u, droped |-> d]
FreshInfo(n) == Info("uninit", n, 0, 0, 0)

\* Slices taken by the items at some places of a sector.
Taken(items, J) == Cardinality(UNION {Slices(items[j]) : j \in J})

End(items) == IF items = <<>> THEN 0
              ELSE LET i == items[Len(items)] IN i.at + i.span

\* The items the load finds: a stray state byte right behind the last item
\* reads as a dropped item of the length an erased field spells.
Walked(f) ==
    IF End(f.items) \in f.stray
      THEN Append(f.items, [at |-> End(f.items), span |-> Overlong,
                            key |-> None, val |-> None, state |-> "dropped",
                            crcItem |-> FALSE, crcData |-> FALSE])
      ELSE f.items

Torn(i) == i.state = "using" /\ ~i.crcItem

\* sector_update_slice_and_hash drops items with a bad head.
Cleaned(f) ==
    [f EXCEPT !.items = [j \in DOMAIN @ |->
        IF Torn(@[j]) THEN [@[j] EXCEPT !.state = "dropped"] ELSE @[j]]]

Good(f) == f.state \in {"using", "deleting"}

\* It counts the slices of such an item as dropped, and so does the
\* wm_nvs_sector_erase_item it calls.
LoadedInfo(f) ==
    IF Good(f)
      THEN LET items == Walked(f)
               dropped == {j \in DOMAIN items : items[j].state = "dropped"}
               torn == {j \in DOMAIN items : Torn(items[j])}
           IN Info(f.state, f.serial, Smaller(End(items), EntryCount),
                   Taken(items, DOMAIN items) % Byte,
                   (Taken(items, dropped) + 2 * Taken(items, torn)) % Byte)
      ELSE Info(IF f.state = "uninit" /\ f.stray # {} THEN "crash" ELSE f.state,
                0, 0, 0, 0)

GcSize(s) == EntryCount - ram[s].used + ram[s].droped
\* (mutant) an off-by-one lets an item run past the end of the sector
FitsOneMore(s, n) == ram[s].free + n <= EntryCount + 1
Fits(s, n) == ram[s].free + n <= EntryCount

AddItem(s, n) ==
    [ram EXCEPT ![s].free = (@ + n) % Byte, ![s].used = (@ + n) % Byte]
\* (mutant) a dropped item is not counted
AddNoDroped(r, s, n) == r
AddDroped(r, s, n) == [r EXCEPT ![s].droped = (@ + n) % Byte]
----------------------------------------------------------------------------
(* Looking up items: wm_nvs_sm_find_item walks the active list in order.   *)

Current == Last(active)
Searched(s) == ram[s].state \in {"using", "deleting"}

\* <<i, j>>: item j of the i-th active sector is in use for key k and types T
Hits(k, T) ==
    {x \in (1..Len(active)) \X (1..EntryCount) :
        /\ Searched(active[x[1]])
        /\ x[2] \in DOMAIN flash[active[x[1]]].items
        /\ LET it == flash[active[x[1]]].items[x[2]]
           IN it.state = "using" /\ it.key = k /\ TypeOf[it.val] \in T}

NotAfter(x, y) == x[1] < y[1] \/ (x[1] = y[1] /\ x[2] <= y[2])

\* The first hit, or no hit: always a set of one.
Found(k, T) ==
    IF Hits(k, T) = {} THEN {None}
    ELSE {x \in Hits(k, T) : \A y \in Hits(k, T) : NotAfter(x, y)}

ItemAt(x) == flash[active[x[1]]].items[x[2]]
Place(x) == [sec |-> active[x[1]], at |-> ItemAt(x).at, span |-> ItemAt(x).span]

\* wm_nvs_sector_erase_item
EraseItem(p) ==
    /\ flash' = DropAt(flash, p.sec, p.at)
    /\ ram' = AddDroped(ram, p.sec, p.span)
----------------------------------------------------------------------------
Reply(o, k, v, e) == [op |-> o, key |-> k, val |-> v, err |-> e]
NoReply == Reply(None, None, None, None)
NoOp == [key |-> None, val |-> None, again |-> FALSE, old |-> None]
NoGc == [src |-> 0, dst |-> 0, next |-> 1, to |-> 0]

NoRam == [s \in Sectors |-> FreshInfo(0)]

\* A factory-fresh partition, not mounted.
Init ==
    /\ flash = [s \in Sectors |-> Blank]
    /\ ram = NoRam
    /\ active = <<>> /\ idle = <<>> /\ sn = 0
    /\ pc = "off" /\ op = NoOp /\ gc = NoGc /\ reply = NoReply
    /\ sets = 0 /\ losses = 0

\* (mutant) the next serial number is not advanced
ActivateSameSerial ==
    /\ idle # <<>>
    /\ idle' = Tail(idle)
    /\ active' = Append(active, Head(idle))
    /\ sn' = sn
    /\ flash' = IF ram[Head(idle)].state = "crash" THEN EraseSector(flash, Head(idle)) ELSE flash
    /\ ram' = [ram EXCEPT ![Head(idle)] = FreshInfo(sn)]

\* sm_active_sector: the first idle sector becomes the last active one; a
\* crashed one is erased first, any other is taken as it is.
Activate ==
    LET s == Head(idle)
        crashed == ram[s].state = "crash"
    IN /\ idle # <<>>
       /\ idle' = Tail(idle)
       /\ active' = Append(active, s)
       /\ sn' = sn + 1
       /\ flash' = IF crashed THEN EraseSector(flash, s) ELSE flash
       /\ ram' = IF crashed THEN [ram EXCEPT ![s] = FreshInfo(sn)]
                            ELSE [ram EXCEPT ![s].serial = sn]

\* wm_nvs_sector_init
InitSector(s) ==
    /\ flash' = WriteHeader(flash, s, ram[s].serial)
    /\ ram' = [ram EXCEPT ![s] = Info("using", @.serial, 0, 0, 0)]
----------------------------------------------------------------------------
(* Reading, deleting and writing an item.                                  *)

Get(k, t) ==
    /\ pc = "ready"
    /\ \E x \in Found(k, {t}) :
         reply' = IF x = None THEN Reply("get", k, None, "NOT_FOUND")
                              ELSE Reply("get", k, ItemAt(x).val, None)
    /\ UNCHANGED <<flash, ram, lists, pc, op, gc, bounds>>

Del(k, t) ==
    /\ pc = "ready"
    /\ \E x \in Found(k, {t}) :
         IF x = None
           THEN /\ reply' = Reply("del", k, None, "NOT_FOUND")
                /\ UNCHANGED <<flash, ram>>
           ELSE /\ EraseItem(Place(x))
                /\ reply' = Reply("del", k, None, None)
    /\ UNCHANGED <<lists, pc, op, gc, bounds>>

\* wm_nvs_storage_write_item up to the first write: where the old item is,
\* and whether it already holds the value.
Set(k, v) ==
    /\ pc = "ready"
    /\ sets < MaxSets
    /\ Overwrite \/ Hits(k, Types) = {}
    /\ sets' = sets + 1
    /\ \E x \in Found(k, Types) :
         IF x # None /\ ItemAt(x).val = v
           THEN /\ reply' = Reply("set", k, v, None)
                /\ UNCHANGED <<pc, op>>
           ELSE /\ op' = [key |-> k, val |-> v, again |-> FALSE,
                          old |-> IF x = None THEN None ELSE Place(x)]
                /\ pc' = "put"
                /\ UNCHANGED reply
    /\ UNCHANGED <<flash, ram, lists, gc, losses>>

Return(e) ==
    /\ reply' = Reply("set", op.key, op.val, e)
    /\ op' = NoOp
    /\ pc' = "ready"

\* wm_nvs_sector_write_item on a sector that was never written
PutInit ==
    /\ pc = "put"
    /\ ram[Current].state = "uninit"
    /\ InitSector(Current)
    /\ UNCHANGED <<lists, pc, op, gc, reply, bounds>>

PutItem ==
    /\ pc = "put"
    /\ ram[Current].state # "uninit"
    /\ Fits(Current, Span[op.val])
    /\ flash' = Program(flash, Current, NewItem(op.key, op.val, ram[Current].free))
    /\ ram' = AddItem(Current, Span[op.val])
    /\ pc' = "drop"
    /\ UNCHANGED <<lists, op, gc, reply, bounds>>

\* The sector is full: ask for another one, but only once.
PutFull ==
    /\ pc = "put"
    /\ ram[Current].state # "uninit"
    /\ ~Fits(Current, Span[op.val])
    /\ IF op.again
         THEN Return("SECTOR_FULL")
         ELSE /\ pc' = "request"
              /\ UNCHANGED <<op, reply>>
    /\ UNCHANGED <<flash, ram, lists, gc, bounds>>

\* The old item is dropped where it was found when the call began.
DropOld ==
    /\ pc = "drop"
    /\ IF op.old = None THEN UNCHANGED <<flash, ram>> ELSE EraseItem(op.old)
    /\ Return(None)
    /\ UNCHANGED <<lists, gc, bounds>>
----------------------------------------------------------------------------
(* wm_nvs_sm_request_sector and sm_garbage_collection.                     *)

\* The first of the active sectors that reclaiming gains most from.
Dirtiest ==
    {active[i] : i \in {i \in DOMAIN active :
        /\ GcSize(active[i]) > 0
        /\ \A j \in DOMAIN active :
             /\ GcSize(active[j]) <= GcSize(active[i])
             /\ j < i => GcSize(active[j]) < GcSize(active[i])}}

\* (mutant) any dirty sector is reclaimed, however little it frees
WorthAny(s) == GcSize(s) > 0

Worth(s) == GcSize(s) >= Span[op.val]

TakeIdle ==
    /\ pc = "request"
    /\ Len(idle) > 1
    /\ Activate
    /\ op' = [op EXCEPT !.again = TRUE]
    /\ pc' = "put"
    /\ UNCHANGED <<gc, reply, bounds>>

GcStart ==
    /\ pc = "request"
    /\ Len(idle) = 1
    /\ \E s \in Dirtiest :
         /\ Worth(s)
         /\ gc' = [NoGc EXCEPT !.src = s, !.dst = Head(idle)]
    /\ Activate
    /\ pc' = "gc_init"
    /\ UNCHANGED <<op, reply, bounds>>

NoSpace ==
    /\ pc = "request"
    /\ Len(idle) = 0 \/ (Len(idle) = 1 /\ \A s \in Dirtiest : ~Worth(s))
    /\ Return("NO_SPACE")
    /\ UNCHANGED <<flash, ram, lists, gc, bounds>>

\* GC STEP1; a sector the mount rolled back to idle has its header already
GcInit ==
    /\ pc = "gc_init"
    /\ IF ram[gc.dst].state = "uninit" THEN InitSector(gc.dst)
                                       ELSE UNCHANGED <<flash, ram>>
    /\ pc' = IF op.key = None THEN "gc_copy" ELSE "gc_mark"
    /\ UNCHANGED <<lists, op, gc, reply, bounds>>

\* GC STEP2
GcMark ==
    /\ pc = "gc_mark"
    /\ flash' = SetState(flash, gc.src, "deleting")
    /\ ram' = [ram EXCEPT ![gc.src].state = "deleting"]
    /\ pc' = "gc_copy"
    /\ UNCHANGED <<lists, op, gc, reply, bounds>>

GcItem == flash[gc.src].items[gc.next]
\* (mutant) the copy stops before the last item
GcMoreButLast == gc.next < Len(flash[gc.src].items)

GcMore == gc.next <= Len(flash[gc.src].items)

\* (mutant) a dropped item is skipped without moving on
GcCopyStuck ==
    /\ pc = "gc_copy"
    /\ GcMore
    /\ GcItem.state = "using"
    /\ flash' = Program(flash, gc.dst, [GcItem EXCEPT !.at = gc.to])
    /\ ram' = AddItem(gc.dst, GcItem.span)
    /\ gc' = [gc EXCEPT !.next = @ + 1, !.to = @ + GcItem.span]
    /\ UNCHANGED <<lists, pc, op, reply, bounds>>

\* GC STEP3, one item at a time
GcCopy ==
    /\ pc = "gc_copy"
    /\ GcMore
    /\ IF GcItem.state = "using"
         THEN /\ flash' = Program(flash, gc.dst, [GcItem EXCEPT !.at = gc.to])
              /\ ram' = AddItem(gc.dst, GcItem.span)
              /\ gc' = [gc EXCEPT !.next = @ + 1, !.to = @ + GcItem.span]
         ELSE /\ gc' = [gc EXCEPT !.next = @ + 1]
              /\ UNCHANGED <<flash, ram>>
    /\ UNCHANGED <<lists, pc, op, reply, bounds>>

\* A copy that ends at an unused slice resets the copy's next free slice.
GcStopsEarly == LET f == flash[gc.src]
                IN End(f.items) < EntryCount /\ End(f.items) \notin f.stray

\* (mutant) the reclaimed sector is not taken off the active list
GcEraseKeepLinked ==
    /\ pc = "gc_copy"
    /\ ~GcMore
    /\ flash' = EraseSector(flash, gc.src)
    /\ ram' = [ram EXCEPT ![gc.dst].free = IF GcStopsEarly THEN ram[gc.dst].used ELSE @,
                          ![gc.src] = FreshInfo(@.serial)]
    /\ idle' = Append(idle, gc.src)
    /\ IF op.key = None
         THEN pc' = "settle" /\ UNCHANGED op
         ELSE pc' = "put" /\ op' = [op EXCEPT !.again = TRUE]
    /\ gc' = NoGc
    /\ UNCHANGED <<active, sn, reply, bounds>>

\* GC STEP4 and back to the write, or to the end of the mount
GcErase ==
    /\ pc = "gc_copy"
    /\ ~GcMore
    /\ flash' = EraseSector(flash, gc.src)
    /\ ram' = [ram EXCEPT ![gc.dst].free = IF GcStopsEarly THEN ram[gc.dst].used ELSE @,
                          ![gc.src] = FreshInfo(@.serial)]
    /\ active' = RemoveFirst(active, gc.src)
    /\ idle' = Append(idle, gc.src)
    /\ IF op.key = None
         THEN pc' = "settle" /\ UNCHANGED op
         ELSE pc' = "put" /\ op' = [op EXCEPT !.again = TRUE]
    /\ gc' = NoGc
    /\ UNCHANGED <<sn, reply, bounds>>
----------------------------------------------------------------------------
(* wm_nvs_sm_load: what a mount does before the first call.                *)

\* The list of a set of sectors sorted by a number each one has.
SortedBy(S, num) ==
    {q \in SetToSeqs(S) : \A i, j \in DOMAIN q : i < j => num[q[i]] < num[q[j]]}

\* sm_load_sectors: good sectors by serial number, the others by address.
Load ==
    /\ pc = "off"
    /\ flash' = [s \in Sectors |-> IF Good(flash[s]) THEN Cleaned(flash[s]) ELSE flash[s]]
    /\ ram' = [s \in Sectors |-> LoadedInfo(flash[s])]
    /\ LET good == {s \in Sectors : Good(flash[s])}
       IN /\ active' \in SortedBy(good, [s \in Sectors |-> flash[s].serial * SecNum + s])
          /\ idle' \in SortedBy(Sectors \ good, [s \in Sectors |-> s])
          /\ sn' = IF good = {} THEN 1 ELSE ram'[Last(active')].serial + 1
    /\ pc' = "fix_write"
    /\ UNCHANGED <<op, gc, reply, bounds>>

\* A partition without a good sector gets its first one.
LoadFirst ==
    /\ pc = "fix_write"
    /\ active = <<>>
    /\ Activate
    /\ UNCHANGED <<pc, op, gc, reply, bounds>>

InUse(s) == {j \in DOMAIN flash[s].items : flash[s].items[j].state = "using"}

\* (mutant) only the data of the last item is checked, not an older double
FixWriteNoDouble ==
    /\ pc = "fix_write"
    /\ active # <<>>
    /\ \/ /\ InUse(Current) = {}
          /\ UNCHANGED <<flash, ram>>
       \/ \E j \in InUse(Current) :
            /\ \A i \in InUse(Current) : i <= j
            /\ IF ItemAt(<<Len(active), j>>).crcData
                 THEN UNCHANGED <<flash, ram>>
                 ELSE EraseItem(Place(<<Len(active), j>>))
    /\ pc' = "fix_gc"
    /\ UNCHANGED <<lists, op, gc, reply, bounds>>

\* (mutant) a torn last item is kept
FixWriteKeepTorn ==
    /\ pc = "fix_write"
    /\ active # <<>>
    /\ \/ /\ InUse(Current) = {}
          /\ UNCHANGED <<flash, ram>>
       \/ \E j \in InUse(Current) :
            LET last == <<Len(active), j>>
                it == ItemAt(last)
            IN /\ \A i \in InUse(Current) : i <= j
               /\ \E x \in Found(it.key, {TypeOf[it.val]}) :
                      IF x \notin {None, last} THEN EraseItem(Place(x))
                                               ELSE UNCHANGED <<flash, ram>>
    /\ pc' = "fix_gc"
    /\ UNCHANGED <<lists, op, gc, reply, bounds>>

\* sm_check_imcomplete_write: the last item of the last sector is dropped if
\* its data is torn; else the first other item of its key and type is.
FixWrite ==
    /\ pc = "fix_write"
    /\ active # <<>>
    /\ \/ /\ InUse(Current) = {}
          /\ UNCHANGED <<flash, ram>>
       \/ \E j \in InUse(Current) :
            LET last == <<Len(active), j>>
                it == ItemAt(last)
            IN /\ \A i \in InUse(Current) : i <= j
               /\ IF ~it.crcData
                    THEN EraseItem(Place(last))
                    ELSE \E x \in Found(it.key, {TypeOf[it.val]}) :
                           IF x \notin {None, last} THEN EraseItem(Place(x))
                                                    ELSE UNCHANGED <<flash, ram>>
    /\ pc' = "fix_gc"
    /\ UNCHANGED <<lists, op, gc, reply, bounds>>

Deleting == {i \in DOMAIN active : ram[active[i]].state = "deleting"}

\* (mutant) a mount ignores an unfinished reclaiming
FixGcNever ==
    /\ pc = "fix_gc"
    /\ pc' = "settle"
    /\ UNCHANGED <<flash, ram, lists, op, gc, reply, bounds>>

\* sm_check_imcomplete_gc: with a sector marked for reclaiming, the last
\* active sector is taken for its unfinished copy and erased.
FixGcErase ==
    /\ pc = "fix_gc"
    /\ IF Deleting = {}
         THEN /\ pc' = "settle"
              /\ UNCHANGED <<flash, ram, active, idle>>
         ELSE /\ pc' = "fix_take"
              /\ IF ram[Current].state = "using"
                   THEN /\ flash' = EraseSector(flash, Current)
                        /\ ram' = [ram EXCEPT ![Current] = FreshInfo(@.serial)]
                        /\ active' = Front(active)
                        /\ idle' = Append(idle, Current)
                   ELSE UNCHANGED <<flash, ram, active, idle>>
    /\ UNCHANGED <<sn, op, gc, reply, bounds>>

\* Then the copy starts over, in the first idle sector.
FixGcTake ==
    /\ pc = "fix_take"
    /\ \E i \in Deleting :
         /\ \A j \in Deleting : i <= j
         /\ gc' = [NoGc EXCEPT !.src = active[i], !.dst = Head(idle)]
    /\ Activate
    /\ pc' = "gc_init"
    /\ UNCHANGED <<op, reply, bounds>>

\* (mutant) the mount keeps every sector active
SettleAsIs ==
    /\ pc = "settle"
    /\ pc' = "ready"
    /\ UNCHANGED <<flash, ram, lists, op, gc, reply, bounds>>

\* wm_nvs_sm_load keeps one sector idle for the next reclaiming.
Settle ==
    /\ pc = "settle"
    /\ IF idle = <<>>
         THEN active' = Front(active) /\ idle' = <<Current>>
         ELSE UNCHANGED <<active, idle>>
    /\ pc' = "ready"
    /\ UNCHANGED <<flash, ram, sn, op, gc, reply, bounds>>
----------------------------------------------------------------------------
(* Power failures.                                                         *)

\* What a program of item i into sector s leaves when it is cut short: a head
\* with a bad checksum, of the right or of any length, or a head without data.
CutShort(i, how) ==
    CASE how = "header"   -> [i EXCEPT !.crcItem = FALSE]
      [] how = "overlong" -> [i EXCEPT !.crcItem = FALSE, !.span = Overlong]
      [] how = "data"     -> [i EXCEPT !.crcData = FALSE]
TornItem(s, i) ==
    {Program(flash, s, CutShort(i, how)) :
        how \in IF i.span > 1 THEN Tears ELSE Tears \ {"data"}}

\* A header cut short has a bad checksum; wm_nvs_sector_erase sets the state
\* to crash first.  Both load as a crashed sector.
TornSector(s) == {SetState(flash, s, "crash")}

TornFlash ==
    CASE pc = "put" /\ ram[Current].state = "uninit" -> TornSector(Current)
      [] pc = "put" /\ ram[Current].state # "uninit" /\ Fits(Current, Span[op.val]) ->
           TornItem(Current, NewItem(op.key, op.val, ram[Current].free))
      [] pc = "gc_init" /\ ram[gc.dst].state = "uninit" -> TornSector(gc.dst)
      [] pc = "gc_copy" /\ GcMore /\ GcItem.state = "using" ->
           TornItem(gc.dst, [GcItem EXCEPT !.at = gc.to])
      [] pc = "gc_copy" /\ ~GcMore -> TornSector(gc.src)
      [] pc = "fix_gc" /\ Deleting # {} /\ ram[Current].state = "using" ->
           TornSector(Current)
      [] OTHER -> {}

\* Copying starts at GC STEP2's end and ends before GC STEP4.
Point == CASE pc = "gc_copy" /\ gc.next = 1 -> "gc_marked"
           [] pc = "gc_copy" /\ ~GcMore -> "gc_erase"
           [] OTHER -> pc
InCall == pc = "ready" \/ op.key # None

PowerLoss ==
    /\ losses < MaxLosses
    /\ Point \in IF InCall THEN LossAt ELSE MountLossAt
    /\ flash' \in {flash} \cup TornFlash
    /\ ram' = NoRam
    /\ active' = <<>> /\ idle' = <<>> /\ sn' = 0
    /\ pc' = "off" /\ op' = NoOp /\ gc' = NoGc /\ reply' = NoReply
    /\ losses' = losses + 1
    /\ UNCHANGED sets
----------------------------------------------------------------------------
Mount == Load \/ LoadFirst \/ FixWrite \/ FixGcErase \/ FixGcTake \/ Settle
Write == PutInit \/ PutItem \/ PutFull \/ DropOld \/ TakeIdle \/ NoSpace
Gc == GcStart \/ GcInit \/ GcMark \/ GcCopy \/ GcErase

Next ==
    \/ Mount \/ Write \/ Gc
    \/ \E k \in Keys, v \in Values : Set(k, v)
    \/ \E k \in Keys, t \in Types : Get(k, t) \/ Del(k, t)
    \/ PowerLoss

\* A started call or mount runs on: it holds the mutex and waits for nobody.
Spec == Init /\ [][Next]_vars /\ WF_vars(Mount \/ Write \/ Gc)
----------------------------------------------------------------------------
(* Properties.                                                             *)

\* Every sector of a mounted partition is on one of the manager's two lists,
\* once: reclaiming and recovery lose no sector and link none twice.
ListsPartition ==
    pc # "off" =>
        /\ ToSet(active) \cup ToSet(idle) = Sectors
        /\ ToSet(active) \cap ToSet(idle) = {}
        /\ IsInjective(active) /\ IsInjective(idle)

\* No item runs past the end of its sector, into the header of the next one,
\* not when written and not when copied behind what a mount found there.
ItemsInSector ==
    \A s \in Sectors : \A j \in DOMAIN flash[s].items :
        LET i == flash[s].items[j] IN i.crcItem => i.at + i.span <= EntryCount

\* Between calls a sector is left for reclaiming, and no idle sector holds an
\* item in use: activating and erasing idle sectors destroys nothing.
ReserveKept ==
    /\ pc = "ready" => idle # <<>>
    /\ \A i \in DOMAIN idle : ram[idle[i]].state = "crash" \/ InUse(idle[i]) = {}

\* The active list is in the order a mount would rebuild from the serial
\* numbers in flash, although a rolled-back sector keeps an old one there.
OrderSurvives ==
    \A i, j \in DOMAIN active :
        i < j /\ Good(flash[active[i]]) /\ Good(flash[active[j]])
        => flash[active[i]].serial < flash[active[j]].serial

\* At most one sector is marked for reclaiming, in flash as in RAM: recovery
\* finishes one reclaiming only.
OneDeleting == Cardinality({s \in Sectors : flash[s].state = "deleting"}) <= 1

\* Between calls the manager's view of an active sector is what a mount would
\* compute from flash, so no counter drifts over a long run.
RamMatchesFlash ==
    pc = "ready" => \A i \in DOMAIN active :
        LET s == active[i]
        IN ram[s].state # "uninit" => [ram[s] EXCEPT !.serial = 0]
                                      = [LoadedInfo(flash[s]) EXCEPT !.serial = 0]

\* A sector gained by reclaiming has room for the item it was reclaimed for.
ReclaimYieldsRoom == reply.err # "SECTOR_FULL"

\* docs/en/component_guides/nvs.rst:52, "Under the same grouping, key value
\* names must be unique".
KeysUnique == pc = "ready" => \A k \in Keys : Cardinality(Hits(k, Types)) <= 1

\* nvs.rst:56, "if the same group and key values already exist, the original
\* values will be overwritten": a read after a set returns what was set.
ReadsWhatWasSet ==
    pc = "ready" /\ reply.op = "set" /\ reply.err = None =>
        \A x \in Found(reply.key, {TypeOf[reply.val]}) :
            x # None /\ ItemAt(x).val = reply.val

\* What the flash holds for a key: the value of its newest intact item.
Intact(k) ==
    {x \in Sectors \X (1..EntryCount) :
        /\ Good(flash[x[1]])
        /\ x[2] \in DOMAIN flash[x[1]].items
        /\ LET it == flash[x[1]].items[x[2]]
           IN it.state = "using" /\ it.crcItem /\ it.crcData /\ it.key = k}
Newer(x, y) ==
    \/ flash[x[1]].serial > flash[y[1]].serial
    \/ flash[x[1]].serial = flash[y[1]].serial /\ x[2] >= y[2]
Stored(k) ==
    IF Intact(k) = {} THEN None
    ELSE LET x == CHOOSE x \in Intact(k) : \A y \in Intact(k) : Newer(x, y)
         IN flash[x[1]].items[x[2]].val

\* nvs.rst:244, "To prevent data loss due to power failure during the
\* reclaiming process, a dedicated sector is required": no step of a
\* reclaiming or of a mount, and no power failure in one, changes a value.
Upkeep == pc \in {"gc_init", "gc_mark", "gc_copy", "off", "fix_write", "fix_gc",
                  "fix_take", "settle"}
ReclaimKeepsValues ==
    [][Upkeep => \A k \in Keys : Stored(k)' = Stored(k)]_vars

\* The engine implements the key-value map, power failures included.
Store == INSTANCE NvsStore WITH
    store <- [k \in Keys |-> Stored(k)],
    call <- IF op.key = None THEN None
            ELSE [key |-> op.key, val |-> op.val, done |-> pc = "drop"]
ImplementsStore == Store!Spec

\* Every call and every mount ends: the engine always serves again.
ServesAgain == []<>(pc = "ready")
=============================================================================
