------------------------------ MODULE NvsBlob ------------------------------
(***************************************************************************)
(* Blobs of the NVS library (wm_nvs_storage.c): a blob is stored as        *)
(* segments and a descriptor that counts them.  A new blob is written next *)
(* to the old one, with the segment numbers of the other version; then the *)
(* old descriptor and the old segments are dropped.  After a power failure *)
(* the mount removes what belongs to no descriptor.                        *)
(*                                                                         *)
(* Nvs models the items below: writing or dropping one is a step that      *)
(* happens entirely or not at all.  Here flash is the list of the items in *)
(* use, in the order in which wm_nvs_sm_find_item meets them; no sector is *)
(* reclaimed.  How a blob is split depends on the room left in the         *)
(* sectors, and so does whether a sector is found for the next segment or  *)
(* the descriptor: any split can happen, and the writer can stop after any *)
(* segment.  Calls hold the library's mutex.                               *)
(***************************************************************************)
EXTENDS Integers, Sequences, SequencesExt

CONSTANTS
    Keys, Values,   \* keys of one group, blobs
    Size,           \* blob -> its size
    Longer,         \* the pairs <<k, l>> where the name of l begins with that of k
    SegMax,         \* WM_NVS_SEG_NUM_MAX
    None,
    MaxSets, MaxLosses  \* bounds: blobs set, power failures

ASSUME BlobAssumption ==
    /\ SegMax \in Nat \ {0} /\ Size \in [Values -> 1 .. SegMax]
    /\ Longer \subseteq Keys \X Keys
    /\ None \notin Keys \cup Values
    /\ MaxSets \in Nat /\ MaxLosses \in Nat

VARIABLES
    flash,          \* the items in use
    pc,
    op,             \* the set in progress: key, value, seg_start, next segment,
                    \*   bytes written
    old,            \* the descriptor being replaced or deleted, or NoItem
    seg,            \* the segment of old to drop next
    info,           \* the descriptors the mount has recorded
    reply,          \* what the last call returned
    sets, losses,
    littered,       \* history: the key and the first segment number of sets that
                    \*   stopped with segments in flash, until the mount
    mixed           \* history: keys whose descriptor was written over such segments

history == <<littered, mixed>>
vars == <<flash, pc, op, old, seg, info, reply, sets, losses, history>>

Ver0 == 0                   \* WM_NVS_SEG_START_VER_0
Ver1 == SegMax + 1          \* WM_NVS_SEG_START_VER_1

Segment(k, id, v, from, len) ==
    [kind |-> "seg", key |-> k, id |-> id, val |-> v, from |-> from, len |-> len]
Descriptor(k, start, count, size) ==
    [kind |-> "desc", key |-> k, id |-> start, val |-> None, from |-> count,
     len |-> size]
NoItem == Descriptor(None, 0, 0, 0)
IsDesc(i) == i.kind = "desc"
IsSeg(i) == i.kind = "seg"
Count(d) == d.from          \* seg_count
Start(d) == d.id            \* seg_start

NoOp == [key |-> None, val |-> None, start |-> 0, next |-> 0, done |-> 0]
Reply(o, k, v, e) == [op |-> o, key |-> k, val |-> v, err |-> e]
NoReply == Reply(None, None, None, None)

Init ==
    /\ flash = <<>> /\ pc = "ready" /\ op = NoOp /\ old = NoItem /\ seg = 0
    /\ info = {} /\ reply = NoReply /\ sets = 0 /\ losses = 0
    /\ littered = {} /\ mixed = {}

-----------------------------------------------------------------------------
(* wm_nvs_sm_find_item, wm_nvs_sector_erase_item *)

Erase(i) == IF i = 0 THEN flash ELSE RemoveAt(flash, i)

DescOf(k) == SelectInSeq(flash, LAMBDA i : IsDesc(i) /\ i.key = k)
SegOf(k, id) == SelectInSeq(flash, LAMBDA i : IsSeg(i) /\ i.key = k /\ i.id = id)

(* storage_read_blob collects the first segments with the numbers of the   *)
(* descriptor.  What it reads is a blob when they are, in order, all of    *)
(* it; it returns something else when only the sizes add up; otherwise it  *)
(* fails, for which None stands.                                           *)
Read(d) ==
    LET ns == 1 .. Count(d)
        at == [n \in ns |-> SegOf(d.key, Start(d) + n - 1)]
        part == [n \in ns |-> flash[at[n]]]
    IN IF \/ \E n \in ns : at[n] = 0
          \/ MapThenSumSet(LAMBDA n : part[n].len, ns) # d.len THEN None
       ELSE IF /\ Size[part[1].val] = d.len /\ part[1].from = 1
               /\ \A n \in ns \ {1} :
                    /\ part[n].val = part[1].val
                    /\ part[n].from = part[n - 1].from + part[n - 1].len
              THEN part[1].val ELSE "mixture"

-----------------------------------------------------------------------------
(* wm_nvs_storage_write_item, WM_NVS_TYPE_BLOB *)

Ready == pc = "ready"

(* storage_cmp_blob *)
Unchanged(k, v) == DescOf(k) # 0 /\ Read(flash[DescOf(k)]) = v

SetSame(k, v) ==
    /\ Ready /\ Unchanged(k, v)
    /\ reply' = Reply("set", k, v, None)
    /\ UNCHANGED <<flash, pc, op, old, seg, info, sets, losses, history>>

(* mutant: the new blob takes the segment numbers of the old one *)
NextStartSame(d) == Ver0
(* the version of the segments next to descriptor d *)
NextStart(d) == IF d # NoItem /\ Start(d) = Ver0 THEN Ver1 ELSE Ver0

Found(k) == IF DescOf(k) = 0 THEN NoItem ELSE flash[DescOf(k)]

SetCall(k, v) ==
    /\ Ready /\ sets < MaxSets /\ ~Unchanged(k, v)
    /\ sets' = sets + 1
    /\ old' = Found(k)
    /\ op' = [key |-> k, val |-> v, start |-> NextStart(Found(k)), next |-> 0,
              done |-> 0]
    /\ pc' = "check"
    /\ UNCHANGED <<flash, seg, info, reply, losses, history>>

(* wm_nvs_sm_check_write_blob_size *)
SetNoSpace ==
    /\ pc = "check" /\ pc' = "ready"
    /\ reply' = Reply("set", op.key, op.val, "NO_SPACE")
    /\ op' = NoOp /\ old' = NoItem
    /\ UNCHANGED <<flash, seg, info, sets, losses, history>>

(* storage_write_blob: one segment, as long as the sector has room *)
WriteSegment ==
    /\ pc \in {"check", "segment"} /\ op.done < Size[op.val]
    /\ \E len \in 1 .. Size[op.val] - op.done :
          /\ flash' = Append(flash, Segment(op.key, op.start + op.next, op.val,
                                            op.done + 1, len))
          /\ op' = [op EXCEPT !.next = @ + 1, !.done = @ + len]
    /\ pc' = "segment"
    /\ UNCHANGED <<old, seg, info, reply, sets, losses, history>>

(* storage_write_blob_desc *)
WriteDescriptor ==
    /\ pc = "segment" /\ op.done = Size[op.val]
    /\ flash' = Append(flash, Descriptor(op.key, op.start, op.next, Size[op.val]))
    /\ pc' = "written"
    /\ mixed' = IF <<op.key, op.start>> \in littered
                THEN mixed \cup {op.key} ELSE mixed \ {op.key}
    /\ UNCHANGED <<op, old, seg, info, reply, sets, losses, littered>>

Returned(err) ==
    /\ pc' = "ready" /\ reply' = Reply("set", op.key, op.val, err)
    /\ op' = NoOp /\ old' = NoItem /\ seg' = 0

(* storage_write_blob finds no further sector for the next segment or for  *)
(* the descriptor: what it wrote stays, and the old blob is not touched.   *)
WriteStops ==
    /\ pc = "segment" /\ Returned("NO_SPACE")
    /\ littered' = littered \cup {<<op.key, op.start>>}
    /\ UNCHANGED <<flash, info, sets, losses, mixed>>

SetNew ==
    /\ pc = "written" /\ old = NoItem /\ Returned(None)
    /\ UNCHANGED <<flash, info, sets, losses, history>>

(* storage_erase_blob: the descriptor first *)
EraseOldDescriptor ==
    /\ pc = "written" /\ old # NoItem
    /\ flash' = Erase(DescOf(op.key)) /\ seg' = 0 /\ pc' = "erase"
    /\ UNCHANGED <<op, old, info, reply, sets, losses, history>>

(* a segment that is not found ends the loop *)
MoreToErase == seg < Count(old) /\ SegOf(old.key, Start(old) + seg) # 0

EraseOldSegment ==
    /\ pc = "erase" /\ MoreToErase
    /\ flash' = Erase(SegOf(old.key, Start(old) + seg)) /\ seg' = seg + 1
    /\ UNCHANGED <<pc, op, old, info, reply, sets, losses, history>>

EraseEnds ==
    /\ pc = "erase" /\ ~MoreToErase
    /\ LET err == IF seg = Count(old) THEN None ELSE "NOT_FOUND"
       IN IF op.key # None THEN Returned(err)
          ELSE /\ pc' = "ready" /\ old' = NoItem /\ seg' = 0
               /\ reply' = Reply("del", old.key, None, err)
               /\ UNCHANGED op
    /\ UNCHANGED <<flash, info, sets, losses, history>>

-----------------------------------------------------------------------------
(* wm_nvs_storage_read_item: a blob that cannot be read is dropped *)
Get(k) ==
    /\ Ready
    /\ IF DescOf(k) # 0 /\ Read(Found(k)) # None
         THEN /\ reply' = Reply("get", k, Read(Found(k)), None)
              /\ UNCHANGED flash
         ELSE /\ reply' = Reply("get", k, None, "NOT_FOUND")
              /\ flash' = Erase(DescOf(k))
    /\ UNCHANGED <<pc, op, old, seg, info, sets, losses, history>>

(* wm_nvs_storage_del_item; the reply is recorded with the descriptor's end *)
DelNothing(k) ==
    /\ Ready /\ DescOf(k) = 0
    /\ reply' = Reply("del", k, None, "NOT_FOUND")
    /\ UNCHANGED <<flash, pc, op, old, seg, info, sets, losses, history>>

Del(k) ==
    /\ Ready /\ DescOf(k) # 0
    /\ old' = Found(k) /\ flash' = Erase(DescOf(k)) /\ seg' = 0
    /\ pc' = "erase" /\ reply' = Reply("del", k, None, None)
    /\ UNCHANGED <<op, info, sets, losses, history>>

-----------------------------------------------------------------------------
(* A power failure, and the mount after it *)

PowerLoss ==
    /\ losses < MaxLosses /\ losses' = losses + 1
    /\ pc' = "off" /\ op' = NoOp /\ old' = NoItem /\ seg' = 0 /\ info' = {}
    /\ reply' = NoReply
    /\ UNCHANGED <<flash, sets, history>>

(* sm_check_imcomplete_write: an older item with the type, name and segment *)
(* number of the last one                                                   *)
DoubleOf(l) ==
    SelectInSeq(flash, LAMBDA i : i.kind = l.kind /\ i.key = l.key
                                  /\ (IsSeg(l) => i.id = l.id))

(* mutant: the double found is not compared with the last item *)
OlderDoubleOrSelf == IF flash = <<>> THEN 0 ELSE DoubleOf(Last(flash))
OlderDouble ==
    IF flash = <<>> \/ DoubleOf(Last(flash)) = Len(flash) THEN 0
    ELSE DoubleOf(Last(flash))

MountFixWrite ==
    /\ pc = "off" /\ pc' = "match"
    /\ flash' = Erase(OlderDouble)
    /\ UNCHANGED <<op, old, seg, info, reply, sets, losses, history>>

(* item.seg_id lies in the range of the descriptor's version *)
InVersion(s, d) == /\ s.id >= Start(d)
                   /\ Start(d) = Ver0 => s.id < Ver1
SegsOf(d) == SelectSeq(flash, LAMBDA s : IsSeg(s) /\ s.key = d.key /\ InVersion(s, d))
Matches(d) ==
    /\ Len(SegsOf(d)) = Count(d)
    /\ FoldSeq(LAMBDA s, n : n + s.len, 0, SegsOf(d)) = d.len

Descriptors == {d \in ToSet(flash) : IsDesc(d)}

(* storage_blob_init_info and storage_blob_check_match: a descriptor whose *)
(* segments do not add up is no longer recorded.  It is looked for by its  *)
(* name, from the slice at which the walk over the segments ended, and     *)
(* dropped if it is met there.                                             *)
Mismatched == {d \in Descriptors : ~Matches(d)}

MountMatch ==
    /\ pc = "match" /\ pc' = "drop"
    /\ info' = Descriptors \ Mismatched
    /\ \E met \in SUBSET {d \in Descriptors : \E m \in Mismatched : m.key = d.key} :
          flash' = SelectSeq(flash, LAMBDA i : i \notin met)
    /\ mixed' = {k \in mixed : \E m \in Mismatched : m.key = k}
    /\ littered' = mixed' \X {Ver0, Ver1}
    /\ UNCHANGED <<op, old, seg, reply, sets, losses>>

(* storage_blob_check_drop compares as many characters as the name of the  *)
(* descriptor has, and wm_nvs_sector_find_item those of the key            *)
NameBegins(s, d) == s.key = d.key \/ <<d.key, s.key>> \in Longer

(* mutant: the version of the segment is not looked at *)
OwnedByName(s) == \E d \in info : NameBegins(s, d)
Owned(s) == \E d \in info : NameBegins(s, d) /\ InVersion(s, d)

Orphan == SelectInSeq(flash, LAMBDA i : IsSeg(i) /\ ~Owned(i))

MountDrop ==
    /\ pc = "drop" /\ Orphan # 0
    /\ flash' = Erase(Orphan)
    /\ UNCHANGED <<pc, op, old, seg, info, reply, sets, losses, history>>

MountEnds ==
    /\ pc = "drop" /\ Orphan = 0
    /\ pc' = "ready" /\ info' = {}
    /\ UNCHANGED <<flash, op, old, seg, reply, sets, losses, history>>

Work ==
    \/ WriteSegment \/ WriteDescriptor \/ WriteStops \/ SetNew
    \/ EraseOldDescriptor \/ EraseOldSegment \/ EraseEnds
    \/ MountFixWrite \/ MountMatch \/ MountDrop \/ MountEnds

Next ==
    \/ \E k \in Keys, v \in Values : SetSame(k, v) \/ SetCall(k, v)
    \/ SetNoSpace
    \/ \E k \in Keys : Get(k) \/ DelNothing(k) \/ Del(k)
    \/ Work
    \/ PowerLoss

Spec == Init /\ [][Next]_vars

-----------------------------------------------------------------------------
(* Properties *)

(* A blob that has a descriptor can be read whole, whenever a call can be  *)
(* made: no interrupted set or delete, no mount and no set that ran out of *)
(* space leaves segments of two blobs under one descriptor.  The exception *)
(* is what the code does to itself: a set that takes the numbers of the    *)
(* segments that an earlier set left behind.                               *)
BlobsReadable ==
    Ready => \A i \in 1 .. Len(flash) :
        IsDesc(flash[i]) /\ flash[i].key \notin mixed => Read(flash[i]) \in Values

(* After every call and every mount the segments in use are those of the   *)
(* descriptors, one descriptor for a key: nothing of an old or half        *)
(* written blob goes on taking up space, except, until the next mount, the *)
(* segments of a set that ran out of space; and the mount removes those.   *)
NoOrphans ==
    Ready =>
        /\ \A i \in 1 .. Len(flash) : IsSeg(flash[i]) =>
             \/ \E j \in 1 .. Len(flash) :
                  /\ IsDesc(flash[j]) /\ flash[j].key = flash[i].key
                  /\ flash[i].id - Start(flash[j]) \in 0 .. Count(flash[j]) - 1
             \/ \E p \in littered :
                  p[1] = flash[i].key /\ flash[i].id - p[2] \in 0 .. SegMax
        /\ \A i, j \in 1 .. Len(flash) :
             IsDesc(flash[i]) /\ IsDesc(flash[j]) /\ flash[i].key = flash[j].key
                => i = j \/ flash[i].key \in mixed

(* What the flash holds for a key: the blob of its newest descriptor. *)
Stored(k) ==
    LET ds == SelectSeq(flash, LAMBDA i : IsDesc(i) /\ i.key = k)
    IN IF ds = <<>> THEN None ELSE Read(Last(ds))

(* The map of one key; the replies to other keys are not its replies. *)
StoreOf(k) == INSTANCE NvsStore WITH
    Keys <- {k},
    TypeOf <- [v \in Values \cup {"mixture"} |-> "BLOB"],
    store <- [x \in {k} |-> Stored(k)],
    call <- IF op.key # k THEN None
            ELSE [key |-> k, val |-> op.val, done |-> pc \in {"written", "erase"}],
    reply <- IF reply.key = k THEN reply ELSE Reply(None, None, None, None)

(* Blobs of any number of segments are values of the key-value map: a set  *)
(* or a delete takes effect at one step, a set that reports an error has   *)
(* no effect, whatever the power does and whatever happens to other keys,  *)
(* for every key whose descriptor was not written over the segments of a   *)
(* set that ran out of space.                                              *)
ImplementsStore ==
    /\ \A k \in Keys : StoreOf(k)!Init
    /\ [][\A k \in Keys : k \notin mixed \cup mixed'
                             => [StoreOf(k)!Next]_(StoreOf(k)!vars)]_vars
=============================================================================
