----------------------------- MODULE OtaProofs ------------------------------
(***************************************************************************)
(* Proofs about the firmware update, for any sizes of image, partition and *)
(* block, any number of retries and any number of sessions.                *)
(***************************************************************************)
EXTENDS Ota, TLAPS

\* Before the task exists its context is allocated and fresh, and no earlier
\* task is left that could touch it.
Ready ==
    /\ ca \in {"init", "create"} =>
          tk = "none" /\ ctx /\ url /\ status = "START"
    /\ tk = "start" \/ ca \in {"init", "create"} =>
          wroteOffset = 0 /\ wroteAddr = 0

\* What a caller of higher priority leaves the task: not started until the
\* flag is set, and the flag set from then on.
Flagged ==
    higher => /\ ca = "flag" => tk = "start"
              /\ ca # "flag" /\ tk # "none" => running
              /\ ca # "flag" /\ ~killed /\ running => tk # "none"

\* Where the cells come from: the header in flash was accepted, and no cell
\* that was read lies past the end of the file.
Active == Downloading \/ tk = "start" \/ ca \in {"init", "create"}
Contents ==
    /\ Downloading /\ wroteAddr > 0 =>
          /\ file # "bad_header"
          /\ \A i \in 0 .. HeaderCells - 1 : flash[i] = i
    /\ Active => \A i \in 0 .. PartCells - 1 : crc[i] < FileLen
    /\ tk = "write" => \A i \in 0 .. BlockCells - 1 : buf[i] < FileLen

Inv == /\ TypeOK /\ Ready /\ Flagged /\ Contents
       /\ CursorsAgree /\ AcceptedIsServed /\ SessionUsable /\ ContextLives

LEMMA FileLength ==
    ASSUME file \in Files
    PROVE  /\ FileLen \in Nat /\ FileLen >= Total - 1
           /\ file = "truncated" => FileLen = Total - 1
BY OtaAssumption DEF FileLen, Files, Total

LEMMA BlankType ==
    /\ Blank(PartCells) \in [0 .. PartCells - 1 -> Cells]
    /\ Blank(BlockCells) \in [0 .. BlockCells - 1 -> Cells]
    /\ \A i \in 0 .. PartCells - 1 : Blank(PartCells)[i] = Erased
    /\ \A i \in 0 .. BlockCells - 1 : Blank(BlockCells)[i] = Erased
BY OtaAssumption DEF Blank, Cells, Erased

LEMMA InitInv == Init => Inv
<1> SUFFICES ASSUME Init PROVE Inv
  OBVIOUS
<1>1. FlagTypes
  BY Zenon DEF Init, FlagTypes
<1>2. ControlTypes
  BY DEF Init, ControlTypes, Files, Servers, Statuses
<1>3. DataTypes
  BY OtaAssumption, BlankType DEF Init, DataTypes
<1>4. Ready /\ Flagged /\ Contents
  BY DEF Init, Ready, Flagged, Contents, Active, Downloading
<1>5. CursorsAgree /\ AcceptedIsServed /\ SessionUsable /\ ContextLives
  BY DEF Init, CursorsAgree, AcceptedIsServed, SessionUsable, ContextLives,
     Downloading
<1> QED BY <1>1, <1>2, <1>3, <1>4, <1>5 DEF Inv, TypeOK

\* An update begins only when no task of an earlier one is left.
LEMMA BeginsAlone == Inv /\ UpdateBegin => tk = "none"
BY DEF Inv, TypeOK, ControlTypes, UpdateBegin, AlreadyRunning, CallerMayRun,
   ContextLives, Flagged

\* Taking the chunk into the CRC and writing it to the flash go together.
LEMMA ChunkTaken ==
    ASSUME Inv, WriteAllowed
    PROVE  /\ CrcAfter.len \in 0 .. PartCells
           /\ CrcAfter.data \in [0 .. PartCells - 1 -> Cells]
           /\ wroteAddr + got = HeaderCells + CrcAfter.len
           /\ \A n \in 0 .. got : FlashWith(n) \in [0 .. PartCells - 1 -> Cells]
           /\ \A i \in 0 .. CrcAfter.len - 1 :
                 CrcAfter.data[i] = FlashWith(got)[HeaderCells + i]
           /\ \A i \in 0 .. PartCells - 1 : CrcAfter.data[i] < FileLen
           /\ file # "bad_header"
           /\ \A i \in 0 .. HeaderCells - 1 : FlashWith(got)[i] = i
<1> USE OtaAssumption
<1>1. DataTypes /\ wroteAddr = wroteOffset /\ file \in Files /\ got <= PartCells - wroteAddr
  BY DEF Inv, TypeOK, ControlTypes, CursorsAgree, WriteAllowed, Downloading,
     FitsPartition
<1>2. \A n \in 0 .. got : FlashWith(n) \in [0 .. PartCells - 1 -> Cells]
  BY <1>1 DEF FlashWith, DataTypes
<1>3. FileLen \in Nat
  BY <1>1, FileLength
<1>4. /\ \A i \in 0 .. PartCells - 1 : crc[i] < FileLen
      /\ \A i \in 0 .. BlockCells - 1 : buf[i] < FileLen
  BY DEF Inv, Contents, Active, Downloading, WriteAllowed
<1>5. CASE wroteAddr = 0
  <2>1. got >= HeaderCells /\ file # "bad_header" /\ \A i \in 0 .. HeaderCells - 1 : buf[i] = i
    BY <1>5 DEF WriteAllowed, HeaderOk
  <2> DEFINE n == got - HeaderCells
  <2>2. CrcAfter = [len |-> n, data |-> [i \in 0 .. PartCells - 1 |->
                      IF i < n THEN buf[i + HeaderCells] ELSE Erased]]
    BY <1>5, <1>1, <2>1 DEF CrcAfter, DataTypes
  <2>3. FlashWith(got) = [i \in 0 .. PartCells - 1 |-> IF i < got THEN buf[i] ELSE flash[i]]
    BY <1>5, <1>1 DEF FlashWith, DataTypes
  <2>4. CrcAfter.data \in [0 .. PartCells - 1 -> Cells]
    BY <1>1, <2>1, <2>2 DEF DataTypes, Erased, Cells
  <2>5. \A i \in 0 .. CrcAfter.len - 1 : CrcAfter.data[i] = FlashWith(got)[HeaderCells + i]
    BY <1>1, <2>1, <2>2, <2>3 DEF DataTypes
  <2>6. \A i \in 0 .. PartCells - 1 : CrcAfter.data[i] < FileLen
    BY <1>1, <1>3, <1>4, <2>1, <2>2 DEF DataTypes, Erased, Cells
  <2>7. \A i \in 0 .. HeaderCells - 1 : FlashWith(got)[i] = i
    BY <1>1, <1>5, <2>1, <2>3 DEF DataTypes
  <2>8. CrcAfter.len \in 0 .. PartCells /\ wroteAddr + got = HeaderCells + CrcAfter.len
    BY <1>1, <1>5, <2>1, <2>2 DEF DataTypes
  <2> QED BY <1>2, <2>1, <2>4, <2>5, <2>6, <2>7, <2>8
<1>6. CASE wroteAddr # 0
  <2>1. /\ wroteAddr = HeaderCells + crcLen /\ file # "bad_header"
        /\ \A i \in 0 .. HeaderCells - 1 : flash[i] = i
        /\ \A i \in 0 .. crcLen - 1 : crc[i] = flash[HeaderCells + i]
    BY <1>6, <1>1 DEF Inv, CursorsAgree, Contents, Downloading,
       WriteAllowed, DataTypes
  <2> DEFINE n == crcLen + got
  <2>2. CrcAfter = [len |-> n, data |-> [i \in 0 .. PartCells - 1 |->
                      IF i < crcLen THEN crc[i]
                      ELSE IF i < n THEN buf[i - crcLen] ELSE Erased]]
    BY <1>6, <1>1, <2>1 DEF CrcAfter, DataTypes
  <2>3. FlashWith(got) = [i \in 0 .. PartCells - 1 |->
                            IF i >= wroteAddr /\ i < wroteAddr + got
                            THEN buf[i - wroteAddr] ELSE flash[i]]
    BY DEF FlashWith
  <2>4. CrcAfter.data \in [0 .. PartCells - 1 -> Cells]
    BY <1>1, <2>1, <2>2 DEF DataTypes, Erased, Cells
  <2>5. \A i \in 0 .. CrcAfter.len - 1 : CrcAfter.data[i] = FlashWith(got)[HeaderCells + i]
    BY <1>1, <2>1, <2>2, <2>3 DEF DataTypes
  <2>6. \A i \in 0 .. PartCells - 1 : CrcAfter.data[i] < FileLen
    BY <1>1, <1>3, <1>4, <2>1, <2>2 DEF DataTypes, Erased, Cells
  <2>7. \A i \in 0 .. HeaderCells - 1 : FlashWith(got)[i] = i
    BY <1>1, <2>1, <2>3 DEF DataTypes
  <2>8. CrcAfter.len \in 0 .. PartCells /\ wroteAddr + got = HeaderCells + CrcAfter.len
    BY <1>1, <2>1, <2>2 DEF DataTypes
  <2> QED BY <1>2, <2>1, <2>4, <2>5, <2>6, <2>7, <2>8
<1> QED BY <1>5, <1>6

LEMMA InvStep == Inv /\ [Next]_vars => Inv'
<1> SUFFICES ASSUME Inv, [Next]_vars PROVE Inv'
  OBVIOUS
<1> USE OtaAssumption DEF http, octx, ops, locals, task, caller, net, ghost
<1>a. FileLen \in Nat /\ FileLen >= Total - 1
  BY FileLength DEF Inv, TypeOK, ControlTypes
<1>b. file' = file => FileLen' = FileLen
  BY DEF FileLen
<1>1. CASE NetEvent
  <2>1. FlagTypes'
    BY <1>1, Zenon DEF Inv, NetEvent, TypeOK, FlagTypes
  <2>2. ControlTypes' /\ DataTypes'
    BY <1>1 DEF Inv, NetEvent, TypeOK, ControlTypes, DataTypes, Statuses
  <2>3. Ready' /\ Flagged' /\ SessionUsable' /\ ContextLives'
    BY <1>1 DEF Inv, TypeOK, ControlTypes, NetEvent, TaskMayRun, Ready,
       Flagged, SessionUsable, ContextLives
  <2>4. Contents' /\ CursorsAgree' /\ AcceptedIsServed'
    BY <1>1, <1>b DEF Inv, NetEvent, Ready, Contents, CursorsAgree,
       AcceptedIsServed, Active, Downloading
  <2> QED BY <2>1, <2>2, <2>3, <2>4 DEF Inv, TypeOK
<1>2. CASE UpdateBegin
  <2>1. FlagTypes'
    BY <1>2, Zenon DEF Inv, UpdateBegin, AlreadyRunning, CallerMayRun,
       TypeOK, FlagTypes
  <2>2. ControlTypes'
    BY <1>2 DEF Inv, UpdateBegin, AlreadyRunning, CallerMayRun, TypeOK,
       ControlTypes, Statuses
  <2>3. DataTypes'
    BY <1>2, BlankType, BeginsAlone DEF Inv, UpdateBegin, AlreadyRunning,
       CallerMayRun, TypeOK, DataTypes
  <2>4. Ready' /\ Flagged' /\ SessionUsable' /\ ContextLives'
    BY <1>2, BeginsAlone DEF Inv, UpdateBegin, AlreadyRunning, CallerMayRun,
       TypeOK, ControlTypes, Ready, Flagged, SessionUsable, ContextLives,
       TaskMayRun
  <2>5. Contents'
    <3>1. FileLen' \in Nat
      BY <1>2 DEF UpdateBegin, FileLen, Files, Total
    <3>2. tk' = "none" /\ crc' = Blank(PartCells)
      BY <1>2, BeginsAlone DEF UpdateBegin, task
    <3> QED BY <3>1, <3>2, BlankType DEF Contents, Downloading, Erased
  <2>6. CursorsAgree'
    BY <1>2, BeginsAlone DEF Inv, TypeOK, ControlTypes, UpdateBegin,
       AlreadyRunning, CallerMayRun, Ready, CursorsAgree, Downloading
  <2>7. AcceptedIsServed'
    BY <1>2, BeginsAlone DEF Inv, TypeOK, ControlTypes, UpdateBegin,
       AlreadyRunning, CallerMayRun, Ready, AcceptedIsServed
  <2> QED BY <2>1, <2>2, <2>3, <2>4, <2>5, <2>6, <2>7 DEF Inv, TypeOK
<1>3. CASE UpdateInit
  <2>1. FlagTypes'
    BY <1>3, Zenon DEF Inv, UpdateInit, CallerMayRun, TypeOK, FlagTypes
  <2>2. ControlTypes'
    BY <1>3 DEF Inv, UpdateInit, CallerMayRun, TypeOK, ControlTypes, Statuses
  <2>3. DataTypes'
    BY <1>3, BlankType DEF Inv, UpdateInit, CallerMayRun, TypeOK, DataTypes
  <2>4. Ready' /\ Flagged' /\ SessionUsable' /\ ContextLives'
    <3>1. tk = "none" /\ ctx /\ url /\ status = "START" /\ wroteOffset = 0 /\ wroteAddr = 0
      BY <1>3 DEF Inv, UpdateInit, Ready
    <3>2. UNCHANGED <<tk, status, wroteOffset, wroteAddr>>
      BY <1>3 DEF UpdateInit, octx, ops, task
    <3>3. \/ ca' = "create" /\ ctx' = ctx /\ url' = url
          \/ ca' = "idle"
      BY <1>3 DEF UpdateInit
    <3>4. Ready'
      BY <3>1, <3>3, <3>2, Zenon DEF Ready
    <3>5. Flagged'
      BY <1>3 DEF Inv, UpdateInit, Ready, Flagged, CallerMayRun
    <3>6. SessionUsable'
      BY <1>3 DEF Inv, UpdateInit, Ready, SessionUsable
    <3>7. ContextLives'
      BY <1>3 DEF Inv, UpdateInit, Ready, ContextLives
    <3> QED BY <3>4, <3>5, <3>6, <3>7
  <2>5. Contents'
    BY <1>3, <1>a, <1>b, BlankType DEF Inv, TypeOK, ControlTypes,
       UpdateInit, CallerMayRun, Ready, Contents, Active, Downloading
  <2>6. CursorsAgree'
    BY <1>3 DEF Inv, TypeOK, ControlTypes, UpdateInit, CallerMayRun, Ready,
       CursorsAgree, Downloading
  <2>7. AcceptedIsServed'
    BY <1>3 DEF Inv, TypeOK, ControlTypes, UpdateInit, CallerMayRun, Ready,
       AcceptedIsServed
  <2> QED BY <2>1, <2>2, <2>3, <2>4, <2>5, <2>6, <2>7 DEF Inv, TypeOK
<1>4. CASE CreateTask
  <2>1. FlagTypes'
    BY <1>4, Zenon DEF Inv, CreateTask, CallerMayRun, TypeOK, FlagTypes
  <2>2. ControlTypes'
    BY <1>4 DEF Inv, CreateTask, CallerMayRun, TypeOK, ControlTypes, Statuses
  <2>3. DataTypes'
    BY <1>4, BlankType DEF Inv, CreateTask, CallerMayRun, TypeOK, DataTypes
  <2>4. Ready' /\ Flagged' /\ SessionUsable' /\ ContextLives'
    <3>1. Ready'
      BY <1>4 DEF Inv, CreateTask, Ready
    <3>2. Flagged'
      BY <1>4 DEF Inv, CreateTask, Ready, Flagged, CallerMayRun
    <3>3. SessionUsable'
      BY <1>4 DEF Inv, CreateTask, Ready, SessionUsable
    <3>4. tk = "none" /\ ctx /\ url
      BY <1>4 DEF Inv, CreateTask, Ready
    <3>5. \/ tk' = "start" /\ ctx' = ctx /\ url' = url
          \/ tk' = tk
      BY <1>4 DEF CreateTask
    <3>6. ContextLives'
      BY <3>4, <3>5, Zenon DEF ContextLives
    <3> QED BY <3>1, <3>2, <3>3, <3>6
  <2>5. Contents'
    BY <1>4, <1>a, <1>b, BlankType DEF Inv, TypeOK, ControlTypes,
       CreateTask, CallerMayRun, Ready, Contents, Active, Downloading
  <2>6. CursorsAgree'
    BY <1>4 DEF Inv, TypeOK, ControlTypes, CreateTask, CallerMayRun, Ready,
       CursorsAgree, Downloading
  <2>7. AcceptedIsServed'
    BY <1>4 DEF Inv, TypeOK, ControlTypes, CreateTask, CallerMayRun, Ready,
       AcceptedIsServed
  <2> QED BY <2>1, <2>2, <2>3, <2>4, <2>5, <2>6, <2>7 DEF Inv, TypeOK
<1>5. CASE SetRunning
  <2>1. FlagTypes'
    BY <1>5, Zenon DEF Inv, SetRunning, TypeOK, FlagTypes
  <2>2. ControlTypes' /\ DataTypes'
    BY <1>5 DEF Inv, SetRunning, TypeOK, ControlTypes, DataTypes, Statuses
  <2>3. Ready' /\ Flagged' /\ SessionUsable' /\ ContextLives'
    BY <1>5 DEF Inv, TypeOK, ControlTypes, SetRunning, TaskMayRun, Ready,
       Flagged, SessionUsable, ContextLives
  <2>4. Contents' /\ CursorsAgree' /\ AcceptedIsServed'
    BY <1>5, <1>b DEF Inv, SetRunning, Ready, Contents, CursorsAgree,
       AcceptedIsServed, Active, Downloading
  <2> QED BY <2>1, <2>2, <2>3, <2>4 DEF Inv, TypeOK
<1>6. CASE OtaStart
  <2>1. FlagTypes'
    BY <1>6, Zenon DEF Inv, OtaStart, EnterOtaStart, TypeOK, FlagTypes
  <2>2. ControlTypes' /\ DataTypes'
    BY <1>6 DEF Inv, OtaStart, EnterOtaStart, TypeOK, ControlTypes,
       DataTypes, Statuses
  <2>3. Ready' /\ Flagged' /\ SessionUsable' /\ ContextLives'
    BY <1>6 DEF Inv, TypeOK, ControlTypes, OtaStart, EnterOtaStart,
       TaskMayRun, Ready, Flagged, SessionUsable, ContextLives
  <2>4. Contents' /\ CursorsAgree' /\ AcceptedIsServed'
    BY <1>6, <1>b DEF Inv, OtaStart, EnterOtaStart, Ready, Contents,
       CursorsAgree, AcceptedIsServed, Active, Downloading
  <2> QED BY <2>1, <2>2, <2>3, <2>4 DEF Inv, TypeOK
<1>7. CASE ConnectOk
  <2>1. FlagTypes'
    BY <1>7, Zenon DEF Inv, ConnectOk, HandleAfter, RangeStart, TypeOK,
       FlagTypes
  <2>2. ControlTypes'
    BY <1>7 DEF Inv, ConnectOk, HandleAfter, RangeStart, TypeOK,
       ControlTypes, Statuses
  <2>3. DataTypes'
    BY <1>7, BlankType DEF Inv, ConnectOk, HandleAfter, RangeStart, TypeOK,
       DataTypes
  <2>4. Ready' /\ Flagged' /\ SessionUsable' /\ ContextLives'
    BY <1>7 DEF Inv, ConnectOk, HandleAfter, RangeStart, TypeOK,
       ControlTypes, Ready, Flagged, SessionUsable, ContextLives, TaskMayRun
  <2>5. Contents'
    BY <1>7, <1>a, <1>b, BlankType DEF Inv, TypeOK, ControlTypes, ConnectOk,
       HandleAfter, RangeStart, Ready, Contents, Active, Downloading
  <2>6. CursorsAgree'
    BY <1>7 DEF Inv, TypeOK, ControlTypes, ConnectOk, HandleAfter,
       RangeStart, Ready, CursorsAgree, Downloading
  <2>7. AcceptedIsServed'
    BY <1>7 DEF Inv, TypeOK, ControlTypes, ConnectOk, HandleAfter,
       RangeStart, Ready, AcceptedIsServed
  <2> QED BY <2>1, <2>2, <2>3, <2>4, <2>5, <2>6, <2>7 DEF Inv, TypeOK
<1>8. CASE ConnectFails
  <2>1. FlagTypes'
    BY <1>8, Zenon DEF Inv, ConnectFails, TriesAfter, TypeOK, FlagTypes
  <2>2. ControlTypes' /\ DataTypes'
    BY <1>8 DEF Inv, ConnectFails, TriesAfter, TypeOK, ControlTypes,
       DataTypes, Statuses
  <2>3. Ready' /\ Flagged' /\ SessionUsable' /\ ContextLives'
    BY <1>8 DEF Inv, TypeOK, ControlTypes, ConnectFails, TriesAfter,
       TaskMayRun, Ready, Flagged, SessionUsable, ContextLives
  <2>4. Contents' /\ CursorsAgree' /\ AcceptedIsServed'
    BY <1>8, <1>b DEF Inv, ConnectFails, TriesAfter, Ready, Contents,
       CursorsAgree, AcceptedIsServed, Active, Downloading
  <2> QED BY <2>1, <2>2, <2>3, <2>4 DEF Inv, TypeOK
<1>9. CASE ReadData
  <2>1. FlagTypes'
    BY <1>9, Zenon DEF Inv, ReadData, TypeOK, FlagTypes
  <2>2. ControlTypes'
    BY <1>9 DEF Inv, ReadData, TypeOK, ControlTypes, Statuses
  <2>0. PICK n \in 1 .. next :
          /\ n <= Remaining /\ got' = n /\ pos' = pos + n
          /\ buf' = [i \in 0 .. BlockCells - 1 |->
                        IF i < n THEN CellAt(pos + i) ELSE Erased]
    BY <1>9 DEF ReadData
  <2>3. DataTypes'
    <3>1. buf' \in [0 .. BlockCells - 1 -> Cells]
      BY <2>0 DEF Inv, TypeOK, DataTypes, CellAt, Junk, Erased, Cells
    <3>2. got' \in 0 .. BlockCells /\ pos' \in Nat
      BY <2>0 DEF Inv, TypeOK, DataTypes
    <3>3. elapsed' \in 0 .. RetryUnits
      BY <1>9 DEF Inv, TypeOK, DataTypes, ReadData
    <3> QED BY <1>9, <3>1, <3>2, <3>3 DEF Inv, TypeOK, DataTypes, ReadData
  <2>4. Ready' /\ Flagged' /\ SessionUsable' /\ ContextLives'
    BY <1>9 DEF Inv, ReadData, TypeOK, ControlTypes, Ready, Flagged,
       SessionUsable, ContextLives, TaskMayRun
  <2>5. Contents'
    <3>1. \A i \in 0 .. BlockCells - 1 : buf'[i] < FileLen
      BY <2>0, <1>a DEF Inv, TypeOK, DataTypes, CellAt, Remaining, Junk, Erased
    <3>2. tk = "read" /\ tk' = "write" /\ UNCHANGED <<ca, crc, flash, file, wroteAddr>>
      BY <1>9 DEF ReadData
    <3> QED BY <3>1, <3>2, <1>b DEF Inv, Contents, Active, Downloading
  <2>6. CursorsAgree'
    BY <1>9 DEF Inv, TypeOK, ControlTypes, ReadData, Ready, CursorsAgree,
       Downloading
  <2>7. AcceptedIsServed'
    BY <1>9 DEF Inv, TypeOK, ControlTypes, ReadData, Ready, AcceptedIsServed
  <2> QED BY <2>1, <2>2, <2>3, <2>4, <2>5, <2>6, <2>7 DEF Inv, TypeOK
<1>10. CASE ReadNothing
  <2>1. FlagTypes'
    BY <1>10, Zenon DEF Inv, ReadNothing, TypeOK, FlagTypes
  <2>2. ControlTypes' /\ DataTypes'
    BY <1>10 DEF Inv, ReadNothing, TypeOK, ControlTypes, DataTypes, Statuses, Ends
  <2>3. Ready' /\ Flagged' /\ SessionUsable' /\ ContextLives'
    BY <1>10 DEF Inv, TypeOK, ControlTypes, ReadNothing, TaskMayRun, Ready,
       Flagged, SessionUsable, ContextLives
  <2>4. Contents' /\ CursorsAgree' /\ AcceptedIsServed'
    BY <1>10, <1>b DEF Inv, ReadNothing, Ready, Contents, CursorsAgree,
       AcceptedIsServed, Active, Downloading
  <2> QED BY <2>1, <2>2, <2>3, <2>4 DEF Inv, TypeOK
<1>11. CASE ReadFails
  <2>1. FlagTypes'
    BY <1>11, Zenon DEF Inv, ReadFails, TypeOK, FlagTypes
  <2>2. ControlTypes' /\ DataTypes'
    BY <1>11 DEF Inv, ReadFails, TypeOK, ControlTypes, DataTypes, Statuses
  <2>3. Ready' /\ Flagged' /\ SessionUsable' /\ ContextLives'
    BY <1>11 DEF Inv, TypeOK, ControlTypes, ReadFails, TaskMayRun, Ready,
       Flagged, SessionUsable, ContextLives
  <2>4. Contents' /\ CursorsAgree' /\ AcceptedIsServed'
    BY <1>11, <1>b DEF Inv, ReadFails, Ready, Contents, CursorsAgree,
       AcceptedIsServed, Active, Downloading
  <2> QED BY <2>1, <2>2, <2>3, <2>4 DEF Inv, TypeOK
<1>12. CASE ReadTimesOut
  <2>1. FlagTypes'
    BY <1>12, Zenon DEF Inv, ReadTimesOut, EnterOtaStart, Retry, TypeOK,
       FlagTypes
  <2>2. ControlTypes' /\ DataTypes'
    BY <1>12 DEF Inv, ReadTimesOut, EnterOtaStart, Retry, TypeOK,
       ControlTypes, DataTypes, Statuses
  <2>3. Ready' /\ Flagged' /\ SessionUsable' /\ ContextLives'
    BY <1>12 DEF Inv, TypeOK, ControlTypes, ReadTimesOut, EnterOtaStart,
       Retry, TaskMayRun, Ready, Flagged, SessionUsable, ContextLives
  <2>4. Contents' /\ CursorsAgree' /\ AcceptedIsServed'
    BY <1>12, <1>b DEF Inv, ReadTimesOut, EnterOtaStart, Retry, Ready,
       Contents, CursorsAgree, AcceptedIsServed, Active, Downloading
  <2> QED BY <2>1, <2>2, <2>3, <2>4 DEF Inv, TypeOK
<1>13. CASE WriteRefused
  <2>1. FlagTypes'
    BY <1>13, Zenon DEF Inv, WriteRefused, BufferFreed, TypeOK, FlagTypes
  <2>2. ControlTypes' /\ DataTypes'
    BY <1>13, BlankType DEF Inv, WriteRefused, BufferFreed, TypeOK,
       ControlTypes, DataTypes, Statuses
  <2>3. Ready' /\ Flagged' /\ SessionUsable' /\ ContextLives'
    BY <1>13 DEF Inv, TypeOK, ControlTypes, WriteRefused, BufferFreed,
       TaskMayRun, Ready, Flagged, SessionUsable, ContextLives
  <2>4. Contents' /\ CursorsAgree' /\ AcceptedIsServed'
    BY <1>13, <1>b DEF Inv, WriteRefused, BufferFreed, Ready, Contents,
       CursorsAgree, AcceptedIsServed, Active, Downloading
  <2> QED BY <2>1, <2>2, <2>3, <2>4 DEF Inv, TypeOK
<1>14. CASE WriteFails
  <2>1. FlagTypes'
    BY <1>14, Zenon DEF Inv, WriteFails, WriteAllowed, BufferFreed, TypeOK,
       FlagTypes
  <2>2. ControlTypes'
    BY <1>14 DEF Inv, WriteFails, WriteAllowed, BufferFreed, TypeOK,
       ControlTypes, Statuses
  <2>3. DataTypes'
    BY <1>14, BlankType, ChunkTaken DEF Inv, WriteFails, WriteAllowed,
       BufferFreed, TypeOK, DataTypes
  <2>4. Ready' /\ Flagged' /\ SessionUsable' /\ ContextLives'
    BY <1>14, ChunkTaken DEF Inv, WriteFails, WriteAllowed, BufferFreed,
       TypeOK, ControlTypes, Ready, Flagged, SessionUsable, ContextLives,
       TaskMayRun
  <2>5. Contents'
    BY <1>14, <1>a, <1>b, BlankType, ChunkTaken DEF Inv, TypeOK,
       ControlTypes, WriteFails, WriteAllowed, BufferFreed, Ready, Contents,
       Active, Downloading
  <2>6. CursorsAgree'
    BY <1>14, ChunkTaken DEF Inv, TypeOK, ControlTypes, WriteFails,
       WriteAllowed, BufferFreed, Ready, CursorsAgree, Downloading
  <2>7. AcceptedIsServed'
    BY <1>14, ChunkTaken DEF Inv, TypeOK, ControlTypes, WriteFails,
       WriteAllowed, BufferFreed, Ready, AcceptedIsServed
  <2> QED BY <2>1, <2>2, <2>3, <2>4, <2>5, <2>6, <2>7 DEF Inv, TypeOK
<1>15. CASE WriteOk
  <2>1. FlagTypes'
    BY <1>15, Zenon DEF Inv, WriteOk, WriteAllowed, BufferFreed, TypeOK,
       FlagTypes
  <2>2. ControlTypes'
    BY <1>15 DEF Inv, WriteOk, WriteAllowed, BufferFreed, TypeOK,
       ControlTypes, Statuses
  <2>3. DataTypes'
    <3>1. wroteAddr' \in 0 .. PartCells /\ wroteOffset' \in 0 .. PartCells
      BY <1>15 DEF Inv, TypeOK, DataTypes, CursorsAgree, Downloading,
         WriteOk, WriteAllowed, FitsPartition
    <3>2. next' \in 1 .. BlockCells
      BY <1>15, <3>1 DEF Inv, TypeOK, DataTypes, WriteOk, NextReadSize, Total
    <3>3. crc' \in [0 .. PartCells - 1 -> Cells] /\ crcLen' \in 0 .. PartCells
      BY <1>15, ChunkTaken DEF WriteOk
    <3>4. flash' \in [0 .. PartCells - 1 -> Cells]
      BY <1>15, ChunkTaken DEF WriteOk, Inv, TypeOK, DataTypes
    <3>5. buf' \in [0 .. BlockCells - 1 -> Cells] /\ got' \in 0 .. BlockCells
      BY <1>15, BlankType DEF WriteOk, BufferFreed
    <3> QED BY <1>15, <3>1, <3>2, <3>3, <3>4, <3>5 DEF WriteOk, Inv, TypeOK,
       DataTypes
  <2>4. Ready' /\ Flagged' /\ SessionUsable' /\ ContextLives'
    BY <1>15, ChunkTaken DEF Inv, WriteOk, WriteAllowed, BufferFreed,
       TypeOK, ControlTypes, Ready, Flagged, SessionUsable, ContextLives,
       TaskMayRun
  <2>5. Contents'
    BY <1>15, <1>a, <1>b, BlankType, ChunkTaken DEF Inv, TypeOK,
       ControlTypes, WriteOk, WriteAllowed, BufferFreed, Ready, Contents,
       Active, Downloading
  <2>6. CursorsAgree'
    BY <1>15, ChunkTaken DEF Inv, TypeOK, ControlTypes, WriteOk,
       WriteAllowed, BufferFreed, Ready, CursorsAgree, Downloading
  <2>7. AcceptedIsServed'
    <3> SUFFICES ASSUME status' \in {"DOWNLOADED", "UPGRADE_START"}
                 PROVE  /\ file \in {"intact", "trailing"}
                        /\ \A i \in 0 .. Total - 1 : flash'[i] = i
      BY <1>15 DEF WriteOk, AcceptedIsServed, net
    <3>1. ChecksumMatches(CrcAfter)
      BY <1>15 DEF WriteOk
    <3>2. /\ CrcAfter.len = BodyCells
          /\ \A i \in 0 .. BodyCells - 1 : CrcAfter.data[i] = HeaderCells + i
      BY <3>1 DEF ChecksumMatches
    <3>3. flash' = FlashWith(got) /\ WriteAllowed
      BY <1>15 DEF WriteOk
    <3>4. \A i \in 0 .. BodyCells - 1 : flash'[HeaderCells + i] = HeaderCells + i
      BY <3>2, <3>3, ChunkTaken
    <3>5. \A i \in 0 .. HeaderCells - 1 : flash'[i] = i
      BY <3>3, ChunkTaken
    <3>6. \A i \in 0 .. Total - 1 : flash'[i] = i
      <4> TAKE i \in 0 .. Total - 1
      <4>1. CASE i < HeaderCells
        BY <4>1, <3>5
      <4>2. CASE i >= HeaderCells
        <5>1. i - HeaderCells \in 0 .. BodyCells - 1 /\ HeaderCells + (i - HeaderCells) = i
          BY <4>2 DEF Total
        <5> QED BY <5>1, <3>4
      <4> QED BY <4>1, <4>2
    <3>7. file \notin {"bad_header", "bad_body"}
      BY <3>1, <3>3, ChunkTaken DEF ChecksumMatches
    <3>8. file # "truncated"
      <4>1. BodyCells - 1 \in 0 .. PartCells - 1 /\ BodyCells - 1 \in 0 .. BodyCells - 1
        OBVIOUS
      <4>2. CrcAfter.data[BodyCells - 1] = HeaderCells + (BodyCells - 1)
        BY <4>1, <3>2
      <4>3. CrcAfter.data[BodyCells - 1] < FileLen
        BY <4>1, <3>3, ChunkTaken
      <4> QED BY <4>2, <4>3, <1>a, FileLength DEF Inv, TypeOK, ControlTypes,
         Total
    <3> QED BY <3>6, <3>7, <3>8 DEF Inv, TypeOK, ControlTypes, Files
  <2> QED BY <2>1, <2>2, <2>3, <2>4, <2>5, <2>6, <2>7 DEF Inv, TypeOK
<1>16. CASE Deinit
  <2>1. FlagTypes'
    BY <1>16, Zenon DEF Inv, Deinit, TypeOK, FlagTypes
  <2>2. ControlTypes' /\ DataTypes'
    BY <1>16, BlankType DEF Inv, Deinit, TypeOK, ControlTypes, DataTypes,
       Statuses
  <2>3. Ready' /\ Flagged' /\ SessionUsable' /\ ContextLives'
    BY <1>16 DEF Inv, TypeOK, ControlTypes, Deinit, TaskMayRun, Ready,
       Flagged, SessionUsable, ContextLives
  <2>4. Contents' /\ CursorsAgree' /\ AcceptedIsServed'
    BY <1>16, <1>b DEF Inv, Deinit, Ready, Contents, CursorsAgree,
       AcceptedIsServed, Active, Downloading
  <2> QED BY <2>1, <2>2, <2>3, <2>4 DEF Inv, TypeOK
<1>17. CASE FreeUrl
  <2>1. FlagTypes'
    BY <1>17, Zenon DEF Inv, FreeUrl, TypeOK, FlagTypes
  <2>2. ControlTypes' /\ DataTypes'
    BY <1>17 DEF Inv, FreeUrl, TypeOK, ControlTypes, DataTypes, Statuses
  <2>3. Ready' /\ Flagged' /\ SessionUsable' /\ ContextLives'
    BY <1>17 DEF Inv, TypeOK, ControlTypes, FreeUrl, TaskMayRun, Ready,
       Flagged, SessionUsable, ContextLives
  <2>4. Contents' /\ CursorsAgree' /\ AcceptedIsServed'
    BY <1>17, <1>b DEF Inv, FreeUrl, Ready, Contents, CursorsAgree,
       AcceptedIsServed, Active, Downloading
  <2> QED BY <2>1, <2>2, <2>3, <2>4 DEF Inv, TypeOK
<1>18. CASE FreeCtx
  <2>1. FlagTypes'
    BY <1>18, Zenon DEF Inv, FreeCtx, TypeOK, FlagTypes
  <2>2. ControlTypes' /\ DataTypes'
    BY <1>18 DEF Inv, FreeCtx, TypeOK, ControlTypes, DataTypes, Statuses
  <2>3. Ready' /\ Flagged' /\ SessionUsable' /\ ContextLives'
    BY <1>18 DEF Inv, TypeOK, ControlTypes, FreeCtx, TaskMayRun, Ready,
       Flagged, SessionUsable, ContextLives
  <2>4. Contents' /\ CursorsAgree' /\ AcceptedIsServed'
    BY <1>18, <1>b DEF Inv, FreeCtx, Ready, Contents, CursorsAgree,
       AcceptedIsServed, Active, Downloading
  <2> QED BY <2>1, <2>2, <2>3, <2>4 DEF Inv, TypeOK
<1>19. CASE ClearRunning
  <2>1. FlagTypes'
    BY <1>19, Zenon DEF Inv, ClearRunning, TypeOK, FlagTypes
  <2>2. ControlTypes' /\ DataTypes'
    BY <1>19 DEF Inv, ClearRunning, TypeOK, ControlTypes, DataTypes, Statuses
  <2>3. Ready' /\ Flagged' /\ SessionUsable' /\ ContextLives'
    BY <1>19 DEF Inv, TypeOK, ControlTypes, ClearRunning, TaskMayRun, Ready,
       Flagged, SessionUsable, ContextLives
  <2>4. Contents' /\ CursorsAgree' /\ AcceptedIsServed'
    BY <1>19, <1>b DEF Inv, ClearRunning, Ready, Contents, CursorsAgree,
       AcceptedIsServed, Active, Downloading
  <2> QED BY <2>1, <2>2, <2>3, <2>4 DEF Inv, TypeOK
<1>20. CASE DeleteTask
  <2>1. FlagTypes'
    BY <1>20, Zenon DEF Inv, DeleteTask, TaskMayRun, TypeOK, FlagTypes
  <2>2. ControlTypes' /\ DataTypes'
    BY <1>20 DEF Inv, DeleteTask, TaskMayRun, TypeOK, ControlTypes,
       DataTypes, Statuses
  <2>3. Ready' /\ Flagged' /\ SessionUsable' /\ ContextLives'
    BY <1>20 DEF Inv, TypeOK, ControlTypes, DeleteTask, TaskMayRun, Ready,
       Flagged, SessionUsable, ContextLives
  <2>4. Contents' /\ CursorsAgree' /\ AcceptedIsServed'
    BY <1>20, <1>b DEF Inv, DeleteTask, TaskMayRun, Ready, Contents,
       CursorsAgree, AcceptedIsServed, Active, Downloading
  <2> QED BY <2>1, <2>2, <2>3, <2>4 DEF Inv, TypeOK
<1>21. CASE PowerCycle
  <2>1. FlagTypes'
    BY <1>21, Zenon DEF Inv, PowerCycle, TypeOK, FlagTypes
  <2>2. ControlTypes' /\ DataTypes'
    BY <1>21, BlankType DEF Inv, PowerCycle, TypeOK, ControlTypes,
       DataTypes, Statuses
  <2>3. Ready' /\ Flagged' /\ SessionUsable' /\ ContextLives'
    BY <1>21 DEF Inv, TypeOK, ControlTypes, PowerCycle, TaskMayRun, Ready,
       Flagged, SessionUsable, ContextLives
  <2>4. Contents' /\ CursorsAgree' /\ AcceptedIsServed'
    BY <1>21, <1>b DEF Inv, PowerCycle, Ready, Contents, CursorsAgree,
       AcceptedIsServed, Active, Downloading
  <2> QED BY <2>1, <2>2, <2>3, <2>4 DEF Inv, TypeOK
<1>30. CASE UNCHANGED vars
  BY <1>30, <1>b DEF vars, Inv, TypeOK, FlagTypes, ControlTypes, DataTypes,
     Ready, Flagged, Contents, CursorsAgree, AcceptedIsServed, SessionUsable,
     ContextLives, Active, Downloading
<1> QED
  BY <1>1, <1>2, <1>3, <1>4, <1>5, <1>6, <1>7, <1>8, <1>9, <1>10, <1>11,
     <1>12, <1>13, <1>14, <1>15, <1>16, <1>17, <1>18, <1>19, <1>20, <1>21,
     <1>30 DEF Next, CallerStep, TaskStep

\* As long as nothing went wrong, the download of an intact image is at the
\* right cell: the answer that is read starts at the offset that was asked for,
\* the chunk in the buffer and the running CRC are cells of the image.
Genuine ==
    file = "intact" /\ faults = {} =>
        /\ status # "ABORT"
        /\ Downloading =>
              /\ wroteOffset < Total
              /\ wroteAddr > 0 => \A i \in 0 .. crcLen - 1 : crc[i] = HeaderCells + i
        /\ tk \in {"read", "write"} => ~other
        /\ tk = "read" => pos = wroteOffset
        /\ tk = "write" =>
              /\ pos = wroteOffset + got /\ got <= Total - wroteOffset
              /\ \A i \in 0 .. got - 1 : buf[i] = wroteOffset + i

\* The CRC of a genuine chunk is a prefix of the image.
LEMMA GenuineChunk ==
    ASSUME Inv, Genuine, WriteAllowed, file = "intact", faults = {}
    PROVE  /\ wroteOffset + got = HeaderCells + CrcAfter.len
           /\ \A i \in 0 .. CrcAfter.len - 1 : CrcAfter.data[i] = HeaderCells + i
<1> USE OtaAssumption
<1>1. /\ DataTypes /\ wroteAddr = wroteOffset
      /\ wroteAddr > 0 => wroteAddr = HeaderCells + crcLen
      /\ got <= PartCells - wroteAddr
  BY DEF Inv, TypeOK, CursorsAgree, WriteAllowed, Downloading, FitsPartition
<1>2. \A i \in 0 .. got - 1 : buf[i] = wroteOffset + i
  BY DEF Genuine, WriteAllowed
<1>3. wroteAddr > 0 => \A i \in 0 .. crcLen - 1 : crc[i] = HeaderCells + i
  BY DEF Genuine, WriteAllowed, Downloading
<1>4. wroteOffset + got = HeaderCells + CrcAfter.len
  BY <1>1, ChunkTaken
<1>5. CASE wroteAddr = 0
  <2>1. got >= HeaderCells
    BY <1>5 DEF WriteAllowed, HeaderOk
  <2> DEFINE n == got - HeaderCells
  <2>2. CrcAfter = [len |-> n, data |-> [i \in 0 .. PartCells - 1 |->
                      IF i < n THEN buf[i + HeaderCells] ELSE Erased]]
    BY <1>5, <1>1, <2>1 DEF CrcAfter, DataTypes
  <2>3. \A i \in 0 .. n - 1 : CrcAfter.data[i] = HeaderCells + i
    BY <1>1, <1>2, <1>5, <2>1, <2>2 DEF DataTypes
  <2> QED BY <1>4, <2>2, <2>3
<1>6. CASE wroteAddr # 0
  <2> DEFINE n == crcLen + got
  <2>1. wroteAddr > 0 /\ wroteOffset = HeaderCells + crcLen
    BY <1>1, <1>6 DEF DataTypes
  <2>2. CrcAfter = [len |-> n, data |-> [i \in 0 .. PartCells - 1 |->
                      IF i < crcLen THEN crc[i]
                      ELSE IF i < n THEN buf[i - crcLen] ELSE Erased]]
    BY <1>1, <1>6 DEF CrcAfter, DataTypes
  <2>3. \A i \in 0 .. n - 1 : CrcAfter.data[i] = HeaderCells + i
    BY <1>1, <1>2, <1>3, <2>1, <2>2 DEF DataTypes
  <2> QED BY <1>4, <2>2, <2>3
<1> QED BY <1>5, <1>6

LEMMA GenuineStep == Inv /\ Genuine /\ [Next]_vars => Genuine'
<1> SUFFICES ASSUME Inv, Genuine, [Next]_vars, file' = "intact", faults' = {}
             PROVE  Genuine'
  BY DEF Genuine
<1> USE OtaAssumption DEF http, octx, ops, locals, task, caller, net, ghost
<1>1. ASSUME UNCHANGED <<file, faults, wroteOffset, wroteAddr, crc, crcLen, other, pos, got, buf>>,
             tk' = tk \/ (tk' = "connect" /\ Downloading) \/ tk' \notin {"connect", "read", "write"},
             status' = status \/ status' # "ABORT"
      PROVE  Genuine'
  BY <1>1 DEF Genuine, Downloading
<1>2. ASSUME status' # "ABORT", tk' \notin {"connect", "read", "write"} PROVE Genuine'
  BY <1>2 DEF Genuine, Downloading
<1>3. CASE NetEvent
  BY <1>1, <1>3 DEF NetEvent
<1>4. CASE UpdateInit
  BY <1>1, <1>4 DEF UpdateInit
<1>5. CASE CreateTask
  BY <1>1, <1>5 DEF CreateTask
<1>6. CASE SetRunning
  BY <1>1, <1>6 DEF SetRunning
<1>7. CASE ConnectFails
  BY <1>1, <1>7 DEF ConnectFails, Downloading
<1>8. CASE ReadNothing
  BY <1>1, <1>8 DEF ReadNothing
<1>9. CASE ReadFails
  BY <1>1, <1>9 DEF ReadFails
<1>10. CASE ReadTimesOut
  BY <1>1, <1>10 DEF ReadTimesOut, EnterOtaStart, Downloading
<1>11. CASE FreeUrl
  BY <1>1, <1>11 DEF FreeUrl
<1>12. CASE FreeCtx
  BY <1>1, <1>12 DEF FreeCtx
<1>13. CASE ClearRunning
  BY <1>1, <1>13 DEF ClearRunning
<1>14. CASE DeleteTask
  BY <1>1, <1>14 DEF DeleteTask, TaskMayRun
<1>15. CASE UNCHANGED vars
  BY <1>1, <1>15 DEF vars
<1>16. CASE UpdateBegin
  BY <1>2, <1>16, BeginsAlone DEF UpdateBegin
<1>17. CASE PowerCycle
  BY <1>2, <1>17 DEF PowerCycle
<1>18. CASE Deinit
  BY <1>18 DEF Deinit, Genuine, Downloading
<1>19. CASE OtaStart
  <2>1. wroteOffset' = 0 /\ wroteAddr' = 0 /\ tk' = "connect" /\ status' = "CONNECTION_START"
    BY <1>19 DEF OtaStart, EnterOtaStart, Inv, Ready
  <2> QED BY <2>1 DEF Genuine, Total
<1>20. CASE ConnectOk
  <2>1. tk = "connect" /\ faults = {} /\ file = "intact"
        /\ tk' = "read" /\ status' = "DOWNLOAD_START"
    BY <1>20 DEF ConnectOk
  <2>2. wroteOffset = 0 \/ server = "honours"
    BY <1>20, <2>1 DEF ConnectOk, Inv, TypeOK, DataTypes
  <2>3. /\ wroteOffset < Total
        /\ wroteAddr > 0 => \A i \in 0 .. crcLen - 1 : crc[i] = HeaderCells + i
    BY <2>1 DEF Genuine, Downloading
  <2>4. pos' = wroteOffset /\ ~other'
    <3>1. FileLen = Total
      BY <2>1 DEF FileLen
    <3>2. pos' = wroteOffset
      BY <1>20, <2>2 DEF ConnectOk, RangeStart
    <3>3. other' = (wroteOffset >= Total \/ (server = "replaced" /\ wroteOffset > 0))
      BY <1>20, <3>1, <3>2 DEF ConnectOk, RangeStart
    <3>4. wroteOffset \in Nat /\ Total \in Nat
      BY DEF Inv, TypeOK, DataTypes, Total
    <3>5. ~(wroteOffset >= Total) /\ ~(server = "replaced" /\ wroteOffset > 0)
      BY <2>2, <2>3, <3>4
    <3> QED BY <3>2, <3>3, <3>5, Zenon
  <2>5. UNCHANGED <<wroteOffset, wroteAddr, crc, crcLen>>
    BY <1>20 DEF ConnectOk
  <2> QED BY <2>1, <2>3, <2>4, <2>5 DEF Genuine
<1>21. CASE ReadData
  <2>1. PICK k \in 1 .. next :
          /\ k <= Remaining /\ got' = k /\ pos' = pos + k
          /\ buf' = [i \in 0 .. BlockCells - 1 |->
                        IF i < k THEN CellAt(pos + i) ELSE Erased]
    BY <1>21 DEF ReadData
  <2>2. /\ tk = "read" /\ tk' = "write" /\ faults = {} /\ file = "intact"
        /\ UNCHANGED <<wroteOffset, wroteAddr, crc, crcLen, status, other>>
    BY <1>21 DEF ReadData
  <2>3. ~other /\ pos = wroteOffset
    BY <2>2 DEF Genuine
  <2>4. k <= BlockCells /\ wroteOffset \in Nat
    BY DEF Inv, TypeOK, DataTypes
  <2>5. k <= Total - wroteOffset
    BY <2>1, <2>2, <2>3 DEF Remaining, FileLen
  <2>6. \A i \in 0 .. k - 1 : buf'[i] = wroteOffset + i
    BY <2>1, <2>3, <2>4 DEF CellAt
  <2> QED BY <2>1, <2>2, <2>3, <2>5, <2>6 DEF Genuine, Downloading
<1>22. CASE WriteRefused
  <2>1. /\ tk = "write" /\ faults = {} /\ file = "intact" /\ got >= HeaderCells
        /\ ~FitsPartition \/ (wroteAddr = 0 /\ ~HeaderOk)
    <3>1. faults \subseteq faults' /\ (got < HeaderCells => "short" \in faults')
      BY <1>22 DEF WriteRefused
    <3>2. got \in Nat
      BY DEF Inv, TypeOK, DataTypes
    <3> QED BY <1>22, <3>1, <3>2 DEF WriteRefused
  <2>2. /\ got <= Total - wroteOffset /\ wroteAddr = wroteOffset
        /\ \A i \in 0 .. got - 1 : buf[i] = wroteOffset + i
    BY <2>1 DEF Genuine, Inv, CursorsAgree, Downloading
  <2>3. FitsPartition
    BY <2>2 DEF FitsPartition, Total, Inv, TypeOK, DataTypes
  <2>4. wroteAddr = 0 => HeaderOk
    BY <2>1, <2>2 DEF HeaderOk, Inv, TypeOK, DataTypes
  <2> QED BY <2>1, <2>3, <2>4
<1>23. CASE WriteFails
  BY <1>23 DEF WriteFails
<1>24. CASE WriteOk
  <2>1. /\ WriteAllowed /\ tk = "write" /\ faults = {} /\ file = "intact"
        /\ crc' = CrcAfter.data /\ crcLen' = CrcAfter.len
        /\ wroteAddr' = wroteAddr + got /\ wroteOffset' = wroteOffset + got
        /\ UNCHANGED <<other, pos>>
    BY <1>24 DEF WriteOk, WriteAllowed
  <2>2. /\ pos = wroteOffset + got /\ got <= Total - wroteOffset
    BY <2>1 DEF Genuine
  <2>3. /\ wroteOffset + got = HeaderCells + CrcAfter.len
        /\ \A i \in 0 .. CrcAfter.len - 1 : CrcAfter.data[i] = HeaderCells + i
    BY <2>1, GenuineChunk
  <2>4. ~other
    BY <2>1 DEF Genuine
  <2>5. CASE wroteOffset' < Total
    <3>1. status' = "DOWNLOAD_START" /\ tk' = "read"
      BY <1>24, <2>5 DEF WriteOk
    <3>2. pos' = wroteOffset' /\ ~other'
      BY <2>1, <2>2, <2>4
    <3>3. \A i \in 0 .. crcLen' - 1 : crc'[i] = HeaderCells + i
      BY <2>1, <2>3
    <3> QED BY <2>5, <3>1, <3>2, <3>3 DEF Genuine
  <2>6. CASE ~(wroteOffset' < Total)
    <3>1. CrcAfter.len = BodyCells
      BY <2>1, <2>2, <2>3, <2>6, ChunkTaken DEF Total, Inv, TypeOK, DataTypes
    <3>2. ChecksumMatches(CrcAfter)
      BY <2>1, <2>3, <3>1 DEF ChecksumMatches
    <3>3. status' # "ABORT" /\ tk' \notin {"connect", "read", "write"}
      BY <1>24, <2>6, <3>2 DEF WriteOk
    <3> QED BY <1>2, <3>3
  <2> QED BY <2>5, <2>6
<1> QED
  BY <1>3, <1>4, <1>5, <1>6, <1>7, <1>8, <1>9, <1>10, <1>11, <1>12, <1>13,
     <1>14, <1>15, <1>16, <1>17, <1>18, <1>19, <1>20, <1>21, <1>22, <1>23,
     <1>24 DEF Next, CallerStep, TaskStep

\* The inductive invariant of the download holds throughout.
THEOREM SpecInv == Spec => []Inv
<1> QED BY InitInv, InvStep, PTL DEF Spec

\* Every variable keeps its type, and no cursor of the download passes the
\* end of the app_ota partition (the bounds test of wm_ota_ops_write).
THEOREM OtaTypes == Spec => []TypeOK
BY SpecInv, PTL DEF Inv

\* wrote_offset, the write address and the running CRC agree whenever the
\* download can be resumed by wm_ota_http_connect.
THEOREM ResumePointsAgree == Spec => []CursorsAgree
BY SpecInv, PTL DEF Inv

\* An image that wm_ota_ops_end accepts is the one the server holds, cell for
\* cell, after any number of timeouts and resumed connections.
THEOREM OnlyServedImages == Spec => []AcceptedIsServed
BY SpecInv, PTL DEF Inv

\* wm_ota_http_get_firmware reads from the session that was opened last, and
\* that session is open.
THEOREM SessionsUsable == Spec => []SessionUsable
BY SpecInv, PTL DEF Inv

\* The context and the URL exist for as long as ota_http_task uses them.
THEOREM ContextOutlivesTask == Spec => []ContextLives
BY SpecInv, PTL DEF Inv

\* is_ota_running tells a caller of higher priority whether a task exists.
THEOREM FlagIsTrue == Spec => []FlagTracksTask
<1>1. Inv => FlagTracksTask
  BY DEF Inv, Ready, Flagged, FlagTracksTask
<1> QED BY <1>1, SpecInv, PTL

\* Timeouts, resumed connections and short reads alone never make wm_ota_ops
\* give up an intact image: only a failing flash or heap, a first read that is
\* shorter than the header or a server that does not resume where it was asked
\* to.
THEOREM IntactSurvives == Spec => []IntactNotAborted
<1>1. Init => Genuine
  BY DEF Init, Genuine, Downloading
<1>2. Genuine => IntactNotAborted
  BY DEF Genuine, IntactNotAborted
<1> QED BY <1>1, <1>2, GenuineStep, SpecInv, PTL DEF Spec
=============================================================================
