--------------------------- MODULE FtParamProofs ----------------------------
(***************************************************************************)
(* Proofs about the factory parameters, for any parameters and values and  *)
(* any number of failing writes and power failures.                        *)
(***************************************************************************)
EXTENDS FtParam, TLAPS

\* A set comes to its second write only with the new copy in slot 1,
\* and repairs slot 1 only while slot 0 is valid.
Inv ==
  /\ TypeOK
  /\ pc = "second" => slot[1] = ram
  /\ pc = "heal" => slot[0] # None
  /\ pc = "off" => reply = "NONE"
  /\ SuccessIsDouble

LEMMA CopyTypes ==
  /\ NoCopy \in Copies /\ None \notin Copies
  /\ \A c \in Copies \cup {None}, a \in Args : With(c, a) \in Copies
BY FtAssumption DEF NoCopy, Copies, Args, With

\* One write changes the slot the set has come to, and no other.
LEMMA WriteEffect ==
  ASSUME TypeOK, NEW x \in Copies \cup {None}, Writes(x)
  PROVE  /\ slot' \in [{0, 1} -> Copies \cup {None}] /\ faults' \in 0..MaxFaults
         /\ slot'[Target] = x /\ \A i \in {0, 1} \ {Target} : slot'[i] = slot[i]
         /\ x = ram \/ MayFail
<1>1. Target \in {0, 1}
  BY DEF Target
<1>2. /\ slot' \in [{0, 1} -> Copies \cup {None}]
      /\ slot'[Target] = x /\ \A i \in {0, 1} \ {Target} : slot'[i] = slot[i]
  BY <1>1 DEF Writes, TypeOK
<1>3. faults' \in 0..MaxFaults /\ (x = ram \/ MayFail)
  BY FtAssumption DEF Writes, MayFail, TypeOK
<1> QED BY <1>2, <1>3

LEMMA InvInductive == Inv /\ [Next]_vars => Inv'
<1> SUFFICES ASSUME Inv, [Next]_vars PROVE Inv'
  OBVIOUS
<1>t. TypeOK /\ ram \in Copies \cup {None} /\ slot \in [{0, 1} -> Copies \cup {None}]
  BY DEF Inv, TypeOK
<1>1. CASE UNCHANGED vars
  BY <1>1 DEF vars, Inv, TypeOK, SuccessIsDouble
<1>2. CASE Boot \/ BootNoMemory
  <2>1. Durable \in Copies \cup {None}
    BY <1>t DEF Durable
  <2>2. reply' = "NONE" /\ faults' \in 0..MaxFaults
    BY <1>2, FtAssumption DEF Boot, BootNoMemory, Inv, TypeOK
  <2> QED BY <1>2, <2>1, <2>2 DEF Boot, BootNoMemory, Inv, TypeOK, SuccessIsDouble
<1>3. ASSUME NEW a \in Args, Set(a) PROVE Inv'
  BY <1>t, <1>3, CopyTypes DEF Set, Stale, Inv, TypeOK, SuccessIsDouble
<1>8. CASE SetNoMemory
  BY <1>8 DEF SetNoMemory, Inv, TypeOK, SuccessIsDouble
<1>4. CASE Heal
  <2>1. PICK x \in Copies \cup {None} :
          /\ Writes(x)
          /\ IF Verified(x) THEN pc' = "first" /\ ram' = With(ram, arg) /\ UNCHANGED <<arg, reply>>
                            ELSE Return("FAILED") /\ UNCHANGED ram
    BY <1>4 DEF Heal
  <2>2. slot' \in [{0, 1} -> Copies \cup {None}] /\ faults' \in 0..MaxFaults
    BY <1>t, <2>1, WriteEffect
  <2>3. pc = "heal" /\ arg \in Args
    BY <1>4 DEF Heal, Inv, TypeOK
  <2> QED BY <1>t, <2>1, <2>2, <2>3, CopyTypes DEF Return, Inv, TypeOK, SuccessIsDouble
<1>5. CASE First
  <2>1. PICK x \in Copies \cup {None} :
          /\ Writes(x)
          /\ IF Verified(x) THEN pc' = "second" /\ UNCHANGED <<arg, reply>> ELSE Return("FAILED")
    BY <1>5 DEF First
  <2>2. /\ slot' \in [{0, 1} -> Copies \cup {None}] /\ faults' \in 0..MaxFaults
        /\ slot'[Target] = x
    BY <1>t, <2>1, WriteEffect
  <2>3. pc = "first" /\ ram' = ram /\ Target = 1
    BY <1>5 DEF First, Target
  <2> QED BY <2>1, <2>2, <2>3 DEF Verified, Return, Inv, TypeOK, SuccessIsDouble
<1>6. CASE Second
  <2>1. PICK x \in Copies \cup {None} :
          Writes(x) /\ Return(IF Verified(x) THEN "SUCCESS" ELSE "FAILED")
    BY <1>6 DEF Second
  <2>2. /\ slot' \in [{0, 1} -> Copies \cup {None}] /\ faults' \in 0..MaxFaults
        /\ slot'[Target] = x /\ \A i \in {0, 1} \ {Target} : slot'[i] = slot[i]
    BY <1>t, <2>1, WriteEffect
  <2>3. pc = "second" /\ ram' = ram /\ Target = 0
    BY <1>6 DEF Second, Target
  <2> QED BY <2>1, <2>2, <2>3 DEF Verified, Return, Inv, TypeOK, SuccessIsDouble
<1>7. CASE PowerLoss
  <2>1. slot' \in [{0, 1} -> Copies \cup {None}]
    BY <1>t, <1>7 DEF PowerLoss, Target
  <2>2. faults' \in 0..MaxFaults
    BY <1>7, FtAssumption DEF PowerLoss, Inv, TypeOK
  <2>3. reply' # "SUCCESS"
    BY <1>7 DEF PowerLoss
  <2> QED BY <1>7, <2>1, <2>2, <2>3, CopyTypes DEF PowerLoss, Inv, TypeOK, SuccessIsDouble
<1> QED BY <1>1, <1>2, <1>3, <1>4, <1>5, <1>6, <1>7, <1>8 DEF Next

LEMMA InitInv == Init => Inv
BY FtAssumption, CopyTypes DEF Init, Inv, TypeOK, SuccessIsDouble

\* wm_ft_param_set answers success only when both slots hold the RAM copy.
THEOREM SuccessMeansTwoCopies == Spec => [](TypeOK /\ SuccessIsDouble)
<1>1. Inv => TypeOK /\ SuccessIsDouble
  BY DEF Inv
<1> QED BY <1>1, InvInductive, InitInv, PTL DEF Spec

\* What a step does to the two slots while faults are spaced.
SlotStep ==
  \/ slot' = slot
  \/ pc = "heal" /\ slot'[0] = slot[0] /\ slot[0] # None
  \/ pc = "first" /\ slot'[0] = slot[0] /\ (slot[0] # None \/ slot'[1] = ram)
  \/ pc = "second" /\ slot'[1] = ram /\ slot'[0] \in {slot[0], ram, None}

LEMMA SlotSteps == ASSUME Spaced, Inv, [Next]_vars PROVE SlotStep
<1>t. TypeOK /\ slot \in [{0, 1} -> Copies \cup {None}]
  BY DEF Inv, TypeOK
<1>1. CASE UNCHANGED vars \/ Boot \/ BootNoMemory \/ (\E a \in Args : Set(a)) \/ SetNoMemory
  BY <1>1 DEF vars, Boot, BootNoMemory, Set, SetNoMemory, SlotStep
<1>2. CASE Heal \/ First \/ Second
  <2>1. /\ pc \in {"heal", "first", "second"}
        /\ \E x \in Copies \cup {None} : Writes(x)
    BY <1>2 DEF Heal, First, Second
  <2>2. PICK x \in Copies \cup {None} : Writes(x)
    BY <2>1
  <2>3. /\ slot'[Target] = x /\ \A i \in {0, 1} \ {Target} : slot'[i] = slot[i]
        /\ x = ram \/ MayFail
    BY <1>t, <2>2, WriteEffect
  <2>4. x \in {ram, slot[Target], None}
    BY <2>2 DEF Writes
  <2>5. CASE pc = "heal"
    BY <2>3, <2>5 DEF Target, SlotStep, Inv
  <2>6. CASE pc = "first"
    BY <2>3, <2>6 DEF Target, MayFail, SlotStep
  <2>7. CASE pc = "second"
    BY <2>3, <2>4, <2>7 DEF Target, SlotStep, Inv
  <2> QED BY <2>1, <2>5, <2>6, <2>7
<1>3. CASE PowerLoss
  <2>1. CASE slot' = slot
    BY <2>1 DEF SlotStep
  <2>2. CASE slot' # slot
    <3>1. /\ pc \in {"heal", "first", "second"} /\ MayFail
          /\ slot' = [slot EXCEPT ![Target] = None]
      BY <1>3, <2>2 DEF PowerLoss, Inv, TypeOK
    <3>2. slot'[Target] = None /\ \A i \in {0, 1} \ {Target} : slot'[i] = slot[i]
      BY <1>t, <3>1 DEF Target
    <3> QED BY <3>1, <3>2 DEF Target, MayFail, SlotStep, Inv
  <2> QED BY <2>1, <2>2
<1> QED BY <1>1, <1>2, <1>3 DEF Next

\* With faults spaced, what a boot loads is never lost, and changes only to
\* the complete copy a set has built in RAM.
THEOREM ParametersSurvive == ASSUME Spaced PROVE Spec => NeverLost /\ AtomicUpdate
<1> DEFINE Kept == Durable # None => Durable' # None
           Complete == Durable' # Durable => Durable' = ram /\ pc \in {"first", "second"}
<1>1. ASSUME Inv, [Next]_vars PROVE Kept /\ Complete
  <2>1. SlotStep /\ (pc \in {"first", "second"} => ram # None)
    BY <1>1, SlotSteps, CopyTypes DEF Inv, TypeOK
  <2> QED BY <2>1 DEF SlotStep, Durable
<1>2. Inv /\ [Next]_vars => [Kept]_vars /\ [Complete]_vars
  BY <1>1
<1> HIDE DEF Kept, Complete
<1>3. Spec => [][Kept]_vars /\ [][Complete]_vars
  BY <1>2, InvInductive, InitInv, PTL DEF Spec
<1> QED BY <1>3 DEF NeverLost, AtomicUpdate, Kept, Complete
=============================================================================
