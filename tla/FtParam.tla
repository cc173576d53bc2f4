------------------------------ MODULE FtParam ------------------------------
(***************************************************************************)
(* The factory parameters (src/components/wm_ft_param): MAC addresses and  *)
(* radio calibration, kept twice in flash and once in RAM.  A set repairs  *)
(* slot 1 if need be, then writes slot 1, then slot 0, and reads each one  *)
(* back; a boot loads slot 0, or slot 1 when slot 0 is not valid.  A write *)
(* erases its slot first, so a write cut short leaves it invalid.          *)
(***************************************************************************)
EXTENDS Naturals

CONSTANTS Params,     \* the parameters
          Values,     \* what they can be set to
          Erased,     \* the value of a parameter never set: 0xff..ff
          None,       \* a slot without a valid copy
          Spaced,     \* does no write fail from a failed write of slot 0 until
                      \*   a set has made slot 0 valid again?
          MaxFaults   \* bound: writes that fail, power failures

ASSUME FtAssumption ==
    /\ Erased \notin Values
    /\ None \notin [Params -> Values \cup {Erased}]
    /\ Spaced \in BOOLEAN /\ MaxFaults \in Nat

VARIABLES slot,   \* the copies in flash, at g_ft_addr_0 and g_ft_addr_1
          ram,    \* g_ft_param_ver, None while it has no magic number
          pc,     \* where the set is
          arg,    \* its parameter and value
          reply,  \* what the last set returned
          faults  \* how much of the bound is used

vars == <<slot, ram, pc, arg, reply, faults>>

Copies == [Params -> Values \cup {Erased}]
NoCopy == [p \in Params |-> Erased]
Args == Params \X Values

\* What wm_ft_param_reset_internal_data loads: the first valid slot.
Durable == IF slot[0] # None THEN slot[0] ELSE slot[1]

\* A blank chip, or one whose slot 0, and perhaps slot 1, left the factory
\* with parameters.
Init ==
    /\ slot \in [{0, 1} -> Copies \cup {None}]
    /\ slot[1] \in {None, slot[0]}
    /\ ram = None
    /\ pc = "off" /\ arg = None /\ reply = "NONE" /\ faults = 0

\* wm_ft_param_init, called once by the system's start
Boot ==
    /\ pc = "off"
    /\ ram' = Durable
    /\ pc' = "idle"
    /\ UNCHANGED <<slot, arg, reply, faults>>

\* Without memory for its buffer it loads nothing, and the caller goes on.
BootNoMemory ==
    /\ pc = "off" /\ faults < MaxFaults
    /\ ram' = None
    /\ pc' = "idle"
    /\ faults' = faults + 1
    /\ UNCHANGED <<slot, arg, reply>>

Return(r) == pc' = "idle" /\ arg' = None /\ reply' = r

\* The parameter is changed, and the copy gets its magic number and checksums.
With(c, a) == [(IF c = None THEN NoCopy ELSE c) EXCEPT ![a[1]] = a[2]]

\* (mutant) the copy read back is not compared
VerifiedAlways(x) == TRUE
\* What is read back is valid and the RAM copy.
Verified(x) == x # None /\ x = ram

\* Slot 1 has to hold the RAM copy before anything changes.
Stale == slot[0] # None /\ ~ Verified(slot[1])

\* wm_ft_param_set: up to its first write, the parameter is changed in RAM
Set(a) ==
    /\ pc = "idle"
    /\ IF Stale THEN pc' = "heal" /\ UNCHANGED ram
                ELSE pc' = "first" /\ ram' = With(ram, a)
    /\ arg' = a
    /\ UNCHANGED <<slot, reply, faults>>

SetNoMemory ==
    /\ pc = "idle"
    /\ reply' = "FAILED"
    /\ UNCHANGED <<slot, ram, pc, arg, faults>>

\* The slot the running write erases and programs.
Target == IF pc = "second" THEN 0 ELSE 1

MayFail == faults < MaxFaults /\ (Spaced => pc = "second" \/ slot[0] # None)

\* A write does its work; or has no memory for its buffer and does nothing;
\* or erases the slot and fails to program it.
Writes(x) ==
    /\ x \in {ram} \cup (IF MayFail THEN {slot[Target], None} ELSE {})
    /\ slot' = [slot EXCEPT ![Target] = x]
    /\ faults' = IF x = ram THEN faults ELSE faults + 1

Heal ==
    /\ pc = "heal"
    /\ \E x \in Copies \cup {None} :
         /\ Writes(x)
         /\ IF Verified(x) THEN pc' = "first" /\ ram' = With(ram, arg) /\ UNCHANGED <<arg, reply>>
                           ELSE Return("FAILED") /\ UNCHANGED ram

\* (mutant) a valid slot 1 is left as it is
FirstIfInvalid ==
    /\ pc = "first"
    /\ \E x \in Copies \cup {None} :
         /\ IF slot[1] = None THEN Writes(x) ELSE x = ram /\ UNCHANGED <<slot, faults>>
         /\ IF Verified(x) THEN pc' = "second" /\ UNCHANGED <<arg, reply>> ELSE Return("FAILED")
    /\ UNCHANGED ram

First ==
    /\ pc = "first"
    /\ \E x \in Copies \cup {None} :
         /\ Writes(x)
         /\ IF Verified(x) THEN pc' = "second" /\ UNCHANGED <<arg, reply>> ELSE Return("FAILED")
    /\ UNCHANGED ram

\* (mutant) the set succeeds whatever slot 0 holds
SecondUnread ==
    /\ pc = "second"
    /\ \E x \in Copies \cup {None} : Writes(x) /\ Return("SUCCESS")
    /\ UNCHANGED ram

Second ==
    /\ pc = "second"
    /\ \E x \in Copies \cup {None} :
         /\ Writes(x)
         /\ Return(IF Verified(x) THEN "SUCCESS" ELSE "FAILED")
    /\ UNCHANGED ram

\* The running write is cut short, or was not begun.
PowerLoss ==
    /\ pc # "off"
    /\ faults < MaxFaults
    /\ \/ UNCHANGED slot
       \/ pc # "idle" /\ MayFail /\ slot' = [slot EXCEPT ![Target] = None]
    /\ ram' = None
    /\ pc' = "off" /\ arg' = None /\ reply' = "NONE"
    /\ faults' = faults + 1

Next ==
    \/ Boot \/ BootNoMemory
    \/ (\E a \in Args : Set(a)) \/ SetNoMemory
    \/ Heal \/ First \/ Second
    \/ PowerLoss

Spec == Init /\ [][Next]_vars
----------------------------------------------------------------------------
\* The slots and RAM hold copies or nothing valid; a set that has come to its
\* writes knows its argument, and RAM has a complete copy to write.
TypeOK ==
    /\ slot \in [{0, 1} -> Copies \cup {None}]
    /\ ram \in Copies \cup {None}
    /\ pc \in {"first", "second"} => ram \in Copies
    /\ pc \in {"off", "idle", "heal", "first", "second"}
    /\ pc \in {"heal", "first", "second"} => arg \in Args
    /\ reply \in {"SUCCESS", "FAILED", "NONE"}
    /\ faults \in 0..MaxFaults

\* Parameters once stored are never lost: with faults spaced, a boot always
\* finds a valid copy, however the sets before it ended.
NeverLost == [][Durable # None => Durable' # None]_vars

\* What a boot loads changes only to the complete new copy, by the set that
\* returns next: no torn mixture, no older copy coming back from slot 1.
AtomicUpdate ==
    [][Durable' # Durable => Durable' = ram /\ pc \in {"first", "second"}]_vars

\* A set that returned success has both copies written: a later failure in
\* either one loses nothing it acknowledged.
SuccessIsDouble ==
    pc = "idle" /\ reply = "SUCCESS" => slot[0] = ram /\ slot[1] = ram
=============================================================================
