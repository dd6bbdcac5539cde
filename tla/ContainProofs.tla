---------------------------- MODULE ContainProofs ----------------------------
(***************************************************************************)
(* Machine-checked proofs about Contain, for every number of chains and    *)
(* slots, every TTL and every combination of faults.                       *)
(*                                                                         *)
(* The inductive invariant IInv joins the properties of Contain: the       *)
(* accounting of kernel policies needs distinct slots (an unload by name   *)
(* must not hit another record's policy) and needs the records to be on    *)
(* disk (a crash turns the file into the books).                           *)
(***************************************************************************)
EXTENDS Contain, FiniteSetTheorems, TLAPS

\* One record per slot and per chain.
Distinct(records) ==
  \A r, q \in records : (r.slot = q.slot \/ r.chain = q.chain) => r = q

\* A daemon that is down holds nothing, and containment that is switched off
\* with records live has been switched off by a SIGHUP.
Quiet ==
  /\ ~up => live = {} /\ \A c \in Chains : verdict[c] = "none"
  /\ ~enabled /\ live # {} => reverted
  /\ ~disk.enabled /\ disk.live # {} => reverted

IInv ==
  /\ TypeOK
  /\ Distinct(live) /\ Distinct(disk.live)
  /\ RecordsOnDisk
  /\ KernelAccounted
  /\ Quiet
  /\ LowIsReleased

-----------------------------------------------------------------------------

\* Unloading keeps the kernel's type and touches only the named slots.
LEMMA UnloadedFacts ==
  ASSUME NEW k \in [Slots -> Chains \cup {NoChain}], NEW S
  PROVE  /\ Unloaded(k, S) \in [Slots -> Chains \cup {NoChain}]
         /\ \A t \in Slots : Unloaded(k, S)[t] # NoChain
              => t \notin S /\ Unloaded(k, S)[t] = k[t]
  BY DEF Unloaded

\* The deletes that can fail are among those that were asked for.
LEMMA RefusalsFacts ==
  ASSUME NEW S, NEW refused \in Refusals(S)
  PROVE  refused \subseteq S
  BY DEF Refusals

\* The slot chosen for a new record is a slot, and is free unless all are taken.
LEMMA SlotForFacts ==
  ASSUME TypeOK, NEW head \in Heads, NEW s \in SlotFor(head)
  PROVE  /\ s \in Slots
         /\ FreeSlots # {} => s \in FreeSlots
         /\ FreeSlots = {} => s = head.slot /\ head \in live
  <1>1. CASE FreeSlots # {}
    BY <1>1 DEF SlotFor, FreeSlots
  <1>2. CASE FreeSlots = {}
    <2>1. live # {}
      BY <1>2, ContainAssumption DEF FreeSlots, SlotsIn, Slots
    <2>2. head \in live /\ s = head.slot
      BY <1>2, <2>1 DEF Heads, Oldest, SlotFor
    <2>3. QED
      BY <1>2, <2>2 DEF TypeOK, Record
  <1>3. QED
    BY <1>1, <1>2

\* Records in distinct slots are no more than the slots, and a set of them that
\* fills every slot has exactly Max elements.
LEMMA SlotCount ==
  ASSUME NEW R, \A r \in R : r.slot \in Slots, Distinct(R)
  PROVE  /\ IsFiniteSet(R)
         /\ Cardinality(R) \in Nat
         /\ Cardinality(R) <= Max
         /\ Slots \subseteq SlotsIn(R) => Cardinality(R) = Max
  <1> DEFINE f == [r \in R |-> r.slot]
  <1>1. f \in Injection(R, Slots)
    BY DEF Injection, IsInjective, Distinct
  <1>2. IsFiniteSet(Slots) /\ Cardinality(Slots) = Max
    BY FS_Interval, ContainAssumption DEF Slots
  <1>3. IsFiniteSet(R) /\ Cardinality(R) <= Max
        /\ (Cardinality(R) = Max <=> f \in Surjection(R, Slots))
    <2> HIDE DEF f
    <2> QED BY <1>1, <1>2, FS_Injection
  <1>4. ASSUME Slots \subseteq SlotsIn(R)
        PROVE  f \in Surjection(R, Slots)
    BY <1>4, <1>1 DEF Surjection, Injection, SlotsIn
  <1>5. QED
    BY <1>3, <1>4, FS_CardinalityType

\* What Contain(c) does, for given choices.
Contained1(c, head, refused, s, kept) ==
  LET free == AfterSlotFor(s, refused)
  IN  /\ CanLoad(free, s)
      /\ live' = (live \ Dropped(c, head)) \cup {NewRecord(c, s)}
      /\ kernel' = Unloaded([free EXCEPT ![s] = c], SlotsIn(Dropped(c, head)) \ kept)
      /\ orphaned' = StillLoaded(kernel', orphaned \cup (kept \ SlotsIn(live')))

\* Contain(c) is one of these choices.
LEMMA ContainShape ==
  ASSUME NEW c, Contain(c)
  PROVE  \E head \in Heads, refused \in MayFail :
           \E s \in SlotFor(head), kept \in Refusals(SlotsIn(Dropped(c, head))) :
             Contained1(c, head, refused, s, kept)
  BY DEF Contain, Contained1

\* What a crash inside Contain(c) leaves behind, for given choices.
CrashedAt(c, head, s) ==
  LET free == AfterSlotFor(s, FALSE)
      loaded == [free EXCEPT ![s] = c]
  IN  /\ kernel' \in {free, loaded, Unloaded(loaded, SlotsIn(Dropped(c, head)))}
      /\ orphaned' = StillLoaded(kernel', orphaned \cup {s})

\* CrashContaining(c) is one of these choices.
LEMMA CrashShape ==
  ASSUME NEW c, CrashContaining(c)
  PROVE  \E head \in Heads : \E s \in SlotFor(head) : CrashedAt(c, head, s)
  BY DEF CrashContaining, CrashedAt

-----------------------------------------------------------------------------
(* Type correctness. *)

\* Every step keeps every variable in its type: nothing the daemon, the sensor
\* or the file does takes a record, a slot or a verdict out of range.
LEMMA TypeStep == TypeOK /\ [Next]_vars => TypeOK'
  <1> SUFFICES ASSUME TypeOK, [Next]_vars PROVE TypeOK'
    OBVIOUS
  <1> USE ContainAssumption DEF TypeOK, Judged, Running, Verdicts
  <1>1. ASSUME NEW R \in SUBSET live, Release(R)
        PROVE  /\ kernel' \in [Slots -> Chains \cup {NoChain}]
               /\ orphaned' \in SUBSET Slots
    <2>1. PICK refused \in Refusals(SlotsIn(R)) :
            /\ kernel' = Unloaded(kernel, SlotsIn(R) \ refused)
            /\ orphaned' = StillLoaded(kernel', orphaned \cup refused)
      BY <1>1 DEF Release
    <2>2. refused \subseteq Slots
      BY <2>1, RefusalsFacts DEF SlotsIn, Record
    <2>3. QED
      BY <2>1, <2>2, UnloadedFacts DEF StillLoaded
  <1>2. ASSUME NEW c \in Chains, NEW s \in Slots
        PROVE  NewRecord(c, s) \in Record
    BY <1>2 DEF NewRecord, Record, Clock
  <1>3. ASSUME NEW head \in Heads, NEW s \in SlotFor(head), NEW refused
        PROVE  AfterSlotFor(s, refused) \in [Slots -> Chains \cup {NoChain}]
    BY UnloadedFacts DEF AfterSlotFor
  <1>4. ASSUME NEW c \in Chains, NEW sev \in {"low", "high"}, JudgeOnly(c, sev)
        PROVE  TypeOK'
    BY <1>4 DEF JudgeOnly
  <1>5. ASSUME NEW c \in Chains, Withdraw(c) PROVE TypeOK'
    BY <1>5, <1>1 DEF Withdraw
  <1>6. ASSUME NEW c \in Chains, Contain(c) PROVE TypeOK'
    <2> PICK head \in Heads, refused \in MayFail :
            \E s \in SlotFor(head), kept \in Refusals(SlotsIn(Dropped(c, head))) :
              Contained1(c, head, refused, s, kept)
      BY <1>6, ContainShape
    <2> PICK s \in SlotFor(head), kept \in Refusals(SlotsIn(Dropped(c, head))) :
              Contained1(c, head, refused, s, kept)
      OBVIOUS
    <2>1. Contained1(c, head, refused, s, kept)
      OBVIOUS
    <2>2. s \in Slots
      BY SlotForFacts
    <2>3. live' \in SUBSET Record
      BY <2>1, <2>2, <1>2 DEF Contained1
    <2>4. kernel' \in [Slots -> Chains \cup {NoChain}]
      BY <2>1, <2>2, <1>3, UnloadedFacts DEF Contained1
    <2>5. kept \subseteq Slots
      <3>1. kept \subseteq SlotsIn(Dropped(c, head))
        BY RefusalsFacts
      <3>2. \A r \in Dropped(c, head) : r.slot \in Slots
        BY DEF Dropped, Heads, Oldest, NoRecord, Record, Slots
      <3>3. QED
        BY <3>1, <3>2 DEF SlotsIn
    <2>6. QED
      BY <2>1, <2>3, <2>4, <2>5, <1>6 DEF Contain, Contained1, Saved, StillLoaded
  <1>7. ASSUME NEW c \in Chains, ContainFails(c) PROVE TypeOK'
    BY <1>7, <1>3 DEF ContainFails, StillLoaded
  <1>8. ASSUME NEW c \in Chains, ChainCloses(c) PROVE TypeOK'
    BY <1>8 DEF ChainCloses
  <1>9. CASE Tick
    BY <1>9, <1>1 DEF Tick, Expired, Saved
  <1>10. ASSUME NEW c \in Chains, ReleaseChain(c) PROVE TypeOK'
    BY <1>10, <1>1 DEF ReleaseChain, Saved
  <1>11. CASE SetContainOn
    BY <1>11 DEF SetContainOn, Saved
  <1>12. CASE SetContainOff
    BY <1>12, <1>1 DEF SetContainOff, Saved
  <1>13. CASE Reload
    BY <1>13 DEF Reload
  <1>14. CASE Crash
    BY <1>14 DEF Crash, LoseMemory
  <1>15. ASSUME NEW c \in Chains, CrashContaining(c) PROVE TypeOK'
    <2> PICK head \in Heads : \E s \in SlotFor(head) : CrashedAt(c, head, s)
      BY <1>15, CrashShape
    <2> PICK s \in SlotFor(head) : CrashedAt(c, head, s)
      OBVIOUS
    <2>1. CrashedAt(c, head, s)
      OBVIOUS
    <2>2. s \in Slots
      BY SlotForFacts
    <2> DEFINE free == AfterSlotFor(s, FALSE)
               loaded == [free EXCEPT ![s] = c]
    <2>3. free \in [Slots -> Chains \cup {NoChain}]
      BY <1>3
    <2>4. loaded \in [Slots -> Chains \cup {NoChain}]
      BY <2>3, <2>2
    <2>5. Unloaded(loaded, SlotsIn(Dropped(c, head))) \in [Slots -> Chains \cup {NoChain}]
      <3> HIDE DEF loaded
      <3> QED BY <2>4, UnloadedFacts
    <2>6. kernel' \in [Slots -> Chains \cup {NoChain}]
      BY <2>1, <2>3, <2>4, <2>5 DEF CrashedAt
    <2>7. orphaned' \in SUBSET Slots
      BY <2>1, <2>2 DEF CrashedAt, StillLoaded
    <2>8. QED
      BY <2>6, <2>7, <1>15 DEF CrashContaining, LoseMemory
  <1>16. CASE CrashReleasing
    <2>1. PICK gone \in SUBSET live :
            /\ kernel' = Unloaded(kernel, SlotsIn(gone))
            /\ orphaned' = StillLoaded(kernel', orphaned)
      BY <1>16 DEF CrashReleasing
    <2>2. QED
      BY <2>1, <1>16, UnloadedFacts DEF CrashReleasing, LoseMemory, StillLoaded
  <1>17. CASE Restart
    BY <1>17 DEF Restart
  <1>18. CASE SensorRestart
    BY <1>18 DEF SensorRestart
  <1>19. CASE Advance
    BY <1>19 DEF Advance, Clock
  <1>20. CASE UNCHANGED vars
    BY <1>20 DEF vars
  <1>21. QED
    BY <1>4, <1>5, <1>6, <1>7, <1>8, <1>9, <1>10, <1>11, <1>12, <1>13, <1>14,
       <1>15, <1>16, <1>17, <1>18, <1>19, <1>20 DEF Next, StepJoins

\* The first state of a fresh machine is well typed.
LEMMA InitType == Init => TypeOK
  <1> SUFFICES ASSUME Init PROVE TypeOK
    OBVIOUS
  <1>1. clock \in Clock
    BY ContainAssumption DEF Init, Clock
  <1>2. verdict \in [Chains -> Verdicts] /\ kernel \in [Slots -> Chains \cup {NoChain}]
    BY DEF Init, Verdicts
  <1>3. disk \in [enabled : BOOLEAN, live : SUBSET Record]
    BY ContainAssumption DEF Init
  <1>4. QED
    BY <1>1, <1>2, <1>3, ContainAssumption DEF Init, TypeOK

\* Type correctness of the containment component.
THEOREM TypeCorrect == Spec => []TypeOK
  BY InitType, TypeStep, PTL DEF Spec

-----------------------------------------------------------------------------
(* The inductive invariant. *)

\* A release takes policies out of the kernel and records that stay keep theirs:
\* used by every handler that removes the records R from the books.
LEMMA ReleaseAccounted ==
  ASSUME TypeOK, NEW R \in SUBSET live, Release(R),
         \A s \in Slots : kernel[s] # NoChain /\ s \notin orphaned =>
           \E r \in live : r.slot = s /\ r.chain = kernel[s]
  PROVE  \A s \in Slots : kernel'[s] # NoChain /\ s \notin orphaned' =>
           \E r \in live \ R : r.slot = s /\ r.chain = kernel'[s]
  <1>1. PICK refused \in Refusals(SlotsIn(R)) :
          /\ kernel' = Unloaded(kernel, SlotsIn(R) \ refused)
          /\ orphaned' = StillLoaded(kernel', orphaned \cup refused)
    BY DEF Release
  <1>2. SUFFICES ASSUME NEW s \in Slots, kernel'[s] # NoChain, s \notin orphaned'
                 PROVE  \E r \in live \ R : r.slot = s /\ r.chain = kernel'[s]
    OBVIOUS
  <1>3. s \notin SlotsIn(R) \ refused /\ kernel'[s] = kernel[s]
    BY <1>1, <1>2, UnloadedFacts DEF TypeOK
  <1>4. s \notin orphaned /\ s \notin refused
    BY <1>1, <1>2 DEF StillLoaded
  <1>5. PICK r \in live : r.slot = s /\ r.chain = kernel[s]
    BY <1>2, <1>3, <1>4
  <1>6. r \notin R
    BY <1>3, <1>4, <1>5 DEF SlotsIn
  <1>7. QED
    BY <1>3, <1>5, <1>6

\* Containing a chain keeps one record per slot: the slot is free, or its record
\* is the one the insert pushes out.
LEMMA ContainDistinct ==
  ASSUME TypeOK, Distinct(live), NEW c \in Chains, ~Contained(c),
         NEW head \in Heads, NEW s \in SlotFor(head)
  PROVE  /\ Distinct((live \ Dropped(c, head)) \cup {NewRecord(c, s)})
         /\ \A r \in live \ Dropped(c, head) : r.slot # s
  <1>1. s \in Slots /\ (FreeSlots # {} => s \in FreeSlots)
        /\ (FreeSlots = {} => s = head.slot /\ head \in live)
    BY SlotForFacts
  <1>2. \A r \in live \ Dropped(c, head) : r.slot # s
    <2>1. CASE FreeSlots # {}
      BY <2>1, <1>1 DEF FreeSlots, SlotsIn
    <2>2. CASE FreeSlots = {}
      <3>1. \A r \in live : r.slot \in Slots
        BY DEF TypeOK, Record
      <3>2. Cardinality(live) = Max
        BY <2>2, <3>1, SlotCount DEF FreeSlots
      <3>3. head \in Dropped(c, head)
        BY <3>2, ContainAssumption DEF Dropped
      <3>4. QED
        BY <2>2, <1>1, <3>3 DEF Distinct
    <2>3. QED
      BY <2>1, <2>2
  <1>3. \A r \in live : r.chain # c
    BY DEF Contained, ChainsIn
  <1>4. NewRecord(c, s).slot = s /\ NewRecord(c, s).chain = c
    BY DEF NewRecord
  <1>5. QED
    BY <1>2, <1>3, <1>4 DEF Distinct

\* ... and every policy left in the kernel has its record.
LEMMA ContainAccounted ==
  ASSUME TypeOK, Distinct(live), NEW c \in Chains, ~Contained(c),
         NEW head \in Heads, NEW refused, NEW s \in SlotFor(head),
         NEW kept \in Refusals(SlotsIn(Dropped(c, head))),
         Contained1(c, head, refused, s, kept),
         \A t \in Slots : kernel[t] # NoChain /\ t \notin orphaned =>
           \E r \in live : r.slot = t /\ r.chain = kernel[t]
  PROVE  \A t \in Slots : kernel'[t] # NoChain /\ t \notin orphaned' =>
           \E r \in live' : r.slot = t /\ r.chain = kernel'[t]
  <1> DEFINE free == AfterSlotFor(s, refused)
             loaded == [free EXCEPT ![s] = c]
             dropped == Dropped(c, head)
  <1>1. s \in Slots
    BY SlotForFacts
  <1>2. free \in [Slots -> Chains \cup {NoChain}]
        /\ \A t \in Slots : free[t] # NoChain => free[t] = kernel[t]
    BY UnloadedFacts DEF AfterSlotFor, TypeOK
  <1>3. loaded \in [Slots -> Chains \cup {NoChain}]
    BY <1>1, <1>2
  <1>4. SUFFICES ASSUME NEW t \in Slots, kernel'[t] # NoChain, t \notin orphaned'
                 PROVE  \E r \in live' : r.slot = t /\ r.chain = kernel'[t]
    OBVIOUS
  <1>5. t \notin SlotsIn(dropped) \ kept /\ kernel'[t] = loaded[t]
    <2>1. kernel' = Unloaded(loaded, SlotsIn(dropped) \ kept)
      BY DEF Contained1
    <2> HIDE DEF loaded, dropped
    <2>2. \A u \in Slots : Unloaded(loaded, SlotsIn(dropped) \ kept)[u] # NoChain
            => /\ u \notin SlotsIn(dropped) \ kept
               /\ Unloaded(loaded, SlotsIn(dropped) \ kept)[u] = loaded[u]
      BY <1>3, UnloadedFacts
    <2>3. QED
      BY <1>4, <2>1, <2>2
  <1>6. NewRecord(c, s) \in live' /\ live \ dropped \subseteq live'
    BY DEF Contained1
  <1>7. CASE t = s
    BY <1>7, <1>5, <1>6, <1>1, <1>2 DEF NewRecord
  <1>8. CASE t # s
    <2>1. kernel'[t] = kernel[t]
      BY <1>8, <1>4, <1>5, <1>2
    <2>2. t \notin orphaned /\ t \notin kept \ SlotsIn(live')
      BY <1>4 DEF Contained1, StillLoaded
    <2>3. PICK r \in live : r.slot = t /\ r.chain = kernel[t]
      BY <2>1, <2>2, <1>4
    <2>4. CASE r \notin dropped
      BY <2>1, <2>3, <2>4, <1>6
    <2>5. CASE r \in dropped
      <3>1. t \in SlotsIn(live')
        BY <2>2, <2>3, <2>5, <1>5 DEF SlotsIn
      <3>2. PICK q \in live' : q.slot = t
        BY <3>1 DEF SlotsIn
      <3>3. q \in live \ dropped
        BY <3>2, <1>8 DEF Contained1, NewRecord
      <3>4. QED
        BY <2>3, <2>5, <3>2, <3>3 DEF Distinct
    <2>6. QED
      BY <2>4, <2>5
  <1>9. QED
    BY <1>7, <1>8

-----------------------------------------------------------------------------

\* The books of a running daemon are its records.
LEMMA UpAccounted ==
  ASSUME up, KernelAccounted
  PROVE  \A s \in Slots : kernel[s] # NoChain /\ s \notin orphaned =>
           \E r \in live : r.slot = s /\ r.chain = kernel[s]
  BY DEF KernelAccounted, Books

\* A crash closes the books on the file, which holds every record that was live.
LEMMA CrashAccounted ==
  ASSUME up, KernelAccounted, RecordsOnDisk, LoseMemory,
         \A s \in Slots : kernel'[s] # NoChain /\ s \notin orphaned' =>
           kernel'[s] = kernel[s] /\ s \notin orphaned
  PROVE  KernelAccounted'
  BY DEF KernelAccounted, Books, RecordsOnDisk, LoseMemory

\* Every action preserves the invariant.
LEMMA InvStep == IInv /\ [Next]_vars => IInv'
  <1> SUFFICES ASSUME IInv, [Next]_vars PROVE IInv'
    OBVIOUS
  <1>t. TypeOK'
    BY TypeStep DEF IInv
  <1> DEFINE Rest == Distinct(live) /\ Distinct(disk.live) /\ RecordsOnDisk
                     /\ KernelAccounted /\ Quiet /\ LowIsReleased
  <1>f. Rest /\ TypeOK
    BY DEF IInv
  <1> SUFFICES Rest'
    BY <1>t DEF IInv
  <1> USE <1>f
  <1>1. ASSUME NEW c \in Chains, NEW sev \in {"low", "high"}, JudgeOnly(c, sev)
        PROVE  Rest'
    <2>1. UNCHANGED <<up, enabled, live, kernel, disk, orphaned, reverted>> /\ up
      BY <1>1 DEF JudgeOnly, Running
    <2>2. (Distinct(live) /\ Distinct(disk.live) /\ RecordsOnDisk /\ KernelAccounted)'
      BY <2>1 DEF RecordsOnDisk, KernelAccounted, Books
    <2>3. Quiet'
      BY <2>1 DEF Quiet
    <2>4. LowIsReleased'
      BY <1>1, <2>1 DEF JudgeOnly, Judged, LowIsReleased, Contained, ChainsIn, Quiet, TypeOK
    <2>5. QED
      BY <2>2, <2>3, <2>4
  <1>2. ASSUME NEW c \in Chains, Withdraw(c) PROVE Rest'
    <2>1. PICK r \in live : r.chain = c /\ Release({r}) /\ live' = live \ {r}
      BY <1>2 DEF Withdraw
    <2>2. UNCHANGED <<up, enabled, disk, reverted>> /\ up
      BY <1>2 DEF Withdraw, Running
    <2>3. (Distinct(live) /\ Distinct(disk.live) /\ RecordsOnDisk)'
      BY <2>1, <2>2 DEF Distinct, RecordsOnDisk
    <2>4. KernelAccounted'
      BY <2>1, <2>2, UpAccounted, ReleaseAccounted DEF KernelAccounted, Books
    <2>5. Quiet'
      BY <2>1, <2>2 DEF Quiet
    <2>6. c \notin ChainsIn(live')
      BY <2>1 DEF ChainsIn, Distinct
    <2>7. LowIsReleased'
      BY <1>2, <2>1, <2>2, <2>6 DEF Withdraw, Judged, LowIsReleased, Contained, ChainsIn, TypeOK
    <2>8. QED
      BY <2>3, <2>4, <2>5, <2>7
  <1>3. ASSUME NEW c \in Chains, Contain(c) PROVE Rest'
    <2>1. up /\ enabled /\ ~Contained(c)
      BY <1>3 DEF Contain, Containable, Running
    <2>2. UNCHANGED <<up, enabled, reverted>> /\ disk' = Saved(live', enabled)
      BY <1>3 DEF Contain
    <2> PICK head \in Heads, refused \in MayFail :
          \E s \in SlotFor(head), kept \in Refusals(SlotsIn(Dropped(c, head))) :
            Contained1(c, head, refused, s, kept)
      BY <1>3, ContainShape
    <2> PICK s \in SlotFor(head), kept \in Refusals(SlotsIn(Dropped(c, head))) :
            Contained1(c, head, refused, s, kept)
      OBVIOUS
    <2>3. live' = (live \ Dropped(c, head)) \cup {NewRecord(c, s)}
      BY DEF Contained1
    <2>4. Distinct(live')
      BY <2>1, <2>3, ContainDistinct
    <2>5. disk'.live = live' /\ disk'.enabled = TRUE
      BY <2>1, <2>2 DEF Saved
    <2>6. (Distinct(live) /\ Distinct(disk.live) /\ RecordsOnDisk)'
      BY <2>4, <2>5 DEF RecordsOnDisk
    <2>7. KernelAccounted'
      BY <2>1, <2>2, UpAccounted, ContainAccounted DEF KernelAccounted, Books
    <2>8. Quiet'
      BY <2>1, <2>2, <2>5 DEF Quiet
    <2>9. LowIsReleased'
      <3>1. \A d \in Chains : d # c /\ d \in ChainsIn(live') => d \in ChainsIn(live)
        BY <2>3 DEF ChainsIn, NewRecord
      <3>2. verdict' = [verdict EXCEPT ![c] = "high"]
        BY <1>3 DEF Contain, Judged
      <3>3. QED
        BY <2>2, <3>1, <3>2 DEF LowIsReleased, Contained, TypeOK
    <2>10. QED
      BY <2>6, <2>7, <2>8, <2>9
  <1>4. ASSUME NEW c \in Chains, ContainFails(c) PROVE Rest'
    <2>1. UNCHANGED <<up, enabled, live, disk, reverted>> /\ up
          /\ verdict' = [verdict EXCEPT ![c] = "high"]
      BY <1>4 DEF ContainFails, Containable, Running, Judged
    <2>2. (Distinct(live) /\ Distinct(disk.live) /\ RecordsOnDisk /\ Quiet)'
      BY <2>1 DEF RecordsOnDisk, Quiet
    <2>3. \A s \in Slots : kernel'[s] # NoChain /\ s \notin orphaned' =>
            kernel'[s] = kernel[s] /\ s \notin orphaned
      BY <1>4, UnloadedFacts DEF ContainFails, AfterSlotFor, StillLoaded, TypeOK
    <2>4. KernelAccounted'
      BY <2>1, <2>3 DEF KernelAccounted, Books
    <2>5. LowIsReleased'
      BY <2>1 DEF LowIsReleased, Contained, ChainsIn, TypeOK
    <2>6. QED
      BY <2>2, <2>4, <2>5
  <1>5. ASSUME NEW c \in Chains, ChainCloses(c) PROVE Rest'
    <2>1. UNCHANGED <<up, enabled, live, kernel, disk, orphaned, reverted>> /\ up
          /\ verdict' = [verdict EXCEPT ![c] = "none"]
      BY <1>5 DEF ChainCloses, Judged
    <2>2. (Distinct(live) /\ Distinct(disk.live) /\ RecordsOnDisk /\ KernelAccounted /\ Quiet)'
      BY <2>1 DEF RecordsOnDisk, Quiet, KernelAccounted, Books
    <2>3. LowIsReleased'
      BY <2>1 DEF LowIsReleased, Contained, ChainsIn, TypeOK
    <2>4. QED
      BY <2>2, <2>3
  <1>6. ASSUME NEW R \in SUBSET live, Release(R), up, up' = up, live' = live \ R,
               NEW e \in BOOLEAN, enabled' = e, disk' = Saved(live', e),
               UNCHANGED <<verdict, reverted>>,
               ~e /\ live' # {} => reverted
        PROVE  Rest'
    <2>1. disk'.live = live' /\ disk'.enabled = e
      BY <1>6 DEF Saved
    <2>2. (Distinct(live) /\ Distinct(disk.live) /\ RecordsOnDisk /\ Quiet)'
      BY <1>6, <2>1 DEF Distinct, RecordsOnDisk, Quiet
    <2>3. KernelAccounted'
      BY <1>6, UpAccounted, ReleaseAccounted DEF KernelAccounted, Books
    <2>4. LowIsReleased'
      BY <1>6 DEF LowIsReleased, Contained, ChainsIn
    <2>5. QED
      BY <2>2, <2>3, <2>4
  <1>7. CASE Tick
    <2> PICK R \in SUBSET live : R = Expired
      BY DEF Expired
    <2>1. Release(R)
      BY <1>7 DEF Tick
    <2>2. up /\ up' = up /\ live' = live \ R /\ enabled' = enabled
          /\ enabled \in BOOLEAN /\ disk' = Saved(live', enabled)
          /\ UNCHANGED <<verdict, reverted>>
      BY <1>7 DEF Tick, TypeOK
    <2>3. ~enabled /\ live' # {} => reverted
      BY <2>2 DEF Quiet
    <2>4. QED
      BY <2>1, <2>2, <2>3, <1>6
  <1>8. ASSUME NEW c \in Chains, ReleaseChain(c) PROVE Rest'
    <2>1. PICK r \in live : r.chain = c /\ Release({r}) /\ live' = live \ {r}
      BY <1>8 DEF ReleaseChain
    <2>2. up /\ up' = up /\ enabled' = enabled /\ enabled \in BOOLEAN
          /\ disk' = Saved(live', enabled) /\ UNCHANGED <<verdict, reverted>>
      BY <1>8 DEF ReleaseChain, TypeOK
    <2>3. ~enabled /\ live' # {} => reverted
      BY <2>1, <2>2 DEF Quiet
    <2>4. QED
      BY <2>1, <2>2, <2>3, <1>6
  <1>9. CASE SetContainOn
    <2>1. UNCHANGED <<up, live, verdict, kernel, orphaned, reverted>> /\ up /\ enabled'
          /\ disk'.live = live /\ disk'.enabled = TRUE
      BY <1>9 DEF SetContainOn, Saved
    <2>2. (Distinct(live) /\ Distinct(disk.live) /\ RecordsOnDisk /\ KernelAccounted)'
      BY <2>1 DEF RecordsOnDisk, KernelAccounted, Books
    <2>3. Quiet'
      BY <2>1 DEF Quiet
    <2>4. LowIsReleased'
      BY <2>1 DEF LowIsReleased, Contained, ChainsIn
    <2>5. QED
      BY <2>2, <2>3, <2>4
  <1>10. CASE SetContainOff
    <2> PICK R \in SUBSET live : R = live
      OBVIOUS
    <2>1. Release(R) /\ up /\ up' = up /\ live' = live \ R
          /\ enabled' = FALSE /\ disk' = Saved(live', FALSE)
          /\ UNCHANGED <<verdict, reverted>> /\ live' = {}
      BY <1>10 DEF SetContainOff
    <2>2. QED
      BY <2>1, <1>6
  <1>11. CASE Reload
    <2>1. UNCHANGED <<up, live, verdict, kernel, disk, orphaned>> /\ up
          /\ enabled' = FileEnabled /\ reverted' = (reverted \/ enabled # FileEnabled)
      BY <1>11 DEF Reload
    <2>2. (Distinct(live) /\ Distinct(disk.live) /\ RecordsOnDisk /\ KernelAccounted)'
      BY <2>1 DEF RecordsOnDisk, KernelAccounted, Books
    <2>3. reverted => reverted'
      BY <2>1
    <2>4. Quiet'
      BY <2>1, <2>3 DEF Quiet
    <2>5. LowIsReleased'
      BY <2>1, <2>3 DEF LowIsReleased, Contained, ChainsIn
    <2>6. QED
      BY <2>2, <2>4, <2>5
  <1>12. ASSUME LoseMemory,
                \A s \in Slots : kernel'[s] # NoChain /\ s \notin orphaned' =>
                  kernel'[s] = kernel[s] /\ s \notin orphaned
         PROVE  Rest'
    <2>1. up /\ ~up' /\ live' = {} /\ verdict' = [c \in Chains |-> "none"]
          /\ UNCHANGED <<enabled, disk, reverted>>
      BY <1>12 DEF LoseMemory
    <2>2. KernelAccounted'
      BY <1>12, <2>1, CrashAccounted
    <2>3. QED
      BY <2>1, <2>2 DEF Distinct, RecordsOnDisk, Quiet, LowIsReleased, Contained, ChainsIn
  <1>13. CASE Crash
    <2>1. \A s \in Slots : kernel'[s] # NoChain /\ s \notin orphaned' =>
            kernel'[s] = kernel[s] /\ s \notin orphaned
      BY <1>13 DEF Crash
    <2>2. LoseMemory
      BY <1>13 DEF Crash
    <2>3. QED
      BY <2>1, <2>2, <1>12
  <1>14. ASSUME NEW c \in Chains, CrashContaining(c) PROVE Rest'
    <2> PICK head \in Heads : \E s \in SlotFor(head) : CrashedAt(c, head, s)
      BY <1>14, CrashShape
    <2> PICK s \in SlotFor(head) : CrashedAt(c, head, s)
      OBVIOUS
    <2> DEFINE free == AfterSlotFor(s, FALSE)
               loaded == [free EXCEPT ![s] = c]
    <2>1. free \in [Slots -> Chains \cup {NoChain}]
          /\ \A t \in Slots : free[t] # NoChain => free[t] = kernel[t]
      BY UnloadedFacts DEF AfterSlotFor, TypeOK
    <2>2. loaded \in [Slots -> Chains \cup {NoChain}]
          /\ \A t \in Slots : t # s => loaded[t] = free[t]
      BY <2>1
    <2>3. \A t \in Slots : kernel'[t] # NoChain => kernel'[t] = free[t] \/ kernel'[t] = loaded[t]
      <3>1. CASE kernel' = free \/ kernel' = loaded
        BY <3>1
      <3>2. CASE kernel' = Unloaded(loaded, SlotsIn(Dropped(c, head)))
        <4> DEFINE gone == SlotsIn(Dropped(c, head))
        <4> HIDE DEF loaded, gone
        <4>1. \A t \in Slots : Unloaded(loaded, gone)[t] # NoChain
                => Unloaded(loaded, gone)[t] = loaded[t]
          BY <2>2, UnloadedFacts
        <4>2. kernel' = Unloaded(loaded, gone)
          BY <3>2 DEF gone
        <4>3. QED
          BY <4>1, <4>2
      <3>3. QED
        BY <3>1, <3>2 DEF CrashedAt
    <2>4. \A t \in Slots : kernel'[t] # NoChain /\ t \notin orphaned' =>
            t # s /\ t \notin orphaned
      BY DEF CrashedAt, StillLoaded
    <2>5. \A t \in Slots : kernel'[t] # NoChain /\ t \notin orphaned' =>
            kernel'[t] = kernel[t] /\ t \notin orphaned
      BY <2>1, <2>2, <2>3, <2>4
    <2>6. LoseMemory
      BY <1>14 DEF CrashContaining
    <2>7. QED
      BY <2>5, <2>6, <1>12
  <1>15. CASE CrashReleasing
    <2>1. \A s \in Slots : kernel'[s] # NoChain /\ s \notin orphaned' =>
            kernel'[s] = kernel[s] /\ s \notin orphaned
      BY <1>15, UnloadedFacts DEF CrashReleasing, StillLoaded, TypeOK
    <2>2. LoseMemory
      BY <1>15 DEF CrashReleasing
    <2>3. QED
      BY <2>1, <2>2, <1>12
  <1>16. CASE Restart
    <2>1. ~up /\ up' /\ enabled' = disk.enabled /\ live' = disk.live
          /\ UNCHANGED <<verdict, kernel, disk, orphaned, reverted>>
      BY <1>16 DEF Restart
    <2>2. (Distinct(live) /\ Distinct(disk.live) /\ RecordsOnDisk)'
      BY <2>1 DEF RecordsOnDisk
    <2>3. KernelAccounted'
      BY <2>1 DEF KernelAccounted, Books
    <2>4. Quiet'
      BY <2>1 DEF Quiet
    <2>5. LowIsReleased'
      BY <2>1 DEF LowIsReleased, Contained, ChainsIn, Quiet
    <2>6. QED
      BY <2>2, <2>3, <2>4, <2>5
  <1>17. CASE SensorRestart
    <2>1. UNCHANGED <<up, enabled, live, verdict, disk, reverted>>
          /\ \A s \in Slots : kernel'[s] = NoChain
      BY <1>17 DEF SensorRestart
    <2>2. (Distinct(live) /\ Distinct(disk.live) /\ RecordsOnDisk /\ KernelAccounted)'
      BY <2>1 DEF RecordsOnDisk, KernelAccounted
    <2>3. Quiet'
      BY <2>1 DEF Quiet
    <2>4. LowIsReleased'
      BY <2>1 DEF LowIsReleased, Contained, ChainsIn
    <2>5. QED
      BY <2>2, <2>3, <2>4
  <1>18. CASE Advance \/ UNCHANGED vars
    <2>1. UNCHANGED <<up, enabled, live, verdict, kernel, disk, orphaned, reverted>>
      BY <1>18 DEF Advance, vars
    <2>2. (Distinct(live) /\ Distinct(disk.live) /\ RecordsOnDisk /\ KernelAccounted)'
      BY <2>1 DEF RecordsOnDisk, KernelAccounted, Books
    <2>3. Quiet'
      BY <2>1 DEF Quiet
    <2>4. LowIsReleased'
      BY <2>1 DEF LowIsReleased, Contained, ChainsIn
    <2>5. QED
      BY <2>2, <2>3, <2>4
  <1>19. QED
    BY <1>1, <1>2, <1>3, <1>4, <1>5, <1>7, <1>8, <1>9, <1>10, <1>11, <1>13,
       <1>14, <1>15, <1>16, <1>17, <1>18 DEF Next, StepJoins

\* The invariant holds of a fresh machine.
LEMMA InvInit == Init => IInv
  BY InitType DEF Init, IInv, Distinct, RecordsOnDisk, KernelAccounted, Quiet,
     LowIsReleased

\* The inductive invariant is an invariant.
THEOREM Invariance == Spec => []IInv
  BY InvInit, InvStep, PTL DEF Spec

\* Containments never share a slot name or a chain and never exceed the cap
\* (contain_slot_for, ContainStore::insert, from_state).
THEOREM SlotsConsistentAlways == Spec => []SlotsConsistent
  <1>1. IInv => SlotsConsistent
    <2> SUFFICES ASSUME IInv PROVE SlotsConsistent
      OBVIOUS
    <2>1. Cardinality(live) <= Max
      BY SlotCount DEF IInv, TypeOK, Record
    <2>2. QED
      BY <2>1 DEF IInv, Distinct, SlotsConsistent
  <1>2. QED
    BY <1>1, Invariance, PTL

\* Whatever the kernel refuses on moatd's behalf is in the daemon's books, unless
\* a refused delete or a crash inside a handler lost it.
THEOREM KernelAccountedAlways == Spec => []KernelAccounted
  <1>1. IInv => KernelAccounted
    BY DEF IInv
  <1>2. QED
    BY <1>1, Invariance, PTL

\* A crash between handlers forgets no containment.
THEOREM RecordsOnDiskAlways == Spec => []RecordsOnDisk
  <1>1. IInv => RecordsOnDisk
    BY DEF IInv
  <1>2. QED
    BY <1>1, Invariance, PTL

\* A containment does not outlive the conclusion that justified it, unless a
\* SIGHUP switched containment off under it.
THEOREM LowIsReleasedAlways == Spec => []LowIsReleased
  <1>1. IInv => LowIsReleased
    BY DEF IInv
  <1>2. QED
    BY <1>1, Invariance, PTL

=============================================================================
