-------------------------- MODULE PosixCommitProofs --------------------------
(***************************************************************************)
(* A receipt is for good: for every number of faults, crashes and          *)
(* substitutions, and every limit of the machine's sequence, a receiver    *)
(* that publishes through vot-sdk-file is given a PUBLISHED receipt only   *)
(* for an object that no power loss can take back.                         *)
(***************************************************************************)
EXTENDS PosixCommit, TLAPS

\* The bytes are flushed where the profile asks for it.
Flushed == profile # "Fast" => data.synced

\* The destination is durable, and the staging alias is gone for good.
Placed ==
  /\ names.dest = "own" /\ durable.dest = {"own"}
  /\ names.stage # "own" /\ "own" \notin durable.stage

\* The points of a handler that lie behind a flush of the bytes.
AfterFlush == {"record_durable", "seal", "read_back", "record_at_rest", "namespace",
               "link_at", "link_verify", "record_linked", "sync_dest", "unlink",
               "sync_stage", "record_published"}

Early == {"fresh", "staged", "journal_made", "admit"}

-----------------------------------------------------------------------------
(* The inductive invariant.  Nothing is said of the machine of a recovered *)
(* commit: it comes out of a replay of the records, and the receipt does   *)
(* not depend on it.                                                       *)

NamesOK ==
  /\ names \in [stage: Inodes, dest: Inodes, journal: BOOLEAN]
  /\ durable \in [stage: SUBSET Inodes, dest: SUBSET Inodes, journal: SUBSET BOOLEAN]
  /\ names.dest \in durable.dest

DataOK ==
  /\ data \in [complete: BOOLEAN, synced: BOOLEAN, lost: BOOLEAN]
  /\ data.synced => data.complete /\ ~data.lost

LogOK ==
  /\ log = [records |-> log.records, synced |-> log.synced, torn |-> log.torn,
            corrupt |-> log.corrupt]
  /\ log.records \in Seq(RecordKinds) /\ log.synced \in 0..Len(log.records)

Shaped(m) ==
  /\ m = [profile |-> m.profile, state |-> m.state, current |-> m.current,
          recovery |-> m.recovery, sequence |-> m.sequence, performed |-> m.performed]
  /\ m.current = TRUE
  /\ m.sequence \in 0..MaxSequence

CommitShape(c) ==
  /\ c = [pc |-> c.pc, machine |-> c.machine, sealed |-> c.sealed,
          verified |-> c.verified, poisoned |-> c.poisoned, recovered |-> c.recovered]
  /\ c.verified \in BOOLEAN /\ c.recovered \in BOOLEAN
  /\ ~c.recovered => Shaped(c.machine)

\* What is known at the points of a handler about how it got there.
PcInv ==
  /\ commit.pc \in Early =>
       log.records = <<>> /\ ~receipted /\ ~commit.verified /\ ~commit.recovered
  /\ At("sync_data") => commit.verified /\ ~commit.recovered
  /\ At("recover_data") \/ At("recover_log") => commit.recovered
  /\ At("recover_data") => profile # "Fast"

TransitSynced == \E i \in 1..log.synced : log.records[i] = "TRANSIT_VERIFIED"

\* Pages are lost only in a flush, which comes after the flushed record of the
\* transit verification, so that the incarnation is not admitted again.
LostInv ==
  /\ data.lost => commit.verified \/ commit.recovered \/ At("gone")
  /\ data.lost \/ commit.verified => TransitSynced

\* No name and no machine is ahead of the flush of the bytes.
FlushInv ==
  /\ "own" \in durable.dest => Flushed
  /\ commit.pc \in AfterFlush \/ commit.recovered => Flushed
  /\ ~commit.recovered /\ commit.machine.state = "RecoveryRequired" => Flushed
  /\ ~Flushed /\ commit.machine.state = "TransitVerified" =>
       data.complete /\ (data.lost => commit.machine.sequence = MaxSequence)

\* How far seal_namespace has got, and what a receipt or a record rests on.
PlaceInv ==
  /\ At("unlink") => names.dest = "own" /\ durable.dest = {"own"}
  /\ At("sync_stage") => names.dest = "own" /\ durable.dest = {"own"} /\ names.stage # "own"
  /\ At("record_published") => Placed
  /\ receipted \/ HasRecord("PUBLISHED") => Placed /\ Flushed

Inv ==
  /\ NamesOK /\ DataOK /\ LogOK /\ CommitShape(commit)
  /\ PcInv /\ LostInv /\ FlushInv /\ PlaceInv

-----------------------------------------------------------------------------
(* Steps as the names, the bytes and the records see them.                 *)

\* What a step may do to the names.
NameStep ==
  \/ UNCHANGED <<names, durable>>
  \/ At("fresh") /\ SetName("stage", "own")
  \/ At("link_at") /\ names.dest = "absent" /\ SetName("dest", names.stage)
  \/ UNCHANGED names /\ SyncStageParent
  \/ UNCHANGED names /\ SyncDestParent
  \/ names.stage = "own" /\ \E i \in {"absent", "other"} : SetName("stage", i)
  \/ names.dest # "own" /\ \E i \in {"absent", "other"} : SetName("dest", i)
  \/ \E j \in BOOLEAN : SetName("journal", j)
  \/ RemoveOwnedNames
  \/ \E s \in durable.stage, d \in durable.dest, j \in durable.journal :
       /\ names' = [stage |-> s, dest |-> d, journal |-> j]
       /\ durable' = [stage |-> {s}, dest |-> {d}, journal |-> {j}]

\* Every step changes the names in one of these ways.
LEMMA NamesStep ==
  ASSUME NamesOK, [Next]_vars
  PROVE  NameStep
<1> USE DEF NameStep
<1>1. CASE Step
  <2>1. CASE SyncData \/ RecordDurable \/ Seal \/ ReadBack \/ RecordAtRest \/ EnterNamespace
    BY <2>1 DEF SyncData, RecordDurable, Seal, ReadBack, RecordAtRest, EnterNamespace
  <2>2. CASE Admit \/ LinkVerify \/ RecordLinked \/ RecordPublished \/ RecoverData \/ RecoverLog
    BY <2>2 DEF Admit, LinkVerify, RecordLinked, RecordPublished, RecoverData, RecoverLog
  <2>3. CASE CreateStaging \/ CreateJournal \/ SyncJournalName
    BY <2>3 DEF CreateStaging, CreateJournal, SyncJournalName
  <2>4. CASE LinkAt
    BY <2>4 DEF LinkAt
  <2>5. CASE SyncDest \/ SyncStage
    BY <2>5 DEF SyncDest, SyncStage
  <2>6. CASE RemoveAlias
    BY <2>6 DEF RemoveAlias, NamesOK, Inodes
  <2>7. QED
    BY <1>1, <2>1, <2>2, <2>3, <2>4, <2>5, <2>6 DEF Step
<1>2. CASE StepFails
  <2>1. CASE LinkAtFails \/ LinkAtUnclassified
    BY <2>1 DEF LinkAtFails, LinkAtUnclassified
  <2>2. CASE CreateFails \/ AdmitFails
    BY <2>2 DEF CreateFails, AdmitFails
  <2>3. CASE SyncDataFails \/ RecordDurableFails \/ ReadBackMismatch \/ RecordAtRestFails
              \/ EnterNamespaceFails \/ LinkVerifyFails \/ RecordLinkedFails
              \/ SealNamespaceFails \/ RecordPublishedFails \/ RecoverFails
    BY <2>3 DEF SyncDataFails, RecordDurableFails, ReadBackMismatch, RecordAtRestFails,
       EnterNamespaceFails, LinkVerifyFails, RecordLinkedFails, SealNamespaceFails,
       RecordPublishedFails, RecoverFails
  <2>4. QED
    BY <1>2, <2>1, <2>2, <2>3 DEF StepFails
<1>3. CASE Call
  <2>1. CASE Cancel \/ CleanupPublished
    BY <2>1 DEF Cancel, CleanupPublished
  <2>2. CASE Write \/ WriteFails \/ FinishTransitVerified \/ FinishTransitFails \/ Publish
              \/ Retry \/ RetryRepairFails \/ RetryLookupFails
    BY <2>2 DEF Write, WriteFails, FinishTransitVerified, FinishTransitFails, Publish,
       Retry, RetryRepairFails, RetryLookupFails
  <2>3. CASE Abandon \/ Reattach \/ ReopenPublication \/ OpenRefused \/ FinishRecovered
    BY <2>3 DEF Abandon, Reattach, ReopenPublication, OpenRefused, FinishRecovered
  <2>4. QED
    BY <1>3, <2>1, <2>2, <2>3 DEF Call
<1>4. CASE Environment
  <2>1. CASE Occupy \/ Vacate \/ Swap \/ ProcessCrash
    BY <2>1 DEF Occupy, Vacate, Swap, ProcessCrash
  <2>2. CASE PowerLoss
    BY <2>2 DEF PowerLoss
  <2>3. QED
    BY <1>4, <2>1, <2>2 DEF Environment
<1>5. CASE UNCHANGED vars
  BY <1>5 DEF vars
<1>6. QED
  BY <1>1, <1>2, <1>3, <1>4, <1>5 DEF Next

\* The names after a step, field by field.
LEMMA NamesKept ==
  ASSUME NamesOK, [Next]_vars
  PROVE  /\ NamesOK'
         /\ Placed /\ ~At("fresh") => Placed'
         /\ "own" \in durable'.dest => "own" \in durable.dest \/ At("link_at")
<1> USE DEF NamesOK, Inodes, Placed
<1>1. CASE UNCHANGED <<names, durable>>
  BY <1>1
<1>2. CASE At("fresh") /\ SetName("stage", "own")
  BY <1>2 DEF SetName
<1>3. CASE At("link_at") /\ names.dest = "absent" /\ SetName("dest", names.stage)
  BY <1>3 DEF SetName
<1>4. CASE UNCHANGED names /\ SyncStageParent
  BY <1>4 DEF SyncStageParent
<1>5. CASE UNCHANGED names /\ SyncDestParent
  BY <1>5 DEF SyncDestParent
<1>6. CASE names.stage = "own" /\ \E i \in {"absent", "other"} : SetName("stage", i)
  BY <1>6 DEF SetName
<1>7. CASE names.dest # "own" /\ \E i \in {"absent", "other"} : SetName("dest", i)
  BY <1>7 DEF SetName
<1>8. CASE \E j \in BOOLEAN : SetName("journal", j)
  BY <1>8 DEF SetName
<1>9. CASE RemoveOwnedNames
  BY <1>9 DEF RemoveOwnedNames
<1>10. CASE \E s \in durable.stage, d \in durable.dest, j \in durable.journal :
              /\ names' = [stage |-> s, dest |-> d, journal |-> j]
              /\ durable' = [stage |-> {s}, dest |-> {d}, journal |-> {j}]
  BY <1>10
<1>11. QED
  BY <1>1, <1>2, <1>3, <1>4, <1>5, <1>6, <1>7, <1>8, <1>9, <1>10, NamesStep DEF NameStep

\* What a step may do to the bytes.
DataStep ==
  \/ UNCHANGED data
  \/ data' = [data EXCEPT !.complete = TRUE, !.lost = FALSE]
  \/ At("sync_data") /\ data' = [data EXCEPT !.synced = data.complete /\ ~data.lost]
  \/ /\ At("sync_data") \/ At("recover_data")
     /\ \E lost \in BOOLEAN : data' = [data EXCEPT !.lost = lost /\ ~data.synced]
  \/ At("recover_data") /\ data' = [data EXCEPT !.synced = ~data.lost]
  \/ ~data.synced /\ data' = [data EXCEPT !.complete = FALSE]

\* Every step changes the bytes in one of these ways, and never the profile.
LEMMA BytesStep ==
  ASSUME [Next]_vars
  PROVE  DataStep /\ profile' = profile
<1> USE DEF DataStep
<1>1. CASE Step
  <2>1. CASE SyncData \/ RecoverData
    BY <2>1 DEF SyncData, RecoverData
  <2>2. CASE CreateStaging \/ CreateJournal \/ SyncJournalName \/ Admit \/ RecordDurable
              \/ Seal \/ ReadBack \/ RecordAtRest \/ EnterNamespace
    BY <2>2 DEF CreateStaging, CreateJournal, SyncJournalName, Admit, RecordDurable, Seal,
       ReadBack, RecordAtRest, EnterNamespace
  <2>3. CASE LinkAt \/ LinkVerify \/ RecordLinked \/ SyncDest \/ RemoveAlias \/ SyncStage
              \/ RecordPublished \/ RecoverLog
    BY <2>3 DEF LinkAt, LinkVerify, RecordLinked, SyncDest, RemoveAlias, SyncStage,
       RecordPublished, RecoverLog
  <2>4. QED
    BY <1>1, <2>1, <2>2, <2>3 DEF Step
<1>2. CASE StepFails
  <2>1. CASE SyncDataFails \/ RecoverFails
    BY <2>1 DEF SyncDataFails, RecoverFails
  <2>2. CASE CreateFails \/ AdmitFails \/ RecordDurableFails \/ ReadBackMismatch
              \/ RecordAtRestFails \/ EnterNamespaceFails
    BY <2>2 DEF CreateFails, AdmitFails, RecordDurableFails, ReadBackMismatch,
       RecordAtRestFails, EnterNamespaceFails
  <2>3. CASE LinkAtFails \/ LinkAtUnclassified \/ LinkVerifyFails \/ RecordLinkedFails
              \/ SealNamespaceFails \/ RecordPublishedFails
    BY <2>3 DEF LinkAtFails, LinkAtUnclassified, LinkVerifyFails, RecordLinkedFails,
       SealNamespaceFails, RecordPublishedFails
  <2>4. QED
    BY <1>2, <2>1, <2>2, <2>3 DEF StepFails
<1>3. CASE Call
  <2>1. CASE Write
    BY <2>1 DEF Write
  <2>2. CASE WriteFails \/ FinishTransitVerified \/ FinishTransitFails \/ Publish
              \/ Retry \/ RetryRepairFails \/ RetryLookupFails
    BY <2>2 DEF WriteFails, FinishTransitVerified, FinishTransitFails, Publish,
       Retry, RetryRepairFails, RetryLookupFails
  <2>3. CASE Cancel \/ Abandon \/ CleanupPublished \/ Reattach \/ ReopenPublication
              \/ OpenRefused \/ FinishRecovered
    BY <2>3 DEF Cancel, Abandon, CleanupPublished, Reattach, ReopenPublication,
       OpenRefused, FinishRecovered
  <2>4. QED
    BY <1>3, <2>1, <2>2, <2>3 DEF Call
<1>4. CASE Environment
  <2>1. CASE Occupy \/ Vacate \/ Swap \/ ProcessCrash
    BY <2>1 DEF Occupy, Vacate, Swap, ProcessCrash
  <2>2. CASE PowerLoss
    BY <2>2 DEF PowerLoss
  <2>3. QED
    BY <1>4, <2>1, <2>2 DEF Environment
<1>5. CASE UNCHANGED vars
  BY <1>5 DEF vars
<1>6. QED
  BY <1>1, <1>2, <1>3, <1>4, <1>5 DEF Next

\* Bytes that are flushed stay so: a flush that fails loses none of them.
LEMMA BytesKept ==
  ASSUME Inv, [Next]_vars
  PROVE  /\ DataOK'
         /\ Flushed => Flushed'
         /\ data'.lost => data.lost \/ At("sync_data")
<1>1. At("recover_data") => data.synced
  BY DEF Inv, PcInv, FlushInv, Flushed
<1>2. DataOK /\ profile' = profile
  BY BytesStep DEF Inv
<1> USE DEF DataOK, Flushed
<1>3. CASE UNCHANGED data
  BY <1>2, <1>3
<1>4. CASE data' = [data EXCEPT !.complete = TRUE, !.lost = FALSE]
  BY <1>2, <1>4
<1>5. CASE At("sync_data") /\ data' = [data EXCEPT !.synced = data.complete /\ ~data.lost]
  BY <1>2, <1>5
<1>6. CASE /\ At("sync_data") \/ At("recover_data")
           /\ \E lost \in BOOLEAN : data' = [data EXCEPT !.lost = lost /\ ~data.synced]
  BY <1>1, <1>2, <1>6
<1>7. CASE At("recover_data") /\ data' = [data EXCEPT !.synced = ~data.lost]
  BY <1>1, <1>2, <1>7
<1>8. CASE ~data.synced /\ data' = [data EXCEPT !.complete = FALSE]
  BY <1>2, <1>8
<1>9. QED
  BY <1>3, <1>4, <1>5, <1>6, <1>7, <1>8, BytesStep DEF DataStep

\* What a step may do to the journal.  A record is flushed, left unflushed
\* or torn; an opened, repaired or replayed journal is flushed; a power loss
\* cuts what was not.
LogStep ==
  \/ UNCHANGED log
  \/ \E kind \in RecordKinds :
       /\ kind = "PUBLISHED" => At("record_published")
       /\ \/ AppendDurable(kind)
          \/ log' = [log EXCEPT !.records = Append(@, kind)]
  \/ At("admit") /\ log' = [log EXCEPT !.records = <<"ADMITTED">>]
  \/ \E torn \in BOOLEAN : log' = [log EXCEPT !.torn = torn]
  \/ log' = [log EXCEPT !.synced = Len(log.records)]
  \/ log' = [log EXCEPT !.torn = FALSE, !.synced = Len(log.records)]
  \/ \E after \in SurvivingLogs : log' = after

\* Every step changes the journal in one of these ways.
LEMMA RecordsStep ==
  ASSUME [Next]_vars
  PROVE  LogStep
<1> USE DEF LogStep
<1>1. CASE Step
  <2>1. CASE Admit \/ RecordDurable \/ RecordAtRest \/ RecordLinked \/ RecordPublished
    BY <2>1 DEF Admit, RecordDurable, RecordAtRest, RecordLinked, RecordPublished, RecordKinds
  <2>2. CASE CreateStaging \/ CreateJournal \/ SyncJournalName \/ SyncData
              \/ Seal \/ ReadBack \/ EnterNamespace
    BY <2>2 DEF CreateStaging, CreateJournal, SyncJournalName, SyncData, Seal,
       ReadBack, EnterNamespace
  <2>3. CASE LinkAt \/ LinkVerify \/ SyncDest \/ RemoveAlias \/ SyncStage
              \/ RecoverData \/ RecoverLog
    BY <2>3 DEF LinkAt, LinkVerify, SyncDest, RemoveAlias, SyncStage, RecoverData, RecoverLog
  <2>4. QED
    BY <1>1, <2>1, <2>2, <2>3 DEF Step
<1>2. CASE StepFails
  <2>1. CASE AdmitFails
    BY <2>1 DEF AdmitFails
  <2>2. CASE RecordDurableFails \/ RecordAtRestFails \/ RecordLinkedFails
              \/ RecordPublishedFails
    BY <2>2 DEF RecordDurableFails, RecordAtRestFails, RecordLinkedFails,
       RecordPublishedFails, AppendFails, RecordKinds
  <2>3. CASE CreateFails \/ SyncDataFails \/ ReadBackMismatch \/ EnterNamespaceFails
              \/ LinkAtFails \/ LinkAtUnclassified \/ LinkVerifyFails
              \/ SealNamespaceFails \/ RecoverFails
    BY <2>3 DEF CreateFails, SyncDataFails, ReadBackMismatch, EnterNamespaceFails,
       LinkAtFails, LinkAtUnclassified, LinkVerifyFails, SealNamespaceFails, RecoverFails
  <2>4. QED
    BY <1>2, <2>1, <2>2, <2>3 DEF StepFails
<1>3. CASE Call
  <2>1. CASE FinishTransitVerified \/ FinishTransitFails
    BY <2>1 DEF FinishTransitVerified, FinishTransitFails, AppendFails, Holding, At, RecordKinds
  <2>2. CASE Retry \/ RetryRepairFails \/ RetryLookupFails
    BY <2>2 DEF Retry, RetryRepairFails, RetryLookupFails, Repaired
  <2>3. CASE Reattach \/ ReopenPublication \/ OpenRefused
    BY <2>3 DEF Reattach, ReopenPublication, OpenRefused, Opened
  <2>4. CASE Write \/ WriteFails \/ Publish \/ Cancel \/ Abandon \/ CleanupPublished
              \/ FinishRecovered
    BY <2>4 DEF Write, WriteFails, Publish, Cancel, Abandon, CleanupPublished, FinishRecovered
  <2>5. QED
    BY <1>3, <2>1, <2>2, <2>3, <2>4 DEF Call
<1>4. CASE Environment
  <2>1. CASE Occupy \/ Vacate \/ Swap \/ ProcessCrash
    BY <2>1 DEF Occupy, Vacate, Swap, ProcessCrash
  <2>2. CASE PowerLoss
    BY <2>2 DEF PowerLoss
  <2>3. QED
    BY <1>4, <2>1, <2>2 DEF Environment
<1>5. CASE UNCHANGED vars
  BY <1>5 DEF vars
<1>6. QED
  BY <1>1, <1>2, <1>3, <1>4, <1>5 DEF Next

\* Flushed records stay, and a PUBLISHED record is written at one place.
LEMMA RecordsKept ==
  ASSUME LogOK, [Next]_vars, At("admit") => log.records = <<>>
  PROVE  /\ LogOK'
         /\ TransitSynced => TransitSynced'
         /\ HasRecord("PUBLISHED")' => HasRecord("PUBLISHED") \/ At("record_published")
<1> DEFINE Kept == \A i \in 1..log.synced :
                     i \in 1..log'.synced /\ log'.records[i] = log.records[i]
           Old == \A i \in 1..Len(log'.records) :
                    \/ i \in 1..Len(log.records) /\ log'.records[i] = log.records[i]
                    \/ log'.records[i] # "PUBLISHED"
                    \/ At("record_published")
<1> USE DEF LogOK
<1>1. UNCHANGED log => LogOK' /\ Kept /\ Old
  OBVIOUS
<1>2. ASSUME NEW kind \in RecordKinds,
             kind = "PUBLISHED" => At("record_published"),
             AppendDurable(kind) \/ log' = [log EXCEPT !.records = Append(@, kind)]
      PROVE  LogOK' /\ Kept /\ Old
  <2>1. /\ log' = [records |-> log'.records, synced |-> log'.synced, torn |-> log'.torn,
                   corrupt |-> log'.corrupt]
        /\ log'.records = Append(log.records, kind)
        /\ log'.synced \in {log.synced, Len(log.records) + 1}
    BY <1>2 DEF AppendDurable
  <2>2. /\ log'.records \in Seq(RecordKinds)
        /\ Len(log'.records) = Len(log.records) + 1
        /\ \A i \in 1..Len(log.records) : log'.records[i] = log.records[i]
        /\ log'.records[Len(log.records) + 1] = kind
    BY <2>1
  <2>3. QED
    BY <1>2, <2>1, <2>2
<1>3. ASSUME At("admit"), log' = [log EXCEPT !.records = <<"ADMITTED">>]
      PROVE  LogOK' /\ Kept /\ Old
  <2>1. /\ log.records = <<>> /\ log.synced = 0
        /\ log' = [records |-> <<"ADMITTED">>, synced |-> 0, torn |-> log.torn,
                   corrupt |-> log.corrupt]
    BY <1>3
  <2>2. QED
    BY <2>1 DEF RecordKinds
<1>4. ASSUME \/ \E torn \in BOOLEAN : log' = [log EXCEPT !.torn = torn]
             \/ log' = [log EXCEPT !.synced = Len(log.records)]
             \/ log' = [log EXCEPT !.torn = FALSE, !.synced = Len(log.records)]
      PROVE  LogOK' /\ Kept /\ Old
  <2>1. /\ log' = [records |-> log'.records, synced |-> log'.synced, torn |-> log'.torn,
                   corrupt |-> log'.corrupt]
        /\ log'.records = log.records /\ log'.synced \in {log.synced, Len(log.records)}
    BY <1>4
  <2>2. QED
    BY <2>1
<1>5. ASSUME \E after \in SurvivingLogs : log' = after
      PROVE  LogOK' /\ Kept /\ Old
  <2>1. PICK n \in log.synced..Len(log.records) :
          /\ log' = [records |-> log'.records, synced |-> log'.synced,
                     torn |-> log'.torn, corrupt |-> log'.corrupt]
          /\ log'.records = SubSeq(log.records, 1, n) /\ log'.synced = n
    BY <1>5 DEF SurvivingLogs
  <2>2. /\ log'.records \in Seq(RecordKinds) /\ Len(log'.records) = n
        /\ \A i \in 1..n : log'.records[i] = log.records[i]
    BY <2>1
  <2>3. QED
    BY <2>1, <2>2
<1>6. LogOK' /\ Kept /\ Old
  BY <1>1, <1>2, <1>3, <1>4, <1>5, RecordsStep DEF LogStep
<1>7. QED
  BY <1>6 DEF TransitSynced, HasRecord

-----------------------------------------------------------------------------
(* The memory of the process.                                              *)

\* A new machine.
LEMMA NewShaped == Shaped(CM!NewMachine(profile)) /\ CM!NewMachine(profile).state = "New"
BY ConstantsAssumption DEF Shaped, CM!NewMachine

\* An event that is accepted leads to its target, with the next number.
LEMMA AfterShaped ==
  ASSUME NEW m, NEW event, Shaped(m), CM!Accepts(m, event)
  PROVE  /\ Shaped(CM!After(m, event))
         /\ CM!After(m, event).state = CM!Target(m, event)
         /\ m.sequence < MaxSequence
<1> SUFFICES ASSUME NEW after, after = CM!After(m, event)
             PROVE  Shaped(after) /\ after.state = CM!Target(m, event) /\ m.sequence < MaxSequence
  OBVIOUS
<1>1. /\ after = [profile |-> after.profile, state |-> after.state, current |-> after.current,
                  recovery |-> after.recovery, sequence |-> after.sequence,
                  performed |-> after.performed]
      /\ after.state = CM!Target(m, event)
      /\ after.current = m.current /\ after.sequence = m.sequence + 1
  BY DEF Shaped, CM!After
<1>2. m.sequence < MaxSequence
  BY DEF CM!Accepts
<1>3. QED
  BY <1>1, <1>2, ConstantsAssumption DEF Shaped

\* An event that may be refused leaves the machine as it was or leads to its
\* target.
LEMMA ApplyShaped ==
  ASSUME NEW m, NEW event, Shaped(m)
  PROVE  /\ Shaped(CM!Apply(m, event))
         /\ CM!Apply(m, event) = m \/ CM!Apply(m, event).state = CM!Target(m, event)
BY AfterShaped DEF CM!Apply

\* The commit goes on to a point, or is dropped.
Moved(pc, m) ==
  /\ CommitShape(commit)'
  /\ commit'.pc = pc /\ commit'.machine = m
  /\ commit'.verified = commit.verified /\ commit'.recovered = commit.recovered

Dropped ==
  /\ CommitShape(commit)'
  /\ commit'.pc = "gone" /\ commit'.machine.state = "New"
  /\ commit'.verified = FALSE /\ commit'.recovered = FALSE

\* A commit that is dropped.
LEMMA DropStep == commit' = NoCommit("gone") => Dropped
BY NewShaped DEF NoCommit, Dropped, CommitShape

\* A handler that goes on.
LEMMA GotoStep ==
  ASSUME CommitShape(commit), NEW pc, NEW m, ~commit.recovered => Shaped(m), Goto(pc, m)
  PROVE  Moved(pc, m)
BY DEF CommitShape, Goto, Moved

\* An error that returns: a recovered commit goes with it.
LEMMA ReturnStep ==
  ASSUME NEW c, CommitShape(c), NEW m, ~c.recovered => Shaped(m), ReturnFrom(c, m),
         c.verified = commit.verified, c.recovered = commit.recovered
  PROVE  Moved("idle", m) \/ Dropped
<1>1. CASE c.recovered
  BY <1>1, DropStep DEF ReturnFrom
<1>2. CASE ~c.recovered
  BY <1>2 DEF ReturnFrom, Moved, CommitShape
<1>3. QED
  BY <1>1, <1>2

\* machine.apply(event)? in a handler.
LEMMA AdvanceStep ==
  ASSUME CommitShape(commit), NEW event, NEW pc, Advance(event, pc)
  PROVE  \/ /\ CM!Accepts(commit.machine, event)
            /\ Moved(pc, CM!After(commit.machine, event))
         \/ Moved("idle", commit.machine)
         \/ Dropped
<1>1. CASE CM!Accepts(commit.machine, event)
  BY <1>1, AfterShaped, GotoStep DEF Advance, CommitShape
<1>2. CASE ~CM!Accepts(commit.machine, event)
  BY <1>2, ReturnStep DEF Advance, Return, CommitShape
<1>3. QED
  BY <1>1, <1>2

\* PosixCommit::fail.
LEMMA FailStep ==
  ASSUME CommitShape(commit), NEW event, Fail(event)
  PROVE  Moved("idle", CM!Apply(commit.machine, event)) \/ Dropped
BY ApplyShaped, ReturnStep DEF Fail, Return, CommitShape

\* A record that cannot be appended.
LEMMA AppendFailsStep ==
  ASSUME CommitShape(commit), NEW kind, NEW m, ~commit.recovered => Shaped(m),
         AppendFails(kind, m)
  PROVE  Moved("idle", m) \/ Dropped
<1>1. PICK c : c = [commit EXCEPT !.poisoned = TRUE]
  OBVIOUS
<1>2. CommitShape(c) /\ c.verified = commit.verified /\ c.recovered = commit.recovered
  BY <1>1 DEF CommitShape
<1>3. ReturnFrom(c, m)
  BY <1>1 DEF AppendFails
<1>4. QED
  BY <1>2, <1>3, ReturnStep

\* The NamespaceDurable observation.
LEMMA ObserveStep ==
  ASSUME NEW c, CommitShape(c), NEW m, ~c.recovered => Shaped(m), Observe(c, m),
         c.verified = commit.verified, c.recovered = commit.recovered
  PROVE  \/ /\ CM!Accepts(m, "NamespaceDurable")
            /\ Moved("idle", CM!After(m, "NamespaceDurable"))
         \/ Moved("idle", m)
         \/ Dropped
<1>1. CASE CM!Accepts(m, "NamespaceDurable")
  <2>1. ~c.recovered => Shaped(CM!After(m, "NamespaceDurable"))
    BY <1>1, AfterShaped
  <2>2. commit' = [c EXCEPT !.pc = "idle", !.machine = CM!After(m, "NamespaceDurable")]
    BY <1>1 DEF Observe
  <2>3. QED
    BY <1>1, <2>1, <2>2 DEF Moved, CommitShape
<1>2. CASE ~CM!Accepts(m, "NamespaceDurable")
  BY <1>2, ReturnStep DEF Observe
<1>3. QED
  BY <1>1, <1>2

\* What a step may do to the commit, and what is true where it arrives.
Kept ==
  /\ CommitShape(commit)'
  /\ commit'.verified = commit.verified /\ commit'.recovered = commit.recovered

Sealing == {"unlink", "sync_stage", "record_published"}

CommitStep ==
  \/ /\ UNCHANGED <<commit, receipted>> /\ commit.pc \notin Early
     /\ names.dest = "own" => names'.dest = "own" /\ durable'.dest = durable.dest
     /\ names.stage # "own" => names'.stage # "own"
  \/ Dropped
  \/ Kept /\ commit'.pc = "idle"
  \/ /\ Kept /\ commit'.pc \in Early /\ commit.pc \in Early
     /\ log'.records = <<>> /\ UNCHANGED receipted
  \/ Kept /\ commit'.pc = "sync_data" /\ commit.verified /\ ~commit.recovered
  \/ /\ Kept /\ commit'.pc \in {"recover_data", "recover_log"} /\ commit.recovered
     /\ commit'.pc = "recover_data" => profile # "Fast"
  \/ Kept /\ commit'.pc \in AfterFlush \ Sealing /\ (Flushed \/ Flushed')
  \/ Kept /\ commit'.pc = "unlink" /\ At("sync_dest") /\ names'.dest = "own" /\ durable'.dest = {"own"}
  \/ /\ Kept /\ commit'.pc = "sync_stage" /\ At("unlink")
     /\ names'.dest = "own" /\ durable'.dest = {"own"} /\ names'.stage # "own"
  \/ Kept /\ commit'.pc = "record_published" /\ At("sync_stage") /\ Placed'
  \/ /\ CommitShape(commit)' /\ commit'.pc = "idle" /\ commit'.recovered = FALSE
     /\ \/ commit'.verified = TRUE /\ TransitSynced'
        \/ commit'.verified = FALSE /\ ~data'.lost
  \/ /\ CommitShape(commit)' /\ commit'.pc = "idle" /\ commit'.recovered = TRUE
     /\ commit'.verified = FALSE /\ Flushed

\* A commit that moves keeps its flags.
LEMMA MovedKept ==
  ASSUME NEW pc, NEW m, Moved(pc, m)
  PROVE  Kept /\ commit'.pc = pc
BY DEF Moved, Kept

\* The handlers under way.
LEMMA StepStep ==
  ASSUME Inv, Step
  PROVE  CommitStep
<1> USE DEF CommitStep
<1>0. /\ CommitShape(commit) /\ (~commit.recovered => Shaped(commit.machine))
      /\ commit.pc \in AfterFlush => Flushed
      /\ commit.pc \in Early => log.records = <<>> /\ ~commit.recovered
  BY DEF Inv, CommitShape, FlushInv, PcInv
<1>1. CASE CreateStaging \/ CreateJournal \/ SyncJournalName
  <2>1. PICK pc \in Early : Goto(pc, commit.machine)
    BY <1>1 DEF CreateStaging, CreateJournal, SyncJournalName, Early
  <2>2. commit.pc \in Early /\ UNCHANGED <<log, receipted>>
    BY <1>1 DEF CreateStaging, CreateJournal, SyncJournalName, Early, At
  <2>3. QED
    BY <1>0, <2>1, <2>2, GotoStep, MovedKept
<1>2. CASE Admit
  <2>1. Goto("idle", CM!Apply(commit.machine, "Admit"))
    BY <1>2 DEF Admit
  <2>2. QED
    BY <1>0, <2>1, ApplyShaped, GotoStep, MovedKept
<1>3. CASE SyncData
  <2>1. Advance("DataFlushSucceeded", "record_durable")
    BY <1>3 DEF SyncData
  <2>2. ASSUME CM!Accepts(commit.machine, "DataFlushSucceeded")
        PROVE  Flushed \/ Flushed'
    <3>1. commit.machine.state = "TransitVerified" /\ commit.machine.sequence # MaxSequence
      <4>1. Shaped(commit.machine)
        BY <1>0, <1>3 DEF SyncData, Inv, PcInv
      <4>2. CM!HasArm(commit.machine, "DataFlushSucceeded") /\ commit.machine.sequence < MaxSequence
        BY <2>2 DEF CM!Accepts
      <4>3. QED
        BY <4>1, <4>2, ConstantsAssumption DEF CM!HasArm, CM!FailureEvents, CM!AmbiguityEvents, Shaped
    <3>2. Flushed \/ (data.complete /\ ~data.lost)
      BY <3>1 DEF Inv, FlushInv
    <3>3. data' = [data EXCEPT !.synced = data.complete /\ ~data.lost] /\ DataOK
      BY <1>3 DEF SyncData, Inv
    <3>4. QED
      BY <3>2, <3>3 DEF Flushed, DataOK
  <2>3. QED
    BY <1>0, <2>1, <2>2, AdvanceStep, MovedKept DEF AfterFlush, Sealing
<1>4. CASE RecordDurable
  <2>1. Advance("JournalFlushSucceeded", "seal") /\ Flushed
    BY <1>0, <1>4 DEF RecordDurable, At, AfterFlush
  <2>2. QED
    BY <1>0, <2>1, AdvanceStep, MovedKept DEF AfterFlush, Sealing
<1>5. CASE Seal
  <2>1. Flushed
    BY <1>0, <1>5 DEF Seal, At, AfterFlush
  <2>2. CASE commit.sealed \/ names.stage = "own"
    <3>1. commit' = [commit EXCEPT !.sealed = TRUE,
                       !.pc = IF profile = "Strict" THEN "read_back" ELSE "namespace"]
      BY <1>5, <2>2 DEF Seal
    <3>2. Kept /\ commit'.pc \in {"read_back", "namespace"}
      BY <1>0, <3>1 DEF CommitShape, Kept
    <3>3. QED
      BY <2>1, <3>2 DEF AfterFlush, Sealing
  <2>3. CASE ~(commit.sealed \/ names.stage = "own")
    BY <1>0, <1>5, <2>3, ReturnStep, MovedKept DEF Seal, Return
  <2>4. QED
    BY <2>2, <2>3
<1>6. CASE ReadBack
  <2>1. Flushed /\ (Advance("AtRestVerified", "record_at_rest") \/ Return(commit.machine))
    BY <1>0, <1>6 DEF ReadBack, At, AfterFlush
  <2>2. QED
    BY <1>0, <2>1, AdvanceStep, ReturnStep, MovedKept DEF Return, AfterFlush, Sealing
<1>7. CASE RecordAtRest \/ RecordLinked
  <2>1. Flushed /\ \E pc \in {"namespace", "sync_dest"} : Goto(pc, commit.machine)
    BY <1>0, <1>7 DEF RecordAtRest, RecordLinked, At, AfterFlush
  <2>2. QED
    BY <1>0, <2>1, GotoStep, MovedKept DEF AfterFlush, Sealing
<1>8. CASE EnterNamespace
  <2>1. /\ Flushed
        /\ \/ \E pc \in {"sync_dest", "link_at"} : Goto(pc, commit.machine)
           \/ Fail("NamespaceFlushFailed") \/ Return(commit.machine)
    BY <1>0, <1>8 DEF EnterNamespace, At, AfterFlush
  <2>2. QED
    BY <1>0, <2>1, GotoStep, FailStep, ReturnStep, MovedKept DEF Return, AfterFlush, Sealing
<1>9. CASE LinkAt \/ LinkVerify
  <2>1. /\ Flushed
        /\ \/ Goto("link_verify", commit.machine) \/ Advance("NamespaceLinked", "record_linked")
           \/ Fail("NamespaceLinkAmbiguous") \/ Return(commit.machine)
    BY <1>0, <1>9 DEF LinkAt, LinkVerify, Linked, ClassifyFailedLink, At, AfterFlush
  <2>2. QED
    BY <1>0, <2>1, GotoStep, AdvanceStep, FailStep, ReturnStep, MovedKept
       DEF Return, AfterFlush, Sealing
<1>10. CASE SyncDest
  <2>1. CASE names.dest = "own"
    <3>1. names'.dest = "own" /\ durable'.dest = {"own"} /\ Goto("unlink", commit.machine)
      BY <1>10, <2>1 DEF SyncDest, SyncDestParent, Inv, NamesOK
    <3>2. QED
      BY <1>0, <1>10, <3>1, GotoStep, MovedKept DEF SyncDest
  <2>2. CASE names.dest # "own"
    BY <1>0, <1>10, <2>2, FailStep, MovedKept DEF SyncDest
  <2>3. QED
    BY <2>1, <2>2
<1>11. CASE RemoveAlias
  <2>1. names.dest = "own" /\ durable.dest = {"own"} /\ names.stage \in Inodes
    BY <1>11 DEF RemoveAlias, Inv, PlaceInv, NamesOK
  <2>2. CASE names.stage = "other"
    BY <1>0, <1>11, <2>2, FailStep, MovedKept DEF RemoveAlias
  <2>3. CASE names.stage # "other"
    <3>1. /\ Goto("sync_stage", commit.machine)
          /\ \/ UNCHANGED <<names, durable>> /\ names.stage = "absent"
             \/ SetName("stage", "absent")
      BY <1>11, <2>1, <2>3 DEF RemoveAlias, Inodes
    <3>2. names'.dest = "own" /\ durable'.dest = {"own"} /\ names'.stage # "own"
      BY <2>1, <3>1 DEF SetName, Inv, NamesOK
    <3>3. QED
      BY <1>0, <1>11, <3>1, <3>2, GotoStep, MovedKept DEF RemoveAlias
  <2>4. QED
    BY <2>2, <2>3
<1>12. CASE SyncStage
  <2>1. Placed'
    BY <1>12 DEF SyncStage, SyncStageParent, Placed, Inv, PlaceInv, NamesOK
  <2>2. Goto("idle", commit.machine) \/ Goto("record_published", commit.machine)
    BY <1>12 DEF SyncStage
  <2>3. QED
    BY <1>0, <1>12, <2>1, <2>2, GotoStep, MovedKept DEF SyncStage
<1>13. CASE RecordPublished
  <2>1. Observe(commit, commit.machine)
    BY <1>13 DEF RecordPublished
  <2>2. QED
    BY <1>0, <2>1, ObserveStep, MovedKept
<1>14. CASE RecoverData \/ RecoverLog
  <2>1. commit.recovered /\ Flushed
    BY <1>14 DEF RecoverData, RecoverLog, Inv, PcInv, FlushInv
  <2>2. \E pc \in {"recover_log", "sync_dest", "namespace"} : Goto(pc, commit.machine)
    BY <1>14 DEF RecoverData, RecoverLog
  <2>3. QED
    BY <1>0, <2>1, <2>2, GotoStep, MovedKept DEF AfterFlush, Sealing
<1>15. QED
  BY <1>1, <1>2, <1>3, <1>4, <1>5, <1>6, <1>7, <1>8, <1>9, <1>10, <1>11, <1>12, <1>13,
     <1>14 DEF Step

\* The handlers when a system call fails: every error returns to the caller.
LEMMA StepFailsStep ==
  ASSUME Inv, StepFails
  PROVE  CommitStep
<1> USE DEF CommitStep
<1>0. CommitShape(commit) /\ (~commit.recovered => Shaped(commit.machine))
  BY DEF Inv, CommitShape
<1>1. CASE CreateFails \/ AdmitFails
  BY <1>1, DropStep DEF CreateFails, AdmitFails, RemoveOwnedNames
<1>2. CASE \E event \in CM!Events : Fail(event)
  BY <1>0, <1>2, FailStep, MovedKept
<1>3. CASE \E kind \in RecordKinds, event \in CM!Events :
             AppendFails(kind, CM!Apply(commit.machine, event))
  BY <1>0, <1>3, ApplyShaped, AppendFailsStep, MovedKept
<1>4. CASE LinkAtFails
  <2>1. Flushed
    BY <1>4 DEF LinkAtFails, At, Inv, FlushInv, AfterFlush
  <2>2. Advance("NamespaceLinked", "record_linked") \/ Return(commit.machine)
    BY <1>4 DEF LinkAtFails, ClassifyFailedLink, Linked
  <2>3. QED
    BY <1>0, <2>1, <2>2, AdvanceStep, ReturnStep, MovedKept DEF Return, AfterFlush, Sealing
<1>5. CASE RecoverFails
  BY <1>0, <1>5, ReturnStep, MovedKept DEF RecoverFails, Return
<1>6. CASE SyncDataFails \/ ReadBackMismatch \/ EnterNamespaceFails
            \/ LinkAtUnclassified \/ LinkVerifyFails \/ SealNamespaceFails
  BY <1>2, <1>6 DEF SyncDataFails, ReadBackMismatch, EnterNamespaceFails, LinkAtUnclassified,
     LinkVerifyFails, SealNamespaceFails, CM!Events, CM!FailureEvents, CM!AmbiguityEvents
<1>7. CASE RecordDurableFails \/ RecordAtRestFails \/ RecordLinkedFails \/ RecordPublishedFails
  BY <1>3, <1>7 DEF RecordDurableFails, RecordAtRestFails, RecordLinkedFails,
     RecordPublishedFails, RecordKinds, CM!Events, CM!FailureEvents, CM!AmbiguityEvents
<1>8. QED
  BY <1>1, <1>4, <1>5, <1>6, <1>7 DEF StepFails

\* The calls.  A new process admits the incarnation again only from a journal
\* without a transit verification, hence with no page lost, and takes up a
\* publication only where the destination is linked.
LEMMA CallStep ==
  ASSUME Inv, ~DirectCalls, Call
  PROVE  CommitStep
<1> USE DEF CommitStep
<1>0. CommitShape(commit) /\ (~commit.recovered => Shaped(commit.machine))
  BY DEF Inv, CommitShape
<1>1. CASE Write \/ RetryRepairFails \/ OpenRefused
  BY <1>1 DEF Write, RetryRepairFails, OpenRefused, Retrying, Holding, At, Early
<1>2. CASE WriteFails
  BY <1>0, <1>2, FailStep, MovedKept DEF WriteFails
<1>3. CASE FinishTransitVerified
  <2>1. PICK m : Shaped(m) /\ commit' = [commit EXCEPT !.machine = m, !.verified = TRUE]
    BY <1>0, <1>3, AfterShaped DEF FinishTransitVerified, Holding
  <2>2. commit.pc = "idle" /\ ~commit.recovered
    BY <1>3 DEF FinishTransitVerified, Holding, At
  <2>3. /\ CommitShape(commit)' /\ commit'.pc = "idle" /\ commit'.verified = TRUE
        /\ commit'.recovered = FALSE
    BY <1>0, <2>1, <2>2 DEF CommitShape
  <2>4. TransitSynced'
    <3>1. AppendDurable("TRANSIT_VERIFIED") /\ LogOK
      BY <1>3 DEF FinishTransitVerified, Inv
    <3>2. /\ log'.records = Append(log.records, "TRANSIT_VERIFIED")
          /\ log'.synced = Len(log.records) + 1
      BY <3>1 DEF AppendDurable, LogOK
    <3>3. QED
      BY <3>1, <3>2 DEF TransitSynced, LogOK
  <2>5. QED
    BY <2>3, <2>4
<1>4. CASE FinishTransitFails
  <2>1. PICK m : Shaped(m) /\ AppendFails("TRANSIT_VERIFIED", m)
    BY <1>0, <1>4, AfterShaped, ApplyShaped DEF FinishTransitFails, Holding
  <2>2. QED
    BY <1>0, <2>1, AppendFailsStep, MovedKept
<1>5. CASE Publish
  <2>1. commit.verified /\ ~commit.recovered
    BY <1>5 DEF Publish, Holding
  <2>2. CASE profile = "Fast"
    BY <1>0, <1>5, <2>2, GotoStep, MovedKept DEF Publish, Flushed, AfterFlush, Sealing
  <2>3. CASE profile # "Fast"
    BY <1>0, <1>5, <2>1, <2>3, GotoStep, MovedKept DEF Publish
  <2>4. QED
    BY <2>2, <2>3
<1>6. CASE Retry \/ RetryLookupFails
  <2>1. PICK c : c = [commit EXCEPT !.poisoned = FALSE]
    OBVIOUS
  <2>2. CommitShape(c) /\ c.verified = commit.verified /\ c.recovered = commit.recovered
    BY <1>0, <2>1 DEF CommitShape
  <2>3. PICK m : m = CM!After(commit.machine, "Recover")
    OBVIOUS
  <2>4. Shaped(m) /\ Flushed
    <3>1. ~commit.recovered /\ CM!Accepts(commit.machine, "Recover")
      BY <1>6 DEF Retry, RetryLookupFails, Retrying, Holding
    <3>2. commit.machine.state = "RecoveryRequired"
      BY <3>1 DEF CM!Accepts, CM!HasArm, CM!FailureEvents, CM!AmbiguityEvents
    <3>3. QED
      BY <1>0, <2>3, <3>1, <3>2, AfterShaped DEF Inv, FlushInv
  <2>5. \/ commit' = [c EXCEPT !.pc = "namespace", !.machine = m]
        \/ Observe(c, m) \/ ReturnFrom(c, m)
    BY <1>6, <2>1, <2>3 DEF Retry, RetryLookupFails
  <2>6. CASE commit' = [c EXCEPT !.pc = "namespace", !.machine = m]
    <3>1. Kept /\ commit'.pc = "namespace"
      BY <2>2, <2>4, <2>6 DEF CommitShape, Kept
    <3>2. QED
      BY <2>4, <3>1 DEF AfterFlush, Sealing
  <2>7. QED
    BY <2>2, <2>4, <2>5, <2>6, ObserveStep, ReturnStep, MovedKept
<1>7. CASE Cancel \/ Abandon \/ CleanupPublished
  BY <1>7, DropStep DEF Cancel, Abandon, CleanupPublished, RemoveOwnedNames
<1>8. CASE Reattach
  <2>1. commit' = [NoCommit("idle") EXCEPT !.machine = CM!Apply(@, "Admit")]
    BY <1>8 DEF Reattach
  <2>2. /\ CommitShape(commit)' /\ commit'.pc = "idle" /\ commit'.verified = FALSE
        /\ commit'.recovered = FALSE
    BY <2>1, NewShaped, ApplyShaped DEF NoCommit, CommitShape
  <2>3. ~data'.lost
    BY <1>8 DEF Reattach, Inv, LostInv, TransitSynced, LogOK
  <2>4. QED
    BY <2>2, <2>3
<1>9. CASE ReopenPublication
  <2>1. PICK m \in Reopenable : commit' = [NoCommit("idle") EXCEPT !.machine = m,
                                            !.sealed = TRUE, !.recovered = TRUE]
    BY <1>9 DEF ReopenPublication
  <2>2. /\ CommitShape(commit)' /\ commit'.pc = "idle" /\ commit'.verified = FALSE
        /\ commit'.recovered = TRUE
    BY <2>1 DEF NoCommit, CommitShape
  <2>3. names.dest = "own"
    BY <2>1 DEF Reopenable
  <2>4. QED
    BY <2>2, <2>3 DEF Inv, NamesOK, FlushInv
<1>10. CASE FinishRecovered
  <2>1. commit.recovered
    BY <1>10 DEF FinishRecovered
  <2>2. \/ Goto("recover_log", commit.machine)
        \/ profile # "Fast" /\ Goto("recover_data", commit.machine)
    BY <1>10 DEF FinishRecovered
  <2>3. QED
    BY <1>0, <2>1, <2>2, GotoStep, MovedKept
<1>11. QED
  BY <1>1, <1>2, <1>3, <1>4, <1>5, <1>6, <1>7, <1>8, <1>9, <1>10 DEF Call

\* Everything else: crashes drop the commit, and nobody outside touches it.
LEMMA EnvironmentStep ==
  ASSUME Inv, Environment \/ UNCHANGED vars
  PROVE  CommitStep
<1> USE DEF CommitStep
<1>0. /\ CommitShape(commit) /\ NamesOK
      /\ commit.pc \in Early => log.records = <<>> /\ commit.verified = FALSE /\ commit.recovered = FALSE
  BY DEF Inv, PcInv, CommitShape
<1>1. CASE Occupy \/ Vacate \/ Swap \/ UNCHANGED vars
  <2>1. UNCHANGED <<commit, log, receipted>>
    BY <1>1 DEF Occupy, Vacate, Swap, vars
  <2>2. /\ names.dest = "own" => names'.dest = "own" /\ durable'.dest = durable.dest
        /\ names.stage # "own" => names'.stage # "own"
    BY <1>0, <1>1 DEF Occupy, Vacate, Swap, vars, SetName, NamesOK
  <2>3. CASE commit.pc \in Early
    BY <1>0, <2>1, <2>3 DEF Kept, CommitShape, Shaped
  <2>4. QED
    BY <2>1, <2>2, <2>3
<1>2. CASE ProcessCrash
  BY <1>2, DropStep DEF ProcessCrash, Crashing
<1>3. CASE PowerLoss
  <2>1. CASE At("fresh")
    <3>1. commit' = NoCommit("fresh") /\ UNCHANGED receipted
      BY <1>3, <2>1 DEF PowerLoss, Crashing
    <3>2. log.records = <<>> /\ commit.verified = FALSE /\ commit.recovered = FALSE
      BY <1>0, <2>1 DEF At, Early
    <3>3. Kept /\ commit'.pc = "fresh"
      BY <3>1, <3>2, NewShaped DEF NoCommit, Kept, CommitShape
    <3>4. log'.records = <<>>
      BY <1>3, <3>2 DEF PowerLoss, SurvivingLogs, Inv, LogOK
    <3>5. QED
      BY <2>1, <3>1, <3>3, <3>4 DEF At, Early
  <2>2. CASE ~At("fresh")
    BY <1>3, <2>2, DropStep DEF PowerLoss, Crashing
  <2>3. QED
    BY <2>1, <2>2
<1>4. QED
  BY <1>1, <1>2, <1>3 DEF Environment

\* A process that was not there knows nothing of pages that were lost.
LEMMA GoneStep ==
  ASSUME Inv, [Next]_vars, At("gone"), data'.lost
  PROVE  commit'.pc = "gone" \/ commit'.recovered = TRUE
<1> USE DEF At
<1>1. ~Step
  BY DEF Step, CreateStaging, CreateJournal, SyncJournalName, Admit, SyncData,
     RecordDurable, Seal, ReadBack, RecordAtRest, EnterNamespace, LinkAt, LinkVerify,
     RecordLinked, SyncDest, RemoveAlias, SyncStage, RecordPublished, RecoverData, RecoverLog
<1>2. ~StepFails
  BY DEF StepFails, CreateFails, AdmitFails, SyncDataFails, RecordDurableFails,
     ReadBackMismatch, RecordAtRestFails, EnterNamespaceFails, LinkAtFails,
     LinkAtUnclassified, LinkVerifyFails, RecordLinkedFails, SealNamespaceFails,
     RecordPublishedFails, RecoverFails, AppendFails
<1>3. CASE Call
  <2>1. CASE Reattach
    BY <2>1 DEF Reattach, Inv, LostInv, TransitSynced, LogOK
  <2>2. CASE ReopenPublication
    BY <2>2 DEF ReopenPublication, NoCommit
  <2>3. CASE OpenRefused
    BY <2>3 DEF OpenRefused
  <2>4. QED
    BY <1>3, <2>1, <2>2, <2>3 DEF Call, Write, WriteFails, FinishTransitVerified,
       FinishTransitFails, Publish, Retry, RetryRepairFails, RetryLookupFails, Retrying,
       Holding, Cancel, Abandon, CleanupPublished, FinishRecovered
<1>4. CASE Environment
  BY <1>4 DEF Environment, Occupy, Vacate, Swap, ProcessCrash, PowerLoss, Crashing, NoCommit
<1>5. CASE UNCHANGED vars
  BY <1>5 DEF vars
<1>6. QED
  BY <1>1, <1>2, <1>3, <1>4, <1>5 DEF Next

\* A receipt is given at three places.
LEMMA ReceiptStep ==
  ASSUME Inv, [Next]_vars
  PROVE  receipted' => \/ receipted \/ HasRecord("PUBLISHED") \/ At("record_published")
                       \/ At("sync_stage") /\ Placed'
<1>1. CASE RecordPublished
  BY <1>1 DEF RecordPublished
<1>2. CASE SyncStage
  BY <1>2 DEF SyncStage, SyncStageParent, Placed, Inv, PlaceInv, NamesOK
<1>3. CASE Retry
  <2>1. CASE RepairedPublished
    BY <2>1 DEF RepairedPublished, LastRecord, HasRecord, Inv, LogOK
  <2>2. CASE ~RepairedPublished
    BY <1>3, <2>2 DEF Retry
  <2>3. QED
    BY <2>1, <2>2
<1>4. CASE Step
  BY <1>1, <1>2, <1>4 DEF Step, CreateStaging, CreateJournal, SyncJournalName, Admit, SyncData,
     RecordDurable, Seal, ReadBack, RecordAtRest, EnterNamespace, LinkAt, LinkVerify,
     RecordLinked, SyncDest, RemoveAlias, RecoverData, RecoverLog
<1>5. CASE StepFails
  BY <1>5 DEF StepFails, CreateFails, AdmitFails, SyncDataFails, RecordDurableFails,
     ReadBackMismatch, RecordAtRestFails, EnterNamespaceFails, LinkAtFails,
     LinkAtUnclassified, LinkVerifyFails, RecordLinkedFails, SealNamespaceFails,
     RecordPublishedFails, RecoverFails
<1>6. CASE Call
  BY <1>3, <1>6 DEF Call, Write, WriteFails, FinishTransitVerified, FinishTransitFails, Publish,
     RetryRepairFails, RetryLookupFails, Cancel, Abandon, CleanupPublished,
     Reattach, ReopenPublication, OpenRefused, FinishRecovered
<1>7. CASE Environment \/ UNCHANGED vars
  BY <1>7 DEF Environment, Occupy, Vacate, Swap, ProcessCrash, PowerLoss, vars
<1>8. QED
  BY <1>4, <1>5, <1>6, <1>7 DEF Next

\* Where the events lead that a receiver applies before the flush.
LEMMA Targets ==
  ASSUME NEW m
  PROVE  /\ CM!Target(m, "Admit") = "Admitted"
         /\ CM!Target(m, "TransitVerified") = "TransitVerified"
         /\ CM!Target(m, "DataFlushSucceeded") = "DataFlushed"
         /\ CM!Target(m, "DataFlushFailed") = "Poisoned"
         /\ CM!Target(m, "JournalFlushFailed") = "Poisoned"
BY DEF CM!Target, CM!FailureEvents, CM!AmbiguityEvents

\* What the machine of a receiver may stand in while the bytes are not flushed.
BeforeFlush(m, d) ==
  /\ m.state # "RecoveryRequired"
  /\ m.state = "TransitVerified" =>
       d.complete /\ (d.lost => m.sequence = MaxSequence)

\* Until the bytes are flushed the machine does not get past the transit
\* verification, which stands for complete bytes; it survives a failed flush
\* only where there is no number left to poison it with.
LEMMA MachineStep ==
  ASSUME Inv, ~DirectCalls, [Next]_vars, ~Flushed, ~Flushed'
  PROVE  ~commit'.recovered => BeforeFlush(commit.machine, data)'
<1> DEFINE Goal == BeforeFlush(commit.machine, data)'
<1>0. /\ CommitShape(commit) /\ ~commit.recovered /\ Shaped(commit.machine) /\ DataOK
      /\ commit.pc \notin AfterFlush /\ "own" \notin durable.dest /\ names.dest # "own"
      /\ BeforeFlush(commit.machine, data)
  BY DEF Inv, FlushInv, CommitShape, BeforeFlush, NamesOK
<1>1. Dropped => Goal
  BY DEF Dropped, BeforeFlush
<1>2. commit'.machine = commit.machine /\ UNCHANGED data => Goal
  BY <1>0 DEF BeforeFlush
<1>3. CASE Step
  <2>1. CASE CreateStaging \/ CreateJournal \/ SyncJournalName
    <3>1. PICK pc : Goto(pc, commit.machine)
      BY <2>1 DEF CreateStaging, CreateJournal, SyncJournalName
    <3>2. commit'.machine = commit.machine
      BY <1>0, <3>1, GotoStep DEF Moved
    <3>3. QED
      BY <1>2, <2>1, <3>2 DEF CreateStaging, CreateJournal, SyncJournalName
  <2>2. CASE Admit
    <3>1. commit'.machine = CM!Apply(commit.machine, "Admit") /\ UNCHANGED data
      BY <1>0, <2>2, ApplyShaped, GotoStep DEF Admit, Moved
    <3>2. CM!Apply(commit.machine, "Admit") = commit.machine
            \/ CM!Apply(commit.machine, "Admit").state = "Admitted"
      BY <1>0, ApplyShaped, Targets
    <3>3. QED
      BY <1>2, <3>1, <3>2 DEF BeforeFlush
  <2>3. CASE SyncData
    <3>1. data'.complete = data.complete /\ data'.lost = data.lost
      BY <1>0, <2>3 DEF SyncData, DataOK
    <3>2. CASE Dropped
      BY <1>1, <3>2
    <3>3. CASE Moved("idle", commit.machine)
      BY <1>0, <3>1, <3>3 DEF Moved, BeforeFlush
    <3>4. CASE /\ CM!Accepts(commit.machine, "DataFlushSucceeded")
               /\ Moved("record_durable", CM!After(commit.machine, "DataFlushSucceeded"))
      <4>1. CM!After(commit.machine, "DataFlushSucceeded").state = "DataFlushed"
        BY <1>0, <3>4, AfterShaped, Targets
      <4>2. QED
        BY <3>4, <4>1 DEF Moved, BeforeFlush
    <3>5. QED
      BY <1>0, <2>3, <3>2, <3>3, <3>4, AdvanceStep DEF SyncData
  <2>4. CASE RecordDurable \/ Seal \/ ReadBack \/ RecordAtRest \/ EnterNamespace \/ LinkAt
              \/ LinkVerify \/ RecordLinked \/ SyncDest \/ RemoveAlias \/ SyncStage
              \/ RecordPublished
    BY <1>0, <2>4 DEF RecordDurable, Seal, ReadBack, RecordAtRest, EnterNamespace, LinkAt,
       LinkVerify, RecordLinked, SyncDest, RemoveAlias, SyncStage, RecordPublished,
       At, AfterFlush
  <2>5. CASE RecoverData \/ RecoverLog
    BY <1>0, <2>5 DEF RecoverData, RecoverLog, Inv, PcInv
  <2>6. QED
    BY <1>3, <2>1, <2>2, <2>3, <2>4, <2>5 DEF Step
<1>4. CASE StepFails
  <2>1. CASE CreateFails \/ AdmitFails
    BY <1>1, <2>1, DropStep DEF CreateFails, AdmitFails, RemoveOwnedNames
  <2>2. CASE SyncDataFails
    <3>1. data'.complete = data.complete
      BY <1>0, <2>2 DEF SyncDataFails, DataOK
    <3>2. CASE Dropped
      BY <1>1, <3>2
    <3>3. CASE Moved("idle", CM!Apply(commit.machine, "DataFlushFailed"))
      <4>1. CASE CM!Accepts(commit.machine, "DataFlushFailed")
        <5>1. CM!After(commit.machine, "DataFlushFailed").state = "Poisoned"
          BY <1>0, <4>1, AfterShaped, Targets
        <5>2. QED
          BY <3>3, <4>1, <5>1 DEF Moved, BeforeFlush, CM!Apply
      <4>2. CASE ~CM!Accepts(commit.machine, "DataFlushFailed")
        <5>1. commit'.machine = commit.machine
          BY <3>3, <4>2 DEF Moved, CM!Apply
        <5>2. commit.machine.state = "TransitVerified" => commit.machine.sequence = MaxSequence
          BY <1>0, <4>2, ConstantsAssumption
             DEF Shaped, CM!Accepts, CM!HasArm, CM!FailureEvents, CM!Terminal
        <5>3. QED
          BY <1>0, <3>1, <5>1, <5>2 DEF BeforeFlush
      <4>3. QED
        BY <4>1, <4>2
    <3>4. QED
      BY <1>0, <2>2, <3>2, <3>3, FailStep DEF SyncDataFails
  <2>3. CASE RecordDurableFails \/ ReadBackMismatch \/ RecordAtRestFails \/ EnterNamespaceFails
              \/ LinkAtFails \/ LinkAtUnclassified \/ LinkVerifyFails \/ RecordLinkedFails
              \/ SealNamespaceFails \/ RecordPublishedFails
    BY <1>0, <2>3 DEF RecordDurableFails, ReadBackMismatch, RecordAtRestFails,
       EnterNamespaceFails, LinkAtFails, LinkAtUnclassified, LinkVerifyFails,
       RecordLinkedFails, SealNamespaceFails, RecordPublishedFails, At, AfterFlush
  <2>4. CASE RecoverFails
    BY <1>0, <2>4 DEF RecoverFails, Inv, PcInv
  <2>5. QED
    BY <1>4, <2>1, <2>2, <2>3, <2>4 DEF StepFails
<1>5. CASE Call
  <2>1. CASE Write
    BY <1>0, <2>1 DEF Write, BeforeFlush
  <2>2. CASE WriteFails
    <3>1. CM!Apply(commit.machine, "DataFlushFailed") = commit.machine
            \/ CM!Apply(commit.machine, "DataFlushFailed").state = "Poisoned"
      BY <1>0, ApplyShaped, Targets
    <3>2. Dropped \/ commit'.machine = CM!Apply(commit.machine, "DataFlushFailed")
      BY <1>0, <2>2, FailStep DEF WriteFails, Moved
    <3>3. QED
      BY <1>1, <1>2, <2>2, <3>1, <3>2 DEF WriteFails, BeforeFlush
  <2>3. CASE FinishTransitVerified \/ FinishTransitFails
    <3>1. /\ data.complete /\ ~data.lost /\ UNCHANGED data
          /\ CM!Accepts(commit.machine, "TransitVerified")
      BY <1>0, <2>3 DEF FinishTransitVerified, FinishTransitFails, Holding, At, Inv, LostInv
    <3>2. PICK m : m = CM!After(commit.machine, "TransitVerified")
      OBVIOUS
    <3>3. Shaped(m) /\ m.state = "TransitVerified"
      BY <1>0, <3>1, <3>2, AfterShaped, Targets
    <3>4. CASE FinishTransitVerified
      <4>1. commit'.machine = m
        BY <1>0, <3>2, <3>4 DEF FinishTransitVerified, CommitShape
      <4>2. QED
        BY <3>1, <3>3, <4>1 DEF BeforeFlush
    <3>5. CASE FinishTransitFails
      <4>1. Shaped(CM!Apply(m, "JournalFlushFailed"))
              /\ (\/ CM!Apply(m, "JournalFlushFailed") = m
                  \/ CM!Apply(m, "JournalFlushFailed").state = "Poisoned")
        BY <3>3, ApplyShaped, Targets
      <4>2. AppendFails("TRANSIT_VERIFIED", CM!Apply(m, "JournalFlushFailed"))
        BY <3>2, <3>5 DEF FinishTransitFails
      <4>3. Dropped \/ commit'.machine = CM!Apply(m, "JournalFlushFailed")
        BY <1>0, <4>1, <4>2, AppendFailsStep DEF Moved
      <4>4. QED
        BY <1>1, <3>1, <3>3, <4>1, <4>3 DEF BeforeFlush
    <3>6. QED
      BY <2>3, <3>4, <3>5
  <2>4. CASE Publish
    <3>1. PICK pc : Goto(pc, commit.machine)
      BY <2>4 DEF Publish
    <3>2. commit'.machine = commit.machine
      BY <1>0, <3>1, GotoStep DEF Moved
    <3>3. QED
      BY <1>2, <2>4, <3>2 DEF Publish
  <2>5. CASE Retry \/ RetryRepairFails \/ RetryLookupFails
    <3>1. CM!Accepts(commit.machine, "Recover")
      BY <2>5 DEF Retry, RetryRepairFails, RetryLookupFails, Retrying
    <3>2. QED
      BY <1>0, <3>1 DEF BeforeFlush, CM!Accepts, CM!HasArm, CM!FailureEvents, CM!AmbiguityEvents
  <2>6. CASE Cancel \/ Abandon \/ CleanupPublished
    BY <1>1, <2>6, DropStep DEF Cancel, Abandon, CleanupPublished, RemoveOwnedNames
  <2>7. CASE Reattach
    <3>1. commit'.machine = CM!Apply(CM!NewMachine(profile), "Admit")
      BY <2>7 DEF Reattach, NoCommit
    <3>2. commit'.machine.state \in {"New", "Admitted"}
      BY <3>1, NewShaped, ApplyShaped, Targets
    <3>3. QED
      BY <3>2 DEF BeforeFlush
  <2>8. CASE ReopenPublication \/ FinishRecovered
    BY <1>0, <2>8 DEF ReopenPublication, Reopenable, FinishRecovered
  <2>9. CASE OpenRefused
    BY <1>2, <2>9 DEF OpenRefused
  <2>10. QED
    BY <1>5, <2>1, <2>2, <2>3, <2>4, <2>5, <2>6, <2>7, <2>8, <2>9 DEF Call
<1>6. CASE Environment
  <2>1. CASE Occupy \/ Vacate \/ Swap
    BY <1>2, <2>1 DEF Occupy, Vacate, Swap
  <2>2. CASE ProcessCrash \/ PowerLoss
    <3>1. commit'.machine = CM!NewMachine(profile)
      BY <2>2 DEF ProcessCrash, PowerLoss, Crashing, NoCommit
    <3>2. QED
      BY <3>1, NewShaped DEF BeforeFlush
  <2>3. QED
    BY <1>6, <2>1, <2>2 DEF Environment
<1>7. CASE UNCHANGED vars
  BY <1>2, <1>7 DEF vars
<1>8. QED
  BY <1>3, <1>4, <1>5, <1>6, <1>7 DEF Next

-----------------------------------------------------------------------------
(* The invariant is inductive.                                             *)

\* Nothing has happened yet.
LEMMA InitInv == Init => Inv
<1> SUFFICES ASSUME Init PROVE Inv
  OBVIOUS
<1>1. NamesOK /\ DataOK
  BY DEF Init, NamesOK, DataOK, Inodes
<1>2. LogOK /\ log.records = <<>> /\ ~HasRecord("PUBLISHED")
  BY DEF Init, LogOK, HasRecord
<1>3. /\ CommitShape(commit) /\ commit.pc = "fresh" /\ commit.machine.state = "New"
      /\ commit.verified = FALSE /\ commit.recovered = FALSE
  BY NewShaped DEF Init, NoCommit, CommitShape
<1>4. PcInv /\ LostInv
  BY <1>2, <1>3 DEF Init, PcInv, LostInv, At
<1>5. FlushInv /\ PlaceInv
  BY <1>2, <1>3 DEF Init, FlushInv, PlaceInv, At, AfterFlush
<1>6. QED
  BY <1>1, <1>2, <1>3, <1>4, <1>5 DEF Inv

\* Every step of a receiver keeps the invariant.
LEMMA InvStep ==
  ASSUME Inv, ~DirectCalls, [Next]_vars
  PROVE  Inv'
<1>1. CommitStep
  BY StepStep, StepFailsStep, CallStep, EnvironmentStep DEF Next
<1>2. /\ NamesOK' /\ (Placed /\ ~At("fresh") => Placed')
      /\ "own" \in durable'.dest => "own" \in durable.dest \/ At("link_at")
  BY NamesKept DEF Inv
<1>3. /\ DataOK' /\ (Flushed => Flushed')
      /\ data'.lost => data.lost \/ At("sync_data")
  BY BytesKept
<1>4. /\ LogOK' /\ (TransitSynced => TransitSynced')
      /\ HasRecord("PUBLISHED")' => HasRecord("PUBLISHED") \/ At("record_published")
  BY RecordsKept DEF Inv, PcInv, At, Early
<1>5. profile' = profile
  BY BytesStep
<1>6. CommitShape(commit)'
  <2>1. CASE UNCHANGED commit
    BY <2>1 DEF Inv, CommitShape, Shaped
  <2>2. QED
    BY <1>1, <2>1 DEF CommitStep, Dropped, Kept
<1>7. PcInv'
  BY <1>1, <1>5 DEF CommitStep, Dropped, Kept, PcInv, Inv, At, Early, AfterFlush, Sealing
<1>8. LostInv'
  <2>1. data'.lost => (commit.verified \/ commit.recovered \/ At("gone")) /\ TransitSynced
    BY <1>3 DEF Inv, LostInv, PcInv
  <2>2. commit'.verified => commit.verified \/ TransitSynced'
    BY <1>1 DEF CommitStep, Dropped, Kept
  <2>3. data'.lost => commit'.verified \/ commit'.recovered \/ At("gone")'
    <3>1. CASE At("gone")
      BY <3>1, GoneStep DEF At
    <3>2. CASE ~At("gone")
      BY <1>1, <2>1, <3>2 DEF CommitStep, Dropped, Kept, At
    <3>3. QED
      BY <3>1, <3>2
  <2>4. QED
    BY <1>4, <2>1, <2>2, <2>3 DEF Inv, LostInv
<1>9. FlushInv'
  <2>1. "own" \in durable'.dest => Flushed'
    BY <1>2, <1>3 DEF Inv, FlushInv, At, AfterFlush
  <2>2. commit'.pc \in AfterFlush \/ commit'.recovered => Flushed'
    BY <1>1, <1>3 DEF CommitStep, Dropped, Kept, Inv, FlushInv, At, AfterFlush, Sealing, Early
  <2>3. ~Flushed' /\ ~commit'.recovered => BeforeFlush(commit.machine, data)'
    BY <1>3, MachineStep
  <2>4. QED
    BY <2>1, <2>2, <2>3 DEF FlushInv, BeforeFlush
<1>10. PlaceInv'
  <2>1. /\ At("unlink")' => names'.dest = "own" /\ durable'.dest = {"own"}
        /\ At("sync_stage")' =>
             names'.dest = "own" /\ durable'.dest = {"own"} /\ names'.stage # "own"
    BY <1>1 DEF CommitStep, Dropped, Kept, Inv, PlaceInv, At, AfterFlush, Sealing, Early
  <2>2. At("record_published")' => Placed'
    BY <1>1, <1>2 DEF CommitStep, Dropped, Kept, Inv, PlaceInv, At, AfterFlush, Sealing, Early
  <2>3. receipted \/ HasRecord("PUBLISHED") \/ At("record_published") => Placed' /\ Flushed'
    <3>1. At("fresh") => ~receipted /\ ~HasRecord("PUBLISHED") /\ ~At("record_published")
      BY DEF Inv, PcInv, At, Early, HasRecord
    <3>2. QED
      BY <1>2, <1>3, <3>1 DEF Inv, PlaceInv, FlushInv, At, AfterFlush
  <2>4. At("sync_stage") => Flushed'
    BY <1>3 DEF Inv, FlushInv, At, AfterFlush
  <2>5. QED
    BY <1>4, <2>1, <2>2, <2>3, <2>4, ReceiptStep DEF PlaceInv
<1>11. QED
  BY <1>2, <1>3, <1>4, <1>6, <1>7, <1>8, <1>9, <1>10 DEF Inv

\* A PUBLISHED receipt is for an object that no power loss can take back,
\* whichever of publish, retry_publication and finish_recovered_publication
\* returns it: for every number of faults, crashes and substitutions and every
\* sequence limit, provided that the provider is called as NativeFile calls it.
THEOREM ReceiptDurable ==
  ASSUME ~DirectCalls
  PROVE  Spec => []ReceiptIsDurable
<1>1. Init => Inv
  BY InitInv
<1>2. Inv /\ [Next]_vars => Inv'
  BY InvStep
<1>3. Inv => ReceiptIsDurable
  BY DEF Inv, PlaceInv, Placed, Flushed, ReceiptIsDurable, Settled
<1>4. QED
  BY <1>1, <1>2, <1>3, PTL DEF Spec

\* A PUBLISHED record tells the truth from the moment it is written, before
\* its own flush and whatever happens to it: recover_at may answer
\* AlreadyPublished from it.
THEOREM PublishedRecordSettled ==
  ASSUME ~DirectCalls
  PROVE  Spec => [](HasRecord("PUBLISHED") => Settled)
<1>1. Init => Inv
  BY InitInv
<1>2. Inv /\ [Next]_vars => Inv'
  BY InvStep
<1>3. Inv => (HasRecord("PUBLISHED") => Settled)
  BY DEF Inv, PlaceInv, Placed, Flushed, Settled
<1>4. QED
  BY <1>1, <1>2, <1>3, PTL DEF Spec

=============================================================================
