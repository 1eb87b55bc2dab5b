----------------------------- MODULE PosixCommit -----------------------------
(***************************************************************************)
(* The POSIX commit provider of crates/vot-commit-posix and the calls that *)
(* crates/vot-sdk-file makes of it: one incarnation, from staging to a     *)
(* published destination name, with faults, process crashes and power loss *)
(* between any two system calls.                                           *)
(*                                                                         *)
(* Three names are watched: the staging name and the journal in one        *)
(* directory, the destination in another.  `names` is what a lookup finds  *)
(* now, `durable` the values a power loss may bring back for each, so a    *)
(* directory flush is the assignment of a singleton.  "own" is the inode   *)
(* this incarnation created, "other" any other inode.                      *)
(*                                                                         *)
(* One value of commit.pc is one point between two system calls.  The      *)
(* assurance machine is the one of CommitMachine; Journal models the file  *)
(* format and the lock that `log` abstracts.                               *)
(***************************************************************************)
EXTENDS Naturals, Sequences

CONSTANTS MaxSequence,      \* the last sequence number of a machine
          UsedProfiles,     \* the profiles an ingest is created with
          Faults,           \* the kinds of fault that may happen
          MaxSwaps,         \* bound on substitutions of the staging name
          DirectCalls,      \* TRUE: publish is called without vot-sdk-file
          MaxFaults,        \* bound on faults in a behaviour
          MaxCrashes        \* bound on process crashes and power losses

VARIABLES profile,          \* the profile of the ingest
          names,            \* what the three names refer to
          durable,          \* what they may refer to after a power loss
          data,             \* the staged bytes
          log,              \* the journal's records
          commit,           \* the memory of the process that holds the commit
          receipted,        \* a PUBLISHED receipt was returned
          ended,            \* how the names were removed on purpose
          left              \* faults, crashes and swaps that may still happen

vars == <<profile, names, durable, data, log, commit, receipted, ended, left>>

CM == INSTANCE CommitMachine WITH machine <- commit.machine

AllFaults == {"write", "data_flush", "read_back", "journal", "torn_linked",
              "link", "lookup", "replay_lookup", "directory_flush", "corrupt"}

ASSUME ConstantsAssumption ==
  /\ MaxSequence \in Nat /\ MaxFaults \in Nat /\ MaxCrashes \in Nat
  /\ MaxSwaps \in Nat
  /\ UsedProfiles \subseteq CM!Profiles
  /\ Faults \subseteq AllFaults
  /\ DirectCalls \in BOOLEAN

Inodes == {"absent", "own", "other"}

RecordKinds == {"ADMITTED", "TRANSIT_VERIFIED", "DURABLE", "AT_REST_VERIFIED",
                "NAMESPACE_LINKED", "PUBLISHED"}

\* The record that a profile must have written before its link.
ReadyRecord(p) ==
  CASE p = "Fast"     -> "TRANSIT_VERIFIED"
    [] p = "Balanced" -> "DURABLE"
    [] p = "Strict"   -> "AT_REST_VERIFIED"

HasRecord(kind) == \E i \in 1..Len(log.records) : log.records[i] = kind

LastRecord == IF log.records = <<>> THEN "none" ELSE log.records[Len(log.records)]

\* No process holds the commit.
NoCommit(pc) ==
  [pc |-> pc, machine |-> CM!NewMachine(profile), sealed |-> FALSE,
   verified |-> FALSE, poisoned |-> FALSE, recovered |-> FALSE]

Init ==
  /\ profile \in UsedProfiles
  /\ names = [stage |-> "absent", dest |-> "absent", journal |-> FALSE]
  /\ durable = [stage |-> {"absent"}, dest |-> {"absent"}, journal |-> {FALSE}]
  /\ data = [complete |-> FALSE, synced |-> FALSE, lost |-> FALSE]
  /\ log = [records |-> <<>>, synced |-> 0, torn |-> FALSE, corrupt |-> FALSE]
  /\ commit = NoCommit("fresh")
  /\ receipted = FALSE
  /\ ended = "no"
  /\ left = [faults |-> MaxFaults, crashes |-> MaxCrashes, swaps |-> MaxSwaps]

-----------------------------------------------------------------------------
(* What the handlers are made of.                                          *)

At(pc) == commit.pc = pc

NoFault == left' = left

Fault(kind) ==
  /\ kind \in Faults
  /\ left.faults > 0
  /\ left' = [left EXCEPT !.faults = @ - 1]

\* The next point of the handler, with the machine it goes on with.
Goto(pc, m) == commit' = [commit EXCEPT !.pc = pc, !.machine = m]

\* An error returns to the caller.  A recovered commit is a local of
\* recover_publication and is dropped with the error.
ReturnFrom(c, m) ==
  commit' = IF c.recovered THEN NoCommit("gone")
            ELSE [c EXCEPT !.pc = "idle", !.machine = m]

Return(m) == ReturnFrom(commit, m)

\* machine.apply(event)?: go on if the machine accepts, return if it refuses.
Advance(event, pc) ==
  IF CM!Accepts(commit.machine, event) THEN Goto(pc, CM!After(commit.machine, event))
                                       ELSE Return(commit.machine)

\* PosixCommit::fail: the event is applied if the machine accepts it.
Fail(event) == Return(CM!Apply(commit.machine, event))

\* Changing a name now; either value may survive a power loss.
SetName(name, inode) ==
  /\ names' = [names EXCEPT ![name] = inode]
  /\ durable' = [durable EXCEPT ![name] = @ \cup {inode}]

SyncStageParent ==
  durable' = [durable EXCEPT !.stage = {names.stage}, !.journal = {names.journal}]

SyncDestParent == durable' = [durable EXCEPT !.dest = {names.dest}]

\* Journal::append_durable, written and flushed.
AppendDurable(kind) ==
  log' = [log EXCEPT !.records = Append(@, kind), !.synced = Len(log.records) + 1]

\* Journal::append_durable failing: the record is missing or torn, or it is
\* whole and not flushed.  The journal is poisoned until it is repaired.
AppendFails(kind, m) ==
  /\ Fault("journal")
  /\ \/ /\ kind = "NAMESPACE_LINKED" => "torn_linked" \in Faults
        /\ log' = [log EXCEPT !.torn = TRUE]
     \/ log' = [log EXCEPT !.records = Append(@, kind)]
  /\ ReturnFrom([commit EXCEPT !.poisoned = TRUE], m)

-----------------------------------------------------------------------------
(* create_at.                                                              *)

CreateStaging ==
  /\ At("fresh") /\ names.dest = "absent"       \* NativeFile refuses an existing name
  /\ SetName("stage", "own")
  /\ Goto("staged", commit.machine) /\ NoFault
  /\ UNCHANGED <<profile, data, log, receipted, ended>>

\* Journal::create_at: the name, then the flush of its directory.
CreateJournal ==
  /\ At("staged")
  /\ SetName("journal", TRUE)
  /\ Goto("journal_made", commit.machine) /\ NoFault
  /\ UNCHANGED <<profile, data, log, receipted, ended>>

SyncJournalName ==
  /\ At("journal_made")
  /\ SyncStageParent
  /\ Goto("admit", commit.machine) /\ NoFault
  /\ UNCHANGED <<profile, names, data, log, receipted, ended>>

\* PosixCommit::remove_owned_names: each name goes if it is still ours.
RemoveOwnedNames ==
  LET stage == IF names.stage = "own" THEN "absent" ELSE names.stage
  IN /\ names' = [names EXCEPT !.stage = stage, !.journal = FALSE]
     /\ durable' = [durable EXCEPT !.stage = @ \cup {stage}, !.journal = @ \cup {FALSE}]
     /\ commit' = NoCommit("gone")
     /\ ended' = "cancelled"

CreateFails ==
  /\ At("staged") \/ At("journal_made")
  /\ Fault("directory_flush")
  /\ RemoveOwnedNames
  /\ UNCHANGED <<profile, data, log, receipted>>

Admit ==
  /\ At("admit")
  /\ AppendDurable("ADMITTED")
  /\ Goto("idle", CM!Apply(commit.machine, "Admit")) /\ NoFault
  /\ UNCHANGED <<profile, names, durable, data, receipted, ended>>

AdmitFails ==
  /\ At("admit")
  /\ Fault("journal")
  /\ log' \in {[log EXCEPT !.torn = TRUE], [log EXCEPT !.records = <<"ADMITTED">>]}
  /\ RemoveOwnedNames
  /\ UNCHANGED <<profile, data, receipted>>

-----------------------------------------------------------------------------
(* The calls a receiver makes of a commit that is between two calls.       *)

Holding == At("idle") /\ ~commit.recovered

\* write_verified_at until the object is covered.
Write ==
  /\ Holding /\ ~data.complete
  /\ commit.machine.state = "Admitted"
  /\ data' = [data EXCEPT !.complete = TRUE, !.lost = FALSE] /\ NoFault
  /\ UNCHANGED <<profile, names, durable, log, commit, receipted, ended>>

WriteFails ==
  /\ Holding
  /\ commit.machine.state = "Admitted"
  /\ Fault("write")
  /\ Fail("DataFlushFailed")
  /\ UNCHANGED <<profile, names, durable, data, log, receipted, ended>>

\* finish_transit_verified, which NativeFile::publish calls once, and only
\* when every byte is covered.
FinishTransitVerified ==
  /\ Holding /\ data.complete /\ ~commit.verified
  /\ CM!Accepts(commit.machine, "TransitVerified")
  /\ AppendDurable("TRANSIT_VERIFIED")
  /\ commit' = [commit EXCEPT !.machine = CM!After(@, "TransitVerified"), !.verified = TRUE]
  /\ NoFault
  /\ UNCHANGED <<profile, names, durable, data, receipted, ended>>

FinishTransitFails ==
  /\ Holding /\ data.complete /\ ~commit.verified
  /\ CM!Accepts(commit.machine, "TransitVerified")
  /\ LET m == CM!After(commit.machine, "TransitVerified")
     IN AppendFails("TRANSIT_VERIFIED", CM!Apply(m, "JournalFlushFailed"))
  /\ UNCHANGED <<profile, names, durable, data, receipted, ended>>

\* publish and publish_strict.  NativeFile calls them once the transfer is
\* sealed, and retry_publication instead when recovery is required.
Publish ==
  /\ Holding
  /\ DirectCalls \/ (commit.verified /\ commit.machine.state \notin {"Published", "RecoveryRequired"})
  /\ Goto(IF profile = "Fast" THEN "seal" ELSE "sync_data", commit.machine) /\ NoFault
  /\ UNCHANGED <<profile, names, durable, data, log, receipted, ended>>

\* prepare_durable.
SyncData ==
  /\ At("sync_data") /\ NoFault
  /\ data' = [data EXCEPT !.synced = data.complete /\ ~data.lost]
  /\ Advance("DataFlushSucceeded", "record_durable")
  /\ UNCHANGED <<profile, names, durable, log, receipted, ended>>

\* A flush that fails may leave pages that no later flush writes.
SyncDataFails ==
  /\ At("sync_data") /\ Fault("data_flush")
  /\ Fail("DataFlushFailed")
  /\ \E lost \in BOOLEAN : data' = [data EXCEPT !.lost = lost /\ ~data.synced]
  /\ UNCHANGED <<profile, names, durable, log, receipted, ended>>

RecordDurable ==
  /\ At("record_durable") /\ NoFault
  /\ AppendDurable("DURABLE")
  /\ Advance("JournalFlushSucceeded", "seal")
  /\ UNCHANGED <<profile, names, durable, data, receipted, ended>>

RecordDurableFails ==
  /\ At("record_durable")
  /\ AppendFails("DURABLE", CM!Apply(commit.machine, "JournalFlushFailed"))
  /\ UNCHANGED <<profile, names, durable, data, receipted, ended>>

\* Staging::seal: the writable handle is traded for a read-only one opened
\* by name, which must find the same inode.
Seal ==
  /\ At("seal") /\ NoFault
  /\ IF commit.sealed \/ names.stage = "own"
     THEN commit' = [commit EXCEPT !.sealed = TRUE,
                       !.pc = IF profile = "Strict" THEN "read_back" ELSE "namespace"]
     ELSE Return(commit.machine)
  /\ UNCHANGED <<profile, names, durable, data, log, receipted, ended>>

\* publish_strict's direct read, by name and compared with the sealed inode;
\* a reader that cannot be had or does not agree returns without an event.
ReadBack ==
  /\ At("read_back") /\ NoFault
  /\ \/ names.stage = "own" /\ data.complete /\ Advance("AtRestVerified", "record_at_rest")
     \/ Return(commit.machine)
  /\ UNCHANGED <<profile, names, durable, data, log, receipted, ended>>

ReadBackMismatch ==
  /\ At("read_back") /\ Fault("read_back")
  /\ Fail("AtRestVerificationFailed")
  /\ UNCHANGED <<profile, names, durable, data, log, receipted, ended>>

RecordAtRest ==
  /\ At("record_at_rest") /\ NoFault
  /\ AppendDurable("AT_REST_VERIFIED")
  /\ Goto("namespace", commit.machine)
  /\ UNCHANGED <<profile, names, durable, data, receipted, ended>>

RecordAtRestFails ==
  /\ At("record_at_rest")
  /\ AppendFails("AT_REST_VERIFIED", CM!Apply(commit.machine, "JournalFlushFailed"))
  /\ UNCHANGED <<profile, names, durable, data, receipted, ended>>

-----------------------------------------------------------------------------
(* publish_namespace.                                                      *)

\* A namespace that is already linked is checked and sealed; any other is
\* linked, from a staging name that must still be the sealed inode.
EnterNamespace ==
  /\ At("namespace") /\ NoFault
  /\ IF commit.machine.state = "NamespaceLinked"
     THEN IF names.dest = "own" THEN Goto("sync_dest", commit.machine)
                                ELSE Fail("NamespaceFlushFailed")
     ELSE IF names.stage = "own" THEN Goto("link_at", commit.machine)
                                 ELSE Return(commit.machine)
  /\ UNCHANGED <<profile, names, durable, data, log, receipted, ended>>

EnterNamespaceFails ==
  /\ At("namespace") /\ Fault("lookup")
  /\ Fail(IF commit.machine.state = "NamespaceLinked" THEN "NamespaceFlushFailed"
                                                      ELSE "NamespaceLinkAmbiguous")
  /\ UNCHANGED <<profile, names, durable, data, log, receipted, ended>>

\* The link is in place, and only now is the machine asked.
Linked == Advance("NamespaceLinked", "record_linked")


\* classify_failed_link: whether the destination is the sealed inode decides,
\* not why the link failed.
ClassifyFailedLink(dest) == IF dest = "own" THEN Linked ELSE Return(commit.machine)

\* Mutant of LinkAt: a rename, which replaces what the name referred to.
LinkAt_Replaces ==
  /\ At("link_at") /\ NoFault
  /\ SetName("dest", names.stage) /\ Goto("link_verify", commit.machine)
  /\ UNCHANGED <<profile, data, log, receipted, ended>>

\* FileLocation::link_to.  linkat goes by name, so what it links is whatever
\* the staging name is by now.
LinkAt ==
  /\ At("link_at") /\ NoFault
  /\ IF names.dest = "absent" /\ names.stage # "absent"
     THEN SetName("dest", names.stage) /\ Goto("link_verify", commit.machine)
     ELSE ClassifyFailedLink(names.dest) /\ UNCHANGED <<names, durable>>
  /\ UNCHANGED <<profile, data, log, receipted, ended>>

\* linkat reports an error, having made the link or not.
LinkAtFails ==
  /\ At("link_at") /\ Fault("link")
  /\ \/ /\ names.dest = "absent" /\ names.stage # "absent"
        /\ SetName("dest", names.stage)
     \/ UNCHANGED <<names, durable>>
  /\ ClassifyFailedLink(names'.dest)
  /\ UNCHANGED <<profile, data, log, receipted, ended>>

\* linkat fails and so does the lookup that would classify it.
LinkAtUnclassified ==
  /\ At("link_at") /\ Fault("lookup")
  /\ \/ /\ names.dest = "absent" /\ names.stage # "absent"
        /\ SetName("dest", names.stage)
     \/ UNCHANGED <<names, durable>>
  /\ Fail("NamespaceLinkAmbiguous")
  /\ UNCHANGED <<profile, data, log, receipted, ended>>

LinkVerify ==
  /\ At("link_verify") /\ NoFault
  /\ IF names.dest = "own" THEN Linked ELSE Fail("NamespaceLinkAmbiguous")
  /\ UNCHANGED <<profile, names, durable, data, log, receipted, ended>>

LinkVerifyFails ==
  /\ At("link_verify") /\ Fault("lookup")
  /\ Fail("NamespaceLinkAmbiguous")
  /\ UNCHANGED <<profile, names, durable, data, log, receipted, ended>>

RecordLinked ==
  /\ At("record_linked") /\ NoFault
  /\ AppendDurable("NAMESPACE_LINKED")
  /\ Goto("sync_dest", commit.machine)
  /\ UNCHANGED <<profile, names, durable, data, receipted, ended>>

RecordLinkedFails ==
  /\ At("record_linked")
  /\ AppendFails("NAMESPACE_LINKED", CM!Apply(commit.machine, "NamespaceFlushFailed"))
  /\ UNCHANGED <<profile, names, durable, data, receipted, ended>>

\* Mutant of SyncDest: the destination's directory is not flushed.
SyncDest_NoFlush ==
  /\ At("sync_dest") /\ NoFault
  /\ IF names.dest = "own" THEN Goto("unlink", commit.machine)
                           ELSE Fail("NamespaceFlushFailed")
  /\ UNCHANGED <<profile, names, durable, data, log, receipted, ended>>

\* seal_namespace: the destination's directory, the check of what it holds,
\* the alias, the staging directory.  On a replayed PUBLISHED machine the
\* failure event is refused, and the error returned all the same.
SyncDest ==
  /\ At("sync_dest") /\ NoFault
  /\ SyncDestParent
  /\ IF names.dest = "own" THEN Goto("unlink", commit.machine)
                           ELSE Fail("NamespaceFlushFailed")
  /\ UNCHANGED <<profile, names, data, log, receipted, ended>>

\* Mutant of RemoveAlias: PUBLISHED is recorded before the staging directory
\* is flushed.
RemoveAlias_RecordFirst ==
  /\ At("unlink") /\ NoFault
  /\ CASE names.stage = "absent" -> UNCHANGED <<names, durable>> /\ Goto("record_published", commit.machine)
       [] names.stage = "own"    -> SetName("stage", "absent") /\ Goto("record_published", commit.machine)
       [] names.stage = "other"  -> UNCHANGED <<names, durable>> /\ Fail("NamespaceFlushFailed")
  /\ UNCHANGED <<profile, data, log, receipted, ended>>

RemoveAlias ==
  /\ At("unlink") /\ NoFault
  /\ CASE names.stage = "absent" -> UNCHANGED <<names, durable>> /\ Goto("sync_stage", commit.machine)
       [] names.stage = "own"    -> SetName("stage", "absent") /\ Goto("sync_stage", commit.machine)
       [] names.stage = "other"  -> UNCHANGED <<names, durable>> /\ Fail("NamespaceFlushFailed")
  /\ UNCHANGED <<profile, data, log, receipted, ended>>

\* The receipt, which only the NamespaceDurable observation gives.
Observe(c, m) ==
  IF CM!Accepts(m, "NamespaceDurable")
  THEN /\ commit' = [c EXCEPT !.pc = "idle", !.machine = CM!After(m, "NamespaceDurable")]
       /\ receipted' = TRUE
  ELSE ReturnFrom(c, m) /\ UNCHANGED receipted

\* Mutant of SyncStage: the removal of the alias is not flushed.
SyncStage_NoFlush ==
  /\ At("sync_stage") /\ NoFault
  /\ IF commit.machine.state = "Published"
     THEN Goto("idle", commit.machine) /\ receipted' = TRUE
     ELSE Goto("record_published", commit.machine) /\ UNCHANGED receipted
  /\ UNCHANGED <<profile, names, durable, data, log, ended>>

\* A machine that was replayed as published needs no record and no event.
SyncStage ==
  /\ At("sync_stage") /\ NoFault
  /\ SyncStageParent
  /\ IF commit.machine.state = "Published"
     THEN Goto("idle", commit.machine) /\ receipted' = TRUE
     ELSE Goto("record_published", commit.machine) /\ UNCHANGED receipted
  /\ UNCHANGED <<profile, names, data, log, ended>>

SealNamespaceFails ==
  /\ At("sync_dest") \/ At("unlink") \/ At("sync_stage")
  /\ Fault("directory_flush")
  /\ Fail("NamespaceFlushFailed")
  /\ UNCHANGED <<profile, names, durable, data, log, receipted, ended>>

RecordPublished ==
  /\ At("record_published") /\ NoFault
  /\ AppendDurable("PUBLISHED")
  /\ Observe(commit, commit.machine)
  /\ UNCHANGED <<profile, names, durable, data, ended>>

RecordPublishedFails ==
  /\ At("record_published")
  /\ AppendFails("PUBLISHED", CM!Apply(commit.machine, "NamespaceFlushFailed"))
  /\ UNCHANGED <<profile, names, durable, data, receipted, ended>>

-----------------------------------------------------------------------------
(* retry_publication: NativeFile::publish called again.                    *)

\* Journal::repair_poisoned: the torn tail is cut and the rest flushed.
Repaired ==
  IF commit.poisoned THEN [log EXCEPT !.torn = FALSE, !.synced = Len(log.records)] ELSE log

\* The repair found that PUBLISHED had been written after all.
RepairedPublished == commit.poisoned /\ LastRecord = "PUBLISHED"

Retrying == Holding /\ CM!Accepts(commit.machine, "Recover")

Retry ==
  LET c == [commit EXCEPT !.poisoned = FALSE]
      m == CM!After(commit.machine, "Recover")
  IN /\ Retrying /\ NoFault
     /\ log' = Repaired
     /\ IF ~RepairedPublished
        THEN commit' = [c EXCEPT !.pc = "namespace", !.machine = m] /\ UNCHANGED receipted
        ELSE IF names.dest = "own" THEN Observe(c, m)
                                   ELSE ReturnFrom(c, m) /\ UNCHANGED receipted
     /\ UNCHANGED <<profile, names, durable, data, ended>>

RetryRepairFails ==
  /\ Retrying /\ commit.poisoned /\ Fault("journal")
  /\ log' \in {log, [log EXCEPT !.torn = FALSE]}
  /\ UNCHANGED <<profile, names, durable, data, commit, receipted, ended>>

\* finish_published_replay returns the error of its lookup as it is.
RetryLookupFails ==
  /\ Retrying /\ RepairedPublished /\ Fault("replay_lookup")
  /\ log' = Repaired
  /\ ReturnFrom([commit EXCEPT !.poisoned = FALSE], CM!After(commit.machine, "Recover"))
  /\ UNCHANGED <<profile, names, durable, data, receipted, ended>>

-----------------------------------------------------------------------------
(* The end of a commit.                                                    *)

\* Mutant of Cancel: Drop does not look at preserve_recovery.
Cancel_NotPreserved ==
  /\ Holding /\ commit.machine.state # "Published"
  /\ RemoveOwnedNames /\ NoFault
  /\ UNCHANGED <<profile, data, log, receipted>>

\* NativeFile::cancel, and Drop: not once published, nor while the files are
\* needed for recovery (preserve_recovery).
Cancel ==
  /\ Holding /\ commit.machine.state \notin {"Published", "RecoveryRequired"}
  /\ RemoveOwnedNames /\ NoFault
  /\ UNCHANGED <<profile, data, log, receipted>>

\* NativeFile::abandon, Drop of a published or preserved receiver, and a
\* consumer that declines to finish a recovered publication.
Abandon ==
  /\ At("idle")
  /\ commit' = NoCommit("gone") /\ NoFault
  /\ UNCHANGED <<profile, names, durable, data, log, receipted, ended>>

\* cleanup_published, after publish or by forget_publication.
CleanupPublished ==
  /\ At("idle") /\ commit.machine.state = "Published"
  /\ SetName("journal", FALSE)
  /\ commit' = NoCommit("gone") /\ ended' = "cleaned" /\ NoFault
  /\ UNCHANGED <<profile, data, log, receipted>>

-----------------------------------------------------------------------------
(* A new process.                                                          *)

\* Journal::open_at reads a journal, and cuts a torn tail.
Readable == names.journal /\ ~log.corrupt

\* Mutant of Opened: the cut takes the last whole record too.
Opened_CutsRecord ==
  IF log.torn /\ log.records # <<>>
  THEN [log EXCEPT !.torn = FALSE, !.records = SubSeq(@, 1, Len(@) - 1)] ELSE log

Opened == IF log.torn THEN [log EXCEPT !.torn = FALSE, !.synced = Len(log.records)] ELSE log

Replay(ms, event) == {CM!After(m, event) : m \in {x \in ms : CM!Accepts(x, event)}}

ReplayRecord(ms, kind) ==
  CASE kind = "ADMITTED"         -> Replay(ms, "Admit")
    [] kind = "TRANSIT_VERIFIED" -> Replay(ms, "TransitVerified")
    [] kind = "DURABLE"          -> Replay(Replay(ms, "DataFlushSucceeded"), "JournalFlushSucceeded")
    [] kind = "AT_REST_VERIFIED" -> Replay(ms, "AtRestVerified")
    [] kind = "NAMESPACE_LINKED" -> Replay(ms, "NamespaceLinked")
    [] kind = "PUBLISHED"        -> Replay(ms, "NamespaceDurable")

\* replay_publication: the machine the records lead to, or none.
ReplayPublication ==
  LET replay[n \in 0..Len(log.records)] ==
        IF n = 0 THEN {CM!NewMachine(profile)}
        ELSE ReplayRecord(replay[n - 1], log.records[n])
  IN {m \in replay[Len(log.records)] :
        m.state \in {CM!RequiredPredecessor(profile), "NamespaceLinked", "Published"}}

\* Mutant of AliasAgrees: the alias must still be there.
AliasAgrees_Required(m) == names.stage = "own"

\* validate_publication_alias.
AliasAgrees(m) ==
  \/ names.stage = "own"
  \/ names.stage = "absent" /\ m.state \in {"NamespaceLinked", "Published"}

\* The machines reopen_publication_at accepts: the destination is the admitted
\* inode, the records replay, the alias agrees.
Reopenable == {m \in ReplayPublication : names.dest = "own" /\ AliasAgrees(m)}

\* reattach_at, for a destination that NativeFile::resume found absent.
Reattach ==
  /\ At("gone") /\ Readable
  /\ names.dest = "absent" /\ names.stage = "own"
  /\ log.records # <<>> /\ \A i \in 1..Len(log.records) : log.records[i] = "ADMITTED"
  /\ log' = Opened
  /\ commit' = [NoCommit("idle") EXCEPT !.machine = CM!Apply(@, "Admit")]
  /\ ended' = "no" /\ NoFault
  /\ UNCHANGED <<profile, names, durable, data, receipted>>

ReopenPublication ==
  /\ At("gone") /\ Readable
  /\ \E m \in Reopenable :
       commit' = [NoCommit("idle") EXCEPT !.machine = m, !.sealed = TRUE, !.recovered = TRUE]
  /\ log' = Opened /\ NoFault
  /\ UNCHANGED <<profile, names, durable, data, receipted, ended>>

\* A reattach or reopen that is refused has still opened the journal.
OpenRefused ==
  /\ At("gone") /\ Readable /\ log.torn
  /\ log' = Opened /\ NoFault
  /\ UNCHANGED <<profile, names, durable, data, commit, receipted, ended>>

\* finish_recovered_publication, which the consumer calls once it has read
\* the whole object back and found it right.
FinishRecovered ==
  /\ At("idle") /\ commit.recovered /\ data.complete
  /\ Goto(IF profile = "Fast" THEN "recover_log" ELSE "recover_data", commit.machine) /\ NoFault
  /\ UNCHANGED <<profile, names, durable, data, log, receipted, ended>>

RecoverData ==
  /\ At("recover_data") /\ NoFault
  /\ data' = [data EXCEPT !.synced = ~data.lost]
  /\ Goto("recover_log", commit.machine)
  /\ UNCHANGED <<profile, names, durable, log, receipted, ended>>

\* Journal::sync_replay, then the namespace as far as it is still needed.
RecoverLog ==
  /\ At("recover_log") /\ NoFault
  /\ log' = [log EXCEPT !.synced = Len(log.records)]
  /\ Goto(IF commit.machine.state = "Published" THEN "sync_dest" ELSE "namespace", commit.machine)
  /\ UNCHANGED <<profile, names, durable, data, receipted, ended>>

RecoverFails ==
  /\ \/ /\ At("recover_data") /\ Fault("data_flush")
        /\ \E lost \in BOOLEAN : data' = [data EXCEPT !.lost = lost /\ ~data.synced]
     \/ At("recover_log") /\ Fault("journal") /\ UNCHANGED data
  /\ Return(commit.machine)
  /\ UNCHANGED <<profile, names, durable, log, receipted, ended>>

-----------------------------------------------------------------------------
(* The world around the process.                                           *)

\* Somebody else takes the destination name, or gives it up.
Occupy ==
  /\ names.dest = "absent" /\ SetName("dest", "other") /\ NoFault
  /\ UNCHANGED <<profile, data, log, commit, receipted, ended>>

Vacate ==
  /\ names.dest = "other" /\ SetName("dest", "absent") /\ NoFault
  /\ UNCHANGED <<profile, data, log, commit, receipted, ended>>

\* Somebody else puts another file under the staging name.
Swap ==
  /\ names.stage = "own" /\ left.swaps > 0
  /\ SetName("stage", "other")
  /\ left' = [left EXCEPT !.swaps = @ - 1]
  /\ UNCHANGED <<profile, data, log, commit, receipted, ended>>

Crashing ==
  /\ left.crashes > 0
  /\ left' = [left EXCEPT !.crashes = @ - 1]
  /\ commit' = NoCommit(IF At("fresh") THEN "fresh" ELSE "gone")

\* The process dies and the system stays up: nothing that was written is lost.
ProcessCrash ==
  /\ ~At("fresh") /\ ~At("gone")
  /\ Crashing
  /\ UNCHANGED <<profile, names, durable, data, log, receipted, ended>>

\* What a power loss leaves of the unflushed records: some of them, and
\* perhaps a torn one, or a gap that the reader refuses.
SurvivingLogs ==
  {[records |-> SubSeq(log.records, 1, n), synced |-> n, torn |-> t, corrupt |-> log.corrupt \/ c] :
     n \in log.synced..Len(log.records), t \in BOOLEAN, c \in BOOLEAN}

PowerLoss ==
  /\ Crashing
  /\ \E s \in durable.stage, d \in durable.dest, j \in durable.journal :
       /\ names' = [stage |-> s, dest |-> d, journal |-> j]
       /\ durable' = [stage |-> {s}, dest |-> {d}, journal |-> {j}]
  /\ \E after \in SurvivingLogs :
       /\ log' = after
       /\ after.torn => log.torn \/ after.synced < Len(log.records)
       /\ after.corrupt # log.corrupt =>
            "corrupt" \in Faults /\ after.synced < Len(log.records)
  /\ \/ UNCHANGED data
     \/ ~data.synced /\ data' = [data EXCEPT !.complete = FALSE]
  /\ UNCHANGED <<profile, receipted, ended>>

-----------------------------------------------------------------------------

\* What the process does by itself once a call is under way.
Step ==
  \/ CreateStaging \/ CreateJournal \/ SyncJournalName \/ Admit
  \/ SyncData \/ RecordDurable \/ Seal \/ ReadBack \/ RecordAtRest
  \/ EnterNamespace \/ LinkAt \/ LinkVerify \/ RecordLinked
  \/ SyncDest \/ RemoveAlias \/ SyncStage \/ RecordPublished
  \/ RecoverData \/ RecoverLog

StepFails ==
  \/ CreateFails \/ AdmitFails \/ SyncDataFails \/ RecordDurableFails
  \/ ReadBackMismatch \/ RecordAtRestFails \/ EnterNamespaceFails
  \/ LinkAtFails \/ LinkAtUnclassified \/ LinkVerifyFails \/ RecordLinkedFails
  \/ SealNamespaceFails \/ RecordPublishedFails \/ RecoverFails

\* The calls that the holder of a commit, or a new process, makes.
Call ==
  \/ Write \/ WriteFails \/ FinishTransitVerified \/ FinishTransitFails \/ Publish
  \/ Retry \/ RetryRepairFails \/ RetryLookupFails
  \/ Cancel \/ Abandon \/ CleanupPublished
  \/ Reattach \/ ReopenPublication \/ OpenRefused \/ FinishRecovered

Environment == Occupy \/ Vacate \/ Swap \/ ProcessCrash \/ PowerLoss

Next == Step \/ StepFails \/ Call \/ Environment

Spec == Init /\ [][Next]_vars

\* A call that is under way goes on, and somebody who keeps the journal keeps
\* coming back to it: a receiver publishes again while it is asked to, and a
\* restarted one calls recover_publication until one call is not cancelled.
Fairness ==
  /\ WF_vars(Step)
  /\ SF_vars(Retry) /\ WF_vars(ReopenPublication) /\ SF_vars(FinishRecovered)

FairSpec == Spec /\ Fairness

-----------------------------------------------------------------------------
\* The types; the flushed part of the journal is always a prefix of it, and
\* the machine runs under the profile of the ingest (PosixCommit, Journal).
TypeOK ==
  /\ profile \in CM!Profiles
  /\ names \in [stage: Inodes, dest: Inodes, journal: BOOLEAN]
  /\ durable \in [stage: SUBSET Inodes, dest: SUBSET Inodes, journal: SUBSET BOOLEAN]
  /\ data \in [complete: BOOLEAN, synced: BOOLEAN, lost: BOOLEAN]
  /\ log.records \in Seq(RecordKinds) /\ log.synced \in 0..Len(log.records)
  /\ log.torn \in BOOLEAN /\ log.corrupt \in BOOLEAN
  /\ CM!TypeOK /\ commit.machine.profile = profile
  /\ commit.sealed \in BOOLEAN /\ commit.verified \in BOOLEAN
  /\ commit.poisoned \in BOOLEAN /\ commit.recovered \in BOOLEAN
  /\ receipted \in BOOLEAN /\ ended \in {"no", "cancelled", "cleaned"}

Unmeddled == left.swaps = MaxSwaps

\* No power loss can take the object back: its name is durable, the staging
\* alias is gone for good, and outside Fast the bytes are flushed.
Settled ==
  /\ names.dest = "own" /\ durable.dest = {"own"}
  /\ names.stage # "own" /\ "own" \notin durable.stage
  /\ profile # "Fast" => data.synced

\* A PUBLISHED receipt is returned only for an object that no power loss can
\* take back, whichever of publish, retry_publication and
\* finish_recovered_publication returns it.
ReceiptIsDurable == receipted => Settled

\* The order of seal_namespace never leaves an admitted object unreachable:
\* whatever subset of the directory updates a power loss keeps, one of the two
\* names is there (the comment on seal_namespace).
NeverUnreachable ==
  Unmeddled /\ HasRecord("ADMITTED") /\ names.journal /\ ended = "no" =>
    durable.stage = {"own"} \/ durable.dest = {"own"}

\* Once the destination is linked the journal stays until the publication has
\* been observed, so an interrupted publication never loses its evidence
\* (preserve_recovery in NativeFile, recovery_required).
EvidenceKept ==
  Unmeddled /\ names.dest = "own" => names.journal \/ receipted \/ ended = "cleaned"

\* recover_at's answer for the names and the journal that are there.
RecoverAt ==
  CASE names.dest # "absent" /\ LastRecord \in {"NAMESPACE_LINKED", "PUBLISHED"} ->
         IF names.dest # "own" THEN "DestinationIdentityMismatch"
         ELSE IF LastRecord = "PUBLISHED" THEN "AlreadyPublished" ELSE "FinishDirectoryFlush"
    [] names.dest # "absent" /\ LastRecord \notin {"NAMESPACE_LINKED", "PUBLISHED"} ->
         IF names.stage = names.dest THEN "FinishDirectoryFlush" ELSE "DestinationIdentityMismatch"
    [] names.dest = "absent" ->
         IF names.stage # "absent" THEN "ResumeStaging" ELSE "NotFound"

\* Whenever no process holds a linked publication, its journal and names are
\* enough to take it up again: recover_at recognises the destination, by the
\* record or by the alias, and reopen_publication_at accepts it.
RecoveryAvailable ==
  Unmeddled /\ At("gone") /\ Readable /\ names.dest = "own" =>
    /\ RecoverAt \in {"FinishDirectoryFlush", "AlreadyPublished"}
    /\ Reopenable # {}

\* A PUBLISHED record tells the truth even before it is flushed, so recover_at
\* may answer AlreadyPublished from it, and forget_publication may remove the
\* journal on the strength of it (recover_at, cleanup_published).
PublishedRecordIsTrue == HasRecord("PUBLISHED") \/ ended = "cleaned" => Settled


\* The provider keeps the promise of Publication: nobody's name is replaced,
\* only a verified object becomes visible, and a receipt is for good.
Promise == INSTANCE Publication
             WITH verified <- HasRecord(ReadyRecord(profile)), final <- names.dest, receipt <- receipted

KeepsPromise == Promise!Spec

\* A destination becomes visible only for an incarnation whose journal holds
\* the record its profile requires (spec/commit.md, section 5).
LinkOnlyVerified == names.dest = "own" => HasRecord(ReadyRecord(profile))

\* A poisoned incarnation is never published, not even after a restart
\* (spec/commit.md, sections 4 and 11).
PoisonedNeverPublished ==
  [](commit.machine.state = "Poisoned" => []~receipted)

=============================================================================
