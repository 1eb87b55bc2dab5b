------------------------------- MODULE Journal -------------------------------
(***************************************************************************)
(* The checksummed append-only journal of crates/vot-journal, over a file  *)
(* system that separates what is visible from what a power loss leaves.    *)
(*                                                                         *)
(* An inode holds records, of which a prefix is known to be durable, and   *)
(* possibly the torn bytes of one more.  The journal's name is bound to an *)
(* inode; until the parent directory is flushed a power loss may bring     *)
(* back an earlier binding.  Each writer is a process with one Journal     *)
(* handle.  A record's facts are what its payload says: one stamp for an   *)
(* append, and for a checkpoint everything it replaces.                    *)
(*                                                                         *)
(* The clients differ in what they do around the journal.  "capture" holds *)
(* a lock on its payload file before it opens the journal and flushes the  *)
(* journal and its directory before it uses what it replayed; "commit"     *)
(* does neither and never compacts; "bare" compacts and relies on the      *)
(* crate's own claim.  All of them refuse a journal without records.       *)
(***************************************************************************)
EXTENDS Naturals, Sequences, FiniteSets

CONSTANTS
  Writers,        \* processes that open the journal
  Client,         \* who uses it: "capture", "commit" or "bare"
  Inodes,         \* files that can be created in the journal's directory
  MaxRecords,     \* MAX_JOURNAL_BYTES, counted in records
  MaxSequence,    \* u64::MAX: the last sequence number
  MaxStamps       \* bound on appends that are tried

ASSUME JournalAssumption ==
  /\ Client \in {"capture", "commit", "bare"}
  /\ MaxRecords \in Nat /\ MaxSequence \in Nat /\ MaxStamps \in Nat

NoInode == "no inode"
NoWriter == "no writer"

VARIABLES
  file,      \* inode -> its records, durable prefix and tail
  name,      \* the inode the journal's name is bound to, or NoInode
  durable,   \* the bindings of the name a power loss may leave
  lock,      \* inode -> the writer whose handle holds its lock
  owner,     \* the writer that holds the lock on the client's payload file
  writer,    \* writer -> its Journal handle
  stamps,    \* appends tried so far
  acked      \* facts whose append returned Ok, for the journal's lifetime

vars == <<file, name, durable, lock, owner, writer, stamps, acked>>

Record(sequence, checkpoint, facts) ==
  [sequence |-> sequence, checkpoint |-> checkpoint, facts |-> facts]

Empty == [records |-> <<>>, synced |-> 0, tail |-> "clean"]

\* A handle: where its process is, the inode it holds, the replacement it is
\* compacting into, the next sequence number, and whether it is poisoned.
Idle == [phase |-> "idle", inode |-> NoInode, temporary |-> NoInode,
         next |-> 0, poisoned |-> FALSE]

Facts(records) == UNION {records[i].facts : i \in 1..Len(records)}

Fresh(i) == /\ file[i] = Empty
            /\ i # name /\ i \notin durable
            /\ \A w \in Writers : i \notin {writer[w].inode, writer[w].temporary}

-----------------------------------------------------------------------------
\* replay_reader over whole records: the first opens a journal or is a
\* checkpoint, and each later one repeats its predecessor or follows it.
Replays(records) ==
  /\ Len(records) <= MaxRecords
  /\ records # <<>> => records[1].sequence = 0 \/ records[1].checkpoint
  /\ \A i \in 2..Len(records) :
       \/ records[i] = records[i - 1]
       \/ records[i].sequence = records[i - 1].sequence + 1

\* Mutant of NextSequence: the last record's own number is used again.
NextSequence_OffByOne(records) ==
  IF records = <<>> THEN 0 ELSE records[Len(records)].sequence

\* next_sequence_after: the number after the last record, if there is one.
NextSequence(records) ==
  IF records = <<>> THEN 0 ELSE records[Len(records)].sequence + 1

Readable(f) == /\ f.tail # "corrupt"
               /\ Replays(f.records)
               /\ NextSequence(f.records) <= MaxSequence

\* A successful sync_data of a file without torn bytes.
Synced(f) == [f EXCEPT !.synced = Len(f.records), !.tail = "clean"]

\* set_len(valid_bytes), not yet flushed.
Truncated(f) == [f EXCEPT !.tail = IF @ = "torn" THEN "cut" ELSE @]

\* Dropping a handle, or losing its process, releases its locks.
Released(w) == [i \in Inodes |-> IF lock[i] = w THEN NoWriter ELSE lock[i]]
Disowned(w) == IF owner = w THEN NoWriter ELSE owner

Init ==
  /\ file = [i \in Inodes |-> Empty]
  /\ name = NoInode
  /\ durable = {NoInode}
  /\ lock = [i \in Inodes |-> NoWriter]
  /\ owner = NoWriter
  /\ writer = [w \in Writers |-> Idle]
  /\ stamps = 0
  /\ acked = {}

-----------------------------------------------------------------------------
\* The client's own claim, taken before the journal is touched (capture.rs).
ClaimPayload(w) ==
  /\ Client = "capture"
  /\ owner = NoWriter
  /\ writer[w].phase = "idle"
  /\ owner' = w
  /\ UNCHANGED <<file, name, durable, lock, writer, stamps, acked>>

\* Mutant of MayOpen: the journal is opened without the payload's lock.
MayOpen_Unclaimed(w) == writer[w].phase = "idle"

MayOpen(w) == writer[w].phase = "idle" /\ (Client = "capture" => owner = w)

\* create_at: the name must be absent; the new inode is claimed at once.
Create(w, i) ==
  /\ MayOpen(w)
  /\ name = NoInode
  /\ Fresh(i)
  /\ name' = i
  /\ durable' = durable \cup {i}
  /\ lock' = [lock EXCEPT ![i] = w]
  /\ writer' = [writer EXCEPT ![w] = [Idle EXCEPT !.phase = "created", !.inode = i]]
  /\ UNCHANGED <<file, owner, stamps, acked>>

\* Mutant of FinishCreate: the parent directory is not flushed.
FinishCreate_NoFlush(w) ==
  /\ writer[w].phase = "created"
  /\ writer' = [writer EXCEPT ![w].phase = "live"]
  /\ UNCHANGED <<file, name, durable, lock, owner, stamps, acked>>

\* create_at's flush of the parent, and the removal of the name if it fails.
FinishCreate(w) ==
  /\ writer[w].phase = "created"
  /\ durable' = {name}
  /\ writer' = [writer EXCEPT ![w].phase = "live"]
  /\ UNCHANGED <<file, name, lock, owner, stamps, acked>>

FailCreate(w) ==
  /\ writer[w].phase = "created"
  /\ name' = IF name = writer[w].inode THEN NoInode ELSE name
  /\ durable' = durable \cup {name'}
  /\ lock' = Released(w)
  /\ owner' = Disowned(w)
  /\ writer' = [writer EXCEPT ![w] = Idle]
  /\ UNCHANGED <<file, stamps, acked>>

\* open_at, first half: the open of the name.
Open(w) ==
  /\ MayOpen(w)
  /\ name # NoInode
  /\ writer' = [writer EXCEPT ![w] = [Idle EXCEPT !.phase = "opened", !.inode = name]]
  /\ UNCHANGED <<file, name, durable, lock, owner, stamps, acked>>


\* open_at: the claim of the inode that was opened; Error::Locked otherwise.
Claim(w) ==
  LET i == writer[w].inode
  IN /\ writer[w].phase = "opened"
     /\ \/ /\ lock[i] = NoWriter
           /\ lock' = [lock EXCEPT ![i] = w]
           /\ writer' = [writer EXCEPT ![w].phase = "claimed"]
           /\ UNCHANGED owner
        \/ /\ lock[i] \notin {NoWriter, w}
           /\ writer' = [writer EXCEPT ![w] = Idle]
           /\ owner' = Disowned(w)
           /\ UNCHANGED lock
     /\ UNCHANGED <<file, name, durable, stamps, acked>>

\* open_at, second half: the replay, and the truncation and flush of a torn
\* tail.  The clients refuse a journal without a first record.
Attach(w) ==
  LET i == writer[w].inode
  IN /\ writer[w].phase = "claimed"
     /\ Readable(file[i])
     /\ file[i].records # <<>>
     /\ file' = [file EXCEPT ![i] = IF @.tail = "torn" THEN Synced(@) ELSE @]
     /\ writer' = [writer EXCEPT ![w].phase = IF Client = "capture" THEN "replayed"
                                              ELSE "live",
                                 ![w].next = NextSequence(file[i].records)]
     /\ UNCHANGED <<name, durable, lock, owner, stamps, acked>>

\* open_at refuses, or fails after cutting the tail and before flushing it.
Refuse(w) ==
  /\ writer[w].phase = "claimed"
  /\ file' = [file EXCEPT ![writer[w].inode] = IF Readable(@) THEN Truncated(@) ELSE @]
  /\ lock' = Released(w)
  /\ owner' = Disowned(w)
  /\ writer' = [writer EXCEPT ![w] = Idle]
  /\ UNCHANGED <<name, durable, stamps, acked>>

\* Mutant of SyncReplay: recovery leaves the directory unflushed.
SyncReplay_NoDirectory(w) ==
  /\ writer[w].phase \in {"replayed", "live"} /\ ~writer[w].poisoned
  /\ file' = [file EXCEPT ![writer[w].inode] = Synced(@)]
  /\ writer' = [writer EXCEPT ![w].phase = "live"]
  /\ UNCHANGED <<name, durable, lock, owner, stamps, acked>>

\* sync_replay, followed in the capture client by a flush of the directory.
SyncReplay(w) ==
  LET i == writer[w].inode
  IN /\ writer[w].phase \in {"replayed", "live"} /\ ~writer[w].poisoned
     /\ file' = [file EXCEPT ![i] = Synced(@)]
     /\ durable' = IF writer[w].phase = "replayed" THEN {name} ELSE durable
     /\ writer' = [writer EXCEPT ![w].phase = "live"]
     /\ UNCHANGED <<name, lock, owner, stamps, acked>>

-----------------------------------------------------------------------------
\* Mutants of Appendable: no successor is required, or the ceiling is passed.
Appendable_LastNumber(w) ==
  /\ writer[w].phase = "live" /\ ~writer[w].poisoned
  /\ writer[w].next <= MaxSequence
  /\ Len(file[writer[w].inode].records) < MaxRecords
  /\ stamps < MaxStamps

Appendable_OverCeiling(w) ==
  /\ writer[w].phase = "live" /\ ~writer[w].poisoned
  /\ writer[w].next < MaxSequence
  /\ Len(file[writer[w].inode].records) <= MaxRecords
  /\ stamps < MaxStamps

Appendable(w) ==
  /\ writer[w].phase = "live" /\ ~writer[w].poisoned
  /\ writer[w].next < MaxSequence
  /\ Len(file[writer[w].inode].records) < MaxRecords
  /\ stamps < MaxStamps

\* append_durable: write_all and sync_data both succeed.
AppendOk(w) ==
  LET i == writer[w].inode
      fact == [sequence |-> writer[w].next, stamp |-> stamps]
  IN /\ Appendable(w)
     /\ file' = [file EXCEPT ![i] =
          Synced([@ EXCEPT !.records = Append(@, Record(writer[w].next, FALSE, {fact}))])]
     /\ writer' = [writer EXCEPT ![w].next = @ + 1]
     /\ stamps' = stamps + 1
     /\ acked' = acked \cup {fact}
     /\ UNCHANGED <<name, durable, lock, owner>>

\* append_durable fails and poisons the handle: nothing, a part, or the whole
\* of the record was written, and none of it is known to be durable.
AppendFails(w) ==
  LET i == writer[w].inode
      fact == [sequence |-> writer[w].next, stamp |-> stamps]
  IN /\ Appendable(w)
     /\ \/ UNCHANGED file
        \/ file' = [file EXCEPT ![i].tail = "torn"]
        \/ file' = [file EXCEPT ![i].records =
                      Append(@, Record(writer[w].next, FALSE, {fact}))]
     /\ writer' = [writer EXCEPT ![w].poisoned = TRUE]
     /\ stamps' = stamps + 1
     /\ UNCHANGED <<name, durable, lock, owner, acked>>

\* repair_poisoned: only while the name still is the held inode.
Repair(w) ==
  LET i == writer[w].inode
  IN /\ writer[w].phase = "live" /\ writer[w].poisoned
     /\ name = i
     /\ Readable(file[i])
     /\ \/ /\ file' = [file EXCEPT ![i] = Synced(@)]
           /\ writer' = [writer EXCEPT ![w].next = NextSequence(file[i].records),
                                       ![w].poisoned = FALSE]
        \/ /\ file' = [file EXCEPT ![i] = Truncated(@)]
           /\ UNCHANGED writer
     /\ UNCHANGED <<name, durable, lock, owner, stamps, acked>>

-----------------------------------------------------------------------------
\* compact_checkpoint up to the rename: one synced record in a new inode that
\* is claimed before it has the journal's name.
\* One that is rejected before the rename changes nothing and is a stuttering step.
Compact(w, i) ==
  LET held == file[writer[w].inode]
      checkpoint == Record(writer[w].next - 1, TRUE, Facts(held.records))
  IN /\ Client # "commit"
     /\ writer[w].phase = "live" /\ ~writer[w].poisoned
     /\ writer[w].next > 0
     /\ Fresh(i)
     /\ file' = [file EXCEPT ![i] = Synced([@ EXCEPT !.records = <<checkpoint>>])]
     /\ lock' = [lock EXCEPT ![i] = w]
     /\ writer' = [writer EXCEPT ![w].phase = "renaming", ![w].temporary = i]
     /\ UNCHANGED <<name, durable, owner, stamps, acked>>

\* The rename puts the replacement in the journal's place.
Rename(w) ==
  /\ writer[w].phase = "renaming"
  /\ name' = writer[w].temporary
  /\ durable' = durable \cup {name'}
  /\ writer' = [writer EXCEPT ![w].phase = "adopting"]
  /\ UNCHANGED <<file, lock, owner, stamps, acked>>

\* Mutant of Abandoned: the handle on the retired inode stays usable.
Abandoned_NotPoisoned(w) ==
  /\ lock' = [lock EXCEPT ![writer[w].temporary] = NoWriter]
  /\ writer' = [writer EXCEPT ![w].phase = "live", ![w].temporary = NoInode]
  /\ UNCHANGED <<file, owner, stamps, acked>>

\* The replacement's handle is dropped and the held one poisoned: the rename
\* failed, its success was not reported, or the directory flush failed.
Abandoned(w) ==
  /\ lock' = [lock EXCEPT ![writer[w].temporary] = NoWriter]
  /\ writer' = [writer EXCEPT ![w].phase = "live", ![w].temporary = NoInode,
                              ![w].poisoned = TRUE]
  /\ UNCHANGED <<file, owner, stamps, acked>>

RenameFails(w) ==
  /\ writer[w].phase = "renaming"
  /\ name' \in {name, writer[w].temporary}
  /\ durable' = durable \cup {name'}
  /\ Abandoned(w)

FinishCompactionFails(w) ==
  /\ writer[w].phase = "adopting"
  /\ Abandoned(w)
  /\ UNCHANGED <<name, durable>>

\* finish_compaction: the directory is flushed, the replacement reads back as
\* one record, and the handle moves to it, dropping the old inode's lock.
FinishCompaction(w) ==
  LET i == writer[w].temporary
  IN /\ writer[w].phase = "adopting"
     /\ Readable(file[i]) /\ Len(file[i].records) = 1
     /\ durable' = {name}
     /\ lock' = [lock EXCEPT ![writer[w].inode] = NoWriter]
     /\ writer' = [writer EXCEPT ![w].phase = "live", ![w].inode = i,
                                 ![w].temporary = NoInode]
     /\ UNCHANGED <<file, name, owner, stamps, acked>>

\* remove_owned: the journal is discarded, and with it what it promised.  The
\* caller serializes removals with opens ("Same-user mutations must remain
\* serialized by the caller", vot-platform-fs/src/directory.rs:315).
RemoveOwned(w) ==
  /\ writer[w].phase = "live"
  /\ name = writer[w].inode
  /\ \A v \in Writers : writer[v].phase # "opened"
  /\ name' = NoInode
  /\ durable' = durable \cup {NoInode}
  /\ acked' = {}
  /\ lock' = Released(w)
  /\ owner' = Disowned(w)
  /\ writer' = [writer EXCEPT ![w] = Idle]
  /\ UNCHANGED <<file, stamps>>

\* The handle is dropped, or its process dies, at any point.
Drop(w) ==
  /\ writer[w].phase # "idle"
  /\ lock' = Released(w)
  /\ owner' = Disowned(w)
  /\ writer' = [writer EXCEPT ![w] = Idle]
  /\ UNCHANGED <<file, name, durable, stamps, acked>>

\* What a power loss may leave after n records: where bytes were in flight, a
\* torn or an unreadable tail.
Tails(f, n) == IF n = Len(f.records) /\ f.tail = "clean" THEN {"clean"}
               ELSE {"clean", "torn", "corrupt"}

\* A power loss keeps the durable records and some of those that follow, and
\* any binding of the name since the last flush of the directory.
PowerLoss ==
  /\ name' \in durable
  /\ durable' = {name'}
  /\ \/ /\ name' = NoInode
        /\ UNCHANGED file
     \/ /\ name' # NoInode
        /\ LET f == file[name']
           IN \E n \in f.synced..Len(f.records) : \E tail \in Tails(f, n) :
                file' = [file EXCEPT ![name'] = [records |-> SubSeq(f.records, 1, n),
                                                 synced |-> n, tail |-> tail]]
  /\ lock' = [i \in Inodes |-> NoWriter]
  /\ owner' = NoWriter
  /\ writer' = [w \in Writers |-> Idle]
  /\ UNCHANGED <<stamps, acked>>

Next ==
  \/ \E w \in Writers :
       \/ ClaimPayload(w) \/ FinishCreate(w) \/ FailCreate(w)
       \/ Open(w) \/ Claim(w) \/ Attach(w) \/ Refuse(w) \/ SyncReplay(w)
       \/ AppendOk(w) \/ AppendFails(w) \/ Repair(w)
       \/ Rename(w) \/ RenameFails(w)
       \/ FinishCompaction(w) \/ FinishCompactionFails(w)
       \/ RemoveOwned(w) \/ Drop(w)
       \/ \E i \in Inodes : Create(w, i) \/ Compact(w, i)
  \/ PowerLoss

Spec == Init /\ [][Next]_vars

-----------------------------------------------------------------------------
Handles == [phase: {"idle", "created", "opened", "claimed", "replayed", "live",
                    "renaming", "adopting"},
            inode: Inodes \cup {NoInode}, temporary: Inodes \cup {NoInode},
            next: 0..MaxSequence, poisoned: BOOLEAN]

\* The types, and what acknowledging may use: only records whose successor can
\* be numbered (append_durable asks for `following` first).
TypeOK ==
  /\ \A i \in Inodes : /\ file[i].synced \in 0..Len(file[i].records)
                      /\ file[i].tail \in {"clean", "torn", "cut", "corrupt"}
  /\ name \in durable /\ durable \subseteq Inodes \cup {NoInode}
  /\ lock \in [Inodes -> Writers \cup {NoWriter}]
  /\ owner \in Writers \cup {NoWriter}
  /\ writer \in [Writers -> Handles]
  /\ stamps \in 0..MaxStamps
  /\ \A fact \in acked : fact.stamp < stamps /\ fact.sequence < MaxSequence

\* What append_durable acknowledged is in the durable records of every file a
\* power loss may leave under the journal's name, compactions, ambiguous
\* renames and unflushed directories included.
AckedSurvives ==
  acked # {} =>
    \A i \in durable :
      /\ i # NoInode
      /\ acked \subseteq Facts(SubSeq(file[i].records, 1, file[i].synced))

\* No two acknowledged appends share a sequence number, across failed appends,
\* repairs, compactions and reopenings (next_sequence, next_sequence_after).
AckedUnique ==
  \A f, g \in acked : f.sequence = g.sequence => f = g

\* Whatever is left of the journal, if no byte of it is damaged, replays: the
\* limits on its size and its sequence are never crossed by a write, so a
\* journal cannot grow into one that open_at refuses (grown_within_ceiling,
\* successor).
AlwaysReopens ==
  \A i \in durable \ {NoInode} : \A n \in file[i].synced..Len(file[i].records) :
    LET left == SubSeq(file[i].records, 1, n)
    IN Replays(left) /\ NextSequence(left) <= MaxSequence

\* A handle that can append holds the inode the name is bound to and its
\* lock: "an append into it would be a record that survives no restart"
\* (compact_checkpoint) is never possible.
LiveHoldsName ==
  \A w \in Writers :
    writer[w].phase = "live" /\ ~writer[w].poisoned =>
      name = writer[w].inode /\ lock[name] = w

\* One writer: two processes never both hold a handle that can append
\* ("Claims a journal for one writer", claim).
OneWriter ==
  \A v, w \in Writers :
    /\ writer[v].phase = "live" /\ ~writer[v].poisoned
    /\ writer[w].phase = "live" /\ ~writer[w].poisoned
    => v = w
=============================================================================
