------------------------------- MODULE Receive -------------------------------
(***************************************************************************)
(* NativeFile of crates/vot-sdk-file: threads that accept verified ranges  *)
(* of one object at the same time, as ADR-0046 has it.  The bookkeeping is *)
(* done under one lock, so each critical section is one action; the write  *)
(* between them is not locked and lands byte by byte.  publish, cancel and *)
(* abandon take the receiver exclusively.  A checkpoint of the covered     *)
(* runs survives the process, and resume starts from it (ADR-0047).        *)
(***************************************************************************)
EXTENDS Coverage

CONSTANTS Threads,          \* callers of accept
          WriteFaults,      \* TRUE: a positional write may fail
          MaxRestarts       \* bound on the times the process ends and resumes

ASSUME ReceiveAssumption == WriteFaults \in BOOLEAN /\ MaxRestarts \in Nat

VARIABLES coverage,         \* Shared.coverage
          state,            \* the commit: "Admitted", "Poisoned", "Sealed", "Published", "Gone"
          thread,           \* where each accept is, and the range it holds
          content,          \* what each staged byte is: "none", "good" or "junk"
          checkpoint,       \* the runs a consumer stored from resume_state
          restarts          \* restarts so far

vars == <<coverage, state, thread, content, checkpoint, restarts>>

Idle == [pc |-> "idle", range |-> <<0, 0>>, left |-> {}]

AllIdle == \A t \in Threads : thread[t].pc = "idle"

Init ==
  /\ coverage = NewCoverage
  /\ state = "Admitted"
  /\ thread = [t \in Threads |-> Idle]
  /\ content = [b \in 0..(ObjectLen - 1) |-> "none"]
  /\ checkpoint = {}
  /\ restarts = 0

\* ensure_accepting.
Accepting == state = "Admitted"

-----------------------------------------------------------------------------
(* accept_parallel.                                                        *)

\* The first critical section reserves a new range.  A replay, and every
\* refusal of Check, returns at once and changes nothing.
Reserve(t, r) ==
  /\ thread[t].pc = "idle"
  /\ Accepting
  /\ Check(coverage, r) = "New"
  /\ coverage' = Reserved(coverage, r)
  /\ thread' = [thread EXCEPT ![t] = [pc |-> "writing", range |-> r, left |-> Bytes(r)]]
  /\ UNCHANGED <<state, content, checkpoint, restarts>>

\* write_all_at lands one more byte, in any order.
Land(t, b) ==
  /\ thread[t].pc = "writing" /\ b \in thread[t].left
  /\ content' = [content EXCEPT ![b] = "good"]
  /\ thread' = [thread EXCEPT ![t].left = @ \ {b}]
  /\ UNCHANGED <<coverage, state, checkpoint, restarts>>

\* Mutants of Relock: the poison that arrived during the write is not looked
\* at, or the reservation is not given back.
Relock_NoRecheck(t) ==
  /\ thread[t].pc = "writing" /\ thread[t].left = {}
  /\ coverage' = CommitReservation(coverage, thread[t].range)
  /\ thread' = [thread EXCEPT ![t] = Idle]
  /\ UNCHANGED <<state, content, checkpoint, restarts>>

Relock_Kept(t) ==
  /\ thread[t].pc = "writing" /\ thread[t].left = {}
  /\ coverage' = IF Accepting THEN CommitReservation(coverage, thread[t].range) ELSE coverage
  /\ thread' = [thread EXCEPT ![t] = Idle]
  /\ UNCHANGED <<state, content, checkpoint, restarts>>

\* The second critical section, after a write that succeeded: committed if
\* the commit still accepts, released if another thread poisoned it.
Relock(t) ==
  /\ thread[t].pc = "writing" /\ thread[t].left = {}
  /\ coverage' = IF Accepting THEN CommitReservation(coverage, thread[t].range)
                              ELSE ReleaseReservation(coverage, thread[t].range)
  /\ thread' = [thread EXCEPT ![t] = Idle]
  /\ UNCHANGED <<state, content, checkpoint, restarts>>

\* Mutant of WriteFails: the range of a failed write counts as accepted.
WriteFails_Committed(t) ==
  /\ WriteFaults /\ thread[t].pc = "writing" /\ thread[t].left # {}
  /\ content' = [b \in DOMAIN content |-> IF b \in thread[t].left THEN "junk" ELSE content[b]]
  /\ coverage' = CommitReservation(coverage, thread[t].range)
  /\ thread' = [thread EXCEPT ![t] = Idle]
  /\ UNCHANGED <<state, checkpoint, restarts>>

\* The write failed: what it did not land is unknown.  The second critical
\* section releases the range and poisons the commit.
WriteFails(t) ==
  /\ WriteFaults /\ thread[t].pc = "writing" /\ thread[t].left # {}
  /\ \E junk \in {{}, thread[t].left} :
       content' = [b \in DOMAIN content |-> IF b \in junk THEN "junk" ELSE content[b]]
  /\ coverage' = ReleaseReservation(coverage, thread[t].range)
  /\ state' = "Poisoned"
  /\ thread' = [thread EXCEPT ![t] = Idle]
  /\ UNCHANGED <<checkpoint, restarts>>

-----------------------------------------------------------------------------
(* The life of a receiver.                                                 *)

\* resume_state under the lock, while other threads may be writing.
Checkpoint ==
  /\ Accepting
  /\ checkpoint' = Runs(coverage)
  /\ UNCHANGED <<coverage, state, thread, content, restarts>>

\* publish_inner refuses incomplete coverage, and finish_transit_verified
\* refuses a poisoned commit.  What follows is PosixCommit.
Seal ==
  /\ AllIdle /\ Accepting /\ IsComplete(coverage)
  /\ state' = "Sealed"
  /\ UNCHANGED <<coverage, thread, content, checkpoint, restarts>>

Publish ==
  /\ state = "Sealed"
  /\ state' = "Published"
  /\ UNCHANGED <<coverage, thread, content, checkpoint, restarts>>

\* abandon, or the process dies with writes under way: what they have landed
\* stays, what they have not is as it was.
Stop ==
  /\ state \in {"Admitted", "Poisoned"} /\ restarts < MaxRestarts
  /\ state' = "Gone"
  /\ coverage' = NewCoverage
  /\ thread' = [t \in Threads |-> Idle]
  /\ restarts' = restarts + 1
  /\ UNCHANGED <<content, checkpoint>>

\* resume: the stored runs are taken on trust if from_runs accepts them.
Resume ==
  /\ state = "Gone"
  /\ AcceptsRuns(checkpoint)
  /\ coverage' = FromRuns(checkpoint)
  /\ state' = "Admitted"
  /\ UNCHANGED <<thread, content, checkpoint, restarts>>

Next ==
  \/ \E t \in Threads :
       \/ \E r \in Ranges : Reserve(t, r)
       \/ \E b \in 0..(ObjectLen - 1) : Land(t, b)
       \/ Relock(t) \/ WriteFails(t)
  \/ Checkpoint \/ Seal \/ Publish \/ Stop \/ Resume

Spec == Init /\ [][Next]_vars

\* A write that has begun ends; a sender offers every single byte again until
\* it is taken; a stopped receiver is resumed and a complete one published.
Fairness ==
  /\ \A t \in Threads : WF_vars(Relock(t)) /\ WF_vars(\E b \in 0..(ObjectLen - 1) : Land(t, b))
  /\ \A b \in 0..(ObjectLen - 1) : SF_vars(\E t \in Threads : Reserve(t, <<b, b + 1>>))
  /\ WF_vars(Resume) /\ SF_vars(Seal) /\ WF_vars(Publish)

FairSpec == Spec /\ Fairness

-----------------------------------------------------------------------------
\* The types; the byte count never passes the object's length (for_object,
\* commit_reservation).
TypeOK ==
  /\ coverage.extents \subseteq Ranges /\ coverage.reserved \subseteq Ranges
  /\ coverage.bytes \in 0..ObjectLen
  /\ state \in {"Admitted", "Poisoned", "Sealed", "Published", "Gone"}
  /\ \A t \in Threads : thread[t].pc \in {"idle", "writing"}
  /\ content \in [0..(ObjectLen - 1) -> {"none", "good", "junk"}]
  /\ checkpoint \subseteq Ranges /\ restarts \in 0..MaxRestarts

\* A byte that coverage counts has been written whole, through any mix of
\* concurrent accepts, failed writes, poison and restarts; the runs that a
\* consumer stored are no different (accept_parallel, resume).
CoveredIsWritten ==
  \A b \in BytesOf(coverage.extents) \cup BytesOf(checkpoint) : content[b] = "good"

\* No two writes under way touch the same byte, nor one that is covered, so
\* bytes that are counted are never written again (reserve, overlaps).
WritesAreDisjoint ==
  \A t, u \in Threads :
    thread[t].pc = "writing" =>
      /\ Bytes(thread[t].range) \cap BytesOf(coverage.extents) = {}
      /\ t # u /\ thread[u].pc = "writing" => Bytes(thread[t].range) \cap Bytes(thread[u].range) = {}

\* The reservations are exactly the ranges being written: none is leaked by a
\* refusal, a failure or a poisoned relock, and none is given back twice.
ReservationsReturned ==
  coverage.reserved = {thread[t].range : t \in {u \in Threads : thread[u].pc = "writing"}}

\* The byte count is the number of covered bytes, and the extents neither
\* touch nor outnumber the limit, so the runs of any coverage are accepted by
\* from_runs: a checkpoint can always be resumed (commit_reservation,
\* insert_coalesced, from_runs).
CoverageIsExact ==
  /\ coverage.bytes = Cardinality(BytesOf(coverage.extents))
  /\ AcceptsRuns(Runs(coverage))

\* Only a whole object leaves the receiver: when transit verification is
\* recorded every byte is in place and no write is under way.
SealedIsWhole ==
  state \in {"Sealed", "Published"} =>
    /\ \A b \in 0..(ObjectLen - 1) : content[b] = "good"
    /\ coverage.reserved = {}

\* Once a write has failed nothing more is counted: a range whose bytes landed
\* while another thread poisoned the commit is released, never committed
\* (ADR-0046, decision 3).
PoisonStopsCounting ==
  [][state = "Poisoned" /\ state' = "Poisoned" => coverage'.extents = coverage.extents]_vars


=============================================================================
