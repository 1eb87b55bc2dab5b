------------------------------ MODULE Coverage -------------------------------
(***************************************************************************)
(* The accepted-range bookkeeping of crates/vot-coverage, as operators on  *)
(* a coverage value: the two ordered maps from start to exclusive end are  *)
(* sets of pairs, and a lookup in one is a lookup of the nearest start.    *)
(* check, reserve, commit_reservation, release_reservation, runs and       *)
(* from_runs follow the code; Bytes is what they are measured against.     *)
(***************************************************************************)
EXTENDS Naturals, FiniteSets, FiniteSetsExt

CONSTANTS ObjectLen,        \* bytes of the object
          Limit             \* fragment_limit(ObjectLen): extents it may be covered in

ASSUME CoverageAssumption == ObjectLen \in Nat /\ Limit \in Nat \ {0}

\* A nonempty range of the object: first byte, byte after the last.
Ranges == {r \in (0..ObjectLen) \X (0..ObjectLen) : r[1] < r[2]}

Bytes(r) == r[1]..(r[2] - 1)

BytesOf(extents) == UNION {Bytes(r) : r \in extents}

Length(r) == r[2] - r[1]

NewCoverage == [extents |-> {}, reserved |-> {}, bytes |-> 0]

\* map.range(..=at).next_back(), and map.range(at..).next(), as the set of the
\* one pair found or none.
Earlier(map, at) ==
  {r \in map : r[1] <= at /\ \A s \in map : s[1] <= at => s[1] <= r[1]}

Later(map, at) ==
  {r \in map : r[1] >= at /\ \A s \in map : s[1] >= at => s[1] >= r[1]}

\* Mutant of Overlaps: reservations are not looked at.
Overlaps_Ignored(map, r) == FALSE

\* overlaps: map.range(..start).next_back() and map.range(start..).next().
Overlaps(map, r) ==
  \/ \E s \in Earlier({x \in map : x[1] < r[1]}, r[1]) : r[1] < s[2]
  \/ \E s \in Later(map, r[1]) : s[1] < r[2]

\* Mutant of Isolated: reservations do not count towards the limit.
Isolated_Uncounted(c, r) ==
  /\ \A s \in Earlier(c.extents, r[1]) : s[2] # r[1]
  /\ \A s \in Later(c.extents, r[1]) : s[1] # r[2]
  /\ Cardinality(c.extents) >= Limit

\* A range that touches no extent, when no further extent is allowed.
Isolated(c, r) ==
  /\ \A s \in Earlier(c.extents, r[1]) : s[2] # r[1]
  /\ \A s \in Later(c.extents, r[1]) : s[1] # r[2]
  /\ Cardinality(c.extents) + Cardinality(c.reserved) >= Limit

\* Coverage::check, in the order of its tests.
Check(c, r) ==
  IF \E s \in Earlier(c.extents, r[1]) : s[2] >= r[2] THEN "Replay"
  ELSE IF \/ \E s \in Earlier(c.extents, r[1]) : s[2] > r[1]
          \/ \E s \in Later(c.extents, r[1]) : s[1] < r[2] THEN "PartialOverlap"
  ELSE IF Overlaps(c.reserved, r) THEN "ReservedOverlap"
  ELSE IF Isolated(c, r) THEN "FragmentsExhausted"
  ELSE "New"

\* Coverage::reserve, once Check has said New.
Reserved(c, r) == [c EXCEPT !.reserved = @ \cup {r}]


\* insert_coalesced: merges the extent that ends where r starts, and the one
\* that starts where r ends.
InsertCoalesced(extents, r) ==
  LET before == {s \in Earlier({x \in extents : x[1] < r[1]}, r[1]) : s[2] = r[1]}
      after  == {s \in extents : s[1] = r[2]}
      start  == IF before = {} THEN r[1] ELSE Min({s[1] : s \in before})
      end    == IF after = {} THEN r[2] ELSE Max({s[2] : s \in after})
  IN (extents \ (before \cup after)) \cup {<<start, end>>}

\* BTreeMap::remove of a reservation, by its start.
WithoutStart(map, start) == {s \in map : s[1] # start}

CommitReservation(c, r) ==
  [extents  |-> InsertCoalesced(c.extents, r),
   reserved |-> WithoutStart(c.reserved, r[1]),
   bytes    |-> c.bytes + Length(r)]

ReleaseReservation(c, r) == [c EXCEPT !.reserved = WithoutStart(@, r[1])]

IsComplete(c) == c.bytes = ObjectLen

\* Coverage::runs: the extents in order, so a set says as much.
Runs(c) == c.extents

\* from_runs accepts a list within the limit whose runs are not empty, inside
\* the object, and neither overlap nor touch.
AcceptsRuns(runs) ==
  /\ Cardinality(runs) <= Limit
  /\ \A r \in runs : r[1] < r[2] /\ r[2] <= ObjectLen
  /\ \A r, s \in runs : r[1] < s[1] => r[2] < s[1]

FromRuns(runs) ==
  [extents |-> runs, reserved |-> {}, bytes |-> MapThenSumSet(Length, runs)]

=============================================================================
