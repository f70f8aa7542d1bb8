--------------------------- MODULE SubjectHistory ---------------------------
(***************************************************************************)
(* What the collector's storage promises, without tasks, workers, retries  *)
(* or transactions: one row per subject with the current state, and a set  *)
(* of snapshots with the past.  A subject's row is created as a            *)
(* placeholder or by its first sync, and every sync changes the row and    *)
(* appends the matching snapshot in one step.                              *)
(***************************************************************************)
EXTENDS Naturals

CONSTANTS
  Subjects,   \* the (platform, platform_id) pairs
  Ids,        \* the UUIDs a subject row can get
  Counts,     \* follower counts a platform can report
  Times,      \* instants
  NoRow       \* "the subjects table has no row for this subject"

VARIABLES
  row,        \* row[s]: the subjects row, or NoRow
  snapshots   \* the rows of activity_snapshots

historyVars == <<row, snapshots>>

Row == [id : Ids, at : Times, followers : Counts \cup {0}, pending : BOOLEAN]

Snapshot == [id : Ids, at : Times, followers : Counts]

\* The ids in use by rows.
RowIds == {row[s].id : s \in {x \in Subjects : row[x] # NoRow}}

\* The primary key (subject_id, captured_at) of activity_snapshots.
HasSnapshot(i, when) == \E sn \in snapshots : sn.id = i /\ sn.at = when

HistoryTypeOK ==
  /\ row \in [Subjects -> Row \cup {NoRow}]
  /\ snapshots \subseteq Snapshot

HistoryInit ==
  /\ row = [s \in Subjects |-> NoRow]
  /\ snapshots = {}

\* A placeholder row, without a snapshot: the subject was never synced.
CreatePlaceholder(s, i, when) ==
  /\ row[s] = NoRow
  /\ i \notin RowIds
  /\ row' = [row EXCEPT ![s] = [id |-> i, at |-> when, followers |-> 0, pending |-> TRUE]]
  /\ UNCHANGED snapshots

\* A sync: the row takes the new values, keeping the id it has, and the
\* snapshot with the same values is appended.
RecordSync(s, i, when, n) ==
  /\ IF row[s] = NoRow THEN i \notin RowIds ELSE i = row[s].id
  /\ ~HasSnapshot(i, when)
  /\ row' = [row EXCEPT ![s] = [id |-> i, at |-> when, followers |-> n, pending |-> FALSE]]
  /\ snapshots' = snapshots \cup {[id |-> i, at |-> when, followers |-> n]}

HistoryNext ==
  \E s \in Subjects, i \in Ids, when \in Times :
    \/ CreatePlaceholder(s, i, when)
    \/ \E n \in Counts : RecordSync(s, i, when, n)

HistorySpec == HistoryInit /\ [][HistoryNext]_historyVars
=============================================================================
