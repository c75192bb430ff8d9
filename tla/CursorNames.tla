----------------------------- MODULE CursorNames -----------------------------
(***************************************************************************)
(* The names of the replication cursors of one dataset (holds.rs): each    *)
(* replication, a job and a peer, has bookmarks of its own, told apart by  *)
(* a suffix of the name alone.  An identifier is the sequence of words     *)
(* between its underscores, so that a suffix of a name that starts with an *)
(* underscore is a suffix of its words.                                    *)
(***************************************************************************)
EXTENDS Naturals, Sequences, SequencesExt

CONSTANTS
  Identifiers,   \* what an operator may call a job or a peer
  MaxGuid        \* snapshots sent (a bound)

VARIABLES
  replications,  \* the configured pairs of a job and a peer, never changed
  bookmarks,     \* the dataset's cursors: a guid and the words after it
  sent,          \* ghost: sent[r]: the guid of the last snapshot that r recorded, or 0
  guids          \* guids given out

vars == <<replications, bookmarks, sent, guids>>

\* validate_identifier: the markers of the scheme may not be in a name.
ValidIdentifier(id) == \A i \in 2..(Len(id) - 1) : id[i] \notin {"J", "P"}

\* cursor_bookmark_name, from the job on.
Words(r) == <<"J">> \o r[1] \o <<"P">> \o r[2]
CursorBookmark(r, guid) == [guid |-> guid, words |-> Words(r)]

\* is_cursor_bookmark_leaf.
IsCursorOf(b, r) == IsSuffix(Words(r), b.words)

Init ==
  /\ replications \in
       {{<<j, p>>, <<k, q>>} : j, k, p, q \in {i \in Identifiers : ValidIdentifier(i)}}
  /\ bookmarks = {} /\ guids = 0
  /\ sent = [r \in replications |-> 0]

\* advance_cursor: the new cursor is created, then the replication's other ones go.
AdvanceCursor(r) ==
  LET cursor == CursorBookmark(r, guids + 1)
  IN  /\ guids < MaxGuid /\ guids' = guids + 1
      /\ bookmarks' = {b \in bookmarks : ~IsCursorOf(b, r)} \cup {cursor}
      /\ sent' = [sent EXCEPT ![r] = guids + 1]
      /\ UNCHANGED replications

Next == \E r \in replications : AdvanceCursor(r)

Spec == Init /\ [][Next]_vars

\* A replication's newest cursor stays until the replication itself makes a newer one
\* (crates/config/src/lib.rs, on validate_identifier: no job claims, and destroys as stale,
\* the cursor of another one).
CursorsStayApart ==
  \A r \in replications : sent[r] # 0 => CursorBookmark(r, sent[r]) \in bookmarks

=============================================================================
