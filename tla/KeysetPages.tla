----------------------------- MODULE KeysetPages -----------------------------
(***************************************************************************)
(* The lists that are paged by a cursor (created, id): posts and liked     *)
(* posts of a user, comments, followers, followees and notifications.      *)
(*                                                                         *)
(* One such list is modelled with the rows that appear in it and disappear *)
(* while it is read.  created is the start of the transaction that inserts *)
(* the row, which becomes visible at the commit: a row can appear below    *)
(* others that are already shown, and several rows can carry one time.     *)
(* A like or a follow that is taken back and made again has its old id.    *)
(***************************************************************************)
EXTENDS Naturals, FiniteSets, Sequences, Cursors

CONSTANTS
  Ids,                  \* of the rows, numbers
  MaxTime               \* bound: the last time at which a transaction begins

ASSUME KeysetAssumption == Ids \subseteq Nat /\ IsFiniteSet(Ids) /\ MaxTime \in Nat \ {0}
ASSUME CursorAssumption == NoCursor \notin [created : Nat, id : Ids]

VARIABLES
  table,                \* table[i]: created of row i, or 0
  writing,              \* writing[i]: start of the transaction that inserts it, or 0
  now

tableVars == <<table, writing, now>>

TableInit ==
  /\ table \in [Ids -> 0..1]
  /\ writing = [i \in Ids |-> 0]
  /\ now = 1

-----------------------------------------------------------------------------
(* BEGIN of a like, a follow, a comment ...: now() stands still from here.  *)
BeginRow(i) ==
  /\ writing[i] = 0
  /\ \E t \in {now, now + 1} \cap 1..MaxTime :
       now' = t /\ writing' = [writing EXCEPT ![i] = t]
  /\ UNCHANGED table

(* INSERT ... ON CONFLICT DO NOTHING, and COMMIT.                           *)
CommitRow(i) ==
  /\ writing[i] # 0
  /\ table' = [table EXCEPT ![i] = IF @ = 0 THEN writing[i] ELSE @]
  /\ writing' = [writing EXCEPT ![i] = 0]
  /\ UNCHANGED now

AbortRow(i) == writing[i] # 0 /\ writing' = [writing EXCEPT ![i] = 0] /\ UNCHANGED <<table, now>>

RemoveRow(i) == table[i] # 0 /\ table' = [table EXCEPT ![i] = 0] /\ UNCHANGED <<writing, now>>

TableNext == \E i \in Ids : BeginRow(i) \/ CommitRow(i) \/ AbortRow(i) \/ RemoveRow(i)

-----------------------------------------------------------------------------
Keys == {[created |-> table[i], id |-> i] : i \in {n \in Ids : table[n] # 0}}

(* (k.created, k.id) < (n.created, n.id)                                    *)
Older(k, n) == k.created < n.created \/ (k.created = n.created /\ k.id < n.id)

(* ORDER BY created DESC, id DESC                                           *)
Newest(S) ==
  [i \in 1..Cardinality(S) |-> CHOOSE k \in S : Cardinality({n \in S : Older(k, n)}) = i - 1]

(* Fault: the cursor is compared by time alone. *)
RowsBelowByTime(at, n) ==
  LET rows == Newest({k \in Keys : at = NoCursor \/ k.created < at.created})
  IN SubSeq(rows, 1, IF Len(rows) < n THEN Len(rows) ELSE n)

(* The rows below a cursor, or all of them without one, LIMIT n.            *)
RowsBelow(at, n) ==
  LET rows == Newest({k \in Keys : at = NoCursor \/ Older(k, at)})
  IN SubSeq(rows, 1, IF Len(rows) < n THEN Len(rows) ELSE n)

(* One row more than the limit is fetched, to know whether there is more;   *)
(* the cursor is the last row that is shown.                                *)
KeysetPage(at, limit) ==
  LET rows == RowsBelow(at, limit + 1)
  IN IF Len(rows) > limit THEN NewCursorPage(SubSeq(rows, 1, limit), rows[limit])
     ELSE NewCursorPage(rows, NoCursor)

-----------------------------------------------------------------------------
TableTypeOK ==
  /\ table \in [Ids -> 0..MaxTime] /\ writing \in [Ids -> 0..MaxTime]
  /\ now \in 1..MaxTime
=============================================================================
