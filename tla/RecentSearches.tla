--------------------------- MODULE RecentSearches ---------------------------
(***************************************************************************)
(* What a user searched for recently (RecordRecentSearch, DeleteRecentSearch *)
(* and ClearRecentSearches of internal/search).  The browser sends a POST  *)
(* for every search and does not wait for it, so several can be under way, *)
(* in any order.                                                           *)
(*                                                                         *)
(* A row is known by what was searched for, its created column is the start *)
(* of the transaction that last wrote it; 0 stands for no row.  No two     *)
(* transactions start at one time here; where now() does not tell rows     *)
(* apart, the trim goes by their ids.  The two DELETE requests are one      *)
(* statement each, and wait for rows that a transaction has locked; one     *)
(* that waited has the same effect as one that ran before the               *)
(* transaction's statements, or after its commit.                           *)
(***************************************************************************)
EXTENDS Naturals, FiniteSets

CONSTANTS
  References,           \* what may be searched for
  NoReference,
  RecentLimit,          \* recentSearchLimit (10 in the code)
  MaxSubmits            \* bound: searches that are recorded

ASSUME RecentAssumption ==
  RecentLimit \in Nat \ {0} /\ MaxSubmits \in Nat /\ NoReference \notin References

VARIABLES
  recent,               \* recent[r]: created of the committed row for r, or 0
  clock,                \* how many transactions have begun
  post                  \* post[k]: the k-th POST and how far its transaction is

recentVars == <<recent, clock, post>>

Submits == 1..MaxSubmits
Unsent == [at |-> "unsent", reference |-> NoReference, created |-> 0, doomed |-> {}]
Over == [Unsent EXCEPT !.at = "over"]
Rows(table) == {r \in References : table[r] # 0}

RecentInit ==
  /\ recent = [r \in References |-> 0]
  /\ clock = 0
  /\ post = [k \in Submits |-> Unsent]

-----------------------------------------------------------------------------
(* recordRecentSearch of the browser: fire and forget.                      *)
Send(r) ==
  \E k \in Submits :
    /\ post[k].at = "unsent" /\ (\A i \in 1..(k - 1) : post[i].at # "unsent")
    /\ post' = [post EXCEPT ![k].at = "sent", ![k].reference = r]
    /\ UNCHANGED <<recent, clock>>

Begin(k) ==
  /\ post[k].at = "sent"
  /\ clock' = clock + 1
  /\ post' = [post EXCEPT ![k].at = "lock", ![k].created = clock + 1]
  /\ UNCHANGED recent

(* Fault: the user's row is read without FOR UPDATE. *)
ReadOwner(k) ==
  /\ post[k].at = "lock"
  /\ post' = [post EXCEPT ![k].at = "write"]
  /\ UNCHANGED <<recent, clock>>

(* SELECT ... FOR UPDATE on the user's row.                                 *)
LockOwner(k) ==
  /\ post[k].at = "lock" /\ \A i \in Submits : post[i].at \notin {"write", "commit"}
  /\ post' = [post EXCEPT ![k].at = "write"]
  /\ UNCHANGED <<recent, clock>>

(* The upsert, then the trim to the newest rows of those that it sees: the  *)
(* committed ones and its own.                                              *)
UpsertAndTrim(k) ==
  /\ post[k].at = "write"
  /\ LET seen == [recent EXCEPT ![post[k].reference] = post[k].created]
         Newer(r) == {n \in Rows(seen) : seen[n] > seen[r]}
         doomed == {r \in Rows(seen) : Cardinality(Newer(r)) >= RecentLimit}
     IN post' = [post EXCEPT ![k].at = "commit", ![k].doomed = doomed]
  /\ UNCHANGED <<recent, clock>>

CommitRecent(k) ==
  /\ post[k].at = "commit"
  /\ recent' = [r \in References |->
                  IF r \in post[k].doomed THEN 0
                  ELSE IF r = post[k].reference THEN post[k].created ELSE recent[r]]
  /\ post' = [post EXCEPT ![k] = Over]
  /\ UNCHANGED clock

(* The POST is lost, or its transaction fails: nobody is told.              *)
RecordFails(k) ==
  /\ post[k].at \notin {"unsent", "over"}
  /\ post' = [post EXCEPT ![k] = Over]
  /\ UNCHANGED <<recent, clock>>

Locked(r) ==
  \E k \in Submits : post[k].at = "commit" /\ (r = post[k].reference \/ r \in post[k].doomed)

DeleteRecent(r) ==
  /\ recent[r] # 0 /\ ~Locked(r)
  /\ recent' = [recent EXCEPT ![r] = 0]
  /\ UNCHANGED <<clock, post>>

ClearRecent ==
  /\ Rows(recent) # {} /\ \A r \in Rows(recent) : ~Locked(r)
  /\ recent' = [r \in References |-> 0]
  /\ UNCHANGED <<clock, post>>

RecentNext ==
  \/ \E k \in Submits : \/ Begin(k) \/ LockOwner(k) \/ UpsertAndTrim(k)
                         \/ CommitRecent(k) \/ RecordFails(k)
  \/ \E r \in References : DeleteRecent(r)
  \/ ClearRecent

-----------------------------------------------------------------------------
RecentTypeOK ==
  /\ recent \in [References -> 0..clock]
  /\ clock \in 0..MaxSubmits
  /\ post \in [Submits -> [at : {"unsent", "sent", "lock", "write", "commit", "over"},
                           reference : References \cup {NoReference}, created : 0..clock,
                           doomed : SUBSET References]]

(* However many searches are recorded at the same time, and whatever is     *)
(* cleared meanwhile, a user keeps at most recentSearchLimit rows.          *)
RecentBounded == Cardinality(Rows(recent)) <= RecentLimit
=============================================================================
