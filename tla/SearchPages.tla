----------------------------- MODULE SearchPages -----------------------------
(***************************************************************************)
(* The pages of GET /search (Search, searchAll and blend.go of              *)
(* internal/search).  The search page asks for posts only; a client of the  *)
(* API may ask for all types.                                              *)
(*                                                                         *)
(* A query finds some hits of each type in the search index, in an order   *)
(* that does not change while they are paged through; a hit is its rank.   *)
(***************************************************************************)
EXTENDS Naturals, FiniteSets, Sequences, Cursors

CONSTANT Followed       \* ranks of the users whom the viewer follows

Types == {"users", "posts", "hashtags"}
Counts == [Types -> Nat]

ASSUME CountsAssumption == NoCursor \notin Counts

Least(m, n) == IF m < n THEN m ELSE n
Most(m, n) == IF m < n THEN n ELSE m
Start == [t \in Types |-> 0]

-----------------------------------------------------------------------------
(* Fault: shares that round to zero are left at zero. *)
TargetsUnrounded(limit) ==
  LET share == limit \div 5
  IN CASE limit = 1 -> [users |-> 0, posts |-> 1, hashtags |-> 0]
       [] limit = 2 -> [users |-> 1, posts |-> 1, hashtags |-> 0]
       [] OTHER -> [users |-> share, posts |-> limit - 2 * share, hashtags |-> share]

(* computeBlendTargets: the shares of a blended page.                       *)
Targets(limit) ==
  LET share == IF limit < 5 THEN 1 ELSE limit \div 5
  IN CASE limit = 1 -> [users |-> 0, posts |-> 1, hashtags |-> 0]
       [] limit = 2 -> [users |-> 1, posts |-> 1, hashtags |-> 0]
       [] OTHER -> [users |-> share, posts |-> limit - 2 * share, hashtags |-> share]

(* searchIndex: the hits from an offset on, at most n.                      *)
Fetch(hits, offset, n) == IF hits > offset THEN Least(n, hits - offset) ELSE 0

(* planBlend: how many hits of each type the page takes.  What users and    *)
(* hashtags lack is made up for by the one extra hit that was fetched of    *)
(* posts, users and hashtags, in that order; what posts lack is not.        *)
Consumed(target, fetched) ==
  LET avail == [t \in Types |-> Least(fetched[t], target[t])]
      short == (target["users"] - avail["users"]) + (target["hashtags"] - avail["hashtags"])
      spare == [t \in Types |-> fetched[t] - avail[t]]
      posts == Least(short, spare["posts"])
      users == Least(short - posts, spare["users"])
      hashtags == Least(short - posts - users, spare["hashtags"])
      extra == [posts |-> posts, users |-> users, hashtags |-> hashtags]
  IN [t \in Types |-> avail[t] + extra[t]]

(* Fault: there is more of a type only if a fetched hit was not shown. *)
HasMoreUnshown(target, fetched) ==
  \E t \in Types : fetched[t] > Consumed(target, fetched)[t]

(* There is more of a type if all that was asked for came back.             *)
HasMore(target, fetched) == \E t \in Types : fetched[t] = target[t] + 1

(* Numbers in order.                                                        *)
Ascending(S) ==
  [i \in 1..Cardinality(S) |-> CHOOSE n \in S : Cardinality({m \in S : m < n}) = i - 1]

(* The hits of a type that the page shows.  partitionByFollowing: among     *)
(* them, users whom the viewer follows come first.                          *)
Ranks(offset, n) == (offset + 1)..(offset + n)
Partition(ranks) == Ascending(ranks \cap Followed) \o Ascending(ranks \ Followed)
Arranged(at, consumed) ==
  [t \in Types |-> LET ranks == Ranks(at[t], consumed[t])
                   IN IF t = "users" THEN Partition(ranks) ELSE Ascending(ranks)]

(* interleaveBlended: users, posts, posts, posts, hashtags, and over again; *)
(* slot p offers the k-th of its type, and is skipped if there is none.     *)
Slot(p) ==
  CASE p % 5 = 0 -> [type |-> "users", k |-> p \div 5 + 1]
    [] p % 5 = 4 -> [type |-> "hashtags", k |-> p \div 5 + 1]
    [] OTHER -> [type |-> "posts", k |-> 3 * (p \div 5) + (p % 5)]
Filled(ranks) ==
  LET rounds == Most(Most(Len(ranks["users"]), Len(ranks["hashtags"])), (Len(ranks["posts"]) + 2) \div 3)
      filled(slot) == slot.k <= Len(ranks[slot.type])
  IN {p \in 0..(5 * rounds - 1) : filled(Slot(p))}
Blend(ranks) ==
  LET slots == Ascending(Filled(ranks))
      hit(slot) == [type |-> slot.type, rank |-> ranks[slot.type][slot.k]]
  IN [i \in 1..Len(slots) |-> hit(Slot(slots[i]))]

(* Fault: the cursor moves on by what the page was to hold. *)
BlendedAdvancingByTarget(hits, at, limit) ==
  LET target == Targets(limit)
      fetched == [t \in Types |-> Fetch(hits[t], at[t], target[t] + 1)]
      consumed == Consumed(target, fetched)
  IN NewCursorPage(Blend(Arranged(at, consumed)),
       IF HasMore(target, fetched) THEN [t \in Types |-> at[t] + target[t]] ELSE NoCursor)

(* searchAll: one page of all types, and where the next one starts.         *)
Blended(hits, at, limit) ==
  LET target == Targets(limit)
      fetched == [t \in Types |-> Fetch(hits[t], at[t], target[t] + 1)]
      consumed == Consumed(target, fetched)
  IN NewCursorPage(Blend(Arranged(at, consumed)),
       IF HasMore(target, fetched) THEN [t \in Types |-> at[t] + consumed[t]] ELSE NoCursor)

(* Search, for one type: a full page has a cursor.                          *)
Single(type, hits, at, limit) ==
  LET count == Fetch(hits[type], at[type], limit)
  IN NewCursorPage([i \in 1..count |-> [type |-> type, rank |-> at[type] + i]],
       IF count >= limit THEN [at EXCEPT ![type] = @ + limit] ELSE NoCursor)
=============================================================================
