------------------------------- MODULE Search -------------------------------
(***************************************************************************)
(* The search page: submitting a search records it, without waiting, and   *)
(* moves on to its results (onSubmit of search/+page.svelte); the results  *)
(* are paged through meanwhile.  And the pages that list a table, which    *)
(* record nothing.                                                         *)
(***************************************************************************)
EXTENDS ListPages, RecentSearches

ASSUME SearchesAssumption == {q \in Queries : Kind[q] # "rows"} \subseteq References

searchVars == <<listVars, recentVars>>

Init == PagesInit /\ RecentInit

Submit(q) == Kind[query] # "rows" /\ Kind[q] # "rows" /\ Send(q) /\ Navigate(q)

(* load runs again for the list that is shown: an action of the form that   *)
(* invalidates it, a reload of the data.                                    *)
Invalidate == Navigate(query) /\ UNCHANGED recentVars

Next ==
  \/ \E q \in Queries : Submit(q)
  \/ Invalidate
  \/ (More \/ Answer \/ Loaded \/ LoadFails \/ TableChanges) /\ UNCHANGED recentVars
  \/ RecentNext /\ UNCHANGED listVars

Spec == Init /\ [][Next]_searchVars

-----------------------------------------------------------------------------
(* What is shown of a query: all items, the hits of a type, keys of rows.   *)
Hit(i, t) == items[i].item.type = t
Shown(t) == {items[i].item.rank : i \in {j \in 1..Len(items) : Hit(j, t)}}
HowMany(t) == Cardinality({j \in 1..Len(items) : Hit(j, t)})
ShownKeys == {items[i].item : i \in 1..Len(items)}
Listed(kinds) == ~overtaken /\ Kind[query] \in kinds
Searches == Types \cup {"all"}

TypeOK ==
  /\ query \in Queries /\ overtaken \in BOOLEAN
  /\ \A i \in 1..Len(items) : items[i].query \in Queries
  /\ load = NoLoad \/ (load.query \in Queries /\ load.step \in {"asked", "answered"})
  /\ stayed \subseteq Keys
  /\ TableTypeOK /\ RecentTypeOK

(* However the pages blend the types, make up for the short ones and put    *)
(* followed users first: what is shown of a type are its first hits, none   *)
(* left out and none twice.  (Not so after an answer overtaken by a reset.) *)
ListIsPrefix ==
  Listed(Searches) => \A t \in Types : Shown(t) = 1..HowMany(t)

(* However rows come and go while a table is paged through, in whatever     *)
(* order their transactions commit and however many carry one time: the     *)
(* rows shown descend strictly, so none is shown twice, and a row is not    *)
(* skipped that has been there since the oldest of the pages was read: since *)
(* the list was reset, or from before if a page that was under way is       *)
(* appended after the reset.                                                *)
RowsAreInOrder ==
  Listed({"rows"}) =>
    /\ \A i, j \in 1..Len(items) : i < j => Older(items[j].item, items[i].item)
    /\ \A k \in stayed : k \in ShownKeys \/ (cursor # NoCursor /\ Older(k, cursor))

(* Types, and: the list in the page is a gapless, duplicate-free beginning of *)
(* what it was asked for, and of nothing else.                                *)
PagesInv ==
  /\ TypeOK /\ ListIsPrefix
  /\ ~overtaken => \A i \in 1..Len(items) : items[i].query = query

(* When no "Load more" is offered, every hit is shown, and every row that   *)
(* was there since the oldest of the pages was read.                        *)
NothingLeftOut ==
  cursor = NoCursor =>
    /\ Listed({"rows"}) => stayed \subseteq ShownKeys
    /\ Listed(Searches) =>
         \A t \in Types : (Kind[query] \in {t, "all"}) => Shown(t) = 1..Hits[query][t]

(* A list can be gone through to its end: an answer that offers more has    *)
(* moved on.  (A blended search with a limit of 1 need not: see the README.) *)
PagesAdvance ==
  [][Loaded /\ (Kind[load.query] = "all" => MoreLimit[load.query] > 1)
       => cursor' # load.cursor]_searchVars
=============================================================================
