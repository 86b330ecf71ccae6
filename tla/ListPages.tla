------------------------------ MODULE ListPages ------------------------------
(***************************************************************************)
(* The list that shows pages (createPagination.svelte.ts), used by the     *)
(* pages for search, profiles, likes, connections, notifications and feed. *)
(* What it lists is a search query, or a table that is paged by keys and   *)
(* changes meanwhile.                                                      *)
(*                                                                         *)
(* The client holds one page request in flight at most, and may move on to *)
(* another list while it is: nothing cancels the request.                  *)
(***************************************************************************)
EXTENDS SearchPages, KeysetPages

CONSTANTS
  Queries,              \* what may be listed
  Kind,                 \* Kind[q]: "rows", or the type parameter of a search ...
  FirstLimit,           \* ... the limit of the first page,
  MoreLimit,            \* of those that follow,
  Hits,                 \* and Hits[q]: how many hits of each type a search has
  NoLoad

ASSUME HitsAssumption == Hits \in [Queries -> Counts]
ASSUME KindAssumption == Kind \in [Queries -> {"rows", "posts", "users", "hashtags", "all"}]
ASSUME LimitsAssumption == \A q \in Queries : FirstLimit[q] \in 1..50 /\ MoreLimit[q] \in 1..50

VARIABLES
  query,                \* what the page shows
  items,                \* the list
  cursor,               \* where it goes on, or NoCursor
  load,                 \* the request in flight (loading), or NoLoad; with the page, once
                        \* the server has read it, and in its own stayed the rows that
                        \* were there then and have been there ever since
  overtaken,            \* history: the list received a page that another list, or this one
                        \* from another cursor, asked for before it was reset
  stayed                \* history: the rows that were there when the oldest of the pages
                        \* shown was read and have been there ever since

pageVars == <<query, items, cursor, load, overtaken>>
listVars == <<pageVars, tableVars, stayed>>

(* A page, its items marked with the query they belong to.                  *)
Page(q, at, limit) ==
  LET page == CASE Kind[q] = "rows" -> KeysetPage(at, limit)
                [] Kind[q] = "all" -> Blended(Hits[q], at, limit)
                [] OTHER -> Single(Kind[q], Hits[q], at, limit)
  IN [page EXCEPT !.items = [i \in 1..Len(page.items) |-> [query |-> q, item |-> page.items[i]]]]

FirstPage(q) == Page(q, IF Kind[q] = "rows" THEN NoCursor ELSE Start, FirstLimit[q])

-----------------------------------------------------------------------------
PagesInit ==
  /\ TableInit /\ stayed = Keys
  /\ load = NoLoad /\ overtaken = FALSE
  /\ \E q \in Queries :
       /\ query = q /\ items = FirstPage(q).items /\ cursor = FirstPage(q).nextCursor
       /\ Kind[q] = "rows" \/ Keys = {}

(* The page is navigated to, or loaded again: the list starts anew, and a   *)
(* request that is in flight goes on, be its page read already or not.      *)
(* (The first page is read and shown in one step: what is appended in       *)
(* between is appended to a list that is gone then.)                        *)
Navigate(q) ==
  /\ query' = q
  /\ LET page == FirstPage(q)
     IN items' = page.items /\ cursor' = page.nextCursor
  /\ overtaken' = FALSE /\ stayed' = Keys
  /\ UNCHANGED <<load, tableVars>>

(* more: one request at a time.                                             *)
More ==
  /\ load = NoLoad /\ cursor # NoCursor
  /\ load' = [step |-> "asked", query |-> query, cursor |-> cursor,
              page |-> NewCursorPage(<<>>, NoCursor), stayed |-> {}]
  /\ UNCHANGED <<query, items, cursor, overtaken, stayed, tableVars>>

(* The server reads the page ...                                            *)
Answer ==
  /\ load # NoLoad /\ load.step = "asked"
  /\ load' = [load EXCEPT !.step = "answered", !.stayed = Keys,
                          !.page = Page(load.query, load.cursor, MoreLimit[load.query])]
  /\ UNCHANGED <<query, items, cursor, overtaken, stayed, tableVars>>

(* ... and its answer is appended, and its cursor kept, to whatever is shown *)
(* when it arrives.                                                         *)
Loaded ==
  /\ load # NoLoad /\ load.step = "answered"
  /\ items' = items \o load.page.items /\ cursor' = load.page.nextCursor
  /\ overtaken' = (overtaken \/ load.query # query \/ load.cursor # cursor)
  /\ stayed' = stayed \cap load.stayed
  /\ load' = NoLoad
  /\ UNCHANGED <<query, tableVars>>

(* A failure is shown; the button tries again from the same cursor.         *)
LoadFails ==
  load # NoLoad /\ load' = NoLoad /\ UNCHANGED <<query, items, cursor, overtaken, stayed, tableVars>>

(* Rows come and go; seen only while a table is listed.                     *)
TableChanges ==
  /\ Kind[query] = "rows" /\ TableNext
  /\ stayed' = stayed \cap Keys'
  /\ load' = IF load = NoLoad THEN load ELSE [load EXCEPT !.stayed = @ \cap Keys']
  /\ UNCHANGED <<query, items, cursor, overtaken>>

=============================================================================
