------------------------------- MODULE Cursors -------------------------------
(* What every list answers with: a page of items and the cursor from which  *)
(* the next page is asked for.                                             *)
CONSTANT NoCursor       \* there is no next page

(* CursorPage; the client hands the cursor back as it got it.               *)
NewCursorPage(items, nextCursor) == [items |-> items, nextCursor |-> nextCursor]
=============================================================================
