--------------------------- MODULE MCNotifications ---------------------------
(* Small instances of Notifications: the first user owns every post. *)
EXTENDS Notifications, TLC

CONSTANT Owner

(* A run spends its fault budget on one failure of any kind. *)
OneFault == aborts + mishaps + drops <= 1

MCAuthor == [p \in Posts |-> Owner]
==============================================================================
