--------------------------- MODULE MCUpdateNotices ---------------------------
(* Instance of UpdateNotices: a user who writes from a chat of his own or from a group,   *)
(* and a stranger who is a member of the same group.                                     *)
EXTENDS UpdateNotices

CONSTANTS u1, u2, own, group

MCUsers   == {u1, u2}
MCChatsOf == [u \in MCUsers |-> IF u = u1 THEN {own, group} ELSE {group}]
=============================================================================
