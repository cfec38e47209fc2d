---------------------------- MODULE MCBotUpdates ----------------------------
(* A new user writes to one bot twice, with another username the second      *)
(* time, and to a second bot without a username.                             *)
EXTENDS BotUpdates

CONSTANTS b1, b2, x1, u1, u2, u3, n1, n2

MCBotOf  == [u \in Updates |-> IF u = u3 THEN b2 ELSE b1]
MCFrom   == [u \in Updates |-> x1]
MCNameIn == [u \in Updates |-> CASE u = u1 -> n1 [] u = u2 -> n2 [] OTHER -> NoName]
=============================================================================
