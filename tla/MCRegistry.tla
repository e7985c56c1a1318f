---------------------------- MODULE MCRegistry ----------------------------
(***************************************************************************)
(* Workers for Registry's model checking: two over HTTP, one started after *)
(* the other at one URL and a third at its own; two async ones, which all  *)
(* have the URL "queue"; a scheduler's local worker.                       *)
(***************************************************************************)
EXTENDS Registry

CONSTANTS first, second, other, async1, async2, local

MCType == [w \in Worker |-> IF w \in {async1, async2} THEN "async"
                            ELSE IF w = local THEN "local" ELSE "http"]
MCURL == [w \in Worker |-> CASE w \in {async1, async2} -> "queue"
                             [] w = local -> "local"
                             [] w = other -> "http://b"
                             [] OTHER -> "http://a"]
MCFleets == {{first, second}, {first, other}, {async1, async2}, {other, local}}
=============================================================================
