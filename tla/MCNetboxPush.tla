---------------------------- MODULE MCNetboxPush ----------------------------
(***************************************************************************)
(* Own circuits o1 and o2 and a foreign one f, four rear ports, four ids.  *)
(* A plan swaps the far ends of two circuits, keeps one, renames another.  *)
(***************************************************************************)
EXTENDS NetboxPushProperties

CONSTANTS o1, o2, t1, t2

C(cid, a, z, text) == [cid |-> cid, ports |-> [side \in TermSide |-> IF side = "A" THEN a ELSE z], text |-> text]
MCWanted == {
    {C(o1, 1, 2, t1), C(o2, 3, 4, t1)},
    {C(o1, 1, 4, t1), C(o2, 2, 3, t1)},
    {C(o1, 1, 2, t2)} }
=============================================================================
