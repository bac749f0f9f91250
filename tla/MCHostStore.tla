---------------------------- MODULE MCHostStore ----------------------------
(* The host's state store on a small instance, for TLC.                    *)
EXTENDS HostStore

MCSegments == {"notifications", "weather", "wind", "speed"}
MCItems == {"a", "b"}

\* Two paths of two lengths below the same root, and the list.
List == <<"notifications">>
Weather == <<"weather">>
Speed == <<"weather", "wind", "speed">>

Scalar(x) == [kind |-> "scalar", items |-> <<x>>]
Set(p, n) == [kind |-> "set", path |-> p, node |-> n, index |-> 0, item |-> "a"]
ListOp(k, p, i, x) == [kind |-> k, path |-> p, node |-> Object, index |-> i, item |-> x]

\* A list of one element: inserts in front of and behind it, removal down to the
\* empty list, an index that does not exist.  A root that is there, absent, a
\* scalar, an object or made as the parent of the parent of a leaf, and a list
\* as a parent.
MCMutations ==
    {Set(Weather, Scalar("a")), Set(Weather, Object), Set(Speed, Scalar("b")),
     Set(<<"notifications", "speed">>, Scalar("a")),
     ListOp("insert", List, 0, "b"), ListOp("insert", List, 1, "b"),
     ListOp("update", List, 0, "b"), ListOp("update", List, 1, "b"),
     ListOp("remove", List, 0, "a"), ListOp("remove", Weather, 0, "a"),
     ListOp("refused", Weather, 0, "a")}

MCStart == (List :> [kind |-> "list", items |-> <<"a">>])
=============================================================================
