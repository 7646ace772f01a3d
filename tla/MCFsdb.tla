------------------------------- MODULE MCFsdb -------------------------------
(* Instances of Fsdb for TLC: three levels of fields, and one quoted name.   *)
EXTENDS FsdbProperties, TLC

CONSTANTS none, v1, v2, u1, u2

\* "o" stands for a part with a character that is quoted, as "eth:0".
AllParts == {"a", "b", "c", "o"}
OddParts == {"o"}
Fields == {<<"a">>, <<"a", "b">>, <<"a", "b", "c">>, <<"o">>, <<"o", "b">>}

One(kind, k, v, f) == [kind |-> kind, list |-> <<[key |-> k, value |-> v]>>, force |-> f]
SomeCalls ==
    {One("set", <<"a">>, v1, TRUE), One("set", <<"a", "b">>, none, TRUE),
     One("set", <<"a", "b", "c">>, v2, TRUE), One("set", <<"a", "b">>, v1, FALSE),
     One("property_set", <<"a">>, none, TRUE), One("property_set", <<"o">>, v1, TRUE),
     [kind |-> "set_keys", force |-> TRUE,
      list |-> <<[key |-> <<"a", "b", "c">>, value |-> v1], [key |-> <<"o", "b">>, value |-> v2]>>]}

Symmetric == Permutations({u1, u2})
=============================================================================
