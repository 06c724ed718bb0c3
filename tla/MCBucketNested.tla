---------------------------- MODULE MCBucketNested ----------------------------
(* `freepod bucket mv :a/b/ :a/', with one object below :a/b/b/ whose       *)
(* destination is the source of another.                                    *)
EXTENDS BucketTransfer

MCNames == << <<"a", "b", "b", "x">>, <<"a", "b", "x">>, <<"a", "b", "y">>, <<"a", "x">>, <<"a", "y">> >>
MCBig == {}
MCFull == {}
MCParts == {1, 2}

Nested == {<<"a", "b", "b", "x">>, <<"a", "b", "x">>, <<"a", "b", "y">>}
MCCommands ==
  {[source |-> "store", target |-> "store", move |-> TRUE, from |-> <<"a", "b">>, to |-> <<"a">>,
    single |-> FALSE,
    had |-> [store |-> [n \in Range(MCNames) |-> IF n \in Nested THEN <<"store", n>> ELSE <<>>],
             disk |-> [n \in Range(MCNames) |-> <<>>]]]}
=============================================================================
