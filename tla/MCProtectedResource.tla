-------------------------- MODULE MCProtectedResource --------------------------
(* ProtectedResource for TLC.  Of two concurrent requests one goes to a view that leaves *)
(* something behind for others: the rest interact with nothing.                          *)
EXTENDS ProtectedResource, TLC

CONSTANTS extra, r1, r2

Colon(s, type) == <<s, type>>

SomeScopes == {READ, WRITE, extra} \cup ({extra} \X {READ, WRITE})

SomeTokenScopes == {{extra}, {extra, READ}, {READ, WRITE}, {extra, READ, WRITE},
                    {<<extra, READ>>}, {extra, <<extra, WRITE>>}}

SomeAlternates == [GET |-> {{READ}}, POST |-> {{WRITE, extra}, {<<extra, WRITE>>}}]

SomeViews == r1 :> Views @@ r2 :> {"rw", "mixin", "child"}

=============================================================================
