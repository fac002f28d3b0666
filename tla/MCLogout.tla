-------------------------------- MODULE MCLogout --------------------------------
(* Small instance of Logout. *)
EXTENDS Logout

Uri(scheme, host) ==
    [scheme |-> scheme, host |-> host, port |-> NoPort, path |-> "/bye", query |-> {}, fragment |-> ""]

SomeClients == [mine  |-> [type |-> "public", logouts |-> {Uri("https", "rp.example"), Uri("http", "rp.example")}],
                other |-> [type |-> "confidential", logouts |-> {Uri("http", "other.example")}]]

SomeInputs == {<<"", NoUri>>, <<"", Uri("https", "rp.example")>>, <<"mine", Uri("http", "rp.example")>>,
               <<"mine", Uri("https", "else.example")>>, <<"other", Uri("http", "other.example")>>,
               <<"unknown", NoUri>>}

\* Every scheme of the instance is in lower case already.
LowerCase(scheme) == scheme

Plainly == {<<"", NoUri>>}

=============================================================================
