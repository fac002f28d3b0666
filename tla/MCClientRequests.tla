---------------------------- MODULE MCClientRequests ----------------------------
(* Small instance of ClientRequests. *)
EXTENDS ClientRequests

Address(scheme, host, port, query) ==
    [scheme |-> scheme, host |-> host, port |-> port, path |-> "/cb", query |-> query, fragment |-> ""]

Site     == Address("https", "example.org", NoPort, {"tenant"})
Loopback == Address("http", "127.0.0.1", NoPort, {})
OffList  == Address("imap", "example.org", NoPort, {})
App      == Address("myapp", "open", NoPort, {})

LowerCase(scheme) == IF scheme = "MyApp" THEN "myapp" ELSE scheme

SiteOrigin == [Site EXCEPT !.path = "", !.query = {}]
BareOrigin == [SiteOrigin EXCEPT !.scheme = "http"]

Entered(type, grant, redirects, algorithm) ==
    [type |-> type, grant |-> grant, redirects |-> redirects, algorithm |-> algorithm,
     origins |-> IF redirects = {} THEN {} ELSE {IF grant = Hybrid THEN BareOrigin ELSE SiteOrigin}]

SomeListed == {Site, Loopback, OffList, App, SiteOrigin, BareOrigin}

SomeProfiles ==
    {Entered("confidential", CodeGrant, {Site}, "HS256"), Entered("public", CodeGrant, {Site, Loopback}, ""),
     Entered("confidential", Credentials, {}, ""),
     Entered("public", Implicit, {}, ""), Entered("public", Implicit, {Site}, "HS256"),
     Entered("public", CodeGrant, {App}, ""), Entered("public", CodeGrant, {OffList}, ""),
     Entered("public", Hybrid, {Site}, "")}

Stranger == [type |-> "confidential", grant |-> CodeGrant, redirects |-> {Site}, origins |-> {},
             algorithm |-> "", secret |-> Hash(Plain("s1")), hash |-> TRUE]

SomeUris == {Site, Address("https", "example.org", NoPort, {}), Address("http", "127.0.0.1", 8000, {"x"}),
             Address("https", "example.org", 8000, {"tenant"}), OffList, App}

=============================================================================
