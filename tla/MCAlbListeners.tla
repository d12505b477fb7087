--------------------------- MODULE MCAlbListeners ---------------------------
(***************************************************************************)
(* Instances of AlbListeners: an HTTP and an HTTPS listener, a listener of *)
(* the user, two Services, one Secret.                                     *)
(***************************************************************************)
EXTENDS AlbListeners

MCDomains ==
  1 :> {<<"*", "a", "com">>} @@ 2 :> {<<"b", "com">>} @@ 3 :> {<<"c", "com">>}
    @@ 11 :> {<<"s", "com">>} @@ 12 :> {<<"s", "com">>}

MCCertOf == [s \in {"s1"} |-> <<11, 12>>]

HostA == <<"x", "a", "com">>
HostB == <<"b", "com">>
HostC == <<"c", "com">>
HostS == <<"s", "com">>
MCHost == {HostA, HostB, HostC, HostS}

SvcA == <<"svc", "a">>
SvcB == <<"svc", "b">>
MCService == {SvcA, SvcB}

NoAcl == [type |-> None, name |-> <<>>, entries |-> {}, ids |-> {}]
ById(t, ids) == [type |-> t, name |-> <<>>, entries |-> {}, ids |-> ids]
ByEntry(t, es) == [type |-> t, name |-> <<>>, entries |-> es, ids |-> {}]

Http(attr, acl) == [desc |-> "", attr |-> attr, http2 |-> None, certs |-> <<>>, acl |-> acl]
Https(certs) ==
  [desc |-> "", attr |-> 0, http2 |-> None, acl |-> NoAcl,
   certs |-> [i \in DOMAIN certs |-> [id |-> certs[i], isDefault |-> FALSE]]]
Found(hosts) == [secret |-> None, hosts |-> hosts]
Named == [secret |-> "s1", hosts |-> {HostS}]

Base ==
  [ls |-> "80" :> Http(0, ById("White", {1})) @@ "443" :> Https(<<>>),
   tls |-> [l \in {"443"} |-> <<Found({HostA, HostB}), Named>>],
   backs |-> [l \in {"80", "443"} |-> {SvcA}],
   live |-> {SvcA, SvcB}, secret |-> [s \in {"s1"} |-> 1], sgp |-> 0, commonReuse |-> TRUE]

\* the first certificate is dropped, the Secret changes, other lists
Dropped == [Base EXCEPT !.tls["443"] = <<Found({HostB}), Named>>, !.secret["s1"] = 2,
                        !.ls["80"].acl = ById("White", {2})]
\* certificates of the AlbConfig in another order, entries instead of IDs
Fixed == [Base EXCEPT !.ls["443"] = Https(<<2, 1>>), !.ls["80"].acl = ByEntry("White", {"e1"})]
\* other entries, attributes and server groups, a Service that is gone
Moved == [Fixed EXCEPT !.ls["80"] = Http(1, ByEntry("White", {"e2"})), !.ls["443"].http2 = TRUE,
                       !.sgp = 1, !.live = {SvcB},
                       !.backs["443"] = {SvcB}]
\* one listener less, a host without a certificate as yet, and what the user
\* made may be overridden
Fewer == [Base EXCEPT !.ls = "443" :> Https(<<>>), !.backs["443"] = {SvcB}, !.commonReuse = FALSE,
                      !.tls["443"] = <<Found({HostA, HostC})>>]
\* another type of access control list
Retyped == [Base EXCEPT !.ls["80"].acl = ById("Black", {1})]
\* two new server groups
Double == [Base EXCEPT !.backs["443"] = {SvcA, SvcB}]

MCRetyped == {Base, Retyped}
MCDouble == {Double}
\* attributes of a listener, and of server groups, that are out of range
BadListener == [Fixed EXCEPT !.ls["80"].attr = 9]
BadGroup == [Dropped EXCEPT !.sgp = 9]

MCConfigs == {Base, Dropped, Fixed, Moved, Fewer, BadListener, BadGroup}
=============================================================================
