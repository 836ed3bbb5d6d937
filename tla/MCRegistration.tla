---------------------------- MODULE MCRegistration ----------------------------
(* Bounded instances of Registration: p2 is a second server at the address of *)
(* p1 (its restart, too early or in time), or elsewhere, or does not start.   *)
EXTENDS Registration

Opt(o, text) == [opt |-> o, arg |-> text]

MCFiles ==
  (<<"a.conf">> :>
     <<<<"#", " ", "rpcserverport", "=", "9", "\n">>,
       <<" ", "rpcserverip", " ", "=", " ", "hostA", " ", "\n">>,
       <<"\n">>,
       <<"rpcserverport", "\n">>,
       <<"rpcserverport", "=", "8", "\n">>,
       <<"rpcserverport", "=", "9", "\n">>,
       <<"zookeeperip", "=", " ", "\n">>,
       <<" ", " ">>,
       <<"zookeeperport", "=", "2181">>>>)
  @@ (<<"b.conf">> :> <<<<"rpcserverip", "=", "hostB", "\n">>,
                        <<"rpcserverip", "=", "hostA", "\n">>>>)

FromFile  == <<Opt("i", <<"a.conf">>)>>
Overrides == <<Opt("p", <<"9">>), Opt("i", <<"b.conf">>), Opt("a", <<"hostA">>), Opt("p", <<"8">>)>>
Elsewhere == <<Opt("i", <<"b.conf">>), Opt("p", <<"8">>)>>
Unusable  == {<< >>, <<Opt("i", <<"none.conf">>)>>, <<Opt("i", <<"a.conf">>), Opt("?", << >>)>>}

MCArgv ==
  [p \in Procs |-> IF p = "p1" THEN {FromFile} ELSE {Overrides, Elsewhere} \cup Unusable]

OneService  == <<[name |-> "User", methods |-> {"Login"}], [name |-> "User", methods |-> {"Logout"}]>>
===============================================================================
