---------------------------- MODULE MCAdmission -----------------------------
(* One label for a name nobody lists, one for a name that lists contain, two *)
(* for literals.  Addresses sit on both sides of the borders of networks.    *)
EXTENDS Admission

Plainly == <<97>>
Listed == <<98>>
V4Literal == <<99>>
V6Literal == <<100>>

MCLiterals == V4Literal :> <<127,0,0,1>> @@ V6Literal :> <<0,0,0,0,0,0,0,1>>

MCFiles ==
  {[prefix |-> p] : p \in {<<"/", "wisp">>, <<"wisp">>, <<"wisp", "/">>}}
  \cup {[allow_udp |-> FALSE], [allow_wsproxy |-> FALSE], [allow_wsproxy_udp |-> TRUE],
        [allow_twisp |-> TRUE], [allow_twisp |-> TRUE, wisp_v2 |-> FALSE],
        [extensions |-> {"wispnet"}], [allow_direct_ip |-> FALSE], [allow_loopback |-> FALSE],
        [allow_multicast |-> FALSE, resolve_ipv6 |-> TRUE], [allow_global |-> FALSE, resolve_ipv6 |-> TRUE],
        [block_hosts |-> {Listed}], [block_hosts |-> {Listed}, allow_tcp_hosts |-> {Listed}],
        [block_udp_hosts |-> {Listed}, allow_hosts |-> {Listed}],
        [block_hosts |-> {<<BadText>>}], [block_ports |-> {<<25>>}],
        [block_ports |-> {<<1, 1023>>}, allow_ports |-> {<<80, 80>>}],
        [bind |-> "tlstcp"], [bind |-> "file"], [bind |-> "tlsunix", tls_keypair |-> TRUE],
        [transport |-> "lengthdelimitedle"], [stats_endpoint |-> "same"]}

MCEnvs ==
  {<<>>, [allow_non_global |-> FALSE],
   [allow_ports |-> {ParsePortRange(25, 25)} \ {<<>>}, allow_udp |-> TRUE]}

MCPaths == {<<"/">>, <<"/", "stats">>, <<"/", "wisp", "/">>, <<"/", "target">>}

MCTargets == {[host |-> h, port |-> p] : h \in {Listed, V4Literal}, p \in {-1, 80}}

Ids == {<<0, 1>>, <<65535, 65535>>}
MCInfos ==
  {[type |-> "info", major |-> 2, minor |-> 0, extensions |-> es] :
     es \in {<<>>, <<[id |-> 1, payload |-> <<>>]>>,
             <<[id |-> 9, payload |-> <<1, 0, 0, 0, 0>>], [id |-> 2, payload |-> <<1, 97, 98, 98>>]>>}}

Type(b) == FromByte(StreamTypes, b)
MCPackets ==
  {[type |-> "connect", id |-> <<0, 1>>, stream_type |-> Type(b), port |-> p, host |-> h] :
     b \in {1, 2, TwispType}, p \in {25, 80},
     h \in {Plainly, Listed, V4Literal, V6Literal, <<>>, <<1, 46>>, <<97, 46>>}}
  \cup {[type |-> "connect", id |-> <<65535, 65535>>, stream_type |-> Type(9), port |-> 443, host |-> Plainly],
        [type |-> "data", id |-> <<256, 7>>, data |-> <<1, 2>>],
        [type |-> "continue", id |-> <<0, 0>>, buffer_remaining |-> <<32768, 128>>],
        [type |-> "close", id |-> <<1, 0>>, reason |-> FromByte(CloseReasons, 193)],
        [type |-> "close", id |-> <<1, 0>>, reason |-> FromByte(CloseReasons, 200)]}

MCAnswers ==
  {<<>>} \cup
  {<<a>> : a \in {<<8,8,8,8>>, <<100,63,0,1>>, <<100,64,0,1>>, <<127,0,0,1>>, <<224,0,0,1>>,
                  <<192,0,0,8>>, <<192,0,0,9>>, <<198,19,0,1>>, <<198,20,0,1>>, <<172,31,0,1>>,
                  <<172,32,0,1>>, <<255,255,255,255>>,
                  <<0,0,0,0,0,0,0,1>>, <<8193,1,0,0,0,0,0,2>>, <<8193,1,0,0,0,0,0,3>>,
                  <<8193,63,0,0,0,0,0,1>>, <<8193,64,0,0,0,0,0,1>>, <<8193,3512,0,0,0,0,0,1>>,
                  <<65023,0,0,0,0,0,0,1>>, <<65024,0,0,0,0,0,0,1>>, <<65282,0,0,0,0,0,0,1>>,
                  <<65151,65535,0,0,0,0,0,1>>, <<65152,0,0,0,0,0,0,1>>, <<65215,0,0,0,0,0,0,1>>,
                  <<65216,0,0,0,0,0,0,1>>}}
  \cup {<< <<10,0,0,1>>, <<8,8,8,8>> >>, << <<9734,0,0,0,0,0,0,1>>, <<10,0,0,1>> >>}
=============================================================================
