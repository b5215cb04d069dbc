------------------------------ MODULE MCMonitor ------------------------------
(* A connection to a local server, one between two local ports that has no   *)
(* plug-in, and a local client's datagrams.                                  *)
EXTENDS Monitor, TLC

CONSTANTS tcp, loop2, dns

MCConns == {tcp, loop2, dns}
MCLocal == (tcp :> {"server"}) @@ (loop2 :> Ends) @@ (dns :> {"client"})
MCPort == (tcp :> [client |-> 4, server |-> 1]) @@ (loop2 :> [client |-> 5, server |-> 2])
          @@ (dns :> [client |-> 6, server |-> 3])

Packet(c, e, k) == [flow |-> [conn |-> c, from |-> e], kind |-> k]
MCWire == {Packet(tcp, "client", k) : k \in {"data", "fin", "datafin"}}
          \cup {Packet(tcp, "server", k) : k \in {"ack", "data"}}
          \cup {Packet(loop2, "server", "datafin"), Packet(dns, "server", "udp")}
=============================================================================
