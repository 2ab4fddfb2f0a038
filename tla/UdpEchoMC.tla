------------------------------ MODULE UdpEchoMC ------------------------------
(* UdpEcho with two buffers and an SQ ring of one entry, which is often    *)
(* full.  Two datagrams fit, one is too long, one has too long a name.     *)
EXTENDS UdpEcho

CONSTANTS c1, c2

MCDatagrams ==
    {[from |-> c1, len |-> 0, namelen |-> 1], [from |-> c2, len |-> 2, namelen |-> 1],
     [from |-> c1, len |-> 3, namelen |-> 1], [from |-> c1, len |-> 0, namelen |-> 2]}
=============================================================================
