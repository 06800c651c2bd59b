---------------------------- MODULE MCConntrack ----------------------------
EXTENDS Conntrack

CONSTANTS client, remote, wan1, wan2

MCEndpoints == {client, remote, wan1, wan2}
To(s, d) == [source |-> s, destination |-> d]
MCFlowTuple == To(client, remote)
\* The client's connection translated to one port or to another, and a
\* connection from outside forwarded to the client.
MCEntries ==
    {[original |-> To(client, remote), reply |-> To(remote, wan1)],
     [original |-> To(client, remote), reply |-> To(remote, wan2)],
     [original |-> To(remote, wan1), reply |-> To(client, remote)]}
=============================================================================
