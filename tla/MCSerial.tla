------------------------------ MODULE MCSerial ------------------------------
(***************************************************************************)
(* An instance of Serial for TLC: two ports, and tables of remote hosts in *)
(* which they send nowhere, to hosts of their own, to the same host or to  *)
(* each other.                                                             *)
(***************************************************************************)
EXTENDS Serial

To(kind, to) == [kind |-> kind, to |-> to]
Table(r0, r1) == [p \in Ports |-> IF p = 0 THEN r0 ELSE r1]

MCTables ==
  {Table(To("udp", 0), To("none", 0)),
   Table(To("tcp", 0), To("none", 0)),
   Table(To("tcp", 0), To("tcp", 1)),
   Table(To("tcp", 1), To("tcp", 1)),
   Table(To("local", 1), To("none", 0)),
   Table(To("local", 1), To("local", 0))}

\* Less data where there are connections.
MCUnits ==
  [t \in MCTables |-> IF \A p \in Ports : t[p].kind # "tcp" THEN 4
                     ELSE IF t[0] # t[1] THEN 3 ELSE 2]
=============================================================================
