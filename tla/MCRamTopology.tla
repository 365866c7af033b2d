--------------------------- MODULE MCRamTopology ---------------------------
(* Every topology of up to 9 GiB, four nodes and a cap of 9 GiB, with the   *)
(* zero and negative arguments the callers accept.                          *)
EXTENDS RamTopology

MCRequests ==
  [ram_gib : -1..9, numa_nodes : -2..4, capped : {TRUE}, max_per_node_gib : -4..9]
    \cup [ram_gib : -1..9, numa_nodes : -1..4, capped : {FALSE}, max_per_node_gib : {0}]
=============================================================================
