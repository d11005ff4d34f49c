------------------------------- MODULE MCDns -------------------------------
(* One database: hostnames and chains are per database.  Two calls besides *)
(* the request that creates it.                                            *)
EXTENDS Dns

CONSTANTS d1, k1, k2
=============================================================================
