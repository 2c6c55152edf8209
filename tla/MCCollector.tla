---------------------------- MODULE MCCollector ----------------------------
(* One request, for every server configuration: both kinds of SSL, a port   *)
(* that is not set, one of its own, and one that is the other server's.     *)
EXTENDS Collector

CONSTANTS r1

const_Request == {r1}
const_Conf == [ssl : {"off", "FILE", "LETS_ENCRYPT"}, port : {"", "8080", "443"}]
=============================================================================
