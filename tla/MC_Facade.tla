------------------------------ MODULE MC_Facade ------------------------------
(***************************************************************************)
(* Two threads calling the C API on datagrams that reach every outcome of *)
(* xdp_dns_parse and of the build wrappers, with one reset_stats racing   *)
(* them and init/cleanup toggling the flag.                                *)
(***************************************************************************)
EXTENDS Facade, TLC

QueryHeader    == <<18, 52, 1, 0, 0, 1, 0, 0, 0, 0, 0, 0>>
ResponseHeader == <<18, 52, 129, 128, 0, 1, 0, 0, 0, 0, 0, 0>>
QTail == <<0, 1, 0, 1>>   \* qtype A, qclass IN

\* "A." (decodes to "a"), the root name, a response, a bare header
\* (PacketTooShort), 11 bytes (INVALID_PARAM), and "A.A" (BufferTooSmall
\* in a 2-byte domain buffer, after writing "a.").
MCPackets ==
  { QueryHeader \o <<1, 65, 0>> \o QTail,
    QueryHeader \o <<0>> \o QTail,
    ResponseHeader \o <<1, 65, 0>> \o QTail,
    QueryHeader,
    SubSeq(QueryHeader, 1, 11),
    QueryHeader \o <<1, 65, 1, 65, 0>> \o QTail }

MCThreadSymmetry == Permutations(Threads)
=============================================================================
