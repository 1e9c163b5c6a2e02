-------------------------- MODULE DNSResponseBuilder --------------------------
(***************************************************************************)
(* The response builders of src/cpp/src/dns_parser.cpp (DNSResponseBuilder)*)
(* as pure operators.  Each takes the query bytes, the record parse()      *)
(* produced for them and the capacity of the caller's buffer, and returns  *)
(* the bytes it wrote: the empty sequence when it returns 0 (nothing is    *)
(* written then), otherwise the first n bytes of the response buffer,      *)
(* where n is the length it returns.                                       *)
(***************************************************************************)
EXTENDS DNSParser

\* common.hpp: dns_type, dns_class, dns_rcode
dns_type_A == 1
dns_type_AAAA == 28
dns_class_IN == 1
NXDOMAIN == 3
REFUSED == 5

\* The flag bits the builders touch.
QR_BIT == 32768
AA_BIT == 1024
RA_BIT == 128
RCODE_CLEAR == 65520   \* 0xFFF0

\* common.hpp on the little-endian build: ntohl is __builtin_bswap32,
\* htons and htonl are ntohs and ntohl.
ntohl(n) == (n % 256) * 16777216 + ((n \div 256) % 256) * 65536
              + ((n \div 65536) % 256) * 256 + n \div 16777216
htons(h) == ntohs(h)
htonl(h) == ntohl(h)

\* The bytes a uint16_t / uint32_t store through reinterpret_cast writes
\* on the little-endian build: low byte first.
StoreLE16(v) == <<v % 256, v \div 256>>
StoreLE32(v) == <<v % 256, (v \div 256) % 256, (v \div 65536) % 256,
                  v \div 16777216>>

\* The stores `= htons(v)` and `= htonl(v)` of the builders.
Bytes16(v) == StoreLE16(htons(v))
Bytes32(v) == StoreLE32(htonl(v))

\* buf with the bytes of s stored from offset o on (o 0-based).
Store(buf, o, s) ==
  [i \in DOMAIN buf |-> IF o < i /\ i <= o + Len(s) THEN s[i - o] ELSE buf[i]]

\* The flag word a builder stores: the query's flags with QR, the extra
\* bits and RA set, then RCODE cleared and set to rcode.
ResponseFlags(f, extra, rcode) == ((((f | QR_BIT) | extra) | RA_BIT) & RCODE_CLEAR) | rcode

\* memcpy(response, query, parsed.total_consumed)
QuestionCopy(query, parsed) == SubSeq(query, 1, parsed.total_consumed)

-----------------------------------------------------------------------------
(* NXDOMAIN and REFUSED                                                    *)

\* buildNXDomain and buildRefused: the copy, the flags, and an_count,
\* ns_count and ar_count stored as 0.
BuildNoAnswer(query, parsed, cap, rcode) ==
  IF cap < parsed.total_consumed THEN <<>>
  ELSE Store(Store(QuestionCopy(query, parsed), 2,
                   Bytes16(ResponseFlags(parsed.flags, 0, rcode))),
             6, <<0, 0, 0, 0, 0, 0>>)

\* Seeded fault for buildNXDomain: the RCODE bits of the query are kept
\* (the flags &= 0xFFF0 line dropped).
buildNXDomain_keepRcode(query, parsed, cap) ==
  IF cap < parsed.total_consumed THEN <<>>
  ELSE Store(Store(QuestionCopy(query, parsed), 2,
                   Bytes16((((parsed.flags | QR_BIT) | RA_BIT)) | NXDOMAIN)),
             6, <<0, 0, 0, 0, 0, 0>>)

buildNXDomain(query, parsed, cap) == BuildNoAnswer(query, parsed, cap, NXDOMAIN)

buildRefused(query, parsed, cap) == BuildNoAnswer(query, parsed, cap, REFUSED)

-----------------------------------------------------------------------------
(* A and AAAA                                                              *)

\* The answer record written after the question: the pointer C0 0C to the
\* question's name, type, class IN, TTL, RDLENGTH and the address bytes
\* (stored as given: the address is already in network order).
AnswerRR(qtype, ttl, rdata) ==
  <<192, DNS_HEADER_SIZE>> \o Bytes16(qtype) \o Bytes16(dns_class_IN)
    \o Bytes32(ttl) \o Bytes16(Len(rdata)) \o rdata

\* buildAResponse and buildAAAAResponse: room for the copy and a 12-byte
\* record header plus the address (16 / 28 bytes), then the copy with QR,
\* AA, RA set, RCODE 0 and an_count 1; ns_count and ar_count are not
\* touched.
BuildAnswer(query, parsed, cap, qtype, ttl, rdata) ==
  IF cap < parsed.total_consumed + 12 + Len(rdata) THEN <<>>
  ELSE Store(Store(QuestionCopy(query, parsed), 2,
                   Bytes16(ResponseFlags(parsed.flags, AA_BIT, 0))),
             6, Bytes16(1))
         \o AnswerRR(qtype, ttl, rdata)

buildAResponse(query, parsed, ip, ttl, cap) ==
  BuildAnswer(query, parsed, cap, dns_type_A, ttl, ip)

buildAAAAResponse(query, parsed, ipv6, ttl, cap) ==
  BuildAnswer(query, parsed, cap, dns_type_AAAA, ttl, ipv6)

=============================================================================
