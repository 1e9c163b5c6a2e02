------------------------------- MODULE Facade -------------------------------
(***************************************************************************)
(* The C API of src/cpp/src/cgo_bridge.cpp: the g_initialized flag, the    *)
(* five relaxed global counters, xdp_dns_parse into the caller's          *)
(* XDPDNSParseResult, the three build wrappers, and reset_stats, called    *)
(* by concurrent threads.                                                  *)
(*                                                                         *)
(* Each access to a global is one step.  xdp_dns_parse is three: the      *)
(* fetch_add on packets_received; parse() and its outcome (a fetch_add on  *)
(* parse_errors, the NotQuery return, or the header fields stored into    *)
(* the result); decodeName() into result->domain and its outcome.  parse  *)
(* and decodeName touch only the caller's packet and result, so they run  *)
(* inside the step of the global access that follows them.  A build call  *)
(* is one step: its only global access is the final fetch_add.            *)
(***************************************************************************)
EXTENDS DNSResponseBuilder, Integers, FiniteSets

CONSTANTS
  Threads,       \* threads calling into the library
  Packets,       \* datagrams they pass (sequences of bytes)
  Caps,          \* response_buf_size values of build calls
  DomainBufSize, \* sizeof(result->domain) (256)
  MaxCalls,      \* bound on parse and build calls
  MaxResets      \* bound on reset_stats calls

VARIABLES
  initialized,   \* g_initialized
  stats,         \* the five global counters
  pc,            \* thread -> "idle" | "parse" | "decode"
  pkt,           \* thread -> packet of its xdp_dns_parse call
  result,        \* thread -> the caller's XDPDNSParseResult
  ret,           \* thread -> status its last xdp_dns_parse returned
  bret,          \* thread -> status its last build call returned
  rpc,           \* reset_stats: stores done (0 when not running)
  calls, resets, \* calls made so far (bounded)
  callResult,    \* auxiliary: thread -> result as the call found it
  raced          \* auxiliary: the last reset overlapped a parse call

vars == <<initialized, stats, pc, pkt, result, ret, bret, rpc, calls, resets,
          callResult, raced>>

\* The order xdp_dns_reset_stats stores zero.
CounterOrder == <<"packets_received", "packets_parsed", "parse_errors",
                  "response_built", "total_latency_ns">>
CounterNames == {CounterOrder[i] : i \in 1..5}

\* The int values of common.hpp's Error enum, which xdp_dns_parse and the
\* build wrappers return as static_cast<int>(err).
ErrorCode == [Success |-> 0, PacketTooShort |-> -1, InvalidHeader |-> -2,
              TruncatedMessage |-> -3, PointerLoop |-> -4, InvalidLabel |-> -5,
              BufferTooSmall |-> -6, NotQuery |-> -7]

\* cgo_bridge.h XDPDNSError.
XDP_DNS_OK == 0
XDP_DNS_ERR_INVALID_PARAM == -1
XDP_DNS_ERR_PARSE_FAILED == -2
XDP_DNS_ERR_BUFFER_TOO_SMALL == -3
XDP_DNS_ERR_NOT_INITIALIZED == -4
XDP_DNS_ERR_NOT_DNS_QUERY == -5

\* The ints a call can return, and NoStatus for "no call returned yet"
\* (a value no call returns).
NoStatus == 1
Statuses == {XDP_DNS_OK, XDP_DNS_ERR_INVALID_PARAM, XDP_DNS_ERR_PARSE_FAILED,
             XDP_DNS_ERR_BUFFER_TOO_SMALL, XDP_DNS_ERR_NOT_INITIALIZED,
             XDP_DNS_ERR_NOT_DNS_QUERY, NoStatus}
              \cup {ErrorCode[e] : e \in Errors}

Bump(c) == stats' = [stats EXCEPT ![c] = @ + 1]

\* A caller's zero-initialised XDPDNSParseResult.
EmptyResult ==
  [id |-> 0, flags |-> 0, qtype |-> 0, qclass |-> 0, name_offset |-> 0,
   question_end |-> 0, domain |-> [i \in 1..DomainBufSize |-> 0], domain_len |-> 0]

\* What decodeName leaves in result->domain: the bytes it wrote over the
\* old contents, and the NUL when it stored one.  Bytes written past the
\* end of the array are kept as further elements, so that an overrun into
\* domain_len and beyond shows as a domain longer than sizeof(domain).
DomainAfter(buf, d) ==
  LET w == IF d.nul THEN d.out \o <<0>> ELSE d.out
  IN [i \in 1..(IF Len(w) > Len(buf) THEN Len(w) ELSE Len(buf)) |->
        IF i <= Len(w) THEN w[i] ELSE buf[i]]

InCall(t) == pc[t] # "idle"

Init ==
  /\ initialized = FALSE
  /\ stats = [c \in CounterNames |-> 0]
  /\ pc = [t \in Threads |-> "idle"]
  /\ pkt = [t \in Threads |-> <<>>]
  /\ result = [t \in Threads |-> EmptyResult]
  /\ ret = [t \in Threads |-> NoStatus]
  /\ bret = [t \in Threads |-> NoStatus]
  /\ rpc = 0
  /\ calls = 0
  /\ resets = 0
  /\ callResult = [t \in Threads |-> EmptyResult]
  /\ raced = FALSE

-----------------------------------------------------------------------------
(* xdp_dns_init / xdp_dns_cleanup                                          *)

xdp_dns_init ==
  /\ initialized' = TRUE
  /\ UNCHANGED <<stats, pc, pkt, result, ret, bret, rpc, calls, resets, callResult, raced>>

xdp_dns_cleanup ==
  /\ initialized' = FALSE
  /\ UNCHANGED <<stats, pc, pkt, result, ret, bret, rpc, calls, resets, callResult, raced>>

-----------------------------------------------------------------------------
(* xdp_dns_parse                                                           *)

\* A call begins: nothing it does reads g_initialized.
BeginCall(t) ==
  /\ pc[t] = "idle"
  /\ calls < MaxCalls
  /\ calls' = calls + 1

\* An xdp_dns_parse call begins (the auxiliary record of what it found).
BeginParse(t) ==
  /\ BeginCall(t)
  /\ callResult' = [callResult EXCEPT ![t] = result[t]]

\* packet_len < 12: INVALID_PARAM before anything is counted.
ParseRejected(t, p) ==
  /\ BeginParse(t)
  /\ Len(p) < 12
  /\ ret' = [ret EXCEPT ![t] = XDP_DNS_ERR_INVALID_PARAM]
  /\ UNCHANGED <<initialized, stats, pc, pkt, result, bret, rpc, resets, raced>>

\* g_packets_received.fetch_add(1)
ParseStart(t, p) ==
  /\ BeginParse(t)
  /\ Len(p) >= 12
  /\ Bump("packets_received")
  /\ pc' = [pc EXCEPT ![t] = "parse"]
  /\ pkt' = [pkt EXCEPT ![t] = p]
  /\ raced' = (raced \/ rpc # 0)
  /\ UNCHANGED <<initialized, result, ret, bret, rpc, resets>>

\* Leaving a call with status s.
Return(t, s) ==
  /\ pc' = [pc EXCEPT ![t] = "idle"]
  /\ ret' = [ret EXCEPT ![t] = s]
  /\ pkt' = [pkt EXCEPT ![t] = <<>>]
  /\ raced' = (raced \/ rpc # 0)

\* DNSParser::parse failed: g_parse_errors.fetch_add(1), return its error.
ParseFailed(t) ==
  LET r == parse(pkt[t]) IN
  /\ pc[t] = "parse"
  /\ r.err # "Success"
  /\ Bump("parse_errors")
  /\ Return(t, ErrorCode[r.err])
  /\ UNCHANGED <<initialized, result, bret, rpc, calls, resets, callResult>>

\* The datagram is a response: NOT_DNS_QUERY, nothing counted.
ParseNotQuery(t) ==
  LET r == parse(pkt[t]) IN
  /\ pc[t] = "parse"
  /\ r.err = "Success" /\ ~r.is_query
  /\ Return(t, XDP_DNS_ERR_NOT_DNS_QUERY)
  /\ UNCHANGED <<initialized, stats, result, bret, rpc, calls, resets, callResult>>

\* The header and question fields are stored into the caller's result.
ParseFill(t) ==
  LET r == parse(pkt[t]) IN
  /\ pc[t] = "parse"
  /\ r.err = "Success" /\ r.is_query
  /\ result' = [result EXCEPT ![t] = [@ EXCEPT !.id = r.id, !.flags = r.flags,
                   !.qtype = r.qtype, !.qclass = r.qclass,
                   !.name_offset = r.name_offset, !.question_end = r.question_end]]
  /\ pc' = [pc EXCEPT ![t] = "decode"]
  /\ UNCHANGED <<initialized, stats, pkt, ret, bret, rpc, calls, resets, callResult, raced>>

\* decodeName into result->domain.
Decoded(t) == decodeName(pkt[t], Len(pkt[t]), parse(pkt[t]).name_offset, DomainBufSize)

\* Seeded fault for DecodeFailed: the error return is missing, so the
\* call goes on to store domain_len, count the packet as parsed as well
\* and return XDP_DNS_OK.
DecodeFailed_noReturn(t) ==
  /\ pc[t] = "decode"
  /\ Decoded(t).err # "Success"
  /\ stats' = [stats EXCEPT !["parse_errors"] = @ + 1, !["packets_parsed"] = @ + 1]
  /\ result' = [result EXCEPT ![t].domain = DomainAfter(@, Decoded(t)),
                              ![t].domain_len = Len(Decoded(t).out)]
  /\ Return(t, XDP_DNS_OK)
  /\ UNCHANGED <<initialized, bret, rpc, calls, resets, callResult>>

\* decodeName failed: g_parse_errors.fetch_add(1), return its error; the
\* fields stored by ParseFill and the bytes decodeName wrote stay.
DecodeFailed(t) ==
  /\ pc[t] = "decode"
  /\ Decoded(t).err # "Success"
  /\ Bump("parse_errors")
  /\ result' = [result EXCEPT ![t].domain = DomainAfter(@, Decoded(t))]
  /\ Return(t, ErrorCode[Decoded(t).err])
  /\ UNCHANGED <<initialized, bret, rpc, calls, resets, callResult>>

\* domain_len stored, g_packets_parsed.fetch_add(1), XDP_DNS_OK.
DecodeOk(t) ==
  /\ pc[t] = "decode"
  /\ Decoded(t).err = "Success"
  /\ Bump("packets_parsed")
  /\ result' = [result EXCEPT ![t].domain = DomainAfter(@, Decoded(t)),
                              ![t].domain_len = Len(Decoded(t).out)]
  /\ Return(t, XDP_DNS_OK)
  /\ UNCHANGED <<initialized, bret, rpc, calls, resets, callResult>>

-----------------------------------------------------------------------------
(* xdp_dns_build_nxdomain / _a_response / _aaaa_response                   *)

\* The wrapper: parse (its error is returned uncounted), the builder's
\* length n, 0 -> BUFFER_TOO_SMALL, otherwise g_response_built.fetch_add(1).
BuildCall(t, p, n) ==
  LET r == parse(p) IN
  /\ BeginCall(t)
  /\ \/ r.err # "Success" /\ bret' = [bret EXCEPT ![t] = ErrorCode[r.err]] /\ UNCHANGED stats
     \/ r.err = "Success" /\ n = 0 /\ bret' = [bret EXCEPT ![t] = XDP_DNS_ERR_BUFFER_TOO_SMALL]
        /\ UNCHANGED stats
     \/ r.err = "Success" /\ n > 0 /\ bret' = [bret EXCEPT ![t] = XDP_DNS_OK]
        /\ Bump("response_built")
  /\ UNCHANGED <<initialized, pc, pkt, result, ret, rpc, resets, callResult, raced>>

\* The address and TTL of the build calls.
IPv4 == <<10, 0, 0, 1>>
IPv6 == [i \in 1..16 |-> IF i = 16 THEN 1 ELSE 0]
TTL == 300

xdp_dns_build_nxdomain(t, p, cap) ==
  BuildCall(t, p, Len(buildNXDomain(p, parse(p), cap)))

xdp_dns_build_a_response(t, p, cap) ==
  BuildCall(t, p, Len(buildAResponse(p, parse(p), IPv4, TTL, cap)))

xdp_dns_build_aaaa_response(t, p, cap) ==
  BuildCall(t, p, Len(buildAAAAResponse(p, parse(p), IPv6, TTL, cap)))

-----------------------------------------------------------------------------
(* xdp_dns_reset_stats                                                     *)

\* One relaxed store of zero, in source order.
ResetStore ==
  /\ rpc # 0 \/ resets < MaxResets
  /\ stats' = [stats EXCEPT ![CounterOrder[rpc + 1]] = 0]
  /\ rpc' = (rpc + 1) % 5
  /\ resets' = IF rpc = 0 THEN resets + 1 ELSE resets
  /\ raced' = ((rpc # 0 /\ raced) \/ \E t \in Threads : InCall(t))
  /\ UNCHANGED <<initialized, pc, pkt, result, ret, bret, calls, callResult>>

-----------------------------------------------------------------------------

\* The steps of thread t inside an xdp_dns_parse call.
ParseStep(t) ==
  ParseFailed(t) \/ ParseNotQuery(t) \/ ParseFill(t) \/ DecodeFailed(t) \/ DecodeOk(t)

Next ==
  \/ xdp_dns_init \/ xdp_dns_cleanup
  \/ \E t \in Threads, p \in Packets :
       \/ ParseRejected(t, p) \/ ParseStart(t, p)
       \/ \E cap \in Caps :
            \/ xdp_dns_build_nxdomain(t, p, cap)
            \/ xdp_dns_build_a_response(t, p, cap)
            \/ xdp_dns_build_aaaa_response(t, p, cap)
  \/ \E t \in Threads : ParseStep(t)
  \/ ResetStore

Spec == Init /\ [][Next]_vars

-----------------------------------------------------------------------------
(* Properties                                                              *)

\* result->domain is char[256]: a decodeName that wrote past it would give a
\* domain longer than DomainBufSize, which ResultType excludes.
ResultType ==
  [id : Nat, flags : Nat, qtype : Nat, qclass : Nat, name_offset : Nat,
   question_end : Nat, domain : [1..DomainBufSize -> 0..255], domain_len : Nat]

\* Every variable keeps its type; in particular no xdp_dns_parse call writes
\* past the end of result->domain, and every call returns one of the ints
\* the C API and the parser's Error enum define.
TypeOK ==
  /\ initialized \in BOOLEAN
  /\ stats \in [CounterNames -> Nat]
  /\ pc \in [Threads -> {"idle", "parse", "decode"}]
  /\ result \in [Threads -> ResultType]
  /\ ret \in [Threads -> Statuses] /\ bret \in [Threads -> Statuses]
  /\ rpc \in 0..4

Quiescent == (\A t \in Threads : ~InCall(t)) /\ rpc = 0

Received == stats["packets_received"]
Accounted == stats["packets_parsed"] + stats["parse_errors"]

\* Once no xdp_dns_parse and no reset_stats is running, every packet
\* counted as parsed or as a parse error was counted as received, unless
\* the last reset_stats overlapped a parse call.
CountersCoverUnlessRaced == Quiescent /\ ~raced => Received >= Accounted

\* An xdp_dns_parse that returns an error leaves the caller's result as it
\* found it (spec 7: no partial mutation on failure).
ErrorLeavesResultUnchanged ==
  \A t \in Threads :
    ~InCall(t) /\ ret[t] \notin {XDP_DNS_OK, NoStatus} => result[t] = callResult[t]

=============================================================================
