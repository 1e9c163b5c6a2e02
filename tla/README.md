# TLA+ models of dns-xdp (C++ core)

This directory holds TLA+ models of the C++ core under `src/cpp/` and the
TLC configurations that check them.  `PROJECT.json` is the machine-readable
index: components, runs, seeded faults ("mutants"), the map from every
modelled definition to its source lines, findings, and hazards.

## The system

The C++ core is a library that the Go side calls through a C API.  It has
five parts.

| Part | Source | State | Operations |
|---|---|---|---|
| DNSParser | `src/dns_parser.cpp` | none (pure) | `parse`, `parseName`, `decodeName`, `domainEquals`, `domainEndsWith` |
| DNSResponseBuilder | `src/dns_parser.cpp` | none (pure) | `buildNXDomain`, `buildAResponse`, `buildAAAAResponse`, `buildRefused` |
| DomainTrie | `src/domain_trie.cpp` | nodes with `exact_rule`/`wildcard_rule`, `rule_count_`, a `shared_mutex` | `insert`, `match`, `remove`, `clear`, `size` |
| FilterEngine | `src/filter_engine.cpp` | a DomainTrie, `rules_storage_` under `rules_mutex_`, five relaxed atomic counters | `check`, `addRule`, `getStats`, `resetStats` |
| C facade | `src/cgo_bridge.cpp` | `g_initialized`, five relaxed atomic counters | `xdp_dns_init/cleanup/parse/build_*/get_stats/reset_stats` |

These parts interact in the following ways:
- The facade's `xdp_dns_parse` calls `DNSParser::parse` and then `decodeName` into the caller's result buffer.
- The facade's build functions re-parse the query and call the builder.
- The filter engine owns a trie. It stores each rule copy in `rules_storage_` and hands the copy's address to the trie.
- `check()` may run on many threads at once, concurrently with `addRule()` and `resetStats()`.

The following are declared in the headers and never defined, so there is nothing to model:
- `DomainTrie::updateRules`
- `FilterEngine::loadRules`
- `FilterEngine::removeRule`
- `DNSResponseBuilder::copyQuestion`
- `DNSParser::getNameLength`

### What is hard in this code

Each item below is listed in `PROJECT.json` "hazards" at the line where it bites:
- the reset race between `resetStats()` and `check()`;
- the order of `push_back` and `trie_.insert` in `addRule`, two writers inserting in the other order than they stored, and the `bad_alloc` path;
- `rule_count_` drifting on overwrite;
- `remove` leaving empty nodes that `matchImpl` still walks;
- domains that normalise to zero labels;
- every off-by-one end-of-packet test in the name walks;
- the compression-pointer jump cap, and `parseName` and `decodeName` disagreeing about what they accept;
- `wire_len` under compression;
- the build wrappers answering responses;
- writers waiting on the trie's `shared_mutex` while checks hold it;
- `decodeName`'s conditional NUL;
- the facade's partial result write, its missing init check and its own reset race;
- non-atomic `getStats`;
- `domainEquals`' unchecked reads;
- response counts the builder leaves as they were;
- the misaligned `uint16_t`/`uint32_t` loads and stores at odd offsets of the packet and the response.

## Modules

| Module | Models | Kind |
|---|---|---|
| `DomainTrie` | `DomainTrie` | state machine: `insert`, `remove`, `clear` are actions; `match`, `size` operators |
| `MC_DomainTrie` | | instantiation: domains, rule model values, symmetry |
| `FilterEngine` | `FilterEngine` composed with the trie (`Trie == INSTANCE DomainTrie`) | concurrent state machine |
| `MC_FilterEngine` | | instantiation: one checker, two writers, one resetter (`engine_core`); two checkers, one writer (`engine_counters_reset_race`) |
| `AtomicFilter` | what `FilterEngine::check` and `addRule` promise: a check reads the rule table in one step | abstract specification, implemented by `FilterEngine` |
| `DNSParser` | `parse`, `parseName`, `decodeName` and the `common.hpp` constants | pure operators (`RECURSIVE`) |
| `MC_DNSParser` | | state machine that grows a datagram one byte at a time, so TLC enumerates every datagram up to a length |
| `MC_DNSCompare` | `domainEquals`, `domainEndsWith` (in `DNSParser`) | grows a QNAME one byte at a time and compares the two functions with label-wise reference definitions |
| `DNSResponseBuilder` | the four builders (extends `DNSParser`) | pure operators returning the bytes written |
| `MC_DNSResponseBuilder` | | grows a query one byte at a time, from two headers |
| `Facade` | `cgo_bridge.cpp` (extends `DNSResponseBuilder`, so it composes the parser and the builders) | concurrent state machine |
| `MC_Facade` | | instantiation: two threads, six datagrams, two buffer capacities, one reset |

### DomainTrie

A domain is a tuple of one-character strings, so the code's normalisation
is modelled by what it does:
- `tolower`;
- the `"*."` test (`domain_len > 2`);
- `splitAndReverse`, which splits on `.`, drops empty labels and reverses.

A trie node is identified by its label path. `nodes` is the set of paths
that exist, and `exact` and `wildcard` map paths to rule pointers (model
values, or `NULL`). `rule_count` is `rule_count_`.

Every public method takes the trie's `shared_mutex`, so each one is a
single step:
- `insert`: the early returns on an empty domain, then `insertImpl` creates the path and sets the slot, then `rule_count_++`. The increment is unconditional, as in the code.
- `remove`: walk to the node (return false if it is missing), then clear the slot and decrement only if the slot held a rule. Nodes stay.
- `clear`: a fresh root and a count of 0.
- `matchImpl`: a `RECURSIVE` walk that remembers the last wildcard seen on the way. A missing child returns that wildcard. At the end node the exact rule wins, then the node's wildcard, then the remembered one.

`MaxRuleCount` bounds `rule_count_`, because overwrites make it unbounded.

### FilterEngine

The state is:
- the trie's variables;
- `storage`: `rules_storage_`, one Action per stored copy, where a rule pointer is the copy's 1-based position, which is stable because the vector only grows;
- `counters`;
- per-thread program counters and locals.

Each memory access the code makes on shared state is one step:
- `CheckStart`: `total_checks_.fetch_add`;
- `CheckMatch`: `trie_.match`, atomic under the shared lock;
- `CheckCount`: the switch and the outcome `fetch_add`;
- `AddRulePush`: `make_unique` plus `push_back` under `rules_mutex_`;
- `AddRuleInsert`: `trie_.insert`, where an empty domain is the trie's early return;
- `ResetStore`: one of the five relaxed stores, in source order.

If `push_back` throws `bad_alloc`, the `unique_ptr` frees the copy and no
shared state changes, so that path is a stutter.

The auxiliary flag `raced` records whether the last reset overlapped a check
between its two `fetch_add`s. It is written only by the steps, and no guard
reads it.

Relaxed ordering is not modelled beyond atomicity of each access. Every
counter is touched only by RMWs and stores, and the properties compare values
at quiescence, so sequentially consistent interleavings cover the outcomes that
matter here.

### Refinement: FilterEngine implements AtomicFilter

`AtomicFilter` holds a rule table from keys (trie path, wildcard flag) to
actions. `Call`, `Decide` and `Return` model one `check()`: the caller's
verdict is fixed in the single `Decide` step, by the spec's precedence (exact
rule, else deepest wildcard, else Allow). `AddRule` publishes one rule.

The last section of `FilterEngine` maps its state onto that:
- `AbsTable` reads each trie slot and looks the stored pointer up in `storage` (`StoredAction`);
- `AbsPhase` maps `match` to called and `count` to decided, so `CheckMatch` is the `Decide` step;
- `AbsVerdict` is the action `check()` returns: Allow for no rule, else the action of the stored rule;
- counters, `raced` and the writer's program counter are hidden; `AddRulePush` is a stutter, `AddRuleInsert` is `AddRule`.

`ImplementsAtomicFilter == AF!Spec` is checked as a PROPERTY of `engine_core`.
It says a concurrent check never answers with a rule that was not in the trie
when it matched, nor with a precedence other than the spec's.

### DNSParser

A packet is a sequence of byte values. `ReadByte` returns 0 past the end,
and every walk records in `oob` whether it read outside the packet, the second byte of a compression pointer included. The
correct code never does, and the properties require that.

`parseName` and `decodeName` are `RECURSIVE` translations of the loops,
keeping every test in its source order:
- the jump cap `jump_count < MAX_LABELS`;
- `offset >= len`;
- the end byte;
- the pointer tests, where `parseName` checks `ptr >= len` and `decodeName` does not;
- `InvalidLabel` (`parseName` only);
- the room and `BufferTooSmall` tests.

Multi-byte fields go through the code's conversions. `Load16` is the
`uint16_t` load at an offset, low byte first, as on the little-endian builds.
`ntohs` is the byte swap `__builtin_bswap16` of `common.hpp`, and `Read16` is
`ntohs(Load16(...))`, as in `DNSHeader`'s getters and the `qtype`/`qclass`
loads. On a big-endian build the load and `ntohs` are both the identity, which
gives the same value. `isQuery` is `DNSHeader::isQuery`, QR clear in the
host-order flags.

`decodeName` returns the bytes written, which stay in the caller's buffer
even when it returns an error, and whether it wrote the NUL.

`parse` follows the code's order: the length, the header fields, `qd_count`,
`parseName`, the room for `qtype`/`qclass`, then the result fields.

`domainEquals` is a `RECURSIVE` walk of the wire name in lock-step with the
candidate. It keeps the code's order: the jump cap and end test, the end byte,
pointers, the room and case-folded compare of a label, and then the unchecked
read of the byte after the label. That read decides whether a `.` must follow.
`domainEndsWith` is `decodeName` followed by the tail compare and the
label-boundary test.

### DNSResponseBuilder

Each builder is an operator `(query, parsed, ..., cap) -> bytes written`:
- the result is `<<>>` when the code returns 0, because nothing is written then;
- otherwise it is the first `n` bytes of the response buffer.

The steps are:
- `QuestionCopy`: the `memcpy` of `total_consumed` bytes.
- `ResponseFlags`: the code's `|=`/`&=` sequence on the query's flag word, in order (`Bitwise`).
- `Store`: the `htons` header stores at offsets 2 and 6.
- `Bytes16` and `Bytes32`: a `uint16_t`/`uint32_t` store of `htons(v)`/`htonl(v)`. `htons` and `htonl` are the byte swaps of `common.hpp`, and `StoreLE16`/`StoreLE32` write the low byte first, so the bytes on the wire come out most significant first.
- `AnswerRR`: the A/AAAA record with the `C0 0C` name pointer, the type, class IN, `htonl(ttl)`, RDLENGTH and the address bytes.

### Facade

The state is:
- `initialized`: `g_initialized`;
- `stats`: the five globals;
- per thread: `pc`, the packet and the caller's `XDPDNSParseResult` (`result`);
- `ret`: the last parse status, and `bret`: the last build status. Both are the ints the code returns: an `XDPDNSError` value, or `static_cast<int>(err)` of the parser's `Error` (`ErrorCode`), exactly as `cgo_bridge.cpp` lines 60, 87 and 117 return them. `NoStatus` (1) stands for no call returned yet;
- `rpc`: the reset's progress.

Each access to a global is one step:
- `ParseStart`: the `packets_received` `fetch_add`.
- `ParseFailed`, `ParseNotQuery` and `ParseFill`: `parse()` and its outcome. `ParseFill` stores the six header fields into the result.
- `DecodeFailed` and `DecodeOk`: `decodeName()` into `result->domain` and its outcome. On failure the bytes written stay. `DomainAfter` keeps bytes written past the end of the array as further elements, so an overrun of `domain[256]` shows as a domain longer than `DomainBufSize`, which `TypeOK` excludes.
- `BuildCall`: a build wrapper, where `parse`, the builder and the `response_built` `fetch_add` are one step. The wrappers touch no other shared state.
- `ResetStore`: the five stores, in source order.

`parse` and `decodeName` touch only the caller's packet and result, so they
belong to the step of the global access that follows them.

The auxiliary variables are never read by a guard:
- `callResult` is the result as the call found it;
- `raced` records a reset overlapping a parse, as in FilterEngine.

Two things are not modelled:
- `xdp_dns_get_stats`, which only loads, so it changes no state;
- the null-pointer `INVALID_PARAM` tests, since the callers pass valid buffers.

`total_latency_ns` is one of the five counters. No code path increments it; only the reset stores to it.

## Runs

| Run | Config | Expect | What it shows |
|---|---|---|---|
| `trie_core` | `MC_DomainTrie.cfg` | pass | See below. |
| `trie_size_overcount` | `MC_DomainTrie_size.cfg` | violation | Inserting `a` twice gives `size() = 2` with one rule stored. The Size test never re-inserts. |
| `trie_empty_label` | `MC_DomainTrie_empty.cfg` | violation | `insert(".")` or `insert("*..")` sets a rule on the root. A root wildcard then matches every domain. The spec (4.3) and the EmptyDomain test say such a domain is not inserted. |
| `engine_core` | `MC_FilterEngine.cfg` | pass | See below. |
| `engine_counters_reset_race` | `MC_FilterEngine_counters.cfg` | violation | A check's `total_checks_` bump lands before a reset and its outcome bump lands after. This leaves `allowed = 1, total = 0` forever, not the spec's eventual consistency (4.4). |
| `parser_core` | `MC_DNSParser.cfg` | pass | See below. |
| `compare_core` | `MC_DNSCompare.cfg` | pass | See below. |
| `builder_core` | `MC_DNSResponseBuilder.cfg` | pass | See below. |
| `builder_roundtrip` | `MC_DNSResponseBuilder_roundtrip.cfg` | violation | See below. |
| `builder_counts` | `MC_DNSResponseBuilder_counts.cfg` | violation | A query whose header has `ns_count = 1` gets an A or AAAA response that keeps it, announcing an authority record it does not carry (`NsCountZeroed`). Spec 4.2 says `ns_count` and `ar_count` are set to 0; `buildNXDomain` and `buildRefused` zero them. Only `ns_count` is checked, because spec section 1 also speaks of passing the additional-record count through unchanged. |
| `facade_core` | `MC_Facade.cfg` | pass | See below. |
| `facade_partial_result` | `MC_Facade_partial.cfg` | violation | The QNAME `a.a` is parsed into a 2-byte domain buffer. `xdp_dns_parse` returns `BufferTooSmall` after storing id, flags, qtype, qclass, name_offset and question_end, with `a.` in `domain`. Spec 7 says the output is never partially mutated on failure. |

What the passing runs show:
- `trie_core`: after any sequence of inserts, removes and clears, `MatchIsSpecified` holds. `matchImpl` agrees, for every domain, with the declarative rule: the exact rule of the name, else the wildcard of the longest non-empty suffix that has one. `SizeCoversRules` holds: `size()` never under-reports.
- `engine_core`: `RulesOwned` holds: every rule pointer held by the trie or by a checker is owned by `rules_storage_`. `CountersConsistentUnlessRaced` holds: when no check or reset is running, `total_checks_` equals the sum of the outcome counters unless the last reset overlapped a check. `ImplementsAtomicFilter` holds: with the counters hidden, every behaviour of the engine is one of `AtomicFilter`.
- `parser_core`: on every datagram, `ParseStaysInPacket` holds: `parse` never reads outside it, and on success `question_end = name_end + 4 <= len`. `DecodeAgreesWithParse` holds: when `parse` succeeds, `decodeName` on the same name stays in bounds and fails only with `BufferTooSmall`.
- `compare_core`: on every QNAME, `EndsWithAsSpecified` holds. `domainEndsWith` is true exactly when the suffix is a run of whole trailing labels, so `ample.com` never matches `example.com`.
- `compare_core`, `EqualsSound`: `domainEquals` accepts no string but the name's own text, or that text with one trailing dot. It accepts the text itself whenever the name has no pointer.
  - The trailing-dot case is a real disagreement with spec 4.1. After `01 61 C0 06` (`a`, then a pointer to a zero byte), the code's `packet[offset] != 0` test demands a dot. So `domainEquals("a")` is false and `domainEquals("a.")` is true.
  - The property records that behaviour, and the code's `'.'` test is still needed for it to hold (see the mutant).
- `builder_core`: `BuildersAsSpecified` holds for every query `parse` accepts, for each builder, at its exact capacity and one byte less.
  - When one byte short, the builder writes nothing.
  - Otherwise it writes exactly `total_consumed` (+16/+28) bytes, with:
    - the query's ID and question copied;
    - QR and RA set, and RD kept;
    - AA set for answers;
    - RCODE 3/5/0 even when the query carried RCODE 15;
    - `an_count` 0 or 1;
    - the answer name `C0 0C`.
- `builder_roundtrip`: a query whose QNAME is `C0 12`, a pointer past the question that `parse` accepts because `ptr < len`.
  - The A answer is written at `total_consumed`, so the pointer now lands on the answer's own `C0 0C`, and `parse(response)` gives `PointerLoop`.
  - Spec invariant 3 says the round trip gives back the question.
- `facade_core`: with two threads calling parse and the three build wrappers around init, cleanup and a reset, `CountersCoverUnlessRaced` and `TypeOK` hold. `TypeOK` includes that no parse writes past `result->domain`. When no call and no reset is running, `packets_parsed + parse_errors <= packets_received`, unless the reset overlapped a parse.

Every property of a passing run has a seeded fault in `PROJECT.json`
"mutants" that TLC catches under that run's configuration. The faults are:
- the wildcard preferred to the exact rule in `matchImpl` (caught by `MatchIsSpecified`, and by `ImplementsAtomicFilter` in `engine_core`);
- counting only new nodes in `insert`;
- decrementing without the slot test in `remove`;
- skipping one counter in `resetStats`;
- a rule that is not stored, or the pointer off by one, in `addRule`;
- the `offset > len` boundary, one extra jump, or no room check for `qtype` in the parser;
- the RCODE clear dropped in `buildNXDomain`;
- the separator test dropped in `domainEquals`;
- the label-boundary test dropped in `domainEndsWith`;
- the missing error return after `decodeName` in `xdp_dns_parse`;
- the room test before a label is copied dropped in `decodeName` (caught by the facade's `TypeOK` as a write past `result->domain`).

### Observed in the code, not given a run

The following were seen while modelling. Each is listed with a note in `PROJECT.json` "hazards":
- **`wire_len` under compression.** `parseName` sets `wire_len = total_len + 1`: every label walked, through pointers too, plus one byte for the end. For a QNAME that is one pointer `C0 0E` to a zero byte it is 1, while the name takes 2 bytes of the question. Spec section 8 records this bookkeeping as an open question, and nothing in `src/` reads `name_wire_len`.
- **Build wrappers answer responses.** The three build wrappers never test `is_query`, so a datagram with QR set gets an NXDOMAIN or A/AAAA answer. Spec 4.5 states the `NotQuery` return only for the parse entry point.
- **`buildNXDomain` flags.** The comment says AA=0, TC=0, RD=1, but the code keeps the query's AA, TC and RD bits.
- **`g_initialized` is never read.** Nothing returns `NOT_INITIALIZED`.
- **Status codes collide.** `xdp_dns_parse` and the build wrappers return `static_cast<int>(err)` of the parser's `Error`, whose values overlap `XDPDNSError`: `TruncatedMessage` (-3) reads as `BUFFER_TOO_SMALL`, `PointerLoop` (-4) as `NOT_INITIALIZED`, `InvalidLabel` (-5) as `NOT_DNS_QUERY`, and `BufferTooSmall` (-6) is no `XDPDNSError`. Facade returns the same ints.
- **`NOT_DNS_QUERY` is not counted.** It is counted as received but neither as parsed nor as an error.
- **The facade reset race.** The facade's reset has the same five-store race as the filter engine's, already shown by `engine_counters_reset_race`.
- **Misaligned loads and stores.** `parse` reads `qtype` and `qclass` through `reinterpret_cast<const uint16_t*>` at `name_end`, which is odd for every QNAME of odd wire length (S1's ends at 29). The builders store through `uint16_t*` and `uint32_t*` at the same parity. This is undefined behaviour and traps on strict-alignment targets. On the little-endian builds it is an unaligned move, which the models give by its value.
- **No NUL after the root name.** `decodeName` writes no NUL for the root name, so after an earlier call `result->domain` still holds that name's text while `domain_len` is 0.

### Bounds, and why they are enough

- **DomainTrie.** Two rules (symmetric model values) and `MaxRuleCount = 4`. The domains are `a`, `*.a`, `B.a`, `*.b.A`, `c.a`, `b` and `a.`. Together they give:
  - exact and wildcard rules on the same node;
  - a wildcard on a parent and on a deeper node;
  - sibling names;
  - case folding;
  - a trailing dot;
  - a wildcard whose path only `match` reaches through a missing child.

  Four increments let an overwrite and a remove happen in either order.
- **FilterEngine.** `engine_core` has one checker and two writers (symmetric), two rules, two checks and one reset, with the domains `a`, `*.A` and the empty domain. The two writers can push their copies in one order and insert them in the other, for the same node or for the exact and the wildcard slot of one node, while a check runs between the inserts. One checker suffices for the checks: `match` is one step under the shared lock, so two checkers only add interleavings of commuting `fetch_add`s, and one check in flight is enough for a reset to race it. The state space is about 270k states, 85 s. With two checkers as well it is 620k states and three and a half minutes alone, more than the full set of runs can afford. `engine_counters_reset_race` keeps two checkers and one writer, so that two checks can be in flight during the reset.
- **DNSParser.** `MAX_LABELS = 2`, scaled from 128. With it, both the cap and a loop that reaches it fit in a 19-byte packet. The byte alphabet `{0, 1, 65, 192, 14, 16}` gives:
  - label lengths 0 and 1;
  - an uppercase letter;
  - a pointer prefix;
  - pointer targets at offsets 14 and 16, inside the question, which give forward pointers, loops and pointers to the end byte.

  Packets with `qd_count = 0` are explored up to 17 bytes. `DomainBufSize = 2`, scaled from 256, so `BufferTooSmall` and the NUL boundary are reached by one- and two-label names.
- **DNSCompare.** QNAMEs of up to 6 bytes over `{0, 1, 2, 97, 192, 6}` are checked against 12 candidate strings. This covers:
  - one- and two-byte labels, which `ample.com`-style partial labels need;
  - a pointer to offset 6, a zero byte of the header, which is the root;
  - case folding, through the `A` in the candidates;
  - candidates with leading, inner and trailing dots.

  The decode buffer is 8 bytes, larger than any name in the space, so `EndsWithAsSpecified` is stated for names the buffer holds.
- **DNSResponseBuilder.** Queries of up to 19 bytes over `{0, 1, 192, 18}` are built from two headers:
  - a plain one;
  - flags `0x070F` (AA, TC, RD, RCODE 15) with `ns_count = ar_count = 1`.

  Byte 18 makes `C0 12` a pointer to the first byte after a minimal question. Each builder is tried at its exact capacity and at one byte less, which are the only two sides of its one size test. `builder_counts` needs only the second header and a question, so it grows queries over `{0, 1, 65}` up to 17 bytes.
- **Facade.** Two threads (symmetric) and at most two calls in total. The six datagrams are:
  - a query `a`;
  - the root query;
  - a response;
  - 12 bytes (`PacketTooShort`);
  - 11 bytes (`InvalidParam`);
  - `a.a`, which is `BufferTooSmall` after writing into a 2-byte domain buffer.

  There is one reset, and `Caps = {16, 64}`, where 16 is too small for an A answer. Two calls suffice because every property relates one call to the global counters or to its own result, and the reset can overlap either; both calls may be made by one thread, so a call on a result an earlier call left partly written is reached. A third call gives 180k states and about two and a half minutes alone, which the full set of runs cannot afford, and reaches no new kind of interleaving.

### Fairness

Every property checked is a safety property, and no fairness is assumed.
Every operation in this code is wait-free, or holds a lock for what the models
treat as one step, so "every call returns" would hold by the shape of the
models. The one eventual promise in the spec is the counters' eventual
consistency (4.4). It is checked as its quiescent safety form, because a
lasting disagreement is a state that no later step repairs.

The one liveness promise the code could break is a writer waiting on the
trie's `shared_mutex` while checks keep taking its shared side. The
standard gives that lock no fairness, and the models hold it for one step,
so they cannot express the wait. It is a hazard in `PROJECT.json`, not a
property. `AtomicFilter` with weak fairness on `Decide` and `Return` ("every
call returns") could be checked as part of `ImplementsAtomicFilter`, but a
liveness check must drop the checker symmetry. At the `engine_core` instance
that check runs for more than half an hour, for a property that holds by the
shape of the three-step `check()`.

The MC modules stop when their bounds are exhausted:
- `MC_FilterEngine` and `MC_Facade` stop at the call bounds;
- the byte-growing modules stop at their length bounds.

So they run with `CHECK_DEADLOCK FALSE`.

## Not modelled, and why

The following are not modelled:
- **`getStats` / `xdp_dns_get_stats`** only load the counters, and change no state of the library. The loads are relaxed and there is no happens-before between a reader and the threads that bump the counters. So the C++ memory model relates no two fields of a snapshot, and a model built from sequentially consistent steps would claim relations the code does not give. Spec 4.4 accepts any such snapshot. The hazards are recorded in `PROJECT.json`.
- **The null-pointer tests** of the C API.

- **The trie lock in detail.** Separate acquire and release steps for the `shared_mutex` would let writer starvation be stated. Every public trie operation holds the lock for its whole body, so the split adds no interleaving of the code's own steps. Whether a writer starves depends on the lock policy of the platform's `shared_mutex`, which the standard leaves open. Spec 4.3 asks only for a reader-writer lock, and the code uses one. So the question is about the platform, not this code, and it stays a hazard in `PROJECT.json`.
- **Misaligned accesses.** A trap or an optimiser that exploits the undefined behaviour cannot be expressed over byte values. The models give the value that the little-endian builds produce.
- **`domainEndsWith` on names longer than 255 characters.** It returns false whatever the suffix, because `decodeName` fails. The spec gives no answer for this case, and the bounded names never reach it.

With these left out, every operation under `src/` that changes the library's state is an action or an operator of a module.

The tests and benchmarks are not modelled: they are drivers, not behaviour.
