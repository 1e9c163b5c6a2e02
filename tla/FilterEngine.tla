---------------------------- MODULE FilterEngine ----------------------------
(***************************************************************************)
(* FilterEngine of src/cpp/src/filter_engine.cpp, composed with the        *)
(* DomainTrie it owns.  Checker threads run check(), writer threads run    *)
(* addRule(), and one thread runs resetStats(), all concurrently.          *)
(*                                                                         *)
(* Each atomic the code touches is its own step: check() is fetch_add on   *)
(* total_checks_, then trie_.match (atomic under the trie's shared lock),  *)
(* then fetch_add on one outcome counter; resetStats() is five separate    *)
(* relaxed stores; addRule() allocates the copy and appends it under       *)
(* rules_mutex_, then inserts into the trie under its exclusive lock.  If  *)
(* push_back throws std::bad_alloc the unique_ptr frees the copy before    *)
(* the trie is touched: no shared state changes, a stuttering step.        *)
(*                                                                         *)
(* A rule pointer is the rule's 1-based position in rules_storage_, which  *)
(* is append-only, so positions are stable like the unique_ptr targets.    *)
(***************************************************************************)
EXTENDS Naturals, Sequences, FiniteSets

CONSTANTS
  Checkers,     \* threads calling check()
  Writers,      \* threads calling addRule()
  Domains,      \* domain strings (tuples of characters)
  Actions,      \* the Action values a rule may carry
  NULL,
  MaxRules,     \* bound on rules_storage_ (number of addRule calls)
  MaxChecks,    \* bound on check() calls
  MaxResets     \* bound on resetStats() calls

\* The Action enum of common.hpp.
ActionValues == {"Allow", "Block", "Redirect", "Log"}

ASSUME Actions \subseteq ActionValues

VARIABLES
  nodes, exact, wildcard, rule_count,   \* the trie (DomainTrie)
  storage,      \* rules_storage_: position -> Action of the stored rule
  counters,     \* the five atomic counters
  cpc,          \* checker -> "idle" | "match" | "count"
  cdom,         \* checker -> domain being checked
  crule,        \* checker -> rule pointer returned by match
  wpc,          \* writer -> "idle" | "insert"
  wrule,        \* writer -> [domain, ptr] of the rule being added
  rpc,          \* resetStats: number of stores done (0 when not running)
  checks, resets, \* calls made so far (bounded)
  raced         \* auxiliary: the last resetStats overlapped a check

trieVars == <<nodes, exact, wildcard, rule_count>>
vars == <<trieVars, storage, counters, cpc, cdom, crule, wpc, wrule, rpc,
          checks, resets, raced>>

Trie == INSTANCE DomainTrie WITH Rules <- 1..MaxRules, MaxRuleCount <- MaxRules

\* The order in which resetStats() stores zero (also getStats' field order).
CounterOrder == <<"total_checks", "allowed", "blocked", "redirected", "logged">>
CounterNames == {CounterOrder[i] : i \in 1..5}

\* The counter check() bumps for a match result (default: allowed_).
OutcomeCounter(r) ==
  IF r = NULL THEN "allowed"
  ELSE CASE storage[r] = "Block"    -> "blocked"
         [] storage[r] = "Redirect" -> "redirected"
         [] storage[r] = "Log"      -> "logged"
         [] OTHER                   -> "allowed"

Bump(c) == counters' = [counters EXCEPT ![c] = @ + 1]

\* A check sits between its two fetch_adds.
InFlight(t) == cpc[t] \in {"match", "count"}
ResetRunning == rpc # 0

\* Thread-local values of an idle thread.
NoDomain == <<>>
NoWork == [domain |-> NoDomain, ptr |-> 0]

Init ==
  /\ Trie!Init
  /\ storage = <<>>
  /\ counters = [c \in CounterNames |-> 0]
  /\ cpc = [t \in Checkers |-> "idle"]
  /\ cdom = [t \in Checkers |-> NoDomain]
  /\ crule = [t \in Checkers |-> NULL]
  /\ wpc = [w \in Writers |-> "idle"]
  /\ wrule = [w \in Writers |-> NoWork]
  /\ rpc = 0
  /\ checks = 0
  /\ resets = 0
  /\ raced = FALSE

-----------------------------------------------------------------------------
(* check()                                                                 *)

\* total_checks_.fetch_add(1)
CheckStart(t, d) ==
  /\ cpc[t] = "idle"
  /\ checks < MaxChecks
  /\ Bump("total_checks")
  /\ cpc' = [cpc EXCEPT ![t] = "match"]
  /\ cdom' = [cdom EXCEPT ![t] = d]
  /\ checks' = checks + 1
  /\ raced' = (raced \/ ResetRunning)
  /\ UNCHANGED <<trieVars, storage, crule, wpc, wrule, rpc, resets>>

\* rule = trie_.match(domain, domain_len)
CheckMatch(t) ==
  /\ cpc[t] = "match"
  /\ crule' = [crule EXCEPT ![t] = Trie!match(cdom[t])]
  /\ cpc' = [cpc EXCEPT ![t] = "count"]
  /\ UNCHANGED <<trieVars, storage, counters, cdom, wpc, wrule, rpc,
                 checks, resets, raced>>

\* The switch on rule->action and its fetch_add; return.
CheckCount(t) ==
  /\ cpc[t] = "count"
  /\ Bump(OutcomeCounter(crule[t]))
  /\ cpc' = [cpc EXCEPT ![t] = "idle"]
  /\ cdom' = [cdom EXCEPT ![t] = NoDomain]
  /\ crule' = [crule EXCEPT ![t] = NULL]
  /\ raced' = (raced \/ ResetRunning)
  /\ UNCHANGED <<trieVars, storage, wpc, wrule, rpc, checks, resets>>

-----------------------------------------------------------------------------
(* addRule()                                                               *)

\* Seeded fault for AddRulePush: the copy is never moved into
\* rules_storage_, so it dies with the unique_ptr at the end of addRule
\* while the trie keeps its address.
AddRulePush_notStored(w, a, d) ==
  /\ wpc[w] = "idle"
  /\ Len(storage) < MaxRules
  /\ UNCHANGED storage
  /\ wrule' = [wrule EXCEPT ![w] = [domain |-> d, ptr |-> Len(storage) + 1]]
  /\ wpc' = [wpc EXCEPT ![w] = "insert"]
  /\ UNCHANGED <<trieVars, counters, cpc, cdom, crule, rpc, checks, resets, raced>>

\* Seeded fault for AddRulePush: the pointer taken is the storage index
\* before the append (off by one).
AddRulePush_ptrBeforeAppend(w, a, d) ==
  /\ wpc[w] = "idle"
  /\ Len(storage) < MaxRules
  /\ storage' = Append(storage, a)
  /\ wrule' = [wrule EXCEPT ![w] = [domain |-> d, ptr |-> Len(storage)]]
  /\ wpc' = [wpc EXCEPT ![w] = "insert"]
  /\ UNCHANGED <<trieVars, counters, cpc, cdom, crule, rpc, checks, resets, raced>>

\* std::make_unique<Rule>(rule), then rules_storage_.push_back under
\* rules_mutex_; the copy's address is the pointer later inserted.
AddRulePush(w, a, d) ==
  /\ wpc[w] = "idle"
  /\ Len(storage) < MaxRules
  /\ storage' = Append(storage, a)
  /\ wrule' = [wrule EXCEPT ![w] = [domain |-> d, ptr |-> Len(storage) + 1]]
  /\ wpc' = [wpc EXCEPT ![w] = "insert"]
  /\ UNCHANGED <<trieVars, counters, cpc, cdom, crule, rpc, checks, resets, raced>>

\* trie_.insert(domain, domain_len, rule_ptr); an empty domain is ignored.
AddRuleInsert(w) ==
  /\ wpc[w] = "insert"
  /\ \/ Trie!insert(wrule[w].domain, wrule[w].ptr)
     \/ Len(wrule[w].domain) = 0 /\ UNCHANGED trieVars
  /\ wpc' = [wpc EXCEPT ![w] = "idle"]
  /\ wrule' = [wrule EXCEPT ![w] = NoWork]
  /\ UNCHANGED <<storage, counters, cpc, cdom, crule, rpc, checks, resets, raced>>

-----------------------------------------------------------------------------
(* resetStats()                                                            *)

\* Seeded fault for ResetStore: logged_ is never zeroed.
ResetStore_skipLogged ==
  /\ rpc # 0 \/ resets < MaxResets
  /\ counters' = IF CounterOrder[rpc + 1] = "logged" THEN counters
                  ELSE [counters EXCEPT ![CounterOrder[rpc + 1]] = 0]
  /\ rpc' = (rpc + 1) % 5
  /\ resets' = IF rpc = 0 THEN resets + 1 ELSE resets
  /\ raced' = ((rpc # 0 /\ raced) \/ \E t \in Checkers : InFlight(t))
  /\ UNCHANGED <<trieVars, storage, cpc, cdom, crule, wpc, wrule, checks>>

\* One relaxed store of zero, in source order; the first store starts a
\* new epoch for the auxiliary raced flag.
ResetStore ==
  /\ rpc # 0 \/ resets < MaxResets
  /\ counters' = [counters EXCEPT ![CounterOrder[rpc + 1]] = 0]
  /\ rpc' = (rpc + 1) % 5
  /\ resets' = IF rpc = 0 THEN resets + 1 ELSE resets
  /\ raced' = ((rpc # 0 /\ raced) \/ \E t \in Checkers : InFlight(t))
  /\ UNCHANGED <<trieVars, storage, cpc, cdom, crule, wpc, wrule, checks>>

-----------------------------------------------------------------------------

Next ==
  \/ \E t \in Checkers, d \in Domains : CheckStart(t, d)
  \/ \E t \in Checkers : CheckMatch(t) \/ CheckCount(t)
  \/ \E w \in Writers, a \in Actions, d \in Domains : AddRulePush(w, a, d)
  \/ \E w \in Writers : AddRuleInsert(w)
  \/ ResetStore

Spec == Init /\ [][Next]_vars

-----------------------------------------------------------------------------
(* Properties                                                              *)

TypeOK ==
  /\ Trie!TypeOK
  /\ storage \in Seq(Actions) /\ Len(storage) <= MaxRules
  /\ counters \in [CounterNames -> Nat]
  /\ cpc \in [Checkers -> {"idle", "match", "count"}]
  /\ crule \in [Checkers -> (1..MaxRules) \cup {NULL}]
  /\ wpc \in [Writers -> {"idle", "insert"}]
  /\ rpc \in 0..4
  /\ raced \in BOOLEAN

Quiescent == (\A t \in Checkers : cpc[t] = "idle") /\ ~ResetRunning

OutcomeSum ==
  counters["allowed"] + counters["blocked"] + counters["redirected"]
    + counters["logged"]

\* Once every check() and resetStats() has returned, total_checks_ equals
\* the sum of the outcome counters, unless the last resetStats() ran while
\* a check() was between its two fetch_adds.
CountersConsistentUnlessRaced ==
  Quiescent /\ ~raced => counters["total_checks"] = OutcomeSum

\* Once every check() and resetStats() has returned, total_checks_ equals
\* the sum of the outcome counters (the spec's "eventual consistency").
CountersConsistent ==
  Quiescent => counters["total_checks"] = OutcomeSum

\* Every rule pointer the trie holds, or a check() holds after releasing
\* the trie lock, designates a rule in rules_storage_ (no dangling
\* pointer, also when push_back throws).
RulesOwned ==
  LET held == {exact[p] : p \in nodes} \cup {wildcard[p] : p \in nodes}
                \cup {crule[t] : t \in Checkers}
  IN \A r \in held \ {NULL} : r \in 1..Len(storage)

-----------------------------------------------------------------------------
(* Refinement of AtomicFilter                                              *)

\* The Action of the rule a pointer designates in rules_storage_.
StoredAction(r) == IF r \in 1..Len(storage) THEN storage[r] ELSE "dangling"

\* The rule table the trie and rules_storage_ represent together.
AbsTable ==
  [k \in Trie!PathSpace \X BOOLEAN |->
     LET r == IF k[2] THEN wildcard[k[1]] ELSE exact[k[1]]
     IN IF r = NULL THEN "none" ELSE StoredAction(r)]

\* A check takes effect at trie_.match; its answer is the action of the
\* rule returned, Allow when none.
AbsPhase == [t \in Checkers |-> CASE cpc[t] = "idle"  -> "idle"
                                  [] cpc[t] = "match" -> "called"
                                  [] OTHER            -> "decided"]
AbsVerdict == [t \in Checkers |->
                 IF cpc[t] # "count" THEN "none"
                 ELSE IF crule[t] = NULL THEN "Allow" ELSE StoredAction(crule[t])]

AF == INSTANCE AtomicFilter
        WITH Paths <- Trie!PathSpace,
             WriteKey <- LAMBDA d : <<Trie!WritePath(d), Trie!IsWildcard(d)>>,
             ReadPath <- Trie!ReadPath,
             table <- AbsTable, phase <- AbsPhase, verdict <- AbsVerdict

\* FilterEngine implements AtomicFilter: with the counters hidden, every
\* behaviour of concurrent check() and addRule() calls is one in which
\* each check answers, at its trie_.match, with the action the spec's
\* precedence gives over the rules published so far, and answers it again
\* at its return (addRule's push_back publishes nothing, its
\* trie_.insert publishes exactly the rule it pushed).
ImplementsAtomicFilter == AF!Spec

=============================================================================
