----------------------------- MODULE DomainTrie -----------------------------
(***************************************************************************)
(* The rule index of src/cpp/src/domain_trie.cpp: a trie keyed by the      *)
(* reversed, lowercased labels of a domain, whose nodes carry an           *)
(* exact_rule and a wildcard_rule pointer, plus the rule_count_ that       *)
(* size() reports.                                                          *)
(*                                                                         *)
(* Every public operation runs under the trie's shared_mutex (exclusive    *)
(* for insert/remove/clear, shared for match/size), so each one is a       *)
(* single atomic step here.  match and size change no state: they are      *)
(* operators, used by the properties and by FilterEngine.                  *)
(*                                                                         *)
(* A domain is a tuple of one-character strings, so that the               *)
(* normalisation (tolower, the "*." prefix, splitting on '.', dropping     *)
(* empty labels, reversing) is modelled by what it does.  A node is        *)
(* identified by its label path from the root; the root is <<>>.           *)
(***************************************************************************)
EXTENDS Naturals, Sequences, SequencesExt, FiniteSets

CONSTANTS
  Domains,      \* domain strings callers pass in (tuples of characters)
  Rules,        \* rule pointers (model values)
  NULL,         \* the null rule pointer
  MaxRuleCount  \* bound on rule_count_, which overwrites make unbounded

ASSUME NULL \notin Rules
ASSUME MaxRuleCount \in Nat

VARIABLES
  nodes,       \* label paths of the TrieNodes that exist
  exact,       \* path -> exact_rule
  wildcard,    \* path -> wildcard_rule
  rule_count   \* rule_count_

vars == <<nodes, exact, wildcard, rule_count>>

-----------------------------------------------------------------------------
(* Normalisation                                                           *)

\* ::tolower on the characters the models use.
UpperToLower == [c \in {"A", "B", "C"} |->
                   CASE c = "A" -> "a" [] c = "B" -> "b" [] c = "C" -> "c"]
tolower(c) == IF c \in DOMAIN UpperToLower THEN UpperToLower[c] ELSE c
Lowercase(s) == [i \in DOMAIN s |-> tolower(s[i])]

\* The wildcard test shared by insert and remove: "*." and at least one
\* more character.
IsWildcard(d) == Len(d) > 2 /\ d[1] = "*" /\ d[2] = "."
StripWildcard(d) == IF IsWildcard(d) THEN SubSeq(d, 3, Len(d)) ELSE d

\* splitAndReverse: split on '.', drop empty labels, reverse.
splitAndReverse(s) ==
  LET step(acc, c) ==
        IF c = "."
        THEN IF acc.current = <<>> THEN acc
             ELSE [labels |-> Append(acc.labels, acc.current), current |-> <<>>]
        ELSE [acc EXCEPT !.current = Append(@, c)]
      last == FoldLeft(step, [labels |-> <<>>, current |-> <<>>], s)
      labels == IF last.current = <<>> THEN last.labels
                ELSE Append(last.labels, last.current)
  IN Reverse(labels)

\* The trie path insert and remove use for d, and the one match uses
\* (match does not strip "*.").
WritePath(d) == splitAndReverse(Lowercase(StripWildcard(d)))
ReadPath(d) == splitAndReverse(Lowercase(d))

\* Every node any operation on Domains can reach.
PathSpace == UNION {Prefixes(WritePath(d)) \cup Prefixes(ReadPath(d)) : d \in Domains}

-----------------------------------------------------------------------------
(* Lookup                                                                  *)

\* Seeded fault for matchImpl: the final node's wildcard is preferred to
\* its exact rule.
matchImpl_wildcardFirst(labels) ==
  LET RECURSIVE walk(_, _)
      walk(node, matched) ==
        IF Len(node) = Len(labels)
        THEN IF wildcard[node] # NULL THEN wildcard[node]
             ELSE IF exact[node] # NULL THEN exact[node]
             ELSE matched
        ELSE LET m     == IF wildcard[node] # NULL THEN wildcard[node] ELSE matched
                 child == Append(node, labels[Len(node) + 1])
             IN IF child \notin nodes THEN m ELSE walk(child, m)
  IN walk(<<>>, NULL)

\* matchImpl: walk the labels from the root, remembering the last
\* wildcard_rule seen on the way; a missing child returns that wildcard;
\* at the end exact beats the node's own wildcard beats the remembered one.
matchImpl(labels) ==
  LET RECURSIVE walk(_, _)
      walk(node, matched) ==
        IF Len(node) = Len(labels)
        THEN IF exact[node] # NULL THEN exact[node]
             ELSE IF wildcard[node] # NULL THEN wildcard[node]
             ELSE matched
        ELSE LET m     == IF wildcard[node] # NULL THEN wildcard[node] ELSE matched
                 child == Append(node, labels[Len(node) + 1])
             IN IF child \notin nodes THEN m ELSE walk(child, m)
  IN walk(<<>>, NULL)

\* match: an empty domain matches nothing.
match(d) == IF Len(d) = 0 THEN NULL ELSE matchImpl(ReadPath(d))

\* size
size == rule_count

-----------------------------------------------------------------------------
(* Operations                                                              *)

Init ==
  /\ nodes = {<<>>}
  /\ exact = [p \in PathSpace |-> NULL]
  /\ wildcard = [p \in PathSpace |-> NULL]
  /\ rule_count = 0

\* insertImpl: create the missing nodes along the path, then set the slot.
insertImpl(labels, is_wildcard, rule) ==
  /\ nodes' = nodes \cup Prefixes(labels)
  /\ IF is_wildcard
     THEN /\ wildcard' = [wildcard EXCEPT ![labels] = rule]
          /\ UNCHANGED exact
     ELSE /\ exact' = [exact EXCEPT ![labels] = rule]
          /\ UNCHANGED wildcard

\* Seeded fault for insert: rule_count_ counted only when the path's node
\* is new (forgetting that remove leaves nodes behind).
insert_countNewNodes(d, rule) ==
  /\ Len(d) # 0
  /\ rule_count < MaxRuleCount
  /\ insertImpl(WritePath(d), IsWildcard(d), rule)
  /\ rule_count' = IF WritePath(d) \in nodes THEN rule_count ELSE rule_count + 1

\* insert: rule_count_ is incremented whether or not the slot was empty.
insert(d, rule) ==
  /\ Len(d) # 0
  /\ rule_count < MaxRuleCount
  /\ insertImpl(WritePath(d), IsWildcard(d), rule)
  /\ rule_count' = rule_count + 1

\* Seeded fault for remove: the slot is cleared and the count decremented
\* without testing that the slot held a rule.
remove_noSlotCheck(d) ==
  LET labels == WritePath(d)
  IN /\ Len(d) # 0
     /\ labels \in nodes
     /\ IF IsWildcard(d)
        THEN /\ wildcard' = [wildcard EXCEPT ![labels] = NULL]
             /\ UNCHANGED exact
        ELSE /\ exact' = [exact EXCEPT ![labels] = NULL]
             /\ UNCHANGED wildcard
     /\ rule_count' = rule_count - 1
     /\ UNCHANGED nodes

\* remove: walk to the node (absent -> false), then clear the slot of the
\* requested kind if it holds a rule.  Nodes are never deleted.
remove(d) ==
  LET labels == WritePath(d)
      slot   == IF IsWildcard(d) THEN wildcard ELSE exact
  IN /\ Len(d) # 0
     /\ labels \in nodes
     /\ slot[labels] # NULL
     /\ IF IsWildcard(d)
        THEN /\ wildcard' = [wildcard EXCEPT ![labels] = NULL]
             /\ UNCHANGED exact
        ELSE /\ exact' = [exact EXCEPT ![labels] = NULL]
             /\ UNCHANGED wildcard
     /\ rule_count' = rule_count - 1
     /\ UNCHANGED nodes

\* clear: a fresh root and a zero count (the trie's own rules_storage_ is
\* never filled by insert, so clearing it changes nothing modelled).
clear ==
  /\ nodes' = {<<>>}
  /\ exact' = [p \in PathSpace |-> NULL]
  /\ wildcard' = [p \in PathSpace |-> NULL]
  /\ rule_count' = 0

Next ==
  \/ \E d \in Domains, r \in Rules : insert(d, r)
  \/ \E d \in Domains : remove(d)
  \/ clear

Spec == Init /\ [][Next]_vars

-----------------------------------------------------------------------------
(* Properties                                                              *)

TypeOK ==
  /\ <<>> \in nodes
  /\ nodes \subseteq PathSpace
  /\ exact \in [PathSpace -> Rules \cup {NULL}]
  /\ wildcard \in [PathSpace -> Rules \cup {NULL}]
  /\ rule_count \in 0..MaxRuleCount

\* The rule slots that hold a rule, as <<kind, path>> pairs.
StoredRules ==
  {<<"exact", p>> : p \in {q \in PathSpace : exact[q] # NULL}}
    \cup {<<"wildcard", p>> : p \in {q \in PathSpace : wildcard[q] # NULL}}

\* The lookup the spec (section 4.3) describes, stated over the slots
\* alone: the exact rule of the whole name, else the wildcard of the
\* longest non-empty label-boundary suffix of the name that has one.
SpecMatch(d) ==
  LET path  == ReadPath(d)
      wilds == {p \in Prefixes(path) : p # <<>> /\ wildcard[p] # NULL}
  IN IF path = <<>> THEN NULL
     ELSE IF exact[path] # NULL THEN exact[path]
     ELSE IF wilds = {} THEN NULL
     ELSE wildcard[CHOOSE p \in wilds : \A q \in wilds : Len(q) <= Len(p)]

\* matchImpl walks nodes that remove() leaves behind and returns early on a
\* missing child; after any sequence of inserts, removes and clears, the
\* walk must agree for every domain with the declarative precedence rule
\* (exact over the deepest wildcard, no leak to siblings, nothing from an
\* empty name).
MatchIsSpecified == \A d \in Domains : match(d) = SpecMatch(d)

\* size() never under-reports: rule_count_ is decremented only when remove
\* clears a slot that held a rule, so it never drops below the number of
\* rules stored (and the size_t never wraps).
SizeCoversRules == rule_count >= Cardinality(StoredRules)

\* size() is the number of rules the trie holds.
SizeCountsRules == rule_count = Cardinality(StoredRules)

=============================================================================
