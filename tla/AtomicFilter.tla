---------------------------- MODULE AtomicFilter ----------------------------
(***************************************************************************)
(* What the filter engine promises (spec 4.3, 4.4), with check() taking    *)
(* effect in one step between its call and its return.  A rule added for  *)
(* domain d is filed under the key WriteKey(d) = <<path, is_wildcard>>;    *)
(* a check of d answers, at one instant, with the exact rule of its path,  *)
(* else the wildcard rule of the longest prefix of its path that has one,  *)
(* else Allow.  The counters are left out: they are diagnostics.           *)
(***************************************************************************)
EXTENDS Naturals, Sequences, SequencesExt

CONSTANTS
  Checkers, Domains, Actions,
  Paths,        \* the label paths keys are made of
  WriteKey(_),  \* domain -> <<path, is_wildcard>> it is filed under
  ReadPath(_),  \* domain -> path a lookup walks
  NoDomain      \* the domain of an idle checker

VARIABLES
  table,        \* key -> Action of the rule filed there, or "none"
  phase,        \* checker -> "idle" | "called" | "decided"
  cdom,         \* checker -> domain of its call
  verdict       \* checker -> the decided Action, or "none"

avars == <<table, phase, cdom, verdict>>

Keys == Paths \X BOOLEAN

\* The answer for d in table t.
Lookup(t, d) ==
  LET p     == ReadPath(d)
      wilds == {q \in Prefixes(p) \cap Paths : t[<<q, TRUE>>] # "none"}
      deep  == CHOOSE q \in wilds : \A o \in wilds : Len(o) <= Len(q)
  IN IF Len(d) = 0 THEN "Allow"
     ELSE IF t[<<p, FALSE>>] # "none" THEN t[<<p, FALSE>>]
     ELSE IF wilds # {} THEN t[<<deep, TRUE>>]
     ELSE "Allow"

Init ==
  /\ table = [k \in Keys |-> "none"]
  /\ phase = [c \in Checkers |-> "idle"]
  /\ cdom = [c \in Checkers |-> NoDomain]
  /\ verdict = [c \in Checkers |-> "none"]

Call(c, d) ==
  /\ phase[c] = "idle"
  /\ phase' = [phase EXCEPT ![c] = "called"]
  /\ cdom' = [cdom EXCEPT ![c] = d]
  /\ UNCHANGED <<table, verdict>>

\* The instant the check takes effect.
Decide(c) ==
  /\ phase[c] = "called"
  /\ phase' = [phase EXCEPT ![c] = "decided"]
  /\ verdict' = [verdict EXCEPT ![c] = Lookup(table, cdom[c])]
  /\ UNCHANGED <<table, cdom>>

Return(c) ==
  /\ phase[c] = "decided"
  /\ phase' = [phase EXCEPT ![c] = "idle"]
  /\ cdom' = [cdom EXCEPT ![c] = NoDomain]
  /\ verdict' = [verdict EXCEPT ![c] = "none"]
  /\ UNCHANGED table

\* add_rule: the rule replaces whatever its key held; an empty domain is
\* ignored.
AddRule(d, a) ==
  /\ Len(d) # 0
  /\ table' = [table EXCEPT ![WriteKey(d)] = a]
  /\ UNCHANGED <<phase, cdom, verdict>>

Next ==
  \/ \E c \in Checkers : \/ \E d \in Domains : Call(c, d)
                         \/ Decide(c) \/ Return(c)
  \/ \E d \in Domains, a \in Actions : AddRule(d, a)

Spec == Init /\ [][Next]_avars

=============================================================================
