--------------------------- MODULE SpendingPolicy ---------------------------
(***************************************************************************)
(* Spending policies of the wallet (descriptor/policy.rs) and the lock     *)
(* times that follow from them: a script becomes a tree of conditions, the *)
(* user picks a path through it, and what the path asks of nLockTime and   *)
(* nSequence is merged into one condition.                                 *)
(*                                                                         *)
(* A script is <<"pk", key>>, <<"after", n>>, <<"older", n>>, <<"hash">>,  *)
(* <<"true">>, <<"false">>, <<"multi", m, keys>>, <<"and", a, b>>,         *)
(* <<"or", a, b>>, <<"andor", a, b, c>> or <<"thresh", m, scripts>>; the   *)
(* wrappers of miniscript are left out.  nLockTime below                   *)
(* LOCK_TIME_THRESHOLD counts blocks, above it seconds.  nSequence has     *)
(* five bits: two of value, one without meaning, the type flag and the     *)
(* disable flag.  Options are sequences of length at most one.             *)
(***************************************************************************)
EXTENDS Integers, Sequences, FiniteSets, SequencesExt, FiniteSetsExt

LOCK_TIME_THRESHOLD == 4
is_same_unit(a, b) == (a < LOCK_TIME_THRESHOLD) = (b < LOCK_TIME_THRESHOLD)

ENABLE_RBF_NO_LOCKTIME == 29
ENABLE_LOCKTIME_NO_RBF == 30
SEQUENCE_MAX == 31
is_relative_lock_time(s) == s < 16
is_time_locked(s) == is_relative_lock_time(s) /\ s >= 8
is_rbf(s) == s < 30
MaskedValue(s) == s % 4

(***************************************************************************)
(* Conditions: wallet/utils.rs and Condition.                              *)
(***************************************************************************)
check_nsequence_rbf(rbf, csv) ==
  /\ is_relative_lock_time(rbf)
  /\ is_time_locked(rbf) = is_time_locked(csv)
  /\ rbf >= csv
After_check_after(height, n) == height >= n
Older_check_older(height, create_height, n) == height >= create_height + n

\* What a transaction says of itself, as the script interpreter and PsbtInputSatisfier read it.
TxAfter(tx, n) == tx.n_sequence # SEQUENCE_MAX /\ is_same_unit(tx.lock_time, n) /\ tx.lock_time >= n
TxOlder(tx, n) ==
  /\ tx.version >= 2 /\ is_relative_lock_time(tx.n_sequence)
  /\ is_time_locked(tx.n_sequence) = is_time_locked(n) /\ MaskedValue(tx.n_sequence) >= MaskedValue(n)

NoCondition == [csv |-> <<>>, timelock |-> <<>>]
is_null(c) == c = NoCondition
merge_nlocktime(a, b) == IF ~is_same_unit(a, b) THEN <<>> ELSE <<Max({a, b})>>
\* Mutant: the smaller of two relative lock times is kept.
merge_nsequenceMin(a, b) == IF is_time_locked(a) # is_time_locked(b) THEN <<>> ELSE <<Min({a, b})>>
merge_nsequence(a, b) == IF is_time_locked(a) # is_time_locked(b) THEN <<>> ELSE <<Max({a, b})>>
\* <<>> when the two conditions have no common unit.
merge(c, d) ==
  LET either(a, b, m) == IF a = <<>> THEN b ELSE IF b = <<>> THEN a ELSE m
      both(a, b) == a # <<>> /\ b # <<>>
      csv == IF both(c.csv, d.csv) THEN merge_nsequence(c.csv[1], d.csv[1]) ELSE <<>>
      lock == IF both(c.timelock, d.timelock) THEN merge_nlocktime(c.timelock[1], d.timelock[1]) ELSE <<>>
  IN IF (both(c.csv, d.csv) /\ csv = <<>>) \/ (both(c.timelock, d.timelock) /\ lock = <<>>) THEN <<>>
     ELSE <<[csv |-> either(c.csv, d.csv, csv), timelock |-> either(c.timelock, d.timelock, lock)]>>
MergeAll(conditions) ==
  FoldLeft(LAMBDA acc, c : IF acc = <<>> \/ c = <<>> THEN <<>> ELSE merge(acc[1], c[1]), <<NoCondition>>, conditions)

(***************************************************************************)
(* Satisfaction: how far the keys at hand, or the signatures of a PSBT,    *)
(* satisfy a node.                                                         *)
(***************************************************************************)
\* The position pushed with a longer choice is counted from the element after the previous one, so
\* from the third element on a choice may go back to an element it already has.
combinations(vec, size) ==
  LET RECURSIVE Grow(_, _)
      Grow(index, vals) ==
        IF Len(vals) >= size THEN {vals}
        ELSE UNION {Grow(j - index, Append(vals, vec[j])) : j \in index + 1 .. Len(vec)}
  IN UNION {Grow(i, <<vec[i]>>) : i \in 1 .. Len(vec)}
mix(sets) ==
  IF sets = <<>> THEN {}
  ELSE {s \in [1 .. Len(sets) -> UNION Range(sets)] : \A i \in 1 .. Len(sets) : s[i] \in sets[i]}

Unsatisfied == [kind |-> "None"]
Complete(condition) == [kind |-> "Complete", condition |-> condition]
Partial(n, m) == [kind |-> "Partial", n |-> n, m |-> m, items |-> <<>>, conditions |-> <<>>]
\* `items' holds positions from 0 and `conditions' the set of conditions of each of them.
add(s, inner, index) ==
  LET given == CASE inner.kind = "Complete" -> {inner.condition}
                 [] inner.kind = "PartialComplete" -> UNION Range(inner.conditions)
  IN IF inner.kind \in {"None", "Partial"} THEN s
     ELSE [s EXCEPT !.items = Append(@, index), !.conditions = Append(@, given)]
Folded(conditions) == {MergeAll([i \in DOMAIN c |-> <<c[i]>>]) : c \in mix(conditions)} \ {<<>>}
finalize(s) ==
  IF Len(s.items) < s.m THEN s
  ELSE LET of(i) == s.conditions[CHOOSE k \in DOMAIN s.items : s.items[k] = i]
           folded == [key \in combinations(s.items, s.m) |-> Folded([k \in DOMAIN key |-> of(key[k])])]
       IN [kind |-> "PartialComplete", n |-> s.n, m |-> s.m, items |-> s.items,
           conditions |-> [key \in {k \in DOMAIN folded : folded[k] # {}} |-> {c[1] : c \in folded[key]}]]
SatisfyAll(of, m) == finalize(FoldLeftDomain(LAMBDA s, i : add(s, of[i], i - 1), Partial(Len(of), m), of))

(***************************************************************************)
(* Policies.  A node is its own identifier (id() is a checksum of it).     *)
(* `build' says what a PSBT already has: the keys that signed every input  *)
(* and, when `timelocks' is set, the heights the locks are checked at.     *)
(***************************************************************************)
BuildNone == [signed |-> {}, timelocks |-> FALSE]
From(b) == IF b THEN Complete(NoCondition) ELSE Unsatisfied
make_generic_signature(key, signers, build) ==
  [item |-> "Signature", key |-> key, contribution |-> From(key \in signers), satisfaction |-> From(key \in build.signed)]
AbsoluteTimelock(n, build) ==
  LET done == Complete([NoCondition EXCEPT !.timelock = <<n>>])
  IN [item |-> "AbsoluteTimelock", value |-> n, contribution |-> done,
      satisfaction |-> IF build.timelocks /\ After_check_after(build.current_height, n) /\ TxAfter(build.tx, n)
                         THEN done ELSE Unsatisfied]
RelativeTimelock(n, build) ==
  LET done == Complete([NoCondition EXCEPT !.csv = <<n>>])
  IN [item |-> "RelativeTimelock", value |-> n, contribution |-> done,
      satisfaction |-> IF /\ build.timelocks /\ TxOlder(build.tx, n)
                          /\ Older_check_older(build.current_height, build.input_max_height, n)
                         THEN done ELSE Unsatisfied]
make_multisig(keys, signers, build, threshold) ==
  IF threshold = 0 THEN <<>>
  ELSE <<[item |-> "Multisig", keys |-> keys, threshold |-> threshold,
          contribution |-> SatisfyAll([i \in DOMAIN keys |-> From(keys[i] \in signers)], threshold),
          satisfaction |-> SatisfyAll([i \in DOMAIN keys |-> From(keys[i] \in build.signed)], threshold)]>>
make_thresh(items, threshold) ==
  IF threshold = 0 THEN <<>>
  ELSE <<[item |-> "Thresh", items |-> items, threshold |-> threshold,
          contribution |-> SatisfyAll([i \in DOMAIN items |-> items[i].contribution], threshold),
          satisfaction |-> SatisfyAll([i \in DOMAIN items |-> items[i].satisfaction], threshold)]>>
make_and(a, b) == IF a = <<>> THEN b ELSE IF b = <<>> THEN a ELSE make_thresh(a \o b, 2)
make_or(a, b) == IF a = <<>> THEN b ELSE IF b = <<>> THEN a ELSE make_thresh(a \o b, 1)

Parts(script) ==
  CASE script[1] \in {"and", "or", "andor"} -> Tail(script)
    [] script[1] = "thresh" -> script[3]
    [] OTHER -> <<>>
\* The policy of a script from the policies `of' of its parts, which may have none.
PolicyOf(script, of, signers, build) ==
  LET kind == script[1]
      mapped == FlattenSeq(of)
      dropped == Len(of) - Len(mapped)
  IN CASE kind \in {"true", "false"} -> <<>>
       [] kind = "pk" -> <<make_generic_signature(script[2], signers, build)>>
       [] kind = "after" -> <<AbsoluteTimelock(script[2], build)>>
       [] kind = "older" -> <<RelativeTimelock(script[2], build)>>
       [] kind = "hash" -> <<[item |-> "Preimage", contribution |-> Unsatisfied, satisfaction |-> Unsatisfied]>>
       [] kind = "multi" -> make_multisig(script[3], signers, build, script[2])
       [] kind = "and" -> make_and(of[1], of[2])
       [] kind = "or" -> make_or(of[1], of[2])
       [] kind = "andor" -> make_or(make_and(of[1], of[2]), of[3])
       [] kind = "thresh" -> IF dropped > script[2] THEN <<>> ELSE make_thresh(mapped, script[2] - dropped)
RECURSIVE extract_policy(_, _, _)
extract_policy(script, signers, build) ==
  PolicyOf(script, [i \in DOMAIN Parts(script) |-> extract_policy(Parts(script)[i], signers, build)], signers, build)

\* A descriptor is a script in a context, or a taproot key with a script for every leaf.
Descriptor_extract_policy(d, signers, build) ==
  IF d.context # "Tap" THEN extract_policy(d.script, signers, build)
  ELSE LET key_spend_sig == make_generic_signature(d.internal_key, signers, build)
           leaves == FlattenSeq([i \in DOMAIN d.leaves |-> extract_policy(d.leaves[i], signers, build)])
       IN IF d.leaves = <<>> THEN <<key_spend_sig>> ELSE make_thresh(<<key_spend_sig>> \o leaves, 1)

(***************************************************************************)
(* The condition of a path: a function from nodes to sets of positions.    *)
(* The result is <<>> for an error.                                        *)
(***************************************************************************)
RECURSIVE get_condition(_, _)
get_condition(p, path) ==
  LET size == CASE p.item = "Thresh" -> Len(p.items) [] p.item = "Multisig" -> Len(p.keys) [] OTHER -> 0
      default == IF p.item = "Multisig" \/ (p.item = "Thresh" /\ size = p.threshold) THEN 0 .. size - 1 ELSE {}
      selected == IF p \in DOMAIN path THEN path[p] ELSE default
      enough == Cardinality(selected) >= p.threshold /\ selected \subseteq 0 .. size - 1
  IN CASE p.item = "Thresh" ->
            LET mapped_req == [i \in 1 .. size |-> get_condition(p.items[i], path)]
            IN IF \A i \in 1 .. size : mapped_req[i] # <<>> /\ is_null(mapped_req[i][1]) THEN <<NoCondition>>
               ELSE IF enough THEN MergeAll([i \in 1 .. size |-> IF i - 1 \in selected THEN mapped_req[i] ELSE <<NoCondition>>])
                    ELSE <<>>
       [] p.item = "Multisig" -> IF enough THEN <<NoCondition>> ELSE <<>>
       [] p.item = "AbsoluteTimelock" -> <<[NoCondition EXCEPT !.timelock = <<p.value>>]>>
       [] p.item = "RelativeTimelock" -> <<[NoCondition EXCEPT !.csv = <<p.value>>]>>
       [] OTHER -> <<NoCondition>>
requires_path(p) == get_condition(p, <<>>) = <<>>

(***************************************************************************)
(* The script interpreter: what satisfies a script.  The preimage of a     *)
(* hash is kept with the keys.                                             *)
(***************************************************************************)
Preimage == 0
RECURSIVE Satisfied(_, _, _, _)
Satisfied(script, keys, after, older) ==
  LET by(s) == Satisfied(s, keys, after, older)
      kind == script[1]
  IN CASE kind = "true" -> TRUE
       [] kind = "false" -> FALSE
       [] kind = "hash" -> Preimage \in keys
       [] kind = "pk" -> script[2] \in keys
       [] kind = "after" -> script[2] \in after
       [] kind = "older" -> script[2] \in older
       [] kind = "multi" -> Cardinality({k \in Range(script[3]) : k \in keys}) >= script[2]
       [] kind = "and" -> by(script[2]) /\ by(script[3])
       [] kind = "or" -> by(script[2]) \/ by(script[3])
       [] kind = "andor" -> (by(script[2]) /\ by(script[3])) \/ by(script[4])
       [] kind = "thresh" -> Cardinality({i \in DOMAIN script[3] : by(script[3][i])}) >= script[2]
=============================================================================
