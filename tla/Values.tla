------------------------------- MODULE Values -------------------------------
(***************************************************************************)
(* Runtime values (runtime/value.rs), the evaluation of expressions        *)
(* (runtime/eval.rs), asserts (runtime/assert.rs) and the command-line     *)
(* values of args_actor (actor_type/args_actor/runtime.rs).                *)
(*                                                                         *)
(* A text is a sequence of characters, each a number: 0 to 9 are the       *)
(* digits, Colon is ':', True and False are the two words, anything above  *)
(* is another character.  A value is a record of its type, its text or     *)
(* number (v), its elements (items) and, for a dict, its keys in order.    *)
(* Floats, bytes, signs and regular expressions are left out.              *)
(***************************************************************************)
EXTENDS Integers, SequencesExt

CONSTANT I64Max   \* the largest number

ASSUME ValuesAssumption == I64Max \in Nat

Colon == 10
True == 11
False == 12

Val(t, v) == [t |-> t, v |-> v, items |-> <<>>, keys |-> <<>>]
Str(s) == Val("string", s)
Num(n) == Val("number", <<n>>)
Bool(b) == Val("bool", <<b>>)
Atom(a) == Val("atom", a)
Null == Val("null", <<>>)
Array(items) == [t |-> "array", v |-> <<>>, items |-> items, keys |-> <<>>]
Dict(keys, items) == [t |-> "dict", v |-> <<>>, items |-> items, keys |-> keys]

\* The Err of a Result.
Err == Val("error", <<>>)

\* PartialEq: the order of a dict's fields does not count.
Equal(a, b) ==
    \/ a = b
    \/ /\ a.t = "dict" /\ b.t = "dict" /\ Len(a.keys) = Len(b.keys)
       /\ \A i \in DOMAIN a.keys : \E j \in DOMAIN b.keys :
              a.keys[i] = b.keys[j] /\ a.items[i] = b.items[j]

-----------------------------------------------------------------------------
(* args_actor.                                                             *)

Decimal(raw) == FoldLeft(LAMBDA acc, c : 10 * acc + c, 0, raw)

\* raw.parse::<i64>(): digits only, and the number fits.
ParseNumber(raw) ==
    IF raw # <<>> /\ (\A i \in DOMAIN raw : raw[i] \in 0..9) /\ Decimal(raw) \in 0..I64Max
    THEN Num(Decimal(raw)) ELSE Err

\* Mutant: what is no number stays a string.
CoerceLeniently(raw, target) ==
    CASE target.t = "number" /\ ParseNumber(raw) # Err -> ParseNumber(raw)
      [] target.t = "bool" /\ raw = <<True>> -> Bool(1)
      [] target.t = "bool" /\ raw = <<False>> -> Bool(0)
      [] target.t = "atom" -> Atom(IF raw # <<>> /\ Head(raw) = Colon THEN Tail(raw) ELSE raw)
      [] OTHER -> Str(raw)

\* The default fixes the type of the value.
coerce_to(raw, target) ==
    CASE target.t = "string" -> Str(raw)
      [] target.t = "number" -> ParseNumber(raw)
      [] target.t = "bool" /\ raw = <<True>> -> Bool(1)
      [] target.t = "bool" /\ raw = <<False>> -> Bool(0)
      [] target.t = "atom" -> Atom(IF raw # <<>> /\ Head(raw) = Colon THEN Tail(raw) ELSE raw)
      [] OTHER -> Err

NoDefault == Val("none", <<>>)

\* The value of a declared variable, with the command-line text or without it.
MemberValue(default, k, cli) ==
    IF k \in DOMAIN cli
    THEN IF default = NoDefault THEN Str(cli[k]) ELSE coerce_to(cli[k], default)
    ELSE IF default = NoDefault THEN Err ELSE default

Members(vars, cli) == [k \in DOMAIN vars |-> MemberValue(vars[k], k, cli)]

\* ArgsActorInstance::construct fails on a key that no variable has, on a value that
\* does not parse and on a variable without a value.
ArgsConstructible(vars, cli) ==
    /\ DOMAIN cli \subseteq DOMAIN vars
    /\ \A k \in DOMAIN vars : Members(vars, cli)[k] # Err

-----------------------------------------------------------------------------
(* eval, for the expressions an assert is about: a literal, a member of      *)
(* self, or an element of it.                                                *)

index_into(c, i) ==
    CASE c.t \in {"array", "dict"} /\ i.t = "number" ->
             IF i.v[1] + 1 \in DOMAIN c.items THEN c.items[i.v[1] + 1] ELSE Err
      [] c.t = "dict" /\ i.t = "string" ->
             IF Contains(c.keys, i.v) THEN c.items[SelectInSeq(c.keys, LAMBDA k : k = i.v)] ELSE Err
      [] OTHER -> Err

\* e.index is the sequence of indices; a failure ends the evaluation.
eval(e, members) ==
    LET root == IF e.member \notin DOMAIN members THEN Err ELSE members[e.member]
        at[i \in 0..Len(e.index)] ==
            IF i = 0 THEN root
            ELSE IF at[i - 1] = Err THEN Err ELSE index_into(at[i - 1], e.index[i])
    IN  IF e.member = "" THEN e.lit ELSE at[Len(e.index)]

-----------------------------------------------------------------------------
(* eval_assert.  Results are "true", "false" and "error".                   *)

Truth(b) == IF b THEN "true" ELSE "false"
Negated(r) == IF r = "error" THEN "error" ELSE Truth(r = "false")

is_truthy(v) ==
    CASE v.t \in {"bool", "number"} -> v.v[1] # 0
      [] v.t = "string" -> v.v # <<>>
      [] v.t \in {"array", "dict"} -> v.items # <<>>
      [] OTHER -> v.t = "atom"

\* Texts in the order of their bytes, a prefix before what it starts.
CompareText(x, y) ==
    LET Differ == {i \in 1..Min({Len(x), Len(y)}) : x[i] # y[i]}
        i == Min(Differ)
    IN  IF Differ = {} THEN Len(x) - Len(y) ELSE x[i] - y[i]

Orderable(a, b) == a.t = b.t /\ a.t \in {"number", "string"}
compare_ord(a, b) == IF a.t = "number" THEN a.v[1] - b.v[1] ELSE CompareText(a.v, b.v)

IsInfix(n, h) == \E i \in 0..(Len(h) - Len(n)) : SubSeq(h, i + 1, i + Len(n)) = n

contains(h, n) ==
    CASE h.t = "string" /\ n.t = "string" -> Truth(IsInfix(n.v, h.v))
      [] h.t = "array" -> Truth(\E i \in DOMAIN h.items : Equal(h.items[i], n))
      [] OTHER -> "error"

Ops == {"bare", "==", "!=", "<", "<=", ">", ">=", "contains", "!contains"}

\* Mutant: >= is strict.
OrderedStrict(l, r, op) ==
    CASE ~Orderable(l, r) -> "error"
      [] Orderable(l, r) /\ op = "<" -> Truth(compare_ord(l, r) < 0)
      [] Orderable(l, r) /\ op = "<=" -> Truth(compare_ord(l, r) <= 0)
      [] OTHER -> Truth(compare_ord(l, r) > 0)

Ordered(l, r, op) ==
    CASE ~Orderable(l, r) -> "error"
      [] Orderable(l, r) /\ op = "<" -> Truth(compare_ord(l, r) < 0)
      [] Orderable(l, r) /\ op = "<=" -> Truth(compare_ord(l, r) <= 0)
      [] Orderable(l, r) /\ op = ">" -> Truth(compare_ord(l, r) > 0)
      [] Orderable(l, r) /\ op = ">=" -> Truth(compare_ord(l, r) >= 0)

compare(l, r, op) ==
    CASE op = "==" -> Truth(Equal(l, r))
      [] op = "!=" -> Truth(~Equal(l, r))
      [] op = "contains" -> contains(l, r)
      [] op = "!contains" -> Negated(contains(l, r))
      [] OTHER -> Ordered(l, r, op)

eval_assert(a, members) ==
    LET l == eval(a.left, members)
        r == eval(a.right, members)
    IN  CASE l = Err -> "error"
          [] l # Err /\ a.op = "bare" -> Truth(is_truthy(l))
          [] OTHER -> IF r = Err THEN "error" ELSE compare(l, r, a.op)
=============================================================================
