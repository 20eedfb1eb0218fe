--------------------------- MODULE FrontEndProofs ---------------------------
(***************************************************************************)
(* Proofs about FrontEnd, for every text: any number of lines, at any      *)
(* column, and any size of the indentation stack above the nesting of the  *)
(* grammar.                                                                *)
(***************************************************************************)
EXTENDS FrontEnd, SequenceTheorems, WellFoundedInduction, TLAPS

-----------------------------------------------------------------------------
(* Smallest and greatest numbers.                                          *)

LEMMA Smallest ==
    ASSUME NEW T \in SUBSET Nat, T # {}
    PROVE  \E x \in T : \A y \in T : x <= y
<1> DEFINE R == OpToRel(<, Nat)
<1>1. IsWellFoundedOn(R, Nat)
  BY NatLessThanWellFounded, Zenon
<1>2. PICK x \in T : \A y \in T : ~(<<y, x>> \in R)
  BY <1>1, WFMin, Zenon
<1>3. \A y \in T : y < x => <<y, x>> \in R
  BY Zenon DEF OpToRel
<1> HIDE DEF R
<1>4. \A y \in T : ~(y < x)
  BY <1>2, <1>3
<1> QED
  BY <1>4

LEMMA Greatest ==
    ASSUME NEW m \in Nat, NEW T \in SUBSET (0..m), T # {}
    PROVE  Max(T) \in T /\ \A y \in T : y <= Max(T)
<1> DEFINE U == {k \in Nat : \E x \in T : k = m - x}
<1>1. U \in SUBSET Nat /\ U # {}
  <2>1. PICK x \in T : TRUE
    OBVIOUS
  <2>2. m - x \in U
    BY <2>1
  <2> QED
    BY <2>2
<1>2. PICK k \in U : \A y \in U : k <= y
  <2> HIDE DEF U
  <2> QED
    BY <1>1, Smallest
<1>3. PICK x \in T : k = m - x
  BY <1>2
<1>4. \A y \in T : x >= y
  <2> SUFFICES ASSUME NEW y \in T PROVE x >= y
    OBVIOUS
  <2>1. m - y \in U
    OBVIOUS
  <2>2. k <= m - y
    BY <1>2, <2>1
  <2> QED
    BY <1>3, <2>2
<1>5. \E z \in T : \A y \in T : z >= y
  BY <1>4
<1>6. Max(T) \in T /\ \A y \in T : Max(T) >= y
  BY <1>5, Zenon DEF Max
<1> QED
  BY <1>6

-----------------------------------------------------------------------------
(* The scanner between two calls.                                          *)

Scanners == [stack : Seq(Columns), pending_dedents : 0..MaxDepth, pending_newline : BOOLEAN]

Sorted(q) == \A i \in 1..(Len(q) - 1) : q[i] < q[i + 1]

Good(s) == s \in Scanners /\ s.stack # <<>> /\ s.stack[1] = 0 /\ Sorted(s.stack)

\* What serialize writes, deserialize reads: two bytes are enough for every column and
\* one for the levels to be closed.
LEMMA RoundTrip ==
    ASSUME NEW s \in Scanners
    PROVE  deserialize(serialize(s)) = s
<1> DEFINE q == s.stack
           b == serialize(s)
<1>1. q \in Seq(Columns) /\ s.pending_dedents \in 0..MaxDepth
      /\ s = [stack |-> q, pending_dedents |-> s.pending_dedents, pending_newline |-> s.pending_newline]
  BY DEF Scanners
<1>2. b.lo = [i \in DOMAIN q |-> q[i] % 256] /\ b.hi = [i \in DOMAIN q |-> (q[i] \div 256) % 256]
      /\ b.dedents = s.pending_dedents % 256 /\ b.newline = s.pending_newline
  BY DEF serialize
<1>3. \A x \in Columns : (x % 256) + 256 * ((x \div 256) % 256) = x
  BY DEF Columns
<1>4. s.pending_dedents % 256 = s.pending_dedents
  BY <1>1 DEF MaxDepth
<1>5. [i \in DOMAIN b.lo |-> b.lo[i] + 256 * b.hi[i]] = q
  <2>1. DOMAIN b.lo = DOMAIN q /\ \A i \in DOMAIN q : b.lo[i] + 256 * b.hi[i] = q[i]
    BY <1>1, <1>2, <1>3
  <2>2. q = [i \in DOMAIN q |-> q[i]]
    BY <1>1
  <2> QED
    BY <2>1, <2>2
<1> HIDE DEF q, b
<1>6. deserialize(b) = [stack |-> q, pending_dedents |-> s.pending_dedents,
                        pending_newline |-> s.pending_newline]
  BY <1>2, <1>4, <1>5 DEF deserialize
<1> QED
  BY <1>1, <1>6 DEF b

\* The scanner and the parser agree, in every position p of the grammar at depth d.
Fits(s, p, d) ==
    /\ Good(s) /\ d \in 0..MaxDepth /\ p \in {"top", "opened", "want", "item"}
    /\ d = Len(s.stack) - 1 + s.pending_dedents
    /\ p # "item" => s.pending_dedents = 0
    /\ p = "top" <=> d = 0 /\ p # "opened"
    /\ p = "opened" => d < MaxDepth

\* Where Shift leads to.
After(tok, d) ==
    CASE tok = "INDENT" -> <<"want", d + 1>>
      [] tok = "DEDENT" -> <<IF d = 1 THEN "top" ELSE "item", d - 1>>
      [] OTHER -> <<IF d = 0 THEN "top" ELSE "want", d>>

Fit(r, d) == Fits(r.s, After(r.tok, d)[1], After(r.tok, d)[2])

LEMMA StackTyped ==
    ASSUME NEW s, Good(s)
    PROVE  /\ s.stack \in Seq(Columns) /\ Len(s.stack) \in Nat /\ Len(s.stack) >= 1
           /\ s.pending_dedents \in 0..MaxDepth /\ Top(s) \in Columns
           /\ s.stack[1] = 0 /\ 1 \in DOMAIN s.stack
           /\ \A i \in DOMAIN s.stack : s.stack[i] \in Columns
           /\ Sorted(s.stack)
<1>1. s.stack \in Seq(Columns) /\ s.stack # <<>> /\ s.pending_dedents \in 0..MaxDepth
  BY DEF Good, Scanners
<1>2. Len(s.stack) \in Nat /\ Len(s.stack) >= 1 /\ 1 \in DOMAIN s.stack /\ Len(s.stack) \in DOMAIN s.stack
      /\ \A i \in DOMAIN s.stack : s.stack[i] \in Columns
  BY <1>1
<1> QED
  BY <1>1, <1>2 DEF Good, Top

\* A prefix of a good stack is one.
LEMMA StackPrefix ==
    ASSUME NEW s, Good(s), NEW n \in 1..Len(s.stack), NEW e \in 0..MaxDepth, NEW f \in BOOLEAN,
           NEW q, q = SubSeq(s.stack, 1, n)
    PROVE  /\ Good([stack |-> q, pending_dedents |-> e, pending_newline |-> f])
           /\ Len(q) = n
<1>1. s.stack \in Seq(Columns) /\ s.stack[1] = 0 /\ Sorted(s.stack) /\ Len(s.stack) \in Nat
  BY StackTyped
<1>2. q \in Seq(Columns) /\ Len(q) = n /\ q # <<>> /\ \A i \in 1..n : q[i] = s.stack[i]
  <2>1. PICK k \in Seq(Columns) : k = s.stack
    BY <1>1
  <2>2. n \in 1..Len(k) /\ q = SubSeq(k, 1, n)
    BY <2>1
  <2>3. q \in Seq(Columns) /\ Len(q) = n /\ \A i \in 1..n : q[i] = k[i]
    BY <2>2
  <2>4. q # <<>>
    BY <2>2, <2>3
  <2> QED
    BY <2>1, <2>3, <2>4
<1>3. Sorted(q)
  BY <1>1, <1>2 DEF Sorted
<1>4. q[1] = 0
  BY <1>1, <1>2
<1> DEFINE r == [stack |-> q, pending_dedents |-> e, pending_newline |-> f]
<1>5. r.stack = q /\ r \in Scanners
  BY <1>2 DEF Scanners
<1> HIDE DEF r
<1>6. Good(r)
  BY <1>2, <1>3, <1>4, <1>5 DEF Good
<1> QED
  BY <1>2, <1>6 DEF r

\* The INDENT of a deeper line always finds room on the stack.
LEMMA IndentFits ==
    ASSUME NEW s, NEW d, Fits(s, "opened", d), NEW indent \in Columns, indent > Top(s)
    PROVE  Fit(ScanIndent(s, indent), d)
<1>1. /\ s.stack \in Seq(Columns) /\ Len(s.stack) \in Nat /\ Len(s.stack) >= 1
      /\ s.stack[1] = 0 /\ Sorted(s.stack) /\ s.pending_dedents = 0 /\ d = Len(s.stack) - 1
      /\ d \in 0..MaxDepth /\ d < MaxDepth /\ s \in Scanners
  BY StackTyped DEF Fits, Good
<1>2. Len(s.stack) < MAX_INDENT_LEVELS
  BY <1>1, FrontEndAssumption DEF MaxDepth
<1> DEFINE q == Append(s.stack, indent)
           t == [s EXCEPT !.stack = q]
<1>3. q \in Seq(Columns) /\ Len(q) = Len(s.stack) + 1 /\ q # <<>>
      /\ (\A i \in 1..Len(s.stack) : q[i] = s.stack[i]) /\ q[Len(q)] = indent
  BY <1>1
<1>4. Sorted(q)
  <2> SUFFICES ASSUME NEW i \in 1..(Len(q) - 1) PROVE q[i] < q[i + 1]
    BY DEF Sorted
  <2>1. CASE i = Len(s.stack)
    BY <1>1, <1>3, <2>1 DEF Top
  <2>2. CASE i # Len(s.stack)
    BY <1>1, <1>3, <2>2 DEF Sorted
  <2> QED
    BY <2>1, <2>2
<1>5. q[1] = 0
  BY <1>1, <1>3
<1> HIDE DEF q
<1>6. t \in Scanners /\ t.stack = q /\ t.pending_dedents = 0
  BY <1>1, <1>3 DEF Scanners
<1> HIDE DEF t
<1>7. Good(t)
  BY <1>3, <1>4, <1>5, <1>6 DEF Good
<1>8. Fits(t, "want", d + 1)
  BY <1>1, <1>3, <1>6, <1>7 DEF Fits, MaxDepth
<1>9. ScanIndent(s, indent) = [tok |-> "INDENT", s |-> t]
  BY <1>2 DEF ScanIndent, Token, t, q
<1>10. ScanIndent(s, indent).tok = "INDENT" /\ ScanIndent(s, indent).s = t
  BY <1>9
<1>11. After("INDENT", d)[1] = "want" /\ After("INDENT", d)[2] = d + 1
  BY DEF After
<1> QED
  BY <1>8, <1>10, <1>11 DEF Fit

LEMMA AfterDedent ==
    ASSUME NEW d
    PROVE  After("DEDENT", d)[1] = (IF d = 1 THEN "top" ELSE "item") /\ After("DEDENT", d)[2] = d - 1
BY DEF After

\* A DEDENT pops the levels that are deeper than the line, and only those.
LEMMA DedentResult ==
    ASSUME NEW s, Good(s), NEW indent \in Columns, indent < Top(s)
    PROVE  \E n \in 1..Len(s.stack) :
              /\ n # Len(s.stack) /\ s.stack[n] <= indent
              /\ \A k \in (n + 1)..Len(s.stack) : s.stack[k] > indent
              /\ ScanDedent(s, indent) =
                    [tok |-> "DEDENT",
                     s |-> [stack |-> SubSeq(s.stack, 1, n),
                            pending_dedents |-> s.pending_dedents + Len(s.stack) - n - 1,
                            pending_newline |-> s.pending_newline \/ s.stack[n] = indent]]
<1> DEFINE m == Len(s.stack)
           T == {1} \cup {k \in DOMAIN s.stack : s.stack[k] <= indent}
           n == Max(T)
<1>1. /\ s.stack \in Seq(Columns) /\ m \in Nat /\ m >= 1 /\ s.stack[1] = 0
      /\ DOMAIN s.stack = 1..m /\ \A k \in 1..m : s.stack[k] \in Nat
      /\ indent \in Nat /\ indent < s.stack[m]
  BY StackTyped DEF Columns, Top
<1>2. T \in SUBSET (0..m) /\ T # {}
  BY <1>1
<1>3. n \in T /\ \A y \in T : y <= n
  <2> HIDE DEF T, m
  <2> QED
    BY <1>1, <1>2, Greatest
<1>4. n \in 1..m /\ s.stack[n] <= indent
  <2>1. n = 1 \/ (n \in 1..m /\ s.stack[n] <= indent)
    BY <1>1, <1>3
  <2>2. 1 \in 1..m /\ s.stack[1] <= indent
    BY <1>1
  <2> HIDE DEF n, m
  <2> QED
    BY <2>1, <2>2
<1>5. \A k \in (n + 1)..m : s.stack[k] > indent
  <2> SUFFICES ASSUME NEW k \in (n + 1)..m PROVE s.stack[k] > indent
    OBVIOUS
  <2>1. k \in 1..m /\ ~(k <= n)
    <3> HIDE DEF n, m
    <3> QED
      BY <1>1, <1>4
  <2>2. k \notin T
    <3> HIDE DEF T, n
    <3> QED
      BY <1>3, <2>1
  <2>3. ~(s.stack[k] <= indent)
    BY <1>1, <2>1, <2>2
  <2> QED
    BY <1>1, <2>1, <2>3
<1>6. ScanDedent(s, indent) =
           [tok |-> "DEDENT",
            s |-> [stack |-> SubSeq(s.stack, 1, n),
                   pending_dedents |-> s.pending_dedents + m - n - 1,
                   pending_newline |-> s.pending_newline \/ s.stack[n] = indent]]
  BY Zenon DEF ScanDedent, Token
<1> HIDE DEF n, T
<1>7. n # m
  BY <1>1, <1>4
<1> QED
  BY <1>4, <1>5, <1>6, <1>7

\* Every level that a DEDENT pops is closed at once or is still to be closed.
LEMMA DedentFits ==
    ASSUME NEW s, NEW d, Fits(s, "item", d), s.pending_dedents = 0,
           NEW indent \in Columns, indent < Top(s)
    PROVE  Fit(ScanDedent(s, indent), d)
<1> DEFINE m == Len(s.stack)
<1>1. /\ s.stack \in Seq(Columns) /\ m \in Nat /\ m >= 1 /\ s.stack[1] = 0 /\ Good(s)
      /\ d = m - 1 /\ d \in 0..MaxDepth /\ s.pending_newline \in BOOLEAN
  BY StackTyped DEF Fits, Good, Scanners
<1>2. PICK n \in 1..m :
         /\ n # m
         /\ ScanDedent(s, indent) =
               [tok |-> "DEDENT",
                s |-> [stack |-> SubSeq(s.stack, 1, n),
                       pending_dedents |-> s.pending_dedents + m - n - 1,
                       pending_newline |-> s.pending_newline \/ s.stack[n] = indent]]
  BY <1>1, DedentResult, ZenonT(60)
<1>4. n \in 1..m /\ n # m
  BY <1>2
<1> DEFINE e == m - n - 1
           f == s.stack[n] = indent
           g == s.pending_newline \/ f
           t == [stack |-> SubSeq(s.stack, 1, n), pending_dedents |-> e, pending_newline |-> g]
<1>5. e \in 0..MaxDepth /\ g \in BOOLEAN
  <2>1. d \in 0..MaxDepth /\ d = m - 1 /\ n \in 1..m /\ n # m /\ m \in Nat
    BY <1>1, <1>4, Zenon
  <2>2. e \in 0..MaxDepth
    <3> HIDE DEF m
    <3> QED
      BY <2>1 DEF MaxDepth
  <2>3. g \in BOOLEAN
    BY <1>1, Zenon
  <2> QED
    BY <2>2, <2>3
<1>6. ScanDedent(s, indent) = [tok |-> "DEDENT", s |-> t]
  <2>1. s.pending_dedents = 0 /\ m \in Nat /\ n \in 1..m
    BY <1>1, <1>4, Zenon
  <2>2. s.pending_dedents + m - n - 1 = e
    <3> HIDE DEF m
    <3> QED
      BY <2>1
  <2> HIDE DEF e
  <2> QED
    BY <1>2, <2>2, Zenon
<1> HIDE DEF g, e
<1>7. Good(t) /\ Len(t.stack) = n /\ t.pending_dedents = e
  <2>1. PICK q : q = SubSeq(s.stack, 1, n)
    OBVIOUS
  <2>2. Good(s) /\ n \in 1..Len(s.stack)
    BY <1>1, <1>4, Zenon
  <2>3. PICK e1, g1 : e1 = e /\ g1 = g /\ e1 \in 0..MaxDepth /\ g1 \in BOOLEAN
    BY <1>5, Zenon
  <2>4. Good([stack |-> q, pending_dedents |-> e1, pending_newline |-> g1]) /\ Len(q) = n
    <3> HIDE DEF m, t
    <3> QED
      BY <2>1, <2>2, <2>3, StackPrefix
  <2>5. t = [stack |-> q, pending_dedents |-> e1, pending_newline |-> g1]
    BY <2>1, <2>3, Zenon
  <2>6. t.stack = q /\ t.pending_dedents = e
    BY <2>3, <2>5
  <2> QED
    BY <2>4, <2>5, <2>6, Zenon
<1> HIDE DEF t
<1>8. Fits(t, IF d = 1 THEN "top" ELSE "item", d - 1)
  <2>0. /\ d \in 0..MaxDepth /\ d = m - 1 /\ n \in 1..m /\ n # m /\ m \in Nat
        /\ Len(t.stack) = n /\ t.pending_dedents = e
    BY <1>1, <1>4, <1>7, Zenon
  <2> HIDE DEF m
  <2>1. d - 1 \in 0..MaxDepth /\ d - 1 = Len(t.stack) - 1 + t.pending_dedents
    BY <2>0 DEF MaxDepth, e
  <2>2. d = 1 => t.pending_dedents = 0
    BY <2>0 DEF e
  <2> QED
    BY <1>1, <1>7, <2>1, <2>2 DEF Fits
<1>9. ScanDedent(s, indent).tok = "DEDENT" /\ ScanDedent(s, indent).s = t
  BY <1>6
<1> QED
  BY <1>8, <1>9, AfterDedent DEF Fit

LEMMA NewStack ==
    ASSUME NEW s, NEW w, NEW e, NEW b, NEW v,
           s = [stack |-> w, pending_dedents |-> e, pending_newline |-> b]
    PROVE  [s EXCEPT !.stack = v] = [stack |-> v, pending_dedents |-> e, pending_newline |-> b]
OBVIOUS

LEMMA EofFits ==
    ASSUME NEW s, NEW d, Fits(s, "item", d), s.pending_dedents = 0, Len(s.stack) > 1
    PROVE  Fit(Token("DEDENT", [s EXCEPT !.stack = SubSeq(@, 1, Len(@) - 1)]), d)
<1> DEFINE m == Len(s.stack)
           q == SubSeq(s.stack, 1, m - 1)
           t == [stack |-> q, pending_dedents |-> 0, pending_newline |-> s.pending_newline]
<1>1. /\ m \in Nat /\ m > 1 /\ Good(s) /\ d = m - 1 /\ d \in 0..MaxDepth
      /\ s.pending_newline \in BOOLEAN /\ s \in Scanners
  BY StackTyped DEF Fits, Good, Scanners
<1>2. [s EXCEPT !.stack = SubSeq(@, 1, Len(@) - 1)] = t
  <2>1. s = [stack |-> s.stack, pending_dedents |-> 0, pending_newline |-> s.pending_newline]
    BY <1>1 DEF Scanners
  <2>2. [s EXCEPT !.stack = SubSeq(@, 1, Len(@) - 1)] = [s EXCEPT !.stack = q]
    OBVIOUS
  <2>3. [s EXCEPT !.stack = q] = t
    <3> HIDE DEF q
    <3> QED
      BY <2>1, NewStack
  <2> QED
    BY <2>2, <2>3
<1>3. Good(t) /\ Len(t.stack) = m - 1 /\ t.pending_dedents = 0
  <2>1. m - 1 \in 1..m /\ 0 \in 0..MaxDepth
    BY <1>1 DEF MaxDepth
  <2> QED
    BY <1>1, <2>1, StackPrefix
<1> HIDE DEF t
<1>4. Fits(t, IF d = 1 THEN "top" ELSE "item", d - 1)
  BY <1>1, <1>3 DEF Fits, MaxDepth
<1> DEFINE r == Token("DEDENT", t)
<1>5. r.tok = "DEDENT" /\ r.s = t
  BY DEF Token
<1> HIDE DEF r
<1>6. Fit(r, d)
  BY <1>4, <1>5, AfterDedent DEF Fit
<1> QED
  BY <1>2, <1>6 DEF r

Positions == {"top", "opened", "want", "item"}

LEMMA ValidTokens ==
    ASSUME NEW p \in Positions
    PROVE  /\ "INDENT" \in Valid(p) <=> p = "opened"
           /\ "DEDENT" \in Valid(p) <=> p = "item"
           /\ "NEWLINE" \in Valid(p) <=> p # "opened"
BY DEF Valid, Positions

\* A NEWLINE leaves the stack alone.
LEMMA NewlineFits ==
    ASSUME NEW s, NEW p, NEW d, Fits(s, p, d), p # "opened", s.pending_dedents = 0,
           NEW f \in {s.pending_newline, FALSE}
    PROVE  Fit(Token("NEWLINE", [s EXCEPT !.pending_newline = f]), d)
<1> DEFINE t == [s EXCEPT !.pending_newline = f]
           r == Token("NEWLINE", t)
<1>1. s \in Scanners /\ Good(s) /\ d \in 0..MaxDepth /\ d = Len(s.stack) - 1 + s.pending_dedents
  BY DEF Fits, Good
<1>2. t \in Scanners /\ t.stack = s.stack /\ t.pending_dedents = 0
  <2>1. s.pending_newline \in BOOLEAN /\ f \in BOOLEAN
    BY <1>1 DEF Scanners
  <2> QED
    BY <1>1, <2>1 DEF Scanners
<1> HIDE DEF t
<1>3. Good(t)
  BY <1>1, <1>2 DEF Good
<1>4. Fits(t, IF d = 0 THEN "top" ELSE "want", d)
  BY <1>1, <1>2, <1>3 DEF Fits
<1>5. r.tok = "NEWLINE" /\ r.s = t
  BY DEF Token
<1> HIDE DEF r
<1>6. After("NEWLINE", d)[1] = (IF d = 0 THEN "top" ELSE "want") /\ After("NEWLINE", d)[2] = d
  BY DEF After
<1>7. Fit(r, d)
  BY <1>4, <1>5, <1>6 DEF Fit
<1> QED
  BY <1>7 DEF r, t

\* A level that is still to be closed.
LEMMA PendingFits ==
    ASSUME NEW s, NEW d, Fits(s, "item", d), s.pending_dedents > 0
    PROVE  Fit(Token("DEDENT", [s EXCEPT !.pending_dedents = @ - 1]), d)
<1> DEFINE t == [s EXCEPT !.pending_dedents = @ - 1]
           r == Token("DEDENT", t)
<1>1. s \in Scanners /\ Good(s) /\ d \in 0..MaxDepth /\ d = Len(s.stack) - 1 + s.pending_dedents
      /\ s.pending_dedents \in 0..MaxDepth /\ Len(s.stack) \in Nat /\ Len(s.stack) >= 1
  BY StackTyped DEF Fits, Good
<1>2. t.stack = s.stack /\ t.pending_dedents = s.pending_dedents - 1
      /\ s.pending_dedents - 1 \in 0..MaxDepth
  BY <1>1 DEF Scanners, MaxDepth
<1>3. t \in Scanners
  BY <1>1, <1>2 DEF Scanners
<1> HIDE DEF t
<1>4. Good(t)
  BY <1>1, <1>2, <1>3 DEF Good
<1>5. Fits(t, IF d = 1 THEN "top" ELSE "item", d - 1)
  <2>1. d - 1 \in 0..MaxDepth /\ d - 1 = Len(t.stack) - 1 + t.pending_dedents
        /\ (d = 1 => t.pending_dedents = 0)
    BY <1>1, <1>2 DEF MaxDepth
  <2> QED
    BY <1>1, <1>4, <2>1 DEF Fits
<1>6. r.tok = "DEDENT" /\ r.s = t
  BY DEF Token
<1> HIDE DEF r
<1>7. Fit(r, d)
  BY <1>5, <1>6, AfterDedent DEF Fit
<1> QED
  BY <1>7 DEF r, t

LEMMA ScanFits ==
    ASSUME NEW s, NEW p, NEW d, Fits(s, p, d), NEW a, a.indent \in Columns,
           scan(s, Valid(p), a).tok # "none"
    PROVE  Fit(scan(s, Valid(p), a), d)
<1> DEFINE r == scan(s, Valid(p), a)
           A == s.pending_dedents > 0 /\ "DEDENT" \in Valid(p)
           B == s.pending_dedents = 0 /\ s.pending_newline /\ "NEWLINE" \in Valid(p)
<1>1. p \in Positions /\ Good(s) /\ s.pending_dedents \in 0..MaxDepth /\ s \in Scanners
      /\ (p # "item" => s.pending_dedents = 0) /\ Top(s) \in Columns
  BY StackTyped DEF Fits, Positions, Good
<1>2. CASE A
  <2>1. r = Token("DEDENT", [s EXCEPT !.pending_dedents = @ - 1])
    BY <1>2 DEF scan
  <2>2. p = "item"
    BY <1>1, <1>2, ValidTokens
  <2> QED
    BY <1>2, <2>1, <2>2, PendingFits
<1>3. CASE ~A /\ B
  <2>1. r = Token("NEWLINE", [s EXCEPT !.pending_newline = FALSE])
    BY <1>3 DEF scan
  <2>2. p # "opened"
    BY <1>1, <1>3, ValidTokens
  <2> QED
    BY <1>3, <2>1, <2>2, NewlineFits
<1>4. CASE ~A /\ ~B
  <2>1. r = CASE a.at = "break" /\ ~(a.last /\ a.indent > 0) -> ScanBreak(s, Valid(p), a.indent)
              [] a.at = "eof" \/ (a.at = "break" /\ a.last /\ a.indent > 0) -> ScanEof(s, Valid(p))
              [] OTHER -> None(s)
    BY <1>4 DEF scan
  <2>2. None(s).tok = "none"
    BY DEF None, Token
  <2>3. r \in {ScanBreak(s, Valid(p), a.indent), ScanEof(s, Valid(p))}
    BY <2>1, <2>2
  <2>4. s.pending_dedents = 0
    BY <1>1, <1>4, ValidTokens
  <2>5. CASE r = ScanBreak(s, Valid(p), a.indent)
    <3>1. CASE a.indent > Top(s) /\ "INDENT" \in Valid(p)
      <4>1. r = ScanIndent(s, a.indent) /\ p = "opened"
        BY <1>1, <2>5, <3>1, ValidTokens DEF ScanBreak
      <4> QED
        BY <3>1, <4>1, IndentFits
    <3>2. CASE a.indent < Top(s) /\ "DEDENT" \in Valid(p)
      <4>1. ~(a.indent > Top(s))
        BY <1>1, <3>2 DEF Columns
      <4>2. r = ScanDedent(s, a.indent) /\ p = "item"
        BY <1>1, <2>5, <3>2, <4>1, ValidTokens DEF ScanBreak
      <4> QED
        BY <2>4, <3>2, <4>2, DedentFits
    <3>3. CASE a.indent = Top(s) /\ "NEWLINE" \in Valid(p)
      <4>1. ~(a.indent > Top(s)) /\ ~(a.indent < Top(s))
        BY <1>1, <3>3 DEF Columns
      <4>2. r = Token("NEWLINE", s) /\ p # "opened"
        BY <1>1, <2>5, <3>3, <4>1, ValidTokens DEF ScanBreak
      <4>3. [s EXCEPT !.pending_newline = s.pending_newline] = s
        BY <1>1 DEF Scanners
      <4>4. Fit(Token("NEWLINE", [s EXCEPT !.pending_newline = s.pending_newline]), d)
        BY <2>4, <4>2, NewlineFits
      <4> QED
        BY <4>2, <4>3, <4>4
    <3>4. CASE ~(a.indent > Top(s) /\ "INDENT" \in Valid(p)) /\ ~(a.indent < Top(s) /\ "DEDENT" \in Valid(p))
               /\ ~(a.indent = Top(s) /\ "NEWLINE" \in Valid(p))
      BY <2>2, <2>5, <3>4 DEF ScanBreak
    <3> QED
      BY <3>1, <3>2, <3>3, <3>4
  <2>6. CASE r = ScanEof(s, Valid(p))
    <3>1. /\ "DEDENT" \in Valid(p) /\ Len(s.stack) > 1
          /\ r = Token("DEDENT", [s EXCEPT !.stack = SubSeq(@, 1, Len(@) - 1)])
      BY <2>2, <2>6 DEF ScanEof
    <3>2. p = "item"
      BY <1>1, <3>1, ValidTokens
    <3> QED
      BY <2>4, <3>1, <3>2, EofFits
  <2> QED
    BY <2>3, <2>5, <2>6
<1> QED
  BY <1>2, <1>3, <1>4

-----------------------------------------------------------------------------
(* The parse.                                                              *)

BalanceInv == stage = "parse" => \E s : buf = serialize(s) /\ Fits(s, pos, depth)

\* Whatever the lexer looks at, its column fits in 16 bits.
LEMMA InputColumn == \A in \in Input : in.ahead.indent \in Columns
<1>1. Text.indent = 0 /\ Eof.indent = 0 /\ LastBreak.indent \in {0, 2}
  BY DEF Text, Eof, LastBreak
<1>2. 0 \in Columns /\ 2 \in Columns
  BY DEF Columns
<1>3. \A l \in Lines : Break(l).indent \in Columns
  <2>1. \A l \in Lines : l.indent \in Indents
    BY DEF Lines, Line
  <2> QED
    BY <2>1, FrontEndAssumption DEF Break
<1> SUFFICES ASSUME NEW in \in Input PROVE in.ahead.indent \in Columns
  OBVIOUS
<1>4. in.ahead \in {Text, Eof, LastBreak} \/ \E l \in Lines : in.ahead = Break(l)
  <2>1. CASE where = "head" /\ lines # <<>>
    BY <2>1 DEF Input
  <2>2. CASE where = "head" /\ lines = <<>>
    BY <2>2 DEF Input
  <2>3. CASE where = "eof"
    BY <2>3 DEF Input
  <2>4. CASE where \notin {"head", "eof"}
    BY <2>4 DEF Input
  <2> QED
    BY <2>1, <2>2, <2>3, <2>4
<1> QED
  BY <1>1, <1>2, <1>3, <1>4

LEMMA BalanceScan == BalanceInv /\ ScanToken => BalanceInv'
<1> SUFFICES ASSUME BalanceInv, ScanToken PROVE BalanceInv'
  OBVIOUS
<1>1. PICK in \in Input : Scanned(in).tok # "none" /\ Shift(Scanned(in).tok) /\ buf' = serialize(Scanned(in).s)
  BY DEF ScanToken
<1>2. PICK s : buf = serialize(s) /\ Fits(s, pos, depth)
  BY DEF ScanToken, BalanceInv
<1>3. deserialize(buf) = s
  BY <1>2, RoundTrip DEF Fits, Good
<1>4. PICK r, p, d, a : p = pos /\ d = depth /\ a = in.ahead /\ r = scan(s, Valid(p), a)
  OBVIOUS
<1>5. Scanned(in) = r
  BY <1>3, <1>4 DEF Scanned
<1>6. Fit(r, d)
  BY <1>1, <1>2, <1>4, <1>5, InputColumn, ScanFits
<1>7. pos' = After(r.tok, d)[1] /\ depth' = After(r.tok, d)[2]
  BY <1>1, <1>4, <1>5 DEF Shift, After
<1> QED
  BY <1>1, <1>5, <1>6, <1>7 DEF BalanceInv, Fit

LEMMA BalanceText == BalanceInv /\ ReadText => BalanceInv'
<1> SUFFICES ASSUME BalanceInv, ReadText PROVE BalanceInv'
  OBVIOUS
<1>1. PICK l : Accepts(l) /\ pos' = IF Comment(l) THEN pos ELSE IF l.opens THEN "opened"
                      ELSE IF depth = 0 THEN "top" ELSE "item"
  BY DEF ReadText
<1>2. UNCHANGED <<buf, depth, stage>> /\ stage = "parse"
  BY DEF ReadText
<1>3. PICK s : buf = serialize(s) /\ Fits(s, pos, depth)
  BY <1>2 DEF BalanceInv
<1>4. CASE Comment(l)
  BY <1>1, <1>2, <1>3, <1>4 DEF BalanceInv
<1>5. CASE ~Comment(l)
  <2>1. pos \in {"top", "want"} /\ (pos = "want" /\ l.opens => depth < MaxDepth)
    BY <1>1, <1>5 DEF Accepts
  <2>2. pos' = IF l.opens THEN "opened" ELSE IF depth = 0 THEN "top" ELSE "item"
    BY <1>1, <1>5
  <2>3. Fits(s, pos', depth)
    BY <1>3, <2>1, <2>2 DEF Fits, MaxDepth
  <2> QED
    BY <1>2, <1>3, <2>3 DEF BalanceInv
<1> QED
  BY <1>4, <1>5

LEMMA BalanceStep == BalanceInv /\ [Next]_vars => BalanceInv'
<1>1. BalanceInv /\ (ParseEnds \/ ParseRecovers) => BalanceInv'
  BY DEF ParseEnds, ParseRecovers, BalanceInv
<1>2. BalanceInv /\ Lower => BalanceInv'
  BY DEF Lower, collect_errors, LowerSkips, LowerTopLevel, LowerKept, LowerDropped, LowerEnds,
     Lowering, BalanceInv
<1>3. BalanceInv /\ UNCHANGED vars => BalanceInv'
  BY DEF vars, BalanceInv
<1> QED
  BY <1>1, <1>2, <1>3, BalanceScan, BalanceText DEF Next, Parse, Done

LEMMA BalanceInit == Init => BalanceInv
<1> SUFFICES ASSUME Init PROVE BalanceInv
  OBVIOUS
<1>1. Fresh \in Scanners /\ Fresh.stack = <<0>> /\ Fresh.pending_dedents = 0
  BY DEF Fresh, Scanners, Columns, MaxDepth
<1>2. Good(Fresh)
  BY <1>1 DEF Good, Sorted
<1>3. Fits(Fresh, "top", 0)
  BY <1>1, <1>2 DEF Fits, MaxDepth
<1> QED
  BY <1>3 DEF Init, BalanceInv

\* For every text, and every stack that exceeds the nesting of the grammar: between any
\* two calls the scanner's bytes hold one level for each block the parser has open,
\* those still to be closed included, at ascending columns; none is lost to the size
\* of the stack or to the serialisation.
THEOREM BlocksBalanced == Spec => []Balanced
<1>1. BalanceInv => Balanced
  <2> SUFFICES ASSUME BalanceInv, stage = "parse" PROVE Balanced
    BY DEF Balanced
  <2>1. PICK s : buf = serialize(s) /\ Fits(s, pos, depth)
    BY DEF BalanceInv
  <2>2. deserialize(buf) = s
    BY <2>1, RoundTrip DEF Fits, Good
  <2>3. /\ depth = Len(s.stack) - 1 + s.pending_dedents /\ depth \in 0..MaxDepth
        /\ Len(s.stack) \in Nat /\ Len(s.stack) >= 1 /\ s.pending_dedents \in 0..MaxDepth
        /\ Sorted(s.stack)
    BY <2>1, StackTyped DEF Fits
  <2>4. depth <= MaxDepth /\ Len(s.stack) \in 1..MAX_INDENT_LEVELS
    <3>1. MAX_INDENT_LEVELS \in Nat /\ MAX_INDENT_LEVELS > 3
      BY FrontEndAssumption DEF MaxDepth
    <3>2. PICK n \in Nat, e \in Nat : n = Len(s.stack) /\ e = s.pending_dedents
      BY <2>3
    <3>3. depth = n - 1 + e /\ depth \in 0..3 /\ n >= 1
      BY <2>3, <3>2 DEF MaxDepth
    <3>4. n \in 1..MAX_INDENT_LEVELS
      BY <3>1, <3>3
    <3> QED
      BY <3>2, <3>3, <3>4 DEF MaxDepth
  <2> QED
    BY <2>2, <2>3, <2>4 DEF Balanced, Sorted
<1> QED
  BY <1>1, BalanceInit, BalanceStep, PTL DEF Spec
-----------------------------------------------------------------------------
(* What a call of the scanner returns, case by case.                       *)

Quiet(s, p) == s.pending_dedents = 0 /\ (s.pending_newline => p = "opened")

BreakResult(s, p, x, r) ==
    \/ /\ p = "opened" /\ x > Top(s) /\ r.tok = "INDENT"
       /\ r.s.stack = Append(s.stack, x) /\ r.s.pending_newline = s.pending_newline
    \/ /\ p = "item" /\ x < Top(s) /\ r.tok = "DEDENT"
       /\ \E n \in 1..Len(s.stack) :
             /\ n # Len(s.stack) /\ s.stack[n] <= x
             /\ \A k \in (n + 1)..Len(s.stack) : s.stack[k] > x
             /\ r.s.stack = SubSeq(s.stack, 1, n)
             /\ r.s.pending_newline <=> s.stack[n] = x
    \/ p # "opened" /\ x = Top(s) /\ r.tok = "NEWLINE" /\ r.s = s
    \/ /\ r.tok = "none"
       /\ p = "opened" => ~(x > Top(s))
       /\ p = "item" => x > Top(s)
       /\ p \in {"top", "want"} => x # Top(s)

EofResult(s, p, r) ==
    \/ /\ p = "item" /\ Len(s.stack) > 1 /\ r.tok = "DEDENT"
       /\ r.s.stack = SubSeq(s.stack, 1, Len(s.stack) - 1)
       /\ r.s.pending_newline = s.pending_newline
    \/ r.tok = "none" /\ ~(p = "item" /\ Len(s.stack) > 1)

ScanResult(s, p, a, r) ==
    \/ /\ p = "item" /\ s.pending_dedents > 0 /\ r.tok = "DEDENT"
       /\ r.s.stack = s.stack /\ r.s.pending_newline = s.pending_newline
    \/ /\ p # "opened" /\ s.pending_dedents = 0 /\ s.pending_newline /\ r.tok = "NEWLINE"
       /\ r.s.stack = s.stack /\ ~r.s.pending_newline
    \/ Quiet(s, p) /\ a.at = "text" /\ r.tok = "none"
    \/ Quiet(s, p) /\ a.at = "break" /\ ~(a.last /\ a.indent > 0) /\ BreakResult(s, p, a.indent, r)
    \/ Quiet(s, p) /\ a.at = "eof" /\ EofResult(s, p, r)

LEMMA BreakResults ==
    ASSUME NEW s, NEW p, NEW d, Fits(s, p, d), Quiet(s, p), NEW x \in Columns
    PROVE  BreakResult(s, p, x, ScanBreak(s, Valid(p), x))
<1> DEFINE r == ScanBreak(s, Valid(p), x)
<1> SUFFICES BreakResult(s, p, x, r)
  OBVIOUS
<1>1. p \in Positions /\ Good(s) /\ s \in Scanners /\ Top(s) \in Nat /\ x \in Nat
      /\ s.pending_dedents = 0 /\ d = Len(s.stack) - 1 /\ Len(s.stack) \in Nat
  <2>1. p \in Positions /\ Good(s) /\ s \in Scanners /\ s.pending_dedents = 0
        /\ d = Len(s.stack) - 1 + s.pending_dedents
    BY DEF Fits, Positions, Quiet, Good
  <2>2. Top(s) \in Nat /\ x \in Nat /\ Len(s.stack) \in Nat
    <3>1. Top(s) \in Columns /\ Len(s.stack) \in Nat
      BY <2>1, StackTyped
    <3> QED
      BY <3>1 DEF Columns
  <2> QED
    BY <2>1, <2>2
<1>2. CASE x > Top(s) /\ p = "opened"
  <2>1. r = ScanIndent(s, x)
    BY <1>1, <1>2, ValidTokens DEF ScanBreak
  <2>2. Len(s.stack) < MAX_INDENT_LEVELS
    <3>1. d \in 0..MaxDepth /\ d < MaxDepth
      BY <1>2 DEF Fits
    <3> QED
      BY <1>1, <3>1, FrontEndAssumption DEF MaxDepth
  <2>3. r = [tok |-> "INDENT", s |-> [s EXCEPT !.stack = Append(@, x)]]
    BY <2>1, <2>2 DEF ScanIndent, Token
  <2>4. r.tok = "INDENT" /\ r.s = [s EXCEPT !.stack = Append(@, x)]
    BY <2>3
  <2>5. r.s.stack = Append(s.stack, x) /\ r.s.pending_newline = s.pending_newline
    BY <1>1, <2>4 DEF Scanners
  <2> HIDE DEF r
  <2> QED
    BY <1>2, <2>4, <2>5 DEF BreakResult
<1>3. CASE x < Top(s) /\ p = "item"
  <2>1. r = ScanDedent(s, x)
    <3>1. ~(x > Top(s))
      BY <1>1, <1>3
    <3> QED
      BY <1>1, <1>3, <3>1, ValidTokens DEF ScanBreak
  <2>2. PICK n \in 1..Len(s.stack) :
           /\ n # Len(s.stack) /\ s.stack[n] <= x
           /\ \A k \in (n + 1)..Len(s.stack) : s.stack[k] > x
           /\ r = [tok |-> "DEDENT",
                   s |-> [stack |-> SubSeq(s.stack, 1, n),
                          pending_dedents |-> s.pending_dedents + Len(s.stack) - n - 1,
                          pending_newline |-> s.pending_newline \/ s.stack[n] = x]]
    BY <1>1, <1>3, <2>1, DedentResult
  <2> HIDE DEF r
  <2>3. ~s.pending_newline
    BY <1>3 DEF Quiet
  <2>4. r.tok = "DEDENT" /\ r.s.stack = SubSeq(s.stack, 1, n)
        /\ r.s.pending_newline = (s.pending_newline \/ s.stack[n] = x)
    BY <2>2, Zenon
  <2>5. r.s.pending_newline <=> s.stack[n] = x
    BY <2>3, <2>4, Zenon
  <2> QED
    BY <1>3, <2>2, <2>4, <2>5, Zenon DEF BreakResult
<1>4. CASE x = Top(s) /\ p # "opened"
  <2>1. r = Token("NEWLINE", s)
    <3>1. ~(x > Top(s)) /\ ~(x < Top(s))
      BY <1>1, <1>4
    <3> QED
      BY <1>1, <1>4, <3>1, ValidTokens DEF ScanBreak
  <2>2. r.tok = "NEWLINE" /\ r.s = s
    BY <2>1 DEF Token
  <2> HIDE DEF r
  <2> QED
    BY <1>4, <2>2 DEF BreakResult
<1>5. CASE ~(x > Top(s) /\ p = "opened") /\ ~(x < Top(s) /\ p = "item") /\ ~(x = Top(s) /\ p # "opened")
  <2>1. r = None(s)
    BY <1>1, <1>5, ValidTokens DEF ScanBreak
  <2>2. r.tok = "none"
    BY <2>1 DEF None, Token
  <2> HIDE DEF r
  <2>3. (p = "opened" => ~(x > Top(s))) /\ (p = "item" => x > Top(s))
        /\ (p \in {"top", "want"} => x # Top(s))
    BY <1>1, <1>5
  <2> QED
    BY <2>2, <2>3 DEF BreakResult
<1> QED
  BY <1>2, <1>3, <1>4, <1>5

LEMMA EofResults ==
    ASSUME NEW s, NEW p, NEW d, Fits(s, p, d)
    PROVE  EofResult(s, p, ScanEof(s, Valid(p)))
<1> DEFINE r == ScanEof(s, Valid(p))
<1> SUFFICES EofResult(s, p, r)
  OBVIOUS
<1>1. p \in Positions /\ s \in Scanners
  BY DEF Fits, Positions, Good
<1>2. CASE p = "item" /\ Len(s.stack) > 1
  <2>1. r = Token("DEDENT", [s EXCEPT !.stack = SubSeq(@, 1, Len(@) - 1)])
    BY <1>1, <1>2, ValidTokens DEF ScanEof
  <2>2. r.tok = "DEDENT" /\ r.s = [s EXCEPT !.stack = SubSeq(@, 1, Len(@) - 1)]
    BY <2>1 DEF Token
  <2> HIDE DEF r
  <2>3. PICK q : q = SubSeq(s.stack, 1, Len(s.stack) - 1)
    OBVIOUS
  <2>4. r.s = [s EXCEPT !.stack = q]
    BY <2>2, <2>3
  <2>5. r.s.stack = q /\ r.s.pending_newline = s.pending_newline
    BY <1>1, <2>4 DEF Scanners
  <2> QED
    BY <1>2, <2>2, <2>3, <2>5 DEF EofResult
<1>3. CASE ~(p = "item" /\ Len(s.stack) > 1)
  <2>1. r = None(s)
    BY <1>1, <1>3, ValidTokens DEF ScanEof
  <2>2. r.tok = "none"
    BY <2>1 DEF None, Token
  <2> HIDE DEF r
  <2> QED
    BY <1>3, <2>2 DEF EofResult
<1> QED
  BY <1>2, <1>3

LEMMA ScanResults ==
    ASSUME NEW s, NEW p, NEW d, Fits(s, p, d), NEW a, a.indent \in Columns,
           a.at \in {"text", "eof"} \/ (a.at = "break" /\ ~(a.last /\ a.indent > 0))
    PROVE  ScanResult(s, p, a, scan(s, Valid(p), a))
<1> DEFINE r == scan(s, Valid(p), a)
<1> SUFFICES ScanResult(s, p, a, r)
  OBVIOUS
<1>1. p \in Positions /\ s.pending_dedents \in 0..MaxDepth /\ s \in Scanners
      /\ (p # "item" => s.pending_dedents = 0)
  BY StackTyped DEF Fits, Positions, Good
<1>2. CASE s.pending_dedents > 0 /\ p = "item"
  <2>1. r = Token("DEDENT", [s EXCEPT !.pending_dedents = @ - 1])
    BY <1>1, <1>2, ValidTokens DEF scan
  <2>2. r.tok = "DEDENT" /\ r.s = [s EXCEPT !.pending_dedents = @ - 1]
    BY <2>1 DEF Token
  <2> HIDE DEF r
  <2>3. r.s.stack = s.stack /\ r.s.pending_newline = s.pending_newline
    BY <1>1, <2>2 DEF Scanners
  <2> QED
    BY <1>2, <2>2, <2>3 DEF ScanResult
<1>3. CASE s.pending_dedents = 0 /\ s.pending_newline /\ p # "opened"
  <2>1. r = Token("NEWLINE", [s EXCEPT !.pending_newline = FALSE])
    BY <1>1, <1>3, ValidTokens DEF scan
  <2>2. r.tok = "NEWLINE" /\ r.s = [s EXCEPT !.pending_newline = FALSE]
    BY <2>1 DEF Token
  <2> HIDE DEF r
  <2>3. r.s.stack = s.stack /\ ~r.s.pending_newline
    BY <1>1, <2>2 DEF Scanners
  <2> QED
    BY <1>3, <2>2, <2>3 DEF ScanResult
<1>4. CASE Quiet(s, p)
  <2>1. r = CASE a.at = "break" /\ ~(a.last /\ a.indent > 0) -> ScanBreak(s, Valid(p), a.indent)
              [] a.at = "eof" \/ (a.at = "break" /\ a.last /\ a.indent > 0) -> ScanEof(s, Valid(p))
              [] OTHER -> None(s)
    BY <1>1, <1>4, ValidTokens DEF scan, Quiet
  <2>2. CASE a.at = "text"
    <3>1. r = None(s)
      BY <2>1, <2>2
    <3>2. r.tok = "none"
      BY <3>1 DEF None, Token
    <3> HIDE DEF r
    <3> QED
      BY <1>4, <2>2, <3>2 DEF ScanResult
  <2>3. CASE a.at = "break" /\ ~(a.last /\ a.indent > 0)
    <3>1. r = ScanBreak(s, Valid(p), a.indent)
      BY <2>1, <2>3
    <3>2. BreakResult(s, p, a.indent, r)
      BY <1>4, <3>1, BreakResults
    <3> HIDE DEF r
    <3> QED
      BY <1>4, <2>3, <3>2 DEF ScanResult
  <2>4. CASE a.at = "eof"
    <3>1. r = ScanEof(s, Valid(p))
      BY <2>1, <2>4
    <3>2. EofResult(s, p, r)
      BY <3>1, EofResults
    <3> HIDE DEF r
    <3> QED
      BY <1>4, <2>4, <3>2 DEF ScanResult
  <2> QED
    BY <2>2, <2>3, <2>4
<1>5. (s.pending_dedents > 0 /\ p = "item")
      \/ (s.pending_dedents = 0 /\ s.pending_newline /\ p # "opened") \/ Quiet(s, p)
  BY <1>1 DEF Quiet, MaxDepth
<1> QED
  BY <1>2, <1>3, <1>4, <1>5
-----------------------------------------------------------------------------
(* The scanner against the lines read so far, of which the last has level  *)
(* L and, if op, opens a block; col[k] is the column of the latest line at *)
(* each level k up to L.                                                   *)

ColumnMaps == [0..MaxDepth -> Columns]

\* The open levels are on the stack, at their columns.
Along(q, col, L) == \A k \in 0..(Len(q) - 1) : k <= L => q[k + 1] = col[k]

\* The levels that have been closed since are deeper than column x.
Closed(q, col, L, x) == \A k \in Len(q)..L : col[k] > x

Sync(s, p, dep, op, L, col) ==
    /\ Fits(s, p, dep) /\ op \in BOOLEAN /\ L \in 0..MaxDepth /\ col \in ColumnMaps
    /\ op => (p = "opened" /\ dep = L) \/ (p = "want" /\ dep = L + 1)
    /\ ~op => p # "opened" /\ dep <= L
    /\ Along(s.stack, col, L)

\* Before a line break: nothing is pending.
Rest(s, L, col) ==
    s.pending_dedents = 0 /\ ~s.pending_newline /\ Closed(s.stack, col, L, Top(s))

\* Before the text of a line at column x.
Ahead(s, p, L, col, x) ==
    /\ p # "opened" /\ x >= Top(s)
    /\ p = "want" \/ s.pending_newline => x = Top(s)
    /\ p = "want" => ~s.pending_newline
    /\ p = "item" /\ ~s.pending_newline => x > Top(s)
    /\ p = "top" /\ L = 0 => x = 0
    /\ Closed(s.stack, col, L, x)

\* At the end of the text.
AtEof(s, p, L, col) ==
    /\ p \in {"top", "item"} /\ (s.pending_newline => Len(s.stack) = 1)
    /\ Closed(s.stack, col, L, Top(s))

LEMMA StackAscends ==
    ASSUME NEW s, NEW p, NEW d, Fits(s, p, d), NEW i \in 1..Len(s.stack), NEW j \in 1..Len(s.stack),
           i < j
    PROVE  s.stack[i] < s.stack[j]
<1>1. PICK q, n : q = s.stack /\ n = Len(q)
  OBVIOUS
<1>2. n \in Nat /\ n <= 4 /\ (\A k \in 1..n : q[k] \in Nat) /\ \A k \in 1..(n - 1) : q[k] < q[k + 1]
  <2>1. Good(s) /\ d = Len(s.stack) - 1 + s.pending_dedents /\ d \in 0..3
    BY DEF Fits, MaxDepth
  <2>2. s.stack \in Seq(Columns) /\ Sorted(s.stack) /\ s.pending_dedents \in 0..3
    BY <2>1, StackTyped DEF MaxDepth
  <2>3. n \in Nat /\ \A k \in 1..n : q[k] \in Nat
    BY <1>1, <2>2 DEF Columns
  <2>4. \A k \in 1..(n - 1) : q[k] < q[k + 1]
    BY <1>1, <2>2 DEF Sorted
  <2>5. n <= 4
    <3>1. \A x, e \in Nat, y \in 0..3 : y = x - 1 + e => x <= 4
      OBVIOUS
    <3>2. PICK e : e = s.pending_dedents
      OBVIOUS
    <3>3. e \in Nat /\ d \in 0..3 /\ d = n - 1 + e
      BY <1>1, <2>1, <2>2, <3>2
    <3> QED
      BY <2>3, <3>1, <3>3, Zenon
  <2> QED
    BY <2>3, <2>4, <2>5
<1>3. i \in 1..n /\ j \in 1..n
  BY <1>1
<1>4. CASE j = i + 1
  BY <1>1, <1>2, <1>3, <1>4
<1>5. CASE j = i + 2
  <2>1. q[i] < q[i + 1] /\ q[i + 1] < q[(i + 1) + 1]
    BY <1>2, <1>3, <1>5
  <2>2. q[i] \in Nat /\ q[i + 1] \in Nat /\ q[j] \in Nat /\ (i + 1) + 1 = j
    BY <1>2, <1>3, <1>5
  <2>3. q[i] < q[j]
    BY <2>1, <2>2
  <2> QED
    BY <1>1, <2>3
<1>6. CASE j = i + 3
  <2>1. q[i] < q[i + 1] /\ q[i + 1] < q[(i + 1) + 1] /\ q[i + 2] < q[(i + 2) + 1]
    BY <1>2, <1>3, <1>6
  <2>2. q[i] \in Nat /\ q[i + 1] \in Nat /\ q[i + 2] \in Nat /\ q[j] \in Nat
        /\ (i + 1) + 1 = i + 2 /\ (i + 2) + 1 = j
    BY <1>2, <1>3, <1>6
  <2>3. q[i] < q[j]
    BY <2>1, <2>2
  <2> QED
    BY <1>1, <2>3
<1> QED
  BY <1>2, <1>3, <1>4, <1>5, <1>6

\* Facts about a synchronised scanner, as numbers.
LEMMA SyncFacts ==
    ASSUME NEW s, NEW p, NEW dep, NEW op, NEW L, NEW col, Sync(s, p, dep, op, L, col)
    PROVE  /\ Len(s.stack) \in Nat /\ Len(s.stack) >= 1 /\ s.pending_dedents \in Nat
           /\ dep = Len(s.stack) - 1 + s.pending_dedents /\ dep \in 0..3 /\ L \in 0..3
           /\ (\A k \in 1..Len(s.stack) : s.stack[k] \in Nat) /\ s.stack[1] = 0
           /\ Top(s) = s.stack[Len(s.stack)] /\ Top(s) \in Nat
           /\ (\A k \in 0..3 : col[k] \in Nat)
           /\ (p # "item" => s.pending_dedents = 0) /\ (p = "top" <=> dep = 0 /\ p # "opened")
           /\ p \in {"top", "opened", "want", "item"} /\ s.pending_newline \in BOOLEAN
           /\ s.stack \in Seq(Columns)
           /\ (s.pending_dedents = 0 => dep = 0 \/ Len(s.stack) > 1)
           /\ (s.pending_dedents = 0 => Len(s.stack) = dep + 1)
<1>1. Good(s) /\ dep = Len(s.stack) - 1 + s.pending_dedents /\ dep \in 0..3 /\ L \in 0..3
      /\ col \in [0..3 -> Columns] /\ (p # "item" => s.pending_dedents = 0)
      /\ (p = "top" <=> dep = 0 /\ p # "opened") /\ p \in {"top", "opened", "want", "item"}
  BY DEF Sync, Fits, MaxDepth, ColumnMaps
<1>2. s.stack \in Seq(Columns) /\ Len(s.stack) \in Nat /\ Len(s.stack) >= 1 /\ s.stack[1] = 0
      /\ s.pending_dedents \in 0..3 /\ Top(s) \in Columns
      /\ \A i \in DOMAIN s.stack : s.stack[i] \in Columns
  BY <1>1, StackTyped DEF MaxDepth
<1>3. s.pending_newline \in BOOLEAN
  BY <1>1 DEF Good, Scanners
<1>4. \A k \in 0..3 : col[k] \in Nat
  BY <1>1 DEF Columns
<1>5. (\A k \in 1..Len(s.stack) : s.stack[k] \in Nat) /\ Top(s) \in Nat
  BY <1>2 DEF Columns
<1>6. s.pending_dedents = 0 => dep = 0 \/ Len(s.stack) > 1
  <2>1. \A n \in Nat, e, d \in 0..3 : d = n - 1 + e /\ e = 0 => d = 0 \/ n > 1
    OBVIOUS
  <2> QED
    BY <1>1, <1>2, <2>1, Zenon
<1>7. s.pending_dedents \in Nat
  BY <1>2
<1>8. Top(s) = s.stack[Len(s.stack)]
  BY DEF Top
<1>9. s.pending_dedents = 0 => Len(s.stack) = dep + 1
  <2>1. PICK n, e : n = Len(s.stack) /\ e = s.pending_dedents
    OBVIOUS
  <2>2. dep = n - 1 + e /\ n \in Nat /\ e \in Nat /\ dep \in 0..3
    BY <1>1, <1>2, <1>7, <2>1, Zenon
  <2>3. e = 0 => n = dep + 1
    BY <2>2
  <2> QED
    BY <2>1, <2>3, Zenon
<1> QED
  BY <1>1, <1>2, <1>3, <1>4, <1>5, <1>6, <1>7, <1>8, <1>9, Zenon

\* The steps of the scanner, with the token it returns and its new state u.

LEMMA SyncDedent ==
    ASSUME NEW s, NEW dep, NEW op, NEW L, NEW col, Sync(s, "item", dep, op, L, col),
           NEW u, NEW p, p = (IF dep = 1 THEN "top" ELSE "item"), Fits(u, p, dep - 1),
           NEW n \in 1..Len(s.stack), u.stack = SubSeq(s.stack, 1, n)
    PROVE  Sync(u, p, dep - 1, op, L, col)
<1>1. ~op /\ dep <= L /\ dep \in 0..3 /\ L \in 0..3 /\ op \in BOOLEAN /\ col \in ColumnMaps
      /\ L \in 0..MaxDepth
  BY SyncFacts DEF Sync
<1>2. Along(s.stack, col, L) /\ s.stack \in Seq(Columns) /\ Len(s.stack) \in Nat
  BY SyncFacts DEF Sync
<1>3. PICK q \in Seq(Columns) : q = s.stack
  BY <1>2
<1>4. n \in 1..Len(q) /\ u.stack = SubSeq(q, 1, n) /\ Along(q, col, L)
  BY <1>2, <1>3
<1>5. Len(u.stack) = n /\ \A k \in 1..n : u.stack[k] = q[k]
  BY <1>4
<1>6. Along(u.stack, col, L)
  <2> SUFFICES ASSUME NEW k \in 0..(n - 1), k <= L PROVE u.stack[k + 1] = col[k]
    BY <1>5 DEF Along
  <2>1. k + 1 \in 1..n /\ k \in 0..(Len(q) - 1)
    BY <1>4
  <2>2. q[k + 1] = col[k]
    BY <1>4, <2>1 DEF Along
  <2> QED
    BY <1>5, <2>1, <2>2
<1>7. p # "opened" /\ p # "want"
  OBVIOUS
<1>8. dep - 1 <= L
  BY <1>1
<1> QED
  BY <1>1, <1>6, <1>7, <1>8 DEF Sync

LEMMA SyncNewline ==
    ASSUME NEW s, NEW p, NEW dep, NEW op, NEW L, NEW col, Sync(s, p, dep, op, L, col), p # "opened",
           NEW u, NEW p2, p2 = (IF dep = 0 THEN "top" ELSE "want"), Fits(u, p2, dep),
           u.stack = s.stack
    PROVE  Sync(u, p2, dep, op, L, col)
<1>1. dep \in 0..3 /\ L \in 0..3 /\ op \in BOOLEAN /\ col \in ColumnMaps /\ L \in 0..MaxDepth
      /\ Along(u.stack, col, L)
  BY SyncFacts DEF Sync
<1>2. op => p2 = "want" /\ dep = L + 1
  BY <1>1 DEF Sync
<1>3. ~op => p2 # "opened" /\ dep <= L
  BY DEF Sync
<1> QED
  BY <1>1, <1>2, <1>3 DEF Sync

LEMMA SyncIndent ==
    ASSUME NEW s, NEW dep, NEW op, NEW L, NEW col, Sync(s, "opened", dep, op, L, col),
           NEW u, Fits(u, "want", dep + 1),
           NEW x, u.stack = Append(s.stack, x)
    PROVE  Sync(u, "want", dep + 1, op, L, col) /\ Len(u.stack) = L + 2 /\ u.stack[L + 2] = x
<1>1. op /\ dep = L /\ dep \in 0..3 /\ L \in 0..3 /\ op \in BOOLEAN /\ col \in ColumnMaps
      /\ L \in 0..MaxDepth
  BY SyncFacts DEF Sync
<1>2. Along(s.stack, col, L) /\ s.stack \in Seq(Columns) /\ Len(s.stack) = L + 1
  <2>1. Along(s.stack, col, L)
    BY DEF Sync
  <2>2. s.stack \in Seq(Columns) /\ Len(s.stack) \in Nat /\ s.pending_dedents = 0
        /\ dep = Len(s.stack) - 1 + s.pending_dedents
    BY SyncFacts
  <2> QED
    BY <1>1, <2>1, <2>2
<1>3. PICK q \in Seq(Columns) : q = s.stack
  BY <1>2
<1>4. Len(q) = L + 1 /\ u.stack = Append(q, x) /\ Along(q, col, L)
  BY <1>2, <1>3
<1>5. Len(u.stack) = L + 2 /\ u.stack[L + 2] = x /\ \A k \in 1..(L + 1) : u.stack[k] = q[k]
  BY <1>1, <1>4
<1>6. Along(u.stack, col, L)
  BY <1>1, <1>4, <1>5 DEF Along
<1> QED
  BY <1>1, <1>5, <1>6 DEF Sync

LEMMA AfterTokens ==
    ASSUME NEW d
    PROVE  /\ After("INDENT", d)[1] = "want" /\ After("INDENT", d)[2] = d + 1
           /\ After("DEDENT", d)[1] = (IF d = 1 THEN "top" ELSE "item") /\ After("DEDENT", d)[2] = d - 1
           /\ After("NEWLINE", d)[1] = (IF d = 0 THEN "top" ELSE "want") /\ After("NEWLINE", d)[2] = d
BY DEF After

\* A call at a line break, with the next line at column x or, at the end of the text,
\* with x = 0.
LEMMA BreakStep ==
    ASSUME NEW s, NEW p, NEW dep, NEW op, NEW L, NEW col, Sync(s, p, dep, op, L, col), Rest(s, L, col),
           NEW x \in Columns, NEW r, BreakResult(s, p, x, r), r.tok # "none", Fit(r, dep),
           NEW p2, p2 = After(r.tok, dep)[1], NEW d2, d2 = After(r.tok, dep)[2]
    PROVE  /\ Sync(r.s, p2, d2, op, L, col) /\ Ahead(r.s, p2, L, col, x)
           /\ x = 0 => AtEof(r.s, p2, L, col)
<1> DEFINE u == r.s
<1>1. Fits(u, p2, d2)
  BY DEF Fit
<1>2. /\ Len(s.stack) \in Nat /\ Len(s.stack) >= 1 /\ s.pending_dedents = 0
      /\ dep = Len(s.stack) - 1 /\ dep \in 0..3 /\ L \in 0..3
      /\ (\A k \in 1..Len(s.stack) : s.stack[k] \in Nat) /\ s.stack[1] = 0
      /\ Top(s) = s.stack[Len(s.stack)] /\ Top(s) \in Nat /\ x \in Nat
      /\ (\A k \in 0..3 : col[k] \in Nat) /\ (p = "top" <=> dep = 0 /\ p # "opened")
      /\ ~s.pending_newline
  <2>1. x \in Nat
    BY DEF Columns
  <2>2. s.pending_dedents = 0 /\ ~s.pending_newline
    BY DEF Rest
  <2> QED
    BY <2>1, <2>2, SyncFacts
<1>3. \A k \in Len(s.stack)..L : col[k] > Top(s)
  BY DEF Rest, Closed
<1>4. \A k \in 0..(Len(s.stack) - 1) : k <= L => s.stack[k + 1] = col[k]
  BY DEF Sync, Along
<1>5. CASE p = "opened" /\ x > Top(s) /\ r.tok = "INDENT"
           /\ u.stack = Append(s.stack, x) /\ u.pending_newline = s.pending_newline
  <2>1. p2 = "want" /\ d2 = dep + 1
    BY <1>5, AfterTokens
  <2>2. Sync(u, p2, d2, op, L, col) /\ Len(u.stack) = L + 2 /\ u.stack[L + 2] = x
    <3>1. Sync(s, "opened", dep, op, L, col) /\ Fits(u, "want", dep + 1) /\ u.stack = Append(s.stack, x)
      BY <1>1, <1>5, <2>1
    <3> HIDE DEF u
    <3>2. Sync(u, "want", dep + 1, op, L, col) /\ Len(u.stack) = L + 2 /\ u.stack[L + 2] = x
      BY <3>1, SyncIndent
    <3> QED
      BY <2>1, <3>2
  <2>3. Top(u) = x /\ ~u.pending_newline
    BY <1>2, <1>5, <2>2 DEF Top
  <2>4. Closed(u.stack, col, L, x)
    BY <1>2, <2>2 DEF Closed
  <2>5. x # 0
    BY <1>2, <1>5
  <2> HIDE DEF u
  <2>6. Ahead(u, p2, L, col, x)
    BY <1>2, <2>1, <2>3, <2>4 DEF Ahead
  <2> QED
    BY <2>2, <2>5, <2>6 DEF u
<1>6. CASE p = "item" /\ x < Top(s) /\ r.tok = "DEDENT"
       /\ \E n \in 1..Len(s.stack) :
             /\ n # Len(s.stack) /\ s.stack[n] <= x
             /\ \A k \in (n + 1)..Len(s.stack) : s.stack[k] > x
             /\ u.stack = SubSeq(s.stack, 1, n)
             /\ u.pending_newline <=> s.stack[n] = x
  <2> HIDE DEF u
  <2>1. PICK n \in 1..Len(s.stack) :
             /\ n # Len(s.stack) /\ s.stack[n] <= x
             /\ \A k \in (n + 1)..Len(s.stack) : s.stack[k] > x
             /\ u.stack = SubSeq(s.stack, 1, n)
             /\ u.pending_newline <=> s.stack[n] = x
    BY <1>6
  <2>2. p2 = (IF dep = 1 THEN "top" ELSE "item") /\ d2 = dep - 1
    BY <1>6, AfterTokens
  <2>3. Sync(u, p2, d2, op, L, col)
    BY <1>1, <1>6, <2>1, <2>2, SyncDedent
  <2>4. Len(u.stack) = n /\ Top(u) = s.stack[n]
    <3>1. PICK q \in Seq(Columns) : q = s.stack
      BY SyncFacts
    <3>2. n \in 1..Len(q) /\ u.stack = SubSeq(q, 1, n)
      BY <2>1, <3>1
    <3>3. Len(u.stack) = n /\ u.stack[n] = q[n]
      BY <3>2
    <3> QED
      BY <3>1, <3>3 DEF Top
  <2>5. Closed(u.stack, col, L, x)
    <3> SUFFICES ASSUME NEW k \in n..L PROVE col[k] > x
      BY <2>4 DEF Closed
    <3>0. k \in 0..3 /\ col[k] \in Nat
      <4>1. n \in Nat /\ L \in 0..3
        BY <1>2, <2>1
      <4>2. k \in 0..3
        BY <4>1
      <4> QED
        BY <1>2, <4>2
    <3>1. CASE k < Len(s.stack)
      <4>1. k \in 0..(Len(s.stack) - 1) /\ k + 1 \in (n + 1)..Len(s.stack) /\ k <= L
        BY <1>2, <2>1, <3>0, <3>1
      <4> QED
        BY <1>4, <2>1, <4>1
    <3>2. CASE ~(k < Len(s.stack))
      <4>1. k \in Len(s.stack)..L
        BY <1>2, <3>0, <3>2
      <4>2. col[k] > Top(s)
        BY <1>3, <4>1
      <4> QED
        BY <1>2, <1>6, <3>0, <4>2
    <3> QED
      BY <3>1, <3>2
  <2>6. s.stack[n] \in Nat /\ n \in Nat /\ 1 <= L /\ ~op
    <3>1. ~op /\ dep <= L
      BY <1>6 DEF Sync
    <3>2. Len(s.stack) >= 2
      BY <1>2, <2>1
    <3>3. s.stack[n] \in Nat /\ n \in Nat
      BY <1>2, <2>1
    <3>4. dep = Len(s.stack) - 1 /\ Len(s.stack) \in Nat /\ L \in 0..3
      BY <1>2
    <3>5. 1 <= L
      BY <3>1, <3>2, <3>4
    <3> QED
      BY <3>1, <3>3, <3>5
  <2>7. Ahead(u, p2, L, col, x)
    <3>1. p2 # "opened" /\ p2 # "want" /\ x >= Top(u) /\ L # 0
      BY <1>2, <2>1, <2>2, <2>4, <2>6
    <3>2. u.pending_newline => x = Top(u)
      BY <2>1, <2>4
    <3>3. ~u.pending_newline => x > Top(u)
      <4>1. ~u.pending_newline => s.stack[n] # x
        BY <2>1
      <4> QED
        BY <1>2, <2>1, <2>4, <2>6, <4>1
    <3> QED
      BY <2>5, <3>1, <3>2, <3>3 DEF Ahead
  <2>8. ASSUME x = 0 PROVE AtEof(u, p2, L, col)
    <3>1. n = 1
      <4> SUFFICES ASSUME n # 1 PROVE FALSE
        OBVIOUS
      <4>1. 1 \in 1..Len(s.stack) /\ 1 < n
        BY <1>2, <2>1, <2>6
      <4>2. Fits(s, p, dep)
        BY DEF Sync
      <4>3. s.stack[1] < s.stack[n]
        BY <2>1, <4>1, <4>2, StackAscends
      <4> QED
        BY <1>2, <2>1, <2>6, <2>8, <4>3
    <3>2. p2 \in {"top", "item"}
      BY <2>2
    <3>3. Top(u) = x
      BY <1>2, <2>4, <2>8, <3>1
    <3> QED
      BY <2>4, <2>5, <3>1, <3>2, <3>3 DEF AtEof
  <2> QED
    BY <2>3, <2>7, <2>8 DEF u
<1>7. CASE p # "opened" /\ x = Top(s) /\ r.tok = "NEWLINE" /\ u = s
  <2>1. p2 = (IF dep = 0 THEN "top" ELSE "want") /\ d2 = dep
    BY <1>7, AfterTokens
  <2>2. Sync(u, p2, d2, op, L, col)
    BY <1>1, <1>7, <2>1, SyncNewline
  <2> HIDE DEF u
  <2>3. Closed(u.stack, col, L, x)
    BY <1>3, <1>7 DEF Closed
  <2>4. dep = 0 => x = 0
    BY <1>2, <1>7
  <2>5. x >= Top(u) /\ x = Top(u) /\ ~u.pending_newline
    BY <1>2, <1>7
  <2>6. Ahead(u, p2, L, col, x)
    BY <2>1, <2>3, <2>4, <2>5 DEF Ahead
  <2>7. x = 0 => dep = 0
    <3>0. dep = 0 \/ Len(s.stack) > 1
      BY <1>2, SyncFacts
    <3> SUFFICES ASSUME x = 0, Len(s.stack) > 1 PROVE FALSE
      BY <3>0
    <3>1. 1 \in 1..Len(s.stack) /\ 1 < Len(s.stack) /\ Len(s.stack) \in 1..Len(s.stack)
      BY <1>2
    <3>2. Fits(s, p, dep)
      BY DEF Sync
    <3>3. s.stack[1] < s.stack[Len(s.stack)]
      BY <3>1, <3>2, StackAscends
    <3> QED
      BY <1>2, <1>7, <3>3
  <2>8. x = 0 => AtEof(u, p2, L, col)
    BY <2>1, <2>3, <2>5, <2>7 DEF AtEof
  <2> QED
    BY <2>2, <2>6, <2>8 DEF u
<1> QED
  BY <1>5, <1>6, <1>7 DEF BreakResult

\* A DEDENT or a NEWLINE that was pending.
LEMMA PendingStep ==
    ASSUME NEW s, NEW p, NEW dep, NEW op, NEW L, NEW col, Sync(s, p, dep, op, L, col),
           NEW r, Fit(r, dep), r.s.stack = s.stack,
           \/ p = "item" /\ r.tok = "DEDENT" /\ r.s.pending_newline = s.pending_newline
           \/ /\ p # "opened" /\ r.tok = "NEWLINE" /\ s.pending_dedents = 0
              /\ s.pending_newline /\ ~r.s.pending_newline,
           NEW p2, p2 = After(r.tok, dep)[1], NEW d2, d2 = After(r.tok, dep)[2]
    PROVE  /\ Sync(r.s, p2, d2, op, L, col)
           /\ \A x : Ahead(s, p, L, col, x) => Ahead(r.s, p2, L, col, x)
           /\ AtEof(s, p, L, col) => AtEof(r.s, p2, L, col)
<1> DEFINE u == r.s
<1>1. Fits(u, p2, d2) /\ Top(u) = Top(s)
  BY DEF Fit, Top
<1>2. CASE p = "item" /\ r.tok = "DEDENT" /\ r.s.pending_newline = s.pending_newline
  <2>1. p2 = (IF dep = 1 THEN "top" ELSE "item") /\ d2 = dep - 1
    BY <1>2, AfterTokens
  <2>2. u.stack = SubSeq(s.stack, 1, Len(s.stack)) /\ Len(s.stack) \in 1..Len(s.stack)
    <3>1. s.stack \in Seq(Columns) /\ Len(s.stack) \in Nat /\ Len(s.stack) >= 1
      BY SyncFacts
    <3>2. PICK q \in Seq(Columns) : q = s.stack
      BY <3>1
    <3>3. SubSeq(q, 1, Len(q)) = q
      OBVIOUS
    <3> QED
      BY <3>1, <3>2, <3>3
  <2>3. Sync(s, "item", dep, op, L, col) /\ Fits(u, p2, dep - 1) /\ u.pending_newline = s.pending_newline
        /\ u.stack = s.stack
    BY <1>1, <1>2, <2>1
  <2>4. L # 0
    <3>1. ~op /\ dep <= L
      BY <1>2 DEF Sync
    <3>2. dep # 0 /\ dep \in 0..3 /\ L \in 0..3
      BY <1>2, SyncFacts
    <3> QED
      BY <3>1, <3>2
  <2> HIDE DEF u
  <2>5. Sync(u, p2, d2, op, L, col)
    BY <2>1, <2>2, <2>3, SyncDedent
  <2>6. p2 # "opened" /\ p2 # "want" /\ p2 \in {"top", "item"}
    BY <2>1
  <2>7. ASSUME NEW x, Ahead(s, p, L, col, x) PROVE Ahead(u, p2, L, col, x)
    BY <1>1, <1>2, <2>3, <2>4, <2>6, <2>7 DEF Ahead
  <2>8. AtEof(s, p, L, col) => AtEof(u, p2, L, col)
    BY <1>1, <2>3, <2>6 DEF AtEof
  <2> QED
    BY <2>5, <2>7, <2>8 DEF u
<1>3. CASE /\ p # "opened" /\ r.tok = "NEWLINE" /\ s.pending_dedents = 0
           /\ s.pending_newline /\ ~r.s.pending_newline
  <2>1. p2 = (IF dep = 0 THEN "top" ELSE "want") /\ d2 = dep
    BY <1>3, AfterTokens
  <2>2. u.stack = s.stack /\ ~u.pending_newline /\ Fits(u, p2, dep)
    BY <1>1, <1>3, <2>1
  <2>3. dep = 0 => Len(s.stack) = 1 /\ Top(s) = 0
    <3>1. \A n, e \in Nat, d \in 0..3 : d = n - 1 + e /\ e = 0 => (d = 0 => n = 1)
      OBVIOUS
    <3>2. Len(s.stack) \in Nat /\ s.pending_dedents \in Nat /\ dep \in 0..3
          /\ dep = Len(s.stack) - 1 + s.pending_dedents /\ s.stack[1] = 0
          /\ Top(s) = s.stack[Len(s.stack)]
      BY SyncFacts, ZenonT(60)
    <3>3. dep = 0 => Len(s.stack) = 1
      BY <1>3, <3>1, <3>2, Zenon
    <3> QED
      BY <3>2, <3>3, Zenon
  <2>4. Len(s.stack) = 1 => dep = 0
    <3>1. \A n, e \in Nat, d \in 0..3 : d = n - 1 + e /\ e = 0 => (n = 1 => d = 0)
      OBVIOUS
    <3>2. Len(s.stack) \in Nat /\ s.pending_dedents \in Nat /\ dep \in 0..3
          /\ dep = Len(s.stack) - 1 + s.pending_dedents
      BY <1>3, SyncFacts
    <3> QED
      BY <1>3, <3>1, <3>2, Zenon
  <2> HIDE DEF u
  <2>5. Sync(u, p2, d2, op, L, col)
    BY <1>3, <2>1, <2>2, SyncNewline
  <2>6. ASSUME NEW x, Ahead(s, p, L, col, x) PROVE Ahead(u, p2, L, col, x)
    <3>1. x = Top(s) /\ x >= Top(s) /\ Closed(s.stack, col, L, x)
      BY <1>3, <2>6 DEF Ahead
    <3> QED
      BY <1>1, <2>1, <2>2, <2>3, <3>1 DEF Ahead
  <2>7. AtEof(s, p, L, col) => AtEof(u, p2, L, col)
    BY <1>1, <1>3, <2>1, <2>2, <2>4 DEF AtEof
  <2> QED
    BY <2>5, <2>6, <2>7 DEF u
<1> QED
  BY <1>2, <1>3

\* A DEDENT at the end of the text.
LEMMA EofStep ==
    ASSUME NEW s, NEW p, NEW dep, NEW op, NEW L, NEW col, Sync(s, p, dep, op, L, col),
           AtEof(s, p, L, col), Quiet(s, p), NEW r, EofResult(s, p, r), r.tok # "none", Fit(r, dep),
           NEW p2, p2 = After(r.tok, dep)[1], NEW d2, d2 = After(r.tok, dep)[2]
    PROVE  Sync(r.s, p2, d2, op, L, col) /\ AtEof(r.s, p2, L, col)
<1> DEFINE u == r.s
           m == Len(s.stack)
<1>1. p = "item" /\ m > 1 /\ r.tok = "DEDENT" /\ u.stack = SubSeq(s.stack, 1, m - 1)
      /\ u.pending_newline = s.pending_newline
  BY DEF EofResult
<1>2. p2 = (IF dep = 1 THEN "top" ELSE "item") /\ d2 = dep - 1 /\ Fits(u, p2, dep - 1)
  BY <1>1, AfterTokens DEF Fit
<1>3. ~u.pending_newline
  BY <1>1 DEF Quiet
<1> HIDE DEF u
<1>4. m \in Nat /\ m - 1 \in 1..m /\ (\A k \in 1..m : s.stack[k] \in Nat) /\ Top(s) = s.stack[m]
      /\ (\A k \in 0..3 : col[k] \in Nat) /\ L \in 0..3
  <2>1. m \in Nat /\ (\A k \in 1..m : s.stack[k] \in Nat) /\ Top(s) = s.stack[m]
        /\ (\A k \in 0..3 : col[k] \in Nat) /\ L \in 0..3
    BY SyncFacts
  <2> HIDE DEF m
  <2> QED
    BY <1>1, <2>1
<1>5. Sync(u, p2, d2, op, L, col)
  <2>1. Sync(s, "item", dep, op, L, col)
    BY <1>1
  <2> QED
    BY <1>1, <1>2, <1>4, <2>1, SyncDedent
<1>6. Len(u.stack) = m - 1 /\ Top(u) = s.stack[m - 1]
  <2>1. PICK q \in Seq(Columns) : q = s.stack
    BY SyncFacts
  <2>2. m - 1 \in 1..Len(q) /\ u.stack = SubSeq(q, 1, m - 1)
    BY <1>1, <1>4, <2>1
  <2>3. Len(u.stack) = m - 1 /\ u.stack[m - 1] = q[m - 1]
    <3> HIDE DEF m
    <3> QED
      BY <2>2
  <2> QED
    BY <2>1, <2>3 DEF Top
<1>7. s.stack[m - 1] < s.stack[m]
  <2>1. m \in 1..m /\ m - 1 < m
    <3> HIDE DEF m
    <3> QED
      BY <1>4
  <2>2. Fits(s, p, dep)
    BY DEF Sync
  <2> QED
    BY <1>4, <2>1, <2>2, StackAscends
<1>8. Closed(u.stack, col, L, Top(u))
  <2>1. \A k \in 0..(m - 1) : k <= L => s.stack[k + 1] = col[k]
    BY DEF Sync, Along
  <2>2. \A k \in m..L : col[k] > Top(s)
    BY DEF AtEof, Closed
  <2> HIDE DEF m
  <2> SUFFICES ASSUME NEW k \in (m - 1)..L PROVE col[k] > s.stack[m - 1]
    BY <1>6 DEF Closed
  <2>3. s.stack[m - 1] \in Nat /\ s.stack[m] \in Nat /\ k \in 0..3 /\ col[k] \in Nat
    BY <1>4
  <2>4. CASE k = m - 1
    <3>1. k + 1 = m /\ k \in 0..(m - 1) /\ k <= L
      BY <1>4, <2>3, <2>4
    <3>2. col[k] = s.stack[m]
      BY <2>1, <3>1
    <3> QED
      BY <1>7, <2>3, <3>2
  <2>5. CASE k # m - 1
    <3>1. k \in m..L
      BY <1>4, <2>3, <2>5
    <3> QED
      BY <1>4, <1>7, <2>2, <2>3, <3>1
  <2> QED
    BY <2>4, <2>5
<1>9. p2 \in {"top", "item"}
  BY <1>2
<1>10. AtEof(u, p2, L, col)
  BY <1>3, <1>8, <1>9 DEF AtEof
<1> QED
  BY <1>5, <1>10 DEF u

-----------------------------------------------------------------------------
(* The reference layout, line by line.                                     *)

HasColumn(c, d, n, k, x) == \E j \in 1..n : Latest(d, n + 1, k, j) /\ Column(c, d, j) = x

\* L is the level of the last of n lines, and col holds the column of the latest line
\* at each level up to L.
Levelled(c, d, n, L, col) ==
    /\ L = (IF n = 0 THEN 0 ELSE d[n]) /\ L \in 0..3 /\ col[0] = 0
    /\ \A i \in 1..n : d[i] \in 0..3
    /\ \A k \in 1..L : HasColumn(c, d, n, k, col[k])

\* What it takes for the next line l to stand at level k; any: it starts the text.
StandsAt(k, l, op, L, col, any) ==
    /\ k = 0 <=> l.word = "top"
    /\ l.opens => k < 3
    /\ op => k = L + 1 /\ l.indent > col[L]
    /\ ~op => /\ k <= L
              /\ k = 0 /\ L = 0 => any \/ l.indent = 0
              /\ k = 0 /\ L > 0 => l.indent < col[1]
              /\ k > 0 => l.indent = col[k]

LEMMA ColumnUnique ==
    ASSUME NEW c, NEW d, NEW n \in Nat, NEW k, NEW i \in 1..n, NEW j \in 1..n,
           Latest(d, n + 1, k, i), Latest(d, n + 1, k, j)
    PROVE  i = j
<1>1. d[i] = k /\ d[j] = k /\ (\A m \in (i + 1)..n : d[m] # k) /\ (\A m \in (j + 1)..n : d[m] # k)
  <2>1. (n + 1) - 1 = n
    OBVIOUS
  <2> QED
    BY <2>1 DEF Latest
<1>2. ~(i < j) /\ ~(j < i)
  <2>1. i < j => j \in (i + 1)..n
    OBVIOUS
  <2>2. j < i => i \in (j + 1)..n
    OBVIOUS
  <2> QED
    BY <1>1, <2>1, <2>2
<1> QED
  BY <1>2

LEMMA PlacedIff ==
    ASSUME NEW t, NEW c, NEW d, NEW n \in Nat, NEW L, NEW col, Levelled(c, d, n, L, col),
           NEW op, op <=> n > 0 /\ c[n].opens,
           NEW any, any <=> n = 0 /\ t[1] = c[1] /\ ~c[1].blank,
           d[n + 1] \in 0..3
    PROVE  Placed(t, c, d, n + 1) <=> StandsAt(d[n + 1], c[n + 1], op, L, col, any)
<1>1. (n + 1) - 1 = n /\ (n + 1 > 1 <=> n > 0) /\ (n + 1 = 1 <=> n = 0) /\ (n = 0 \/ n > 0)
  OBVIOUS
<1>2. PICK k, l, x : k \in 0..3 /\ k = d[n + 1] /\ l = c[n + 1] /\ x = c[n + 1].indent
  OBVIOUS
<1>3. L \in 0..3 /\ (n > 0 => L = d[n]) /\ (n = 0 => L = 0) /\ col[0] = 0
  BY <1>1 DEF Levelled
<1>4. ASSUME NEW q \in 1..L
      PROVE  \E j \in 1..n : /\ Latest(d, n + 1, q, j) /\ Column(c, d, j) = col[q]
                             /\ \A i \in 1..n : Latest(d, n + 1, q, i) => i = j
  <2>1. PICK j \in 1..n : Latest(d, n + 1, q, j) /\ Column(c, d, j) = col[q]
    BY DEF Levelled, HasColumn
  <2>2. \A i \in 1..n : Latest(d, n + 1, q, i) => i = j
    BY <2>1, ColumnUnique
  <2> QED
    BY <2>1, <2>2
<1>5. n > 0 => Column(c, d, n) = col[L]
  <2> SUFFICES ASSUME n > 0 PROVE Column(c, d, n) = col[L]
    OBVIOUS
  <2>1. CASE L = 0
    BY <1>3, <2>1 DEF Column
  <2>2. CASE L # 0
    <3>1. L \in 1..L
      BY <1>3, <2>2
    <3>2. PICK j \in 1..n : Column(c, d, j) = col[L] /\ \A i \in 1..n : Latest(d, n + 1, L, i) => i = j
      BY <1>4, <3>1
    <3>3. Latest(d, n + 1, L, n)
      BY <1>1, <1>3 DEF Latest
    <3>4. n = j
      BY <3>2, <3>3
    <3> QED
      BY <3>2, <3>4
  <2> QED
    BY <2>1, <2>2
<1>6. ~op /\ k > 0 =>
         ((k <= L \/ n = 0) =>
            ((\E j \in 1..n : Latest(d, n + 1, k, j) /\ x = Column(c, d, j)) <=> k <= L /\ x = col[k]))
  <2> SUFFICES ASSUME k > 0, k <= L \/ n = 0
               PROVE  (\E j \in 1..n : Latest(d, n + 1, k, j) /\ x = Column(c, d, j)) <=> k <= L /\ x = col[k]
    OBVIOUS
  <2>1. CASE k <= L
    <3>1. k \in 1..L
      BY <1>2, <1>3, <2>1
    <3> QED
      BY <1>4, <2>1, <3>1
  <2>2. CASE ~(k <= L)
    BY <1>1, <2>2
  <2> QED
    BY <2>1, <2>2
<1>7. L > 0 => ((\E j \in 1..n : Latest(d, n + 1, 1, j) /\ x < Column(c, d, j)) <=> x < col[1])
  <2> SUFFICES ASSUME L > 0
               PROVE (\E j \in 1..n : Latest(d, n + 1, 1, j) /\ x < Column(c, d, j)) <=> x < col[1]
    OBVIOUS
  <2>1. 1 \in 1..L
    BY <1>3
  <2> QED
    BY <1>4, <2>1
<1>8. ~op /\ k = 0 => (TopColumn(t, c, d, n + 1) <=>
         (L = 0 => any \/ x = 0) /\ (L > 0 => x < col[1]))
  <2>1. CASE n = 0
    <3>1. TopColumn(t, c, d, n + 1) <=> c[1].indent = 0 \/ (t[1] = c[1] /\ ~c[1].blank)
      BY <1>1, <2>1 DEF TopColumn
    <3>2. L = 0 /\ ~(L > 0) /\ x = c[1].indent
      BY <1>2, <1>3, <2>1
    <3>3. any <=> t[1] = c[1] /\ ~c[1].blank
      BY <2>1
    <3> QED
      BY <3>1, <3>2, <3>3
  <2>2. CASE n > 0 /\ L = 0
    <3>1. TopColumn(t, c, d, n + 1) <=> x = 0
      BY <1>1, <1>2, <1>3, <2>2 DEF TopColumn
    <3>2. ~any /\ ~(L > 0)
      BY <2>2
    <3> QED
      BY <2>2, <3>1, <3>2
  <2>3. CASE n > 0 /\ L > 0
    <3>1. d[(n + 1) - 1] # 0 /\ n + 1 # 1
      BY <1>1, <1>3, <2>3
    <3>2. TopColumn(t, c, d, n + 1) <=>
             \E j \in 1..n : Latest(d, n + 1, 1, j) /\ x < Column(c, d, j)
      BY <1>1, <1>2, <3>1 DEF TopColumn
    <3>3. L # 0
      BY <2>3
    <3> QED
      BY <1>7, <2>3, <3>2, <3>3
  <2> QED
    BY <1>1, <1>3, <2>1, <2>2, <2>3
<1>9. Placed(t, c, d, n + 1) <=>
        /\ k = 0 <=> l.word = "top"
        /\ l.opens => k < 3
        /\ op => k = L + 1 /\ x > col[L]
        /\ ~op => /\ n > 0 => k <= L
                  /\ k = 0 => TopColumn(t, c, d, n + 1)
                  /\ k > 0 => \E j \in 1..n : Latest(d, n + 1, k, j) /\ x = Column(c, d, j)
  <2>1. op => (n > 0 /\ d[(n + 1) - 1] = L /\ Column(c, d, (n + 1) - 1) = col[L])
    BY <1>1, <1>3, <1>5
  <2>2. n > 0 => d[(n + 1) - 1] = L
    BY <1>1, <1>3
  <2>3. (n + 1 > 1 /\ c[(n + 1) - 1].opens) <=> op
    BY <1>1
  <2>4. CASE op
    BY <1>1, <1>2, <2>1, <2>3, <2>4 DEF Placed, MaxDepth
  <2>5. CASE ~op
    BY <1>1, <1>2, <2>2, <2>3, <2>5 DEF Placed, MaxDepth
  <2> QED
    BY <2>4, <2>5
<1>10. StandsAt(d[n + 1], c[n + 1], op, L, col, any) <=>
        /\ k = 0 <=> l.word = "top"
        /\ l.opens => k < 3
        /\ op => k = L + 1 /\ x > col[L]
        /\ ~op => /\ k <= L
                  /\ k = 0 => (L = 0 => any \/ x = 0) /\ (L > 0 => x < col[1])
                  /\ k > 0 => x = col[k]
  BY <1>2 DEF StandsAt
<1>11. k = 0 => k <= L
  BY <1>3
<1>12. (n > 0 => k <= L) => (k <= L \/ n = 0)
  BY <1>1
<1>13. (k = 0 \/ k > 0) /\ ~(k = 0 /\ k > 0)
  BY <1>2
<1>14. CASE k = 0
  BY <1>8, <1>9, <1>10, <1>11, <1>13, <1>14
<1>15. CASE k > 0
  BY <1>6, <1>9, <1>10, <1>12, <1>13, <1>15
<1> QED
  BY <1>13, <1>14, <1>15

\* Whether the grammar takes line l where it stands.
Takes(l, p, dep) ==
    \/ l.word = "top" /\ p = "top"
    \/ l.word = "body" /\ p = "want" /\ (l.opens => dep < 3)

\* The open levels of the stack, against the columns of the lines.
LEMMA SyncColumns ==
    ASSUME NEW s, NEW p, NEW dep, NEW op, NEW L, NEW col, Sync(s, p, dep, op, L, col),
           NEW k \in 0..L, k < Len(s.stack)
    PROVE  /\ col[k] \in Nat /\ col[k] = s.stack[k + 1] /\ col[k] <= Top(s)
           /\ \A j \in 0..k : j < k => col[j] < col[k]
           /\ k + 1 < Len(s.stack) => col[k] < Top(s)
<1>1. PICK m \in Nat : m = Len(s.stack)
  BY SyncFacts
<1>2. L \in 0..3 /\ (\A i \in 0..3 : col[i] \in Nat) /\ Top(s) = s.stack[m] /\ Top(s) \in Nat
  BY <1>1, SyncFacts
<1>3. k \in 0..3 /\ k + 1 \in 1..m /\ m \in 1..m
  BY <1>1, <1>2
<1>4. \A i \in 0..(m - 1) : i <= L => s.stack[i + 1] = col[i]
  BY <1>1 DEF Sync, Along
<1>5. \A i, j \in 1..m : i < j => s.stack[i] < s.stack[j]
  <2>1. Fits(s, p, dep)
    BY DEF Sync
  <2> QED
    BY <1>1, <2>1, StackAscends
<1>6. col[k] = s.stack[k + 1] /\ col[k] \in Nat
  <2>1. k \in 0..(m - 1) /\ k <= L
    BY <1>2, <1>3
  <2> QED
    BY <1>2, <1>3, <1>4, <2>1
<1>7. k + 1 < m => col[k] < Top(s)
  BY <1>2, <1>3, <1>5, <1>6
<1>8. col[k] <= Top(s)
  <2>1. k + 1 = m \/ k + 1 < m
    BY <1>3
  <2>2. k + 1 = m => col[k] = Top(s)
    BY <1>2, <1>6
  <2> QED
    BY <1>2, <1>6, <1>7, <2>1, <2>2
<1>9. ASSUME NEW j \in 0..k, j < k PROVE col[j] < col[k]
  <2>1. j + 1 \in 1..m /\ j + 1 < k + 1 /\ j \in 0..(m - 1) /\ j <= L
    BY <1>2, <1>3, <1>9
  <2> QED
    BY <1>3, <1>4, <1>5, <1>6, <2>1
<1> QED
  BY <1>1, <1>6, <1>7, <1>8, <1>9

\* A line that the parser takes stands at the parser's depth, and at no other level.
LEMMA TakenStands ==
    ASSUME NEW s, NEW p, NEW dep, NEW op, NEW L, NEW col, Sync(s, p, dep, op, L, col), col[0] = 0,
           NEW l, l.indent \in Nat, Takes(l, p, dep), NEW any,
           Ahead(s, p, L, col, l.indent) \/ (any /\ p = "top" /\ ~op /\ L = 0)
    PROVE  StandsAt(dep, l, op, L, col, any)
<1> DEFINE x == l.indent
<1>1. /\ dep \in 0..3 /\ L \in 0..3 /\ Len(s.stack) \in Nat /\ Len(s.stack) >= 1
      /\ dep = Len(s.stack) - 1 + s.pending_dedents /\ Top(s) \in Nat
      /\ (p = "top" <=> dep = 0 /\ p # "opened") /\ (p # "item" => s.pending_dedents = 0)
  BY SyncFacts
<1>2. p \in {"top", "want"} /\ (dep = 0 <=> p = "top") /\ s.pending_dedents = 0
  BY <1>1 DEF Takes
<1>3. dep = 0 <=> l.word = "top"
  BY <1>1, <1>2 DEF Takes
<1>4. l.opens => dep < 3
  BY <1>2 DEF Takes
<1>5. Len(s.stack) = dep + 1
  BY <1>2, SyncFacts
<1>6. ASSUME op PROVE dep = L + 1 /\ x > col[L]
  <2>1. dep = L + 1 /\ p = "want"
    BY <1>2, <1>6 DEF Sync
  <2>2. x = Top(s)
    BY <1>6, <2>1 DEF Ahead
  <2>3. L \in 0..L /\ L < Len(s.stack) /\ L + 1 < Len(s.stack)
    BY <1>1, <1>5, <2>1
  <2>4. col[L] \in Nat /\ col[L] < Top(s)
    BY <2>3, SyncColumns
  <2> QED
    BY <1>1, <2>1, <2>2, <2>4
<1>7. ASSUME ~op
      PROVE  /\ dep <= L
             /\ dep = 0 /\ L = 0 => any \/ x = 0
             /\ dep = 0 /\ L > 0 => x < col[1]
             /\ dep > 0 => x = col[dep]
  <2>1. dep <= L
    BY <1>7 DEF Sync
  <2>2. dep = 0 /\ L = 0 => any \/ x = 0
    BY <1>2 DEF Ahead
  <2>3. ASSUME dep = 0, L > 0 PROVE x < col[1]
    <3>1. 1 \in Len(s.stack)..L
      BY <1>1, <1>5, <2>3
    <3>2. Closed(s.stack, col, L, x)
      BY <1>1, <2>3 DEF Ahead
    <3>3. col[1] > x
      BY <3>1, <3>2 DEF Closed
    <3>4. col[1] \in Nat
      BY <1>1, <2>3, SyncFacts
    <3> QED
      BY <3>3, <3>4
  <2>4. ASSUME dep > 0 PROVE x = col[dep]
    <3>1. p = "want"
      BY <1>2, <2>4
    <3>2. x = Top(s)
      BY <3>1 DEF Ahead
    <3>3. dep \in 0..L /\ dep < Len(s.stack)
      BY <1>1, <1>5, <2>1
    <3>4. col[dep] = s.stack[dep + 1]
      BY <3>3, SyncColumns
    <3>5. Top(s) = s.stack[dep + 1]
      BY <1>5 DEF Top
    <3> QED
      BY <3>2, <3>4, <3>5
  <2> QED
    BY <2>1, <2>2, <2>3, <2>4
<1> QED
  BY <1>3, <1>4, <1>6, <1>7 DEF StandsAt

LEMMA TakenUnique ==
    ASSUME NEW s, NEW p, NEW dep, NEW op, NEW L, NEW col, Sync(s, p, dep, op, L, col), col[0] = 0,
           NEW l, l.indent \in Nat, Takes(l, p, dep), NEW any,
           Ahead(s, p, L, col, l.indent) \/ (any /\ p = "top" /\ ~op /\ L = 0),
           NEW k \in 0..3, StandsAt(k, l, op, L, col, any)
    PROVE  k = dep
<1> DEFINE x == l.indent
<1>1. StandsAt(dep, l, op, L, col, any)
  BY TakenStands
<1>2. dep \in 0..3 /\ L \in 0..3 /\ Len(s.stack) \in Nat /\ Top(s) \in Nat
      /\ (\A i \in 0..3 : col[i] \in Nat)
  BY SyncFacts
<1>3. CASE op
  BY <1>1, <1>3 DEF StandsAt
<1>4. CASE ~op /\ k = 0
  BY <1>1, <1>4 DEF StandsAt
<1>5. CASE ~op /\ k # 0
  <2>1. dep # 0
    BY <1>1, <1>5 DEF StandsAt
  <2>2. k \in 1..L /\ x = col[k] /\ dep \in 1..L /\ x = col[dep]
    BY <1>1, <1>2, <1>5, <2>1 DEF StandsAt
  <2>3. p = "want" /\ Ahead(s, p, L, col, x)
    BY <1>2, <2>1, SyncFacts DEF Takes
  <2>4. x = Top(s) /\ Closed(s.stack, col, L, x)
    BY <2>3 DEF Ahead
  <2>5. Len(s.stack) = dep + 1
    BY <2>3, SyncFacts
  <2>6. CASE k < dep
    <3>1. k \in 0..L /\ k < Len(s.stack) /\ k + 1 < Len(s.stack)
      BY <1>2, <2>2, <2>5, <2>6
    <3>2. col[k] < Top(s)
      BY <3>1, SyncColumns
    <3> QED
      BY <1>2, <2>2, <2>4, <3>2
  <2>7. CASE k > dep
    <3>1. k \in Len(s.stack)..L
      BY <1>2, <2>2, <2>5, <2>7
    <3>2. col[k] > x
      BY <2>4, <3>1 DEF Closed
    <3> QED
      BY <1>2, <2>2, <3>2
  <2> QED
    BY <1>2, <2>2, <2>6, <2>7
<1> QED
  BY <1>3, <1>4, <1>5

\* A line whose text the parser does not take stands nowhere.
LEMMA RefusedText ==
    ASSUME NEW s, NEW p, NEW dep, NEW op, NEW L, NEW col, Sync(s, p, dep, op, L, col), col[0] = 0,
           Quiet(s, p), NEW l, l.indent \in Nat, l.word \in {"top", "body"}, ~Takes(l, p, dep), NEW any,
           Ahead(s, p, L, col, l.indent) \/ (any /\ p = "top" /\ ~op /\ L = 0),
           NEW k \in 0..3, StandsAt(k, l, op, L, col, any)
    PROVE  FALSE
<1> DEFINE x == l.indent
<1>1. /\ dep \in 0..3 /\ L \in 0..3 /\ Len(s.stack) \in Nat /\ Top(s) \in Nat
      /\ (\A i \in 0..3 : col[i] \in Nat) /\ p \in {"top", "opened", "want", "item"}
      /\ Len(s.stack) = dep + 1 /\ (p = "top" => dep = 0) /\ (p \in {"want", "item"} => dep # 0)
  <2>1. dep \in 0..3 /\ L \in 0..3 /\ Len(s.stack) \in Nat /\ Top(s) \in Nat
        /\ (\A i \in 0..3 : col[i] \in Nat) /\ p \in {"top", "opened", "want", "item"}
        /\ (p = "top" <=> dep = 0 /\ p # "opened")
    BY SyncFacts, Zenon
  <2>2. s.pending_dedents = 0
    BY DEF Quiet
  <2>3. Len(s.stack) = dep + 1
    BY <2>2, SyncFacts
  <2>4. (p = "top" => dep = 0) /\ (p \in {"want", "item"} => dep # 0)
    BY <2>1
  <2> QED
    BY <2>1, <2>3, <2>4, Zenon
<1>2. CASE ~Ahead(s, p, L, col, x)
  BY <1>1, <1>2 DEF Takes, StandsAt
<1>3. CASE Ahead(s, p, L, col, x)
  <2>1. Ahead(s, p, L, col, x)
    BY <1>3
  <2>2. Closed(s.stack, col, L, x) /\ p # "opened" /\ x \in Nat
    BY <2>1 DEF Ahead
  <2>3. ASSUME ~op, k # 0 PROVE k \in 1..L /\ x = col[k] /\ k < Len(s.stack) /\ k <= dep
    <3>1. k \in 1..L /\ x = col[k]
      BY <1>1, <2>3 DEF StandsAt
    <3>2. k \notin Len(s.stack)..L
      BY <1>1, <2>2, <3>1 DEF Closed
    <3> QED
      BY <1>1, <3>1, <3>2
  <2>4. ASSUME ~op, k = 0, dep # 0 PROVE x < Top(s)
    <3>1. dep <= L
      BY <2>4 DEF Sync
    <3>2. L > 0 /\ 1 \in 0..L /\ 1 < Len(s.stack)
      BY <1>1, <2>4, <3>1
    <3>3. x < col[1]
      BY <2>4, <3>2 DEF StandsAt
    <3>4. col[1] <= Top(s) /\ col[1] \in Nat
      BY <3>2, SyncColumns
    <3> QED
      BY <1>1, <2>2, <3>3, <3>4
  <2>5. CASE p = "top"
    <3>1. l.word = "body" /\ k # 0 /\ dep = 0 /\ ~op
      BY <1>1, <2>5 DEF Takes, StandsAt, Sync
    <3> QED
      BY <1>1, <2>3, <3>1
  <2>6. CASE p = "want"
    <3>0. x = Top(s)
      BY <2>1, <2>6 DEF Ahead
    <3>1. CASE op
      <4>1. k = dep /\ k # 0
        BY <1>1, <2>6, <3>1 DEF StandsAt, Sync
      <4> QED
        BY <2>6, <4>1 DEF Takes, StandsAt
    <3>2. CASE ~op /\ k = 0
      BY <1>1, <2>4, <2>6, <3>0, <3>2
    <3>3. CASE ~op /\ k # 0
      <4>1. k = dep
        <5>1. k \in 0..L /\ k < Len(s.stack) /\ x = col[k] /\ k <= dep
          BY <1>1, <2>3, <3>3
        <5>2. k + 1 < Len(s.stack) => col[k] < Top(s)
          BY <5>1, SyncColumns
        <5>3. k < dep => k + 1 < Len(s.stack)
          BY <1>1, <5>1
        <5> QED
          BY <1>1, <3>0, <5>1, <5>2, <5>3
      <4>2. l.word = "body"
        BY <3>3 DEF StandsAt
      <4> QED
        BY <2>6, <4>1, <4>2 DEF Takes, StandsAt
    <3> QED
      BY <3>1, <3>2, <3>3
  <2>7. CASE p = "item"
    <3>0. x > Top(s) /\ ~op
      BY <2>1, <2>7 DEF Ahead, Quiet, Sync
    <3>1. CASE k = 0
      BY <1>1, <2>2, <2>4, <2>7, <3>0, <3>1
    <3>2. CASE k # 0
      <4>1. k \in 0..L /\ k < Len(s.stack) /\ x = col[k]
        BY <1>1, <2>3, <3>0, <3>2
      <4>2. col[k] <= Top(s)
        BY <4>1, SyncColumns
      <4> QED
        BY <1>1, <2>2, <3>0, <4>1, <4>2
    <3> QED
      BY <3>1, <3>2
  <2> QED
    BY <1>1, <2>2, <2>5, <2>6, <2>7
<1> QED
  BY <1>2, <1>3

\* The last line read is no comment, and the parser is at its level.
Settled(p, dep, L) == dep = L /\ p # "want"

\* A line at whose break the scanner has no token stands nowhere.
LEMMA RefusedBreak ==
    ASSUME NEW s, NEW p, NEW dep, NEW op, NEW L, NEW col, Sync(s, p, dep, op, L, col), col[0] = 0,
           Rest(s, L, col), Settled(p, dep, L), NEW r, NEW l, l.indent \in Nat,
           BreakResult(s, p, l.indent, r), r.tok = "none",
           NEW k \in 0..3, NEW any, ~any, StandsAt(k, l, op, L, col, any)
    PROVE  FALSE
<1> DEFINE x == l.indent
<1>1. /\ dep \in 0..3 /\ L \in 0..3 /\ Len(s.stack) \in Nat /\ Top(s) \in Nat
      /\ (\A i \in 0..3 : col[i] \in Nat) /\ p \in {"top", "opened", "want", "item"}
      /\ Len(s.stack) = dep + 1 /\ (p = "top" => dep = 0) /\ (p = "item" => dep # 0)
      /\ Top(s) = s.stack[Len(s.stack)] /\ s.stack[1] = 0
  <2>1. s.pending_dedents = 0
    BY DEF Rest
  <2>2. dep \in 0..3 /\ L \in 0..3 /\ Len(s.stack) \in Nat /\ Top(s) \in Nat
    BY SyncFacts
  <2>3. (\A i \in 0..3 : col[i] \in Nat) /\ p \in {"top", "opened", "want", "item"}
        /\ (p = "top" <=> dep = 0 /\ p # "opened")
    BY SyncFacts
  <2>4. Len(s.stack) = dep + 1
    BY <2>1, SyncFacts
  <2>5. (p = "top" => dep = 0) /\ (p = "item" => dep # 0)
    BY <2>3
  <2>6. Top(s) = s.stack[Len(s.stack)] /\ s.stack[1] = 0
    BY SyncFacts
  <2> QED
    BY <2>2, <2>3, <2>4, <2>5, <2>6, Zenon
<1>0. dep = L /\ p # "want"
  BY DEF Settled
<1>2. /\ p = "opened" => ~(x > Top(s))
      /\ p = "item" => x > Top(s)
      /\ p \in {"top", "want"} => x # Top(s)
  BY DEF BreakResult
<1>3. CASE p = "opened"
  <2>1. op
    BY <1>3 DEF Sync
  <2>2. L \in 0..L /\ L < Len(s.stack) /\ L + 1 = Len(s.stack)
    BY <1>0, <1>1
  <2>3. col[L] = s.stack[L + 1]
    BY <2>2, SyncColumns
  <2>4. x > col[L]
    BY <2>1 DEF StandsAt
  <2>5. x > Top(s)
    BY <1>1, <2>2, <2>3, <2>4
  <2> QED
    BY <1>2, <1>3, <2>5
<1>4. CASE p = "item"
  <2>1. ~op /\ L > 0
    BY <1>0, <1>1, <1>4 DEF Sync
  <2>2. PICK j \in 1..L : x <= col[j]
    <3>1. k = 0 => x < col[1]
      BY <2>1 DEF StandsAt
    <3>2. k # 0 => k \in 1..L /\ x = col[k]
      BY <1>1, <2>1 DEF StandsAt
    <3>3. 1 \in 1..L /\ col[1] \in Nat
      BY <1>1, <2>1
    <3>4. CASE k = 0
      BY <3>1, <3>3, <3>4
    <3>5. CASE k # 0
      BY <1>1, <3>2, <3>5
    <3> QED
      BY <3>4, <3>5
  <2>3. j \in 0..L /\ j < Len(s.stack)
    BY <1>0, <1>1, <2>2
  <2>4. col[j] <= Top(s) /\ col[j] \in Nat
    BY <2>3, SyncColumns
  <2>5. Top(s) \in Nat /\ x \in Nat /\ x > Top(s)
    BY <1>1, <1>2, <1>4
  <2> QED
    BY <2>2, <2>4, <2>5
<1>5. CASE p = "top"
  <2>1. ~op /\ L = 0 /\ Top(s) = 0
    BY <1>0, <1>1, <1>5 DEF Sync
  <2>2. x = 0
    BY <1>1, <2>1 DEF StandsAt
  <2> QED
    BY <1>2, <1>5, <2>1, <2>2
<1> QED
  BY <1>0, <1>1, <1>3, <1>4, <1>5

\* At the end of the text the scanner has a token, or the last line opens a block.
LEMMA RefusedEnd ==
    ASSUME NEW s, NEW p, NEW dep, NEW op, NEW L, NEW col, Sync(s, p, dep, op, L, col),
           Rest(s, L, col), p # "want", NEW r, BreakResult(s, p, 0, r), r.tok = "none"
    PROVE  op
<1>1. /\ Top(s) \in Nat /\ p \in {"top", "opened", "want", "item"}
      /\ Len(s.stack) = dep + 1 /\ (p = "top" => dep = 0)
      /\ Top(s) = s.stack[Len(s.stack)] /\ s.stack[1] = 0
  BY SyncFacts DEF Rest
<1>2. /\ p = "item" => 0 > Top(s)
      /\ p \in {"top", "want"} => 0 # Top(s)
  BY DEF BreakResult
<1>3. p = "top" => Top(s) = 0
  BY <1>1
<1>4. p = "opened"
  BY <1>1, <1>2, <1>3
<1> QED
  BY <1>4 DEF Sync

LEMMA RefusedEof ==
    ASSUME NEW s, NEW p, NEW dep, NEW op, NEW L, NEW col, Sync(s, p, dep, op, L, col),
           AtEof(s, p, L, col), Quiet(s, p), NEW r, EofResult(s, p, r), r.tok = "none"
    PROVE  p = "top"
<1>1. s.pending_dedents = 0 /\ p \in {"top", "item"}
  BY DEF Quiet, AtEof
<1>2. (p = "item" => dep # 0) /\ (dep = 0 \/ Len(s.stack) > 1)
  BY <1>1, SyncFacts
<1>3. ~(p = "item" /\ Len(s.stack) > 1)
  BY DEF EofResult
<1> QED
  BY <1>1, <1>2, <1>3

-----------------------------------------------------------------------------
(* A layout depends on the lines before it only.                           *)

Agree(c, c2, d, d2, n) == \A j \in 1..n : c[j] = c2[j] /\ d[j] = d2[j]

LEMMA LatestPrefix ==
    ASSUME NEW c, NEW c2, NEW d, NEW d2, NEW n \in Nat, Agree(c, c2, d, d2, n),
           NEW i \in 1..(n + 1), NEW k, NEW j \in 1..(i - 1)
    PROVE  (Latest(d, i, k, j) <=> Latest(d2, i, k, j)) /\ Column(c, d, j) = Column(c2, d2, j)
<1>1. j \in 1..n /\ \A m \in (j + 1)..(i - 1) : m \in 1..n
  OBVIOUS
<1>2. d[j] = d2[j] /\ c[j] = c2[j] /\ \A m \in (j + 1)..(i - 1) : d[m] = d2[m]
  BY <1>1 DEF Agree
<1> QED
  BY <1>2 DEF Latest, Column

LEMMA PlacedPrefix ==
    ASSUME NEW t, NEW t2, NEW c, NEW c2, NEW d, NEW d2, NEW n \in Nat, Agree(c, c2, d, d2, n),
           t[1] = t2[1], NEW i \in 1..n, Placed(t, c, d, i)
    PROVE  Placed(t2, c2, d2, i)
<1>1. c[i] = c2[i] /\ d[i] = d2[i] /\ i \in 1..(n + 1)
  BY DEF Agree
<1>2. i > 1 => i - 1 \in 1..(i - 1) /\ c[i - 1] = c2[i - 1] /\ d[i - 1] = d2[i - 1]
  BY DEF Agree
<1>3. \A k : \A j \in 1..(i - 1) :
         (Latest(d, i, k, j) <=> Latest(d2, i, k, j)) /\ Column(c, d, j) = Column(c2, d2, j)
  BY <1>1, LatestPrefix
<1>4. i > 1 => Column(c, d, i - 1) = Column(c2, d2, i - 1)
  BY <1>2, <1>3
<1>5. i = 1 => c[1] = c2[1]
  BY <1>1
<1>6. TopColumn(t, c, d, i) => TopColumn(t2, c2, d2, i)
  <2> SUFFICES ASSUME TopColumn(t, c, d, i) PROVE TopColumn(t2, c2, d2, i)
    OBVIOUS
  <2>1. CASE i = 1
    BY <1>5, <2>1 DEF TopColumn
  <2>2. CASE i > 1 /\ d[i - 1] = 0
    BY <1>1, <1>2, <2>2 DEF TopColumn
  <2>3. CASE i > 1 /\ d[i - 1] # 0
    <3>0. i # 1
      BY <2>3
    <3>1. PICK j \in 1..(i - 1) : Latest(d, i, 1, j) /\ c[i].indent < Column(c, d, j)
      BY <2>3, <3>0 DEF TopColumn
    <3>2. Latest(d2, i, 1, j) /\ c2[i].indent < Column(c2, d2, j)
      BY <1>1, <1>3, <3>1
    <3> QED
      BY <1>2, <2>3, <3>0, <3>2 DEF TopColumn
  <2> QED
    BY <2>1, <2>2, <2>3
<1>7. CASE i > 1 /\ c[i - 1].opens
  BY <1>1, <1>2, <1>4, <1>7 DEF Placed
<1>8. CASE ~(i > 1 /\ c[i - 1].opens)
  <2>1. ~(i > 1 /\ c2[i - 1].opens)
    BY <1>2, <1>8
  <2>2. /\ d[i] = 0 <=> c[i].word = "top"
        /\ c[i].opens => d[i] < MaxDepth
        /\ i > 1 => d[i] <= d[i - 1]
        /\ d[i] = 0 => TopColumn(t, c, d, i)
        /\ d[i] > 0 => \E j \in 1..(i - 1) : Latest(d, i, d[i], j) /\ c[i].indent = Column(c, d, j)
    BY <1>8 DEF Placed
  <2>3. d[i] > 0 => \E j \in 1..(i - 1) : Latest(d2, i, d2[i], j) /\ c2[i].indent = Column(c2, d2, j)
    BY <1>1, <1>3, <2>2
  <2>4. i > 1 => d2[i] <= d2[i - 1]
    BY <1>1, <1>2, <2>2
  <2> QED
    BY <1>1, <1>6, <2>1, <2>2, <2>3, <2>4 DEF Placed
<1> QED
  BY <1>7, <1>8

LEMMA LevelledPrefix ==
    ASSUME NEW c, NEW c2, NEW d, NEW d2, NEW n \in Nat, Agree(c, c2, d, d2, n), NEW L, NEW col,
           Levelled(c, d, n, L, col)
    PROVE  Levelled(c2, d2, n, L, col)
<1>1. L = (IF n = 0 THEN 0 ELSE d2[n]) /\ \A i \in 1..n : d2[i] \in 0..3
  BY DEF Agree, Levelled
<1>2. ASSUME NEW k \in 1..L PROVE HasColumn(c2, d2, n, k, col[k])
  <2>1. PICK j \in 1..n : Latest(d, n + 1, k, j) /\ Column(c, d, j) = col[k]
    BY DEF Levelled, HasColumn
  <2>2. n + 1 \in 1..(n + 1) /\ j \in 1..((n + 1) - 1)
    OBVIOUS
  <2>3. Latest(d2, n + 1, k, j) /\ Column(c2, d2, j) = col[k]
    BY <2>1, <2>2, LatestPrefix
  <2> QED
    BY <2>3 DEF HasColumn
<1> QED
  BY <1>1, <1>2 DEF Levelled

\* One more line, at level dep.
NewColumns(col, dep, x) == [col EXCEPT ![dep] = IF dep = 0 THEN 0 ELSE x]

LEMMA LevelledNext ==
    ASSUME NEW c, NEW d, NEW n \in Nat, NEW L, NEW col, col \in ColumnMaps,
           Levelled(c, d, n, L, col), d[n + 1] \in 0..3, c[n + 1].indent \in Columns,
           d[n + 1] <= L + 1
    PROVE  /\ NewColumns(col, d[n + 1], c[n + 1].indent) \in ColumnMaps
           /\ Levelled(c, d, n + 1, d[n + 1], NewColumns(col, d[n + 1], c[n + 1].indent))
<1>1. PICK k, x, w : k = d[n + 1] /\ x = c[n + 1].indent /\ w = NewColumns(col, k, x)
  OBVIOUS
<1>2. k \in 0..3 /\ L \in 0..3 /\ k <= L + 1 /\ x \in Columns /\ 0 \in Columns /\ col[0] = 0
      /\ col \in [0..3 -> Columns]
  BY <1>1 DEF Levelled, Columns, ColumnMaps, MaxDepth
<1>3. w \in [0..3 -> Columns] /\ w[k] = (IF k = 0 THEN 0 ELSE x) /\ \A i \in 0..3 : i # k => w[i] = col[i]
  BY <1>1, <1>2 DEF NewColumns
<1>4. w[0] = 0
  BY <1>2, <1>3
<1>5. \A i \in 1..(n + 1) : d[i] \in 0..3
  <2>1. \A i \in 1..(n + 1) : i \in 1..n \/ i = n + 1
    OBVIOUS
  <2> QED
    BY <2>1 DEF Levelled
<1>6. ASSUME NEW q \in 1..k PROVE HasColumn(c, d, n + 1, q, w[q])
  <2>1. CASE q = k
    <3>1. Latest(d, (n + 1) + 1, q, n + 1)
      BY <1>1, <2>1 DEF Latest
    <3>2. Column(c, d, n + 1) = w[q]
      BY <1>1, <1>2, <1>3, <2>1 DEF Column
    <3>3. n + 1 \in 1..(n + 1)
      OBVIOUS
    <3> QED
      BY <3>1, <3>2, <3>3 DEF HasColumn
  <2>2. CASE q # k
    <3>1. q \in 1..L /\ q \in 0..3 /\ w[q] = col[q]
      BY <1>2, <1>3, <2>2
    <3>2. PICK j \in 1..n : Latest(d, n + 1, q, j) /\ Column(c, d, j) = col[q]
      BY <3>1 DEF Levelled, HasColumn
    <3>3. d[j] = q /\ \A m \in (j + 1)..n : d[m] # q
      <4>1. (n + 1) - 1 = n
        OBVIOUS
      <4> QED
        BY <3>2, <4>1 DEF Latest
    <3>4. \A m \in (j + 1)..(((n + 1) + 1) - 1) : m \in (j + 1)..n \/ m = n + 1
      OBVIOUS
    <3>5. Latest(d, (n + 1) + 1, q, j)
      BY <1>1, <2>2, <3>3, <3>4 DEF Latest
    <3>6. j \in 1..(n + 1)
      OBVIOUS
    <3> QED
      BY <3>1, <3>2, <3>5, <3>6 DEF HasColumn
  <2> QED
    BY <2>1, <2>2
<1>7. k = (IF n + 1 = 0 THEN 0 ELSE d[n + 1])
  BY <1>1
<1>8. Levelled(c, d, n + 1, k, w)
  BY <1>2, <1>4, <1>5, <1>6, <1>7 DEF Levelled
<1> QED
  BY <1>1, <1>3, <1>8 DEF ColumnMaps, MaxDepth
-----------------------------------------------------------------------------
(* The tree against the lines.                                             *)

Marks == {"none", "arg", "whole", "ERROR", "MISSING"}
Nodes == [line : Nat, depth : 0..3, as : Marks]

Texts(t, b) == [i \in 1..Len(b) |-> t[b[i].line]]
Depths(b) == [i \in 1..Len(b) |-> b[i].depth]

\* The tree b is that of the first m lines of t: it holds each of them that is no
\* comment, in order, where it is placed.
TreeOf(t, m, b) ==
    /\ \A i \in 1..Len(b) : b[i].line \in 1..m /\ ~Comment(t[b[i].line]) /\ b[i].as = t[b[i].line].flaw
    /\ \A k \in 1..m : ~Comment(t[k]) => \E i \in 1..Len(b) : b[i].line = k
    /\ \A i, j \in 1..Len(b) : i < j => b[i].line < b[j].line
    /\ \A i \in 1..Len(b) : Placed(t, Texts(t, b), Depths(b), i)

\* The levels e place the first m lines of t.
Fitting(t, m, e) == \A i \in 1..m : e[i] \in 0..3 /\ Placed(t, t, e, i)

\* Without comments the tree has a node for each line, and its levels are the only ones.
OnlyLayout(t, m, b) ==
    NoComments(t) =>
        /\ Len(b) = m /\ \A i \in 1..m : b[i].line = i
        /\ \A e : Fitting(t, m, e) => \A i \in 1..m : e[i] = b[i].depth

Holds(t, m, b) ==
    /\ t \in Seq(Lines) /\ m \in Nat /\ m <= Len(t) /\ b \in Seq(Nodes)
    /\ TreeOf(t, m, b) /\ OnlyLayout(t, m, b)

\* The scanner and the parser against the tree.
Tracks(t, b, s, p, dep, op, L, col) ==
    /\ Sync(s, p, dep, op, L, col) /\ Levelled(Texts(t, b), Depths(b), Len(b), L, col)
    /\ op <=> Len(b) > 0 /\ Texts(t, b)[Len(b)].opens

LEMMA LineTyped ==
    ASSUME NEW l \in Lines
    PROVE  /\ l.indent \in Columns /\ l.indent \in Nat /\ l.word \in {"top", "body", "comment"}
           /\ l.opens \in BOOLEAN /\ l.flaw \in {"none", "arg", "whole"}
<1>1. l.indent \in Indents /\ l.word \in {"top", "body", "comment"} /\ l.opens \in BOOLEAN
      /\ l.flaw \in {"none", "arg", "whole"}
  BY DEF Lines, Line
<1>2. l.indent \in Columns
  BY <1>1, FrontEndAssumption
<1>3. l.indent \in Nat
  BY <1>2 DEF Columns
<1> QED
  BY <1>1, <1>2, <1>3

Longer(t, l, t2) == t2 = t \o <<l>>

Prefixed(t, b, l, t2) ==
    Texts(t2, b) = Texts(t, b) /\ t2 \in Seq(Lines) /\ Len(t2) = Len(t) + 1 /\ t2[Len(t2)] = l

\* A line read ahead changes nothing.
LEMMA HoldsAhead ==
    ASSUME NEW t, NEW m, NEW b, Holds(t, m, b), NEW l \in Lines, NEW t2, Longer(t, l, t2)
    PROVE  Holds(t2, m, b) /\ Prefixed(t, b, l, t2)
<1>1. t \in Seq(Lines) /\ m \in Nat /\ m <= Len(t) /\ b \in Seq(Nodes) /\ Len(b) \in Nat
      /\ TreeOf(t, m, b) /\ OnlyLayout(t, m, b)
  BY DEF Holds
<1>2. t2 \in Seq(Lines) /\ Len(t2) = Len(t) + 1 /\ t2[Len(t2)] = l /\ \A k \in 1..Len(t) : t2[k] = t[k]
  BY <1>1 DEF Longer
<1>3. \A k \in 1..m : k \in 1..Len(t) /\ t2[k] = t[k]
  BY <1>1, <1>2
<1>4. \A i \in 1..Len(b) : t2[b[i].line] = t[b[i].line]
  BY <1>3 DEF Holds, TreeOf
<1>5. Texts(t2, b) = Texts(t, b)
  BY <1>4 DEF Texts
<1>6. ASSUME m > 0 PROVE t[1] = t2[1]
  BY <1>1, <1>3, <1>6
<1>7. \A i \in 1..Len(b) : Placed(t2, Texts(t2, b), Depths(b), i)
  <2> SUFFICES ASSUME NEW i \in 1..Len(b) PROVE Placed(t2, Texts(t, b), Depths(b), i)
    BY <1>5
  <2>1. Placed(t, Texts(t, b), Depths(b), i) /\ b[i].line \in 1..m
    BY <1>1 DEF TreeOf
  <2>2. t[1] = t2[1]
    BY <1>1, <1>6, <2>1
  <2>3. Agree(Texts(t, b), Texts(t, b), Depths(b), Depths(b), Len(b))
    BY DEF Agree
  <2> QED
    BY <1>1, <2>1, <2>2, <2>3, PlacedPrefix
<1>8. TreeOf(t2, m, b)
  BY <1>1, <1>3, <1>4, <1>7 DEF TreeOf
<1>9. OnlyLayout(t2, m, b)
  <2> SUFFICES ASSUME NoComments(t2) PROVE OnlyLayout(t2, m, b)
    BY DEF OnlyLayout
  <2>1. NoComments(t)
    <3>1. DOMAIN t = 1..Len(t) /\ \A k \in 1..Len(t) : k \in DOMAIN t2
      BY <1>1, <1>2
    <3> QED
      BY <1>2, <3>1 DEF NoComments
  <2>2. Len(b) = m /\ (\A i \in 1..m : b[i].line = i)
        /\ \A e : Fitting(t, m, e) => \A i \in 1..m : e[i] = b[i].depth
    BY <1>1, <2>1 DEF OnlyLayout
  <2>3. ASSUME NEW e, Fitting(t2, m, e) PROVE Fitting(t, m, e)
    <3> SUFFICES ASSUME NEW i \in 1..m PROVE e[i] \in 0..3 /\ Placed(t, t, e, i)
      BY DEF Fitting
    <3>1. e[i] \in 0..3 /\ Placed(t2, t2, e, i)
      BY <2>3 DEF Fitting
    <3>2. Agree(t2, t, e, e, m)
      BY <1>3 DEF Agree
    <3>3. t2[1] = t[1]
      BY <1>1, <1>6
    <3> QED
      BY <1>1, <3>1, <3>2, <3>3, PlacedPrefix
  <2> QED
    BY <2>2, <2>3 DEF OnlyLayout
<1> QED
  BY <1>1, <1>2, <1>5, <1>8, <1>9 DEF Holds, Prefixed

\* A comment that has been read is not in the tree.
LEMMA HoldsComment ==
    ASSUME NEW t, NEW m, NEW b, Holds(t, m, b), m + 1 = Len(t), Comment(t[Len(t)])
    PROVE  Holds(t, m + 1, b)
<1>1. t \in Seq(Lines) /\ m \in Nat /\ m <= Len(t) /\ b \in Seq(Nodes) /\ Len(b) \in Nat
      /\ TreeOf(t, m, b)
  BY DEF Holds
<1>2. \A k \in 1..(m + 1) : k \in 1..m \/ k = Len(t)
  BY <1>1
<1>3. \A k \in 1..m : k \in 1..(m + 1)
  BY <1>1
<1>4. TreeOf(t, m + 1, b)
  BY <1>1, <1>2, <1>3 DEF TreeOf
<1>5. ~NoComments(t)
  BY <1>1 DEF NoComments
<1> QED
  BY <1>1, <1>4, <1>5 DEF Holds, OnlyLayout

Added(t, b, dep, l, b2) == b2 = Append(b, [line |-> Len(t), depth |-> dep, as |-> l.flaw])

Grown(t, b, dep, l, col) ==
    /\ b # <<>> /\ Levelled(Texts(t, b), Depths(b), Len(b), dep, col)
    /\ l.opens <=> Len(b) > 0 /\ Texts(t, b)[Len(b)].opens

\* Before the text of line l, the last one of t; m lines have been read.
AtText(t, m, b, s, p, dep, op, L, col, l) ==
    /\ l = t[Len(t)]
    /\ m \in Nat /\ m + 1 = Len(t) /\ t \in Seq(Lines) /\ t # <<>> /\ Holds(t, m, b)
    /\ Tracks(t, b, s, p, dep, op, L, col)
    /\ \/ Ahead(s, p, L, col, l.indent)
       \/ p = "top" /\ m = 0 /\ ~l.blank /\ Rest(s, L, col)

\* Any other line adds a node, at the only level where it is placed.
LEMMA HoldsNext ==
    ASSUME NEW t, NEW m, NEW b, NEW s, NEW p, NEW dep, NEW op, NEW L, NEW col, NEW l,
           AtText(t, m, b, s, p, dep, op, L, col, l), ~Comment(l), Takes(l, p, dep),
           NEW b2, Added(t, b, dep, l, b2)
    PROVE  Holds(t, m + 1, b2) /\ Grown(t, b2, dep, l, NewColumns(col, dep, l.indent))
<1>0. /\ l = t[Len(t)] /\ Holds(t, m, b) /\ m + 1 = Len(t) /\ Tracks(t, b, s, p, dep, op, L, col)
      /\ Ahead(s, p, L, col, l.indent) \/ (p = "top" /\ m = 0 /\ ~l.blank)
  BY DEF AtText
<1> USE <1>0
<1>1. t \in Seq(Lines) /\ m \in Nat /\ b \in Seq(Nodes) /\ Len(b) \in Nat
      /\ TreeOf(t, m, b) /\ OnlyLayout(t, m, b)
  BY DEF Holds
<1>2. l \in Lines /\ l.indent \in Columns /\ l.indent \in Nat /\ l.flaw \in Marks /\ l.opens \in BOOLEAN
  <2>1. l \in Lines
    BY <1>1
  <2> QED
    BY <2>1, LineTyped DEF Marks
<1>3. dep \in 0..3 /\ L \in 0..3 /\ Sync(s, p, dep, op, L, col) /\ op \in BOOLEAN /\ col \in ColumnMaps
  <2>1. Sync(s, p, dep, op, L, col)
    BY DEF Tracks
  <2>2. dep \in 0..3 /\ L \in 0..3
    BY <2>1, SyncFacts
  <2> QED
    BY <2>1, <2>2 DEF Sync
<1>4. PICK n, z : n = Len(b) /\ z = [line |-> Len(t), depth |-> dep, as |-> l.flaw]
  OBVIOUS
<1>5. z \in Nodes /\ z.line = m + 1 /\ z.depth = dep /\ z.as = l.flaw /\ n \in Nat
  BY <1>1, <1>2, <1>3, <1>4 DEF Nodes
<1>6. b2 \in Seq(Nodes) /\ Len(b2) = n + 1 /\ b2[n + 1] = z /\ \A i \in 1..n : b2[i] = b[i]
  <2>1. b2 = Append(b, z)
    BY <1>4 DEF Added
  <2> QED
    BY <1>1, <1>4, <1>5, <2>1
<1>7. PICK c, d, c2, d2 : c = Texts(t, b) /\ d = Depths(b) /\ c2 = Texts(t, b2) /\ d2 = Depths(b2)
  OBVIOUS
<1>8. /\ \A i \in 1..n : c[i] = t[b[i].line] /\ d[i] = b[i].depth /\ i \in 1..(n + 1)
      /\ \A i \in 1..(n + 1) : c2[i] = t[b2[i].line] /\ d2[i] = b2[i].depth
  BY <1>4, <1>5, <1>6, <1>7 DEF Texts, Depths
<1>9. c2[n + 1] = l /\ d2[n + 1] = dep
  <2>1. n + 1 \in 1..(n + 1)
    BY <1>5
  <2> QED
    BY <1>5, <1>6, <1>8, <2>1
<1>10. Agree(c, c2, d, d2, n) /\ Agree(c2, c, d2, d, n)
  BY <1>6, <1>8 DEF Agree
<1>11. Levelled(c, d, n, L, col) /\ (op <=> n > 0 /\ c[n].opens) /\ col[0] = 0
  BY <1>4, <1>7 DEF Tracks, Levelled
<1>12. Levelled(c2, d2, n, L, col) /\ (op <=> n > 0 /\ c2[n].opens)
  <2>1. Levelled(c2, d2, n, L, col)
    BY <1>5, <1>10, <1>11, LevelledPrefix
  <2>2. n > 0 => c2[n] = c[n]
    BY <1>5, <1>10 DEF Agree
  <2> QED
    BY <1>11, <2>1, <2>2
<1>13. p \in {"top", "want"} /\ (p = "top" => ~op)
  BY <1>3 DEF Takes, Sync
<1>14. dep <= L + 1
  BY <1>3, <1>13 DEF Sync
<1>15. Levelled(c2, d2, n + 1, dep, NewColumns(col, dep, l.indent))
  BY <1>2, <1>3, <1>5, <1>9, <1>12, <1>14, LevelledNext
<1>16. PICK any : any = (n = 0 /\ t[1] = c2[1] /\ ~c2[1].blank)
  OBVIOUS
<1>17. m = 0 => n = 0 /\ t[1] = l /\ L = 0
  <2> SUFFICES ASSUME m = 0 PROVE n = 0 /\ t[1] = l /\ L = 0
    OBVIOUS
  <2>1. n = 0
    <3>1. n > 0 => b[1].line \in 1..m
      BY <1>1, <1>4 DEF TreeOf
    <3> QED
      BY <1>5, <3>1
  <2>2. L = 0
    BY <1>11, <2>1 DEF Levelled
  <2>3. Len(t) = 1
    OBVIOUS
  <2> QED
    BY <2>1, <2>2, <2>3
<1>18. Ahead(s, p, L, col, l.indent) \/ (any /\ p = "top" /\ ~op /\ L = 0)
  <2>1. CASE p = "top" /\ m = 0 /\ ~l.blank
    <3>1. n = 0 /\ t[1] = l /\ L = 0 /\ c2[1] = l
      BY <1>9, <1>17, <2>1
    <3> QED
      BY <1>13, <1>16, <2>1, <3>1
  <2> QED
    BY <2>1
<1>19. StandsAt(dep, l, op, L, col, any)
  BY <1>2, <1>3, <1>11, <1>18, TakenStands
<1>20. Placed(t, c2, d2, n + 1)
  <2>1. any <=> n = 0 /\ t[1] = c2[1] /\ ~c2[1].blank
    BY <1>16
  <2>2. d2[n + 1] \in 0..3
    BY <1>3, <1>9
  <2>3. Placed(t, c2, d2, n + 1) <=> StandsAt(d2[n + 1], c2[n + 1], op, L, col, any)
    BY <1>5, <1>12, <2>1, <2>2, PlacedIff
  <2> QED
    BY <1>9, <1>19, <2>3
<1>21. \A i \in 1..(n + 1) : Placed(t, c2, d2, i)
  <2>1. ASSUME NEW i \in 1..n PROVE Placed(t, c2, d2, i)
    <3>1. Placed(t, c, d, i)
      BY <1>1, <1>4, <1>7 DEF TreeOf
    <3> QED
      BY <1>5, <1>10, <3>1, PlacedPrefix
  <2>2. \A i \in 1..(n + 1) : i \in 1..n \/ i = n + 1
    BY <1>5
  <2> QED
    BY <1>20, <2>1, <2>2
<1>22. TreeOf(t, m + 1, b2)
  <2>0. \A i \in 1..(n + 1) : i \in 1..n \/ i = n + 1
    BY <1>5
  <2>1. \A i \in 1..(n + 1) : b2[i].line \in 1..(m + 1) /\ ~Comment(t[b2[i].line]) /\ b2[i].as = t[b2[i].line].flaw
    <3>1. \A i \in 1..n : b[i].line \in 1..m /\ ~Comment(t[b[i].line]) /\ b[i].as = t[b[i].line].flaw
      BY <1>1, <1>4 DEF TreeOf
    <3>2. m + 1 \in 1..(m + 1) /\ \A k \in 1..m : k \in 1..(m + 1)
      BY <1>1
    <3>3. t[z.line] = l
      BY <1>5
    <3> QED
      BY <1>5, <1>6, <2>0, <3>1, <3>2, <3>3
  <2>2. ASSUME NEW k \in 1..(m + 1), ~Comment(t[k]) PROVE \E i \in 1..(n + 1) : b2[i].line = k
    <3>1. CASE k = m + 1
      <4>1. n + 1 \in 1..(n + 1)
        BY <1>5
      <4> QED
        BY <1>5, <1>6, <3>1, <4>1
    <3>2. CASE k # m + 1
      <4>1. k \in 1..m
        BY <1>1, <3>2
      <4>2. PICK i \in 1..n : b[i].line = k
        BY <1>1, <1>4, <2>2, <4>1 DEF TreeOf
      <4>3. i \in 1..(n + 1) /\ b2[i] = b[i]
        BY <1>6, <1>8
      <4> QED
        BY <4>2, <4>3
    <3> QED
      BY <3>1, <3>2
  <2>3. ASSUME NEW i \in 1..(n + 1), NEW j \in 1..(n + 1), i < j PROVE b2[i].line < b2[j].line
    <3>1. i \in 1..n
      BY <1>5, <2>3
    <3>2. b2[i] = b[i] /\ b[i].line \in 1..m
      BY <1>1, <1>4, <1>6, <3>1 DEF TreeOf
    <3>3. CASE j = n + 1
      BY <1>1, <1>5, <1>6, <3>2, <3>3
    <3>4. CASE j # n + 1
      <4>1. j \in 1..n /\ b2[j] = b[j]
        BY <1>6, <2>0, <3>4
      <4> QED
        BY <1>1, <1>4, <2>3, <3>1, <3>2, <4>1 DEF TreeOf
    <3> QED
      BY <3>3, <3>4
  <2> QED
    BY <1>6, <1>7, <1>21, <2>1, <2>2, <2>3 DEF TreeOf
<1>23. OnlyLayout(t, m + 1, b2)
  <2> SUFFICES ASSUME NoComments(t) PROVE OnlyLayout(t, m + 1, b2)
    BY DEF OnlyLayout
  <2>1. n = m /\ (\A i \in 1..m : b[i].line = i)
        /\ \A e : Fitting(t, m, e) => \A i \in 1..m : e[i] = b[i].depth
    BY <1>1, <1>4 DEF OnlyLayout
  <2>2. \A i \in 1..(m + 1) : i \in 1..m \/ i = m + 1
    BY <1>1
  <2>3. \A i \in 1..(m + 1) : b2[i].line = i
    BY <1>5, <1>6, <2>1, <2>2
  <2>4. ASSUME NEW e, Fitting(t, m + 1, e) PROVE \A i \in 1..(m + 1) : e[i] = b2[i].depth
    <3>1. Fitting(t, m, e)
      <4>1. \A i \in 1..m : i \in 1..(m + 1)
        BY <1>1
      <4> QED
        BY <2>4, <4>1 DEF Fitting
    <3>2. \A i \in 1..m : e[i] = b[i].depth
      BY <2>1, <3>1
    <3>3. Agree(c2, t, d2, e, n)
      <4>1. \A i \in 1..n : c2[i] = t[i] /\ d2[i] = b[i].depth
        BY <1>6, <1>8, <2>1
      <4> QED
        BY <2>1, <3>2, <4>1 DEF Agree
    <3>4. Levelled(t, e, n, L, col) /\ (op <=> n > 0 /\ t[n].opens)
      <4>1. Levelled(t, e, n, L, col)
        BY <1>5, <1>12, <3>3, LevelledPrefix
      <4>2. n > 0 => c2[n] = t[n]
        BY <1>5, <3>3 DEF Agree
      <4> QED
        BY <1>12, <4>1, <4>2
    <3>5. e[n + 1] \in 0..3 /\ Placed(t, t, e, n + 1) /\ t[n + 1] = l
      <4>1. m + 1 \in 1..(m + 1)
        BY <1>1
      <4> QED
        BY <2>1, <2>4, <4>1 DEF Fitting
    <3>6. any <=> n = 0 /\ t[1] = t[1] /\ ~t[1].blank
      <4>1. n = 0 => c2[1] = t[1]
        BY <1>9, <3>5
      <4> QED
        BY <1>16, <4>1
    <3>7. StandsAt(e[n + 1], l, op, L, col, any)
      <4>1. Placed(t, t, e, n + 1) <=> StandsAt(e[n + 1], t[n + 1], op, L, col, any)
        BY <1>5, <3>4, <3>5, <3>6, PlacedIff
      <4> QED
        BY <3>5, <4>1
    <3>8. e[n + 1] = dep
      BY <1>2, <1>3, <1>11, <1>18, <3>5, <3>7, TakenUnique
    <3> QED
      BY <1>5, <1>6, <2>1, <2>2, <3>2, <3>8
  <2> QED
    BY <1>6, <2>1, <2>3, <2>4 DEF OnlyLayout
<1>24. m + 1 \in Nat /\ m + 1 <= Len(t) /\ b2 # <<>>
  BY <1>1, <1>5, <1>6
<1>25. l.opens <=> Len(b2) > 0 /\ Texts(t, b2)[Len(b2)].opens
  BY <1>5, <1>6, <1>7, <1>9
<1> QED
  BY <1>1, <1>6, <1>7, <1>15, <1>22, <1>23, <1>24, <1>25 DEF Holds, Grown

AfterLine(l, dep) == IF l.opens THEN "opened" ELSE IF dep = 0 THEN "top" ELSE "item"

\* The scanner and the parser after the text of a line that is no comment.
LEMMA SyncTaken ==
    ASSUME NEW t, NEW m, NEW b, NEW s, NEW p, NEW dep, NEW op, NEW L, NEW col, NEW l,
           AtText(t, m, b, s, p, dep, op, L, col, l), Takes(l, p, dep), Quiet(s, p),
           NEW col2, col2 = NewColumns(col, dep, l.indent), NEW p2, p2 = AfterLine(l, dep)
    PROVE  Sync(s, p2, dep, l.opens, dep, col2) /\ Rest(s, dep, col2) /\ Settled(p2, dep, dep)
<1>0. /\ Sync(s, p, dep, op, L, col) /\ l.indent \in Columns /\ l.opens \in BOOLEAN
      /\ col2 \in ColumnMaps /\ (Ahead(s, p, L, col, l.indent) \/ p = "top")
  <2>1. Sync(s, p, dep, op, L, col) /\ (Ahead(s, p, L, col, l.indent) \/ p = "top") /\ l \in Lines
    BY DEF AtText, Tracks
  <2>2. l.indent \in Columns /\ l.opens \in BOOLEAN
    BY <2>1, LineTyped
  <2>3. col \in ColumnMaps /\ 0 \in Columns
    BY <2>1 DEF Sync, Columns
  <2>4. dep \in 0..3
    BY <2>1, SyncFacts
  <2>5. col2 \in ColumnMaps
    BY <2>2, <2>3, <2>4 DEF NewColumns, ColumnMaps, MaxDepth
  <2> QED
    BY <2>1, <2>2, <2>5
<1> USE <1>0
<1>1. p \in {"top", "want"} /\ (p = "want" /\ l.opens => dep < MaxDepth)
  BY DEF Takes, MaxDepth
<1>2. dep \in 0..3 /\ L \in 0..3 /\ col \in ColumnMaps /\ dep \in 0..MaxDepth
      /\ Along(s.stack, col, L) /\ Fits(s, p, dep) /\ (p = "top" => dep = 0)
  <2>1. dep \in 0..3 /\ L \in 0..3 /\ (p = "top" <=> dep = 0 /\ p # "opened")
    BY SyncFacts
  <2>2. col \in ColumnMaps /\ Along(s.stack, col, L) /\ Fits(s, p, dep)
    BY DEF Sync
  <2> QED
    BY <2>1, <2>2 DEF MaxDepth
<1>3. s.pending_dedents = 0 /\ ~s.pending_newline
  BY <1>1 DEF Quiet
<1>4. Len(s.stack) = dep + 1
  BY <1>3, SyncFacts
<1>5. Fits(s, p2, dep)
  BY <1>1, <1>2 DEF Fits, MaxDepth, AfterLine
<1>6. /\ col2[dep] = (IF dep = 0 THEN 0 ELSE l.indent)
      /\ \A k \in 0..3 : k # dep => col2[k] = col[k]
  BY <1>2 DEF NewColumns, ColumnMaps, MaxDepth
<1>7. dep <= L + 1
  BY <1>1, <1>2 DEF Sync
<1>8. s.stack[dep + 1] = col2[dep]
  <2>1. CASE dep = 0
    <3>1. s.stack[1] = 0
      BY SyncFacts
    <3> QED
      BY <1>6, <2>1, <3>1
  <2>2. CASE dep # 0
    <3>1. p = "want" /\ Ahead(s, p, L, col, l.indent)
      BY <1>1, <1>2, <2>2
    <3>2. l.indent = Top(s)
      BY <3>1 DEF Ahead
    <3>3. Top(s) = s.stack[dep + 1]
      BY <1>4 DEF Top
    <3> QED
      BY <1>6, <2>2, <3>2, <3>3
  <2> QED
    BY <2>1, <2>2
<1>9. Along(s.stack, col2, dep)
  <2> SUFFICES ASSUME NEW k \in 0..(Len(s.stack) - 1), k <= dep PROVE s.stack[k + 1] = col2[k]
    BY DEF Along
  <2>1. CASE k = dep
    BY <1>8, <2>1
  <2>2. CASE k # dep
    <3>1. k \in 0..3 /\ k <= L /\ k # dep
      BY <1>2, <1>4, <1>7, <2>2
    <3>2. s.stack[k + 1] = col[k]
      BY <1>2, <3>1 DEF Along
    <3> QED
      BY <1>6, <3>1, <3>2
  <2> QED
    BY <2>1, <2>2
<1>10. Closed(s.stack, col2, dep, Top(s))
  <2>1. \A k : k \notin Len(s.stack)..dep
    BY <1>2, <1>4
  <2> QED
    BY <2>1 DEF Closed
<1>11. Rest(s, dep, col2)
  BY <1>3, <1>10 DEF Rest
<1>12. p2 # "want" /\ (l.opens => p2 = "opened") /\ (~l.opens => p2 # "opened") /\ dep <= dep
       /\ l.opens \in BOOLEAN /\ col2 \in ColumnMaps
  <2>1. p2 # "want" /\ (l.opens => p2 = "opened") /\ (~l.opens => p2 # "opened")
    BY DEF AfterLine
  <2>2. dep <= dep
    BY <1>2
  <2> QED
    BY <2>1, <2>2, Zenon
<1> HIDE <1>0
<1>13. Sync(s, p2, dep, l.opens, dep, col2)
  BY <1>2, <1>5, <1>9, <1>12 DEF Sync
<1> QED
  BY <1>11, <1>12, <1>13 DEF Settled

\* When the next line stands nowhere, the text has no layout.
LEMMA NoLayout ==
    ASSUME NEW t, NEW m, NEW b, Holds(t, m, b), m + 1 = Len(t), NoComments(t), NEW l, l = t[Len(t)],
           NEW s, NEW p, NEW dep, NEW op, NEW L, NEW col, Tracks(t, b, s, p, dep, op, L, col),
           NEW any, any <=> m = 0 /\ ~l.blank,
           \A k \in 0..3 : ~StandsAt(k, l, op, L, col, any),
           NEW d \in Levels(t), IsLayout(t, t, d)
    PROVE  FALSE
<1>1. t \in Seq(Lines) /\ m \in Nat /\ b \in Seq(Nodes) /\ OnlyLayout(t, m, b)
  BY DEF Holds
<1>2. Len(b) = m /\ (\A i \in 1..m : b[i].line = i)
      /\ \A e : Fitting(t, m, e) => \A i \in 1..m : e[i] = b[i].depth
  BY <1>1 DEF OnlyLayout
<1>3. \A i \in 1..(m + 1) : d[i] \in 0..3 /\ Placed(t, t, d, i)
  <2>1. d \in [1..(m + 1) -> 0..3]
    BY DEF Levels, MaxDepth
  <2> QED
    BY <2>1 DEF IsLayout
<1>4. Fitting(t, m, d)
  BY <1>1, <1>3 DEF Fitting
<1>5. \A i \in 1..m : d[i] = b[i].depth
  BY <1>2, <1>4
<1>6. PICK c, dd : c = Texts(t, b) /\ dd = Depths(b)
  OBVIOUS
<1>7. \A i \in 1..m : c[i] = t[i] /\ dd[i] = d[i]
  BY <1>2, <1>5, <1>6 DEF Texts, Depths
<1>8. Agree(c, t, dd, d, m)
  BY <1>7 DEF Agree
<1>9. Levelled(c, dd, m, L, col) /\ (op <=> m > 0 /\ c[m].opens)
  BY <1>2, <1>6 DEF Tracks
<1>10. Levelled(t, d, m, L, col)
  BY <1>1, <1>8, <1>9, LevelledPrefix
<1>11. op <=> m > 0 /\ t[m].opens
  <2>1. m > 0 => c[m] = t[m]
    BY <1>1, <1>7
  <2> QED
    BY <1>9, <2>1
<1>12. any <=> m = 0 /\ t[1] = t[1] /\ ~t[1].blank
  <2>1. m = 0 => Len(t) = 1
    OBVIOUS
  <2>2. m = 0 => t[1] = l
    BY <2>1
  <2> QED
    BY <2>2
<1>13. m + 1 \in 1..(m + 1) /\ t[m + 1] = l
  BY <1>1
<1>14. d[m + 1] \in 0..3 /\ Placed(t, t, d, m + 1)
  BY <1>3, <1>13
<1>15. Placed(t, t, d, m + 1) <=> StandsAt(d[m + 1], t[m + 1], op, L, col, any)
  BY <1>1, <1>10, <1>11, <1>12, <1>14, PlacedIff
<1>16. StandsAt(d[m + 1], l, op, L, col, any)
  BY <1>13, <1>14, <1>15
<1> QED
  BY <1>14, <1>16

-----------------------------------------------------------------------------
(* The parse: what the lexer meets, and what each step preserves.          *)

\* The lines whose text has been read.
Consumed(w, t) == IF w = "head" /\ t # <<>> THEN Len(t) - 1 ELSE Len(t)

\* Where the scanner stands in the text.
Stands(t, w, b, s, p, dep, L, col) ==
    /\ w \in {"head", "tail", "eof"}
    /\ w = "head" /\ t # <<>> => Ahead(s, p, L, col, t[Len(t)].indent)
    /\ w = "head" /\ t = <<>> => b = <<>> /\ p = "top" /\ Rest(s, L, col)
    /\ w = "tail" => /\ t # <<>> /\ Rest(s, L, col)
                     /\ ~Comment(t[Len(t)]) => Settled(p, dep, L) /\ b # <<>>
    /\ w = "eof" => AtEof(s, p, L, col)

Parsing(t, w, b, s, p, dep, op, L, col) ==
    /\ Holds(t, Consumed(w, t), b) /\ Tracks(t, b, s, p, dep, op, L, col)
    /\ Stands(t, w, b, s, p, dep, L, col)

AheadText(in, t, w) == w = "head" /\ t # <<>> /\ in.ahead = Text /\ in.read = <<>> /\ in.to = "head"

AheadFirst(in, t, w, l) ==
    w = "head" /\ t = <<>> /\ ~l.blank /\ in.ahead = Text /\ in.read = <<l>> /\ in.to = "head"

AheadLine(in, t, w, l) ==
    /\ w = "tail" \/ (w = "head" /\ t = <<>> /\ l.blank)
    /\ in.ahead = Break(l) /\ in.read = <<l>> /\ in.to = "head"

AheadEnd(in, t, w) ==
    /\ w = "tail" \/ (w = "head" /\ t = <<>>)
    /\ in.ahead = [at |-> "break", indent |-> 0, last |-> TRUE] /\ in.read = <<>> /\ in.to = "eof"

AheadEof(in, t, w) == w = "eof" /\ in.ahead = Eof /\ in.read = <<>> /\ in.to = "eof"

LEMMA InputCases ==
    ASSUME ending = "newline", where \in {"head", "tail", "eof"}, NEW in \in Input
    PROVE  \/ AheadText(in, lines, where) \/ AheadEnd(in, lines, where) \/ AheadEof(in, lines, where)
           \/ \E l \in Lines : AheadFirst(in, lines, where, l) \/ AheadLine(in, lines, where, l)
<1>1. LastBreak = [at |-> "break", indent |-> 0, last |-> TRUE]
  BY DEF LastBreak
<1>2. CASE where = "head" /\ lines # <<>>
  BY <1>2 DEF Input, AheadText
<1>3. CASE where = "head" /\ lines = <<>>
  <2>1. \/ in = [ahead |-> LastBreak, read |-> <<>>, to |-> "eof"]
        \/ \E l \in Lines : in = [ahead |-> IF l.blank THEN Break(l) ELSE Text, read |-> <<l>>, to |-> "head"]
    BY <1>3 DEF Input
  <2>2. CASE in = [ahead |-> LastBreak, read |-> <<>>, to |-> "eof"]
    BY <1>1, <1>3, <2>2 DEF AheadEnd
  <2>3. ASSUME NEW l \in Lines, in = [ahead |-> IF l.blank THEN Break(l) ELSE Text, read |-> <<l>>, to |-> "head"]
        PROVE  AheadFirst(in, lines, where, l) \/ AheadLine(in, lines, where, l)
    <3>1. CASE l.blank
      BY <1>3, <2>3, <3>1 DEF AheadLine
    <3>2. CASE ~l.blank
      BY <1>3, <2>3, <3>2 DEF AheadFirst
    <3> QED
      BY <3>1, <3>2
  <2> QED
    BY <2>1, <2>2, <2>3
<1>4. CASE where = "eof"
  BY <1>4 DEF Input, AheadEof
<1>5. CASE where = "tail"
  <2>1. \/ in = [ahead |-> LastBreak, read |-> <<>>, to |-> "eof"]
        \/ \E l \in Lines : in = [ahead |-> Break(l), read |-> <<l>>, to |-> "head"]
    BY <1>5 DEF Input
  <2>2. CASE in = [ahead |-> LastBreak, read |-> <<>>, to |-> "eof"]
    BY <1>1, <1>5, <2>2 DEF AheadEnd
  <2>3. ASSUME NEW l \in Lines, in = [ahead |-> Break(l), read |-> <<l>>, to |-> "head"]
        PROVE  AheadLine(in, lines, where, l)
    BY <1>5, <2>3 DEF AheadLine
  <2> QED
    BY <2>1, <2>2, <2>3
<1> QED
  BY <1>2, <1>3, <1>4, <1>5

LEMMA AheadTyped ==
    ASSUME NEW in, NEW t, NEW w,
           \/ AheadText(in, t, w) \/ AheadEnd(in, t, w) \/ AheadEof(in, t, w)
           \/ \E l \in Lines : AheadFirst(in, t, w, l) \/ AheadLine(in, t, w, l)
    PROVE  /\ in.ahead.indent \in Columns
           /\ \/ in.ahead.at \in {"text", "eof"}
              \/ in.ahead.at = "break" /\ ~(in.ahead.last /\ in.ahead.indent > 0)
<1>1. 0 \in Columns
  BY DEF Columns
<1>2. CASE AheadText(in, t, w)
  BY <1>1, <1>2 DEF AheadText, Text
<1>3. CASE AheadEnd(in, t, w)
  BY <1>1, <1>3 DEF AheadEnd
<1>4. CASE AheadEof(in, t, w)
  BY <1>1, <1>4 DEF AheadEof, Eof
<1>5. ASSUME NEW l \in Lines, AheadFirst(in, t, w, l)
      PROVE  in.ahead.indent \in Columns /\ in.ahead.at = "text"
  BY <1>1, <1>5 DEF AheadFirst, Text
<1>6. ASSUME NEW l \in Lines, AheadLine(in, t, w, l)
      PROVE  in.ahead.indent \in Columns /\ in.ahead.at = "break" /\ ~in.ahead.last
  <2>1. l.indent \in Columns
    BY LineTyped
  <2> QED
    BY <1>6, <2>1 DEF AheadLine, Break
<1> QED
  BY <1>2, <1>3, <1>4, <1>5, <1>6

\* What a call returns, by what the lexer meets.
LEMMA ScanAhead ==
    ASSUME NEW s, NEW p, NEW r, NEW in, NEW t, NEW w, ScanResult(s, p, in.ahead, r)
    PROVE  /\ \/ Quiet(s, p)
              \/ /\ p = "item" /\ s.pending_dedents > 0 /\ r.tok = "DEDENT"
                 /\ r.s.stack = s.stack /\ r.s.pending_newline = s.pending_newline
              \/ /\ p # "opened" /\ s.pending_dedents = 0 /\ s.pending_newline /\ r.tok = "NEWLINE"
                 /\ r.s.stack = s.stack /\ ~r.s.pending_newline
           /\ Quiet(s, p) /\ s.pending_dedents \in Nat =>
                 /\ AheadText(in, t, w) => r.tok = "none"
                 /\ AheadEnd(in, t, w) => BreakResult(s, p, 0, r)
                 /\ AheadEof(in, t, w) => EofResult(s, p, r)
                 /\ \A l : AheadFirst(in, t, w, l) => r.tok = "none"
                 /\ \A l : AheadLine(in, t, w, l) => BreakResult(s, p, l.indent, r)
<1>1. \/ Quiet(s, p)
      \/ /\ p = "item" /\ s.pending_dedents > 0 /\ r.tok = "DEDENT"
         /\ r.s.stack = s.stack /\ r.s.pending_newline = s.pending_newline
      \/ /\ p # "opened" /\ s.pending_dedents = 0 /\ s.pending_newline /\ r.tok = "NEWLINE"
         /\ r.s.stack = s.stack /\ ~r.s.pending_newline
  BY Zenon DEF ScanResult
<1>2. ASSUME Quiet(s, p), s.pending_dedents \in Nat
      PROVE  /\ in.ahead.at = "text" => r.tok = "none"
             /\ in.ahead.at = "break" => BreakResult(s, p, in.ahead.indent, r)
             /\ in.ahead.at = "eof" => EofResult(s, p, r)
  <2>1. s.pending_dedents = 0 /\ (s.pending_newline => p = "opened")
    BY <1>2 DEF Quiet
  <2>2. ~(s.pending_dedents > 0)
    BY <2>1
  <2> QED
    BY <2>1, <2>2 DEF ScanResult
<1>3. AheadText(in, t, w) => in.ahead.at = "text"
  BY DEF AheadText, Text
<1>4. AheadEnd(in, t, w) => in.ahead.at = "break" /\ in.ahead.indent = 0
  BY DEF AheadEnd
<1>5. AheadEof(in, t, w) => in.ahead.at = "eof"
  BY DEF AheadEof, Eof
<1>6. \A l : AheadFirst(in, t, w, l) => in.ahead.at = "text"
  BY DEF AheadFirst, Text
<1>7. \A l : AheadLine(in, t, w, l) => in.ahead.at = "break" /\ in.ahead.indent = l.indent
  BY DEF AheadLine, Break
<1>8. ASSUME Quiet(s, p), s.pending_dedents \in Nat
      PROVE  /\ AheadText(in, t, w) => r.tok = "none"
             /\ AheadEnd(in, t, w) => BreakResult(s, p, 0, r)
             /\ AheadEof(in, t, w) => EofResult(s, p, r)
             /\ \A l : AheadFirst(in, t, w, l) => r.tok = "none"
             /\ \A l : AheadLine(in, t, w, l) => BreakResult(s, p, l.indent, r)
  BY <1>2, <1>3, <1>4, <1>5, <1>6, <1>7, <1>8, Zenon
<1> QED
  BY <1>1, <1>8, Zenon

LEMMA RestQuiet ==
    ASSUME NEW s, NEW p, NEW L, NEW col, Rest(s, L, col)
    PROVE  Quiet(s, p) /\ s.pending_dedents \in Nat /\ s.pending_dedents = 0 /\ ~s.pending_newline
BY DEF Rest, Quiet

\* A token: no text is read, and the line after a break becomes the next one.
LEMMA ScanKeeps ==
    ASSUME NEW t, NEW w, NEW b, NEW s, NEW p, NEW dep, NEW op, NEW L, NEW col,
           Parsing(t, w, b, s, p, dep, op, L, col),
           NEW in, NEW r, ScanResult(s, p, in.ahead, r), r.tok # "none", Fit(r, dep),
           \/ AheadText(in, t, w) \/ AheadEnd(in, t, w) \/ AheadEof(in, t, w)
           \/ \E l \in Lines : AheadFirst(in, t, w, l) \/ AheadLine(in, t, w, l),
           NEW p2, p2 = After(r.tok, dep)[1], NEW d2, d2 = After(r.tok, dep)[2],
           NEW t2, t2 = t \o in.read
    PROVE  Parsing(t2, in.to, b, r.s, p2, d2, op, L, col)
<1>1. Holds(t, Consumed(w, t), b) /\ Tracks(t, b, s, p, dep, op, L, col)
      /\ Stands(t, w, b, s, p, dep, L, col) /\ Sync(s, p, dep, op, L, col)
  BY DEF Parsing, Tracks
<1>2. t \in Seq(Lines) /\ t \o <<>> = t /\ s.pending_dedents \in Nat
  <2>1. t \in Seq(Lines)
    BY <1>1 DEF Holds
  <2> QED
    BY <1>1, <2>1, SyncFacts
<1>3. ASSUME ~Quiet(s, p)
      PROVE  /\ Sync(r.s, p2, d2, op, L, col)
             /\ \A x : Ahead(s, p, L, col, x) => Ahead(r.s, p2, L, col, x)
             /\ AtEof(s, p, L, col) => AtEof(r.s, p2, L, col)
  <2>1. /\ r.s.stack = s.stack
        /\ \/ p = "item" /\ r.tok = "DEDENT" /\ r.s.pending_newline = s.pending_newline
           \/ /\ p # "opened" /\ r.tok = "NEWLINE" /\ s.pending_dedents = 0
              /\ s.pending_newline /\ ~r.s.pending_newline
    BY <1>3, Zenon DEF ScanResult
  <2> QED
    BY <1>1, <2>1, PendingStep
<1>4. ASSUME Sync(r.s, p2, d2, op, L, col) PROVE Tracks(t, b, r.s, p2, d2, op, L, col)
  BY <1>1, <1>4 DEF Tracks
<1>5. CASE AheadText(in, t, w)
  <2>1. w = "head" /\ t # <<>> /\ in.to = "head" /\ t2 = t
    BY <1>2, <1>5 DEF AheadText
  <2>2. ~Quiet(s, p)
    BY <1>2, <1>5, ScanAhead
  <2>3. Ahead(s, p, L, col, t[Len(t)].indent)
    BY <1>1, <2>1 DEF Stands
  <2>4. Ahead(r.s, p2, L, col, t[Len(t)].indent) /\ Sync(r.s, p2, d2, op, L, col)
    BY <1>3, <2>2, <2>3
  <2>5. Stands(t, "head", b, r.s, p2, d2, L, col)
    BY <2>1, <2>4 DEF Stands
  <2> QED
    BY <1>1, <1>4, <2>1, <2>4, <2>5 DEF Parsing
<1>6. ASSUME NEW l \in Lines, AheadFirst(in, t, w, l) PROVE FALSE
  <2>1. Rest(s, L, col)
    BY <1>1, <1>6 DEF AheadFirst, Stands
  <2>2. Quiet(s, p)
    BY <2>1, RestQuiet
  <2> QED
    BY <1>2, <1>6, <2>2, ScanAhead
<1>7. ASSUME w = "tail" \/ (w = "head" /\ t = <<>>)
      PROVE  Rest(s, L, col) /\ Quiet(s, p) /\ Consumed(w, t) = Len(t)
  <2>1. Rest(s, L, col)
    BY <1>1, <1>7 DEF Stands
  <2> QED
    BY <1>7, <2>1, RestQuiet DEF Consumed
<1>8. ASSUME NEW l \in Lines, AheadLine(in, t, w, l) PROVE Parsing(t2, in.to, b, r.s, p2, d2, op, L, col)
  <2>1. (w = "tail" \/ (w = "head" /\ t = <<>>)) /\ in.to = "head" /\ Longer(t, l, t2)
    BY <1>8 DEF AheadLine, Longer
  <2>2. Rest(s, L, col) /\ Quiet(s, p) /\ Consumed(w, t) = Len(t)
    BY <1>7, <2>1
  <2>3. BreakResult(s, p, l.indent, r) /\ l.indent \in Columns
    BY <1>2, <1>8, <2>2, ScanAhead, LineTyped
  <2>4. Sync(r.s, p2, d2, op, L, col) /\ Ahead(r.s, p2, L, col, l.indent)
    BY <1>1, <2>2, <2>3, BreakStep
  <2>5. Holds(t2, Len(t), b) /\ Texts(t2, b) = Texts(t, b)
        /\ t2 \in Seq(Lines) /\ Len(t2) = Len(t) + 1 /\ t2[Len(t2)] = l
    <3>1. PICK m : m = Len(t) /\ Holds(t, m, b)
      BY <1>1, <2>2
    <3>2. Holds(t2, m, b) /\ Prefixed(t, b, l, t2)
      BY <2>1, <3>1, HoldsAhead
    <3> QED
      BY <3>1, <3>2 DEF Prefixed
  <2>6. t2 # <<>> /\ Len(t2) - 1 = Len(t)
    BY <1>2, <2>5
  <2>7. Consumed("head", t2) = Len(t)
    BY <2>6 DEF Consumed
  <2>8. Tracks(t2, b, r.s, p2, d2, op, L, col)
    BY <1>4, <2>4, <2>5 DEF Tracks
  <2>9. Stands(t2, "head", b, r.s, p2, d2, L, col)
    BY <2>4, <2>5, <2>6 DEF Stands
  <2> QED
    BY <2>1, <2>5, <2>7, <2>8, <2>9 DEF Parsing
<1>9. CASE AheadEnd(in, t, w)
  <2>1. (w = "tail" \/ (w = "head" /\ t = <<>>)) /\ in.to = "eof" /\ t2 = t
    BY <1>2, <1>9 DEF AheadEnd
  <2>2. Rest(s, L, col) /\ Quiet(s, p) /\ Consumed(w, t) = Len(t)
    BY <1>7, <2>1
  <2>3. BreakResult(s, p, 0, r) /\ 0 \in Columns
    <3>1. BreakResult(s, p, 0, r)
      BY <1>2, <1>9, <2>2, ScanAhead
    <3> QED
      BY <3>1 DEF Columns
  <2>4. Sync(r.s, p2, d2, op, L, col) /\ AtEof(r.s, p2, L, col)
    BY <1>1, <2>2, <2>3, BreakStep
  <2>5. Stands(t, "eof", b, r.s, p2, d2, L, col)
    BY <2>4 DEF Stands
  <2>6. Consumed("eof", t) = Len(t)
    BY DEF Consumed
  <2> QED
    BY <1>1, <1>4, <2>1, <2>2, <2>4, <2>5, <2>6 DEF Parsing
<1>10. CASE AheadEof(in, t, w)
  <2>1. w = "eof" /\ in.to = "eof" /\ t2 = t
    BY <1>2, <1>10 DEF AheadEof
  <2>2. AtEof(s, p, L, col)
    BY <1>1, <2>1 DEF Stands
  <2>3. Sync(r.s, p2, d2, op, L, col) /\ AtEof(r.s, p2, L, col)
    <3>1. CASE ~Quiet(s, p)
      BY <1>3, <2>2, <3>1
    <3>2. CASE Quiet(s, p)
      <4>1. EofResult(s, p, r)
        BY <1>2, <1>10, <3>2, ScanAhead
      <4> QED
        BY <1>1, <2>2, <3>2, <4>1, EofStep
    <3> QED
      BY <3>1, <3>2
  <2>4. Stands(t, "eof", b, r.s, p2, d2, L, col)
    BY <2>3 DEF Stands
  <2> QED
    BY <1>1, <1>4, <2>1, <2>3, <2>4 DEF Parsing
<1> QED
  BY <1>5, <1>6, <1>8, <1>9, <1>10

LEMMA TextLine ==
    ASSUME NEW t, NEW w, NEW b, NEW s, NEW p, NEW dep, NEW op, NEW L, NEW col,
           Parsing(t, w, b, s, p, dep, op, L, col),
           NEW in, NEW t2, t2 = t \o in.read,
           AheadText(in, t, w) \/ \E l \in Lines : AheadFirst(in, t, w, l),
           NEW l2, l2 = t2[Len(t2)]
    PROVE  \E m : AtText(t2, m, b, s, p, dep, op, L, col, l2)
<1>1. Holds(t, Consumed(w, t), b) /\ Tracks(t, b, s, p, dep, op, L, col)
      /\ Stands(t, w, b, s, p, dep, L, col) /\ Sync(s, p, dep, op, L, col)
  BY DEF Parsing, Tracks
<1>2. t \in Seq(Lines) /\ t \o <<>> = t
  <2>1. t \in Seq(Lines)
    BY <1>1 DEF Holds
  <2> QED
    BY <2>1
<1>3. CASE AheadText(in, t, w)
  <2>1. w = "head" /\ t # <<>> /\ t2 = t
    BY <1>2, <1>3 DEF AheadText
  <2>2. Ahead(s, p, L, col, l2.indent)
    BY <1>1, <2>1 DEF Stands
  <2>3. Len(t) - 1 \in Nat /\ (Len(t) - 1) + 1 = Len(t)
    BY <1>2, <2>1
  <2>4. Holds(t, Len(t) - 1, b)
    BY <1>1, <2>1 DEF Consumed
  <2> QED
    <3>1. AtText(t, Len(t) - 1, b, s, p, dep, op, L, col, l2)
      BY <1>1, <1>2, <2>1, <2>2, <2>3, <2>4 DEF AtText
    <3> QED
      BY <2>1, <3>1
<1>4. ASSUME NEW l \in Lines, AheadFirst(in, t, w, l)
      PROVE  AtText(t2, 0, b, s, p, dep, op, L, col, l2)
  <2>1. w = "head" /\ t = <<>> /\ Longer(t, l, t2) /\ ~l.blank
    BY <1>4 DEF AheadFirst, Longer
  <2>2. p = "top" /\ Rest(s, L, col)
    BY <1>1, <2>1 DEF Stands
  <2>3. PICK z : z = 0 /\ Holds(t, z, b)
    BY <1>1, <2>1 DEF Consumed
  <2>4. Holds(t2, z, b) /\ Prefixed(t, b, l, t2)
    BY <2>1, <2>3, HoldsAhead
  <2>5. Len(t2) = 1 /\ t2 # <<>> /\ l2 = l /\ t2 \in Seq(Lines)
    <3>1. t2 \in Seq(Lines) /\ Len(t2) = Len(t) + 1 /\ l2 = l
      BY <2>4, Zenon DEF Prefixed
    <3>2. Len(t) = 0
      BY <2>1
    <3>3. Len(t2) = 1
      BY <3>1, <3>2
    <3> QED
      BY <3>1, <3>3
  <2>6. Tracks(t2, b, s, p, dep, op, L, col)
    BY <1>1, <2>4 DEF Tracks, Prefixed
  <2> QED
    BY <2>1, <2>2, <2>3, <2>4, <2>5, <2>6 DEF AtText
<1> QED
  BY <1>3, <1>4

Reads(t, in, t2) == t2 = t \o in.read

OnText(in, t, w) == AheadText(in, t, w) \/ \E l \in Lines : AheadFirst(in, t, w, l)

PosAfter(l, p, dep) ==
    IF Comment(l) THEN p ELSE IF l.opens THEN "opened" ELSE IF dep = 0 THEN "top" ELSE "item"

TreeAfter(t, b, l, dep) ==
    IF Comment(l) THEN b ELSE Append(b, [line |-> Len(t), depth |-> dep, as |-> l.flaw])

\* The text of a line.
LEMMA TextKeeps ==
    ASSUME NEW t, NEW w, NEW b, NEW s, NEW p, NEW dep, NEW op, NEW L, NEW col,
           Parsing(t, w, b, s, p, dep, op, L, col), Quiet(s, p),
           NEW in, NEW t2, Reads(t, in, t2), OnText(in, t, w),
           NEW l2, l2 = t2[Len(t2)], Comment(l2) \/ Takes(l2, p, dep),
           NEW p2, p2 = PosAfter(l2, p, dep), NEW b2, b2 = TreeAfter(t2, b, l2, dep)
    PROVE  \E op2, L2, col2 : Parsing(t2, "tail", b2, s, p2, dep, op2, L2, col2)
<1>1. Holds(t, Consumed(w, t), b) /\ Tracks(t, b, s, p, dep, op, L, col)
      /\ Stands(t, w, b, s, p, dep, L, col) /\ Sync(s, p, dep, op, L, col)
  BY DEF Parsing, Tracks
<1>2. t \in Seq(Lines) /\ t \o <<>> = t
  <2>1. t \in Seq(Lines)
    BY <1>1 DEF Holds
  <2> QED
    BY <2>1
<1>3. PICK m : /\ m \in Nat /\ m + 1 = Len(t2) /\ t2 \in Seq(Lines) /\ t2 # <<>> /\ Holds(t2, m, b)
               /\ Tracks(t2, b, s, p, dep, op, L, col)
               /\ \/ Ahead(s, p, L, col, l2.indent)
                  \/ p = "top" /\ m = 0 /\ ~l2.blank /\ Rest(s, L, col)
  <2>1. PICK m : AtText(t2, m, b, s, p, dep, op, L, col, l2)
    BY TextLine DEF Reads, OnText
  <2> QED
    BY <2>1 DEF AtText
<1>4. l2 \in Lines /\ l2.indent \in Columns /\ l2.indent \in Nat /\ l2.opens \in BOOLEAN
  <2>1. l2 \in Lines
    BY <1>3
  <2> QED
    BY <2>1, LineTyped
<1>5. PICK h : h = m + 1 /\ h = Len(t2) /\ h = Consumed("tail", t2)
  BY <1>3 DEF Consumed
<1>6. CASE Comment(l2)
  <2>1. Holds(t2, h, b)
    BY <1>3, <1>5, <1>6, HoldsComment
  <2>2. p2 = p /\ b2 = b
    BY <1>6 DEF PosAfter, TreeAfter
  <2>3. Rest(s, L, col)
    <3>1. CASE Ahead(s, p, L, col, l2.indent)
      <4>1. p # "opened" /\ Closed(s.stack, col, L, l2.indent) /\ l2.indent >= Top(s)
        BY <3>1 DEF Ahead
      <4>2. s.pending_dedents = 0 /\ ~s.pending_newline
        BY <4>1 DEF Quiet
      <4>3. Closed(s.stack, col, L, Top(s))
        <5> SUFFICES ASSUME NEW k \in Len(s.stack)..L PROVE col[k] > Top(s)
          BY DEF Closed
        <5>1. col[k] > l2.indent
          BY <4>1 DEF Closed
        <5>2. Top(s) \in Nat /\ k \in 0..3 /\ (\A i \in 0..3 : col[i] \in Nat)
          <6>1. Top(s) \in Nat /\ Len(s.stack) \in Nat /\ L \in 0..3 /\ (\A i \in 0..3 : col[i] \in Nat)
            BY <1>1, SyncFacts
          <6> QED
            BY <6>1
        <5>3. \A x, y, z \in Nat : x > y /\ y >= z => x > z
          OBVIOUS
        <5>4. col[k] \in Nat
          BY <5>2
        <5> QED
          BY <1>4, <4>1, <5>1, <5>2, <5>3, <5>4, Zenon
      <4> QED
        BY <4>2, <4>3 DEF Rest
    <3> QED
      BY <1>3, <3>1
  <2>4. Stands(t2, "tail", b, s, p, dep, L, col)
    BY <1>3, <1>6, <2>3 DEF Stands
  <2>5. Parsing(t2, "tail", b, s, p, dep, op, L, col)
    BY <1>3, <1>5, <2>1, <2>4 DEF Parsing
  <2> QED
    BY <2>2, <2>5
<1>7. CASE ~Comment(l2)
  <2>1. Takes(l2, p, dep) /\ b2 = Append(b, [line |-> Len(t2), depth |-> dep, as |-> l2.flaw])
        /\ p2 = (IF l2.opens THEN "opened" ELSE IF dep = 0 THEN "top" ELSE "item")
    BY <1>7 DEF PosAfter, TreeAfter
  <2>2. PICK col2 : col2 = NewColumns(col, dep, l2.indent)
    OBVIOUS
  <2>0. AtText(t2, m, b, s, p, dep, op, L, col, l2)
    BY <1>3 DEF AtText
  <2>3. Holds(t2, h, b2) /\ Grown(t2, b2, dep, l2, col2)
    <3>1. Added(t2, b, dep, l2, b2)
      BY <2>1 DEF Added
    <3> QED
      BY <1>5, <1>7, <2>0, <2>1, <2>2, <3>1, HoldsNext
  <2>5. Sync(s, p2, dep, l2.opens, dep, col2) /\ Rest(s, dep, col2) /\ Settled(p2, dep, dep)
    <3>1. p2 = AfterLine(l2, dep)
      BY <2>1 DEF AfterLine
    <3> QED
      BY <2>0, <2>1, <2>2, <3>1, SyncTaken
  <2>6. Tracks(t2, b2, s, p2, dep, l2.opens, dep, col2)
    BY <2>3, <2>5 DEF Tracks, Grown
  <2>7. Stands(t2, "tail", b2, s, p2, dep, dep, col2)
    BY <1>3, <2>3, <2>5 DEF Stands, Grown
  <2>8. Parsing(t2, "tail", b2, s, p2, dep, l2.opens, dep, col2)
    BY <1>5, <2>3, <2>6, <2>7 DEF Parsing
  <2> QED
    BY <2>8
<1> QED
  BY <1>6, <1>7

\* No token and no text that fits: the text has no layout.
LEMMA TextRefused ==
    ASSUME NEW t, NEW m, NEW b, NEW s, NEW p, NEW dep, NEW op, NEW L, NEW col, NEW l,
           AtText(t, m, b, s, p, dep, op, L, col, l), l = t[Len(t)], Quiet(s, p), ~Takes(l, p, dep),
           NoComments(t), NEW d \in Levels(t), IsLayout(t, t, d)
    PROVE  FALSE
<1>1. /\ m \in Nat /\ m + 1 = Len(t) /\ t \in Seq(Lines) /\ t # <<>> /\ Holds(t, m, b)
      /\ Tracks(t, b, s, p, dep, op, L, col)
      /\ Ahead(s, p, L, col, l.indent) \/ (p = "top" /\ m = 0 /\ ~l.blank)
  BY DEF AtText
<1>2. l \in Lines /\ Len(t) \in DOMAIN t
  BY <1>1
<1>3. l.indent \in Nat /\ l.word \in {"top", "body"}
  <2>1. ~Comment(l)
    BY <1>2 DEF NoComments
  <2> QED
    BY <1>2, <2>1, LineTyped DEF Comment
<1>4. Sync(s, p, dep, op, L, col) /\ col[0] = 0
  BY <1>1 DEF Tracks, Levelled
<1>5. PICK any : any <=> m = 0 /\ ~l.blank
  OBVIOUS
<1>6. Ahead(s, p, L, col, l.indent) \/ (any /\ p = "top" /\ ~op /\ L = 0)
  <2>1. CASE p = "top" /\ m = 0 /\ ~l.blank
    <3>1. Len(b) = 0
      <4>1. \A i \in 1..Len(b) : b[i].line \in 1..m
        BY <1>1 DEF Holds, TreeOf
      <4>2. b \in Seq(Nodes)
        BY <1>1 DEF Holds
      <4>3. Len(b) \in Nat /\ (Len(b) > 0 => 1 \in 1..Len(b)) /\ \A x : x \notin 1..m
        BY <2>1, <4>2
      <4> QED
        BY <4>1, <4>3
    <3>2. L = 0 /\ ~op
      BY <1>1, <3>1 DEF Tracks, Levelled
    <3> QED
      BY <1>5, <2>1, <3>2
  <2> QED
    BY <1>1, <2>1
<1>7. \A k \in 0..3 : ~StandsAt(k, l, op, L, col, any)
  BY <1>3, <1>4, <1>6, RefusedText
<1> QED
  BY <1>1, <1>5, <1>7, NoLayout

LEMMA LineRefused ==
    ASSUME NEW t, NEW w, NEW b, NEW s, NEW p, NEW dep, NEW op, NEW L, NEW col,
           Parsing(t, w, b, s, p, dep, op, L, col),
           NEW l \in Lines, w = "tail" \/ (w = "head" /\ t = <<>> /\ l.blank),
           NEW r, BreakResult(s, p, l.indent, r), r.tok = "none",
           NEW t2, Longer(t, l, t2), NoComments(t2), NEW d \in Levels(t2), IsLayout(t2, t2, d)
    PROVE  FALSE
<1>1. Holds(t, Consumed(w, t), b) /\ Tracks(t, b, s, p, dep, op, L, col)
      /\ Stands(t, w, b, s, p, dep, L, col) /\ Sync(s, p, dep, op, L, col) /\ col[0] = 0
  BY DEF Parsing, Tracks, Levelled
<1>2. PICK m : m = Len(t) /\ Holds(t, m, b) /\ t \in Seq(Lines) /\ b \in Seq(Nodes)
  BY <1>1 DEF Consumed, Holds
<1>3. Holds(t2, m, b) /\ Prefixed(t, b, l, t2)
  BY <1>2, HoldsAhead
<1>4. /\ Texts(t2, b) = Texts(t, b) /\ m + 1 = Len(t2) /\ l = t2[Len(t2)]
      /\ t2 \in Seq(Lines)
  BY <1>2, <1>3, Zenon DEF Prefixed
<1>5. Tracks(t2, b, s, p, dep, op, L, col)
  BY <1>1, <1>4 DEF Tracks
<1>6. Rest(s, L, col) /\ Settled(p, dep, L) /\ ~(m = 0 /\ ~l.blank)
  <2>1. CASE w = "head" /\ t = <<>> /\ l.blank
    <3>1. p = "top" /\ b = <<>> /\ Rest(s, L, col)
      BY <1>1, <2>1 DEF Stands
    <3>2. L = 0
      BY <1>1, <3>1 DEF Tracks, Levelled
    <3>3. dep = 0
      BY <1>1, <3>1, SyncFacts
    <3> QED
      BY <2>1, <3>1, <3>2, <3>3 DEF Settled
  <2>2. CASE w = "tail"
    <3>1. t # <<>> /\ Rest(s, L, col) /\ (~Comment(t[Len(t)]) => Settled(p, dep, L))
      BY <1>1, <2>2 DEF Stands
    <3>2. Len(t) \in DOMAIN t2 /\ t2[Len(t)] = t[Len(t)] /\ m # 0
      BY <1>2, <3>1 DEF Longer
    <3>3. ~Comment(t[Len(t)])
      BY <3>2 DEF NoComments
    <3> QED
      BY <3>1, <3>2, <3>3
  <2> QED
    BY <2>1, <2>2
<1>7. PICK any : any <=> m = 0 /\ ~l.blank
  OBVIOUS
<1>8. l.indent \in Nat
  BY LineTyped
<1>9. \A k \in 0..3 : ~StandsAt(k, l, op, L, col, any)
  BY <1>1, <1>6, <1>7, <1>8, RefusedBreak
<1> QED
  BY <1>3, <1>4, <1>5, <1>7, <1>9, NoLayout

\* The text may not end here: its last line opens a block.
LEMMA EndRefused ==
    ASSUME NEW t, NEW w, NEW b, NEW s, NEW p, NEW dep, NEW op, NEW L, NEW col,
           Parsing(t, w, b, s, p, dep, op, L, col), w = "tail" \/ (w = "head" /\ t = <<>>),
           NEW r, BreakResult(s, p, 0, r), r.tok = "none", NoComments(t)
    PROVE  t # <<>> /\ t[Len(t)].opens
<1>1. Holds(t, Consumed(w, t), b) /\ Tracks(t, b, s, p, dep, op, L, col)
      /\ Stands(t, w, b, s, p, dep, L, col) /\ Sync(s, p, dep, op, L, col)
  BY DEF Parsing, Tracks
<1>2. PICK m : m = Len(t) /\ Holds(t, m, b) /\ t \in Seq(Lines) /\ b \in Seq(Nodes)
  BY <1>1 DEF Consumed, Holds
<1>3. Rest(s, L, col) /\ p # "want"
  <2>1. CASE w = "head" /\ t = <<>>
    BY <1>1, <2>1 DEF Stands
  <2>2. CASE w = "tail"
    <3>1. t # <<>> /\ Rest(s, L, col) /\ (~Comment(t[Len(t)]) => Settled(p, dep, L))
      BY <1>1, <2>2 DEF Stands
    <3>2. Len(t) \in DOMAIN t
      BY <1>2, <3>1
    <3> QED
      BY <3>1, <3>2 DEF NoComments, Settled
  <2> QED
    BY <2>1, <2>2
<1>4. op
  BY <1>1, <1>3, RefusedEnd
<1>5. Len(b) > 0 /\ Texts(t, b)[Len(b)].opens
  BY <1>1, <1>4 DEF Tracks
<1>6. Len(b) = m /\ \A i \in 1..m : b[i].line = i
  BY <1>2 DEF Holds, OnlyLayout
<1>7. m \in 1..m /\ m \in Nat
  BY <1>2, <1>5, <1>6
<1>8. Texts(t, b)[m] = t[m]
  BY <1>6, <1>7 DEF Texts
<1> QED
  BY <1>2, <1>5, <1>6, <1>7, <1>8

-----------------------------------------------------------------------------
(* The parse, as an invariant.                                             *)

ParseInv ==
    /\ ending = "newline"
    /\ stage = "parse" =>
          /\ errors = {} /\ ast = <<>> /\ cursor = 1
          /\ \E s, op, L, col : buf = serialize(s) /\ Parsing(lines, where, tree, s, pos, depth, op, L, col)

\* A state of the parse and an input, named; r is what the scanner returns.
Meets(t, w, b, s, p, dep, op, L, col, in, r) ==
    /\ Parsing(t, w, b, s, p, dep, op, L, col) /\ Fits(s, p, dep)
    /\ \/ AheadText(in, t, w) \/ AheadEnd(in, t, w) \/ AheadEof(in, t, w)
       \/ \E l \in Lines : AheadFirst(in, t, w, l) \/ AheadLine(in, t, w, l)
    /\ ScanResult(s, p, in.ahead, r) /\ (r.tok # "none" => Fit(r, dep))

LEMMA ParseMeets ==
    ASSUME ParseInv, stage = "parse"
    PROVE  \E s, op, L, col : /\ buf = serialize(s)
                              /\ Parsing(lines, where, tree, s, pos, depth, op, L, col)
                              /\ \A in \in Input :
                                    Meets(lines, where, tree, s, pos, depth, op, L, col, in, Scanned(in))
<1>1. PICK s, op, L, col : buf = serialize(s) /\ Parsing(lines, where, tree, s, pos, depth, op, L, col)
  BY DEF ParseInv
<1>2. Fits(s, pos, depth) /\ where \in {"head", "tail", "eof"}
  BY <1>1 DEF Parsing, Tracks, Sync, Stands
<1>3. deserialize(buf) = s
  BY <1>1, <1>2, RoundTrip DEF Fits, Good
<1>4. ASSUME NEW in \in Input
      PROVE  Meets(lines, where, tree, s, pos, depth, op, L, col, in, Scanned(in))
  <2>1. PICK t, w, p, d, a, r : t = lines /\ w = where /\ p = pos /\ d = depth /\ a = in.ahead
                                /\ r = scan(s, Valid(p), a)
    OBVIOUS
  <2>2. Scanned(in) = r
    BY <1>3, <2>1 DEF Scanned
  <2>3. \/ AheadText(in, t, w) \/ AheadEnd(in, t, w) \/ AheadEof(in, t, w)
        \/ \E l \in Lines : AheadFirst(in, t, w, l) \/ AheadLine(in, t, w, l)
    BY <1>2, <1>4, <2>1, InputCases DEF ParseInv
  <2>4. a.indent \in Columns /\ (a.at \in {"text", "eof"} \/ (a.at = "break" /\ ~(a.last /\ a.indent > 0)))
    BY <2>1, <2>3, AheadTyped
  <2>5. Fits(s, p, d)
    BY <1>2, <2>1
  <2>6. ScanResult(s, p, a, r)
    BY <2>1, <2>4, <2>5, ScanResults
  <2>7. r.tok # "none" => Fit(r, d)
    BY <2>1, <2>4, <2>5, ScanFits
  <2> QED
    BY <1>1, <2>1, <2>2, <2>3, <2>5, <2>6, <2>7 DEF Meets
<1> QED
  BY <1>1, <1>4

LEMMA ParseScan == ParseInv /\ ScanToken => ParseInv'
<1> SUFFICES ASSUME ParseInv, ScanToken PROVE ParseInv'
  OBVIOUS
<1>1. /\ stage = "parse" /\ UNCHANGED <<ending, tree, stage, errors, ast, cursor>>
      /\ errors = {} /\ ast = <<>> /\ cursor = 1
  BY DEF ScanToken, ParseInv, lowering
<1>2. PICK in \in Input : /\ Scanned(in).tok # "none" /\ Shift(Scanned(in).tok)
                          /\ buf' = serialize(Scanned(in).s)
                          /\ lines' = lines \o in.read /\ where' = in.to
  BY DEF ScanToken
<1>3. PICK s, op, L, col : Meets(lines, where, tree, s, pos, depth, op, L, col, in, Scanned(in))
  BY <1>1, ParseMeets
<1>4. PICK t, w, b, p, d, r : t = lines /\ w = where /\ b = tree /\ p = pos /\ d = depth /\ r = Scanned(in)
  OBVIOUS
<1>5. Meets(t, w, b, s, p, d, op, L, col, in, r) /\ r.tok # "none"
  BY <1>2, <1>3, <1>4
<1>6. PICK t2, p2, d2 : t2 = t \o in.read /\ p2 = After(r.tok, d)[1] /\ d2 = After(r.tok, d)[2]
  OBVIOUS
<1>7. Parsing(t2, in.to, b, r.s, p2, d2, op, L, col)
  BY <1>5, <1>6, ScanKeeps DEF Meets
<1>8. pos' = p2 /\ depth' = d2
  BY <1>2, <1>4, <1>6 DEF Shift, After
<1>9. lines' = t2 /\ where' = in.to /\ buf' = serialize(r.s) /\ tree' = b
  BY <1>1, <1>2, <1>4, <1>6
<1>10. \E z, o, m, c : buf' = serialize(z) /\ Parsing(lines', where', tree', z, pos', depth', o, m, c)
  BY <1>7, <1>8, <1>9
<1> QED
  BY <1>1, <1>10 DEF ParseInv

LEMMA ParseText == ParseInv /\ ReadText => ParseInv'
<1> SUFFICES ASSUME ParseInv, ReadText PROVE ParseInv'
  OBVIOUS
<1>1. /\ stage = "parse" /\ UNCHANGED <<ending, buf, depth, stage, errors, ast, cursor>>
      /\ errors = {} /\ ast = <<>> /\ cursor = 1
  BY DEF ReadText, ParseInv, lowering
<1>2. PICK in \in Input : \E t2, l :
         /\ t2 = lines \o in.read /\ l = t2[Len(t2)]
         /\ in.ahead.at = "text" /\ Scanned(in).tok = "none" /\ Accepts(l)
         /\ lines' = t2 /\ where' = "tail"
         /\ pos' = PosAfter(l, pos, depth) /\ tree' = TreeAfter(t2, tree, l, depth)
  BY DEF ReadText, PosAfter, TreeAfter
<1>0. PICK t2, l :
         /\ t2 = lines \o in.read /\ l = t2[Len(t2)]
         /\ in.ahead.at = "text" /\ Scanned(in).tok = "none" /\ Accepts(l)
         /\ lines' = t2 /\ where' = "tail"
         /\ pos' = PosAfter(l, pos, depth) /\ tree' = TreeAfter(t2, tree, l, depth)
  BY <1>2
<1>3. PICK s, op, L, col : /\ buf = serialize(s)
                           /\ Meets(lines, where, tree, s, pos, depth, op, L, col, in, Scanned(in))
  BY <1>1, ParseMeets
<1>4. PICK t, w, b, p, d, r : t = lines /\ w = where /\ b = tree /\ p = pos /\ d = depth /\ r = Scanned(in)
  OBVIOUS
<1>5. Meets(t, w, b, s, p, d, op, L, col, in, r) /\ r.tok = "none" /\ t2 = t \o in.read
  BY <1>0, <1>3, <1>4
<1>6. Quiet(s, p)
  BY <1>5, Zenon DEF Meets, ScanResult
<1>7. AheadText(in, t, w) \/ \E k \in Lines : AheadFirst(in, t, w, k)
  <2>1. ~AheadEnd(in, t, w) /\ ~AheadEof(in, t, w) /\ \A k : ~AheadLine(in, t, w, k)
    BY <1>0 DEF AheadEnd, AheadEof, AheadLine, Eof, Break
  <2> QED
    BY <1>5, <2>1, Zenon DEF Meets
<1>8. Comment(l) \/ Takes(l, p, d)
  BY <1>0, <1>4 DEF Accepts, Takes, MaxDepth
<1>9. PICK p2, b2 : p2 = PosAfter(l, p, d) /\ b2 = TreeAfter(t2, b, l, d)
  OBVIOUS
<1>10. \E o, m, c : Parsing(t2, "tail", b2, s, p2, d, o, m, c)
  <2>1. Reads(t, in, t2) /\ OnText(in, t, w) /\ Parsing(t, w, b, s, p, d, op, L, col) /\ l = t2[Len(t2)]
    BY <1>0, <1>5, <1>7 DEF Reads, OnText, Meets
  <2> QED
    BY <1>6, <1>8, <1>9, <2>1, TextKeeps
<1>11. lines' = t2 /\ where' = "tail" /\ buf' = serialize(s) /\ tree' = b2 /\ pos' = p2 /\ depth' = d
  BY <1>1, <1>0, <1>3, <1>4, <1>9
<1>12. \E z, o, m, c : buf' = serialize(z) /\ Parsing(lines', where', tree', z, pos', depth', o, m, c)
  BY <1>10, <1>11
<1> QED
  BY <1>1, <1>12 DEF ParseInv

\* No text that the parser takes, and no end where it may end.
Misfit(in, l, p, dep) ==
    /\ in.ahead.at = "text" => ~Comment(l) /\ ~Takes(l, p, dep)
    /\ in.ahead.at = "eof" => p # "top"

Refused(t, w) == NoComments(t) => ~WellLaidOut(t, w = "eof")

\* Where the parser recovers, the text has no layout.
LEMMA RecoverRefused ==
    ASSUME NEW t, NEW w, NEW b, NEW s, NEW p, NEW dep, NEW op, NEW L, NEW col, NEW in, NEW r,
           Meets(t, w, b, s, p, dep, op, L, col, in, r), r.tok = "none",
           NEW t2, Reads(t, in, t2), Misfit(in, t2[Len(t2)], p, dep)
    PROVE  Refused(t2, in.to)
<1>0. PICK l2 : /\ l2 = t2[Len(t2)] /\ t2 = t \o in.read
                /\ in.ahead.at = "text" => ~Comment(l2) /\ ~Takes(l2, p, dep)
                /\ in.ahead.at = "eof" => p # "top"
  BY DEF Reads, Misfit
<1> SUFFICES ASSUME NoComments(t2), WellLaidOut(t2, in.to = "eof") PROVE FALSE
  BY DEF Refused
<1>1. PICK d \in Levels(t2) : IsLayout(t2, t2, d)
  BY DEF WellLaidOut
<1>2. in.to = "eof" /\ t2 # <<>> => ~t2[Len(t2)].opens
  BY DEF WellLaidOut
<1>3. Parsing(t, w, b, s, p, dep, op, L, col) /\ ScanResult(s, p, in.ahead, r)
      /\ Sync(s, p, dep, op, L, col) /\ Stands(t, w, b, s, p, dep, L, col)
  BY DEF Meets, Parsing, Tracks
<1>4. Quiet(s, p) /\ s.pending_dedents \in Nat
  BY <1>3, SyncFacts DEF ScanResult
<1>5. t \o <<>> = t
  BY <1>3 DEF Parsing, Holds
<1>6. CASE AheadText(in, t, w) \/ \E l \in Lines : AheadFirst(in, t, w, l)
  <2>1. in.ahead.at = "text"
    BY <1>6 DEF AheadText, AheadFirst, Text
  <2>2. PICK m : AtText(t2, m, b, s, p, dep, op, L, col, l2)
    BY <1>0, <1>3, <1>6, TextLine
  <2> QED
    BY <1>0, <1>1, <1>4, <2>1, <2>2, TextRefused
<1>7. ASSUME NEW l \in Lines, AheadLine(in, t, w, l) PROVE FALSE
  <2>1. (w = "tail" \/ (w = "head" /\ t = <<>> /\ l.blank)) /\ Longer(t, l, t2)
    BY <1>0, <1>7 DEF AheadLine, Longer
  <2>2. BreakResult(s, p, l.indent, r)
    BY <1>3, <1>4, <1>7, ScanAhead
  <2> QED
    BY <1>1, <1>3, <2>1, <2>2, LineRefused
<1>8. CASE AheadEnd(in, t, w)
  <2>1. (w = "tail" \/ (w = "head" /\ t = <<>>)) /\ in.to = "eof" /\ t2 = t
    BY <1>0, <1>5, <1>8 DEF AheadEnd
  <2>2. BreakResult(s, p, 0, r)
    BY <1>3, <1>4, <1>8, ScanAhead
  <2>3. t # <<>> /\ t[Len(t)].opens
    BY <1>3, <2>1, <2>2, EndRefused
  <2> QED
    BY <1>2, <2>1, <2>3
<1>9. CASE AheadEof(in, t, w)
  <2>1. w = "eof" /\ p # "top"
    BY <1>0, <1>9 DEF AheadEof, Eof
  <2>2. EofResult(s, p, r)
    BY <1>3, <1>4, <1>9, ScanAhead
  <2>3. AtEof(s, p, L, col)
    BY <1>3, <2>1 DEF Stands
  <2> QED
    BY <1>3, <1>4, <2>1, <2>2, <2>3, RefusedEof
<1> QED
  BY <1>6, <1>7, <1>8, <1>9, Zenon DEF Meets

-----------------------------------------------------------------------------
(* The tree that the parse leaves, and its lowering.                       *)

Parsed(t, w, b) ==
    /\ b \in Seq(Nodes)
    /\ \A i \in 1..Len(b) : b[i].as \in {"arg", "whole"} => \E k \in DOMAIN t : Flawed(t[k])
    /\ \/ Holds(t, Len(t), b)
       \/ (\E i \in 1..Len(b) : b[i].as \in {"ERROR", "MISSING"}) /\ Refused(t, w)

LEMMA HoldsFlaws ==
    ASSUME NEW t, NEW m, NEW b, Holds(t, m, b), NEW i \in 1..Len(b)
    PROVE  /\ b[i].as \in {"none", "arg", "whole"}
           /\ b[i].as \in {"arg", "whole"} => \E k \in DOMAIN t : Flawed(t[k])
<1>1. t \in Seq(Lines) /\ m \in Nat /\ m <= Len(t) /\ b[i].line \in 1..m /\ b[i].as = t[b[i].line].flaw
  BY DEF Holds, TreeOf
<1>2. PICK k : k = b[i].line
  OBVIOUS
<1>3. k \in DOMAIN t /\ t[k] \in Lines /\ b[i].as = t[k].flaw
  BY <1>1, <1>2
<1>4. t[k].flaw \in {"none", "arg", "whole"}
  BY <1>3, LineTyped
<1> QED
  BY <1>3, <1>4 DEF Flawed

LEMMA EndsParsed == ParseInv /\ ParseEnds => Parsed(lines, where, tree)
<1> SUFFICES ASSUME ParseInv, ParseEnds PROVE Parsed(lines, where, tree)
  OBVIOUS
<1>1. PICK s, op, L, col : Parsing(lines, where, tree, s, pos, depth, op, L, col)
  BY DEF ParseInv, ParseEnds
<1>2. PICK t, w, b : t = lines /\ w = where /\ b = tree
  OBVIOUS
<1>3. w = "eof"
  BY <1>2 DEF ParseEnds
<1>4. Holds(t, Len(t), b)
  BY <1>1, <1>2, <1>3 DEF Parsing, Consumed
<1>5. b \in Seq(Nodes)
  BY <1>4 DEF Holds
<1>6. \A i \in 1..Len(b) : b[i].as \in {"arg", "whole"} => \E k \in DOMAIN t : Flawed(t[k])
  BY <1>4, HoldsFlaws
<1> QED
  BY <1>2, <1>4, <1>5, <1>6 DEF Parsed

LEMMA RecoversParsed == ParseInv /\ ParseRecovers => Parsed(lines', where', tree')
<1> SUFFICES ASSUME ParseInv, ParseRecovers PROVE Parsed(lines', where', tree')
  OBVIOUS
<1>1. PICK in \in Input : \E t2, n :
         /\ t2 = lines \o in.read /\ Scanned(in).tok = "none" /\ n \in {"ERROR", "MISSING"}
         /\ in.ahead.at = "text" => ~Accepts(t2[Len(t2)])
         /\ in.ahead.at = "eof" => pos # "top"
         /\ lines' = t2 /\ where' = in.to
         /\ tree' = Append(tree, [line |-> Len(t2), depth |-> depth, as |-> n])
  BY DEF ParseRecovers
<1>2. PICK t2, n :
         /\ t2 = lines \o in.read /\ Scanned(in).tok = "none" /\ n \in {"ERROR", "MISSING"}
         /\ in.ahead.at = "text" => ~Accepts(t2[Len(t2)])
         /\ in.ahead.at = "eof" => pos # "top"
         /\ lines' = t2 /\ where' = in.to
         /\ tree' = Append(tree, [line |-> Len(t2), depth |-> depth, as |-> n])
  BY <1>1
<1>3. PICK s, op, L, col : Meets(lines, where, tree, s, pos, depth, op, L, col, in, Scanned(in))
  BY ParseMeets DEF ParseRecovers
<1>4. PICK t, w, b, p, d, r : t = lines /\ w = where /\ b = tree /\ p = pos /\ d = depth /\ r = Scanned(in)
  OBVIOUS
<1>5. Meets(t, w, b, s, p, d, op, L, col, in, r) /\ r.tok = "none" /\ t2 = t \o in.read
  BY <1>2, <1>3, <1>4
<1>6. PICK l : l = t2[Len(t2)]
  OBVIOUS
<1>7. Misfit(in, l, p, d)
  <2>1. ~Accepts(l) => ~Comment(l) /\ ~Takes(l, p, d)
    BY <1>4 DEF Accepts, Takes, MaxDepth
  <2> QED
    BY <1>2, <1>4, <1>6, <2>1 DEF Misfit
<1>8. Refused(t2, in.to)
  <2>1. Reads(t, in, t2)
    BY <1>5 DEF Reads
  <2> QED
    BY <1>5, <1>6, <1>7, <2>1, RecoverRefused
<1>9. PICK m : Holds(t, m, b)
  BY <1>5 DEF Meets, Parsing
<1>10. t \in Seq(Lines) /\ b \in Seq(Nodes) /\ d \in 0..3
  <2>1. Sync(s, p, d, op, L, col)
    BY <1>5 DEF Meets, Parsing, Tracks
  <2>2. d \in 0..3
    BY <2>1, SyncFacts
  <2> QED
    BY <1>9, <2>2 DEF Holds
<1>11. t2 \in Seq(Lines) /\ \A k \in DOMAIN t : k \in DOMAIN t2 /\ t2[k] = t[k]
  <2>1. in.read = <<>> \/ \E k \in Lines : in.read = <<k>>
    BY <1>5 DEF Meets, AheadText, AheadEnd, AheadEof, AheadFirst, AheadLine
  <2>2. CASE in.read = <<>>
    <3>1. t2 = t
      BY <1>5, <1>10, <2>2
    <3> QED
      BY <1>10, <3>1
  <2>3. ASSUME NEW k \in Lines, in.read = <<k>>
        PROVE  t2 \in Seq(Lines) /\ \A j \in DOMAIN t : j \in DOMAIN t2 /\ t2[j] = t[j]
    <3>1. t2 = t \o <<k>>
      BY <1>5, <2>3
    <3>2. t2 \in Seq(Lines) /\ Len(t2) = Len(t) + 1 /\ \A j \in 1..Len(t) : t2[j] = t[j]
      BY <1>10, <3>1
    <3> QED
      BY <1>10, <3>2
  <2> QED
    BY <2>1, <2>2, <2>3
<1>12. PICK z, b2 : z = [line |-> Len(t2), depth |-> d, as |-> n] /\ b2 = Append(b, z)
  OBVIOUS
<1>13. z \in Nodes /\ z.as \in {"ERROR", "MISSING"}
  <2>0. n \in {"ERROR", "MISSING"}
    BY <1>2, Zenon
  <2>1. Len(t2) \in Nat /\ n \in {"ERROR", "MISSING"} /\ n \in Marks
    BY <1>11, <2>0 DEF Marks
  <2> QED
    BY <1>10, <1>12, <2>1 DEF Nodes
<1>14. b2 \in Seq(Nodes) /\ Len(b) \in Nat /\ Len(b2) = Len(b) + 1 /\ b2[Len(b) + 1] = z
       /\ \A i \in 1..Len(b) : b2[i] = b[i]
  BY <1>10, <1>12, <1>13
<1>15. \A i \in 1..Len(b2) : b2[i].as \in {"arg", "whole"} => \E k \in DOMAIN t2 : Flawed(t2[k])
  <2> SUFFICES ASSUME NEW i \in 1..Len(b2), b2[i].as \in {"arg", "whole"}
               PROVE  \E k \in DOMAIN t2 : Flawed(t2[k])
    OBVIOUS
  <2>1. i # Len(b) + 1
    BY <1>13, <1>14
  <2>2. i \in 1..Len(b)
    BY <1>14, <2>1
  <2>3. b[i].as \in {"arg", "whole"}
    BY <1>14, <2>2
  <2>4. PICK k \in DOMAIN t : Flawed(t[k])
    BY <1>9, <2>2, <2>3, HoldsFlaws
  <2> QED
    BY <1>11, <2>4
<1>16. \E i \in 1..Len(b2) : b2[i].as \in {"ERROR", "MISSING"}
  <2>1. Len(b) + 1 \in 1..Len(b2)
    BY <1>14
  <2> QED
    BY <1>13, <1>14, <2>1
<1>17. Parsed(t2, in.to, b2)
  BY <1>8, <1>14, <1>15, <1>16 DEF Parsed
<1>18. lines' = t2 /\ where' = in.to /\ tree' = b2
  BY <1>2, <1>4, <1>12
<1> QED
  BY <1>17, <1>18

Flaws(b) == \E i \in 1..Len(b) : b[i].as # "none"
Unbroken(b) == \A i \in 1..Len(b) : b[i].as \notin {"ERROR", "MISSING"}
Mirrors(b, c, a) == a = [i \in 1..(c - 1) |-> [line |-> b[i].line, depth |-> b[i].depth]]

\* The lowering of tree b has come to node c, with the lowered nodes a and the errors e:
\* it has reported nothing that is not in the tree, and without a report it has kept
\* every node.
Lowered(b, c, a, e) ==
    /\ b \in Seq(Nodes) /\ c \in 1..(Len(b) + 1)
    /\ e # {} => Flaws(b)
    /\ e = {} => Unbroken(b) /\ Mirrors(b, c, a)

LowerInv ==
    /\ stage \in {"parse", "collect", "lower", "ok", "failed"}
    /\ stage # "parse" => Parsed(lines, where, tree)
    /\ stage = "collect" => errors = {} /\ ast = <<>> /\ cursor = 1
    /\ stage \in {"lower", "ok", "failed"} => Lowered(tree, cursor, ast, errors)
    /\ stage = "ok" => errors = {} /\ cursor = Len(tree) + 1
    /\ stage = "failed" => errors # {}

LEMMA KeepMirrors ==
    ASSUME NEW b, b \in Seq(Nodes), NEW c \in 1..Len(b), NEW a, Mirrors(b, c, a), NEW a2,
           a2 = Append(a, [line |-> b[c].line, depth |-> b[c].depth])
    PROVE  Mirrors(b, c + 1, a2)
<1>1. PICK f, z : f = [i \in 1..((c + 1) - 1) |-> [line |-> b[i].line, depth |-> b[i].depth]]
                  /\ z = [line |-> b[c].line, depth |-> b[c].depth]
  OBVIOUS
<1>2. a = [i \in 1..(c - 1) |-> [line |-> b[i].line, depth |-> b[i].depth]] /\ c \in Nat /\ c - 1 \in Nat
  BY DEF Mirrors
<1>3. DOMAIN a = 1..(c - 1) /\ Len(a) = c - 1
      /\ \A i \in 1..(c - 1) : a[i] = [line |-> b[i].line, depth |-> b[i].depth]
  BY <1>2
<1>4. a2 = [i \in 1..c |-> IF i = c THEN z ELSE a[i]]
  <2>1. PICK S : a \in Seq(S) /\ z \in S
    <3>1. \A i \in 1..Len(b) : [line |-> b[i].line, depth |-> b[i].depth] \in [line : Nat, depth : 0..3]
      <4>1. \A i \in 1..Len(b) : b[i] \in Nodes
        OBVIOUS
      <4> QED
        BY <4>1 DEF Nodes
    <3>2. PICK S : S = [line : Nat, depth : 0..3]
      OBVIOUS
    <3>3. z \in S /\ \A i \in 1..(c - 1) : a[i] \in S
      BY <1>1, <1>2, <1>3, <3>1, <3>2
    <3>4. a \in [1..(c - 1) -> S]
      BY <1>2, <1>3, <3>3
    <3>5. a \in Seq(S)
      BY <1>2, <3>4
    <3> QED
      BY <3>3, <3>5
  <2>2. a2 = Append(a, z)
    BY <1>1
  <2>3. Len(a2) = c /\ DOMAIN a2 = 1..c /\ \A i \in 1..c : a2[i] = IF i = c THEN z ELSE a[i]
    BY <1>2, <1>3, <2>1, <2>2
  <2>4. a2 = [i \in 1..c |-> a2[i]]
    BY <1>2, <1>3, <2>1, <2>2
  <2> QED
    BY <2>3, <2>4
<1>5. (c + 1) - 1 = c /\ \A i \in 1..c : i # c => i \in 1..(c - 1)
  BY <1>2
<1>6. f = a2
  BY <1>1, <1>3, <1>4, <1>5
<1> QED
  BY <1>1, <1>6 DEF Mirrors

\* Reporting the nodes of the recovery: something when there are any, nothing otherwise.
LEMMA CollectLowered ==
    ASSUME NEW b, b \in Seq(Nodes), NEW e,
           e = {IF b[i].as = "ERROR" THEN "ParseError" ELSE "MissingToken" :
                   i \in {i \in DOMAIN b : b[i].as \in {"ERROR", "MISSING"}}}
    PROVE  Lowered(b, 1, <<>>, e)
<1>1. DOMAIN b = 1..Len(b) /\ Len(b) \in Nat
  OBVIOUS
<1>2. e # {} => Flaws(b)
  BY <1>1 DEF Flaws
<1>3. e = {} => Unbroken(b)
  BY <1>1 DEF Unbroken
<1>4. Mirrors(b, 1, <<>>)
  BY DEF Mirrors
<1>5. 1 \in 1..(Len(b) + 1)
  BY <1>1
<1> QED
  BY <1>2, <1>3, <1>4, <1>5, Zenon DEF Lowered

LEMMA LowerStep == ParseInv /\ LowerInv /\ [Next]_vars => LowerInv'
<1> SUFFICES ASSUME ParseInv, LowerInv, [Next]_vars PROVE LowerInv'
  OBVIOUS
<1>1. CASE ScanToken \/ ReadText
  <2>1. stage = "parse" /\ stage' = "parse"
    BY <1>1 DEF ScanToken, ReadText
  <2> QED
    BY <2>1 DEF LowerInv
<1>2. CASE ParseEnds
  <2>1. Parsed(lines, where, tree)
    BY <1>2, EndsParsed
  <2>2. stage = "parse" /\ stage' = "collect" /\ UNCHANGED <<lines, where, tree, errors, ast, cursor>>
    BY <1>2 DEF ParseEnds, parser, lowering
  <2> QED
    BY <2>1, <2>2 DEF LowerInv, ParseInv
<1>3. CASE ParseRecovers
  <2>1. Parsed(lines', where', tree')
    BY <1>3, RecoversParsed
  <2>2. stage = "parse" /\ stage' = "collect" /\ UNCHANGED <<errors, ast, cursor>>
    BY <1>3 DEF ParseRecovers, lowering
  <2> QED
    BY <2>1, <2>2 DEF LowerInv, ParseInv
<1>4. CASE collect_errors
  <2>1. stage = "collect" /\ stage' = "lower" /\ UNCHANGED <<lines, where, tree, cursor, ast>>
        /\ errors = {} /\ ast = <<>> /\ cursor = 1 /\ Parsed(lines, where, tree)
    BY <1>4 DEF collect_errors, parser, LowerInv
  <2>2. PICK b, e : b = tree /\ e = errors'
    OBVIOUS
  <2>3. e = {IF b[i].as = "ERROR" THEN "ParseError" ELSE "MissingToken" :
                i \in {i \in DOMAIN b : b[i].as \in {"ERROR", "MISSING"}}}
    BY <1>4, <2>1, <2>2 DEF collect_errors
  <2>4. b \in Seq(Nodes)
    BY <2>1, <2>2 DEF Parsed
  <2>5. Lowered(b, 1, <<>>, e)
    BY <2>3, <2>4, CollectLowered
  <2> QED
    BY <2>1, <2>2, <2>5 DEF LowerInv
<1>5. CASE LowerSkips \/ LowerTopLevel \/ LowerKept \/ LowerDropped
  <2>1. PICK b, c, a, e, z : b = tree /\ c = cursor /\ a = ast /\ e = errors /\ z = tree[cursor]
    OBVIOUS
  <2>2. stage = "lower" /\ stage' = "lower" /\ UNCHANGED <<lines, where, tree>>
        /\ cursor <= Len(tree) /\ cursor' = cursor + 1
    BY <1>5 DEF LowerSkips, LowerTopLevel, LowerKept, LowerDropped, Lowering, parser
  <2>3. Parsed(lines, where, tree) /\ Lowered(b, c, a, e)
    BY <2>1, <2>2 DEF LowerInv
  <2>4. b \in Seq(Nodes) /\ c \in 1..Len(b) /\ c + 1 \in 1..(Len(b) + 1) /\ z = b[c]
    BY <2>1, <2>2, <2>3 DEF Lowered
  <2>5. z.as # "none" => Flaws(b)
    BY <2>4 DEF Flaws
  <2>6. Lowered(b, c + 1, ast', errors')
    <3>1. CASE LowerSkips
      <4>1. ast' = a /\ errors' = e /\ z.as \in {"ERROR", "MISSING"}
        BY <2>1, <3>1 DEF LowerSkips, Node
      <4>2. ~Unbroken(b)
        BY <2>4, <4>1 DEF Unbroken
      <4> QED
        BY <2>3, <2>4, <4>1, <4>2 DEF Lowered
    <3>2. CASE LowerTopLevel \/ (LowerKept /\ z.as # "arg")
      <4>1. ast' = Append(a, [line |-> z.line, depth |-> z.depth]) /\ errors' = e
        BY <2>1, <3>2 DEF LowerTopLevel, LowerKept, Keep, Node
      <4>2. Mirrors(b, c, a) => Mirrors(b, c + 1, ast')
        BY <2>4, <4>1, KeepMirrors
      <4> QED
        BY <2>3, <2>4, <4>1, <4>2 DEF Lowered
    <3>3. CASE LowerDropped \/ (LowerKept /\ z.as = "arg")
      <4>1. errors' # {} /\ z.as # "none"
        BY <2>1, <3>3 DEF LowerDropped, LowerKept, Node
      <4> QED
        BY <2>4, <2>5, <4>1 DEF Lowered
    <3> QED
      BY <1>5, <3>1, <3>2, <3>3
  <2> QED
    BY <2>1, <2>2, <2>3, <2>6 DEF LowerInv
<1>6. CASE LowerEnds
  <2>1. stage = "lower" /\ cursor > Len(tree) /\ stage' = (IF errors = {} THEN "ok" ELSE "failed")
        /\ UNCHANGED <<lines, where, tree, cursor, ast, errors>>
    BY <1>6 DEF LowerEnds, parser, lowering
  <2>2. Parsed(lines, where, tree) /\ Lowered(tree, cursor, ast, errors)
    BY <2>1 DEF LowerInv
  <2>3. cursor = Len(tree) + 1
    BY <2>1, <2>2 DEF Lowered
  <2> QED
    BY <2>1, <2>2, <2>3 DEF LowerInv
<1>7. CASE UNCHANGED vars
  BY <1>7 DEF vars, LowerInv
<1> QED
  BY <1>1, <1>2, <1>3, <1>4, <1>5, <1>6, <1>7 DEF Next, Parse, Lower, Done

LEMMA ParseStep == ParseInv /\ [Next]_vars => ParseInv'
<1>1. ParseInv /\ (ParseEnds \/ ParseRecovers) => ParseInv'
  BY DEF ParseEnds, ParseRecovers, ParseInv, parser
<1>2. ParseInv /\ Lower => ParseInv'
  BY DEF Lower, collect_errors, LowerSkips, LowerTopLevel, LowerKept, LowerDropped, LowerEnds,
     Lowering, ParseInv, parser
<1>3. ParseInv /\ UNCHANGED vars => ParseInv'
  BY DEF vars, ParseInv
<1> QED
  BY <1>1, <1>2, <1>3, ParseScan, ParseText DEF Next, Parse, Done

LEMMA ParseInit == Init => ParseInv /\ LowerInv
<1> SUFFICES ASSUME Init PROVE ParseInv /\ LowerInv
  OBVIOUS
<1>1. stage = "parse" /\ ending = "newline" /\ errors = {} /\ ast = <<>> /\ cursor = 1
      /\ lines = <<>> /\ where = "head" /\ tree = <<>> /\ pos = "top" /\ depth = 0
      /\ buf = serialize(Fresh)
  BY DEF Init, normalize
<1>2. Fresh \in Scanners /\ Fresh.stack = <<0>> /\ Fresh.pending_dedents = 0 /\ ~Fresh.pending_newline
  BY DEF Fresh, Scanners, Columns, MaxDepth
<1>3. Fits(Fresh, "top", 0)
  BY <1>2 DEF Fits, MaxDepth, Good, Sorted
<1>4. PICK col : col = [k \in 0..MaxDepth |-> 0]
  OBVIOUS
<1>5. col \in ColumnMaps /\ col[0] = 0
  BY <1>4 DEF ColumnMaps, Columns, MaxDepth
<1>6. Sync(Fresh, "top", 0, FALSE, 0, col)
  <2>1. Along(Fresh.stack, col, 0)
    BY <1>2, <1>5 DEF Along
  <2> QED
    BY <1>3, <1>5, <2>1 DEF Sync, MaxDepth
<1>7. Rest(Fresh, 0, col)
  <2>1. Len(Fresh.stack) = 1
    BY <1>2
  <2>2. Closed(Fresh.stack, col, 0, Top(Fresh))
    BY <2>1 DEF Closed
  <2> QED
    BY <1>2, <2>2 DEF Rest
<1>8. Holds(<<>>, 0, <<>>)
  <2>1. TreeOf(<<>>, 0, <<>>)
    BY DEF TreeOf
  <2>2. OnlyLayout(<<>>, 0, <<>>)
    BY DEF OnlyLayout
  <2> QED
    BY <2>1, <2>2 DEF Holds
<1>9. Tracks(<<>>, <<>>, Fresh, "top", 0, FALSE, 0, col)
  <2>1. Levelled(Texts(<<>>, <<>>), Depths(<<>>), 0, 0, col)
    BY <1>5 DEF Levelled
  <2>2. Len(<<>>) = 0 /\ ~(0 > 0)
    OBVIOUS
  <2> QED
    BY <1>6, <2>1, <2>2 DEF Tracks
<1>10. Stands(<<>>, "head", <<>>, Fresh, "top", 0, 0, col)
  BY <1>7 DEF Stands
<1>11. Parsing(<<>>, "head", <<>>, Fresh, "top", 0, FALSE, 0, col)
  BY <1>8, <1>9, <1>10 DEF Parsing, Consumed
<1>12. \E s, op, L, c : buf = serialize(s) /\ Parsing(lines, where, tree, s, pos, depth, op, L, c)
  BY <1>1, <1>11
<1> QED
  BY <1>1, <1>12 DEF ParseInv, LowerInv

\* For every text: a script that lowers has lost nothing.  Its tree holds every line
\* that is no comment, once, in order, at the level that the layout gives it, so no
\* statement of a test is dropped by the scanner, the parser or the lowering without a
\* diagnostic.
THEOREM LinesKept == Spec => []NothingLost
<1>1. LowerInv => NothingLost
  <2> SUFFICES ASSUME LowerInv, stage = "ok" PROVE NothingLost
    BY DEF NothingLost
  <2>1. PICK t, w, b, a : t = lines /\ w = where /\ b = tree /\ a = ast
    OBVIOUS
  <2>2. Parsed(t, w, b) /\ Unbroken(b) /\ Mirrors(b, Len(b) + 1, a)
    BY <2>1 DEF LowerInv, Lowered
  <2>3. Holds(t, Len(t), b)
    BY <2>2 DEF Parsed, Unbroken
  <2>4. t \in Seq(Lines) /\ b \in Seq(Nodes) /\ TreeOf(t, Len(t), b) /\ DOMAIN t = 1..Len(t)
        /\ Len(b) \in Nat /\ (Len(b) + 1) - 1 = Len(b)
    BY <2>3 DEF Holds
  <2>5. DOMAIN a = 1..Len(b) /\ \A i \in 1..Len(b) : a[i].line = b[i].line /\ a[i].depth = b[i].depth
    BY <2>2, <2>4 DEF Mirrors
  <2>6. {a[i].line : i \in DOMAIN a} = {n \in DOMAIN t : ~Comment(t[n])}
    <3>1. ASSUME NEW i \in DOMAIN a PROVE a[i].line \in {n \in DOMAIN t : ~Comment(t[n])}
      BY <2>4, <2>5, <3>1 DEF TreeOf
    <3>2. ASSUME NEW n \in DOMAIN t, ~Comment(t[n]) PROVE \E i \in DOMAIN a : a[i].line = n
      BY <2>4, <2>5, <3>2 DEF TreeOf
    <3> QED
      BY <3>1, <3>2
  <2>7. \A i, j \in DOMAIN a : i < j => a[i].line < a[j].line
    BY <2>4, <2>5 DEF TreeOf
  <2>8. [i \in DOMAIN a |-> t[a[i].line]] = Texts(t, b) /\ [i \in DOMAIN a |-> a[i].depth] = Depths(b)
    BY <2>5 DEF Texts, Depths
  <2>9. DOMAIN Depths(b) = 1..Len(b)
    BY DEF Depths
  <2>10. IsLayout(t, Texts(t, b), Depths(b))
    BY <2>4, <2>9 DEF IsLayout, TreeOf
  <2> QED
    BY <2>1, <2>6, <2>7, <2>8, <2>10 DEF NothingLost
<1> QED
  BY <1>1, ParseInit, ParseStep, LowerStep, PTL DEF Spec

\* For every text without comments: a script that is refused has a bad literal, or no
\* levels at all under which each of its lines stands where the layout allows it, or an
\* opening line at its end.  No script that is laid out well is refused because of the
\* scanner's pending tokens, its stack or its serialisation.
THEOREM LayoutAccepted == Spec => []NothingRefused
<1>1. LowerInv => NothingRefused
  <2> SUFFICES ASSUME LowerInv, stage = "failed", NoComments(lines) PROVE NothingRefused
    BY DEF NothingRefused
  <2>1. PICK t, w, b : t = lines /\ w = where /\ b = tree
    OBVIOUS
  <2>2. Parsed(t, w, b) /\ Flaws(b)
    BY <2>1 DEF LowerInv, Lowered
  <2>3. PICK i \in 1..Len(b) : b[i].as # "none"
    BY <2>2 DEF Flaws
  <2>4. CASE b[i].as \in {"arg", "whole"}
    BY <2>1, <2>2, <2>4 DEF Parsed, NothingRefused
  <2>5. CASE b[i].as \in {"ERROR", "MISSING"}
    <3>1. ~Holds(t, Len(t), b)
      BY <2>5, HoldsFlaws
    <3>2. Refused(t, w)
      BY <2>2, <3>1 DEF Parsed
    <3> QED
      BY <2>1, <3>2 DEF Refused, NothingRefused
  <2>6. b[i].as \in Marks
    <3>1. b \in Seq(Nodes)
      BY <2>2 DEF Parsed
    <3>2. b[i] \in Nodes
      BY <2>3, <3>1
    <3> QED
      BY <3>2 DEF Nodes
  <2> QED
    BY <2>3, <2>4, <2>5, <2>6 DEF Marks
<1> QED
  BY <1>1, ParseInit, ParseStep, LowerStep, PTL DEF Spec
=============================================================================
