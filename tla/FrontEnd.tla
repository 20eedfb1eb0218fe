------------------------------ MODULE FrontEnd ------------------------------
(***************************************************************************)
(* From the text of a script to its syntax tree: the indentation scanner   *)
(* (tree-sitter-ill/src/scanner.c), the block structure of the grammar     *)
(* (grammar.js) and the lowering of the concrete tree (lower.rs).          *)
(*                                                                         *)
(* The text is a sequence of lines, chosen one by one as the scanner reads *)
(* past a line break.  The parser calls the scanner with the tokens its    *)
(* position allows; between two calls the scanner's state exists only as   *)
(* the bytes it was serialised to.  A line has what the layout depends on: *)
(* its indentation, whether it ends by opening a block, and whether it is  *)
(* a comment; and what the lowering depends on: whether it holds a literal *)
(* that cannot be lowered.                                                 *)
(***************************************************************************)
EXTENDS Integers, Sequences, FiniteSetsExt

CONSTANTS MaxLines,           \* bound: lines of a script
          MaxOdd,             \* bound: comment lines and flawed lines among them
          Indents,            \* columns a line may start at
          MAX_INDENT_LEVELS   \* size of indent_stack

\* Blocks nest no deeper than this: as, keyword block, keyword pairs.
MaxDepth == 3

\* The scanner counts columns in a uint16_t.
Columns == {x \in Nat : x < 65536}

ASSUME FrontEndAssumption ==
    /\ MaxLines \in Nat /\ MaxOdd \in Nat
    /\ Indents \subseteq Columns /\ 0 \in Indents
    /\ MAX_INDENT_LEVELS \in Nat /\ MAX_INDENT_LEVELS > MaxDepth

VARIABLES
    lines,    \* the lines read so far, blank ones left out
    ending,   \* what follows the last line
    where,    \* "head": before a line's text, "tail": before a line break, "eof"
    buf,      \* the serialised scanner
    pos,      \* parser: "top", "opened" (a block must follow), "want" (an item
              \* must follow), "item" (an item is complete)
    depth,    \* open blocks
    tree,     \* the concrete tree, as its nodes in document order
    stage,    \* "parse", "collect", "lower", "ok", "failed"
    cursor,   \* next node to lower
    ast,      \* the lowered nodes: line and depth
    errors    \* codes of the diagnostics

vars == <<lines, ending, where, buf, pos, depth, tree, stage, cursor, ast, errors>>
parser == <<lines, ending, where, buf, pos, depth>>
lowering == <<cursor, ast, errors>>

\* A line is an actor declaration or the head of an as block ("top"), anything
\* that stands in a block ("body"), or a comment.  flaw: "none", "arg" (a bad
\* literal in an argument, the line is kept without it), "whole" (the line is
\* nothing without it).  blank: blank lines come before it.
Line(word, opens, flaws, blanks) ==
    [indent : Indents, word : {word}, opens : opens, flaw : flaws, blank : blanks]
Lines ==
    Line("top", BOOLEAN, {"none"}, BOOLEAN)
    \cup Line("body", {TRUE}, {"none", "arg"}, {FALSE})
    \cup Line("body", {FALSE}, {"none", "arg", "whole"}, {FALSE})
    \cup Line("comment", {FALSE}, {"none"}, {FALSE})

Comment(l) == l.word = "comment"
Flawed(l) == l.flaw # "none"

-----------------------------------------------------------------------------
(* normalize, and the scanner's state.                                     *)

Endings == {"newline", "none", "spaces"}

\* Trailing blanks are stripped and the text ends with one line break.
normalize(e) == "newline"

Fresh == [stack |-> <<0>>, pending_dedents |-> 0, pending_newline |-> FALSE]

\* Mutant: the flag is left out of the bytes.
SerializeShort(s) ==
    [dedents |-> s.pending_dedents % 256, newline |-> FALSE,
     lo |-> [i \in DOMAIN s.stack |-> s.stack[i] % 256],
     hi |-> [i \in DOMAIN s.stack |-> (s.stack[i] \div 256) % 256]]

serialize(s) ==
    [dedents |-> s.pending_dedents % 256, newline |-> s.pending_newline,
     lo |-> [i \in DOMAIN s.stack |-> s.stack[i] % 256],
     hi |-> [i \in DOMAIN s.stack |-> (s.stack[i] \div 256) % 256]]

deserialize(b) ==
    [stack |-> [i \in DOMAIN b.lo |-> b.lo[i] + 256 * b.hi[i]],
     pending_dedents |-> b.dedents, pending_newline |-> b.newline]

-----------------------------------------------------------------------------
(* The scanner.  ahead: what the lexer looks at, "text", "break" or "eof";  *)
(* for a line break also the indentation of the next line with text, and    *)
(* whether there is none (last).                                            *)

Top(s) == s.stack[Len(s.stack)]
Token(t, s) == [tok |-> t, s |-> s]
None(s) == Token("none", s)

ScanIndent(s, indent) ==
    Token("INDENT", IF Len(s.stack) < MAX_INDENT_LEVELS
                    THEN [s EXCEPT !.stack = Append(@, indent)] ELSE s)

\* Mutant: the levels that are popped are not counted.
ScanDedentOnce(s, indent) ==
    LET n == Max({1} \cup {k \in DOMAIN s.stack : s.stack[k] <= indent})
    IN  Token("DEDENT", [stack |-> SubSeq(s.stack, 1, n), pending_dedents |-> 0,
                         pending_newline |-> s.stack[n] = indent])

\* Levels are popped down to one that is not deeper; the first DEDENT is the
\* result and the others are pending.
ScanDedent(s, indent) ==
    LET n == Max({1} \cup {k \in DOMAIN s.stack : s.stack[k] <= indent})
    IN  Token("DEDENT",
              [stack |-> SubSeq(s.stack, 1, n),
               pending_dedents |-> s.pending_dedents + Len(s.stack) - n - 1,
               pending_newline |-> s.pending_newline \/ s.stack[n] = indent])

ScanBreak(s, valid, indent) ==
    CASE indent > Top(s) /\ "INDENT" \in valid  -> ScanIndent(s, indent)
      [] indent < Top(s) /\ "DEDENT" \in valid  -> ScanDedent(s, indent)
      [] indent = Top(s) /\ "NEWLINE" \in valid -> Token("NEWLINE", s)
      [] OTHER -> None(s)

\* Mutant: the end of the text is a line break where one is allowed.
ScanEofNewline(s, valid) ==
    IF "DEDENT" \in valid /\ Len(s.stack) > 1
    THEN Token("DEDENT", [s EXCEPT !.stack = SubSeq(@, 1, Len(@) - 1)])
    ELSE IF "NEWLINE" \in valid THEN Token("NEWLINE", s) ELSE None(s)

ScanEof(s, valid) ==
    IF "DEDENT" \in valid /\ Len(s.stack) > 1
    THEN Token("DEDENT", [s EXCEPT !.stack = SubSeq(@, 1, Len(@) - 1)])
    ELSE None(s)

\* A last line of spaces counts as the end of the text.
scan(s, valid, ahead) ==
    CASE s.pending_dedents > 0 /\ "DEDENT" \in valid ->
             Token("DEDENT", [s EXCEPT !.pending_dedents = @ - 1])
      [] s.pending_dedents = 0 /\ s.pending_newline /\ "NEWLINE" \in valid ->
             Token("NEWLINE", [s EXCEPT !.pending_newline = FALSE])
      [] OTHER ->
             CASE ahead.at = "break" /\ ~(ahead.last /\ ahead.indent > 0) ->
                      ScanBreak(s, valid, ahead.indent)
               [] ahead.at = "eof" \/ (ahead.at = "break" /\ ahead.last /\ ahead.indent > 0) ->
                      ScanEof(s, valid)
               [] OTHER -> None(s)

-----------------------------------------------------------------------------
(* The parser: the tokens each position of the grammar allows, and where    *)
(* each token leads.                                                        *)

Valid(p) ==
    CASE p \in {"top", "want"} -> {"NEWLINE"}
      [] p = "opened"          -> {"INDENT"}
      [] p = "item"            -> {"NEWLINE", "DEDENT"}

Init ==
    /\ lines = <<>> /\ \E e \in Endings : ending = normalize(e)
    /\ where = "head" /\ buf = serialize(Fresh) /\ pos = "top" /\ depth = 0
    /\ tree = <<>> /\ stage = "parse" /\ cursor = 1
    /\ ast = <<>> /\ errors = {}

Text == [at |-> "text", indent |-> 0, last |-> FALSE]
Eof == [at |-> "eof", indent |-> 0, last |-> TRUE]
Break(l) == [at |-> "break", indent |-> l.indent, last |-> FALSE]
LastBreak == [at |-> "break", indent |-> IF ending = "spaces" THEN 2 ELSE 0, last |-> TRUE]

\* What the lexer meets: the rest of a line, the end of the text, or, past a line
\* break, another line or the end.  read is the line that this reveals.
Input ==
    CASE where = "head" /\ lines # <<>> -> {[ahead |-> Text, read |-> <<>>, to |-> "head"]}
      [] where = "head" /\ lines = <<>> -> \* the first line, behind no line break
             {[ahead |-> IF l.blank THEN Break(l) ELSE Text, read |-> <<l>>, to |-> "head"] :
                 l \in Lines}
             \cup {[ahead |-> LastBreak, read |-> <<>>, to |-> "eof"]}
      [] where = "eof" -> {[ahead |-> Eof, read |-> <<>>, to |-> "eof"]}
      [] OTHER ->
             {[ahead |-> Break(l), read |-> <<l>>, to |-> "head"] :
                 l \in IF Len(lines) < MaxLines THEN Lines ELSE {}}
             \cup {[ahead |-> IF ending = "none" THEN Eof ELSE LastBreak,
                    read |-> <<>>, to |-> "eof"]}

\* Bound: MaxOdd comment or flawed lines in a script.  Blank lines are told apart
\* only before the first line, the scanner skips the others.
Odd(l) == Comment(l) \/ Flawed(l)
Readable(l) ==
    /\ Odd(l) => Len(SelectSeq(lines, Odd)) < MaxOdd
    /\ l.blank => lines = <<>>

Scanned(in) == scan(deserialize(buf), Valid(pos), in.ahead)

Shift(tok) ==
    CASE tok = "INDENT" -> pos' = "want" /\ depth' = depth + 1
      [] tok = "DEDENT" -> pos' = (IF depth = 1 THEN "top" ELSE "item") /\ depth' = depth - 1
      [] OTHER -> pos' = (IF depth = 0 THEN "top" ELSE "want") /\ UNCHANGED depth

ScanToken ==
    /\ stage = "parse"
    /\ \E in \in Input :
        /\ \A i \in DOMAIN in.read : Readable(in.read[i])
        /\ Scanned(in).tok # "none"
        /\ Shift(Scanned(in).tok)
        /\ buf' = serialize(Scanned(in).s)
        /\ lines' = lines \o in.read /\ where' = in.to
    /\ UNCHANGED <<ending, tree, stage, lowering>>

\* Nothing is scanned before the text of line l: it must be allowed here.
Accepts(l) ==
    \/ Comment(l)
    \/ l.word = "top" /\ pos = "top"
    \/ l.word = "body" /\ pos = "want" /\ (l.opens => depth < MaxDepth)

ReadText ==
    /\ stage = "parse"
    /\ \E in \in Input :
        LET all == lines \o in.read
            l == all[Len(all)]
        IN  /\ in.ahead.at = "text" /\ Scanned(in).tok = "none"
            /\ Accepts(l) /\ \A i \in DOMAIN in.read : Readable(in.read[i])
            /\ lines' = all /\ where' = "tail"
            /\ pos' = IF Comment(l) THEN pos ELSE IF l.opens THEN "opened"
                      ELSE IF depth = 0 THEN "top" ELSE "item"
            /\ tree' = IF Comment(l) THEN tree
                       ELSE Append(tree, [line |-> Len(all), depth |-> depth, as |-> l.flaw])
    /\ UNCHANGED <<ending, buf, depth, stage, lowering>>

\* The end of the text where the grammar allows it.
ParseEnds ==
    /\ stage = "parse" /\ where = "eof" /\ pos = "top"
    /\ \A in \in Input : Scanned(in).tok = "none"
    /\ stage' = "collect"
    /\ UNCHANGED <<parser, tree, lowering>>

\* No token and no text fits.  The parser (external) recovers: it puts in a MISSING
\* token or an ERROR node, here for the rest of the text.
ParseRecovers ==
    /\ stage = "parse"
    /\ \E in \in Input :
        LET all == lines \o in.read
        IN  /\ Scanned(in).tok = "none"
            /\ \A i \in DOMAIN in.read : Readable(in.read[i])
            /\ in.ahead.at = "text" => ~Accepts(all[Len(all)])
            /\ in.ahead.at = "eof" => pos # "top"
            /\ lines' = all /\ where' = in.to
            /\ \E n \in {"ERROR", "MISSING"} :
                   tree' = Append(tree, [line |-> Len(all), depth |-> depth, as |-> n])
    /\ stage' = "collect"
    /\ UNCHANGED <<ending, buf, pos, depth, lowering>>

-----------------------------------------------------------------------------
(* lower.                                                                  *)

collect_errors ==
    /\ stage = "collect"
    /\ errors' = errors \cup {IF tree[i].as = "ERROR" THEN "ParseError" ELSE "MissingToken" :
                                 i \in {i \in DOMAIN tree : tree[i].as \in {"ERROR", "MISSING"}}}
    /\ stage' = "lower"
    /\ UNCHANGED <<parser, tree, cursor, ast>>

Lowering == stage = "lower" /\ cursor <= Len(tree) /\ cursor' = cursor + 1
Node == tree[cursor]
Keep == ast' = Append(ast, [line |-> Node.line, depth |-> Node.depth])

\* An ERROR or MISSING node has been reported and is passed over.
LowerSkips ==
    /\ Lowering /\ Node.as \in {"ERROR", "MISSING"}
    /\ UNCHANGED <<parser, tree, stage, ast, errors>>

\* lower_source_file: actor declarations and as blocks.
LowerTopLevel ==
    /\ Lowering /\ Node.depth = 0 /\ Node.as = "none"
    /\ Keep
    /\ UNCHANGED <<parser, tree, stage, errors>>

\* Commands, keyword arguments, pairs, variables and properties that keep something:
\* a bad literal in them is reported and left out, an escape that is not known is
\* reported and stays.
LowerKept ==
    /\ Lowering /\ Node.depth > 0 /\ Node.as \in {"none", "arg"}
    /\ Keep
    /\ \E code \in {"InvalidLiteral", "InvalidEscape"} :
           errors' = errors \cup (IF Node.as = "arg" THEN {code} ELSE {})
    /\ UNCHANGED <<parser, tree, stage>>

\* Mutant: what cannot be lowered is dropped without a word.
LowerDroppedQuietly ==
    /\ Lowering /\ Node.depth > 0 /\ Node.as = "whole"
    /\ UNCHANGED <<parser, tree, stage, ast, errors>>

\* Asserts, lets and assignments are nothing without their expression, and neither
\* is a keyword argument or a property without its value.  (A keyword whose pairs
\* were all dropped goes with them; they have been reported.)
LowerDropped ==
    /\ Lowering /\ Node.depth > 0 /\ Node.as = "whole"
    /\ errors' = errors \cup {"InvalidLiteral"}
    /\ UNCHANGED <<parser, tree, stage, ast>>

\* lower: any diagnostic makes it fail, and the tree is not handed out.
LowerEnds ==
    /\ stage = "lower" /\ cursor > Len(tree)
    /\ stage' = IF errors = {} THEN "ok" ELSE "failed"
    /\ UNCHANGED <<parser, tree, lowering>>

Done == stage \in {"ok", "failed"} /\ UNCHANGED vars

Parse == ScanToken \/ ReadText \/ ParseEnds \/ ParseRecovers
Lower == collect_errors \/ LowerSkips \/ LowerTopLevel \/ LowerKept \/ LowerDropped \/ LowerEnds
Next == Parse \/ Lower \/ Done

Spec == Init /\ [][Next]_vars
\* One thread, which does not wait for anybody.
FairSpec == Spec /\ WF_vars(Parse \/ Lower)

-----------------------------------------------------------------------------
(* Reference: what the layout of a script means, without tokens or a stack. *)
(* Of the text t the lines c are laid out, those that are no comments; d     *)
(* gives each of them its level.                                            *)

\* The column of a block; the outermost level starts at 0, whatever the columns of
\* its lines are.
Column(c, d, i) == IF d[i] = 0 THEN 0 ELSE c[i].indent

\* Line j is the last one before line i at level k.
Latest(d, i, k, j) == d[j] = k /\ \A m \in (j + 1)..(i - 1) : d[m] # k

\* A line at the outermost level: the first one of the text may start anywhere, and
\* one that follows a block anywhere to the left of that block.
TopColumn(t, c, d, i) ==
    CASE i = 1 -> c[1].indent = 0 \/ (t[1] = c[1] /\ ~c[1].blank)
      [] i > 1 /\ d[i - 1] = 0 -> c[i].indent = 0
      [] OTHER -> \E j \in 1..(i - 1) : Latest(d, i, 1, j) /\ c[i].indent < Column(c, d, j)

\* Line i stands at its level: one deeper than an opening line, otherwise that of
\* an earlier line of an open block, at exactly its column.
Placed(t, c, d, i) ==
    /\ d[i] = 0 <=> c[i].word = "top"
    /\ c[i].opens => d[i] < MaxDepth
    /\ IF i > 1 /\ c[i - 1].opens
       THEN d[i] = d[i - 1] + 1 /\ c[i].indent > Column(c, d, i - 1)
       ELSE /\ i > 1 => d[i] <= d[i - 1]
            /\ d[i] = 0 => TopColumn(t, c, d, i)
            /\ d[i] > 0 => \E j \in 1..(i - 1) :
                              Latest(d, i, d[i], j) /\ c[i].indent = Column(c, d, j)

IsLayout(t, c, d) == \A i \in DOMAIN d : Placed(t, c, d, i)

\* A line opens at most one level.
Levels(c) ==
    {d \in [1..Len(c) -> 0..MaxDepth] :
        \A i \in DOMAIN d : d[i] <= IF i = 1 THEN 0 ELSE d[i - 1] + 1}

\* A text t without comments that the reference accepts; all of it when it is at its
\* end.
WellLaidOut(t, end) ==
    /\ \E d \in Levels(t) : IsLayout(t, t, d)
    /\ end /\ t # <<>> => ~t[Len(t)].opens

NoComments(t) == \A i \in DOMAIN t : ~Comment(t[i])

-----------------------------------------------------------------------------
\* The scanner and the parser agree on the open blocks, across serialisation: one
\* level on the stack for each, those still to be closed included.  A level that
\* did not fit on the stack, or was popped without its DEDENT, would break it.
Balanced ==
    stage = "parse" =>
        LET s == deserialize(buf) IN
        /\ depth = Len(s.stack) - 1 + s.pending_dedents
        /\ depth <= MaxDepth /\ Len(s.stack) \in 1..MAX_INDENT_LEVELS
        /\ \A i \in 1..(Len(s.stack) - 1) : s.stack[i] < s.stack[i + 1]

\* A script that lowers has lost nothing: its tree holds every line that is no
\* comment, once, in order, at the level its layout gives it.  So no statement of a
\* test is skipped without a diagnostic.
NothingLost ==
    stage = "ok" =>
        /\ {ast[i].line : i \in DOMAIN ast} = {n \in DOMAIN lines : ~Comment(lines[n])}
        /\ \A i, j \in DOMAIN ast : i < j => ast[i].line < ast[j].line
        /\ IsLayout(lines, [i \in DOMAIN ast |-> lines[ast[i].line]],
                    [i \in DOMAIN ast |-> ast[i].depth])

\* A script that is laid out well and has no bad literal lowers, whatever blank
\* lines it has and however its last line ends.  (A comment line is a line to the
\* scanner: one that stands alone at the end of a block is refused.)
NothingRefused ==
    stage = "failed" /\ NoComments(lines) =>
        (\E i \in DOMAIN lines : Flawed(lines[i])) \/ ~WellLaidOut(lines, where = "eof")

\* Every text is parsed to its end: the scanner does not hand out tokens for ever.
FrontEndEnds == <>(stage \in {"ok", "failed"})
=============================================================================
