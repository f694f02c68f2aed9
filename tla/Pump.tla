------------------------------- MODULE Pump -------------------------------
(***************************************************************************)
(* thirdparty/gtest-1.7.0/scripts/pump.py: the generator that expands      *)
(* $var, $range, $for and $if in a source with nested [[ ]].               *)
(*                                                                         *)
(* A source is a sequence of pieces; a piece is what the tokenizer takes   *)
(* in one turn: a word of code, a bracket, or a directive with its names.  *)
(* A token that the tokenizer always yields with its successors ($for and  *)
(* its id, $var with id and =, $range with its bounds) is one token here.  *)
(* A value is the text that '%s' makes of it: a sequence of words.         *)
(***************************************************************************)
EXTENDS Integers, Sequences, SequencesExt

CONSTANTS
    MaxWidth,      \* of a line of output: 80
    Continuation   \* indent of a line that continues another: 4

ASSUME WidthAssumption == MaxWidth \in Nat /\ Continuation \in Nat

Digits == <<"0", "1", "2", "3", "4", "5", "6", "7", "8", "9">>
Blank == " "
Strip(text) == SelectSeq(text, LAMBDA w : w # Blank)

(***************************************************************************)
(* Tokenize(): adjacent words of code are one token, and the source ends   *)
(* with one, empty or not.                                                 *)
(***************************************************************************)
Token(type, id, value) == [type |-> type, id |-> id, value |-> value]
Code(value) == Token("code", "", value)

\* A piece of source: <<type>>, <<type, id>> or <<type, id, words>>.  A $var
\* without words is one whose '=' a '[[' follows.
PieceTokens(piece) ==
    CASE piece[1] = "code" -> <<Code(<<piece[2]>>)>>
      [] piece[1] \in {"$if", "$elif"} ->
           <<Token(piece[1], "", <<>>), Code(<<piece[2]>>), Token("[[", "", <<>>)>>
      [] piece[1] = "$else" ->
           <<Token(piece[1], "", <<>>), Token("[[", "", <<>>)>>
      [] piece[1] = "$var" /\ piece[3] = <<>> ->
           <<Token("$var", piece[2], <<>>), Token("[[", "", <<>>)>>
      [] piece[1] \in {"$var", "$range"} -> <<Token(piece[1], piece[2], piece[3])>>
      [] piece[1] \in {"$for", "$id"} -> <<Token(piece[1], piece[2], <<>>)>>
      [] OTHER -> <<Token(piece[1], "", <<>>)>>

Tokenize(source) ==
    LET join(tokens, piece) ==
          LET new == PieceTokens(piece)
          IN  IF tokens # <<>> /\ Last(tokens).type = "code" /\ new[1].type = "code"
              THEN Append(Front(tokens), Code(Last(tokens).value \o new[1].value))
              ELSE tokens \o new
        tokens == FoldLeft(join, <<>>, source)
    IN  IF tokens = <<>> \/ Last(tokens).type = "code" THEN tokens
        ELSE Append(tokens, Code(<<>>))

(***************************************************************************)
(* The parser.  A result is a node and the tokens that are left; Failed    *)
(* stands for sys.exit(1) and for the exception of an empty list.          *)
(***************************************************************************)
Node(op, id, value, code, else) ==
    [op |-> op, id |-> id, value |-> value, code |-> code, else |-> else]
Done(node, rest) == [ok |-> TRUE, node |-> node, rest |-> rest]
Failed == [ok |-> FALSE]

Type(tokens) == IF tokens = <<>> THEN "none" ELSE Head(tokens).type

RECURSIVE ParseCodeNode(_), ParseAtomicCodeNode(_), ParseElseNode(_)

\* Pop('[['), ParseCodeNode(), Pop(']]'): the node is a sequence of nodes.
ParseBlock(tokens) ==
    IF Type(tokens) # "[[" THEN Failed
    ELSE LET inner == ParseCodeNode(Tail(tokens))
         IN  IF inner.ok /\ Type(inner.rest) = "]]"
             THEN Done(inner.node, Tail(inner.rest))
             ELSE Failed

\* The if node of a condition and the tokens behind it.
ParseIf(condition, tokens) ==
    LET then == ParseBlock(tokens)
        else == ParseElseNode(then.rest)
    IN  IF then.ok /\ else.ok
        THEN Done(Node("if", "", condition, then.node, else.node), else.rest)
        ELSE Failed

\* Fault: code behind an if is passed over in search of an else.
ElseBehindCode(tokens) ==
    CASE Type(tokens) = "$else" ->
           LET else == ParseBlock(Tail(tokens))
           IN  IF else.ok THEN Done(<<else.node>>, else.rest) ELSE Failed
      [] Type(tokens) = "code" -> ParseElseNode(Tail(tokens))
      [] OTHER -> Done(<<>>, tokens)

\* <<>>, or <<the nodes of the else branch>>.
ParseElseNode(tokens) ==
    CASE Type(tokens) = "$else" ->
           LET else == ParseBlock(Tail(tokens))
           IN  IF else.ok THEN Done(<<else.node>>, else.rest) ELSE Failed
      [] Type(tokens) = "$elif" ->
           LET inner == ParseIf(tokens[2].value, SubSeq(tokens, 3, Len(tokens)))
           IN  IF inner.ok THEN Done(<<<<inner.node>>>>, inner.rest) ELSE Failed
      [] Type(tokens) = "code" /\ Strip(Head(tokens).value) = <<>> ->
           ParseElseNode(Tail(tokens))
      [] OTHER -> Done(<<>>, tokens)

\* A node "none" stands for None.
ParseAtomicCodeNode(tokens) ==
    LET head == Head(tokens)
        rest == Tail(tokens)
        leaf(op) == Done(Node(op, head.id, head.value, <<>>, <<>>), rest)
        block(op, value, from) ==
          LET inner == ParseBlock(from)
          IN  IF inner.ok
              THEN Done(Node(op, head.id, value, inner.node, <<>>), inner.rest)
              ELSE Failed
    IN  CASE head.type \in {"code", "$range", "$($)"} -> leaf(head.type)
          [] head.type = "$id" ->
               Done(Node("exp", "", <<head.id>>, <<>>, <<>>), rest)
          [] head.type = "$var" ->
               IF head.value # <<>> THEN leaf("$var") ELSE block("$var", <<>>, rest)
          [] head.type = "$for" ->
               IF Type(rest) = "code" THEN block("$for", Head(rest).value, Tail(rest))
               ELSE block("$for", <<>>, rest)
          [] head.type = "$if" -> ParseIf(rest[1].value, Tail(rest))
          [] head.type = "[[" -> block("[[", <<>>, tokens)
          [] OTHER -> Done(Node("none", "", <<>>, <<>>, <<>>), tokens)

ParseCodeNode(tokens) ==
    IF tokens = <<>> THEN Done(<<>>, tokens)
    ELSE LET first == ParseAtomicCodeNode(tokens)
         IN  IF ~first.ok THEN Failed
             ELSE IF first.node.op = "none" THEN Done(<<>>, tokens)
             ELSE LET others == ParseCodeNode(first.rest)
                  IN  IF others.ok THEN Done(<<first.node>> \o others.node, others.rest)
                      ELSE Failed

\* ParseToAST(): the tokens that are left are forgotten.
ParseToAST(source) == ParseCodeNode(Tokenize(source))

(***************************************************************************)
(* The evaluator.  A result is an environment and the output so far.       *)
(***************************************************************************)
Env(variables, ranges) == [variables |-> variables, ranges |-> ranges]
Ran(env, out) == [ok |-> TRUE, env |-> env, out |-> out]

Str(n) ==
    LET str[m \in Nat] == IF m < 10 THEN <<Digits[m + 1]>>
                          ELSE str[m \div 10] \o <<Digits[(m % 10) + 1]>>
    IN  str[n]
IsInt(value) == value # <<>> /\ ToSet(value) \subseteq ToSet(Digits)
Int_(value) == FoldLeft(LAMBDA n, d : 10 * n + (IndexFirstSubSeq(<<d>>, Digits) - 1),
                        0, value)

\* PushVariable() and PushRange().
Push(list, entry) == <<entry>> \o list

\* GetValue() and GetRange(): the entry pushed last, as <<entry>>, or <<>>.
Lookup(list, id) ==
    LET found == SelectSeq(list, LAMBDA entry : entry[1] = id)
    IN  SubSeq(found, 1, IF found = <<>> THEN 0 ELSE 1)

\* EvalExp(): <<value>>, or <<>> if the expression cannot be evaluated.
\* Expressions are numbers and names; more than one is a syntax error.
EvalExp(env, exp) ==
    LET words == Strip(exp)
    IN  IF Len(words) # 1 THEN <<>>
        ELSE IF IsInt(words) THEN <<words>>
        ELSE LET found == Lookup(env.variables, words[1])
             IN  IF found = <<>> THEN <<>> ELSE <<found[1][2]>>

\* What Python takes for false: the number 0 and the empty string.
IsTrue(value) == value \notin {<<>>, <<"0">>}

RECURSIVE RunCode(_, _, _), RunAtomicCode(_, _, _), RunLoop(_, _, _, _, _)

\* Fault: nested code runs in the environment it is nested in.
RunShared(env, code, out) == RunCode(env, code, out)

\* RunCode() of a clone of env, which is left alone.
RunNested(env, code, out) ==
    LET inner == RunCode(env, code, out)
    IN  IF inner.ok THEN Ran(env, inner.out) ELSE Failed

\* The turns i .. upper of a $for.
RunLoop(env, node, i, upper, out) ==
    IF i > upper THEN Ran(env, out)
    ELSE LET turn == RunNested(Env(Push(env.variables, <<node.id, Str(i)>>), env.ranges),
                               node.code, out)
         IN  IF turn.ok
             THEN RunLoop(env, node, i + 1, upper,
                          turn.out \o IF i # upper THEN node.value ELSE <<>>)
             ELSE Failed

RunAtomicCode(env, node, out) ==
    CASE node.op = "code" -> Ran(env, out \o node.value)
      [] node.op = "$($)" -> Ran(env, Append(out, "$"))
      [] node.op = "[[" -> RunNested(env, node.code, out)
      [] node.op = "exp" ->
           LET value == EvalExp(env, node.value)
           IN  IF value = <<>> THEN Failed ELSE Ran(env, out \o value[1])
      [] node.op = "$var" ->
           LET result == IF node.value = <<>> THEN RunNested(env, node.code, <<>>)
                         ELSE RunAtomicCode(env, [node EXCEPT !.op = "exp"], <<>>)
           IN  IF result.ok
               THEN Ran(Env(Push(env.variables, <<node.id, result.out>>), env.ranges), out)
               ELSE Failed
      [] node.op = "$range" ->
           LET lower == EvalExp(env, <<node.value[1]>>)
               upper == EvalExp(env, <<node.value[2]>>)
           IN  IF /\ lower # <<>> /\ upper # <<>>
                  /\ IsInt(lower[1]) /\ IsInt(upper[1])
               THEN Ran(Env(env.variables,
                            Push(env.ranges, <<node.id, Int_(lower[1]), Int_(upper[1])>>)),
                        out)
               ELSE Failed
      [] node.op = "$for" ->
           LET range == Lookup(env.ranges, node.id)
           IN  IF range = <<>> THEN Failed
               ELSE RunLoop(env, node, range[1][2], range[1][3], out)
      [] node.op = "if" ->
           LET cond == EvalExp(env, node.value)
           IN  CASE cond = <<>> -> Failed
                 [] cond # <<>> /\ IsTrue(cond[1]) -> RunNested(env, node.code, out)
                 [] OTHER -> IF node.else = <<>> THEN Ran(env, out)
                             ELSE RunNested(env, node.else[1], out)

RunCode(env, code, out) ==
    IF code = <<>> THEN Ran(env, out)
    ELSE LET first == RunAtomicCode(env, Head(code), out)
         IN  IF first.ok THEN RunCode(first.env, Tail(code), first.out) ELSE Failed

\* ConvertFromPumpSource() up to the layout of the output.
Convert(source) ==
    LET ast == ParseToAST(source)
    IN  IF ast.ok THEN RunCode(Env(<<>>, <<>>), ast.node, <<>>) ELSE Failed

(***************************************************************************)
(* The layout of the output.  WrapCode() breaks a line that is too long    *)
(* behind commas, or at a blank where the piece up to the next comma is    *)
(* too long; WrapComment() breaks a comment behind words.  A line is a     *)
(* sequence of characters; a line of output is its indent, its text, and   *)
(* whether '// ' stands between the two.                                   *)
(***************************************************************************)
Dark(text) == {i \in 1 .. Len(text) : text[i] # Blank}
LStrip(text) == IF Dark(text) = {} THEN <<>> ELSE SubSeq(text, Min(Dark(text)), Len(text))
RStrip(text) == IF Dark(text) = {} THEN <<>> ELSE SubSeq(text, 1, Max(Dark(text)))
Trim(text) == RStrip(LStrip(text))

OutLine(indent, mark, text) == [indent |-> indent, mark |-> mark, text |-> text]
IndentOf(line) == Len(line) - Len(LStrip(line))

\* re.split(r'([^,;]+[,;]?)'): text with the comma that ends it, or commas.
Segments(text) ==
    LET split[t \in Seq(STRING)] ==
          LET commas == {i \in 1 .. Len(t) : t[i] = ","}
              words == 1 .. Len(t) \ commas
              end == CASE t # <<>> /\ 1 \in words -> Min(commas \cup {Len(t)})
                       [] OTHER -> Min(words \cup {Len(t) + 1}) - 1
          IN  IF t = <<>> THEN <<>>
              ELSE <<SubSeq(t, 1, end)>> \o split[SubSeq(t, end + 1, Len(t))]
    IN  split[text]

\* The state of the loop over the segments: the indent and the room of the
\* line in hand, its text, the lines before it, and whether the inner loop
\* has found no blank: it then repeats for ever.
Emit(w, text, base) ==
    [w EXCEPT !.out = Append(@, OutLine(w.indent, FALSE, text)),
              !.indent = base.indent + Continuation, !.room = base.room - Continuation]

RECURSIVE BreakAtBlanks(_, _, _)

\* The inner loop: the lines it emits and what is left of the segment.
BreakAtBlanks(w, segment, base) ==
    LET seg == LStrip(segment)
        blanks == {i \in 1 .. Min({w.room, Len(seg)}) : seg[i] = Blank}
    IN  CASE Len(Trim(segment)) <= w.room -> [w |-> w, left |-> segment]
          [] Len(Trim(segment)) > w.room /\ blanks = {} ->
               [w |-> [w EXCEPT !.endless = TRUE], left |-> segment]
          [] OTHER ->
               BreakAtBlanks(Emit(w, Trim(SubSeq(seg, 1, Max(blanks) - 1)), base),
                             SubSeq(seg, Max(blanks) + 1, Len(seg)), base)


AddSegment(w, segment, base) ==
    LET b == IF w.text = <<>> THEN BreakAtBlanks(w, segment, base)
             ELSE [w |-> w, left |-> segment]
        joined == b.w.text \o b.left
    IN  CASE w.endless \/ b.w.endless -> b.w
          [] ~b.w.endless /\ Len(RStrip(joined)) < b.w.room ->
               [b.w EXCEPT !.text = LStrip(joined)]
          [] OTHER -> [Emit(b.w, RStrip(b.w.text), base) EXCEPT !.text = LStrip(b.left)]

\* concat is the length of line_concat: 0, or 2 in a preprocessor directive.
WrapCode(line, concat) ==
    LET indent == IndentOf(line)
        base == [indent |-> indent, room |-> MaxWidth - indent - concat]
        start == [indent |-> base.indent, room |-> base.room, text |-> <<>>,
                  out |-> <<>>, endless |-> FALSE]
        end == FoldLeft(LAMBDA w, segment : AddSegment(w, segment, base), start,
                        Segments(Trim(line)))
    IN  IF end.endless \/ Trim(end.text) = <<>> THEN end
        ELSE Emit(end, Trim(end.text), base)

\* Where '//' stands in line, or 0.
CommentStart(line) ==
    LET at == {i \in 1 .. Len(line) - 1 : SubSeq(line, i, i + 1) = <<"/", "/">>}
    IN  IF at = {} THEN 0 ELSE Min(at)

\* re.split(r'(\w+\W*)'): what is in front of the first word, and every word
\* with what follows it.
Words(text) ==
    LET word(i) == text[i] \notin {Blank, ",", "/"}
        starts == {i \in 1 .. Len(text) : i = 1 \/ (word(i) /\ ~word(i - 1))}
        from == SetToSortSeq(starts, <)
        to(k) == IF k = Len(from) THEN Len(text) ELSE from[k + 1] - 1
    IN  [k \in 1 .. Len(from) |-> SubSeq(text, from[k], to(k))]

AddWord(w, word, indent) ==
    LET room == MaxWidth - indent - 3
        joined == w.text \o word
    IN  IF Len(RStrip(joined)) < room THEN [w EXCEPT !.text = joined]
        ELSE [out |-> IF Trim(w.text) = <<>> THEN w.out
                      ELSE Append(w.out, OutLine(indent, TRUE, RStrip(w.text))),
              text |-> LStrip(word)]

WrapComment(line) ==
    LET loc == CommentStart(line)
        before == RStrip(SubSeq(line, 1, loc - 1))
        indent == IF before = <<>> THEN loc - 1 ELSE IndentOf(before)
        start == [out |-> IF before = <<>> THEN <<>>
                          ELSE <<OutLine(indent, FALSE, LStrip(before))>>,
                  text |-> <<>>]
        end == FoldLeft(LAMBDA w, word : AddWord(w, word, indent), start,
                        Words(Trim(SubSeq(line, loc + 2, Len(line)))))
    IN  IF Trim(end.text) = <<>> THEN end.out
        ELSE Append(end.out, OutLine(indent, TRUE, Trim(end.text)))

\* WrapLongLine(): directive says that the line is part of a preprocessor
\* directive, exempt that it is a header guard, an include or a pragma.
WrapLongLine(long, directive, exempt) ==
    LET line == RStrip(long)
        as(out, endless) == [out |-> out, endless |-> endless]
        code == WrapCode(line, IF directive THEN 2 ELSE 0)
    IN  CASE Len(line) <= MaxWidth \/ exempt ->
               as(<<OutLine(IndentOf(line), FALSE, LStrip(line))>>, FALSE)
          [] Len(line) > MaxWidth /\ ~exempt /\ CommentStart(line) # 0 ->
               as(WrapComment(line), FALSE)
          [] OTHER -> as(code.out, code.endless)
=============================================================================
