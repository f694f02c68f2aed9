----------------------------- MODULE ScriptText -----------------------------
(***************************************************************************)
(* The text algorithms of cpplint.py (CppScan) and pump.py (Pump) on every *)
(* short text.  A text is typed symbol by symbol, over one alphabet; the   *)
(* properties compare the algorithms with each other and with reference    *)
(* definitions.                                                            *)
(***************************************************************************)
EXTENDS CppScan, Pump, TLC

CONSTANTS
    Alphabets,    \* records: the use of a text, its symbols, its size, its lines
    Piece(_)      \* the piece of a Pump source that a symbol stands for

ASSUME AlphabetAssumption ==
    \A a \in Alphabets : a.size \in Nat /\ a.lines \in Nat \ {0}

VARIABLES
    alphabet,
    typed      \* a sequence of lines

Symbols == FlattenSeq(typed)

TypeSymbol ==
    /\ Len(Symbols) < alphabet.size
    /\ \E s \in alphabet.symbols : typed' = [typed EXCEPT ![Len(typed)] = Append(@, s)]
    /\ UNCHANGED alphabet

NewLine ==
    /\ Len(typed) < alphabet.lines
    /\ typed' = Append(typed, <<>>)
    /\ UNCHANGED alphabet

TextInit == alphabet \in Alphabets /\ typed = <<<<>>>>
TextNext == TypeSymbol \/ NewLine

Places == {p \in (1 .. Len(typed)) \X (1 .. alphabet.size) : p[2] <= Len(typed[p[1]])}
SymbolAt(p) == typed[p[1]][p[2]]
Before(p, q) == p[1] < q[1] \/ (p[1] = q[1] /\ p[2] < q[2])

(***************************************************************************)
(* Brackets.                                                               *)
(***************************************************************************)
\* Open brackets of the kind at p, from p up to q.
OpenAt(p, q) ==
    LET between == {r \in Places : ~Before(r, p) /\ ~Before(q, r)}
    IN  Cardinality({r \in between : SymbolAt(r) = SymbolAt(p)})
          - Cardinality({r \in between : SymbolAt(r) = Closer[SymbolAt(p)]})

\* CloseExpression() finds the first place where the bracket is balanced, on
\* whatever line it is, or nothing; and from there ReverseCloseExpression()
\* leads back to the bracket.
ExpressionsClosed ==
    alphabet.use = "brackets" => \A p \in Places :
      SymbolAt(p) \in DOMAIN Closer =>
        LET closed == {q \in Places : Before(p, q) /\ OpenAt(p, q) = 0}
            end == CloseExpression(typed, p[1], p[2])
        IN  IF closed = {} THEN end = [linenum |-> Len(typed) + 1, pos |-> -1]
            ELSE LET q == CHOOSE q \in closed :
                            \A r \in closed : r = q \/ Before(q, r)
                 IN  /\ end = [linenum |-> q[1], pos |-> q[2] + 1]
                     /\ ReverseCloseExpression(typed, q[1], q[2])
                          = [linenum |-> p[1], pos |-> p[2]]

\* Properly nested brackets, by repeated removal of a pair.
Balanced(s) ==
    LET reduce[t \in Seq(STRING)] ==
          LET pairs == {i \in 1 .. Len(t) - 1 :
                          t[i] \in DOMAIN Closer /\ t[i + 1] = Closer[t[i]]}
          IN  IF pairs = {} THEN t = <<>>
              ELSE LET i == First(pairs)
                   IN  reduce[SubSeq(t, 1, i - 1) \o SubSeq(t, i + 2, Len(t))]
    IN  reduce[SelectSeq(s, LAMBDA c : c \in DOMAIN Closer \union DOMAIN Opener)]

\* _GetTextInside() returns the text up to the first place where what it
\* passed is properly nested and the bracket closed, and None when there is
\* no such place.
TextInsideExact ==
    LET s == Symbols
        closed == {k \in 2 .. Len(s) : Balanced(SubSeq(s, 1, k))}
    IN  /\ s # <<>> /\ s[1] \in {"(", "[", "{"}
        /\ alphabet.use = "brackets"
        => GetTextInside(s, 1) = IF closed = {} THEN <<"None">>
                                 ELSE SubSeq(s, 2, First(closed) - 1)

\* The three searches for the bracket that matches agree with what matching
\* means: CloseExpression() and ReverseCloseExpression() across lines, and
\* _GetTextInside() among brackets of all kinds.
BracketsMatch == ExpressionsClosed /\ TextInsideExact

(***************************************************************************)
(* Angle brackets.                                                         *)
(***************************************************************************)
Mirrored(c) == CASE c \in DOMAIN Closer -> Closer[c]
                 [] c \in DOMAIN Opener -> Opener[c]
                 [] OTHER -> c
Mirror(s) == [i \in 1 .. Len(s) |-> Mirrored(s[Len(s) + 1 - i])]

\* A template's brackets are never taken for comparisons, whatever is nested
\* in them; and the search forward and the search backward decide alike on a
\* text and its mirror image, except that a text that ends without a decision
\* counts as a template forward only ("Most likely the input was incomplete").
AngleSearchesAgree ==
    LET s == Symbols
        stop == [i \in 1 .. Len(s) + 1 |-> ")"]
    IN  alphabet.use = "angles" =>
        /\ (\E k \in 1 .. Len(s) :
              s[k] = ">" /\ Balanced(SubSeq(s, 1, k - 1))
                /\ ToSet(SubSeq(s, 1, k - 1)) \intersect {";"} = {})
             => FindNextMatchingAngleBracket(s)
        /\ FindPreviousMatchingAngleBracket(Mirror(s))
             <=> FindNextMatchingAngleBracket(s \o stop)

(***************************************************************************)
(* Comments, as a C++ compiler reads them.                                 *)
(***************************************************************************)
\* One line read from state in (TRUE: in a comment): the state at its end,
\* the place of the last opening and of the last closing.
ReadComment(line, in) ==
    LET read[i \in Nat, c \in BOOLEAN, o \in Nat, e \in Nat] ==
          LET pair == IF i < Len(line) THEN SubSeq(line, i, i + 1) ELSE <<>>
          IN  CASE i > Len(line) -> [in |-> c, open |-> o, close |-> e]
                [] i <= Len(line) /\ c /\ pair = <<"*", "/">> ->
                     read[i + 2, FALSE, o, i]
                [] i <= Len(line) /\ ~c /\ pair = <<"/", "*">> ->
                     read[i + 2, TRUE, i, e]
                [] i <= Len(line) /\ ~c /\ pair = <<"/", "/">> ->
                     [in |-> FALSE, open |-> o, close |-> e]
                [] OTHER -> read[i + 1, c, o, e]
    IN  read[1, in, 0, 0]

Comments ==
    LET read[n \in 0 .. Len(typed)] ==
          IF n = 0 THEN [in |-> FALSE, open |-> 0, close |-> 0]
          ELSE ReadComment(typed[n], read[n - 1].in)
    IN  read

\* Comments over several lines start and end theirs; "/*/" is no such line.
TidyComments ==
    \A n \in 1 .. Len(typed) :
      /\ Comments[n].in /\ ~Comments[n - 1].in =>
           Comments[n].open = 1 /\ ~EndsComment(typed[n])
      /\ Comments[n - 1].in => Comments[n].open = 0
      /\ Comments[n - 1].in /\ ~Comments[n].in =>
           Comments[n].close = Len(typed[n]) - 1

\* RemoveMultiLineComments() clears exactly the lines of comments that span
\* lines and reports exactly the comment that does not end.
CommentsCleared ==
    LET n == Len(typed)
        found == MultiLineComments({i \in 1 .. n : StartsComment(typed[i])},
                                   {i \in 1 .. n : EndsComment(typed[i])}, n)
        spanned == {i \in 1 .. n : Comments[i - 1].in \/ Comments[i].in}
        open == {i \in 1 .. n : \A j \in i .. n : Comments[j].in}
    IN  alphabet.use = "comments" /\ TidyComments =>
          /\ found.open = First(open)
          /\ found.cleared = spanned \ open

(***************************************************************************)
(* Raw strings, as a C++ compiler reads them.                              *)
(***************************************************************************)
\* The delimiter that is awaited after the symbols of s, "" outside.
Awaited(s) ==
    LET read[i \in 0 .. Len(s)] ==
          CASE i = 0 -> ""
            [] i > 0 /\ read[i - 1] = "" ->
                 IF s[i] \in RawOpeners THEN RawEnd[s[i]] ELSE ""
            [] i > 0 /\ read[i - 1] # "" ->
                 IF s[i] = read[i - 1] THEN "" ELSE read[i - 1]
    IN  read

\* At most one opener on a line outside raw strings, none behind an end.
TidyRaw ==
    \A n \in 1 .. Len(typed) :
      LET i == Len(FlattenSeq(SubSeq(typed, 1, n - 1)))
          opens(from) == {j \in from .. Len(typed[n]) : typed[n][j] \in RawOpeners}
          start == Awaited(Symbols)[i]
          ends == {j \in 1 .. Len(typed[n]) : typed[n][j] = start}
      IN  IF start = "" THEN Cardinality(opens(1)) <= 1
          ELSE ends = {} \/ opens(First(ends)) = {}

\* CleanseRawStrings() keeps exactly the symbols outside raw strings.
RawStringsRemoved ==
    LET s == Symbols
        outside == SelectSeq([i \in 1 .. Len(s) |-> i],
                     LAMBDA i : /\ Awaited(s)[i - 1] = ""
                                /\ s[i] \notin RawOpeners)
    IN  alphabet.use = "raw" /\ TidyRaw =>
          SelectSeq(FlattenSeq(CleanseRawStrings(typed)), LAMBDA c : c # "S")
            = [i \in 1 .. Len(outside) |-> s[outside[i]]]

\* What ProcessFileData() hands to the checks is cleansed of exactly the
\* comments and raw strings that span lines, and of nothing else.
CleansingExact == CommentsCleared /\ RawStringsRemoved

(***************************************************************************)
(* Sources of Pump.                                                        *)
(***************************************************************************)
Source == [i \in 1 .. Len(Symbols) |-> Piece(Symbols[i])]

RECURSIVE Leaves(_), Meaning(_, _, _)

\* The tokens that carry a word, a name or a condition, from the nodes.
Leaves(code) ==
    IF code = <<>> THEN <<>>
    ELSE LET node == Head(code)
             own == CASE node.op = "exp" -> <<Token("$id", node.value[1], <<>>)>>
                      [] node.op = "if" -> <<Code(node.value)>>
                      [] node.op = "$for" ->
                           <<Token("$for", node.id, <<>>), Code(node.value)>>
                      [] node.op = "[[" -> <<>>
                      [] OTHER -> <<Token(node.op, node.id, node.value)>>
         IN  own \o Leaves(node.code) \o Leaves(FlattenSeq(node.else)) \o Leaves(Tail(code))

IsLeaf(token) ==
    /\ token.type \notin {"[[", "]]", "$if", "$elif", "$else"}
    /\ token.type = "code" => Strip(token.value) # <<>>

\* ParseCodeNode(): a parse that succeeds has lost no word, name or condition
\* and moved none (blanks in front of an else are dropped); it ends early only
\* at a bracket or an else that belongs to nothing.
ParseLosesNothing ==
    alphabet.use = "pump" =>
      LET ast == ParseToAST(Source)
      IN  ast.ok =>
            /\ SelectSeq(Leaves(ast.node) \o ast.rest, IsLeaf)
                 = SelectSeq(Tokenize(Source), IsLeaf)
            /\ Type(ast.rest) \in {"none", "]]", "$else", "$elif"}

\* The meaning of nodes: <<the text>>, or <<>> if something is undefined.  A
\* name means what the closest definition in front of it says, in its own
\* block or in one around it.
Meaning(code, names, ranges) ==
    LET node == Head(code)
        both(a, b) == IF a = <<>> \/ b = <<>> THEN <<>> ELSE <<a[1] \o b[1]>>
        then(m) == both(m, Meaning(Tail(code), names, ranges))
        value(exp) ==
          LET words == Strip(exp)
          IN  CASE Len(words) = 1 /\ IsInt(words) -> <<words>>
                [] Len(words) = 1 /\ words[1] \in DOMAIN names -> <<names[words[1]]>>
                [] OTHER -> <<>>
        turn(i) == Meaning(node.code, (node.id :> Str(i)) @@ names, ranges)
        turns(from, to) ==
          FoldLeft(LAMBDA m, i : both(m, IF i = to THEN turn(i)
                                         ELSE both(turn(i), <<node.value>>)),
                   <<<<>>>>, [k \in 1 .. to - from + 1 |-> from + k - 1])
    IN  IF code = <<>> THEN <<<<>>>>
        ELSE CASE node.op = "code" -> then(<<node.value>>)
               [] node.op = "exp" -> then(value(node.value))
               [] node.op = "[[" -> then(Meaning(node.code, names, ranges))
               [] node.op = "$($)" -> then(<<<<"$">>>>)
               [] node.op = "$var" ->
                    LET v == IF node.value # <<>> THEN value(node.value)
                             ELSE Meaning(node.code, names, ranges)
                    IN  IF v = <<>> THEN <<>>
                        ELSE Meaning(Tail(code), (node.id :> v[1]) @@ names, ranges)
               [] node.op = "$range" ->
                    LET bounds == <<value(<<node.value[1]>>), value(<<node.value[2]>>)>>
                    IN  IF \E b \in ToSet(bounds) : b = <<>> \/ ~IsInt(b[1]) THEN <<>>
                        ELSE Meaning(Tail(code), names,
                               (node.id :> <<Int_(bounds[1][1]), Int_(bounds[2][1])>>)
                                 @@ ranges)
               [] node.op = "$for" ->
                    IF node.id \notin DOMAIN ranges THEN <<>>
                    ELSE then(turns(ranges[node.id][1], ranges[node.id][2]))
               [] node.op = "if" ->
                    LET cond == value(node.value)
                    IN  CASE cond = <<>> -> <<>>
                          [] cond # <<>> /\ IsTrue(cond[1]) ->
                               then(Meaning(node.code, names, ranges))
                          [] OTHER ->
                               then(Meaning(FlattenSeq(node.else), names, ranges))

\* RunCode() on cloned lists of names and ranges gives the text that lexical
\* scoping gives: what a block defines ends with it, and so does a turn of
\* $for; undefined names fail in both.
ScopesLexical ==
    alphabet.use = "pump" =>
      LET ast == ParseToAST(Source)
          ran == Convert(Source)
          meant == Meaning(ast.node, <<>>, <<>>)
      IN  ast.ok => IF ran.ok THEN meant = <<ran.out>> ELSE meant = <<>>

(***************************************************************************)
(* Long lines of pump.py's output.                                         *)
(***************************************************************************)
Long == alphabet.use = "wrap" /\ Len(RStrip(typed[1])) > MaxWidth

\* WrapLongLine() keeps every character but blanks, in order, if it ends; of a
\* comment only the '//' is repeated.
WrapKeepsText ==
    Long => \A directive, exempt \in BOOLEAN :
      LET wrapped == WrapLongLine(typed[1], directive, exempt)
          slashes == CommentStart(typed[1])
          kept == IF slashes = 0 \/ exempt THEN typed[1]
                  ELSE SubSeq(typed[1], 1, slashes - 1)
                         \o SubSeq(typed[1], slashes + 2, Len(typed[1]))
      IN  wrapped.endless \/
          Strip(FoldLeft(LAMBDA all, l : all \o l.text, <<>>, wrapped.out)) = Strip(kept)

\* The longest run without blanks in a text.
LongestWord(s) ==
    Max({0} \cup {Len(t) : t \in {u \in {SubSeq(s, i, j) : i, j \in 1 .. Len(s)} :
                                    Strip(u) = u}})

\* WrapLongLine() ends if the words fit on a continuation line, and then every
\* line that is new fits, or is one segment or one word: it could not be put
\* elsewhere.
WrapFits ==
    Long => \A directive \in BOOLEAN :
      LET line == RStrip(typed[1])
          wrapped == WrapLongLine(line, directive, FALSE)
          concat == IF directive THEN 2 ELSE 0
          slashes == CommentStart(line)
          segments == ToSet(Segments(Trim(line)))
          words == ToSet(Words(Trim(SubSeq(line, slashes + 2, Len(line)))))
          room == MaxWidth - concat - Continuation - IndentOf(line)
          ends == slashes # 0 \/ \A s \in segments : LongestWord(s) < room
      IN  ends =>
            /\ ~wrapped.endless
            /\ \A l \in ToSet(wrapped.out) :
                 CASE slashes = 0 ->
                        \/ l.indent + Len(l.text) + concat <= MaxWidth
                        \/ \E s \in segments : Trim(s) = l.text
                   [] slashes # 0 /\ l.mark ->
                        \/ l.indent + 3 + Len(l.text) <= MaxWidth
                        \/ \E w \in words : Trim(w) = l.text
                   [] OTHER -> l.text = Trim(SubSeq(line, 1, slashes - 1))

=============================================================================
