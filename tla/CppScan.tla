------------------------------- MODULE CppScan -------------------------------
(***************************************************************************)
(* The scanners of cpplint.py, as functions on sequences of lines.  A line *)
(* is a sequence of symbols: brackets, operators and, where only its       *)
(* presence matters, "x" for a word.  Positions count from 1; -1 is the    *)
(* code's "not found".                                                     *)
(***************************************************************************)
EXTENDS Integers, Sequences, SequencesExt

Closer == [c \in {"(", "[", "{", "<"} |->
             CASE c = "(" -> ")" [] c = "[" -> "]"
               [] c = "{" -> "}" [] c = "<" -> ">"]
Opener == [c \in {")", "]", "}", ">"} |->
             CHOOSE o \in DOMAIN Closer : Closer[o] = c]

(***************************************************************************)
(* Matching brackets across lines.                                         *)
(***************************************************************************)
\* <<position behind the matching endchar, 0>> or <<-1, depth at the end>>.
FindEndOfExpressionInLine(line, startpos, depth, startchar, endchar) ==
    LET scan[i \in 1 .. Len(line) + 1, d \in Int] ==
          CASE i > Len(line) -> <<-1, d>>
            [] i <= Len(line) /\ line[i] = startchar -> scan[i + 1, d + 1]
            [] i <= Len(line) /\ line[i] = endchar ->
                 IF d = 1 THEN <<i + 1, 0>> ELSE scan[i + 1, d - 1]
            [] OTHER -> scan[i + 1, d]
    IN  scan[startpos, depth]

\* Fault: every line below the first starts at depth 1.
CloseWithinLine(lines, linenum, pos) ==
    LET s == lines[linenum][pos]
        scan[n \in Nat, from \in Nat] ==
          IF n > Len(lines) THEN [linenum |-> n, pos |-> -1]
          ELSE LET r == FindEndOfExpressionInLine(lines[n], from,
                          IF n = linenum THEN 0 ELSE 1, s, Closer[s])
               IN  IF r[1] > -1 THEN [linenum |-> n, pos |-> r[1]]
                   ELSE scan[n + 1, 1]
    IN  IF s \in DOMAIN Closer THEN scan[linenum, pos]
        ELSE [linenum |-> Len(lines) + 1, pos |-> -1]

\* Where the bracket at linenum, pos closes: the position behind it.
CloseExpression(lines, linenum, pos) ==
    LET s == lines[linenum][pos]
        scan[n \in Nat, from \in Nat, d \in Int] ==
          IF n > Len(lines) THEN [linenum |-> n, pos |-> -1]
          ELSE LET r == FindEndOfExpressionInLine(lines[n], from, d,
                                                  s, Closer[s])
               IN  IF r[1] > -1 THEN [linenum |-> n, pos |-> r[1]]
                   ELSE scan[n + 1, 1, r[2]]
    IN  IF s \in DOMAIN Closer THEN scan[linenum, pos, 0]
        ELSE [linenum |-> Len(lines) + 1, pos |-> -1]

\* <<position of the matching startchar, 0>> or <<-1, depth at the start>>.
FindStartOfExpressionInLine(line, endpos, depth, startchar, endchar) ==
    LET scan[i \in 0 .. Len(line), d \in Int] ==
          CASE i = 0 -> <<-1, d>>
            [] i > 0 /\ line[i] = endchar -> scan[i - 1, d + 1]
            [] i > 0 /\ line[i] = startchar ->
                 IF d = 1 THEN <<i, 0>> ELSE scan[i - 1, d - 1]
            [] OTHER -> scan[i - 1, d]
    IN  scan[endpos, depth]

\* Where the bracket at linenum, pos opens.
ReverseCloseExpression(lines, linenum, pos) ==
    LET e == lines[linenum][pos]
        scan[n \in 0 .. Len(lines), from \in Nat, d \in Int] ==
          IF n = 0 THEN [linenum |-> 0, pos |-> -1]
          ELSE LET r == FindStartOfExpressionInLine(lines[n], from, d,
                                                    Opener[e], e)
               IN  IF r[1] > -1 THEN [linenum |-> n, pos |-> r[1]]
                   ELSE scan[n - 1,
                             IF n = 1 THEN 0 ELSE Len(lines[n - 1]), r[2]]
    IN  IF e \in DOMAIN Opener THEN scan[linenum, pos, 0]
        ELSE [linenum |-> 0, pos |-> -1]

(***************************************************************************)
(* Is a '<' or '>' a template bracket?  The text is what follows (or       *)
(* precedes) it up to the end (or start) of the file; line ends do not     *)
(* matter.                                                                 *)
(***************************************************************************)
\* Fault: parentheses are not tracked.
NextAngleFlat(text) ==
    LET stops == {i \in 1 .. Len(text) : text[i] \in {">", ",", ")", "]", ";"}}
    IN  \/ stops = {}
        \/ text[CHOOSE i \in stops : \A j \in stops : i <= j] \in {">", ","}

FindNextMatchingAngleBracket(text) ==
    LET scan[i \in Nat, stack \in Seq(STRING)] ==
          IF i > Len(text) THEN TRUE
          ELSE LET op == text[i]
                   angle == Last(stack) = "<"
               IN  CASE op \in {"<", "(", "["} -> scan[i + 1, Append(stack, op)]
                     [] angle /\ op = ">" ->
                          Len(stack) = 1 \/ scan[i + 1, Front(stack)]
                     [] angle /\ op = "," -> TRUE
                     [] angle /\ op \in {")", "]", ";"} -> FALSE
                     [] ~angle /\ op \in {")", "]"} -> scan[i + 1, Front(stack)]
                     [] OTHER -> scan[i + 1, stack]
    IN  scan[1, <<"<">>]

FindPreviousMatchingAngleBracket(text) ==
    LET scan[i \in Nat, stack \in Seq(STRING)] ==
          IF i = 0 THEN FALSE
          ELSE LET op == text[i]
                   angle == Last(stack) = ">"
               IN  CASE op \in {">", ")", "]"} -> scan[i - 1, Append(stack, op)]
                     [] angle /\ op = "<" ->
                          Len(stack) = 1 \/ scan[i - 1, Front(stack)]
                     [] angle /\ op = "," -> TRUE
                     [] angle /\ op \in {"(", "[", ";"} -> FALSE
                     [] ~angle /\ op \in {"(", "["} -> scan[i - 1, Front(stack)]
                     [] OTHER -> scan[i - 1, stack]
    IN  scan[Len(text), <<">">>]

\* _GetTextInside(): the text behind the bracket at start up to the one that
\* closes it, or <<"None">>.
GetTextInside(text, start) ==
    LET punctuation == {"(", "[", "{"}
        scan[i \in Nat, stack \in Seq(STRING)] ==
          CASE stack = <<>> -> SubSeq(text, start + 1, i - 2)
            [] stack # <<>> /\ i > Len(text) -> <<"None">>
            [] stack # <<>> /\ i <= Len(text) ->
                 CASE text[i] = Last(stack) -> scan[i + 1, Front(stack)]
                   [] /\ text[i] # Last(stack)
                      /\ text[i] \in {")", "]", "}"} -> <<"None">>
                   [] text[i] \in punctuation ->
                        scan[i + 1, Append(stack, Closer[text[i]])]
                   [] OTHER -> scan[i + 1, stack]
    IN  scan[start + 1, <<Closer[text[start]]>>]

(***************************************************************************)
(* Comments and raw strings that span lines.                               *)
(***************************************************************************)
\* The least element of a set of positions, 0 if it is empty.
First(S) == IF S = {} THEN 0 ELSE CHOOSE i \in S : \A j \in S : i <= j

\* RemoveMultiLineCommentsFromRange(): the lines it clears.
RemoveRange(b, e) == b .. e

\* The lines RemoveMultiLineComments() clears, and the line of a comment
\* that never ends, 0 if there is none.  FindNextMultiLineCommentStart()
\* accepts the lines of starts, FindNextMultiLineCommentEnd() those of ends.
MultiLineComments(starts, ends, n) ==
    LET from[i \in 1 .. n + 1] ==
          LET b == First({j \in starts : j >= i})
              e == First({j \in ends : j >= b})
          IN  CASE b = 0 -> [cleared |-> {}, open |-> 0]
                [] b # 0 /\ e = 0 -> [cleared |-> {}, open |-> b]
                [] b # 0 /\ e # 0 ->
                     [from[e + 1] EXCEPT !.cleared = @ \union RemoveRange(b, e)]
    IN  from[1]

\* A line that starts with "/*" and has no "*/" behind it, character by
\* character, and one that ends with "*/".
StartsComment(line) ==
    /\ Len(line) >= 2 /\ line[1] = "/" /\ line[2] = "*"
    /\ ~\E i \in 3 .. Len(line) - 1 : line[i] = "*" /\ line[i + 1] = "/"
EndsComment(line) ==
    LET n == Len(line) IN n >= 2 /\ line[n - 1] = "*" /\ line[n] = "/"

\* Raw strings: "R1(" opens one with delimiter 1, ")1" closes it; "S" is the
\* empty string put in its place.
RawOpeners == {"R1(", "R2("}
RawEnd == [o \in RawOpeners |-> IF o = "R1(" THEN ")1" ELSE ")2"]

\* Position of the first delimiter from i on.
Find(line, delimiter, i) ==
    First({j \in i .. Len(line) : line[j] = delimiter})

\* Fault: a raw string that ends on a later line is taken for open still.
KeepDelimiter(st, line) ==
    [delimiter |-> st.delimiter, line |-> <<"S">>]

\* A line that starts inside a raw string.
InsideRawString(st, line) ==
    LET end == Find(line, st.delimiter, 1)
    IN  IF end = 0 THEN [delimiter |-> st.delimiter, line |-> <<>>]
        ELSE [delimiter |-> "",
              line |-> <<"S">> \o SubSeq(line, end + 1, Len(line))]

\* Any other line: the expression is greedy and finds the last opener.
OutsideRawString(line) ==
    LET openers == {i \in 1 .. Len(line) : line[i] \in RawOpeners}
        o == CHOOSE i \in openers : \A j \in openers : j <= i
        end == Find(line, RawEnd[line[o]], o + 1)
        before == Append(SubSeq(line, 1, o - 1), "S")
    IN  CASE openers = {} -> [delimiter |-> "", line |-> line]
          [] openers # {} /\ end # 0 ->
               [delimiter |-> "",
                line |-> before \o SubSeq(line, end + 1, Len(line))]
          [] openers # {} /\ end = 0 ->
               [delimiter |-> RawEnd[line[o]], line |-> before]

CleanseRawStrings(raw_lines) ==
    LET loop[n \in 0 .. Len(raw_lines)] ==
          IF n = 0 THEN [delimiter |-> "", line |-> <<>>]
          ELSE IF loop[n - 1].delimiter = ""
               THEN OutsideRawString(raw_lines[n])
               ELSE InsideRawString(loop[n - 1], raw_lines[n])
    IN  [n \in 1 .. Len(raw_lines) |-> loop[n].line]
=============================================================================
