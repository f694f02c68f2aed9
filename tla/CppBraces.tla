------------------------------ MODULE CppBraces ------------------------------
(***************************************************************************)
(* The checks of cpplint.py that look from one line at another:            *)
(* CheckBraces(), CheckEmptyBlockBody(), CheckAccess() and                 *)
(* CheckSectionSpacing().  The tokens of a line also hold "else", "if",    *)
(* "for", "while", "do", "const", "=", ",", ":", "CAPS" for a macro name   *)
(* that is not on CheckBraces()' list, "DISALLOW" for one of its macros,   *)
(* "x" for any other word and "\\" for a backslash that ends the line.     *)
(***************************************************************************)
EXTENDS CppErrors, CppScan

CONSTANT SmallClass   \* lines of a class without section checks; 24 in the code

ASSUME SmallClassAssumption == SmallClass \in Nat

Texts(lines) == [n \in 1 .. Len(lines) |-> lines[n].toks]

\* Some position i of the line at which P holds.
Somewhere(toks, P(_)) == \E i \in 1 .. Len(toks) : P(i)

At(toks, i, words) ==
    i + Len(words) - 1 <= Len(toks) /\ SubSeq(toks, i, i + Len(words) - 1) = words

Absent(toks, i, j, t) == \A k \in i .. j : toks[k] # t

\* GetPreviousNonBlankLine(): its number, 0 if there is none.
GetPreviousNonBlankLine(lines, linenum) ==
    LET before == {n \in 1 .. linenum - 1 : ~lines[n].blank}
    IN  IF before = {} THEN 0 ELSE CHOOSE n \in before : \A m \in before : m <= n

PreviousText(lines, linenum) ==
    LET n == GetPreviousNonBlankLine(lines, linenum)
    IN  IF n = 0 THEN <<>> ELSE lines[n].toks

EndsWith(toks, ends) == toks # <<>> /\ Last(toks) \in ends

(***************************************************************************)
(* CheckBraces(), one definition per paragraph of the function.            *)
(***************************************************************************)
LoneBrace(lines, linenum) ==
    LET n == GetPreviousNonBlankLine(lines, linenum)
    IN  /\ lines[linenum].toks = <<"{">>
        /\ ~EndsWith(PreviousText(lines, linenum),
                     {",", ";", ":", "}", "{", "("})
        /\ ~(n # 0 /\ lines[n].dir # "none")

ElseOnNewLine(lines, linenum) ==
    At(lines[linenum].toks, 1, <<"else">>)
      /\ PreviousText(lines, linenum) = <<"}">>

\* A multi-line "else if": what follows its condition.  When the condition
\* does not end, that is the end marker's empty line.
BehindCondition(lines, linenum, pos) ==
    LET end == CloseExpression(Texts(lines), linenum, pos)
    IN  IF end.pos = -1 THEN <<>>
        ELSE LET line == lines[end.linenum].toks
             IN  SubSeq(line, end.pos, Len(line))

ElseBraceMissing(lines, linenum) ==
    LET toks == lines[linenum].toks
        n == Len(toks)
        oneSided == \/ Somewhere(toks, LAMBDA i : At(toks, i, <<"}", "else">>)
                                                  /\ Absent(toks, i, n, "{"))
                    \/ Somewhere(toks, LAMBDA i : At(toks, i, <<"else", "{">>)
                                                  /\ Absent(toks, 1, i, "}"))
        multiLine == Somewhere(toks, LAMBDA i : At(toks, i, <<"}", "else", "if">>)
                                                /\ Absent(toks, i, n, "{"))
        elseIf == First({i \in 1 .. n : At(toks, i, <<"else", "if">>)})
        pos == First({i \in elseIf .. n : toks[i] = "("})
    IN  /\ oneSided
        /\ multiLine =>
             pos # 0 /\ ~Contains(BehindCondition(lines, linenum, pos), "{")

OneLineElse(toks) ==
    /\ Somewhere(toks, LAMBDA i : At(toks, i, <<"else">>) /\ i < Len(toks)
                                  /\ toks[i + 1] # "{")
    /\ ~Somewhere(toks, LAMBDA i : At(toks, i, <<"else", "if">>))

OneLineDo(toks) == At(toks, 1, <<"do">>) /\ Len(toks) > 1 /\ toks[2] # "{"

\* Position of the brace of a block that needs no semicolon, 0 if the line
\* has none: after ')' unless a macro or '=' precedes the parenthesis; after
\* "else" or ") const"; or first on its line, after a statement or block.
EligibleBrace(lines, linenum) ==
    LET toks == lines[linenum].toks
        last(S) == IF S = {} THEN 0 ELSE CHOOSE i \in S : \A j \in S : j <= i
        paren == last({i \in 1 .. Len(toks) - 1 : At(toks, i, <<")", "{">>)})
        open == ReverseCloseExpression(Texts(lines), linenum, paren)
        before == lines[open.linenum].toks
        word == last({i \in 2 .. Len(toks) :
                        /\ toks[i] = "{"
                        /\ \/ toks[i - 1] = "else"
                           \/ i > 2 /\ At(toks, i - 2, <<")", "const">>)})
    IN  CASE paren # 0 ->
               IF open.pos > 1 /\ before[open.pos - 1] \in {"CAPS", "="}
               THEN 0 ELSE paren + 1
          [] paren = 0 /\ word # 0 -> word
          [] paren = 0 /\ word = 0 ->
               IF EndsWith(PreviousText(lines, linenum), {";", "{", "}"})
                    /\ At(toks, 1, <<"{">>)
               THEN 1 ELSE 0

\* The line of a redundant semicolon behind the block that opens here, or 0.
RedundantSemicolon(lines, linenum) ==
    LET pos == EligibleBrace(lines, linenum)
        end == CloseExpression(Texts(lines), linenum, pos)
    IN  IF /\ pos # 0
           /\ end.pos > -1
           /\ At(lines[end.linenum].toks, end.pos, <<";">>)
        THEN end.linenum ELSE 0

ReportIf(p, line, words, confidence) ==
    IF p THEN <<Report(line, words, confidence)>> ELSE <<>>

CheckBraces(lines, linenum) ==
    LET semicolon == RedundantSemicolon(lines, linenum)
    IN  ReportIf(LoneBrace(lines, linenum), linenum,
                 <<"whitespace", "braces">>, 4)
        \o ReportIf(ElseOnNewLine(lines, linenum), linenum,
                    <<"whitespace", "newline">>, 4)
        \o ReportIf(ElseBraceMissing(lines, linenum), linenum,
                    <<"readability", "braces">>, 5)
        \o ReportIf(OneLineElse(lines[linenum].toks), linenum,
                    <<"whitespace", "newline">>, 4)
        \o ReportIf(OneLineDo(lines[linenum].toks), linenum,
                    <<"whitespace", "newline">>, 4)
        \o ReportIf(semicolon # 0, semicolon, <<"readability", "braces">>, 4)

\* CheckEmptyBlockBody(): reported where the condition ends.
CheckEmptyBlockBody(lines, linenum) ==
    LET toks == lines[linenum].toks
        end == CloseExpression(Texts(lines), linenum, 2)
    IN  IF /\ Len(toks) > 1 /\ toks[1] \in {"for", "while", "if"} /\ toks[2] = "("
           /\ end.pos > -1
           /\ At(lines[end.linenum].toks, end.pos, <<";">>)
        THEN <<Report(end.linenum,
                 <<"whitespace", "empty",
                   IF toks[1] = "if" THEN "conditional" ELSE "loop", "body">>, 5)>>
        ELSE <<>>

(***************************************************************************)
(* Checks that read the nesting state.                                     *)
(***************************************************************************)
IsClass(b) == b.kind \in {"class", "struct"}

CheckAccess(stack, line, linenum) ==
    ReportIf(/\ At(line.toks, 1, <<"DISALLOW">>)
             /\ stack # <<>> /\ IsClass(Last(stack))
             /\ Last(stack).access # "private:",
             linenum, <<"readability", "constructors">>, 3)

\* last_line of _ClassInfo: the first line that balances the braces.
LastLine(lines, start) ==
    LET braces(n, t) == Len(SelectSeq(lines[n].toks, LAMBDA u : u = t))
        depth[n \in start - 1 .. Len(lines)] ==
          IF n < start THEN 0
          ELSE depth[n - 1] + braces(n, "{") - braces(n, "}")
    IN  First({n \in start .. Len(lines) : depth[n] = 0})

\* InnermostClass(): its position in the stack, 0 if there is none.
InnermostClass(stack) ==
    LET classes == {i \in 1 .. Len(stack) : IsClass(stack[i])}
    IN  IF classes = {} THEN 0 ELSE CHOOSE i \in classes : \A j \in classes : j <= i

CheckSectionSpacing(lines, stack, linenum) ==
    LET c == stack[InnermostClass(stack)].starting_linenum
        heads == {n \in c .. linenum - 1 : EndsWith(lines[n].toks, {"{"})}
        head == IF heads = {} THEN c ELSE First(heads)
        before == lines[linenum - 1]
    IN  ReportIf(/\ InnermostClass(stack) # 0
                 /\ LastLine(lines, c) - c > SmallClass
                 /\ linenum > c
                 /\ lines[linenum].toks # <<>>
                 /\ lines[linenum].toks[1] \in {"public:", "protected:", "private:"}
                 /\ ~before.blank
                 /\ ~Contains(before.toks, "class")
                 /\ ~Contains(before.toks, "struct")
                 /\ ~EndsWith(before.toks, {"\\"})
                 /\ head < linenum - 1,
                 linenum, <<"whitespace", "blank", "line">>, 3)
=============================================================================
