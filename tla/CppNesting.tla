----------------------------- MODULE CppNesting -----------------------------
(***************************************************************************)
(* The nesting state of cpplint.py: _BlockInfo, _ClassInfo,                *)
(* _NamespaceInfo, _PreprocessorInfo and _NestingState.                    *)
(*                                                                         *)
(* A line of source is abstracted to what Update() matches in it:          *)
(*   dir      its preprocessor directive, "none" for other lines           *)
(*   toks     the keywords, access labels, brackets and semicolons, in     *)
(*            order; "class" and "struct" stand for a head that Update()'s *)
(*            expression accepts (no '=' or '>' behind it)                 *)
(*   indent   its leading spaces                                           *)
(*   endns    the comment behind a brace: "none", the namespace's name     *)
(*            ("right") or another one ("wrong")                           *)
(***************************************************************************)
EXTENDS CppErrors

CONSTANT
    NamespaceLines   \* shorter namespaces need no comment; 10 in the code

ASSUME NamespaceAssumption == NamespaceLines \in Nat

ClassKinds == {"class", "struct"}
Labels == {"public:", "protected:", "private:"}

(***************************************************************************)
(* Blocks.  A class or namespace is pushed when its head is seen and waits *)
(* for its brace; any other block is pushed by its brace.                  *)
(***************************************************************************)
Block(kind, seen, line, linenum) ==
    [kind |-> kind,
     seen_open_brace |-> seen,
     open_parentheses |-> 0,
     inline_asm |-> "NO_ASM",
     access |-> CASE kind = "struct" -> "public:"
                  [] kind = "class" -> "private:"
                  [] OTHER -> "none",
     class_indent |-> line.indent,
     starting_linenum |-> linenum]

\* CheckEnd() of a class: a brace at the start of its line is aligned.
ClassEnd(b, line, linenum) ==
    IF line.toks[1] = "}" /\ line.indent # b.class_indent
    THEN <<Report(linenum, <<"whitespace", "indent">>, 3)>>
    ELSE <<>>

\* CheckEnd() of a namespace: long ones, and those with a comment, carry
\* the right comment.
NamespaceEnd(b, line, linenum) ==
    IF \/ line.endns = "right"
       \/ line.endns = "none" /\ linenum - b.starting_linenum < NamespaceLines
    THEN <<>>
    ELSE <<Report(linenum, <<"readability", "namespace">>, 5)>>

CheckEnd(b, line, linenum) ==
    CASE b.kind \in ClassKinds -> ClassEnd(b, line, linenum)
      [] b.kind = "namespace" -> NamespaceEnd(b, line, linenum)
      [] OTHER -> <<>>

SeenOpenBrace(stack) == stack = <<>> \/ Last(stack).seen_open_brace

SetTop(stack, b) == Append(Front(stack), b)

(***************************************************************************)
(* The preprocessor.  The branch after #if counts; every later branch      *)
(* starts again from the stack before #if and is forgotten at #endif.      *)
(***************************************************************************)
Opening == {"if", "ifdef", "ifndef"}
Middle == {"else", "elif"}

PreprocessorInfo(stack) ==
    [stack_before_if |-> stack, stack_before_else |-> <<>>, seen_else |-> FALSE]

\* Fault: every #elif replaces the stack that is kept.
LastBranchKept(p, stack) ==
    [p EXCEPT !.seen_else = TRUE, !.stack_before_else = stack]

SawElse(p, stack) ==
    IF p.seen_else THEN p
    ELSE [p EXCEPT !.seen_else = TRUE, !.stack_before_else = stack]

UpdatePreprocessor(ns, dir) ==
    LET pp == ns.pp_stack
        top == Last(pp)
    IN  CASE dir \in Opening ->
               [ns EXCEPT !.pp_stack = Append(pp, PreprocessorInfo(ns.stack))]
          [] dir \in Middle /\ pp # <<>> ->
               [stack |-> top.stack_before_if,
                pp_stack |-> SetTop(pp, SawElse(top, ns.stack))]
          [] dir = "endif" /\ pp # <<>> ->
               [stack |-> IF top.seen_else THEN top.stack_before_else
                          ELSE ns.stack,
                pp_stack |-> Front(pp)]
          [] OTHER -> ns

(***************************************************************************)
(* The text of the line.                                                   *)
(***************************************************************************)
Count(toks, t) == Len(SelectSeq(toks, LAMBDA u : u = t))

\* _MATCH_ASM at position i.
StartsAsm(toks, i) ==
    i < Len(toks) /\ toks[i] = "asm" /\ toks[i + 1] \in {"(", "{"}

\* Parentheses are counted for the innermost block of the line's start, and
\* lead into and out of inline assembly.
CountParentheses(stack, toks) ==
    IF stack = <<>> THEN stack
    ELSE LET b == Last(stack)
             depth_change == Count(toks, "(") - Count(toks, ")")
             open == b.open_parentheses + depth_change
             asm == CASE b.inline_asm \in {"NO_ASM", "END_ASM"} ->
                           IF depth_change # 0 /\ open = 1 /\ StartsAsm(toks, 1)
                           THEN "INSIDE_ASM" ELSE "NO_ASM"
                      [] b.inline_asm = "INSIDE_ASM" /\ open = 0 -> "END_ASM"
                      [] OTHER -> b.inline_asm
         IN  SetTop(stack, [b EXCEPT !.open_parentheses = open,
                                     !.inline_asm = asm])

\* Position of the first brace from i on, 0 if there is none.
FirstBrace(toks, i) ==
    LET rest == SubSeq(toks, i, Len(toks))
        k == SelectInSeq(rest, LAMBDA t : t = "{")
    IN  IF k = 0 THEN 0 ELSE k + i - 1

\* Namespace heads at the start of the line: the stack with them, and where
\* the line goes on.
PushNamespaces(stack, line, linenum) ==
    LET toks == line.toks
        heads[i \in 1 .. Len(toks) + 1] ==
          IF i > Len(toks) \/ toks[i] # "namespace"
          THEN [stack |-> <<>>, from |-> i]
          ELSE LET brace == FirstBrace(toks, i + 1)
                   rest == heads[IF brace = 0 THEN i + 1 ELSE brace + 1]
               IN  [rest EXCEPT !.stack =
                      <<Block("namespace", brace # 0, line, linenum)>> \o @]
    IN  [heads[1] EXCEPT !.stack = stack \o @]

\* A class head, unless it stands inside parentheses.
PushClass(st, line, linenum) ==
    LET toks == line.toks
        i == st.from
    IN  IF /\ i <= Len(toks) /\ toks[i] \in ClassKinds
           /\ st.stack = <<>> \/ Last(st.stack).open_parentheses = 0
        THEN [stack |-> Append(st.stack, Block(toks[i], FALSE, line, linenum)),
              from |-> i + 1]
        ELSE st

\* The last access label decides; one that starts its line is indented by 1.
SetAccess(st, line, linenum) ==
    LET labels == {i \in st.from .. Len(line.toks) : line.toks[i] \in Labels}
        i == CHOOSE j \in labels : \A k \in labels : k <= j
        b == Last(st.stack)
    IN  IF st.stack = <<>> \/ b.kind \notin ClassKinds \/ labels = {}
        THEN [stack |-> st.stack, errors |-> <<>>]
        ELSE [stack |-> SetTop(st.stack, [b EXCEPT !.access = line.toks[i]]),
              errors |-> IF i = 1 /\ line.indent # b.class_indent + 1
                         THEN <<Report(linenum, <<"whitespace", "indent">>, 3)>>
                         ELSE <<>>]

OpenBrace(stack, asm, line, linenum) ==
    IF ~SeenOpenBrace(stack)
    THEN SetTop(stack, [Last(stack) EXCEPT !.seen_open_brace = TRUE])
    ELSE Append(stack, [Block("block", TRUE, line, linenum) EXCEPT
                          !.inline_asm = IF asm THEN "BLOCK_ASM" ELSE @])

\* Fault: a semicolon does not end a forward declaration.
KeepForward(stack) == stack

\* ';' or ')' where a brace is awaited: it was no definition.
EndForward(stack) == IF ~SeenOpenBrace(stack) THEN Front(stack) ELSE stack

\* One turn of the loop over braces, semicolons and closing parentheses.
ConsumeToken(acc, line, linenum, from, i) ==
    LET toks == line.toks
        stack == acc.stack
        ends == {j \in from .. i - 1 : toks[j] \in {"{", ";", ")", "}"}}
        start == IF ends = {} THEN from
                 ELSE 1 + CHOOSE j \in ends : \A k \in ends : k <= j
    IN  CASE toks[i] = "{" ->
               [acc EXCEPT !.stack = OpenBrace(@, StartsAsm(toks, start),
                                               line, linenum)]
          [] toks[i] \in {";", ")"} -> [acc EXCEPT !.stack = EndForward(@)]
          [] toks[i] = "}" /\ stack # <<>> ->
               [stack |-> Front(stack),
                errors |-> acc.errors \o CheckEnd(Last(stack), line, linenum)]
          [] OTHER -> acc

\* Update() without its first call.
UpdateText(stack, line, linenum) ==
    LET s0 == CountParentheses(stack, line.toks)
        s1 == PushClass(PushNamespaces(s0, line, linenum), line, linenum)
        s2 == SetAccess(s1, line, linenum)
        turn[i \in s1.from - 1 .. Len(line.toks)] ==
          IF i = s1.from - 1 THEN s2
          ELSE ConsumeToken(turn[i - 1], line, linenum, s1.from, i)
    IN  turn[Len(line.toks)]

Update(ns, line, linenum) ==
    LET pre == UpdatePreprocessor(ns, line.dir)
        text == UpdateText(pre.stack, line, linenum)
    IN  [state |-> [pre EXCEPT !.stack = text.stack], errors |-> text.errors]

InitNesting == [stack |-> <<>>, pp_stack |-> <<>>]

\* CheckCompletedBlocks(): classes and namespaces without their end.
CheckCompletedBlocks(stack) ==
    LET open == SelectSeq(stack, LAMBDA b : b.kind # "block")
    IN  [i \in 1 .. Len(open) |->
           Report(open[i].starting_linenum,
                  <<"build", IF open[i].kind = "namespace"
                             THEN "namespaces" ELSE "class">>, 5)]
=============================================================================
