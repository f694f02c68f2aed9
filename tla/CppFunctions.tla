---------------------------- MODULE CppFunctions ----------------------------
(***************************************************************************)
(* _FunctionState and CheckForFunctionLengths() of cpplint.py.  Besides    *)
(* the tokens of CppNesting, a line has                                    *)
(*   func    "plain" or "test" when an unindented function head or call    *)
(*           starts it, "none" otherwise (a macro in capitals included)    *)
(*   blank   nothing is left of it without its comments                    *)
(*   indent  its leading spaces                                            *)
(***************************************************************************)
EXTENDS CppErrors

CONSTANTS NORMAL_TRIGGER, TEST_TRIGGER   \* 250 and 400 in the code

ASSUME TriggerAssumption == /\ NORMAL_TRIGGER \in Nat \ {0}
                            /\ TEST_TRIGGER \in Nat \ {0}

InitFunction ==
    [in_a_function |-> FALSE, lines_in_function |-> 0,
     current_function |-> "none"]

\* Fault: the count goes on from the function before.
BeginAgain(fs, name) ==
    [fs EXCEPT !.in_a_function = TRUE, !.current_function = name]

Begin(fs, name) ==
    [in_a_function |-> TRUE, lines_in_function |-> 0,
     current_function |-> name]

CountLine(fs) ==
    IF fs.in_a_function
    THEN [fs EXCEPT !.lines_in_function = @ + 1] ELSE fs

End(fs) == [fs EXCEPT !.in_a_function = FALSE]

BaseTrigger(fs) ==
    IF fs.current_function = "test" THEN TEST_TRIGGER ELSE NORMAL_TRIGGER

\* int(math.log(q, 2)), for q >= 1 and below 2^6.
Log2(q) == CHOOSE k \in 0 .. q : 2^k <= q /\ q < 2^(k + 1)

ErrorLevel(fs) ==
    LET level == Log2(fs.lines_in_function \div BaseTrigger(fs))
    IN  IF level > 5 THEN 5 ELSE level

Check(fs, linenum, verbose_level) ==
    IF fs.lines_in_function > BaseTrigger(fs) * 2^verbose_level
    THEN <<Report(linenum, <<"readability", "fn", "size">>, ErrorLevel(fs))>>
    ELSE <<>>

Has(line, toks) == \E i \in 1 .. Len(line.toks) : line.toks[i] \in toks

\* The line where the search for the body of a head at linenum stops, or 0.
BodyLine(lines, linenum) ==
    LET stops == {i \in linenum .. Len(lines) : Has(lines[i], {";", "}", "{"})}
    IN  IF stops = {} THEN 0 ELSE CHOOSE i \in stops : \A j \in stops : i <= j

\* A line with nothing but an unindented brace.
IsFunctionEnd(line) == line.toks = <<"}">> /\ line.indent = 0

\* The function state after a line and what the line reports.
CheckForFunctionLengths(fs, lines, linenum, verbose_level) ==
    LET line == lines[linenum]
        body == BodyLine(lines, linenum)
    IN  CASE line.func # "none" ->
               [state |-> IF body # 0 /\ ~Has(lines[body], {";", "}"})
                          THEN Begin(fs, line.func) ELSE fs,
                errors |-> IF body # 0 THEN <<>>
                           ELSE <<Report(linenum,
                                         <<"readability", "fn", "size">>, 5)>>]
          [] line.func = "none" /\ IsFunctionEnd(line) ->
               [state |-> End(fs), errors |-> Check(fs, linenum, verbose_level)]
          [] line.func = "none" /\ ~IsFunctionEnd(line) ->
               [state |-> IF line.blank THEN fs ELSE CountLine(fs),
                errors |-> <<>>]
=============================================================================
