------------------------------ MODULE MCCpplint ------------------------------
(***************************************************************************)
(* Command lines for Cpplint.  Each kit is a few kinds of lines that bear  *)
(* on one component; the files of a kit are all sequences of its lines up  *)
(* to a length.                                                            *)
(***************************************************************************)
EXTENDS Cpplint

CONSTANTS
    NestLength,   \* lines of a file of NestKit; other kits: one or two less
    MaxBody       \* lines of a function's body in LongFunctions

Code(toks) == [BlankLine EXCEPT !.toks = toks, !.blank = FALSE]
Directive(d) == [BlankLine EXCEPT !.dir = d, !.blank = FALSE]
Including(h) == [Directive("include") EXCEPT !.include = h]
Nolint(line, kind, category) ==
    [line EXCEPT !.nolint = [kind |-> kind, category |-> category]]

File(ls) ==
    [kind |-> "open", extension |-> "cc", test |-> FALSE, lines |-> ls,
     own |-> <<>>, copyright |-> TRUE, newline |-> TRUE, cr |-> FALSE]

Call(opts, files) == [opts |-> opts, files |-> files]
Calls(kit, length) ==
    {Call(<<>>, <<File(ls)>>) : ls \in BoundedSeq(kit, length)}

\* Files that begin with one of the lines in starts.
CallsFrom(starts, kit, length) ==
    {Call(<<>>, <<File(<<l>> \o ls)>>) : l \in starts,
                                        ls \in BoundedSeq(kit, length - 1)}

\* Nested blocks and conditions.  The longest files begin with a line that
\* opens something, shorter ones with any line.
NestStarts == {Code(<<"class">>), Code(<<"{">>), Directive("if")}
NestKit ==
    NestStarts \cup {Code(<<"}", ";">>), Directive("else"), Directive("endif")}

\* Heads that are no definitions, labels, namespaces.
HeadKit ==
    {Code(<<"class", "{">>), Code(<<"struct", ";">>),
     Code(<<"namespace", "{">>), Code(<<"x", "(">>),
     Code(<<"struct", ")">>), [Code(<<"public:">>) EXCEPT !.indent = 1],
     Code(<<"DISALLOW", ";">>), [Code(<<"}">>) EXCEPT !.endns = "wrong"],
     Code(<<"namespace", "{", "namespace", "{", "class", ";", "}", "}">>)}

H(name, order) == [NoHeader EXCEPT !.name = name, !.order = order]
IncludeKit ==
    {Including([H("c", 1) EXCEPT !.system = TRUE]),
     Including([H("cpp", 2) EXCEPT !.system = TRUE, !.cpp = TRUE,
                                   !.stream = TRUE]),
     Including([H("mine", 3) EXCEPT !.base = "same", !.dir = TRUE]),
     Including([H("maybe", 4) EXCEPT !.base = "first"]),
     Including([H("other", 5) EXCEPT !.bare = TRUE]),
     Directive("ifdef"), Directive("if"), BlankLine}

\* Functions.  The longest files begin with the head of one.
FunctionHeads ==
    {[Code(<<"x", "(", ")", "{">>) EXCEPT !.func = "plain"],
     [Code(<<"x", "(", ")">>) EXCEPT !.func = "test"]}
FunctionKit ==
    FunctionHeads \cup
    {Code(<<"{">>), Code(<<"x", ";">>), Code(<<"asm", "(">>), Code(<<")", ";">>),
     Code(<<"}">>), BlankLine}

\* Reports on other lines, in comments, and the NOLINTs for them.
ReportKit ==
    {Code(<<"x", "(", ")", "{">>), Code(<<"if", "(">>),
     Nolint(Code(<<"}", ";">>), "all", All), Code(<<")", ";">>),
     [Code(<<"}", "else", "if", "(">>) EXCEPT !.bad = {"utf8", "nul"}],
     Nolint([BlankLine EXCEPT !.opens = TRUE], "unknown", <<>>),
     [Code(<<"x">>) EXCEPT !.ends = TRUE,
        !.local = <<[category |-> <<"whitespace", "tab">>, confidence |-> 1]>>]}

BraceKit ==
    {Code(<<"x", "(", ")", "{">>), Code(<<"{">>), Code(<<"}", ";">>),
     Code(<<"}", ";", "}", ";">>), Code(<<"CAPS", "(", ")", "{">>),
     Code(<<"}", "else", "{">>), BlankLine}

\* A header guard, right or wrong.
Guard(d, name) == [Directive(d) EXCEPT !.guard = name]
GuardKit ==
    {Guard("ifndef", "right"), Guard("ifndef", "right_"),
     Nolint(Guard("ifndef", "other"), "known", <<"build", "header", "guard">>),
     Guard("define", "right"), Guard("define", "other"),
     Guard("endif", "right"), Nolint(Guard("endif", "none"), "unknown", <<>>)}

\* Includes of the file and of its own header.
UseKit ==
    {Including([H("mine", 3) EXCEPT !.base = "same", !.dir = TRUE]),
     Including([H("cpp", 2) EXCEPT !.system = TRUE, !.cpp = TRUE]),
     [Code(<<"x", ";">>) EXCEPT !.uses = {"cpp"}],
     Nolint([Code(<<"x", ";">>) EXCEPT !.uses = {"cpp", "string"}],
            "known", <<"build", "include", "what", "you", "use">>)}

\* Functions of every length, for every verbosity.
Option(o) == [opt |-> o, level |-> 0, word |-> "", filters |-> <<>>]
Verbose(v) == [Option("verbose") EXCEPT !.level = v]
LongFunctions ==
    {Call(<<Verbose(v)>>,
          <<File(<<[Code(<<"x", "(", ")", "{">>) EXCEPT !.func = "plain"]>>
                 \o [i \in 1 .. k |-> Code(<<"x", ";">>)]
                 \o <<Code(<<"}">>)>>)>>) : v \in 0 .. 3, k \in 0 .. MaxBody}

\* Options and pairs of files: what one file leaves for the next.
Filter(sign, prefix) == [sign |-> sign, prefix |-> prefix]
Options ==
    {Verbose(3), Option("usage"), Option("categories"),
     [Option("counting") EXCEPT !.word = "toplevel"],
     [Option("counting") EXCEPT !.word = "detailed"],
     [Option("filter") EXCEPT !.filters = <<Filter("", <<"build">>)>>],
     [Option("filter") EXCEPT !.filters =
        <<Filter("-", <<"whitespace">>), Filter("+", <<"whitespace", "tab">>)>>],
     [Option("filter") EXCEPT !.filters =
        <<Filter("+", <<"whitespace", "tab">>), Filter("-", <<"whitespace">>)>>]}

Tab == [Code(<<"x">>) EXCEPT
          !.local = <<[category |-> <<"whitespace", "tab">>, confidence |-> 3]>>]
PairFiles ==
    {File(<<Tab>>), File(<<Nolint(Tab, "all", All), Tab>>),
     [File(<<Tab, Nolint(Tab, "known", <<"whitespace", "tab">>)>>) EXCEPT
        !.copyright = FALSE, !.newline = FALSE, !.cr = TRUE],
     [File(<<Tab>>) EXCEPT !.kind = "unreadable"],
     [File(<<Tab>>) EXCEPT !.kind = "ignored"]}

Headers(kit, length) ==
    {Call(<<Verbose(0)>>, <<[File(ls) EXCEPT !.extension = "h"]>>) :
       ls \in BoundedSeq(kit, length)}

MCArgv ==
    <<CallsFrom(NestStarts, NestKit, NestLength),
      Calls(NestKit, NestLength - 2), Calls(HeadKit, NestLength - 2),
      Calls(IncludeKit, NestLength - 2),
      CallsFrom(FunctionHeads, FunctionKit, NestLength - 1),
      Calls(FunctionKit, NestLength - 2),
      Calls(ReportKit, NestLength - 2), Calls(BraceKit, NestLength - 2),
      Headers(GuardKit, NestLength - 2), Headers(UseKit, NestLength - 2),
      {Call(<<>>, <<[File(ls) EXCEPT !.own = [h \in {"mine"} |-> {"cpp"}]]>>) :
         ls \in BoundedSeq(UseKit, NestLength - 2)},
      LongFunctions,
      {Call(opts, files) : opts \in BoundedSeq(Options, 2),
                           files \in BoundedSeq(PairFiles, 2)}>>
=============================================================================
