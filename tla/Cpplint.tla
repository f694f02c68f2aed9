------------------------------- MODULE Cpplint -------------------------------
(***************************************************************************)
(* A run of cpplint.py, as `make check` starts it on the sources: main(),  *)
(* ParseArguments(), ProcessFile(), ProcessFileData() and ProcessLine(),   *)
(* with the components of the other Cpp modules.                           *)
(*                                                                         *)
(* One step is the work on the arguments, the part of ProcessFileData()    *)
(* before, in or after its loop over the lines, or the end of main().      *)
(*                                                                         *)
(* A line is BlankLine with some of its fields set.  A file is             *)
(*   kind       "open", "unreadable", or "ignored" for its extension       *)
(*   extension  "cc", "h", ...         test     a unit test by its name    *)
(*   lines      its lines              own      see CppIncludes            *)
(*   copyright  it has a copyright     newline  it ends with a newline     *)
(*   cr         a line ends with \r                                        *)
(***************************************************************************)
EXTENDS CppNesting, CppFunctions, CppIncludes, CppBraces

CONSTANT Argv   \* a sequence of sets of command lines: [opts, files]

VARIABLES
    pc,            \* "start", "files", "lines", "exit"
    argv,          \* the command line
    settings,      \* verbose_level, filters and counting of _cpplint_state
    nfile,         \* index of the current file in argv.files
    lines,         \* its lines, without multi-line comments
    linenum,       \* the line being processed
    suppressions,  \* _error_suppressions
    nesting,       \* nesting_state
    include,       \* include_state
    function,      \* function_state
    out,           \* counters and calls of Error()
    status,        \* exit status
    elses,         \* for each open #if: has its #else been seen?
    active         \* the nesting stack of the lines that count

vars == <<pc, argv, settings, nfile, lines, linenum, suppressions, nesting,
          include, function, out, status, elses, active>>

fileVars == <<lines, linenum, suppressions, nesting, include, function,
              elses, active>>

NoLint == [kind |-> "none", category |-> All]

BlankLine ==
    [dir |-> "none", toks |-> <<>>, indent |-> 0, endns |-> "none",
     include |-> NoHeader, uses |-> {}, func |-> "none", blank |-> TRUE,
     nolint |-> NoLint, guard |-> "none", opens |-> FALSE, ends |-> FALSE,
     bad |-> {}, local |-> <<>>]

\* What RemoveMultiLineComments() leaves of a line in a comment.
Dummy == BlankLine

(***************************************************************************)
(* ParseArguments().  An option is [opt, level, word, filters]; "usage" is *)
(* any that ends in PrintUsage(), "categories" an empty --filter.          *)
(***************************************************************************)
DefaultSettings ==
    [verbose_level |-> 1, filters |-> SetFilters(<<>>), counting |-> ""]

SetOption(s, o) ==
    CASE o.opt = "verbose" -> [s EXCEPT !.verbose_level = o.level]
      [] o.opt = "filter" -> [s EXCEPT !.filters = SetFilters(o.filters)]
      [] o.opt = "counting" -> [s EXCEPT !.counting = o.word]
      [] OTHER -> s

\* The first option that ends the program, 0 if there is none.
LastWord(opts) ==
    First({i \in 1 .. Len(opts) : opts[i].opt \in {"usage", "categories"}})

ParseArguments ==
    /\ pc = "start"
    /\ LET opts == argv.opts
           stop == LastWord(opts)
           s == FoldLeft(SetOption, DefaultSettings, opts)
       IN  \/ /\ stop # 0
              /\ pc' = "exit"
              /\ status' = IF opts[stop].opt = "categories" THEN 0 ELSE 1
              /\ UNCHANGED settings
           \/ /\ stop = 0
              /\ argv.files = <<>> \/ BadFilter(s.filters)
              /\ pc' = "exit" /\ status' = 1
              /\ UNCHANGED settings
           \/ /\ stop = 0
              /\ argv.files # <<>> /\ ~BadFilter(s.filters)
              /\ pc' = "files"
              /\ settings' = s
              /\ UNCHANGED status
    /\ UNCHANGED <<argv, nfile, fileVars, out>>

(***************************************************************************)
(* ProcessFileData() up to its loop.                                       *)
(***************************************************************************)
CheckForCopyright(file) ==
    ReportIf(~file.copyright, 0, <<"legal", "copyright">>, 5)

\* CheckForHeaderGuard().  line.guard is what a header guard looks at: the
\* directive and whether its name is right, right with another '_', or not.
Guards(ls, dir) == {n \in 1 .. Len(ls) : ls[n].dir = dir /\ ls[n].guard # "none"}

Level(guard) == IF guard = "right_" THEN 0 ELSE 5

CheckForHeaderGuard(ls) ==
    LET ifndef == First(Guards(ls, "ifndef"))
        define == First(Guards(ls, "define"))
        endifs == {n \in 1 .. Len(ls) : ls[n].dir = "endif"}
        endif == IF endifs = {} THEN 0
                 ELSE CHOOSE n \in endifs : \A m \in endifs : m <= n
        wrong(n) == n = 0 \/ ls[n].guard # "right"
        differ == ls[define].guard # ls[ifndef].guard
        guard(n, level) == <<Report(n, <<"build", "header", "guard">>, level)>>
        at(n) == IF n = 0 THEN guard(0, 5)
                 ELSE NolintErrors(ls[n].nolint, n)
                        \o guard(n, Level(ls[n].guard))
    IN  CASE ifndef = 0 \/ define = 0 ->
               [errors |-> guard(0, 5), parsed |-> {}]
          [] ifndef # 0 /\ define # 0 ->
               [errors |->
                  (IF wrong(ifndef) THEN at(ifndef) ELSE <<>>)
                  \o (CASE differ -> guard(0, 5)
                        [] ~differ /\ wrong(endif) -> at(endif)
                        [] ~differ /\ ~wrong(endif) -> <<>>),
                parsed |->
                  {n \in {ifndef} : wrong(n)}
                    \union {n \in {endif} : n # 0 /\ wrong(n) /\ ~differ}]

RemoveMultiLineComments(ls) ==
    LET n == Len(ls)
        found == MultiLineComments({i \in 1 .. n : ls[i].opens},
                                   {i \in 1 .. n : ls[i].ends}, n)
    IN  [lines |-> [i \in 1 .. n |-> IF i \in found.cleared THEN Dummy ELSE ls[i]],
         errors |-> ReportIf(found.open # 0, found.open + 1,
                             <<"readability", "multiline", "comment">>, 5)]

\* Fault: the suppressions of the file before stay.
KeepSuppressions == suppressions

\* ResetNolintSuppressions()
FreshSuppressions == NoSuppressions

\* Suppressions of a set of lines.
Parsed(ls, S) ==
    UNION {ParseNolintSuppressions(FreshSuppressions, ls[n].nolint, n) : n \in S}
      \union FreshSuppressions

StartFile ==
    /\ pc = "files" /\ nfile <= Len(argv.files)
    /\ LET file == argv.files[nfile]
           guard == IF file.extension = "h" THEN CheckForHeaderGuard(file.lines)
                    ELSE [errors |-> <<>>, parsed |-> {}]
           clean == RemoveMultiLineComments(file.lines)
           known == Parsed(file.lines, guard.parsed)
       IN  /\ file.kind = "open"
           /\ lines' = clean.lines
           /\ suppressions' = known
           /\ out' = Errors(out, settings, known, <<nfile, 0>>,
                            CheckForCopyright(file) \o guard.errors
                              \o clean.errors)
    /\ pc' = "lines" /\ linenum' = 1
    /\ nesting' = InitNesting /\ include' = InitInclude
    /\ function' = InitFunction
    /\ elses' = <<>> /\ active' = <<>>
    /\ UNCHANGED <<argv, settings, nfile, status>>

\* A file that cannot be read, or whose extension is not valid.
SkipFile ==
    /\ pc = "files" /\ nfile <= Len(argv.files)
    /\ argv.files[nfile].kind # "open"
    /\ nfile' = nfile + 1
    /\ UNCHANGED <<pc, argv, settings, fileVars, out, status>>

(***************************************************************************)
(* ProcessLine().                                                          *)
(***************************************************************************)
\* The checks that look at their own line only.
LocalChecks(line, n) ==
    [i \in 1 .. Len(line.local) |->
       Report(n, line.local[i].category, line.local[i].confidence)]

CheckStyle(stack, n) ==
    CheckBraces(lines, n) \o CheckEmptyBlockBody(lines, n)
      \o CheckAccess(stack, lines[n], n)
      \o LocalChecks(lines[n], n)
      \o CheckSectionSpacing(lines, stack, n)

InAsm(stack) == stack # <<>> /\ Last(stack).inline_asm # "NO_ASM"

AfterBlank(n) == n = 1 \/ lines[n - 1].blank

\* The history of the preprocessor: which branch is the line in?
SeeDirective(flags, dir) ==
    CASE dir \in Opening -> Append(flags, FALSE)
      [] dir \in Middle /\ flags # <<>> -> Append(Front(flags), TRUE)
      [] dir = "endif" /\ flags # <<>> -> Front(flags)
      [] OTHER -> flags

Counts(flags) == \A i \in 1 .. Len(flags) : ~flags[i]

ProcessLine ==
    /\ pc = "lines" /\ linenum <= Len(lines)
    /\ LET n == linenum
           line == lines[n]
           file == argv.files[nfile]
           nest == Update(nesting, line, n)
           asm == InAsm(nest.state.stack)
           len == CheckForFunctionLengths(function, lines, n,
                                          settings.verbose_level)
           lang == CheckLanguage(include, line, n, AfterBlank(n), file.test)
           reports == NolintErrors(line.nolint, n) \o nest.errors
                        \o (IF asm THEN <<>>
                            ELSE len.errors \o CheckStyle(nest.state.stack, n)
                                   \o lang.errors)
       IN  /\ suppressions' = ParseNolintSuppressions(suppressions,
                                                      line.nolint, n)
           /\ nesting' = nest.state
           /\ function' = IF asm THEN function ELSE len.state
           /\ include' = IF asm THEN include ELSE lang.state
           /\ out' = Errors(out, settings, suppressions', <<nfile, n>>, reports)
           /\ elses' = SeeDirective(elses, line.dir)
           /\ active' = IF Counts(elses')
                        THEN UpdateText(active, line, n).stack ELSE active
    /\ linenum' = linenum + 1
    /\ UNCHANGED <<pc, argv, settings, nfile, lines, status>>

(***************************************************************************)
(* ProcessFileData() after its loop, the end of ProcessFile() and main().  *)
(***************************************************************************)
\* line.bad: what the line has of a replacement character and a NUL byte.
CheckForBadCharacters(ls) ==
    LET of(n, word) == ReportIf(word \in ls[n].bad, n, <<"readability", word>>, 5)
    IN  FlattenSeq([n \in 1 .. Len(ls) |-> of(n, "utf8") \o of(n, "nul")])

CheckForNewlineAtEOF(file) ==
    ReportIf(~file.newline, Len(file.lines), <<"whitespace", "ending", "newline">>, 5)

EndFile ==
    /\ pc = "lines" /\ linenum > Len(lines)
    /\ LET file == argv.files[nfile]
       IN  out' = Errors(out, settings, suppressions, <<nfile, linenum>>,
                    CheckCompletedBlocks(nesting.stack)
                      \o CheckForIncludeWhatYouUse(include, lines,
                                                   file.extension, file.own)
                      \o CheckForBadCharacters(lines)
                      \o CheckForNewlineAtEOF(file)
                      \o ReportIf(file.cr, 0, <<"whitespace", "newline">>, 1))
    /\ pc' = "files" /\ nfile' = nfile + 1
    /\ UNCHANGED <<argv, settings, fileVars, status>>

Exit ==
    /\ pc = "files" /\ nfile > Len(argv.files)
    /\ pc' = "exit"
    /\ status' = IF out.counts.error_count > 0 THEN 1 ELSE 0
    /\ UNCHANGED <<argv, settings, nfile, fileVars, out>>

Init ==
    /\ pc = "start"
    /\ \E i \in 1 .. Len(Argv) : argv \in Argv[i]
    /\ settings = DefaultSettings
    /\ nfile = 1 /\ lines = <<>> /\ linenum = 1
    /\ suppressions = NoSuppressions
    /\ nesting = InitNesting /\ include = InitInclude
    /\ function = InitFunction
    /\ out = [counts |-> ZeroCounts, calls |-> <<>>]
    /\ status = -1
    /\ elses = <<>> /\ active = <<>>

Next == ParseArguments \/ StartFile \/ SkipFile \/ ProcessLine \/ EndFile \/ Exit

Spec == Init /\ [][Next]_vars

-----------------------------------------------------------------------------
\* The stack that is kept: that of the outermost #if whose #else was seen.
KeptStack ==
    LET pp == nesting.pp_stack
        seen == {i \in 1 .. Len(pp) : pp[i].seen_else}
    IN  IF seen = {} THEN nesting.stack ELSE pp[First(seen)].stack_before_else

\* Lines between #else or #elif and #endif never affect the nesting stack:
\* "Preprocessor condition evaluates to false from #else/#elif up to #endif.
\* We still perform lint checks on these lines, but these do not affect
\* nesting stack" (UpdatePreprocessor()).  Whatever they hold, and however
\* conditions nest, the stack that is kept is the one the other lines alone
\* lead to.
ElseBranchesIgnored == KeptStack = active

\* The tokens of the lines that count, up to line n.
ActiveTokens(n) ==
    LET loop[i \in 0 .. n] ==
          IF i = 0 THEN [flags |-> <<>>, toks |-> <<>>]
          ELSE LET flags == SeeDirective(loop[i - 1].flags, lines[i].dir)
               IN  [flags |-> flags,
                    toks |-> loop[i - 1].toks
                               \o (IF Counts(flags) THEN lines[i].toks ELSE <<>>)]
    IN  loop[n].toks

\* Every head is followed by '{', ';' or ')' before any brace or other head.
HeadsComplete(toks) ==
    \A i \in 1 .. Len(toks) :
      toks[i] \in ClassKinds \union {"namespace"} =>
        LET behind == {j \in i + 1 .. Len(toks) :
                         toks[j] \in ClassKinds \union
                                      {"namespace", "{", "}", ";", ")"}}
        IN  behind = {} \/ toks[First(behind)] \in {"{", ";", ")"}

BraceDepth(toks) ==
    LET depth[i \in 0 .. Len(toks)] ==
          CASE i = 0 -> 0
            [] i > 0 /\ toks[i] = "{" -> depth[i - 1] + 1
            [] i > 0 /\ toks[i] = "}" -> IF depth[i - 1] = 0 THEN 0
                                         ELSE depth[i - 1] - 1
            [] OTHER -> depth[i - 1]
    IN  depth[Len(toks)]

\* "An object is pushed whenever we see a "{", and popped when we see a "}""
\* (_NestingState): with classes and namespaces whose heads wait for their
\* brace, forward declarations and struct arguments, the blocks that have
\* their brace are as many as the braces that are open.
OpenBlocksMatchBraces ==
    LET toks == ActiveTokens(linenum - 1)
    IN  HeadsComplete(toks) =>
          Len(SelectSeq(active, LAMBDA b : b.seen_open_brace)) = BraceDepth(toks)

\* Filters and verbosity, as the usage text has them: the last filter that
\* covers the category decides.
Allowed(r) ==
    LET m == {i \in 1 .. Len(settings.filters) :
                IsPrefix(settings.filters[i].prefix, r.category)}
    IN  /\ r.confidence >= settings.verbose_level
        /\ m # {} => settings.filters[CHOOSE i \in m : \A j \in m : j <= i].sign = "+"

Covers(nolint, category) ==
    \/ nolint.kind = "all"
    \/ nolint.kind = "known" /\ nolint.category = category

Marked(ls, r) ==
    r.line \in 1 .. Len(ls) /\ Covers(ls[r.line].nolint, r.category)

\* What Error() prints is what was asked for.  What it prints is allowed by the
\* filters and the verbosity; what is allowed and yet not printed has a NOLINT
\* for it on its own line of its own file; and a NOLINT is honoured for every
\* report made when its line or a later one is processed.  (CheckBraces() and
\* CheckEmptyBlockBody() report on later lines, whose NOLINT is not parsed yet.)
PrintedAsAsked ==
    \A i \in 1 .. Len(out.calls) :
      LET c == out.calls[i]
          raw == argv.files[c.at[1]].lines
      IN  /\ c.printed => Allowed(c.report)
          /\ Allowed(c.report) /\ ~c.printed => Marked(raw, c.report)
          /\ c.printed /\ c.report.line <= c.at[2] =>
               ~Marked(RemoveMultiLineComments(raw).lines, c.report)

\* The counters of PrintErrorCounts() and the exit status agree with what was
\* printed, over all files and for every counting style.
CountsAgree ==
    LET printed == SelectSeq(out.calls, LAMBDA c : c.printed)
        by == out.counts.errors_by_category
    IN  /\ out.counts.error_count = Len(printed)
        /\ \A key \in DOMAIN by :
             by[key] = Len(SelectSeq(printed, LAMBDA c :
                             CountKey(settings.counting, c.report.category) = key))
        /\ settings.counting \in {"toplevel", "detailed"} =>
             \A i \in 1 .. Len(printed) :
               CountKey(settings.counting, printed[i].report.category) \in DOMAIN by
        /\ pc = "exit" /\ printed # <<>> => status = 1

\* Error() prints exactly what the filters, the verbosity and the NOLINT
\* comments leave, across files, and the counters and the exit status of
\* main() agree with what was printed.
ReportsExact == PrintedAsAsked /\ CountsAgree

\* The includes before line n since the last directive that resets, without
\* repetitions.
IncludesBefore(n) ==
    {m \in 1 .. n - 1 :
       /\ lines[m].include # NoHeader
       /\ \A k \in m .. n : lines[k].dir \notin Resetting
       /\ \A k \in 1 .. m - 1 : lines[k].include.name # lines[m].include.name}

TypeAt(n) == ClassifyInclude(lines[n].include)
IsMine(n) == TypeAt(n) \in {"LIKELY_MY", "POSSIBLE_MY"}

Rank(n) ==
    CASE TypeAt(n) = "C_SYS" -> 2
      [] TypeAt(n) = "CPP_SYS" -> 3
      [] IsMine(n) /\ \A m \in IncludesBefore(n) : IsMine(m) -> 1
      [] OTHER -> 4

\* A system header is reported as out of order exactly when a header of a
\* later group precedes it since the last reset; a header the file may
\* implement never is.  No report is lost or added by repetitions or by
\* headers that were misplaced themselves.
OrderReportsExact ==
    \A n \in 1 .. linenum - 1 :
      pc = "lines" /\ lines[n].include # NoHeader =>
        ((\E i \in 1 .. Len(out.calls) :
            /\ out.calls[i].at = <<nfile, n>>
            /\ out.calls[i].report.category = <<"build", "include", "order">>)
         <=> /\ TypeAt(n) \in {"C_SYS", "CPP_SYS"}
             /\ \A k \in 1 .. n - 1 : lines[k].include.name # lines[n].include.name
             /\ \E m \in IncludesBefore(n) : Rank(m) > Rank(n))

\* Parentheses open after line n.
ParenDepth(n) ==
    FoldLeft(LAMBDA a, l : a + Count(l.toks, "(") - Count(l.toks, ")"), 0,
             SubSeq(lines, 1, n))

\* Only inline assembly in a block leaves a parenthesis open at a line's end,
\* and no brace stands in it.
AsmOnly(n) ==
    \A m \in 1 .. n :
      /\ ParenDepth(m) \in {0, 1}
      /\ ParenDepth(m) > ParenDepth(m - 1) =>
           StartsAsm(lines[m].toks, 1) /\ BraceDepth(ActiveTokens(m - 1)) > 0
      /\ ParenDepth(m - 1) = 1 => ~Has(lines[m], {"{", "}"})
      /\ ~At(lines[m].toks, 1, <<"asm", "{">>)

\* Line m is text of an inline assembly.
AsmText(m) == ParenDepth(m - 1) = 1 \/ ParenDepth(m) = 1

\* The lines counted for the current function are the lines behind its head
\* that have code and are not text of inline assembly; and a function that is
\* too long for the verbosity is reported with a level the verbosity lets
\* through: the trigger and the level of _FunctionState.Check() agree.
FunctionLinesExact ==
    /\ function.in_a_function /\ AsmOnly(linenum - 1) =>
         LET heads == {m \in 1 .. linenum - 1 :
                         /\ lines[m].func # "none" /\ ~AsmText(m)
                         /\ BodyLine(lines, m) # 0
                         /\ ~Has(lines[BodyLine(lines, m)], {";", "}"})}
             head == CHOOSE m \in heads : \A k \in heads : k <= m
             counted == {m \in head + 1 .. linenum - 1 :
                           /\ ~lines[m].blank /\ ~AsmText(m)
                           /\ lines[m].func = "none"}
         IN  function.lines_in_function = Cardinality(counted)
    /\ \A i \in 1 .. Len(out.calls) :
         out.calls[i].report.category = <<"readability", "fn", "size">> =>
           out.calls[i].report.confidence >= settings.verbose_level

\* Every "};" is reported at most once, although the check runs forward from
\* every opening brace and looks for the closing one across lines.
SemicolonsReportedOnce ==
    \A m \in 1 .. Len(lines) :
      LET toks == lines[m].toks
          at(c) == /\ pc = "lines" /\ c.at[1] = nfile
                   /\ c.report = Report(m, <<"readability", "braces">>, 4)
      IN  Len(SelectSeq(out.calls, at))
            <= Cardinality({i \in 1 .. Len(toks) : At(toks, i, <<"}", ";">>)})
=============================================================================
