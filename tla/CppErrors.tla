------------------------------ MODULE CppErrors ------------------------------
(***************************************************************************)
(* How cpplint.py decides about and counts an error: the NOLINT            *)
(* suppressions, the filters, the verbosity and _CppLintState.             *)
(*                                                                         *)
(* A category is the sequence of the words of its name, so that a filter,  *)
(* a prefix of the name, is a prefix of the sequence: "build/include" is   *)
(* <<"build", "include">> and covers <<"build", "include", "order">>.      *)
(* The suppressions are pairs of a category and a line; the empty category *)
(* stands for None, which suppresses all.                                  *)
(***************************************************************************)
EXTENDS Integers, Sequences, SequencesExt

\* One call of error(): its line, category and confidence.
Report(line, category, confidence) ==
    [line |-> line, category |-> category, confidence |-> confidence]

All == <<>>

DefaultFilters == <<[sign |-> "-", prefix |-> <<"build", "include", "alpha">>]>>

\* SetFilters(): the flag's filters come after the default ones; one without
\* a sign raises ValueError.
SetFilters(filters) == DefaultFilters \o filters
BadFilter(filters) == \E i \in 1 .. Len(filters) : filters[i].sign = ""

(***************************************************************************)
(* NOLINT.  A line's comment is [kind, category]: "none", "all" for NOLINT *)
(* and NOLINT( * ), "known" and "unknown" for a category in parentheses.   *)
(***************************************************************************)
ParseNolintSuppressions(suppressions, nolint, linenum) ==
    CASE nolint.kind = "all" -> suppressions \union {<<All, linenum>>}
      [] nolint.kind = "known" ->
           suppressions \union {<<nolint.category, linenum>>}
      [] OTHER -> suppressions

NolintErrors(nolint, linenum) ==
    IF nolint.kind = "unknown"
    THEN <<Report(linenum, <<"readability", "nolint">>, 5)>> ELSE <<>>

\* ResetNolintSuppressions()
NoSuppressions == {}

IsErrorSuppressedByNolint(suppressions, category, linenum) ==
    \/ <<category, linenum>> \in suppressions
    \/ <<All, linenum>> \in suppressions

\* The loop over the filters in _ShouldPrintError().
IsFiltered(filters, category) ==
    LET loop[i \in 0 .. Len(filters)] ==
          IF i = 0 THEN FALSE
          ELSE IF IsPrefix(filters[i].prefix, category)
               THEN filters[i].sign = "-"
               ELSE loop[i - 1]
    IN  loop[Len(filters)]

ShouldPrintError(settings, suppressions, r) ==
    /\ ~IsErrorSuppressedByNolint(suppressions, r.category, r.line)
    /\ r.confidence >= settings.verbose_level
    /\ ~IsFiltered(settings.filters, r.category)

(***************************************************************************)
(* The counters.                                                           *)
(***************************************************************************)
ZeroCounts == [error_count |-> 0, errors_by_category |-> <<>>]

CountKey(counting, category) ==
    IF counting = "detailed" THEN category ELSE <<Head(category)>>

IncrementErrorCount(counts, counting, category) ==
    LET key == CountKey(counting, category)
        by == counts.errors_by_category
    IN  [error_count |-> counts.error_count + 1,
         errors_by_category |->
           IF counting \in {"toplevel", "detailed"}
           THEN [c \in DOMAIN by \union {key} |->
                   (IF c \in DOMAIN by THEN by[c] ELSE 0)
                     + (IF c = key THEN 1 ELSE 0)]
           ELSE by]

\* Error(): out collects the counters and every call, with its outcome and
\* with the file and line that were being processed.
Error(out, settings, suppressions, at, r) ==
    LET printed == ShouldPrintError(settings, suppressions, r)
    IN  [counts |-> IF printed
                    THEN IncrementErrorCount(out.counts, settings.counting,
                                             r.category)
                    ELSE out.counts,
         calls |-> Append(out.calls,
                          [at |-> at, report |-> r, printed |-> printed])]

Errors(out, settings, suppressions, at, reports) ==
    LET loop[i \in 0 .. Len(reports)] ==
          IF i = 0 THEN out
          ELSE Error(loop[i - 1], settings, suppressions, at, reports[i])
    IN  loop[Len(reports)]
=============================================================================
