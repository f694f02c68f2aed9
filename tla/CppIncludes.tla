----------------------------- MODULE CppIncludes -----------------------------
(***************************************************************************)
(* Includes in cpplint.py: _IncludeState, _ClassifyInclude(),              *)
(* CheckIncludeLine(), the part of CheckLanguage() that drives them, and   *)
(* CheckForIncludeWhatYouUse().                                            *)
(*                                                                         *)
(* A header is the record of what the code asks about its path:            *)
(*   name     the path itself          order  its rank in canonical order  *)
(*   system   written with <>          cpp    one of _CPP_HEADERS          *)
(*   base     "same" base name as the file, same "first" component, "other"*)
(*   dir      it lives in the file's directory, or in ../public            *)
(*   bare     a .h file without its directory                              *)
(*   stream   one of the stream classes                                    *)
(* The line's field include holds a header, or NoHeader.                   *)
(***************************************************************************)
EXTENDS CppErrors

NoHeader == [name |-> "", order |-> 0, system |-> FALSE, cpp |-> FALSE,
             base |-> "other", dir |-> FALSE, bare |-> FALSE, stream |-> FALSE]

INITIAL_SECTION == 0
MY_H_SECTION == 1
C_SECTION == 2
CPP_SECTION == 3
OTHER_H_SECTION == 4

\* seen maps an included path to its line; the empty last header is rank 0.
InitInclude == [section |-> INITIAL_SECTION, last_header |-> 0, seen |-> <<>>]

\* Fault: the section stays.
KeepSection(is) == [is EXCEPT !.last_header = 0]

ResetSection(is) == [is EXCEPT !.section = INITIAL_SECTION, !.last_header = 0]

ClassifyInclude(h) ==
    CASE h.system /\ h.cpp -> "CPP_SYS"
      [] h.system /\ ~h.cpp -> "C_SYS"
      [] ~h.system /\ h.base = "same" /\ h.dir -> "LIKELY_MY"
      [] ~h.system /\ h.base \in {"same", "first"} /\ ~(h.base = "same" /\ h.dir) ->
           "POSSIBLE_MY"
      [] OTHER -> "OTHER"

\* The section a header leads to, -1 when it is out of order.
NextSection(section, type) ==
    CASE type = "C_SYS" -> IF section <= C_SECTION THEN C_SECTION ELSE -1
      [] type = "CPP_SYS" -> IF section <= CPP_SECTION THEN CPP_SECTION ELSE -1
      [] type \in {"LIKELY_MY", "POSSIBLE_MY"} ->
           IF section <= MY_H_SECTION THEN MY_H_SECTION ELSE OTHER_H_SECTION
      [] type = "OTHER" -> OTHER_H_SECTION

\* CheckNextIncludeOrder(): the state it leaves.
CheckNextIncludeOrder(is, type) ==
    LET next == NextSection(is.section, type)
    IN  CASE next = -1 -> [is EXCEPT !.last_header = 0]
          [] next # -1 ->
               [is EXCEPT !.section = next,
                          !.last_header = IF next = is.section THEN @ ELSE 0]

OutOfOrder(is, h) == NextSection(is.section, ClassifyInclude(h)) = -1

IsInAlphabeticalOrder(is, h, afterBlank) == is.last_header <= h.order \/ afterBlank

When(p, r) == IF p THEN <<r>> ELSE <<>>

\* CheckIncludeLine(): the state after it and its reports.  afterBlank: the
\* line before is blank.  test: the file is a unit test.
CheckIncludeLine(is, h, linenum, afterBlank, test) ==
    LET again == h.name \in DOMAIN is.seen
        ordered == CheckNextIncludeOrder(is, ClassifyInclude(h))
        e(words, confidence) == Report(linenum, words, confidence)
    IN  [state |->
           IF again THEN is
           ELSE [ordered EXCEPT
                   !.last_header = h.order,
                   !.seen = [n \in DOMAIN is.seen \union {h.name} |->
                               IF n = h.name THEN linenum ELSE is.seen[n]]],
         errors |->
           When(h.bare, e(<<"build", "include">>, 4))
           \o When(again, e(<<"build", "include">>, 4))
           \o When(~again /\ OutOfOrder(is, h),
                   e(<<"build", "include", "order">>, 4))
           \o When(~again /\ ~IsInAlphabeticalOrder(ordered, h, afterBlank),
                   e(<<"build", "include", "alpha">>, 4))
           \o When(h.stream /\ ~test, e(<<"readability", "streams">>, 3))]

Resetting == {"ifdef", "elif", "else", "endif"}

\* CheckLanguage() up to the reset of the section; an empty line returns
\* at once.
CheckLanguage(is, line, linenum, afterBlank, test) ==
    CASE line.include # NoHeader ->
           CheckIncludeLine(is, line.include, linenum, afterBlank, test)
      [] line.include = NoHeader /\ line.dir \in Resetting ->
           [state |-> ResetSection(is), errors |-> <<>>]
      [] OTHER -> [state |-> is, errors |-> <<>>]

(***************************************************************************)
(* CheckForIncludeWhatYouUse().  line.uses holds the headers whose names   *)
(* the line needs; own maps a path to the includes of the readable header  *)
(* of the same module behind it.                                           *)
(***************************************************************************)
Required(lines) ==
    UNION {lines[n].uses : n \in {m \in 1 .. Len(lines) : lines[m].dir = "none"}}

\* The last line that needs h is the one reported.
LastUse(lines, h) ==
    LET uses == {n \in 1 .. Len(lines) : lines[n].dir = "none"
                                         /\ h \in lines[n].uses}
    IN  CHOOSE n \in uses : \A m \in uses : m <= n

\* The includes of the file and of its own headers, UpdateIncludeState().
KnownIncludes(is, own) ==
    DOMAIN is.seen
      \union UNION {own[h] : h \in DOMAIN own \intersect DOMAIN is.seen}

CheckForIncludeWhatYouUse(is, lines, extension, own) ==
    LET header_found == DOMAIN own \intersect DOMAIN is.seen # {}
        missing == SetToSeq(Required(lines) \ KnownIncludes(is, own))
    IN  IF extension = "cc" /\ ~header_found THEN <<>>
        ELSE [i \in 1 .. Len(missing) |->
                Report(LastUse(lines, missing[i]),
                       <<"build", "include", "what", "you", "use">>, 4)]
=============================================================================
